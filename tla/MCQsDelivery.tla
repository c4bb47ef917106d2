---------------------------- MODULE MCQsDelivery -----------------------------
(***************************************************************************)
(* Small instances of QS delivery for TLC.                                 *)
(***************************************************************************)
EXTENDS QsDelivery, TLC

CONSTANTS s1, s2

TwoStreams == {s1, s2}
Symmetry2 == Permutations(TwoStreams)

\* Bound: the first message is in the queue before anybody listens.
MessageWaits == ratchet = 0 => ratchet' = 1
=============================================================================
