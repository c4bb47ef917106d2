---------------------------- MODULE ReliableQueue ----------------------------
(***************************************************************************)
(* What the queue service and its client promise together: messages are    *)
(* numbered in the order in which they are sent, and the receiver takes    *)
(* them one by one in that order, each exactly once, either handling a     *)
(* message or refusing it.  Nothing is lost, repeated or reordered.        *)
(***************************************************************************)
EXTENDS Naturals, Sequences

VARIABLES
  sent,      \* how many messages have been sent
  settled,   \* the messages the receiver is through with
  received   \* the messages it has handled, in order

queue == <<sent, settled, received>>

RQInit ==
  /\ sent = 0
  /\ settled = {}
  /\ received = <<>>

Send ==
  /\ sent' = sent + 1
  /\ UNCHANGED <<settled, received>>

\* The oldest message the receiver has not settled.
Settle(n) ==
  /\ n \in 0..(sent - 1)
  /\ settled = 0..(n - 1)
  /\ settled' = 0..n
  /\ UNCHANGED sent

Receive == \E n \in 0..(sent - 1) : Settle(n) /\ received' = Append(received, n)

Refuse == \E n \in 0..(sent - 1) : Settle(n) /\ UNCHANGED received

RQNext == Send \/ Receive \/ Refuse

RQSpec == RQInit /\ [][RQNext]_queue
=============================================================================
