---------------------------- MODULE MCGroupCommit ----------------------------
(***************************************************************************)
(* Small instances of a group for TLC.                                     *)
(***************************************************************************)
EXTENDS GroupCommit

CONSTANTS alice, bob

TwoMembers == {alice, bob}

\* The members are alike: alice makes the first commit.
AliceFirst == staged' # <<>> => Author(1)' = alice
=============================================================================
