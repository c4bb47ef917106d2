---------------------------- MODULE MCMembership ----------------------------
(***************************************************************************)
(* A group of three members for TLC.                                       *)
(***************************************************************************)
EXTENDS Membership

MCFirstMembers == <<"alice", "bob", "carol">>
=============================================================================
