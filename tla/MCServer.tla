------------------------------ MODULE MCServer ------------------------------
(***************************************************************************)
(* What clients do with the services, for TLC: the queue of a QS client,   *)
(* the queue of a username, the tokens of the authentication service,      *)
(* connecting by username, the commits of a group, and its members.  The   *)
(* modules share no variable, so what one of them does is the same         *)
(* whatever state the others are in: a behaviour has one part that acts,   *)
(* and the others stay in their initial states.  The queue is a part       *)
(* three times, with clients that ask for anything, with the app alone and *)
(* with the background handler alone.                                      *)
(***************************************************************************)
EXTENDS MCQsDelivery, UsernameQueue, Tokens, Connections, MCGroupCommit, MCMembership

VARIABLE part   \* the part that acts

DeliveryParts == {"queue", "app", "handler"}
NameParts == {"username", "tokens", "connections"}
GroupParts == {"commits", "members"}

ServerInit ==
  /\ part \in DeliveryParts \union NameParts \union GroupParts
  /\ Init /\ UsernameQueueInit /\ TokensInit /\ GroupInit /\ MembershipInit
  /\ ConnectionsInit /\ (part # "connections" => username = "none")

\* Bound: disturbances of the queue and of the app.  Waking the handler is one already.
OneDisturbance == disturbed' <= 1

DeliveryNext ==
  /\ \/ part = "queue" /\ QueueNext /\ UNCHANGED clientVars /\ OneDisturbance
     \/ part = "app" /\ Next /\ mode'["bg"] = "off" /\ OneDisturbance
     \/ part = "handler" /\ Next /\ mode'["fg"] = "idle"
  /\ MessageWaits

\* The senders are alike: carol makes the first attempt to connect.
CarolFirst == sender'[1] \in {NoSender, "carol"}

NamesNext ==
  \/ part = "username" /\ UsernameQueueNext /\ UNCHANGED <<tokensVars, connectionVars>>
  \/ part = "tokens" /\ TokensNext /\ UNCHANGED <<usernameQueueVars, connectionVars>>
  \/ /\ part = "connections" /\ ConnectionsNext /\ CarolFirst
     /\ UNCHANGED <<usernameQueueVars, tokensVars>>

GroupsNext ==
  \/ part = "commits" /\ GroupNext /\ AliceFirst /\ UNCHANGED membershipVars
  \/ part = "members" /\ MembershipNext /\ UNCHANGED groupVars

DeliveryRests == UNCHANGED vars
NamesRest == UNCHANGED <<usernameQueueVars, tokensVars, connectionVars>>
GroupsRest == UNCHANGED <<groupVars, membershipVars>>

ServerNext ==
  /\ UNCHANGED part
  /\ \/ DeliveryNext /\ NamesRest /\ GroupsRest
     \/ NamesNext /\ DeliveryRests /\ GroupsRest
     \/ GroupsNext /\ DeliveryRests /\ NamesRest

serverVars == <<part, vars, usernameQueueVars, tokensVars, connectionVars, groupVars,
                membershipVars>>

ServerSpec == ServerInit /\ [][ServerNext]_serverVars
=============================================================================
