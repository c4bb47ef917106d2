------------------------------ MODULE Reactions ------------------------------
(***************************************************************************)
(* One emoji of one user on one message: adding and taking back the        *)
(* reaction (clients/reactions.rs), the queue of reactions and the loop    *)
(* that sends them (outbound_service/reaction_queue.rs and reactions.rs),  *)
(* and the peer that applies them (handle_reaction in process_qs.rs).      *)
(* Reactions are numbered: every addition has a MIMI id of its own.        *)
(***************************************************************************)
EXTENDS Naturals

CONSTANTS
  MaxToggles,        \* bound: how often the user adds the reaction
  ReactionFaults,    \* which faults and outside events may happen
  MaxReactionFaults  \* bound: how many of them

ASSUME ReactionAssumption == MaxToggles \in Nat /\ MaxReactionFaults \in Nat

VARIABLES
  ownReaction,    \* the row of the reaction table, 0 if there is none
  reactionRows,   \* reaction_queue: additions and tombstones
  lockedReactions,\* rows with locked_by = the task_id of the current run
  reactionLoop,   \* where send_queued_reactions is
  inHand,         \* the dequeued row
  peerReaction,   \* the reaction that the peer shows, 0 if none
  chatBlocked,    \* Chat::is_blocked: the user has blocked the contact
  toggles,        \* how many reactions were added
  outOfOrder,     \* history: a row was sent before an earlier one
  dropped,        \* history: a row was given up after an error, in a blocked chat,
                  \* or though no queue has it
  reactionFaults  \* how many faults have happened

reactionsVars == <<ownReaction, reactionRows, lockedReactions, reactionLoop, inHand,
                   peerReaction, chatBlocked, toggles, outOfOrder, dropped, reactionFaults>>

NoRow == [tombstone |-> FALSE, id |-> 0]

\* The order of created_at: reactions are added one by one, each before it is
\* taken back.
Before(q, r) == q.id < r.id \/ (q.id = r.id /\ ~q.tombstone /\ r.tombstone)

ReactionsInit ==
  /\ ownReaction = 0 /\ reactionRows = {} /\ lockedReactions = {}
  /\ reactionLoop = "off" /\ inHand = NoRow
  /\ peerReaction = 0 /\ chatBlocked = FALSE /\ toggles = 0
  /\ outOfOrder = FALSE /\ dropped = FALSE /\ reactionFaults = 0

ReactionFault(k) ==
  /\ k \in ReactionFaults
  /\ reactionFaults < MaxReactionFaults
  /\ reactionFaults' = reactionFaults + 1

\* block_contact and unblock_contact.
BlockContact ==
  /\ \/ ~chatBlocked /\ ReactionFault("block")
     \/ chatBlocked /\ UNCHANGED reactionFaults
  /\ chatBlocked' = ~chatBlocked
  /\ UNCHANGED <<ownReaction, reactionRows, lockedReactions, reactionLoop, inHand, peerReaction,
                 toggles, outOfOrder, dropped>>

\* CoreUser::send_reaction; a no-op if the reaction is there, refused in a blocked chat.
AddReaction ==
  /\ ~chatBlocked /\ ownReaction = 0 /\ toggles < MaxToggles
  /\ toggles' = toggles + 1
  /\ ownReaction' = toggles + 1
  /\ reactionRows' = reactionRows \union {[tombstone |-> FALSE, id |-> toggles + 1]}
  /\ UNCHANGED <<lockedReactions, reactionLoop, inHand, peerReaction, chatBlocked, outOfOrder,
                 dropped, reactionFaults>>

(* CoreUser::delete_reaction: the row goes at once and a tombstone is      *)
(* queued, but not in a blocked chat (enqueue_reaction_in_transaction).    *)
DeleteReaction ==
  /\ ownReaction # 0
  /\ ownReaction' = 0
  /\ reactionRows' = IF chatBlocked THEN reactionRows
                     ELSE reactionRows \union {[tombstone |-> TRUE, id |-> ownReaction]}
  /\ dropped' = (dropped \/ chatBlocked)
  /\ UNCHANGED <<lockedReactions, reactionLoop, inHand, peerReaction, chatBlocked, toggles,
                 outOfOrder, reactionFaults>>

BeginReactions ==
  /\ reactionLoop = "off" /\ reactionRows # {}
  /\ reactionLoop' = "loop" /\ lockedReactions' = {}
  /\ UNCHANGED <<ownReaction, reactionRows, inHand, peerReaction, chatBlocked, toggles, outOfOrder,
                 dropped, reactionFaults>>

LeaveReactions == reactionLoop' = "off" /\ lockedReactions' = {} /\ inHand' = NoRow

EndReactions ==
  /\ reactionLoop = "loop" /\ reactionRows \subseteq lockedReactions
  /\ LeaveReactions
  /\ UNCHANGED <<ownReaction, reactionRows, peerReaction, chatBlocked, toggles, outOfOrder, dropped,
                 reactionFaults>>

\* The run is cancelled, or the process dies.
StopReactions ==
  /\ \/ ReactionFault("cancel") /\ reactionLoop = "loop"
     \/ ReactionFault("crash") /\ reactionLoop # "off"
  /\ LeaveReactions
  /\ UNCHANGED <<ownReaction, reactionRows, peerReaction, chatBlocked, toggles, outOfOrder,
                 dropped>>

\* ReactionQueue::dequeue: the oldest row that this run has not locked.
DequeueReaction ==
  /\ reactionLoop = "loop"
  /\ \E r \in reactionRows \ lockedReactions :
       /\ \A q \in reactionRows \ lockedReactions : ~Before(q, r)
       /\ inHand' = r
       /\ lockedReactions' = lockedReactions \union {r}
  /\ reactionLoop' = "dequeued"
  /\ UNCHANGED <<ownReaction, reactionRows, peerReaction, chatBlocked, toggles, outOfOrder, dropped,
                 reactionFaults>>

NextReaction == reactionLoop' = "loop" /\ inHand' = NoRow

RemoveReactionRow ==
  /\ reactionRows' = reactionRows \ {inHand}
  /\ lockedReactions' = lockedReactions \ {inHand}
  /\ NextReaction

\* Mutant of Vanished: a tombstone, whose reaction is gone, is skipped as well.
VanishedAny(r) == ownReaction # r.id

\* An addition whose reaction was taken back before it could be sent.
Vanished(r) == ~r.tombstone /\ ownReaction # r.id

SkipReaction ==
  /\ reactionLoop = "dequeued" /\ Vanished(inHand)
  /\ RemoveReactionRow
  /\ UNCHANGED <<ownReaction, peerReaction, chatBlocked, toggles, outOfOrder, dropped,
                 reactionFaults>>

\* send_reaction_message: nothing is sent in a blocked chat ("unheard").
CheckReaction ==
  /\ reactionLoop = "dequeued" /\ ~Vanished(inHand)
  /\ reactionLoop' = IF chatBlocked THEN "unheard" ELSE "request"
  /\ UNCHANGED <<ownReaction, reactionRows, lockedReactions, inHand, peerReaction, chatBlocked,
                 toggles, outOfOrder, dropped, reactionFaults>>

(* A resync or a chat operation is pending, or a sibling device has used   *)
(* the generation: the row stays, locked, for a later run.                 *)
LeaveReaction ==
  /\ ReactionFault("defer")
  /\ reactionLoop = "request" \/ (reactionLoop = "dequeued" /\ ~Vanished(inHand))
  /\ NextReaction
  /\ UNCHANGED <<ownReaction, reactionRows, lockedReactions, peerReaction, chatBlocked, toggles,
                 outOfOrder, dropped>>

(* The DS accepts and the peer applies the row: a tombstone deletes the    *)
(* reaction it names, an addition is stored unless the user has one.       *)
Apply(r) ==
  /\ peerReaction' = IF r.tombstone THEN IF peerReaction = r.id THEN 0 ELSE peerReaction
                     ELSE IF peerReaction = 0 THEN r.id ELSE peerReaction
  /\ outOfOrder' = (outOfOrder \/ \E q \in reactionRows : Before(q, r))

AcceptReaction ==
  /\ reactionLoop = "request"
  /\ Apply(inHand)
  /\ reactionLoop' = "accepted"
  /\ UNCHANGED <<ownReaction, reactionRows, lockedReactions, inHand, chatBlocked, toggles, dropped,
                 reactionFaults>>

\* The DS accepts, but its fan-out fails, which it only logs.
ReactionNotPassedOn ==
  /\ ReactionFault("dispatch")
  /\ reactionLoop = "request"
  /\ reactionLoop' = "unheard"
  /\ UNCHANGED <<ownReaction, reactionRows, lockedReactions, inHand, peerReaction, chatBlocked,
                 toggles, outOfOrder, dropped>>

\* SendOutcome::Sent: the row goes, whether or not the peer will have it.
RemoveSentReaction ==
  /\ reactionLoop \in {"accepted", "unheard"}
  /\ dropped' = (dropped \/ reactionLoop = "unheard")
  /\ RemoveReactionRow
  /\ UNCHANGED <<ownReaction, peerReaction, chatBlocked, toggles, outOfOrder, reactionFaults>>

(* The request or its answer is lost, or the DS refuses: the row is        *)
(* dropped and an addition rolled back (rollback_failed_reaction).         *)
RollbackReaction ==
  /\ ReactionFault("network")
  /\ reactionLoop = "request"
  /\ Apply(inHand) \/ UNCHANGED <<peerReaction, outOfOrder>>
  /\ dropped' = TRUE
  /\ ownReaction' = IF ~inHand.tombstone /\ ownReaction = inHand.id THEN 0 ELSE ownReaction
  /\ RemoveReactionRow
  /\ UNCHANGED <<chatBlocked, toggles>>

ReactionsStep ==
  \/ BeginReactions \/ EndReactions \/ DequeueReaction
  \/ SkipReaction \/ CheckReaction \/ AcceptReaction \/ RemoveSentReaction

ReactionsNext ==
  \/ AddReaction \/ DeleteReaction \/ BlockContact
  \/ ReactionsStep
  \/ StopReactions \/ LeaveReaction \/ ReactionNotPassedOn \/ RollbackReaction

ReactionsFairness == WF_reactionsVars(ReactionsStep)

ReactionsSpec == ReactionsInit /\ [][ReactionsNext]_reactionsVars /\ ReactionsFairness

-----------------------------------------------------------------------------
(***************************************************************************)
(* Properties.                                                             *)
(***************************************************************************)

(* Once the queue is empty, user and peer see the same reaction, however   *)
(* often it was added and taken back while its rows were queued, sent or   *)
(* sent again after a crash, unless a row was sent before an earlier one   *)
(* that was deferred (outOfOrder), or was given up (dropped): after an     *)
(* error, by taking the reaction back or by the loop while the chat was    *)
(* blocked, or because the DS could not pass it on (send_queued_reactions, *)
(* send_reaction_message, enqueue_reaction_in_transaction).                *)
ReactionsAgree ==
  reactionRows = {} /\ ~dropped /\ ~outOfOrder => peerReaction = ownReaction

=============================================================================
