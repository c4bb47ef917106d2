------------------------------- MODULE Outbox -------------------------------
(***************************************************************************)
(* Sending, editing and deleting chat messages: what the user asks for     *)
(* (clients/message.rs), the queue of unsent messages                      *)
(* (outbound_service/chat_message_queue.rs), the loop of the outbound      *)
(* service that sends them (outbound_service/chat_messages.rs) and what a  *)
(* peer makes of them (handle_application_message and handle_message_edit  *)
(* in clients/process/process_qs.rs).  A version stands for a content and  *)
(* its MIMI id.  The peer handles what the DS accepts, in that order.      *)
(***************************************************************************)
EXTENDS Naturals

CONSTANTS
  Messages,        \* the messages the user may write
  MaxRequests,     \* bound: sends, edits and deletions
  OutboxFaults,    \* which faults and outside events may happen
  MaxOutboxFaults  \* bound: how many of them

ASSUME OutboxAssumption ==
  /\ "none" \notin Messages
  /\ MaxRequests \in Nat /\ MaxOutboxFaults \in Nat

(* A row of the message table; version 0: there is none.  The versions     *)
(* that the content has replaced in turn are a history field.              *)
NoMessage == [version |-> 0, null |-> FALSE, replaces |-> 0, earlier |-> {},
              sent |-> FALSE, failed |-> FALSE]

VARIABLES
  stored,        \* the message table
  ownEdits,      \* message_edit: earlier versions of each message
  loadedForUser, \* the copy the user's edit or deletion starts from
  unsentRows,    \* chat_message_queue: created_at of the row of each message, 0: no row
  lockedByRun,   \* rows with locked_by = the task_id of the current run
  outboxLoop,    \* where send_queued_messages is
  current,       \* the message being sent and the loop's copy of it
  acceptedByDs,  \* versions the DS has accepted
  peerShows,     \* the version a peer shows of each message, 0 if none
  peerEdits,     \* message_edit of the peer
  versions,      \* how many versions the user has asked for
  lastRequest,   \* history: the user's last version of each message
  skippedUnsent, \* history: messages dropped from the queue unsent
  overtaken,     \* history: messages changed while a copy of them was sent
  sentTwice,     \* history: messages of which the DS got a version twice
  outboxFaults   \* how many faults have happened

userVars == <<ownEdits, loadedForUser, versions, lastRequest, overtaken>>
peerVars == <<acceptedByDs, peerShows, peerEdits, sentTwice>>
outboxVars == <<stored, unsentRows, lockedByRun, outboxLoop, current,
                userVars, peerVars, skippedUnsent, outboxFaults>>

NoCopy == [id |-> "none", copy |-> NoMessage]

OutboxInit ==
  /\ stored = [m \in Messages |-> NoMessage]
  /\ ownEdits = [m \in Messages |-> {}] /\ loadedForUser = NoCopy
  /\ unsentRows = [m \in Messages |-> 0] /\ lockedByRun = {}
  /\ outboxLoop = "off" /\ current = NoCopy
  /\ acceptedByDs = {}
  /\ peerShows = [m \in Messages |-> 0]
  /\ peerEdits = [m \in Messages |-> {}] /\ sentTwice = {}
  /\ versions = 0
  /\ lastRequest = [m \in Messages |-> 0]
  /\ skippedUnsent = {} /\ overtaken = {} /\ outboxFaults = 0

OutboxFault(k) ==
  /\ k \in OutboxFaults
  /\ outboxFaults < MaxOutboxFaults
  /\ outboxFaults' = outboxFaults + 1

Exists(m) == stored[m].version # 0

-----------------------------------------------------------------------------
(***************************************************************************)
(* The user.                                                               *)
(***************************************************************************)

Queued(m) == unsentRows[m] # 0

\* ChatMessageQueue::enqueue, ON CONFLICT DO NOTHING; requests follow each other.
Enqueue(m) == unsentRows' = [unsentRows EXCEPT ![m] = IF Queued(m) THEN @ ELSE versions + 1]

\* store_unsent_message and enqueue_chat_message_in_transaction.
Submit(m, message) ==
  /\ versions < MaxRequests
  /\ versions' = versions + 1
  /\ stored' = [stored EXCEPT ![m] = [message EXCEPT !.version = versions + 1]]
  /\ lastRequest' = [lastRequest EXCEPT ![m] = versions + 1]
  /\ Enqueue(m)
  /\ overtaken' = overtaken \union
       (IF outboxLoop \in {"request", "accepted", "stored"} THEN {current.id} \intersect {m} ELSE {})
  /\ loadedForUser' = NoCopy
  /\ UNCHANGED <<lockedByRun, outboxLoop, current, peerVars, skippedUnsent, outboxFaults>>

\* CoreUser::send_message of a new message.
SendMessage(m) ==
  /\ lastRequest[m] = 0 /\ loadedForUser = NoCopy
  /\ Submit(m, NoMessage)
  /\ UNCHANGED ownEdits

\* delete_message, or the cubit's send_message of an edit, loads the message.
LoadMessage(m) ==
  /\ Exists(m) /\ ~stored[m].null /\ loadedForUser = NoCopy /\ versions < MaxRequests
  /\ loadedForUser' = [id |-> m, copy |-> stored[m]]
  /\ UNCHANGED <<stored, unsentRows, lockedByRun, outboxLoop, current, peerVars,
                 ownEdits, versions, lastRequest, overtaken, skippedUnsent, outboxFaults>>

(* send_message with replaces: an edit is stored in message_edit, whose    *)
(* primary key is the MIMI id it replaces; a deletion is not.              *)
ReplaceMessage(null) ==
  LET m == loadedForUser.id
      old == loadedForUser.copy
  IN  /\ loadedForUser # NoCopy /\ Exists(m) /\ (null \/ old.version \notin ownEdits[m])
      /\ ownEdits' = [ownEdits EXCEPT ![m] = @ \union (IF null THEN {} ELSE {old.version})]
      /\ Submit(m, [NoMessage EXCEPT !.null = null, !.replaces = old.version,
                                     !.earlier = old.earlier \union {old.version}])

\* The edit violates the primary key; the user gets an error.
EditFails ==
  /\ loadedForUser # NoCopy /\ Exists(loadedForUser.id)
  /\ loadedForUser.copy.version \in ownEdits[loadedForUser.id]
  /\ loadedForUser' = NoCopy
  /\ UNCHANGED <<stored, unsentRows, lockedByRun, outboxLoop, current, peerVars,
                 ownEdits, versions, lastRequest, overtaken, skippedUnsent, outboxFaults>>

\* delete_message_locally; the queue row and the edits go with the message.
DeleteLocally(m) ==
  /\ OutboxFault("local")
  /\ Exists(m) /\ loadedForUser = NoCopy
  /\ stored' = [stored EXCEPT ![m] = NoMessage]
  /\ ownEdits' = [ownEdits EXCEPT ![m] = {}]
  /\ unsentRows' = [unsentRows EXCEPT ![m] = 0]
  /\ lockedByRun' = lockedByRun \ {m}
  /\ UNCHANGED <<outboxLoop, current, loadedForUser, versions, lastRequest, overtaken,
                 peerVars, skippedUnsent>>

-----------------------------------------------------------------------------
(***************************************************************************)
(* send_queued_messages.                                                   *)
(***************************************************************************)

\* A run of the outbound service, under a new task_id.
BeginOutbox ==
  /\ outboxLoop = "off" /\ \E m \in Messages : Queued(m)
  /\ outboxLoop' = "loop" /\ lockedByRun' = {}
  /\ UNCHANGED <<stored, unsentRows, current, userVars, peerVars, skippedUnsent,
                 outboxFaults>>

\* The rows that this run has not locked.
NotLockedByRun == {m \in Messages : Queued(m)} \ lockedByRun

\* The run is over: nothing more to send, or the error of one message.
LeaveOutbox == outboxLoop' = "off" /\ lockedByRun' = {} /\ current' = NoCopy

EndOutbox ==
  /\ outboxLoop = "loop" /\ NotLockedByRun = {}
  /\ LeaveOutbox
  /\ UNCHANGED <<stored, unsentRows, userVars, peerVars, skippedUnsent, outboxFaults>>

\* The loop sees that the run is cancelled, or the process dies.
StopOutbox ==
  /\ \/ OutboxFault("cancel") /\ outboxLoop = "loop"
     \/ OutboxFault("crash") /\ outboxLoop # "off"
  /\ LeaveOutbox
  /\ UNCHANGED <<stored, unsentRows, userVars, peerVars, skippedUnsent>>

\* ChatMessageQueue::dequeue: the oldest row that this run has not locked.
Dequeue ==
  /\ outboxLoop = "loop"
  /\ \E m \in NotLockedByRun :
       /\ \A n \in NotLockedByRun : unsentRows[m] <= unsentRows[n]
       /\ current' = [NoCopy EXCEPT !.id = m]
       /\ lockedByRun' = lockedByRun \union {m}
  /\ outboxLoop' = "dequeued"
  /\ UNCHANGED <<stored, unsentRows, userVars, peerVars, skippedUnsent, outboxFaults>>

\* Back to the head of the loop, with the row left where it is.
NextRow == outboxLoop' = "loop" /\ current' = NoCopy

\* A chat operation is pending for the chat.
SkipForOperation ==
  /\ OutboxFault("operation")
  /\ outboxLoop = "dequeued"
  /\ NextRow
  /\ UNCHANGED <<stored, unsentRows, lockedByRun, userVars, peerVars, skippedUnsent>>

\* ChatMessageQueue::remove.
RemoveRow(m) ==
  /\ unsentRows' = [unsentRows EXCEPT ![m] = 0]
  /\ lockedByRun' = lockedByRun \ {m}
  /\ NextRow

(* send_chat_message returns Sent for a chat that is blocked or waits for  *)
(* a resync.                                                               *)
SkipUnsent ==
  /\ OutboxFault("resync")
  /\ outboxLoop = "dequeued" /\ Exists(current.id)
  /\ skippedUnsent' = skippedUnsent \union {current.id}
  /\ RemoveRow(current.id)
  /\ UNCHANGED <<stored, userVars, peerVars>>

\* Mutant of FailAll: the message that failed stays in the queue.
FailOthers ==
  /\ stored' = [m \in Messages |->
       IF Queued(m) THEN [stored[m] EXCEPT !.failed = TRUE] ELSE stored[m]]
  /\ unsentRows' = [m \in Messages |-> IF m = current.id THEN unsentRows[m] ELSE 0]
  /\ LeaveOutbox
  /\ UNCHANGED <<userVars, skippedUnsent>>

\* Err: remove_all_and_and_mark_as_failed, and the run ends.
FailAll ==
  /\ stored' = [m \in Messages |->
       IF Queued(m) THEN [stored[m] EXCEPT !.failed = TRUE] ELSE stored[m]]
  /\ unsentRows' = [m \in Messages |-> 0]
  /\ LeaveOutbox
  /\ UNCHANGED <<userVars, skippedUnsent>>

\* The message is gone or already sent.
LoadFails ==
  /\ outboxLoop = "dequeued"
  /\ ~Exists(current.id) \/ stored[current.id].sent
  /\ FailAll
  /\ UNCHANGED <<peerVars, outboxFaults>>

\* The read transaction of send_chat_message, and new_mls_message.
LoadUnsent ==
  /\ outboxLoop = "dequeued"
  /\ Exists(current.id) /\ ~stored[current.id].sent
  /\ current' = [current EXCEPT !.copy = stored[current.id]]
  /\ outboxLoop' = "request"
  /\ UNCHANGED <<stored, unsentRows, lockedByRun, userVars, peerVars, skippedUnsent,
                 outboxFaults>>

\* Mutant of Deliver: the savepoint in which a change is applied is not committed.
DeliverNewOnly(m, msg) ==
  /\ acceptedByDs' = acceptedByDs \union {msg.version}
  /\ sentTwice' = sentTwice \union (IF msg.version \in acceptedByDs THEN {m} ELSE {})
  /\ peerShows' = [peerShows EXCEPT ![m] = IF msg.replaces = 0 THEN msg.version ELSE @]
  /\ UNCHANGED peerEdits

(* The DS accepts, and the peer handles the message: a new one is stored;  *)
(* a change is applied to the message that has, or had, the replaced MIMI  *)
(* id, and the version before it stored in message_edit or, by a deletion, *)
(* the edits deleted.  A change that cannot be applied is skipped.         *)
Deliver(m, msg) ==
  LET change == msg.replaces # 0
      applies == change => /\ msg.replaces \in {peerShows[m]} \union peerEdits[m]
                           /\ msg.null \/ peerShows[m] \notin peerEdits[m]
  IN  /\ acceptedByDs' = acceptedByDs \union {msg.version}
      /\ sentTwice' = sentTwice \union (IF msg.version \in acceptedByDs THEN {m} ELSE {})
      /\ peerShows' = [peerShows EXCEPT ![m] = IF applies THEN msg.version ELSE @]
      /\ peerEdits' = [peerEdits EXCEPT ![m] =
           IF ~(change /\ applies) THEN @ ELSE IF msg.null THEN {} ELSE @ \union {peerShows[m]}]

SendAccepted ==
  /\ outboxLoop = "request"
  /\ Deliver(current.id, current.copy)
  /\ outboxLoop' = "accepted"
  /\ UNCHANGED <<stored, unsentRows, lockedByRun, current, userVars, skippedUnsent,
                 outboxFaults>>

\* A sibling device has used the generation: the row stays for a later run.
SendCollides ==
  /\ OutboxFault("collide")
  /\ outboxLoop = "request"
  /\ NextRow
  /\ UNCHANGED <<stored, unsentRows, lockedByRun, userVars, peerVars, skippedUnsent>>

\* The DS refuses or does not know the group, or the request or answer is lost.
SendFails ==
  /\ OutboxFault("network")
  /\ outboxLoop = "request"
  /\ Deliver(current.id, current.copy) \/ UNCHANGED peerVars
  /\ FailAll

\* Mutant of PostProcess: marked as sent, but the copy is not written back.
PostProcessFlagOnly ==
  /\ outboxLoop = "accepted"
  /\ stored' = [stored EXCEPT ![current.id].sent = Exists(current.id)]
  /\ outboxLoop' = "stored"
  /\ UNCHANGED <<unsentRows, lockedByRun, current, userVars, peerVars, skippedUnsent,
                 outboxFaults>>

(* mark_as_sent and update: the whole copy is written back, if the message *)
(* still exists.                                                           *)
PostProcess ==
  /\ outboxLoop = "accepted"
  /\ stored' = [stored EXCEPT ![current.id] =
       IF Exists(current.id) THEN [current.copy EXCEPT !.sent = TRUE] ELSE @]
  /\ outboxLoop' = "stored"
  /\ UNCHANGED <<unsentRows, lockedByRun, current, userVars, peerVars, skippedUnsent,
                 outboxFaults>>

\* Mutant of RemoveSent: leaves every row this run has seen, as receipts do.
RemoveSentByTask ==
  /\ outboxLoop = "stored"
  /\ unsentRows' = [m \in Messages |-> IF m \in lockedByRun THEN 0 ELSE unsentRows[m]]
  /\ lockedByRun' = {}
  /\ NextRow
  /\ UNCHANGED <<stored, userVars, peerVars, skippedUnsent, outboxFaults>>

\* The row of the message that was sent is removed.
RemoveSent ==
  /\ outboxLoop = "stored"
  /\ RemoveRow(current.id)
  /\ UNCHANGED <<stored, userVars, peerVars, skippedUnsent, outboxFaults>>

OutboxStep ==
  \/ BeginOutbox \/ Dequeue \/ EndOutbox
  \/ LoadUnsent \/ LoadFails
  \/ SendAccepted \/ PostProcess \/ RemoveSent

OutboxNext ==
  \/ \E m \in Messages : SendMessage(m) \/ LoadMessage(m) \/ DeleteLocally(m)
  \/ \E null \in BOOLEAN : ReplaceMessage(null)
  \/ EditFails
  \/ OutboxStep
  \/ StopOutbox \/ SkipForOperation \/ SkipUnsent \/ SendCollides \/ SendFails

(* The outbound service is started again and again (Empty events and the   *)
(* periodic wake) and every request ends with an answer or a timeout.      *)
OutboxFairness == WF_outboxVars(OutboxStep)

OutboxSpec == OutboxInit /\ [][OutboxNext]_outboxVars /\ OutboxFairness

-----------------------------------------------------------------------------
(***************************************************************************)
(* Properties.                                                             *)
(***************************************************************************)

(* A message that the user sees as sent was accepted by the DS with the    *)
(* very content the user sees, whatever was edited, deleted, lost or       *)
(* retried while it was sent (post-processing of send_chat_message).       *)
SentIsAccepted == \A m \in Messages : stored[m].sent => stored[m].version \in acceptedByDs

\* What the user last asked for is stored, and queued unless it was sent or failed.
Kept(m) ==
  /\ stored[m].version = lastRequest[m]
  /\ stored[m].sent \/ stored[m].failed \/ Queued(m)

(* The last send, edit or deletion of a message is stored, and queued      *)
(* unless it was sent or is marked as failed, so that nothing stays        *)
(* "sending" for good: through crashes, collisions, lost answers and runs  *)
(* that are cancelled, except when the chat was blocked or waited for a    *)
(* resync (skippedUnsent) or the message was changed while it was sent.    *)
NoMessageForgotten ==
  \A m \in Messages : Exists(m) => Kept(m) \/ m \in skippedUnsent \union overtaken

\* A change of something the peer has never received.
BuiltOnLost(msg) == ~(msg.earlier \subseteq acceptedByDs)

(* Between runs the peer shows the content that the user sees as sent,     *)
(* also after lost answers, collisions, failures and changes made while a  *)
(* copy was sent.  The exceptions are changes of a version that was never  *)
(* sent, which the peer skips, and messages that a crash has sent twice,   *)
(* whose next edit the peer's message_edit refuses (handle_message_edit).  *)
PeersAgree ==
  outboxLoop = "off" =>
    \A m \in Messages :
      stored[m].sent /\ ~BuiltOnLost(stored[m]) /\ m \notin sentTwice
        => peerShows[m] = stored[m].version

(* Once the user asks for nothing more the queue becomes empty: a run      *)
(* sends a message or fails it, and one that was sent before a crash does  *)
(* not block the others for good.                                          *)
MessagesLeaveQueue == <>[](\A m \in Messages : ~Queued(m))

(* delete_message: "This sends a NullPart message that replaces the        *)
(* original message, notifying all group members that the message has been *)
(* deleted. The message remains visible as a "deleted" placeholder.": the  *)
(* last edit or deletion of the user is not replaced by an older content   *)
(* and not dropped from the queue unsent.                                  *)
RequestKept == \A m \in Messages : Exists(m) => Kept(m)

=============================================================================
