------------------------------ MODULE Receipts ------------------------------
(***************************************************************************)
(* The queue of delivery and read receipts of a client and the loop of the *)
(* outbound service that sends them (outbound_service/receipts.rs and      *)
(* receipt_queue.rs), against the collision tags of the delivery service   *)
(* (backend/src/ds/collision_tags.rs), by which the DS refuses a receipt   *)
(* whose tag another device of the user, or an earlier attempt, has left.  *)
(* One epoch of the groups is modelled: tags are kept per epoch.  Runs of  *)
(* the outbound service follow each other (the global lock).               *)
(***************************************************************************)
EXTENDS FiniteSets, Integers

CONSTANTS
  ReceiptIds,       \* the receipts: one message and status each
  Chats,            \* the chats
  ChatOf,           \* the chat of each receipt
  MaxTags,          \* MAX_COLLISION_TAGS_PER_REQUEST
  ReceiptFaults,    \* which faults and outside events may happen
  MaxReceiptFaults  \* bound: how many of them

ASSUME ReceiptsAssumption ==
  /\ ChatOf \in [ReceiptIds -> Chats]
  /\ MaxTags \in Nat
  /\ MaxReceiptFaults \in Nat

VARIABLES
  receiptRows,   \* receipt_queue
  lockedHere,    \* rows with locked_by = the task_id of the current run
  lockedFresh,   \* rows whose locked_at is not older than LOCKED_THRESHOLD
  sendLoop,      \* where send_queued_receipts is
  batch,         \* the receipts in the message being sent
  tags,          \* receipt tags in ds_collision_tag
  delivered,     \* receipts in the queues of all other members
  undispatched,  \* history: receipts whose fan-out failed or was cut off
  recorded,      \* receipts stored locally as sent (StatusRecord)
  asked,         \* history: receipts ever enqueued
  givenUp,       \* history: receipts dropped after a fatal error
  receiptFaults  \* how many faults have happened

\* What the DS has done.
tagVars == <<tags, delivered, undispatched>>

receiptsVars == <<receiptRows, lockedHere, lockedFresh, sendLoop, batch, tagVars,
                  recorded, asked, givenUp, receiptFaults>>

ReceiptsTypeOK ==
  /\ lockedHere \subseteq receiptRows /\ receiptRows \subseteq asked
  /\ lockedFresh \subseteq receiptRows
  /\ sendLoop \in {"off", "loop", "checked", "tagged", "accepted", "stored"}
  /\ batch \subseteq ReceiptIds
  /\ asked \subseteq ReceiptIds /\ givenUp \subseteq asked
  /\ recorded \subseteq ReceiptIds /\ tags \subseteq ReceiptIds
  /\ delivered \subseteq tags /\ undispatched \subseteq tags \ delivered
  /\ receiptFaults \in 0..MaxReceiptFaults

ReceiptsInit ==
  /\ receiptRows = {} /\ lockedHere = {} /\ lockedFresh = {}
  /\ sendLoop = "off" /\ batch = {}
  /\ tags = {} /\ delivered = {} /\ undispatched = {} /\ recorded = {}
  /\ asked = {} /\ givenUp = {}
  /\ receiptFaults = 0

ReceiptFault(k) ==
  /\ k \in ReceiptFaults
  /\ receiptFaults < MaxReceiptFaults
  /\ receiptFaults' = receiptFaults + 1

\* The rows R are deleted from receipt_queue.
DeleteRows(R) ==
  /\ receiptRows' = receiptRows \ R
  /\ lockedHere' = lockedHere \ R
  /\ lockedFresh' = lockedFresh \ R

RowsUnchanged == UNCHANGED <<receiptRows, lockedHere, lockedFresh>>

\* OutboundService::schedule_receipts and ReceiptQueue::enqueue.
EnqueueReceipt(r) ==
  /\ r \notin asked
  /\ receiptRows' = receiptRows \union {r}
  /\ asked' = asked \union {r}
  /\ UNCHANGED <<lockedHere, lockedFresh, sendLoop, batch, tagVars, recorded, givenUp,
                 receiptFaults>>

\* A run of the outbound service reaches send_queued_receipts; a new task_id.
BeginReceipts ==
  /\ sendLoop = "off" /\ receiptRows # {}
  /\ sendLoop' = "loop"
  /\ lockedHere' = {}
  /\ UNCHANGED <<receiptRows, lockedFresh, batch, tagVars, recorded, asked, givenUp,
                 receiptFaults>>

\* The rows that are not locked, or locked for longer than the threshold.
Unlocked == receiptRows \ lockedFresh

\* ReceiptQueue::dequeue: lock the rows of one chat (in the code the one that
\* has the oldest row).
DequeueReceipts(c) ==
  LET rows == {r \in Unlocked : ChatOf[r] = c}
  IN  /\ sendLoop = "loop" /\ rows # {}
      /\ lockedHere' = lockedHere \union rows
      /\ lockedFresh' = lockedFresh \union rows
      /\ batch' = rows
      /\ sendLoop' = "checked"
      /\ UNCHANGED <<receiptRows, tagVars, recorded, asked, givenUp, receiptFaults>>

StopReceipts ==
  /\ sendLoop' = "off" /\ batch' = {}
  /\ lockedHere' = {}
  /\ UNCHANGED <<receiptRows, lockedFresh, recorded, asked, givenUp>>

\* Nothing left to dequeue.
EndReceipts ==
  /\ sendLoop = "loop" /\ Unlocked = {}
  /\ StopReceipts
  /\ UNCHANGED <<tagVars, receiptFaults>>

\* The run is cancelled, which the loop notices before it dequeues.
CancelReceipts ==
  /\ ReceiptFault("cancel")
  /\ sendLoop = "loop"
  /\ StopReceipts
  /\ UNCHANGED tagVars

\* A resync or a chat operation is pending for the chat: skipped.
SkipReceipts ==
  /\ ReceiptFault("pending")
  /\ sendLoop = "checked"
  /\ sendLoop' = "loop" /\ batch' = {}
  /\ RowsUnchanged
  /\ UNCHANGED <<tagVars, recorded, asked, givenUp>>

(* send_message on the DS: check_and_insert takes all tags or none and     *)
(* commits them, before anything is fanned out; one more tag than          *)
(* receipts, for the generation of the message.                            *)
AcceptReceipts ==
  /\ sendLoop = "checked" /\ batch \intersect tags = {} /\ Cardinality(batch) < MaxTags
  /\ tags' = tags \union batch
  /\ sendLoop' = "tagged"
  /\ RowsUnchanged
  /\ UNCHANGED <<batch, delivered, undispatched, recorded, asked, givenUp, receiptFaults>>

ReceiptsArrive(R) == delivered' = delivered \union R /\ UNCHANGED <<tags, undispatched>>

ReceiptsMissing(R) == undispatched' = undispatched \union R /\ UNCHANGED <<tags, delivered>>

\* fan_out_message to the other members; the DS answers.
FanOutReceipts ==
  /\ sendLoop = "tagged"
  /\ ReceiptsArrive(batch)
  /\ sendLoop' = "accepted"
  /\ RowsUnchanged
  /\ UNCHANGED <<batch, recorded, asked, givenUp, receiptFaults>>

\* A dispatch fails, which fan_out_message only logs: the DS answers all the same.
FanOutFails ==
  /\ ReceiptFault("dispatch")
  /\ sendLoop = "tagged"
  /\ ReceiptsMissing(batch)
  /\ sendLoop' = "accepted"
  /\ RowsUnchanged
  /\ UNCHANGED <<batch, recorded, asked, givenUp>>

(* Nobody waits for the answer any more: the handler of send_message       *)
(* finishes, or is dropped with the connection, or with the server,        *)
(* between the tags and the fan-out.                                       *)
HandlerLeft == ReceiptsArrive(batch) \/ ReceiptsMissing(batch)

\* Mutant of CollideReceipts: a collision counts for the whole message.
CollideAll ==
  /\ sendLoop = "checked" /\ batch \intersect tags # {}
  /\ recorded' = recorded \union batch
  /\ DeleteRows(lockedHere)
  /\ sendLoop' = "loop" /\ batch' = {}
  /\ UNCHANGED <<tagVars, asked, givenUp, receiptFaults>>

\* Mutant of CollideReceipts: the receipts that collided stay queued.
CollideKeepsRows ==
  LET collided == batch \intersect tags
  IN  /\ sendLoop = "checked" /\ collided # {}
      /\ recorded' = recorded \union collided
      /\ DeleteRows(IF batch = collided THEN lockedHere ELSE {})
      /\ sendLoop' = "loop" /\ batch' = {}
      /\ UNCHANGED <<tagVars, asked, givenUp, receiptFaults>>

(* The DS answers with the tags that collided: those receipts are recorded *)
(* as sent and leave the queue, the others stay locked; when nothing is    *)
(* left the message counts as sent.                                        *)
CollideReceipts ==
  LET collided == batch \intersect tags
  IN  /\ sendLoop = "checked" /\ collided # {} /\ Cardinality(batch) < MaxTags
      /\ recorded' = recorded \union collided
      /\ DeleteRows(IF batch = collided THEN lockedHere ELSE collided)
      /\ sendLoop' = "loop" /\ batch' = {}
      /\ UNCHANGED <<tagVars, asked, givenUp, receiptFaults>>

\* Only the generation of the message collides with a sibling's message.
CollideGeneration ==
  /\ ReceiptFault("sibling")
  /\ sendLoop = "checked" /\ Cardinality(batch) < MaxTags
  /\ sendLoop' = "loop" /\ batch' = {}
  /\ RowsUnchanged
  /\ UNCHANGED <<tagVars, recorded, asked, givenUp>>

(* classify_ds_error, recoverable: the request is lost, or its answer.     *)
LoseReceipts ==
  /\ ReceiptFault("network")
  /\ \/ sendLoop = "checked" /\ UNCHANGED tagVars
     \/ sendLoop = "tagged" /\ HandlerLeft
  /\ sendLoop' = "loop" /\ batch' = {}
  /\ RowsUnchanged
  /\ UNCHANGED <<recorded, asked, givenUp>>

\* Recoverable as well: the DS refuses a message with too many tags.
RefuseReceipts ==
  /\ sendLoop = "checked" /\ Cardinality(batch) >= MaxTags
  /\ sendLoop' = "loop" /\ batch' = {}
  /\ RowsUnchanged
  /\ UNCHANGED <<tagVars, recorded, asked, givenUp, receiptFaults>>

\* A fatal error: the group is gone, the message cannot be created, or the
\* report of an accepted message cannot be stored.  A blocked chat, whose
\* receipts count as sent, has the same effect.
DropReceipts ==
  /\ ReceiptFault("fatal")
  /\ sendLoop \in {"checked", "accepted"}
  /\ givenUp' = givenUp \union batch
  /\ DeleteRows(lockedHere)
  /\ sendLoop' = "loop" /\ batch' = {}
  /\ UNCHANGED <<tagVars, recorded, asked>>

\* store_receipt_report after an accepted message.
StoreReport ==
  /\ sendLoop = "accepted"
  /\ recorded' = recorded \union batch
  /\ sendLoop' = "stored"
  /\ RowsUnchanged
  /\ UNCHANGED <<batch, tagVars, asked, givenUp, receiptFaults>>

\* ReceiptQueue::remove: every row this run has locked.
RemoveReceipts ==
  /\ sendLoop = "stored"
  /\ DeleteRows(lockedHere)
  /\ sendLoop' = "loop" /\ batch' = {}
  /\ UNCHANGED <<tagVars, recorded, asked, givenUp, receiptFaults>>

\* LOCKED_THRESHOLD passes for a lock.
LockExpires(r) ==
  /\ r \in lockedFresh
  /\ lockedFresh' = lockedFresh \ {r}
  /\ UNCHANGED <<receiptRows, lockedHere, sendLoop, batch, tagVars, recorded, asked,
                 givenUp, receiptFaults>>

\* The process dies during a run.
CrashReceipts ==
  /\ ReceiptFault("crash")
  /\ sendLoop # "off"
  /\ IF sendLoop = "tagged" THEN HandlerLeft ELSE UNCHANGED tagVars
  /\ StopReceipts

\* Another device of the user sends the receipt; its fan-out may fail as well.
SiblingDelivers(r) ==
  /\ ReceiptFault("sibling")
  /\ r \notin tags
  /\ tags' = tags \union {r}
  /\ \/ delivered' = delivered \union {r} /\ UNCHANGED undispatched
     \/ undispatched' = undispatched \union {r} /\ UNCHANGED delivered
  /\ UNCHANGED <<receiptRows, lockedHere, lockedFresh, sendLoop, batch, recorded, asked,
                 givenUp>>

ReceiptsStep ==
  \/ BeginReceipts
  \/ \E c \in Chats : DequeueReceipts(c)
  \/ EndReceipts
  \/ AcceptReceipts \/ FanOutReceipts \/ CollideReceipts \/ RefuseReceipts
  \/ StoreReport \/ RemoveReceipts

ReceiptsNext ==
  \/ \E r \in ReceiptIds : EnqueueReceipt(r) \/ LockExpires(r) \/ SiblingDelivers(r)
  \/ ReceiptsStep
  \/ CancelReceipts \/ SkipReceipts \/ CollideGeneration
  \/ FanOutFails \/ LoseReceipts \/ DropReceipts \/ CrashReceipts

(* The outbound service runs again and again (periodic wake) and time      *)
(* passes.                                                                 *)
ReceiptsFairness ==
  /\ WF_receiptsVars(ReceiptsStep)
  /\ \A r \in ReceiptIds : WF_receiptsVars(LockExpires(r))

ReceiptsSpec == ReceiptsInit /\ [][ReceiptsNext]_receiptsVars /\ ReceiptsFairness

-----------------------------------------------------------------------------
(***************************************************************************)
(* Properties.                                                             *)
(***************************************************************************)

(* A receipt recorded as sent was delivered, by this device or a sibling,  *)
(* whatever collides, gets lost or crashes (store_receipt_report).  The    *)
(* exception is a receipt whose tag the DS has kept while its fan-out      *)
(* failed or was cut off: the retry collides with the tag, and the receipt *)
(* is recorded as one "a sibling already delivered".                       *)
RecordedIsDelivered == recorded \subseteq delivered \union undispatched

\* So many receipts of one chat that the DS refuses their message.
TooMany(c) == Cardinality({r \in receiptRows : ChatOf[r] = c}) >= MaxTags

(* Once no more receipts are enqueued the queue becomes empty, also after  *)
(* a crash that left rows locked, a lost answer or a collision with an     *)
(* earlier attempt, unless a chat has too many receipts: their message is  *)
(* refused whenever it is sent, and nothing splits it.                     *)
ReceiptsLeaveQueue == <>[](receiptRows = {} \/ \E c \in Chats : TooMany(c))

(* "Failed to send receipt; will retry later", "The rest stay locked so    *)
(* they are re-encrypted and resent at a later generation": a receipt that *)
(* was neither accepted by the DS nor given up is still queued.            *)
DeferredReceiptsKept == asked \subseteq receiptRows \union tags \union givenUp

=============================================================================
