--------------------------- MODULE Outbound_proofs ---------------------------
(***************************************************************************)
(* Theorems about the outbound service and what it sends besides chat      *)
(* messages: receipts, attachments and reactions.  The components share no *)
(* variable; each part of this module is about one of them.                *)
(***************************************************************************)
EXTENDS OutboundService, Receipts, Reactions, Attachments, TLAPS

-----------------------------------------------------------------------------
(***************************************************************************)
(* The outbound service.                                                   *)
(***************************************************************************)

\* A run of the service: the tokens to cancel it and to wait for it.
Token == [cancel : Nat, done : Nat]

(* The types of the tokens of the two services and their tasks.            *)
TokensTyped ==
  /\ runToken \in [Procs -> Token]
  /\ cancelledRuns \in [Procs -> SUBSET Nat]
  /\ taskState \in [Procs -> {"idle", "lock", "work", "swept"}]
  /\ taskToken \in [Procs -> Token]

(* While messages are received the app's run token is cancelled.           *)
ReceivingIsStopped == phase = "receiving" => Cancelled("app")

(* A task that is not idle works with the current cancel token, or with    *)
(* one that is cancelled: a live token is never replaced.                  *)
NoStrayToken ==
  \A p \in Procs : taskState[p] # "idle" =>
    taskToken[p].cancel = runToken[p].cancel \/ taskToken[p].cancel \in cancelledRuns[p]

(* The inductive invariant of the service.                                 *)
ServiceInv == TokensTyped /\ ReceivingIsStopped /\ NoStrayToken

(* Both services are built stopped and idle.                               *)
LEMMA ServiceInvInit == OutboundInit => ServiceInv
  BY DEF OutboundInit, ServiceInv, TokensTyped, ReceivingIsStopped, NoStrayToken, NoToken, Procs,
         Token

(* Start and notify_work replace a cancelled token only, and notify_work   *)
(* leaves the cancel token as it is.                                       *)
LEMMA RotateKeepsLive ==
  ASSUME TokensTyped, NEW p \in Procs, Start(p) \/ NotifyWork(p)
  PROVE  /\ UNCHANGED cancelledRuns
         /\ runToken' \in [Procs -> Token]
         /\ \A q \in Procs : q # p => runToken'[q] = runToken[q]
         /\ ~Cancelled(p) => runToken'[p].cancel = runToken[p].cancel
         /\ NotifyWork(p) => runToken'[p].cancel = runToken[p].cancel
<1> DEFINE t == runToken[p]
           d == RotateDone(p, t)
           u == Rotate(p, t)
<1>1. t \in Token
  BY DEF TokensTyped
<1>2. d \in Token /\ d.cancel = t.cancel
  BY <1>1 DEF RotateDone, Token
<1>3. u \in Token /\ (~Cancelled(p) => u.cancel = t.cancel)
  BY <1>1, <1>2 DEF Rotate, Token
<1> HIDE DEF d, u
<1>4. CASE Start(p)
  <2>1. runToken' = [runToken EXCEPT ![p] = u] /\ UNCHANGED cancelledRuns
    BY <1>4 DEF Start, u
  <2>2. ~NotifyWork(p) \/ runToken'[p].cancel = runToken[p].cancel
    <3>1. NotifyWork(p) => runToken'[p] \in {t, d}
      BY DEF NotifyWork, TokensTyped, d
    <3> QED BY <1>2, <3>1
  <2> QED BY <1>3, <2>1, <2>2 DEF TokensTyped
<1>5. CASE NotifyWork(p)
  <2>1. /\ runToken' = [runToken EXCEPT ![p] = IF Cancelled(p) THEN t ELSE d]
        /\ UNCHANGED cancelledRuns
    BY <1>5 DEF NotifyWork, d
  <2> QED BY <1>1, <1>2, <2>1 DEF TokensTyped
<1> QED BY <1>4, <1>5

(* Every step preserves the invariant of the service.                      *)
LEMMA ServiceInvNext == ServiceInv /\ [OutboundNext]_outboundVars => ServiceInv'
<1> SUFFICES ASSUME ServiceInv, [OutboundNext]_outboundVars PROVE ServiceInv'
  OBVIOUS
<1>0. "app" \in Procs /\ "handler" \in Procs
  BY DEF Procs
<1> USE DEF ServiceInv
<1>1. ASSUME UNCHANGED <<runToken, cancelledRuns, taskState, taskToken>>,
             phase' = "receiving" => phase = "receiving"
      PROVE  ServiceInv'
  BY <1>1 DEF TokensTyped, ReceivingIsStopped, NoStrayToken, Cancelled
<1>2. ASSUME NEW p \in Procs, Start(p) \/ NotifyWork(p), UNCHANGED <<taskState, taskToken>>,
             phase' = "receiving" => phase = "receiving" /\ (p = "app" => NotifyWork(p))
      PROVE  ServiceInv'
  <2>1. /\ UNCHANGED cancelledRuns
        /\ runToken' \in [Procs -> Token]
        /\ \A q \in Procs : q # p => runToken'[q] = runToken[q]
        /\ ~Cancelled(p) => runToken'[p].cancel = runToken[p].cancel
        /\ NotifyWork(p) => runToken'[p].cancel = runToken[p].cancel
    BY <1>2, RotateKeepsLive
  <2> QED
    BY <1>0, <1>2, <2>1 DEF TokensTyped, ReceivingIsStopped, NoStrayToken, Cancelled
<1>3. ASSUME NEW p \in Procs, Stop(p), UNCHANGED <<taskState, taskToken>>,
             phase' = "receiving" => phase = "receiving" \/ p = "app"
      PROVE  ServiceInv'
  <2>1. runToken[p].cancel \in Nat
    BY DEF TokensTyped, Token
  <2> QED
    BY <1>0, <1>3, <2>1 DEF Stop, TokensTyped, ReceivingIsStopped, NoStrayToken, Cancelled
<1>4. ASSUME NEW p \in Procs, SeeWork(p) \/ PeriodicWake(p) PROVE ServiceInv'
  <2>1. /\ taskState' = [taskState EXCEPT ![p] = "lock"]
        /\ taskToken' = [taskToken EXCEPT ![p] = runToken[p]]
        /\ UNCHANGED <<runToken, cancelledRuns, phase>>
    BY <1>4 DEF SeeWork, PeriodicWake, serviceVars, callerVars
  <2> QED BY <2>1 DEF TokensTyped, ReceivingIsStopped, NoStrayToken, Cancelled
<1>5. ASSUME NEW p \in Procs, AcquireGlobalLock(p) \/ Work(p) \/ WorkFails(p) PROVE ServiceInv'
  <2>1. /\ taskState' \in {[taskState EXCEPT ![p] = "work"], [taskState EXCEPT ![p] = "swept"]}
        /\ taskState[p] # "idle"
        /\ UNCHANGED <<runToken, cancelledRuns, taskToken, phase>>
    BY <1>5 DEF AcquireGlobalLock, Work, WorkFails, serviceVars, callerVars
  <2> QED BY <2>1 DEF TokensTyped, ReceivingIsStopped, NoStrayToken, Cancelled
<1>6. ASSUME NEW p \in Procs, FinishWork(p) PROVE ServiceInv'
  <2>1. /\ taskState' = [taskState EXCEPT ![p] = "idle"]
        /\ taskToken' = [taskToken EXCEPT ![p] = NoToken]
        /\ UNCHANGED <<runToken, cancelledRuns, phase>>
    BY <1>6 DEF FinishWork, callerVars
  <2>2. NoToken \in Token
    BY DEF NoToken, Token
  <2> QED BY <2>1, <2>2 DEF TokensTyped, ReceivingIsStopped, NoStrayToken, Cancelled
<1>7. CASE RestartApp
  <2>1. /\ cancelledRuns' = [cancelledRuns EXCEPT !["app"] = @ \union {runToken["app"].cancel}]
        /\ taskState' = [taskState EXCEPT !["app"] = "idle"]
        /\ taskToken' = [taskToken EXCEPT !["app"] = NoToken]
        /\ phase' = "connecting" /\ UNCHANGED runToken
    BY <1>7 DEF RestartApp
  <2>2. NoToken \in Token /\ runToken["app"].cancel \in Nat
    BY <1>0 DEF NoToken, Token, TokensTyped
  <2> QED BY <1>0, <2>1, <2>2 DEF TokensTyped, ReceivingIsStopped, NoStrayToken
<1>8. CASE UNCHANGED outboundVars
  BY <1>1, <1>8 DEF outboundVars, serviceVars, taskVars, callerVars
<1>9. ASSUME NEW p \in Procs, SeeCancelled(p) PROVE ServiceInv'
  BY <1>1, <1>9 DEF SeeCancelled, taskVars, callerVars
<1>10. CASE LaunchApp \/ ProcessorStopped \/ PauseApp \/ RunOnceDone
  BY <1>1, <1>10
  DEF LaunchApp, ProcessorStopped, PauseApp, RunOnceDone, serviceVars, taskVars
<1>11. CASE ProcessMessage
  BY <1>0, <1>3, <1>11 DEF ProcessMessage, taskVars
<1>12. CASE ProcessEmpty \/ ProcessEmptyAgain
  BY <1>0, <1>2, <1>12 DEF ProcessEmpty, ProcessEmptyAgain, taskVars, callerVars
<1>13. CASE QueueWork
  BY <1>0, <1>2, <1>13 DEF QueueWork, taskVars, callerVars
<1>14. CASE PrepareForBackground \/ RunOnceStop
  BY <1>0, <1>3, <1>14 DEF PrepareForBackground, RunOnceStop, taskVars
<1>15. CASE RunOnce
  BY <1>0, <1>2, <1>15 DEF RunOnce, taskVars
<1> QED
  BY <1>4, <1>5, <1>6, <1>7, <1>8, <1>9, <1>10, <1>11, <1>12, <1>13, <1>14, <1>15
  DEF OutboundNext, TaskStep, ProcessorStep, RunOnceStep

(* From a message to the Empty event that ends its batch no work of the    *)
(* app runs with a live token, for any number of messages, pieces of work, *)
(* pauses, runs of the background handler and restarts: what the user      *)
(* queues meanwhile (notify_work) and the periodic wake leave the          *)
(* cancelled token as it is, and a task that got its token earlier got the *)
(* one that process_event has cancelled.                                   *)
THEOREM ReceivingStopsWork == OutboundSpec => []NoLiveWorkWhileReceiving
<1>1. ServiceInv => NoLiveWorkWhileReceiving
  BY DEF ServiceInv, ReceivingIsStopped, NoStrayToken, NoLiveWorkWhileReceiving, Working,
         Cancelled, Procs
<1> QED
  BY ServiceInvInit, ServiceInvNext, <1>1, PTL DEF OutboundSpec

-----------------------------------------------------------------------------
(***************************************************************************)
(* Receipts.                                                               *)
(***************************************************************************)

(* What the record of a receipt rests on: a tag is there for a receipt     *)
(* whose fan-out is over, well or badly, or for the message that is at the *)
(* DS; and between the DS's answer and the removal of the rows, the        *)
(* fan-out of the message is over.                                         *)
FanOutOver == delivered \union undispatched

TagsAccounted ==
  /\ sendLoop = "tagged" => batch \subseteq tags /\ batch \intersect FanOutOver = {}
  /\ tags \subseteq (IF sendLoop = "tagged" THEN FanOutOver \union batch ELSE FanOutOver)
  /\ sendLoop \in {"accepted", "stored"} => batch \subseteq FanOutOver

(* The inductive invariant of the receipts.                                *)
ReceiptsInv ==
  /\ ReceiptsTypeOK
  /\ batch \subseteq asked
  /\ TagsAccounted
  /\ RecordedIsDelivered

(* Nothing is queued, sent or recorded at the beginning.                   *)
LEMMA ReceiptsInvInit == ReceiptsInit => ReceiptsInv
  BY ReceiptsAssumption
  DEF ReceiptsInit, ReceiptsInv, ReceiptsTypeOK, TagsAccounted, FanOutOver,
      RecordedIsDelivered

(* Every step of the receipts preserves their invariant.                   *)
LEMMA ReceiptsInvNext == ReceiptsInv /\ [ReceiptsNext]_receiptsVars => ReceiptsInv'
<1> SUFFICES ASSUME ReceiptsInv, [ReceiptsNext]_receiptsVars
             PROVE  ReceiptsInv'
  OBVIOUS
<1> USE ReceiptsAssumption
    DEF ReceiptsInv, ReceiptsTypeOK, TagsAccounted, FanOutOver, RecordedIsDelivered, tagVars
<1>1. CASE UNCHANGED receiptsVars
  BY <1>1 DEF receiptsVars
<1>2. ASSUME NEW r \in ReceiptIds, EnqueueReceipt(r) PROVE ReceiptsInv'
  BY <1>2 DEF EnqueueReceipt
<1>3. ASSUME NEW r \in ReceiptIds, LockExpires(r) PROVE ReceiptsInv'
  BY <1>3 DEF LockExpires
<1>4. ASSUME NEW r \in ReceiptIds, SiblingDelivers(r) PROVE ReceiptsInv'
  BY <1>4 DEF SiblingDelivers, ReceiptFault
<1>5. CASE BeginReceipts
  BY <1>5 DEF BeginReceipts
<1>6. ASSUME NEW c \in Chats, DequeueReceipts(c) PROVE ReceiptsInv'
  BY <1>6 DEF DequeueReceipts, Unlocked
<1>7. CASE EndReceipts \/ CancelReceipts
  BY <1>7 DEF EndReceipts, CancelReceipts, StopReceipts, ReceiptFault
<1>8. CASE AcceptReceipts
  BY <1>8 DEF AcceptReceipts, RowsUnchanged
<1>9. CASE CollideReceipts
  <2> DEFINE R == IF batch = batch \intersect tags THEN lockedHere ELSE batch \intersect tags
  <2>1. DeleteRows(R)
    BY <1>9 DEF CollideReceipts
  <2> HIDE DEF R
  <2> QED BY <1>9, <2>1 DEF CollideReceipts, DeleteRows
<1>10. CASE RefuseReceipts \/ SkipReceipts \/ CollideGeneration
  BY <1>10 DEF RefuseReceipts, SkipReceipts, CollideGeneration, RowsUnchanged, ReceiptFault
<1>11. CASE LoseReceipts
  BY <1>11 DEF LoseReceipts, HandlerLeft, ReceiptsArrive, ReceiptsMissing, RowsUnchanged,
               ReceiptFault
<1>12. CASE DropReceipts
  BY <1>12 DEF DropReceipts, DeleteRows, ReceiptFault
<1>13. CASE StoreReport
  BY <1>13 DEF StoreReport, RowsUnchanged
<1>14. CASE RemoveReceipts
  BY <1>14 DEF RemoveReceipts, DeleteRows
<1>15. CASE CrashReceipts
  BY <1>15 DEF CrashReceipts, HandlerLeft, ReceiptsArrive, ReceiptsMissing, StopReceipts,
               ReceiptFault
<1>16. CASE FanOutReceipts
  BY <1>16 DEF FanOutReceipts, ReceiptsArrive, RowsUnchanged
<1>17. CASE FanOutFails
  BY <1>17 DEF FanOutFails, ReceiptsMissing, RowsUnchanged, ReceiptFault
<1> QED
  BY <1>1, <1>2, <1>3, <1>4, <1>5, <1>6, <1>7, <1>8, <1>9, <1>10, <1>11, <1>12, <1>13, <1>14,
     <1>15, <1>16, <1>17
  DEF ReceiptsNext, ReceiptsStep

(* Type correctness of the receipts: in particular locked rows are rows,   *)
(* and only receipts that were asked for are queued or given up            *)
(* (ReceiptQueue::enqueue, dequeue and remove).                            *)
THEOREM ReceiptsTypeCorrect == ReceiptsSpec => []ReceiptsTypeOK
<1>1. ReceiptsInv => ReceiptsTypeOK
  BY DEF ReceiptsInv
<1> QED
  BY ReceiptsInvInit, ReceiptsInvNext, <1>1, PTL DEF ReceiptsSpec

(* A receipt recorded as sent was delivered, by this device or a sibling,  *)
(* for any number of receipts and chats, any limit of the DS on tags and   *)
(* any number of collisions, losses and crashes (store_receipt_report      *)
(* after check_and_insert and fan_out_message), unless its fan-out failed  *)
(* or was cut off after its tag was stored.                                *)
THEOREM RecordedReceiptsDelivered == ReceiptsSpec => []RecordedIsDelivered
<1>1. ReceiptsInv => RecordedIsDelivered
  BY DEF ReceiptsInv
<1> QED
  BY ReceiptsInvInit, ReceiptsInvNext, <1>1, PTL DEF ReceiptsSpec

-----------------------------------------------------------------------------
(***************************************************************************)
(* Attachments.                                                            *)
(***************************************************************************)

\* The attachments that come and that go.
Attached == Incoming \union Outgoing

(* The types that the proofs need.                                         *)
AttachmentsTypeOK ==
  /\ attStatus \in [Attached -> {"none", "Pending", "Downloading", "DownloadFailed", "Ready",
                                 "NotFound", "Uploading", "UploadFailed"}]
  /\ handle \in [Attached -> {"none", "live", "done", "failed"}]
  /\ download \in [Incoming -> {"none", "spawned", "loading"}]
  /\ msgRemote \in [Outgoing -> Nat]
  /\ msgState \in [Outgoing -> {"none", "unsent", "queued", "sent", "failed"}]
  /\ upload \in [Outgoing -> Nat]
  /\ pendingRec \subseteq Incoming /\ wiped \subseteq Incoming
  /\ toQueue \subseteq Outgoing /\ queuedTwice \subseteq Outgoing
  /\ objects \subseteq Nat
  /\ provisioned \in Nat

(* A task that is downloading an attachment has found its pending record,  *)
(* and the record stays until the task ends, unless a failed send deletes  *)
(* it.                                                                     *)
LoadingIsPending ==
  \A a \in Incoming : download[a] = "loading" => a \in pendingRec \union wiped

(* A running upload is the one of the remote id in the message, its handle *)
(* is live, and its attachment has a record.                               *)
UploadIsOfMessage ==
  \A a \in Outgoing : upload[a] # 0 =>
    upload[a] = msgRemote[a] /\ handle[a] = "live" /\ attStatus[a] # "none"

(* The message that is about to be queued refers to an uploaded object,    *)
(* and no other upload can have begun since: its handle is "done".         *)
AboutToQueue ==
  \A a \in toQueue :
    /\ upload[a] = 0 /\ handle[a] = "done" /\ attStatus[a] # "none"
    /\ msgRemote[a] \in objects

(* So does a message in the queue, unless it was changed there.            *)
QueuedIsUploaded ==
  \A a \in Outgoing :
    msgState[a] = "queued" /\ a \notin queuedTwice => msgRemote[a] \in objects

(* The inductive invariant of downloads and uploads.                       *)
AttachmentsInv ==
  /\ AttachmentsTypeOK
  /\ LoadingIsPending /\ RetryPossible
  /\ UploadIsOfMessage /\ AboutToQueue /\ QueuedIsUploaded /\ SentIsUploaded

(* At the beginning there is no attachment.                                *)
LEMMA AttachmentsInvInit == AttachmentsInit => AttachmentsInv
  BY DEF AttachmentsInit, AttachmentsInv, AttachmentsTypeOK, Attached, LoadingIsPending,
         RetryPossible, Downloadable, UploadIsOfMessage, AboutToQueue, QueuedIsUploaded,
         SentIsUploaded

(* The steps of a download preserve the invariant.                         *)
LEMMA DownloadInv ==
  ASSUME AttachmentsInv, NEW a \in Incoming,
         \/ ReceiveAttachment(a) \/ LoseAnnounced(a) \/ OpenAttachment(a)
         \/ DownloadStep(a) \/ FailStart(a) \/ FailDownload(a) \/ CancelDownload(a)
  PROVE  AttachmentsInv'
<1> USE AttachmentAssumption
    DEF AttachmentsInv, AttachmentsTypeOK, Attached, LoadingIsPending, RetryPossible,
        Downloadable, UploadIsOfMessage, AboutToQueue, QueuedIsUploaded, SentIsUploaded,
        uploadVars, AttachmentFault
<1>1. CASE ReceiveAttachment(a)
  BY <1>1 DEF ReceiveAttachment
<1>2. CASE OpenAttachment(a)
  BY <1>2 DEF OpenAttachment, Spawned
<1>3. CASE TakeAnnounced(a)
  BY <1>3 DEF TakeAnnounced, Spawned
<1>4. CASE StartDownload(a)
  BY <1>4 DEF StartDownload
<1>5. CASE SkipDownload(a)
  BY <1>5 DEF SkipDownload, EndTask
<1>6. CASE FinishDownload(a)
  BY <1>6 DEF FinishDownload, EndTask
<1>7. CASE FailDownload(a)
  BY <1>7 DEF FailDownload, EndTask
<1>8. CASE CancelDownload(a)
  BY <1>8 DEF CancelDownload, EndTask
<1>9. CASE LoseAnnounced(a)
  BY <1>9 DEF LoseAnnounced
<1>10. CASE FailStart(a)
  BY <1>10 DEF FailStart, EndTask
<1> QED
  BY <1>1, <1>2, <1>3, <1>4, <1>5, <1>6, <1>7, <1>8, <1>9, <1>10 DEF DownloadStep

(* The steps of an upload preserve the invariant.                          *)
LEMMA UploadInv ==
  ASSUME AttachmentsInv, NEW a \in Outgoing,
         UploadAttachment(a) \/ RetryUpload(a) \/ UploadStep(a) \/ FailUpload(a) \/ CancelUpload(a)
  PROVE  AttachmentsInv'
<1> USE AttachmentAssumption
    DEF AttachmentsInv, AttachmentsTypeOK, Attached, LoadingIsPending, RetryPossible,
        Downloadable, UploadIsOfMessage, AboutToQueue, QueuedIsUploaded, SentIsUploaded,
        downloadVars, AttachmentFault
<1>1. CASE UploadAttachment(a)
  BY <1>1 DEF UploadAttachment, Provision, StartUpload
<1>2. CASE RetryUpload(a)
  BY <1>2 DEF RetryUpload, Provision, StartUpload
<1>3. CASE FinishUpload(a)
  BY <1>3 DEF FinishUpload, EndUpload
<1>4. CASE QueueAttachment(a)
  BY <1>4 DEF QueueAttachment
<1>5. CASE SendAttachment(a)
  BY <1>5 DEF SendAttachment
<1>6. CASE FailUpload(a)
  BY <1>6 DEF FailUpload, EndUpload
<1>7. CASE CancelUpload(a)
  BY <1>7 DEF CancelUpload
<1> QED
  BY <1>1, <1>2, <1>3, <1>4, <1>5, <1>6, <1>7 DEF UploadStep

(* Every step preserves the invariant.                                     *)
LEMMA AttachmentsInvNext == AttachmentsInv /\ [AttachmentsNext]_attachmentVars => AttachmentsInv'
<1> SUFFICES ASSUME AttachmentsInv, [AttachmentsNext]_attachmentVars
             PROVE  AttachmentsInv'
  OBVIOUS
<1>1. CASE UNCHANGED attachmentVars
  BY <1>1
  DEF attachmentVars, downloadVars, uploadVars, AttachmentsInv, AttachmentsTypeOK,
      LoadingIsPending, RetryPossible, Downloadable, UploadIsOfMessage, AboutToQueue,
      QueuedIsUploaded, SentIsUploaded
<1>2. CASE FailQueuedMessages
  BY <1>2
  DEF FailQueuedMessages, AttachmentFault, AttachmentsInv, AttachmentsTypeOK,
      LoadingIsPending, RetryPossible, Downloadable, UploadIsOfMessage, AboutToQueue,
      QueuedIsUploaded, SentIsUploaded
<1>3. CASE RestartDownloads \/ RestartUnread
  <2>1. /\ handle' = [a \in Incoming \union Outgoing |-> "none"]
        /\ download' = [a \in Incoming |-> "none"]
        /\ upload' = [a \in Outgoing |-> 0] /\ toQueue' = {}
        /\ UNCHANGED <<attStatus, pendingRec, wiped, msgRemote, msgState, objects,
                       provisioned, queuedTwice>>
    BY <1>3 DEF RestartDownloads, RestartUnread, RestartWith
  <2> QED
    BY <2>1
    DEF AttachmentsInv, AttachmentsTypeOK, Attached, LoadingIsPending, RetryPossible,
        Downloadable, UploadIsOfMessage, AboutToQueue, QueuedIsUploaded, SentIsUploaded
<1> QED
  BY <1>1, <1>2, <1>3, DownloadInv, UploadInv DEF AttachmentsNext

(* A download that failed, was cancelled or cut short can be retried, for  *)
(* any number of attachments and of faults: its pending record is there,   *)
(* unless remove_all_and_and_mark_as_failed has deleted it (wiped).  The   *)
(* task sets the status and drops the record in the transactions of        *)
(* download_attachment_impl.                                               *)
THEOREM DownloadsRetriable == AttachmentsSpec => []RetryPossible
<1>1. AttachmentsInv => RetryPossible
  BY DEF AttachmentsInv
<1> QED
  BY AttachmentsInvInit, AttachmentsInvNext, <1>1, PTL DEF AttachmentsSpec

(* A message that was sent refers to an object that was uploaded, for any  *)
(* number of attachments, retries and faults, unless a retry has changed   *)
(* the message while it was queued (upload_attachment_impl queues it only  *)
(* after its upload, and the handle keeps a retry out until then).         *)
THEOREM SentAttachmentUploaded == AttachmentsSpec => []SentIsUploaded
<1>1. AttachmentsInv => SentIsUploaded
  BY DEF AttachmentsInv
<1> QED
  BY AttachmentsInvInit, AttachmentsInvNext, <1>1, PTL DEF AttachmentsSpec

-----------------------------------------------------------------------------
(***************************************************************************)
(* Reactions.                                                              *)
(***************************************************************************)

\* A row of the reaction queue, for an addition or a removal.
Row == [tombstone : BOOLEAN, id : Nat]
Addition(i) == [tombstone |-> FALSE, id |-> i]
Tombstone(i) == [tombstone |-> TRUE, id |-> i]

(* The types of the reactions; every row is of a reaction that was added.  *)
ReactionsTypeOK ==
  /\ toggles \in Nat /\ ownReaction \in {0, toggles} /\ peerReaction \in Nat
  /\ reactionRows \subseteq Row /\ lockedReactions \subseteq Row /\ inHand \in Row
  /\ \A r \in reactionRows : r.id \in 1..toggles
  /\ reactionLoop \in {"off", "loop", "dequeued", "request", "accepted", "unheard"}

(* The row in hand is one of the queue: only the loop removes rows.        *)
InHandIsQueued == reactionLoop \notin {"off", "loop"} => inHand \in reactionRows

(* A reaction is taken back at most once, and not while the user has it.   *)
NotTakenBack == ownReaction # 0 => Tombstone(ownReaction) \notin reactionRows

(* An addition still queued is the user's, or its tombstone is queued too. *)
AdditionsCovered ==
  \A i \in 1..toggles :
    Addition(i) \in reactionRows /\ ownReaction # i => Tombstone(i) \in reactionRows

(* What the user has is queued, or the peer has it.                        *)
OwnComes == ownReaction # 0 => Addition(ownReaction) \in reactionRows \/ peerReaction = ownReaction

(* What the peer shows and the user has no more will be taken back.        *)
PeerFollows ==
  peerReaction # 0 /\ peerReaction # ownReaction => Tombstone(peerReaction) \in reactionRows

(* The peer has applied the row that was accepted, which is the oldest.    *)
AcceptedIsApplied ==
  reactionLoop = "accepted" =>
    /\ \A q \in reactionRows : ~Before(q, inHand)
    /\ inHand.tombstone => peerReaction # inHand.id
    /\ ~inHand.tombstone /\ inHand.id = ownReaction => peerReaction = ownReaction

(* The inductive invariant: what relates user, queue and peer as long as   *)
(* rows were sent in order and none was dropped.                           *)
ReactionsInv ==
  /\ ReactionsTypeOK /\ InHandIsQueued /\ NotTakenBack
  /\ ~dropped /\ ~outOfOrder =>
       AdditionsCovered /\ OwnComes /\ PeerFollows /\ AcceptedIsApplied

(* A row is the addition or the tombstone of its reaction.                 *)
LEMMA RowIs ==
  ASSUME NEW r \in Row
  PROVE  /\ r.id \in Nat
         /\ ~r.tombstone => r = Addition(r.id)
         /\ r.tombstone => r = Tombstone(r.id)
  BY DEF Row, Addition, Tombstone

(* Additions and tombstones are rows, and different ones.                  *)
LEMMA RowsDiffer ==
  ASSUME NEW i \in Nat, NEW j \in Nat
  PROVE  /\ Addition(i) \in Row /\ Tombstone(i) \in Row
         /\ Addition(i) # Tombstone(j)
         /\ Addition(i) = Addition(j) => i = j
         /\ Tombstone(i) = Tombstone(j) => i = j
         /\ Addition(i).id = i /\ ~Addition(i).tombstone
         /\ Tombstone(i).id = i /\ Tombstone(i).tombstone
  BY DEF Row, Addition, Tombstone

(* Nothing is queued and nobody has a reaction at the beginning.           *)
LEMMA ReactionsInvInit == ReactionsInit => ReactionsInv
  BY DEF ReactionsInit, ReactionsInv, ReactionsTypeOK, InHandIsQueued, NotTakenBack, NoRow, Row,
         AdditionsCovered, OwnComes, PeerFollows, AcceptedIsApplied

(* What relates user, queue and peer in a clean history.                   *)
Agreed == AdditionsCovered /\ OwnComes /\ PeerFollows /\ AcceptedIsApplied

(* AddReaction: the new addition is the last row, and the user's.          *)
LEMMA AddReactionInv == ReactionsInv /\ AddReaction => ReactionsInv'
<1> SUFFICES ASSUME ReactionsInv, AddReaction PROVE ReactionsInv'
  OBVIOUS
<1> DEFINE new == Addition(toggles + 1)
<1>1. /\ toggles' = toggles + 1 /\ ownReaction' = toggles + 1 /\ ownReaction = 0
      /\ reactionRows' = reactionRows \union {new}
      /\ UNCHANGED <<lockedReactions, reactionLoop, inHand, peerReaction>>
  BY DEF AddReaction, Addition
<1>2. UNCHANGED <<outOfOrder, dropped>>
  BY DEF AddReaction
<1>3. new \in Row /\ new.id = toggles + 1 /\ ~new.tombstone
  BY RowsDiffer DEF ReactionsInv, ReactionsTypeOK
<1>4. \A i \in Nat : Tombstone(i) # new /\ (Addition(i) = new => i = toggles + 1)
  BY RowsDiffer DEF ReactionsInv, ReactionsTypeOK
<1>5. ReactionsTypeOK' /\ InHandIsQueued'
  BY <1>1, <1>3 DEF ReactionsInv, ReactionsTypeOK, InHandIsQueued
<1>6. NotTakenBack'
  BY <1>1, <1>4, RowsDiffer DEF ReactionsInv, ReactionsTypeOK, NotTakenBack
<1>7. ASSUME ~dropped', ~outOfOrder' PROVE Agreed'
  <2>1. Agreed
    BY <1>2, <1>7 DEF ReactionsInv, Agreed
  <2>2. AdditionsCovered' /\ OwnComes' /\ PeerFollows'
    BY <1>1, <1>4, <2>1
    DEF Agreed, AdditionsCovered, OwnComes, PeerFollows, ReactionsInv, ReactionsTypeOK
  <2>3. ASSUME reactionLoop = "accepted" PROVE inHand.id \in 1..toggles /\ inHand \in Row
    BY <2>3 DEF ReactionsInv, ReactionsTypeOK, InHandIsQueued
  <2>4. AcceptedIsApplied'
    BY <1>1, <1>3, <2>1, <2>3
    DEF Agreed, AcceptedIsApplied, ReactionsInv, ReactionsTypeOK, Before
  <2> QED BY <2>2, <2>4 DEF Agreed
<1> QED BY <1>5, <1>6, <1>7 DEF ReactionsInv, Agreed

(* DeleteReaction: the tombstone comes after the addition it covers.       *)
LEMMA DeleteReactionInv == ReactionsInv /\ DeleteReaction => ReactionsInv'
<1> SUFFICES ASSUME ReactionsInv, DeleteReaction PROVE ReactionsInv'
  OBVIOUS
<1> DEFINE new == Tombstone(ownReaction)
<1>1. /\ ownReaction' = 0 /\ ownReaction # 0
      /\ reactionRows' \in {reactionRows, reactionRows \union {new}}
      /\ ~chatBlocked => reactionRows' = reactionRows \union {new}
      /\ UNCHANGED <<toggles, lockedReactions, reactionLoop, inHand, peerReaction>>
  BY DEF DeleteReaction, Tombstone
<1>2. outOfOrder' = outOfOrder /\ dropped' = (dropped \/ chatBlocked)
  BY DEF DeleteReaction
<1>3. new \in Row /\ new.id = ownReaction /\ new.tombstone
  BY RowsDiffer DEF ReactionsInv, ReactionsTypeOK
<1>4. \A i \in Nat : Addition(i) # new /\ (Tombstone(i) = new => i = ownReaction)
  BY RowsDiffer DEF ReactionsInv, ReactionsTypeOK
<1>5. ReactionsTypeOK' /\ InHandIsQueued'
  BY <1>1, <1>3 DEF ReactionsInv, ReactionsTypeOK, InHandIsQueued
<1>6. NotTakenBack'
  BY <1>1 DEF NotTakenBack
<1>7. ASSUME ~dropped', ~outOfOrder' PROVE Agreed'
  <2>1. Agreed /\ ~chatBlocked
    BY <1>2, <1>7 DEF ReactionsInv, Agreed
  <2>2. AdditionsCovered' /\ OwnComes' /\ PeerFollows'
    BY <1>1, <1>4, <2>1
    DEF Agreed, AdditionsCovered, OwnComes, PeerFollows, ReactionsInv, ReactionsTypeOK
  <2>3. ASSUME reactionLoop = "accepted"
        PROVE  inHand.id \in 1..toggles /\ inHand \in Row /\ inHand \in reactionRows
    BY <2>3 DEF ReactionsInv, ReactionsTypeOK, InHandIsQueued
  <2>4. AcceptedIsApplied'
    BY <1>1, <1>3, <2>1, <2>3
    DEF Agreed, AcceptedIsApplied, ReactionsInv, ReactionsTypeOK, Before
  <2> QED BY <2>2, <2>4 DEF Agreed
<1> QED BY <1>5, <1>6, <1>7 DEF ReactionsInv, Agreed

(* A step that removes nothing and by which the peer gets nothing.         *)
LEMMA LoopMovesInv ==
  ASSUME ReactionsInv,
         BeginReactions \/ EndReactions \/ StopReactions \/ DequeueReaction
           \/ CheckReaction \/ LeaveReaction \/ ReactionNotPassedOn
  PROVE  ReactionsInv'
<1>1. /\ UNCHANGED <<toggles, ownReaction, reactionRows, peerReaction>>
      /\ reactionLoop' \in {"off", "loop", "dequeued", "request", "unheard"}
  BY DEF BeginReactions, EndReactions, StopReactions, LeaveReactions, DequeueReaction,
         CheckReaction, LeaveReaction, ReactionNotPassedOn, NextReaction
<1>2. UNCHANGED <<outOfOrder, dropped>>
  BY DEF BeginReactions, EndReactions, StopReactions, DequeueReaction,
         CheckReaction, LeaveReaction, ReactionNotPassedOn
<1>3. /\ lockedReactions' \subseteq Row /\ inHand' \in Row
      /\ reactionLoop' \notin {"off", "loop"} => inHand' \in reactionRows
  <2> USE DEF ReactionsInv, ReactionsTypeOK, InHandIsQueued
  <2>1. NoRow \in Row
    BY DEF NoRow, Row
  <2>2. CASE BeginReactions
    BY <2>2 DEF BeginReactions
  <2>3. CASE EndReactions \/ StopReactions
    BY <2>1, <2>3 DEF EndReactions, StopReactions, LeaveReactions
  <2>4. CASE DequeueReaction
    BY <2>4 DEF DequeueReaction
  <2>5. CASE CheckReaction
    BY <2>5 DEF CheckReaction
  <2>6. CASE LeaveReaction
    BY <2>1, <2>6 DEF LeaveReaction, NextReaction
  <2>7. CASE ReactionNotPassedOn
    BY <2>7 DEF ReactionNotPassedOn
  <2> QED BY <2>2, <2>3, <2>4, <2>5, <2>6, <2>7
<1>4. ReactionsTypeOK' /\ InHandIsQueued' /\ NotTakenBack'
  BY <1>1, <1>3 DEF ReactionsInv, ReactionsTypeOK, InHandIsQueued, NotTakenBack
<1>5. ASSUME ~dropped', ~outOfOrder' PROVE Agreed'
  BY <1>1, <1>2, <1>5
  DEF ReactionsInv, Agreed, AdditionsCovered, OwnComes, PeerFollows, AcceptedIsApplied
<1> QED BY <1>4, <1>5 DEF ReactionsInv, Agreed

(* SkipReaction: the addition is not the user's any more.                  *)
LEMMA SkipReactionInv == ReactionsInv /\ SkipReaction => ReactionsInv'
<1> SUFFICES ASSUME ReactionsInv, SkipReaction PROVE ReactionsInv'
  OBVIOUS
<1>1. /\ UNCHANGED <<toggles, ownReaction, peerReaction>>
      /\ reactionRows' = reactionRows \ {inHand}
      /\ lockedReactions' = lockedReactions \ {inHand}
      /\ reactionLoop' = "loop" /\ inHand' = NoRow
  BY DEF SkipReaction, RemoveReactionRow, NextReaction
<1>2. UNCHANGED <<outOfOrder, dropped>>
  BY DEF SkipReaction
<1>3. inHand = Addition(inHand.id) /\ inHand.id # ownReaction /\ inHand.id \in Nat
  BY RowIs DEF SkipReaction, Vanished, ReactionsInv, ReactionsTypeOK
<1>4. \A i \in Nat : Tombstone(i) # inHand /\ (Addition(i) = inHand => i = inHand.id)
  BY <1>3, RowsDiffer
<1>5. ReactionsTypeOK' /\ InHandIsQueued' /\ NotTakenBack'
  BY <1>1 DEF ReactionsInv, ReactionsTypeOK, InHandIsQueued, NotTakenBack, NoRow, Row
<1>6. ASSUME ~dropped', ~outOfOrder' PROVE Agreed'
  <2>1. Agreed
    BY <1>2, <1>6 DEF ReactionsInv, Agreed
  <2> QED
    BY <1>1, <1>3, <1>4, <2>1
    DEF Agreed, AdditionsCovered, OwnComes, PeerFollows, AcceptedIsApplied,
        ReactionsInv, ReactionsTypeOK
<1> QED BY <1>5, <1>6 DEF ReactionsInv, Agreed

(* AcceptReaction: unless an earlier row is still queued, a tombstone      *)
(* takes back what the peer shows, and an addition finds it showing        *)
(* nothing, or the addition itself after it was sent twice.                *)
LEMMA AcceptReactionInv == ReactionsInv /\ AcceptReaction => ReactionsInv'
<1> SUFFICES ASSUME ReactionsInv, AcceptReaction PROVE ReactionsInv'
  OBVIOUS
<1>1. /\ UNCHANGED <<toggles, ownReaction, reactionRows, lockedReactions, inHand>>
      /\ reactionLoop' = "accepted" /\ inHand \in reactionRows /\ inHand \in Row
      /\ inHand.id \in 1..toggles
  BY DEF AcceptReaction, ReactionsInv, ReactionsTypeOK, InHandIsQueued
<1>2. /\ inHand.tombstone => peerReaction' = IF peerReaction = inHand.id THEN 0 ELSE peerReaction
      /\ ~inHand.tombstone => peerReaction' = IF peerReaction = 0 THEN inHand.id ELSE peerReaction
  BY DEF AcceptReaction, Apply
<1>3. ReactionsTypeOK' /\ InHandIsQueued' /\ NotTakenBack'
  BY <1>1, <1>2 DEF ReactionsInv, ReactionsTypeOK, InHandIsQueued, NotTakenBack
<1>4. ASSUME ~dropped', ~outOfOrder' PROVE Agreed'
  <2>1. ~dropped /\ ~outOfOrder /\ \A q \in reactionRows : ~Before(q, inHand)
    BY <1>4 DEF AcceptReaction, Apply
  <2>2. Agreed
    BY <2>1 DEF ReactionsInv, Agreed
  <2>3. /\ ownReaction \in Nat /\ peerReaction \in Nat /\ toggles \in Nat
        /\ ownReaction <= toggles
    BY DEF ReactionsInv, ReactionsTypeOK
  <2>4. ASSUME NEW i \in Nat, Tombstone(i) \in reactionRows PROVE inHand.id <= i
    BY <1>1, <2>1, <2>4, RowsDiffer DEF Before
  <2>5. CASE inHand.tombstone
    <3>1. inHand = Tombstone(inHand.id)
      BY <1>1, <2>5, RowIs
    <3>2. inHand.id # ownReaction
      BY <1>1, <3>1 DEF ReactionsInv, NotTakenBack
    <3>3. AdditionsCovered' /\ OwnComes' /\ PeerFollows'
      BY <1>1, <1>2, <2>2, <2>3, <2>5, <3>2
      DEF Agreed, AdditionsCovered, OwnComes, PeerFollows
    <3>4. AcceptedIsApplied'
      BY <1>1, <1>2, <2>1, <2>3, <2>5 DEF AcceptedIsApplied, Before
    <3> QED BY <3>3, <3>4 DEF Agreed
  <2>6. CASE ~inHand.tombstone
    <3>1. inHand = Addition(inHand.id)
      BY <1>1, <2>6, RowIs
    <3>2. inHand.id # ownReaction => Tombstone(inHand.id) \in reactionRows
      BY <1>1, <2>2, <3>1 DEF Agreed, AdditionsCovered
    <3>3. ASSUME inHand.id = ownReaction PROVE peerReaction' = ownReaction
      <4>1. CASE peerReaction # 0 /\ peerReaction # ownReaction
        <5>1. Tombstone(peerReaction) \in reactionRows
          BY <2>2, <4>1 DEF Agreed, PeerFollows
        <5>2. peerReaction \in 1..toggles
          BY <5>1, <2>3, RowsDiffer DEF ReactionsInv, ReactionsTypeOK
        <5>3. ownReaction = toggles
          BY <1>1, <3>3 DEF ReactionsInv, ReactionsTypeOK
        <5> QED BY <2>3, <2>4, <3>3, <4>1, <5>1, <5>2, <5>3
      <4> QED BY <1>2, <2>6, <3>3, <4>1
    <3>4. AdditionsCovered' /\ OwnComes' /\ PeerFollows'
      BY <1>1, <1>2, <2>2, <2>3, <2>6, <3>2
      DEF Agreed, AdditionsCovered, OwnComes, PeerFollows
    <3>5. AcceptedIsApplied'
      BY <1>1, <2>1, <2>6, <3>3 DEF AcceptedIsApplied, Before
    <3> QED BY <3>4, <3>5 DEF Agreed
  <2> QED BY <2>5, <2>6
<1> QED BY <1>3, <1>4 DEF ReactionsInv, Agreed

(* RemoveSentReaction: the peer has what the removed row said.             *)
LEMMA RemoveSentReactionInv == ReactionsInv /\ RemoveSentReaction => ReactionsInv'
<1> SUFFICES ASSUME ReactionsInv, RemoveSentReaction PROVE ReactionsInv'
  OBVIOUS
<1>1. /\ UNCHANGED <<toggles, ownReaction, peerReaction>>
      /\ reactionRows' = reactionRows \ {inHand}
      /\ lockedReactions' = lockedReactions \ {inHand}
      /\ reactionLoop \in {"accepted", "unheard"} /\ reactionLoop' = "loop" /\ inHand' = NoRow
  BY DEF RemoveSentReaction, RemoveReactionRow, NextReaction
<1>2. outOfOrder' = outOfOrder /\ dropped' = (dropped \/ reactionLoop = "unheard")
  BY DEF RemoveSentReaction
<1>3. ReactionsTypeOK' /\ InHandIsQueued' /\ NotTakenBack'
  BY <1>1 DEF ReactionsInv, ReactionsTypeOK, InHandIsQueued, NotTakenBack, NoRow, Row
<1>4. ASSUME ~dropped', ~outOfOrder' PROVE Agreed'
  <2>1. Agreed /\ reactionLoop = "accepted"
    BY <1>1, <1>2, <1>4 DEF ReactionsInv, Agreed
  <2>2. /\ inHand \in Row /\ inHand.id \in 1..toggles /\ inHand.id \in Nat
        /\ ownReaction \in Nat /\ peerReaction \in Nat /\ toggles \in Nat
    BY <1>1 DEF ReactionsInv, ReactionsTypeOK, InHandIsQueued
  <2>3. CASE inHand.tombstone
    <3>1. \A i \in Nat : Addition(i) # inHand /\ (Tombstone(i) = inHand => i = inHand.id)
      BY <2>2, <2>3, RowIs, RowsDiffer
    <3>2. Addition(inHand.id) \notin reactionRows
      BY <1>1, <2>1, <2>2, <2>3, RowsDiffer DEF Agreed, AcceptedIsApplied, Before
    <3>3. peerReaction # inHand.id
      BY <1>1, <2>1, <2>3 DEF Agreed, AcceptedIsApplied
    <3> QED
      BY <1>1, <2>1, <2>2, <3>1, <3>2, <3>3
      DEF Agreed, AdditionsCovered, OwnComes, PeerFollows, AcceptedIsApplied
  <2>4. CASE ~inHand.tombstone
    <3>1. \A i \in Nat : Tombstone(i) # inHand /\ (Addition(i) = inHand => i = inHand.id)
      BY <2>2, <2>4, RowIs, RowsDiffer
    <3>2. inHand.id = ownReaction => peerReaction = ownReaction
      BY <1>1, <2>1, <2>4 DEF Agreed, AcceptedIsApplied
    <3> QED
      BY <1>1, <2>1, <2>2, <3>1, <3>2
      DEF Agreed, AdditionsCovered, OwnComes, PeerFollows, AcceptedIsApplied
  <2> QED BY <2>3, <2>4
<1> QED BY <1>3, <1>4 DEF ReactionsInv, Agreed

(* RollbackReaction: a row is dropped, and only the types remain.          *)
LEMMA RollbackReactionInv == ReactionsInv /\ RollbackReaction => ReactionsInv'
<1> SUFFICES ASSUME ReactionsInv, RollbackReaction PROVE ReactionsInv'
  OBVIOUS
<1>1. /\ UNCHANGED toggles
      /\ ownReaction' \in {ownReaction, 0}
      /\ reactionRows' = reactionRows \ {inHand}
      /\ lockedReactions' = lockedReactions \ {inHand}
      /\ reactionLoop' = "loop" /\ inHand' = NoRow
      /\ reactionLoop = "request"
  BY DEF RollbackReaction, RemoveReactionRow, NextReaction
<1>2. peerReaction' \in {0, peerReaction, inHand.id}
  BY DEF RollbackReaction, Apply
<1>3. inHand.id \in Nat
  BY RowIs DEF ReactionsInv, ReactionsTypeOK
<1>4. ReactionsTypeOK' /\ InHandIsQueued' /\ NotTakenBack'
  BY <1>1, <1>2, <1>3 DEF ReactionsInv, ReactionsTypeOK, InHandIsQueued, NotTakenBack, NoRow, Row
<1>5. dropped'
  BY DEF RollbackReaction
<1> QED BY <1>4, <1>5 DEF ReactionsInv

(* Every step of the reactions preserves their invariant.                  *)
LEMMA ReactionsInvNext == ReactionsInv /\ [ReactionsNext]_reactionsVars => ReactionsInv'
<1> SUFFICES ASSUME ReactionsInv, [ReactionsNext]_reactionsVars
             PROVE  ReactionsInv'
  OBVIOUS
<1>1. CASE UNCHANGED reactionsVars
  BY <1>1
  DEF reactionsVars, ReactionsInv, ReactionsTypeOK, InHandIsQueued, NotTakenBack,
      AdditionsCovered, OwnComes, PeerFollows, AcceptedIsApplied
<1>2. CASE BlockContact
  BY <1>2
  DEF BlockContact, ReactionsInv, ReactionsTypeOK, InHandIsQueued, NotTakenBack,
      AdditionsCovered, OwnComes, PeerFollows, AcceptedIsApplied
<1> QED
  BY <1>1, <1>2, AddReactionInv, DeleteReactionInv, LoopMovesInv, SkipReactionInv,
     AcceptReactionInv, RemoveSentReactionInv, RollbackReactionInv
  DEF ReactionsNext, ReactionsStep

(* Once the queue is empty, user and peer see the same reaction, however   *)
(* often it was added and taken back, the loop was stopped or crashed and  *)
(* the contact was blocked, unless a row was sent before an earlier one,   *)
(* or was given up: after an error, in a blocked chat, or by the DS, which *)
(* accepted it and could not pass it on (send_queued_reactions,            *)
(* send_reaction_message, handle_reaction).                                *)
THEOREM UserAndPeerAgree == ReactionsSpec => []ReactionsAgree
<1>1. ReactionsInv => ReactionsAgree
  BY DEF ReactionsInv, ReactionsAgree, ReactionsTypeOK, OwnComes, PeerFollows
<1> QED
  BY ReactionsInvInit, ReactionsInvNext, <1>1, PTL DEF ReactionsSpec
=============================================================================
