----------------------------- MODULE Attachments -----------------------------
(***************************************************************************)
(* Attachments on a client: incoming ones, recorded with a pending record  *)
(* and downloaded by the tasks of the attachments repository, and outgoing *)
(* ones, provisioned, uploaded and then sent with their message            *)
(* (coreclient/src/clients/attachment, applogic/src/api/attachments_       *)
(* repository.rs and the upload functions of chat_details_cubit.rs).  The  *)
(* storage server is external: a set of objects by remote id.              *)
(***************************************************************************)
EXTENDS FiniteSets, Naturals

CONSTANTS
  Incoming,            \* attachments of messages that may be received
  Outgoing,            \* attachments the user may send
  MaxProvisioned,      \* bound: remote ids the DS hands out
  NumDownloads,        \* NUM_CONCURRENT_DOWNLOADS
  AttachmentFaults,    \* which faults and outside events may happen
  MaxAttachmentFaults  \* bound: how many of them

ASSUME AttachmentAssumption ==
  /\ Incoming \intersect Outgoing = {}
  /\ MaxProvisioned \in Nat /\ MaxAttachmentFaults \in Nat
  /\ NumDownloads \in Nat \ {0}

VARIABLES
  attStatus,    \* attachment.status, "none" where there is no record
  pendingRec,   \* incoming attachments with a pending_attachment row
  backlog,      \* ids of load_all_pending the download loop has still to take
  announced,    \* ids in the notifications the loop has still to take after them
  handle,       \* in_progress: the progress of the last task of an attachment
  download,     \* the download task: "none", "spawned" or "loading"
  byLoop,       \* download tasks that hold a permit of the loop
  recRemote,    \* attachment.remote_attachment_id of outgoing attachments
  msgRemote,    \* the remote id in the url of the outgoing message
  msgState,     \* of that message: "none", "unsent", "queued", "sent", "failed"
  upload,       \* remote id of the running upload, 0 if none
  toQueue,      \* attachments uploaded whose message is about to be queued
  uploadOwn,    \* the upload task updates the record of its attachment
  objects,      \* remote ids of the objects in storage
  provisioned,  \* how many remote ids were handed out
  wiped,        \* history: incoming attachments whose row a failed send deleted
  userStopped,  \* history: incoming attachments whose download the user cancelled
                \* since the app started
  unnoticed,    \* history: incoming attachments whose notification or task came to
                \* nothing since the app started
  queuedTwice,  \* history: outgoing attachments retried while their message was queued
  attFaults     \* how many faults have happened

downloadVars == <<pendingRec, backlog, announced, download, byLoop, wiped, userStopped,
                  unnoticed>>
uploadVars == <<recRemote, msgRemote, msgState, upload, toQueue, uploadOwn, objects,
                provisioned, queuedTwice>>
attachmentVars == <<attStatus, handle, downloadVars, uploadVars, attFaults>>

AttachmentsInit ==
  /\ attStatus = [a \in Incoming \union Outgoing |-> "none"]
  /\ pendingRec = {} /\ backlog = {} /\ announced = {} /\ byLoop = {}
  /\ wiped = {} /\ userStopped = {} /\ unnoticed = {}
  /\ handle = [a \in Incoming \union Outgoing |-> "none"]
  /\ download = [a \in Incoming |-> "none"]
  /\ recRemote = [a \in Outgoing |-> 0]
  /\ msgRemote = [a \in Outgoing |-> 0]
  /\ msgState = [a \in Outgoing |-> "none"]
  /\ upload = [a \in Outgoing |-> 0]
  /\ uploadOwn = [a \in Outgoing |-> TRUE]
  /\ toQueue = {} /\ objects = {} /\ provisioned = 0 /\ queuedTwice = {}
  /\ attFaults = 0

AttachmentFault(k) ==
  /\ k \in AttachmentFaults
  /\ attFaults < MaxAttachmentFaults
  /\ attFaults' = attFaults + 1

-----------------------------------------------------------------------------
(***************************************************************************)
(* Downloads.                                                              *)
(***************************************************************************)

\* store_new_messages and extract_attachments; the record is announced.
ReceiveAttachment(a) ==
  /\ attStatus[a] = "none"
  /\ attStatus' = [attStatus EXCEPT ![a] = "Pending"]
  /\ pendingRec' = pendingRec \union {a}
  /\ announced' = announced \union {a}
  /\ UNCHANGED <<backlog, handle, download, byLoop, wiped, userStopped, unnoticed, uploadVars,
                 attFaults>>

(* The channel of the notifications holds 1024 entries.  When more come    *)
(* before the loop, which waits for a permit, takes the next one, the      *)
(* oldest are gone, and "DB notifications lagged" is logged.               *)
LoseAnnounced(a) ==
  /\ AttachmentFault("lag")
  /\ a \in announced
  /\ announced' = announced \ {a}
  /\ unnoticed' = unnoticed \union {a}
  /\ UNCHANGED <<attStatus, pendingRec, backlog, handle, download, byLoop, wiped, userStopped,
                 uploadVars>>

\* spawn_download_task: a task that runs or is through is left alone.
Spawned(a) ==
  /\ download' = [download EXCEPT ![a] = "spawned"]
  /\ handle' = [handle EXCEPT ![a] = "live"]

MaySpawn(a) == handle[a] \in {"none", "failed"}

\* attachment_downloads_loop: first what was pending, then the notifications;
\* it takes a permit for each task.
TakeAnnounced(a) ==
  /\ a \in (IF backlog # {} THEN backlog ELSE announced)
  /\ Cardinality(byLoop) < NumDownloads
  /\ backlog' = backlog \ {a}
  /\ announced' = IF backlog # {} THEN announced ELSE announced \ {a}
  /\ \/ MaySpawn(a) /\ Spawned(a) /\ byLoop' = byLoop \union {a}
     \/ ~MaySpawn(a) /\ UNCHANGED <<handle, download, byLoop>>
  /\ UNCHANGED <<attStatus, pendingRec, wiped, userStopped, unnoticed, uploadVars, attFaults>>

\* load_image_attachment of a pending, failed or abandoned download (a retry).
OpenAttachment(a) ==
  /\ AttachmentFault("open")
  /\ attStatus[a] \in {"Pending", "Downloading", "DownloadFailed"} /\ MaySpawn(a)
  /\ Spawned(a)
  /\ UNCHANGED <<attStatus, pendingRec, backlog, announced, byLoop, wiped, userStopped,
                 unnoticed, uploadVars>>

\* The end of a download task: the sender reports, the permit is dropped.
EndTask(a, progress) ==
  /\ download' = [download EXCEPT ![a] = "none"]
  /\ handle' = [handle EXCEPT ![a] = progress]
  /\ byLoop' = byLoop \ {a}

\* download_attachment_impl, the first transaction.
StartDownload(a) ==
  /\ download[a] = "spawned" /\ a \in pendingRec
  /\ attStatus' = [attStatus EXCEPT ![a] = "Downloading"]
  /\ download' = [download EXCEPT ![a] = "loading"]
  /\ UNCHANGED <<pendingRec, backlog, announced, handle, byLoop, wiped, userStopped,
                 unnoticed, uploadVars, attFaults>>

\* "Skipping downloading non-pending attachment".
SkipDownload(a) ==
  /\ download[a] = "spawned" /\ a \notin pendingRec
  /\ EndTask(a, "failed")
  /\ UNCHANGED <<attStatus, pendingRec, backlog, announced, wiped, userStopped, unnoticed,
                 uploadVars, attFaults>>

\* The first transaction fails, or finds no group: the attachment stays as it is.
FailStart(a) ==
  /\ AttachmentFault("database")
  /\ download[a] = "spawned"
  /\ EndTask(a, "failed")
  /\ unnoticed' = unnoticed \union {a}
  /\ UNCHANGED <<attStatus, pendingRec, backlog, announced, wiped, userStopped, uploadVars>>

\* The content is stored, or the object does not exist: the pending row goes.
FinishDownload(a) ==
  /\ download[a] = "loading"
  /\ \/ attStatus' = [attStatus EXCEPT ![a] = "Ready"] /\ UNCHANGED attFaults
     \/ attStatus' = [attStatus EXCEPT ![a] = "NotFound"] /\ AttachmentFault("expired")
  /\ pendingRec' = pendingRec \ {a}
  /\ EndTask(a, "done")
  /\ UNCHANGED <<backlog, announced, wiped, userStopped, unnoticed, uploadVars>>

\* Mutant of FailDownload: the pending row is dropped as for NotFound.
FailDownloadForGood(a) ==
  /\ AttachmentFault("network")
  /\ download[a] = "loading"
  /\ attStatus' = [attStatus EXCEPT ![a] = "DownloadFailed"]
  /\ pendingRec' = pendingRec \ {a}
  /\ EndTask(a, "failed")
  /\ UNCHANGED <<backlog, announced, wiped, userStopped, unnoticed, uploadVars>>

\* Any other error; the update of the status may fail, too.
FailDownload(a) ==
  /\ AttachmentFault("network")
  /\ download[a] = "loading"
  /\ attStatus' \in {attStatus, [attStatus EXCEPT ![a] = "DownloadFailed"]}
  /\ EndTask(a, "failed")
  /\ UNCHANGED <<pendingRec, backlog, announced, wiped, userStopped, unnoticed, uploadVars>>

\* AttachmentsRepository::cancel: the task is dropped where it is.
CancelDownload(a) ==
  /\ AttachmentFault("cancel")
  /\ download[a] # "none"
  /\ EndTask(a, "none")
  /\ userStopped' = userStopped \union {a}
  /\ UNCHANGED <<attStatus, pendingRec, backlog, announced, wiped, unnoticed, uploadVars>>

\* A chat message fails: remove_all_and_and_mark_as_failed deletes from
\* pending_attachment WHERE remote_attachment_id IN (SELECT remote_attachment_id
\* FROM chat_message_queue), which has no such column: every row matches.
FailQueuedMessages ==
  /\ AttachmentFault("outbox")
  /\ pendingRec' = {} /\ wiped' = wiped \union pendingRec
  /\ msgState' = [a \in Outgoing |-> IF msgState[a] = "queued" THEN "failed" ELSE msgState[a]]
  /\ UNCHANGED <<attStatus, backlog, announced, handle, download, byLoop, userStopped,
                 unnoticed, recRemote, msgRemote, upload, toQueue, uploadOwn, objects, provisioned, queuedTwice>>

-----------------------------------------------------------------------------
(***************************************************************************)
(* Uploads.                                                                *)
(***************************************************************************)

\* encrypt_and_provision.
Provision == provisioned < MaxProvisioned /\ provisioned' = provisioned + 1

\* The task for remote id r starts; the handle of an earlier task is replaced.
StartUpload(a, r) ==
  /\ upload' = [upload EXCEPT ![a] = r]
  /\ handle' = [handle EXCEPT ![a] = "live"]

\* upload_chat_attachment: message and record are stored, the task starts.
UploadAttachment(a) ==
  /\ attStatus[a] = "none" /\ Provision
  /\ attStatus' = [attStatus EXCEPT ![a] = "Uploading"]
  /\ recRemote' = [recRemote EXCEPT ![a] = provisioned + 1]
  /\ msgRemote' = [msgRemote EXCEPT ![a] = provisioned + 1]
  /\ msgState' = [msgState EXCEPT ![a] = "unsent"]
  /\ StartUpload(a, provisioned + 1)
  /\ UNCHANGED <<toQueue, uploadOwn, objects, queuedTwice, downloadVars, attFaults>>

(* retry_upload_chat_attachment, offered when the last task failed or the  *)
(* app was restarted: message and record get the new remote id, but the    *)
(* record is looked up by the attachment id that encrypt_and_provision has *)
(* just drawn, and is not found; neither does the task find it.            *)
RetryUpload(a) ==
  /\ handle[a] \in {"none", "failed"}
  /\ attStatus[a] = "UploadFailed" /\ msgState[a] # "sent" /\ Provision
  /\ msgRemote' = [msgRemote EXCEPT ![a] = provisioned + 1]
  /\ uploadOwn' = [uploadOwn EXCEPT ![a] = FALSE]
  /\ StartUpload(a, provisioned + 1)
  /\ queuedTwice' = queuedTwice \union (IF msgState[a] = "queued" THEN {a} ELSE {})
  /\ UNCHANGED <<attStatus, recRemote, msgState, toQueue, objects, downloadVars,
                 attFaults>>

\* The end of the task: update_status, which may not find the record.
EndUpload(a, s, progress) ==
  /\ upload[a] # 0
  /\ upload' = [upload EXCEPT ![a] = 0]
  /\ attStatus' = [attStatus EXCEPT ![a] = IF uploadOwn[a] THEN s ELSE @]
  /\ handle' = [handle EXCEPT ![a] = progress]

\* Mutant of FailUpload: upload_attachment_impl queues the message anyway.
FailUploadQueues(a) ==
  /\ AttachmentFault("network")
  /\ EndUpload(a, "UploadFailed", "failed")
  /\ toQueue' = toQueue \union {a}
  /\ UNCHANGED <<recRemote, msgRemote, msgState, objects, uploadOwn, provisioned,
                 queuedTwice, downloadVars>>

\* upload_attachment_task: the upload succeeds.
FinishUpload(a) ==
  /\ EndUpload(a, "Ready", "done")
  /\ objects' = objects \union {upload[a]}
  /\ toQueue' = toQueue \union {a}
  /\ UNCHANGED <<recRemote, msgRemote, msgState, uploadOwn, provisioned, queuedTwice,
                 downloadVars, attFaults>>

\* upload_attachment_impl: enqueue_chat_message.
QueueAttachment(a) ==
  /\ a \in toQueue
  /\ toQueue' = toQueue \ {a}
  /\ msgState' = [msgState EXCEPT ![a] = "queued"]
  /\ UNCHANGED <<attStatus, handle, recRemote, msgRemote, upload, uploadOwn, objects, provisioned,
                 queuedTwice, downloadVars, attFaults>>

\* The upload fails, and fail_enqueued_chat_message; the object may exist.
FailUpload(a) ==
  /\ AttachmentFault("network")
  /\ EndUpload(a, "UploadFailed", "failed")
  /\ objects' \in {objects, objects \union {upload[a]}}
  /\ msgState' = [msgState EXCEPT ![a] = "failed"]
  /\ UNCHANGED <<recRemote, msgRemote, toQueue, uploadOwn, provisioned, queuedTwice,
                 downloadVars>>

\* "Upload was cancelled": nothing but the task changes.
CancelUpload(a) ==
  /\ AttachmentFault("cancel")
  /\ upload[a] # 0
  /\ upload' = [upload EXCEPT ![a] = 0]
  /\ handle' = [handle EXCEPT ![a] = "none"]
  /\ UNCHANGED <<attStatus, recRemote, msgRemote, msgState, toQueue, uploadOwn, objects, provisioned,
                 queuedTwice, downloadVars>>

\* The outbound service sends the message (see Outbox).
SendAttachment(a) ==
  /\ msgState[a] = "queued"
  /\ msgState' = [msgState EXCEPT ![a] = "sent"]
  /\ UNCHANGED <<attStatus, handle, recRemote, msgRemote, upload, toQueue, uploadOwn, objects, provisioned,
                 queuedTwice, downloadVars, attFaults>>

-----------------------------------------------------------------------------

\* Everything in memory is gone, and the new download loop begins with A.
RestartWith(k, A) ==
  /\ AttachmentFault(k)
  /\ backlog' = A /\ announced' = {} /\ byLoop' = {} /\ userStopped' = {}
  /\ handle' = [a \in Incoming \union Outgoing |-> "none"]
  /\ download' = [a \in Incoming |-> "none"]
  /\ upload' = [a \in Outgoing |-> 0] /\ toQueue' = {}
  /\ UNCHANGED <<attStatus, pendingRec, wiped, recRemote, msgRemote, msgState,
                 uploadOwn, objects, provisioned, queuedTwice>>

PendingDownloads == {a \in Incoming : attStatus[a] = "Pending"}

\* Mutant of RestartDownloads: pending downloads are not taken up again.
RestartIdle == RestartWith("crash", {}) /\ unnoticed' = {}

\* The app dies and a new repository begins with load_all_pending.
RestartDownloads == RestartWith("crash", PendingDownloads) /\ unnoticed' = {}

\* "failed to load pending attachments": the loop begins with none.
RestartUnread == RestartWith("unread", {}) /\ unnoticed' = PendingDownloads

DownloadStep(a) == TakeAnnounced(a) \/ StartDownload(a) \/ SkipDownload(a) \/ FinishDownload(a)

UploadStep(a) == FinishUpload(a) \/ QueueAttachment(a) \/ SendAttachment(a)

AttachmentsNext ==
  \/ \E a \in Incoming :
       \/ ReceiveAttachment(a) \/ LoseAnnounced(a) \/ OpenAttachment(a)
       \/ DownloadStep(a) \/ FailStart(a) \/ FailDownload(a) \/ CancelDownload(a)
  \/ \E a \in Outgoing :
       UploadAttachment(a) \/ RetryUpload(a) \/ UploadStep(a) \/ FailUpload(a) \/ CancelUpload(a)
  \/ FailQueuedMessages
  \/ RestartDownloads \/ RestartUnread

(* Tasks run and requests come to an end.                                  *)
AttachmentsFairness ==
  /\ \A a \in Incoming : WF_attachmentVars(DownloadStep(a))
  /\ \A a \in Outgoing : WF_attachmentVars(UploadStep(a))

AttachmentsSpec == AttachmentsInit /\ [][AttachmentsNext]_attachmentVars /\ AttachmentsFairness

-----------------------------------------------------------------------------
(***************************************************************************)
(* Properties.                                                             *)
(***************************************************************************)

\* The downloads that can still be made, or made again.
Downloadable(a) == attStatus[a] \in {"Pending", "Downloading", "DownloadFailed"} => a \in pendingRec

(* A download that failed, was cancelled, or was cut short by a crash can  *)
(* be retried: its keys are still in the pending record, unless a failed   *)
(* send of another message has deleted them (wiped; see KeysStay).         *)
RetryPossible == \A a \in Incoming : Downloadable(a) \/ a \in wiped

(* "Delete all pending attachments associated with the queued messages"    *)
(* (remove_all_and_and_mark_as_failed), "we still have the                 *)
(* PendingAttachmentRecord, so we can retry" (download_attachment_impl):   *)
(* a received attachment, which no queued message is about, keeps its keys *)
(* until it is there.                                                      *)
KeysStay == \A a \in Incoming : Downloadable(a)

(* An attachment that waits for its download is taken up, also when the    *)
(* permits of the loop are used up or the app is restarted first, unless   *)
(* the user cancels it, its keys were deleted, or its notification was     *)
(* lost or its task failed before the first write (unnoticed).  The last   *)
(* two, and a cancellation, last until the app is started anew.            *)
DownloadsStart ==
  <>[](\A a \in Incoming : attStatus[a] # "Pending" \/ a \in wiped \union userStopped \union unnoticed)

(* A message that was sent refers to an object that was uploaded, also     *)
(* after failed uploads, retries with new remote ids and crashes, unless a *)
(* retry has changed the message while it was queued (queuedTwice).        *)
SentIsUploaded ==
  \A a \in Outgoing : msgState[a] = "sent" /\ a \notin queuedTwice => msgRemote[a] \in objects
=============================================================================
