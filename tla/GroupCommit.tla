----------------------------- MODULE GroupCommit -----------------------------
(***************************************************************************)
(* Commits in one group: the group state of the delivery service (DS), the *)
(* fan-out of accepted commits into the members' queues, and every         *)
(* member's local group with its pending commit, its pending chat          *)
(* operation and the jobs that send it (coreclient/src/job, backend/src/   *)
(* ds).  A commit is a number; the history variable staged has its author  *)
(* and the commits it builds on.  An epoch is the number of commits merged *)
(* so far.  A queue delivers in order and without loss: that is what       *)
(* ReliableQueue promises and QsDelivery implements.  Membership is fixed, *)
(* a user has one device, and operations are the ones that commit (update, *)
(* rename, self-update); leaving and deleting are left out.                *)
(***************************************************************************)
EXTENDS Naturals, SequencesExt

CONSTANTS
  Members,         \* the members of the group
  NoSlot,          \* no job slot
  MaxRetries,      \* MAX_RETRIES: attempts before a job gives up
  MaxCommits,      \* bound: commits ever staged
  GroupFaults,     \* which disturbances the environment may cause
  MaxGroupFaults   \* bound: how many of them

ASSUME GroupAssumption ==
  /\ MaxRetries \in Nat \ {0}
  /\ MaxCommits \in Nat
  /\ MaxGroupFaults \in Nat

VARIABLES
  staged,    \* history: every commit staged, with its author and its base
  log,       \* DS: the commits of the group, in order
  requests,  \* group_operation requests on their way to the DS
  handlers,  \* DS handlers that are still fanning out an accepted commit
  queue,     \* messages for each member, oldest first
  chain,     \* the commits each member has merged
  pending,   \* the pending commit of each member's MLS group, 0 for none
  op,        \* the row of pending_chat_operation of each member
  failed,    \* pending_commit_failed of each member
  jobs,      \* the jobs each member is executing
  gaveUp,    \* history: commits discarded after a fatal error
  groupFaults \* how many disturbances have happened

dsVars == <<log, handlers>>
memberVars == <<chain, pending, op, failed>>
groupVars == <<staged, log, requests, handlers, queue, memberVars, jobs, gaveUp, groupFaults>>

(* Jobs run on behalf of the user interface (CoreUser::execute_job) and of *)
(* the outbound service (OutboundServiceContext::execute_job); no lock     *)
(* keeps them apart.                                                       *)
Slots == {"ui", "outbound"}

Answers == {"none", "ok", "wrong_epoch", "internal", "network"}

Commits == 1..MaxCommits

NoOperation == [commit |-> 0, attempts |-> 0, waiting |-> FALSE]

NoJob == [commit |-> 0, base |-> <<>>, flag |-> FALSE, attempts |-> 0, answer |-> "none"]

GroupTypeOK ==
  /\ staged \in Seq([by : Members, on : Seq(Commits)])
  /\ log \in Seq(Commits)
  /\ requests \in SUBSET [commit : Commits, slot : Slots \union {NoSlot}]
  /\ handlers \in SUBSET [commit : Commits, to : SUBSET Members, slot : Slots \union {NoSlot}]
  /\ queue \in [Members -> Seq([kind : {"commit", "response"}, epoch : Nat])]
  /\ chain \in [Members -> Seq(Commits)]
  /\ pending \in [Members -> Commits \union {0}]
  /\ op \in [Members -> [commit : Commits \union {0}, attempts : Nat, waiting : BOOLEAN]]
  /\ failed \in [Members -> BOOLEAN]
  /\ jobs \in [Members -> [Slots -> [commit : Commits \union {0}, base : Seq(Commits),
                                     flag : BOOLEAN, attempts : Nat, answer : Answers]]]
  /\ gaveUp \in SUBSET Commits
  /\ groupFaults \in Nat

GroupInit ==
  /\ staged = <<>>
  /\ log = <<>>
  /\ requests = {}
  /\ handlers = {}
  /\ queue = [m \in Members |-> <<>>]
  /\ chain = [m \in Members |-> <<>>]
  /\ pending = [m \in Members |-> 0]
  /\ op = [m \in Members |-> NoOperation]
  /\ failed = [m \in Members |-> FALSE]
  /\ jobs = [m \in Members |-> [j \in Slots |-> NoJob]]
  /\ gaveUp = {}
  /\ groupFaults = 0

\* A disturbance of kind k: a fault, or an overlap the code does not prevent.
GroupFault(k) ==
  /\ k \in GroupFaults
  /\ groupFaults < MaxGroupFaults
  /\ groupFaults' = groupFaults + 1

\* Costs a disturbance of kind k unless calm.
UnlessCalm(calm, k) ==
  \/ calm /\ UNCHANGED groupFaults
  \/ ~calm /\ GroupFault(k)

Author(n) == staged[n].by

\* The epoch a commit was made in, and the epoch of a member's group.
EpochOf(n) == Len(staged[n].on)

Epoch(m) == Len(chain[m])

Running(m, j) == jobs[m][j].commit # 0

\* Mutant of RemoveOperation: the pending commit stays in the MLS group.
RemoveRowOnly(m) ==
  /\ op' = [op EXCEPT ![m] = NoOperation]
  /\ UNCHANGED pending

\* The pending commit is cleared and the row of its operation deleted.
RemoveOperation(m) ==
  /\ pending' = [pending EXCEPT ![m] = 0]
  /\ op' = [op EXCEPT ![m] = NoOperation]

\* mark_commit_failed: flag is what the copy of the group in memory says.
MarkFailed(m, flag) == failed' = [failed EXCEPT ![m] = @ \/ ~flag]

-----------------------------------------------------------------------------
(***************************************************************************)
(* Jobs of a member: ChatOperation and PendingChatOperation.               *)
(***************************************************************************)

\* The job of slot j holds a copy of the group and has sent its request.
StartJob(m, j, n, attempts) ==
  /\ jobs' = [jobs EXCEPT ![m][j] =
       [commit |-> n, base |-> chain[m], flag |-> failed[m], attempts |-> attempts,
        answer |-> "none"]]
  /\ requests' = requests \union {[commit |-> n, slot |-> j]}

\* No other job of m is running, or two of them overlap.
OneJob(m, j) == UnlessCalm(\A k \in Slots \ {j} : ~Running(m, k), "race")

\* Mutant of Clean: any group will do.
CleanAlways(m) == TRUE

\* ensure_clean: no commit is pending; and the dependency left no operation.
Clean(m) == op[m].commit = 0 /\ pending[m] = 0

(* ChatOperation without a pending operation: load the group, which must   *)
(* be clean, stage a commit, store both in one transaction, and execute    *)
(* the stored operation.                                                   *)
CreateOperation(m, j) ==
  LET n == Len(staged) + 1
  IN /\ ~Running(m, j)
     /\ Clean(m)
     /\ n <= MaxCommits
     /\ OneJob(m, j)
     /\ staged' = Append(staged, [by |-> m, on |-> chain[m]])
     /\ pending' = [pending EXCEPT ![m] = n]
     /\ op' = [op EXCEPT ![m] = [NoOperation EXCEPT !.commit = n]]
     /\ StartJob(m, j, n, 0)
     /\ UNCHANGED <<dsVars, queue, chain, failed, gaveUp>>

\* The operation is due: dequeue skips those that wait for the queue.
Retriable(m) == op[m].commit # 0 /\ ~op[m].waiting

\* Mutant of RetryOperation: a retry commits anew instead of sending the same commit.
RetryAnew(m, j) ==
  LET n == Len(staged) + 1
  IN /\ ~Running(m, j)
     /\ Retriable(m)
     /\ n <= MaxCommits
     /\ OneJob(m, j)
     /\ staged' = Append(staged, [by |-> m, on |-> chain[m]])
     /\ pending' = [pending EXCEPT ![m] = n]
     /\ op' = [op EXCEPT ![m].commit = n]
     /\ StartJob(m, j, n, op[m].attempts)
     /\ UNCHANGED <<dsVars, queue, chain, failed, gaveUp>>

(* A pending operation is executed once more: dequeued by the outbound     *)
(* service, or as the dependency of a new ChatOperation.                   *)
RetryOperation(m, j) ==
  /\ ~Running(m, j)
  /\ Retriable(m)
  /\ OneJob(m, j)
  /\ StartJob(m, j, op[m].commit, op[m].attempts)
  /\ UNCHANGED <<staged, dsVars, queue, memberVars, gaveUp>>

(* A new ChatOperation is blocked by one that waits for the queue: the     *)
(* flag is set again, in case a crash has lost it.                         *)
BlockedOperation(m) ==
  /\ op[m].waiting
  /\ MarkFailed(m, failed[m])
  /\ UNCHANGED <<staged, dsVars, requests, queue, chain, pending, op, jobs, gaveUp, groupFaults>>

\* The job (m, j) has got answer a and is over.
Answered(m, j, a) ==
  /\ Running(m, j)
  /\ jobs[m][j].answer = a
  /\ jobs' = [jobs EXCEPT ![m][j] = NoJob]

(* The DS has accepted the commit: some operation is still pending for the *)
(* chat, so the job merges its copy of the group over the stored one and   *)
(* deletes the operation.                                                  *)
JobMerges(m, j) ==
  /\ Answered(m, j, "ok")
  /\ op[m].commit # 0
  /\ chain' = [chain EXCEPT ![m] = Append(jobs[m][j].base, jobs[m][j].commit)]
  /\ RemoveOperation(m)
  /\ failed' = [failed EXCEPT ![m] = FALSE]
  /\ UNCHANGED <<staged, dsVars, requests, queue, gaveUp, groupFaults>>

\* The queue was faster: no operation is pending any more.
JobLoses(m, j) ==
  /\ Answered(m, j, "ok")
  /\ op[m].commit = 0
  /\ UNCHANGED <<staged, dsVars, requests, queue, memberVars, gaveUp, groupFaults>>

\* mark_as_waiting_for_queue_response: the row of the group, if there is one.
MarkWaiting(m) == op' = [op EXCEPT ![m].waiting = (op[m].commit # 0)]

(* handle_error, wrong epoch: the operation of the group, if any, waits    *)
(* for the queue, and the group is flagged unless the copy already was.    *)
JobWaits(m, j) ==
  /\ Answered(m, j, "wrong_epoch")
  /\ MarkWaiting(m)
  /\ MarkFailed(m, jobs[m][j].flag)
  /\ UNCHANGED <<staged, dsVars, requests, queue, chain, pending, gaveUp, groupFaults>>

\* handle_error, network error: the operation of the group is retried later.
JobRetriesLater(m, j) ==
  /\ Answered(m, j, "network")
  /\ jobs[m][j].attempts + 1 < MaxRetries
  /\ op' = IF op[m].commit = 0 THEN op
           ELSE [op EXCEPT ![m].attempts = jobs[m][j].attempts + 1]
  /\ UNCHANGED <<staged, dsVars, requests, queue, chain, pending, failed, gaveUp, groupFaults>>

(* A fatal error, or too many attempts: the pending commit of the stored   *)
(* group is discarded and the operation deleted.                           *)
JobGivesUp(m, j) ==
  /\ \/ Answered(m, j, "internal")
     \/ Answered(m, j, "network") /\ jobs[m][j].attempts + 1 >= MaxRetries
  /\ RemoveOperation(m)
  /\ failed' = [failed EXCEPT ![m] = failed[m] /\ ~jobs[m][j].flag]
  /\ gaveUp' = gaveUp \union {jobs[m][j].commit}
  /\ UNCHANGED <<staged, dsVars, requests, queue, chain, groupFaults>>

-----------------------------------------------------------------------------
(***************************************************************************)
(* The DS: group_operation.                                                *)
(***************************************************************************)

\* The answer a to a request reaches its job, if that still waits for it.
Answer(n, j, a) ==
  IF j = NoSlot \/ jobs[Author(n)][j].commit # n THEN jobs
  ELSE [jobs EXCEPT ![Author(n)][j].answer = a]

\* The commit verifies against the group's current state.
Acceptable(n) == staged[n].on = log

(* The commit builds on the group's current state: accepted under the row  *)
(* lock of the group.  The fan-out starts after the lock is gone, so it    *)
(* may overlap with the fan-out of an earlier commit.                      *)
DsAccepts(r) ==
  /\ r \in requests
  /\ Acceptable(r.commit)
  /\ UnlessCalm(handlers = {}, "overlap")
  /\ requests' = requests \ {r}
  /\ log' = Append(log, r.commit)
  /\ handlers' = handlers \union
       {[commit |-> r.commit, to |-> Members \ {Author(r.commit)}, slot |-> r.slot]}
  /\ UNCHANGED <<staged, queue, memberVars, jobs, gaveUp>>

(* The commit is for another epoch, or for this epoch of a forked group    *)
(* (then it does not verify); or the DS fails.                             *)
DsRejects(r) ==
  /\ r \in requests
  /\ requests' = requests \ {r}
  /\ \/ /\ EpochOf(r.commit) # Len(log)
        /\ jobs' = Answer(r.commit, r.slot, "wrong_epoch")
        /\ UNCHANGED groupFaults
     \/ /\ EpochOf(r.commit) = Len(log)
        /\ UnlessCalm(~Acceptable(r.commit), "internal")
        /\ jobs' = Answer(r.commit, r.slot, "internal")
  /\ UNCHANGED <<staged, dsVars, queue, memberVars, gaveUp>>

\* fan_out_message: the commit goes into the queue of another member.
FanOut(h, m) ==
  /\ h \in handlers
  /\ m \in h.to
  /\ handlers' = (handlers \ {h}) \union {[h EXCEPT !.to = @ \ {m}]}
  /\ queue' = [queue EXCEPT ![m] = Append(@, [kind |-> "commit", epoch |-> EpochOf(h.commit)])]
  /\ UNCHANGED <<staged, log, requests, memberVars, jobs, gaveUp, groupFaults>>

\* Mutant of ResponseMessage: the epoch the commit leads to.
ResponseNewEpoch(n) == [kind |-> "response", epoch |-> EpochOf(n) + 1]

\* create_commit_response: the epoch the commit was made in.
ResponseMessage(n) == [kind |-> "response", epoch |-> EpochOf(n)]

(* After the fan-out, the commit response goes into the author's queue;    *)
(* then the request is answered.                                           *)
CommitResponse(h) ==
  /\ h \in handlers
  /\ h.to = {}
  /\ handlers' = handlers \ {h}
  /\ queue' = [queue EXCEPT ![Author(h.commit)] =
                 Append(@, ResponseMessage(h.commit))]
  /\ jobs' = Answer(h.commit, h.slot, "ok")
  /\ UNCHANGED <<staged, log, requests, memberVars, gaveUp, groupFaults>>

-----------------------------------------------------------------------------
(***************************************************************************)
(* A member processes its queue (one message, one transaction).            *)
(***************************************************************************)

Received(m, kind) == queue[m] # <<>> /\ Head(queue[m]).kind = kind

MessageEpoch(m) == Head(queue[m]).epoch

Taken(m) ==
  /\ queue' = [queue EXCEPT ![m] = Tail(@)]
  /\ UNCHANGED <<staged, dsVars, requests, jobs, gaveUp, groupFaults>>

(* process_message: a commit of a past epoch is ignored, and one that does *)
(* not verify against a forked group is dropped with an error.             *)
IgnoreCommit(m) ==
  /\ Received(m, "commit")
  /\ \/ MessageEpoch(m) < Epoch(m)
     \/ MessageEpoch(m) = Epoch(m) /\ ~IsPrefix(chain[m], log)
  /\ Taken(m)
  /\ UNCHANGED memberVars

\* ResyncRequired: the group is flagged, and nothing else happens.
FutureCommit(m) ==
  /\ Received(m, "commit")
  /\ MessageEpoch(m) > Epoch(m)
  /\ MarkFailed(m, failed[m])
  /\ Taken(m)
  /\ UNCHANGED <<chain, pending, op>>

(* Another member's commit for this epoch: discard the own pending commit  *)
(* and operation, merge the commit.                                        *)
MergeCommit(m) ==
  /\ Received(m, "commit")
  /\ MessageEpoch(m) = Epoch(m)
  /\ IsPrefix(chain[m], log)
  /\ chain' = [chain EXCEPT ![m] = Append(@, log[Epoch(m) + 1])]
  /\ RemoveOperation(m)
  /\ failed' = [failed EXCEPT ![m] = FALSE]
  /\ Taken(m)

(* handle_commit_response for an old commit, merged already, or (an error) *)
(* for a future one.                                                       *)
IgnoreResponse(m) ==
  /\ Received(m, "response")
  /\ MessageEpoch(m) # Epoch(m)
  /\ Taken(m)
  /\ UNCHANGED memberVars

\* merge_pending_commit without a staged commit: whatever is pending.
MergePending(m) ==
  chain' = IF pending[m] = 0 THEN chain
           ELSE [chain EXCEPT ![m] = Append(@, pending[m])]

\* Mutant of MergeResponse: does not delete the operation.
MergeResponseOnly(m) ==
  /\ Received(m, "response")
  /\ MessageEpoch(m) = Epoch(m)
  /\ MergePending(m)
  /\ pending' = [pending EXCEPT ![m] = 0]
  /\ failed' = [failed EXCEPT ![m] = FALSE]
  /\ Taken(m)
  /\ UNCHANGED op

\* handle_commit_response for the current epoch: merge, delete the operation.
MergeResponse(m) ==
  /\ Received(m, "response")
  /\ MessageEpoch(m) = Epoch(m)
  /\ MergePending(m)
  /\ RemoveOperation(m)
  /\ failed' = [failed EXCEPT ![m] = FALSE]
  /\ Taken(m)

-----------------------------------------------------------------------------
(***************************************************************************)
(* What the network and the device do.                                     *)
(***************************************************************************)

\* The request and the handler of job (m, j) go on without it.
Orphaned(m, j, S) ==
  {IF x.slot = j /\ Author(x.commit) = m THEN [x EXCEPT !.slot = NoSlot] ELSE x : x \in S}

\* The job stops waiting: the request may be lost, or handled later.
NetworkError(m, j) ==
  /\ GroupFault("network")
  /\ Running(m, j)
  /\ jobs[m][j].answer # "network"
  /\ jobs' = [jobs EXCEPT ![m][j].answer = "network"]
  /\ handlers' = Orphaned(m, j, handlers)
  /\ \/ requests' = Orphaned(m, j, requests)
     \/ requests' = requests \ {[commit |-> jobs[m][j].commit, slot |-> j]}
  /\ UNCHANGED <<staged, log, queue, memberVars, gaveUp>>

(* The app of m dies: its jobs are gone, its database stays.  A job that   *)
(* handles a wrong epoch may have stored that the operation waits, and not *)
(* yet flagged the group: these are two writes.                            *)
CrashMember(m) ==
  /\ GroupFault("crash")
  /\ \E j \in Slots :
       /\ Running(m, j)
       /\ \/ UNCHANGED op
          \/ jobs[m][j].answer = "wrong_epoch" /\ MarkWaiting(m)
  /\ jobs' = [jobs EXCEPT ![m] = [j \in Slots |-> NoJob]]
  /\ handlers' = Orphaned(m, "ui", Orphaned(m, "outbound", handlers))
  /\ requests' = Orphaned(m, "ui", Orphaned(m, "outbound", requests))
  /\ UNCHANGED <<staged, log, queue, chain, pending, failed, gaveUp>>

\* A dispatch to a queue fails: logged, and the handler goes on.
DispatchFails(h, m) ==
  /\ GroupFault("dispatch")
  /\ h \in handlers
  /\ \/ /\ m \in h.to
        /\ handlers' = (handlers \ {h}) \union {[h EXCEPT !.to = @ \ {m}]}
        /\ UNCHANGED jobs
     \/ /\ h.to = {} /\ m = Author(h.commit)
        /\ handlers' = handlers \ {h}
        /\ jobs' = Answer(h.commit, h.slot, "ok")
  /\ UNCHANGED <<staged, log, requests, queue, memberVars, gaveUp>>

-----------------------------------------------------------------------------
JobStep(m, j) ==
  \/ JobMerges(m, j)
  \/ JobLoses(m, j)
  \/ JobWaits(m, j)
  \/ JobRetriesLater(m, j)
  \/ JobGivesUp(m, j)

DsStep ==
  \/ \E r \in requests : DsAccepts(r) \/ DsRejects(r)
  \/ \E h \in handlers : CommitResponse(h) \/ \E m \in Members : FanOut(h, m)

QueueStep(m) ==
  \/ IgnoreCommit(m)
  \/ FutureCommit(m)
  \/ MergeCommit(m)
  \/ IgnoreResponse(m)
  \/ MergeResponse(m)

GroupNext ==
  \/ \E m \in Members : \E j \in Slots :
       \/ CreateOperation(m, j)
       \/ RetryOperation(m, j)
       \/ JobStep(m, j)
       \/ NetworkError(m, j)
  \/ \E m \in Members : BlockedOperation(m) \/ QueueStep(m) \/ CrashMember(m)
  \/ DsStep
  \/ \E h \in handlers : \E m \in Members : DispatchFails(h, m)

GroupSpec == GroupInit /\ [][GroupNext]_groupVars

(* The DS works off its requests, the members their queues, jobs end, and  *)
(* the outbound service retries what is due.  Nobody has to start a new    *)
(* operation.                                                              *)
GroupFairness ==
  /\ WF_groupVars(DsStep)
  /\ \A m \in Members :
       /\ WF_groupVars(QueueStep(m))
       /\ WF_groupVars(RetryOperation(m, "outbound"))
       /\ \A j \in Slots : WF_groupVars(JobStep(m, j))

FairGroupSpec == GroupSpec /\ GroupFairness

-----------------------------------------------------------------------------
(***************************************************************************)
(* Properties.                                                             *)
(***************************************************************************)

Accepted(n) == \E e \in DOMAIN log : log[e] = n

\* m has discarded a commit that the DS accepted, before or after.
Abandoned(m) == \E n \in gaveUp : Author(n) = m /\ Accepted(n)

(* Members agree: whatever was retried, lost, answered late or delivered   *)
(* twice over two paths, a member has merged the commits the DS has        *)
(* accepted, in that order, unless it has given one of them up.            *)
NoFork == \A m \in Members : ~Abandoned(m) => IsPrefix(chain[m], log)

(* A commit the DS accepted and its author has not merged is still the     *)
(* author's pending commit, and its operation is still there: a retry, a   *)
(* lost answer or a crash cannot make the author unable to follow.         *)
OwnCommitKept ==
  \A m \in Members : ~Abandoned(m) =>
    \A e \in (Epoch(m) + 1)..Len(log) : Author(log[e]) = m =>
      e = Epoch(m) + 1 /\ pending[m] = log[e] /\ op[m].commit = log[e]

\* The message of epoch e for m is in its queue, or a DS handler has yet to dispatch it.
Underway(m, e) ==
  \/ \E i \in DOMAIN queue[m] : queue[m][i].epoch = e
  \/ \E h \in handlers :
       EpochOf(h.commit) = e /\ Accepted(h.commit) /\ (m \in h.to \/ Author(h.commit) = m)

(* Nobody is left behind: for every accepted commit a member lacks, the    *)
(* commit or the response that lets it advance is underway.                *)
NothingMissed ==
  \A m \in Members : ~Abandoned(m) =>
    \A e \in Epoch(m)..(Len(log) - 1) : Underway(m, e)

(* The pending commit of the MLS group and the operation that sends it     *)
(* come and go together, although three paths (job, own response, other    *)
(* members' commits) remove them.                                          *)
OperationHasItsCommit == \A m \in Members : op[m].commit = pending[m]

(* What pending_chat_operation.rs says of a job whose request succeeds:    *)
(* "Check if this chat operation is still pending for the chat. It might   *)
(* be, that it was already processed and merged by the QS path."  A job    *)
(* whose commit the queue path has merged changes nothing.                 *)
LoserBails ==
  [][\A m \in Members : \A j \in Slots :
       Answered(m, j, "ok") /\ Contains(chain[m], jobs[m][j].commit)
         => UNCHANGED memberVars]_groupVars

(* Once nobody starts another operation, every operation is resolved and   *)
(* every member reaches the epoch of the group for good, whoever won the   *)
(* races for the epochs, unless the member has given up an accepted        *)
(* commit.                                                                 *)
EventuallyResolved ==
  <>[](\A m \in Members : Abandoned(m) \/ (op[m].commit = 0 /\ Epoch(m) = Len(log)))
=============================================================================
