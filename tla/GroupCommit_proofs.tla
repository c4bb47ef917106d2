------------------------- MODULE GroupCommit_proofs -------------------------
(***************************************************************************)
(* Proofs about commits in a group, for any set of members and any number  *)
(* of commits, retries and disturbances.                                   *)
(***************************************************************************)
EXTENDS GroupCommit, SequenceTheorems, TLAPS

-----------------------------------------------------------------------------
(***************************************************************************)
(* The inductive invariant.                                                *)
(***************************************************************************)

\* Jobs of a member do not overlap.
NoRace == "race" \notin GroupFaults

\* An accepted commit builds on exactly the commits accepted before it.
LogIsChain ==
  \A e \in DOMAIN log :
    /\ log[e] \in DOMAIN staged
    /\ EpochOf(log[e]) = e - 1
    /\ \A i \in 1..(e - 1) : staged[log[e]].on[i] = log[i]

\* A pending commit is the member's own, made for the state it has.
PendingOnChain ==
  \A m \in Members : pending[m] # 0 =>
    pending[m] \in DOMAIN staged /\ Author(pending[m]) = m /\ staged[pending[m]].on = chain[m]

(* A job works on a commit of its member with the state the commit builds  *)
(* on; it has the answer "ok" only for an accepted commit; and the stored  *)
(* operation, if there is one, is its own.                                 *)
JobOwnsOperation ==
  \A m \in Members, j \in Slots : Running(m, j) =>
    /\ jobs[m][j].commit \in DOMAIN staged
    /\ Author(jobs[m][j].commit) = m
    /\ jobs[m][j].base = staged[jobs[m][j].commit].on
    /\ jobs[m][j].answer = "ok" => Accepted(jobs[m][j].commit)
    /\ op[m].commit # 0 => op[m].commit = jobs[m][j].commit

\* Every handler works for an accepted commit, and only staged commits are given up.
InFlight ==
  /\ \A h \in handlers : Accepted(h.commit)
  /\ gaveUp \subseteq DOMAIN staged

\* A commit that may still be accepted is its author's pending commit, or given up.
DecidedOrPending ==
  \A n \in DOMAIN staged :
    pending[Author(n)] = n \/ n \in gaveUp \/ EpochOf(n) < Len(log)

\* A commit response tells its receiver that its own commit was accepted.
ResponsesAreOwn ==
  \A m \in Members : \A i \in DOMAIN queue[m] :
    queue[m][i].kind = "response" => Author(log[queue[m][i].epoch + 1]) = m

\* The inductive invariant: the log, the pending commits, the jobs and the responses fit.
GroupInv ==
  /\ LogIsChain
  /\ PendingOnChain
  /\ JobOwnsOperation
  /\ InFlight
  /\ DecidedOrPending
  /\ ResponsesAreOwn
  /\ OperationHasItsCommit
  /\ NoFork
  /\ OwnCommitKept

-----------------------------------------------------------------------------
(***************************************************************************)
(* Types.                                                                  *)
(***************************************************************************)

\* What refers to a commit refers to one that was staged, or accepted.
KnownCommits ==
  /\ \A r \in requests : r.commit \in DOMAIN staged
  /\ \A h \in handlers : h.commit \in DOMAIN staged /\ EpochOf(h.commit) < Len(log)
  /\ \A m \in Members : op[m].commit # 0 => op[m].commit \in DOMAIN staged
  /\ \A m \in Members : \A i \in DOMAIN queue[m] : queue[m][i].epoch < Len(log)

\* The types of the records of the model.
CommitType == [by : Members, on : Seq(Commits)]
RequestType == [commit : Commits, slot : Slots \union {NoSlot}]
HandlerType == [commit : Commits, to : SUBSET Members, slot : Slots \union {NoSlot}]
MessageType == [kind : {"commit", "response"}, epoch : Nat]
JobType == [commit : Commits \union {0}, base : Seq(Commits), flag : BOOLEAN,
            attempts : Nat, answer : Answers]
OperationType == [commit : Commits \union {0}, attempts : Nat, waiting : BOOLEAN]

\* Requests and handlers whose job is gone (Orphaned) are otherwise the same.
LEMMA OrphanedRequests ==
  ASSUME NEW S \in SUBSET RequestType, NEW m, NEW j
  PROVE  /\ Orphaned(m, j, S) \in SUBSET RequestType
         /\ \A x \in Orphaned(m, j, S) : \E y \in S : y.commit = x.commit
BY DEF Orphaned, RequestType

\* A handler whose job is gone keeps its commit and its recipients.
LEMMA OrphanedHandlers ==
  ASSUME NEW S \in SUBSET HandlerType, NEW m, NEW j
  PROVE  /\ Orphaned(m, j, S) \in SUBSET HandlerType
         /\ \A x \in Orphaned(m, j, S) : \E y \in S : y.commit = x.commit /\ y.to = x.to
BY DEF Orphaned, HandlerType

\* What a message queue contains after a message is added or taken.
LEMMA MessageQueue ==
  ASSUME NEW q \in Seq(MessageType)
  PROVE  /\ \A x \in MessageType :
              /\ Append(q, x) \in Seq(MessageType)
              /\ \A i \in DOMAIN Append(q, x) :
                   (i \in DOMAIN q /\ Append(q, x)[i] = q[i]) \/ Append(q, x)[i] = x
         /\ q # <<>> =>
              /\ Head(q) = q[1] /\ 1 \in DOMAIN q
              /\ Tail(q) \in Seq(MessageType)
              /\ \A i \in DOMAIN Tail(q) : i + 1 \in DOMAIN q /\ Tail(q)[i] = q[i + 1]
<1>1. \A x \in MessageType : Append(q, x) \in Seq(MessageType)
  OBVIOUS
<1>2. \A x \in MessageType : \A i \in DOMAIN Append(q, x) :
        (i \in DOMAIN q /\ Append(q, x)[i] = q[i]) \/ Append(q, x)[i] = x
  OBVIOUS
<1>3. ASSUME q # <<>>
      PROVE  /\ Head(q) = q[1] /\ 1 \in DOMAIN q
             /\ Tail(q) \in Seq(MessageType)
             /\ \A i \in DOMAIN Tail(q) : i + 1 \in DOMAIN q /\ Tail(q)[i] = q[i + 1]
  <2>1. Tail(q) \in Seq(MessageType) /\ Len(Tail(q)) = Len(q) - 1
    BY <1>3, HeadTailProperties
  <2>2. \A i \in 1..Len(Tail(q)) : Tail(q)[i] = q[i + 1]
    BY <1>3, <2>1, HeadTailProperties
  <2>3. Len(q) \in Nat /\ Len(q) > 0 /\ DOMAIN q = 1..Len(q)
    BY <1>3, EmptySeq
  <2>4. \A i \in DOMAIN Tail(q) : i + 1 \in DOMAIN q
    <3> DEFINE k == Len(Tail(q))
    <3>1. DOMAIN Tail(q) = 1..k /\ k = Len(q) - 1
      BY <2>1
    <3> HIDE DEF k
    <3> QED
      BY <2>3, <3>1
  <2> QED
    BY <2>1, <2>2, <2>3, <2>4
<1> QED
  BY <1>1, <1>2, <1>3

\* The types hold at the start.
LEMMA GroupInitTypes == GroupInit => GroupTypeOK /\ KnownCommits
BY GroupAssumption
   DEF GroupInit, GroupTypeOK, KnownCommits, NoOperation, NoJob, Slots, Answers, Commits


\* The types of the variables that a proof step needs, one by one.
LEMMA TypeFacts ==
  ASSUME GroupTypeOK
  PROVE  /\ staged \in Seq(CommitType) /\ log \in Seq(Commits)
         /\ requests \in SUBSET RequestType /\ handlers \in SUBSET HandlerType
         /\ queue \in [Members -> Seq(MessageType)]
         /\ chain \in [Members -> Seq(Commits)] /\ pending \in [Members -> Commits \union {0}]
         /\ op \in [Members -> OperationType] /\ failed \in [Members -> BOOLEAN]
         /\ jobs \in [Members -> [Slots -> JobType]]
         /\ gaveUp \in SUBSET Commits /\ groupFaults \in Nat
BY DEF GroupTypeOK, CommitType, RequestType, HandlerType, MessageType, OperationType, JobType

\* A commit is appended to those staged.
LEMMA StagedAppended ==
  ASSUME NEW s \in Seq(CommitType), NEW c \in CommitType
  PROVE  /\ Append(s, c) \in Seq(CommitType)
         /\ DOMAIN Append(s, c) = DOMAIN s \union {Len(s) + 1}
         /\ \A k \in DOMAIN s : Append(s, c)[k] = s[k]
         /\ Append(s, c)[Len(s) + 1] = c /\ Len(s) + 1 \notin DOMAIN s
         /\ Len(s) \in Nat
OBVIOUS

\* Constants of the operation and job types.
LEMMA NothingTypes == NoOperation \in OperationType /\ NoJob \in JobType
BY DEF NoOperation, OperationType, NoJob, JobType, Answers

\* A job starts: StartJob.
LEMMA StartJobTypes ==
  ASSUME GroupTypeOK, NEW m \in Members, NEW j \in Slots, NEW n \in Commits, NEW a \in Nat,
         StartJob(m, j, n, a)
  PROVE  /\ jobs' \in [Members -> [Slots -> JobType]]
         /\ requests' \in SUBSET RequestType
<1>1. chain[m] \in Seq(Commits) /\ failed[m] \in BOOLEAN /\ requests \in SUBSET RequestType
      /\ jobs \in [Members -> [Slots -> JobType]]
  BY TypeFacts
<1> DEFINE J == [commit |-> n, base |-> chain[m], flag |-> failed[m], attempts |-> a,
                 answer |-> "none"]
<1>2. J \in JobType
  BY <1>1 DEF JobType, Answers
<1>3. jobs' = [jobs EXCEPT ![m][j] = J] /\ requests' = requests \union {[commit |-> n, slot |-> j]}
  BY DEF StartJob
<1> HIDE DEF J
<1>4. [commit |-> n, slot |-> j] \in RequestType
  BY DEF RequestType
<1> QED
  BY <1>1, <1>2, <1>3, <1>4

\* CreateOperation keeps the types.
LEMMA CreateTypes ==
  ASSUME GroupTypeOK, KnownCommits, NEW m \in Members, NEW j \in Slots, CreateOperation(m, j)
  PROVE  GroupTypeOK' /\ KnownCommits'
<1> DEFINE n == Len(staged) + 1
           c == [by |-> m, on |-> chain[m]]
           o == [NoOperation EXCEPT !.commit = n]
<1>1. /\ staged' = Append(staged, c) /\ pending' = [pending EXCEPT ![m] = n]
      /\ op' = [op EXCEPT ![m] = o] /\ StartJob(m, j, n, 0) /\ n <= MaxCommits
      /\ OneJob(m, j)
      /\ UNCHANGED <<log, handlers, queue, chain, failed, gaveUp>>
  BY DEF CreateOperation, dsVars
<1>2. c \in CommitType /\ staged \in Seq(CommitType)
  BY TypeFacts DEF CommitType
<1>3. /\ staged' \in Seq(CommitType) /\ DOMAIN staged' = DOMAIN staged \union {n}
      /\ \A k \in DOMAIN staged : staged'[k] = staged[k]
  BY <1>1, <1>2, StagedAppended
<1>4. n \in Commits /\ n # 0
  BY <1>1, <1>2, GroupAssumption DEF Commits
<1>5. o \in OperationType /\ o.commit = n
  BY <1>4 DEF OperationType, NoOperation
<1>6. requests' = requests \union {[commit |-> n, slot |-> j]}
  BY <1>1 DEF StartJob
<1>7. groupFaults' \in Nat
  BY <1>1, TypeFacts DEF OneJob, UnlessCalm, GroupFault
<1> HIDE DEF n, c, o
<1>8. jobs' \in [Members -> [Slots -> JobType]] /\ requests' \in SUBSET RequestType
  BY <1>1, <1>4, StartJobTypes
<1>9. op' \in [Members -> OperationType] /\ pending' \in [Members -> Commits \union {0}]
  BY <1>1, <1>4, <1>5, TypeFacts
<1>10. GroupTypeOK'
  BY <1>1, <1>3, <1>7, <1>8, <1>9
     DEF GroupTypeOK, CommitType, RequestType, OperationType, JobType
<1>11. \A k \in Members : op'[k].commit # 0 => op'[k].commit \in DOMAIN staged'
  BY <1>1, <1>3, <1>5, TypeFacts DEF KnownCommits
<1>12. \A r \in requests' : r.commit \in DOMAIN staged'
  BY <1>3, <1>6 DEF KnownCommits
<1> QED
  BY <1>1, <1>3, <1>10, <1>11, <1>12 DEF KnownCommits, EpochOf

\* RetryOperation keeps the types.
LEMMA RetryTypes ==
  ASSUME GroupTypeOK, KnownCommits, NEW m \in Members, NEW j \in Slots, RetryOperation(m, j)
  PROVE  GroupTypeOK' /\ KnownCommits'
<1>1. /\ StartJob(m, j, op[m].commit, op[m].attempts) /\ OneJob(m, j) /\ op[m].commit # 0
      /\ UNCHANGED <<staged, log, handlers, queue, chain, pending, op, failed, gaveUp>>
  BY DEF RetryOperation, Retriable, dsVars, memberVars
<1>2. op[m].commit \in Commits /\ op[m].commit \in DOMAIN staged /\ op[m].attempts \in Nat
  BY <1>1, TypeFacts DEF OperationType, KnownCommits
<1>3. jobs' \in [Members -> [Slots -> JobType]] /\ requests' \in SUBSET RequestType
  BY <1>1, <1>2, StartJobTypes
<1>4. requests' = requests \union {[commit |-> op[m].commit, slot |-> j]}
  BY <1>1 DEF StartJob
<1>5. groupFaults' \in Nat
  BY <1>1, TypeFacts DEF OneJob, UnlessCalm, GroupFault
<1>6. GroupTypeOK'
  BY <1>1, <1>3, <1>5 DEF GroupTypeOK, RequestType, JobType
<1> QED
  BY <1>1, <1>2, <1>4, <1>6 DEF KnownCommits, EpochOf

(* What JobStep does to the operation and the flag of a member: the row is *)
(* kept, rewritten or deleted, never created.                              *)
LEMMA JobStepEffects ==
  ASSUME GroupTypeOK, NEW m \in Members, NEW j \in Slots, JobStep(m, j)
  PROVE  /\ UNCHANGED <<staged, log, requests, handlers, queue, groupFaults>>
         /\ jobs' = [jobs EXCEPT ![m][j] = NoJob] /\ Running(m, j)
         /\ op' \in [Members -> OperationType] /\ pending' \in [Members -> Commits \union {0}]
         /\ \A k \in Members : op'[k].commit \in {op[k].commit, 0}
         /\ failed' \in [Members -> BOOLEAN]
<1>1. /\ UNCHANGED <<staged, log, requests, handlers, queue, groupFaults>>
      /\ jobs' = [jobs EXCEPT ![m][j] = NoJob] /\ Running(m, j)
  BY DEF JobStep, JobMerges, JobLoses, JobWaits, JobRetriesLater, JobGivesUp, Answered, dsVars
<1>2. /\ op \in [Members -> OperationType] /\ pending \in [Members -> Commits \union {0}]
      /\ failed \in [Members -> BOOLEAN] /\ jobs[m][j].attempts \in Nat
  BY TypeFacts DEF JobType
<1> DEFINE Good == /\ op' \in [Members -> OperationType]
                   /\ pending' \in [Members -> Commits \union {0}]
                   /\ \A k \in Members : op'[k].commit \in {op[k].commit, 0}
<1>3. ASSUME RemoveOperation(m) PROVE Good
  BY <1>2, <1>3, NothingTypes DEF RemoveOperation, NoOperation
<1>4. JobLoses(m, j) => Good
  BY <1>2 DEF JobLoses, memberVars
<1>5. JobWaits(m, j) => Good
  <2> SUFFICES ASSUME JobWaits(m, j) PROVE Good
    OBVIOUS
  <2> DEFINE o == [op[m] EXCEPT !.waiting = (op[m].commit # 0)]
  <2>1. pending' = pending /\ op' = [op EXCEPT ![m] = o]
    BY DEF JobWaits, MarkWaiting
  <2>2. o \in OperationType /\ o.commit = op[m].commit
    BY <1>2, Zenon DEF OperationType
  <2> HIDE DEF o
  <2> QED
    BY <1>2, <2>1, <2>2
<1>6. JobRetriesLater(m, j) => Good
  <2> SUFFICES ASSUME JobRetriesLater(m, j) PROVE Good
    OBVIOUS
  <2> DEFINE o == [op[m] EXCEPT !.attempts = jobs[m][j].attempts + 1]
  <2>1. pending' = pending /\ (op' = op \/ op' = [op EXCEPT ![m] = o])
    BY DEF JobRetriesLater
  <2>2. o \in OperationType /\ o.commit = op[m].commit
    BY <1>2 DEF OperationType
  <2> HIDE DEF o
  <2> QED
    BY <1>2, <2>1, <2>2
<1>7. Good
  BY <1>3, <1>4, <1>5, <1>6 DEF JobStep, JobMerges, JobGivesUp
<1>8. failed' \in [Members -> BOOLEAN]
  <2>1. JobMerges(m, j) \/ JobLoses(m, j) \/ JobRetriesLater(m, j) => failed' \in [Members -> BOOLEAN]
    BY <1>2 DEF JobMerges, JobLoses, JobRetriesLater, memberVars
  <2>2. JobWaits(m, j) => failed' \in [Members -> BOOLEAN]
    BY <1>2, Zenon DEF JobWaits, MarkFailed
  <2>3. JobGivesUp(m, j) => failed' \in [Members -> BOOLEAN]
    BY <1>2, Zenon DEF JobGivesUp
  <2> QED
    BY <2>1, <2>2, <2>3 DEF JobStep
<1> QED
  BY <1>1, <1>7, <1>8

\* A job that ends keeps the types.
LEMMA JobTypes ==
  ASSUME GroupTypeOK, KnownCommits, NEW m \in Members, NEW j \in Slots, JobStep(m, j)
  PROVE  GroupTypeOK' /\ KnownCommits'
<1>1. /\ UNCHANGED <<staged, log, requests, handlers, queue, groupFaults>>
      /\ jobs' = [jobs EXCEPT ![m][j] = NoJob] /\ Running(m, j)
      /\ op' \in [Members -> OperationType] /\ pending' \in [Members -> Commits \union {0}]
      /\ \A k \in Members : op'[k].commit \in {op[k].commit, 0}
      /\ failed' \in [Members -> BOOLEAN]
  BY JobStepEffects
<1>2. jobs' \in [Members -> [Slots -> JobType]]
  BY <1>1, TypeFacts, NothingTypes
<1>3. jobs[m][j].commit \in Commits /\ jobs[m][j].base \in Seq(Commits)
  BY <1>1, TypeFacts DEF Running, JobType
<1>4. chain' \in [Members -> Seq(Commits)]
  <2>1. Append(jobs[m][j].base, jobs[m][j].commit) \in Seq(Commits) /\ chain \in [Members -> Seq(Commits)]
    BY <1>3, TypeFacts
  <2>2. \/ chain' = chain
        \/ chain' = [chain EXCEPT ![m] = Append(jobs[m][j].base, jobs[m][j].commit)]
    BY DEF JobStep, JobMerges, JobLoses, JobWaits, JobRetriesLater, JobGivesUp, memberVars
  <2> QED
    BY <2>1, <2>2
<1>5. gaveUp' \in SUBSET Commits
  BY <1>3, TypeFacts DEF JobStep, JobMerges, JobLoses, JobWaits, JobRetriesLater, JobGivesUp
<1>6. GroupTypeOK'
  BY <1>1, <1>2, <1>4, <1>5 DEF GroupTypeOK, JobType, OperationType
<1> QED
  BY <1>1, <1>6 DEF KnownCommits, EpochOf

\* A commit that was staged.
LEMMA StagedFacts ==
  ASSUME GroupTypeOK, NEW n \in DOMAIN staged
  PROVE  /\ Author(n) \in Members /\ staged[n].by \in Members
         /\ staged[n].on \in Seq(Commits) /\ EpochOf(n) \in Nat
<1>1. staged \in Seq(CommitType)
  BY TypeFacts
<1>2. staged[n] \in CommitType
  BY <1>1
<1>3. staged[n].by \in Members /\ staged[n].on \in Seq(Commits)
  BY <1>2 DEF CommitType
<1> QED
  BY <1>3 DEF Author, EpochOf

\* A job with another answer.
WithAnswer(J, a) == [J EXCEPT !.answer = a]

\* An answer changes nothing else of a job.
LEMMA AnsweredJob ==
  ASSUME NEW J \in JobType, NEW a \in Answers
  PROVE  /\ WithAnswer(J, a) \in JobType
         /\ WithAnswer(J, a).answer = a
         /\ WithAnswer(J, a).commit = J.commit
         /\ WithAnswer(J, a).base = J.base
BY DEF JobType, WithAnswer

\* The answer of the DS is a change to the answer of the job that waits for it.
LEMMA AnswerEffects ==
  ASSUME GroupTypeOK, NEW n \in DOMAIN staged, NEW j \in Slots \union {NoSlot}, NEW a \in Answers
  PROVE  /\ Answer(n, j, a) \in [Members -> [Slots -> JobType]]
         /\ \A m \in Members, k \in Slots :
              \/ Answer(n, j, a)[m][k] = jobs[m][k]
              \/ /\ jobs[m][k].commit = n
                 /\ Answer(n, j, a)[m][k] = WithAnswer(jobs[m][k], a)
<1>1. jobs \in [Members -> [Slots -> JobType]] /\ Author(n) \in Members
  BY TypeFacts, StagedFacts
<1>2. CASE j = NoSlot \/ jobs[Author(n)][j].commit # n
  BY <1>1, <1>2 DEF Answer
<1>3. CASE j \in Slots /\ jobs[Author(n)][j].commit = n /\ j # NoSlot
  <2> DEFINE p == Author(n)
             J == WithAnswer(jobs[p][j], a)
  <2>1. Answer(n, j, a) = [jobs EXCEPT ![p][j] = J]
    BY <1>3 DEF Answer, WithAnswer
  <2>2. J \in JobType
    BY <1>1, <1>3, AnsweredJob
  <2>3. \A m \in Members, k \in Slots : m = p /\ k = j => Answer(n, j, a)[m][k] = J
    BY <1>1, <1>3, <2>1
  <2>4. \A m \in Members, k \in Slots : ~(m = p /\ k = j) => Answer(n, j, a)[m][k] = jobs[m][k]
    BY <1>1, <1>3, <2>1
  <2>5. Answer(n, j, a) \in [Members -> [Slots -> JobType]]
    <3> HIDE DEF J
    <3> QED
      BY <1>1, <1>3, <2>1, <2>2
  <2> QED
    BY <1>3, <2>3, <2>4, <2>5
<1> QED
  BY <1>2, <1>3

\* What DsAccepts does.
LEMMA AcceptEffects ==
  ASSUME GroupTypeOK, KnownCommits, NEW r \in requests, DsAccepts(r)
  PROVE  /\ r.commit \in Commits /\ r.commit \in DOMAIN staged /\ Author(r.commit) \in Members
         /\ log' = Append(log, r.commit) /\ log' \in Seq(Commits) /\ Len(log') = Len(log) + 1
         /\ Len(log) \in Nat /\ staged[r.commit].on = log
         /\ \A e \in DOMAIN log : e \in DOMAIN log' /\ log'[e] = log[e]
         /\ log'[Len(log) + 1] = r.commit
         /\ handlers' = handlers \union
              {[commit |-> r.commit, to |-> Members \ {Author(r.commit)}, slot |-> r.slot]}
         /\ handlers' \in SUBSET HandlerType
         /\ requests' \subseteq requests
         /\ groupFaults' \in Nat
         /\ UNCHANGED <<staged, queue, chain, pending, op, failed, jobs, gaveUp>>
<1>1. /\ r \in RequestType /\ log \in Seq(Commits) /\ staged \in Seq(CommitType)
      /\ handlers \in SUBSET HandlerType /\ groupFaults \in Nat
  BY TypeFacts
<1>2. r.commit \in Commits /\ r.commit \in DOMAIN staged /\ r.slot \in Slots \union {NoSlot}
  BY <1>1 DEF RequestType, KnownCommits
<1>3. Author(r.commit) \in Members
  BY <1>2, StagedFacts
<1>4. /\ log' = Append(log, r.commit) /\ staged[r.commit].on = log /\ requests' \subseteq requests
      /\ handlers' = handlers \union
           {[commit |-> r.commit, to |-> Members \ {Author(r.commit)}, slot |-> r.slot]}
      /\ UNCHANGED <<staged, queue, chain, pending, op, failed, jobs, gaveUp>>
  BY DEF DsAccepts, Acceptable, memberVars
<1>5. [commit |-> r.commit, to |-> Members \ {Author(r.commit)}, slot |-> r.slot] \in HandlerType
  BY <1>2 DEF HandlerType
<1>6. groupFaults' \in Nat
  BY <1>1 DEF DsAccepts, UnlessCalm, GroupFault
<1>7. /\ log' \in Seq(Commits) /\ Len(log') = Len(log) + 1 /\ Len(log) \in Nat
      /\ \A e \in DOMAIN log : e \in DOMAIN log' /\ log'[e] = log[e]
      /\ log'[Len(log) + 1] = r.commit
  BY <1>1, <1>2, <1>4
<1> QED
  BY <1>1, <1>2, <1>3, <1>4, <1>5, <1>6, <1>7

\* The handlers after handler h has dispatched to member m, or failed to.
Served(S, h, m) == (S \ {h}) \union {[h EXCEPT !.to = @ \ {m}]}

\* A handler that has served a member is the same but for that member.
LEMMA Dispatched ==
  ASSUME GroupTypeOK, NEW h \in handlers, NEW m \in Members
  PROVE  /\ Served(handlers, h, m) \in SUBSET HandlerType
         /\ \A x \in Served(handlers, h, m) :
              \/ x \in handlers /\ x # h
              \/ x.commit = h.commit /\ x.to = h.to \ {m} /\ x.slot = h.slot
         /\ \A x \in Served(handlers, h, m) :
              \E y \in handlers : x.commit = y.commit
BY TypeFacts DEF HandlerType, Served

\* The steps of the DS keep the types.
LEMMA DsTypes ==
  ASSUME GroupTypeOK, KnownCommits,
         \/ DsStep
         \/ \E h \in handlers : \E m \in Members : DispatchFails(h, m)
  PROVE  GroupTypeOK' /\ KnownCommits'
<1> DEFINE Goal == GroupTypeOK' /\ KnownCommits'
<1>0. /\ requests \in SUBSET RequestType /\ handlers \in SUBSET HandlerType
      /\ queue \in [Members -> Seq(MessageType)] /\ groupFaults \in Nat
      /\ staged \in Seq(CommitType) /\ log \in Seq(Commits) /\ Len(log) \in Nat
      /\ \A h \in handlers : h.commit \in DOMAIN staged /\ h.slot \in Slots \union {NoSlot}
      /\ \A n \in DOMAIN staged : EpochOf(n) \in Nat
  BY TypeFacts DEF KnownCommits, HandlerType, EpochOf, CommitType
<1>1. ASSUME NEW r \in requests, DsAccepts(r) PROVE Goal
  <2>1. GroupTypeOK'
    BY <1>1, AcceptEffects DEF GroupTypeOK, HandlerType
  <2>2. \A h \in handlers' : h.commit \in DOMAIN staged' /\ EpochOf(h.commit)' < Len(log')
    BY <1>0, <1>1, AcceptEffects DEF KnownCommits, EpochOf
  <2>3. \A m \in Members : \A i \in DOMAIN queue[m] : queue[m][i].epoch < Len(log')
    <3>1. \A m \in Members : \A i \in DOMAIN queue[m] : queue[m][i] \in MessageType
      BY <1>0
    <3>2. \A m \in Members : \A i \in DOMAIN queue[m] :
            queue[m][i].epoch \in Nat /\ queue[m][i].epoch < Len(log)
      BY <3>1 DEF MessageType, KnownCommits
    <3>3. Len(log') = Len(log) + 1
      BY <1>1, AcceptEffects
    <3> QED
      BY <1>0, <3>2, <3>3
  <2> QED
    BY <1>1, <2>1, <2>2, <2>3, AcceptEffects DEF KnownCommits
<1>2. ASSUME NEW r \in requests, DsRejects(r) PROVE Goal
  <2>1. r.commit \in DOMAIN staged /\ r.slot \in Slots \union {NoSlot}
    BY <1>0 DEF KnownCommits, RequestType
  <2>2. \E a \in Answers : jobs' = Answer(r.commit, r.slot, a)
    BY <1>2 DEF DsRejects, Answers
  <2>3. jobs' \in [Members -> [Slots -> JobType]]
    <3>1. PICK a \in Answers : jobs' = Answer(r.commit, r.slot, a)
      BY <2>2
    <3>2. Answer(r.commit, r.slot, a) \in [Members -> [Slots -> JobType]]
      BY <2>1, AnswerEffects
    <3> QED
      BY <3>1, <3>2
  <2>4. /\ requests' \subseteq requests /\ groupFaults' \in Nat
        /\ UNCHANGED <<staged, log, handlers, queue, chain, pending, op, failed, gaveUp>>
    BY <1>0, <1>2 DEF DsRejects, UnlessCalm, GroupFault, dsVars, memberVars
  <2>5. GroupTypeOK'
    BY <2>3, <2>4 DEF GroupTypeOK, JobType
  <2> QED
    BY <2>4, <2>5 DEF KnownCommits, EpochOf
<1>3. ASSUME NEW h \in handlers, CommitResponse(h) PROVE Goal
  <2>1. jobs' \in [Members -> [Slots -> JobType]]
    BY <1>0, <1>3, AnswerEffects DEF CommitResponse, Answers
  <2> DEFINE x == ResponseMessage(h.commit)
             p == Author(h.commit)
  <2>2. x \in MessageType /\ x.epoch < Len(log) /\ p \in Members
    <3>1. p \in Members /\ EpochOf(h.commit) \in Nat /\ EpochOf(h.commit) < Len(log)
      BY <1>0, StagedFacts DEF KnownCommits
    <3> QED
      BY <3>1 DEF ResponseMessage, MessageType
  <2>3. /\ handlers' \subseteq handlers /\ queue' = [queue EXCEPT ![p] = Append(@, x)]
        /\ UNCHANGED <<staged, log, requests, chain, pending, op, failed, gaveUp, groupFaults>>
    BY <1>3 DEF CommitResponse, memberVars
  <2> HIDE DEF x, p
  <2>4. queue' \in [Members -> Seq(MessageType)]
    BY <1>0, <2>2, <2>3, MessageQueue
  <2>5. \A m \in Members : \A i \in DOMAIN queue'[m] : queue'[m][i].epoch < Len(log')
    BY <1>0, <2>2, <2>3, MessageQueue DEF KnownCommits
  <2>6. GroupTypeOK'
    BY <2>1, <2>3, <2>4 DEF GroupTypeOK, JobType, MessageType
  <2> QED
    BY <2>3, <2>5, <2>6 DEF KnownCommits, EpochOf
<1>4. ASSUME NEW h \in handlers, NEW m \in Members, FanOut(h, m) PROVE Goal
  <2> DEFINE x == [kind |-> "commit", epoch |-> EpochOf(h.commit)]
  <2>1. x \in MessageType /\ x.epoch < Len(log)
    BY <1>0 DEF MessageType, KnownCommits
  <2>2. /\ handlers' = Served(handlers, h, m)
        /\ queue' = [queue EXCEPT ![m] = Append(@, x)]
        /\ UNCHANGED <<staged, log, requests, chain, pending, op, failed, jobs, gaveUp, groupFaults>>
    BY <1>4 DEF FanOut, memberVars, Served
  <2> HIDE DEF x
  <2>3. handlers' \in SUBSET HandlerType /\ \A y \in handlers' : \E z \in handlers : y.commit = z.commit
    BY <1>0, <2>2, Dispatched
  <2>4. queue' \in [Members -> Seq(MessageType)]
    BY <1>0, <2>1, <2>2, MessageQueue
  <2>5. \A k \in Members : \A i \in DOMAIN queue'[k] : queue'[k][i].epoch < Len(log')
    BY <1>0, <2>1, <2>2, MessageQueue DEF KnownCommits
  <2>6. GroupTypeOK'
    BY <2>2, <2>3, <2>4 DEF GroupTypeOK, HandlerType, MessageType
  <2> QED
    BY <2>2, <2>3, <2>5, <2>6 DEF KnownCommits, EpochOf
<1>5. ASSUME NEW h \in handlers, NEW m \in Members, DispatchFails(h, m) PROVE Goal
  <2>1. jobs' \in [Members -> [Slots -> JobType]]
    <3>1. Answer(h.commit, h.slot, "ok") \in [Members -> [Slots -> JobType]]
      BY <1>0, AnswerEffects DEF Answers
    <3>2. jobs' = jobs \/ jobs' = Answer(h.commit, h.slot, "ok")
      BY <1>5 DEF DispatchFails
    <3> QED
      BY <3>1, <3>2, TypeFacts
  <2>2. /\ \/ handlers' = Served(handlers, h, m)
           \/ handlers' = handlers \ {h}
        /\ groupFaults' \in Nat
        /\ UNCHANGED <<staged, log, requests, queue, chain, pending, op, failed, gaveUp>>
    BY <1>0, <1>5 DEF DispatchFails, GroupFault, memberVars, Served
  <2>3. handlers' \in SUBSET HandlerType /\ \A y \in handlers' : \E z \in handlers : y.commit = z.commit
    BY <1>0, <2>2, Dispatched
  <2>4. GroupTypeOK'
    BY <2>1, <2>2, <2>3 DEF GroupTypeOK, HandlerType, JobType
  <2> QED
    BY <2>2, <2>3, <2>4 DEF KnownCommits, EpochOf
<1> HIDE DEF Goal
<1>6. Goal
  BY <1>1, <1>2, <1>3, <1>4, <1>5 DEF DsStep
<1> QED
  BY <1>6 DEF Goal

\* What a member that processes a message does to its queue.
LEMMA TakenEffects ==
  ASSUME GroupTypeOK, NEW m \in Members, QueueStep(m)
  PROVE  /\ queue[m] # <<>> /\ queue' = [queue EXCEPT ![m] = Tail(@)]
         /\ queue' \in [Members -> Seq(MessageType)]
         /\ \A k \in Members : \A i \in DOMAIN queue'[k] :
              \E l \in DOMAIN queue[k] : queue'[k][i] = queue[k][l]
         /\ Head(queue[m]) = queue[m][1] /\ 1 \in DOMAIN queue[m]
         /\ UNCHANGED <<staged, log, handlers, requests, jobs, gaveUp, groupFaults>>
<1>1. /\ queue[m] # <<>> /\ queue' = [queue EXCEPT ![m] = Tail(@)]
      /\ UNCHANGED <<staged, log, handlers, requests, jobs, gaveUp, groupFaults>>
  BY DEF QueueStep, IgnoreCommit, FutureCommit, MergeCommit, IgnoreResponse, MergeResponse,
         Received, Taken, dsVars
<1>2. queue \in [Members -> Seq(MessageType)]
  BY TypeFacts
<1>3. /\ Head(queue[m]) = queue[m][1] /\ 1 \in DOMAIN queue[m]
      /\ Tail(queue[m]) \in Seq(MessageType)
      /\ \A i \in DOMAIN Tail(queue[m]) :
           i + 1 \in DOMAIN queue[m] /\ Tail(queue[m])[i] = queue[m][i + 1]
  BY <1>1, <1>2, MessageQueue
<1> QED
  BY <1>1, <1>2, <1>3

\* A member that processes its queue keeps the types.
LEMMA QueueStepTypes ==
  ASSUME GroupTypeOK, KnownCommits, NEW m \in Members, QueueStep(m)
  PROVE  GroupTypeOK' /\ KnownCommits'
<1>1. /\ chain \in [Members -> Seq(Commits)] /\ pending \in [Members -> Commits \union {0}]
      /\ op \in [Members -> OperationType] /\ failed \in [Members -> BOOLEAN]
      /\ log \in Seq(Commits) /\ queue \in [Members -> Seq(MessageType)]
  BY TypeFacts
<1>2. chain' \in [Members -> Seq(Commits)]
  <2>1. MergeCommit(m) => chain' \in [Members -> Seq(Commits)]
    <3> SUFFICES ASSUME MergeCommit(m) PROVE chain' \in [Members -> Seq(Commits)]
      OBVIOUS
    <3>1. Epoch(m) < Len(log) /\ Epoch(m) \in Nat /\ Len(log) \in Nat
      BY <1>1, TakenEffects DEF MergeCommit, MessageEpoch, KnownCommits, Epoch
    <3>2. log[Epoch(m) + 1] \in Commits
      BY <1>1, <3>1
    <3>3. Append(chain[m], log[Epoch(m) + 1]) \in Seq(Commits)
      BY <1>1, <3>2
    <3> QED
      BY <1>1, <3>3 DEF MergeCommit
  <2>2. MergeResponse(m) => chain' \in [Members -> Seq(Commits)]
    BY <1>1 DEF MergeResponse, MergePending
  <2>3. IgnoreCommit(m) \/ FutureCommit(m) \/ IgnoreResponse(m) => chain' = chain
    BY DEF IgnoreCommit, FutureCommit, IgnoreResponse, memberVars
  <2> QED
    BY <1>1, <2>1, <2>2, <2>3 DEF QueueStep
<1>3. /\ op' \in [Members -> OperationType] /\ pending' \in [Members -> Commits \union {0}]
      /\ \A k \in Members : op'[k].commit \in {op[k].commit, 0}
  <2>1. \/ RemoveOperation(m) \/ UNCHANGED <<op, pending>>
    BY DEF QueueStep, IgnoreCommit, FutureCommit, MergeCommit, IgnoreResponse, MergeResponse,
           memberVars
  <2> QED
    <3>1. CASE UNCHANGED <<op, pending>>
      BY <1>1, <3>1
    <3>2. CASE RemoveOperation(m)
      <4>1. op' = [op EXCEPT ![m] = NoOperation] /\ pending' = [pending EXCEPT ![m] = 0]
        BY <3>2 DEF RemoveOperation
      <4>2. NoOperation \in OperationType /\ NoOperation.commit = 0
        BY NothingTypes DEF NoOperation
      <4> HIDE DEF NoOperation
      <4> QED
        BY <1>1, <4>1, <4>2
    <3> QED
      BY <2>1, <3>1, <3>2
<1>4. failed' \in [Members -> BOOLEAN]
  <2>1. FutureCommit(m) => failed' \in [Members -> BOOLEAN]
    BY <1>1, Zenon DEF FutureCommit, MarkFailed
  <2>2. ~FutureCommit(m) => failed' \in [Members -> BOOLEAN]
    BY <1>1 DEF QueueStep, IgnoreCommit, MergeCommit, IgnoreResponse, MergeResponse, memberVars
  <2> QED
    BY <2>1, <2>2
<1>5. GroupTypeOK'
  BY <1>2, <1>3, <1>4, TakenEffects DEF GroupTypeOK, MessageType, OperationType
<1>6. \A k \in Members : \A i \in DOMAIN queue'[k] : queue'[k][i].epoch < Len(log')
  BY TakenEffects DEF KnownCommits
<1> QED
  BY <1>3, <1>5, <1>6, TakenEffects DEF KnownCommits, EpochOf

\* A network error, a crash and a blocked operation keep the types.
LEMMA DisturbedTypes ==
  ASSUME GroupTypeOK, KnownCommits, NEW m \in Members,
         BlockedOperation(m) \/ CrashMember(m) \/ \E j \in Slots : NetworkError(m, j)
  PROVE  GroupTypeOK' /\ KnownCommits'
<1> DEFINE Goal == GroupTypeOK' /\ KnownCommits'
<1>0. /\ requests \in SUBSET RequestType /\ handlers \in SUBSET HandlerType
      /\ jobs \in [Members -> [Slots -> JobType]] /\ groupFaults \in Nat
      /\ op \in [Members -> OperationType] /\ failed \in [Members -> BOOLEAN]
  BY TypeFacts
<1>1. CASE BlockedOperation(m)
  <2>1. failed' \in [Members -> BOOLEAN]
    BY <1>0, <1>1, Zenon DEF BlockedOperation, MarkFailed
  <2>2. UNCHANGED <<staged, log, handlers, requests, queue, chain, pending, op, jobs, gaveUp, groupFaults>>
    BY <1>1 DEF BlockedOperation, dsVars
  <2> QED
    BY <2>1, <2>2 DEF GroupTypeOK, KnownCommits, EpochOf
<1>2. ASSUME NEW j \in Slots, NetworkError(m, j) PROVE Goal
  <2> DEFINE J == WithAnswer(jobs[m][j], "network")
  <2>1. /\ jobs' = [jobs EXCEPT ![m][j] = J] /\ groupFaults' \in Nat
        /\ handlers' = Orphaned(m, j, handlers)
        /\ requests' = Orphaned(m, j, requests) \/ requests' \subseteq requests
        /\ UNCHANGED <<staged, log, queue, chain, pending, op, failed, gaveUp>>
    BY <1>0, <1>2 DEF NetworkError, GroupFault, memberVars, WithAnswer
  <2>2. J \in JobType
    <3>1. jobs[m][j] \in JobType /\ "network" \in Answers
      BY <1>0 DEF Answers
    <3> QED
      BY <3>1, AnsweredJob
  <2> HIDE DEF J
  <2>3. jobs' \in [Members -> [Slots -> JobType]]
    BY <1>0, <2>1, <2>2
  <2>4. handlers' \in SUBSET HandlerType /\ \A y \in handlers' : \E z \in handlers : y.commit = z.commit
    BY <1>0, <2>1, OrphanedHandlers
  <2>5. requests' \in SUBSET RequestType /\ \A y \in requests' : \E z \in requests : y.commit = z.commit
    BY <1>0, <2>1, OrphanedRequests
  <2>6. GroupTypeOK'
    BY <2>1, <2>3, <2>4, <2>5 DEF GroupTypeOK, HandlerType, RequestType, JobType
  <2> QED
    BY <2>1, <2>4, <2>5, <2>6 DEF KnownCommits, EpochOf
<1>3. CASE CrashMember(m)
  <2>1. /\ jobs' = [jobs EXCEPT ![m] = [j \in Slots |-> NoJob]] /\ groupFaults' \in Nat
        /\ handlers' = Orphaned(m, "ui", Orphaned(m, "outbound", handlers))
        /\ requests' = Orphaned(m, "ui", Orphaned(m, "outbound", requests))
        /\ UNCHANGED <<staged, log, queue, chain, pending, failed, gaveUp>>
        /\ UNCHANGED op \/ MarkWaiting(m)
    BY <1>0, <1>3 DEF CrashMember, GroupFault
  <2>2. jobs' \in [Members -> [Slots -> JobType]]
    BY <1>0, <2>1, NothingTypes
  <2>3. handlers' \in SUBSET HandlerType /\ \A y \in handlers' : \E z \in handlers : y.commit = z.commit
    BY <1>0, <2>1, OrphanedHandlers
  <2>4. requests' \in SUBSET RequestType /\ \A y \in requests' : \E z \in requests : y.commit = z.commit
    BY <1>0, <2>1, OrphanedRequests
  <2> DEFINE o == [op[m] EXCEPT !.waiting = (op[m].commit # 0)]
  <2>5. op' = op \/ op' = [op EXCEPT ![m] = o]
    BY <2>1 DEF MarkWaiting
  <2>6. o \in OperationType /\ o.commit = op[m].commit
    BY <1>0, Zenon DEF OperationType
  <2> HIDE DEF o
  <2>7. op' \in [Members -> OperationType] /\ \A k \in Members : op'[k].commit = op[k].commit
    BY <1>0, <2>5, <2>6
  <2>8. GroupTypeOK'
    BY <2>1, <2>2, <2>3, <2>4, <2>7 DEF GroupTypeOK, HandlerType, RequestType, JobType, OperationType
  <2> QED
    BY <2>1, <2>3, <2>4, <2>7, <2>8 DEF KnownCommits, EpochOf
<1> HIDE DEF Goal
<1>4. Goal
  BY <1>1, <1>2, <1>3 DEF Goal
<1> QED
  BY <1>4 DEF Goal

\* Every step keeps the types.
LEMMA GroupStepTypes ==
  GroupTypeOK /\ KnownCommits /\ [GroupNext]_groupVars => GroupTypeOK' /\ KnownCommits'
<1> SUFFICES ASSUME GroupTypeOK, KnownCommits, [GroupNext]_groupVars
             PROVE  GroupTypeOK' /\ KnownCommits'
  OBVIOUS
<1>1. CASE GroupNext
  BY <1>1, CreateTypes, RetryTypes, JobTypes, DsTypes, QueueStepTypes, DisturbedTypes DEF GroupNext
<1>2. CASE UNCHANGED groupVars
  BY <1>2 DEF groupVars, memberVars, GroupTypeOK, KnownCommits, EpochOf
<1> QED
  BY <1>1, <1>2

(* Every variable keeps its type, whatever fails or overlaps: in           *)
(* particular a merged commit was staged, and the commit of a message in   *)
(* a queue is one that the DS has.                                         *)
THEOREM GroupTypeCorrect == GroupSpec => []GroupTypeOK
<1>1. GroupSpec => [](GroupTypeOK /\ KnownCommits)
  BY GroupInitTypes, GroupStepTypes, PTL DEF GroupSpec
<1> QED
  BY <1>1, PTL

-----------------------------------------------------------------------------
(***************************************************************************)
(* The operation and its commit.                                           *)
(***************************************************************************)

\* What CreateOperation does.
LEMMA CreateEffects ==
  ASSUME GroupTypeOK, NEW m \in Members, NEW j \in Slots, CreateOperation(m, j)
  PROVE  /\ staged' = Append(staged, [by |-> m, on |-> chain[m]])
         /\ DOMAIN staged' = DOMAIN staged \union {Len(staged) + 1}
         /\ \A k \in DOMAIN staged : staged'[k] = staged[k]
         /\ staged'[Len(staged) + 1].by = m /\ staged'[Len(staged) + 1].on = chain[m]
         /\ Len(staged) + 1 \notin DOMAIN staged /\ Len(staged) \in Nat /\ Len(staged) + 1 # 0
         /\ pending[m] = 0 /\ pending' = [pending EXCEPT ![m] = Len(staged) + 1]
         /\ op[m].commit = 0
         /\ op' = [op EXCEPT ![m] = [NoOperation EXCEPT !.commit = Len(staged) + 1]]
         /\ [NoOperation EXCEPT !.commit = Len(staged) + 1].commit = Len(staged) + 1
         /\ StartJob(m, j, Len(staged) + 1, 0) /\ OneJob(m, j) /\ ~Running(m, j)
         /\ UNCHANGED <<log, handlers, queue, chain, failed, gaveUp>>
<1>1. staged \in Seq(CommitType) /\ [by |-> m, on |-> chain[m]] \in CommitType
  BY TypeFacts DEF CommitType
<1>2. [NoOperation EXCEPT !.commit = Len(staged) + 1].commit = Len(staged) + 1
  BY DEF NoOperation
<1>3. staged' = Append(staged, [by |-> m, on |-> chain[m]])
  BY DEF CreateOperation
<1>4. /\ DOMAIN staged' = DOMAIN staged \union {Len(staged) + 1}
      /\ \A k \in DOMAIN staged : staged'[k] = staged[k]
      /\ staged'[Len(staged) + 1] = [by |-> m, on |-> chain[m]]
      /\ Len(staged) + 1 \notin DOMAIN staged /\ Len(staged) \in Nat
  BY <1>1, <1>3, StagedAppended
<1> QED
  BY <1>2, <1>3, <1>4 DEF CreateOperation, Clean, dsVars

(* A step leaves the group and the operation of a member alone, creates an *)
(* operation, or is one of the four that remove it.                        *)
LEMMA MemberEffects ==
  ASSUME GroupTypeOK, GroupNext, NEW m \in Members
  PROVE  \/ /\ chain'[m] = chain[m] /\ pending'[m] = pending[m]
            /\ op'[m].commit = op[m].commit
         \/ \E j \in Slots : CreateOperation(m, j) \/ JobMerges(m, j) \/ JobGivesUp(m, j)
         \/ MergeCommit(m) \/ MergeResponse(m)
<1> DEFINE Same == /\ chain'[m] = chain[m] /\ pending'[m] = pending[m]
                   /\ op'[m].commit = op[m].commit
           Goal == \/ Same
                   \/ \E j \in Slots : CreateOperation(m, j) \/ JobMerges(m, j) \/ JobGivesUp(m, j)
                   \/ MergeCommit(m) \/ MergeResponse(m)
<1>0. /\ op \in [Members -> OperationType] /\ pending \in [Members -> Commits \union {0}]
      /\ chain \in [Members -> Seq(Commits)]
  BY TypeFacts
<1>1. ASSUME NEW k \in Members, NEW j \in Slots, CreateOperation(k, j) PROVE Goal
  BY <1>0, <1>1, CreateEffects
<1>2. ASSUME NEW k \in Members, RemoveOperation(k),
             chain' = chain \/ \E c : chain' = [chain EXCEPT ![k] = c]
      PROVE  k = m \/ Same
  BY <1>0, <1>2 DEF RemoveOperation
<1>3. ASSUME UNCHANGED <<chain, op, pending>> PROVE Same
  BY <1>3
<1>4. ASSUME NEW k \in Members, MarkWaiting(k), UNCHANGED <<chain, pending>> PROVE Same
  <2>1. op' = [op EXCEPT ![k] = [op[k] EXCEPT !.waiting = (op[k].commit # 0)]]
    BY <1>4 DEF MarkWaiting
  <2>2. [op[k] EXCEPT !.waiting = (op[k].commit # 0)].commit = op[k].commit
    BY <1>0 DEF OperationType
  <2>3. op'[m].commit = op[m].commit
    BY <1>0, <2>1, <2>2, Zenon
  <2> QED
    BY <1>4, <2>3
<1>5. ASSUME NEW k \in Members, NEW j \in Slots, JobStep(k, j) PROVE Goal
  <2>1. JobRetriesLater(k, j) => Same
    <3> SUFFICES ASSUME JobRetriesLater(k, j) PROVE Same
      OBVIOUS
    <3> DEFINE o == [op[k] EXCEPT !.attempts = jobs[k][j].attempts + 1]
    <3>1. chain' = chain /\ pending' = pending /\ (op' = op \/ op' = [op EXCEPT ![k] = o])
      BY DEF JobRetriesLater
    <3>2. o.commit = op[k].commit
      BY <1>0 DEF OperationType
    <3> HIDE DEF o
    <3> QED
      BY <1>0, <3>1, <3>2
  <2>2. JobMerges(k, j) \/ JobGivesUp(k, j) => k = m \/ Same
    <3> HIDE DEF Same
    <3> QED
      BY <1>2 DEF JobMerges, JobGivesUp
  <2>3. JobLoses(k, j) \/ JobWaits(k, j) => Same
    <3> HIDE DEF Same
    <3> QED
      BY <1>3, <1>4 DEF JobLoses, JobWaits, memberVars
  <2> HIDE DEF Same
  <2> QED
    BY <1>5, <2>1, <2>2, <2>3 DEF JobStep
<1>6. ASSUME NEW k \in Members, QueueStep(k) PROVE Goal
  <2> HIDE DEF Same
  <2>1. MergeCommit(k) \/ MergeResponse(k) => k = m \/ Same
    BY <1>2 DEF MergeCommit, MergeResponse, MergePending
  <2>2. IgnoreCommit(k) \/ FutureCommit(k) \/ IgnoreResponse(k) => Same
    BY <1>3 DEF IgnoreCommit, FutureCommit, IgnoreResponse, memberVars
  <2> QED
    BY <1>6, <2>1, <2>2 DEF QueueStep
<1>7. ASSUME DsStep \/ \E h \in handlers : \E k \in Members : DispatchFails(h, k) PROVE Goal
  <2> HIDE DEF Same
  <2> QED
    BY <1>3, <1>7 DEF DsStep, DsAccepts, DsRejects, CommitResponse, FanOut, DispatchFails, memberVars
<1>8. ASSUME NEW k \in Members, CrashMember(k) \/ BlockedOperation(k) PROVE Goal
  <2> HIDE DEF Same
  <2> QED
    BY <1>3, <1>4, <1>8 DEF CrashMember, BlockedOperation
<1>9. ASSUME NEW k \in Members, NEW j \in Slots, RetryOperation(k, j) \/ NetworkError(k, j) PROVE Goal
  <2> HIDE DEF Same
  <2> QED
    BY <1>3, <1>9 DEF RetryOperation, NetworkError, memberVars
<1> HIDE DEF Goal
<1>10. Goal
  BY <1>1, <1>5, <1>6, <1>7, <1>8, <1>9 DEF GroupNext
<1> QED
  BY <1>10 DEF Goal

\* Where an operation is removed, so is the pending commit.
LEMMA RemovedEffects ==
  ASSUME GroupTypeOK, NEW m \in Members, NEW j \in Slots,
         JobMerges(m, j) \/ JobGivesUp(m, j) \/ MergeCommit(m) \/ MergeResponse(m)
  PROVE  op'[m].commit = 0 /\ pending'[m] = 0
<1>1. op' = [op EXCEPT ![m] = NoOperation] /\ pending' = [pending EXCEPT ![m] = 0]
  BY DEF JobMerges, JobGivesUp, MergeCommit, MergeResponse, RemoveOperation
<1>2. NoOperation.commit = 0
  BY DEF NoOperation
<1> QED
  BY <1>1, <1>2, TypeFacts

\* Every step keeps an operation together with its pending commit.
LEMMA OperationKept ==
  GroupTypeOK /\ OperationHasItsCommit /\ [GroupNext]_groupVars => OperationHasItsCommit'
<1> SUFFICES ASSUME GroupTypeOK, OperationHasItsCommit, [GroupNext]_groupVars
             PROVE  OperationHasItsCommit'
  OBVIOUS
<1>1. CASE UNCHANGED groupVars
  BY <1>1 DEF groupVars, memberVars, OperationHasItsCommit
<1>2. CASE GroupNext
  <2> SUFFICES ASSUME NEW m \in Members PROVE op'[m].commit = pending'[m]
    BY DEF OperationHasItsCommit
  <2>1. ASSUME NEW j \in Slots, CreateOperation(m, j) PROVE op'[m].commit = pending'[m]
    BY <2>1, CreateEffects, TypeFacts
  <2>2. "ui" \in Slots
    BY DEF Slots
  <2> QED
    BY <1>2, <2>1, <2>2, MemberEffects, RemovedEffects DEF OperationHasItsCommit
<1> QED
  BY <1>1, <1>2

(* In every configuration, overlapping jobs and crashes included, a member *)
(* has a stored operation exactly when its MLS group has the pending       *)
(* commit of that operation.                                               *)
THEOREM CommitAndOperation == GroupSpec => []OperationHasItsCommit
<1>1. GroupInit => OperationHasItsCommit
  BY DEF GroupInit, OperationHasItsCommit, NoOperation
<1> QED
  BY <1>1, GroupTypeCorrect, OperationKept, PTL DEF GroupSpec

-----------------------------------------------------------------------------
(***************************************************************************)
(* What a step does to the history of the group and to the jobs.           *)
(***************************************************************************)

\* A prefix, element by element.
LEMMA PrefixPointwise ==
  ASSUME NEW s \in Seq(Commits), NEW t \in Seq(Commits)
  PROVE  IsPrefix(s, t) <=> Len(s) <= Len(t) /\ \A i \in 1..Len(s) : s[i] = t[i]
<1>1. ASSUME Len(s) <= Len(t)
      PROVE  /\ SubSeq(s, 1, Len(s)) = [i \in 1..Len(s) |-> s[i]]
             /\ SubSeq(t, 1, Len(s)) = [i \in 1..Len(s) |-> t[i]]
  BY <1>1
<1> QED
  BY <1>1 DEF IsPrefix

\* Commits stay staged, accepted and given up.
LEMMA HistoryEffects ==
  ASSUME GroupTypeOK, KnownCommits, GroupNext
  PROVE  /\ \A n \in DOMAIN staged : n \in DOMAIN staged' /\ staged'[n] = staged[n]
         /\ \A e \in DOMAIN log : e \in DOMAIN log' /\ log'[e] = log[e]
         /\ gaveUp \subseteq gaveUp'
         /\ Len(log) <= Len(log')
         /\ staged' = staged \/ \E m \in Members, j \in Slots : CreateOperation(m, j)
         /\ log' = log \/ \E r \in requests : DsAccepts(r)
         /\ gaveUp' = gaveUp \/ \E m \in Members, j \in Slots : JobGivesUp(m, j)
<1>0. log \in Seq(Commits)
  BY TypeFacts
<1>1. \/ UNCHANGED <<staged, log, gaveUp>>
      \/ \E m \in Members, j \in Slots : CreateOperation(m, j) \/ JobGivesUp(m, j)
      \/ \E r \in requests : DsAccepts(r)
  <2> DEFINE Same == UNCHANGED <<staged, log, gaveUp>>
  <2>1. \A m \in Members, j \in Slots :
          RetryOperation(m, j) \/ NetworkError(m, j) \/ (JobStep(m, j) /\ ~JobGivesUp(m, j)) => Same
    BY DEF RetryOperation, NetworkError, JobStep, JobMerges, JobLoses, JobWaits, JobRetriesLater,
           dsVars
  <2>2. \A m \in Members : BlockedOperation(m) \/ QueueStep(m) \/ CrashMember(m) => Same
    BY TakenEffects DEF BlockedOperation, CrashMember, dsVars
  <2>3. DsStep => Same \/ \E r \in requests : DsAccepts(r)
    BY DEF DsStep, DsRejects, CommitResponse, FanOut, dsVars
  <2>4. \A h \in handlers : \A m \in Members : DispatchFails(h, m) => Same
    BY DEF DispatchFails
  <2> HIDE DEF Same
  <2>5. \/ Same
        \/ \E m \in Members, j \in Slots : CreateOperation(m, j) \/ JobGivesUp(m, j)
        \/ \E r \in requests : DsAccepts(r)
    BY <2>1, <2>2, <2>3, <2>4 DEF GroupNext
  <2> QED
    BY <2>5 DEF Same
<1>2. CASE UNCHANGED <<staged, log, gaveUp>>
  BY <1>0, <1>2
<1>3. ASSUME NEW m \in Members, NEW j \in Slots, CreateOperation(m, j)
      PROVE  /\ \A n \in DOMAIN staged : n \in DOMAIN staged' /\ staged'[n] = staged[n]
             /\ log' = log /\ gaveUp' = gaveUp
  BY <1>3, CreateEffects
<1>4. ASSUME NEW m \in Members, NEW j \in Slots, JobGivesUp(m, j)
      PROVE  staged' = staged /\ log' = log /\ gaveUp \subseteq gaveUp'
  BY <1>4 DEF JobGivesUp, dsVars
<1>5. ASSUME NEW r \in requests, DsAccepts(r)
      PROVE  /\ \A e \in DOMAIN log : e \in DOMAIN log' /\ log'[e] = log[e]
             /\ Len(log) <= Len(log') /\ staged' = staged /\ gaveUp' = gaveUp
  BY <1>5, AcceptEffects
<1>6. Len(log) <= Len(log)
  BY <1>0
<1> QED
  BY <1>1, <1>2, <1>3, <1>4, <1>5, <1>6

\* What was accepted, or abandoned, stays so.
LEMMA StaysAccepted ==
  ASSUME GroupTypeOK, KnownCommits, GroupNext, gaveUp \subseteq DOMAIN staged
  PROVE  /\ \A n : Accepted(n) => Accepted(n)'
         /\ \A n \in DOMAIN staged : Author(n)' = Author(n) /\ EpochOf(n)' = EpochOf(n)
         /\ \A m \in Members : Abandoned(m) => Abandoned(m)'
<1>1. \A n : Accepted(n) => Accepted(n)'
  BY HistoryEffects DEF Accepted
<1>2. \A n \in DOMAIN staged : Author(n)' = Author(n) /\ EpochOf(n)' = EpochOf(n)
  BY HistoryEffects DEF Author, EpochOf
<1>3. \A m \in Members : Abandoned(m) => Abandoned(m)'
  BY <1>1, <1>2, HistoryEffects DEF Abandoned
<1> QED
  BY <1>1, <1>2, <1>3

(* A job is as before, or is over, or has got an answer ("ok" only after   *)
(* the handler of its commit is done), or starts.                          *)
LEMMA JobEffects ==
  ASSUME GroupTypeOK, KnownCommits, \A h \in handlers : Accepted(h.commit), GroupNext,
         NEW m \in Members, NEW j \in Slots
  PROVE  \/ jobs'[m][j].commit = 0
         \/ /\ jobs'[m][j].commit = jobs[m][j].commit /\ jobs'[m][j].base = jobs[m][j].base
            /\ jobs'[m][j].answer = "ok" => jobs[m][j].answer = "ok" \/ Accepted(jobs[m][j].commit)
         \/ CreateOperation(m, j) \/ RetryOperation(m, j)
<1> DEFINE Same == /\ jobs'[m][j].commit = jobs[m][j].commit /\ jobs'[m][j].base = jobs[m][j].base
                   /\ jobs'[m][j].answer = "ok" => jobs[m][j].answer = "ok" \/ Accepted(jobs[m][j].commit)
           Goal == jobs'[m][j].commit = 0 \/ Same \/ CreateOperation(m, j) \/ RetryOperation(m, j)
<1>0. jobs \in [Members -> [Slots -> JobType]] /\ jobs[m][j] \in JobType
  BY TypeFacts
<1>1. ASSUME jobs' = jobs PROVE Same
  BY <1>1
<1>2. ASSUME NEW p \in Members, NEW k \in Slots, NEW n, NEW a, StartJob(p, k, n, a)
      PROVE  Same \/ (p = m /\ k = j)
  <2>1. PICK J : jobs' = [jobs EXCEPT ![p][k] = J]
    BY <1>2 DEF StartJob
  <2>2. p # m \/ k # j => jobs'[m][j] = jobs[m][j]
    BY <1>0, <2>1
  <2> QED
    BY <2>2
<1>3. ASSUME NEW p \in Members, NEW k \in Slots, JobStep(p, k) PROVE Goal
  <2>1. jobs' = [jobs EXCEPT ![p][k] = NoJob] /\ NoJob.commit = 0
    BY <1>3, JobStepEffects DEF NoJob
  <2>2. jobs'[m][j] = jobs[m][j] \/ jobs'[m][j] = NoJob
    BY <1>0, <2>1
  <2> QED
    BY <2>1, <2>2
<1>4. ASSUME NEW n \in DOMAIN staged, NEW k \in Slots \union {NoSlot}, NEW a \in Answers,
             a # "ok" \/ Accepted(n), jobs' = Answer(n, k, a)
      PROVE  Same
  <2>1. \/ jobs'[m][j] = jobs[m][j]
        \/ jobs[m][j].commit = n /\ jobs'[m][j] = WithAnswer(jobs[m][j], a)
    <3> DEFINE A == Answer(n, k, a)
    <3>1. \A x \in Members, y \in Slots :
            \/ A[x][y] = jobs[x][y]
            \/ jobs[x][y].commit = n /\ A[x][y] = WithAnswer(jobs[x][y], a)
      BY <1>4, AnswerEffects, Zenon
    <3>2. jobs' = A
      BY <1>4
    <3> HIDE DEF A
    <3> QED
      BY <3>1, <3>2
  <2> DEFINE J == WithAnswer(jobs[m][j], a)
  <2>2. J.answer = a /\ J.commit = jobs[m][j].commit /\ J.base = jobs[m][j].base
    BY <1>0, AnsweredJob
  <2>3. jobs'[m][j] = jobs[m][j] \/ (jobs[m][j].commit = n /\ jobs'[m][j] = J)
    BY <2>1
  <2> HIDE DEF J
  <2> QED
    BY <1>4, <2>2, <2>3
<1>5. ASSUME DsStep \/ \E h \in handlers : \E p \in Members : DispatchFails(h, p) PROVE Same
  <2> HIDE DEF Same
  <2>0. /\ \A r \in requests : r.commit \in DOMAIN staged /\ r.slot \in Slots \union {NoSlot}
        /\ \A h \in handlers : h.commit \in DOMAIN staged /\ h.slot \in Slots \union {NoSlot}
    BY TypeFacts DEF KnownCommits, RequestType, HandlerType
  <2>1. ASSUME NEW r \in requests, DsAccepts(r) \/ DsRejects(r) PROVE Same
    <3>1. "wrong_epoch" \in Answers /\ "internal" \in Answers
      BY DEF Answers
    <3>2. DsRejects(r) => \/ jobs' = Answer(r.commit, r.slot, "wrong_epoch")
                          \/ jobs' = Answer(r.commit, r.slot, "internal")
      BY DEF DsRejects
    <3>3. DsAccepts(r) => jobs' = jobs
      BY DEF DsAccepts
    <3> QED
      BY <1>1, <1>4, <2>0, <2>1, <3>1, <3>2, <3>3
  <2>2. ASSUME NEW h \in handlers, NEW p \in Members,
               CommitResponse(h) \/ FanOut(h, p) \/ DispatchFails(h, p)
        PROVE  Same
    <3>1. jobs' = jobs \/ jobs' = Answer(h.commit, h.slot, "ok")
      BY <2>2 DEF CommitResponse, FanOut, DispatchFails
    <3>2. "ok" \in Answers
      BY DEF Answers
    <3> QED
      BY <1>1, <1>4, <2>0, <3>1, <3>2
  <2>3. \A h \in handlers : CommitResponse(h) => Same
    BY <2>2
  <2> QED
    BY <1>5, <2>1, <2>2, <2>3 DEF DsStep
<1>6. ASSUME NEW p \in Members, NEW k \in Slots, NetworkError(p, k) PROVE Same
  <2>1. jobs' = [jobs EXCEPT ![p][k] = WithAnswer(jobs[p][k], "network")]
    BY <1>6 DEF NetworkError, WithAnswer
  <2>2. jobs'[m][j] = jobs[m][j] \/ jobs'[m][j] = WithAnswer(jobs[m][j], "network")
    BY <1>0, <2>1
  <2> DEFINE J == WithAnswer(jobs[m][j], "network")
  <2>3. J.answer = "network" /\ J.commit = jobs[m][j].commit /\ J.base = jobs[m][j].base
    BY <1>0 DEF JobType, WithAnswer
  <2>4. jobs'[m][j] = jobs[m][j] \/ jobs'[m][j] = J
    BY <2>2
  <2> HIDE DEF J
  <2> QED
    BY <2>3, <2>4
<1>7. ASSUME NEW p \in Members, CrashMember(p) PROVE Goal
  <2>1. jobs' = [jobs EXCEPT ![p] = [k \in Slots |-> NoJob]] /\ NoJob.commit = 0
    BY <1>7 DEF CrashMember, NoJob
  <2>2. jobs'[m][j] = jobs[m][j] \/ jobs'[m][j] = NoJob
    BY <1>0, <2>1
  <2> QED
    BY <2>1, <2>2
<1>8. ASSUME NEW p \in Members, BlockedOperation(p) \/ QueueStep(p) PROVE Same
  BY <1>8, TakenEffects DEF BlockedOperation
<1>9. ASSUME NEW p \in Members, NEW k \in Slots, CreateOperation(p, k) \/ RetryOperation(p, k)
      PROVE  Goal
  <2> HIDE DEF Same
  <2> QED
    BY <1>2, <1>9 DEF CreateOperation, RetryOperation
<1>10. Goal
  <2> HIDE DEF Goal
  <2>1. Same => Goal
    BY DEF Goal
  <2> HIDE DEF Same
  <2> QED
    BY <1>3, <1>5, <1>6, <1>7, <1>8, <1>9, <2>1 DEF GroupNext
<1> QED
  BY <1>10

-----------------------------------------------------------------------------
(***************************************************************************)
(* The inductive invariant is kept, conjunct by conjunct.                  *)
(***************************************************************************)

\* The accepted commits and their epochs.
LEMMA AcceptedEpoch ==
  ASSUME GroupTypeOK, LogIsChain, NEW n, Accepted(n)
  PROVE  n \in DOMAIN staged /\ EpochOf(n) \in Nat /\ EpochOf(n) < Len(log)
         /\ log[EpochOf(n) + 1] = n
         /\ \A i \in 1..EpochOf(n) : staged[n].on[i] = log[i]
<1>1. PICK e \in DOMAIN log : log[e] = n
  BY DEF Accepted
<1>2. n \in DOMAIN staged /\ EpochOf(n) = e - 1 /\ \A i \in 1..(e - 1) : staged[n].on[i] = log[i]
  BY <1>1 DEF LogIsChain
<1>3. e \in 1..Len(log) /\ Len(log) \in Nat
  BY <1>1, TypeFacts
<1> QED
  BY <1>1, <1>2, <1>3

\* The DS accepts only commits made on its last state.
LEMMA LogIsChainKept ==
  ASSUME GroupTypeOK, KnownCommits, LogIsChain, GroupNext PROVE LogIsChain'
<1>0. log \in Seq(Commits) /\ DOMAIN log = 1..Len(log) /\ Len(log) \in Nat
  BY TypeFacts
<1>1. \A n \in DOMAIN staged : n \in DOMAIN staged' /\ staged'[n] = staged[n]
  BY HistoryEffects
<1>2. CASE log' = log
  BY <1>1, <1>2 DEF LogIsChain, EpochOf
<1>3. ASSUME NEW r \in requests, DsAccepts(r) PROVE LogIsChain'
  <2>1. /\ r.commit \in DOMAIN staged /\ staged' = staged /\ Len(log') = Len(log) + 1
        /\ staged[r.commit].on = log /\ log'[Len(log) + 1] = r.commit
        /\ \A e \in 1..Len(log) : log'[e] = log[e]
        /\ DOMAIN log' = 1..Len(log')
    BY <1>0, <1>3, AcceptEffects
  <2> SUFFICES ASSUME NEW e \in DOMAIN log'
               PROVE  /\ log'[e] \in DOMAIN staged /\ Len(staged[log'[e]].on) = e - 1
                      /\ \A i \in 1..(e - 1) : staged[log'[e]].on[i] = log'[i]
    BY <2>1 DEF LogIsChain, EpochOf
  <2>2. CASE e = Len(log) + 1
    BY <1>0, <2>1, <2>2
  <2>3. CASE e \in 1..Len(log)
    <3>1. log[e] \in DOMAIN staged /\ Len(staged[log[e]].on) = e - 1
          /\ \A i \in 1..(e - 1) : staged[log[e]].on[i] = log[i]
      BY <1>0, <2>3 DEF LogIsChain, EpochOf
    <3>2. \A i \in 1..(e - 1) : i \in 1..Len(log)
      BY <1>0, <2>3
    <3> QED
      BY <2>1, <2>3, <3>1, <3>2
  <2> QED
    BY <1>0, <2>1, <2>2, <2>3
<1> QED
  BY <1>2, <1>3, HistoryEffects

\* A pending commit is made on the chain of its author, or dropped when that moves.
LEMMA PendingOnChainKept ==
  ASSUME GroupTypeOK, KnownCommits, PendingOnChain, GroupNext PROVE PendingOnChain'
<1> SUFFICES ASSUME NEW m \in Members, pending'[m] # 0
             PROVE  /\ pending'[m] \in DOMAIN staged' /\ staged'[pending'[m]].by = m
                    /\ staged'[pending'[m]].on = chain'[m]
  BY DEF PendingOnChain, Author
<1>1. \A n \in DOMAIN staged : n \in DOMAIN staged' /\ staged'[n] = staged[n]
  BY HistoryEffects
<1>2. CASE chain'[m] = chain[m] /\ pending'[m] = pending[m]
  BY <1>1, <1>2 DEF PendingOnChain, Author
<1>3. CASE \E j \in Slots : CreateOperation(m, j)
  <2>1. PICK j \in Slots : CreateOperation(m, j)
    BY <1>3
  <2>2. pending'[m] = Len(staged) + 1 /\ chain' = chain
    BY <2>1, CreateEffects, TypeFacts
  <2>3. /\ Len(staged) + 1 \in DOMAIN staged' /\ staged'[Len(staged) + 1].by = m
        /\ staged'[Len(staged) + 1].on = chain[m]
    BY <2>1, CreateEffects
  <2> QED
    BY <2>2, <2>3
<1>4. "ui" \in Slots
  BY DEF Slots
<1> QED
  BY <1>2, <1>3, <1>4, MemberEffects, RemovedEffects

\* No second job is given the same operation while one holds it.
LEMMA JobOwnsOperationKept ==
  ASSUME NoRace, GroupTypeOK, KnownCommits, PendingOnChain, InFlight, OperationHasItsCommit,
         JobOwnsOperation, GroupNext
  PROVE  JobOwnsOperation'
<1> SUFFICES ASSUME NEW m \in Members, NEW j \in Slots, jobs'[m][j].commit # 0
             PROVE  /\ jobs'[m][j].commit \in DOMAIN staged'
                    /\ Author(jobs[m][j].commit)' = m
                    /\ jobs'[m][j].base = staged'[jobs'[m][j].commit].on
                    /\ jobs'[m][j].answer = "ok" => Accepted(jobs[m][j].commit)'
                    /\ op'[m].commit # 0 => op'[m].commit = jobs'[m][j].commit
  BY DEF JobOwnsOperation, Running
<1>0. \A n \in DOMAIN staged : n \in DOMAIN staged' /\ staged'[n] = staged[n]
  BY HistoryEffects
<1>1. ASSUME NEW k \in Slots, CreateOperation(m, k) PROVE j = k
  <2>1. OneJob(m, k) /\ StartJob(m, k, Len(staged) + 1, 0)
    BY <1>1, CreateEffects
  <2>2. \A l \in Slots \ {k} : ~Running(m, l)
    BY <2>1 DEF OneJob, UnlessCalm, NoRace, GroupFault
  <2>3. j # k => jobs'[m][j] = jobs[m][j]
    BY <2>1, TypeFacts DEF StartJob
  <2> QED
    BY <2>2, <2>3 DEF Running
<1>2. CASE CreateOperation(m, j)
  <2> DEFINE n == Len(staged) + 1
  <2>1. /\ StartJob(m, j, n, 0) /\ op'[m].commit = n /\ n \in DOMAIN staged'
        /\ staged'[n].by = m /\ staged'[n].on = chain[m]
    BY <1>2, CreateEffects, TypeFacts
  <2> HIDE DEF n
  <2>2. jobs'[m][j].commit = n /\ jobs'[m][j].base = chain[m] /\ jobs'[m][j].answer = "none"
    BY <2>1, TypeFacts DEF StartJob
  <2> QED
    BY <2>1, <2>2 DEF Author
<1>3. CASE RetryOperation(m, j)
  <2> DEFINE n == op[m].commit
  <2>1. n # 0 /\ StartJob(m, j, n, op[m].attempts) /\ UNCHANGED <<staged, op, chain>>
    BY <1>3 DEF RetryOperation, Retriable, memberVars
  <2>2. n = pending[m] /\ n \in DOMAIN staged /\ staged[n].by = m /\ staged[n].on = chain[m]
    BY <2>1 DEF PendingOnChain, OperationHasItsCommit, Author
  <2>3. op'[m].commit = n
    BY <2>1
  <2> HIDE DEF n
  <2>4. jobs'[m][j].commit = n /\ jobs'[m][j].base = chain[m] /\ jobs'[m][j].answer = "none"
    BY <2>1, TypeFacts DEF StartJob
  <2> QED
    BY <2>1, <2>2, <2>3, <2>4 DEF Author
<1>4. CASE /\ jobs'[m][j].commit = jobs[m][j].commit /\ jobs'[m][j].base = jobs[m][j].base
           /\ jobs'[m][j].answer = "ok" => jobs[m][j].answer = "ok" \/ Accepted(jobs[m][j].commit)
           /\ ~CreateOperation(m, j)
  <2> DEFINE n == jobs[m][j].commit
  <2>1. /\ n \in DOMAIN staged /\ staged[n].by = m /\ jobs[m][j].base = staged[n].on
        /\ jobs[m][j].answer = "ok" => Accepted(n)
        /\ op[m].commit # 0 => op[m].commit = n
    BY <1>4 DEF JobOwnsOperation, Running, Author
  <2>2. op'[m].commit = op[m].commit \/ op'[m].commit = 0
    <3>1. \A k \in Slots : ~CreateOperation(m, k)
      BY <1>1, <1>4
    <3>2. "ui" \in Slots
      BY DEF Slots
    <3> QED
      BY <3>1, <3>2, MemberEffects, RemovedEffects
  <2>3. \A e \in DOMAIN log : e \in DOMAIN log' /\ log'[e] = log[e]
    BY HistoryEffects
  <2>4. n \in DOMAIN staged' /\ staged'[n] = staged[n]
    BY <1>0, <2>1
  <2>5. Author(n)' = m
    BY <1>4, <2>1, <2>4 DEF Author
  <2>6. jobs'[m][j].answer = "ok" => Accepted(n)'
    BY <1>4, <2>1, <2>3 DEF Accepted
  <2> QED
    BY <1>4, <2>1, <2>2, <2>4, <2>5, <2>6
<1>5. \A h \in handlers : Accepted(h.commit)
  BY DEF InFlight
<1> QED
  BY <1>2, <1>3, <1>4, <1>5, JobEffects

\* A handler was there before, for the same commit, or is that of an accepted request.
LEMMA HandlerEffects ==
  ASSUME GroupTypeOK, KnownCommits, GroupNext, NEW h \in handlers'
  PROVE  \/ \E g \in handlers : h.commit = g.commit
         \/ \E r \in requests : DsAccepts(r) /\ h.commit = r.commit
<1> DEFINE Old == \E g \in handlers : h.commit = g.commit
           Goal == Old \/ \E r \in requests : DsAccepts(r) /\ h.commit = r.commit
<1>0. handlers \in SUBSET HandlerType
  BY TypeFacts
<1>1. ASSUME handlers' \subseteq handlers PROVE Old
  BY <1>1
<1>2. ASSUME NEW g \in handlers, NEW m \in Members, handlers' = Served(handlers, g, m) PROVE Old
  BY <1>2, Dispatched
<1>3. ASSUME NEW r \in requests, DsAccepts(r) PROVE Goal
  BY <1>3, AcceptEffects
<1>4. ASSUME NEW g \in handlers, NEW m \in Members, CommitResponse(g) \/ FanOut(g, m) \/ DispatchFails(g, m)
      PROVE  Old
  <2>1. handlers' = handlers \ {g} \/ handlers' = Served(handlers, g, m)
    BY <1>4 DEF CommitResponse, FanOut, DispatchFails, Served
  <2> HIDE DEF Old
  <2> QED
    BY <1>1, <1>2, <2>1
<1>5. ASSUME NEW m \in Members, NEW j \in Slots, NetworkError(m, j) PROVE Old
  BY <1>0, <1>5, OrphanedHandlers DEF NetworkError
<1>6. ASSUME NEW m \in Members, CrashMember(m) PROVE Old
  BY <1>0, <1>6, OrphanedHandlers DEF CrashMember
<1>7. ASSUME NEW m \in Members, BlockedOperation(m) \/ QueueStep(m) PROVE Old
  BY <1>7, TakenEffects DEF BlockedOperation, dsVars
<1>8. ASSUME NEW m \in Members, NEW j \in Slots,
             CreateOperation(m, j) \/ RetryOperation(m, j) \/ JobStep(m, j)
      PROVE  Old
  <2>1. handlers' = handlers
    BY <1>8, JobStepEffects DEF CreateOperation, RetryOperation, dsVars
  <2> QED
    BY <2>1
<1>9. ASSUME DsStep PROVE Goal
  <2>1. ASSUME NEW r \in requests, DsRejects(r) PROVE Old
    <3>1. handlers' = handlers
      BY <2>1 DEF DsRejects, dsVars
    <3> QED
      BY <3>1
  <2>2. ASSUME NEW g \in handlers, CommitResponse(g) PROVE Old
    <3>1. handlers' \subseteq handlers
      BY <2>2 DEF CommitResponse
    <3> QED
      BY <1>1, <3>1
  <2>3. Old => Goal
    OBVIOUS
  <2> HIDE DEF Old, Goal
  <2> QED
    BY <1>3, <1>4, <1>9, <2>1, <2>2, <2>3 DEF DsStep
<1>10. Old => Goal
  OBVIOUS
<1>11. Goal
  <2> HIDE DEF Old, Goal
  <2> QED
    BY <1>4, <1>5, <1>6, <1>7, <1>8, <1>9, <1>10 DEF GroupNext
<1> QED
  BY <1>11

\* A handler starts only when its commit is accepted.
LEMMA InFlightKept ==
  ASSUME GroupTypeOK, KnownCommits, JobOwnsOperation, InFlight, GroupNext PROVE InFlight'
<1>1. ASSUME NEW h \in handlers' PROVE Accepted(h.commit)'
  <2>1. \A e \in DOMAIN log : e \in DOMAIN log' /\ log'[e] = log[e]
    BY HistoryEffects
  <2>2. ASSUME NEW g \in handlers, h.commit = g.commit PROVE Accepted(h.commit)'
    BY <2>1, <2>2 DEF InFlight, Accepted
  <2>3. ASSUME NEW r \in requests, DsAccepts(r), h.commit = r.commit PROVE Accepted(h.commit)'
    <3>1. log' \in Seq(Commits) /\ Len(log') = Len(log) + 1 /\ log'[Len(log) + 1] = h.commit /\ Len(log) \in Nat
      BY <2>3, AcceptEffects
    <3>2. Len(log) + 1 \in DOMAIN log'
      BY <3>1
    <3> QED
      BY <3>1, <3>2 DEF Accepted
  <2> QED
    BY <2>2, <2>3, HandlerEffects
<1>2. gaveUp' \subseteq DOMAIN staged'
  <2>1. DOMAIN staged \subseteq DOMAIN staged'
    BY HistoryEffects
  <2>2. ASSUME NEW m \in Members, NEW j \in Slots, JobGivesUp(m, j) PROVE gaveUp' \subseteq DOMAIN staged
    <3>1. gaveUp' = gaveUp \union {jobs[m][j].commit} /\ Running(m, j)
      BY <2>2 DEF JobGivesUp, Answered
    <3> QED
      BY <3>1 DEF InFlight, JobOwnsOperation
  <2> QED
    BY <2>1, <2>2, HistoryEffects DEF InFlight
<1> QED
  BY <1>1, <1>2 DEF InFlight

\* An author drops a commit only when it was given up or its epoch is over.
LEMMA DecidedOrPendingKept ==
  ASSUME GroupTypeOK, KnownCommits, LogIsChain, PendingOnChain, JobOwnsOperation, InFlight,
         OperationHasItsCommit, DecidedOrPending, GroupNext
  PROVE  DecidedOrPending'
<1> SUFFICES ASSUME NEW n \in DOMAIN staged'
             PROVE  pending'[Author(n)'] = n \/ n \in gaveUp' \/ EpochOf(n)' < Len(log')
  BY DEF DecidedOrPending
<1>0. Len(log) \in Nat /\ Len(log') \in Nat /\ Len(log) <= Len(log')
  <2>1. GroupTypeOK'
    BY GroupStepTypes
  <2>2. log \in Seq(Commits) /\ log' \in Seq(Commits)
    BY <2>1 DEF GroupTypeOK
  <2> QED
    BY <2>2, HistoryEffects
<1>1. CASE n \in DOMAIN staged
  <2> DEFINE m == Author(n)
  <2>1. m \in Members /\ Author(n)' = m /\ EpochOf(n)' = EpochOf(n) /\ EpochOf(n) \in Nat
    BY <1>1, HistoryEffects, StagedFacts DEF Author, EpochOf
  <2>2. EpochOf(n) < Len(log) => EpochOf(n) < Len(log')
    BY <1>0, <2>1
  <2>3. gaveUp \subseteq gaveUp'
    BY HistoryEffects
  <2>4. CASE pending[m] = n /\ pending'[m] # n
    <3>1. n # 0 /\ op[m].commit = n /\ staged[n].on = chain[m]
      <4>1. n # 0
        BY <1>1, TypeFacts
      <4> QED
        BY <2>1, <2>4, <4>1 DEF PendingOnChain, OperationHasItsCommit
    <3> HIDE DEF m
    <3>2. ASSUME NEW j \in Slots, JobMerges(m, j) PROVE EpochOf(n) < Len(log)
      <4>1. Running(m, j) /\ jobs[m][j].answer = "ok"
        BY <3>2 DEF JobMerges, Answered
      <4>2. jobs[m][j].commit = n /\ Accepted(n)
        BY <2>1, <3>1, <4>1 DEF JobOwnsOperation
      <4> QED
        BY <4>2, AcceptedEpoch
    <3>3. ASSUME NEW j \in Slots, JobGivesUp(m, j) PROVE n \in gaveUp'
      <4>1. Running(m, j) /\ gaveUp' = gaveUp \union {jobs[m][j].commit}
        BY <3>3 DEF JobGivesUp, Answered
      <4> QED
        BY <2>1, <3>1, <4>1 DEF JobOwnsOperation
    <3>4. ASSUME MergeCommit(m) \/ MergeResponse(m) PROVE EpochOf(n) < Len(log)
      <4>1. MessageEpoch(m) = Epoch(m) /\ QueueStep(m)
        BY <3>4 DEF MergeCommit, MergeResponse, QueueStep
      <4>2. MessageEpoch(m) < Len(log)
        BY <2>1, <4>1, TakenEffects DEF MessageEpoch, KnownCommits
      <4> QED
        BY <3>1, <4>1, <4>2 DEF EpochOf, Epoch
    <3>5. ASSUME NEW j \in Slots, CreateOperation(m, j) PROVE FALSE
      BY <2>1, <2>4, <3>1, <3>5, CreateEffects
    <3> QED
      BY <2>1, <2>2, <2>4, <3>2, <3>3, <3>4, <3>5, MemberEffects
  <2> HIDE DEF m
  <2> QED
    BY <1>1, <2>1, <2>2, <2>3, <2>4 DEF DecidedOrPending, m
<1>2. CASE n \notin DOMAIN staged
  <2>1. PICK m \in Members, j \in Slots : CreateOperation(m, j)
    BY <1>2, HistoryEffects
  <2>2. n = Len(staged) + 1 /\ pending'[m] = n /\ staged'[n].by = m
    <3> DEFINE k == Len(staged) + 1
    <3>1. /\ DOMAIN staged' = DOMAIN staged \union {k} /\ staged'[k].by = m
          /\ pending' = [pending EXCEPT ![m] = k]
      BY <2>1, CreateEffects
    <3> HIDE DEF k
    <3>2. pending'[m] = k
      BY <3>1, TypeFacts
    <3>3. n = k
      BY <1>2, <3>1
    <3> QED
      BY <3>1, <3>2, <3>3 DEF k
  <2> QED
    BY <2>2 DEF Author
<1> QED
  BY <1>1, <1>2

\* A message was in the queue before, or a handler dispatches it.
LEMMA QueueEffects ==
  ASSUME GroupTypeOK, KnownCommits, GroupNext, NEW m \in Members, NEW i \in DOMAIN queue'[m]
  PROVE  \/ \E l \in DOMAIN queue[m] : queue'[m][i] = queue[m][l]
         \/ \E h \in handlers : queue'[m][i] = [kind |-> "commit", epoch |-> EpochOf(h.commit)]
         \/ \E h \in handlers : Author(h.commit) = m /\ queue'[m][i] = ResponseMessage(h.commit)
<1> DEFINE Old == \E l \in DOMAIN queue[m] : queue'[m][i] = queue[m][l]
           New == \/ \E h \in handlers : queue'[m][i] = [kind |-> "commit", epoch |-> EpochOf(h.commit)]
                  \/ \E h \in handlers : Author(h.commit) = m /\ queue'[m][i] = ResponseMessage(h.commit)
<1>0. /\ queue \in [Members -> Seq(MessageType)]
      /\ \A h \in handlers : h.commit \in DOMAIN staged /\ EpochOf(h.commit) \in Nat
  BY TypeFacts, StagedFacts DEF KnownCommits
<1>1. ASSUME queue' = queue PROVE Old
  BY <1>1
<1>2. ASSUME NEW k \in Members, NEW x \in MessageType, queue' = [queue EXCEPT ![k] = Append(@, x)]
      PROVE  Old \/ (k = m /\ queue'[m][i] = x)
  BY <1>0, <1>2, MessageQueue
<1>3. ASSUME NEW h \in handlers, CommitResponse(h) PROVE Old \/ New
  <2>1. /\ queue' = [queue EXCEPT ![Author(h.commit)] = Append(@, ResponseMessage(h.commit))]
        /\ ResponseMessage(h.commit) \in MessageType /\ Author(h.commit) \in Members
    BY <1>0, <1>3, StagedFacts DEF CommitResponse, ResponseMessage, MessageType
  <2>2. Old \/ (Author(h.commit) = m /\ queue'[m][i] = ResponseMessage(h.commit))
    <3> HIDE DEF Old
    <3> QED
      BY <1>2, <2>1
  <2> QED
    BY <2>2
<1>4. ASSUME NEW h \in handlers, NEW k \in Members, FanOut(h, k) PROVE Old \/ New
  <2> DEFINE x == [kind |-> "commit", epoch |-> EpochOf(h.commit)]
  <2>1. x \in MessageType /\ queue' = [queue EXCEPT ![k] = Append(@, x)]
    BY <1>0, <1>4 DEF FanOut, MessageType
  <2>2. Old \/ queue'[m][i] = x
    <3> HIDE DEF Old, x
    <3> QED
      BY <1>2, <2>1
  <2> QED
    BY <2>2
<1>5. ASSUME NEW k \in Members, QueueStep(k) PROVE Old
  BY <1>5, TakenEffects
<1>6. ASSUME NEW k \in Members, NEW j \in Slots,
             CreateOperation(k, j) \/ RetryOperation(k, j) \/ JobStep(k, j) \/ NetworkError(k, j)
      PROVE  queue' = queue
  BY <1>6, JobStepEffects DEF CreateOperation, RetryOperation, NetworkError
<1>7. ASSUME NEW k \in Members, BlockedOperation(k) \/ CrashMember(k) PROVE queue' = queue
  BY <1>7 DEF BlockedOperation, CrashMember
<1>8. ASSUME \/ \E r \in requests : DsAccepts(r) \/ DsRejects(r)
             \/ \E h \in handlers : \E k \in Members : DispatchFails(h, k)
      PROVE  queue' = queue
  BY <1>8 DEF DsAccepts, DsRejects, DispatchFails
<1> HIDE DEF Old, New
<1>9. Old \/ New
  BY <1>1, <1>3, <1>4, <1>5, <1>6, <1>7, <1>8 DEF GroupNext, DsStep
<1> QED
  BY <1>9 DEF Old, New

\* A response goes to the author of the commit it answers.
LEMMA ResponsesAreOwnKept ==
  ASSUME GroupTypeOK, KnownCommits, LogIsChain, InFlight, ResponsesAreOwn, GroupNext
  PROVE  ResponsesAreOwn'
<1> SUFFICES ASSUME NEW m \in Members, NEW i \in DOMAIN queue'[m], queue'[m][i].kind = "response"
             PROVE  staged'[log'[queue'[m][i].epoch + 1]].by = m
  BY DEF ResponsesAreOwn, Author
<1>0. /\ \A n \in DOMAIN staged : staged'[n] = staged[n]
      /\ \A e \in DOMAIN log : log'[e] = log[e] /\ log[e] \in DOMAIN staged
      /\ DOMAIN log = 1..Len(log) /\ Len(log) \in Nat
  BY HistoryEffects, TypeFacts DEF LogIsChain
<1>1. ASSUME NEW l \in DOMAIN queue[m], queue'[m][i] = queue[m][l]
      PROVE  staged'[log'[queue'[m][i].epoch + 1]].by = m
  <2> DEFINE e == queue[m][l].epoch
  <2>1. e \in Nat /\ e < Len(log)
    <3>1. queue[m] \in Seq(MessageType)
      BY TypeFacts
    <3>2. queue[m][l] \in MessageType
      BY <3>1
    <3> QED
      BY <3>2 DEF KnownCommits, MessageType
  <2>2. e + 1 \in DOMAIN log
    BY <1>0, <2>1
  <2>3. staged[log[e + 1]].by = m
    BY <1>1 DEF ResponsesAreOwn, Author
  <2> QED
    BY <1>0, <1>1, <2>2, <2>3
<1>2. ASSUME NEW h \in handlers, Author(h.commit) = m, queue'[m][i] = ResponseMessage(h.commit)
      PROVE  staged'[log'[queue'[m][i].epoch + 1]].by = m
  <2>1. Accepted(h.commit) /\ queue'[m][i].epoch = EpochOf(h.commit)
    BY <1>2 DEF InFlight, ResponseMessage
  <2>2. /\ log[EpochOf(h.commit) + 1] = h.commit /\ EpochOf(h.commit) + 1 \in DOMAIN log
        /\ h.commit \in DOMAIN staged
    BY <1>0, <2>1, AcceptedEpoch
  <2> QED
    BY <1>0, <1>2, <2>1, <2>2 DEF Author
<1>3. ASSUME NEW h \in handlers, queue'[m][i] = [kind |-> "commit", epoch |-> EpochOf(h.commit)]
      PROVE  FALSE
  BY <1>3
<1> QED
  BY <1>1, <1>2, <1>3, QueueEffects

\* The chain of a member is what the DS has accepted so far, or a part of it.
OnLog(m) == Epoch(m) <= Len(log) /\ \A i \in 1..Epoch(m) : chain[m][i] = log[i]

\* A member on the log has a prefix of it.
LEMMA OnLogIsPrefix ==
  GroupTypeOK => \A m \in Members : OnLog(m) <=> IsPrefix(chain[m], log)
BY TypeFacts, PrefixPointwise DEF OnLog, Epoch

\* One more accepted commit on a chain.
LEMMA LongerChain ==
  ASSUME NEW c \in Seq(Commits), NEW s \in Seq(Commits), Len(c) < Len(s),
         \A i \in 1..Len(c) : c[i] = s[i]
  PROVE  /\ Len(Append(c, s[Len(c) + 1])) = Len(c) + 1 /\ Len(c) + 1 <= Len(s)
         /\ \A i \in 1..(Len(c) + 1) : Append(c, s[Len(c) + 1])[i] = s[i]
OBVIOUS

\* What JobMerges leaves: the chain up to the job's accepted commit.
LEMMA MergedByJob ==
  ASSUME GroupTypeOK, LogIsChain, JobOwnsOperation, OperationHasItsCommit, PendingOnChain,
         NEW m \in Members, NEW j \in Slots, JobMerges(m, j)
  PROVE  /\ Len(chain'[m]) = Epoch(m) + 1 /\ Epoch(m) + 1 <= Len(log) /\ log' = log
         /\ \A i \in 1..(Epoch(m) + 1) : chain'[m][i] = log[i]
<1> DEFINE n == jobs[m][j].commit
<1>1. /\ Running(m, j) /\ jobs[m][j].answer = "ok" /\ op[m].commit # 0 /\ log' = log
      /\ chain' = [chain EXCEPT ![m] = Append(jobs[m][j].base, n)]
  BY DEF JobMerges, Answered, dsVars
<1>2. /\ Accepted(n) /\ jobs[m][j].base = staged[n].on /\ op[m].commit = n
  BY <1>1 DEF JobOwnsOperation
<1>3. staged[n].on = chain[m]
  BY <1>1, <1>2 DEF OperationHasItsCommit, PendingOnChain
<1>4. log[EpochOf(n) + 1] = n /\ EpochOf(n) < Len(log) /\ \A i \in 1..EpochOf(n) : staged[n].on[i] = log[i]
  BY <1>2, AcceptedEpoch
<1>5. chain'[m] = Append(chain[m], n)
  BY <1>1, <1>2, <1>3, TypeFacts
<1>6. chain[m] \in Seq(Commits) /\ log \in Seq(Commits)
  BY TypeFacts
<1> HIDE DEF n
<1>7. EpochOf(n) = Len(chain[m])
  BY <1>3 DEF EpochOf
<1>8. /\ Len(chain[m]) < Len(log) /\ chain'[m] = Append(chain[m], log[Len(chain[m]) + 1])
      /\ \A i \in 1..Len(chain[m]) : chain[m][i] = log[i]
  BY <1>3, <1>4, <1>5, <1>7
<1>9. log' = log
  BY <1>1
<1> QED
  BY <1>6, <1>8, <1>9, LongerChain DEF Epoch

\* What MergeCommit leaves: one more accepted commit.
LEMMA MergedFromQueue ==
  ASSUME GroupTypeOK, KnownCommits, NEW m \in Members, MergeCommit(m)
  PROVE  /\ Len(chain'[m]) = Epoch(m) + 1 /\ Epoch(m) + 1 <= Len(log) /\ log' = log
         /\ \A i \in 1..(Epoch(m) + 1) : chain'[m][i] = log[i]
<1>1. QueueStep(m)
  BY DEF QueueStep
<1>2. MessageEpoch(m) < Len(log) /\ log' = log
  BY <1>1, TakenEffects DEF MessageEpoch, KnownCommits
<1>3. chain[m] \in Seq(Commits) /\ log \in Seq(Commits)
  BY TypeFacts
<1>4. OnLog(m) /\ MessageEpoch(m) = Epoch(m)
  BY OnLogIsPrefix DEF MergeCommit
<1>5. chain'[m] = Append(chain[m], log[Len(chain[m]) + 1])
  BY TypeFacts DEF MergeCommit, Epoch
<1> QED
  BY <1>2, <1>3, <1>4, <1>5, LongerChain DEF OnLog, Epoch

(* What MergeResponse leaves: one more accepted commit, since the pending  *)
(* commit is the accepted one that the response is for.                    *)
LEMMA MergedOnResponse ==
  ASSUME GroupTypeOK, KnownCommits, ResponsesAreOwn, OwnCommitKept, NEW m \in Members,
         OnLog(m), ~Abandoned(m), MergeResponse(m)
  PROVE  /\ Len(chain'[m]) = Epoch(m) + 1 /\ Epoch(m) + 1 <= Len(log) /\ log' = log
         /\ \A i \in 1..(Epoch(m) + 1) : chain'[m][i] = log[i]
<1>1. QueueStep(m) /\ Received(m, "response") /\ MessageEpoch(m) = Epoch(m) /\ MergePending(m)
  BY DEF QueueStep, MergeResponse
<1>2. MessageEpoch(m) < Len(log) /\ log' = log
  BY <1>1, TakenEffects DEF MessageEpoch, KnownCommits
<1>3. chain[m] \in Seq(Commits) /\ log \in Seq(Commits) /\ Epoch(m) \in Nat /\ Len(log) \in Nat
  BY TypeFacts DEF Epoch
<1>4. Author(log[Epoch(m) + 1]) = m
  BY <1>1, TakenEffects DEF ResponsesAreOwn, Received, MessageEpoch
<1>5. Epoch(m) + 1 \in (Epoch(m) + 1)..Len(log)
  BY <1>1, <1>2, <1>3
<1>6. pending[m] = log[Epoch(m) + 1]
  BY <1>4, <1>5 DEF OwnCommitKept
<1>7. log[Epoch(m) + 1] # 0
  <2>1. log[Epoch(m) + 1] \in Commits
    BY <1>3, <1>5
  <2> QED
    BY <2>1, GroupAssumption DEF Commits
<1>8. chain'[m] = Append(chain[m], log[Len(chain[m]) + 1])
  BY <1>1, <1>6, <1>7, TypeFacts DEF MergePending, Epoch
<1> QED
  BY <1>1, <1>2, <1>3, <1>8, LongerChain DEF OnLog, Epoch

\* Merging, with or without the answer, keeps a member on the log.
LEMMA NoForkKept ==
  ASSUME GroupTypeOK, KnownCommits, GroupInv, GroupNext PROVE NoFork'
<1>0. GroupTypeOK'
  BY GroupStepTypes
<1> SUFFICES ASSUME NEW m \in Members, ~Abandoned(m)' PROVE OnLog(m)'
  <2>1. \A m \in Members : OnLog(m)' <=> IsPrefix(chain'[m], log')
    BY <1>0, PrefixPointwise DEF GroupTypeOK, OnLog, Epoch
  <2> QED
    BY <2>1 DEF NoFork
<1>1. ~Abandoned(m)
  BY StaysAccepted DEF GroupInv, InFlight
<1>2. OnLog(m)
  BY <1>1, OnLogIsPrefix DEF GroupInv, NoFork
<1>3. /\ Len(log) <= Len(log') /\ Len(log) \in Nat /\ Epoch(m) \in Nat
      /\ \A e \in 1..Len(log) : log'[e] = log[e]
  BY HistoryEffects, TypeFacts DEF Epoch
<1>4. CASE chain'[m] = chain[m]
  <2>1. /\ Len(chain[m]) <= Len(log) /\ Len(chain[m]) \in Nat
        /\ \A i \in 1..Len(chain[m]) : chain[m][i] = log[i]
    BY <1>2, <1>3 DEF OnLog, Epoch
  <2>2. Len(log') \in Nat
    BY <1>0 DEF GroupTypeOK
  <2>3. Len(chain[m]) <= Len(log') /\ \A i \in 1..Len(chain[m]) : chain[m][i] = log'[i]
    BY <1>3, <2>1, <2>2
  <2> QED
    BY <1>4, <2>3 DEF OnLog, Epoch
<1>5. ASSUME /\ Len(chain'[m]) = Epoch(m) + 1 /\ Epoch(m) + 1 <= Len(log) /\ log' = log
             /\ \A i \in 1..(Epoch(m) + 1) : chain'[m][i] = log[i]
      PROVE  OnLog(m)'
  <2> DEFINE k == Epoch(m) + 1
  <2>1. Len(chain'[m]) = k /\ k <= Len(log) /\ log' = log /\ \A i \in 1..k : chain'[m][i] = log[i]
    BY <1>5
  <2> HIDE DEF k
  <2> QED
    BY <2>1 DEF OnLog, Epoch
<1>6. ASSUME NEW j \in Slots, JobMerges(m, j) PROVE OnLog(m)'
  BY <1>5, <1>6, MergedByJob DEF GroupInv
<1>7. MergeCommit(m) => OnLog(m)'
  BY <1>5, MergedFromQueue
<1>8. MergeResponse(m) => OnLog(m)'
  BY <1>1, <1>2, <1>5, MergedOnResponse DEF GroupInv
<1>9. ASSUME NEW j \in Slots, CreateOperation(m, j) \/ JobGivesUp(m, j) PROVE chain'[m] = chain[m]
  BY <1>9 DEF CreateOperation, JobGivesUp
<1> QED
  BY <1>4, <1>6, <1>7, <1>8, <1>9, MemberEffects

\* A member that is behind its own accepted commit keeps it pending.
LEMMA OwnCommitKeptKept ==
  ASSUME GroupTypeOK, KnownCommits, GroupInv, GroupNext PROVE OwnCommitKept'
<1> SUFFICES ASSUME NEW m \in Members, ~Abandoned(m)',
                    NEW e \in (Len(chain'[m]) + 1)..Len(log'), staged'[log'[e]].by = m
             PROVE  e = Len(chain'[m]) + 1 /\ pending'[m] = log'[e] /\ op'[m].commit = log'[e]
  BY DEF OwnCommitKept, Author, Epoch
<1>1. ~Abandoned(m)
  BY StaysAccepted DEF GroupInv, InFlight
<1>2. OnLog(m)
  BY <1>1, OnLogIsPrefix DEF GroupInv, NoFork
<1>3. /\ log \in Seq(Commits) /\ Len(log) \in Nat /\ Epoch(m) \in Nat /\ DOMAIN log = 1..Len(log)
      /\ \A i \in 1..Len(log) : log'[i] = log[i]
      /\ \A i \in 1..Len(log) : log[i] \in DOMAIN staged
      /\ \A n \in DOMAIN staged : staged'[n] = staged[n]
  BY HistoryEffects, TypeFacts DEF Epoch, GroupInv, LogIsChain
<1>4. \A i \in (Epoch(m) + 1)..Len(log) : staged'[log'[i]].by = m =>
        i = Epoch(m) + 1 /\ pending[m] = log[i] /\ op[m].commit = log[i] /\ log[i] # 0
  <2> SUFFICES ASSUME NEW i \in (Epoch(m) + 1)..Len(log), staged'[log'[i]].by = m
               PROVE  i = Epoch(m) + 1 /\ pending[m] = log[i] /\ op[m].commit = log[i] /\ log[i] # 0
    OBVIOUS
  <2>1. i \in 1..Len(log)
    BY <1>3
  <2>2. Author(log[i]) = m
    BY <1>3, <2>1 DEF Author
  <2>3. log[i] # 0
    <3>1. log[i] \in Commits
      BY <1>3, <2>1
    <3> QED
      BY <3>1, GroupAssumption DEF Commits
  <2> QED
    BY <1>1, <2>2, <2>3 DEF GroupInv, OwnCommitKept
<1>5. CASE /\ chain'[m] = chain[m] /\ pending'[m] = pending[m] /\ op'[m].commit = op[m].commit
           /\ log' = log
  BY <1>3, <1>4, <1>5 DEF Epoch
<1>6. ASSUME NEW r \in requests, DsAccepts(r)
      PROVE  e = Len(chain'[m]) + 1 /\ pending'[m] = log'[e] /\ op'[m].commit = log'[e]
  <2>1. /\ Len(log') = Len(log) + 1 /\ log'[Len(log) + 1] = r.commit /\ log' \in Seq(Commits)
        /\ staged[r.commit].on = log /\ r.commit \in DOMAIN staged
        /\ UNCHANGED <<staged, chain, pending, op, gaveUp>>
    BY <1>6, AcceptEffects
  <2>2. CASE e \in (Epoch(m) + 1)..Len(log)
    BY <1>3, <1>4, <2>1, <2>2 DEF Epoch
  <2>3. CASE e = Len(log) + 1
    <3>1. Author(r.commit) = m /\ EpochOf(r.commit) = Len(log)
      BY <2>1, <2>3 DEF Author, EpochOf
    <3>2. r.commit \notin gaveUp
      <4>1. Accepted(r.commit)'
        <5>1. Len(log) + 1 \in DOMAIN log' /\ r' = r
          BY <1>3, <2>1
        <5> QED
          BY <2>1, <5>1 DEF Accepted
      <4> QED
        BY <2>1, <3>1, <4>1 DEF Abandoned, Author
    <3>3. pending[m] = r.commit
      BY <1>3, <2>1, <3>1, <3>2 DEF GroupInv, DecidedOrPending
    <3>4. r.commit # 0
      BY <2>1, TypeFacts
    <3>5. chain[m] = log /\ op[m].commit = r.commit
      BY <2>1, <3>3, <3>4 DEF GroupInv, PendingOnChain, OperationHasItsCommit
    <3> QED
      BY <2>1, <2>3, <3>3, <3>5
  <2> QED
    BY <1>3, <2>1, <2>2, <2>3 DEF Epoch
<1>7. ASSUME /\ Len(chain'[m]) = Epoch(m) + 1 /\ Epoch(m) + 1 <= Len(log) /\ log' = log
             /\ \A i \in 1..(Epoch(m) + 1) : chain'[m][i] = log[i]
      PROVE  FALSE
  <2>1. e \in (Epoch(m) + 1)..Len(log) /\ e > Epoch(m) + 1
    BY <1>3, <1>7
  <2> QED
    BY <1>3, <1>4, <2>1
<1>8. ASSUME NEW j \in Slots, JobMerges(m, j) PROVE FALSE
  BY <1>7, <1>8, MergedByJob DEF GroupInv
<1>9. ASSUME MergeCommit(m) PROVE FALSE
  BY <1>7, <1>9, MergedFromQueue
<1>10. ASSUME MergeResponse(m) PROVE FALSE
  BY <1>1, <1>2, <1>7, <1>10, MergedOnResponse DEF GroupInv
<1>11. ASSUME NEW j \in Slots, CreateOperation(m, j) PROVE FALSE
  <2>1. pending[m] = 0 /\ chain' = chain /\ log' = log
    BY <1>11, CreateEffects
  <2> QED
    BY <1>3, <1>4, <2>1 DEF Epoch
<1>12. ASSUME NEW j \in Slots, JobGivesUp(m, j) PROVE FALSE
  <2>1. /\ Running(m, j) /\ gaveUp' = gaveUp \union {jobs[m][j].commit}
        /\ UNCHANGED <<staged, log, chain>>
    BY <1>12 DEF JobGivesUp, Answered, dsVars
  <2>2. e \in (Epoch(m) + 1)..Len(log) /\ e \in DOMAIN log
    BY <1>3, <2>1 DEF Epoch
  <2>3. op[m].commit = log[e] /\ log[e] # 0
    BY <1>4, <2>2
  <2>4. jobs[m][j].commit = log[e]
    BY <2>1, <2>3 DEF GroupInv, JobOwnsOperation
  <2>5. log[e] \in gaveUp' /\ staged'[log[e]].by = m /\ e \in DOMAIN log'
    BY <2>1, <2>2, <2>4
  <2> QED
    BY <2>1, <2>5 DEF Abandoned, Accepted, Author
<1> QED
  BY <1>5, <1>6, <1>8, <1>9, <1>10, <1>11, <1>12, MemberEffects, HistoryEffects

\* The invariant holds at the start.
LEMMA GroupInvInit == GroupInit => GroupInv
<1> SUFFICES ASSUME GroupInit PROVE GroupInv
  OBVIOUS
<1>1. /\ LogIsChain /\ InFlight /\ DecidedOrPending /\ PendingOnChain
      /\ OperationHasItsCommit /\ ResponsesAreOwn
  BY DEF GroupInit, LogIsChain, InFlight, DecidedOrPending, PendingOnChain,
         OperationHasItsCommit, ResponsesAreOwn, NoOperation
<1>2. JobOwnsOperation
  BY DEF GroupInit, JobOwnsOperation, Running, NoJob
<1>3. NoFork
  <2>1. log \in Seq(Commits) /\ \A m \in Members : chain[m] = log
    BY DEF GroupInit
  <2>2. IsPrefix(log, log)
    BY <2>1, PrefixPointwise
  <2> QED
    BY <2>1, <2>2 DEF NoFork
<1>4. OwnCommitKept
  BY DEF GroupInit, OwnCommitKept, Epoch
<1> QED
  BY <1>1, <1>2, <1>3, <1>4 DEF GroupInv

\* Every step keeps the invariant.
LEMMA GroupInvKept ==
  ASSUME NoRace
  PROVE  GroupTypeOK /\ KnownCommits /\ GroupInv /\ [GroupNext]_groupVars => GroupInv'
<1> SUFFICES ASSUME GroupTypeOK, KnownCommits, GroupInv, [GroupNext]_groupVars PROVE GroupInv'
  OBVIOUS
<1>1. CASE GroupNext
  <2>1. LogIsChain' /\ PendingOnChain' /\ JobOwnsOperation' /\ InFlight'
    BY <1>1, LogIsChainKept, PendingOnChainKept, JobOwnsOperationKept, InFlightKept DEF GroupInv
  <2>2. DecidedOrPending' /\ ResponsesAreOwn' /\ OperationHasItsCommit'
    BY <1>1, DecidedOrPendingKept, ResponsesAreOwnKept, OperationKept DEF GroupInv
  <2>3. NoFork' /\ OwnCommitKept'
    BY <1>1, NoForkKept, OwnCommitKeptKept
  <2> QED
    BY <2>1, <2>2, <2>3 DEF GroupInv
<1>2. CASE UNCHANGED groupVars
  BY <1>2 DEF groupVars, memberVars, GroupInv, LogIsChain, PendingOnChain, JobOwnsOperation,
              InFlight, DecidedOrPending, ResponsesAreOwn, OperationHasItsCommit, NoFork,
              OwnCommitKept, Abandoned, Accepted, Running, Epoch, EpochOf, Author
<1> QED
  BY <1>1, <1>2

(* The inductive invariant holds as long as the jobs of a member do not    *)
(* overlap, whatever else fails: lost requests and answers, failing        *)
(* dispatches, overlapping fan-outs, errors of the DS, crashes.            *)
THEOREM GroupInvariant == ASSUME NoRace PROVE GroupSpec => []GroupInv
<1>1. GroupSpec => [](GroupTypeOK /\ KnownCommits)
  BY GroupInitTypes, GroupStepTypes, PTL DEF GroupSpec
<1> QED
  BY <1>1, GroupInvInit, GroupInvKept, PTL DEF GroupSpec

(* Members agree: unless it has given up a commit that the DS accepted, a  *)
(* member has merged what the DS has accepted, in that order.              *)
THEOREM MembersAgree == ASSUME NoRace PROVE GroupSpec => []NoFork
<1>1. GroupInv => NoFork
  BY DEF GroupInv
<1> QED
  BY <1>1, GroupInvariant, PTL

(* The author of an accepted commit that it has not merged yet still has   *)
(* the commit and its operation.                                           *)
THEOREM AuthorCanFollow == ASSUME NoRace PROVE GroupSpec => []OwnCommitKept
<1>1. GroupInv => OwnCommitKept
  BY DEF GroupInv
<1> QED
  BY <1>1, GroupInvariant, PTL

-----------------------------------------------------------------------------
(***************************************************************************)
(* Nobody is left behind, as long as dispatches succeed and the fan-outs   *)
(* of two commits do not overlap.                                          *)
(***************************************************************************)

\* Handlers do not overlap, and no dispatch fails.
QuietDs == "overlap" \notin GroupFaults /\ "dispatch" \notin GroupFaults

\* The handler has yet to dispatch to m.
Serves(h, m) == m \in h.to \/ Author(h.commit) = m

(* One handler at a time, for the last accepted commit.                    *)
OneHandler ==
  /\ \A h \in handlers : EpochOf(h.commit) = Len(log) - 1 /\ Author(h.commit) \notin h.to
  /\ \A g, h \in handlers : g = h

(* Messages are queued in the order of their epochs, and before those that *)
(* the handler has yet to dispatch.                                        *)
DeliveredInOrder ==
  \A m \in Members :
    /\ \A i, k \in DOMAIN queue[m] : i < k => queue[m][i].epoch < queue[m][k].epoch
    /\ \A h \in handlers : Serves(h, m) =>
         \A i \in DOMAIN queue[m] : queue[m][i].epoch < EpochOf(h.commit)

\* Handlers that differ only in their slots.
Alike(S, T) ==
  /\ \A x \in T : \E y \in S : x.commit = y.commit /\ x.to = y.to
  /\ \A y \in S : \E x \in T : x.commit = y.commit /\ x.to = y.to
  /\ (\A x, y \in S : x = y) => \A x, y \in T : x = y

\* Losing its job does not change what a handler still sends.
LEMMA OrphanedAlike ==
  ASSUME NEW S \in SUBSET HandlerType, NEW m, NEW j
  PROVE  Alike(S, Orphaned(m, j, S))
<1>1. \A y \in S : [y EXCEPT !.slot = NoSlot].commit = y.commit /\ [y EXCEPT !.slot = NoSlot].to = y.to
  BY DEF HandlerType
<1> DEFINE f(y) == IF y.slot = j /\ Author(y.commit) = m THEN [y EXCEPT !.slot = NoSlot] ELSE y
<1>2. Orphaned(m, j, S) = {f(y) : y \in S} /\ \A y \in S : f(y).commit = y.commit /\ f(y).to = y.to
  BY <1>1 DEF Orphaned
<1> HIDE DEF f
<1> QED
  BY <1>2 DEF Alike

\* Alike is transitive.
LEMMA AlikeTwice ==
  ASSUME NEW S, NEW T, NEW U, Alike(S, T), Alike(T, U) PROVE Alike(S, U)
BY DEF Alike

\* The steps by what they do to the DS and the queues, when dispatches succeed.
LEMMA QuietCases ==
  ASSUME QuietDs, GroupTypeOK, KnownCommits, GroupNext
  PROVE  \/ UNCHANGED <<log, queue>> /\ (handlers' = handlers \/ Alike(handlers, handlers'))
         \/ \E m \in Members : QueueStep(m)
         \/ \E r \in requests : DsAccepts(r)
         \/ \E h \in handlers : CommitResponse(h) \/ \E m \in Members : FanOut(h, m)
<1> DEFINE Same == UNCHANGED <<log, queue>> /\ (handlers' = handlers \/ Alike(handlers, handlers'))
<1>0. handlers \in SUBSET HandlerType
  BY TypeFacts
<1>1. ASSUME NEW m \in Members, NEW j \in Slots,
             CreateOperation(m, j) \/ RetryOperation(m, j) \/ JobStep(m, j)
      PROVE  Same
  BY <1>1, JobStepEffects DEF CreateOperation, RetryOperation, dsVars
<1>2. ASSUME NEW m \in Members, NEW j \in Slots, NetworkError(m, j) PROVE Same
  BY <1>0, <1>2, OrphanedAlike DEF NetworkError
<1>3. ASSUME NEW m \in Members, CrashMember(m) PROVE Same
  <2> DEFINE H == Orphaned(m, "outbound", handlers)
  <2>1. H \in SUBSET HandlerType /\ Alike(handlers, H)
    BY <1>0, OrphanedAlike, OrphanedHandlers
  <2>2. handlers' = Orphaned(m, "ui", H) /\ UNCHANGED <<log, queue>>
    BY <1>3 DEF CrashMember
  <2> HIDE DEF H
  <2>3. Alike(H, Orphaned(m, "ui", H))
    BY <2>1, OrphanedAlike
  <2> QED
    BY <2>1, <2>2, <2>3, AlikeTwice
<1>4. ASSUME NEW m \in Members, BlockedOperation(m) PROVE Same
  BY <1>4 DEF BlockedOperation, dsVars
<1>5. ASSUME NEW r \in requests, DsRejects(r) PROVE Same
  BY <1>5 DEF DsRejects, dsVars
<1>6. ASSUME NEW h \in handlers, NEW m \in Members, DispatchFails(h, m) PROVE FALSE
  BY <1>6 DEF DispatchFails, GroupFault, QuietDs
<1> HIDE DEF Same
<1>7. \/ Same
      \/ \E m \in Members : QueueStep(m)
      \/ \E r \in requests : DsAccepts(r)
      \/ \E h \in handlers : CommitResponse(h) \/ \E m \in Members : FanOut(h, m)
  BY <1>1, <1>2, <1>3, <1>4, <1>5, <1>6 DEF GroupNext, DsStep
<1> QED
  BY <1>7 DEF Same

\* Without overlap the handler of a commit has ended when the next is accepted.
LEMMA OneHandlerKept ==
  ASSUME QuietDs, GroupTypeOK, KnownCommits, OneHandler, GroupNext PROVE OneHandler'
<1>0. /\ \A h \in handlers : h.commit \in DOMAIN staged
      /\ \A n \in DOMAIN staged : staged'[n] = staged[n] /\ staged[n].by \in Members
  BY HistoryEffects, StagedFacts DEF KnownCommits
<1>1. CASE log' = log /\ handlers' = handlers
  BY <1>0, <1>1 DEF OneHandler, EpochOf, Author
<1>2. CASE log' = log /\ Alike(handlers, handlers')
  <2>1. \A x, y \in handlers' : x = y
    BY <1>2 DEF OneHandler, Alike
  <2>2. ASSUME NEW x \in handlers'
        PROVE  Len(staged'[x.commit].on) = Len(log) - 1 /\ staged'[x.commit].by \notin x.to
    <3>1. PICK y \in handlers : x.commit = y.commit /\ x.to = y.to
      BY <1>2 DEF Alike
    <3> QED
      BY <1>0, <3>1 DEF OneHandler, EpochOf, Author
  <2> QED
    BY <1>2, <2>1, <2>2 DEF OneHandler, EpochOf, Author
<1>3. ASSUME NEW m \in Members, QueueStep(m) PROVE OneHandler'
  <2>1. log' = log /\ handlers' = handlers
    BY <1>3, TakenEffects
  <2> QED
    BY <1>1, <2>1
<1>4. ASSUME NEW r \in requests, DsAccepts(r) PROVE OneHandler'
  <2> DEFINE x == [commit |-> r.commit, to |-> Members \ {Author(r.commit)}, slot |-> r.slot]
  <2>1. handlers = {}
    BY <1>4 DEF DsAccepts, UnlessCalm, GroupFault, QuietDs
  <2>2. handlers' = {x} /\ Len(log') = Len(log) + 1 /\ Len(log) \in Nat /\ staged' = staged
        /\ staged[r.commit].on = log
    BY <1>4, <2>1, AcceptEffects
  <2>3. x.commit = r.commit /\ x.to = Members \ {Author(r.commit)}
    OBVIOUS
  <2> HIDE DEF x
  <2> QED
    BY <2>2, <2>3 DEF OneHandler, EpochOf, Author
<1>5. ASSUME NEW h \in handlers, CommitResponse(h) PROVE OneHandler'
  <2>1. handlers' = handlers \ {h} /\ log' = log
    BY <1>5 DEF CommitResponse
  <2> QED
    BY <1>0, <2>1 DEF OneHandler, EpochOf, Author
<1>6. ASSUME NEW h \in handlers, NEW m \in Members, FanOut(h, m) PROVE OneHandler'
  <2>1. handlers' = Served(handlers, h, m) /\ log' = log
    BY <1>6 DEF FanOut, Served
  <2>2. ASSUME NEW x \in handlers' PROVE x.commit = h.commit /\ x.to = h.to \ {m} /\ x.slot = h.slot
    BY <2>1, Dispatched DEF OneHandler
  <2>3. \A x, y \in handlers' : x = y
    <3>1. handlers = {h}
      BY DEF OneHandler
    <3> QED
      BY <2>1, <3>1 DEF Served
  <2> QED
    BY <1>0, <2>1, <2>2, <2>3 DEF OneHandler, EpochOf, Author
<1> QED
  BY <1>1, <1>2, <1>3, <1>4, <1>5, <1>6, QuietCases

\* The queue of a member after a message is added at its end, or its first taken.
LEMMA OrderedQueue ==
  ASSUME NEW q \in Seq(MessageType), \A i, k \in DOMAIN q : i < k => q[i].epoch < q[k].epoch
  PROVE  /\ \A x \in MessageType : (\A i \in DOMAIN q : q[i].epoch < x.epoch) =>
              \A i, k \in DOMAIN Append(q, x) : i < k => Append(q, x)[i].epoch < Append(q, x)[k].epoch
         /\ q # <<>> => \A i, k \in DOMAIN Tail(q) : i < k => Tail(q)[i].epoch < Tail(q)[k].epoch
<1>1. ASSUME NEW x \in MessageType, \A i \in DOMAIN q : q[i].epoch < x.epoch,
             NEW i \in DOMAIN Append(q, x), NEW k \in DOMAIN Append(q, x), i < k
      PROVE  Append(q, x)[i].epoch < Append(q, x)[k].epoch
  <2>1. /\ i \in 1..(Len(q) + 1) /\ k \in 1..(Len(q) + 1) /\ Len(q) \in Nat
        /\ \A l \in 1..Len(q) : Append(q, x)[l] = q[l]
        /\ Append(q, x)[Len(q) + 1] = x /\ DOMAIN q = 1..Len(q)
    OBVIOUS
  <2>2. i \in 1..Len(q)
    BY <1>1, <2>1
  <2>3. CASE k \in 1..Len(q)
    BY <1>1, <2>1, <2>2, <2>3
  <2>4. CASE k = Len(q) + 1
    BY <1>1, <2>1, <2>2, <2>4
  <2> QED
    BY <2>1, <2>3, <2>4
<1>2. ASSUME q # <<>>, NEW i \in DOMAIN Tail(q), NEW k \in DOMAIN Tail(q), i < k
      PROVE  Tail(q)[i].epoch < Tail(q)[k].epoch
  <2>1. /\ i + 1 \in DOMAIN q /\ k + 1 \in DOMAIN q /\ Tail(q)[i] = q[i + 1] /\ Tail(q)[k] = q[k + 1]
    BY <1>2, MessageQueue
  <2>2. i + 1 < k + 1
    <3>1. i \in Int /\ k \in Int
      <4>1. Tail(q) \in Seq(MessageType)
        BY <1>2, MessageQueue
      <4> QED
        BY <4>1
    <3> QED
      BY <1>2, <3>1
  <2> QED
    BY <2>1, <2>2
<1> QED
  BY <1>1, <1>2

\* Messages reach a queue in the order of their epochs.
LEMMA DeliveredInOrderKept ==
  ASSUME QuietDs, GroupTypeOK, KnownCommits, OneHandler, DeliveredInOrder, GroupNext
  PROVE  DeliveredInOrder'
<1> SUFFICES ASSUME NEW m \in Members
             PROVE  /\ \A i, k \in DOMAIN queue'[m] : i < k => queue'[m][i].epoch < queue'[m][k].epoch
                    /\ \A h \in handlers' : m \in h.to \/ staged'[h.commit].by = m =>
                         \A i \in DOMAIN queue'[m] : queue'[m][i].epoch < Len(staged'[h.commit].on)
  BY DEF DeliveredInOrder, Serves, EpochOf, Author
<1> DEFINE Goal == /\ \A i, k \in DOMAIN queue'[m] : i < k => queue'[m][i].epoch < queue'[m][k].epoch
                   /\ \A h \in handlers' : m \in h.to \/ staged'[h.commit].by = m =>
                        \A i \in DOMAIN queue'[m] : queue'[m][i].epoch < Len(staged'[h.commit].on)
<1>0. /\ \A h \in handlers : h.commit \in DOMAIN staged
      /\ \A n \in DOMAIN staged : staged'[n] = staged[n]
      /\ queue \in [Members -> Seq(MessageType)]
  BY HistoryEffects, TypeFacts DEF KnownCommits
<1>1. /\ \A i, k \in DOMAIN queue[m] : i < k => queue[m][i].epoch < queue[m][k].epoch
      /\ \A h \in handlers : m \in h.to \/ staged[h.commit].by = m =>
           \A i \in DOMAIN queue[m] : queue[m][i].epoch < Len(staged[h.commit].on)
  BY DEF DeliveredInOrder, Serves, EpochOf, Author
<1>2. CASE queue' = queue /\ handlers' = handlers
  BY <1>0, <1>1, <1>2
<1>3. CASE queue' = queue /\ Alike(handlers, handlers')
  <2>1. ASSUME NEW x \in handlers', m \in x.to \/ staged'[x.commit].by = m, NEW i \in DOMAIN queue[m]
        PROVE  queue[m][i].epoch < Len(staged'[x.commit].on)
    <3>1. PICK y \in handlers : x.commit = y.commit /\ x.to = y.to
      BY <1>3 DEF Alike
    <3> QED
      BY <1>0, <1>1, <2>1, <3>1
  <2> QED
    BY <1>1, <1>3, <2>1
<1>4. ASSUME NEW k \in Members, QueueStep(k) PROVE Goal
  <2>1. /\ queue[k] # <<>> /\ queue' = [queue EXCEPT ![k] = Tail(@)] /\ handlers' = handlers
        /\ \A i \in DOMAIN queue'[m] : \E l \in DOMAIN queue[m] : queue'[m][i] = queue[m][l]
    BY <1>4, TakenEffects
  <2>2. \A i, l \in DOMAIN queue'[m] : i < l => queue'[m][i].epoch < queue'[m][l].epoch
    <3>1. CASE k = m
      <4>1. queue'[m] = Tail(queue[m])
        BY <1>0, <2>1, <3>1
      <4>2. queue[m] # <<>> /\ queue[m] \in Seq(MessageType)
        BY <1>0, <2>1, <3>1
      <4>3. \A i, l \in DOMAIN Tail(queue[m]) : i < l => Tail(queue[m])[i].epoch < Tail(queue[m])[l].epoch
        BY <1>1, <4>2, OrderedQueue
      <4> QED
        BY <4>1, <4>3
    <3>2. CASE k # m
      BY <1>0, <1>1, <2>1, <3>2
    <3> QED
      BY <3>1, <3>2
  <2>3. ASSUME NEW h \in handlers', m \in h.to \/ staged'[h.commit].by = m, NEW i \in DOMAIN queue'[m]
        PROVE  queue'[m][i].epoch < Len(staged'[h.commit].on)
    <3>1. PICK l \in DOMAIN queue[m] : queue'[m][i] = queue[m][l]
      BY <2>1
    <3> QED
      BY <1>0, <1>1, <2>1, <2>3, <3>1
  <2> QED
    BY <2>2, <2>3
<1>5. ASSUME NEW r \in requests, DsAccepts(r) PROVE Goal
  <2> DEFINE x == [commit |-> r.commit, to |-> Members \ {Author(r.commit)}, slot |-> r.slot]
  <2>1. handlers = {}
    BY <1>5 DEF DsAccepts, UnlessCalm, GroupFault, QuietDs
  <2>2. handlers' = {x} /\ staged' = staged /\ staged[r.commit].on = log /\ queue' = queue
    BY <1>5, <2>1, AcceptEffects
  <2>3. x.commit = r.commit
    OBVIOUS
  <2> HIDE DEF x
  <2>4. \A i \in DOMAIN queue[m] : queue[m][i].epoch < Len(log)
    BY DEF KnownCommits
  <2> QED
    BY <1>1, <2>2, <2>3, <2>4
<1>6. ASSUME NEW h \in handlers, NEW k \in Members, NEW x \in MessageType,
             k \in h.to \/ staged[h.commit].by = k, x.epoch = Len(staged[h.commit].on),
             queue' = [queue EXCEPT ![k] = Append(@, x)],
             \A g \in handlers' : g.commit = h.commit /\ g.to \subseteq h.to /\ k \notin g.to
                                  /\ staged[h.commit].by # k
      PROVE  Goal
  <2>1. CASE k = m
    <3>1. queue'[m] = Append(queue[m], x) /\ queue[m] \in Seq(MessageType)
      BY <1>0, <1>6, <2>1
    <3>2. \A i \in DOMAIN queue[m] : queue[m][i].epoch < x.epoch
      BY <1>1, <1>6, <2>1
    <3>3. \A i, l \in DOMAIN Append(queue[m], x) :
            i < l => Append(queue[m], x)[i].epoch < Append(queue[m], x)[l].epoch
      BY <1>1, <3>1, <3>2, OrderedQueue
    <3>4. \A g \in handlers' : ~(m \in g.to \/ staged'[g.commit].by = m)
      BY <1>0, <1>6, <2>1
    <3> QED
      BY <3>1, <3>3, <3>4
  <2>2. CASE k # m
    <3>1. queue'[m] = queue[m]
      BY <1>0, <1>6, <2>2
    <3>2. \A g \in handlers' : g.commit = h.commit /\ (m \in g.to => m \in h.to)
          /\ staged'[h.commit] = staged[h.commit]
      BY <1>0, <1>6
    <3> QED
      BY <1>1, <3>1, <3>2
  <2> QED
    BY <2>1, <2>2
<1>7. ASSUME NEW h \in handlers, CommitResponse(h) PROVE Goal
  <2> DEFINE x == ResponseMessage(h.commit)
             p == staged[h.commit].by
  <2>1. handlers' = {} /\ queue' = [queue EXCEPT ![p] = Append(@, x)]
    BY <1>7 DEF CommitResponse, OneHandler, Author
  <2>2. x \in MessageType /\ x.epoch = Len(staged[h.commit].on) /\ p \in Members
    <3>1. EpochOf(h.commit) \in Nat /\ p \in Members
      BY <1>0, StagedFacts
    <3> QED
      BY <3>1 DEF ResponseMessage, MessageType, EpochOf
  <2> HIDE DEF x, Goal
  <2> QED
    BY <1>6, <2>1, <2>2
<1>8. ASSUME NEW h \in handlers, NEW k \in Members, FanOut(h, k) PROVE Goal
  <2> DEFINE x == [kind |-> "commit", epoch |-> EpochOf(h.commit)]
  <2>1. /\ handlers' = Served(handlers, h, k) /\ queue' = [queue EXCEPT ![k] = Append(@, x)]
        /\ k \in h.to
    BY <1>8 DEF FanOut, Served
  <2>2. x \in MessageType /\ x.epoch = Len(staged[h.commit].on)
    <3>1. EpochOf(h.commit) \in Nat
      BY <1>0, StagedFacts
    <3> QED
      BY <3>1 DEF MessageType, EpochOf
  <2>3. \A g \in handlers' : g.commit = h.commit /\ g.to = h.to \ {k}
    BY <2>1, Dispatched DEF OneHandler
  <2>4. staged[h.commit].by # k
    BY <2>1 DEF OneHandler, Author
  <2> HIDE DEF x, Goal
  <2> QED
    BY <1>6, <2>1, <2>2, <2>3, <2>4
<1>9. Goal
  <2> HIDE DEF Goal
  <2> QED
    BY <1>2, <1>3, <1>4, <1>5, <1>7, <1>8, QuietCases DEF Goal
<1> QED
  BY <1>9

\* The first message of a queue is not ahead of what its member waits for.
LEMMA NoFutureMessage ==
  ASSUME GroupTypeOK, KnownCommits, DeliveredInOrder, NothingMissed, NEW m \in Members,
         ~Abandoned(m), queue[m] # <<>>, Head(queue[m]) = queue[m][1], 1 \in DOMAIN queue[m]
  PROVE  MessageEpoch(m) <= Epoch(m)
<1> SUFFICES ASSUME ~(MessageEpoch(m) <= Epoch(m)) PROVE FALSE
  OBVIOUS
<1>1. Epoch(m) \in Nat /\ Len(log) \in Nat /\ queue[m] \in Seq(MessageType)
  BY TypeFacts DEF Epoch
<1>2. \A i \in DOMAIN queue[m] : queue[m][i].epoch \in Nat /\ queue[m][i].epoch < Len(log)
  <2>1. \A i \in DOMAIN queue[m] : queue[m][i] \in MessageType
    BY <1>1
  <2> QED
    BY <2>1 DEF KnownCommits, MessageType
<1>3. MessageEpoch(m) = queue[m][1].epoch /\ Epoch(m) < queue[m][1].epoch /\ Epoch(m) \in Epoch(m)..(Len(log) - 1)
  BY <1>1, <1>2 DEF MessageEpoch
<1>4. Underway(m, Epoch(m))
  BY <1>3 DEF NothingMissed
<1>5. \A i \in DOMAIN queue[m] : queue[m][i].epoch >= queue[m][1].epoch
  <2>1. \A i \in DOMAIN queue[m] : i = 1 \/ 1 < i
    BY <1>1
  <2> QED
    BY <1>2, <2>1 DEF DeliveredInOrder
<1>6. CASE \E i \in DOMAIN queue[m] : queue[m][i].epoch = Epoch(m)
  BY <1>2, <1>3, <1>5, <1>6
<1>7. CASE \E h \in handlers : EpochOf(h.commit) = Epoch(m) /\ Serves(h, m)
  <2>1. PICK h \in handlers : EpochOf(h.commit) = Epoch(m) /\ Serves(h, m)
    BY <1>7
  <2>2. queue[m][1].epoch < Epoch(m)
    BY <2>1 DEF DeliveredInOrder
  <2> QED
    BY <1>1, <1>2, <1>3, <2>2
<1> QED
  BY <1>4, <1>6, <1>7 DEF Underway, Serves

\* What a queue still contains after a message is added, or the first is taken.
LEMMA StillQueued ==
  ASSUME NEW q \in Seq(MessageType)
  PROVE  /\ \A x \in MessageType :
              /\ \A i \in DOMAIN q : i \in DOMAIN Append(q, x) /\ Append(q, x)[i] = q[i]
              /\ Len(q) + 1 \in DOMAIN Append(q, x) /\ Append(q, x)[Len(q) + 1] = x
         /\ q # <<>> => \A i \in DOMAIN q : i = 1 \/ (i - 1 \in DOMAIN Tail(q) /\ Tail(q)[i - 1] = q[i])
<1>1. \A x \in MessageType :
        /\ \A i \in DOMAIN q : i \in DOMAIN Append(q, x) /\ Append(q, x)[i] = q[i]
        /\ Len(q) + 1 \in DOMAIN Append(q, x) /\ Append(q, x)[Len(q) + 1] = x
  OBVIOUS
<1>2. ASSUME q # <<>>, NEW i \in DOMAIN q, i # 1
      PROVE  i - 1 \in DOMAIN Tail(q) /\ Tail(q)[i - 1] = q[i]
  <2> DEFINE k == Len(Tail(q))
  <2>1. /\ Tail(q) \in Seq(MessageType) /\ k = Len(q) - 1 /\ DOMAIN Tail(q) = 1..k
        /\ Len(q) \in Nat /\ i \in 1..Len(q)
    BY <1>2, HeadTailProperties
  <2>2. \A l \in 1..k : Tail(q)[l] = q[l + 1]
    BY <1>2, <2>1, HeadTailProperties
  <2> HIDE DEF k
  <2>3. i - 1 \in 1..k /\ (i - 1) + 1 = i
    BY <1>2, <2>1
  <2> QED
    BY <2>1, <2>2, <2>3
<1> QED
  BY <1>1, <1>2

\* No step takes a member back to an earlier epoch, unless it has given up an accepted commit.
LEMMA EpochGrows ==
  ASSUME GroupTypeOK, KnownCommits, GroupInv, GroupNext, NEW m \in Members, ~Abandoned(m)
  PROVE  /\ Len(chain'[m]) >= Epoch(m)
         /\ MergeCommit(m) \/ MergeResponse(m) => Len(chain'[m]) = Epoch(m) + 1
<1>0. Epoch(m) \in Nat /\ Len(chain[m]) = Epoch(m)
  BY TypeFacts DEF Epoch
<1>1. OnLog(m)
  BY OnLogIsPrefix DEF GroupInv, NoFork
<1>2. MergeCommit(m) \/ MergeResponse(m) => Len(chain'[m]) = Epoch(m) + 1
  BY <1>1, MergedFromQueue, MergedOnResponse DEF GroupInv
<1>3. ASSUME NEW j \in Slots, JobMerges(m, j) PROVE Len(chain'[m]) = Epoch(m) + 1
  BY <1>3, MergedByJob DEF GroupInv
<1>4. ASSUME NEW j \in Slots, CreateOperation(m, j) \/ JobGivesUp(m, j) PROVE chain'[m] = chain[m]
  BY <1>4 DEF CreateOperation, JobGivesUp
<1>5. chain'[m] = chain[m] \/ Len(chain'[m]) = Epoch(m) + 1
  BY <1>2, <1>3, <1>4, MemberEffects
<1> QED
  BY <1>0, <1>2, <1>5

\* The commit a member needs next stays under way until it is merged.
LEMMA NothingMissedKept ==
  ASSUME QuietDs, GroupTypeOK, KnownCommits, GroupInv, OneHandler, DeliveredInOrder, NothingMissed,
         GroupNext
  PROVE  NothingMissed'
<1> SUFFICES ASSUME NEW m \in Members, ~Abandoned(m)', NEW e \in Len(chain'[m])..(Len(log') - 1)
             PROVE  Underway(m, e)'
  BY DEF NothingMissed, Epoch
<1> DEFINE Goal == \/ \E i \in DOMAIN queue'[m] : queue'[m][i].epoch = e
                   \/ \E h \in handlers' : Len(staged'[h.commit].on) = e /\ Accepted(h.commit)'
                                           /\ (m \in h.to \/ staged'[h.commit].by = m)
<1>0. /\ queue \in [Members -> Seq(MessageType)] /\ Epoch(m) \in Nat /\ Len(log) \in Nat
      /\ \A h \in handlers : h.commit \in DOMAIN staged /\ Accepted(h.commit)
      /\ \A n \in DOMAIN staged : staged'[n] = staged[n]
      /\ \A x \in DOMAIN log : x \in DOMAIN log' /\ log'[x] = log[x]
  BY HistoryEffects, TypeFacts DEF KnownCommits, Epoch, GroupInv, InFlight
<1>1. ~Abandoned(m)
  BY StaysAccepted DEF GroupInv, InFlight
<1>2. Len(chain'[m]) >= Epoch(m) /\ Len(chain'[m]) \in Nat /\ Len(log') \in Nat
  <2>1. chain' \in [Members -> Seq(Commits)] /\ log' \in Seq(Commits)
    BY GroupStepTypes DEF GroupTypeOK
  <2> QED
    BY <1>1, <2>1, EpochGrows
<1>3. ASSUME e < Len(log) PROVE Underway(m, e)
  <2>1. e \in Epoch(m)..(Len(log) - 1)
    BY <1>0, <1>2, <1>3
  <2> QED
    BY <1>1, <2>1 DEF NothingMissed
<1>4. ASSUME NEW i \in DOMAIN queue[m], queue[m][i].epoch = e, queue' = queue PROVE Goal
  BY <1>4
<1>5. ASSUME NEW i \in DOMAIN queue[m], queue[m][i].epoch = e, NEW k \in Members, QueueStep(k) PROVE Goal
  <2>1. /\ queue[k] # <<>> /\ queue' = [queue EXCEPT ![k] = Tail(@)] /\ log' = log
        /\ Head(queue[k]) = queue[k][1] /\ 1 \in DOMAIN queue[k]
    BY <1>5, TakenEffects
  <2>2. CASE k # m
    <3>1. queue'[m] = queue[m]
      BY <1>0, <2>1, <2>2
    <3> QED
      BY <1>5, <3>1
  <2>3. CASE k = m /\ i # 1
    <3>1. queue'[m] = Tail(queue[m]) /\ queue[m] # <<>>
      BY <1>0, <2>1, <2>3
    <3>2. i - 1 \in DOMAIN Tail(queue[m]) /\ Tail(queue[m])[i - 1] = queue[m][i]
      BY <1>0, <2>3, <3>1, StillQueued
    <3> QED
      BY <1>5, <3>1, <3>2
  <2>4. CASE k = m /\ i = 1
    <3>1. MessageEpoch(m) = e /\ MessageEpoch(m) <= Epoch(m)
      BY <1>1, <1>5, <2>1, <2>4, NoFutureMessage DEF MessageEpoch
    <3>2. e = Epoch(m) /\ Len(chain'[m]) = Epoch(m)
      BY <1>0, <1>2, <3>1
    <3>3. IsPrefix(chain[m], log)
      BY <1>1 DEF GroupInv, NoFork
    <3>4. ~IgnoreCommit(m) /\ ~FutureCommit(m) /\ ~IgnoreResponse(m)
      BY <1>0, <3>1, <3>2, <3>3 DEF IgnoreCommit, FutureCommit, IgnoreResponse
    <3>5. MergeCommit(m) \/ MergeResponse(m)
      BY <1>5, <2>4, <3>4 DEF QueueStep
    <3>6. Len(chain'[m]) = Epoch(m) + 1
      BY <1>1, <3>5, EpochGrows
    <3> QED
      BY <1>0, <3>2, <3>6
  <2> QED
    BY <2>2, <2>3, <2>4
<1>6. ASSUME NEW k \in Members, NEW x \in MessageType, queue' = [queue EXCEPT ![k] = Append(@, x)]
      PROVE  /\ \A i \in DOMAIN queue[m] : i \in DOMAIN queue'[m] /\ queue'[m][i] = queue[m][i]
             /\ k = m => \E i \in DOMAIN queue'[m] : queue'[m][i] = x
  <2>1. CASE k = m
    <3>1. queue'[m] = Append(queue[m], x) /\ queue[m] \in Seq(MessageType)
      BY <1>0, <1>6, <2>1
    <3> QED
      BY <3>1, StillQueued
  <2>2. CASE k # m
    <3>1. queue'[m] = queue[m]
      BY <1>0, <1>6, <2>2
    <3> QED
      BY <2>2, <3>1
  <2> QED
    BY <2>1, <2>2
<1>7. ASSUME NEW h \in handlers, EpochOf(h.commit) = e, Serves(h, m),
             NEW g \in handlers', g.commit = h.commit, g.to = h.to
      PROVE  Goal
  BY <1>0, <1>7 DEF EpochOf, Serves, Author, Accepted
<1>8. ASSUME UNCHANGED <<log, queue>>, handlers' = handlers \/ Alike(handlers, handlers') PROVE Goal
  <2>1. e < Len(log)
    BY <1>0, <1>2, <1>8
  <2>2. Underway(m, e)
    BY <1>3, <2>1
  <2>3. ASSUME NEW h \in handlers, EpochOf(h.commit) = e, Serves(h, m) PROVE Goal
    <3>1. \E g \in handlers' : g.commit = h.commit /\ g.to = h.to
      BY <1>8 DEF Alike
    <3> QED
      BY <1>7, <2>3, <3>1
  <2> HIDE DEF Goal
  <2> QED
    BY <1>4, <1>8, <2>2, <2>3 DEF Underway, Serves
<1>9. ASSUME NEW k \in Members, QueueStep(k) PROVE Goal
  <2>1. log' = log /\ handlers' = handlers
    BY <1>9, TakenEffects
  <2>2. Underway(m, e)
    BY <1>0, <1>2, <1>3, <2>1
  <2>3. ASSUME NEW h \in handlers, EpochOf(h.commit) = e, Serves(h, m) PROVE Goal
    BY <1>7, <2>1, <2>3
  <2> HIDE DEF Goal
  <2> QED
    BY <1>5, <1>9, <2>2, <2>3 DEF Underway, Serves
<1>10. ASSUME NEW r \in requests, DsAccepts(r) PROVE Goal
  <2> DEFINE x == [commit |-> r.commit, to |-> Members \ {Author(r.commit)}, slot |-> r.slot]
  <2>1. /\ handlers' = handlers \union {x} /\ staged' = staged /\ staged[r.commit].on = log
        /\ queue' = queue /\ Len(log') = Len(log) + 1 /\ log'[Len(log) + 1] = r.commit
        /\ log' \in Seq(Commits)
    BY <1>10, AcceptEffects
  <2>2. CASE e < Len(log)
    <3>1. ASSUME NEW h \in handlers, EpochOf(h.commit) = e, Serves(h, m) PROVE Goal
      BY <1>7, <2>1, <3>1
    <3> HIDE DEF Goal
    <3> QED
      BY <1>3, <1>4, <2>1, <2>2, <3>1 DEF Underway, Serves
  <2>3. CASE e = Len(log)
    <3>1. x \in handlers' /\ x.commit = r.commit /\ (m \in x.to \/ staged[r.commit].by = m)
      BY <2>1 DEF Author
    <3>2. Len(log) + 1 \in DOMAIN log'
      BY <1>0, <2>1
    <3> HIDE DEF x
    <3> QED
      BY <2>1, <2>3, <3>1, <3>2 DEF Accepted
  <2> QED
    BY <1>0, <1>2, <2>1, <2>2, <2>3
<1>11. ASSUME NEW h \in handlers, CommitResponse(h) PROVE Goal
  <2> DEFINE x == ResponseMessage(h.commit)
             p == Author(h.commit)
  <2>1. queue' = [queue EXCEPT ![p] = Append(@, x)] /\ log' = log /\ h.to = {}
    BY <1>11 DEF CommitResponse
  <2>2. x \in MessageType /\ x.epoch = EpochOf(h.commit) /\ p \in Members
    <3>1. EpochOf(h.commit) \in Nat /\ p \in Members
      BY <1>0, StagedFacts
    <3> QED
      BY <3>1 DEF ResponseMessage, MessageType
  <2> HIDE DEF x
  <2>3. Underway(m, e)
    BY <1>0, <1>2, <1>3, <2>1
  <2>4. ASSUME NEW g \in handlers, EpochOf(g.commit) = e, Serves(g, m) PROVE Goal
    <3>1. g = h /\ p = m
      BY <2>1, <2>4 DEF OneHandler, Serves
    <3>2. \E i \in DOMAIN queue'[m] : queue'[m][i] = x
      BY <1>6, <2>1, <2>2, <3>1
    <3> QED
      BY <2>2, <2>4, <3>1, <3>2
  <2>5. ASSUME NEW i \in DOMAIN queue[m], queue[m][i].epoch = e PROVE Goal
    <3> HIDE DEF p
    <3> QED
      BY <1>6, <2>1, <2>2, <2>5
  <2> HIDE DEF Goal
  <2> QED
    BY <2>3, <2>4, <2>5 DEF Underway, Serves
<1>12. ASSUME NEW h \in handlers, NEW k \in Members, FanOut(h, k) PROVE Goal
  <2> DEFINE x == [kind |-> "commit", epoch |-> EpochOf(h.commit)]
  <2>1. /\ handlers' = Served(handlers, h, k) /\ queue' = [queue EXCEPT ![k] = Append(@, x)]
        /\ log' = log
    BY <1>12 DEF FanOut, Served
  <2>2. x \in MessageType /\ x.epoch = EpochOf(h.commit)
    <3>1. EpochOf(h.commit) \in Nat
      BY <1>0, StagedFacts
    <3> QED
      BY <3>1 DEF MessageType
  <2> HIDE DEF x
  <2>3. Underway(m, e)
    BY <1>0, <1>2, <1>3, <2>1
  <2>4. ASSUME NEW g \in handlers, EpochOf(g.commit) = e, Serves(g, m) PROVE Goal
    <3>1. g = h
      BY DEF OneHandler
    <3>2. CASE k = m
      <4>1. \E i \in DOMAIN queue'[m] : queue'[m][i] = x
        BY <1>6, <2>1, <2>2, <3>2
      <4> QED
        BY <2>2, <2>4, <3>1, <4>1
    <3>3. CASE k # m
      <4>1. PICK y \in handlers' : y.commit = h.commit /\ y.to = h.to \ {k}
        <5> DEFINE y == [h EXCEPT !.to = @ \ {k}]
        <5>1. h \in HandlerType
          BY TypeFacts
        <5>2. y.commit = h.commit /\ y.to = h.to \ {k}
          BY <5>1 DEF HandlerType
        <5>3. y \in handlers'
          BY <2>1 DEF Served
        <5> QED
          BY <5>2, <5>3
      <4>2. Len(staged'[y.commit].on) = e /\ Accepted(y.commit) /\ (m \in y.to \/ staged'[y.commit].by = m)
        BY <1>0, <2>4, <3>1, <3>3, <4>1 DEF Serves, EpochOf, Author
      <4> QED
        BY <1>0, <2>1, <4>2 DEF Accepted
    <3> QED
      BY <3>2, <3>3
  <2>5. ASSUME NEW i \in DOMAIN queue[m], queue[m][i].epoch = e PROVE Goal
    BY <1>6, <2>1, <2>2, <2>5
  <2> HIDE DEF Goal
  <2> QED
    BY <2>3, <2>4, <2>5 DEF Underway, Serves
<1>13. Goal
  <2> HIDE DEF Goal
  <2> QED
    BY <1>8, <1>9, <1>10, <1>11, <1>12, QuietCases
<1> QED
  BY <1>13 DEF Underway, EpochOf, Author

\* The three invariants of delivery, by induction.
LEMMA UnderwayInv ==
  ASSUME NoRace, QuietDs
  PROVE  GroupSpec => [](OneHandler /\ DeliveredInOrder /\ NothingMissed)
<1> DEFINE Inv == OneHandler /\ DeliveredInOrder /\ NothingMissed
<1>1. GroupInit => Inv
  BY DEF GroupInit, OneHandler, DeliveredInOrder, NothingMissed, Epoch
<1>2. GroupTypeOK /\ KnownCommits /\ GroupInv /\ Inv /\ [GroupNext]_groupVars => Inv'
  <2> SUFFICES ASSUME GroupTypeOK, KnownCommits, GroupInv, Inv, [GroupNext]_groupVars PROVE Inv'
    OBVIOUS
  <2>1. CASE GroupNext
    BY <2>1, OneHandlerKept, DeliveredInOrderKept, NothingMissedKept
  <2>2. CASE UNCHANGED groupVars
    BY <2>2 DEF groupVars, memberVars, OneHandler, DeliveredInOrder, NothingMissed, Underway,
                Abandoned, Accepted, Serves, Epoch, EpochOf, Author
  <2> QED
    BY <2>1, <2>2
<1>3. GroupSpec => [](GroupTypeOK /\ KnownCommits)
  BY GroupInitTypes, GroupStepTypes, PTL DEF GroupSpec
<1> HIDE DEF Inv
<1>4. GroupSpec => []Inv
  BY <1>1, <1>2, <1>3, GroupInvariant, PTL DEF GroupSpec
<1> QED
  BY <1>4 DEF Inv

(* Nobody is left behind: every accepted commit that a member lacks is     *)
(* announced by a message in its queue or one that the handler has yet to  *)
(* dispatch, as long as dispatches succeed and fan-outs do not overlap.    *)
THEOREM NobodyLeftBehind == ASSUME NoRace, QuietDs PROVE GroupSpec => []NothingMissed
<1>1. OneHandler /\ DeliveredInOrder /\ NothingMissed => NothingMissed
  OBVIOUS
<1> QED
  BY <1>1, UnderwayInv, PTL

-----------------------------------------------------------------------------
(***************************************************************************)
(* A job whose commit the queue has merged changes nothing.                *)
(***************************************************************************)

\* The commits of s were staged one after the other, each for its place.
InSequence(s) == \A i \in DOMAIN s : s[i] \in DOMAIN staged /\ EpochOf(s[i]) = i - 1

\* Also for the members that have left the accepted commits behind.
ChainsInSequence ==
  /\ \A m \in Members : InSequence(chain[m])
  /\ \A n \in DOMAIN staged : InSequence(staged[n].on)

\* A commit for the epoch of a chain may be appended to it.
LEMMA OneMoreInSequence ==
  ASSUME NEW s \in Seq(Commits), InSequence(s), NEW c \in Commits, c \in DOMAIN staged,
         EpochOf(c) = Len(s)
  PROVE  InSequence(Append(s, c))
<1> SUFFICES ASSUME NEW i \in DOMAIN Append(s, c)
             PROVE  Append(s, c)[i] \in DOMAIN staged /\ EpochOf(Append(s, c)[i]) = i - 1
  BY DEF InSequence
<1>1. CASE i \in DOMAIN s
  <2>1. Append(s, c)[i] = s[i]
    BY <1>1
  <2> QED
    BY <1>1, <2>1 DEF InSequence
<1>2. CASE i = Len(s) + 1
  <2>1. Append(s, c)[i] = c /\ i - 1 = Len(s)
    BY <1>2
  <2> QED
    BY <2>1
<1> QED
  BY <1>1, <1>2

\* The commits of a chain stay numbered by their epochs.
LEMMA ChainsInSequenceKept ==
  ASSUME GroupTypeOK, KnownCommits, GroupInv, ChainsInSequence, GroupNext PROVE ChainsInSequence'
<1>0. /\ \A n \in DOMAIN staged : n \in DOMAIN staged' /\ staged'[n] = staged[n]
      /\ chain \in [Members -> Seq(Commits)]
  BY HistoryEffects, TypeFacts
<1>1. ASSUME NEW s, InSequence(s)
      PROVE  \A i \in DOMAIN s : s[i] \in DOMAIN staged' /\ Len(staged'[s[i]].on) = i - 1
  BY <1>0, <1>1 DEF InSequence, EpochOf
<1>2. ASSUME NEW m \in Members PROVE InSequence(chain'[m])
  <2>1. CASE chain'[m] = chain[m]
    BY <2>1 DEF ChainsInSequence
  <2>2. ASSUME NEW j \in Slots, JobMerges(m, j) PROVE InSequence(chain'[m])
    <3> DEFINE n == jobs[m][j].commit
    <3>1. Running(m, j) /\ chain' = [chain EXCEPT ![m] = Append(jobs[m][j].base, n)]
      BY <2>2 DEF JobMerges, Answered
    <3>2. n \in DOMAIN staged /\ jobs[m][j].base = staged[n].on
      BY <3>1 DEF GroupInv, JobOwnsOperation
    <3>3. n \in Commits
      BY <3>1, TypeFacts DEF Running, JobType
    <3> HIDE DEF n
    <3>4. staged[n].on \in Seq(Commits) /\ InSequence(staged[n].on) /\ EpochOf(n) = Len(staged[n].on)
      BY <3>2, StagedFacts DEF ChainsInSequence, EpochOf
    <3>5. InSequence(Append(staged[n].on, n))
      BY <3>2, <3>3, <3>4, OneMoreInSequence
    <3>6. chain'[m] = Append(staged[n].on, n)
      BY <1>0, <3>1, <3>2
    <3> QED
      BY <3>5, <3>6
  <2>3. ASSUME MergeCommit(m) PROVE InSequence(chain'[m])
    <3> DEFINE n == log[Epoch(m) + 1]
    <3>1. QueueStep(m) /\ MessageEpoch(m) = Epoch(m) /\ chain' = [chain EXCEPT ![m] = Append(@, n)]
      BY <2>3 DEF QueueStep, MergeCommit
    <3>2. Epoch(m) < Len(log) /\ Epoch(m) = Len(chain[m]) /\ log \in Seq(Commits)
          /\ Epoch(m) \in Nat /\ chain[m] \in Seq(Commits)
      BY <3>1, TakenEffects, TypeFacts DEF MessageEpoch, KnownCommits, Epoch
    <3>3. Epoch(m) + 1 \in DOMAIN log /\ n \in Commits
      BY <3>2
    <3>4. n \in DOMAIN staged /\ EpochOf(n) = Len(chain[m])
      BY <3>2, <3>3 DEF GroupInv, LogIsChain
    <3> HIDE DEF n
    <3>5. InSequence(Append(chain[m], n))
      BY <3>2, <3>3, <3>4, OneMoreInSequence DEF ChainsInSequence
    <3>6. chain'[m] = Append(chain[m], n)
      BY <1>0, <3>1
    <3> QED
      BY <3>5, <3>6
  <2>4. ASSUME MergeResponse(m), pending[m] # 0 PROVE InSequence(chain'[m])
    <3> DEFINE n == pending[m]
    <3>1. chain' = [chain EXCEPT ![m] = Append(@, n)]
      BY <2>4 DEF MergeResponse, MergePending
    <3>2. n \in DOMAIN staged /\ EpochOf(n) = Len(chain[m])
      BY <2>4 DEF GroupInv, PendingOnChain, EpochOf
    <3>3. n \in Commits
      BY <2>4, TypeFacts
    <3> HIDE DEF n
    <3>4. InSequence(Append(chain[m], n))
      BY <1>0, <3>2, <3>3, OneMoreInSequence DEF ChainsInSequence
    <3>5. chain'[m] = Append(chain[m], n)
      BY <1>0, <3>1
    <3> QED
      BY <3>4, <3>5
  <2>5. MergeResponse(m) /\ pending[m] = 0 => chain' = chain
    BY DEF MergeResponse, MergePending
  <2>6. ASSUME NEW j \in Slots, CreateOperation(m, j) \/ JobGivesUp(m, j) PROVE chain'[m] = chain[m]
    BY <2>6 DEF CreateOperation, JobGivesUp
  <2> QED
    BY <2>1, <2>2, <2>3, <2>4, <2>5, <2>6, MemberEffects
<1>3. ASSUME NEW n \in DOMAIN staged' PROVE InSequence(staged'[n].on)
  <2>1. CASE n \in DOMAIN staged
    BY <1>0, <2>1 DEF ChainsInSequence
  <2>2. CASE n \notin DOMAIN staged
    <3>1. PICK m \in Members, j \in Slots : CreateOperation(m, j)
      BY <2>2, HistoryEffects
    <3>2. n = Len(staged) + 1 /\ staged'[Len(staged) + 1].on = chain[m]
      <4>1. DOMAIN staged' = DOMAIN staged \union {Len(staged) + 1} /\ staged'[Len(staged) + 1].on = chain[m]
        BY <3>1, CreateEffects
      <4> QED
        BY <2>2, <4>1
    <3> QED
      BY <3>2 DEF ChainsInSequence
  <2> QED
    BY <2>1, <2>2
<1>4. ASSUME NEW m \in Members, NEW i \in DOMAIN chain'[m]
      PROVE  chain'[m][i] \in DOMAIN staged' /\ Len(staged'[chain'[m][i]].on) = i - 1
  BY <1>1, <1>2
<1>5. ASSUME NEW n \in DOMAIN staged', NEW i \in DOMAIN staged'[n].on
      PROVE  staged'[n].on[i] \in DOMAIN staged' /\ Len(staged'[staged'[n].on[i]].on) = i - 1
  BY <1>1, <1>3
<1> QED
  BY <1>4, <1>5 DEF ChainsInSequence, InSequence, EpochOf

\* A job ends by its own step, or the app crashes.
LEMMA EndOfJob ==
  ASSUME GroupTypeOK, KnownCommits, \A h \in handlers : Accepted(h.commit), GroupNext,
         NEW m \in Members, NEW j \in Slots, Running(m, j), jobs'[m][j].commit = 0
  PROVE  JobStep(m, j) \/ CrashMember(m)
<1>0. jobs \in [Members -> [Slots -> JobType]] /\ jobs[m][j].commit # 0 /\ jobs[m][j] \in JobType
  BY TypeFacts DEF Running
<1>1. ASSUME NEW k \in Members, NEW l \in Slots, CreateOperation(k, l) \/ RetryOperation(k, l) PROVE FALSE
  <2>1. ~Running(k, l) /\ \E n, a : StartJob(k, l, n, a)
    BY <1>1 DEF CreateOperation, RetryOperation
  <2>2. \E J : jobs' = [jobs EXCEPT ![k][l] = J]
    BY <2>1 DEF StartJob
  <2>3. k # m \/ l # j
    BY <2>1
  <2> QED
    BY <1>0, <2>2, <2>3
<1>2. ASSUME NEW k \in Members, NEW l \in Slots, JobStep(k, l) PROVE k = m /\ l = j
  <2>1. jobs' = [jobs EXCEPT ![k][l] = NoJob]
    BY <1>2, JobStepEffects
  <2> QED
    BY <1>0, <2>1
<1>3. ASSUME NEW k \in Members, NEW l \in Slots, NetworkError(k, l) PROVE FALSE
  <2>1. jobs' = [jobs EXCEPT ![k][l] = WithAnswer(jobs[k][l], "network")]
    BY <1>3 DEF NetworkError, WithAnswer
  <2>2. jobs'[m][j] = jobs[m][j] \/ jobs'[m][j] = WithAnswer(jobs[m][j], "network")
    BY <1>0, <2>1
  <2>3. WithAnswer(jobs[m][j], "network").commit = jobs[m][j].commit
    BY <1>0 DEF WithAnswer, JobType
  <2> QED
    BY <1>0, <2>2, <2>3
<1>4. ASSUME NEW k \in Members, CrashMember(k) PROVE k = m
  BY <1>0, <1>4 DEF CrashMember
<1>5. ASSUME NEW k \in Members, BlockedOperation(k) \/ QueueStep(k) PROVE FALSE
  <2>1. jobs' = jobs
    BY <1>5, TakenEffects DEF BlockedOperation
  <2> QED
    BY <1>0, <2>1
<1>6. ASSUME NEW n \in DOMAIN staged, NEW k \in Slots \union {NoSlot}, NEW a \in Answers,
             jobs' = Answer(n, k, a)
      PROVE  FALSE
  <2> DEFINE A == Answer(n, k, a)
  <2>1. \A x \in Members, y \in Slots :
          A[x][y] = jobs[x][y] \/ (jobs[x][y].commit = n /\ A[x][y] = WithAnswer(jobs[x][y], a))
    BY AnswerEffects
  <2>2. jobs' = A
    BY <1>6
  <2> HIDE DEF A
  <2>3. jobs'[m][j] = jobs[m][j] \/ jobs'[m][j] = WithAnswer(jobs[m][j], a)
    BY <2>1, <2>2
  <2>4. WithAnswer(jobs[m][j], a).commit = jobs[m][j].commit
    BY <1>0, AnsweredJob
  <2> QED
    BY <1>0, <2>3, <2>4
<1>7. ASSUME DsStep \/ \E h \in handlers : \E p \in Members : DispatchFails(h, p) PROVE FALSE
  <2>0. /\ \A r \in requests : r.commit \in DOMAIN staged /\ r.slot \in Slots \union {NoSlot}
        /\ \A h \in handlers : h.commit \in DOMAIN staged /\ h.slot \in Slots \union {NoSlot}
    BY TypeFacts DEF KnownCommits, RequestType, HandlerType
  <2>1. jobs' # jobs
    BY <1>0
  <2>2. ASSUME NEW r \in requests, DsAccepts(r) \/ DsRejects(r) PROVE FALSE
    <3>1. \E a \in Answers : jobs' = Answer(r.commit, r.slot, a)
      BY <2>1, <2>2 DEF DsAccepts, DsRejects, Answers
    <3> QED
      BY <1>6, <2>0, <3>1
  <2>3. ASSUME NEW h \in handlers, NEW p \in Members,
               CommitResponse(h) \/ FanOut(h, p) \/ DispatchFails(h, p)
        PROVE  FALSE
    <3>1. jobs' = Answer(h.commit, h.slot, "ok") /\ "ok" \in Answers
      BY <2>1, <2>3 DEF CommitResponse, FanOut, DispatchFails, Answers
    <3> QED
      BY <1>6, <2>0, <3>1
  <2> QED
    BY <1>7, <2>2, <2>3 DEF DsStep
<1> QED
  BY <1>1, <1>2, <1>3, <1>4, <1>5, <1>7 DEF GroupNext

\* The job whose answer comes after the queue was faster changes nothing.
LEMMA LoserStep ==
  ASSUME GroupTypeOK, KnownCommits, GroupInv, ChainsInSequence, GroupNext,
         NEW m \in Members, NEW j \in Slots, Answered(m, j, "ok"), Contains(chain[m], jobs[m][j].commit)
  PROVE  UNCHANGED memberVars
<1> DEFINE n == jobs[m][j].commit
<1>0. jobs \in [Members -> [Slots -> JobType]] /\ chain[m] \in Seq(Commits)
  BY TypeFacts
<1>1. Running(m, j) /\ jobs[m][j].answer = "ok" /\ jobs' = [jobs EXCEPT ![m][j] = NoJob]
  BY DEF Answered
<1>2. jobs'[m][j] = NoJob /\ NoJob.commit = 0
  BY <1>0, <1>1 DEF NoJob
<1>3. JobStep(m, j) \/ CrashMember(m)
  BY <1>1, <1>2, EndOfJob DEF GroupInv, InFlight
<1>4. ASSUME JobStep(m, j) PROVE op[m].commit = 0
  <2> SUFFICES ASSUME op[m].commit # 0 PROVE FALSE
    OBVIOUS
  <2>1. op[m].commit = n /\ pending[m] = n
    BY <1>1 DEF GroupInv, JobOwnsOperation, OperationHasItsCommit
  <2>2. staged[n].on = chain[m]
    BY <2>1 DEF GroupInv, PendingOnChain
  <2>3. PICK i \in 1..Len(chain[m]) : chain[m][i] = n
    BY DEF Contains
  <2>4. EpochOf(n) = i - 1
    BY <1>0, <2>3 DEF ChainsInSequence, InSequence
  <2> HIDE DEF n
  <2>5. EpochOf(n) = Len(chain[m])
    BY <2>2 DEF EpochOf
  <2> QED
    BY <1>0, <2>3, <2>4, <2>5
<1>5. CASE JobStep(m, j)
  <2>1. JobLoses(m, j)
    BY <1>1, <1>4, <1>5 DEF JobStep, JobMerges, JobWaits, JobRetriesLater, JobGivesUp, Answered
  <2> QED
    BY <2>1 DEF JobLoses
<1>6. CASE CrashMember(m)
  <2>1. jobs' = [jobs EXCEPT ![m] = [k \in Slots |-> NoJob]] /\ UNCHANGED <<chain, pending, failed>>
    BY <1>6 DEF CrashMember
  <2>2. ASSUME NEW k \in Slots, Running(m, k), jobs[m][k].answer = "wrong_epoch" PROVE FALSE
    <3>1. k # j
      BY <1>1, <2>2
    <3>2. jobs'[m][k] = jobs[m][k]
      BY <1>0, <1>1, <3>1
    <3>3. jobs'[m][k] = NoJob
      BY <1>0, <2>1
    <3> QED
      BY <1>2, <2>2, <3>2, <3>3 DEF Running
  <2>3. UNCHANGED op
    BY <1>6, <2>2 DEF CrashMember
  <2> QED
    BY <2>1, <2>3 DEF memberVars
<1> QED
  BY <1>3, <1>5, <1>6

(* A job that succeeds after the queue has merged its commit changes       *)
(* nothing, as pending_chat_operation.rs intends, as long as the jobs of a *)
(* member do not overlap: the overlap is the only cause of the violation   *)
(* that the run GroupCommit_race shows.                                    *)
THEOREM LoserBailsAlone == ASSUME NoRace PROVE GroupSpec => LoserBails
<1>1. GroupInit => ChainsInSequence
  BY DEF GroupInit, ChainsInSequence, InSequence
<1>2. /\ GroupTypeOK /\ KnownCommits /\ GroupInv /\ ChainsInSequence /\ [GroupNext]_groupVars
      => ChainsInSequence'
  <2> SUFFICES ASSUME GroupTypeOK, KnownCommits, GroupInv, ChainsInSequence, [GroupNext]_groupVars
               PROVE  ChainsInSequence'
    OBVIOUS
  <2>1. CASE UNCHANGED groupVars
    BY <2>1 DEF groupVars, memberVars, ChainsInSequence, InSequence, EpochOf
  <2> QED
    BY <2>1, ChainsInSequenceKept
<1>3. GroupSpec => [](GroupTypeOK /\ KnownCommits)
  BY GroupInitTypes, GroupStepTypes, PTL DEF GroupSpec
<1>4. GroupSpec => []ChainsInSequence
  BY <1>1, <1>2, <1>3, GroupInvariant, PTL DEF GroupSpec
<1>5. /\ GroupTypeOK /\ KnownCommits /\ GroupInv /\ ChainsInSequence /\ [GroupNext]_groupVars
      => [\A m \in Members : \A j \in Slots :
            Answered(m, j, "ok") /\ Contains(chain[m], jobs[m][j].commit)
              => UNCHANGED memberVars]_groupVars
  BY LoserStep
<1> QED
  BY <1>3, <1>4, <1>5, GroupInvariant, PTL DEF GroupSpec, LoserBails
=============================================================================
