----------------------------- MODULE Membership -----------------------------
(***************************************************************************)
(* Who is in a group: leaving, removing, deleting the chat and joining the *)
(* group anew (resync).  The delivery service (DS) keeps the tree of the   *)
(* group, the leave proposals of the current epoch and a profile per leaf  *)
(* that says whose queue a message goes to; a client keeps its own copy of *)
(* the group, the operation it has pending and a row for a resync.         *)
(*                                                                         *)
(* A state of the group is the commit that led to it, a number: 0 is the   *)
(* state the group starts in, and commits has the others.  A commit takes  *)
(* effect on the state it was made on and on no other.  The DS handles a   *)
(* request and fans out in one step, and the author of a commit gets its   *)
(* answer with it; what goes wrong there is the subject of GroupCommit.    *)
(* Nobody is added, and a member whose leave is stored does not resync:    *)
(* what OpenMLS makes of that commit is not decided by this code.          *)
(***************************************************************************)
EXTENDS Naturals, SequencesExt

CONSTANTS
  FirstMembers,        \* the user on each leaf of the tree in state 0
  Nobody,              \* the user of a blank leaf
  MaxMade,             \* bound: commits ever made
  MaxWishes,           \* bound: operations and resyncs the users ask for
  MembershipFaults,    \* which faults happen
  MaxMembershipFaults  \* bound: how many of them

ASSUME MembershipAssumption ==
  /\ FirstMembers \in Seq(ToSet(FirstMembers) \ {Nobody})
  /\ \A i, j \in DOMAIN FirstMembers : FirstMembers[i] = FirstMembers[j] => i = j
  /\ MaxMade \in Nat
  /\ MaxWishes \in Nat
  /\ MaxMembershipFaults \in Nat

VARIABLES
  commits,    \* history: every commit made, with the tree it leads to
  head,       \* DS: the state of the group
  proposed,   \* DS: the leaves whose leave proposals are stored for this epoch
  profiles,   \* DS: leaf -> the user whose queue is in its member profile
  outsiders,  \* DS: users who have got the role Outsider by leaving
  overlooked, \* history: users whose proposal an accepted commit cleared without covering it
  inbox,      \* user -> group messages in its queue
  local,      \* user -> the state of its copy of the group
  ownLeaf,    \* user -> own_leaf_index of its copy
  known,      \* user -> the leaves whose leave proposals its copy has stored
  active,     \* user -> its chat is active
  operation,  \* user -> its row of pending_chat_operation
  resync,     \* user -> its row of resync_queue, and the commit being sent for it
  asked,      \* history: users who asked to leave
  forgotten,  \* history: users whose leave operation was deleted by a resync
  droppedResync,  \* history: users whose resync was dropped after a fatal error
  deleted,    \* history: users whose copy has merged the deletion of the chat
  wishes,     \* how often users have asked for something
  membershipFaults \* how many faults have happened

groupStateVars == <<head, proposed, profiles, outsiders, overlooked>>
copyVars == <<local, ownLeaf, known, active>>
rowVars == <<operation, resync>>
askedVars == <<asked, forgotten, droppedResync, deleted>>
membershipVars ==
  <<commits, groupStateVars, inbox, copyVars, rowVars, askedVars, wishes, membershipFaults>>

Leaves == DOMAIN FirstMembers

Users == ToSet(FirstMembers)

NoRow == [kind |-> "none", state |-> 0, tried |-> FALSE]

NoResync == [leaf |-> 0, commit |-> 0]

TreeOf(n) == IF n = 0 THEN FirstMembers ELSE commits[n].tree

GroupEpoch(n) == IF n = 0 THEN 0 ELSE commits[n].epoch

InGroup(u) == u \in ToSet(TreeOf(head))

\* The users whose leave proposals the DS has stored.
Proposers == {TreeOf(head)[l] : l \in proposed}

MembershipInit ==
  /\ commits = <<>>
  /\ head = 0
  /\ proposed = {}
  /\ profiles = FirstMembers
  /\ outsiders = {}
  /\ overlooked = {}
  /\ inbox = [u \in Users |-> <<>>]
  /\ local = [u \in Users |-> 0]
  /\ ownLeaf = [u \in Users |-> CHOOSE l \in Leaves : FirstMembers[l] = u]
  /\ known = [u \in Users |-> {}]
  /\ active = [u \in Users |-> TRUE]
  /\ operation = [u \in Users |-> NoRow]
  /\ resync = [u \in Users |-> NoResync]
  /\ asked = {}
  /\ forgotten = {}
  /\ droppedResync = {}
  /\ deleted = {}
  /\ wishes = 0
  /\ membershipFaults = 0

Fails(k) ==
  /\ k \in MembershipFaults
  /\ membershipFaults < MaxMembershipFaults
  /\ membershipFaults' = membershipFaults + 1
  /\ UNCHANGED wishes

NoFault == UNCHANGED <<wishes, membershipFaults>>

\* A user asks for something.
Wish ==
  /\ wishes < MaxWishes
  /\ wishes' = wishes + 1
  /\ UNCHANGED membershipFaults

(* A resync holds the client's write connection until its commit has been  *)
(* answered: no other step of the client writes in between.                *)
CanWrite(u) == resync[u].commit = 0

Blank(tree, S) == [l \in Leaves |-> IF l \in S THEN Nobody ELSE tree[l]]

LeavesOf(tree, S) == {l \in Leaves : tree[l] \in S}

\* A commit of user u on state n that covers the leave proposals of left.
MakeCommit(u, kind, n, left, tree) ==
  /\ Len(commits) < MaxMade
  /\ commits' = Append(commits, [by |-> u, kind |-> kind, on |-> n, left |-> left,
                                 epoch |-> GroupEpoch(n) + 1, tree |-> tree])

\* other_destination_clients, fan_out_message: to every profile but the sender's.
SendToOthers(leaf, kind, n, l) ==
  inbox' = [u \in Users |->
    IF u \in ToSet(Blank(profiles, {leaf}))
    THEN Append(inbox[u], [kind |-> kind, state |-> n, leaf |-> l]) ELSE inbox[u]]

\* The row of u's operation, and with it the group's pending commit, is deleted.
DeleteRow(u) == operation' = [operation EXCEPT ![u] = NoRow]

-----------------------------------------------------------------------------
(***************************************************************************)
(* Operations that commit: updating or removing members, deleting the chat *)
(***************************************************************************)

\* ChatOperation: the chat is active and the group clean (no pending operation).
CanOperate(u) == active[u] /\ operation[u] = NoRow /\ CanWrite(u)

\* create_update, create_remove: the commit covers every proposal of the copy.
StageCommit(u, removed) ==
  LET gone == known[u] \union LeavesOf(TreeOf(local[u]), removed)
  IN /\ Wish /\ CanOperate(u)
     /\ removed \subseteq ToSet(Blank(TreeOf(local[u]), known[u])) \ {u, Nobody}
     /\ MakeCommit(u, "update", local[u], known[u], Blank(TreeOf(local[u]), gone))
     /\ operation' = [operation EXCEPT ![u] =
          [kind |-> "commit", state |-> Len(commits'), tried |-> FALSE]]
     /\ UNCHANGED <<groupStateVars, inbox, copyVars, resync, askedVars>>

\* create_delete: a commit that removes everyone else.
StageDelete(u) ==
  LET others == Leaves \ {ownLeaf[u]}
  IN /\ Wish /\ CanOperate(u)
     /\ LeavesOf(TreeOf(local[u]), Users) # {ownLeaf[u]}
     /\ MakeCommit(u, "delete", local[u], known[u], Blank(TreeOf(local[u]), others))
     /\ operation' = [operation EXCEPT ![u] =
          [kind |-> "commit", state |-> Len(commits'), tried |-> FALSE]]
     /\ UNCHANGED <<groupStateVars, inbox, copyVars, resync, askedVars>>

\* create_delete of a group that nobody else is in.
DeleteAlone(u) ==
  /\ Wish /\ CanOperate(u)
  /\ LeavesOf(TreeOf(local[u]), Users) = {ownLeaf[u]}
  /\ active' = [active EXCEPT ![u] = FALSE]
  /\ UNCHANGED <<commits, groupStateVars, inbox, local, ownLeaf, known, rowVars, askedVars>>

PendingCommit(u, kind) ==
  /\ operation[u].kind = "commit"
  /\ commits[operation[u].state].kind = kind
  /\ CanWrite(u)

\* The DS finds the sender on its leaf and the message made on the group's state.
Verifies(u, leaf, n) == n = head /\ TreeOf(head)[leaf] = u

(* The DS clears the stored proposals with every commit it accepts, also   *)
(* those that the commit does not cover: their users stay in the tree.     *)
ClearProposals(tree) ==
  /\ proposed' = {}
  /\ overlooked' = overlooked \union (Proposers \intersect ToSet(tree))

\* merge_pending_commit
MergeOwn(u) ==
  /\ local' = [local EXCEPT ![u] = operation[u].state]
  /\ known' = [known EXCEPT ![u] = {}]
  /\ DeleteRow(u)
  /\ UNCHANGED ownLeaf

(* group_operation: the sender's profile is stored under its leaf, the     *)
(* commit accepted whether or not it covers the stored proposals, which    *)
(* are cleared, and the profiles of those removed deleted.                 *)
SendCommit(u) ==
  LET n == operation[u].state
  IN /\ PendingCommit(u, "update")
     /\ Verifies(u, ownLeaf[u], commits[n].on)
     /\ head' = n
     /\ ClearProposals(TreeOf(n))
     /\ profiles' = [Blank(profiles, LeavesOf(TreeOf(n), {Nobody})) EXCEPT ![ownLeaf[u]] = u]
     /\ SendToOthers(ownLeaf[u], "commit", n, 0)
     /\ MergeOwn(u)
     /\ NoFault
     /\ UNCHANGED <<commits, outsiders, active, resync, askedVars>>

\* A deletion must remove all members that the DS has profiles of, but the sender.
Deletable(u, n) ==
  commits[n].kind = "delete"
    => LeavesOf(profiles, Users \ {u}) = LeavesOf(TreeOf(head), Users \ {u})

(* delete_group: the commit is checked and fanned out and the proposals    *)
(* cleared; it is not applied, and the group is not deleted.  A lost       *)
(* answer leaves the operation to be tried again.                          *)
SendDelete(u) ==
  LET n == operation[u].state
  IN /\ PendingCommit(u, "delete")
     /\ Verifies(u, ownLeaf[u], commits[n].on)
     /\ Deletable(u, n)
     /\ ClearProposals(TreeOf(head))
     /\ SendToOthers(ownLeaf[u], "commit", n, 0)
     /\ \/ /\ MergeOwn(u)
           /\ active' = [active EXCEPT ![u] = FALSE]
           /\ deleted' = deleted \union {u}
           /\ NoFault
        \/ Fails("network") /\ UNCHANGED <<copyVars, operation, deleted>>
     /\ UNCHANGED <<commits, head, profiles, outsiders, resync, asked, forgotten, droppedResync>>

(* A fatal error: the sender is unknown, the commit is of this epoch and   *)
(* does not verify, or a deletion is refused for whatever reason.  The     *)
(* pending commit is discarded.  Another epoch leaves an update waiting    *)
(* for the queue.                                                          *)
CommitRefused(u) ==
  LET n == operation[u].state
  IN /\ operation[u].kind = "commit" /\ CanWrite(u)
     /\ ~(Verifies(u, ownLeaf[u], commits[n].on) /\ Deletable(u, n))
     /\ \/ commits[n].kind = "delete"
        \/ TreeOf(head)[ownLeaf[u]] # u
        \/ GroupEpoch(commits[n].on) = GroupEpoch(head)
     /\ DeleteRow(u)
     /\ NoFault
     /\ UNCHANGED <<commits, groupStateVars, inbox, copyVars, resync, askedVars>>

-----------------------------------------------------------------------------
(***************************************************************************)
(* Leaving.                                                                *)
(***************************************************************************)

\* create_leave: a SelfRemove proposal for the state of the copy.
LeaveChat(u) ==
  /\ Wish /\ CanOperate(u)
  /\ operation' = [operation EXCEPT ![u] =
       [kind |-> "leave", state |-> local[u], tried |-> FALSE]]
  /\ asked' = asked \union {u}
  /\ forgotten' = forgotten \ {u}
  /\ UNCHANGED <<commits, groupStateVars, inbox, copyVars, resync, droppedResync, deleted>>

\* restage_leave_group: only a proposal that was tried before is made anew.
LeaveProposal(u) == IF operation[u].tried THEN local[u] ELSE operation[u].state

\* self_remove_client: the proposal is stored and sent to the others.
DsSelfRemove(u) ==
  /\ Verifies(u, ownLeaf[u], LeaveProposal(u))
  /\ proposed' = proposed \union {ownLeaf[u]}
  /\ outsiders' = outsiders \union {u}
  /\ overlooked' = overlooked \ {u}
  /\ SendToOthers(ownLeaf[u], "leave", head, ownLeaf[u])
  /\ UNCHANGED <<head, profiles>>

(* The proposal is not for the group's state, or the room policy refuses   *)
(* (it may: that is not decided here) to make an outsider an outsider.     *)
DsRefusesSelfRemove(u) ==
  /\ ~Verifies(u, ownLeaf[u], LeaveProposal(u)) \/ u \in outsiders
  /\ UNCHANGED <<groupStateVars, inbox>>

\* The DS has not confirmed the leave: the operation is tried again later.
LeaveUnconfirmed(u) == operation' = [operation EXCEPT ![u].tried = TRUE]

\* Restaging in a group that the user is no longer in is a fatal error.
RestageFails(u) ==
  /\ operation[u].tried
  /\ GroupEpoch(operation[u].state) # GroupEpoch(local[u])
  /\ u \notin ToSet(TreeOf(local[u]))

(* PendingChatOperation::execute of a leave: whatever the DS answers, the  *)
(* chat becomes inactive; the row is deleted once the DS has confirmed.    *)
SendLeave(u) ==
  /\ operation[u].kind = "leave" /\ CanWrite(u) /\ ~RestageFails(u)
  /\ \/ /\ DsSelfRemove(u)
        /\ \/ DeleteRow(u) /\ NoFault
           \/ Fails("network") /\ LeaveUnconfirmed(u)
     \/ /\ DsRefusesSelfRemove(u)
        /\ LeaveUnconfirmed(u)
        /\ NoFault
     \/ /\ Fails("network")
        /\ LeaveUnconfirmed(u)
        /\ UNCHANGED <<groupStateVars, inbox>>
  /\ active' = [active EXCEPT ![u] = FALSE]
  /\ UNCHANGED <<commits, local, ownLeaf, known, resync, askedVars>>

\* The client dies before it has written down what the DS has answered.
CrashInLeave(u) ==
  /\ operation[u].kind = "leave" /\ CanWrite(u) /\ ~RestageFails(u)
  /\ Fails("crash")
  /\ DsSelfRemove(u)
  /\ UNCHANGED <<commits, copyVars, rowVars, askedVars>>

LeaveGivenUp(u) ==
  /\ operation[u].kind = "leave" /\ CanWrite(u) /\ RestageFails(u)
  /\ DeleteRow(u)
  /\ NoFault
  /\ UNCHANGED <<commits, groupStateVars, inbox, copyVars, resync, askedVars>>

-----------------------------------------------------------------------------
(***************************************************************************)
(* A client processes its queue.                                           *)
(***************************************************************************)

ReceivesNext(u, kind) ==
  /\ inbox[u] # <<>> /\ Head(inbox[u]).kind = kind
  /\ CanWrite(u)
  /\ inbox' = [inbox EXCEPT ![u] = Tail(@)]
  /\ NoFault
  /\ UNCHANGED <<commits, groupStateVars, resync, asked, forgotten, droppedResync>>

\* handle_proposal_message; a proposal for another state is dropped.
ReceiveLeave(u) ==
  LET msg == Head(inbox[u])
  IN /\ ReceivesNext(u, "leave")
     /\ known' = IF msg.state # local[u] THEN known
                 ELSE [known EXCEPT ![u] = @ \union {msg.leaf}]
     /\ UNCHANGED <<local, ownLeaf, active, operation, deleted>>

\* Mutant of KeepsRow: any commit ends a leave operation.
KeepsNoRow(u, n) == FALSE

(* discard_pending_commit_and_operations: a leave operation survives a     *)
(* commit that does not contain it.                                        *)
KeepsRow(u, n) == operation[u].kind = "leave" /\ ownLeaf[u] \notin commits[n].left

\* process_remove_proposals
WeWereRemoved(u, n) == u \notin ToSet(TreeOf(n))

\* A commit on the state of the copy is merged; if it removes us, the chat is over.
ReceiveCommit(u) ==
  LET n == Head(inbox[u]).state
  IN /\ ReceivesNext(u, "commit")
     /\ commits[n].on = local[u]
     /\ u \in ToSet(TreeOf(local[u]))
     /\ local' = [local EXCEPT ![u] = n]
     /\ known' = [known EXCEPT ![u] = {}]
     /\ operation' = IF KeepsRow(u, n) THEN operation ELSE [operation EXCEPT ![u] = NoRow]
     /\ active' = [active EXCEPT ![u] = @ /\ ~WeWereRemoved(u, n)]
     /\ deleted' = IF commits[n].kind = "delete" THEN deleted \union {u} ELSE deleted
     /\ UNCHANGED ownLeaf

(* A commit of a past epoch is ignored, one of a future epoch only flags   *)
(* the group, and one for another state of this epoch is an error.         *)
ReceiveOther(u) ==
  LET n == Head(inbox[u]).state
  IN /\ ReceivesNext(u, "commit")
     /\ commits[n].on # local[u] \/ u \notin ToSet(TreeOf(local[u]))
     /\ UNCHANGED <<copyVars, operation, deleted>>

-----------------------------------------------------------------------------
(***************************************************************************)
(* Resync: the user asks for it, the outbound service performs it.         *)
(***************************************************************************)

\* enqueue_group_resync; ON CONFLICT DO NOTHING.
RequestResync(u) ==
  /\ Wish /\ resync[u] = NoResync
  /\ resync' = [resync EXCEPT ![u].leaf = ownLeaf[u]]
  /\ UNCHANGED <<commits, groupStateVars, inbox, copyVars, operation, askedVars>>

\* An external commit removes the old leaf and takes the leftmost blank one.
Rejoined(u) ==
  LET old == Blank(TreeOf(head), proposed \union LeavesOf(TreeOf(head), {u}))
      new == CHOOSE l \in LeavesOf(old, {Nobody}) : \A k \in LeavesOf(old, {Nobody}) : l <= k
  IN [leaf |-> new, tree |-> [old EXCEPT ![new] = u]]

(* create_commit: with the state and the proposals the DS has now, the     *)
(* group is deleted (and with it, by cascade, the pending operation) and   *)
(* joined by an external commit, which is merged at once.                  *)
StartResync(u) ==
  /\ resync[u].leaf # 0 /\ CanWrite(u)
  /\ proposed \intersect LeavesOf(TreeOf(head), {u}) = {}
  /\ MakeCommit(u, "resync", head, proposed, Rejoined(u).tree)
  /\ local' = [local EXCEPT ![u] = Len(commits')]
  /\ ownLeaf' = [ownLeaf EXCEPT ![u] = Rejoined(u).leaf]
  /\ known' = [known EXCEPT ![u] = {}]
  /\ forgotten' = IF operation[u].kind = "leave" THEN forgotten \union {u} ELSE forgotten
  /\ DeleteRow(u)
  /\ resync' = [resync EXCEPT ![u].commit = Len(commits')]
  /\ NoFault
  /\ UNCHANGED <<groupStateVars, inbox, active, asked, droppedResync, deleted>>

\* create_commit fails: its transaction is rolled back and the row deleted.
ResyncDropped(u) ==
  /\ resync[u].leaf # 0 /\ CanWrite(u)
  /\ Fails("local")
  /\ resync' = [resync EXCEPT ![u] = NoResync]
  /\ droppedResync' = droppedResync \union {u}
  /\ UNCHANGED <<commits, groupStateVars, inbox, copyVars, operation>>
  /\ UNCHANGED <<asked, forgotten, deleted>>

\* Mutant of RekeyProfile: the profile stays under the original leaf.
KeepProfile(p, u, leaf) == p

\* rekey_sender_profile
RekeyProfile(p, u, leaf) ==
  IF ownLeaf[u] = leaf THEN p ELSE [Blank(p, {leaf}) EXCEPT ![ownLeaf[u]] = p[leaf]]

\* Mutant of ResyncVerifies: only the state of the group is checked.
ResyncOnHead(u) == commits[resync[u].commit].on = head

(* The request is signed with the key on the original leaf, and the commit *)
(* must remove that leaf.                                                  *)
ResyncVerifies(u) == Verifies(u, resync[u].leaf, commits[resync[u].commit].on)

\* resync_client: the external commit is applied and sent to the others.
DsResync(u) ==
  LET n == resync[u].commit
  IN /\ ResyncVerifies(u)
     /\ head' = n
     /\ ClearProposals(TreeOf(n))
     /\ profiles' = RekeyProfile(Blank(profiles, commits[n].left), u, resync[u].leaf)
     /\ SendToOthers(resync[u].leaf, "commit", n, 0)
     /\ UNCHANGED outsiders

\* The row stays and is performed again by a later run.
ResyncTriedLater(u) == resync' = [resync EXCEPT ![u].commit = 0]

\* send_commit: the row is removed once the DS has accepted.
SendResync(u) ==
  /\ resync[u].commit # 0
  /\ \/ /\ DsResync(u)
        /\ \/ resync' = [resync EXCEPT ![u] = NoResync] /\ NoFault
           \/ Fails("network") /\ ResyncTriedLater(u)
     \/ /\ ~ResyncVerifies(u)
        /\ ResyncTriedLater(u)
        /\ NoFault
        /\ UNCHANGED <<groupStateVars, inbox>>
     \/ /\ Fails("network")
        /\ ResyncTriedLater(u)
        /\ UNCHANGED <<groupStateVars, inbox>>
  /\ UNCHANGED <<commits, copyVars, operation, askedVars>>

-----------------------------------------------------------------------------
OperationStep(u) ==
  \/ \E removed \in SUBSET Users : StageCommit(u, removed)
  \/ StageDelete(u) \/ DeleteAlone(u)
  \/ SendCommit(u) \/ SendDelete(u) \/ CommitRefused(u)

LeaveStep(u) == LeaveChat(u) \/ SendLeave(u) \/ CrashInLeave(u) \/ LeaveGivenUp(u)

ReceiveStep(u) == ReceiveLeave(u) \/ ReceiveCommit(u) \/ ReceiveOther(u)

ResyncStep(u) == RequestResync(u) \/ StartResync(u) \/ ResyncDropped(u) \/ SendResync(u)

MembershipNext ==
  \E u \in Users : OperationStep(u) \/ LeaveStep(u) \/ ReceiveStep(u) \/ ResyncStep(u)

MembershipSpec == MembershipInit /\ [][MembershipNext]_membershipVars

-----------------------------------------------------------------------------
(***************************************************************************)
(* Properties.                                                             *)
(***************************************************************************)

(* A member that has processed its queue has the group's state and leave   *)
(* proposals, and its messages go to its own queue under its own leaf: no  *)
(* order of commits, leaves, lost answers and resyncs separates the copy   *)
(* from the group.  Two members are excused: one that waits for its resync *)
(* or whose resync was dropped after a fatal error, and one that has       *)
(* merged the deletion of the chat, which the DS does not apply.           *)
CaughtUpAgrees ==
  \A u \in Users :
    /\ InGroup(u) /\ inbox[u] = <<>>
    /\ resync[u] = NoResync /\ u \notin droppedResync \union deleted
    => /\ local[u] = head
       /\ TreeOf(head)[ownLeaf[u]] = u
       /\ profiles[ownLeaf[u]] = u
       /\ proposed \ {ownLeaf[u]} \subseteq known[u]

(* A user who has asked to leave and is still a member either has its      *)
(* operation left to try, or the DS has its proposal stored for the next   *)
(* commit: errors, lost answers, crashes and the commits of others do not  *)
(* lose a leave, but for three ways.  A resync deletes the operation with  *)
(* the group; a commit that was made before the proposal came clears it    *)
(* (overlooked); and the leave is moot once the chat is deleted.           *)
LeaveHolds ==
  \A u \in asked \ (forgotten \union overlooked \union deleted) :
    InGroup(u) => operation[u].kind = "leave" \/ u \in Proposers

(* "will be committed with the next commit" (handle_proposal_message): a   *)
(* commit that the DS accepts removes the users whose leave proposals it   *)
(* has stored.                                                             *)
NextCommitRemoves ==
  [][head' # head => \A u \in Proposers : ~InGroup(u)']_membershipVars

(* Who is no longer in the group does not come back by a resync, not even  *)
(* when its leaf has become another member's.                              *)
RemovedStaysOut ==
  [][\A u \in Users : InGroup(u)' => InGroup(u)]_membershipVars
=============================================================================
