-------------------------- MODULE Membership_proofs --------------------------
(***************************************************************************)
(* Theorems about the members of a group.                                  *)
(***************************************************************************)
EXTENDS Membership, FiniteSetTheorems, SequenceTheorems, WellFoundedInduction, TLAPS

-----------------------------------------------------------------------------
(***************************************************************************)
(* The inductive invariant.                                                *)
(***************************************************************************)

\* The user on each leaf.
Trees == [Leaves -> Users \union {Nobody}]

\* The types of the records of the model.
Commit ==
  [by : Users, kind : {"update", "delete", "resync"}, on : Nat, left : SUBSET Leaves,
   epoch : Nat, tree : Trees]

Message == [kind : {"commit", "leave"}, state : Nat, leaf : Nat]

Row == [kind : {"none", "commit", "leave"}, state : Nat, tried : BOOLEAN]

ResyncRow == [leaf : Leaves \union {0}, commit : Nat]

(* The states of the group that there are.                                 *)
States == 0..Len(commits)

(* The types of the DS's and the clients' variables.                       *)
MembershipTyped ==
  /\ commits \in Seq(Commit)
  /\ head \in States
  /\ proposed \subseteq Leaves
  /\ profiles \in Trees
  /\ outsiders \subseteq Users
  /\ inbox \in [Users -> Seq(Message)]
  /\ local \in [Users -> States]
  /\ ownLeaf \in [Users -> Leaves]
  /\ known \in [Users -> SUBSET Leaves]
  /\ operation \in [Users -> Row]
  /\ resync \in [Users -> ResyncRow]
  /\ asked \subseteq Users

(* Nobody is on two leaves.                                                *)
OneLeafEach(tree) == \A k, l \in Leaves : tree[k] = tree[l] /\ tree[k] # Nobody => k = l

(* A commit is made on an earlier state.  It moves nobody but, if it is a  *)
(* resync, its author, and covers proposals of users who have asked to     *)
(* leave.                                                                  *)
CommitFits(n) ==
  LET c == commits[n]
      old == TreeOf(c.on)
  IN /\ c.on < n
     /\ c.epoch = GroupEpoch(c.on) + 1
     /\ OneLeafEach(c.tree)
     /\ \A l \in Leaves : \/ c.tree[l] \in {old[l], Nobody}
                          \/ c.kind = "resync" /\ c.tree[l] = c.by
     /\ \A l \in c.left : old[l] \in outsiders
     /\ c.kind = "resync" =>
          \A l \in c.left : c.tree[l] \in {Nobody, c.by} /\ old[l] # c.by

\* Every commit fits.
CommitsFit == \A n \in 1..Len(commits) : CommitFits(n)

(* The DS knows the queues of the members.                                 *)
ProfilesFit == \A l \in Leaves : TreeOf(head)[l] # Nobody => profiles[l] = TreeOf(head)[l]

(* Leave proposals, wherever they are, are of users that the DS has made   *)
(* outsiders.                                                              *)
ProposalsFit ==
  /\ \A l \in proposed : TreeOf(head)[l] \in outsiders
  /\ \A u \in Users : \A l \in known[u] : TreeOf(local[u])[l] \in outsiders

(* A commit in a queue that is not a deletion was accepted: the group has  *)
(* not more members since.                                                 *)
Accepted(n) ==
  /\ GroupEpoch(n) <= GroupEpoch(head)
  /\ \A l \in Leaves : TreeOf(head)[l] # Nobody => TreeOf(head)[l] \in ToSet(TreeOf(n))

\* A message names a state; a leave is of a user that the DS has made an outsider.
MessageFits(m) ==
  /\ m.state \in States
  /\ m.kind = "commit" =>
       m.state # 0 /\ (commits[m.state].kind # "delete" => Accepted(m.state))
  /\ m.kind = "leave" => m.leaf \in Leaves /\ TreeOf(m.state)[m.leaf] \in outsiders

\* Every message in a queue fits.
MessagesFit == \A u \in Users : \A i \in 1..Len(inbox[u]) : MessageFits(inbox[u][i])

(* A copy knows its own leaf.                                              *)
OwnLeafFits ==
  \A u \in Users : u \in ToSet(TreeOf(local[u])) => TreeOf(local[u])[ownLeaf[u]] = u

(* The commit of a pending operation is made on the state of the copy.     *)
OperationFits ==
  \A u \in Users : operation[u].kind = "commit" =>
    /\ operation[u].state \in States \ {0}
    /\ commits[operation[u].state].on = local[u]
    /\ commits[operation[u].state].kind # "resync"

(* A client that sends the commit of its resync has merged it.             *)
ResyncFits ==
  \A u \in Users : resync[u].commit # 0 =>
    /\ resync[u].leaf # 0
    /\ resync[u].commit = local[u]
    /\ commits[local[u]].kind = "resync" /\ commits[local[u]].by = u
    /\ TreeOf(local[u])[ownLeaf[u]] = u

(* A resync is made on a state of the DS, and leaves that state behind.    *)
ResyncsPast ==
  \A n \in 1..Len(commits) : commits[n].kind = "resync" =>
    /\ GroupEpoch(commits[n].on) <= GroupEpoch(head)
    /\ GroupEpoch(commits[n].on) < GroupEpoch(local[commits[n].by])

(* Whose copy says that it was removed is not in the group, unless the     *)
(* copy has merged the deletion of the chat.                               *)
RemovedIsOut ==
  \A u \in Users : u \notin ToSet(TreeOf(local[u])) /\ u \notin deleted => ~InGroup(u)

(* A member whose copy is not excused from following the group.            *)
Following(u) == InGroup(u) /\ resync[u] = NoResync /\ u \notin droppedResync \union deleted

(* The i-th message of queue q is a commit that moves a copy from state s  *)
(* on, if not at once.                                                     *)
Moves(q, s, i) ==
  /\ q[i].kind = "commit" /\ commits[q[i].state].kind # "delete"
  /\ GroupEpoch(q[i].state) > GroupEpoch(s)

(* The commits of queue q lead, one on the other, from state s to state h. *)
Chain(q, s, h) ==
  /\ GroupEpoch(s) <= GroupEpoch(h)
  /\ s # h =>
       /\ GroupEpoch(s) < GroupEpoch(h)
       /\ \E i \in 1..Len(q) : Moves(q, s, i) /\ q[i].state = h
  /\ \A i \in 1..Len(q) : Moves(q, s, i) =>
       \/ commits[q[i].state].on = s
       \/ \E j \in 1..(i - 1) : Moves(q, s, j) /\ q[j].state = commits[q[i].state].on
  /\ \A i, j \in 1..Len(q) :
       /\ Moves(q, s, i) /\ Moves(q, s, j)
       /\ GroupEpoch(q[i].state) = GroupEpoch(q[j].state)
       => i = j

\* The queue of a member who follows leads its copy to the state of the group.
ChainsFit == \A u \in Users : Following(u) => Chain(inbox[u], local[u], head)

(* The proposal for leaf l on state h is stored in a copy that has state s *)
(* and proposals kn, or comes in queue q after the commit that leads to h. *)
Comes(q, s, h, kn, l) ==
  \/ s = h /\ l \in kn
  \/ \E k \in 1..Len(q) :
       /\ q[k].kind = "leave" /\ q[k].state = h /\ q[k].leaf = l
       /\ s = h \/ \E i \in 1..(k - 1) : Moves(q, s, i) /\ q[i].state = h

(* The proposals of the others come to every follower.                     *)
ProposalsCome ==
  \A u \in Users : Following(u) =>
    \A l \in proposed : TreeOf(head)[l] # u
      => Comes(inbox[u], local[u], head, known[u], l)

(* The parts that say what there is, without the promises.                 *)
MembershipInv ==
  /\ MembershipTyped /\ CommitsFit /\ ProfilesFit /\ ProposalsFit /\ MessagesFit /\ OwnLeafFits
  /\ OperationFits /\ ResyncFits /\ ResyncsPast /\ RemovedIsOut

(* A leave that was asked for is left to try, or known to the DS.          *)
LeaveKnown ==
  \A u \in asked \ (forgotten \union deleted) :
    InGroup(u) => operation[u].kind = "leave" \/ u \in outsiders

(* The inductive invariant.                                                *)
FullInv == MembershipInv /\ LeaveKnown /\ ChainsFit /\ ProposalsCome

-----------------------------------------------------------------------------
(***************************************************************************)
(* Lemmas about the queues.                                                *)
(***************************************************************************)

(* Queue r is queue q with message x at its end.                           *)
Longer(q, x, r) ==
  /\ Len(q) \in Nat /\ Len(r) = Len(q) + 1
  /\ \A i \in 1..Len(q) : r[i] = q[i]
  /\ r[Len(q) + 1] = x

(* Queue r is queue q without its first message.                           *)
Shorter(q, r) ==
  /\ Len(r) \in Nat /\ Len(q) = Len(r) + 1
  /\ \A i \in 1..Len(r) : r[i] = q[i + 1]

(* Appending makes a queue longer.                                         *)
LEMMA AppendIsLonger ==
  ASSUME NEW q \in Seq(Message), NEW x \in Message
  PROVE  Append(q, x) \in Seq(Message) /\ Longer(q, x, Append(q, x))
  BY AppendProperties DEF Longer

(* Taking the first message makes it shorter.                              *)
LEMMA TailIsShorter ==
  ASSUME NEW q \in Seq(Message), q # <<>>
  PROVE  /\ Tail(q) \in Seq(Message) /\ Shorter(q, Tail(q))
         /\ Head(q) = q[1] /\ Head(q) \in Message
<1>1. Tail(q) \in Seq(Message) /\ Len(Tail(q)) = Len(q) - 1 /\ Head(q) \in Message
  BY HeadTailProperties
<1>2. \A i \in 1..Len(Tail(q)) : Tail(q)[i] = q[i + 1]
  BY HeadTailProperties
<1>3. Len(Tail(q)) \in Nat /\ Len(q) \in Nat
  BY <1>1
<1>4. Len(q) = Len(Tail(q)) + 1
  <2> DEFINE k == Len(Tail(q))
  <2>1. k = Len(q) - 1 /\ Len(q) \in Nat
    BY <1>1, <1>3
  <2> HIDE DEF k
  <2>2. Len(q) = k + 1
    BY <2>1
  <2> QED BY <2>2 DEF k
<1>5. Head(q) = q[1]
  OBVIOUS
<1> QED BY <1>1, <1>2, <1>3, <1>4, <1>5 DEF Shorter

(* The epochs of the states in a queue are numbers.                        *)
QueueEpochs(q) ==
  \A i \in 1..Len(q) : q[i].kind = "commit" => GroupEpoch(q[i].state) \in Nat

(* The commit that makes a new state h' of the group continues the chain.  *)
LEMMA ChainContinued ==
  ASSUME NEW q, NEW x, NEW r, Longer(q, x, r), NEW s, NEW h, Chain(q, s, h), QueueEpochs(q),
         x.kind = "commit", commits[x.state].kind # "delete", commits[x.state].on = h,
         GroupEpoch(s) \in Nat, GroupEpoch(h) \in Nat,
         GroupEpoch(x.state) = GroupEpoch(h) + 1,
         \A i \in 1..Len(q) : q[i].kind = "commit" /\ commits[q[i].state].kind # "delete"
                                => GroupEpoch(q[i].state) <= GroupEpoch(h)
  PROVE  Chain(r, s, x.state)
<1> DEFINE k == Len(q)
           n == x.state
<1>1. k \in Nat /\ Len(r) = k + 1 /\ r[k + 1] = x
  BY DEF Longer
<1>2. \A i \in 1..k : r[i] = q[i] /\ (Moves(r, s, i) <=> Moves(q, s, i))
  BY DEF Longer, Moves
<1>3. Moves(r, s, k + 1) /\ r[k + 1].state = n
  BY <1>1 DEF Moves, Chain
<1>4. GroupEpoch(s) < GroupEpoch(n)
  BY DEF Chain
<1>5. ASSUME NEW i \in 1..Len(r), Moves(r, s, i)
      PROVE  \/ commits[r[i].state].on = s
             \/ \E j \in 1..(i - 1) : Moves(r, s, j) /\ r[j].state = commits[r[i].state].on
  <2>1. CASE i \in 1..k
    <3>1. r[i] = q[i] /\ Moves(q, s, i)
      BY <1>2, <1>5, <2>1
    <3>2. \/ commits[q[i].state].on = s
          \/ \E j \in 1..(i - 1) : Moves(q, s, j) /\ q[j].state = commits[q[i].state].on
      BY <2>1, <3>1 DEF Chain
    <3>3. \A j \in 1..(i - 1) : j \in 1..k
      BY <1>1, <2>1
    <3> QED BY <1>2, <3>1, <3>2, <3>3
  <2>2. CASE i = k + 1
    BY <1>1, <1>2, <2>2 DEF Chain
  <2> QED BY <1>1, <2>1, <2>2
<1>6. ASSUME NEW i \in 1..Len(r), NEW j \in 1..Len(r), Moves(r, s, i), Moves(r, s, j),
             GroupEpoch(r[i].state) = GroupEpoch(r[j].state)
      PROVE  i = j
  <2>1. \A l \in 1..k : Moves(r, s, l) => GroupEpoch(r[l].state) < GroupEpoch(n)
    BY <1>2 DEF Moves, QueueEpochs
  <2>2. CASE i \in 1..k /\ j \in 1..k
    BY <1>2, <1>6, <2>2 DEF Chain
  <2>3. CASE i = k + 1 \/ j = k + 1
    BY <1>1, <1>6, <2>1, <2>3
  <2> QED BY <1>1, <2>2, <2>3
<1> QED BY <1>1, <1>3, <1>4, <1>5, <1>6 DEF Chain

(* A message that is not such a commit leaves the chain as it is.          *)
LEMMA ChainLonger ==
  ASSUME NEW q, NEW x, NEW r, Longer(q, x, r), NEW s, NEW h, Chain(q, s, h),
         x.kind = "leave" \/ commits[x.state].kind = "delete"
  PROVE  Chain(r, s, h)
<1> DEFINE k == Len(q)
<1>1. k \in Nat /\ Len(r) = k + 1 /\ r[k + 1] = x
  BY DEF Longer
<1>2. \A i \in 1..k : r[i] = q[i] /\ (Moves(r, s, i) <=> Moves(q, s, i))
  BY DEF Longer, Moves
<1>3. ~Moves(r, s, k + 1)
  BY <1>1 DEF Moves
<1>4. \A i \in 1..Len(r) : Moves(r, s, i) => i \in 1..k
  BY <1>1, <1>3
<1> QED BY <1>1, <1>2, <1>4 DEF Chain

(* So does a message at the front that does not move the copy.             *)
LEMMA ChainShorter ==
  ASSUME NEW q, NEW r, Shorter(q, r), NEW s, NEW h, Chain(q, s, h), ~Moves(q, s, 1)
  PROVE  Chain(r, s, h)
<1> DEFINE k == Len(r)
<1>1. k \in Nat /\ Len(q) = k + 1
  BY DEF Shorter
<1>2. \A i \in 1..k : r[i] = q[i + 1] /\ (Moves(r, s, i) <=> Moves(q, s, i + 1))
  BY DEF Shorter, Moves
<1>3. \A i \in 1..(k + 1) : Moves(q, s, i) => i - 1 \in 1..k /\ i = (i - 1) + 1
  BY <1>1
<1>4. ASSUME s # h PROVE \E i \in 1..k : Moves(r, s, i) /\ r[i].state = h
  <2>1. PICK i \in 1..(k + 1) : Moves(q, s, i) /\ q[i].state = h
    BY <1>1, <1>4 DEF Chain
  <2>2. i - 1 \in 1..k /\ i = (i - 1) + 1
    BY <1>3, <2>1
  <2> QED BY <1>2, <2>1, <2>2
<1>5. ASSUME NEW i \in 1..k, Moves(r, s, i)
      PROVE  \/ commits[r[i].state].on = s
             \/ \E j \in 1..(i - 1) : Moves(r, s, j) /\ r[j].state = commits[r[i].state].on
  <2>1. i + 1 \in 1..(k + 1) /\ Moves(q, s, i + 1) /\ r[i] = q[i + 1]
    BY <1>1, <1>2, <1>5
  <2>2. CASE commits[q[i + 1].state].on = s
    BY <2>1, <2>2
  <2>3. CASE \E j \in 1..((i + 1) - 1) :
               Moves(q, s, j) /\ q[j].state = commits[q[i + 1].state].on
    <3>1. PICK j \in 1..i : Moves(q, s, j) /\ q[j].state = commits[q[i + 1].state].on
      BY <2>3
    <3>2. j - 1 \in 1..(i - 1) /\ j - 1 \in 1..k /\ j = (j - 1) + 1
      BY <1>1, <1>3, <3>1
    <3> QED BY <1>2, <2>1, <3>1, <3>2
  <2> QED BY <1>1, <2>1, <2>2, <2>3 DEF Chain
<1>6. ASSUME NEW i \in 1..k, NEW j \in 1..k, Moves(r, s, i), Moves(r, s, j),
             GroupEpoch(r[i].state) = GroupEpoch(r[j].state)
      PROVE  i = j
  <2>1. i + 1 \in 1..Len(q) /\ j + 1 \in 1..Len(q)
    BY <1>1
  <2>2. i + 1 = j + 1
    BY <1>2, <1>6, <2>1 DEF Chain
  <2> QED BY <2>2
<1> QED BY <1>4, <1>5, <1>6 DEF Chain

(* The first message of a chain moves the copy at once.                    *)
LEMMA ChainHead ==
  ASSUME NEW q, NEW r, Shorter(q, r), NEW s, NEW h, Chain(q, s, h), Moves(q, s, 1)
  PROVE  commits[q[1].state].on = s
<1>1. 1 \in 1..Len(q)
  BY DEF Shorter
<1>2. ~\E j \in 1..(1 - 1) : TRUE
  OBVIOUS
<1> QED BY <1>1, <1>2 DEF Chain

(* When a copy merges the first message, the same messages move it         *)
(* further.                                                                *)
LEMMA MovesFollowed ==
  ASSUME NEW q, NEW r, Shorter(q, r), NEW s, NEW h, Chain(q, s, h), QueueEpochs(q),
         Moves(q, s, 1), GroupEpoch(s) \in Nat, GroupEpoch(h) \in Nat,
         \A i \in 1..Len(q) : q[i].kind = "commit" /\ commits[q[i].state].kind # "delete" =>
           /\ GroupEpoch(q[i].state) <= GroupEpoch(h)
           /\ GroupEpoch(q[i].state) = GroupEpoch(commits[q[i].state].on) + 1,
         commits[q[1].state].on = s
  PROVE  /\ Len(r) \in Nat /\ Len(q) = Len(r) + 1
         /\ GroupEpoch(q[1].state) = GroupEpoch(s) + 1 /\ GroupEpoch(q[1].state) <= GroupEpoch(h)
         /\ \A i \in 1..Len(r) :
              /\ i + 1 \in 1..Len(q) /\ i + 1 # 1 /\ r[i] = q[i + 1]
              /\ Moves(r, q[1].state, i) <=> Moves(q, s, i + 1)
<1> DEFINE k == Len(r)
           n == q[1].state
<1>1. k \in Nat /\ Len(q) = k + 1 /\ 1 \in 1..Len(q)
  BY DEF Shorter
<1>2. /\ GroupEpoch(n) = GroupEpoch(s) + 1 /\ GroupEpoch(n) \in Nat
      /\ GroupEpoch(n) <= GroupEpoch(h)
  BY <1>1 DEF Moves
<1>3. \A i \in 1..k : i + 1 \in 1..Len(q) /\ i + 1 # 1 /\ r[i] = q[i + 1]
  BY <1>1 DEF Shorter
<1>4. \A i \in 1..k : Moves(r, n, i) => Moves(q, s, i + 1)
  BY <1>2, <1>3 DEF Moves, QueueEpochs
<1>5. \A i \in 1..k : Moves(q, s, i + 1) => Moves(r, n, i)
  <2> SUFFICES ASSUME NEW i \in 1..k, Moves(q, s, i + 1) PROVE Moves(r, n, i)
    OBVIOUS
  <2>1. GroupEpoch(q[i + 1].state) # GroupEpoch(n)
    BY <1>1, <1>3 DEF Chain
  <2>2. GroupEpoch(q[i + 1].state) \in Nat /\ GroupEpoch(q[i + 1].state) > GroupEpoch(s)
    BY <1>3 DEF Moves, QueueEpochs
  <2>3. GroupEpoch(r[i].state) > GroupEpoch(n)
    BY <1>2, <1>3, <2>1, <2>2
  <2> QED BY <1>3, <2>3 DEF Moves
<1> QED BY <1>1, <1>2, <1>3, <1>4, <1>5

(* A copy that merges the first message follows the rest of the chain.     *)
LEMMA ChainFollowed ==
  ASSUME NEW q, NEW r, Shorter(q, r), NEW s, NEW h, Chain(q, s, h), QueueEpochs(q),
         Moves(q, s, 1), GroupEpoch(s) \in Nat, GroupEpoch(h) \in Nat,
         \A i \in 1..Len(q) : q[i].kind = "commit" /\ commits[q[i].state].kind # "delete" =>
           /\ GroupEpoch(q[i].state) <= GroupEpoch(h)
           /\ GroupEpoch(q[i].state) = GroupEpoch(commits[q[i].state].on) + 1,
         commits[q[1].state].on = s
  PROVE  Chain(r, q[1].state, h)
<1> DEFINE k == Len(r)
           n == q[1].state
<1>1. k \in Nat /\ Len(q) = k + 1
  BY MovesFollowed
<1>2. GroupEpoch(n) = GroupEpoch(s) + 1 /\ GroupEpoch(n) <= GroupEpoch(h)
  BY MovesFollowed
<1>3. \A i \in 1..k : i + 1 \in 1..Len(q) /\ i + 1 # 1 /\ r[i] = q[i + 1]
  BY MovesFollowed
<1>4. \A i \in 1..k : Moves(r, n, i) => Moves(q, s, i + 1)
  BY MovesFollowed
<1>5. \A i \in 1..k : Moves(q, s, i + 1) => Moves(r, n, i)
  BY MovesFollowed
<1>6. \A i \in 1..Len(q) : i = 1 \/ (i - 1 \in 1..k /\ i = (i - 1) + 1)
  BY <1>1
<1>7. s # h
  BY <1>2
<1>8. n # h => /\ GroupEpoch(n) < GroupEpoch(h)
               /\ \E i \in 1..k : Moves(r, n, i) /\ r[i].state = h
  <2> SUFFICES ASSUME n # h
               PROVE  /\ GroupEpoch(n) < GroupEpoch(h)
                      /\ \E i \in 1..k : Moves(r, n, i) /\ r[i].state = h
    OBVIOUS
  <2>1. PICK i \in 1..Len(q) : Moves(q, s, i) /\ q[i].state = h
    BY <1>7 DEF Chain
  <2>2. i - 1 \in 1..k /\ i = (i - 1) + 1
    BY <1>6, <2>1
  <2>3. Moves(r, n, i - 1) /\ r[i - 1].state = h
    BY <1>3, <1>5, <2>1, <2>2
  <2>4. GroupEpoch(n) < GroupEpoch(h)
    BY <2>3 DEF Moves
  <2> QED BY <2>2, <2>3, <2>4
<1>9. ASSUME NEW i \in 1..k, Moves(r, n, i)
      PROVE  \/ commits[r[i].state].on = n
             \/ \E j \in 1..(i - 1) : Moves(r, n, j) /\ r[j].state = commits[r[i].state].on
  <2>1. Moves(q, s, i + 1) /\ r[i] = q[i + 1] /\ i + 1 \in 1..Len(q)
    BY <1>3, <1>4, <1>9
  <2>2. commits[q[i + 1].state].on # s
    <3>1. /\ GroupEpoch(q[i + 1].state) > GroupEpoch(n) /\ GroupEpoch(q[i + 1].state) \in Nat
          /\ GroupEpoch(q[i + 1].state) = GroupEpoch(commits[q[i + 1].state].on) + 1
      BY <1>9, <2>1 DEF Moves, QueueEpochs
    <3> QED BY <1>2, <3>1
  <2>3. PICK j \in 1..((i + 1) - 1) :
          Moves(q, s, j) /\ q[j].state = commits[q[i + 1].state].on
    BY <2>1, <2>2 DEF Chain
  <2>4. CASE j = 1
    BY <2>1, <2>3, <2>4
  <2>5. CASE j # 1
    <3>1. j - 1 \in 1..(i - 1) /\ j - 1 \in 1..k /\ j = (j - 1) + 1
      BY <1>1, <2>3, <2>5
    <3>2. Moves(r, n, j - 1) /\ r[j - 1].state = commits[r[i].state].on
      BY <1>3, <1>5, <2>1, <2>3, <3>1
    <3> QED BY <3>1, <3>2
  <2> QED BY <2>4, <2>5
<1>10. ASSUME NEW i \in 1..k, NEW j \in 1..k, Moves(r, n, i), Moves(r, n, j),
              GroupEpoch(r[i].state) = GroupEpoch(r[j].state)
       PROVE  i = j
  <2>1. i + 1 = j + 1
    BY <1>3, <1>4, <1>10 DEF Chain
  <2> QED BY <2>1
<1> QED BY <1>2, <1>8, <1>9, <1>10 DEF Chain

(* A proposal still comes when the queue gets longer.                      *)
LEMMA ComesLonger ==
  ASSUME NEW q, NEW x, NEW r, Longer(q, x, r), NEW s, NEW h, NEW kn, NEW l,
         Comes(q, s, h, kn, l)
  PROVE  Comes(r, s, h, kn, l)
<1> DEFINE k == Len(q)
<1>1. k \in Nat /\ Len(r) = k + 1
  BY DEF Longer
<1>2. \A i \in 1..k : i \in 1..Len(r) /\ r[i] = q[i] /\ (Moves(r, s, i) <=> Moves(q, s, i))
  BY <1>1 DEF Longer, Moves
<1>3. CASE s = h /\ l \in kn
  BY <1>3 DEF Comes
<1>4. ASSUME NEW j \in 1..k, q[j].kind = "leave", q[j].state = h, q[j].leaf = l,
             s = h \/ \E i \in 1..(j - 1) : Moves(q, s, i) /\ q[i].state = h
      PROVE  Comes(r, s, h, kn, l)
  <2>1. j \in 1..Len(r) /\ r[j].kind = "leave" /\ r[j].state = h /\ r[j].leaf = l
    BY <1>2, <1>4
  <2>2. \A i \in 1..(j - 1) : i \in 1..k
    BY <1>1
  <2>3. s = h \/ \E i \in 1..(j - 1) : Moves(r, s, i) /\ r[i].state = h
    BY <1>2, <1>4, <2>2
  <2> QED BY <2>1, <2>3 DEF Comes
<1> QED BY <1>3, <1>4 DEF Comes

(* A new proposal for the state of the group comes.                        *)
LEMMA ComesNew ==
  ASSUME NEW q, NEW x, NEW r, Longer(q, x, r), NEW s, NEW h, NEW kn, Chain(q, s, h),
         x.kind = "leave", x.state = h
  PROVE  Comes(r, s, h, kn, x.leaf)
<1> DEFINE k == Len(q)
<1>1. k \in Nat /\ k + 1 \in 1..Len(r) /\ r[k + 1] = x /\ (k + 1) - 1 = k
  BY DEF Longer
<1>2. \A i \in 1..k : r[i] = q[i] /\ (Moves(r, s, i) <=> Moves(q, s, i))
  BY DEF Longer, Moves
<1>3. s = h \/ \E i \in 1..((k + 1) - 1) : Moves(r, s, i) /\ r[i].state = h
  BY <1>1, <1>2 DEF Chain
<1> QED BY <1>1, <1>3 DEF Comes

(* A proposal that was the first message is stored; the others come still. *)
LEMMA ComesShorter ==
  ASSUME NEW q, NEW r, Shorter(q, r), NEW s, NEW h, NEW kn, NEW kn2, NEW l,
         Comes(q, s, h, kn, l), ~Moves(q, s, 1), kn \subseteq kn2,
         q[1].kind = "leave" /\ q[1].state = s => q[1].leaf \in kn2
  PROVE  Comes(r, s, h, kn2, l)
<1> DEFINE k == Len(r)
<1>1. k \in Nat /\ Len(q) = k + 1
  BY DEF Shorter
<1>2. \A i \in 1..k : r[i] = q[i + 1] /\ (Moves(r, s, i) <=> Moves(q, s, i + 1))
  BY DEF Shorter, Moves
<1>3. CASE s = h /\ l \in kn
  BY <1>3 DEF Comes
<1>4. ASSUME NEW j \in 1..Len(q), q[j].kind = "leave", q[j].state = h, q[j].leaf = l,
             s = h \/ \E i \in 1..(j - 1) : Moves(q, s, i) /\ q[i].state = h
      PROVE  Comes(r, s, h, kn2, l)
  <2>1. CASE j = 1
    <3>1. s = h
      BY <1>4, <2>1
    <3> QED BY <1>4, <2>1, <3>1 DEF Comes
  <2>2. CASE j # 1
    <3>1. j - 1 \in 1..k /\ j = (j - 1) + 1
      BY <1>1, <2>2
    <3>2. r[j - 1].kind = "leave" /\ r[j - 1].state = h /\ r[j - 1].leaf = l
      BY <1>2, <1>4, <3>1
    <3>3. ASSUME NEW i \in 1..(j - 1), Moves(q, s, i), q[i].state = h
          PROVE  \E m \in 1..((j - 1) - 1) : Moves(r, s, m) /\ r[m].state = h
      <4>1. i # 1
        BY <3>3
      <4>2. i - 1 \in 1..((j - 1) - 1) /\ i - 1 \in 1..k /\ i = (i - 1) + 1
        BY <1>1, <4>1
      <4> QED BY <1>2, <3>3, <4>2
    <3>4. s = h \/ \E m \in 1..((j - 1) - 1) : Moves(r, s, m) /\ r[m].state = h
      BY <1>4, <3>3
    <3> QED BY <3>1, <3>2, <3>4 DEF Comes
  <2> QED BY <2>1, <2>2
<1> QED BY <1>3, <1>4 DEF Comes

(* A proposal comes still to a copy that merges the first message.         *)
LEMMA ComesFollowed ==
  ASSUME NEW q, NEW r, Shorter(q, r), NEW s, NEW h, NEW kn, NEW l, Chain(q, s, h),
         QueueEpochs(q), Moves(q, s, 1), GroupEpoch(s) \in Nat, GroupEpoch(h) \in Nat,
         \A i \in 1..Len(q) : q[i].kind = "commit" /\ commits[q[i].state].kind # "delete" =>
           /\ GroupEpoch(q[i].state) <= GroupEpoch(h)
           /\ GroupEpoch(q[i].state) = GroupEpoch(commits[q[i].state].on) + 1,
         commits[q[1].state].on = s, Comes(q, s, h, kn, l)
  PROVE  Comes(r, q[1].state, h, {}, l)
<1> DEFINE k == Len(r)
           n == q[1].state
<1>1. k \in Nat /\ Len(q) = k + 1
  BY MovesFollowed
<1>2. GroupEpoch(n) = GroupEpoch(s) + 1 /\ GroupEpoch(n) <= GroupEpoch(h)
  BY MovesFollowed
<1>3. \A i \in 1..k : r[i] = q[i + 1] /\ (Moves(r, n, i) <=> Moves(q, s, i + 1))
  BY MovesFollowed
<1>4. s # h
  BY <1>2
<1>5. PICK j \in 1..Len(q) :
        /\ q[j].kind = "leave" /\ q[j].state = h /\ q[j].leaf = l
        /\ \E i \in 1..(j - 1) : Moves(q, s, i) /\ q[i].state = h
  BY <1>4 DEF Comes
<1>6. PICK i \in 1..(j - 1) : Moves(q, s, i) /\ q[i].state = h
  BY <1>5
<1>7. j - 1 \in 1..k /\ j = (j - 1) + 1
  BY <1>1, <1>6
<1>8. r[j - 1].kind = "leave" /\ r[j - 1].state = h /\ r[j - 1].leaf = l
  BY <1>3, <1>5, <1>7
<1>9. CASE i = 1
  BY <1>6, <1>7, <1>8, <1>9 DEF Comes
<1>10. CASE i # 1
  <2>1. i - 1 \in 1..((j - 1) - 1) /\ i - 1 \in 1..k /\ i = (i - 1) + 1
    BY <1>1, <1>10
  <2>2. Moves(r, n, i - 1) /\ r[i - 1].state = h
    BY <1>3, <1>6, <2>1
  <2> QED BY <1>7, <1>8, <2>1, <2>2 DEF Comes
<1> QED BY <1>9, <1>10

-----------------------------------------------------------------------------
(***************************************************************************)
(* Lemmas about the states of the group.                                   *)
(***************************************************************************)

(* The first tree.                                                         *)
LEMMA FirstTree ==
  /\ Nobody \notin Users
  /\ FirstMembers \in Trees
  /\ Leaves = 1..Len(FirstMembers) /\ Len(FirstMembers) \in Nat
  /\ OneLeafEach(FirstMembers)
  /\ \A l \in Leaves : FirstMembers[l] \in Users
  /\ \A u \in Users : \E l \in Leaves : FirstMembers[l] = u
<1>1. FirstMembers \in Seq(Users \ {Nobody})
  BY MembershipAssumption DEF Users
<1>2. Leaves = 1..Len(FirstMembers) /\ Len(FirstMembers) \in Nat
  BY <1>1 DEF Leaves
<1>3. \A l \in Leaves : FirstMembers[l] \in Users \ {Nobody}
  BY <1>1, <1>2
<1>4. \A u \in Users : \E l \in Leaves : FirstMembers[l] = u
  BY DEF Users, Leaves, ToSet
<1>5. FirstMembers \in Trees
  BY <1>1, <1>2, <1>3 DEF Trees
<1>6. OneLeafEach(FirstMembers)
  BY MembershipAssumption DEF OneLeafEach, Leaves
<1> QED BY <1>2, <1>3, <1>4, <1>5, <1>6

(* Every commit has a type, an earlier state and a tree.                   *)
LEMMA CommitFacts ==
  ASSUME MembershipTyped, CommitsFit, NEW n \in States, n # 0
  PROVE  /\ n \in 1..Len(commits) /\ commits[n] \in Commit /\ CommitFits(n)
         /\ TreeOf(n) = commits[n].tree /\ GroupEpoch(n) = commits[n].epoch
         /\ commits[n].on \in States
<1>1. Len(commits) \in Nat /\ n \in 1..Len(commits)
  BY DEF MembershipTyped, States
<1>2. commits[n] \in Commit
  BY <1>1 DEF MembershipTyped
<1>3. CommitFits(n)
  BY <1>1 DEF CommitsFit
<1>4. commits[n].on \in Nat /\ commits[n].on < n
  BY <1>2, <1>3 DEF Commit, CommitFits
<1>5. commits[n].on \in States
  BY <1>1, <1>4 DEF States
<1> QED BY <1>1, <1>2, <1>3, <1>5 DEF TreeOf, GroupEpoch

(* Every state has a tree, with nobody on two leaves, and an epoch.        *)
LEMMA StateFacts ==
  ASSUME MembershipTyped, CommitsFit, NEW n \in States
  PROVE  TreeOf(n) \in Trees /\ OneLeafEach(TreeOf(n)) /\ GroupEpoch(n) \in Nat
<1>1. CASE n = 0
  BY <1>1, FirstTree DEF TreeOf, GroupEpoch
<1>2. CASE n # 0
  <2>1. /\ commits[n] \in Commit /\ CommitFits(n)
        /\ TreeOf(n) = commits[n].tree /\ GroupEpoch(n) = commits[n].epoch
    BY <1>2, CommitFacts
  <2> QED BY <2>1 DEF Commit, CommitFits
<1> QED BY <1>1, <1>2

(* Who is in a tree is on a leaf of it.                                    *)
LEMMA InTree ==
  ASSUME NEW t \in Trees, NEW u
  PROVE  u \in ToSet(t) <=> \E l \in Leaves : t[l] = u
  BY DEF ToSet, Trees

(* While no commit is made, what is said of the states does not change.    *)
LEMMA SameStates ==
  ASSUME UNCHANGED commits
  PROVE  /\ States' = States
         /\ \A n : TreeOf(n)' = TreeOf(n) /\ GroupEpoch(n)' = GroupEpoch(n)
         /\ \A q, s, h : Chain(q, s, h)' <=> Chain(q, s, h)
         /\ \A q, s, h, kn, l : Comes(q, s, h, kn, l)' <=> Comes(q, s, h, kn, l)
<1>1. States' = States
  BY DEF States
<1>2. \A n : TreeOf(n)' = TreeOf(n) /\ GroupEpoch(n)' = GroupEpoch(n)
  BY DEF TreeOf, GroupEpoch
<1>3. \A q, s, i : Moves(q, s, i)' <=> Moves(q, s, i)
  BY <1>2 DEF Moves
<1>4. \A q, s, h : Chain(q, s, h)' <=> Chain(q, s, h)
  BY <1>2, <1>3 DEF Chain
<1>5. \A q, s, h, kn, l : Comes(q, s, h, kn, l)' <=> Comes(q, s, h, kn, l)
  BY <1>3 DEF Comes
<1> QED BY <1>1, <1>2, <1>4, <1>5

(* The epochs of a queue are numbers, and of commits that were accepted.   *)
LEMMA QueueFacts ==
  ASSUME MembershipInv, NEW u \in Users
  PROVE  /\ inbox[u] \in Seq(Message) /\ QueueEpochs(inbox[u])
         /\ \A i \in 1..Len(inbox[u]) :
              /\ inbox[u][i] \in Message /\ MessageFits(inbox[u][i])
              /\ inbox[u][i].kind = "commit" /\ commits[inbox[u][i].state].kind # "delete" =>
                   /\ GroupEpoch(inbox[u][i].state) <= GroupEpoch(head)
                   /\ GroupEpoch(inbox[u][i].state)
                        = GroupEpoch(commits[inbox[u][i].state].on) + 1
<1> USE DEF MembershipInv
<1>1. inbox[u] \in Seq(Message)
  BY DEF MembershipTyped
<1>2. \A i \in 1..Len(inbox[u]) : inbox[u][i] \in Message /\ MessageFits(inbox[u][i])
  BY <1>1 DEF MessagesFit
<1>3. ASSUME NEW i \in 1..Len(inbox[u]), inbox[u][i].kind = "commit"
      PROVE  /\ GroupEpoch(inbox[u][i].state) \in Nat
             /\ GroupEpoch(inbox[u][i].state) = GroupEpoch(commits[inbox[u][i].state].on) + 1
  <2> DEFINE n == inbox[u][i].state
  <2>1. n \in States /\ n # 0
    BY <1>2, <1>3 DEF MessageFits
  <2>2. CommitFits(n) /\ GroupEpoch(n) = commits[n].epoch
    BY <2>1, CommitFacts
  <2>3. GroupEpoch(n) \in Nat
    BY <2>1, StateFacts
  <2> QED BY <2>2, <2>3 DEF CommitFits
<1>4. \A i \in 1..Len(inbox[u]) :
        inbox[u][i].kind = "commit" /\ commits[inbox[u][i].state].kind # "delete" =>
          GroupEpoch(inbox[u][i].state) <= GroupEpoch(head)
  BY <1>2 DEF MessageFits, Accepted
<1> QED BY <1>1, <1>2, <1>3, <1>4 DEF QueueEpochs

(* The group begins with everyone in it and everything in order.           *)
LEMMA FullInvInit == MembershipInit => FullInv
<1> SUFFICES ASSUME MembershipInit PROVE FullInv
  OBVIOUS
<1> USE DEF MembershipInit
<1>1. Len(commits) = 0 /\ States = {0} /\ commits \in Seq(Commit)
  BY DEF States
<1>2. TreeOf(0) = FirstMembers /\ GroupEpoch(0) = 0 /\ TreeOf(head) = FirstMembers
  BY DEF TreeOf, GroupEpoch
<1>3. ownLeaf \in [Users -> Leaves] /\ \A u \in Users : FirstMembers[ownLeaf[u]] = u
  BY FirstTree
<1>4. MembershipTyped
  BY <1>1, <1>3, FirstTree DEF MembershipTyped, NoRow, NoResync, Row, ResyncRow
<1>5. \A u \in Users : inbox[u] = <<>> /\ Len(inbox[u]) = 0 /\ local[u] = 0
  OBVIOUS
<1>6. CommitsFit /\ ProfilesFit /\ ProposalsFit /\ MessagesFit
  <2>1. CommitsFit
    BY <1>1 DEF CommitsFit
  <2>2. ProfilesFit
    BY <1>2 DEF ProfilesFit
  <2>3. ProposalsFit
    BY DEF ProposalsFit
  <2>4. MessagesFit
    BY <1>5 DEF MessagesFit
  <2> QED BY <2>1, <2>2, <2>3, <2>4
<1>7. OwnLeafFits /\ OperationFits /\ ResyncFits /\ ResyncsPast
  <2>1. OwnLeafFits
    BY <1>2, <1>3, <1>5 DEF OwnLeafFits
  <2>2. \A u \in Users : operation[u].kind = "none" /\ resync[u].commit = 0
    BY DEF NoRow, NoResync
  <2>3. OperationFits /\ ResyncFits
    BY <2>2 DEF OperationFits, ResyncFits
  <2>4. ResyncsPast
    BY <1>1 DEF ResyncsPast
  <2> QED BY <2>1, <2>3, <2>4
<1>8. RemovedIsOut
  BY <1>2, <1>5, FirstTree, InTree DEF RemovedIsOut
<1>9. LeaveKnown
  BY DEF LeaveKnown
<1>10. ChainsFit
  BY <1>2, <1>5 DEF ChainsFit, Chain
<1>11. ProposalsCome
  BY DEF ProposalsCome
<1> QED BY <1>4, <1>6, <1>7, <1>8, <1>9, <1>10, <1>11 DEF FullInv, MembershipInv

-----------------------------------------------------------------------------
(***************************************************************************)
(* Steps that change rows only.                                            *)
(***************************************************************************)

(* What has to be shown of a step that changes no more than the rows of    *)
(* the operations and the resyncs.                                         *)
LEMMA RowsOnly ==
  ASSUME FullInv, UNCHANGED <<commits, groupStateVars, inbox, local, ownLeaf, known, deleted>>,
         operation' \in [Users -> Row], resync' \in [Users -> ResyncRow],
         asked' \subseteq Users, OperationFits', ResyncFits', LeaveKnown',
         \A u \in Users : Following(u)' => Following(u)
  PROVE  FullInv'
<1> USE DEF FullInv, MembershipInv, groupStateVars
<1>1. /\ States' = States
      /\ \A n : TreeOf(n)' = TreeOf(n) /\ GroupEpoch(n)' = GroupEpoch(n)
      /\ \A q, s, h : Chain(q, s, h)' <=> Chain(q, s, h)
      /\ \A q, s, h, kn, l : Comes(q, s, h, kn, l)' <=> Comes(q, s, h, kn, l)
  BY SameStates
<1>2. MembershipTyped'
  BY <1>1 DEF MembershipTyped
<1>3. CommitsFit'
  BY <1>1 DEF CommitsFit, CommitFits
<1>4. ProfilesFit' /\ ProposalsFit' /\ OwnLeafFits' /\ RemovedIsOut'
  BY <1>1 DEF ProfilesFit, ProposalsFit, OwnLeafFits, RemovedIsOut, InGroup
<1>5. MessagesFit'
  BY <1>1 DEF MessagesFit, MessageFits, Accepted
<1>6. ResyncsPast'
  BY <1>1 DEF ResyncsPast
<1>7. ChainsFit' /\ ProposalsCome'
  BY <1>1 DEF ChainsFit, ProposalsCome
<1> QED BY <1>2, <1>3, <1>4, <1>5, <1>6, <1>7

(* DeleteAlone changes none of this, and neither does a step that leaves   *)
(* everything as it is.                                                    *)
LEMMA NothingInv ==
  ASSUME FullInv,
         UNCHANGED <<commits, groupStateVars, inbox, local, ownLeaf, known, rowVars, askedVars>>
  PROVE  FullInv'
<1>1. \A n : TreeOf(n)' = TreeOf(n)
  BY SameStates
<1>2. OperationFits' /\ ResyncFits' /\ LeaveKnown'
  BY <1>1, SameStates DEF FullInv, MembershipInv, OperationFits, ResyncFits, LeaveKnown, InGroup,
                          groupStateVars, rowVars, askedVars
<1>3. \A u \in Users : Following(u)' => Following(u)
  BY <1>1 DEF Following, InGroup, groupStateVars, rowVars, askedVars
<1>4. /\ operation' \in [Users -> Row] /\ resync' \in [Users -> ResyncRow]
      /\ asked' \subseteq Users
  BY DEF FullInv, MembershipInv, MembershipTyped, rowVars, askedVars
<1> QED BY <1>2, <1>3, <1>4, RowsOnly DEF askedVars

-----------------------------------------------------------------------------
(***************************************************************************)
(* Making a commit.                                                        *)
(***************************************************************************)

(* A queue names states of the group.                                      *)
QueueOfStates(q) ==
  \A i \in 1..Len(q) : q[i].state \in States /\ (q[i].kind = "commit" => q[i].state # 0)

(* A new commit changes nothing that is said of the states there are.      *)
LEMMA CommitAdded ==
  ASSUME MembershipTyped, CommitsFit, NEW c \in Commit, commits' = Append(commits, c),
         NEW N, N = Len(commits) + 1
  PROVE  /\ commits' \in Seq(Commit) /\ Len(commits') = N
         /\ N \in States' /\ N \notin States /\ N \in Nat /\ N # 0
         /\ \A n \in States : n \in States' /\ n < N /\ n \in Nat
         /\ \A n \in States' : n = N \/ n \in States
         /\ commits'[N] = c /\ TreeOf(N)' = c.tree /\ GroupEpoch(N)' = c.epoch
         /\ \A n \in 1..Len(commits) : commits'[n] = commits[n]
         /\ \A n \in States : TreeOf(n)' = TreeOf(n) /\ GroupEpoch(n)' = GroupEpoch(n)
<1>1. Len(commits) \in Nat /\ commits \in Seq(Commit)
  BY DEF MembershipTyped
<1>2. commits' \in Seq(Commit) /\ Len(commits') = N /\ commits'[N] = c
  BY <1>1
<1>3. \A n \in 1..Len(commits) : commits'[n] = commits[n]
  BY <1>1
<1>4. N \in States' /\ N \notin States /\ N \in Nat /\ N # 0
  BY <1>1, <1>2 DEF States
<1>5. \A n \in States : n \in States' /\ n < N /\ n \in Nat
  BY <1>1, <1>2 DEF States
<1>6. \A n \in States' : n = N \/ n \in States
  BY <1>1, <1>2 DEF States
<1>7. \A n \in States : TreeOf(n)' = TreeOf(n) /\ GroupEpoch(n)' = GroupEpoch(n)
  <2>1. \A n \in States : n = 0 \/ n \in 1..Len(commits)
    BY <1>1 DEF States
  <2> QED BY <1>3, <2>1 DEF TreeOf, GroupEpoch
<1>8. TreeOf(N)' = c.tree /\ GroupEpoch(N)' = c.epoch
  BY <1>2, <1>4 DEF TreeOf, GroupEpoch
<1> QED BY <1>2, <1>3, <1>4, <1>5, <1>6, <1>7, <1>8

(* Nor anything of a queue.                                                *)
LEMMA CommitAddedQueue ==
  ASSUME MembershipTyped, CommitsFit, NEW c \in Commit, commits' = Append(commits, c),
         NEW q, QueueOfStates(q), NEW s \in States, NEW h \in States
  PROVE  /\ Chain(q, s, h) => Chain(q, s, h)'
         /\ \A kn, l : Comes(q, s, h, kn, l) => Comes(q, s, h, kn, l)'
<1>1. /\ \A n \in 1..Len(commits) : commits'[n] = commits[n]
      /\ \A n \in States : TreeOf(n)' = TreeOf(n) /\ GroupEpoch(n)' = GroupEpoch(n)
  BY CommitAdded
<1>2. Len(commits) \in Nat
  BY DEF MembershipTyped
<1>3. \A i \in 1..Len(q) : q[i].kind = "commit" => commits'[q[i].state] = commits[q[i].state]
  BY <1>1, <1>2 DEF QueueOfStates, States
<1>4. \A i \in 1..Len(q) : GroupEpoch(q[i].state)' = GroupEpoch(q[i].state)
  BY <1>1 DEF QueueOfStates
<1>5. GroupEpoch(s)' = GroupEpoch(s) /\ GroupEpoch(h)' = GroupEpoch(h)
  BY <1>1
<1>6. \A i \in 1..Len(q) : Moves(q, s, i)' <=> Moves(q, s, i)
  <2> SUFFICES ASSUME NEW i \in 1..Len(q) PROVE Moves(q, s, i)' <=> Moves(q, s, i)
    OBVIOUS
  <2>1. CASE q[i].kind = "commit"
    <3>1. commits'[q[i].state] = commits[q[i].state]
      BY <1>3, <2>1
    <3>2. GroupEpoch(q[i].state)' = GroupEpoch(q[i].state)
      BY <1>4
    <3> QED BY <1>5, <3>1, <3>2 DEF Moves
  <2>2. CASE q[i].kind # "commit"
    BY <2>2 DEF Moves
  <2> QED BY <2>1, <2>2
<1>7. \A i \in 1..Len(q) : Moves(q, s, i) => commits'[q[i].state] = commits[q[i].state]
  BY <1>3 DEF Moves
<1>8. \A i \in 1..Len(q) : \A j \in 1..(i - 1) : j \in 1..Len(q)
  BY SMT
<1>9. ASSUME Chain(q, s, h) PROVE Chain(q, s, h)'
  <2>1. /\ (GroupEpoch(s) <= GroupEpoch(h))'
        /\ s # h => /\ (GroupEpoch(s) < GroupEpoch(h))'
                    /\ \E i \in 1..Len(q) : Moves(q, s, i)' /\ q[i].state = h
    BY <1>5, <1>6, <1>9 DEF Chain
  <2>2. ASSUME NEW i \in 1..Len(q), Moves(q, s, i)'
        PROVE  \/ commits'[q[i].state].on = s
               \/ \E j \in 1..(i - 1) : Moves(q, s, j)' /\ q[j].state = commits'[q[i].state].on
    BY <1>6, <1>7, <1>8, <1>9, <2>2 DEF Chain
  <2>3. ASSUME NEW i \in 1..Len(q), NEW j \in 1..Len(q), Moves(q, s, i)', Moves(q, s, j)',
               (GroupEpoch(q[i].state) = GroupEpoch(q[j].state))'
        PROVE  i = j
    BY <1>4, <1>6, <1>9, <2>3 DEF Chain
  <2> QED BY <2>1, <2>2, <2>3 DEF Chain
<1>10. \A kn, l : Comes(q, s, h, kn, l) => Comes(q, s, h, kn, l)'
  BY <1>6, <1>8 DEF Comes
<1> QED BY <1>9, <1>10

(* What a step that makes a commit, and sends nothing, leaves as it is.    *)
LEMMA CommitMade ==
  ASSUME MembershipInv, NEW c \in Commit, commits' = Append(commits, c),
         UNCHANGED <<groupStateVars, inbox>>,
         NEW N, N = Len(commits) + 1, CommitFits(N)'
  PROVE  /\ CommitsFit' /\ ProfilesFit' /\ MessagesFit'
         /\ \A l \in proposed' : TreeOf(head)'[l] \in outsiders'
         /\ TreeOf(head)' = TreeOf(head) /\ GroupEpoch(head)' = GroupEpoch(head)
         /\ head \in States
         /\ \A u : InGroup(u)' <=> InGroup(u)
         /\ \A u \in Users : local[u] \in States /\ QueueOfStates(inbox[u])
<1> USE DEF MembershipInv, groupStateVars
<1>1. /\ N \in States' /\ N \notin States /\ N \in Nat /\ N # 0
      /\ \A n \in States : n \in States' /\ n < N /\ n \in Nat
      /\ \A n \in States' : n = N \/ n \in States
      /\ \A n \in 1..Len(commits) : commits'[n] = commits[n]
      /\ \A n \in States : TreeOf(n)' = TreeOf(n) /\ GroupEpoch(n)' = GroupEpoch(n)
      /\ Len(commits') = N
  BY CommitAdded
<1>2. Len(commits) \in Nat /\ head \in States /\ \A u \in Users : local[u] \in States
  BY DEF MembershipTyped
<1>3. TreeOf(head)' = TreeOf(head) /\ GroupEpoch(head)' = GroupEpoch(head)
  BY <1>1, <1>2
<1>4. \A u : InGroup(u)' <=> InGroup(u)
  BY <1>3 DEF InGroup
<1>5. CommitsFit'
  <2>1. ASSUME NEW n \in 1..Len(commits) PROVE CommitFits(n)'
    <3>1. CommitFits(n) /\ n \in States /\ n # 0
      BY <1>2 DEF CommitsFit, States
    <3>2. commits[n].on \in States /\ commits'[n] = commits[n]
      BY <1>1, <3>1, CommitFacts
    <3>3. /\ TreeOf(commits[n].on)' = TreeOf(commits[n].on)
          /\ GroupEpoch(commits[n].on)' = GroupEpoch(commits[n].on)
      <4>1. \A m \in States : commits[n].on = m =>
              /\ TreeOf(commits[n].on)' = TreeOf(m) /\ GroupEpoch(commits[n].on)' = GroupEpoch(m)
        BY <1>1, <3>2 DEF TreeOf, GroupEpoch
      <4> QED BY <3>2, <4>1
    <3> QED BY <3>1, <3>2, <3>3 DEF CommitFits
  <2>2. \A n \in 1..Len(commits') : n = N \/ n \in 1..Len(commits)
    BY <1>1, <1>2
  <2> QED BY <2>1, <2>2 DEF CommitsFit
<1>6. ProfilesFit' /\ \A l \in proposed' : TreeOf(head)'[l] \in outsiders'
  BY <1>3 DEF ProfilesFit, ProposalsFit
<1>7. \A u \in Users : QueueOfStates(inbox[u])
  BY QueueFacts DEF QueueOfStates, MessageFits
<1>8. MessagesFit'
  <2>1. ASSUME NEW u \in Users, NEW i \in 1..Len(inbox[u]) PROVE MessageFits(inbox[u][i])'
    <3> DEFINE m == inbox[u][i]
    <3>1. MessageFits(m) /\ m.state \in States
      BY DEF MessagesFit, MessageFits
    <3>2. PICK n \in States : n = m.state
      BY <3>1
    <3>3. TreeOf(n)' = TreeOf(n) /\ GroupEpoch(n)' = GroupEpoch(n) /\ n \in States'
      BY <1>1
    <3>4. n # 0 => commits'[n] = commits[n]
      BY <1>1, <1>2 DEF States
    <3>5. Accepted(n)' <=> Accepted(n)
      BY <1>3, <3>3 DEF Accepted
    <3>6. ASSUME NEW x, x = m PROVE MessageFits(x)'
      BY <3>1, <3>2, <3>3, <3>4, <3>5, <3>6 DEF MessageFits
    <3> QED BY <3>6
  <2> QED BY <2>1 DEF MessagesFit
<1> QED BY <1>2, <1>3, <1>4, <1>5, <1>6, <1>7, <1>8

(* Blanking leaves.                                                        *)
LEMMA BlankFacts ==
  ASSUME NEW t \in Trees, NEW S
  PROVE  /\ Blank(t, S) \in Trees
         /\ \A l \in Leaves : Blank(t, S)[l] = IF l \in S THEN Nobody ELSE t[l]
         /\ OneLeafEach(t) => OneLeafEach(Blank(t, S))
  BY DEF Blank, Trees, OneLeafEach

(* Staging an update, a removal or the deletion of the chat.               *)
LEMMA StagedInv ==
  ASSUME FullInv, NEW u \in Users, operation[u] = NoRow, NEW kind \in {"update", "delete"},
         NEW gone,
         MakeCommit(u, kind, local[u], known[u], Blank(TreeOf(local[u]), gone)),
         operation' = [operation EXCEPT ![u] =
                         [kind |-> "commit", state |-> Len(commits'), tried |-> FALSE]],
         UNCHANGED <<groupStateVars, inbox, copyVars, resync, askedVars>>
  PROVE  FullInv'
<1> USE DEF FullInv, MembershipInv
<1> DEFINE s == local[u]
           t == Blank(TreeOf(s), gone)
           c == [by |-> u, kind |-> kind, on |-> s, left |-> known[u],
                 epoch |-> GroupEpoch(s) + 1, tree |-> t]
<1> PICK N : N = Len(commits) + 1
  OBVIOUS
<1>1. s \in States /\ known[u] \subseteq Leaves /\ commits \in Seq(Commit) /\ Len(commits) \in Nat
  BY DEF MembershipTyped
<1>2. TreeOf(s) \in Trees /\ OneLeafEach(TreeOf(s)) /\ GroupEpoch(s) \in Nat
  BY <1>1, StateFacts
<1>3. /\ t \in Trees /\ OneLeafEach(t)
      /\ \A l \in Leaves : t[l] \in {TreeOf(s)[l], Nobody}
  BY <1>2, BlankFacts
<1>4. s \in Nat
  BY <1>1 DEF States
<1>5. c \in Commit
  BY <1>1, <1>2, <1>3, <1>4 DEF Commit
<1>6. commits' = Append(commits, c)
  BY DEF MakeCommit
<1> HIDE DEF c, t
<1>7. /\ commits' \in Seq(Commit) /\ Len(commits') = N /\ N \in States' /\ N \in Nat /\ N # 0
      /\ \A n \in States : n \in States' /\ n < N /\ n \in Nat
      /\ commits'[N] = c
      /\ \A n \in 1..Len(commits) : commits'[n] = commits[n]
      /\ \A n \in States : TreeOf(n)' = TreeOf(n) /\ GroupEpoch(n)' = GroupEpoch(n)
  BY <1>5, <1>6, CommitAdded
<1>8. PICK z \in States : z = s
  BY <1>1
<1>9. CommitFits(N)'
  <2>1. TreeOf(z)' = TreeOf(z) /\ GroupEpoch(z)' = GroupEpoch(z) /\ z < N
    BY <1>7
  <2>2. /\ commits'[N].on = z /\ commits'[N].epoch = GroupEpoch(z) + 1 /\ commits'[N].tree = t
        /\ commits'[N].kind # "resync" /\ commits'[N].left = known[u]
    BY <1>7, <1>8 DEF c
  <2>3. \A l \in known[u] : TreeOf(z)[l] \in outsiders'
    BY <1>8 DEF ProposalsFit, groupStateVars
  <2>4. TreeOf(commits[N].on)' = TreeOf(z) /\ GroupEpoch(commits[N].on)' = GroupEpoch(z)
    BY <2>1, <2>2 DEF TreeOf, GroupEpoch
  <2> QED BY <1>3, <1>8, <2>1, <2>2, <2>3, <2>4 DEF CommitFits
<1>10. /\ CommitsFit' /\ ProfilesFit' /\ MessagesFit'
       /\ \A l \in proposed' : TreeOf(head)'[l] \in outsiders'
       /\ TreeOf(head)' = TreeOf(head) /\ GroupEpoch(head)' = GroupEpoch(head)
       /\ head \in States
       /\ \A v : InGroup(v)' <=> InGroup(v)
       /\ \A v \in Users : local[v] \in States /\ QueueOfStates(inbox[v])
  BY <1>5, <1>6, <1>9, CommitMade
<1> USE DEF groupStateVars, copyVars, askedVars
<1>11. \A v \in Users : /\ local'[v] = local[v] /\ local[v] \in States
                        /\ TreeOf(local[v])' = TreeOf(local[v])
                        /\ GroupEpoch(local[v])' = GroupEpoch(local[v])
  BY <1>7, <1>10
<1>12. MembershipTyped'
  <2>1. operation' \in [Users -> Row]
    BY <1>7 DEF MembershipTyped, Row
  <2> QED BY <1>7, <1>10, <1>11, <2>1 DEF MembershipTyped
<1>13. ProposalsFit' /\ OwnLeafFits'
  BY <1>10, <1>11 DEF ProposalsFit, OwnLeafFits
<1>14. \A v \in Users : v # u => operation'[v] = operation[v]
  BY DEF MembershipTyped
<1>15. /\ operation'[u].kind = "commit" /\ operation'[u].state = N /\ operation[u].kind = "none"
  BY <1>7 DEF MembershipTyped, NoRow
<1>16. \A n \in States \ {0} : commits'[n] = commits[n]
  BY <1>1, <1>7 DEF States
<1>17. OperationFits'
  <2>1. ASSUME NEW v \in Users, operation'[v].kind = "commit"
        PROVE  /\ operation'[v].state \in States' \ {0}
               /\ commits'[operation'[v].state].on = local'[v]
               /\ commits'[operation'[v].state].kind # "resync"
    <3>1. CASE v = u
      BY <1>7, <1>15, <3>1 DEF c
    <3>2. CASE v # u
      BY <1>7, <1>14, <1>16, <2>1, <3>2 DEF OperationFits
    <3> QED BY <3>1, <3>2
  <2> QED BY <2>1 DEF OperationFits
<1>18. ResyncFits'
  <2>1. \A v \in Users : resync[v].commit # 0 => local[v] # 0
    BY DEF ResyncFits
  <2> QED BY <1>11, <1>16, <2>1 DEF ResyncFits
<1>19. ResyncsPast'
  <2>1. ASSUME NEW n \in 1..Len(commits'), commits'[n].kind = "resync"
        PROVE  /\ GroupEpoch(commits[n].on)' <= GroupEpoch(head)'
               /\ GroupEpoch(commits[n].on)' < GroupEpoch(local[commits[n].by])'
    <3>1. n # N
      BY <1>7, <2>1 DEF c
    <3>2. n \in 1..Len(commits) /\ commits'[n] = commits[n] /\ n \in States /\ n # 0
      BY <1>1, <1>7, <3>1 DEF States
    <3>3. PICK o \in States : o = commits[n].on
      BY <3>2, CommitFacts
    <3>4. PICK b \in Users : b = commits[n].by
      BY <3>2, CommitFacts DEF Commit
    <3>5. /\ GroupEpoch(o) <= GroupEpoch(head) /\ GroupEpoch(o) < GroupEpoch(local[b])
      BY <2>1, <3>2, <3>3, <3>4 DEF ResyncsPast
    <3>6. GroupEpoch(o)' = GroupEpoch(o) /\ GroupEpoch(local[b])' = GroupEpoch(local[b])
      BY <1>7, <1>11
    <3> QED BY <1>10, <3>2, <3>3, <3>4, <3>5, <3>6
  <2> QED BY <2>1 DEF ResyncsPast
<1>20. RemovedIsOut'
  BY <1>10, <1>11 DEF RemovedIsOut
<1>21. LeaveKnown'
  <2>1. asked' = asked /\ forgotten' = forgotten /\ deleted' = deleted /\ outsiders' = outsiders
    OBVIOUS
  <2>2. ASSUME NEW v \in asked \ (forgotten \union deleted), InGroup(v)
        PROVE  operation'[v].kind = "leave" \/ v \in outsiders
    <3>1. v \in Users
      BY DEF MembershipTyped
    <3> QED BY <1>14, <1>15, <2>2, <3>1 DEF LeaveKnown
  <2> QED BY <1>10, <2>1, <2>2 DEF LeaveKnown
<1>22. \A v \in Users : Following(v)' <=> Following(v)
  BY <1>10 DEF Following
<1>23. ChainsFit' /\ ProposalsCome'
  <2>1. ASSUME NEW v \in Users, Following(v)
        PROVE  /\ Chain(inbox[v], local[v], head)'
               /\ \A l \in proposed : TreeOf(head)[l] # v
                     => Comes(inbox[v], local[v], head, known[v], l)'
    <3>1. PICK q, r, h, kn : q = inbox[v] /\ r = local[v] /\ h = head /\ kn = known[v]
      OBVIOUS
    <3>2. Chain(q, r, h) /\ \A l \in proposed : TreeOf(head)[l] # v => Comes(q, r, h, kn, l)
      BY <2>1, <3>1 DEF ChainsFit, ProposalsCome
    <3>3. /\ Chain(q, r, h) => Chain(q, r, h)'
          /\ \A x, l : Comes(q, r, h, x, l) => Comes(q, r, h, x, l)'
      BY <1>5, <1>6, <1>10, <3>1, CommitAddedQueue
    <3>4. inbox'[v] = q /\ local'[v] = r /\ head' = h /\ known'[v] = kn
      BY <3>1
    <3> QED BY <3>2, <3>3, <3>4
  <2>2. ChainsFit'
    BY <1>22, <2>1 DEF ChainsFit
  <2>3. ProposalsCome'
    BY <1>10, <1>22, <2>1 DEF ProposalsCome
  <2> QED BY <2>2, <2>3
<1> QED BY <1>10, <1>12, <1>13, <1>17, <1>18, <1>19, <1>20, <1>21, <1>23

-----------------------------------------------------------------------------
(***************************************************************************)
(* One step per row.                                                       *)
(***************************************************************************)

(* A row of an operation that is no commit is written: a leave operation   *)
(* goes only when the user is out or the chat is deleted.                  *)
LEMMA OperationWritten ==
  ASSUME FullInv, NEW u \in Users, NEW r \in Row, r.kind # "commit",
         operation' = [operation EXCEPT ![u] = r],
         UNCHANGED <<commits, groupStateVars, inbox, local, ownLeaf, known, resync>>,
         UNCHANGED <<droppedResync, deleted>>,
         \/ r.kind = "leave" /\ asked' \in {asked, asked \union {u}}
              /\ forgotten' \in {forgotten, forgotten \ {u}}
         \/ asked' = asked /\ forgotten' = forgotten /\ (operation[u].kind # "leave" \/ u \in deleted \/ ~InGroup(u))
  PROVE  FullInv'
<1> USE DEF FullInv, MembershipInv, groupStateVars
<1>1. \A n : TreeOf(n)' = TreeOf(n)
  BY SameStates
<1>2. States' = States
  BY SameStates
<1>3. operation' \in [Users -> Row] /\ operation'[u] = r
  BY DEF MembershipTyped
<1>4. \A v \in Users : v # u => operation'[v] = operation[v]
  BY DEF MembershipTyped
<1>5. asked \subseteq Users /\ asked' \subseteq Users
  BY DEF MembershipTyped
<1>6. OperationFits'
  BY <1>2, <1>3, <1>4 DEF OperationFits
<1>7. ResyncFits'
  BY <1>1 DEF ResyncFits
<1>8. \A v : InGroup(v)' <=> InGroup(v)
  BY <1>1 DEF InGroup
<1>9. LeaveKnown'
  <2>1. ASSUME NEW v \in asked' \ (forgotten' \union deleted), InGroup(v)
        PROVE  operation'[v].kind = "leave" \/ v \in outsiders
    <3>1. CASE v = u
      <4>1. CASE r.kind = "leave"
        BY <1>3, <3>1, <4>1
      <4>2. CASE r.kind # "leave"
        BY <2>1, <3>1, <4>2 DEF LeaveKnown
      <4> QED BY <4>1, <4>2
    <3>2. CASE v # u
      BY <1>4, <1>5, <2>1, <3>2 DEF LeaveKnown
    <3> QED BY <3>1, <3>2
  <2> QED BY <1>8, <2>1 DEF LeaveKnown
<1>10. \A v \in Users : Following(v)' => Following(v)
  BY <1>8 DEF Following
<1>11. resync' \in [Users -> ResyncRow]
  BY DEF MembershipTyped
<1> QED BY <1>3, <1>5, <1>6, <1>7, <1>9, <1>10, <1>11, RowsOnly

(* A row of a resync without a commit under way is written.  It goes only  *)
(* when the resync is dropped.                                             *)
LEMMA ResyncWritten ==
  ASSUME FullInv, NEW u \in Users, NEW r \in ResyncRow, r.commit = 0,
         resync' = [resync EXCEPT ![u] = r],
         UNCHANGED <<commits, groupStateVars, inbox, local, ownLeaf, known, operation>>,
         UNCHANGED <<asked, forgotten, deleted>>,
         droppedResync \subseteq droppedResync', r # NoResync \/ u \in droppedResync'
  PROVE  FullInv'
<1> USE DEF FullInv, MembershipInv, groupStateVars
<1>1. \A n : TreeOf(n)' = TreeOf(n)
  BY SameStates
<1>2. States' = States
  BY SameStates
<1>3. resync' \in [Users -> ResyncRow] /\ resync'[u] = r
  BY DEF MembershipTyped
<1>4. \A v \in Users : v # u => resync'[v] = resync[v]
  BY DEF MembershipTyped
<1>5. OperationFits'
  BY <1>2 DEF OperationFits
<1>6. ResyncFits'
  BY <1>1, <1>3, <1>4 DEF ResyncFits
<1>7. \A v : InGroup(v)' <=> InGroup(v)
  BY <1>1 DEF InGroup
<1>8. LeaveKnown'
  BY <1>7 DEF LeaveKnown
<1>9. \A v \in Users : Following(v)' => Following(v)
  BY <1>3, <1>4, <1>7 DEF Following
<1>10. operation' \in [Users -> Row] /\ asked' \subseteq Users
  BY DEF MembershipTyped
<1> QED BY <1>3, <1>5, <1>6, <1>8, <1>9, <1>10, RowsOnly

(* The row for no operation and a leave row are rows.                      *)
LEMMA RowFacts ==
  /\ NoRow \in Row /\ NoRow.kind = "none" /\ NoResync \in ResyncRow
  /\ NoResync.commit = 0 /\ NoResync.leaf = 0
  BY DEF NoRow, NoResync, Row, ResyncRow

\* A refused commit is no leave.
LEMMA CommitRefusedInv ==
  ASSUME FullInv, NEW u \in Users, CommitRefused(u) PROVE FullInv'
<1>1. operation[u].kind # "leave"
  BY DEF CommitRefused
<1> QED BY <1>1, RowFacts, OperationWritten DEF CommitRefused, DeleteRow, copyVars, askedVars

\* A user asks to leave.
LEMMA LeaveInv ==
  ASSUME FullInv, NEW u \in Users, LeaveChat(u) PROVE FullInv'
<1> DEFINE r == [kind |-> "leave", state |-> local[u], tried |-> FALSE]
<1>1. local[u] \in Nat
  BY DEF FullInv, MembershipInv, MembershipTyped, States
<1>2. r \in Row /\ r.kind = "leave"
  BY <1>1 DEF Row
<1>3. /\ operation' = [operation EXCEPT ![u] = r] /\ asked' = asked \union {u}
      /\ UNCHANGED <<commits, groupStateVars, inbox, local, ownLeaf, known, resync>>
      /\ forgotten' = forgotten \ {u} /\ UNCHANGED <<droppedResync, deleted>>
  BY DEF LeaveChat, copyVars
<1> HIDE DEF r
<1> QED BY <1>2, <1>3, OperationWritten

\* A leave is given up only by a user whose copy says that it is out.
LEMMA LeaveGivenUpInv ==
  ASSUME FullInv, NEW u \in Users, LeaveGivenUp(u) PROVE FullInv'
<1>1. u \in deleted \/ ~InGroup(u)
  BY DEF LeaveGivenUp, RestageFails, FullInv, MembershipInv, RemovedIsOut
<1> QED BY <1>1, RowFacts, OperationWritten DEF LeaveGivenUp, DeleteRow, copyVars, askedVars

(* A leave that the DS has not got, or has refused.                        *)
LEMMA LeaveUnconfirmedInv ==
  ASSUME FullInv, NEW u \in Users, operation[u].kind = "leave", LeaveUnconfirmed(u),
         UNCHANGED <<commits, groupStateVars, inbox, local, ownLeaf, known, resync, askedVars>>
  PROVE  FullInv'
<1> DEFINE r == [operation[u] EXCEPT !.tried = TRUE]
<1>1. operation[u] \in Row
  BY DEF FullInv, MembershipInv, MembershipTyped
<1>2. r \in Row /\ r.kind = "leave"
  BY <1>1 DEF Row
<1>3. operation' = [operation EXCEPT ![u] = r]
  BY <1>1 DEF LeaveUnconfirmed
<1> HIDE DEF r
<1> QED BY <1>2, <1>3, OperationWritten DEF askedVars

\* A row is written for the resync: the user is excused from following.
LEMMA RequestResyncInv ==
  ASSUME FullInv, NEW u \in Users, RequestResync(u) PROVE FullInv'
<1> DEFINE r == [resync[u] EXCEPT !.leaf = ownLeaf[u]]
<1>1. ownLeaf[u] \in Leaves /\ ownLeaf[u] # 0
  BY FirstTree DEF FullInv, MembershipInv, MembershipTyped
<1>2. r \in ResyncRow /\ r.commit = 0 /\ r.leaf # 0
  BY <1>1, RowFacts DEF RequestResync, ResyncRow
<1>3. resync' = [resync EXCEPT ![u] = r]
  BY DEF RequestResync
<1> HIDE DEF r
<1>4. r # NoResync
  BY <1>2, RowFacts
<1> QED BY <1>2, <1>3, <1>4, ResyncWritten DEF RequestResync, copyVars, askedVars

\* The user stays excused when the resync is dropped.
LEMMA ResyncDroppedInv ==
  ASSUME FullInv, NEW u \in Users, ResyncDropped(u) PROVE FullInv'
<1>1. droppedResync \subseteq droppedResync' /\ u \in droppedResync'
  BY DEF ResyncDropped
<1> QED BY <1>1, RowFacts, ResyncWritten DEF ResyncDropped, copyVars

(* A resync that the DS has not got, or has refused, keeps its row.        *)
LEMMA ResyncTriedLaterInv ==
  ASSUME FullInv, NEW u \in Users, resync[u].commit # 0, ResyncTriedLater(u),
         UNCHANGED <<commits, groupStateVars, inbox, copyVars, operation, askedVars>>
  PROVE  FullInv'
<1> DEFINE r == [resync[u] EXCEPT !.commit = 0]
<1>1. resync[u] \in ResyncRow /\ resync[u].leaf # 0
  BY DEF FullInv, MembershipInv, MembershipTyped, ResyncFits
<1>2. r \in ResyncRow /\ r.commit = 0 /\ r.leaf # 0
  BY <1>1 DEF ResyncRow
<1>3. resync' = [resync EXCEPT ![u] = r]
  BY <1>1 DEF ResyncTriedLater
<1> HIDE DEF r
<1>4. r # NoResync
  BY <1>2, RowFacts
<1> QED BY <1>2, <1>3, <1>4, ResyncWritten DEF copyVars, askedVars

-----------------------------------------------------------------------------
(***************************************************************************)
(* The DS sends.                                                           *)
(***************************************************************************)

(* Every member but the sender gets the message.                           *)
LEMMA SentFacts ==
  ASSUME MembershipInv, NEW leaf \in Leaves, NEW kind \in {"commit", "leave"}, NEW n \in Nat,
         NEW l \in Nat, SendToOthers(leaf, kind, n, l),
         NEW x, x = [kind |-> kind, state |-> n, leaf |-> l]
  PROVE  /\ inbox' \in [Users -> Seq(Message)] /\ x \in Message
         /\ \A v \in Users : inbox'[v] = inbox[v] \/ Longer(inbox[v], x, inbox'[v])
         /\ \A v \in Users : InGroup(v) /\ TreeOf(head)[leaf] # v => Longer(inbox[v], x, inbox'[v])
<1> USE DEF MembershipInv
<1>1. x \in Message
  BY DEF Message
<1>2. inbox \in [Users -> Seq(Message)] /\ profiles \in Trees /\ head \in States
  BY DEF MembershipTyped
<1> DEFINE gets(v) == v \in ToSet(Blank(profiles, {leaf}))
<1>3. inbox' = [v \in Users |-> IF gets(v) THEN Append(inbox[v], x) ELSE inbox[v]]
  BY DEF SendToOthers
<1> HIDE DEF gets
<1>4. \A v \in Users : Append(inbox[v], x) \in Seq(Message) /\ Longer(inbox[v], x, Append(inbox[v], x))
  BY <1>1, <1>2, AppendIsLonger
<1>5. ASSUME NEW v \in Users, InGroup(v), TreeOf(head)[leaf] # v PROVE gets(v)
  <2>1. TreeOf(head) \in Trees
    BY <1>2, StateFacts
  <2>2. PICK k \in Leaves : TreeOf(head)[k] = v
    BY <1>5, <2>1, InTree DEF InGroup
  <2>3. v # Nobody
    BY FirstTree
  <2>4. profiles[k] = v /\ k # leaf
    BY <1>5, <2>2, <2>3 DEF ProfilesFit
  <2>5. Blank(profiles, {leaf}) \in Trees /\ Blank(profiles, {leaf})[k] = v
    BY <1>2, <2>4, BlankFacts
  <2> QED BY <2>5, InTree DEF gets
<1> QED BY <1>1, <1>2, <1>3, <1>4, <1>5

(* The messages fit when the old ones do and the new one does.             *)
LEMMA SentFit ==
  ASSUME NEW x, \A v \in Users : inbox'[v] = inbox[v] \/ Longer(inbox[v], x, inbox'[v]),
         MessageFits(x)',
         \A v \in Users : \A i \in 1..Len(inbox[v]) : \A m : m = inbox[v][i] => MessageFits(m)'
  PROVE  MessagesFit'
<1> SUFFICES ASSUME NEW v \in Users, NEW i \in 1..Len(inbox'[v]),
                    NEW m, m = inbox'[v][i]
             PROVE  MessageFits(m)'
  BY DEF MessagesFit
<1>1. CASE inbox'[v] = inbox[v]
  BY <1>1
<1>2. CASE Longer(inbox[v], x, inbox'[v])
  <2>1. i \in 1..Len(inbox[v]) \/ i = Len(inbox[v]) + 1
    BY <1>2 DEF Longer
  <2> QED BY <1>2, <2>1 DEF Longer
<1> QED BY <1>1, <1>2

(* The DS takes a leave proposal, whatever becomes of the operation.       *)
LEMMA SelfRemoveInv ==
  ASSUME FullInv, NEW u \in Users, DsSelfRemove(u), NEW r \in Row, r.kind # "commit",
         operation' = [operation EXCEPT ![u] = r],
         UNCHANGED <<commits, local, ownLeaf, known, resync, askedVars>>
  PROVE  FullInv'
<1> USE DEF FullInv, MembershipInv
<1>1. /\ States' = States
      /\ \A n : TreeOf(n)' = TreeOf(n) /\ GroupEpoch(n)' = GroupEpoch(n)
      /\ \A q, s, h : Chain(q, s, h)' <=> Chain(q, s, h)
      /\ \A q, s, h, kn, l : Comes(q, s, h, kn, l)' <=> Comes(q, s, h, kn, l)
  BY SameStates
<1>2. /\ head' = head /\ profiles' = profiles /\ proposed' = proposed \union {ownLeaf[u]}
      /\ outsiders' = outsiders \union {u} /\ TreeOf(head)[ownLeaf[u]] = u
      /\ SendToOthers(ownLeaf[u], "leave", head, ownLeaf[u])
  BY DEF DsSelfRemove, Verifies
<1>3. /\ head \in States /\ head \in Nat /\ ownLeaf[u] \in Leaves /\ ownLeaf[u] \in Nat
      /\ proposed \subseteq Leaves
  BY FirstTree DEF MembershipTyped, States
<1>4. PICK x : x = [kind |-> "leave", state |-> head, leaf |-> ownLeaf[u]]
  OBVIOUS
<1>5. /\ inbox' \in [Users -> Seq(Message)] /\ x \in Message
      /\ \A v \in Users : inbox'[v] = inbox[v] \/ Longer(inbox[v], x, inbox'[v])
      /\ \A v \in Users : InGroup(v) /\ TreeOf(head)[ownLeaf[u]] # v
            => Longer(inbox[v], x, inbox'[v])
  BY <1>2, <1>3, <1>4, SentFacts
<1>6. /\ operation' \in [Users -> Row]
      /\ \A v \in Users : v # u => operation'[v] = operation[v]
      /\ operation'[u] = r
  BY DEF MembershipTyped
<1>7. MembershipTyped'
  BY <1>1, <1>2, <1>3, <1>5, <1>6 DEF MembershipTyped, askedVars
<1>8. CommitsFit'
  BY <1>1, <1>2 DEF CommitsFit, CommitFits
<1>9. ProfilesFit'
  BY <1>1, <1>2 DEF ProfilesFit
<1>10. ProposalsFit'
  BY <1>1, <1>2 DEF ProposalsFit
<1>11. MessagesFit'
  <2>1. ASSUME NEW m, MessageFits(m) PROVE MessageFits(m)'
    BY <1>1, <1>2, <2>1 DEF MessageFits, Accepted
  <2>2. MessageFits(x)'
    BY <1>1, <1>2, <1>3, <1>4 DEF MessageFits
  <2>3. \A v \in Users : \A i \in 1..Len(inbox[v]) : \A m : m = inbox[v][i] => MessageFits(m)'
    BY <2>1 DEF MessagesFit
  <2> QED BY <1>5, <2>2, <2>3, SentFit
<1>12. OwnLeafFits' /\ ResyncFits' /\ ResyncsPast'
  BY <1>1, <1>2 DEF OwnLeafFits, ResyncFits, ResyncsPast
<1>13. OperationFits'
  BY <1>1, <1>6 DEF OperationFits
<1>14. \A v : InGroup(v)' <=> InGroup(v)
  BY <1>1, <1>2 DEF InGroup
<1>15. RemovedIsOut'
  BY <1>1, <1>14 DEF RemovedIsOut, askedVars
<1>16. LeaveKnown'
  <2>1. asked \subseteq Users
    BY DEF MembershipTyped
  <2> QED BY <1>2, <1>6, <1>14, <2>1 DEF LeaveKnown, askedVars
<1>17. \A v \in Users : Following(v)' <=> Following(v)
  BY <1>14 DEF Following, askedVars
<1>18. ASSUME NEW v \in Users, Following(v)
       PROVE  /\ Chain(inbox'[v], local[v], head)
              /\ \A l \in proposed' : TreeOf(head)[l] # v =>
                   Comes(inbox'[v], local[v], head, known[v], l)
  <2>1. Chain(inbox[v], local[v], head)
    BY <1>18 DEF ChainsFit
  <2>2. x.kind = "leave" /\ x.state = head /\ x.leaf = ownLeaf[u]
    BY <1>4
  <2>3. Chain(inbox'[v], local[v], head)
    BY <1>5, <2>1, <2>2, ChainLonger
  <2>4. ASSUME NEW l \in proposed, TreeOf(head)[l] # v
        PROVE  Comes(inbox'[v], local[v], head, known[v], l)
    <3>1. Comes(inbox[v], local[v], head, known[v], l)
      BY <1>18, <2>4 DEF ProposalsCome
    <3> QED BY <1>5, <3>1, ComesLonger
  <2>5. ASSUME TreeOf(head)[ownLeaf[u]] # v
        PROVE  Comes(inbox'[v], local[v], head, known[v], ownLeaf[u])
    <3>1. Longer(inbox[v], x, inbox'[v])
      BY <1>5, <1>18, <2>5 DEF Following
    <3> QED BY <2>1, <2>2, <3>1, ComesNew
  <2> QED BY <1>2, <2>3, <2>4, <2>5
<1>19. ChainsFit'
  <2> SUFFICES ASSUME NEW v \in Users, Following(v) PROVE Chain(inbox[v], local[v], head)'
    BY <1>17 DEF ChainsFit
  <2>1. PICK q, s, h : q = inbox'[v] /\ s = local[v] /\ h = head
    OBVIOUS
  <2>2. Chain(q, s, h)'
    BY <1>1, <1>18, <2>1
  <2> QED BY <1>2, <2>1, <2>2
<1>20. ProposalsCome'
  <2> SUFFICES ASSUME NEW v \in Users, Following(v), NEW l \in proposed', TreeOf(head)[l] # v
               PROVE  Comes(inbox[v], local[v], head, known[v], l)'
    BY <1>1, <1>2, <1>17 DEF ProposalsCome
  <2>1. PICK q, s, h, kn : q = inbox'[v] /\ s = local[v] /\ h = head /\ kn = known[v]
    OBVIOUS
  <2>2. Comes(q, s, h, kn, l)'
    BY <1>1, <1>18, <2>1
  <2> QED BY <1>2, <2>1, <2>2
<1> QED BY <1>7, <1>8, <1>9, <1>10, <1>11, <1>12, <1>13, <1>15, <1>16, <1>19, <1>20

\* Whatever the DS answers to a leave, the invariant is kept.
LEMMA SendLeaveInv ==
  ASSUME FullInv, NEW u \in Users, SendLeave(u) PROVE FullInv'
<1> USE DEF FullInv, MembershipInv
<1>1. operation[u] \in Row /\ operation[u].kind = "leave"
  BY DEF SendLeave, MembershipTyped
<1>2. UNCHANGED <<commits, local, ownLeaf, known, resync, askedVars>>
  BY DEF SendLeave
<1>3. CASE DsSelfRemove(u) /\ DeleteRow(u)
  BY <1>2, <1>3, RowFacts, SelfRemoveInv DEF DeleteRow
<1>4. CASE DsSelfRemove(u) /\ LeaveUnconfirmed(u)
  <2> DEFINE r == [operation[u] EXCEPT !.tried = TRUE]
  <2>1. r \in Row /\ r.kind = "leave"
    BY <1>1 DEF Row
  <2>2. operation' = [operation EXCEPT ![u] = r]
    BY <1>1, <1>4 DEF LeaveUnconfirmed
  <2> HIDE DEF r
  <2> QED BY <1>2, <1>4, <2>1, <2>2, SelfRemoveInv
<1>5. CASE UNCHANGED <<groupStateVars, inbox>> /\ LeaveUnconfirmed(u)
  BY <1>1, <1>2, <1>5, LeaveUnconfirmedInv
<1> QED BY <1>3, <1>4, <1>5 DEF SendLeave, DsRefusesSelfRemove

\* Also when the client dies after the DS has taken it.
LEMMA CrashInLeaveInv ==
  ASSUME FullInv, NEW u \in Users, CrashInLeave(u) PROVE FullInv'
<1>1. operation \in [Users -> Row] /\ operation[u] \in Row /\ operation[u].kind = "leave"
  BY DEF CrashInLeave, FullInv, MembershipInv, MembershipTyped
<1>2. operation' = [operation EXCEPT ![u] = operation[u]]
  BY <1>1 DEF CrashInLeave, rowVars
<1> QED BY <1>1, <1>2, SelfRemoveInv DEF CrashInLeave, rowVars, copyVars

-----------------------------------------------------------------------------
(***************************************************************************)
(* The group moves on.                                                     *)
(***************************************************************************)

(* A queue without commits of later epochs leaves a copy where it is.      *)
LEMMA ChainAtEnd ==
  ASSUME NEW q, NEW s, GroupEpoch(s) \in Nat, QueueEpochs(q),
         \A i \in 1..Len(q) : q[i].kind = "commit" /\ commits[q[i].state].kind # "delete"
                                => GroupEpoch(q[i].state) <= GroupEpoch(s)
  PROVE  Chain(q, s, s)
<1>1. \A i \in 1..Len(q) : ~Moves(q, s, i)
  BY DEF Moves, QueueEpochs
<1> QED BY <1>1 DEF Chain

(* A commit on the group's state adds nobody.                              *)
LEMMA NobodyJoins ==
  ASSUME MembershipInv, NEW n \in States, n # 0, commits[n].on = head,
         commits[n].kind = "resync" => InGroup(commits[n].by)
  PROVE  /\ GroupEpoch(n) = GroupEpoch(head) + 1
         /\ GroupEpoch(n) \in Nat /\ GroupEpoch(head) \in Nat
         /\ \A l \in Leaves : TreeOf(n)[l] # Nobody => InGroup(TreeOf(n)[l])
<1> USE DEF MembershipInv
<1>1. head \in States
  BY DEF MembershipTyped
<1>2. /\ CommitFits(n) /\ TreeOf(n) = commits[n].tree /\ GroupEpoch(n) = commits[n].epoch
  BY CommitFacts
<1>3. TreeOf(head) \in Trees /\ GroupEpoch(head) \in Nat /\ GroupEpoch(n) \in Nat
  BY <1>1, StateFacts
<1>4. ASSUME NEW l \in Leaves, TreeOf(n)[l] # Nobody PROVE InGroup(TreeOf(n)[l])
  <2>1. CASE TreeOf(n)[l] = TreeOf(head)[l]
    BY <1>3, <2>1, InTree DEF InGroup
  <2>2. CASE commits[n].kind = "resync" /\ TreeOf(n)[l] = commits[n].by
    BY <2>2
  <2> QED BY <1>2, <1>4, <2>1, <2>2 DEF CommitFits
<1> QED BY <1>2, <1>3, <1>4 DEF CommitFits

(* The DS accepts a commit of user u, who has merged it.                   *)
LEMMA HeadMoves ==
  ASSUME FullInv, NEW u \in Users, NEW leaf \in Leaves, TreeOf(head)[leaf] = u,
         NEW n \in States, n # 0, commits[n].on = head, commits[n].kind # "delete",
         commits[n].kind = "resync" => commits[n].by = u,
         head' = n, proposed' = {}, SendToOthers(leaf, "commit", n, 0),
         UNCHANGED <<commits, outsiders, askedVars>>
  PROVE  /\ CommitsFit' /\ MessagesFit'
         /\ inbox' \in [Users -> Seq(Message)]
         /\ \A v : InGroup(v)' <=> v \in ToSet(TreeOf(n))
         /\ \A v \in Users : InGroup(v)' => InGroup(v)
         /\ GroupEpoch(n) = GroupEpoch(head) + 1 /\ GroupEpoch(head) \in Nat
         /\ \A v \in Users : v # u /\ Following(v) => Chain(inbox'[v], local[v], n)
         /\ Chain(inbox'[u], n, n)
<1> USE DEF FullInv, MembershipInv
<1>1. /\ States' = States
      /\ \A m : TreeOf(m)' = TreeOf(m) /\ GroupEpoch(m)' = GroupEpoch(m)
  BY SameStates
<1>2. head \in States /\ n \in Nat /\ 0 \in Nat
  BY DEF MembershipTyped, States
<1>3. TreeOf(head) \in Trees /\ TreeOf(n) \in Trees
  BY <1>2, StateFacts
<1>4. InGroup(u) /\ u # Nobody
  BY <1>3, InTree, FirstTree DEF InGroup
<1>5. /\ GroupEpoch(n) = GroupEpoch(head) + 1
      /\ GroupEpoch(n) \in Nat /\ GroupEpoch(head) \in Nat
      /\ \A l \in Leaves : TreeOf(n)[l] # Nobody => InGroup(TreeOf(n)[l])
  BY <1>4, NobodyJoins
<1>6. PICK x : x = [kind |-> "commit", state |-> n, leaf |-> 0]
  OBVIOUS
<1>7. /\ inbox' \in [Users -> Seq(Message)] /\ x \in Message
      /\ \A v \in Users : inbox'[v] = inbox[v] \/ Longer(inbox[v], x, inbox'[v])
      /\ \A v \in Users : InGroup(v) /\ TreeOf(head)[leaf] # v
            => Longer(inbox[v], x, inbox'[v])
  BY <1>2, <1>6, SentFacts
<1>8. CommitsFit'
  BY <1>1 DEF CommitsFit, CommitFits
<1>9. \A v : InGroup(v)' <=> v \in ToSet(TreeOf(n))
  BY <1>1 DEF InGroup
<1>10. \A v \in Users : InGroup(v)' => InGroup(v)
  BY <1>3, <1>5, <1>9, InTree, FirstTree
<1>11. TreeOf(head)' = TreeOf(n) /\ GroupEpoch(head)' = GroupEpoch(n)
  BY <1>1
<1>12. MessagesFit'
  <2>1. ASSUME NEW m \in States, Accepted(m) PROVE Accepted(m)'
    <3>1. GroupEpoch(m) \in Nat /\ TreeOf(m) \in Trees
      BY StateFacts
    <3>2. ASSUME NEW l \in Leaves, TreeOf(n)[l] # Nobody PROVE TreeOf(n)[l] \in ToSet(TreeOf(m))
      <4>1. PICK k \in Leaves : TreeOf(head)[k] = TreeOf(n)[l]
        BY <1>3, <1>5, <3>2, InTree DEF InGroup
      <4> QED BY <2>1, <3>2, <4>1 DEF Accepted
    <3> QED BY <1>1, <1>5, <1>11, <2>1, <3>1, <3>2 DEF Accepted
  <2>2. Accepted(n)'
    BY <1>1, <1>3, <1>5, <1>11, InTree DEF Accepted
  <2>3. MessageFits(x)'
    BY <1>1, <1>6, <2>2 DEF MessageFits
  <2>4. ASSUME NEW m, MessageFits(m) PROVE MessageFits(m)'
    BY <1>1, <2>1, <2>4 DEF MessageFits
  <2>5. \A v \in Users : \A i \in 1..Len(inbox[v]) : \A m : m = inbox[v][i] => MessageFits(m)'
    BY <2>4 DEF MessagesFit
  <2> QED BY <1>7, <2>3, <2>5, SentFit
<1>13. ASSUME NEW v \in Users, v # u, Following(v) PROVE Chain(inbox'[v], local[v], n)
  <2>1. Chain(inbox[v], local[v], head) /\ Longer(inbox[v], x, inbox'[v])
    BY <1>7, <1>13 DEF ChainsFit, Following
  <2>2. GroupEpoch(local[v]) \in Nat
    BY StateFacts DEF MembershipTyped
  <2>3. /\ QueueEpochs(inbox[v])
        /\ \A i \in 1..Len(inbox[v]) :
             inbox[v][i].kind = "commit" /\ commits[inbox[v][i].state].kind # "delete"
               => GroupEpoch(inbox[v][i].state) <= GroupEpoch(head)
    BY QueueFacts
  <2>4. x.kind = "commit" /\ x.state = n
    BY <1>6
  <2>5. Chain(inbox'[v], local[v], x.state)
    BY <1>5, <2>1, <2>2, <2>3, <2>4, ChainContinued
  <2> QED BY <2>4, <2>5
<1>14. Chain(inbox'[u], n, n)
  <2>1. ASSUME NEW i \in 1..Len(inbox'[u]), inbox'[u][i].kind = "commit"
        PROVE  /\ GroupEpoch(inbox'[u][i].state) \in Nat
               /\ commits[inbox'[u][i].state].kind # "delete" =>
                    GroupEpoch(inbox'[u][i].state) <= GroupEpoch(n)
    <3>1. PICK m : m = inbox'[u][i]
      OBVIOUS
    <3>2. MessageFits(m)'
      BY <1>12, <3>1 DEF MessagesFit
    <3>3. m.state \in States /\ (commits[m.state].kind # "delete" => Accepted(m.state)')
      BY <1>1, <2>1, <3>1, <3>2 DEF MessageFits
    <3>4. GroupEpoch(m.state) \in Nat
      BY <3>3, StateFacts
    <3> QED BY <1>1, <1>11, <3>1, <3>3, <3>4 DEF Accepted
  <2> QED BY <1>5, <2>1, ChainAtEnd DEF QueueEpochs
<1> QED BY <1>5, <1>7, <1>8, <1>9, <1>10, <1>12, <1>13, <1>14

(* What is left to show when the DS accepts a commit.                      *)
LEMMA HeadMovesInv ==
  ASSUME FullInv, NEW u \in Users, NEW leaf \in Leaves, TreeOf(head)[leaf] = u,
         NEW n \in States, n # 0, commits[n].on = head, commits[n].kind # "delete",
         commits[n].kind = "resync" => commits[n].by = u,
         head' = n, proposed' = {}, SendToOthers(leaf, "commit", n, 0),
         UNCHANGED <<commits, outsiders, ownLeaf, askedVars>>,
         MembershipTyped', ProfilesFit', OwnLeafFits', OperationFits', ResyncFits',
         local' = [local EXCEPT ![u] = n], GroupEpoch(local[u]) <= GroupEpoch(n),
         \A l \in known'[u] : TreeOf(n)[l] \in outsiders,
         \A v \in Users : v # u =>
           known'[v] = known[v] /\ operation'[v] = operation[v] /\ resync'[v] = resync[v],
         operation[u].kind = "leave" => operation'[u].kind = "leave"
  PROVE  FullInv' /\ \A v \in Users : InGroup(v)' => InGroup(v)
<1> USE DEF FullInv, MembershipInv
<1>1. /\ States' = States
      /\ \A m : TreeOf(m)' = TreeOf(m) /\ GroupEpoch(m)' = GroupEpoch(m)
      /\ \A q, s, h : Chain(q, s, h)' <=> Chain(q, s, h)
  BY SameStates
<1>2. /\ CommitsFit' /\ MessagesFit'
      /\ inbox' \in [Users -> Seq(Message)]
      /\ \A v : InGroup(v)' <=> v \in ToSet(TreeOf(n))
      /\ \A v \in Users : InGroup(v)' => InGroup(v)
      /\ GroupEpoch(n) = GroupEpoch(head) + 1 /\ GroupEpoch(head) \in Nat
      /\ \A v \in Users : v # u /\ Following(v) => Chain(inbox'[v], local[v], n)
      /\ Chain(inbox'[u], n, n)
  BY HeadMoves
<1>3. local'[u] = n /\ \A v \in Users : v # u => local'[v] = local[v]
  BY DEF MembershipTyped
<1>4. ProposalsFit'
  <2>1. ASSUME NEW v \in Users, NEW l \in known'[v] PROVE TreeOf(local'[v])[l] \in outsiders
    <3>1. CASE v = u
      BY <1>3, <2>1, <3>1
    <3>2. CASE v # u
      BY <1>3, <2>1, <3>2 DEF ProposalsFit
    <3> QED BY <3>1, <3>2
  <2>2. \A v \in Users : TreeOf(local[v])' = TreeOf(local'[v])
    BY DEF TreeOf
  <2> QED BY <2>1, <2>2 DEF ProposalsFit
<1>5. \A v \in Users : GroupEpoch(local'[v]) \in Nat /\ GroupEpoch(local[v]) \in Nat
                        /\ GroupEpoch(local[v]) <= GroupEpoch(local'[v])
  <2>1. \A v \in Users : local[v] \in States /\ local'[v] \in States
    BY <1>1 DEF MembershipTyped
  <2>2. \A v \in Users : GroupEpoch(local[v]) \in Nat /\ GroupEpoch(local'[v]) \in Nat
    BY <2>1, StateFacts
  <2> QED BY <1>3, <2>2
<1>6. ResyncsPast'
  <2> SUFFICES ASSUME NEW m \in 1..Len(commits), commits[m].kind = "resync"
               PROVE  /\ GroupEpoch(commits[m].on) <= GroupEpoch(n)
                      /\ GroupEpoch(commits[m].on) < GroupEpoch(local'[commits[m].by])
    <3>1. \A m : /\ GroupEpoch(commits[m].on)' = GroupEpoch(commits[m].on)
                 /\ GroupEpoch(local[commits[m].by])' = GroupEpoch(local'[commits[m].by])
      BY DEF GroupEpoch
    <3>2. GroupEpoch(head)' = GroupEpoch(n)
      BY <1>1
    <3> QED BY <3>1, <3>2 DEF ResyncsPast
  <2>1. m \in States /\ m # 0
    BY DEF MembershipTyped, States
  <2>2. commits[m].by \in Users /\ commits[m].on \in States
    BY <2>1, CommitFacts DEF Commit
  <2>3. GroupEpoch(commits[m].on) \in Nat
    BY <2>2, StateFacts
  <2>4. /\ GroupEpoch(commits[m].on) <= GroupEpoch(head)
        /\ GroupEpoch(commits[m].on) < GroupEpoch(local[commits[m].by])
    BY DEF ResyncsPast
  <2> QED BY <1>2, <1>5, <2>2, <2>3, <2>4
<1>7. RemovedIsOut'
  <2>1. \A v \in Users : TreeOf(local[v])' = TreeOf(local'[v])
    BY DEF TreeOf
  <2>2. ASSUME NEW v \in Users, v \notin ToSet(TreeOf(local'[v])), v \notin deleted
        PROVE  ~InGroup(v)'
    <3>1. CASE v = u
      BY <1>2, <1>3, <2>2, <3>1
    <3>2. CASE v # u
      BY <1>2, <1>3, <2>2, <3>2 DEF RemovedIsOut
    <3> QED BY <3>1, <3>2
  <2> QED BY <2>1, <2>2 DEF RemovedIsOut, askedVars
<1>8. LeaveKnown'
  <2>1. asked \subseteq Users
    BY DEF MembershipTyped
  <2>2. ASSUME NEW v \in asked \ (forgotten \union deleted), InGroup(v)'
        PROVE  operation'[v].kind = "leave" \/ v \in outsiders
    BY <1>2, <2>1, <2>2 DEF LeaveKnown
  <2> QED BY <2>2 DEF LeaveKnown, askedVars
<1>9. ChainsFit'
  <2> SUFFICES ASSUME NEW v \in Users, Following(v)' PROVE Chain(inbox[v], local[v], head)'
    BY DEF ChainsFit
  <2>1. PICK q, s, h : q = inbox'[v] /\ s = local'[v] /\ h = head'
    OBVIOUS
  <2>2. v # u => Following(v)
    BY <1>2 DEF Following, askedVars
  <2>3. Chain(q, s, h)
    BY <1>2, <1>3, <2>1, <2>2
  <2> QED BY <1>1, <2>1, <2>3
<1>10. ProposalsCome'
  BY DEF ProposalsCome
<1> QED BY <1>2, <1>4, <1>6, <1>7, <1>8, <1>9, <1>10

(* A commit that is no resync of user u leaves u on its leaf or takes it   *)
(* off.                                                                    *)
LEMMA StaysOnLeaf ==
  ASSUME MembershipInv, NEW u \in Users, NEW n \in States, n # 0,
         commits[n].kind = "resync" => commits[n].by # u,
         NEW leaf \in Leaves, TreeOf(commits[n].on)[leaf] = u, u \in ToSet(TreeOf(n))
  PROVE  TreeOf(n)[leaf] = u
<1> USE DEF MembershipInv
<1>1. /\ CommitFits(n) /\ TreeOf(n) = commits[n].tree /\ commits[n].on \in States
  BY CommitFacts
<1>2. TreeOf(n) \in Trees /\ OneLeafEach(TreeOf(commits[n].on))
  BY <1>1, StateFacts
<1>3. PICK k \in Leaves : TreeOf(n)[k] = u
  BY <1>2, InTree
<1>4. u # Nobody
  BY FirstTree
<1>5. TreeOf(commits[n].on)[k] = u
  BY <1>1, <1>3, <1>4 DEF CommitFits
<1> QED BY <1>2, <1>3, <1>4, <1>5 DEF OneLeafEach

\* The DS accepts an update or a removal, and nobody comes in by it.
LEMMA SendCommitInv ==
  ASSUME FullInv, NEW u \in Users, SendCommit(u)
  PROVE  FullInv' /\ \A v \in Users : InGroup(v)' => InGroup(v)
<1> USE DEF FullInv, MembershipInv
<1>1. PICK n : n = operation[u].state
  OBVIOUS
<1>2. /\ operation[u].kind = "commit" /\ commits[n].kind = "update" /\ resync[u].commit = 0
      /\ commits[n].on = head /\ TreeOf(head)[ownLeaf[u]] = u
      /\ head' = n /\ proposed' = {} /\ SendToOthers(ownLeaf[u], "commit", n, 0)
      /\ profiles' = [Blank(profiles, LeavesOf(TreeOf(n), {Nobody})) EXCEPT ![ownLeaf[u]] = u]
      /\ local' = [local EXCEPT ![u] = n] /\ known' = [known EXCEPT ![u] = {}]
      /\ operation' = [operation EXCEPT ![u] = NoRow]
      /\ UNCHANGED <<commits, outsiders, ownLeaf, active, resync, askedVars>>
  BY <1>1 DEF SendCommit, ClearProposals, PendingCommit, CanWrite, Verifies, MergeOwn, DeleteRow
<1>3. n \in States /\ n # 0 /\ commits[n].on = local[u]
  BY <1>1, <1>2 DEF OperationFits
<1>4. /\ head \in States /\ ownLeaf[u] \in Leaves /\ profiles \in Trees
      /\ known \in [Users -> SUBSET Leaves]
  BY DEF MembershipTyped
<1>5. /\ CommitFits(n) /\ TreeOf(n) = commits[n].tree /\ GroupEpoch(n) = commits[n].epoch
  BY <1>3, CommitFacts
<1>6. /\ TreeOf(head) \in Trees /\ TreeOf(n) \in Trees /\ OneLeafEach(TreeOf(head))
      /\ GroupEpoch(head) \in Nat /\ GroupEpoch(n) \in Nat
  BY <1>3, <1>4, StateFacts
<1>7. \A l \in Leaves : TreeOf(n)[l] \in {TreeOf(head)[l], Nobody}
  BY <1>2, <1>5 DEF CommitFits
<1>8. /\ States' = States
      /\ \A m : TreeOf(m)' = TreeOf(m) /\ GroupEpoch(m)' = GroupEpoch(m)
  BY <1>2, SameStates
<1>9. /\ inbox' \in [Users -> Seq(Message)]
      /\ GroupEpoch(n) = GroupEpoch(head) + 1
  BY <1>2, <1>3, <1>4, HeadMoves
<1>10. Blank(profiles, LeavesOf(TreeOf(n), {Nobody})) \in Trees
  BY <1>4, BlankFacts
<1>11. profiles' \in Trees
  BY <1>2, <1>4, <1>10 DEF Trees
<1>12. /\ local' \in [Users -> States] /\ known' \in [Users -> SUBSET Leaves]
       /\ operation' \in [Users -> Row]
  BY <1>2, <1>3, <1>4, RowFacts DEF MembershipTyped
<1>13. MembershipTyped'
  BY <1>2, <1>3, <1>8, <1>9, <1>11, <1>12 DEF MembershipTyped, askedVars
<1>14. ProfilesFit'
  <2> SUFFICES ASSUME NEW l \in Leaves, TreeOf(n)[l] # Nobody
               PROVE  profiles'[l] = TreeOf(n)[l]
    BY <1>2, <1>8 DEF ProfilesFit
  <2>1. TreeOf(head)[l] = TreeOf(n)[l] /\ profiles[l] = TreeOf(head)[l]
    BY <1>7 DEF ProfilesFit
  <2>2. l \notin LeavesOf(TreeOf(n), {Nobody})
    BY DEF LeavesOf
  <2>3. Blank(profiles, LeavesOf(TreeOf(n), {Nobody}))[l] = TreeOf(n)[l]
    BY <1>4, <2>1, <2>2, BlankFacts
  <2> QED BY <1>2, <1>4, <1>10, <2>1, <2>3 DEF Trees
<1>15. /\ local'[u] = n /\ known'[u] = {} /\ operation'[u] = NoRow
       /\ \A v \in Users : v # u => /\ local'[v] = local[v] /\ known'[v] = known[v]
                                    /\ operation'[v] = operation[v]
  BY <1>2 DEF MembershipTyped
<1>16. \A v \in Users : TreeOf(local[v])' = TreeOf(local'[v])
  BY <1>2 DEF TreeOf
<1>17. OwnLeafFits'
  <2> SUFFICES ASSUME NEW v \in Users, v \in ToSet(TreeOf(local'[v]))
               PROVE  TreeOf(local'[v])[ownLeaf[v]] = v
    BY <1>2, <1>16 DEF OwnLeafFits
  <2>1. CASE v = u
    BY <1>2, <1>3, <1>4, <1>15, <2>1, StaysOnLeaf
  <2>2. CASE v # u
    BY <1>15, <2>2 DEF OwnLeafFits
  <2> QED BY <2>1, <2>2
<1>18. OperationFits'
  BY <1>2, <1>8, <1>15, RowFacts DEF OperationFits
<1>19. ResyncFits'
  <2> SUFFICES ASSUME NEW v \in Users, resync[v].commit # 0
               PROVE  /\ resync[v].leaf # 0
                      /\ resync[v].commit = local'[v]
                      /\ commits[local'[v]].kind = "resync" /\ commits[local'[v]].by = v
                      /\ TreeOf(local'[v])[ownLeaf[v]] = v
    BY <1>2, <1>16 DEF ResyncFits
  <2>1. v # u
    BY <1>2
  <2> QED BY <1>15, <2>1 DEF ResyncFits
<1>20. GroupEpoch(local[u]) <= GroupEpoch(n)
  <2>1. local[u] = head
    BY <1>2, <1>3
  <2>2. GroupEpoch(head) <= GroupEpoch(n)
    BY <1>6, <1>9
  <2> QED BY <2>1, <2>2
<1>21. operation[u].kind # "leave" /\ commits[n].kind # "delete" /\ commits[n].kind # "resync"
  BY <1>2
<1>22. \A v \in Users : v # u =>
         known'[v] = known[v] /\ operation'[v] = operation[v] /\ resync'[v] = resync[v]
  BY <1>2, <1>15
<1> QED BY <1>2, <1>3, <1>4, <1>13, <1>14, <1>15, <1>17, <1>18, <1>19, <1>20, <1>21, <1>22,
           HeadMovesInv

(* The DS accepts the commit of a resync.                                  *)
LEMMA DsResyncInv ==
  ASSUME FullInv, NEW u \in Users, resync[u].commit # 0, DsResync(u),
         NEW r \in ResyncRow, r.commit = 0,
         resync' = [resync EXCEPT ![u] = r],
         UNCHANGED <<commits, copyVars, operation, askedVars>>
  PROVE  FullInv' /\ \A v \in Users : InGroup(v)' => InGroup(v)
<1> USE DEF FullInv, MembershipInv
<1>1. PICK n, leaf : n = resync[u].commit /\ leaf = resync[u].leaf
  OBVIOUS
<1>2. /\ leaf # 0 /\ n = local[u] /\ commits[n].kind = "resync" /\ commits[n].by = u
      /\ TreeOf(n)[ownLeaf[u]] = u /\ n # 0
  BY <1>1 DEF ResyncFits
<1>3. /\ commits[n].on = head /\ TreeOf(head)[leaf] = u
      /\ head' = n /\ proposed' = {} /\ SendToOthers(leaf, "commit", n, 0)
      /\ profiles' = RekeyProfile(Blank(profiles, commits[n].left), u, leaf)
      /\ UNCHANGED <<commits, outsiders, local, ownLeaf, known, operation, askedVars>>
  BY <1>1 DEF DsResync, ClearProposals, ResyncVerifies, Verifies, copyVars
<1>4. /\ n \in States /\ head \in States /\ ownLeaf[u] \in Leaves /\ profiles \in Trees
      /\ local \in [Users -> States]
  BY <1>2 DEF MembershipTyped
<1>5. /\ CommitFits(n) /\ TreeOf(n) = commits[n].tree /\ GroupEpoch(n) = commits[n].epoch
      /\ commits[n].left \subseteq Leaves
  BY <1>2, <1>4, CommitFacts DEF Commit
<1>6. /\ TreeOf(head) \in Trees /\ TreeOf(n) \in Trees /\ OneLeafEach(TreeOf(n))
      /\ OneLeafEach(TreeOf(head)) /\ GroupEpoch(n) \in Nat
  BY <1>4, StateFacts
<1>7. leaf \in Leaves
  BY <1>1, <1>2 DEF MembershipTyped, ResyncRow
<1>8. /\ States' = States
      /\ \A m : TreeOf(m)' = TreeOf(m) /\ GroupEpoch(m)' = GroupEpoch(m)
  BY <1>3, SameStates
<1>9. /\ inbox' \in [Users -> Seq(Message)]
      /\ GroupEpoch(n) = GroupEpoch(head) + 1
  BY <1>2, <1>3, <1>4, <1>7, HeadMoves
<1>10. PICK p : p = Blank(profiles, commits[n].left)
  OBVIOUS
<1>11. p \in Trees /\ \A l \in Leaves : p[l] = IF l \in commits[n].left THEN Nobody ELSE profiles[l]
  BY <1>4, <1>10, BlankFacts
<1>12. /\ Blank(p, {leaf}) \in Trees
       /\ \A l \in Leaves : Blank(p, {leaf})[l] = IF l \in {leaf} THEN Nobody ELSE p[l]
  BY <1>11, BlankFacts
<1>13. profiles' = IF ownLeaf[u] = leaf THEN p ELSE [Blank(p, {leaf}) EXCEPT ![ownLeaf[u]] = p[leaf]]
  BY <1>3, <1>10 DEF RekeyProfile
<1>14. profiles' \in Trees
  BY <1>4, <1>7, <1>11, <1>12, <1>13 DEF Trees
<1>15. /\ resync' \in [Users -> ResyncRow] /\ resync'[u] = r
       /\ \A v \in Users : v # u => resync'[v] = resync[v]
  BY DEF MembershipTyped
<1>16. MembershipTyped'
  BY <1>3, <1>4, <1>8, <1>9, <1>14, <1>15 DEF MembershipTyped, askedVars
<1>17. u # Nobody
  BY FirstTree
<1>18. ProfilesFit'
  <2> SUFFICES ASSUME NEW l \in Leaves, TreeOf(n)[l] # Nobody
               PROVE  profiles'[l] = TreeOf(n)[l]
    BY <1>3, <1>8 DEF ProfilesFit
  <2>1. leaf \notin commits[n].left
    BY <1>2, <1>3, <1>5 DEF CommitFits
  <2>2. p[leaf] = u
    BY <1>3, <1>7, <1>11, <1>17, <2>1 DEF ProfilesFit
  <2>3. CASE TreeOf(n)[l] = u
    <3>1. l = ownLeaf[u]
      BY <1>2, <1>4, <1>6, <1>17, <2>3 DEF OneLeafEach
    <3> QED BY <1>12, <1>13, <2>2, <2>3, <3>1 DEF Trees
  <2>4. CASE TreeOf(n)[l] # u
    <3>1. TreeOf(head)[l] = TreeOf(n)[l]
      BY <1>2, <1>3, <1>5, <2>4 DEF CommitFits
    <3>2. l \notin commits[n].left
      BY <1>2, <1>5, <2>4 DEF CommitFits
    <3>3. p[l] = TreeOf(n)[l]
      BY <1>11, <3>1, <3>2 DEF ProfilesFit
    <3>4. l # leaf /\ l # ownLeaf[u]
      BY <1>2, <1>3, <2>4, <3>1
    <3> QED BY <1>12, <1>13, <3>3, <3>4 DEF Trees
  <2> QED BY <2>3, <2>4
<1>19. OwnLeafFits' /\ OperationFits'
  BY <1>3, <1>8 DEF OwnLeafFits, OperationFits
<1>20. ResyncFits'
  BY <1>3, <1>8, <1>15 DEF ResyncFits
<1>21. local' = [local EXCEPT ![u] = n] /\ GroupEpoch(local[u]) <= GroupEpoch(n)
  BY <1>2, <1>3, <1>4, <1>6
<1>22. \A l \in known'[u] : TreeOf(n)[l] \in outsiders
  BY <1>2, <1>3 DEF ProposalsFit
<1>23. \A v \in Users : v # u =>
         known'[v] = known[v] /\ operation'[v] = operation[v] /\ resync'[v] = resync[v]
  BY <1>3, <1>15
<1>24. commits[n].kind # "delete" /\ operation'[u].kind = operation[u].kind
  BY <1>2, <1>3
<1>25. /\ commits[n].kind = "resync" => commits[n].by = u
       /\ operation[u].kind = "leave" => operation'[u].kind = "leave"
       /\ UNCHANGED <<commits, outsiders, ownLeaf, askedVars>>
  BY <1>2, <1>3
<1>26. /\ TreeOf(head)[leaf] = u /\ n \in States /\ n # 0 /\ commits[n].on = head
       /\ head' = n /\ proposed' = {} /\ SendToOthers(leaf, "commit", n, 0)
  BY <1>2, <1>3, <1>4
<1> QED BY <1>7, <1>16, <1>18, <1>19, <1>20, <1>21, <1>22, <1>23, <1>24, <1>25, <1>26,
           HeadMovesInv

\* The DS accepts or refuses a resync, and nobody comes in by it.
LEMMA SendResyncInv ==
  ASSUME FullInv, NEW u \in Users, SendResync(u)
  PROVE  FullInv' /\ \A v \in Users : InGroup(v)' => InGroup(v)
<1>1. resync[u] \in ResyncRow /\ resync[u].commit # 0
  BY DEF SendResync, FullInv, MembershipInv, MembershipTyped
<1>2. UNCHANGED <<commits, copyVars, operation, askedVars>>
  BY DEF SendResync
<1> DEFINE r == [resync[u] EXCEPT !.commit = 0]
<1>3. r \in ResyncRow /\ r.commit = 0 /\ (ResyncTriedLater(u) => resync' = [resync EXCEPT ![u] = r])
  BY <1>1 DEF ResyncRow, ResyncTriedLater
<1> HIDE DEF r
<1>4. CASE DsResync(u) /\ resync' = [resync EXCEPT ![u] = NoResync]
  BY <1>1, <1>2, <1>4, RowFacts, DsResyncInv
<1>5. CASE DsResync(u) /\ ResyncTriedLater(u)
  BY <1>1, <1>2, <1>3, <1>5, DsResyncInv
<1>6. CASE UNCHANGED <<groupStateVars, inbox>> /\ ResyncTriedLater(u)
  <2>1. FullInv'
    BY <1>1, <1>2, <1>6, ResyncTriedLaterInv
  <2>2. TreeOf(head)' = TreeOf(head)
    BY <1>2, <1>6 DEF TreeOf, groupStateVars
  <2> QED BY <2>1, <2>2 DEF InGroup
<1> QED BY <1>4, <1>5, <1>6 DEF SendResync

(* The DS takes the deletion of the chat and sends it on; the client has   *)
(* merged it, or does not know.                                            *)
LEMMA SendDeleteInv ==
  ASSUME FullInv, NEW u \in Users, SendDelete(u) PROVE FullInv'
<1> USE DEF FullInv, MembershipInv
<1>1. PICK n : n = operation[u].state
  OBVIOUS
<1>2. /\ operation[u].kind = "commit" /\ commits[n].kind = "delete" /\ resync[u].commit = 0
      /\ commits[n].on = head /\ TreeOf(head)[ownLeaf[u]] = u
      /\ proposed' = {} /\ SendToOthers(ownLeaf[u], "commit", n, 0)
      /\ UNCHANGED <<commits, head, profiles, outsiders, ownLeaf, resync>>
      /\ UNCHANGED <<asked, forgotten, droppedResync>>
      /\ \/ /\ local' = [local EXCEPT ![u] = n] /\ known' = [known EXCEPT ![u] = {}]
            /\ operation' = [operation EXCEPT ![u] = NoRow] /\ deleted' = deleted \union {u}
         \/ UNCHANGED <<local, known, operation, deleted>>
  BY <1>1 DEF SendDelete, ClearProposals, PendingCommit, CanWrite, Verifies, MergeOwn, DeleteRow,
              copyVars
<1>3. n \in States /\ n # 0 /\ commits[n].on = local[u]
  BY <1>1, <1>2 DEF OperationFits
<1>4. /\ head \in States /\ ownLeaf[u] \in Leaves /\ n \in Nat /\ 0 \in Nat
      /\ asked \subseteq Users
  BY <1>3 DEF MembershipTyped, States
<1>5. /\ CommitFits(n) /\ GroupEpoch(n) = commits[n].epoch
  BY <1>3, CommitFacts
<1>6. /\ States' = States
      /\ \A m : TreeOf(m)' = TreeOf(m) /\ GroupEpoch(m)' = GroupEpoch(m)
      /\ \A q, s, h : Chain(q, s, h)' <=> Chain(q, s, h)
  BY <1>2, SameStates
<1>7. PICK x : x = [kind |-> "commit", state |-> n, leaf |-> 0]
  OBVIOUS
<1>8. /\ inbox' \in [Users -> Seq(Message)] /\ x \in Message
      /\ \A v \in Users : inbox'[v] = inbox[v] \/ Longer(inbox[v], x, inbox'[v])
  BY <1>2, <1>4, <1>7, SentFacts
<1>9. /\ local' \in [Users -> States] /\ known' \in [Users -> SUBSET Leaves]
      /\ operation' \in [Users -> Row]
  <2>1. /\ local \in [Users -> States] /\ known \in [Users -> SUBSET Leaves]
        /\ operation \in [Users -> Row]
    BY DEF MembershipTyped
  <2>2. \/ /\ local' = [local EXCEPT ![u] = n] /\ known' = [known EXCEPT ![u] = {}]
           /\ operation' = [operation EXCEPT ![u] = NoRow]
        \/ UNCHANGED <<local, known, operation>>
    BY <1>2
  <2>3. NoRow \in Row
    BY RowFacts
  <2> HIDE DEF FullInv, MembershipInv
  <2> QED BY <1>3, <2>1, <2>2, <2>3
<1>10. \A v \in Users : v # u => /\ local'[v] = local[v] /\ known'[v] = known[v]
                                 /\ operation'[v] = operation[v]
                                 /\ v \in deleted' <=> v \in deleted
  BY <1>2 DEF MembershipTyped
<1>11. \/ local'[u] = n /\ known'[u] = {} /\ operation'[u] = NoRow /\ u \in deleted'
       \/ /\ local'[u] = local[u] /\ known'[u] = known[u] /\ operation'[u] = operation[u]
          /\ u \in deleted' <=> u \in deleted
  BY <1>2 DEF MembershipTyped
<1>12. \A v \in Users : /\ TreeOf(local[v])' = TreeOf(local'[v])
                        /\ GroupEpoch(local[v])' = GroupEpoch(local'[v])
  BY <1>2 DEF TreeOf, GroupEpoch
<1>13. MembershipTyped'
  BY <1>2, <1>6, <1>8, <1>9 DEF MembershipTyped
<1>14. CommitsFit' /\ ProfilesFit'
  BY <1>2, <1>6 DEF CommitsFit, CommitFits, ProfilesFit
<1>15. ProposalsFit'
  <2>1. ASSUME NEW v \in Users, NEW l \in known'[v] PROVE TreeOf(local'[v])[l] \in outsiders
    BY <1>10, <1>11, <2>1 DEF ProposalsFit
  <2> QED BY <1>2, <1>12, <2>1 DEF ProposalsFit
<1>16. MessagesFit'
  <2>1. ASSUME NEW m, MessageFits(m) PROVE MessageFits(m)'
    BY <1>2, <1>6, <2>1 DEF MessageFits, Accepted
  <2>2. MessageFits(x)'
    BY <1>2, <1>3, <1>6, <1>7 DEF MessageFits
  <2>3. \A v \in Users : \A i \in 1..Len(inbox[v]) : \A m : m = inbox[v][i] => MessageFits(m)'
    BY <2>1 DEF MessagesFit
  <2> QED BY <1>8, <2>2, <2>3, SentFit
<1>17. OwnLeafFits'
  <2> SUFFICES ASSUME NEW v \in Users, v \in ToSet(TreeOf(local'[v]))
               PROVE  TreeOf(local'[v])[ownLeaf[v]] = v
    BY <1>2, <1>12 DEF OwnLeafFits
  <2>1. CASE v = u /\ local'[u] = n
    BY <1>2, <1>3, <1>4, <2>1, StaysOnLeaf
  <2>2. CASE local'[v] = local[v]
    BY <2>2 DEF OwnLeafFits
  <2> QED BY <1>10, <1>11, <2>1, <2>2
<1>18. OperationFits'
  <2> SUFFICES ASSUME NEW v \in Users, operation'[v].kind = "commit"
               PROVE  /\ operation'[v].state \in States \ {0}
                      /\ commits[operation'[v].state].on = local'[v]
                      /\ commits[operation'[v].state].kind # "resync"
    BY <1>2, <1>6 DEF OperationFits
  <2>1. operation'[v] = operation[v] /\ local'[v] = local[v]
    BY <1>10, <1>11, RowFacts
  <2> QED BY <2>1 DEF OperationFits
<1>19. ResyncFits'
  <2> SUFFICES ASSUME NEW v \in Users, resync[v].commit # 0
               PROVE  /\ resync[v].leaf # 0
                      /\ resync[v].commit = local'[v]
                      /\ commits[local'[v]].kind = "resync" /\ commits[local'[v]].by = v
                      /\ TreeOf(local'[v])[ownLeaf[v]] = v
    BY <1>2, <1>12 DEF ResyncFits
  <2>1. v # u
    BY <1>2
  <2> QED BY <1>10, <2>1 DEF ResyncFits
<1>20. ResyncsPast'
  <2>1. \A v \in Users : local[v] \in States /\ local'[v] \in States
    BY <1>9 DEF MembershipTyped
  <2>2. \A v \in Users : GroupEpoch(local[v]) \in Nat /\ GroupEpoch(local'[v]) \in Nat
    BY <2>1, StateFacts
  <2>3. \A v \in Users : GroupEpoch(local[v]) <= GroupEpoch(local'[v])
    BY <1>3, <1>5, <1>10, <1>11, <2>2 DEF CommitFits
  <2> SUFFICES ASSUME NEW m \in 1..Len(commits), commits[m].kind = "resync"
               PROVE  /\ GroupEpoch(commits[m].on) <= GroupEpoch(head)
                      /\ GroupEpoch(commits[m].on) < GroupEpoch(local'[commits[m].by])
    <3>1. \A m : /\ GroupEpoch(commits[m].on)' = GroupEpoch(commits[m].on)
                 /\ GroupEpoch(local[commits[m].by])' = GroupEpoch(local'[commits[m].by])
      BY <1>2 DEF GroupEpoch
    <3>2. GroupEpoch(head)' = GroupEpoch(head)
      BY <1>2, <1>6
    <3> QED BY <1>2, <3>1, <3>2 DEF ResyncsPast
  <2>4. m \in States /\ m # 0
    BY DEF MembershipTyped, States
  <2>5. commits[m].by \in Users /\ commits[m].on \in States
    BY <2>4, CommitFacts DEF Commit
  <2>6. GroupEpoch(commits[m].on) \in Nat
    BY <2>5, StateFacts
  <2>7. /\ GroupEpoch(commits[m].on) <= GroupEpoch(head)
        /\ GroupEpoch(commits[m].on) < GroupEpoch(local[commits[m].by])
    BY DEF ResyncsPast
  <2> QED BY <2>2, <2>3, <2>5, <2>6, <2>7
<1>21. \A v : InGroup(v)' <=> InGroup(v)
  BY <1>2, <1>6 DEF InGroup
<1>22. RemovedIsOut'
  <2> SUFFICES ASSUME NEW v \in Users, v \notin ToSet(TreeOf(local'[v])), v \notin deleted'
               PROVE  ~InGroup(v)
    BY <1>12, <1>21 DEF RemovedIsOut
  <2>1. local'[v] = local[v] /\ v \notin deleted
    BY <1>10, <1>11
  <2> QED BY <2>1 DEF RemovedIsOut
<1>23. LeaveKnown'
  <2> SUFFICES ASSUME NEW v \in asked \ (forgotten \union deleted'), InGroup(v)
               PROVE  operation'[v].kind = "leave" \/ v \in outsiders
    BY <1>2, <1>21 DEF LeaveKnown
  <2>1. v \notin deleted /\ v \in Users
    BY <1>2, <1>4
  <2>2. CASE v = u
    BY <1>2, <2>1, <2>2 DEF LeaveKnown
  <2>3. CASE v # u
    BY <1>10, <2>1, <2>3 DEF LeaveKnown
  <2> QED BY <2>2, <2>3
<1>24. ChainsFit'
  <2> SUFFICES ASSUME NEW v \in Users, Following(v)' PROVE Chain(inbox[v], local[v], head)'
    BY DEF ChainsFit
  <2>1. PICK q, s, h : q = inbox'[v] /\ s = local'[v] /\ h = head'
    OBVIOUS
  <2>2. v \notin deleted' /\ InGroup(v) /\ resync[v] = NoResync /\ v \notin droppedResync
    BY <1>2, <1>21 DEF Following
  <2>3. local'[v] = local[v] /\ v \notin deleted
    BY <1>10, <1>11, <2>2
  <2>4. Chain(inbox[v], local[v], head)
    BY <2>2, <2>3 DEF ChainsFit, Following
  <2>5. commits[x.state].kind = "delete"
    BY <1>2, <1>7
  <2>6. Chain(inbox'[v], local[v], head)
    BY <1>8, <2>4, <2>5, ChainLonger
  <2> QED BY <1>2, <1>6, <2>1, <2>3, <2>6
<1>25. ProposalsCome'
  BY <1>2 DEF ProposalsCome
<1> QED BY <1>13, <1>14, <1>15, <1>16, <1>17, <1>18, <1>19, <1>20, <1>22, <1>23, <1>24, <1>25

-----------------------------------------------------------------------------
(***************************************************************************)
(* A client receives.                                                      *)
(***************************************************************************)

(* What has to be shown when a client takes the first message of its       *)
(* queue: q, s and kn are its queue, state and proposals afterwards.       *)
LEMMA ReceivedInv ==
  ASSUME FullInv, NEW u \in Users, NEW q \in Seq(Message), NEW s \in States,
         NEW kn \in SUBSET Leaves, Shorter(inbox[u], q), inbox' = [inbox EXCEPT ![u] = q],
         local' = [local EXCEPT ![u] = s], known' = [known EXCEPT ![u] = kn],
         UNCHANGED <<commits, groupStateVars, resync, ownLeaf, asked, forgotten, droppedResync>>,
         operation' \in [Users -> Row],
         \A v \in Users : v # u => operation'[v] = operation[v] /\ (v \in deleted' <=> v \in deleted),
         u \in deleted => u \in deleted', resync[u].commit = 0,
         operation'[u].kind = "commit" => operation'[u] = operation[u] /\ s = local[u],
         GroupEpoch(local[u]) <= GroupEpoch(s),
         \A l \in kn : TreeOf(s)[l] \in outsiders,
         u \in ToSet(TreeOf(s)) => TreeOf(s)[ownLeaf[u]] = u,
         u \notin ToSet(TreeOf(s)) /\ u \notin deleted' => ~InGroup(u),
         u \in asked \ (forgotten \union deleted') /\ InGroup(u)
            => operation'[u].kind = "leave" \/ u \in outsiders,
         Following(u) /\ u \notin deleted' =>
           /\ Chain(q, s, head)
           /\ \A l \in proposed : TreeOf(head)[l] # u => Comes(q, s, head, kn, l)
  PROVE  FullInv'
<1> USE DEF FullInv, MembershipInv
<1>1. /\ States' = States
      /\ \A m : TreeOf(m)' = TreeOf(m) /\ GroupEpoch(m)' = GroupEpoch(m)
      /\ \A p, r, h : Chain(p, r, h)' <=> Chain(p, r, h)
      /\ \A p, r, h, k, l : Comes(p, r, h, k, l)' <=> Comes(p, r, h, k, l)
  BY SameStates
<1>2. UNCHANGED <<head, proposed, profiles, outsiders>> /\ asked \subseteq Users
  BY DEF groupStateVars, MembershipTyped
<1>3. /\ inbox' \in [Users -> Seq(Message)] /\ local' \in [Users -> States]
      /\ known' \in [Users -> SUBSET Leaves]
  BY DEF MembershipTyped
<1>4. inbox'[u] = q /\ local'[u] = s /\ known'[u] = kn
  BY DEF MembershipTyped
<1>5. \A v \in Users : v # u =>
        inbox'[v] = inbox[v] /\ local'[v] = local[v] /\ known'[v] = known[v]
  BY DEF MembershipTyped
<1>6. \A v \in Users : /\ TreeOf(local[v])' = TreeOf(local'[v])
                       /\ GroupEpoch(local[v])' = GroupEpoch(local'[v])
  BY DEF TreeOf, GroupEpoch
<1>7. MembershipTyped'
  BY <1>1, <1>2, <1>3 DEF MembershipTyped
<1>8. CommitsFit' /\ ProfilesFit'
  BY <1>1, <1>2 DEF CommitsFit, CommitFits, ProfilesFit
<1>9. ProposalsFit'
  <2>1. ASSUME NEW v \in Users, NEW l \in known'[v] PROVE TreeOf(local'[v])[l] \in outsiders
    <3>1. CASE v = u
      BY <1>4, <2>1, <3>1
    <3>2. CASE v # u
      BY <1>5, <2>1, <3>2 DEF ProposalsFit
    <3> QED BY <3>1, <3>2
  <2> QED BY <1>1, <1>2, <1>6, <2>1 DEF ProposalsFit
<1>10. MessagesFit'
  <2> SUFFICES ASSUME NEW v \in Users, NEW i \in 1..Len(inbox'[v]), NEW m, m = inbox'[v][i]
               PROVE  MessageFits(m)'
    BY DEF MessagesFit
  <2>1. MessageFits(m) => MessageFits(m)'
    BY <1>1, <1>2 DEF MessageFits, Accepted
  <2>2. CASE v = u
    <3>1. i + 1 \in 1..Len(inbox[u]) /\ m = inbox[u][i + 1]
      BY <1>4, <2>2 DEF Shorter
    <3> QED BY <2>1, <3>1 DEF MessagesFit
  <2>3. CASE v # u
    BY <1>5, <2>1, <2>3 DEF MessagesFit
  <2> QED BY <2>2, <2>3
<1>11. OwnLeafFits'
  <2> SUFFICES ASSUME NEW v \in Users, v \in ToSet(TreeOf(local'[v]))
               PROVE  TreeOf(local'[v])[ownLeaf[v]] = v
    BY <1>6 DEF OwnLeafFits
  <2>1. CASE v = u
    BY <1>4, <2>1
  <2>2. CASE v # u
    BY <1>5, <2>2 DEF OwnLeafFits
  <2> QED BY <2>1, <2>2
<1>12. OperationFits'
  <2> SUFFICES ASSUME NEW v \in Users, operation'[v].kind = "commit"
               PROVE  /\ operation'[v].state \in States \ {0}
                      /\ commits[operation'[v].state].on = local'[v]
                      /\ commits[operation'[v].state].kind # "resync"
    BY <1>1 DEF OperationFits
  <2>1. operation'[v] = operation[v] /\ local'[v] = local[v]
    BY <1>4, <1>5
  <2> QED BY <2>1 DEF OperationFits
<1>13. ResyncFits'
  <2> SUFFICES ASSUME NEW v \in Users, resync[v].commit # 0
               PROVE  /\ resync[v].leaf # 0
                      /\ resync[v].commit = local'[v]
                      /\ commits[local'[v]].kind = "resync" /\ commits[local'[v]].by = v
                      /\ TreeOf(local'[v])[ownLeaf[v]] = v
    BY <1>6 DEF ResyncFits
  <2> QED BY <1>5 DEF ResyncFits
<1>14. ResyncsPast'
  <2>1. \A v \in Users : local[v] \in States /\ local'[v] \in States
    BY <1>3 DEF MembershipTyped
  <2>2. \A v \in Users : GroupEpoch(local[v]) \in Nat /\ GroupEpoch(local'[v]) \in Nat
    BY <2>1, StateFacts
  <2>3. \A v \in Users : GroupEpoch(local[v]) <= GroupEpoch(local'[v])
    BY <1>4, <1>5, <2>2
  <2> SUFFICES ASSUME NEW m \in 1..Len(commits), commits[m].kind = "resync"
               PROVE  /\ GroupEpoch(commits[m].on) <= GroupEpoch(head)
                      /\ GroupEpoch(commits[m].on) < GroupEpoch(local'[commits[m].by])
    <3>1. \A m : /\ GroupEpoch(commits[m].on)' = GroupEpoch(commits[m].on)
                 /\ GroupEpoch(local[commits[m].by])' = GroupEpoch(local'[commits[m].by])
      BY DEF GroupEpoch
    <3>2. GroupEpoch(head)' = GroupEpoch(head)
      BY <1>1, <1>2
    <3> QED BY <3>1, <3>2 DEF ResyncsPast
  <2>4. m \in States /\ m # 0
    BY DEF MembershipTyped, States
  <2>5. commits[m].by \in Users /\ commits[m].on \in States
    BY <2>4, CommitFacts DEF Commit
  <2>6. GroupEpoch(commits[m].on) \in Nat
    BY <2>5, StateFacts
  <2>7. /\ GroupEpoch(commits[m].on) <= GroupEpoch(head)
        /\ GroupEpoch(commits[m].on) < GroupEpoch(local[commits[m].by])
    BY DEF ResyncsPast
  <2> QED BY <2>2, <2>3, <2>5, <2>6, <2>7
<1>15. \A v : InGroup(v)' <=> InGroup(v)
  BY <1>1, <1>2 DEF InGroup
<1>16. RemovedIsOut'
  <2> SUFFICES ASSUME NEW v \in Users, v \notin ToSet(TreeOf(local'[v])), v \notin deleted'
               PROVE  ~InGroup(v)
    BY <1>6, <1>15 DEF RemovedIsOut
  <2>1. CASE v = u
    BY <1>4, <2>1
  <2>2. CASE v # u
    BY <1>5, <2>2 DEF RemovedIsOut
  <2> QED BY <2>1, <2>2
<1>17. LeaveKnown'
  <2> SUFFICES ASSUME NEW v \in asked \ (forgotten \union deleted'), InGroup(v)
               PROVE  operation'[v].kind = "leave" \/ v \in outsiders
    BY <1>2, <1>15 DEF LeaveKnown
  <2>1. v \in Users
    BY <1>2
  <2>2. CASE v = u
    BY <2>2
  <2>3. CASE v # u
    BY <2>1, <2>3 DEF LeaveKnown
  <2> QED BY <2>2, <2>3
<1>18. ASSUME NEW v \in Users, Following(v)'
       PROVE  /\ Chain(inbox'[v], local'[v], head)
              /\ \A l \in proposed : TreeOf(head)[l] # v =>
                   Comes(inbox'[v], local'[v], head, known'[v], l)
  <2>1. v \notin deleted' /\ Following(v)
    BY <1>15, <1>18 DEF Following
  <2>2. CASE v = u
    BY <1>4, <2>1, <2>2
  <2>3. CASE v # u
    BY <1>5, <2>1, <2>3 DEF ChainsFit, ProposalsCome
  <2> QED BY <2>2, <2>3
<1>19. ChainsFit'
  <2> SUFFICES ASSUME NEW v \in Users, Following(v)' PROVE Chain(inbox[v], local[v], head)'
    BY DEF ChainsFit
  <2>1. PICK p, r, h : p = inbox'[v] /\ r = local'[v] /\ h = head'
    OBVIOUS
  <2> QED BY <1>1, <1>2, <1>18, <2>1
<1>20. ProposalsCome'
  <2> SUFFICES ASSUME NEW v \in Users, Following(v)', NEW l \in proposed, TreeOf(head)[l] # v
               PROVE  Comes(inbox[v], local[v], head, known[v], l)'
    BY <1>1, <1>2 DEF ProposalsCome
  <2>1. PICK p, r, h, k : p = inbox'[v] /\ r = local'[v] /\ h = head' /\ k = known'[v]
    OBVIOUS
  <2> QED BY <1>1, <1>2, <1>18, <2>1
<1> QED BY <1>7, <1>8, <1>9, <1>10, <1>11, <1>12, <1>13, <1>14, <1>16, <1>17, <1>19, <1>20

(* The queue after its first message was taken.                            *)
LEMMA NextMessageFacts ==
  ASSUME FullInv, NEW u \in Users, NEW kind, ReceivesNext(u, kind)
  PROVE  /\ Shorter(inbox[u], Tail(inbox[u])) /\ Tail(inbox[u]) \in Seq(Message)
         /\ Head(inbox[u]) = inbox[u][1] /\ 1 \in 1..Len(inbox[u])
         /\ inbox[u][1] \in Message /\ MessageFits(inbox[u][1]) /\ inbox[u][1].kind = kind
         /\ inbox' = [inbox EXCEPT ![u] = Tail(inbox[u])]
         /\ resync[u].commit = 0 /\ local[u] \in States
         /\ UNCHANGED <<commits, groupStateVars, resync, asked, forgotten, droppedResync>>
<1>1. inbox[u] \in Seq(Message) /\ inbox[u] # <<>> /\ Head(inbox[u]).kind = kind
  BY DEF ReceivesNext, FullInv, MembershipInv, MembershipTyped
<1>2. /\ Shorter(inbox[u], Tail(inbox[u])) /\ Tail(inbox[u]) \in Seq(Message)
      /\ Head(inbox[u]) = inbox[u][1] /\ Head(inbox[u]) \in Message
  BY <1>1, TailIsShorter
<1>3. 1 \in 1..Len(inbox[u])
  BY <1>2 DEF Shorter
<1>4. MessageFits(inbox[u][1])
  BY <1>3 DEF FullInv, MembershipInv, MessagesFit
<1>5. inbox' = [inbox EXCEPT ![u] = Tail(inbox[u])] /\ resync[u].commit = 0
  BY DEF ReceivesNext, CanWrite
<1>6. /\ UNCHANGED <<commits, groupStateVars, resync, asked, forgotten, droppedResync>>
      /\ local[u] \in States
  BY DEF ReceivesNext, FullInv, MembershipInv, MembershipTyped
<1> QED BY <1>1, <1>2, <1>3, <1>4, <1>5, <1>6

(* What a copy that stays on its state has kept.                           *)
LEMMA SameCopy ==
  ASSUME FullInv, NEW u \in Users
  PROVE  /\ local[u] \in States /\ GroupEpoch(local[u]) <= GroupEpoch(local[u])
         /\ local = [local EXCEPT ![u] = local[u]] /\ operation \in [Users -> Row]
         /\ known \in [Users -> SUBSET Leaves] /\ known = [known EXCEPT ![u] = known[u]]
         /\ \A l \in known[u] : TreeOf(local[u])[l] \in outsiders
         /\ u \in ToSet(TreeOf(local[u])) => TreeOf(local[u])[ownLeaf[u]] = u
         /\ u \notin ToSet(TreeOf(local[u])) /\ u \notin deleted => ~InGroup(u)
         /\ u \in asked \ (forgotten \union deleted) /\ InGroup(u)
              => operation[u].kind = "leave" \/ u \in outsiders
         /\ Following(u) =>
              /\ Chain(inbox[u], local[u], head)
              /\ \A l \in proposed : TreeOf(head)[l] # u
                    => Comes(inbox[u], local[u], head, known[u], l)
<1> USE DEF FullInv, MembershipInv
<1>1. /\ local[u] \in States /\ local = [local EXCEPT ![u] = local[u]]
      /\ operation \in [Users -> Row] /\ known \in [Users -> SUBSET Leaves]
      /\ known = [known EXCEPT ![u] = known[u]]
  BY DEF MembershipTyped
<1>2. GroupEpoch(local[u]) \in Nat
  BY <1>1, StateFacts
<1>3. \A l \in known[u] : TreeOf(local[u])[l] \in outsiders
  BY DEF ProposalsFit
<1>4. /\ u \in ToSet(TreeOf(local[u])) => TreeOf(local[u])[ownLeaf[u]] = u
      /\ u \notin ToSet(TreeOf(local[u])) /\ u \notin deleted => ~InGroup(u)
  BY DEF OwnLeafFits, RemovedIsOut
<1>5. u \in asked \ (forgotten \union deleted) /\ InGroup(u)
        => operation[u].kind = "leave" \/ u \in outsiders
  BY DEF LeaveKnown
<1>6. Following(u) =>
        /\ Chain(inbox[u], local[u], head)
        /\ \A l \in proposed : TreeOf(head)[l] # u
              => Comes(inbox[u], local[u], head, known[u], l)
  BY DEF ChainsFit, ProposalsCome
<1> QED BY <1>1, <1>2, <1>3, <1>4, <1>5, <1>6

(* A proposal is stored, or dropped when it is for another state.          *)
LEMMA ReceiveLeaveInv ==
  ASSUME FullInv, NEW u \in Users, ReceiveLeave(u) PROVE FullInv'
<1>1. /\ Shorter(inbox[u], Tail(inbox[u])) /\ Tail(inbox[u]) \in Seq(Message)
      /\ Head(inbox[u]) = inbox[u][1]
      /\ MessageFits(inbox[u][1]) /\ inbox[u][1].kind = "leave"
      /\ inbox' = [inbox EXCEPT ![u] = Tail(inbox[u])]
      /\ resync[u].commit = 0 /\ local[u] \in States
      /\ UNCHANGED <<commits, groupStateVars, resync, asked, forgotten, droppedResync>>
  BY NextMessageFacts DEF ReceiveLeave
<1>2. PICK q, s, m : q = Tail(inbox[u]) /\ s = local[u] /\ m = inbox[u][1]
  OBVIOUS
<1>3. PICK kn : kn = known[u] \union (IF m.state = s THEN {m.leaf} ELSE {})
  OBVIOUS
<1>4. /\ local = [local EXCEPT ![u] = s] /\ known \in [Users -> SUBSET Leaves]
      /\ GroupEpoch(local[u]) <= GroupEpoch(s) /\ operation \in [Users -> Row]
      /\ known = [known EXCEPT ![u] = known[u]]
      /\ \A l \in known[u] : TreeOf(s)[l] \in outsiders
      /\ u \in ToSet(TreeOf(s)) => TreeOf(s)[ownLeaf[u]] = u
      /\ u \notin ToSet(TreeOf(s)) /\ u \notin deleted => ~InGroup(u)
      /\ u \in asked \ (forgotten \union deleted) /\ InGroup(u)
           => operation[u].kind = "leave" \/ u \in outsiders
      /\ Following(u) =>
           /\ Chain(inbox[u], s, head)
           /\ \A l \in proposed : TreeOf(head)[l] # u
                 => Comes(inbox[u], s, head, known[u], l)
  BY <1>2, SameCopy
<1>5. known' = [known EXCEPT ![u] = kn]
  <2>1. CASE m.state # s
    <3>1. known' = known /\ kn = known[u]
      BY <1>1, <1>2, <1>3, <2>1 DEF ReceiveLeave
    <3> QED BY <1>4, <3>1
  <2>2. CASE m.state = s
    BY <1>1, <1>2, <1>3, <2>2 DEF ReceiveLeave
  <2> QED BY <2>1, <2>2
<1>6. /\ m.leaf \in Leaves /\ TreeOf(m.state)[m.leaf] \in outsiders
  BY <1>1, <1>2 DEF MessageFits
<1>7. kn \in SUBSET Leaves /\ \A l \in kn : TreeOf(s)[l] \in outsiders
  BY <1>3, <1>4, <1>6
<1>8. UNCHANGED <<local, ownLeaf, operation, deleted>>
  BY DEF ReceiveLeave
<1>9. ASSUME Following(u)
      PROVE  /\ Chain(q, s, head)
             /\ \A l \in proposed : TreeOf(head)[l] # u => Comes(q, s, head, kn, l)
  <2>1. ~Moves(inbox[u], s, 1)
    BY <1>1 DEF Moves
  <2>2. Chain(q, s, head)
    BY <1>1, <1>2, <1>4, <1>9, <2>1, ChainShorter
  <2>3. /\ known[u] \subseteq kn
        /\ inbox[u][1].kind = "leave" /\ inbox[u][1].state = s => inbox[u][1].leaf \in kn
    BY <1>2, <1>3
  <2>4. ASSUME NEW l \in proposed, TreeOf(head)[l] # u PROVE Comes(q, s, head, kn, l)
    <3>1. Comes(inbox[u], s, head, known[u], l) /\ Shorter(inbox[u], q)
      BY <1>1, <1>2, <1>4, <1>9, <2>4
    <3> QED BY <2>1, <2>3, <3>1, ComesShorter
  <2> QED BY <2>2, <2>4
<1>10. /\ q \in Seq(Message) /\ s \in States /\ Shorter(inbox[u], q)
       /\ inbox' = [inbox EXCEPT ![u] = q]
  BY <1>1, <1>2
<1>11. local' = [local EXCEPT ![u] = s] /\ operation'[u] = operation[u] /\ s = local[u]
       /\ operation' \in [Users -> Row]
  BY <1>2, <1>4, <1>8
<1>12. /\ UNCHANGED <<commits, groupStateVars, resync, ownLeaf, asked, forgotten, droppedResync>>
       /\ \A v \in Users : v # u =>
            operation'[v] = operation[v] /\ (v \in deleted' <=> v \in deleted)
       /\ u \in deleted => u \in deleted'
       /\ operation'[u].kind = "commit" => operation'[u] = operation[u] /\ s = local[u]
  BY <1>1, <1>8, <1>11
<1>13. /\ u \notin ToSet(TreeOf(s)) /\ u \notin deleted' => ~InGroup(u)
       /\ u \in asked \ (forgotten \union deleted') /\ InGroup(u)
            => operation'[u].kind = "leave" \/ u \in outsiders
  BY <1>4, <1>8
<1>14. Following(u) /\ u \notin deleted' =>
         /\ Chain(q, s, head)
         /\ \A l \in proposed : TreeOf(head)[l] # u => Comes(q, s, head, kn, l)
  BY <1>9
<1>15. /\ resync[u].commit = 0 /\ GroupEpoch(local[u]) <= GroupEpoch(s)
       /\ u \in ToSet(TreeOf(s)) => TreeOf(s)[ownLeaf[u]] = u
  BY <1>1, <1>4
<1> QED BY <1>5, <1>7, <1>10, <1>11, <1>12, <1>13, <1>14, <1>15, ReceivedInv

(* A commit that the copy does not merge moves nobody who follows.         *)
LEMMA ReceiveOtherInv ==
  ASSUME FullInv, NEW u \in Users, ReceiveOther(u) PROVE FullInv'
<1>1. /\ Shorter(inbox[u], Tail(inbox[u])) /\ Tail(inbox[u]) \in Seq(Message)
      /\ Head(inbox[u]) = inbox[u][1]
      /\ MessageFits(inbox[u][1]) /\ inbox[u][1].kind = "commit"
      /\ inbox' = [inbox EXCEPT ![u] = Tail(inbox[u])]
      /\ resync[u].commit = 0 /\ local[u] \in States
      /\ UNCHANGED <<commits, groupStateVars, resync, asked, forgotten, droppedResync>>
  BY NextMessageFacts DEF ReceiveOther
<1>2. PICK q, s, kn : q = Tail(inbox[u]) /\ s = local[u] /\ kn = known[u]
  OBVIOUS
<1>3. /\ local = [local EXCEPT ![u] = s] /\ known \in [Users -> SUBSET Leaves]
      /\ GroupEpoch(local[u]) <= GroupEpoch(s) /\ operation \in [Users -> Row]
      /\ known = [known EXCEPT ![u] = kn] /\ kn \in SUBSET Leaves
      /\ \A l \in kn : TreeOf(s)[l] \in outsiders
      /\ u \in ToSet(TreeOf(s)) => TreeOf(s)[ownLeaf[u]] = u
      /\ u \notin ToSet(TreeOf(s)) /\ u \notin deleted => ~InGroup(u)
      /\ u \in asked \ (forgotten \union deleted) /\ InGroup(u)
           => operation[u].kind = "leave" \/ u \in outsiders
      /\ Following(u) =>
           /\ Chain(inbox[u], s, head)
           /\ \A l \in proposed : TreeOf(head)[l] # u
                 => Comes(inbox[u], s, head, kn, l)
  BY <1>2, SameCopy
<1>4. UNCHANGED <<local, known, ownLeaf, operation, deleted>>
  BY DEF ReceiveOther, copyVars
<1>5. commits[inbox[u][1].state].on # s \/ u \notin ToSet(TreeOf(s))
  BY <1>1, <1>2 DEF ReceiveOther
<1>6. ASSUME Following(u)
      PROVE  /\ Chain(q, s, head)
             /\ \A l \in proposed : TreeOf(head)[l] # u => Comes(q, s, head, kn, l)
  <2>1. commits[inbox[u][1].state].on # s
    BY <1>3, <1>5, <1>6 DEF Following
  <2>2. ~Moves(inbox[u], s, 1)
    BY <1>1, <1>3, <1>6, <2>1, ChainHead
  <2>3. Chain(q, s, head)
    BY <1>1, <1>2, <1>3, <1>6, <2>2, ChainShorter
  <2>4. inbox[u][1].kind = "leave" /\ inbox[u][1].state = s => inbox[u][1].leaf \in kn
    BY <1>1
  <2>5. ASSUME NEW l \in proposed, TreeOf(head)[l] # u PROVE Comes(q, s, head, kn, l)
    <3>1. Comes(inbox[u], s, head, kn, l) /\ Shorter(inbox[u], q) /\ kn \subseteq kn
      BY <1>1, <1>2, <1>3, <1>6, <2>5
    <3> QED BY <2>2, <2>4, <3>1, ComesShorter
  <2> QED BY <2>3, <2>5
<1>7. /\ q \in Seq(Message) /\ s \in States /\ Shorter(inbox[u], q)
      /\ inbox' = [inbox EXCEPT ![u] = q]
  BY <1>1, <1>2
<1>8. /\ local' = [local EXCEPT ![u] = s] /\ known' = [known EXCEPT ![u] = kn]
      /\ operation' \in [Users -> Row]
  BY <1>3, <1>4
<1>9. /\ UNCHANGED <<commits, groupStateVars, resync, ownLeaf, asked, forgotten, droppedResync>>
      /\ \A v \in Users : v # u =>
           operation'[v] = operation[v] /\ (v \in deleted' <=> v \in deleted)
      /\ u \in deleted => u \in deleted'
      /\ operation'[u].kind = "commit" => operation'[u] = operation[u] /\ s = local[u]
  BY <1>1, <1>2, <1>4
<1>10. /\ u \notin ToSet(TreeOf(s)) /\ u \notin deleted' => ~InGroup(u)
       /\ u \in asked \ (forgotten \union deleted') /\ InGroup(u)
            => operation'[u].kind = "leave" \/ u \in outsiders
  BY <1>3, <1>4
<1>11. Following(u) /\ u \notin deleted' =>
         /\ Chain(q, s, head)
         /\ \A l \in proposed : TreeOf(head)[l] # u => Comes(q, s, head, kn, l)
  BY <1>6
<1>12. /\ resync[u].commit = 0 /\ GroupEpoch(local[u]) <= GroupEpoch(s)
       /\ u \in ToSet(TreeOf(s)) => TreeOf(s)[ownLeaf[u]] = u
       /\ kn \in SUBSET Leaves /\ \A l \in kn : TreeOf(s)[l] \in outsiders
  BY <1>1, <1>3
<1> QED BY <1>7, <1>8, <1>9, <1>10, <1>11, <1>12, ReceivedInv

(* A commit is merged.  A leave operation ends only if the commit covers   *)
(* it: then the DS had taken it.                                           *)
LEMMA ReceiveCommitInv ==
  ASSUME FullInv, NEW u \in Users, ReceiveCommit(u) PROVE FullInv'
<1> USE DEF FullInv, MembershipInv
<1>1. /\ Shorter(inbox[u], Tail(inbox[u])) /\ Tail(inbox[u]) \in Seq(Message)
      /\ Head(inbox[u]) = inbox[u][1] /\ 1 \in 1..Len(inbox[u])
      /\ MessageFits(inbox[u][1]) /\ inbox[u][1].kind = "commit"
      /\ inbox' = [inbox EXCEPT ![u] = Tail(inbox[u])]
      /\ resync[u].commit = 0 /\ local[u] \in States
      /\ UNCHANGED <<commits, groupStateVars, resync, asked, forgotten, droppedResync>>
  BY NextMessageFacts DEF ReceiveCommit
<1>2. PICK q, n, s : q = Tail(inbox[u]) /\ n = inbox[u][1].state /\ s = local[u]
  OBVIOUS
<1>3. /\ commits[n].on = s /\ u \in ToSet(TreeOf(s))
      /\ local' = [local EXCEPT ![u] = n] /\ known' = [known EXCEPT ![u] = {}]
      /\ operation' = IF KeepsRow(u, n) THEN operation ELSE [operation EXCEPT ![u] = NoRow]
      /\ deleted' = IF commits[n].kind = "delete" THEN deleted \union {u} ELSE deleted
      /\ UNCHANGED ownLeaf
  BY <1>1, <1>2 DEF ReceiveCommit
<1>4. /\ n \in States /\ n # 0 /\ s \in States
      /\ commits[n].kind # "delete" => Accepted(n)
  BY <1>1, <1>2 DEF MessageFits
<1>5. /\ CommitFits(n) /\ commits[n] \in Commit /\ GroupEpoch(n) = commits[n].epoch
      /\ n \in 1..Len(commits)
  BY <1>4, CommitFacts
<1>6. /\ GroupEpoch(n) \in Nat /\ GroupEpoch(s) \in Nat /\ TreeOf(n) \in Trees
      /\ TreeOf(s) \in Trees
  BY <1>4, StateFacts
<1>7. GroupEpoch(n) = GroupEpoch(s) + 1
  BY <1>3, <1>5 DEF CommitFits
<1>8. commits[n].kind = "resync" => commits[n].by # u
  BY <1>2, <1>3, <1>5, <1>6 DEF ResyncsPast
<1>9. TreeOf(s)[ownLeaf[u]] = u /\ ownLeaf[u] \in Leaves
  BY <1>2, <1>3 DEF OwnLeafFits, MembershipTyped
<1>10. u \in ToSet(TreeOf(n)) => TreeOf(n)[ownLeaf[u]] = u
  BY <1>3, <1>4, <1>8, <1>9, StaysOnLeaf
<1>11. /\ operation' \in [Users -> Row]
       /\ \A v \in Users : v # u => operation'[v] = operation[v]
       /\ operation'[u] = IF KeepsRow(u, n) THEN operation[u] ELSE NoRow
  BY <1>3, RowFacts DEF MembershipTyped
<1>12. operation'[u].kind # "commit"
  BY <1>11, RowFacts DEF KeepsRow
<1>13. ASSUME u \notin ToSet(TreeOf(n)), u \notin deleted' PROVE ~InGroup(u)
  <2>1. Accepted(n)
    BY <1>3, <1>4, <1>13
  <2>2. ASSUME InGroup(u) PROVE FALSE
    <3>1. TreeOf(head) \in Trees
      BY StateFacts DEF MembershipTyped
    <3>2. PICK k \in Leaves : TreeOf(head)[k] = u
      BY <2>2, <3>1, InTree DEF InGroup
    <3>3. u # Nobody
      BY FirstTree
    <3> QED BY <1>13, <2>1, <3>2, <3>3 DEF Accepted
  <2> QED BY <2>2
<1>14. ASSUME u \in asked \ (forgotten \union deleted'), InGroup(u)
       PROVE  operation'[u].kind = "leave" \/ u \in outsiders
  <2>1. operation[u].kind = "leave" \/ u \in outsiders
    BY <1>3, <1>14 DEF LeaveKnown
  <2>2. ASSUME operation[u].kind = "leave", ~KeepsRow(u, n) PROVE u \in outsiders
    <3>1. ownLeaf[u] \in commits[n].left
      BY <2>2 DEF KeepsRow
    <3> QED BY <1>3, <1>5, <1>9, <3>1 DEF CommitFits
  <2> QED BY <1>11, <2>1, <2>2
<1>15. ASSUME Following(u), u \notin deleted'
       PROVE  /\ Chain(q, n, head)
              /\ \A l \in proposed : TreeOf(head)[l] # u => Comes(q, n, head, {}, l)
  <2>1. commits[n].kind # "delete"
    BY <1>3, <1>15
  <2>2. Moves(inbox[u], s, 1)
    BY <1>1, <1>2, <1>6, <1>7, <2>1 DEF Moves
  <2>3. Chain(inbox[u], s, head) /\ Shorter(inbox[u], q)
    BY <1>1, <1>2, <1>15 DEF ChainsFit
  <2>4. /\ QueueEpochs(inbox[u])
        /\ \A i \in 1..Len(inbox[u]) :
              inbox[u][i].kind = "commit" /\ commits[inbox[u][i].state].kind # "delete" =>
                /\ GroupEpoch(inbox[u][i].state) <= GroupEpoch(head)
                /\ GroupEpoch(inbox[u][i].state)
                     = GroupEpoch(commits[inbox[u][i].state].on) + 1
    BY QueueFacts
  <2>5. GroupEpoch(head) \in Nat
    BY StateFacts DEF MembershipTyped
  <2>6. commits[inbox[u][1].state].on = s
    BY <1>2, <1>3
  <2>7. Chain(q, n, head)
    BY <1>2, <1>6, <2>2, <2>3, <2>4, <2>5, <2>6, ChainFollowed
  <2>8. ASSUME NEW l \in proposed, TreeOf(head)[l] # u PROVE Comes(q, n, head, {}, l)
    <3>1. Comes(inbox[u], s, head, known[u], l)
      BY <1>2, <1>15, <2>8 DEF ProposalsCome
    <3> QED BY <1>2, <1>6, <2>2, <2>3, <2>4, <2>5, <2>6, <3>1, ComesFollowed
  <2> QED BY <2>7, <2>8
<1>16. /\ q \in Seq(Message) /\ Shorter(inbox[u], q) /\ inbox' = [inbox EXCEPT ![u] = q]
       /\ {} \in SUBSET Leaves
  BY <1>1, <1>2
<1>17. /\ UNCHANGED <<commits, groupStateVars, resync, ownLeaf, asked, forgotten, droppedResync>>
       /\ \A v \in Users : v # u =>
            operation'[v] = operation[v] /\ (v \in deleted' <=> v \in deleted)
       /\ u \in deleted => u \in deleted'
  BY <1>1, <1>3, <1>11
<1>18. GroupEpoch(local[u]) <= GroupEpoch(n)
  BY <1>2, <1>6, <1>7
<1>19. PICK kn \in SUBSET Leaves : kn = {}
  OBVIOUS
<1>20. /\ resync[u].commit = 0 /\ local' = [local EXCEPT ![u] = n]
       /\ known' = [known EXCEPT ![u] = kn] /\ \A l \in kn : TreeOf(n)[l] \in outsiders
  BY <1>1, <1>3, <1>19
<1>21. Following(u) /\ u \notin deleted' =>
         /\ Chain(q, n, head)
         /\ \A l \in proposed : TreeOf(head)[l] # u => Comes(q, n, head, kn, l)
  BY <1>15, <1>19
<1>22. /\ u \notin ToSet(TreeOf(n)) /\ u \notin deleted' => ~InGroup(u)
       /\ u \in asked \ (forgotten \union deleted') /\ InGroup(u)
            => operation'[u].kind = "leave" \/ u \in outsiders
  BY <1>13, <1>14
<1>23. operation'[u].kind = "commit" => operation'[u] = operation[u] /\ n = local[u]
  BY <1>12
<1> HIDE DEF FullInv, MembershipInv
<1> QED BY <1>4, <1>10, <1>11, <1>16, <1>17, <1>18, <1>20, <1>21, <1>22, <1>23, ReceivedInv

-----------------------------------------------------------------------------
(***************************************************************************)
(* A resync.                                                               *)
(***************************************************************************)

(* There are no more users than leaves: without user u one leaf is blank.  *)
LEMMA BlankLeaf ==
  ASSUME NEW t \in Trees, OneLeafEach(t), NEW u \in Users, \A l \in Leaves : t[l] # u
  PROVE  \E l \in Leaves : t[l] = Nobody
<1> SUFFICES ASSUME \A l \in Leaves : t[l] # Nobody PROVE FALSE
  OBVIOUS
<1>1. Leaves = 1..Len(FirstMembers) /\ Len(FirstMembers) \in Nat
  BY FirstTree
<1>2. IsFiniteSet(Leaves)
  BY <1>1, FS_Interval
<1>3. FirstMembers \in [Leaves -> Users] /\ \A v \in Users : \E l \in Leaves : FirstMembers[l] = v
  BY FirstTree DEF Trees
<1>4. FirstMembers \in Surjection(Leaves, Users)
  BY <1>3 DEF Surjection
<1>5. IsFiniteSet(Users) /\ Cardinality(Users) <= Cardinality(Leaves)
  BY <1>2, <1>4, FS_Surjection
<1>6. IsFiniteSet(Users \ {u}) /\ Cardinality(Users \ {u}) = Cardinality(Users) - 1
  BY <1>5, FS_RemoveElement
<1>7. /\ Cardinality(Users) \in Nat /\ Cardinality(Leaves) \in Nat
  BY <1>2, <1>5, FS_CardinalityType
<1>8. Cardinality(Users \ {u}) < Cardinality(Leaves)
  BY <1>5, <1>6, <1>7
<1>9. t \in [Leaves -> Users \ {u}]
  BY DEF Trees
<1>10. \E k, l \in Leaves : k # l /\ t[k] = t[l]
  BY <1>2, <1>6, <1>8, <1>9, FS_PigeonHole
<1> QED BY <1>10 DEF OneLeafEach

(* The tree that a user makes who joins anew.                              *)
LEMMA RejoinedFacts ==
  ASSUME MembershipInv, NEW u \in Users
  PROVE  /\ Rejoined(u).leaf \in Leaves /\ Rejoined(u).tree \in Trees
         /\ OneLeafEach(Rejoined(u).tree) /\ Rejoined(u).tree[Rejoined(u).leaf] = u
         /\ \A l \in Leaves : Rejoined(u).tree[l] \in {TreeOf(head)[l], Nobody, u}
         /\ \A l \in proposed : Rejoined(u).tree[l] \in {Nobody, u}
<1> DEFINE S == proposed \union LeavesOf(TreeOf(head), {u})
           old == Blank(TreeOf(head), S)
           B == LeavesOf(old, {Nobody})
           new == CHOOSE l \in B : \A k \in B : l <= k
<1>1. TreeOf(head) \in Trees /\ OneLeafEach(TreeOf(head)) /\ proposed \subseteq Leaves
  BY StateFacts DEF MembershipInv, MembershipTyped
<1>2. u # Nobody
  BY FirstTree
<1> HIDE DEF S
<1>3. /\ old \in Trees /\ OneLeafEach(old)
      /\ \A l \in Leaves : old[l] = IF l \in S THEN Nobody ELSE TreeOf(head)[l]
  BY <1>1, BlankFacts
<1>4. \A l \in Leaves : old[l] # u
  BY <1>2, <1>3 DEF LeavesOf, S
<1>5. Rejoined(u) = [leaf |-> new, tree |-> [old EXCEPT ![new] = u]]
  BY DEF Rejoined, S
<1>6. \A l : l \in B <=> l \in Leaves /\ old[l] = Nobody
  BY DEF LeavesOf
<1>7. \A l \in proposed : l \in S
  BY DEF S
<1> HIDE DEF old, B
<1>8. B \subseteq Nat /\ B # {}
  <2>1. \E l \in Leaves : old[l] = Nobody
    BY <1>3, <1>4, BlankLeaf
  <2>2. Leaves \subseteq Nat
    BY FirstTree
  <2> QED BY <1>6, <2>1, <2>2
<1>9. PICK x \in B : \A y \in B : ~(<<y, x>> \in OpToRel(<, Nat))
  BY <1>8, NatLessThanWellFounded, WFMin
<1>10. \A y \in B : x <= y
  <2>1. \A y \in B : ~(y < x)
    BY <1>8, <1>9 DEF OpToRel
  <2>2. \A y \in B : x \in Nat /\ y \in Nat
    BY <1>8
  <2> QED BY <2>1, <2>2
<1>11. new \in B
  BY <1>10
<1> HIDE DEF new
<1>12. new \in Leaves /\ old[new] = Nobody
  BY <1>6, <1>11
<1>13. PICK t : t = [old EXCEPT ![new] = u]
  OBVIOUS
<1>14. /\ t \in Trees /\ t[new] = u /\ \A l \in Leaves : l # new => t[l] = old[l]
  BY <1>3, <1>12, <1>13 DEF Trees
<1>15. OneLeafEach(t)
  BY <1>3, <1>4, <1>12, <1>14 DEF OneLeafEach
<1>16. Rejoined(u).leaf = new /\ Rejoined(u).tree = t
  BY <1>5, <1>13
<1>17. \A l \in Leaves : t[l] \in {TreeOf(head)[l], Nobody, u}
  BY <1>3, <1>14
<1>18. \A l \in proposed : t[l] \in {Nobody, u}
  BY <1>1, <1>3, <1>7, <1>14
<1> QED BY <1>12, <1>14, <1>15, <1>16, <1>17, <1>18

(* A resync is started: the copy is on a state that the group may get.     *)
LEMMA StartResyncInv ==
  ASSUME FullInv, NEW u \in Users, StartResync(u) PROVE FullInv'
<1> USE DEF FullInv, MembershipInv
<1> DEFINE t == Rejoined(u).tree
           leaf == Rejoined(u).leaf
           c == [by |-> u, kind |-> "resync", on |-> head, left |-> proposed,
                 epoch |-> GroupEpoch(head) + 1, tree |-> t]
<1> PICK N : N = Len(commits) + 1
  OBVIOUS
<1>1. head \in States /\ proposed \subseteq Leaves /\ commits \in Seq(Commit) /\ Len(commits) \in Nat
  BY DEF MembershipTyped
<1>2. /\ TreeOf(head) \in Trees /\ GroupEpoch(head) \in Nat
  BY <1>1, StateFacts
<1>3. /\ leaf \in Leaves /\ t \in Trees /\ OneLeafEach(t) /\ t[leaf] = u
      /\ \A l \in Leaves : t[l] \in {TreeOf(head)[l], Nobody, u}
      /\ \A l \in proposed : t[l] \in {Nobody, u}
  BY RejoinedFacts
<1>4. head \in Nat
  BY <1>1 DEF States
<1>5. c \in Commit
  BY <1>1, <1>2, <1>3, <1>4 DEF Commit
<1>6. /\ commits' = Append(commits, c)
      /\ resync[u].leaf # 0 /\ proposed \intersect LeavesOf(TreeOf(head), {u}) = {}
      /\ UNCHANGED <<groupStateVars, inbox, asked, droppedResync, deleted>>
      /\ ownLeaf' = [ownLeaf EXCEPT ![u] = leaf] /\ known' = [known EXCEPT ![u] = {}]
      /\ forgotten' = IF operation[u].kind = "leave" THEN forgotten \union {u} ELSE forgotten
      /\ operation' = [operation EXCEPT ![u] = NoRow]
  BY DEF StartResync, MakeCommit, DeleteRow
<1>7. /\ local' = [local EXCEPT ![u] = Len(commits')]
      /\ resync' = [resync EXCEPT ![u].commit = Len(commits')]
  BY DEF StartResync
<1> HIDE DEF c, t, leaf
<1>8. /\ commits' \in Seq(Commit) /\ Len(commits') = N /\ N \in States' /\ N \in Nat /\ N # 0
      /\ \A n \in States : n \in States' /\ n < N /\ n \in Nat
      /\ commits'[N] = c /\ TreeOf(N)' = c.tree /\ GroupEpoch(N)' = c.epoch
      /\ \A n \in 1..Len(commits) : commits'[n] = commits[n]
      /\ \A n \in States : TreeOf(n)' = TreeOf(n) /\ GroupEpoch(n)' = GroupEpoch(n)
  BY <1>5, <1>6, CommitAdded
<1>9. /\ c.by = u /\ c.kind = "resync" /\ c.on = head /\ c.left = proposed
      /\ c.epoch = GroupEpoch(head) + 1 /\ c.tree = t
  BY DEF c
<1>10. PICK z \in States : z = head
  BY <1>1
<1>11. CommitFits(N)'
  <2>1. TreeOf(z)' = TreeOf(z) /\ GroupEpoch(z)' = GroupEpoch(z) /\ z < N
    BY <1>8
  <2>2. TreeOf(commits[N].on)' = TreeOf(z) /\ GroupEpoch(commits[N].on)' = GroupEpoch(z)
    BY <1>8, <1>9, <1>10, <2>1 DEF TreeOf, GroupEpoch
  <2>3. \A l \in proposed : TreeOf(z)[l] \in outsiders' /\ TreeOf(z)[l] # u
    BY <1>1, <1>6, <1>10 DEF ProposalsFit, groupStateVars, LeavesOf
  <2> QED BY <1>3, <1>8, <1>9, <1>10, <2>1, <2>2, <2>3 DEF CommitFits
<1>12. /\ CommitsFit' /\ ProfilesFit' /\ MessagesFit'
       /\ \A l \in proposed' : TreeOf(head)'[l] \in outsiders'
       /\ TreeOf(head)' = TreeOf(head) /\ GroupEpoch(head)' = GroupEpoch(head)
       /\ \A v : InGroup(v)' <=> InGroup(v)
       /\ \A v \in Users : local[v] \in States /\ QueueOfStates(inbox[v])
  BY <1>5, <1>6, <1>11, CommitMade
<1>13. /\ local'[u] = N /\ ownLeaf'[u] = leaf /\ known'[u] = {} /\ operation'[u] = NoRow
       /\ resync'[u].commit = N /\ resync'[u].leaf = resync[u].leaf
  BY <1>6, <1>7, <1>8 DEF MembershipTyped, ResyncRow
<1>14. \A v \in Users : v # u =>
         /\ local'[v] = local[v] /\ ownLeaf'[v] = ownLeaf[v] /\ known'[v] = known[v]
         /\ operation'[v] = operation[v] /\ resync'[v] = resync[v]
         /\ v \in forgotten' <=> v \in forgotten
  BY <1>6, <1>7 DEF MembershipTyped
<1>15. \A v \in Users : /\ TreeOf(local[v])' = IF v = u THEN t ELSE TreeOf(local[v])
                        /\ GroupEpoch(local[v])' = IF v = u THEN GroupEpoch(head) + 1
                                                   ELSE GroupEpoch(local[v])
  <2>1. ASSUME NEW v \in Users, v # u
        PROVE  TreeOf(local[v])' = TreeOf(local[v]) /\ GroupEpoch(local[v])' = GroupEpoch(local[v])
    <3>1. PICK s \in States : s = local[v]
      BY <1>12
    <3>2. local'[v] = s /\ TreeOf(s)' = TreeOf(s) /\ GroupEpoch(s)' = GroupEpoch(s)
      BY <1>8, <1>14, <2>1, <3>1
    <3>3. TreeOf(local[v])' = TreeOf(s)' /\ GroupEpoch(local[v])' = GroupEpoch(s)'
      BY <3>2 DEF TreeOf, GroupEpoch
    <3> QED BY <3>1, <3>2, <3>3
  <2>2. TreeOf(local[u])' = TreeOf(N)' /\ GroupEpoch(local[u])' = GroupEpoch(N)'
    BY <1>13 DEF TreeOf, GroupEpoch
  <2> QED BY <1>8, <1>9, <2>1, <2>2
<1>16. MembershipTyped'
  <2>1. \A v \in Users : local'[v] \in States'
    BY <1>8, <1>12, <1>13, <1>14
  <2>2. local' \in [Users -> States']
    BY <1>7, <2>1 DEF MembershipTyped
  <2>3. ownLeaf' \in [Users -> Leaves] /\ known' \in [Users -> SUBSET Leaves]
    BY <1>3, <1>6 DEF MembershipTyped
  <2>4. operation' \in [Users -> Row]
    BY <1>6, RowFacts DEF MembershipTyped
  <2>5. resync' \in [Users -> ResyncRow]
    BY <1>7, <1>8 DEF MembershipTyped, ResyncRow
  <2> QED BY <1>1, <1>6, <1>8, <2>2, <2>3, <2>4, <2>5 DEF MembershipTyped, groupStateVars
<1>17. outsiders' = outsiders /\ proposed' = proposed /\ head' = head /\ inbox' = inbox
  BY <1>6 DEF groupStateVars
<1>18. ProposalsFit'
  <2>1. ASSUME NEW v \in Users, NEW l \in known'[v] PROVE TreeOf(local[v])'[l] \in outsiders
    <3>1. v # u
      BY <1>13, <2>1
    <3> QED BY <1>14, <1>15, <2>1, <3>1 DEF ProposalsFit
  <2> QED BY <1>12, <1>17, <2>1 DEF ProposalsFit
<1>19. OwnLeafFits'
  <2> SUFFICES ASSUME NEW v \in Users, v \in ToSet(TreeOf(local[v]))'
               PROVE  TreeOf(local[v])'[ownLeaf'[v]] = v
    BY DEF OwnLeafFits
  <2>1. CASE v = u
    BY <1>3, <1>13, <1>15, <2>1
  <2>2. CASE v # u
    <3>1. TreeOf(local[v])' = TreeOf(local[v]) /\ ownLeaf'[v] = ownLeaf[v]
      BY <1>14, <1>15, <2>2
    <3>2. v \in ToSet(TreeOf(local[v]))
      BY <3>1 DEF ToSet
    <3> QED BY <3>1, <3>2 DEF OwnLeafFits
  <2> QED BY <2>1, <2>2
<1>20. \A n \in States \ {0} : commits'[n] = commits[n]
  BY <1>1, <1>8 DEF States
<1>21. OperationFits'
  <2> SUFFICES ASSUME NEW v \in Users, operation'[v].kind = "commit"
               PROVE  /\ operation'[v].state \in States' \ {0}
                      /\ commits'[operation'[v].state].on = local'[v]
                      /\ commits'[operation'[v].state].kind # "resync"
    BY DEF OperationFits
  <2>1. v # u
    BY <1>13, RowFacts
  <2> QED BY <1>8, <1>14, <1>20, <2>1 DEF OperationFits
<1>22. ResyncFits'
  <2> SUFFICES ASSUME NEW v \in Users, resync'[v].commit # 0
               PROVE  /\ resync'[v].leaf # 0
                      /\ resync'[v].commit = local'[v]
                      /\ commits'[local'[v]].kind = "resync" /\ commits'[local'[v]].by = v
                      /\ TreeOf(local[v])'[ownLeaf'[v]] = v
    BY DEF ResyncFits
  <2>1. CASE v = u
    BY <1>3, <1>6, <1>8, <1>9, <1>13, <1>15, <2>1
  <2>2. CASE v # u
    <3>1. /\ resync[v].leaf # 0 /\ resync[v].commit = local[v] /\ local[v] # 0
          /\ commits[local[v]].kind = "resync" /\ commits[local[v]].by = v
          /\ TreeOf(local[v])[ownLeaf[v]] = v
      BY <1>14, <2>2 DEF ResyncFits
    <3>2. commits'[local[v]] = commits[local[v]]
      BY <1>12, <1>20, <3>1
    <3> QED BY <1>14, <1>15, <2>2, <3>1, <3>2
  <2> QED BY <2>1, <2>2
<1>23. ResyncsPast'
  <2>1. ASSUME NEW n \in 1..Len(commits'), commits'[n].kind = "resync"
        PROVE  /\ GroupEpoch(commits[n].on)' <= GroupEpoch(head)'
               /\ GroupEpoch(commits[n].on)' < GroupEpoch(local[commits[n].by])'
    <3>1. CASE n = N
      <4>1. GroupEpoch(commits[n].on)' = GroupEpoch(z)'
        BY <1>8, <1>9, <1>10, <3>1 DEF GroupEpoch
      <4>2. GroupEpoch(local[commits[n].by])' = GroupEpoch(local[u])'
        BY <1>8, <1>9, <3>1 DEF GroupEpoch
      <4> QED BY <1>2, <1>8, <1>10, <1>12, <1>15, <4>1, <4>2
    <3>2. CASE n # N
      <4>1. n \in 1..Len(commits) /\ commits'[n] = commits[n] /\ n \in States /\ n # 0
        BY <1>1, <1>8, <3>2 DEF States
      <4>2. PICK o \in States : o = commits[n].on
        BY <4>1, CommitFacts
      <4>3. PICK b \in Users : b = commits[n].by
        BY <4>1, CommitFacts DEF Commit
      <4>4. /\ GroupEpoch(o) <= GroupEpoch(head) /\ GroupEpoch(o) < GroupEpoch(local[b])
        BY <2>1, <4>1, <4>2, <4>3 DEF ResyncsPast
      <4>5. GroupEpoch(o) \in Nat /\ GroupEpoch(o)' = GroupEpoch(o)
        BY <1>8, StateFacts
      <4>6. GroupEpoch(commits[n].on)' = GroupEpoch(o)'
        BY <4>1, <4>2 DEF GroupEpoch
      <4>7. GroupEpoch(local[commits[n].by])' = GroupEpoch(local[b])'
        BY <4>1, <4>3 DEF GroupEpoch
      <4> QED BY <1>2, <1>12, <1>15, <4>4, <4>5, <4>6, <4>7
    <3> QED BY <3>1, <3>2
  <2> QED BY <2>1 DEF ResyncsPast
<1>24. u \in ToSet(t)
  BY <1>3, InTree
<1>25. RemovedIsOut'
  <2> SUFFICES ASSUME NEW v \in Users, v \notin ToSet(TreeOf(local[v]))', v \notin deleted
               PROVE  ~InGroup(v)
    BY <1>6, <1>12 DEF RemovedIsOut
  <2>1. CASE v = u
    <3>1. TreeOf(local[u])' = t
      BY <1>15
    <3> QED BY <1>24, <2>1, <3>1 DEF ToSet
  <2>2. CASE v # u
    <3>1. TreeOf(local[v])' = TreeOf(local[v])
      BY <1>15, <2>2
    <3>2. v \notin ToSet(TreeOf(local[v]))
      BY <3>1 DEF ToSet
    <3> QED BY <3>2 DEF RemovedIsOut
  <2> QED BY <2>1, <2>2
<1>26. LeaveKnown'
  <2> SUFFICES ASSUME NEW v \in asked \ (forgotten' \union deleted), InGroup(v)
               PROVE  operation'[v].kind = "leave" \/ v \in outsiders
    BY <1>6, <1>12, <1>17 DEF LeaveKnown
  <2>1. v \in Users
    BY DEF MembershipTyped
  <2>2. CASE v = u
    BY <1>6, <2>2 DEF LeaveKnown
  <2>3. CASE v # u
    BY <1>14, <2>1, <2>3 DEF LeaveKnown
  <2> QED BY <2>2, <2>3
<1>27. ASSUME NEW v \in Users, Following(v)' PROVE v # u /\ Following(v)
  <2>1. v # u
    BY <1>8, <1>13, <1>27, RowFacts DEF Following
  <2> QED BY <1>6, <1>12, <1>14, <1>27, <2>1 DEF Following
<1>28. ChainsFit' /\ ProposalsCome'
  <2>1. ASSUME NEW v \in Users, v # u, Following(v)
        PROVE  /\ Chain(inbox[v], local[v], head)'
               /\ \A l \in proposed : TreeOf(head)[l] # v
                     => Comes(inbox[v], local[v], head, known[v], l)'
    <3>1. PICK q, r, h, kn : q = inbox[v] /\ r = local[v] /\ h = head /\ kn = known[v]
      OBVIOUS
    <3>2. Chain(q, r, h) /\ \A l \in proposed : TreeOf(head)[l] # v => Comes(q, r, h, kn, l)
      BY <2>1, <3>1 DEF ChainsFit, ProposalsCome
    <3>3. /\ Chain(q, r, h) => Chain(q, r, h)'
          /\ \A x, l : Comes(q, r, h, x, l) => Comes(q, r, h, x, l)'
      BY <1>1, <1>5, <1>6, <1>12, <3>1, CommitAddedQueue
    <3>4. inbox'[v] = q /\ local'[v] = r /\ head' = h /\ known'[v] = kn
      BY <1>14, <1>17, <2>1, <3>1
    <3> QED BY <3>2, <3>3, <3>4
  <2>2. ChainsFit'
    BY <1>27, <2>1 DEF ChainsFit
  <2>3. ProposalsCome'
    BY <1>12, <1>17, <1>27, <2>1 DEF ProposalsCome
  <2> QED BY <2>2, <2>3
<1> QED BY <1>12, <1>16, <1>18, <1>19, <1>21, <1>22, <1>23, <1>25, <1>26, <1>28

-----------------------------------------------------------------------------
(***************************************************************************)
(* The theorems.                                                           *)
(***************************************************************************)

(* A step that leaves the group's state alone lets nobody in.              *)
LEMMA HeadStays ==
  ASSUME FullInv, head' = head, NEW N, N = Len(commits) + 1,
         commits' = commits \/ \E c : c \in Commit /\ commits' = Append(commits, c)
  PROVE  TreeOf(head)' = TreeOf(head) /\ \A v \in Users : InGroup(v)' => InGroup(v)
<1>1. MembershipTyped /\ CommitsFit /\ head \in States
  BY DEF FullInv, MembershipInv, MembershipTyped
<1>2. PICK h \in States : h = head
  BY <1>1
<1>3. TreeOf(h)' = TreeOf(h)
  <2>1. CASE commits' = commits
    BY <2>1, SameStates
  <2>2. CASE \E c : c \in Commit /\ commits' = Append(commits, c)
    BY <1>1, <2>2, CommitAdded
  <2> QED BY <2>1, <2>2
<1>4. TreeOf(head)' = TreeOf(head)
  BY <1>2, <1>3 DEF TreeOf
<1> QED BY <1>4 DEF InGroup

(* Every operation that commits preserves the invariant.                   *)
LEMMA OperationStepInv ==
  ASSUME FullInv, NEW u \in Users, OperationStep(u) PROVE FullInv'
<1>1. ASSUME NEW removed \in SUBSET Users, StageCommit(u, removed) PROVE FullInv'
  <2> DEFINE gone == known[u] \union LeavesOf(TreeOf(local[u]), removed)
  <2>1. /\ operation[u] = NoRow
        /\ MakeCommit(u, "update", local[u], known[u], Blank(TreeOf(local[u]), gone))
        /\ operation' = [operation EXCEPT ![u] =
                           [kind |-> "commit", state |-> Len(commits'), tried |-> FALSE]]
        /\ UNCHANGED <<groupStateVars, inbox, copyVars, resync, askedVars>>
    BY <1>1 DEF StageCommit, CanOperate
  <2> HIDE DEF gone
  <2>2. "update" \in {"update", "delete"}
    OBVIOUS
  <2> QED BY <2>1, <2>2, StagedInv
<1>2. CASE StageDelete(u)
  <2> DEFINE gone == Leaves \ {ownLeaf[u]}
  <2>1. /\ operation[u] = NoRow
        /\ MakeCommit(u, "delete", local[u], known[u], Blank(TreeOf(local[u]), gone))
        /\ operation' = [operation EXCEPT ![u] =
                           [kind |-> "commit", state |-> Len(commits'), tried |-> FALSE]]
        /\ UNCHANGED <<groupStateVars, inbox, copyVars, resync, askedVars>>
    BY <1>2 DEF StageDelete, CanOperate
  <2> HIDE DEF gone
  <2>2. "delete" \in {"update", "delete"}
    OBVIOUS
  <2> QED BY <2>1, <2>2, StagedInv
<1>3. CASE DeleteAlone(u)
  BY <1>3, NothingInv DEF DeleteAlone
<1>4. CASE SendCommit(u)
  BY <1>4, SendCommitInv
<1>5. CASE SendDelete(u)
  BY <1>5, SendDeleteInv
<1>6. CASE CommitRefused(u)
  BY <1>6, CommitRefusedInv
<1> QED BY <1>1, <1>2, <1>3, <1>4, <1>5, <1>6 DEF OperationStep

(* Every step preserves the invariant.                                     *)
LEMMA FullInvNext == FullInv /\ [MembershipNext]_membershipVars => FullInv'
<1> SUFFICES ASSUME FullInv, [MembershipNext]_membershipVars PROVE FullInv'
  OBVIOUS
<1>1. CASE UNCHANGED membershipVars
  BY <1>1, NothingInv DEF membershipVars, copyVars
<1>2. ASSUME NEW u \in Users, OperationStep(u) PROVE FullInv'
  BY <1>2, OperationStepInv
<1>3. ASSUME NEW u \in Users, LeaveStep(u) PROVE FullInv'
  BY <1>3, LeaveInv, SendLeaveInv, CrashInLeaveInv, LeaveGivenUpInv DEF LeaveStep
<1>4. ASSUME NEW u \in Users, ReceiveStep(u) PROVE FullInv'
  BY <1>4, ReceiveLeaveInv, ReceiveCommitInv, ReceiveOtherInv DEF ReceiveStep
<1>5. ASSUME NEW u \in Users, ResyncStep(u) PROVE FullInv'
  BY <1>5, RequestResyncInv, StartResyncInv, ResyncDroppedInv, SendResyncInv DEF ResyncStep
<1> QED BY <1>1, <1>2, <1>3, <1>4, <1>5 DEF MembershipNext

(* The DS's group, the copies, the queues and the rows always fit          *)
(* together.                                                               *)
THEOREM MembershipInvariant == MembershipSpec => []FullInv
  BY FullInvInit, FullInvNext, PTL DEF MembershipSpec

(* No step lets somebody into the group.                                   *)
LEMMA NobodyIn ==
  ASSUME FullInv, NEW u \in Users,
         OperationStep(u) \/ LeaveStep(u) \/ ReceiveStep(u) \/ ResyncStep(u)
  PROVE  \A v \in Users : InGroup(v)' => InGroup(v)
<1>1. PICK N : N = Len(commits) + 1
  OBVIOUS
<1>2. CASE head' = head /\ commits' = commits
  BY <1>1, <1>2, HeadStays
<1>3. ASSUME NEW kind, NEW n, NEW left, NEW tree, MakeCommit(u, kind, n, left, tree),
             FullInv', head' = head
      PROVE  \A v \in Users : InGroup(v)' => InGroup(v)
  <2>1. PICK c : commits' = Append(commits, c)
    BY <1>3 DEF MakeCommit
  <2>2. commits \in Seq(Commit) /\ commits' \in Seq(Commit)
    BY <1>3 DEF FullInv, MembershipInv, MembershipTyped
  <2>3. c \in Commit
    BY <2>1, <2>2
  <2> QED BY <1>1, <1>3, <2>1, <2>3, HeadStays
<1>4. CASE OperationStep(u)
  <2>1. FullInv'
    BY <1>4, OperationStepInv
  <2>2. CASE SendCommit(u)
    BY <2>2, SendCommitInv
  <2>3. CASE \E removed \in SUBSET Users : StageCommit(u, removed)
    BY <1>3, <2>1, <2>3 DEF StageCommit, groupStateVars
  <2>4. CASE StageDelete(u)
    BY <1>3, <2>1, <2>4 DEF StageDelete, groupStateVars
  <2>5. CASE DeleteAlone(u) \/ SendDelete(u) \/ CommitRefused(u)
    BY <1>2, <2>5 DEF DeleteAlone, SendDelete, CommitRefused, groupStateVars
  <2> QED BY <1>4, <2>2, <2>3, <2>4, <2>5 DEF OperationStep
<1>5. CASE LeaveStep(u)
  BY <1>2, <1>5 DEF LeaveStep, LeaveChat, SendLeave, CrashInLeave, LeaveGivenUp, DsSelfRemove,
                    DsRefusesSelfRemove, groupStateVars
<1>6. CASE ReceiveStep(u)
  BY <1>2, <1>6 DEF ReceiveStep, ReceiveLeave, ReceiveCommit, ReceiveOther, ReceivesNext,
                    groupStateVars
<1>7. CASE ResyncStep(u)
  <2>1. CASE SendResync(u)
    BY <2>1, SendResyncInv
  <2>2. CASE StartResync(u)
    BY <1>3, <2>2, StartResyncInv DEF StartResync, groupStateVars
  <2>3. CASE RequestResync(u) \/ ResyncDropped(u)
    BY <1>2, <2>3 DEF RequestResync, ResyncDropped, groupStateVars
  <2> QED BY <1>7, <2>1, <2>2, <2>3 DEF ResyncStep
<1> QED BY <1>4, <1>5, <1>6, <1>7

(* An outsider that is still in the group has its proposal stored, or was  *)
(* overlooked.                                                             *)
OutsidersAccounted ==
  \A u \in outsiders : InGroup(u) => u \in Proposers \union overlooked

(* A step that stores and clears no proposal keeps this.                   *)
LEMMA ProposalsUntouched ==
  ASSUME FullInv, OutsidersAccounted, UNCHANGED <<head, proposed, outsiders, overlooked>>,
         TreeOf(head)' = TreeOf(head)
  PROVE  OutsidersAccounted'
  BY DEF OutsidersAccounted, InGroup, Proposers

(* Storing a proposal does: its user is a member.                          *)
LEMMA ProposalStored ==
  ASSUME FullInv, OutsidersAccounted, NEW u \in Users, DsSelfRemove(u), commits' = commits
  PROVE  OutsidersAccounted'
<1>1. /\ proposed' = proposed \union {ownLeaf[u]} /\ outsiders' = outsiders \union {u}
      /\ overlooked' = overlooked \ {u} /\ head' = head /\ TreeOf(head)[ownLeaf[u]] = u
  BY DEF DsSelfRemove, Verifies
<1>2. TreeOf(head)' = TreeOf(head)
  BY <1>1 DEF TreeOf
<1>3. u \in Proposers' /\ Proposers \subseteq Proposers'
  BY <1>1, <1>2 DEF Proposers
<1> QED BY <1>1, <1>2, <1>3 DEF OutsidersAccounted, InGroup

(* So does clearing the proposals, in the history.                         *)
LEMMA ProposalsCleared ==
  ASSUME FullInv, OutsidersAccounted, ClearProposals(TreeOf(head)'), outsiders' = outsiders,
         \A v \in Users : InGroup(v)' => InGroup(v)
  PROVE  OutsidersAccounted'
<1>1. outsiders \subseteq Users
  BY DEF FullInv, MembershipInv, MembershipTyped
<1> QED BY <1>1 DEF OutsidersAccounted, ClearProposals, InGroup

(* Every step keeps it.                                                    *)
LEMMA AccountedNext ==
  FullInv /\ OutsidersAccounted /\ [MembershipNext]_membershipVars => OutsidersAccounted'
<1> SUFFICES ASSUME FullInv, OutsidersAccounted, [MembershipNext]_membershipVars
             PROVE  OutsidersAccounted'
  OBVIOUS
<1> USE DEF groupStateVars
<1>1. CASE UNCHANGED membershipVars
  <2>1. UNCHANGED <<head, proposed, outsiders, overlooked>> /\ TreeOf(head)' = TreeOf(head)
    BY <1>1 DEF membershipVars, TreeOf
  <2> QED BY <2>1, ProposalsUntouched
<1>2. CASE MembershipNext
  <2>1. PICK u \in Users : OperationStep(u) \/ LeaveStep(u) \/ ReceiveStep(u) \/ ResyncStep(u)
    BY <1>2 DEF MembershipNext
  <2>2. \A v \in Users : InGroup(v)' => InGroup(v)
    BY <2>1, NobodyIn
  <2>3. FullInv'
    BY <1>2, FullInvNext
  <2>4. CASE groupStateVars' = groupStateVars /\ commits' = commits
    <3>1. TreeOf(head)' = TreeOf(head)
      BY <2>4 DEF TreeOf
    <3> QED BY <2>4, <3>1, ProposalsUntouched
  <2>5. ASSUME NEW kind, NEW n, NEW left, NEW tree, MakeCommit(u, kind, n, left, tree),
               groupStateVars' = groupStateVars
        PROVE  OutsidersAccounted'
    <3>1. PICK c : commits' = Append(commits, c)
      BY <2>5 DEF MakeCommit
    <3>2. commits \in Seq(Commit) /\ commits' \in Seq(Commit)
      BY <2>3 DEF FullInv, MembershipInv, MembershipTyped
    <3>3. c \in Commit
      BY <3>1, <3>2
    <3>4. TreeOf(head)' = TreeOf(head)
      BY <2>5, <3>1, <3>3, HeadStays
    <3> QED BY <2>5, <3>4, ProposalsUntouched
  <2>6. CASE SendCommit(u)
    <3>1. /\ ClearProposals(TreeOf(operation[u].state)) /\ head' = operation[u].state
          /\ commits' = commits /\ outsiders' = outsiders
      BY <2>6 DEF SendCommit
    <3>2. TreeOf(head)' = TreeOf(operation[u].state)
      BY <3>1 DEF TreeOf
    <3> QED BY <2>2, <3>1, <3>2, ProposalsCleared
  <2>7. CASE SendDelete(u)
    <3>1. /\ ClearProposals(TreeOf(head)) /\ head' = head
          /\ commits' = commits /\ outsiders' = outsiders
      BY <2>7 DEF SendDelete
    <3>2. TreeOf(head)' = TreeOf(head)
      BY <3>1 DEF TreeOf
    <3> QED BY <2>2, <3>1, <3>2, ProposalsCleared
  <2>8. CASE DsResync(u) /\ commits' = commits
    <3>1. /\ ClearProposals(TreeOf(resync[u].commit)) /\ head' = resync[u].commit
          /\ outsiders' = outsiders
      BY <2>8 DEF DsResync
    <3>2. TreeOf(head)' = TreeOf(resync[u].commit)
      BY <2>8, <3>1 DEF TreeOf
    <3> QED BY <2>2, <3>1, <3>2, ProposalsCleared
  <2>9. CASE OperationStep(u)
    <3>1. CASE \E removed \in SUBSET Users : StageCommit(u, removed)
      BY <2>5, <3>1 DEF StageCommit
    <3>2. CASE StageDelete(u)
      BY <2>5, <3>2 DEF StageDelete
    <3>3. CASE DeleteAlone(u) \/ CommitRefused(u)
      BY <2>4, <3>3 DEF DeleteAlone, CommitRefused
    <3> QED BY <2>6, <2>7, <2>9, <3>1, <3>2, <3>3 DEF OperationStep
  <2>10. CASE LeaveStep(u)
    <3>1. commits' = commits /\ (DsSelfRemove(u) \/ groupStateVars' = groupStateVars)
      BY <2>10 DEF LeaveStep, LeaveChat, SendLeave, CrashInLeave, LeaveGivenUp, DsRefusesSelfRemove
    <3> QED BY <2>4, <3>1, ProposalStored
  <2>11. CASE ReceiveStep(u)
    BY <2>4, <2>11 DEF ReceiveStep, ReceiveLeave, ReceiveCommit, ReceiveOther, ReceivesNext
  <2>12. CASE ResyncStep(u)
    <3>1. CASE SendResync(u)
      BY <2>4, <2>8, <3>1 DEF SendResync
    <3>2. CASE StartResync(u)
      BY <2>5, <3>2 DEF StartResync
    <3>3. CASE RequestResync(u) \/ ResyncDropped(u)
      BY <2>4, <3>3 DEF RequestResync, ResyncDropped
    <3> QED BY <2>12, <3>1, <3>2, <3>3 DEF ResyncStep
  <2> QED BY <2>1, <2>9, <2>10, <2>11, <2>12
<1> QED BY <1>1, <1>2

(* No order of errors, lost answers, crashes and commits of others loses   *)
(* the leave of a user who is still in the group, but for a resync and a   *)
(* commit that was made before the proposal came: its operation is left to *)
(* try, or the DS has its proposal stored for the next commit.             *)
THEOREM LeaveIsKept == MembershipSpec => []LeaveHolds
<1>1. MembershipInit => OutsidersAccounted
  BY DEF MembershipInit, OutsidersAccounted
<1>2. FullInv /\ OutsidersAccounted => LeaveHolds
  BY DEF FullInv, LeaveKnown, OutsidersAccounted, LeaveHolds
<1> QED BY <1>1, <1>2, AccountedNext, MembershipInvariant, PTL DEF MembershipSpec

(* A member with an empty queue, who is not waiting for a resync, has not  *)
(* given one up and has not merged a deletion, is where the DS is: same    *)
(* state, its own leaf, its own profile, and every proposal of the others. *)
THEOREM CaughtUpMembersAgree == MembershipSpec => []CaughtUpAgrees
<1>1. FullInv => CaughtUpAgrees
  <2> SUFFICES ASSUME FullInv, NEW u \in Users, InGroup(u), inbox[u] = <<>>,
                      resync[u] = NoResync, u \notin droppedResync \union deleted
               PROVE  /\ local[u] = head
                      /\ TreeOf(head)[ownLeaf[u]] = u
                      /\ profiles[ownLeaf[u]] = u
                      /\ proposed \ {ownLeaf[u]} \subseteq known[u]
    BY DEF CaughtUpAgrees
  <2> USE DEF FullInv, MembershipInv
  <2>1. Following(u)
    BY DEF Following
  <2>2. Len(inbox[u]) = 0
    OBVIOUS
  <2>3. local[u] = head
    BY <2>1, <2>2 DEF ChainsFit, Chain
  <2>4. TreeOf(head)[ownLeaf[u]] = u /\ ownLeaf[u] \in Leaves
    BY <2>3 DEF OwnLeafFits, InGroup, MembershipTyped
  <2>5. u # Nobody
    BY FirstTree
  <2>6. profiles[ownLeaf[u]] = u
    BY <2>4, <2>5 DEF ProfilesFit
  <2>7. OneLeafEach(TreeOf(head)) /\ proposed \subseteq Leaves
    BY StateFacts DEF MembershipTyped
  <2>8. ASSUME NEW l \in proposed \ {ownLeaf[u]} PROVE l \in known[u]
    <3>1. TreeOf(head)[l] # u
      BY <2>4, <2>5, <2>7, <2>8 DEF OneLeafEach
    <3>2. Comes(inbox[u], local[u], head, known[u], l)
      BY <2>1, <2>8, <3>1 DEF ProposalsCome
    <3> QED BY <2>2, <3>2 DEF Comes
  <2> QED BY <2>3, <2>4, <2>6, <2>8
<1> QED BY <1>1, MembershipInvariant, PTL

(* Whoever is out of the group stays out: the DS takes no commit that      *)
(* brings somebody back, not even the resync of a user whose old leaf is   *)
(* taken by another.                                                       *)
THEOREM NobodyComesBack == MembershipSpec => RemovedStaysOut
<1>1. FullInv /\ [MembershipNext]_membershipVars
        => [\A u \in Users : InGroup(u)' => InGroup(u)]_membershipVars
  BY NobodyIn DEF MembershipNext
<1> QED BY <1>1, MembershipInvariant, PTL DEF MembershipSpec, RemovedStaysOut
=============================================================================
