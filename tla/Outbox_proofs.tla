---------------------------- MODULE Outbox_proofs ----------------------------
(***************************************************************************)
(* Theorems about the queue of unsent messages: what is shown as sent was  *)
(* accepted, no request of the user is forgotten, and the peer shows what  *)
(* the user sees as sent.                                                  *)
(***************************************************************************)
EXTENDS Outbox, TLAPS

(* A row of the message table.                                             *)
MessageRec == [version : Nat, null : BOOLEAN, replaces : Nat, earlier : SUBSET Nat,
               sent : BOOLEAN, failed : BOOLEAN]

\* Where the loop is: with a row, with the copy of its message, with a request under way.
HasCurrent == outboxLoop \in {"dequeued", "request", "accepted", "stored"}
HasCopy == outboxLoop \in {"request", "accepted", "stored"}
InFlight == outboxLoop \in {"request", "accepted"}

(* The types of the queue, of its loop and of the peer.                    *)
OutboxTypeOK ==
  /\ stored \in [Messages -> MessageRec]
  /\ ownEdits \in [Messages -> SUBSET Nat]
  /\ loadedForUser \in {NoCopy} \union [id : Messages, copy : MessageRec]
  /\ unsentRows \in [Messages -> Nat]
  /\ outboxLoop \in {"off", "loop", "dequeued", "request", "accepted", "stored"}
  /\ current \in [id : Messages \union {"none"}, copy : MessageRec]
  /\ HasCurrent => current.id \in Messages
  /\ acceptedByDs \subseteq Nat
  /\ peerShows \in [Messages -> Nat]
  /\ peerEdits \in [Messages -> SUBSET Nat]
  /\ versions \in Nat
  /\ lastRequest \in [Messages -> Nat]
  /\ skippedUnsent \subseteq Messages /\ overtaken \subseteq Messages
  /\ sentTwice \subseteq Messages

(* A copy that the DS has accepted may be stored as sent.                  *)
CopyIsAccepted == outboxLoop = "accepted" => current.copy.version \in acceptedByDs

(* Unless a message was changed while a copy of it was sent, the user's    *)
(* last version is stored, and it is the one that is sent.                 *)
LastIsStored ==
  \A m \in Messages : Exists(m) /\ m \notin overtaken => stored[m].version = lastRequest[m]

\* The copy being sent is the last one that was asked for, unless a newer one overtook it.
LastIsSent ==
  HasCopy /\ current.id \notin overtaken =>
    current.copy.version = lastRequest[current.id]

(* The message whose row is about to be removed is stored as sent.         *)
StoredIsSent ==
  outboxLoop = "stored" /\ Exists(current.id) /\ current.id \notin overtaken =>
    stored[current.id].sent

(* The inductive invariant behind SentIsAccepted and NoMessageForgotten.   *)
RequestsInv ==
  /\ OutboxTypeOK
  /\ CopyIsAccepted /\ SentIsAccepted
  /\ LastIsStored /\ LastIsSent /\ StoredIsSent /\ NoMessageForgotten

-----------------------------------------------------------------------------

(* The copies of message m that may still be sent, stored or changed: the  *)
(* row, the user's and the loop's.                                         *)
IsLive(m, r) ==
  \/ Exists(m) /\ r = stored[m]
  \/ loadedForUser.id = m /\ r = loadedForUser.copy
  \/ InFlight /\ current.id = m /\ r = current.copy

\* The versions that a copy stands for.
VersionsOf(r) == r.earlier \union {r.version}

(* Copies of a message that differ in their status only.                   *)
SameContent(r, s) ==
  /\ r.version = s.version /\ r.replaces = s.replaces /\ r.earlier = s.earlier
  /\ r.null <=> s.null

(* Versions are numbered, and a copy knows the versions it came from.      *)
WellFormed(r) ==
  /\ r \in MessageRec
  /\ r.version # 0 /\ VersionsOf(r) \subseteq 1..versions /\ r.version \notin r.earlier
  /\ r.replaces \in r.earlier \/ (r.replaces = 0 /\ r.earlier = {})

(* What the peer has of a copy whose earlier versions were all accepted,   *)
(* as long as nothing was sent twice: the copy itself, or the version that *)
(* it replaces.                                                            *)
PeerHas(m, r) ==
  r.earlier \subseteq acceptedByDs /\ m \notin sentTwice =>
    \/ /\ r.version \in acceptedByDs /\ peerShows[m] = r.version
       /\ r.null \/ peerEdits[m] = r.earlier
    \/ /\ r.version \notin acceptedByDs /\ peerShows[m] = r.replaces
       /\ peerEdits[m] = r.earlier \ {r.replaces}

(* A copy made since c was loaded: it was not sent, and comes from c       *)
(* directly, or by a version that was not sent either.                     *)
MadeSince(r, c) ==
  /\ r.version \notin acceptedByDs /\ c.version \in r.earlier
  /\ \/ ~c.null /\ r.replaces = c.version /\ r.earlier = VersionsOf(c)
     \/ \E x \in r.earlier : x \notin acceptedByDs /\ x # c.version

\* Every live copy is well formed, and the peer has what it replaces.
CopiesWellFormed == \A m \in Messages : \A r : IsLive(m, r) => WellFormed(r)

\* The peer has what every live copy says that it has.
PeerHasCopies == \A m \in Messages : \A r : IsLive(m, r) => PeerHas(m, r)

(* Copies of different messages have no version in common.                 *)
VersionsApart ==
  \A m, n \in Messages : \A r, s :
    IsLive(m, r) /\ IsLive(n, s) /\ m # n => VersionsOf(r) \intersect VersionsOf(s) = {}

(* The loop's copy is the oldest of its message.                           *)
InFlightIsOldest ==
  InFlight => \A r : IsLive(current.id, r) =>
    SameContent(r, current.copy) \/ MadeSince(r, current.copy)

(* The user's copy is the stored one, or older than what was sent since;   *)
(* a deleted message is not loaded.                                        *)
LoadedIsStored ==
  loadedForUser # NoCopy =>
    /\ Exists(loadedForUser.id) /\ ~loadedForUser.copy.null
    /\ stored[loadedForUser.id].sent \/ SameContent(stored[loadedForUser.id], loadedForUser.copy)

(* A message that the user has not sent yet is nowhere.                    *)
Unknown ==
  \A m \in Messages : lastRequest[m] = 0 =>
    /\ ~Exists(m) /\ ~Queued(m) /\ loadedForUser.id # m
    /\ HasCurrent => current.id # m
    /\ peerShows[m] = 0 /\ peerEdits[m] = {}

(* The inductive invariant behind PeersAgree.                              *)
PeerInv ==
  /\ RequestsInv
  /\ acceptedByDs \subseteq 1..versions
  /\ CopiesWellFormed /\ PeerHasCopies /\ VersionsApart
  /\ InFlightIsOldest /\ LoadedIsStored /\ Unknown

-----------------------------------------------------------------------------
(***************************************************************************)
(* Requests: SentIsAccepted and NoMessageForgotten.                        *)
(***************************************************************************)

(* The empty row and the empty copy have their types.                      *)
LEMMA NoMessageType ==
  /\ NoMessage \in MessageRec /\ NoMessage.version = 0 /\ ~NoMessage.sent
  /\ NoMessage.earlier = {} /\ NoMessage.replaces = 0
  /\ NoCopy \in [id : Messages \union {"none"}, copy : MessageRec]
  /\ NoCopy.id = "none" /\ NoCopy.copy = NoMessage
  BY DEF NoMessage, NoCopy, MessageRec

(* There is no message and no run at the beginning.                        *)
LEMMA RequestsInvInit == OutboxInit => RequestsInv
  BY NoMessageType
  DEF OutboxInit, RequestsInv, OutboxTypeOK, HasCurrent, HasCopy, CopyIsAccepted,
      SentIsAccepted, LastIsStored, LastIsSent, StoredIsSent, NoMessageForgotten, Exists

(* A request of the user: the new version is stored unsent and queued, and *)
(* a copy that is being sent is overtaken.                                 *)
LEMMA SubmitRequests ==
  ASSUME RequestsInv, NEW m \in Messages, NEW message \in MessageRec, ~message.sent,
         Submit(m, message), ownEdits' \in [Messages -> SUBSET Nat]
  PROVE  RequestsInv'
<1> DEFINE new == [message EXCEPT !.version = versions + 1]
<1>1. /\ versions \in Nat /\ versions' = versions + 1
      /\ stored' = [stored EXCEPT ![m] = new]
      /\ lastRequest' = [lastRequest EXCEPT ![m] = versions + 1]
      /\ loadedForUser' = NoCopy
      /\ UNCHANGED <<lockedByRun, outboxLoop, current, peerVars, skippedUnsent, outboxFaults>>
  BY DEF Submit, RequestsInv, OutboxTypeOK
<1>2. new \in MessageRec /\ ~new.sent /\ new.version = versions + 1
  BY <1>1 DEF MessageRec
<1>3. unsentRows' \in [Messages -> Nat] /\ unsentRows'[m] # 0
      /\ \A n \in Messages : n # m => unsentRows'[n] = unsentRows[n]
  BY <1>1 DEF Submit, Enqueue, Queued, RequestsInv, OutboxTypeOK
<1>4. /\ overtaken' \subseteq Messages /\ overtaken \subseteq overtaken'
      /\ HasCopy /\ current.id = m => m \in overtaken'
  BY DEF Submit, HasCopy, RequestsInv, OutboxTypeOK
<1> HIDE DEF new
<1>5. OutboxTypeOK'
  <2>1. stored' \in [Messages -> MessageRec] /\ lastRequest' \in [Messages -> Nat]
    BY <1>1, <1>2 DEF RequestsInv, OutboxTypeOK
  <2>2. UNCHANGED <<outboxLoop, current, skippedUnsent, acceptedByDs, peerShows, peerEdits, sentTwice>>
    BY <1>1 DEF peerVars
  <2> QED
    BY <1>1, <1>3, <1>4, <2>1, <2>2 DEF RequestsInv, OutboxTypeOK, HasCurrent
<1>6. CopyIsAccepted' /\ SentIsAccepted'
  BY <1>1, <1>2
  DEF RequestsInv, OutboxTypeOK, CopyIsAccepted, SentIsAccepted, peerVars
<1>7. LastIsStored' /\ LastIsSent'
  BY <1>1, <1>2, <1>4
  DEF RequestsInv, OutboxTypeOK, LastIsStored, LastIsSent, HasCopy, HasCurrent, Exists
<1>8. StoredIsSent'
  BY <1>1, <1>2, <1>4
  DEF RequestsInv, OutboxTypeOK, StoredIsSent, HasCopy, HasCurrent, Exists
<1>9. NoMessageForgotten'
  BY <1>1, <1>2, <1>3, <1>4
  DEF RequestsInv, OutboxTypeOK, NoMessageForgotten, Kept, Exists, Queued
<1> QED BY <1>5, <1>6, <1>7, <1>8, <1>9 DEF RequestsInv

(* The messages that ReplaceMessage submits.                               *)
Replacement(null, old) ==
  [NoMessage EXCEPT !.null = null, !.replaces = old.version,
                    !.earlier = old.earlier \union {old.version}]

\* A replacement is a message that replaces the last version.
LEMMA ReplacementType ==
  ASSUME NEW null \in BOOLEAN, NEW old \in MessageRec
  PROVE  LET r == Replacement(null, old)
         IN  /\ r \in MessageRec /\ ~r.sent /\ r.replaces = old.version
             /\ r.earlier = VersionsOf(old)
  BY DEF Replacement, NoMessage, MessageRec, VersionsOf

\* Editing or deleting submits a replacement of the loaded copy.
LEMMA ReplaceIsSubmit ==
  ASSUME OutboxTypeOK, NEW null \in BOOLEAN, ReplaceMessage(null)
  PROVE  /\ loadedForUser # NoCopy /\ loadedForUser.id \in Messages
         /\ loadedForUser.copy \in MessageRec
         /\ Submit(loadedForUser.id, Replacement(null, loadedForUser.copy))
         /\ ownEdits' \in [Messages -> SUBSET Nat]
<1>1. /\ loadedForUser # NoCopy /\ loadedForUser.id \in Messages
      /\ loadedForUser.copy \in MessageRec
  BY DEF OutboxTypeOK, ReplaceMessage
<1>2. loadedForUser.copy.version \in Nat
  BY <1>1 DEF MessageRec
<1> QED
  BY <1>1, <1>2 DEF OutboxTypeOK, ReplaceMessage, Replacement


(* What the DS and the peer do with a message keeps their types.           *)
LEMMA DeliverType ==
  ASSUME OutboxTypeOK, NEW m \in Messages, NEW msg \in MessageRec, Deliver(m, msg)
  PROVE  /\ acceptedByDs' = acceptedByDs \union {msg.version} /\ acceptedByDs' \subseteq Nat
         /\ peerShows' \in [Messages -> Nat] /\ peerEdits' \in [Messages -> SUBSET Nat]
         /\ sentTwice' \subseteq Messages
<1>1. msg.version \in Nat
  BY DEF MessageRec
<1> QED BY <1>1 DEF Deliver, OutboxTypeOK

(* The copies that steps work on.                                          *)
LEMMA CurrentType ==
  ASSUME OutboxTypeOK, HasCurrent
  PROVE  current.id \in Messages /\ current.copy \in MessageRec
  BY DEF OutboxTypeOK

(* A step of the loop that sends, stores and removes nothing.              *)
LEMMA MovesRequests ==
  ASSUME RequestsInv,
         BeginOutbox \/ EndOutbox \/ StopOutbox \/ Dequeue \/ SkipForOperation \/ SendCollides
  PROVE  /\ RequestsInv'
         /\ UNCHANGED <<stored, unsentRows, userVars, peerVars, skippedUnsent>>
         /\ outboxLoop' \in {"off", "loop", "dequeued"}
         /\ HasCurrent' => Queued(current'.id)
<1>1. UNCHANGED <<stored, unsentRows, userVars, peerVars, skippedUnsent>>
  BY DEF BeginOutbox, EndOutbox, StopOutbox, Dequeue, SkipForOperation, SendCollides
<1>2. /\ outboxLoop' \in {"off", "loop", "dequeued"}
      /\ current' \in [id : Messages \union {"none"}, copy : MessageRec]
      /\ outboxLoop' = "dequeued" => current'.id \in Messages /\ Queued(current'.id)
  <2>1. CASE BeginOutbox
    BY <2>1 DEF BeginOutbox, RequestsInv, OutboxTypeOK
  <2>2. CASE EndOutbox \/ StopOutbox
    BY <2>2, NoMessageType DEF EndOutbox, StopOutbox, LeaveOutbox
  <2>3. CASE Dequeue
    <3>1. PICK m \in NotLockedByRun : current' = [NoCopy EXCEPT !.id = m]
      BY <2>3 DEF Dequeue
    <3>2. m \in Messages /\ Queued(m)
      BY DEF NotLockedByRun
    <3>3. current' \in [id : Messages \union {"none"}, copy : MessageRec] /\ current'.id = m
      BY <3>1, <3>2, NoMessageType
    <3> QED BY <2>3, <3>2, <3>3 DEF Dequeue
  <2>4. CASE SkipForOperation \/ SendCollides
    BY <2>4, NoMessageType DEF SkipForOperation, SendCollides, NextRow
  <2> QED BY <2>1, <2>2, <2>3, <2>4
<1>3. OutboxTypeOK'
  BY <1>1, <1>2 DEF RequestsInv, OutboxTypeOK, HasCurrent, userVars, peerVars
<1>4. CopyIsAccepted' /\ SentIsAccepted' /\ LastIsStored' /\ LastIsSent' /\ StoredIsSent'
      /\ NoMessageForgotten'
  BY <1>1, <1>2
  DEF RequestsInv, HasCopy, CopyIsAccepted, SentIsAccepted, LastIsStored, LastIsSent,
      StoredIsSent, NoMessageForgotten, Kept, Exists, Queued, userVars, peerVars
<1>5. HasCurrent' => Queued(current'.id)
  BY <1>2 DEF HasCurrent
<1> QED BY <1>1, <1>2, <1>3, <1>4, <1>5 DEF RequestsInv

(* The user loads a message, or an edit is refused.                        *)
LEMMA LoadRequests ==
  ASSUME RequestsInv, (\E m \in Messages : LoadMessage(m)) \/ EditFails
  PROVE  RequestsInv'
<1>1. UNCHANGED <<stored, unsentRows, lockedByRun, outboxLoop, current, peerVars,
                  ownEdits, versions, lastRequest, overtaken, skippedUnsent>>
  BY DEF LoadMessage, EditFails
<1>2. loadedForUser' \in {NoCopy} \union [id : Messages, copy : MessageRec]
  BY DEF LoadMessage, EditFails, RequestsInv, OutboxTypeOK
<1> QED
  BY <1>1, <1>2
  DEF RequestsInv, OutboxTypeOK, HasCurrent, HasCopy, CopyIsAccepted, SentIsAccepted,
      LastIsStored, LastIsSent, StoredIsSent, NoMessageForgotten, Kept, Exists, Queued,
      peerVars

(* delete_message_locally.                                                 *)
LEMMA DeleteRequests ==
  ASSUME RequestsInv, NEW m \in Messages, DeleteLocally(m)
  PROVE  RequestsInv'
<1>1. /\ stored' = [stored EXCEPT ![m] = NoMessage]
      /\ ownEdits' \in [Messages -> SUBSET Nat]
      /\ unsentRows' = [unsentRows EXCEPT ![m] = 0]
      /\ UNCHANGED <<outboxLoop, current, loadedForUser, versions, lastRequest, overtaken,
                     acceptedByDs, peerShows, peerEdits, sentTwice, skippedUnsent>>
  BY DEF DeleteLocally, RequestsInv, OutboxTypeOK, peerVars
<1>2. OutboxTypeOK'
  BY <1>1, NoMessageType DEF RequestsInv, OutboxTypeOK, HasCurrent
<1>3. CopyIsAccepted' /\ SentIsAccepted' /\ LastIsStored' /\ LastIsSent' /\ StoredIsSent'
  BY <1>1, NoMessageType
  DEF RequestsInv, OutboxTypeOK, HasCopy, HasCurrent, CopyIsAccepted, SentIsAccepted,
      LastIsStored, LastIsSent, StoredIsSent, Exists
<1>4. NoMessageForgotten'
  BY <1>1, NoMessageType
  DEF RequestsInv, OutboxTypeOK, NoMessageForgotten, Kept, Exists, Queued
<1> QED BY <1>2, <1>3, <1>4 DEF RequestsInv

(* The row of a message that was skipped is removed.                       *)
LEMMA SkipRequests == RequestsInv /\ SkipUnsent => RequestsInv'
<1> SUFFICES ASSUME RequestsInv, SkipUnsent PROVE RequestsInv'
  OBVIOUS
<1>1. current.id \in Messages
  BY CurrentType DEF SkipUnsent, HasCurrent, RequestsInv
<1>2. /\ unsentRows' = [unsentRows EXCEPT ![current.id] = 0]
      /\ outboxLoop' = "loop" /\ current' = NoCopy
      /\ skippedUnsent' = skippedUnsent \union {current.id}
      /\ UNCHANGED <<stored, ownEdits, loadedForUser, versions, lastRequest, overtaken,
                     acceptedByDs, peerShows, peerEdits, sentTwice>>
  BY DEF SkipUnsent, RemoveRow, NextRow, userVars, peerVars
<1>3. OutboxTypeOK'
  BY <1>1, <1>2, NoMessageType DEF RequestsInv, OutboxTypeOK, HasCurrent
<1>4. CopyIsAccepted' /\ SentIsAccepted' /\ LastIsStored' /\ LastIsSent' /\ StoredIsSent'
  BY <1>2
  DEF RequestsInv, HasCopy, CopyIsAccepted, SentIsAccepted, LastIsStored, LastIsSent,
      StoredIsSent, Exists
<1>5. NoMessageForgotten'
  BY <1>1, <1>2
  DEF RequestsInv, OutboxTypeOK, NoMessageForgotten, Kept, Exists, Queued
<1> QED BY <1>3, <1>4, <1>5 DEF RequestsInv

(* The row of a message that was sent is removed.                          *)
LEMMA RemoveRequests == RequestsInv /\ RemoveSent => RequestsInv'
<1> SUFFICES ASSUME RequestsInv, RemoveSent PROVE RequestsInv'
  OBVIOUS
<1>1. current.id \in Messages /\ outboxLoop = "stored"
  BY CurrentType DEF RemoveSent, HasCurrent, RequestsInv
<1>2. /\ unsentRows' = [unsentRows EXCEPT ![current.id] = 0]
      /\ outboxLoop' = "loop" /\ current' = NoCopy
      /\ UNCHANGED <<stored, ownEdits, loadedForUser, versions, lastRequest, overtaken,
                     acceptedByDs, peerShows, peerEdits, sentTwice, skippedUnsent>>
  BY DEF RemoveSent, RemoveRow, NextRow, userVars, peerVars
<1>3. OutboxTypeOK'
  BY <1>1, <1>2, NoMessageType DEF RequestsInv, OutboxTypeOK, HasCurrent
<1>4. CopyIsAccepted' /\ SentIsAccepted' /\ LastIsStored' /\ LastIsSent' /\ StoredIsSent'
  BY <1>2
  DEF RequestsInv, HasCopy, CopyIsAccepted, SentIsAccepted, LastIsStored, LastIsSent,
      StoredIsSent, Exists
<1>5. NoMessageForgotten'
  BY <1>1, <1>2
  DEF RequestsInv, OutboxTypeOK, StoredIsSent, LastIsStored, NoMessageForgotten, Kept, Exists,
      Queued
<1> QED BY <1>3, <1>4, <1>5 DEF RequestsInv

(* Err: every row is removed, and its message marked as failed.            *)
LEMMA FailRequests ==
  ASSUME RequestsInv, LoadFails \/ SendFails
  PROVE  RequestsInv'
<1>1. FailAll
  BY DEF LoadFails, SendFails
<1>2. /\ \A m \in Messages : stored'[m] = IF Queued(m) THEN [stored[m] EXCEPT !.failed = TRUE]
                                          ELSE stored[m]
      /\ stored' \in [Messages -> MessageRec]
      /\ unsentRows' = [m \in Messages |-> 0]
      /\ outboxLoop' = "off" /\ current' = NoCopy
      /\ UNCHANGED <<ownEdits, loadedForUser, versions, lastRequest, overtaken, skippedUnsent>>
  <2>1. \A m \in Messages : [stored[m] EXCEPT !.failed = TRUE] \in MessageRec
    BY DEF RequestsInv, OutboxTypeOK, MessageRec
  <2> QED BY <1>1, <2>1 DEF FailAll, LeaveOutbox, userVars, RequestsInv, OutboxTypeOK
<1>3. \A m \in Messages :
        /\ stored'[m].version = stored[m].version /\ (stored'[m].sent <=> stored[m].sent)
        /\ Queued(m) => stored'[m].failed
        /\ ~Queued(m) => stored'[m] = stored[m]
  <2> SUFFICES ASSUME NEW m \in Messages
               PROVE  /\ stored'[m].version = stored[m].version
                      /\ stored'[m].sent <=> stored[m].sent
                      /\ Queued(m) => stored'[m].failed
                      /\ ~Queued(m) => stored'[m] = stored[m]
    OBVIOUS
  <2>1. stored[m] \in MessageRec
    BY DEF RequestsInv, OutboxTypeOK
  <2> QED BY <1>2, <2>1 DEF MessageRec
<1>4. /\ acceptedByDs \subseteq acceptedByDs' /\ acceptedByDs' \subseteq Nat
      /\ peerShows' \in [Messages -> Nat] /\ peerEdits' \in [Messages -> SUBSET Nat]
      /\ sentTwice' \subseteq Messages
  <2>1. CASE UNCHANGED peerVars
    BY <2>1 DEF peerVars, RequestsInv, OutboxTypeOK
  <2>2. CASE SendFails /\ Deliver(current.id, current.copy)
    <3>1. current.id \in Messages /\ current.copy \in MessageRec
      BY <2>2, CurrentType DEF SendFails, HasCurrent, RequestsInv
    <3> QED BY <2>2, <3>1, DeliverType DEF RequestsInv
  <2> QED BY <2>1, <2>2 DEF LoadFails, SendFails
<1>5. OutboxTypeOK'
  BY <1>2, <1>4, NoMessageType DEF RequestsInv, OutboxTypeOK, HasCurrent
<1>6. CopyIsAccepted' /\ SentIsAccepted' /\ LastIsStored' /\ LastIsSent' /\ StoredIsSent'
  BY <1>2, <1>3, <1>4
  DEF RequestsInv, HasCopy, CopyIsAccepted, SentIsAccepted, LastIsStored, LastIsSent,
      StoredIsSent, Exists
<1>7. NoMessageForgotten'
  BY <1>2, <1>3
  DEF RequestsInv, NoMessageForgotten, Kept, Exists, Queued
<1> QED BY <1>5, <1>6, <1>7 DEF RequestsInv

(* The message is loaded for sending.                                      *)
LEMMA LoadUnsentRequests == RequestsInv /\ LoadUnsent => RequestsInv'
<1> SUFFICES ASSUME RequestsInv, LoadUnsent PROVE RequestsInv'
  OBVIOUS
<1>1. current.id \in Messages /\ Exists(current.id)
  BY CurrentType DEF LoadUnsent, HasCurrent, RequestsInv
<1>2. /\ current' = [current EXCEPT !.copy = stored[current.id]]
      /\ outboxLoop' = "request"
      /\ UNCHANGED <<stored, unsentRows, ownEdits, loadedForUser, versions, lastRequest, overtaken,
                     acceptedByDs, peerShows, peerEdits, sentTwice, skippedUnsent>>
  BY DEF LoadUnsent, userVars, peerVars
<1>3. /\ current'.id = current.id /\ current'.copy = stored[current.id]
      /\ current' \in [id : Messages \union {"none"}, copy : MessageRec]
  BY <1>1, <1>2 DEF RequestsInv, OutboxTypeOK
<1>4. OutboxTypeOK'
  BY <1>1, <1>2, <1>3 DEF RequestsInv, OutboxTypeOK, HasCurrent
<1>5. CopyIsAccepted' /\ SentIsAccepted' /\ LastIsStored' /\ LastIsSent' /\ StoredIsSent'
  BY <1>1, <1>2, <1>3
  DEF RequestsInv, HasCopy, CopyIsAccepted, SentIsAccepted, LastIsStored, LastIsSent,
      StoredIsSent, Exists
<1>6. NoMessageForgotten'
  BY <1>2 DEF RequestsInv, NoMessageForgotten, Kept, Exists, Queued
<1> QED BY <1>4, <1>5, <1>6 DEF RequestsInv

(* The DS accepts the message.                                             *)
LEMMA AcceptRequests == RequestsInv /\ SendAccepted => RequestsInv'
<1> SUFFICES ASSUME RequestsInv, SendAccepted PROVE RequestsInv'
  OBVIOUS
<1>1. current.id \in Messages /\ current.copy \in MessageRec
  BY CurrentType DEF SendAccepted, HasCurrent, RequestsInv
<1>2. /\ outboxLoop = "request" /\ outboxLoop' = "accepted"
      /\ UNCHANGED <<stored, unsentRows, current, ownEdits, loadedForUser, versions, lastRequest,
                     overtaken, skippedUnsent>>
  BY DEF SendAccepted, userVars
<1>3. /\ acceptedByDs' = acceptedByDs \union {current.copy.version}
      /\ acceptedByDs' \subseteq Nat
      /\ peerShows' \in [Messages -> Nat] /\ peerEdits' \in [Messages -> SUBSET Nat]
      /\ sentTwice' \subseteq Messages
  BY <1>1, DeliverType DEF SendAccepted, RequestsInv
<1>4. OutboxTypeOK'
  BY <1>1, <1>2, <1>3 DEF RequestsInv, OutboxTypeOK, HasCurrent
<1>5. CopyIsAccepted' /\ SentIsAccepted' /\ LastIsStored' /\ LastIsSent' /\ StoredIsSent'
  BY <1>1, <1>2, <1>3
  DEF RequestsInv, HasCopy, CopyIsAccepted, SentIsAccepted, LastIsStored, LastIsSent,
      StoredIsSent, Exists
<1>6. NoMessageForgotten'
  BY <1>2 DEF RequestsInv, NoMessageForgotten, Kept, Exists, Queued
<1> QED BY <1>4, <1>5, <1>6 DEF RequestsInv

(* The copy is written back as sent, if the message still exists.          *)
LEMMA PostProcessRequests == RequestsInv /\ PostProcess => RequestsInv'
<1> SUFFICES ASSUME RequestsInv, PostProcess PROVE RequestsInv'
  OBVIOUS
<1> DEFINE c == [current.copy EXCEPT !.sent = TRUE]
<1>1. current.id \in Messages /\ current.copy \in MessageRec
  BY CurrentType DEF PostProcess, HasCurrent, RequestsInv
<1>2. /\ outboxLoop = "accepted" /\ outboxLoop' = "stored"
      /\ stored' = [stored EXCEPT ![current.id] = IF Exists(current.id) THEN c ELSE @]
      /\ UNCHANGED <<unsentRows, current, ownEdits, loadedForUser, versions, lastRequest,
                     overtaken, skippedUnsent, acceptedByDs, peerShows, peerEdits, sentTwice>>
  BY DEF PostProcess, userVars, peerVars
<1>3. c \in MessageRec /\ c.sent /\ c.version = current.copy.version
  BY <1>1 DEF MessageRec
<1> HIDE DEF c
<1>4. OutboxTypeOK'
  BY <1>1, <1>2, <1>3 DEF RequestsInv, OutboxTypeOK, HasCurrent
<1>5. CopyIsAccepted' /\ SentIsAccepted' /\ LastIsStored' /\ LastIsSent' /\ StoredIsSent'
  BY <1>1, <1>2, <1>3
  DEF RequestsInv, OutboxTypeOK, HasCopy, CopyIsAccepted, SentIsAccepted, LastIsStored,
      LastIsSent, StoredIsSent, Exists
<1>6. NoMessageForgotten'
  BY <1>1, <1>2, <1>3
  DEF RequestsInv, OutboxTypeOK, HasCopy, LastIsSent, NoMessageForgotten, Kept, Exists, Queued
<1> QED BY <1>4, <1>5, <1>6 DEF RequestsInv

(* Every step preserves the invariant of the requests.                     *)
LEMMA RequestsInvNext == RequestsInv /\ [OutboxNext]_outboxVars => RequestsInv'
<1> SUFFICES ASSUME RequestsInv, [OutboxNext]_outboxVars PROVE RequestsInv'
  OBVIOUS
<1>1. CASE UNCHANGED outboxVars
  BY <1>1
  DEF outboxVars, userVars, peerVars, RequestsInv, OutboxTypeOK, HasCurrent, HasCopy,
      CopyIsAccepted, SentIsAccepted, LastIsStored, LastIsSent, StoredIsSent,
      NoMessageForgotten, Kept, Exists, Queued
<1>2. ASSUME NEW m \in Messages, SendMessage(m) PROVE RequestsInv'
  BY <1>2, SubmitRequests, NoMessageType DEF SendMessage, RequestsInv, OutboxTypeOK
<1>3. ASSUME NEW null \in BOOLEAN, ReplaceMessage(null) PROVE RequestsInv'
  <2>1. OutboxTypeOK
    BY DEF RequestsInv
  <2> QED
    BY <1>3, <2>1, ReplaceIsSubmit, ReplacementType, SubmitRequests
<1> QED
  BY <1>1, <1>2, <1>3, LoadRequests, DeleteRequests, MovesRequests, SkipRequests,
     RemoveRequests, FailRequests, LoadUnsentRequests, AcceptRequests, PostProcessRequests
  DEF OutboxNext, OutboxStep

(* A message that the user sees as sent was accepted by the DS with the    *)
(* very content the user sees, for any number of messages, edits,          *)
(* deletions and faults (post-processing of send_chat_message).            *)
THEOREM SentWasAccepted == OutboxSpec => []SentIsAccepted
<1>1. RequestsInv => SentIsAccepted
  BY DEF RequestsInv
<1> QED
  BY RequestsInvInit, RequestsInvNext, <1>1, PTL DEF OutboxSpec

(* The last send, edit or deletion of a message is stored, and queued      *)
(* unless it was sent or is marked as failed, for any number of messages,  *)
(* requests and faults, except when the chat was blocked or waited for a   *)
(* resync or the message was changed while it was sent                     *)
(* (send_queued_messages).                                                 *)
THEOREM NothingForgotten == OutboxSpec => []NoMessageForgotten
<1>1. RequestsInv => NoMessageForgotten
  BY DEF RequestsInv
<1> QED
  BY RequestsInvInit, RequestsInvNext, <1>1, PTL DEF OutboxSpec

-----------------------------------------------------------------------------
(***************************************************************************)
(* The peer: PeersAgree.                                                   *)
(***************************************************************************)

(* There is no copy at the beginning.                                      *)
LEMMA PeerInvInit == OutboxInit => PeerInv
<1> SUFFICES ASSUME OutboxInit PROVE PeerInv
  OBVIOUS
<1>1. RequestsInv
  BY RequestsInvInit
<1>2. \A m \in Messages : \A r : ~IsLive(m, r)
  BY NoMessageType, OutboxAssumption DEF OutboxInit, IsLive, Exists, InFlight
<1>3. /\ acceptedByDs \subseteq 1..versions
      /\ CopiesWellFormed /\ PeerHasCopies /\ VersionsApart /\ LoadedIsStored
  BY <1>2 DEF OutboxInit, CopiesWellFormed, PeerHasCopies, VersionsApart, LoadedIsStored
<1>4. InFlightIsOldest /\ Unknown
  BY NoMessageType, OutboxAssumption
  DEF OutboxInit, InFlightIsOldest, InFlight, Unknown, Exists, Queued, HasCurrent
<1> QED BY <1>1, <1>3, <1>4 DEF PeerInv

(* A step after which every copy has the content of an earlier one.        *)
NoNewContent ==
  \A m \in Messages : \A r :
    IsLive(m, r)' => r \in MessageRec /\ \E s : IsLive(m, s) /\ SameContent(r, s)

(* Such a step, if the peer stays as it is, preserves what holds of each   *)
(* copy.                                                                   *)
LEMMA CopiesKept ==
  ASSUME PeerInv, NoNewContent, UNCHANGED <<versions, peerVars>>
  PROVE  /\ acceptedByDs' \subseteq 1..versions'
         /\ CopiesWellFormed' /\ PeerHasCopies' /\ VersionsApart'
<1>1. UNCHANGED <<versions, acceptedByDs, peerShows, peerEdits, sentTwice>>
  BY DEF peerVars
<1>2. CopiesWellFormed'
  <2> SUFFICES ASSUME NEW m \in Messages, NEW r, IsLive(m, r)' PROVE WellFormed(r)'
    BY DEF CopiesWellFormed
  <2>1. PICK s : r \in MessageRec /\ IsLive(m, s) /\ SameContent(r, s)
    BY DEF NoNewContent
  <2>2. WellFormed(s)
    BY <2>1 DEF PeerInv, CopiesWellFormed
  <2> QED BY <1>1, <2>1, <2>2 DEF WellFormed, SameContent, VersionsOf
<1>3. PeerHasCopies'
  <2> SUFFICES ASSUME NEW m \in Messages, NEW r, IsLive(m, r)' PROVE PeerHas(m, r)'
    BY DEF PeerHasCopies
  <2>1. PICK s : r \in MessageRec /\ IsLive(m, s) /\ SameContent(r, s)
    BY DEF NoNewContent
  <2>2. PeerHas(m, s)
    BY <2>1 DEF PeerInv, PeerHasCopies
  <2> QED BY <1>1, <2>1, <2>2 DEF PeerHas, SameContent
<1>4. VersionsApart'
  <2> SUFFICES ASSUME NEW m \in Messages, NEW n \in Messages, NEW r, NEW s,
                      IsLive(m, r)', IsLive(n, s)', m # n
               PROVE  VersionsOf(r) \intersect VersionsOf(s) = {}
    BY DEF VersionsApart
  <2>1. PICK r0 : IsLive(m, r0) /\ SameContent(r, r0)
    BY DEF NoNewContent
  <2>2. PICK s0 : IsLive(n, s0) /\ SameContent(s, s0)
    BY DEF NoNewContent
  <2>3. VersionsOf(r0) \intersect VersionsOf(s0) = {}
    BY <2>1, <2>2 DEF PeerInv, VersionsApart
  <2> QED BY <2>1, <2>2, <2>3 DEF SameContent, VersionsOf
<1> QED BY <1>1, <1>2, <1>3, <1>4 DEF PeerInv

(* Every copy that is live has its type.                                   *)
LEMMA LiveType ==
  ASSUME PeerInv, NEW m \in Messages, NEW r, IsLive(m, r)
  PROVE  r \in MessageRec
  BY DEF PeerInv, CopiesWellFormed, WellFormed

(* The run moves on without sending, or a row is removed.                  *)
LEMMA MovesPeer ==
  ASSUME PeerInv,
         \/ BeginOutbox \/ EndOutbox \/ StopOutbox \/ Dequeue \/ SkipForOperation \/ SendCollides
         \/ SkipUnsent \/ RemoveSent
  PROVE  PeerInv'
<1>1. RequestsInv /\ RequestsInv'
  BY MovesRequests, SkipRequests, RemoveRequests DEF PeerInv
<1>2. /\ UNCHANGED <<stored, userVars, peerVars>>
      /\ outboxLoop' \in {"off", "loop", "dequeued"}
      /\ HasCurrent' => Queued(current'.id)
      /\ \A m \in Messages : unsentRows'[m] # 0 => unsentRows[m] # 0
  <2>1. CASE SkipUnsent \/ RemoveSent
    BY <1>1, <2>1, CurrentType
    DEF SkipUnsent, RemoveSent, RemoveRow, NextRow, HasCurrent, RequestsInv, OutboxTypeOK
  <2>2. CASE BeginOutbox \/ EndOutbox \/ StopOutbox \/ Dequeue \/ SkipForOperation \/ SendCollides
    BY <1>1, <2>2, MovesRequests
  <2> QED BY <2>1, <2>2
<1>3. UNCHANGED <<loadedForUser, versions, lastRequest, overtaken>>
  BY <1>2 DEF userVars
<1>4. \A m \in Messages : \A r : IsLive(m, r)' => IsLive(m, r)
  BY <1>2, <1>3 DEF IsLive, InFlight, Exists
<1>5. NoNewContent
  BY <1>4, LiveType DEF NoNewContent, SameContent
<1>6. InFlightIsOldest' /\ LoadedIsStored'
  BY <1>2, <1>3 DEF PeerInv, InFlightIsOldest, InFlight, LoadedIsStored, Exists
<1>7. Unknown'
  <2>1. \A m \in Messages : HasCurrent' /\ current'.id = m => lastRequest[m] # 0
    BY <1>2 DEF PeerInv, Unknown
  <2> QED
    BY <1>2, <1>3, <2>1 DEF PeerInv, Unknown, Exists, Queued, peerVars
<1> QED BY <1>1, <1>2, <1>3, <1>5, <1>6, <1>7, CopiesKept DEF PeerInv

(* The user loads a message, or an edit is refused.                        *)
LEMMA LoadPeer ==
  ASSUME PeerInv, (\E m \in Messages : LoadMessage(m)) \/ EditFails
  PROVE  PeerInv'
<1>1. RequestsInv'
  BY LoadRequests DEF PeerInv
<1>2. UNCHANGED <<stored, unsentRows, outboxLoop, current, peerVars, versions, lastRequest>>
  BY DEF LoadMessage, EditFails
<1>3. \/ loadedForUser' = NoCopy
      \/ \E m \in Messages : /\ Exists(m) /\ ~stored[m].null
                             /\ loadedForUser'.id = m /\ loadedForUser'.copy = stored[m]
  BY DEF LoadMessage, EditFails
<1>4. \A m \in Messages : \A r : IsLive(m, r)' => IsLive(m, r)
  BY <1>2, <1>3, NoMessageType, OutboxAssumption DEF IsLive, InFlight, Exists
<1>5. NoNewContent
  BY <1>4, LiveType DEF NoNewContent, SameContent
<1>6. InFlightIsOldest'
  <2>1. InFlight => current.id \in Messages
    BY DEF InFlight, HasCurrent, PeerInv, RequestsInv, OutboxTypeOK
  <2> QED
    BY <1>2, <1>4, <2>1 DEF PeerInv, InFlightIsOldest, InFlight, MadeSince, peerVars
<1>7. LoadedIsStored'
  BY <1>2, <1>3 DEF LoadedIsStored, SameContent, Exists
<1>8. Unknown'
  BY <1>2, <1>3, NoMessageType, OutboxAssumption
  DEF PeerInv, Unknown, Exists, Queued, HasCurrent, peerVars
<1> QED BY <1>1, <1>2, <1>5, <1>6, <1>7, <1>8, CopiesKept DEF PeerInv

(* delete_message_locally: one copy less.                                  *)
LEMMA DeletePeer ==
  ASSUME PeerInv, NEW m \in Messages, DeleteLocally(m)
  PROVE  PeerInv'
<1>1. RequestsInv'
  BY DeleteRequests DEF PeerInv
<1>2. /\ stored' = [stored EXCEPT ![m] = NoMessage] /\ stored \in [Messages -> MessageRec]
      /\ unsentRows' = [unsentRows EXCEPT ![m] = 0] /\ unsentRows \in [Messages -> Nat]
      /\ loadedForUser = NoCopy
      /\ UNCHANGED <<outboxLoop, current, loadedForUser, versions, lastRequest, peerVars>>
  BY DEF DeleteLocally, PeerInv, RequestsInv, OutboxTypeOK
<1>3. \A n \in Messages : \A r : IsLive(n, r)' => IsLive(n, r)
  BY <1>2, NoMessageType, OutboxAssumption DEF IsLive, InFlight, Exists
<1>4. NoNewContent
  BY <1>3, LiveType DEF NoNewContent, SameContent
<1>5. InFlightIsOldest'
  <2>1. InFlight => current.id \in Messages
    BY DEF InFlight, HasCurrent, PeerInv, RequestsInv, OutboxTypeOK
  <2> QED
    BY <1>2, <1>3, <2>1 DEF PeerInv, InFlightIsOldest, InFlight, MadeSince, peerVars
<1>6. LoadedIsStored'
  BY <1>2 DEF LoadedIsStored
<1>7. Unknown'
  BY <1>2, NoMessageType DEF PeerInv, Unknown, Exists, Queued, HasCurrent, peerVars
<1> QED BY <1>1, <1>2, <1>4, <1>5, <1>6, <1>7, CopiesKept DEF PeerInv

(* The message is loaded for sending: the loop's copy is the stored one,   *)
(* and so is the user's, as a message stored as sent is not loaded.        *)
LEMMA LoadUnsentPeer == PeerInv /\ LoadUnsent => PeerInv'
<1> SUFFICES ASSUME PeerInv, LoadUnsent PROVE PeerInv'
  OBVIOUS
<1>1. RequestsInv'
  BY LoadUnsentRequests DEF PeerInv
<1>2. /\ current.id \in Messages /\ Exists(current.id) /\ ~stored[current.id].sent
      /\ current'.id = current.id /\ current'.copy = stored[current.id]
      /\ outboxLoop = "dequeued" /\ outboxLoop' = "request"
      /\ UNCHANGED <<stored, unsentRows, loadedForUser, versions, lastRequest, peerVars>>
  BY CurrentType DEF LoadUnsent, HasCurrent, PeerInv, RequestsInv, OutboxTypeOK, userVars
<1>3. \A m \in Messages : \A r : IsLive(m, r)' => IsLive(m, r)
  BY <1>2 DEF IsLive, InFlight, Exists
<1>4. NoNewContent
  BY <1>3, LiveType DEF NoNewContent, SameContent
<1>5. InFlightIsOldest'
  <2> SUFFICES ASSUME NEW r, IsLive(current.id, r)'
               PROVE  SameContent(r, stored[current.id])
    BY <1>2 DEF InFlightIsOldest
  <2>1. r = stored[current.id] \/ (loadedForUser.id = current.id /\ r = loadedForUser.copy)
    BY <1>2 DEF IsLive
  <2>2. loadedForUser.id = current.id =>
          SameContent(stored[current.id], loadedForUser.copy)
    BY <1>2, NoMessageType, OutboxAssumption DEF PeerInv, LoadedIsStored
  <2> QED BY <2>1, <2>2 DEF SameContent
<1>6. LoadedIsStored'
  BY <1>2 DEF PeerInv, LoadedIsStored, Exists
<1>7. Unknown'
  BY <1>2 DEF PeerInv, Unknown, Exists, Queued, HasCurrent, peerVars
<1> QED BY <1>1, <1>2, <1>4, <1>5, <1>6, <1>7, CopiesKept DEF PeerInv

(* The copy is written back: the stored content is the loop's.             *)
LEMMA PostProcessPeer == PeerInv /\ PostProcess => PeerInv'
<1> SUFFICES ASSUME PeerInv, PostProcess PROVE PeerInv'
  OBVIOUS
<1> DEFINE c == [current.copy EXCEPT !.sent = TRUE]
<1>1. RequestsInv /\ RequestsInv'
  BY PostProcessRequests DEF PeerInv
<1>2. current.id \in Messages /\ current.copy \in MessageRec
  BY <1>1, CurrentType DEF PostProcess, HasCurrent, RequestsInv
<1>3. /\ outboxLoop = "accepted" /\ outboxLoop' = "stored"
      /\ stored' = [stored EXCEPT ![current.id] = IF Exists(current.id) THEN c ELSE @]
      /\ stored \in [Messages -> MessageRec]
      /\ UNCHANGED <<unsentRows, current, loadedForUser, versions, lastRequest, peerVars>>
  BY <1>1 DEF PostProcess, userVars, RequestsInv, OutboxTypeOK
<1>4. c \in MessageRec /\ c.sent /\ SameContent(c, current.copy)
  BY <1>2 DEF MessageRec, SameContent
<1> HIDE DEF c
<1>5. IsLive(current.id, current.copy) /\ current.copy.version # 0
  BY <1>2, <1>3 DEF IsLive, InFlight, PeerInv, CopiesWellFormed, WellFormed
<1>6. NoNewContent
  <2> SUFFICES ASSUME NEW m \in Messages, NEW r, IsLive(m, r)'
               PROVE  r \in MessageRec /\ \E s : IsLive(m, s) /\ SameContent(r, s)
    BY DEF NoNewContent
  <2>1. IsLive(m, r) \/ (r = c /\ m = current.id)
    BY <1>2, <1>3 DEF IsLive, InFlight, Exists
  <2>2. CASE IsLive(m, r)
    BY <2>2, LiveType DEF SameContent
  <2> QED BY <1>4, <1>5, <2>1, <2>2
<1>7. InFlightIsOldest'
  BY <1>3 DEF InFlightIsOldest, InFlight
<1>8. LoadedIsStored'
  <2>1. loadedForUser # NoCopy => loadedForUser.id \in Messages
    BY <1>1 DEF RequestsInv, OutboxTypeOK
  <2> QED
    BY <1>2, <1>3, <1>4, <1>5, <2>1 DEF PeerInv, LoadedIsStored, Exists, SameContent
<1>9. Unknown'
  BY <1>2, <1>3, <1>4, <1>5 DEF PeerInv, Unknown, Exists, Queued, HasCurrent, peerVars, SameContent
<1> QED BY <1>1, <1>3, <1>6, <1>7, <1>8, <1>9, CopiesKept DEF PeerInv


(* What a delivery of the loop's copy does, as far as the copies can tell. *)
LEMMA DeliverPeer ==
  ASSUME PeerInv, InFlight, Deliver(current.id, current.copy), UNCHANGED versions
  PROVE  /\ acceptedByDs' \subseteq 1..versions'
         /\ \A m \in Messages : \A r : IsLive(m, r) => PeerHas(m, r)'
         /\ \A r, c : IsLive(current.id, r) /\ c = current.copy =>
              SameContent(r, c) \/ MadeSince(r, c)'
         /\ \A m \in Messages : m # current.id =>
              peerShows'[m] = peerShows[m] /\ peerEdits'[m] = peerEdits[m]
<1>0. PICK k, c : k = current.id /\ c = current.copy
  OBVIOUS
<1>1. k \in Messages /\ c \in MessageRec /\ IsLive(k, c)
  BY <1>0, CurrentType DEF InFlight, HasCurrent, IsLive, PeerInv, RequestsInv
<1>2. WellFormed(c) /\ PeerHas(k, c)
  BY <1>1 DEF PeerInv, CopiesWellFormed, PeerHasCopies
<1>3. /\ acceptedByDs' = acceptedByDs \union {c.version}
      /\ sentTwice \subseteq sentTwice' /\ (c.version \in acceptedByDs => k \in sentTwice')
      /\ \A m \in Messages : m # k =>
           peerShows'[m] = peerShows[m] /\ peerEdits'[m] = peerEdits[m]
  BY <1>0, <1>1 DEF Deliver, PeerInv, RequestsInv, OutboxTypeOK
<1>4. ASSUME k \notin sentTwice', c.earlier \subseteq acceptedByDs
      PROVE  peerShows'[k] = c.version /\ (c.null \/ peerEdits'[k] = c.earlier)
  <2>1. c.version \notin acceptedByDs /\ peerShows[k] = c.replaces
        /\ peerEdits[k] = c.earlier \ {c.replaces}
    BY <1>2, <1>3, <1>4 DEF PeerHas
  <2>2. /\ peerShows \in [Messages -> Nat] /\ peerEdits \in [Messages -> SUBSET Nat]
    BY DEF PeerInv, RequestsInv, OutboxTypeOK
  <2>3. CASE c.replaces = 0
    <3>1. c.earlier = {}
      BY <1>2, <2>3 DEF WellFormed, VersionsOf
    <3>2. peerShows'[k] = c.version /\ peerEdits'[k] = peerEdits[k]
      BY <1>0, <1>1, <2>2, <2>3 DEF Deliver
    <3> QED BY <2>1, <3>1, <3>2
  <2>4. CASE c.replaces # 0
    <3>1. c.replaces \in c.earlier
      BY <1>2, <2>4 DEF WellFormed
    <3>2. /\ peerShows'[k] = c.version
          /\ ~c.null => peerEdits'[k] = peerEdits[k] \union {peerShows[k]}
      BY <1>0, <1>1, <2>1, <2>2, <2>4 DEF Deliver
    <3> QED BY <2>1, <3>1, <3>2
  <2> QED BY <2>3, <2>4
<1>5. ASSUME NEW r, IsLive(k, r), MadeSince(r, c) PROVE MadeSince(r, c)'
  <2>1. r.version # c.version
    BY <1>1, <1>5 DEF MadeSince, PeerInv, CopiesWellFormed, WellFormed
  <2> QED BY <1>3, <1>5, <2>1 DEF MadeSince
<1>6. ASSUME NEW r, IsLive(k, r) PROVE SameContent(r, c) \/ MadeSince(r, c)
  BY <1>0, <1>6 DEF PeerInv, InFlightIsOldest
<1>7. ASSUME NEW m \in Messages, NEW r, IsLive(m, r) PROVE PeerHas(m, r)'
  <2> SUFFICES ASSUME r.earlier \subseteq acceptedByDs', m \notin sentTwice'
               PROVE  \/ /\ r.version \in acceptedByDs' /\ peerShows'[m] = r.version
                         /\ r.null \/ peerEdits'[m] = r.earlier
                      \/ /\ r.version \notin acceptedByDs' /\ peerShows'[m] = r.replaces
                         /\ peerEdits'[m] = r.earlier \ {r.replaces}
    BY DEF PeerHas
  <2>1. CASE m # k
    <3>1. c.version \notin VersionsOf(r)
      BY <1>1, <1>7, <2>1 DEF PeerInv, VersionsApart, VersionsOf
    <3>2. PeerHas(m, r)
      BY <1>7 DEF PeerInv, PeerHasCopies
    <3> QED BY <1>3, <2>1, <3>1, <3>2 DEF PeerHas, VersionsOf
  <2>2. CASE m = k /\ SameContent(r, c)
    <3>1. c.earlier \subseteq acceptedByDs
      BY <1>2, <1>3, <2>2 DEF SameContent, WellFormed
    <3> QED BY <1>3, <1>4, <2>2, <3>1 DEF SameContent
  <2>3. CASE m = k /\ MadeSince(r, c)
    <3>1. MadeSince(r, c)'
      BY <1>5, <1>7, <2>3
    <3>2. ~c.null /\ r.replaces = c.version /\ r.earlier = VersionsOf(c)
      BY <1>3, <2>3 DEF MadeSince
    <3>3. c.earlier \subseteq acceptedByDs
      BY <1>2, <1>3, <3>2 DEF VersionsOf, WellFormed
    <3>4. peerShows'[k] = c.version /\ peerEdits'[k] = c.earlier
      BY <1>4, <2>3, <3>2, <3>3
    <3>5. c.earlier = r.earlier \ {r.replaces}
      BY <1>2, <3>2 DEF VersionsOf, WellFormed
    <3> QED BY <2>3, <3>1, <3>2, <3>4, <3>5 DEF MadeSince
  <2> QED BY <1>6, <1>7, <2>1, <2>2, <2>3
<1>8. acceptedByDs' \subseteq 1..versions'
  BY <1>2, <1>3 DEF PeerInv, WellFormed, VersionsOf
<1> QED BY <1>0, <1>3, <1>5, <1>6, <1>7, <1>8

(* The DS accepts the loop's copy.                                         *)
LEMMA AcceptPeer == PeerInv /\ SendAccepted => PeerInv'
<1> SUFFICES ASSUME PeerInv, SendAccepted PROVE PeerInv'
  OBVIOUS
<1>1. RequestsInv'
  BY AcceptRequests DEF PeerInv
<1>2. /\ InFlight /\ InFlight' /\ Deliver(current.id, current.copy)
      /\ HasCurrent /\ HasCurrent'
      /\ UNCHANGED <<stored, unsentRows, current, loadedForUser, versions, lastRequest>>
  BY DEF SendAccepted, InFlight, HasCurrent, userVars
<1>3. \A m \in Messages : \A r : IsLive(m, r)' <=> IsLive(m, r)
  BY <1>2 DEF IsLive, Exists
<1>4. current.id \in Messages
  BY <1>2, CurrentType DEF PeerInv, RequestsInv
<1>5. /\ acceptedByDs' \subseteq 1..versions'
      /\ \A m \in Messages : \A r : IsLive(m, r) => PeerHas(m, r)'
      /\ \A r, c : IsLive(current.id, r) /\ c = current.copy =>
           SameContent(r, c) \/ MadeSince(r, c)'
      /\ \A m \in Messages : m # current.id =>
           peerShows'[m] = peerShows[m] /\ peerEdits'[m] = peerEdits[m]
  BY <1>2, DeliverPeer
<1>6. CopiesWellFormed' /\ VersionsApart'
  BY <1>2, <1>3 DEF PeerInv, CopiesWellFormed, WellFormed, VersionsApart
<1>7. PeerHasCopies'
  BY <1>3, <1>5 DEF PeerHasCopies
<1>8. InFlightIsOldest'
  BY <1>2, <1>3, <1>4, <1>5 DEF InFlightIsOldest, MadeSince
<1>9. LoadedIsStored' /\ Unknown'
  BY <1>2, <1>4, <1>5 DEF PeerInv, LoadedIsStored, Unknown, Exists, Queued
<1> QED BY <1>1, <1>5, <1>6, <1>7, <1>8, <1>9 DEF PeerInv

(* The run fails, before or after the DS has accepted the copy.            *)
LEMMA FailPeer ==
  ASSUME PeerInv, LoadFails \/ SendFails
  PROVE  PeerInv'
<1>1. RequestsInv /\ RequestsInv'
  BY FailRequests DEF PeerInv
<1>2. /\ \A m \in Messages : stored'[m] = IF Queued(m) THEN [stored[m] EXCEPT !.failed = TRUE]
                                          ELSE stored[m]
      /\ unsentRows' = [m \in Messages |-> 0]
      /\ outboxLoop' = "off"
      /\ UNCHANGED <<loadedForUser, versions, lastRequest>>
  BY DEF LoadFails, SendFails, FailAll, LeaveOutbox, userVars
<1>3. \A m \in Messages : stored'[m] \in MessageRec /\ SameContent(stored'[m], stored[m])
                          /\ (stored[m].sent => stored'[m].sent)
  <2> SUFFICES ASSUME NEW m \in Messages
               PROVE  stored'[m] \in MessageRec /\ SameContent(stored'[m], stored[m])
                      /\ (stored[m].sent => stored'[m].sent)
    OBVIOUS
  <2>1. stored[m] \in MessageRec
    BY <1>1 DEF RequestsInv, OutboxTypeOK
  <2> QED BY <1>2, <2>1 DEF MessageRec, SameContent
<1>4. NoNewContent
  <2> SUFFICES ASSUME NEW m \in Messages, NEW r, IsLive(m, r)'
               PROVE  r \in MessageRec /\ \E s : IsLive(m, s) /\ SameContent(r, s)
    BY DEF NoNewContent
  <2>1. CASE Exists(m)' /\ r = stored'[m]
    <3>1. IsLive(m, stored[m])
      BY <1>3, <2>1 DEF IsLive, Exists, SameContent
    <3> QED BY <1>3, <2>1, <3>1
  <2>2. CASE loadedForUser.id = m /\ r = loadedForUser.copy
    <3>1. IsLive(m, r)
      BY <2>2 DEF IsLive
    <3> QED BY <3>1, LiveType DEF SameContent
  <2> QED BY <1>2, <2>1, <2>2 DEF IsLive, InFlight
<1>5. InFlightIsOldest'
  BY <1>2 DEF InFlightIsOldest, InFlight
<1>6. LoadedIsStored'
  <2>1. loadedForUser # NoCopy => loadedForUser.id \in Messages
    BY <1>1 DEF RequestsInv, OutboxTypeOK
  <2> QED BY <1>2, <1>3, <2>1 DEF PeerInv, LoadedIsStored, Exists, SameContent
<1>7. CASE UNCHANGED peerVars
  <2>1. Unknown'
    BY <1>2, <1>3, <1>7
    DEF PeerInv, Unknown, Exists, Queued, HasCurrent, peerVars, SameContent
  <2> QED BY <1>1, <1>2, <1>4, <1>5, <1>6, <1>7, <2>1, CopiesKept DEF PeerInv
<1>8. CASE SendFails /\ Deliver(current.id, current.copy)
  <2>1. InFlight /\ current.id \in Messages /\ HasCurrent
    BY <1>1, <1>8, CurrentType DEF SendFails, InFlight, HasCurrent, RequestsInv
  <2>2. /\ acceptedByDs' \subseteq 1..versions'
        /\ \A m \in Messages : \A r : IsLive(m, r) => PeerHas(m, r)'
        /\ \A m \in Messages : m # current.id =>
             peerShows'[m] = peerShows[m] /\ peerEdits'[m] = peerEdits[m]
    BY <1>2, <1>8, <2>1, DeliverPeer
  <2>3. CopiesWellFormed'
    <3> SUFFICES ASSUME NEW m \in Messages, NEW r, IsLive(m, r)' PROVE WellFormed(r)'
      BY DEF CopiesWellFormed
    <3>1. PICK s : r \in MessageRec /\ IsLive(m, s) /\ SameContent(r, s)
      BY <1>4 DEF NoNewContent
    <3>2. WellFormed(s)
      BY <3>1 DEF PeerInv, CopiesWellFormed
    <3> QED BY <1>2, <3>1, <3>2 DEF WellFormed, SameContent, VersionsOf
  <2>4. PeerHasCopies'
    <3> SUFFICES ASSUME NEW m \in Messages, NEW r, IsLive(m, r)' PROVE PeerHas(m, r)'
      BY DEF PeerHasCopies
    <3>1. PICK s : r \in MessageRec /\ IsLive(m, s) /\ SameContent(r, s)
      BY <1>4 DEF NoNewContent
    <3>2. PeerHas(m, s)'
      BY <2>2, <3>1
    <3> QED BY <3>1, <3>2 DEF PeerHas, SameContent
  <2>5. VersionsApart'
    <3> SUFFICES ASSUME NEW m \in Messages, NEW n \in Messages, NEW r, NEW s,
                        IsLive(m, r)', IsLive(n, s)', m # n
                 PROVE  VersionsOf(r) \intersect VersionsOf(s) = {}
      BY DEF VersionsApart
    <3>1. PICK r0 : IsLive(m, r0) /\ SameContent(r, r0)
      BY <1>4 DEF NoNewContent
    <3>2. PICK s0 : IsLive(n, s0) /\ SameContent(s, s0)
      BY <1>4 DEF NoNewContent
    <3>3. VersionsOf(r0) \intersect VersionsOf(s0) = {}
      BY <3>1, <3>2 DEF PeerInv, VersionsApart
    <3> QED BY <3>1, <3>2, <3>3 DEF SameContent, VersionsOf
  <2>6. Unknown'
    BY <1>2, <1>3, <2>1, <2>2 DEF PeerInv, Unknown, Exists, Queued, HasCurrent, SameContent
  <2> QED BY <1>1, <1>5, <1>6, <2>2, <2>3, <2>4, <2>5, <2>6 DEF PeerInv
<1> QED BY <1>7, <1>8 DEF LoadFails, SendFails


(* A new version of message m fits the copies there are: it comes from     *)
(* versions of m only, the peer will find it in its place, and it is made  *)
(* since the loop's copy was loaded.                                       *)
Fits(m, message) ==
  /\ message \in MessageRec /\ ~message.sent
  /\ message.earlier \subseteq 1..versions
  /\ message.replaces \in message.earlier \/ (message.replaces = 0 /\ message.earlier = {})
  /\ message.earlier \subseteq acceptedByDs /\ m \notin sentTwice =>
       peerShows[m] = message.replaces /\ peerEdits[m] = message.earlier \ {message.replaces}
  /\ \A n \in Messages : \A s :
       IsLive(n, s) /\ n # m => VersionsOf(s) \intersect message.earlier = {}
  /\ InFlight /\ current.id = m =>
       /\ current.copy.version \in message.earlier
       /\ \/ /\ ~current.copy.null /\ message.replaces = current.copy.version
             /\ message.earlier = VersionsOf(current.copy)
          \/ \E x \in message.earlier : x \notin acceptedByDs /\ x # current.copy.version

(* A request whose new version fits.                                       *)
LEMMA SubmitPeer ==
  ASSUME PeerInv, NEW m \in Messages, NEW message, Fits(m, message),
         Submit(m, message), ownEdits' \in [Messages -> SUBSET Nat]
  PROVE  PeerInv'
<1>0. PICK new : new = [message EXCEPT !.version = versions + 1]
  OBVIOUS
<1>1. RequestsInv /\ RequestsInv'
  BY SubmitRequests DEF PeerInv, Fits
<1>2. /\ versions \in Nat /\ versions' = versions + 1
      /\ stored' = [stored EXCEPT ![m] = new] /\ stored \in [Messages -> MessageRec]
      /\ lastRequest' = [lastRequest EXCEPT ![m] = versions + 1]
      /\ lastRequest \in [Messages -> Nat]
      /\ loadedForUser' = NoCopy
      /\ UNCHANGED <<outboxLoop, current, peerVars>>
  BY <1>0, <1>1 DEF Submit, RequestsInv, OutboxTypeOK
<1>3. \A n \in Messages : n # m => unsentRows'[n] = unsentRows[n]
  BY <1>1 DEF Submit, Enqueue, RequestsInv, OutboxTypeOK
<1>4. /\ new \in MessageRec /\ new.version = versions + 1
      /\ new.replaces = message.replaces /\ new.earlier = message.earlier
  BY <1>0, <1>2 DEF MessageRec, Fits
<1>5. ASSUME NEW n \in Messages, NEW r, IsLive(n, r)'
      PROVE  IsLive(n, r) \/ (n = m /\ r = new)
  BY <1>2, <1>5, NoMessageType, OutboxAssumption DEF IsLive, InFlight, Exists
<1>6. ASSUME NEW n \in Messages, NEW r, IsLive(n, r)
      PROVE  WellFormed(r) /\ VersionsOf(r) \subseteq 1..versions
  BY <1>6 DEF PeerInv, CopiesWellFormed, WellFormed
<1>7. new.version \notin acceptedByDs /\ acceptedByDs \subseteq 1..versions
  BY <1>2, <1>4 DEF PeerInv
<1>8. CopiesWellFormed'
  <2> SUFFICES ASSUME NEW n \in Messages, NEW r, IsLive(n, r)' PROVE WellFormed(r)'
    BY DEF CopiesWellFormed
  <2>1. CASE IsLive(n, r)
    BY <1>2, <1>6, <2>1 DEF WellFormed
  <2>2. CASE r = new
    BY <1>2, <1>4, <2>2 DEF Fits, WellFormed, VersionsOf
  <2> QED BY <1>5, <2>1, <2>2
<1>9. PeerHasCopies'
  <2> SUFFICES ASSUME NEW n \in Messages, NEW r, IsLive(n, r)' PROVE PeerHas(n, r)'
    BY DEF PeerHasCopies
  <2>1. CASE IsLive(n, r)
    BY <1>2, <2>1 DEF PeerInv, PeerHasCopies, PeerHas, peerVars
  <2>2. CASE n = m /\ r = new
    BY <1>2, <1>4, <1>7, <2>2 DEF Fits, PeerHas, peerVars
  <2> QED BY <1>5, <2>1, <2>2
<1>10. VersionsApart'
  <2>1. ASSUME NEW n \in Messages, NEW s, IsLive(n, s), n # m
        PROVE  VersionsOf(s) \intersect VersionsOf(new) = {}
    <3>1. new.version \notin VersionsOf(s)
      BY <1>2, <1>4, <1>6, <2>1
    <3>2. VersionsOf(s) \intersect new.earlier = {}
      BY <1>4, <2>1 DEF Fits
    <3> QED BY <3>1, <3>2 DEF VersionsOf
  <2> SUFFICES ASSUME NEW n \in Messages, NEW o \in Messages, NEW r, NEW s,
                      IsLive(n, r)', IsLive(o, s)', n # o
               PROVE  VersionsOf(r) \intersect VersionsOf(s) = {}
    BY DEF VersionsApart
  <2>2. CASE IsLive(n, r) /\ IsLive(o, s)
    BY <2>2 DEF PeerInv, VersionsApart
  <2>3. CASE n = m /\ r = new /\ IsLive(o, s)
    BY <2>1, <2>3
  <2>4. CASE IsLive(n, r) /\ o = m /\ s = new
    BY <2>1, <2>4
  <2> QED BY <1>5, <2>2, <2>3, <2>4
<1>11. InFlightIsOldest'
  <2>0. PICK k, c : k = current.id /\ c = current.copy
    OBVIOUS
  <2> SUFFICES ASSUME InFlight, NEW r, IsLive(k, r)'
               PROVE  SameContent(r, c) \/ MadeSince(r, c)'
    BY <1>2, <2>0 DEF InFlightIsOldest, InFlight, IsLive, MadeSince
  <2>1. k \in Messages
    BY <1>1, <2>0, CurrentType DEF InFlight, HasCurrent, RequestsInv
  <2>2. CASE IsLive(k, r)
    BY <1>2, <2>0, <2>2 DEF PeerInv, InFlightIsOldest, MadeSince, peerVars
  <2>3. CASE k = m /\ r = new
    BY <1>2, <1>4, <1>7, <2>0, <2>3 DEF Fits, MadeSince, peerVars
  <2> QED BY <1>5, <2>1, <2>2, <2>3
<1>12. LoadedIsStored'
  BY <1>2 DEF LoadedIsStored
<1>13. Unknown'
  BY <1>2, <1>3, NoMessageType, OutboxAssumption
  DEF PeerInv, Unknown, Exists, Queued, HasCurrent, peerVars
<1>14. acceptedByDs' \subseteq 1..versions'
  BY <1>2, <1>7 DEF peerVars
<1> QED BY <1>1, <1>8, <1>9, <1>10, <1>11, <1>12, <1>13, <1>14 DEF PeerInv

(* A new message fits: nobody has a copy of it.                            *)
LEMMA SendFits ==
  ASSUME PeerInv, NEW m \in Messages, SendMessage(m)
  PROVE  Fits(m, NoMessage)
<1>1. lastRequest[m] = 0
  BY DEF SendMessage
<1>2. peerShows[m] = 0 /\ peerEdits[m] = {} /\ (HasCurrent => current.id # m)
  BY <1>1 DEF PeerInv, Unknown
<1> QED BY <1>2, NoMessageType DEF Fits, InFlight, HasCurrent

(* A change fits: it is made from the user's copy, which was the stored    *)
(* one when it was loaded and is not a deletion.                           *)
LEMMA ReplaceFits ==
  ASSUME PeerInv, NEW null \in BOOLEAN, ReplaceMessage(null)
  PROVE  Fits(loadedForUser.id, Replacement(null, loadedForUser.copy))
<1> DEFINE m == loadedForUser.id
           old == loadedForUser.copy
           r == Replacement(null, loadedForUser.copy)
<1>1. m \in Messages /\ old \in MessageRec /\ loadedForUser # NoCopy
  BY ReplaceIsSubmit DEF PeerInv, RequestsInv
<1>2. r \in MessageRec /\ ~r.sent /\ r.replaces = old.version /\ r.earlier = VersionsOf(old)
  BY <1>1, ReplacementType
<1>3. IsLive(m, old) /\ ~old.null
  BY <1>1 DEF IsLive, PeerInv, LoadedIsStored
<1>4. WellFormed(old) /\ PeerHas(m, old)
  BY <1>1, <1>3 DEF PeerInv, CopiesWellFormed, PeerHasCopies
<1>5. /\ r.earlier \subseteq 1..versions
      /\ r.replaces \in r.earlier
  BY <1>2, <1>4 DEF WellFormed, VersionsOf
<1>6. ASSUME r.earlier \subseteq acceptedByDs, m \notin sentTwice
      PROVE  peerShows[m] = r.replaces /\ peerEdits[m] = r.earlier \ {r.replaces}
  <2>1. peerShows[m] = old.version /\ peerEdits[m] = old.earlier
    BY <1>2, <1>3, <1>4, <1>6 DEF PeerHas, VersionsOf
  <2>2. old.earlier = r.earlier \ {old.version}
    BY <1>2, <1>4 DEF WellFormed, VersionsOf
  <2> QED BY <1>2, <2>1, <2>2
<1>7. \A n \in Messages : \A s :
        IsLive(n, s) /\ n # m => VersionsOf(s) \intersect r.earlier = {}
  BY <1>1, <1>2, <1>3 DEF PeerInv, VersionsApart
<1>8. ASSUME InFlight, current.id = m
      PROVE  /\ current.copy.version \in r.earlier
             /\ \/ /\ ~current.copy.null /\ r.replaces = current.copy.version
                   /\ r.earlier = VersionsOf(current.copy)
                \/ \E x \in r.earlier : x \notin acceptedByDs /\ x # current.copy.version
  <2>1. SameContent(old, current.copy) \/ MadeSince(old, current.copy)
    BY <1>3, <1>8 DEF PeerInv, InFlightIsOldest
  <2>2. CASE SameContent(old, current.copy)
    BY <1>2, <1>3, <2>2 DEF SameContent, VersionsOf
  <2>3. CASE MadeSince(old, current.copy)
    BY <1>2, <1>4, <2>3 DEF MadeSince, VersionsOf, WellFormed
  <2> QED BY <2>1, <2>2, <2>3
<1> HIDE DEF r, m
<1>9. Fits(m, r)
  BY <1>2, <1>5, <1>6, <1>7, <1>8 DEF Fits
<1> QED BY <1>9 DEF r, m

(* Every step preserves the invariant of the peer.                         *)
LEMMA PeerInvNext == PeerInv /\ [OutboxNext]_outboxVars => PeerInv'
<1> SUFFICES ASSUME PeerInv, [OutboxNext]_outboxVars PROVE PeerInv'
  OBVIOUS
<1>1. CASE UNCHANGED outboxVars
  <2>1. RequestsInv'
    BY <1>1, RequestsInvNext DEF PeerInv
  <2>2. UNCHANGED <<stored, unsentRows, outboxLoop, current, loadedForUser, versions,
                    lastRequest, peerVars>>
    BY <1>1 DEF outboxVars, userVars
  <2>3. \A m \in Messages : \A r : IsLive(m, r)' <=> IsLive(m, r)
    BY <2>2 DEF IsLive, InFlight, Exists
  <2>4. NoNewContent
    BY <2>3, LiveType DEF NoNewContent, SameContent
  <2>5. InFlightIsOldest'
    <3>1. InFlight => current.id \in Messages
      BY DEF InFlight, HasCurrent, PeerInv, RequestsInv, OutboxTypeOK
    <3> QED
      BY <2>2, <2>3, <3>1 DEF PeerInv, InFlightIsOldest, InFlight, MadeSince, peerVars
  <2>6. LoadedIsStored' /\ Unknown'
    BY <2>2 DEF PeerInv, LoadedIsStored, Unknown, Exists, Queued, HasCurrent, peerVars
  <2> QED BY <2>1, <2>2, <2>4, <2>5, <2>6, CopiesKept DEF PeerInv
<1>2. ASSUME NEW m \in Messages, SendMessage(m) PROVE PeerInv'
  <2>1. Submit(m, NoMessage) /\ ownEdits' \in [Messages -> SUBSET Nat]
    BY <1>2 DEF SendMessage, PeerInv, RequestsInv, OutboxTypeOK
  <2> QED BY <1>2, <2>1, SendFits, SubmitPeer
<1>3. ASSUME NEW null \in BOOLEAN, ReplaceMessage(null) PROVE PeerInv'
  <2>1. OutboxTypeOK
    BY DEF PeerInv, RequestsInv
  <2> QED
    BY <1>3, <2>1, ReplaceIsSubmit, ReplaceFits, SubmitPeer
<1> QED
  BY <1>1, <1>2, <1>3, LoadPeer, DeletePeer, MovesPeer, FailPeer, LoadUnsentPeer, AcceptPeer,
     PostProcessPeer
  DEF OutboxNext, OutboxStep

(* Between runs the peer shows the content that the user sees as sent, for *)
(* any number of messages, edits, deletions and faults, except for changes *)
(* of a version that was never sent and for messages that were sent twice. *)
(* A copy that is written back (send_chat_message) is the oldest there is, *)
(* so whatever it replaces was never accepted, and an edit or a deletion   *)
(* finds at the peer the version it was made from (handle_message_edit).   *)
THEOREM PeerShowsSent == OutboxSpec => []PeersAgree
<1>1. PeerInv => PeersAgree
  <2> SUFFICES ASSUME PeerInv, NEW m \in Messages,
                      stored[m].sent, ~BuiltOnLost(stored[m]), m \notin sentTwice
               PROVE  peerShows[m] = stored[m].version
    BY DEF PeersAgree
  <2>1. stored[m].version \in acceptedByDs /\ acceptedByDs \subseteq 1..versions /\ versions \in Nat
    BY DEF PeerInv, RequestsInv, SentIsAccepted, OutboxTypeOK
  <2>2. IsLive(m, stored[m])
    BY <2>1 DEF IsLive, Exists
  <2>3. PeerHas(m, stored[m])
    BY <2>2 DEF PeerInv, PeerHasCopies
  <2> QED BY <2>1, <2>3 DEF PeerHas, BuiltOnLost
<1> QED
  BY PeerInvInit, PeerInvNext, <1>1, PTL DEF OutboxSpec
=============================================================================
