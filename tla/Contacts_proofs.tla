--------------------------- MODULE Contacts_proofs ---------------------------
(***************************************************************************)
(* Theorems about how users get into contact: the queue of a username on   *)
(* the authentication service, and connecting by username.  The two share  *)
(* no variable; each part of this module is about one of them.             *)
(***************************************************************************)
EXTENDS UsernameQueue, Connections, FiniteSetTheorems, WellFoundedInduction, TLAPS

-----------------------------------------------------------------------------
(***************************************************************************)
(* The queue of a username.                                                *)
(***************************************************************************)

(* The types of the streams and of the rows they mark.                     *)
StreamsTyped ==
  /\ listeners \in Nat /\ replaced = 1..(listeners - 1)
  /\ offers \in Nat /\ Rows \subseteq Nat
  /\ at \in [Listeners -> {"off", "fetch", "query", "fetching", "wait"}]
  /\ locked \in [Listeners -> SUBSET Nat] /\ held \in [Listeners -> SUBSET Nat]
  /\ emitted \in [Listeners -> SUBSET Nat] /\ skipped \in [Listeners -> SUBSET Nat]
  /\ unannounced \in [Listeners -> SUBSET Nat]

(* The streams that run, and those that have marked a row, have been       *)
(* registered.                                                             *)
MarksAreOld ==
  /\ \A s \in Listeners : at[s] # "off" => s <= listeners
  /\ \A m \in Rows : fetchedBy[m] \in 0..listeners

(* The rows that the newest stream has marked it has sent or will send.    *)
MarkedIsSent ==
  \A s \in Listeners, m \in Rows :
    s = listeners /\ fetchedBy[m] = s => m \in emitted[s] \cup held[s]

(* A stream queries and waits with an empty buffer only.                   *)
BufferIsEmpty == \A s \in Listeners : at[s] \in {"query", "fetching", "wait"} => held[s] = {}

(* When the query of the newest stream has found nothing, every row is     *)
(* accounted for, or there is a notification to consume.                   *)
NothingLeft ==
  \A s \in Listeners :
    /\ s = listeners /\ s \notin woken
    /\ at[s] = "wait" \/ (at[s] = "fetching" /\ locked[s] = {})
    => Rows \subseteq emitted[s] \cup skipped[s] \cup unannounced[s]

(* The inductive invariant of the queue.                                   *)
UsernameQueueInv ==
  StreamsTyped /\ MarksAreOld /\ MarkedIsSent /\ BufferIsEmpty /\ NothingLeft

(* The query finds nothing only when there is nothing that is not locked:  *)
(* the oldest row is within every limit.                                   *)
LEMMA OldestFindsOne ==
  ASSUME NEW S \in SUBSET Nat, S # {}
  PROVE  Oldest(S) # {}
<1>1. PICK x \in S : \A y \in S : ~(<<y, x>> \in OpToRel(<, Nat))
  BY NatLessThanWellFounded, WFMin
<1>2. \A y \in S : ~(y < x)
  BY <1>1 DEF OpToRel
<1>3. {k \in S : k < x} = {}
  BY <1>2
<1>4. Cardinality({k \in S : k < x}) = 0
  BY <1>3, FS_EmptySet
<1>5. x \in Oldest(S)
  BY <1>4, UsernameQueueAssumption DEF Oldest
<1> QED BY <1>5

(* No stream is registered and nothing is stored.                          *)
LEMMA UsernameQueueInvInit == UsernameQueueInit => UsernameQueueInv
  BY UsernameQueueAssumption
  DEF UsernameQueueInit, UsernameQueueInv, StreamsTyped, MarksAreOld, MarkedIsSent, BufferIsEmpty,
      NothingLeft, Rows, Listeners

(* Every step preserves the invariant of the queue.                        *)
LEMMA UsernameQueueInvNext ==
  UsernameQueueInv /\ [UsernameQueueNext]_usernameQueueVars => UsernameQueueInv'
<1> SUFFICES ASSUME UsernameQueueInv, [UsernameQueueNext]_usernameQueueVars
             PROVE  UsernameQueueInv'
  OBVIOUS
<1> USE DEF UsernameQueueInv
<1>1. CASE ListenUsername
  <2>1. /\ listeners' = listeners + 1 /\ listeners < MaxListeners
        /\ replaced' = replaced \cup (1..listeners)
        /\ at' = [at EXCEPT ![listeners + 1] = "fetch"]
        /\ UNCHANGED <<offers, fetchedBy, locked, held, woken, emitted, skipped, unannounced>>
    BY <1>1 DEF ListenUsername
  <2>2. listeners + 1 \in Listeners
    BY <2>1, UsernameQueueAssumption DEF StreamsTyped, Listeners
  <2>3. StreamsTyped'
    BY <2>1, <2>2 DEF StreamsTyped, Rows
  <2>4. MarksAreOld' /\ MarkedIsSent'
    BY <2>1, <2>2 DEF StreamsTyped, MarksAreOld, MarkedIsSent, Rows, Listeners
  <2>5. BufferIsEmpty' /\ NothingLeft'
    BY <2>1, <2>2 DEF StreamsTyped, BufferIsEmpty, NothingLeft
  <2> QED BY <2>3, <2>4, <2>5
<1>2. CASE ExecuteListen
  BY <1>2 DEF ExecuteListen, StreamsTyped, MarksAreOld, MarkedIsSent, BufferIsEmpty, NothingLeft,
              Rows
<1>3. CASE EnqueueMessage
  <2> DEFINE m == offers + 1
  <2>1. /\ offers' = m
        /\ fetchedBy' = [k \in Rows \cup {m} |-> IF k \in Rows THEN fetchedBy[k] ELSE 0]
        /\ UNCHANGED <<listeners, replaced, at, locked, held, emitted, skipped>>
        /\ \/ woken' = woken \cup Subscribed /\ unannounced' = unannounced
           \/ unannounced' = [s \in Listeners |-> unannounced[s] \cup {m}] /\ woken' = woken
    BY <1>3 DEF EnqueueMessage, Unheard
  <2>2. m \in Nat
    BY DEF StreamsTyped
  <2> HIDE DEF m
  <2>3. Rows' = Rows \cup {m}
    BY <2>1 DEF Rows
  <2>4. \A k \in Rows' : k \notin Rows => fetchedBy'[k] = 0
    BY <2>1, <2>3
  <2>8. \A k \in Rows : fetchedBy'[k] = fetchedBy[k]
    BY <2>1
  <2>5. StreamsTyped'
    BY <2>1, <2>2, <2>3 DEF StreamsTyped
  <2>6. MarksAreOld' /\ MarkedIsSent'
    BY <2>1, <2>3, <2>4, <2>8 DEF StreamsTyped, MarksAreOld, MarkedIsSent, Listeners
  <2>7. NothingLeft'
    BY <2>1, <2>3 DEF NothingLeft, Subscribed
  <2> QED BY <2>1, <2>5, <2>6, <2>7 DEF BufferIsEmpty
<1>4. ASSUME NEW m \in Offers, AckMessage(m) PROVE UsernameQueueInv'
  <2>1. /\ fetchedBy' = [k \in Rows \ {m} |-> fetchedBy[k]]
        /\ UNCHANGED <<offers, listeners, replaced, at, locked, held, woken, emitted, skipped,
                       unannounced>>
    BY <1>4 DEF AckMessage
  <2>2. Rows' \subseteq Rows /\ \A k \in Rows' : fetchedBy'[k] = fetchedBy[k]
    BY <2>1 DEF Rows
  <2> QED
    BY <2>1, <2>2 DEF StreamsTyped, MarksAreOld, MarkedIsSent, BufferIsEmpty, NothingLeft
<1>5. ASSUME NEW s \in Listeners, EndCancelled(s) PROVE UsernameQueueInv'
  <2>1. /\ s \in replaced
        /\ at' = [at EXCEPT ![s] = "off"] /\ held' = [held EXCEPT ![s] = {}]
        /\ woken' = woken \ {s}
        /\ UNCHANGED <<offers, fetchedBy, listeners, replaced, locked, emitted, skipped,
                       unannounced>>
    BY <1>5 DEF EndCancelled
  <2>2. s # listeners
    BY <2>1 DEF StreamsTyped
  <2> QED
    BY <2>1, <2>2 DEF StreamsTyped, MarksAreOld, MarkedIsSent, BufferIsEmpty, NothingLeft, Rows
<1>6. ASSUME NEW s \in Listeners, Emit(s) PROVE UsernameQueueInv'
  <2>1. PICK m \in held[s] :
        /\ at[s] = "fetch"
        /\ emitted' = [emitted EXCEPT ![s] = @ \cup {m}]
        /\ held' = [held EXCEPT ![s] = @ \ {m}]
        /\ UNCHANGED <<offers, fetchedBy, listeners, replaced, at, locked, woken, skipped,
                       unannounced>>
    BY <1>6 DEF Emit
  <2>2. m \in Nat
    BY DEF StreamsTyped
  <2> QED
    BY <2>1, <2>2 DEF StreamsTyped, MarksAreOld, MarkedIsSent, BufferIsEmpty, NothingLeft, Rows
<1>7. ASSUME NEW s \in Listeners, BeginFetch(s) PROVE UsernameQueueInv'
  BY <1>7 DEF BeginFetch, StreamsTyped, MarksAreOld, MarkedIsSent, BufferIsEmpty, NothingLeft, Rows
<1>8. ASSUME NEW s \in Listeners, QueryRows(s) PROVE UsernameQueueInv'
  <2> DEFINE free == ToFetch(s) \ Locks
  <2>1. /\ at[s] = "query" /\ at' = [at EXCEPT ![s] = "fetching"]
        /\ locked' = [locked EXCEPT ![s] = Oldest(free)]
        /\ skipped' = [skipped EXCEPT ![s] = ToFetch(s) \cap Locks]
        /\ unannounced' = [unannounced EXCEPT ![s] = {}]
        /\ UNCHANGED <<offers, fetchedBy, listeners, replaced, held, woken, emitted>>
    BY <1>8 DEF QueryRows
  <2>2. free \subseteq Nat /\ Oldest(free) \subseteq free /\ ToFetch(s) \subseteq Nat
    BY DEF StreamsTyped, ToFetch, Oldest
  <2>3. Oldest(free) = {} => ToFetch(s) \subseteq Locks
    BY <2>2, OldestFindsOne
  <2>4. StreamsTyped'
    BY <2>1, <2>2 DEF StreamsTyped, Rows
  <2>5. MarksAreOld' /\ MarkedIsSent' /\ BufferIsEmpty'
    BY <2>1 DEF StreamsTyped, MarksAreOld, MarkedIsSent, BufferIsEmpty, Rows
  <2>6. s = listeners /\ Oldest(free) = {}
          => Rows \subseteq emitted[s] \cup skipped'[s]
    BY <2>1, <2>3 DEF StreamsTyped, MarkedIsSent, BufferIsEmpty, ToFetch
  <2>7. NothingLeft'
    BY <2>1, <2>6 DEF StreamsTyped, NothingLeft, Rows
  <2> QED BY <2>4, <2>5, <2>7
<1>9. ASSUME NEW s \in Listeners, FetchRows(s) PROVE UsernameQueueInv'
  <2>1. /\ at[s] = "fetching"
        /\ fetchedBy' = [m \in Rows |-> IF m \in locked[s] THEN s ELSE fetchedBy[m]]
        /\ held' = [held EXCEPT ![s] = locked[s]]
        /\ locked' = [locked EXCEPT ![s] = {}]
        /\ at' = [at EXCEPT ![s] = IF locked[s] = {} THEN "wait" ELSE "fetch"]
        /\ UNCHANGED <<offers, listeners, replaced, woken, emitted, skipped, unannounced>>
    BY <1>9 DEF FetchRows
  <2>2. Rows' = Rows
    BY <2>1 DEF Rows
  <2>3. StreamsTyped'
    BY <2>1, <2>2 DEF StreamsTyped
  <2>4. MarkedIsSent'
    BY <2>1, <2>2 DEF StreamsTyped, MarkedIsSent, BufferIsEmpty
  <2>6. MarksAreOld'
    BY <2>1, <2>2 DEF StreamsTyped, MarksAreOld, Listeners
  <2>5. BufferIsEmpty' /\ NothingLeft'
    BY <2>1, <2>2 DEF StreamsTyped, BufferIsEmpty, NothingLeft
  <2> QED BY <2>3, <2>4, <2>5, <2>6
<1>10. ASSUME NEW s \in Listeners, QueryFails(s) PROVE UsernameQueueInv'
  BY <1>10 DEF QueryFails, StreamsTyped, MarksAreOld, MarkedIsSent, BufferIsEmpty, NothingLeft, Rows
<1>11. ASSUME NEW s \in Listeners, WakeUpListener(s) PROVE UsernameQueueInv'
  BY <1>11
  DEF WakeUpListener, StreamsTyped, MarksAreOld, MarkedIsSent, BufferIsEmpty, NothingLeft, Rows
<1>12. CASE ListenFails
  BY <1>12 DEF ListenFails, StreamsTyped, MarksAreOld, MarkedIsSent, BufferIsEmpty, NothingLeft,
               Rows
<1>13. CASE LoseNotification
  <2>1. PICK S \in SUBSET woken :
        /\ woken' = woken \ S
        /\ unannounced' = [s \in Listeners |-> IF s \in S THEN unannounced[s] \cup Rows
                                              ELSE unannounced[s]]
    BY <1>13 DEF LoseNotification, Unheard
  <2>2. UNCHANGED <<offers, fetchedBy, listeners, replaced, at, locked, held, emitted, skipped>>
    BY <1>13 DEF LoseNotification
  <2>3. StreamsTyped'
    BY <2>1, <2>2 DEF StreamsTyped, Rows
  <2>4. MarksAreOld' /\ MarkedIsSent' /\ BufferIsEmpty'
    BY <2>2 DEF MarksAreOld, MarkedIsSent, BufferIsEmpty, Rows
  <2>5. NothingLeft'
    BY <2>1, <2>2 DEF NothingLeft, Rows
  <2> QED BY <2>3, <2>4, <2>5
<1>14. CASE UNCHANGED usernameQueueVars
  BY <1>14 DEF usernameQueueVars, StreamsTyped, MarksAreOld, MarkedIsSent, BufferIsEmpty,
               NothingLeft, Rows
<1> QED
  BY <1>1, <1>2, <1>3, <1>4, <1>5, <1>6, <1>7, <1>8, <1>9, <1>10, <1>11, <1>12,
     <1>13, <1>14
  DEF UsernameQueueNext

(* The newest listener of a username rests only when it has sent every     *)
(* message that is stored, apart from those that another stream's query    *)
(* had locked and those whose notification never reached it (LISTEN not    *)
(* yet executed or failed, notification lost): however streams replace one *)
(* another and whichever has marked a row, no other message waits for a    *)
(* listener that waits for it.                                             *)
THEOREM NoOfferOverlooked == UsernameQueueSpec => []RestingHasSeenRows
<1>1. UsernameQueueInv => RestingHasSeenRows
  BY DEF UsernameQueueInv, NothingLeft, RestingHasSeenRows, Resting
<1> QED BY <1>1, UsernameQueueInvInit, UsernameQueueInvNext, PTL DEF UsernameQueueSpec

-----------------------------------------------------------------------------
(***************************************************************************)
(* Connecting by username.                                                 *)
(***************************************************************************)

\* The connection packages there are.
Packages == OwnPackages \cup EarlierPackages

\* Where the sender is with an attempt.
Steps == {"idle", "connecting", "loading", "fetched", "grouped", "sent", "done", "failed"}

(* The types of the two ends and of what the servers keep for them.        *)
ConnectionsTyped ==
  /\ packages \subseteq Packages /\ offerQueue \subseteq Attempts
  /\ owner \in {"none", "created", "stored", "ready", "removing", "gone"}
  /\ keys \subseteq OwnPackages
  /\ step \in [Attempts -> Steps]
  /\ sender \in [Attempts -> Senders \cup {NoSender}]
  /\ package \in [Attempts -> Packages \cup {NoPackage}]
  /\ seen \in [Attempts -> Nat]
  /\ contacts \subseteq Attempts /\ confirmed \subseteq Attempts /\ joins \subseteq Attempts
  /\ group \in [Attempts -> {"none", "open", "joined"}]
  /\ chat \in [Attempts -> {"none", "pending", "connected"}]
  /\ accept = NoAccept \/ accept \in [attempt : Attempts, at : {"fetched", "joining", "joined"}]

(* The AS has given the attempt a package.                                 *)
Given(n) == package[n] # NoPackage /\ step[n] # "loading"

(* The attempt has sent its offer; it may have failed since.               *)
OfferMade(n) == Given(n) /\ step[n] \in {"sent", "done", "failed"}

(* What an attempt has at its steps, and what is there of it at the other  *)
(* end only after the offer.                                               *)
StepsInOrder ==
  \A n \in Attempts :
    /\ step[n] \in {"idle", "connecting"} => package[n] = NoPackage
    /\ step[n] \in {"loading", "fetched", "grouped", "sent", "done"} => package[n] # NoPackage
    /\ n \in offerQueue \/ chat[n] # "none" \/ group[n] = "joined" => OfferMade(n)
    /\ n \in contacts \cup confirmed => step[n] = "done"
    /\ accept # NoAccept /\ accept.attempt = n => chat[n] # "none"

(* The packages for one use are stored with the last resort.               *)
LastResortStays == packages \cap SinglePackages # {} => LastResort \in packages

(* A query has locked a row that is there and that no other query has      *)
(* locked; it was not the only row if it is for one use.                   *)
LocksHold ==
  \A n \in Attempts : step[n] = "loading" =>
    /\ package[n] \in packages
    /\ package[n] \in SinglePackages => seen[n] > 1
    /\ \A m \in Attempts : step[m] = "loading" /\ m # n => package[m] # package[n]

(* A package for one use is deleted when it is given, and given once.      *)
GivenIsDeleted ==
  \A n \in Attempts : Given(n) /\ package[n] \in SinglePackages =>
    /\ package[n] \notin packages
    /\ \A m \in Attempts : Given(m) /\ m # n => package[m] # package[n]

(* Before the owner publishes its packages nobody has one, and the owner   *)
(* has all of the keys when it does.                                       *)
NotYetPublished ==
  /\ owner \in {"none", "created", "stored"} =>
       packages \subseteq EarlierPackages /\ \A n \in Attempts : package[n] \notin OwnPackages
  /\ owner = "stored" => keys = OwnPackages

(* The owner has the keys of the stored packages, and of the packages of   *)
(* all attempts that have not become a chat.                               *)
KeysKept ==
  owner # "gone" =>
    /\ packages \subseteq keys \cup EarlierPackages
    /\ \A n \in Attempts : package[n] # NoPackage /\ chat[n] = "none"
                             => package[n] \in keys \cup EarlierPackages

(* Another contact that the sender of n has, or had, for the username.     *)
OtherContact(n) == \E m \in (contacts \cup confirmed) \ {n} : sender[m] = sender[n]

(* A confirmation is not consumed while the transaction of its attempt is  *)
(* open; consumed, it has found its contact unless there is another.       *)
ConfirmedInTime ==
  \A n \in Attempts : group[n] = "joined" /\ n \notin joins =>
    step[n] # "sent" /\ (n \in contacts => OtherContact(n))

(* The inductive invariant of connecting.                                  *)
ConnectionsInv ==
  /\ ConnectionsTyped /\ StepsInOrder
  /\ LastResortStays /\ LocksHold /\ GivenIsDeleted /\ NotYetPublished
  /\ KeysKept
  /\ ConfirmedInTime

(* Nobody has begun.                                                       *)
LEMMA ConnectionsInvInit == ConnectionsInit => ConnectionsInv
<1> SUFFICES ASSUME ConnectionsInit PROVE ConnectionsInv
  OBVIOUS
<1> USE ConnectionsAssumption DEF ConnectionsInit
<1>1. packages \subseteq EarlierPackages
  OBVIOUS
<1>2. ConnectionsTyped
  BY <1>1 DEF ConnectionsTyped, Packages, Steps
<1>3. StepsInOrder
  BY DEF StepsInOrder
<1>4. LastResortStays /\ LocksHold /\ GivenIsDeleted
  BY <1>1 DEF LastResortStays, LocksHold, GivenIsDeleted, Given
<1>5. NotYetPublished /\ KeysKept /\ ConfirmedInTime
  BY <1>1 DEF NotYetPublished, KeysKept, ConfirmedInTime, OwnPackages
<1> QED BY <1>2, <1>3, <1>4, <1>5 DEF ConnectionsInv

(* The actions of the owner on its username, of the senders and of the     *)
(* owner on the offers it gets.                                            *)
UsernameStep ==
  \/ CreateUsername \/ StoreUsername \/ PublishPackages \/ PublishFails
  \/ RemoveUsername \/ RemoveUsernameLocally \/ Expire

\* The steps of the sender, of the receiver with an offer, and of the acceptance.
SenderStep(n) ==
  \/ \E s \in Senders : AddContact(n, s)
  \/ LoadPackage(n) \/ NoPackageToLoad(n) \/ FetchPackage(n)
  \/ CreateGroup(n) \/ EnqueueOffer(n) \/ EnqueueFails(n)
  \/ CommitContact(n) \/ AddContactFails(n)

OfferStep(n) == ReceiveOffer(n) \/ OfferFails(n) \/ AckOffer(n) \/ BeginAccept(n)

AcceptStep == JoinLocally \/ JoinConnectionGroup \/ FinishAccept \/ AcceptFails \/ OwnerCrash

(* The packages of a step are among those of the model, and finitely many. *)
LEMMA PackagesFinite ==
  ASSUME ConnectionsTyped
  PROVE  IsFiniteSet(packages) /\ Cardinality(packages) \in Nat
<1>1. IsFiniteSet(OwnPackages)
  BY ConnectionsAssumption, FS_AddElement DEF OwnPackages
<1>2. IsFiniteSet(Packages)
  BY <1>1, ConnectionsAssumption, FS_Union DEF Packages
<1>3. IsFiniteSet(packages)
  BY <1>2, FS_Subset DEF ConnectionsTyped
<1> QED BY <1>3, FS_CardinalityType

(* A package for one use is never the only row.                            *)
LEMMA NotTheOnlyRow ==
  ASSUME ConnectionsTyped, LastResortStays, NEW p \in packages, p \in SinglePackages
  PROVE  Cardinality(packages) > 1
<1>1. LastResort \in packages /\ LastResort # p
  BY ConnectionsAssumption DEF LastResortStays
<1>2. IsFiniteSet(packages) /\ Cardinality(packages) \in Nat
  BY PackagesFinite
<1>3. Cardinality(packages) # 0
  BY <1>2, FS_EmptySet
<1>4. Cardinality(packages) # 1
  BY <1>1, <1>2, FS_Singleton
<1> QED BY <1>2, <1>3, <1>4

(* Every step keeps the types.                                             *)
LEMMA ConnectionsTypedNext == ConnectionsInv /\ ConnectionsNext => ConnectionsTyped'
<1> SUFFICES ASSUME ConnectionsInv, ConnectionsNext PROVE ConnectionsTyped'
  OBVIOUS
<1> USE DEF ConnectionsInv, ConnectionsTyped
<1>1. CASE UsernameStep
  BY <1>1 DEF UsernameStep, CreateUsername, StoreUsername, PublishPackages, PublishFails,
              RemoveUsername, RemoveUsernameLocally, Expire, DeleteRecord, asVars, addVars,
              senderVars, ownerVars, Packages
<1>2. ASSUME NEW n \in Attempts, LoadPackage(n) PROVE ConnectionsTyped'
  <2>1. Cardinality(packages) \in Nat
    BY PackagesFinite
  <2>2. Candidates \subseteq Packages
    BY DEF Candidates
  <2>3. /\ package' \in [Attempts -> Packages \cup {NoPackage}]
        /\ seen' \in [Attempts -> Nat]
        /\ step' \in [Attempts -> Steps]
    BY <1>2, <2>1, <2>2 DEF LoadPackage, Steps
  <2> QED BY <1>2, <2>3 DEF LoadPackage, asVars, senderVars, ownerVars
<1>3. ASSUME NEW n \in Attempts, SenderStep(n), ~LoadPackage(n) PROVE ConnectionsTyped'
  BY <1>3 DEF SenderStep, AddContact, NoPackageToLoad, FetchPackage, CreateGroup, EnqueueOffer,
              EnqueueFails, CommitContact, AddContactFails, DeleteRecord, asVars, senderVars,
              ownerVars, Steps
<1>4. ASSUME NEW n \in Attempts, ReceiveJoin(n) PROVE ConnectionsTyped'
  BY <1>4 DEF ReceiveJoin, asVars, addVars, ownerVars
<1>5. ASSUME NEW n \in Attempts, OfferStep(n) PROVE ConnectionsTyped'
  BY <1>5 DEF OfferStep, ReceiveOffer, OfferFails, AckOffer, BeginAccept, asVars, addVars,
              senderVars
<1>6. CASE AcceptStep
  BY <1>6 DEF AcceptStep, JoinLocally, JoinConnectionGroup, FinishAccept, AcceptFails, OwnerCrash,
              NoAccept, KeyUsed, asVars, addVars, senderVars
<1> QED
  BY <1>1, <1>2, <1>3, <1>4, <1>5, <1>6
  DEF ConnectionsNext, UsernameStep, SenderStep, OfferStep, AcceptStep

(* Every step keeps the steps of the attempts in order.                    *)
LEMMA StepsInOrderNext == ConnectionsInv /\ ConnectionsNext => StepsInOrder'
<1> SUFFICES ASSUME ConnectionsInv, ConnectionsNext PROVE StepsInOrder'
  OBVIOUS
<1> USE DEF ConnectionsInv, ConnectionsTyped, StepsInOrder, OfferMade, Given
<1>1. CASE UsernameStep
  BY <1>1 DEF UsernameStep, CreateUsername, StoreUsername, PublishPackages, PublishFails,
              RemoveUsername, RemoveUsernameLocally, Expire, DeleteRecord, asVars, addVars,
              senderVars, ownerVars
<1>2. ASSUME NEW n \in Attempts, LoadPackage(n) PROVE StepsInOrder'
  <2>1. NoPackage \notin Candidates
    BY ConnectionsAssumption DEF Candidates, Packages, OwnPackages
  <2> QED BY <1>2, <2>1 DEF LoadPackage, asVars, senderVars, ownerVars
<1>3. ASSUME NEW n \in Attempts, SenderStep(n), ~LoadPackage(n) PROVE StepsInOrder'
  BY <1>3 DEF SenderStep, AddContact, NoPackageToLoad, FetchPackage, CreateGroup, EnqueueOffer,
              EnqueueFails, CommitContact, AddContactFails, DeleteRecord, asVars, senderVars,
              ownerVars, Steps
<1>4. ASSUME NEW n \in Attempts, ReceiveJoin(n) PROVE StepsInOrder'
  BY <1>4 DEF ReceiveJoin, asVars, addVars, ownerVars
<1>5. ASSUME NEW n \in Attempts, OfferStep(n) PROVE StepsInOrder'
  BY <1>5 DEF OfferStep, ReceiveOffer, OfferFails, AckOffer, BeginAccept, asVars, addVars,
              senderVars
<1>6. CASE AcceptStep
  BY <1>6 DEF AcceptStep, JoinLocally, JoinConnectionGroup, FinishAccept, AcceptFails, OwnerCrash,
              NoAccept, asVars, addVars, senderVars
<1> QED
  BY <1>1, <1>2, <1>3, <1>4, <1>5, <1>6
  DEF ConnectionsNext, UsernameStep, SenderStep, OfferStep, AcceptStep

(* What is said of the packages does not depend on the other variables,    *)
(* and an attempt that moves on without loading or fetching a package      *)
(* changes nothing about it.                                               *)
LEMMA PackagesUntouched ==
  ASSUME ConnectionsInv, UNCHANGED <<packages, package, seen>>,
         \A n \in Attempts : step'[n] = "loading" <=> step[n] = "loading"
  PROVE  LastResortStays' /\ LocksHold' /\ GivenIsDeleted'
<1> QED BY DEF ConnectionsInv, LastResortStays, LocksHold, GivenIsDeleted, Given

(* The AS deletes the record of the username, and with it the packages,    *)
(* when no query has locked one.                                           *)
LEMMA PackagesDeleted ==
  ASSUME ConnectionsInv, DeleteRecord, UNCHANGED <<package, seen>>,
         \A n \in Attempts : step'[n] = "loading" <=> step[n] = "loading"
  PROVE  LastResortStays' /\ LocksHold' /\ GivenIsDeleted'
<1> QED
  BY DEF ConnectionsInv, DeleteRecord, Loading, LastResortStays, LocksHold, GivenIsDeleted, Given

(* Every step keeps the locks, and what was given apart from what is       *)
(* stored.                                                                 *)
LEMMA PackagesNext ==
  ConnectionsInv /\ ConnectionsNext => LastResortStays' /\ LocksHold' /\ GivenIsDeleted'
<1> DEFINE Goal == LastResortStays' /\ LocksHold' /\ GivenIsDeleted'
<1> SUFFICES ASSUME ConnectionsInv, ConnectionsNext PROVE Goal
  OBVIOUS
<1>1. CASE CreateUsername \/ StoreUsername \/ RemoveUsernameLocally \/ Expire
  BY <1>1, PackagesUntouched
  DEF CreateUsername, StoreUsername, RemoveUsernameLocally, Expire, asVars, addVars
<1>2. CASE RemoveUsername
  BY <1>2, PackagesDeleted DEF RemoveUsername, addVars
<1>3. CASE PublishPackages \/ PublishFails
  <2>1. owner = "stored" /\ UNCHANGED <<step, package, seen>>
    BY <1>3 DEF PublishPackages, PublishFails, addVars
  <2>2. CASE packages' = packages
    BY <2>1, <2>2, PackagesUntouched
  <2>3. CASE DeleteRecord
    BY <2>1, <2>3, PackagesDeleted
  <2>4. CASE packages' = packages \cup OwnPackages
    <3>1. \A n \in Attempts : package[n] \notin OwnPackages
      BY <2>1 DEF ConnectionsInv, NotYetPublished
    <3> QED
      BY <2>1, <2>4, <3>1
      DEF ConnectionsInv, LastResortStays, LocksHold, GivenIsDeleted, Given, OwnPackages
  <2> QED BY <1>3, <2>2, <2>3, <2>4 DEF PublishPackages, PublishFails
<1>4. ASSUME NEW n \in Attempts, LoadPackage(n) PROVE Goal
  <2>1. PICK p \in Candidates : package' = [package EXCEPT ![n] = p]
    BY <1>4 DEF LoadPackage
  <2>2. /\ step[n] = "connecting" /\ step' = [step EXCEPT ![n] = "loading"]
        /\ seen' = [seen EXCEPT ![n] = Cardinality(packages)]
        /\ UNCHANGED packages
    BY <1>4 DEF LoadPackage, asVars
  <2>3. p \in packages /\ \A m \in Attempts : step[m] = "loading" => package[m] # p
    BY DEF Candidates, Locked
  <2>4. p \in SinglePackages => Cardinality(packages) > 1
    BY <2>3, NotTheOnlyRow DEF ConnectionsInv
  <2>5. package[n] = NoPackage
    BY <2>2 DEF ConnectionsInv, StepsInOrder
  <2>6. LastResortStays'
    BY <2>2 DEF ConnectionsInv, LastResortStays
  <2>7. LocksHold'
    BY <2>1, <2>2, <2>3, <2>4 DEF ConnectionsInv, ConnectionsTyped, LocksHold
  <2>8. \A m \in Attempts : Given(m)' => Given(m) /\ package'[m] = package[m]
    BY <2>1, <2>2 DEF ConnectionsInv, ConnectionsTyped, Given
  <2>9. GivenIsDeleted'
    BY <2>2, <2>8 DEF ConnectionsInv, GivenIsDeleted
  <2> QED BY <2>6, <2>7, <2>9
<1>5. ASSUME NEW n \in Attempts, FetchPackage(n) PROVE Goal
  <2> DEFINE p == package[n]
  <2>1. /\ step[n] = "loading" /\ step' = [step EXCEPT ![n] = "fetched"]
        /\ packages' = packages \ (IF seen[n] > 1 THEN {p} \ {LastResort} ELSE {})
        /\ UNCHANGED <<package, seen>>
    BY <1>5 DEF FetchPackage
  <2>2. /\ p \in packages /\ (p \in SinglePackages => p \notin packages')
        /\ \A m \in Attempts : step[m] = "loading" /\ m # n => package[m] # p
    BY <2>1, ConnectionsAssumption DEF ConnectionsInv, LocksHold
  <2>3. packages' \subseteq packages /\ \A q \in packages : q # p => q \in packages'
    BY <2>1
  <2>4. LastResort \in packages => LastResort \in packages'
    BY <2>1
  <2>5. LastResortStays'
    BY <2>3, <2>4 DEF ConnectionsInv, LastResortStays
  <2>6. LocksHold'
    BY <2>1, <2>2, <2>3 DEF ConnectionsInv, ConnectionsTyped, LocksHold
  <2>7. \A m \in Attempts : Given(m)' => Given(m) \/ m = n
    BY <2>1 DEF ConnectionsInv, ConnectionsTyped, Given
  <2>8. p \in SinglePackages => \A m \in Attempts : Given(m) => package[m] # p
    BY <2>2 DEF ConnectionsInv, GivenIsDeleted
  <2>9. GivenIsDeleted'
    BY <2>1, <2>2, <2>3, <2>7, <2>8 DEF ConnectionsInv, GivenIsDeleted
  <2> QED BY <2>5, <2>6, <2>9
<1>6. ASSUME NEW n \in Attempts, NoPackageToLoad(n) PROVE Goal
  <2>1. /\ UNCHANGED <<package, seen>>
        /\ \A m \in Attempts : step'[m] = "loading" <=> step[m] = "loading"
        /\ DeleteRecord \/ UNCHANGED packages
    BY <1>6 DEF NoPackageToLoad, asVars, ConnectionsInv, ConnectionsTyped
  <2> QED BY <2>1, PackagesUntouched, PackagesDeleted
<1>7. ASSUME NEW n \in Attempts, SenderStep(n),
             ~LoadPackage(n), ~FetchPackage(n), ~NoPackageToLoad(n)
      PROVE  Goal
  <2>1. /\ UNCHANGED <<packages, package, seen>>
        /\ \A m \in Attempts : step'[m] = "loading" <=> step[m] = "loading"
    BY <1>7
    DEF SenderStep, AddContact, CreateGroup, EnqueueOffer, EnqueueFails, CommitContact,
        AddContactFails, asVars, ConnectionsInv, ConnectionsTyped
  <2> QED BY <2>1, PackagesUntouched
<1>8. ASSUME NEW n \in Attempts, ReceiveJoin(n) \/ OfferStep(n) PROVE Goal
  BY <1>8, PackagesUntouched
  DEF ReceiveJoin, OfferStep, ReceiveOffer, OfferFails, AckOffer, BeginAccept, asVars, addVars
<1>9. CASE AcceptStep
  BY <1>9, PackagesUntouched
  DEF AcceptStep, JoinLocally, JoinConnectionGroup, FinishAccept, AcceptFails, OwnerCrash, asVars,
      addVars
<1> QED
  BY <1>1, <1>2, <1>3, <1>4, <1>5, <1>6, <1>7, <1>8, <1>9
  DEF ConnectionsNext, SenderStep, OfferStep, AcceptStep

(* The owner has the keys of what is stored and of what was given, until   *)
(* a package is used up by accepting the chat it has led to.               *)
LEMMA KeysNext ==
  ConnectionsInv /\ ConnectionsNext => NotYetPublished' /\ KeysKept'
<1> DEFINE Goal == NotYetPublished' /\ KeysKept'
<1> SUFFICES ASSUME ConnectionsInv, ConnectionsNext PROVE Goal
  OBVIOUS
<1> USE DEF ConnectionsInv
<1>1. CASE CreateUsername \/ Expire
  BY <1>1 DEF CreateUsername, Expire, ownerVars, addVars, ConnectionsTyped, NotYetPublished,
              KeysKept
<1>2. CASE StoreUsername
  BY <1>2, ConnectionsAssumption
  DEF StoreUsername, asVars, addVars, ConnectionsTyped, NotYetPublished, KeysKept, Packages,
      OwnPackages
<1>3. CASE PublishPackages
  BY <1>3 DEF PublishPackages, addVars, NotYetPublished, KeysKept
<1>4. CASE PublishFails \/ RemoveUsernameLocally
  BY <1>4 DEF PublishFails, RemoveUsernameLocally, NotYetPublished, KeysKept
<1>5. CASE RemoveUsername
  BY <1>5 DEF RemoveUsername, DeleteRecord, addVars, NotYetPublished, KeysKept
<1>6. ASSUME NEW n \in Attempts, LoadPackage(n) PROVE Goal
  <2>1. PICK p \in Candidates : package' = [package EXCEPT ![n] = p]
    BY <1>6 DEF LoadPackage
  <2>2. p \in packages /\ UNCHANGED <<packages, owner, keys, chat>>
    BY <1>6 DEF Candidates, LoadPackage, asVars, ownerVars
  <2> QED
    BY <2>1, <2>2, ConnectionsAssumption
    DEF ConnectionsTyped, NotYetPublished, KeysKept, OwnPackages
<1>7. ASSUME NEW n \in Attempts, SenderStep(n) \/ ReceiveJoin(n) \/ OfferStep(n), ~LoadPackage(n)
      PROVE  Goal
  <2>1. packages' \subseteq packages /\ UNCHANGED <<package, owner, keys>>
    BY <1>7
    DEF SenderStep, AddContact, NoPackageToLoad, FetchPackage, CreateGroup, EnqueueOffer,
        EnqueueFails, CommitContact, AddContactFails, ReceiveJoin, OfferStep, ReceiveOffer,
        OfferFails, AckOffer, BeginAccept, DeleteRecord, asVars, addVars, ownerVars
  <2>2. \A m \in Attempts : chat'[m] = "none" => chat[m] = "none"
    BY <1>7
    DEF SenderStep, AddContact, NoPackageToLoad, FetchPackage, CreateGroup, EnqueueOffer,
        EnqueueFails, CommitContact, AddContactFails, ReceiveJoin, OfferStep, ReceiveOffer,
        OfferFails, AckOffer, BeginAccept, ownerVars, ConnectionsTyped
  <2> QED BY <2>1, <2>2 DEF NotYetPublished, KeysKept
<1>8. CASE JoinLocally
  <2> DEFINE m == accept.attempt
             p == package[m]
  <2>1. UNCHANGED <<packages, package, owner, chat>>
    BY <1>8 DEF JoinLocally, asVars, addVars
  <2>2. CASE keys' = keys
    BY <2>1, <2>2 DEF NotYetPublished, KeysKept
  <2>3. CASE keys' = keys \ {p} /\ p # LastResort /\ p \in keys
    <3>1. m \in Attempts /\ chat[m] # "none"
      BY <1>8 DEF JoinLocally, ConnectionsTyped, StepsInOrder, NoAccept
    <3>2. p \in SinglePackages
      BY <2>3 DEF ConnectionsTyped, OwnPackages
    <3>3. Given(m)
      BY <3>1 DEF StepsInOrder, OfferMade
    <3>4. p \notin packages /\ \A n \in Attempts : Given(n) /\ n # m => package[n] # p
      BY <3>1, <3>2, <3>3 DEF GivenIsDeleted
    <3>5. \A n \in Attempts : package[n] = p /\ package[n] # NoPackage => n = m
      BY <3>4 DEF LocksHold, Given
    <3>6. owner # "stored"
      BY <3>1, <3>2 DEF NotYetPublished, OwnPackages
    <3>7. NotYetPublished'
      BY <2>1, <3>6 DEF NotYetPublished
    <3>8. KeysKept'
      BY <2>1, <2>3, <3>1, <3>4, <3>5 DEF KeysKept
    <3> QED BY <3>7, <3>8
  <2> QED BY <1>8, <2>2, <2>3 DEF JoinLocally, KeyUsed
<1>9. CASE AcceptStep /\ ~JoinLocally
  <2>1. /\ UNCHANGED <<packages, package, owner, keys>>
        /\ \A m \in Attempts : chat'[m] = "none" => chat[m] = "none"
    BY <1>9
    DEF AcceptStep, JoinConnectionGroup, FinishAccept, AcceptFails, OwnerCrash, asVars, addVars,
        ConnectionsTyped
  <2> QED BY <2>1 DEF NotYetPublished, KeysKept
<1> QED
  BY <1>1, <1>2, <1>3, <1>4, <1>5, <1>6, <1>7, <1>8, <1>9
  DEF ConnectionsNext, SenderStep, OfferStep, AcceptStep

(* The confirmation of an attempt is in time.                              *)
LEMMA ConfirmedInTimeNext == ConnectionsInv /\ ConnectionsNext => ConfirmedInTime'
<1> SUFFICES ASSUME ConnectionsInv, ConnectionsNext PROVE ConfirmedInTime'
  OBVIOUS
<1> USE DEF ConnectionsInv
<1>1. CASE UsernameStep
  BY <1>1
  DEF UsernameStep, CreateUsername, StoreUsername, PublishPackages, PublishFails, RemoveUsername,
      RemoveUsernameLocally, Expire, addVars, senderVars, ConfirmedInTime, OtherContact
<1>2. ASSUME NEW n \in Attempts, SenderStep(n) PROVE ConfirmedInTime'
  <2>1. /\ UNCHANGED <<confirmed, joins>> /\ contacts \subseteq contacts'
        /\ \A m \in contacts' : m \in contacts \/ (m = n /\ step[n] = "sent")
    BY <1>2
    DEF SenderStep, AddContact, LoadPackage, NoPackageToLoad, FetchPackage, CreateGroup,
        EnqueueOffer, EnqueueFails, CommitContact, AddContactFails, senderVars
  <2>2. \A m \in Attempts : step[m] # "idle" => sender'[m] = sender[m]
    BY <1>2
    DEF SenderStep, AddContact, LoadPackage, NoPackageToLoad, FetchPackage, CreateGroup,
        EnqueueOffer, EnqueueFails, CommitContact, AddContactFails, ConnectionsTyped
  <2>3. \A m \in Attempts : step'[m] = "sent" => step[m] \in {"grouped", "sent"}
    BY <1>2
    DEF SenderStep, AddContact, LoadPackage, NoPackageToLoad, FetchPackage, CreateGroup,
        EnqueueOffer, EnqueueFails, CommitContact, AddContactFails, ConnectionsTyped
  <2>4. \A m \in Attempts : group'[m] = "joined" => group[m] = "joined"
    BY <1>2
    DEF SenderStep, AddContact, LoadPackage, NoPackageToLoad, FetchPackage, CreateGroup,
        EnqueueOffer, EnqueueFails, CommitContact, AddContactFails, ConnectionsTyped
  <2>5. \A m \in Attempts : OtherContact(m) /\ step[m] # "idle" => OtherContact(m)'
    BY <2>1, <2>2 DEF OtherContact, ConnectionsTyped, StepsInOrder
  <2>6. \A m \in Attempts : group[m] = "joined" => step[m] \in {"sent", "done", "failed"}
    BY DEF StepsInOrder, OfferMade
  <2> QED BY <2>1, <2>3, <2>4, <2>5, <2>6 DEF ConfirmedInTime
<1>3. ASSUME NEW n \in Attempts, ReceiveJoin(n) PROVE ConfirmedInTime'
  <2>1. /\ joins' = joins \ {n} /\ ~WithinTransaction(sender[n])
        /\ UNCHANGED <<step, sender, group>>
        /\ \/ contacts' = contacts \ {n} /\ confirmed' = confirmed \cup {n}
           \/ /\ n \notin contacts \/ {m \in contacts : sender[m] = sender[n]} # {n}
              /\ UNCHANGED <<contacts, confirmed>>
    BY <1>3 DEF ReceiveJoin, addVars
  <2>2. step[n] # "sent"
    BY <2>1 DEF WithinTransaction
  <2>3. \A m \in Attempts : OtherContact(m) => OtherContact(m)'
    BY <2>1 DEF OtherContact
  <2>4. n \in contacts' => OtherContact(n)
    BY <2>1 DEF OtherContact
  <2>5. contacts' \subseteq contacts
    BY <2>1
  <2> QED BY <2>1, <2>2, <2>3, <2>4, <2>5 DEF ConfirmedInTime
<1>4. ASSUME NEW n \in Attempts, OfferStep(n) PROVE ConfirmedInTime'
  BY <1>4 DEF OfferStep, ReceiveOffer, OfferFails, AckOffer, BeginAccept, addVars, senderVars,
              ConfirmedInTime, OtherContact
<1>5. CASE AcceptStep
  <2>1. /\ UNCHANGED <<step, sender, contacts, confirmed>> /\ joins \subseteq joins'
        /\ \A m \in Attempts : group'[m] = "joined" => group[m] = "joined" \/ m \in joins'
    BY <1>5
    DEF AcceptStep, JoinLocally, JoinConnectionGroup, FinishAccept, AcceptFails, OwnerCrash,
        addVars, senderVars, ConnectionsTyped
  <2> QED BY <2>1 DEF ConfirmedInTime, OtherContact
<1> QED
  BY <1>1, <1>2, <1>3, <1>4, <1>5
  DEF ConnectionsNext, UsernameStep, SenderStep, OfferStep, AcceptStep

(* Every step preserves the invariant of connecting.                       *)
LEMMA ConnectionsInvNext == ConnectionsInv /\ [ConnectionsNext]_connectionVars => ConnectionsInv'
<1> SUFFICES ASSUME ConnectionsInv, [ConnectionsNext]_connectionVars PROVE ConnectionsInv'
  OBVIOUS
<1>1. CASE ConnectionsNext
  BY <1>1, ConnectionsTypedNext, StepsInOrderNext, PackagesNext, KeysNext, ConfirmedInTimeNext
  DEF ConnectionsInv
<1>2. CASE UNCHANGED connectionVars
  BY <1>2 DEF connectionVars, asVars, addVars, senderVars, ownerVars, ConnectionsInv,
              ConnectionsTyped, StepsInOrder, OfferMade, Given, LastResortStays, LocksHold,
              GivenIsDeleted, NotYetPublished, KeysKept, ConfirmedInTime, OtherContact
<1> QED BY <1>1, <1>2

(* The invariant holds in every state.                                     *)
LEMMA ConnectionsInvariant == ConnectionsSpec => []ConnectionsInv
  BY ConnectionsInvInit, ConnectionsInvNext, PTL DEF ConnectionsSpec

(* A package for one use serves one attempt, for any number of senders,    *)
(* attempts and packages, and however the queries of the AS overlap.       *)
THEOREM PackageServesOne == ConnectionsSpec => []PackageUsedOnce
<1>1. ConnectionsInv => PackageUsedOnce
  <2> SUFFICES ASSUME ConnectionsInv, NEW m \in Attempts, NEW n \in Attempts, m # n,
                      step[m] \in {"fetched", "grouped", "sent", "done"},
                      step[n] \in {"fetched", "grouped", "sent", "done"},
                      package[m] = package[n]
               PROVE  package[m] \in {LastResort} \cup EarlierPackages
    BY DEF PackageUsedOnce
  <2>1. Given(m) /\ Given(n)
    BY DEF ConnectionsInv, StepsInOrder, Given
  <2>2. package[m] \notin SinglePackages
    BY <2>1 DEF ConnectionsInv, GivenIsDeleted
  <2>3. package[m] \in Packages
    BY <2>1 DEF ConnectionsInv, ConnectionsTyped, Given
  <2> QED BY <2>2, <2>3 DEF Packages, OwnPackages
<1> QED BY <1>1, ConnectionsInvariant, PTL

(* The owner of a username can read the offers in its queue: from before   *)
(* it publishes its packages until its username is gone it has the key of  *)
(* every offer that has not become a chat.                                 *)
THEOREM OwnerCanRead == ConnectionsSpec => []OffersCanBeRead
<1>1. ConnectionsInv => OffersCanBeRead
  BY DEF ConnectionsInv, ConnectionsTyped, StepsInOrder, OfferMade, Given, KeysKept,
         OffersCanBeRead
<1> QED BY <1>1, ConnectionsInvariant, PTL

(* A contact whose group the owner has joined will be confirmed: the       *)
(* confirmation was not consumed before the contact was stored.            *)
THEOREM ConfirmationIsNotLost == ConnectionsSpec => []ConfirmationComes
<1>1. ConnectionsInv => ConfirmationComes
  BY DEF ConnectionsInv, ConnectionsTyped, ConfirmedInTime, OtherContact, ConfirmationComes
<1> QED BY <1>1, ConnectionsInvariant, PTL
=============================================================================
