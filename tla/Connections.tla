----------------------------- MODULE Connections -----------------------------
(***************************************************************************)
(* Connecting to a user by username, from end to end.                      *)
(*                                                                         *)
(* A user registers a username with the authentication service (AS) and    *)
(* publishes connection packages for it.  Others fetch a package, create a *)
(* connection group on the delivery service (DS) and enqueue an offer      *)
(* encrypted to the package.  The owner of the username turns an offer     *)
(* into a pending chat, and when the user accepts it joins the group with  *)
(* an external commit, which reaches the sender through its QS queue.      *)
(*                                                                         *)
(* An attempt to connect is identified by the group id it is given, a      *)
(* number; the same number stands for the chat, the offer and the group.   *)
(* A package is known by its hash.  There is one username and one owner.   *)
(***************************************************************************)
EXTENDS Naturals, FiniteSets

CONSTANTS
    Senders,            \* users that connect to the username
    MaxAttempts,        \* bound: calls of add_contact
    SinglePackages,     \* packages the owner publishes for one use
    LastResort,         \* its package that is never deleted
    EarlierPackages,    \* packages left by an earlier owner of the username
    ConnectFaults,      \* faults that may happen
    MaxConnectFaults    \* bound: how many of them

NoPackage == "no package"

ASSUME ConnectionsAssumption ==
    /\ MaxAttempts \in Nat /\ MaxConnectFaults \in Nat
    /\ IsFiniteSet(SinglePackages) /\ IsFiniteSet(EarlierPackages)
    /\ LastResort \notin SinglePackages \cup EarlierPackages
    /\ SinglePackages \cap EarlierPackages = {}
    /\ NoPackage \notin SinglePackages \cup {LastResort} \cup EarlierPackages

VARIABLES
    username,   \* AS: the username's record
    packages,   \* AS: connection packages stored for it
    offerQueue, \* AS: offers in the username's queue
    owner,      \* the owner's progress in add_username and remove_username
    keys,       \* the owner's connection_package table
    step,       \* attempt -> progress of add_contact
    sender,     \* attempt -> who makes it
    package,    \* attempt -> the package it was given
    seen,       \* attempt -> rows its query counted
    contacts,   \* senders: attempts stored with their username_contact row
    confirmed,  \* senders: attempts whose chat is confirmed
    joins,      \* join commits in the senders' QS queues
    group,      \* DS: attempt -> state of the connection group
    handledOffers,  \* offers the owner has handled and not yet acknowledged
    chat,       \* the owner: attempt -> state of the chat
    accept,     \* the owner: progress of accept_contact_request
    connectFaults

asVars == <<username, packages, offerQueue>>
addVars == <<step, sender, package, seen>>
senderVars == <<contacts, confirmed, joins>>
ownerVars == <<owner, keys, handledOffers, chat, accept>>
connectionVars == <<asVars, addVars, senderVars, ownerVars, group, connectFaults>>

Attempts == 1..MaxAttempts
OwnPackages == SinglePackages \cup {LastResort}
NoSender == "no sender"
NoAccept == [attempt |-> 0, at |-> "idle"]

ConnectionsInit ==
    /\ \/ username = "none" /\ packages = {}
       \/ username = "expired" /\ packages = EarlierPackages
    /\ offerQueue = {}
    /\ owner = "none"
    /\ keys = {}
    /\ step = [n \in Attempts |-> "idle"]
    /\ sender = [n \in Attempts |-> NoSender]
    /\ package = [n \in Attempts |-> NoPackage]
    /\ seen = [n \in Attempts |-> 0]
    /\ contacts = {} /\ confirmed = {} /\ joins = {}
    /\ group = [n \in Attempts |-> "none"]
    /\ handledOffers = {}
    /\ chat = [n \in Attempts |-> "none"]
    /\ accept = NoAccept
    /\ connectFaults = 0

ConnectFault(kind) ==
    /\ kind \in ConnectFaults
    /\ connectFaults < MaxConnectFaults
    /\ connectFaults' = connectFaults + 1

-----------------------------------------------------------------------------
(* The owner's username.                                                   *)

(* The AS creates the record, or takes over an expired one, whose packages *)
(* and queue it leaves as they are.                                        *)
CreateUsername ==
    /\ owner = "none"
    /\ username \in {"none", "expired"}
    /\ username' = "live"
    /\ \/ owner' = "created" /\ UNCHANGED connectFaults
       \/ owner' = "gone" /\ ConnectFault("network")     \* the answer is lost
    /\ UNCHANGED <<packages, offerQueue, keys, handledOffers, chat, accept, addVars,
                   senderVars, group>>

(* The record and the keys are stored locally before the packages can be   *)
(* fetched by anyone.                                                      *)
StoreUsername ==
    /\ owner = "created"
    /\ owner' = "stored"
    /\ keys' = OwnPackages
    /\ UNCHANGED <<asVars, handledOffers, chat, accept, addVars, senderVars, group,
                   connectFaults>>

PublishPackages ==
    /\ owner = "stored"
    /\ username # "none"
    /\ packages' = packages \cup OwnPackages
    /\ owner' = "ready"
    /\ UNCHANGED <<username, offerQueue, keys, handledOffers, chat, accept, addVars,
                   senderVars, group, connectFaults>>

Loading == \E n \in Attempts : step[n] = "loading"

(* Deleting the record on the AS deletes its packages and its queue; the   *)
(* deletion waits for the rows a query has locked.                         *)
DeleteRecord ==
    /\ ~Loading
    /\ username' = "none" /\ packages' = {} /\ offerQueue' = {}

(* The request to publish fails, whether or not the AS has executed it;    *)
(* the rollback deletes the username on the server, which may fail as      *)
(* well, and locally, with its keys.                                       *)
PublishFails ==
    /\ owner = "stored"
    /\ ConnectFault("network")
    /\ owner' = "gone" /\ keys' = {}
    /\ \/ DeleteRecord
       \/ packages' \in {packages, packages \cup OwnPackages} /\ UNCHANGED <<username,
                                                                             offerQueue>>
    /\ UNCHANGED <<handledOffers, chat, accept, addVars, senderVars, group>>

\* Mutant of RemoveUsername: the local rows, with the keys, are deleted first.
RemoveUsernameLocalFirst ==
    /\ owner = "ready"
    /\ owner' = "removing" /\ keys' = {}
    /\ UNCHANGED <<asVars, handledOffers, chat, accept, addVars, senderVars, group, connectFaults>>

\* remove_username: first on the AS.
RemoveUsername ==
    /\ owner = "ready"
    /\ DeleteRecord
    /\ owner' = "removing"
    /\ UNCHANGED <<keys, handledOffers, chat, accept, addVars, senderVars, group,
                   connectFaults>>

\* The username is deleted locally, and its keys with it.
RemoveUsernameLocally ==
    /\ owner = "removing"
    /\ owner' = "gone" /\ keys' = {}
    /\ UNCHANGED <<asVars, handledOffers, chat, accept, addVars, senderVars, group,
                   connectFaults>>

Expire ==
    /\ username = "live"
    /\ ConnectFault("expire")
    /\ username' = "expired"
    /\ UNCHANGED <<packages, offerQueue, ownerVars, addVars, senderVars, group>>

-----------------------------------------------------------------------------
(* Senders: add_contact and the connect protocol of the AS.                *)

WithinTransaction(s) == \E n \in Attempts : sender[n] = s /\ step[n] \in {"grouped", "sent"}

Adding(s) == \E m \in Attempts : sender[m] = s /\ step[m] \notin {"done", "failed"}

(* Phase 0: no request to this username is pending.  The check is not part *)
(* of the transaction that stores the request: calls that overlap both     *)
(* pass it (the fault "twice").                                            *)
AddContact(n, s) ==
    /\ step[n] = "idle" /\ \A m \in 1..(n - 1) : step[m] # "idle"
    /\ \A m \in contacts : sender[m] # s
    /\ \/ ~Adding(s) /\ UNCHANGED connectFaults
       \/ Adding(s) /\ ConnectFault("twice")
    /\ step' = [step EXCEPT ![n] = "connecting"]
    /\ sender' = [sender EXCEPT ![n] = s]
    /\ UNCHANGED <<asVars, package, seen, senderVars, ownerVars, group>>

Locked == {package[n] : n \in {m \in Attempts : step[m] = "loading"}}

\* Mutant of Candidates: the query does not lock, or skip, rows.
CandidatesUnlocked == packages

(* Rows another query has locked are skipped; packages for one use come    *)
(* before the last resort.                                                 *)
Candidates ==
    LET free == packages \ Locked
    IN  IF free \subseteq {LastResort} THEN free ELSE free \ {LastResort}

(* The AS checks the username, deleting one that has expired, and its      *)
(* query picks and locks a package.                                        *)
LoadPackage(n) ==
    /\ step[n] = "connecting"
    /\ username = "live"
    /\ \E p \in Candidates : package' = [package EXCEPT ![n] = p]
    /\ seen' = [seen EXCEPT ![n] = Cardinality(packages)]
    /\ step' = [step EXCEPT ![n] = "loading"]
    /\ UNCHANGED <<asVars, sender, senderVars, ownerVars, group, connectFaults>>

(* No username, an expired one, or no row that is not locked: an error.    *)
NoPackageToLoad(n) ==
    /\ step[n] = "connecting"
    /\ \/ username = "expired" /\ DeleteRecord
       \/ (username = "none" \/ Candidates = {}) /\ UNCHANGED asVars
    /\ step' = [step EXCEPT ![n] = "failed"]
    /\ UNCHANGED <<sender, package, seen, senderVars, ownerVars, group, connectFaults>>

(* The query's end: the package is deleted unless it is the last resort or *)
(* the query counted a single row.                                         *)
FetchPackage(n) ==
    /\ step[n] = "loading"
    /\ packages' = packages \ IF seen[n] > 1 THEN {package[n]} \ {LastResort} ELSE {}
    /\ step' = [step EXCEPT ![n] = "fetched"]
    /\ UNCHANGED <<username, offerQueue, sender, package, seen, senderVars, ownerVars,
                   group, connectFaults>>

(* The sender opens a transaction, which holds its write lock, stores      *)
(* group, chat and contact in it, and creates the group on the DS.         *)
CreateGroup(n) ==
    /\ step[n] = "fetched"
    /\ ~WithinTransaction(sender[n])
    /\ group' = [group EXCEPT ![n] = "open"]
    /\ step' = [step EXCEPT ![n] = "grouped"]
    /\ UNCHANGED <<asVars, sender, package, seen, senderVars, ownerVars, connectFaults>>

(* The AS enqueues the offer while the username's record exists.           *)
EnqueueOffer(n) ==
    /\ step[n] = "grouped"
    /\ username # "none"
    /\ offerQueue' = offerQueue \cup {n}
    /\ step' = [step EXCEPT ![n] = "sent"]
    /\ UNCHANGED <<username, packages, sender, package, seen, senderVars, ownerVars,
                   group, connectFaults>>

EnqueueFails(n) ==
    /\ step[n] = "grouped"
    /\ username = "none"
    /\ step' = [step EXCEPT ![n] = "failed"]
    /\ UNCHANGED <<asVars, sender, package, seen, senderVars, ownerVars, group,
                   connectFaults>>

(* The AS has confirmed the offer and the sender's transaction commits.    *)
CommitContact(n) ==
    /\ step[n] = "sent"
    /\ step' = [step EXCEPT ![n] = "done"]
    /\ contacts' = contacts \cup {n}
    /\ UNCHANGED <<asVars, sender, package, seen, confirmed, joins, ownerVars, group,
                   connectFaults>>

(* A request fails or the sender stops: its transaction is rolled back,    *)
(* what the servers have done stays.                                       *)
AddContactFails(n) ==
    /\ step[n] \in {"connecting", "fetched", "grouped", "sent"}
    /\ ConnectFault("network")
    /\ step' = [step EXCEPT ![n] = "failed"]
    /\ UNCHANGED <<asVars, sender, package, seen, senderVars, ownerVars, group>>

\* Mutant of ReceiveJoin: the message is processed outside the write lock.
ReceiveJoinUnlocked(n) ==
    /\ n \in joins
    /\ joins' = joins \ {n}
    /\ \/ n \in contacts /\ contacts' = contacts \ {n} /\ confirmed' = confirmed \cup {n}
       \/ n \notin contacts /\ UNCHANGED <<contacts, confirmed>>
    /\ UNCHANGED <<asVars, addVars, ownerVars, group, connectFaults>>

(* The sender processes the join commit in a transaction of its own.  The  *)
(* contact is looked up by username, and only the key of this attempt's    *)
(* contact opens the friendship package.  On an error the message is       *)
(* dropped: the chat is unknown, or the contact another attempt's.         *)
ReceiveJoin(n) ==
    /\ n \in joins
    /\ ~WithinTransaction(sender[n])
    /\ joins' = joins \ {n}
    /\ LET found == {m \in contacts : sender[m] = sender[n]}
       IN  \/ /\ n \in found
              /\ contacts' = contacts \ {n} /\ confirmed' = confirmed \cup {n}
           \/ /\ n \notin contacts \/ found # {n}
              /\ UNCHANGED <<contacts, confirmed>>
    /\ UNCHANGED <<asVars, addVars, ownerVars, group, connectFaults>>

-----------------------------------------------------------------------------
(* The owner: offers and requests.                                         *)

(* Known offers are skipped; an offer whose key is missing is an error.    *)
(* Either way the message will be acknowledged.                            *)
ReceiveOffer(n) ==
    /\ n \in offerQueue \ handledOffers
    /\ owner \in {"stored", "ready"}
    /\ handledOffers' = handledOffers \cup {n}
    /\ chat' = IF chat[n] = "none" /\ package[n] \in keys
               THEN [chat EXCEPT ![n] = "pending"] ELSE chat
    /\ UNCHANGED <<asVars, addVars, senderVars, group, owner, keys, accept,
                   connectFaults>>

(* The sender's profile or credentials cannot be fetched.                  *)
OfferFails(n) ==
    /\ n \in offerQueue \ handledOffers
    /\ owner \in {"stored", "ready"}
    /\ ConnectFault("network")
    /\ handledOffers' = handledOffers \cup {n}
    /\ UNCHANGED <<asVars, addVars, senderVars, group, owner, keys, chat, accept>>

AckOffer(n) ==
    /\ n \in handledOffers
    /\ handledOffers' = handledOffers \ {n}
    /\ offerQueue' = offerQueue \ {n}
    /\ UNCHANGED <<username, packages, addVars, senderVars, group, owner, keys, chat,
                   accept, connectFaults>>

(* accept_contact_request loads the request and fetches the group's info.  *)
BeginAccept(n) ==
    /\ accept = NoAccept
    /\ chat[n] = "pending"
    /\ accept' = [attempt |-> n, at |-> "fetched"]
    /\ UNCHANGED <<asVars, addVars, senderVars, group, owner, keys, handledOffers, chat,
                   connectFaults>>

(* The last resort key is kept.                                            *)
KeyUsed(p) == IF p = LastResort THEN keys ELSE keys \ {p}

(* First transaction: the group is built and stored, replacing an earlier  *)
(* one, and the package's key deleted.  It reads the package's row and     *)
(* fails when there is none.                                               *)
JoinLocally ==
    LET p == package[accept.attempt]
    IN  /\ accept.at = "fetched"
        /\ \/ p \in keys /\ keys' = KeyUsed(p) /\ accept' = [accept EXCEPT !.at = "joining"]
           \/ p \notin keys /\ accept' = NoAccept /\ UNCHANGED keys
        /\ UNCHANGED <<asVars, addVars, senderVars, group, owner, handledOffers, chat,
                       connectFaults>>

(* The DS accepts the external commit while the sender is the only member, *)
(* and hands it to the sender's queue.                                     *)
JoinConnectionGroup ==
    LET n == accept.attempt
    IN  /\ accept.at = "joining"
        /\ \/ /\ group[n] = "open"
              /\ group' = [group EXCEPT ![n] = "joined"]
              /\ joins' = joins \cup {n}
              /\ accept' = [accept EXCEPT !.at = "joined"]
           \/ /\ group[n] = "joined"
              /\ accept' = NoAccept
              /\ UNCHANGED <<group, joins>>
        /\ UNCHANGED <<asVars, addVars, contacts, confirmed, owner, keys, handledOffers, chat,
                       connectFaults>>

(* Second transaction.                                                     *)
FinishAccept ==
    /\ accept.at = "joined"
    /\ chat' = [chat EXCEPT ![accept.attempt] = "connected"]
    /\ accept' = NoAccept
    /\ UNCHANGED <<asVars, addVars, senderVars, group, owner, keys, handledOffers,
                   connectFaults>>

(* A request or its answer is lost.                                        *)
AcceptFails ==
    /\ accept.at \in {"fetched", "joining", "joined"}
    /\ ConnectFault("network")
    /\ accept' = NoAccept
    /\ UNCHANGED <<asVars, addVars, senderVars, group, owner, keys, handledOffers, chat>>

(* The owner's app stops; what it has not acknowledged comes again.        *)
OwnerCrash ==
    /\ handledOffers # {} \/ accept # NoAccept
    /\ ConnectFault("crash")
    /\ handledOffers' = {} /\ accept' = NoAccept
    /\ UNCHANGED <<asVars, addVars, senderVars, group, owner, keys, chat>>

-----------------------------------------------------------------------------
ConnectionsNext ==
    \/ CreateUsername \/ StoreUsername \/ PublishPackages \/ PublishFails
    \/ RemoveUsername \/ RemoveUsernameLocally \/ Expire
    \/ \E n \in Attempts :
          \/ \E s \in Senders : AddContact(n, s)
          \/ LoadPackage(n) \/ NoPackageToLoad(n) \/ FetchPackage(n)
          \/ CreateGroup(n) \/ EnqueueOffer(n) \/ EnqueueFails(n)
          \/ CommitContact(n) \/ AddContactFails(n) \/ ReceiveJoin(n)
          \/ ReceiveOffer(n) \/ OfferFails(n) \/ AckOffer(n) \/ BeginAccept(n)
    \/ JoinLocally \/ JoinConnectionGroup \/ FinishAccept \/ AcceptFails \/ OwnerCrash

ConnectionsSpec == ConnectionsInit /\ [][ConnectionsNext]_connectionVars

-----------------------------------------------------------------------------
(* A package for one use is given to one sender only, however the queries  *)
(* of the AS overlap (the row locks and the deletion in load_for_username).*)
(* Packages of an earlier owner may be the only row, which is never        *)
(* deleted.                                                                *)
PackageUsedOnce ==
    \A m, n \in Attempts :
        (m # n /\ step[m] \in {"fetched", "grouped", "sent", "done"}
               /\ step[n] \in {"fetched", "grouped", "sent", "done"}
               /\ package[m] = package[n])
        => package[m] \in {LastResort} \cup EarlierPackages

(* The owner has the key for every offer in the queue that it has not      *)
(* turned into a chat: keys are stored before the packages are published,  *)
(* outlive the queue when the username is removed, and are used up only by *)
(* accepting (add_username, remove_username, accept_contact_request).      *)
(* Offers made with a package an earlier owner has left are excepted, and  *)
(* the failed registrations whose rollback did not reach the AS.           *)
OffersCanBeRead ==
    owner # "gone" =>
        \A n \in offerQueue : chat[n] = "none" => package[n] \in keys \cup EarlierPackages

(* When the owner has joined the group of a sender that waits for it, the  *)
(* sender's confirmation is on its way (the sender's write lock is held    *)
(* from before the offer is sent until the contact is stored).  Excepted   *)
(* are senders with a second contact for the username, whose confirmation  *)
(* may meet the wrong one.                                                 *)
ConfirmationComes ==
    \A n \in contacts :
        group[n] = "joined" =>
            n \in joins \/ \E m \in (contacts \cup confirmed) \ {n} : sender[m] = sender[n]
=============================================================================
