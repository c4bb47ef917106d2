---------------------------- MODULE UserCreation ----------------------------
(***************************************************************************)
(* Creating a user (coreclient/src/clients/store.rs and create_user.rs):   *)
(* the state of the creation is stored after every step, so that a later   *)
(* load resumes it, while the steps themselves write other tables and call *)
(* the authentication service (AS) and the queuing service (QS).           *)
(*                                                                         *)
(* One user is created, with one invitation code.  The initial secrets of  *)
(* the QS queue's ratchet are numbered as they are drawn, the QS records   *)
(* of the user as they are created.  A request is answered, or has failed, *)
(* before the next one is sent.                                            *)
(***************************************************************************)
EXTENDS Naturals, Sequences

CONSTANTS
  CreationFaults,     \* which of "crash", "network", "database", "late" may happen
  MaxCreationFaults   \* bound: how many of them

ASSUME CreationAssumption == MaxCreationFaults \in Nat

VARIABLES
  creation,        \* the stored UserCreationState, "none" if there is none
  secret,          \* the secret, and the QS record, that the state holds
  record,          \* client_record: "none", "in_progress" or "finished"
  ratchetRow,      \* queue_ratchet: the secret it began with, 0: no row
  profileRow,      \* the user's own row of the user table exists
  credentialRow,   \* so does the row of the own client credential
  ownInfo,         \* so does own_client_info
  running,         \* who is creating: "nobody", "new" or "load"
  at,              \* what the current step has done so far
  drawn,           \* how many secrets were drawn and used
  asUser,          \* AS: the user record exists
  codeRedeemed,    \* AS: the invitation code is redeemed
  qsSecrets,       \* QS: the initial secret of each record
  expired,         \* the lifetime of the stored client payload is over
  ready,           \* the app has a CoreUser
  creationFaults   \* how many faults have happened

localVars == <<creation, secret, record, ratchetRow, profileRow, credentialRow, ownInfo>>
serverVars == <<asUser, codeRedeemed, qsSecrets, expired>>
creationVars == <<localVars, running, at, drawn, serverVars, ready, creationFaults>>

NoSecrets == [drawn |-> 0, qs |-> 0]

CreationInit ==
  /\ creation = "none" /\ secret = NoSecrets /\ record = "none"
  /\ ratchetRow = 0 /\ profileRow = FALSE /\ credentialRow = FALSE /\ ownInfo = FALSE
  /\ running = "nobody" /\ at = "begin" /\ drawn = 0
  /\ asUser = FALSE /\ codeRedeemed = FALSE /\ qsSecrets = <<>> /\ expired = FALSE
  /\ ready = FALSE /\ creationFaults = 0

CreationFault(k) ==
  /\ k \in CreationFaults
  /\ creationFaults < MaxCreationFaults
  /\ creationFaults' = creationFaults + 1

\* The current step begins, has come to point p, or has failed.
InStep(s, p) == running # "nobody" /\ creation = s /\ at = p

Reach(p) == at' = p /\ UNCHANGED <<running, ready>>

Fail == running' = "nobody" /\ at' = "begin" /\ UNCHANGED ready

\* The new state is stored at the end of a step.
StoreState(s) == creation' = s /\ at' = "begin" /\ UNCHANGED <<running, ready>>

-----------------------------------------------------------------------------
(***************************************************************************)
(* UserCreationState::new, on behalf of CoreUser::new, and CoreUser::load. *)
(***************************************************************************)

\* The client record is stored in the database that all users share.
NewClientRecord ==
  /\ record = "none"
  /\ record' = "in_progress"
  /\ running' = "new" /\ at' = "recorded"
  /\ UNCHANGED <<creation, secret, ratchetRow, profileRow, credentialRow, ownInfo, drawn,
                 serverVars, ready, creationFaults>>

\* The first state is stored in the database of the user.
StoreBasicUserData ==
  /\ InStep("none", "recorded")
  /\ StoreState("basic")
  /\ UNCHANGED <<secret, record, ratchetRow, profileRow, credentialRow, ownInfo, drawn,
                 serverVars, creationFaults>>

(* User::load_default, when the app is launched again: an error ("missing  *)
(* user creation state") without a stored state.                           *)
LoadUser ==
  /\ running = "nobody" /\ ~ready /\ record # "none" /\ creation # "none"
  /\ running' = "load" /\ at' = "begin"
  /\ UNCHANGED <<localVars, drawn, serverVars, ready, creationFaults>>

-----------------------------------------------------------------------------
(***************************************************************************)
(* UserCreationState::step.                                                *)
(***************************************************************************)

\* Mutant of InitializeRatchet: INSERT OR IGNORE.
InitializeRatchetOnce ==
  /\ InStep("basic", "begin")
  /\ drawn' = drawn + 1
  /\ ratchetRow' = IF ratchetRow = 0 THEN drawn + 1 ELSE ratchetRow
  /\ Reach("ratchet")
  /\ UNCHANGED <<creation, secret, record, profileRow, credentialRow, ownInfo, serverVars,
                 creationFaults>>

(* prepare_as_registration, after its queries: a secret is drawn and the   *)
(* ratchet inserted, which fails when there is a row.                      *)
InitializeRatchet ==
  /\ InStep("basic", "begin")
  /\ \/ /\ ratchetRow = 0
        /\ drawn' = drawn + 1 /\ ratchetRow' = drawn + 1
        /\ Reach("ratchet")
     \/ ratchetRow # 0 /\ Fail /\ UNCHANGED <<drawn, ratchetRow>>
  /\ UNCHANGED <<creation, secret, record, profileRow, credentialRow, ownInfo, serverVars,
                 creationFaults>>

\* The own profile key is replaced and the own profile inserted.
StoreOwnProfile ==
  /\ InStep("basic", "ratchet")
  /\ \/ ~profileRow /\ profileRow' = TRUE /\ Reach("profile")
     \/ profileRow /\ Fail /\ UNCHANGED profileRow
  /\ UNCHANGED <<creation, secret, record, ratchetRow, credentialRow, ownInfo, drawn,
                 serverVars, creationFaults>>

StoreInitialState ==
  /\ InStep("basic", "profile")
  /\ secret' = [secret EXCEPT !.drawn = drawn]
  /\ StoreState("initial")
  /\ UNCHANGED <<record, ratchetRow, profileRow, credentialRow, ownInfo, drawn, serverVars,
                 creationFaults>>

\* The payload of the credential, made by the preparation, is valid for 90 days.
PayloadExpires ==
  /\ CreationFault("late")
  /\ creation = "initial" /\ ~expired
  /\ expired' = TRUE
  /\ UNCHANGED <<localVars, running, at, drawn, asUser, codeRedeemed, qsSecrets, ready>>

(* register_user on the AS refuses a redeemed code, a user that exists and *)
(* a payload that is not valid now; the code is then redeemed outside the  *)
(* transaction that stores the user.                                       *)
RedeemCode ==
  /\ InStep("initial", "begin")
  /\ LET refused == codeRedeemed \/ asUser \/ expired
     IN  \/ ~refused /\ codeRedeemed' = TRUE /\ Reach("redeemed")
         \/ refused /\ Fail /\ UNCHANGED codeRedeemed
  /\ UNCHANGED <<localVars, drawn, asUser, qsSecrets, expired, creationFaults>>

CommitUser ==
  /\ InStep("initial", "redeemed")
  /\ asUser' = TRUE
  /\ Reach("registered")
  /\ UNCHANGED <<localVars, drawn, codeRedeemed, qsSecrets, expired, creationFaults>>

\* The transaction of the AS cannot be committed.
CommitUserFails ==
  /\ CreationFault("database")
  /\ InStep("initial", "redeemed")
  /\ Fail
  /\ UNCHANGED <<localVars, drawn, serverVars>>

\* The answer of the AS is stored with the state.
StorePostRegistration ==
  /\ InStep("initial", "registered")
  /\ StoreState("post_registration")
  /\ UNCHANGED <<secret, record, ratchetRow, profileRow, credentialRow, ownInfo, drawn,
                 serverVars, creationFaults>>

\* process_server_response: INSERT OR IGNORE.
StoreCredential ==
  /\ InStep("post_registration", "begin")
  /\ credentialRow' = TRUE
  /\ Reach("credential")
  /\ UNCHANGED <<creation, secret, record, ratchetRow, profileRow, ownInfo, drawn, serverVars,
                 creationFaults>>

StoreUnfinalized ==
  /\ InStep("post_registration", "credential")
  /\ StoreState("unfinalized")
  /\ UNCHANGED <<secret, record, ratchetRow, profileRow, credentialRow, ownInfo, drawn,
                 serverVars, creationFaults>>

\* noop.
StoreAsRegistered ==
  /\ InStep("unfinalized", "begin")
  /\ StoreState("as_registered")
  /\ UNCHANGED <<secret, record, ratchetRow, profileRow, credentialRow, ownInfo, drawn,
                 serverVars, creationFaults>>

\* Mutant of CreateQsRecord: the QS keeps one record, and refuses the second request.
CreateQsRecordOnce ==
  /\ InStep("as_registered", "begin")
  /\ \/ qsSecrets = <<>> /\ qsSecrets' = Append(qsSecrets, secret.drawn) /\ Reach("qs_record")
     \/ qsSecrets # <<>> /\ Fail /\ UNCHANGED qsSecrets
  /\ UNCHANGED <<localVars, drawn, asUser, codeRedeemed, expired, creationFaults>>

\* register_with_qs: every request creates a record of its own.
CreateQsRecord ==
  /\ InStep("as_registered", "begin")
  /\ qsSecrets' = Append(qsSecrets, secret.drawn)
  /\ Reach("qs_record")
  /\ UNCHANGED <<localVars, drawn, asUser, codeRedeemed, expired, creationFaults>>

StoreQsRegistered ==
  /\ InStep("as_registered", "qs_record")
  /\ secret' = [secret EXCEPT !.qs = Len(qsSecrets)]
  /\ StoreState("qs_registered")
  /\ UNCHANGED <<record, ratchetRow, profileRow, credentialRow, ownInfo, drawn, serverVars,
                 creationFaults>>

\* persist; the client record is finished after the state is stored.
StoreFinalState ==
  /\ InStep("qs_registered", "begin")
  /\ creation' = "final" /\ Reach("persisted")
  /\ UNCHANGED <<secret, record, ratchetRow, profileRow, credentialRow, ownInfo, drawn,
                 serverVars, creationFaults>>

FinishClientRecord ==
  /\ InStep("final", "persisted")
  /\ record' = "finished"
  /\ Reach("begin")
  /\ UNCHANGED <<creation, secret, ratchetRow, profileRow, credentialRow, ownInfo, drawn,
                 serverVars, creationFaults>>

(* The creation is complete.  CoreUser::new stores own_client_info before  *)
(* it returns the user; CoreUser::load returns it.                         *)
ReturnUser ==
  /\ InStep("final", "begin")
  /\ ownInfo' = (ownInfo \/ running = "new")
  /\ running' = "nobody" /\ ready' = TRUE /\ UNCHANGED at
  /\ UNCHANGED <<creation, secret, record, ratchetRow, profileRow, credentialRow, drawn,
                 serverVars, creationFaults>>

-----------------------------------------------------------------------------

\* A request, or its answer, is lost; queries come before the first write.
RequestFails ==
  /\ CreationFault("network")
  /\ \/ InStep("basic", "begin")
     \/ creation = "initial" /\ running # "nobody" /\ at \in {"begin", "registered"}
     \/ creation = "as_registered" /\ running # "nobody"
  /\ Fail
  /\ UNCHANGED <<localVars, drawn, serverVars>>

\* The app dies, during the creation or after it; a request is still executed.
CrashCreation ==
  /\ CreationFault("crash")
  /\ running # "nobody" \/ ready
  /\ running' = "nobody" /\ at' = "begin" /\ ready' = FALSE
  /\ IF InStep("initial", "redeemed") THEN asUser' = TRUE ELSE UNCHANGED asUser
  /\ UNCHANGED <<localVars, drawn, codeRedeemed, qsSecrets, expired>>

CreationStep ==
  \/ StoreBasicUserData
  \/ InitializeRatchet \/ StoreOwnProfile \/ StoreInitialState
  \/ RedeemCode \/ CommitUser \/ StorePostRegistration
  \/ StoreCredential \/ StoreUnfinalized \/ StoreAsRegistered
  \/ CreateQsRecord \/ StoreQsRegistered
  \/ StoreFinalState \/ FinishClientRecord \/ ReturnUser

CreationNext ==
  \/ NewClientRecord \/ LoadUser
  \/ CreationStep
  \/ PayloadExpires \/ CommitUserFails \/ RequestFails \/ CrashCreation

\* The steps go on and the app is launched again.
CreationFairness == WF_creationVars(CreationStep) /\ WF_creationVars(LoadUser)

CreationSpec == CreationInit /\ [][CreationNext]_creationVars /\ CreationFairness

-----------------------------------------------------------------------------
(***************************************************************************)
(* Properties.                                                             *)
(***************************************************************************)

(* The ratchet of the client begins with the secret that the QS record has *)
(* which the user listens to, however often the creation was interrupted   *)
(* and its requests were repeated; otherwise no message can be decrypted   *)
(* (prepare_as_registration and register_with_qs are different steps).     *)
SecretsAgree ==
  creation \in {"qs_registered", "final"} => qsSecrets[secret.qs] = ratchetRow

(* What a resumed creation cannot get over: a record without a state, a    *)
(* preparation that was cut short (its rows are there), a registration     *)
(* whose answer was lost (the user exists), a code redeemed in vain, and a *)
(* payload that has expired.                                               *)
Unresumable ==
  \/ creation = "none"
  \/ creation = "basic" /\ ratchetRow # 0
  \/ creation = "initial" /\ (codeRedeemed \/ expired)

(* An interrupted creation is resumed to its end by launching the app      *)
(* again, wherever it was interrupted, but for these points, which         *)
(* InterruptedIsResumed does not allow.                                    *)
CreationIsResumed == <>[](ready \/ Unresumable)

(* CoreUser::load: "If a user creation process with a matching `UserId`    *)
(* was interrupted before, this will resume that process": launching the   *)
(* app again and again ends in a user, as complete as the one that         *)
(* CoreUser::new returns.                                                  *)
InterruptedIsResumed == record # "none" ~> (ready /\ ownInfo)
=============================================================================
