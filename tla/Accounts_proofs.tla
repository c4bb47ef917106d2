--------------------------- MODULE Accounts_proofs ---------------------------
(***************************************************************************)
(* Theorems about an account: the creation of its user and the tokens it   *)
(* pays with.  The two share no variable; each part of this module is      *)
(* about one of them.                                                      *)
(***************************************************************************)
EXTENDS UserCreation, Tokens, TLAPS

-----------------------------------------------------------------------------
(***************************************************************************)
(* The creation of the user.                                               *)
(***************************************************************************)

(* The types of the secrets, wherever they are kept.                       *)
SecretsTyped ==
  /\ secret \in [drawn : Nat, qs : Nat]
  /\ drawn \in Nat /\ ratchetRow \in Nat
  /\ qsSecrets \in Seq(Nat)

(* A secret is drawn only together with the row of the ratchet, which is   *)
(* never replaced: the last secret drawn is the one the ratchet began      *)
(* with.                                                                   *)
RatchetHasLastSecret == ratchetRow = drawn

(* From the initial state on the stored state holds that secret, and the   *)
(* ratchet is never initialised again.                                     *)
StateHasSecret == creation \notin {"none", "basic"} => secret.drawn = drawn

(* The QS records are created from such a state, all with that secret.     *)
RecordsHaveSecret ==
  /\ qsSecrets # <<>> => creation \in {"as_registered", "qs_registered", "final"}
  /\ \A i \in 1..Len(qsSecrets) : qsSecrets[i] = drawn

(* The record that the state names is one of them.                         *)
StateNamesRecord ==
  /\ at = "qs_record" => qsSecrets # <<>>
  /\ creation \in {"qs_registered", "final"} => secret.qs \in 1..Len(qsSecrets)

(* The inductive invariant of the creation.                                *)
SecretsInv ==
  SecretsTyped /\ RatchetHasLastSecret /\ StateHasSecret /\ RecordsHaveSecret /\ StateNamesRecord

(* Nothing is drawn yet.                                                   *)
LEMMA SecretsInvInit == CreationInit => SecretsInv
  BY DEF CreationInit, SecretsInv, SecretsTyped, RatchetHasLastSecret, StateHasSecret,
         RecordsHaveSecret, StateNamesRecord, NoSecrets

(* Every step of the creation, and every interruption, preserves the       *)
(* invariant.                                                              *)
LEMMA SecretsInvNext == SecretsInv /\ [CreationNext]_creationVars => SecretsInv'
<1> SUFFICES ASSUME SecretsInv, [CreationNext]_creationVars PROVE SecretsInv'
  OBVIOUS
<1> USE DEF SecretsInv
<1>1. ASSUME UNCHANGED <<secret, drawn, ratchetRow, qsSecrets>>,
             at' \in {at, "begin", "recorded", "ratchet", "profile", "redeemed", "registered",
                      "credential", "persisted"},
             \/ creation' = creation
             \/ creation = "none" /\ creation' = "basic"
             \/ creation = "initial" /\ creation' = "post_registration"
             \/ creation = "post_registration" /\ creation' = "unfinalized"
             \/ creation = "unfinalized" /\ creation' = "as_registered"
             \/ creation = "qs_registered" /\ creation' = "final"
      PROVE  SecretsInv'
  BY <1>1 DEF SecretsTyped, RatchetHasLastSecret, StateHasSecret, RecordsHaveSecret,
              StateNamesRecord
<1>2. CASE NewClientRecord \/ LoadUser \/ StoreBasicUserData
  BY <1>1, <1>2 DEF NewClientRecord, LoadUser, StoreBasicUserData, InStep, StoreState, localVars,
                    serverVars
<1>3. CASE InitializeRatchet
  <2>1. CASE UNCHANGED <<drawn, ratchetRow>>
    BY <1>1, <1>3, <2>1 DEF InitializeRatchet, InStep, Reach, Fail, serverVars
  <2>2. CASE drawn' = drawn + 1 /\ ratchetRow' = drawn + 1 /\ at' = "ratchet"
    <3>1. creation = "basic" /\ UNCHANGED <<creation, secret, qsSecrets>>
      BY <1>3 DEF InitializeRatchet, InStep, serverVars
    <3>2. qsSecrets = <<>>
      BY <3>1 DEF RecordsHaveSecret
    <3> QED
      BY <2>2, <3>1, <3>2 DEF SecretsTyped, RatchetHasLastSecret, StateHasSecret,
                              RecordsHaveSecret, StateNamesRecord
  <2> QED BY <1>3, <2>1, <2>2 DEF InitializeRatchet, Reach
<1>4. CASE StoreOwnProfile \/ RedeemCode \/ CommitUser \/ CommitUserFails
  BY <1>1, <1>4 DEF StoreOwnProfile, RedeemCode, CommitUser, CommitUserFails, InStep, Reach, Fail,
                    localVars, serverVars
<1>5. CASE StoreInitialState
  <2>1. /\ secret' = [secret EXCEPT !.drawn = drawn] /\ creation = "basic"
        /\ creation' = "initial" /\ at' = "begin" /\ UNCHANGED <<drawn, ratchetRow, qsSecrets>>
    BY <1>5 DEF StoreInitialState, InStep, StoreState, serverVars
  <2> QED
    BY <2>1 DEF SecretsTyped, RatchetHasLastSecret, StateHasSecret, RecordsHaveSecret,
                StateNamesRecord
<1>6. CASE StorePostRegistration \/ StoreCredential \/ StoreUnfinalized \/ StoreAsRegistered
  BY <1>1, <1>6 DEF StorePostRegistration, StoreCredential, StoreUnfinalized, StoreAsRegistered,
                    InStep, Reach, StoreState, serverVars
<1>7. CASE CreateQsRecord
  <2>1. /\ qsSecrets' = Append(qsSecrets, secret.drawn) /\ creation = "as_registered"
        /\ UNCHANGED <<creation, secret, drawn, ratchetRow>>
    BY <1>7 DEF CreateQsRecord, InStep, localVars
  <2>2. secret.drawn = drawn
    BY <2>1 DEF StateHasSecret
  <2> QED
    BY <2>1, <2>2 DEF SecretsTyped, RatchetHasLastSecret, StateHasSecret, RecordsHaveSecret,
                      StateNamesRecord
<1>8. CASE StoreQsRegistered
  <2>1. /\ secret' = [secret EXCEPT !.qs = Len(qsSecrets)] /\ creation = "as_registered"
        /\ at = "qs_record" /\ creation' = "qs_registered" /\ at' = "begin"
        /\ UNCHANGED <<drawn, ratchetRow, qsSecrets>>
    BY <1>8 DEF StoreQsRegistered, InStep, StoreState, serverVars
  <2>2. Len(qsSecrets) \in Nat /\ Len(qsSecrets) > 0
    BY <2>1 DEF SecretsTyped, StateNamesRecord
  <2> QED
    BY <2>1, <2>2 DEF SecretsTyped, RatchetHasLastSecret, StateHasSecret, RecordsHaveSecret,
                      StateNamesRecord
<1>9. CASE StoreFinalState \/ FinishClientRecord \/ ReturnUser
  BY <1>1, <1>9 DEF StoreFinalState, FinishClientRecord, ReturnUser, InStep, Reach, serverVars
<1>10. CASE PayloadExpires \/ RequestFails \/ CrashCreation \/ UNCHANGED creationVars
  BY <1>1, <1>10
  DEF PayloadExpires, RequestFails, CrashCreation, Fail, localVars, serverVars, creationVars
<1> QED
  BY <1>2, <1>3, <1>4, <1>5, <1>6, <1>7, <1>8, <1>9, <1>10 DEF CreationNext, CreationStep

(* A created user can decrypt what comes from its QS queue: the ratchet    *)
(* and the record the user listens to began with the same secret, however  *)
(* often the creation was interrupted and however many records its         *)
(* repeated requests have left on the QS.                                  *)
THEOREM RatchetFitsRecord == CreationSpec => []SecretsAgree
<1>1. SecretsInv => SecretsAgree
  BY DEF SecretsInv, SecretsAgree, RecordsHaveSecret, RatchetHasLastSecret, StateNamesRecord
<1> QED BY <1>1, SecretsInvInit, SecretsInvNext, PTL DEF CreationSpec

-----------------------------------------------------------------------------
(***************************************************************************)
(* The tokens.                                                             *)
(***************************************************************************)

(* The types of the time and of what the AS stores with it.                *)
TokenTablesTyped ==
  /\ day \in Nat
  /\ tokenKeys \in SUBSET [id : Nat, born : Nat]
  /\ \A k \in tokenKeys : k.born <= day
  /\ \A n \in nonces : n.at \in Nat

(* A key that is gone for good: a new key is younger.                      *)
Gone(k) == k \notin tokenKeys /\ k.born \in Nat /\ k.born < day

(* The nonce of a token, not older than the token's key.                   *)
HasNonce(t) == \E n \in nonces : n.token = t /\ t.key.born \in Nat /\ t.key.born <= n.at

(* A token that has paid is refused: its nonce is there, or its key is     *)
(* gone, unless a crash of the database has erased the nonce.              *)
RedeemedIsRefused == \A t \in redeemed \ erased : HasNonce(t) \/ Gone(t.key)

(* When the nonces are pruned, the keys of that age have been removed.     *)
PruningAfterRemoval == rotation = "nonces" => \A k \in tokenKeys : ~OutOfAge(k.born)

(* The inductive invariant of the tokens.                                  *)
TokensInv == TokenTablesTyped /\ RedeemedIsRefused /\ PruningAfterRemoval /\ SpentOnce

(* There is no key and no token yet.                                       *)
LEMMA TokensInvInit == TokensInit => TokensInv
  BY DEF TokensInit, TokensInv, TokenTablesTyped, RedeemedIsRefused, PruningAfterRemoval,
         SpentOnce

(* A step that neither redeems a token nor touches the tables of the AS    *)
(* preserves the invariant.                                                *)
LEMMA TokensInvIdle ==
  ASSUME TokensInv, UNCHANGED <<day, tokenKeys, nonces, redeemed, paidTwice, erased>>,
         rotation' = rotation \/ rotation' # "nonces"
  PROVE  TokensInv'
<1> QED
  BY DEF TokensInv, TokenTablesTyped, RedeemedIsRefused, PruningAfterRemoval, SpentOnce, HasNonce,
         Gone, OutOfAge

(* A token is redeemed while its key is there and its nonce is not: it has *)
(* not paid before, unless its nonce was erased.                           *)
LEMMA RedeemKeepsInv ==
  ASSUME TokensInv, NEW t, Redeemable(t), RedeemToken(t),
         UNCHANGED <<day, tokenKeys, erased, rotation>>
  PROVE  TokensInv'
<1> USE DEF TokensInv
<1>1. CASE ForNames
  BY <1>1, TokensInvIdle DEF RedeemToken, Unspent
<1>2. CASE ~ForNames
  <2>1. /\ nonces' = nonces \cup {[token |-> t, at |-> day]}
        /\ redeemed' = redeemed \cup {t}
        /\ paidTwice' = IF t \in redeemed THEN paidTwice \cup {t} ELSE paidTwice
    BY <1>2 DEF RedeemToken
  <2>2. t.key \in tokenKeys /\ ~HasNonce(t)
    BY DEF Redeemable, VerifiesToken, KeyOf, Spent, HasNonce
  <2>3. t.key.born \in Nat /\ t.key.born <= day
    BY <2>2 DEF TokenTablesTyped
  <2>4. t \in redeemed => t \in erased
    BY <2>2 DEF RedeemedIsRefused, Gone
  <2>5. HasNonce(t)'
    <3> DEFINE n == [token |-> t, at |-> day]
    <3>1. n \in nonces' /\ n.token = t /\ n.at = day
      BY <2>1
    <3> HIDE DEF n
    <3> QED BY <2>3, <3>1 DEF HasNonce
  <2>6. \A u : HasNonce(u) => HasNonce(u)'
    BY <2>1 DEF HasNonce
  <2>7. \A k : Gone(k) => Gone(k)'
    BY DEF Gone
  <2>8. RedeemedIsRefused'
    BY <2>1, <2>5, <2>6, <2>7 DEF RedeemedIsRefused
  <2>9. TokenTablesTyped' /\ PruningAfterRemoval'
    BY <2>1 DEF TokenTablesTyped, PruningAfterRemoval, OutOfAge
  <2>10. SpentOnce'
    BY <2>1, <2>4 DEF SpentOnce
  <2> QED BY <2>8, <2>9, <2>10
<1> QED BY <1>1, <1>2

(* The steps of a rotation of the keys, its failure and a crash of the     *)
(* database preserve the invariant.                                        *)
LEMMA RotationKeepsInv ==
  ASSUME TokensInv, StartAs \/ RotationStep \/ RotationFails \/ DatabaseCrash
  PROVE  TokensInv'
<1> USE DEF TokensInv
<1>1. UNCHANGED <<day, redeemed, paidTwice>>
  BY DEF StartAs, RotationStep, RotateKeys, RemoveKeys, PruneNonces, RotationFails, DatabaseCrash,
         Rotated
<1>2. ASSUME CreateKey, UNCHANGED <<nonces, erased>>, rotation' # "nonces" PROVE TokensInv'
  <2>1. PICK id \in KeyIds : tokenKeys' = tokenKeys \cup {[id |-> id, born |-> day]}
    BY <1>2 DEF CreateKey
  <2>2. id \in Nat
    BY TokensAssumption
  <2>3. TokenTablesTyped'
    BY <1>1, <1>2, <2>1, <2>2 DEF TokenTablesTyped
  <2>4. \A k : Gone(k) => Gone(k)'
    BY <1>1, <2>1 DEF Gone, TokenTablesTyped
  <2>5. \A t : HasNonce(t) => HasNonce(t)'
    BY <1>2 DEF HasNonce
  <2>6. RedeemedIsRefused'
    BY <1>1, <1>2, <2>4, <2>5 DEF RedeemedIsRefused
  <2> QED BY <1>1, <1>2, <2>3, <2>6 DEF PruningAfterRemoval, SpentOnce
<1>3. CASE StartAs \/ RotateKeys
  <2>1. CASE CreateKey
    BY <1>2, <1>3, <2>1 DEF StartAs, RotateKeys
  <2>2. CASE UNCHANGED tokenKeys
    BY <1>1, <1>3, <2>2, TokensInvIdle DEF StartAs, RotateKeys
  <2> QED BY <1>3, <2>1, <2>2 DEF StartAs, RotateKeys
<1>4. CASE RemoveKeys
  <2>1. /\ tokenKeys' = {k \in tokenKeys : ~OutOfAge(k.born)}
        /\ UNCHANGED <<nonces, erased>> /\ rotation' = "nonces"
    BY <1>4 DEF RemoveKeys
  <2>2. TokenTablesTyped'
    BY <1>1, <2>1 DEF TokenTablesTyped
  <2>3. PruningAfterRemoval'
    BY <1>1, <2>1 DEF PruningAfterRemoval, OutOfAge
  <2>4. \A k : Gone(k) => Gone(k)'
    BY <1>1, <2>1 DEF Gone
  <2>5. \A t : HasNonce(t) => HasNonce(t)'
    BY <2>1 DEF HasNonce
  <2> QED BY <1>1, <2>1, <2>2, <2>3, <2>4, <2>5 DEF RedeemedIsRefused, SpentOnce
<1>5. CASE PruneNonces
  <2>1. /\ nonces' = {n \in nonces : ~OutOfAge(n.at)}
        /\ UNCHANGED <<tokenKeys, erased>> /\ rotation = "nonces" /\ rotation' = "create"
    BY <1>5 DEF PruneNonces, NonceOutOfAge
  <2>2. \A k : Gone(k) => Gone(k)'
    BY <1>1, <2>1 DEF Gone
  <2>3. ASSUME NEW t, HasNonce(t) PROVE HasNonce(t)' \/ Gone(t.key)'
    <3>1. PICK n \in nonces : n.token = t /\ t.key.born \in Nat /\ t.key.born <= n.at
      BY <2>3 DEF HasNonce
    <3>2. CASE ~OutOfAge(n.at)
      BY <2>1, <3>1, <3>2 DEF HasNonce
    <3>3. CASE OutOfAge(n.at)
      <4>1. n.at \in Nat
        BY DEF TokenTablesTyped
      <4>2. OutOfAge(t.key.born) /\ t.key.born < day
        BY <3>1, <3>3, <4>1, TokensAssumption DEF OutOfAge, TokenTablesTyped
      <4>3. t.key \notin tokenKeys
        BY <2>1, <4>2 DEF PruningAfterRemoval
      <4> QED BY <1>1, <2>1, <3>1, <4>2, <4>3 DEF Gone
    <3> QED BY <3>2, <3>3
  <2>4. RedeemedIsRefused'
    BY <1>1, <2>1, <2>2, <2>3 DEF RedeemedIsRefused
  <2> QED BY <1>1, <2>1, <2>4 DEF TokenTablesTyped, PruningAfterRemoval, SpentOnce
<1>6. CASE RotationFails
  BY <1>1, <1>6, TokensInvIdle DEF RotationFails
<1>7. CASE DatabaseCrash
  <2>1. /\ nonces' = {} /\ erased' = erased \cup {n.token : n \in nonces}
        /\ UNCHANGED tokenKeys /\ rotation' = "create"
    BY <1>7 DEF DatabaseCrash
  <2>2. \A k : Gone(k) => Gone(k)'
    BY <1>1, <2>1 DEF Gone
  <2>3. \A t : HasNonce(t) => t \in erased'
    BY <2>1 DEF HasNonce
  <2>4. RedeemedIsRefused'
    BY <1>1, <2>1, <2>2, <2>3 DEF RedeemedIsRefused
  <2> QED BY <1>1, <2>1, <2>4 DEF TokenTablesTyped, PruningAfterRemoval, SpentOnce
<1> QED BY <1>3, <1>4, <1>5, <1>6, <1>7 DEF RotationStep

(* Every step preserves the invariant of the tokens.                       *)
LEMMA TokensInvNext == TokensInv /\ [TokensNext]_tokensVars => TokensInv'
<1> SUFFICES ASSUME TokensInv, [TokensNext]_tokensVars PROVE TokensInv'
  OBVIOUS
<1>1. CASE Tick
  <2> USE DEF TokensInv
  <2>1. /\ day' = day + 1 /\ rotation = "create"
        /\ UNCHANGED <<tokenKeys, nonces, rotation, redeemed, paidTwice, erased>>
    BY <1>1 DEF Tick, tokenAsVars, historyVars
  <2>2. TokenTablesTyped'
    BY <2>1 DEF TokenTablesTyped
  <2>3. \A k : Gone(k) => Gone(k)'
    BY <2>1 DEF Gone, TokenTablesTyped
  <2>4. \A t : HasNonce(t) => HasNonce(t)'
    BY <2>1 DEF HasNonce
  <2>5. RedeemedIsRefused'
    BY <2>1, <2>3, <2>4 DEF RedeemedIsRefused
  <2> QED BY <2>1, <2>2, <2>5 DEF PruningAfterRemoval, SpentOnce
<1>2. CASE StartAs \/ RotationStep \/ RotationFails \/ DatabaseCrash
  BY <1>2, RotationKeepsInv
<1>3. CASE BeginRefresh \/ BeginReplenish \/ ReplenishOther \/ AddUsername \/ RequestCode
  BY <1>3, TokensInvIdle
  DEF BeginRefresh, BeginReplenish, ReplenishOther, AddUsername, RequestCode, TaskDue, UserCalls,
      tokenAsVars, historyVars
<1>4. ASSUME NEW p \in Processes,
             \/ FetchKeys(p) \/ StoreKeys(p) \/ RequestTokens(p) \/ StoreTokens(p)
             \/ PurgeKeys(p) \/ FillingFails(p)
      PROVE  TokensInv'
  <2>1. UNCHANGED <<day, rotation, erased, nonces, redeemed, paidTwice, tokenKeys>>
    BY <1>4 DEF FetchKeys, StoreKeys, RequestTokens, StoreTokens, PurgeKeys, FillingFails,
                FillStep, Steady
  <2> QED BY <2>1, TokensInvIdle
<1>5. ASSUME NEW p \in Processes, NEW where, PayStep(p, where),
             Unspent \/ (\E t : Redeemable(t) /\ RedeemToken(t))
      PROVE  TokensInv'
  <2>1. UNCHANGED <<day, rotation, erased, tokenKeys>>
    BY <1>5 DEF PayStep, Steady
  <2>2. CASE Unspent
    BY <2>1, <2>2, TokensInvIdle DEF Unspent
  <2>3. CASE \E t : Redeemable(t) /\ RedeemToken(t)
    BY <2>1, <2>3, RedeemKeepsInv
  <2> QED BY <1>5, <2>2, <2>3
<1>6. ASSUME NEW p \in Processes, Redeem(p) PROVE TokensInv'
  <2>1. Unspent \/ (\E t : Redeemable(t) /\ RedeemToken(t))
    BY <1>6 DEF Redeem
  <2> QED BY <1>5, <1>6, <2>1 DEF Redeem
<1>7. ASSUME NEW p \in Processes, RedeemFails(p) \/ PurgeTokens(p) PROVE TokensInv'
  <2>1. Unspent \/ (\E t : Redeemable(t) /\ RedeemToken(t))
    BY <1>7 DEF RedeemFails, PurgeTokens
  <2> QED BY <1>5, <1>7, <2>1 DEF RedeemFails, PurgeTokens
<1>8. CASE GetCode \/ StoreCode \/ GetCodeFails
  <2>1. Unspent \/ (\E t : Redeemable(t) /\ RedeemToken(t))
    BY <1>8 DEF GetCode, StoreCode, GetCodeFails
  <2>2. "user" \in Processes
    BY DEF Processes
  <2> QED BY <1>5, <1>8, <2>1, <2>2 DEF GetCode, StoreCode, GetCodeFails
<1>9. CASE AppCrash \/ UNCHANGED tokensVars
  BY <1>9, TokensInvIdle DEF AppCrash, tokensVars, tokenAsVars, historyVars
<1> QED
  BY <1>1, <1>2, <1>3, <1>4, <1>6, <1>7, <1>8, <1>9 DEF TokensNext, ProcessStep

(* A token pays once, whenever the keys are rotated, wherever a rotation   *)
(* fails and whichever request the client repeats: the nonce of a token    *)
(* that has paid outlives its key, and a key never comes back.             *)
THEOREM TokenPaysOnce == TokensSpec => []SpentOnce
<1>1. TokensInv => SpentOnce
  BY DEF TokensInv
<1> QED BY <1>1, TokensInvInit, TokensInvNext, PTL DEF TokensSpec
=============================================================================
