------------------------------- MODULE Tokens -------------------------------
(***************************************************************************)
(* Privacy pass tokens: the authentication service (AS) issues them under  *)
(* keys that it rotates (backend/src/auth_service/privacy_pass.rs), the    *)
(* client keeps a stock of them and pays with them for usernames and       *)
(* invitation codes (coreclient/src/privacy_pass/mod.rs, usernames/mod.rs, *)
(* clients/invitation_code.rs, outbound_service/timed_tasks.rs).           *)
(*                                                                         *)
(* One user with one username, and the tokens, keys, nonces and allowance  *)
(* of one operation type; the other type has its own, and what it does to  *)
(* this one is to fetch the keys of both.  Two processes of the client use *)
(* the stock: the timed tasks and the calls of the user.  A request is     *)
(* served at once and answered later, or the answer is lost.  Time is      *)
(* counted in units of a day or more, so none passes while a rotation, a   *)
(* task or a call runs; they interleave at any time of a day.  A key is    *)
(* its id, which the client compares and sorts by, and the day it was      *)
(* made; ids can come back once the earlier key is gone.  A token for      *)
(* usernames leaves the stock before it is used and is never sent twice,   *)
(* so these tokens differ by their keys only and have no nonces here.      *)
(***************************************************************************)
EXTENDS Integers, Sequences, FiniteSets, SequencesExt

CONSTANTS
  OperationType,     \* "AddUsername" or "GetInviteCode"
  MaxNameTokens,     \* max_tokens_allowance of AddUsername
  LowNameTokens,     \* its low_tokens_threshold
  RotationPeriod,    \* KEY_ROTATION_PERIOD_DAYS
  OverlapDays,       \* KEY_OVERLAP_DAYS
  RefreshAge,        \* USERNAME_REFRESH_THRESHOLD
  KeyIds,            \* the truncated key ids
  MaxDay,            \* bound: the last day
  MaxCalls,          \* bound: calls of the user
  MaxOther,          \* bound: fetches of the keys for the other type
  TokenFaults,       \* which of the faults below may happen
  MaxTokenFaults     \* bound: how many of them

ASSUME TokensAssumption ==
  /\ OperationType \in {"AddUsername", "GetInviteCode"}
  /\ LowNameTokens \in 1..MaxNameTokens /\ MaxNameTokens \in Nat
  /\ RotationPeriod \in Nat \ {0} /\ OverlapDays \in Nat /\ RefreshAge \in Nat
  /\ KeyIds \subseteq Nat /\ MaxDay \in Nat /\ MaxCalls \in Nat
  /\ MaxOther \in Nat /\ MaxTokenFaults \in Nat

VARIABLES
  day,             \* the time
  tokenKeys,       \* AS: as_batched_key
  nonces,          \* AS: as_token_nonce, the tokens redeemed and when
  allowance,       \* AS: as_token_allowance
  rotation,        \* AS: the next step of rotate_keys_if_needed
  stock,           \* client: privacy_pass_token, oldest first
  knownKeys,       \* client: batched_token_key
  refreshedAt,     \* client: when the username was last refreshed
  loaded,          \* client: loaded_credentials, set by the task of the other type
  proc,            \* client: what each process is doing
  minted,          \* how many tokens for invitation codes were issued
  calls,           \* how many calls the user has made
  others,          \* how often the keys were fetched for the other type
  redeemed,        \* history: the tokens that have paid for something
  paidTwice,       \* history: those that have paid again
  erased,          \* history: those whose nonce a crash of the database erased
  tokenFaults      \* how many faults have happened

tokenAsVars == <<tokenKeys, nonces, allowance>>
stockVars == <<stock, knownKeys>>
historyVars == <<redeemed, paidTwice, erased>>
tokensVars == <<day, tokenAsVars, rotation, stockVars, refreshedAt, loaded, proc, minted,
                calls, others, historyVars, tokenFaults>>

Processes == {"tasks", "user"}
ForNames == OperationType = "AddUsername"

max_tokens_allowance == IF ForNames THEN MaxNameTokens ELSE 1
low_tokens_threshold == IF ForNames THEN LowNameTokens ELSE 1

Idle == [at |-> "idle"]

\* The AS has not been started yet.
TokensInit ==
  /\ day = 0
  /\ tokenKeys = {} /\ nonces = {}
  /\ allowance = [remaining |-> 1, valid_until |-> 1]
  /\ rotation = "down"
  /\ stock = <<>> /\ knownKeys = {}
  /\ refreshedAt = 0
  /\ loaded = FALSE
  /\ proc = [p \in Processes |-> Idle]
  /\ minted = 0 /\ calls = 0 /\ others = 0
  /\ redeemed = {} /\ paidTwice = {} /\ erased = {} /\ tokenFaults = 0

TokenFault(f) ==
  /\ f \in TokenFaults
  /\ tokenFaults < MaxTokenFaults
  /\ tokenFaults' = tokenFaults + 1

NoTokenFault == UNCHANGED tokenFaults

At(p, where) == proc[p].at = where

\* A day passes; no rotation, call or run of the tasks lasts that long.
Tick ==
  /\ day < MaxDay /\ rotation = "create" /\ \A p \in Processes : At(p, "idle")
  /\ day' = day + 1 /\ loaded' = FALSE
  /\ UNCHANGED <<tokenAsVars, rotation, stockVars, refreshedAt, proc, minted, calls, others,
                 historyVars, tokenFaults>>

-----------------------------------------------------------------------------
(* The AS rotates its keys: at start and then daily.  No transaction spans *)
(* the steps.                                                              *)

OutOfAge(at) == at < day - (RotationPeriod + OverlapDays)

Rotated == UNCHANGED <<day, allowance, stockVars, refreshedAt, loaded, proc, minted, calls,
                       others, redeemed, paidTwice>>

needs_rotation == \A k \in tokenKeys : k.born <= day - RotationPeriod

\* A new key gets an id that no key of the table has.
CreateKey ==
  \E id \in KeyIds \ {k.id : k \in tokenKeys} :
    tokenKeys' = tokenKeys \cup {[id |-> id, born |-> day]}

RotateKeys ==
  /\ rotation = "create"
  /\ IF needs_rotation THEN CreateKey ELSE UNCHANGED tokenKeys
  /\ rotation' = "keys"
  /\ Rotated /\ UNCHANGED <<nonces, erased>> /\ NoTokenFault

RemoveKeys ==
  /\ rotation = "keys"
  /\ tokenKeys' = {k \in tokenKeys : ~OutOfAge(k.born)}
  /\ rotation' = "nonces"
  /\ Rotated /\ UNCHANGED <<nonces, erased>> /\ NoTokenFault

\* Mutant of NonceOutOfAge: the nonces are kept for the overlap window only.
NonceOutOfOverlap(at) == at < day - OverlapDays

\* The nonces get as old as the keys, although the comment speaks of the
\* overlap window.
NonceOutOfAge(at) == OutOfAge(at)

PruneNonces ==
  /\ rotation = "nonces"
  /\ nonces' = {n \in nonces : ~NonceOutOfAge(n.at)}
  /\ rotation' = "create"
  /\ Rotated /\ UNCHANGED <<tokenKeys, erased>> /\ NoTokenFault

\* The AS makes its first key before it serves requests.
StartAs ==
  /\ rotation = "down"
  /\ CreateKey
  /\ rotation' = "create"
  /\ Rotated /\ UNCHANGED <<nonces, erased>> /\ NoTokenFault

\* A failing statement ends the rotation until the next day.
RotationFails ==
  /\ TokenFault("database") /\ rotation \in {"keys", "nonces"}
  /\ rotation' = "create"
  /\ Rotated /\ UNCHANGED <<tokenKeys, nonces, erased>>

\* The table of the nonces is UNLOGGED: a crash of the database empties it.
DatabaseCrash ==
  /\ TokenFault("dbcrash") /\ rotation # "down"
  /\ nonces' = {}
  /\ erased' = erased \cup {n.token : n \in nonces}
  /\ rotation' = "create"
  /\ Rotated /\ UNCHANGED tokenKeys

-----------------------------------------------------------------------------
(* What the AS answers.                                                    *)

\* issue_token_response and redeem_token look a key up by its id.
KeyOf(k) == {s \in tokenKeys : s.id = k.id}

\* The key is there, and it is the key the token was made with.
VerifiesToken(t) == KeyOf(t.key) = {t.key}
Spent(t) == \E n \in nonces : n.token = t
Redeemable(t) == ~Spent(t) /\ VerifiesToken(t)
UnknownKeyId(t) == ~Spent(t) /\ KeyOf(t.key) = {}

Unspent == UNCHANGED <<nonces, redeemed, paidTwice>>

\* as_redeem_token in a transaction that commits.
RedeemToken(t) ==
  IF ForNames THEN Unspent ELSE
  /\ nonces' = nonces \cup {[token |-> t, at |-> day]}
  /\ redeemed' = redeemed \cup {t}
  /\ paidTwice' = IF t \in redeemed THEN paidTwice \cup {t} ELSE paidTwice

\* The allowance a request finds: renewed when it is no longer valid.
CurrentAllowance ==
  IF allowance.valid_until > day THEN allowance ELSE [remaining |-> 1, valid_until |-> day + 1]

\* The allowance is not enforced for AddUsername.
WithinAllowance(n) == ForNames \/ CurrentAllowance.remaining >= n

UseAllowance(n) ==
  allowance' = IF ForNames THEN allowance ELSE [CurrentAllowance EXCEPT !.remaining = @ - n]

-----------------------------------------------------------------------------
(* The client.                                                             *)

Goto(p, r) == proc' = [proc EXCEPT ![p] = r] /\ UNCHANGED loaded

\* A process is done, with or without success; a task is scheduled anew.
Done(p) == Goto(p, Idle)

\* What only the user, a rotation or a crash changes.
Steady == UNCHANGED <<day, rotation, calls, others, erased>>

Missing == max_tokens_allowance - Len(stock)
Low == Len(stock) < low_tokens_threshold

\* The keys are fetched for the tokens that follow, or for the other type.
ToFetchKeys(n) == [at |-> "fetch", count |-> n]
ToRequest(n) == [at |-> "request", count |-> n]

\* A task comes due when the interval that reschedule has set is over.
TaskDue ==
  /\ rotation # "down" /\ At("tasks", "idle")
  /\ UNCHANGED <<day, tokenAsVars, rotation, refreshedAt, minted, calls, historyVars>>
  /\ NoTokenFault

\* replenish_tokens of the other type.
ReplenishOther ==
  /\ TaskDue /\ others < MaxOther
  /\ others' = others + 1
  /\ Goto("tasks", ToFetchKeys(0)) /\ UNCHANGED stockVars

\* replenish_tokens, up to its first request: in a run of its own, or after
\* the task of the other type in a run that has loaded the keys.  A run
\* executes a task once (dequeue skips what its task_id has locked).
BeginReplenish ==
  /\ TaskDue
  /\ \E l \in {FALSE, loaded} :
       proc' = [proc EXCEPT !["tasks"] = IF ~Low THEN Idle
                                         ELSE IF l THEN ToRequest(Missing)
                                         ELSE ToFetchKeys(Missing)]
  /\ loaded' = FALSE
  /\ UNCHANGED <<stockVars, others>>

\* consume_token: the oldest token leaves the stock before it is used.
ConsumeToken(p, why) ==
  /\ ForNames /\ stock # <<>>
  /\ stock' = Tail(stock)
  /\ Goto(p, [at |-> "redeem", why |-> why, token |-> Head(stock)])
  /\ UNCHANGED knownKeys

\* refresh_usernames; without a token it is put off.
BeginRefresh ==
  /\ TaskDue
  /\ refreshedAt <= day - RefreshAge /\ ConsumeToken("tasks", "refresh")
  /\ UNCHANGED others

UserCalls ==
  /\ rotation # "down" /\ At("user", "idle") /\ calls < MaxCalls
  /\ calls' = calls + 1
  /\ UNCHANGED <<day, tokenAsVars, rotation, refreshedAt, minted, others, historyVars>>
  /\ NoTokenFault

\* add_username pays with a token, or fills the empty stock and fails.
AddUsername ==
  /\ UserCalls
  /\ \/ ConsumeToken("user", "add")
     \/ /\ ForNames => stock = <<>>
        /\ Goto("user", ToFetchKeys(IF ForNames THEN Missing ELSE 0))
        /\ UNCHANGED stockVars

\* request_invitation_code: the token stays in the stock until the answer.
RequestCode ==
  /\ UserCalls /\ ~ForNames
  /\ \E t \in Range(stock) : Goto("user", [at |-> "invite", token |-> t])
  /\ UNCHANGED stockVars

-----------------------------------------------------------------------------
(* Filling the stock.                                                      *)

FillStep(p, where) ==
  /\ At(p, where)
  /\ Steady /\ UNCHANGED <<nonces, refreshedAt, redeemed, paidTwice>>

\* as_as_credentials answers with the keys of both types.
FetchKeys(p) ==
  /\ FillStep(p, "fetch")
  /\ Goto(p, [at |-> "keys", count |-> proc[p].count, keys |-> tokenKeys])
  /\ UNCHANGED <<tokenKeys, allowance, stockVars, minted>> /\ NoTokenFault

Ids(keys) == {k.id : k \in keys}

\* Mutant of Changed: only ids that are new to the client count.
ChangedByNewIds(keys) == ~(Ids(keys) \subseteq Ids(knownKeys))

\* There are keys, and their ids are not those that the client has.
Changed(keys) == keys # {} /\ Ids(keys) # Ids(knownKeys)

\* store_batched_token_keys, in one transaction.
StoreKeys(p) ==
  /\ FillStep(p, "keys")
  /\ IF Changed(proc[p].keys) THEN stock' = <<>> /\ knownKeys' = proc[p].keys
     ELSE UNCHANGED stockVars
  /\ LET other == proc[p].count = 0 IN
       /\ proc' = [proc EXCEPT ![p] = IF other THEN Idle ELSE ToRequest(@.count)]
       /\ loaded' = (loaded \/ (other /\ p = "tasks"))
  /\ UNCHANGED <<tokenKeys, allowance, minted>> /\ NoTokenFault

\* load_batched_token_keys: the keys in descending order of their ids.
FirstKey == CHOOSE k \in knownKeys : \A j \in knownKeys : j.id <= k.id

NewTokens(n) ==
  [i \in 1..n |-> [key |-> FirstKey, number |-> IF ForNames THEN 0 ELSE minted + i]]

\* The AS has the id of the client's key and the user may have the tokens.
Granted(n) == IF knownKeys = {} THEN FALSE ELSE WithinAllowance(n) /\ KeyOf(FirstKey) # {}

\* as_issue_tokens commits the allowance, whatever becomes of the answer.
Issue(n) ==
  UseAllowance(n) /\ minted' = IF ForNames THEN minted ELSE minted + n

\* request_and_store_tokens, up to the answer.  The proof that comes with
\* the tokens fails when the id belongs to another key by now.
RequestTokens(p) ==
  /\ FillStep(p, "request")
  /\ LET n == proc[p].count IN
       \/ ~Granted(n) /\ Done(p) /\ UNCHANGED <<allowance, minted>>
       \/ /\ Granted(n) /\ Issue(n)
          /\ IF KeyOf(FirstKey) = {FirstKey}
             THEN Goto(p, [at |-> "tokens", tokens |-> NewTokens(n)])
             ELSE Done(p)
  /\ UNCHANGED <<tokenKeys, stockVars>> /\ NoTokenFault

StoreTokens(p) ==
  /\ FillStep(p, "tokens")
  /\ stock' = stock \o proc[p].tokens
  /\ Done(p)
  /\ UNCHANGED <<tokenKeys, allowance, knownKeys, minted>> /\ NoTokenFault

\* The request does not reach the AS or fails there; the answer of a
\* request that was served is lost; the database of the client stays locked
\* for all of the retries.
FillingFails(p) ==
  /\ \/ /\ FillStep(p, "fetch") \/ FillStep(p, "request")
        /\ TokenFault("network") /\ UNCHANGED <<allowance, minted>>
     \/ /\ FillStep(p, "request") /\ TokenFault("lost")
        /\ Granted(proc[p].count) /\ Issue(proc[p].count)
     \/ FillStep(p, "tokens") /\ TokenFault("locked") /\ UNCHANGED <<allowance, minted>>
  /\ Done(p)
  /\ UNCHANGED <<tokenKeys, stockVars>>

-----------------------------------------------------------------------------
(* Paying for a username: as_create_username and as_refresh_username.      *)

PayStep(p, where) ==
  /\ At(p, where)
  /\ Steady /\ UNCHANGED <<tokenKeys, allowance, knownKeys, minted>>

Redeem(p) ==
  /\ PayStep(p, "redeem") /\ NoTokenFault
  /\ LET t == proc[p].token IN
       \/ /\ Redeemable(t) /\ RedeemToken(t) /\ Done(p)
          /\ refreshedAt' = IF proc[p].why = "refresh" THEN day ELSE refreshedAt
       \/ /\ UnknownKeyId(t) /\ Unspent /\ UNCHANGED refreshedAt
          /\ Goto(p, [at |-> "purge"])
       \/ /\ ~Redeemable(t) /\ ~UnknownKeyId(t)
          /\ Unspent /\ Done(p) /\ UNCHANGED refreshedAt
  /\ UNCHANGED stock

\* The request fails or the username is refused, which undoes the
\* redemption; or the answer is lost.  The token has left the stock.
RedeemFails(p) ==
  /\ PayStep(p, "redeem")
  /\ \/ (TokenFault("network") \/ TokenFault("refused")) /\ Unspent
     \/ TokenFault("lost") /\ Redeemable(proc[p].token) /\ RedeemToken(proc[p].token)
  /\ Done(p)
  /\ UNCHANGED <<stock, refreshedAt>>

\* purge_and_replenish: the tokens go, then the keys, in two transactions;
\* the request that follows begins with the keys of the client.
PurgeTokens(p) ==
  /\ PayStep(p, "purge") /\ NoTokenFault
  /\ stock' = <<>>
  /\ Goto(p, [at |-> "purgeKeys"])
  /\ Unspent /\ UNCHANGED refreshedAt

PurgeKeys(p) ==
  /\ FillStep(p, "purgeKeys") /\ NoTokenFault
  /\ knownKeys' = {}
  /\ Goto(p, ToRequest(max_tokens_allowance))
  /\ UNCHANGED <<tokenKeys, allowance, stock, minted>>

-----------------------------------------------------------------------------
(* Paying for an invitation code: get_invitation_codes.  A token that      *)
(* cannot be redeemed is skipped, and an answer without a code leaves the  *)
(* token in the stock.                                                     *)

Without(t) == SelectSeq(stock, LAMBDA u : u # t)

GetCode ==
  /\ PayStep("user", "invite") /\ NoTokenFault
  /\ LET t == proc["user"].token IN
       \/ /\ Redeemable(t) /\ RedeemToken(t)
          /\ Goto("user", [at |-> "code", token |-> t])
       \/ ~Redeemable(t) /\ Unspent /\ Done("user")
  /\ UNCHANGED <<stock, refreshedAt>>

StoreCode ==
  /\ PayStep("user", "code") /\ NoTokenFault
  /\ stock' = Without(proc["user"].token)
  /\ Done("user") /\ Unspent
  /\ UNCHANGED refreshedAt

\* A network error before or after the AS has served the request, the
\* codes of the day are used up, or the AS fails and rolls back.
GetCodeFails ==
  /\ PayStep("user", "invite")
  /\ LET t == proc["user"].token IN
       \/ (TokenFault("network") \/ TokenFault("quota")) /\ Unspent /\ UNCHANGED stock
       \/ TokenFault("lost") /\ Redeemable(t) /\ RedeemToken(t) /\ UNCHANGED stock
       \/ TokenFault("database") /\ Unspent /\ stock' = Without(t)
  /\ Done("user")
  /\ UNCHANGED refreshedAt

\* The app is killed.  A task that was running is still due.
AppCrash ==
  /\ TokenFault("crash") /\ \E p \in Processes : ~At(p, "idle")
  /\ proc' = [p \in Processes |-> Idle] /\ loaded' = FALSE
  /\ UNCHANGED <<day, tokenAsVars, rotation, stockVars, refreshedAt, minted, calls, others,
                 historyVars>>

-----------------------------------------------------------------------------
RotationStep == RotateKeys \/ RemoveKeys \/ PruneNonces

ProcessStep(p) ==
  \/ FetchKeys(p) \/ StoreKeys(p) \/ RequestTokens(p) \/ StoreTokens(p)
  \/ Redeem(p) \/ PurgeTokens(p) \/ PurgeKeys(p)
  \/ p = "user" /\ (GetCode \/ StoreCode)

TokensNext ==
  \/ Tick \/ StartAs \/ RotationStep \/ RotationFails \/ DatabaseCrash
  \/ BeginRefresh \/ BeginReplenish \/ ReplenishOther
  \/ AddUsername \/ RequestCode
  \/ \E p \in Processes : ProcessStep(p) \/ FillingFails(p) \/ RedeemFails(p)
  \/ GetCodeFails \/ AppCrash

(* The AS checks its keys when it starts and every day, and a process that *)
(* has begun goes on.  The task that fills the stock is scheduled anew,    *)
(* whatever becomes of it (execute_timed_tasks).                           *)
TokensFairness ==
  /\ WF_tokensVars(RotationStep)
  /\ \A p \in Processes : WF_tokensVars(ProcessStep(p))
  /\ WF_tokensVars(BeginReplenish)

TokensSpec == TokensInit /\ [][TokensNext]_tokensVars /\ TokensFairness

-----------------------------------------------------------------------------
(* A token pays once: rotate_keys_if_needed removes the old keys before    *)
(* the nonces of the same age, so that a token whose nonce is gone finds   *)
(* no key, also when the rotation fails in between and when the client     *)
(* tries a token again whose answer was lost.  Excepted are the tokens     *)
(* whose nonces a crash of the database has erased.                        *)
SpentOnce == paidTwice \subseteq erased

\* A key of the client whose id the AS has given to another key.
IdComesBack ==
  \E k \in knownKeys, s \in tokenKeys : k.id = s.id /\ k # s

(* The stock of tokens for usernames is filled again after a rotation, a   *)
(* purge, a crash or lost tokens, although a purge itself never fills it,  *)
(* unless an id has come back: the client then takes the new key for the   *)
(* one it has.                                                             *)
StockComesBack == <>[](rotation = "down" \/ ~Low \/ IdComesBack)
=============================================================================
