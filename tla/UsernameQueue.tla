---------------------------- MODULE UsernameQueue ----------------------------
(***************************************************************************)
(* The queue of a username on the authentication service.                  *)
(*                                                                         *)
(* Unlike the QS queue its messages are acknowledged one by one, and what  *)
(* a listener still has to be sent is recorded in the rows: a query takes  *)
(* the rows that another listener, or none, has fetched and marks them as  *)
(* its own.  A query locks the rows it takes, and skips the rows that are  *)
(* locked by another.                                                      *)
(*                                                                         *)
(* Messages are numbered in the order in which they are enqueued, streams  *)
(* in the order in which they are registered.                              *)
(***************************************************************************)
EXTENDS Naturals, FiniteSets

CONSTANTS
    MaxListeners,       \* bound: listen requests
    MaxOffers,          \* bound: messages enqueued
    MaxFetch,           \* MAX_BUFFER_SIZE: messages per query
    QueueErrors         \* bound: failing queries and LISTENs, lost notifications

ASSUME UsernameQueueAssumption ==
    /\ MaxListeners \in Nat /\ MaxOffers \in Nat /\ QueueErrors \in Nat
    /\ MaxFetch \in Nat \ {0}

VARIABLES
    offers,     \* messages enqueued so far
    fetchedBy,  \* stored message -> stream that fetched it last, 0 for none
    listeners,  \* the stream registered last
    replaced,   \* streams whose token is cancelled, by a newer one
    pgListening,\* LISTEN: "due" before the pg listener task has executed it, then "on" or "failed"
    at,         \* stream -> where it is
    locked,     \* stream -> rows its query has taken
    held,       \* stream -> fetched messages, not yet emitted
    woken,      \* streams with a notification to consume
    emitted,    \* stream -> messages it has emitted (history)
    skipped,    \* stream -> messages its last query found locked (history)
    unannounced,\* stream -> messages whose notification did not reach it since
                \* its last query (history)
    queueErrors

usernameQueueVars == <<offers, fetchedBy, listeners, replaced, pgListening, at, locked,
                       held, woken, emitted, skipped, unannounced, queueErrors>>

Listeners == 1..MaxListeners
Offers == 1..MaxOffers
Rows == DOMAIN fetchedBy

UsernameQueueInit ==
    /\ offers = 0
    /\ fetchedBy = <<>>
    /\ listeners = 0
    /\ replaced = {}
    /\ pgListening = "due"
    /\ at = [s \in Listeners |-> "off"]
    /\ locked = [s \in Listeners |-> {}]
    /\ held = [s \in Listeners |-> {}]
    /\ woken = {}
    /\ emitted = [s \in Listeners |-> {}]
    /\ skipped = [s \in Listeners |-> {}]
    /\ unannounced = [s \in Listeners |-> {}]
    /\ queueErrors = 0

(* The stream subscribes to notifications and is registered; the token it  *)
(* replaces is cancelled.  The registry never holds a cancelled token, so  *)
(* LISTEN is sent once, for the first listener, and never undone.          *)
ListenUsername ==
    /\ listeners < MaxListeners
    /\ listeners' = listeners + 1
    /\ replaced' = replaced \cup (1..listeners)
    /\ at' = [at EXCEPT ![listeners + 1] = "fetch"]
    /\ UNCHANGED <<offers, fetchedBy, pgListening, locked, held, woken, emitted,
                   skipped, unannounced, queueErrors>>

QueueError ==
    /\ queueErrors < QueueErrors
    /\ queueErrors' = queueErrors + 1

(* The pg listener task gets round to the command.                         *)
ExecuteListen ==
    /\ listeners > 0 /\ pgListening = "due"
    /\ pgListening' = "on"
    /\ UNCHANGED <<offers, fetchedBy, listeners, replaced, at, locked, held, woken,
                   emitted, skipped, unannounced, queueErrors>>

(* An error of LISTEN is logged; no later listener sends the command again. *)
ListenFails ==
    /\ QueueError
    /\ listeners > 0 /\ pgListening = "due"
    /\ pgListening' = "failed"
    /\ UNCHANGED <<offers, fetchedBy, listeners, replaced, at, locked, held, woken,
                   emitted, skipped, unannounced>>

Subscribed == {s \in Listeners : at[s] \in {"fetch", "query", "fetching", "wait"}}

\* The history after the notifications of the messages M have missed the streams S.
Unheard(S, M) ==
    [s \in Listeners |-> IF s \in S THEN unannounced[s] \cup M ELSE unannounced[s]]

(* The row and its notification are committed together; Postgres gives the *)
(* notification to the task only when LISTEN is in effect.                 *)
EnqueueMessage ==
    /\ offers < MaxOffers
    /\ offers' = offers + 1
    /\ fetchedBy' = [m \in Rows \cup {offers + 1} |-> IF m \in Rows THEN fetchedBy[m] ELSE 0]
    /\ IF pgListening = "on"
       THEN woken' = woken \cup Subscribed /\ UNCHANGED unannounced
       ELSE unannounced' = Unheard(Listeners, {offers + 1}) /\ UNCHANGED woken
    /\ UNCHANGED <<listeners, replaced, pgListening, at, locked, held, emitted, skipped,
                   queueErrors>>

(* Notifications are lost: for all streams when the task's connection      *)
(* breaks, for one that lags behind the broadcast channel.                 *)
LoseNotification ==
    /\ QueueError
    /\ \E S \in SUBSET woken :
          /\ S # {}
          /\ woken' = woken \ S
          /\ unannounced' = Unheard(S, Rows)
    /\ UNCHANGED <<offers, fetchedBy, listeners, replaced, pgListening, at, locked, held,
                   emitted, skipped>>

Locks == UNION {locked[s] : s \in Listeners}

(* An acknowledgement is for one message and may come from any stream the  *)
(* message was sent on; the deletion waits for a lock on the row.          *)
AckMessage(m) ==
    /\ m \in Rows \ Locks
    /\ \E s \in Listeners : m \in emitted[s]
    /\ fetchedBy' = [k \in Rows \ {m} |-> fetchedBy[k]]
    /\ UNCHANGED <<offers, listeners, replaced, pgListening, at, locked, held, woken,
                   emitted, skipped, unannounced, queueErrors>>

(* The stream looks at its token before each turn.                         *)
EndCancelled(s) ==
    /\ s \in replaced
    /\ at[s] \in {"fetch", "wait"}
    /\ at' = [at EXCEPT ![s] = "off"]
    /\ held' = [held EXCEPT ![s] = {}]
    /\ woken' = woken \ {s}
    /\ UNCHANGED <<offers, fetchedBy, listeners, replaced, pgListening, locked, emitted,
                   skipped, unannounced, queueErrors>>

(* A buffered message is sent to the client, in the order in which the     *)
(* query has returned them: UPDATE ... RETURNING promises none.            *)
Emit(s) ==
    /\ at[s] = "fetch"
    /\ s \notin replaced
    /\ \E m \in held[s] :
          /\ emitted' = [emitted EXCEPT ![s] = @ \cup {m}]
          /\ held' = [held EXCEPT ![s] = @ \ {m}]
    /\ UNCHANGED <<offers, fetchedBy, listeners, replaced, pgListening, at, locked,
                   woken, skipped, unannounced, queueErrors>>

(* With an empty buffer the stream goes on to query; the token can be      *)
(* cancelled from here on without the stream noticing.                     *)
BeginFetch(s) ==
    /\ at[s] = "fetch"
    /\ s \notin replaced
    /\ held[s] = {}
    /\ at' = [at EXCEPT ![s] = "query"]
    /\ UNCHANGED <<offers, fetchedBy, listeners, replaced, pgListening, locked, held,
                   woken, emitted, skipped, unannounced, queueErrors>>

\* Mutant of ToFetch: only messages that no stream has fetched.
ToFetchNew(s) == {m \in Rows : fetchedBy[m] = 0}

(* The rows that this stream has not fetched, or not fetched last.         *)
ToFetch(s) == {m \in Rows : fetchedBy[m] # s}

(* ORDER BY created_at and LIMIT: the oldest rows of S.                    *)
Oldest(S) == {m \in S : Cardinality({k \in S : k < m}) < MaxFetch}

(* The query locks the oldest rows to fetch, skipping locked ones.         *)
QueryRows(s) ==
    /\ at[s] = "query"
    /\ locked' = [locked EXCEPT ![s] = Oldest(ToFetch(s) \ Locks)]
    /\ skipped' = [skipped EXCEPT ![s] = ToFetch(s) \cap Locks]
    /\ unannounced' = [unannounced EXCEPT ![s] = {}]
    /\ at' = [at EXCEPT ![s] = "fetching"]
    /\ UNCHANGED <<offers, fetchedBy, listeners, replaced, pgListening, held, woken,
                   emitted, queueErrors>>

(* The query's end: the rows are marked, unlocked and buffered.  A stream  *)
(* that got nothing reports an empty queue and waits.                      *)
FetchRows(s) ==
    /\ at[s] = "fetching"
    /\ fetchedBy' = [m \in Rows |-> IF m \in locked[s] THEN s ELSE fetchedBy[m]]
    /\ held' = [held EXCEPT ![s] = locked[s]]
    /\ locked' = [locked EXCEPT ![s] = {}]
    /\ at' = [at EXCEPT ![s] = IF locked[s] = {} THEN "wait" ELSE "fetch"]
    /\ UNCHANGED <<offers, listeners, replaced, pgListening, woken, emitted, skipped,
                   unannounced, queueErrors>>

(* A query that fails ends the stream, and with it the response.           *)
QueryFails(s) ==
    /\ at[s] = "fetching"
    /\ QueueError
    /\ at' = [at EXCEPT ![s] = "off"]
    /\ locked' = [locked EXCEPT ![s] = {}]
    /\ woken' = woken \ {s}
    /\ UNCHANGED <<offers, fetchedBy, listeners, replaced, pgListening, held, emitted,
                   skipped, unannounced>>

WakeUpListener(s) ==
    /\ at[s] = "wait"
    /\ s \in woken
    /\ woken' = woken \ {s}
    /\ at' = [at EXCEPT ![s] = "fetch"]
    /\ UNCHANGED <<offers, fetchedBy, listeners, replaced, pgListening, locked, held,
                   emitted, skipped, unannounced, queueErrors>>

UsernameQueueNext ==
    \/ ListenUsername \/ ExecuteListen \/ ListenFails \/ EnqueueMessage \/ LoseNotification
    \/ \E m \in Offers : AckMessage(m)
    \/ \E s \in Listeners :
          \/ EndCancelled(s) \/ Emit(s) \/ BeginFetch(s) \/ QueryRows(s)
          \/ FetchRows(s) \/ QueryFails(s) \/ WakeUpListener(s)

UsernameQueueSpec == UsernameQueueInit /\ [][UsernameQueueNext]_usernameQueueVars

-----------------------------------------------------------------------------
Resting(s) == s = listeners /\ at[s] = "wait" /\ s \notin woken

(* When the newest listener waits and no notification is due, it has been  *)
(* sent every message that is not acknowledged, whoever fetched it before  *)
(* (fetched_by != $2 in fetch_into).  The exceptions are the messages that *)
(* its last query skipped because another stream's query had locked them,  *)
(* and the messages that came after that query and whose notification did  *)
(* not reach it: LISTEN was not executed yet or had failed, or the         *)
(* notification was lost.                                                  *)
RestingHasSeenRows ==
    \A s \in Listeners :
        Resting(s) => Rows \subseteq emitted[s] \cup skipped[s] \cup unannounced[s]

(* "All messages that are not acknowledged will be emitted to the new      *)
(* listener" (Queues::listen): once no query is under way and nothing more *)
(* is to happen by itself, the newest listener has been sent every message *)
(* but the ones it was not notified of.                                    *)
EmittedToNewListener ==
    (\A s \in Listeners : locked[s] = {}) =>
    \A s \in Listeners : Resting(s) => Rows \subseteq emitted[s] \cup unannounced[s]
=============================================================================
