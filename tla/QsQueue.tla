------------------------------- MODULE QsQueue -------------------------------
(***************************************************************************)
(* The server side of one QS queue: the rows of qs_queues, the queue       *)
(* ratchet in the client record, the registry of listeners, the task that  *)
(* owns the Postgres LISTEN connection, and the stream every listen        *)
(* request gets (backend/src/qs/queue.rs, qs/client_record.rs,             *)
(* pg_listen.rs).  A message is its sequence number: the ratchet gives     *)
(* every message its number and its key, and nothing else tells messages   *)
(* apart on the server.  Queues are independent of each other except that  *)
(* every listen request cleans up the cancelled listeners of all queues    *)
(* (Prune is that cleanup done by a listen request for another queue).     *)
(***************************************************************************)
EXTENDS Naturals, SequencesExt

CONSTANTS
  Streams,         \* identities of listen streams; reused once a stream is gone
  None,            \* no stream
  MaxBuffer,       \* MAX_BUFFER_SIZE: rows fetched by one query
  MaxSeq,          \* bound: messages ever enqueued
  MaxCommands,     \* bound: commands waiting for the listener task
  Disturbances,    \* which disturbances the environment may cause
  MaxDisturbances  \* bound: how many of them

ASSUME QueueAssumption ==
  /\ None \notin Streams
  /\ MaxBuffer \in Nat \ {0}
  /\ MaxSeq \in Nat
  /\ MaxCommands \in Nat
  /\ MaxDisturbances \in Nat

VARIABLES
  ratchet,     \* sequence number of the ratchet in the client record
  rows,        \* sequence numbers in qs_queues
  listener,    \* the stream in Queues.listeners, or None
  commands,    \* commands sent to the pg listener task, oldest first
  listening,   \* the LISTEN of this queue's channel is in effect
  commandFailed, \* history: the last command the task took has failed
  notified,    \* a Postgres notification is on its way to the task
  fetchState,  \* state of each stream's loop
  next,        \* sequence_number of each stream: the next one to fetch
  buffer,      \* fetched and not yet emitted messages of each stream
  sentinel,    \* the stream has yielded the empty-queue sentinel
  cancelled,   \* the stream's CancellationToken
  noted,       \* a broadcast notification waits in the stream's receiver
  fetched,     \* history: the stream has queried the queue since it started
  armed,       \* history: LISTEN in effect ever since the stream's last query
  disturbed    \* how many disturbances have happened

registryVars == <<listener, commands, listening, commandFailed, notified>>
streamVars == <<fetchState, next, buffer, sentinel, cancelled, noted, fetched, armed>>
storeVars == <<ratchet, rows>>
queueVars == <<storeVars, registryVars, streamVars, disturbed>>

Commands == {"listen", "unlisten"}

\* "query" is the await inside fetch_next_messages; "ended" a message stream
\* that has returned None; "gone" a stream that was dropped with its response.
FetchStates == {"init", "fetch", "query", "wait", "ended", "gone"}

QueueTypeOK ==
  /\ ratchet \in Nat
  /\ rows \in SUBSET Nat
  /\ listener \in Streams \union {None}
  /\ commands \in Seq(Commands)
  /\ listening \in BOOLEAN
  /\ commandFailed \in BOOLEAN
  /\ notified \in BOOLEAN
  /\ fetchState \in [Streams -> FetchStates]
  /\ next \in [Streams -> Nat]
  /\ buffer \in [Streams -> Seq(Nat)]
  /\ sentinel \in [Streams -> BOOLEAN]
  /\ cancelled \in [Streams -> BOOLEAN]
  /\ noted \in [Streams -> BOOLEAN]
  /\ fetched \in [Streams -> BOOLEAN]
  /\ armed \in [Streams -> BOOLEAN]
  /\ disturbed \in Nat

QueueInit ==
  /\ ratchet = 0
  /\ rows = {}
  /\ listener = None
  /\ commands = <<>>
  /\ listening = FALSE
  /\ commandFailed = FALSE
  /\ notified = FALSE
  /\ fetchState = [s \in Streams |-> "gone"]
  /\ next = [s \in Streams |-> 0]
  /\ buffer = [s \in Streams |-> <<>>]
  /\ sentinel = [s \in Streams |-> FALSE]
  /\ cancelled = [s \in Streams |-> TRUE]
  /\ noted = [s \in Streams |-> FALSE]
  /\ fetched = [s \in Streams |-> FALSE]
  /\ armed = [s \in Streams |-> FALSE]
  /\ disturbed = 0

\* A disturbance of kind k: a fault, or an outside event that costs progress.
Disturb(k) ==
  /\ k \in Disturbances
  /\ disturbed < MaxDisturbances
  /\ disturbed' = disturbed + 1

-----------------------------------------------------------------------------
(***************************************************************************)
(* The queue table.                                                        *)
(***************************************************************************)

\* Mutant of Enqueue: NOTIFY only when the queue was empty.
EnqueueNotifyFirst ==
  /\ ratchet < MaxSeq
  /\ rows' = rows \union {ratchet}
  /\ ratchet' = ratchet + 1
  /\ notified' = (notified \/ (listening /\ rows = {}))
  /\ UNCHANGED <<listener, commands, listening, commandFailed, streamVars, disturbed>>

(* do_enqueue, one transaction that holds the client record's row lock:    *)
(* encrypt with the current key, insert the row, NOTIFY, advance the       *)
(* ratchet.  Postgres hands a NOTIFY at commit to the sessions that listen *)
(* at that moment and to nobody else.  Notifications that wait together    *)
(* are merged: each only makes a stream query once more.                   *)
Enqueue ==
  /\ ratchet < MaxSeq
  /\ rows' = rows \union {ratchet}
  /\ ratchet' = ratchet + 1
  /\ notified' = (notified \/ listening)
  /\ UNCHANGED <<listener, commands, listening, commandFailed, streamVars, disturbed>>

\* Mutant of Ack: deletes the last processed message only.
AckOne(upTo) ==
  /\ rows' = rows \ {upTo - 1}
  /\ UNCHANGED <<ratchet, registryVars, streamVars, disturbed>>

\* Queues::ack and Queue::delete, reached through an Ack request.
Ack(upTo) ==
  /\ rows' = {n \in rows : n >= upTo}
  /\ UNCHANGED <<ratchet, registryVars, streamVars, disturbed>>

\* Queues::trigger_fetch, reached through a Fetch request.
TriggerFetch ==
  /\ notified' = (notified \/ listening)
  /\ UNCHANGED <<storeVars, listener, commands, listening, commandFailed, streamVars,
                 disturbed>>

(* Queue::fetch_into: b holds the first MaxBuffer rows from lo on, in      *)
(* ascending order.                                                        *)
IsBatch(b, lo) ==
  /\ \A i, j \in DOMAIN b : i < j => b[i] < b[j]
  /\ \A i \in DOMAIN b : b[i] >= lo
  /\ \A n \in rows : n >= lo =>
       \/ \E i \in DOMAIN b : b[i] = n
       \/ Len(b) = MaxBuffer /\ \A i \in DOMAIN b : b[i] < n

-----------------------------------------------------------------------------
(***************************************************************************)
(* The registry of listeners and the pg listener task.                     *)
(***************************************************************************)

\* Mutant of ListenCommands: Listen before Unlisten.
ListenCommandsSwapped(stale, prev) ==
  (IF prev = None THEN <<"listen">> ELSE <<>>) \o (IF stale THEN <<"unlisten">> ELSE <<>>)

\* What track_listener tells the task: stop for a stale listener, start for a first one.
ListenCommands(stale, prev) ==
  (IF stale THEN <<"unlisten">> ELSE <<>>) \o (IF prev = None THEN <<"listen">> ELSE <<>>)

\* Mutant of CancelReplaced: the replaced listener goes on.
CancelNobody(s, prev) == [q \in Streams |-> q # s /\ cancelled[q]]

\* The tokens after s, with a token of its own, has replaced prev.
CancelReplaced(s, prev) == [q \in Streams |-> q # s /\ (cancelled[q] \/ q = prev)]

(* Queues::listen for a new stream s: subscribe to the broadcast channel,  *)
(* then track_listener: drop the registered listener if it is cancelled    *)
(* (and send Unlisten), register s, and either cancel the listener s       *)
(* replaces or send Listen.                                                *)
Listen(s, from) ==
  LET stale == listener # None /\ cancelled[listener]
      prev  == IF stale THEN None ELSE listener
  IN /\ fetchState[s] = "gone"
     /\ listener # s
     /\ Len(commands) + 2 <= MaxCommands
     /\ commands' = commands \o ListenCommands(stale, prev)
     /\ listener' = s
     /\ cancelled' = CancelReplaced(s, prev)
     /\ fetchState' = [fetchState EXCEPT ![s] = "init"]
     /\ next' = [next EXCEPT ![s] = from]
     /\ buffer' = [buffer EXCEPT ![s] = <<>>]
     /\ sentinel' = [sentinel EXCEPT ![s] = FALSE]
     /\ noted' = [noted EXCEPT ![s] = FALSE]
     /\ fetched' = [fetched EXCEPT ![s] = FALSE]
     /\ armed' = [armed EXCEPT ![s] = FALSE]
     /\ UNCHANGED <<storeVars, listening, commandFailed, notified>>

(* track_listener of another client: its cleanup removes this queue's      *)
(* listener when it is cancelled.                                          *)
Prune ==
  /\ listener # None
  /\ cancelled[listener]
  /\ Len(commands) < MaxCommands
  /\ commands' = Append(commands, "unlisten")
  /\ listener' = None
  /\ UNCHANGED <<storeVars, listening, commandFailed, notified, streamVars, disturbed>>

\* handle_loop_event, a command: LISTEN or UNLISTEN on the connection.
PgCommand ==
  /\ commands # <<>>
  /\ commands' = Tail(commands)
  /\ listening' = (Head(commands) = "listen")
  /\ commandFailed' = FALSE
  /\ armed' = [s \in Streams |-> armed[s] /\ Head(commands) = "listen"]
  /\ UNCHANGED <<storeVars, listener, notified, fetchState, next, buffer, sentinel,
                 cancelled, noted, fetched, disturbed>>

(* The command fails: handle_loop_event returns the error, the task logs   *)
(* it and goes on with the next event.  Nobody repeats the command.        *)
PgCommandFails ==
  /\ Disturb("listen")
  /\ commands # <<>>
  /\ commands' = Tail(commands)
  /\ commandFailed' = TRUE
  /\ UNCHANGED <<storeVars, listener, listening, notified, streamVars>>

\* handle_loop_event, a notification: broadcast it to every subscriber.
PgNotification ==
  /\ notified
  /\ notified' = FALSE
  /\ noted' = [s \in Streams |-> noted[s] \/ fetchState[s] \notin {"ended", "gone"}]
  /\ UNCHANGED <<storeVars, listener, commands, listening, commandFailed, fetchState, next,
                 buffer, sentinel, cancelled, fetched, armed, disturbed>>

(* The task's connection breaks while a notification is on its way, or a   *)
(* receiver lags behind the broadcast channel: the notification is lost    *)
(* and the error only logged.                                              *)
PgLoss ==
  /\ Disturb("pg")
  /\ \/ /\ notified
        /\ notified' = FALSE
        /\ UNCHANGED noted
     \/ \E s \in Streams :
          /\ noted[s]
          /\ noted' = [noted EXCEPT ![s] = FALSE]
          /\ UNCHANGED notified
  /\ armed' = [s \in Streams |-> FALSE]
  /\ UNCHANGED <<storeVars, listener, commands, listening, commandFailed, fetchState, next,
                 buffer, sentinel, cancelled, fetched>>

-----------------------------------------------------------------------------
(***************************************************************************)
(* The stream of one listener: QueueStreamContext::into_stream.  A stream  *)
(* whose buffer or sentinel has not been taken yet is not polled.          *)
(***************************************************************************)

Polled(s) == buffer[s] = <<>> /\ ~sentinel[s]

\* FetchState::Init: the cancel check does not apply, nothing is fetched yet.
Begin(s) ==
  /\ fetchState[s] = "init"
  /\ fetchState' = [fetchState EXCEPT ![s] = "fetch"]
  /\ UNCHANGED <<storeVars, registryVars, next, buffer, sentinel, cancelled, noted,
                 fetched, armed, disturbed>>

(* The cancel check at the top of the loop, and wait_for_notification when *)
(* the token fires: the stream returns None and its context is dropped.    *)
Stop(s) ==
  /\ fetchState[s] \in {"fetch", "wait"}
  /\ Polled(s)
  /\ cancelled[s]
  /\ fetchState' = [fetchState EXCEPT ![s] = "ended"]
  /\ noted' = [noted EXCEPT ![s] = FALSE]
  /\ UNCHANGED <<storeVars, registryVars, next, buffer, sentinel, cancelled, fetched,
                 armed, disturbed>>

\* FetchState::Fetch: the query starts.
StartQuery(s) ==
  /\ fetchState[s] = "fetch"
  /\ Polled(s)
  /\ ~cancelled[s]
  /\ fetchState' = [fetchState EXCEPT ![s] = "query"]
  /\ UNCHANGED <<storeVars, registryVars, next, buffer, sentinel, cancelled, noted,
                 fetched, armed, disturbed>>

(* fetch_next_messages returns: the batch goes to the buffer and next past *)
(* its end; without messages the stream yields the sentinel and waits.     *)
FetchNextMessages(s) ==
  /\ fetchState[s] = "query"
  /\ \E b \in BoundedSeq(rows, MaxBuffer) :
       /\ IsBatch(b, next[s])
       /\ buffer' = [buffer EXCEPT ![s] = b]
       /\ IF b = <<>>
          THEN /\ sentinel' = [sentinel EXCEPT ![s] = TRUE]
               /\ fetchState' = [fetchState EXCEPT ![s] = "wait"]
               /\ UNCHANGED next
          ELSE /\ next' = [next EXCEPT ![s] = Last(b) + 1]
               /\ fetchState' = [fetchState EXCEPT ![s] = "fetch"]
               /\ UNCHANGED sentinel
  /\ fetched' = [fetched EXCEPT ![s] = TRUE]
  /\ armed' = [armed EXCEPT ![s] = listening]
  /\ UNCHANGED <<storeVars, registryVars, cancelled, noted, disturbed>>

(* The query fails: the message stream ends and its context is dropped,    *)
(* but the payload stream selected with it stays open as long as the       *)
(* registry holds its sender.                                              *)
FetchError(s) ==
  /\ Disturb("fetch")
  /\ fetchState[s] = "query"
  /\ fetchState' = [fetchState EXCEPT ![s] = "ended"]
  /\ cancelled' = [cancelled EXCEPT ![s] = TRUE]
  /\ noted' = [noted EXCEPT ![s] = FALSE]
  /\ UNCHANGED <<storeVars, registryVars, next, buffer, sentinel, fetched, armed>>

\* wait_for_notification returns because of a notification.
Wake(s) ==
  /\ fetchState[s] = "wait"
  /\ Polled(s)
  /\ noted[s]
  /\ noted' = [noted EXCEPT ![s] = FALSE]
  /\ fetchState' = [fetchState EXCEPT ![s] = "fetch"]
  /\ UNCHANGED <<storeVars, registryVars, next, buffer, sentinel, cancelled, fetched,
                 armed, disturbed>>

\* The transport takes the next message, or the sentinel, from the stream.
EmitMessage(s) ==
  /\ buffer[s] # <<>>
  /\ buffer' = [buffer EXCEPT ![s] = Tail(@)]
  /\ UNCHANGED <<storeVars, registryVars, fetchState, next, sentinel, cancelled, noted,
                 fetched, armed, disturbed>>

EmitEmpty(s) ==
  /\ sentinel[s]
  /\ sentinel' = [sentinel EXCEPT ![s] = FALSE]
  /\ UNCHANGED <<storeVars, registryVars, fetchState, next, buffer, cancelled, noted,
                 fetched, armed, disturbed>>

(* The response ends for the client: it was dropped, or both selected      *)
(* streams have ended, the payload stream when the registry let go of its  *)
(* sender.                                                                 *)
ResponseEnded(s) ==
  \/ fetchState[s] = "gone"
  \/ fetchState[s] = "ended" /\ listener # s

(* The response is dropped (the client went away, or the connection        *)
(* broke): Drop for QueueStreamContext cancels the token; the registry     *)
(* keeps its entry.                                                        *)
DropStreams(S) ==
  /\ fetchState' = [s \in Streams |-> IF s \in S THEN "gone" ELSE fetchState[s]]
  /\ buffer' = [s \in Streams |-> IF s \in S THEN <<>> ELSE buffer[s]]
  /\ sentinel' = [s \in Streams |-> s \notin S /\ sentinel[s]]
  /\ cancelled' = [s \in Streams |-> s \in S \/ cancelled[s]]
  /\ noted' = [s \in Streams |-> s \notin S /\ noted[s]]
  /\ next' = [s \in Streams |-> IF s \in S THEN 0 ELSE next[s]]
  /\ fetched' = [s \in Streams |-> s \notin S /\ fetched[s]]
  /\ armed' = [s \in Streams |-> s \notin S /\ armed[s]]
  /\ UNCHANGED storeVars

Drop(s) ==
  /\ fetchState[s] # "gone"
  /\ DropStreams({s})
  /\ UNCHANGED <<registryVars, disturbed>>

(* The server restarts: tables survive, streams, registry and the LISTEN   *)
(* connection do not.                                                      *)
Restart ==
  /\ Disturb("restart")
  /\ DropStreams(Streams)
  /\ listener' = None
  /\ commands' = <<>>
  /\ listening' = FALSE
  /\ commandFailed' = FALSE
  /\ notified' = FALSE

\* What the server does by itself.
StreamStep(s) ==
  \/ Begin(s)
  \/ Stop(s)
  \/ StartQuery(s)
  \/ FetchNextMessages(s)
  \/ Wake(s)

PgStep == PgCommand \/ PgNotification

ServerStep ==
  \/ Enqueue
  \/ Prune
  \/ PgStep
  \/ PgLoss
  \/ PgCommandFails
  \/ \E s \in Streams : StreamStep(s) \/ FetchError(s)
  \/ Restart

-----------------------------------------------------------------------------
(***************************************************************************)
(* The queue service by itself, with clients that listen from, fetch and   *)
(* acknowledge any number they may have reached, and leave at any time.    *)
(***************************************************************************)

ClientStep ==
  \/ \E s \in Streams :
       \/ \E from \in 0..ratchet : Listen(s, from) /\ UNCHANGED disturbed
       \/ EmitMessage(s)
       \/ EmitEmpty(s)
       \/ Drop(s)
  \/ \E upTo \in 0..ratchet : Ack(upTo)
  \/ TriggerFetch

QueueNext == ServerStep \/ ClientStep

QueueSpec == QueueInit /\ [][QueueNext]_queueVars

-----------------------------------------------------------------------------
(***************************************************************************)
(* Properties of the service.                                              *)
(***************************************************************************)

\* A stream that may still deliver messages.
Live(s) == fetchState[s] \in {"init", "fetch", "query", "wait"}

(* The rows are the last numbers the ratchet has given out, without a      *)
(* hole: acknowledgements only cut a prefix and enqueueing only extends    *)
(* the end.                                                                *)
QueueWindow ==
  \A n \in rows : n < ratchet /\ \A m \in n..(ratchet - 1) : m \in rows

(* The newest listen request wins: a stream that has not been cancelled is *)
(* the registered listener, so a queue never has two streams that both     *)
(* believe they own it.                                                    *)
NewestListens == \A s \in Streams : ~cancelled[s] => Live(s) /\ listener = s

(* Once the listener task has worked off its commands, the LISTEN of the   *)
(* channel is in effect if and only if a listener is registered, whatever  *)
(* the order of listen requests, disconnects and cleanups was.  A failed   *)
(* LISTEN or UNLISTEN is only logged, so the exception is a queue whose    *)
(* last command has failed; the next command that succeeds ends it,        *)
(* however many have failed before.                                        *)
ListenFollowsRegistry ==
  IF commands = <<>>
  THEN commandFailed \/ (listening <=> listener # None)
  ELSE Last(commands) = "listen" <=> listener # None

(* No lost wakeup while LISTEN is in effect: a waiting listener with       *)
(* unfetched rows has a notification on its way, provided LISTEN has been  *)
(* in effect since the query that found the queue empty.                   *)
Unfetched(s) == \E n \in rows : n >= next[s]

WokenWhileListening ==
  \A s \in Streams :
    fetchState[s] = "wait" /\ armed[s] /\ Unfetched(s) => noted[s] \/ notified

=============================================================================
