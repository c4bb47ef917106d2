----------------------------- MODULE QsDelivery ------------------------------
(***************************************************************************)
(* Delivery of QS messages to one client: the queue service of QsQueue     *)
(* composed with the processes of the client's device that drain it.  "fg" *)
(* is the app (a BackgroundStreamTask feeding the event loop's             *)
(* QsStreamProcessor), "bg" the background handler a push notification     *)
(* starts (fetch_and_process_qs_messages).  Both use the same database and *)
(* the same client id, so the stream of one cancels the stream of the      *)
(* other, and either may find that the other has already processed a       *)
(* message.                                                                *)
(***************************************************************************)
EXTENDS QsQueue

CONSTANT Procs   \* the processes of the device: a subset of {"fg", "bg"}

ASSUME ProcsAssumption == Procs \subseteq {"fg", "bg"}

VARIABLES
  clientRatchet,  \* sequence number of the ratchet in the client's database
  handled,        \* history: messages whose effects were committed, in order
  dropped,        \* history: messages given up on purpose
  mode,           \* what each process does
  start,          \* sequence_number_start of a connecting process, else 0
  conn,           \* the stream a process listens to
  messages,       \* accumulated messages; while processing, those left
  upTo,           \* max_sequence_number + 1 while processing, 0 for none
  responder,      \* the process's responder belongs to its current stream
  acks            \* Ack requests on their way to the server

clientVars == <<clientRatchet, handled, dropped, mode, start, conn, messages, upTo,
                responder, acks>>
dbVars == <<clientRatchet, handled, dropped>>
vars == <<queueVars, clientVars>>

Modes == {"off", "idle", "connecting", "receiving", "processing"}

ClientTypeOK ==
  /\ clientRatchet \in Nat
  /\ handled \in Seq(Nat)
  /\ dropped \in SUBSET Nat
  /\ mode \in [Procs -> Modes]
  /\ start \in [Procs -> Nat]
  /\ conn \in [Procs -> Streams \union {None}]
  /\ messages \in [Procs -> Seq(Nat)]
  /\ upTo \in [Procs -> Nat]
  /\ responder \in [Procs -> BOOLEAN]
  /\ acks \in SUBSET Nat

TypeOK == QueueTypeOK /\ ClientTypeOK

Init ==
  /\ QueueInit
  /\ clientRatchet = 0
  /\ handled = <<>>
  /\ dropped = {}
  /\ mode = [p \in Procs |-> IF p = "fg" THEN "idle" ELSE "off"]
  /\ start = [p \in Procs |-> 0]
  /\ conn = [p \in Procs |-> None]
  /\ messages = [p \in Procs |-> <<>>]
  /\ upTo = [p \in Procs |-> 0]
  /\ responder = [p \in Procs |-> FALSE]
  /\ acks = {}

-----------------------------------------------------------------------------
(***************************************************************************)
(* Connecting.                                                             *)
(***************************************************************************)

\* A push notification starts the background handler.
WakeUp ==
  /\ Disturb("wake")
  /\ "bg" \in Procs
  /\ mode["bg"] = "off"
  /\ mode' = [mode EXCEPT !["bg"] = "idle"]
  /\ UNCHANGED <<storeVars, registryVars, streamVars, dbVars, start, conn, messages, upTo,
                 responder, acks>>

\* Mutant of ReadStart: listens from after the next message.
ReadStartLate(p) ==
  /\ mode[p] = "idle"
  /\ mode' = [mode EXCEPT ![p] = "connecting"]
  /\ start' = [start EXCEPT ![p] = clientRatchet + 1]
  /\ UNCHANGED <<queueVars, dbVars, conn, messages, upTo, responder, acks>>

(* listen_queue: read the start of the listen request from the database,   *)
(* then send the request; the server handles it later.                     *)
ReadStart(p) ==
  /\ mode[p] = "idle"
  /\ mode' = [mode EXCEPT ![p] = "connecting"]
  /\ start' = [start EXCEPT ![p] = clientRatchet]
  /\ UNCHANGED <<queueVars, dbVars, conn, messages, upTo, responder, acks>>

(* The server handles the listen request.  The event loop learns the new   *)
(* responder of the app's stream only later (ReplaceResponder).            *)
Connect(p, s) ==
  /\ mode[p] = "connecting"
  /\ \A q \in Procs : conn[q] # s
  /\ Listen(s, start[p])
  /\ mode' = [mode EXCEPT ![p] = "receiving"]
  /\ conn' = [conn EXCEPT ![p] = s]
  /\ start' = [start EXCEPT ![p] = 0]
  /\ responder' = [responder EXCEPT ![p] = (p = "bg")]
  /\ UNCHANGED <<disturbed, dbVars, messages, upTo, acks>>

\* The event loop handles ReplaceQsListenResponder.
ReplaceResponder ==
  /\ "fg" \in Procs
  /\ conn["fg"] # None
  /\ ~responder["fg"]
  /\ responder' = [responder EXCEPT !["fg"] = TRUE]
  /\ UNCHANGED <<queueVars, dbVars, mode, start, conn, messages, upTo, acks>>

-----------------------------------------------------------------------------
(***************************************************************************)
(* Receiving: QsStreamProcessor::process_event, and the collecting loop of *)
(* the background handler.                                                 *)
(***************************************************************************)

\* A message is accumulated, not yet decrypted.
ReceiveMessage(p) ==
  /\ mode[p] = "receiving"
  /\ EmitMessage(conn[p])
  /\ messages' = [messages EXCEPT ![p] = Append(@, Head(buffer[conn[p]]))]
  /\ UNCHANGED <<dbVars, mode, start, conn, upTo, responder, acks>>

\* A message that cannot be converted is dropped at once.
DropMalformed(p) ==
  /\ Disturb("malformed")
  /\ mode[p] = "receiving"
  /\ buffer[conn[p]] # <<>>
  /\ buffer' = [buffer EXCEPT ![conn[p]] = Tail(@)]
  /\ dropped' = dropped \union {Head(buffer[conn[p]])}
  /\ UNCHANGED <<storeVars, registryVars, fetchState, next, sentinel, cancelled, noted,
                 fetched, armed, clientRatchet, handled, mode, start, conn, messages, upTo,
                 responder, acks>>

\* Mutants of AckNumber: one too far, and two short.
AckNumberTooFar(q) == IF q = <<>> THEN 0 ELSE Last(q) + 2
AckNumberShort(q) == IF q = <<>> THEN 0 ELSE Last(q) - 1

\* The number an Ack request will carry for the accumulated messages.
AckNumber(q) == IF q = <<>> THEN 0 ELSE Last(q) + 1

\* The sentinel arrives: everything accumulated is processed.
ReceiveEmpty(p) ==
  /\ mode[p] = "receiving"
  /\ EmitEmpty(conn[p])
  /\ mode' = [mode EXCEPT ![p] = "processing"]
  /\ upTo' = [upTo EXCEPT ![p] = AckNumber(messages[p])]
  /\ UNCHANGED <<dbVars, start, conn, messages, responder, acks>>

\* Mutant of ReceiveEnd: the app does not reconnect.
ReceiveEndForGood(p) ==
  /\ mode[p] = "receiving"
  /\ ResponseEnded(conn[p])
  /\ mode' = [mode EXCEPT ![p] = "off"]
  /\ UNCHANGED <<queueVars, dbVars, start, conn, messages, upTo, responder, acks>>

(* The stream ends.  The app keeps what it has accumulated and reconnects; *)
(* the background handler processes what it has got.                       *)
ReceiveEnd(p) ==
  /\ mode[p] = "receiving"
  /\ ResponseEnded(conn[p])
  /\ \/ /\ p = "fg"
        /\ mode' = [mode EXCEPT ![p] = "idle"]
        /\ conn' = [conn EXCEPT ![p] = None]
        /\ responder' = [responder EXCEPT ![p] = FALSE]
        /\ UNCHANGED upTo
     \/ /\ p = "bg"
        /\ mode' = [mode EXCEPT ![p] = "processing"]
        /\ upTo' = [upTo EXCEPT ![p] = AckNumber(messages[p])]
        /\ UNCHANGED <<conn, responder>>
  /\ UNCHANGED <<queueVars, dbVars, start, messages, acks>>

-----------------------------------------------------------------------------
(***************************************************************************)
(* Processing: fully_process_qs_messages.  One message is one write        *)
(* transaction on the client's database, which serialises the processes.   *)
(***************************************************************************)

NextMessage(p) == Head(messages[p])

Processing(p) == mode[p] = "processing" /\ messages[p] # <<>>

MessageDone(p) ==
  /\ messages' = [messages EXCEPT ![p] = Tail(@)]
  /\ UNCHANGED <<storeVars, registryVars, streamVars, mode, start, conn, upTo, responder,
                 acks>>

\* Behind the ratchet: a replay, skipped.
SkipReplay(p) ==
  /\ Processing(p)
  /\ NextMessage(p) < clientRatchet
  /\ MessageDone(p)
  /\ UNCHANGED <<dbVars, disturbed>>

\* Mutant of HandleMessage: no check for replays.
HandleAnyMessage(p) ==
  /\ Processing(p)
  /\ clientRatchet' = NextMessage(p) + 1
  /\ handled' = Append(handled, NextMessage(p))
  /\ MessageDone(p)
  /\ UNCHANGED <<dropped, disturbed>>

(* Decrypted (ratcheting forward through a gap if there is one), handled   *)
(* in a savepoint, ratchet and effects committed together.                 *)
HandleMessage(p) ==
  /\ Processing(p)
  /\ NextMessage(p) >= clientRatchet
  /\ clientRatchet' = NextMessage(p) + 1
  /\ handled' = Append(handled, NextMessage(p))
  /\ MessageDone(p)
  /\ UNCHANGED <<dropped, disturbed>>

(* Decrypted, but the payload cannot be extracted, the sender is blocked   *)
(* or the handler fails: the savepoint is rolled back and the ratchet      *)
(* committed.                                                              *)
RefuseMessage(p) ==
  /\ Disturb("refuse")
  /\ Processing(p)
  /\ NextMessage(p) >= clientRatchet
  /\ clientRatchet' = NextMessage(p) + 1
  /\ dropped' = dropped \union {NextMessage(p)}
  /\ MessageDone(p)
  /\ UNCHANGED handled

(* decrypt_qs_queue_message fails (the ciphertext does not decrypt, or the *)
(* ratchet cannot be loaded or stored): the message is dropped and the     *)
(* ratchet stays where it is.                                              *)
FailDecryption(p) ==
  /\ Disturb("decrypt")
  /\ Processing(p)
  /\ NextMessage(p) >= clientRatchet
  /\ dropped' = dropped \union {NextMessage(p)}
  /\ MessageDone(p)
  /\ UNCHANGED <<clientRatchet, handled>>

(* Mutant of FailCommit: the effects are committed apart from the ratchet, *)
(* and the message is tried again.                                         *)
RetryFailedCommit(p) ==
  /\ Disturb("commit")
  /\ Processing(p)
  /\ NextMessage(p) >= clientRatchet
  /\ handled' = Append(handled, NextMessage(p))
  /\ UNCHANGED <<storeVars, registryVars, streamVars, clientRatchet, dropped, mode, start,
                 conn, messages, upTo, responder, acks>>

(* The message is processed, but the commit of the ratchet transaction     *)
(* fails: the error is logged and the loop goes on.                        *)
FailCommit(p) ==
  /\ Disturb("commit")
  /\ Processing(p)
  /\ NextMessage(p) >= clientRatchet
  /\ MessageDone(p)
  /\ UNCHANGED dbVars

\* responder.ack: lost when the responder belongs to an earlier stream.
SendAck(p) ==
  acks' = IF upTo[p] > 0 /\ responder[p] THEN acks \union {upTo[p]} ELSE acks

Leave(p, m) ==
  /\ mode' = [mode EXCEPT ![p] = m]
  /\ start' = [start EXCEPT ![p] = 0]
  /\ conn' = [conn EXCEPT ![p] = None]
  /\ responder' = [responder EXCEPT ![p] = FALSE]

\* Mutant of Finish: acknowledges before the messages are processed.
FinishEarly(p) ==
  /\ mode[p] = "processing"
  /\ SendAck(p)
  /\ upTo' = [upTo EXCEPT ![p] = 0]
  /\ UNCHANGED <<queueVars, dbVars, mode, start, conn, responder, messages>>

\* Every message is processed: acknowledge; the background handler is done.
Finish(p) ==
  /\ mode[p] = "processing"
  /\ messages[p] = <<>>
  /\ SendAck(p)
  /\ upTo' = [upTo EXCEPT ![p] = 0]
  /\ \/ /\ p = "fg"
        /\ mode' = [mode EXCEPT ![p] = "receiving"]
        /\ UNCHANGED <<start, conn, responder>>
     \/ /\ p = "bg"
        /\ Leave(p, "off")
  /\ UNCHANGED <<queueVars, dbVars, messages>>

(* A database error stops the loop (no transaction, or a fatal error in    *)
(* the handler): the remaining messages are forgotten.  The app closes its *)
(* stream without acknowledging; the background handler logs how many were *)
(* dropped and acknowledges all of them.                                   *)
Abort(p) ==
  /\ Disturb("fatal")
  /\ Processing(p)
  /\ messages' = [messages EXCEPT ![p] = <<>>]
  /\ upTo' = [upTo EXCEPT ![p] = 0]
  /\ \/ p = "fg" /\ Leave(p, "idle") /\ UNCHANGED acks
     \/ p = "bg" /\ Leave(p, "off") /\ SendAck(p)
  /\ UNCHANGED <<storeVars, registryVars, streamVars, dbVars>>

-----------------------------------------------------------------------------
(***************************************************************************)
(* What the device and the network do to the processes.                    *)
(***************************************************************************)

(* The app goes to the background: noticed only between two events; the    *)
(* stream is dropped, the accumulated messages stay in memory.             *)
GoToBackground ==
  /\ Disturb("background")
  /\ "fg" \in Procs
  /\ mode["fg"] = "receiving"
  /\ Leave("fg", "idle")
  /\ UNCHANGED <<storeVars, registryVars, streamVars, dbVars, messages, upTo, acks>>

\* The listen request fails: the app tries again later, the handler gives up.
ConnectFails(p) ==
  /\ Disturb("connect")
  /\ mode[p] = "connecting"
  /\ Leave(p, IF p = "fg" THEN "idle" ELSE "off")
  /\ UNCHANGED <<storeVars, registryVars, streamVars, dbVars, messages, upTo, acks>>

\* The process dies: only the database survives.
Crash(p) ==
  /\ Disturb("crash")
  /\ mode[p] # "off"
  /\ Leave(p, IF p = "fg" THEN "idle" ELSE "off")
  /\ messages' = [messages EXCEPT ![p] = <<>>]
  /\ upTo' = [upTo EXCEPT ![p] = 0]
  /\ UNCHANGED <<storeVars, registryVars, streamVars, dbVars, acks>>

\* The connection of a stream breaks.
Break(s) ==
  /\ Disturb("break")
  /\ fetchState[s] # "gone"
  /\ DropStreams({s})
  /\ UNCHANGED <<registryVars, clientVars>>

\* The server drops a stream whose client has left.
NoticeLeft(s) ==
  /\ \A p \in Procs : conn[p] # s
  /\ Drop(s)
  /\ UNCHANGED clientVars

\* process_listen_queue_request handles an Ack request.
AckArrives(n) ==
  /\ n \in acks
  /\ acks' = acks \ {n}
  /\ Ack(n)
  /\ UNCHANGED <<dbVars, mode, start, conn, messages, upTo, responder>>

\* The request stream ends before the Ack request gets through.
AckLost(n) ==
  /\ Disturb("ack")
  /\ n \in acks
  /\ acks' = acks \ {n}
  /\ UNCHANGED <<storeVars, registryVars, streamVars, dbVars, mode, start, conn, messages,
                 upTo, responder>>

-----------------------------------------------------------------------------
ProcStep(p) ==
  \/ ReadStart(p)
  \/ \E s \in Streams : Connect(p, s)
  \/ ReceiveMessage(p)
  \/ ReceiveEmpty(p)
  \/ ReceiveEnd(p)
  \/ SkipReplay(p)
  \/ HandleMessage(p)
  \/ Finish(p)

ProcDisturbed(p) ==
  \/ DropMalformed(p)
  \/ RefuseMessage(p)
  \/ FailDecryption(p)
  \/ FailCommit(p)
  \/ Abort(p)
  \/ ConnectFails(p)
  \/ Crash(p)

Next ==
  \/ ServerStep /\ UNCHANGED clientVars
  \/ \E p \in Procs : ProcStep(p) \/ ProcDisturbed(p)
  \/ ReplaceResponder
  \/ WakeUp
  \/ GoToBackground
  \/ \E s \in Streams : Break(s) \/ NoticeLeft(s)
  \/ \E n \in acks : AckArrives(n) \/ AckLost(n)

(* Every task of the server and of the device is scheduled again and       *)
(* again: tokio runs what is ready.  Nothing is assumed of enqueueing, of  *)
(* disturbances, or of Prune (another client's listen request).            *)
Fairness ==
  /\ \A s \in Streams :
       /\ WF_vars(StreamStep(s) /\ UNCHANGED clientVars)
       /\ WF_vars(NoticeLeft(s))
  /\ WF_vars(PgStep /\ UNCHANGED clientVars)
  /\ \A p \in Procs : WF_vars(ProcStep(p))
  /\ WF_vars(ReplaceResponder)
  /\ \A n \in 1..MaxSeq : WF_vars(AckArrives(n))

Spec == Init /\ [][Next]_vars

FairSpec == Spec /\ Fairness

-----------------------------------------------------------------------------
(***************************************************************************)
(* Properties.                                                             *)
(***************************************************************************)

\* The client is through with message n: handled it, or gave it up.
Settled(n) == n \in dropped \/ \E i \in DOMAIN handled : handled[i] = n

SettledSet == {n \in 0..(ratchet - 1) : Settled(n)}

(* The two processes, the service and the network implement the reliable   *)
(* queue: what the device has settled grows by the next message in order,  *)
(* exactly once per message.                                               *)
RQ == INSTANCE ReliableQueue WITH
        sent <- ratchet, settled <- SettledSet, received <- handled

ReliableDelivery == RQ!RQSpec

(* The effects of the messages are committed in the order of the queue and *)
(* never twice, whatever the two processes, reconnects, replays, crashes   *)
(* and failed transactions do.                                             *)
HandledInOrder ==
  /\ \A i, j \in DOMAIN handled : i < j => handled[i] < handled[j]
  /\ \A i \in DOMAIN handled : handled[i] < clientRatchet

(* No message is lost: each one ever enqueued is still in the queue or     *)
(* settled.                                                                *)
NoMessageLost == \A n \in 0..(ratchet - 1) : n \in rows \/ Settled(n)

(* The contract of decrypt_qs_queue_message: a message that is not a       *)
(* replay meets the ratchet without a gap, so no message becomes           *)
(* undecryptable by ratcheting past it.                                    *)
NoGap ==
  \A p \in Procs : Processing(p) =>
    \A n \in clientRatchet..(NextMessage(p) - 1) : Settled(n)

(* What messages.rs and process_qs.rs say of an acknowledgement: it is     *)
(* sent "*after* they were fully processed".                               *)
AckedIsSettled == \A a \in acks : \A n \in 0..(a - 1) : Settled(n)

-----------------------------------------------------------------------------
(***************************************************************************)
(* Why no message is lost.  The pipeline from the queue to the database of *)
(* a process p is its accumulated messages followed by the buffer of its   *)
(* stream.  It never has a hole: whatever precedes a message in the        *)
(* pipeline and is not settled comes before it in the pipeline.            *)
(***************************************************************************)

In(n, q) == \E j \in DOMAIN q : q[j] = n

\* Everything below k is settled or still among the messages of p.
Below(p, k) == \A n \in 0..(k - 1) : Settled(n) \/ In(n, messages[p])

AccumulatedWithoutHole(p) ==
  \A i \in DOMAIN messages[p] : \A n \in 0..(messages[p][i] - 1) :
    Settled(n) \/ \E j \in 1..(i - 1) : messages[p][j] = n

BufferedWithoutHole(p, s) ==
  \A i \in DOMAIN buffer[s] : \A n \in 0..(buffer[s][i] - 1) :
    \/ Settled(n) \/ In(n, messages[p])
    \/ \E j \in 1..(i - 1) : buffer[s][j] = n

FetchedWithoutHole(p, s) ==
  \A n \in 0..(next[s] - 1) : Settled(n) \/ In(n, messages[p]) \/ In(n, buffer[s])

Attached ==
  /\ \A p \in Procs : mode[p] \in {"receiving", "processing"} => conn[p] # None
  /\ \A p, q \in Procs : conn[p] # None /\ conn[p] = conn[q] => p = q
  /\ \A s \in Streams : fetchState[s] \in {"init", "query"} => buffer[s] = <<>>

PipelineOf(p) ==
  /\ AccumulatedWithoutHole(p)
  /\ conn[p] # None =>
       BufferedWithoutHole(p, conn[p]) /\ FetchedWithoutHole(p, conn[p])
  /\ Below(p, upTo[p])
  /\ \A n \in 0..(start[p] - 1) : Settled(n)

Pipeline == \A p \in Procs : PipelineOf(p)

RatchetIsSettled == \A n \in 0..(clientRatchet - 1) : Settled(n)

RowsAreSent == \A n \in rows : n < ratchet

(* The inductive invariant of delivery: the queue and the client together  *)
(* still have every message, acknowledged messages are settled, and the    *)
(* pipelines have no holes.                                                *)
DeliveryInv ==
  /\ Attached
  /\ Pipeline
  /\ RatchetIsSettled
  /\ AckedIsSettled
  /\ RowsAreSent
  /\ NoMessageLost

(* The configurations in which the code keeps that promise: commits of the *)
(* client's ratchet transaction do not fail, and the background handler    *)
(* meets no fatal database error.                                          *)
NoSilentFailure ==
  "commit" \notin Disturbances /\ ("fatal" \in Disturbances => "bg" \notin Procs)

-----------------------------------------------------------------------------
(* A listener waits although the queue has messages for it and nothing is  *)
(* on its way to wake it.                                                  *)
Stalled ==
  \E s \in Streams :
    /\ fetchState[s] = "wait" /\ ~cancelled[s] /\ Unfetched(s)
    /\ ~noted[s] /\ ~notified

(* The commit for message n has failed and the acknowledgement was lost:   *)
(* the listener is past n, nobody has it at hand, and it stays in the      *)
(* queue until the next listen request.                                    *)
LeftBehind(n) ==
  /\ "commit" \in Disturbances
  /\ \A p \in Procs : n \notin ToSet(messages[p])
  /\ \E s \in Streams :
       /\ fetchState[s] = "wait" /\ ~cancelled[s]
       /\ next[s] > n /\ n \notin ToSet(buffer[s])

(* Every message is eventually settled, once disturbances stop, unless a   *)
(* listener is stalled by a lost wakeup, or a commit of the ratchet        *)
(* transaction has failed and no listen request follows.  A message that   *)
(* was acknowledged is out of reach: that it was settled is NoMessageLost, *)
(* which only a failed commit or an aborted batch of the background        *)
(* handler can break.                                                      *)
EventuallySettled ==
  \A n \in 0..(MaxSeq - 1) :
    (n < ratchet) ~> (Settled(n) \/ n \notin rows \/ Stalled \/ []LeftBehind(n))
=============================================================================
