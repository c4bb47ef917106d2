--------------------------- MODULE QsQueue_proofs ---------------------------
(***************************************************************************)
(* Proofs about the queue service, for any number of streams, messages,    *)
(* commands and disturbances and any batch size, with clients that listen, *)
(* fetch, acknowledge and leave as they like.                              *)
(***************************************************************************)
EXTENDS QsQueue, SequenceTheorems, TLAPS

-----------------------------------------------------------------------------
(***************************************************************************)
(* Type correctness.                                                       *)
(***************************************************************************)

(* A batch returned by fetch_into is a sequence of row numbers.            *)
LEMMA BatchType ==
  ASSUME rows \in SUBSET Nat, NEW b \in BoundedSeq(rows, MaxBuffer)
  PROVE  b \in Seq(Nat) /\ \A i \in DOMAIN b : b[i] \in rows
<1>1. PICK m \in 0..MaxBuffer : b \in [1..m -> rows]
  BY DEF BoundedSeq, SeqOf
<1>2. m \in Nat
  BY QueueAssumption
<1>3. \A i \in 1..m : b[i] \in rows
  BY <1>1
<1>4. b \in [1..m -> Nat]
  BY <1>1
<1>5. DOMAIN b = 1..m
  BY <1>1
<1> QED
  BY <1>2, <1>3, <1>4, <1>5

(* Dropping streams keeps the stream variables in their types.             *)
LEMMA DropType ==
  ASSUME QueueTypeOK, NEW S, DropStreams(S)
  PROVE  /\ storeVars' = storeVars
         /\ fetchState' \in [Streams -> FetchStates]
         /\ next' \in [Streams -> Nat]
         /\ buffer' \in [Streams -> Seq(Nat)]
         /\ sentinel' \in [Streams -> BOOLEAN]
         /\ cancelled' \in [Streams -> BOOLEAN]
         /\ noted' \in [Streams -> BOOLEAN]
         /\ fetched' \in [Streams -> BOOLEAN]
         /\ armed' \in [Streams -> BOOLEAN]
<1>1. /\ sentinel' \in [Streams -> BOOLEAN]
      /\ cancelled' \in [Streams -> BOOLEAN]
      /\ noted' \in [Streams -> BOOLEAN]
      /\ fetched' \in [Streams -> BOOLEAN]
      /\ armed' \in [Streams -> BOOLEAN]
  BY Zenon DEF DropStreams
<1>2. /\ fetchState' \in [Streams -> FetchStates]
      /\ next' \in [Streams -> Nat]
      /\ buffer' \in [Streams -> Seq(Nat)]
  BY DEF DropStreams, QueueTypeOK, FetchStates
<1> QED
  BY <1>1, <1>2 DEF DropStreams

(* The steps of the server preserve the types of its variables.            *)
LEMMA ServerType ==
  QueueTypeOK /\ ServerStep => QueueTypeOK'
<1> SUFFICES ASSUME QueueTypeOK, ServerStep
             PROVE  QueueTypeOK'
  OBVIOUS
<1> USE DEF QueueTypeOK, Commands, FetchStates, queueVars, storeVars, registryVars,
            streamVars
<1>1. CASE Enqueue
  BY <1>1 DEF Enqueue
<1>2. CASE Prune
  BY <1>2 DEF Prune
<1>3. CASE PgCommand
  <2>1. armed' \in [Streams -> BOOLEAN] /\ listening' \in BOOLEAN
    BY <1>3, Zenon DEF PgCommand
  <2>2. commandFailed' \in BOOLEAN
    BY <1>3 DEF PgCommand
  <2> QED
    BY <1>3, <2>1, <2>2 DEF PgCommand
<1>4. CASE PgNotification
  <2>1. noted' \in [Streams -> BOOLEAN]
    BY <1>4, Zenon DEF PgNotification
  <2> QED
    BY <1>4, <2>1 DEF PgNotification
<1>5. CASE PgLoss
  <2>1. armed' \in [Streams -> BOOLEAN]
    BY <1>5, Zenon DEF PgLoss
  <2>2. noted' \in [Streams -> BOOLEAN] /\ notified' \in BOOLEAN
    BY <1>5 DEF PgLoss
  <2> QED
    BY <1>5, <2>1, <2>2 DEF PgLoss, Disturb
<1>6. ASSUME NEW s \in Streams, Begin(s) \/ Stop(s) \/ StartQuery(s) \/ Wake(s)
      PROVE  QueueTypeOK'
  BY <1>6 DEF Begin, Stop, StartQuery, Wake
<1>7. ASSUME NEW s \in Streams, FetchNextMessages(s)
      PROVE  QueueTypeOK'
  <2>1. PICK b \in BoundedSeq(rows, MaxBuffer) :
          /\ IsBatch(b, next[s])
          /\ buffer' = [buffer EXCEPT ![s] = b]
          /\ IF b = <<>>
             THEN /\ sentinel' = [sentinel EXCEPT ![s] = TRUE]
                  /\ fetchState' = [fetchState EXCEPT ![s] = "wait"]
                  /\ UNCHANGED next
             ELSE /\ next' = [next EXCEPT ![s] = Last(b) + 1]
                  /\ fetchState' = [fetchState EXCEPT ![s] = "fetch"]
                  /\ UNCHANGED sentinel
    BY <1>7 DEF FetchNextMessages
  <2>2. b \in Seq(Nat)
    BY BatchType
  <2>3. b # <<>> => Last(b) \in Nat
    BY <2>2 DEF Last
  <2>4. sentinel' \in [Streams -> BOOLEAN]
    BY <2>1
  <2>5. next' \in [Streams -> Nat] /\ buffer' \in [Streams -> Seq(Nat)]
    <3>1. buffer' \in [Streams -> Seq(Nat)]
      BY <2>1, <2>2
    <3>2. CASE b = <<>>
      BY <2>1, <3>1, <3>2
    <3>3. CASE b # <<>>
      <4>1. Last(b) + 1 \in Nat
        BY <2>3, <3>3
      <4>2. next' = [next EXCEPT ![s] = Last(b) + 1]
        BY <2>1, <3>3
      <4> QED
        BY <3>1, <4>1, <4>2
    <3> QED
      BY <3>2, <3>3
  <2>6. fetchState' \in [Streams -> FetchStates]
    BY <2>1
  <2>7. fetched' \in [Streams -> BOOLEAN] /\ armed' \in [Streams -> BOOLEAN]
    BY <1>7 DEF FetchNextMessages
  <2> QED
    BY <1>7, <2>4, <2>5, <2>6, <2>7 DEF FetchNextMessages
<1>8. ASSUME NEW s \in Streams, FetchError(s)
      PROVE  QueueTypeOK'
  BY <1>8 DEF FetchError, Disturb
<1>9. CASE Restart
  <2>1. DropStreams(Streams)
    BY <1>9 DEF Restart
  <2>2. commands' \in Seq(Commands) /\ listener' = None /\ disturbed' \in Nat
    BY <1>9 DEF Restart, Disturb
  <2>3. listening' \in BOOLEAN /\ commandFailed' \in BOOLEAN /\ notified' \in BOOLEAN
    BY <1>9 DEF Restart
  <2> QED
    BY <2>1, <2>2, <2>3, DropType
<1>10. CASE PgCommandFails
  BY <1>10 DEF PgCommandFails, Disturb
<1> QED
  BY <1>1, <1>2, <1>3, <1>4, <1>5, <1>6, <1>7, <1>8, <1>9, <1>10
     DEF ServerStep, PgStep, StreamStep

(* A listen request and the transport's steps keep the server's types.     *)
LEMMA ListenType ==
  ASSUME QueueTypeOK, NEW s \in Streams, NEW from \in Nat, Listen(s, from),
         UNCHANGED disturbed
  PROVE  QueueTypeOK'
<1> USE DEF QueueTypeOK, Commands, FetchStates, storeVars
<1>1. commands' \in Seq(Commands)
  <2>1. <<>> \in Seq(Commands) /\ <<"unlisten">> \in Seq(Commands) /\ <<"listen">> \in Seq(Commands)
    OBVIOUS
  <2>2. ASSUME NEW a \in Seq(Commands), NEW b \in Seq(Commands)
        PROVE  a \o b \in Seq(Commands)
    OBVIOUS
  <2> DEFINE stale == listener # None /\ cancelled[listener]
             prev == IF stale THEN None ELSE listener
             a == IF stale THEN <<"unlisten">> ELSE <<>>
             b == IF prev = None THEN <<"listen">> ELSE <<>>
  <2>3. commands' = commands \o (a \o b)
    BY DEF Listen, ListenCommands
  <2>4. a \in Seq(Commands) /\ b \in Seq(Commands)
    <3>1. a = <<>> \/ a = <<"unlisten">>
      BY Zenon
    <3>2. b = <<>> \/ b = <<"listen">>
      BY Zenon
    <3> QED
      BY <2>1, <3>1, <3>2, Zenon
  <2> HIDE DEF a, b
  <2>5. a \o b \in Seq(Commands)
    BY <2>2, <2>4
  <2> QED
    BY <2>2, <2>3, <2>5
<1>2. cancelled' \in [Streams -> BOOLEAN]
  BY Zenon DEF Listen, CancelReplaced
<1>3. /\ sentinel' \in [Streams -> BOOLEAN]
      /\ noted' \in [Streams -> BOOLEAN]
      /\ fetched' \in [Streams -> BOOLEAN]
      /\ armed' \in [Streams -> BOOLEAN]
      /\ listening' \in BOOLEAN
      /\ commandFailed' \in BOOLEAN
      /\ notified' \in BOOLEAN
  BY DEF Listen
<1>4. /\ fetchState' \in [Streams -> FetchStates]
      /\ next' \in [Streams -> Nat]
      /\ buffer' \in [Streams -> Seq(Nat)]
  BY DEF Listen
<1> QED
  BY <1>1, <1>2, <1>3, <1>4 DEF Listen

\* Emitting keeps the types.
LEMMA TransportType ==
  ASSUME QueueTypeOK, NEW s \in Streams,
         EmitMessage(s) \/ EmitEmpty(s)
  PROVE  QueueTypeOK'
<1>1. CASE EmitMessage(s)
  <2>1. Tail(buffer[s]) \in Seq(Nat)
    BY <1>1 DEF EmitMessage, QueueTypeOK
  <2> QED
    BY <1>1, <2>1 DEF EmitMessage, QueueTypeOK, storeVars, registryVars
<1>2. CASE EmitEmpty(s)
  BY <1>2 DEF EmitEmpty, QueueTypeOK, storeVars, registryVars
<1> QED
  BY <1>1, <1>2

\* So does the end of a stream.
LEMMA DropStreamType ==
  ASSUME QueueTypeOK, NEW s \in Streams, DropStreams({s}), UNCHANGED registryVars,
         disturbed' \in Nat
  PROVE  QueueTypeOK'
  BY DropType DEF QueueTypeOK, storeVars, registryVars

(* A step that leaves the service alone but for counting a disturbance.    *)
LEMMA QueueSame ==
  ASSUME QueueTypeOK, UNCHANGED <<storeVars, registryVars, streamVars>>,
         disturbed' \in Nat
  PROVE  QueueTypeOK'
  BY DEF QueueTypeOK, storeVars, registryVars, streamVars

\* The types hold at the start.
LEMMA QueueInitType == QueueInit => QueueTypeOK
<1> SUFFICES ASSUME QueueInit PROVE QueueTypeOK
  OBVIOUS
<1>1. /\ sentinel \in [Streams -> BOOLEAN]
      /\ cancelled \in [Streams -> BOOLEAN]
      /\ noted \in [Streams -> BOOLEAN]
      /\ fetched \in [Streams -> BOOLEAN]
      /\ armed \in [Streams -> BOOLEAN]
  BY Zenon DEF QueueInit
<1>2. /\ ratchet \in Nat /\ rows \in SUBSET Nat /\ disturbed \in Nat
      /\ listener \in Streams \union {None} /\ commands \in Seq(Commands)
  BY DEF QueueInit
<1>3. listening \in BOOLEAN /\ commandFailed \in BOOLEAN /\ notified \in BOOLEAN
  BY DEF QueueInit
<1>4. /\ fetchState \in [Streams -> FetchStates]
      /\ next \in [Streams -> Nat]
      /\ buffer \in [Streams -> Seq(Nat)]
  BY DEF QueueInit, FetchStates
<1> QED
  BY <1>1, <1>2, <1>3, <1>4 DEF QueueTypeOK

\* Every step keeps the types.
LEMMA QueueNextType ==
  QueueTypeOK /\ [QueueNext]_queueVars => QueueTypeOK'
<1> SUFFICES ASSUME QueueTypeOK, [QueueNext]_queueVars
             PROVE  QueueTypeOK'
  OBVIOUS
<1>1. CASE ServerStep
  BY <1>1, ServerType
<1>2. ASSUME NEW s \in Streams, NEW from \in 0..ratchet,
             Listen(s, from), UNCHANGED disturbed
      PROVE  QueueTypeOK'
  <2>1. from \in Nat
    BY DEF QueueTypeOK
  <2> QED
    BY <1>2, <2>1, ListenType
<1>3. ASSUME NEW s \in Streams, EmitMessage(s) \/ EmitEmpty(s)
      PROVE  QueueTypeOK'
  BY <1>3, TransportType
<1>4. ASSUME NEW s \in Streams, Drop(s)
      PROVE  QueueTypeOK'
  BY <1>4, DropStreamType DEF Drop, QueueTypeOK
<1>5. ASSUME NEW upTo \in 0..ratchet, Ack(upTo)
      PROVE  QueueTypeOK'
  BY <1>5 DEF Ack, QueueTypeOK, registryVars, streamVars
<1>6. CASE TriggerFetch
  BY <1>6 DEF TriggerFetch, QueueTypeOK, storeVars, streamVars
<1>7. CASE UNCHANGED queueVars
  BY <1>7 DEF queueVars, QueueTypeOK, storeVars, registryVars, streamVars
<1> QED
  BY <1>1, <1>2, <1>3, <1>4, <1>5, <1>6, <1>7 DEF QueueNext, ClientStep

(* Type correctness of the service: every handler of queue.rs and of the   *)
(* listener task leaves the tables, the registry and the streams in their  *)
(* types.                                                                  *)
THEOREM QueueTypeCorrect == QueueSpec => []QueueTypeOK
  BY QueueInitType, QueueNextType, PTL DEF QueueSpec

-----------------------------------------------------------------------------
(***************************************************************************)
(* The invariants.  They do not depend on what a client is allowed to ask  *)
(* for: it may listen from and acknowledge any number.                     *)
(***************************************************************************)

\* A step of the service, or of a client with arbitrary arguments.
AnyQueueStep ==
  \/ ServerStep
  \/ \E s \in Streams :
       \/ \E from \in Nat : Listen(s, from)
       \/ DropStreams({s}) /\ UNCHANGED registryVars
  \/ \E n \in Nat : Ack(n)
  \/ TriggerFetch
  \/ UNCHANGED <<storeVars, registryVars, fetchState, next, cancelled, noted, armed>>

\* A step of the specification is one that any client of the queue may see.
LEMMA QueueNextIsAny ==
  QueueTypeOK /\ [QueueNext]_queueVars => AnyQueueStep
<1> SUFFICES ASSUME QueueTypeOK, [QueueNext]_queueVars
             PROVE  AnyQueueStep
  OBVIOUS
<1>1. \A n \in 0..ratchet : n \in Nat
  BY DEF QueueTypeOK
<1>2. CASE ServerStep \/ TriggerFetch
  BY <1>2 DEF AnyQueueStep
<1>3. ASSUME NEW s \in Streams, NEW from \in 0..ratchet, Listen(s, from)
      PROVE  AnyQueueStep
  BY <1>1, <1>3 DEF AnyQueueStep
<1>4. ASSUME NEW s \in Streams, EmitMessage(s) \/ EmitEmpty(s)
      PROVE  AnyQueueStep
  BY <1>4 DEF AnyQueueStep, EmitMessage, EmitEmpty
<1>5. ASSUME NEW s \in Streams, Drop(s)
      PROVE  AnyQueueStep
  BY <1>5 DEF AnyQueueStep, Drop
<1>6. ASSUME NEW upTo \in 0..ratchet, Ack(upTo)
      PROVE  AnyQueueStep
  BY <1>1, <1>6 DEF AnyQueueStep
<1>7. CASE UNCHANGED queueVars
  BY <1>7 DEF queueVars, AnyQueueStep, storeVars, registryVars, streamVars
<1> QED
  BY <1>2, <1>3, <1>4, <1>5, <1>6, <1>7 DEF QueueNext, ClientStep

\* Enqueueing adds the next row, and acknowledging takes a beginning away.
LEMMA WindowKept ==
  ASSUME QueueTypeOK, QueueWindow, AnyQueueStep
  PROVE  QueueWindow'
<1>1. CASE UNCHANGED storeVars
  BY <1>1 DEF storeVars, QueueWindow
<1>2. CASE Enqueue
  BY <1>2 DEF Enqueue, QueueWindow, QueueTypeOK
<1>3. ASSUME NEW n \in Nat, Ack(n)
      PROVE  QueueWindow'
  BY <1>3 DEF Ack, QueueWindow, QueueTypeOK
<1>4. ServerStep => Enqueue \/ UNCHANGED storeVars
  BY DEF ServerStep, Prune, PgStep, PgCommand, PgNotification, PgLoss,
         PgCommandFails, StreamStep, Begin, Stop, StartQuery, FetchNextMessages, Wake,
         FetchError, Restart, DropStreams
<1> QED
  BY <1>1, <1>2, <1>3, <1>4
     DEF AnyQueueStep, Listen, DropStreams, TriggerFetch

(* What the steps do to the registry and to the tokens: only a listen      *)
(* request changes who listens and gives a stream a live token.            *)
LEMMA RegistrySteps ==
  ASSUME QueueTypeOK, AnyQueueStep
  PROVE  \/ \E s \in Streams, from \in Nat : Listen(s, from)
         \/ Prune
         \/ Restart
         \/ /\ UNCHANGED listener
            /\ \A s \in Streams : ~cancelled'[s] => ~cancelled[s]
            /\ \A s \in Streams : ~cancelled'[s] /\ Live(s) => Live(s)'
<1> DEFINE Goal == /\ UNCHANGED listener
                   /\ \A s \in Streams : ~cancelled'[s] => ~cancelled[s]
                   /\ \A s \in Streams : ~cancelled'[s] /\ Live(s) => Live(s)'
<1>1. UNCHANGED <<listener, cancelled, fetchState>> => Goal
  BY DEF Live
<1>2. ASSUME NEW s \in Streams, Begin(s) \/ StartQuery(s) \/ Wake(s) \/ FetchNextMessages(s)
      PROVE  Goal
  <2>1. UNCHANGED <<listener, cancelled>>
    BY <1>2 DEF Begin, StartQuery, Wake, FetchNextMessages, registryVars
  <2>2. \E f \in {"fetch", "query", "wait"} : fetchState' = [fetchState EXCEPT ![s] = f]
    BY <1>2 DEF Begin, StartQuery, Wake, FetchNextMessages
  <2> QED
    BY <2>1, <2>2 DEF Live, QueueTypeOK
<1>3. ASSUME NEW s \in Streams, Stop(s)
      PROVE  Goal
  BY <1>3 DEF Stop, registryVars, Live, QueueTypeOK
<1>4. ASSUME NEW s \in Streams, FetchError(s)
      PROVE  Goal
  BY <1>4 DEF FetchError, registryVars, Live, QueueTypeOK
<1>5. ASSUME NEW s \in Streams, DropStreams({s}), UNCHANGED registryVars
      PROVE  Goal
  BY <1>5 DEF DropStreams, registryVars, Live, QueueTypeOK
<1>6. CASE Enqueue \/ PgCommand \/ PgNotification \/ PgLoss \/ PgCommandFails \/ TriggerFetch
  BY <1>1, <1>6 DEF Enqueue, PgCommand, PgNotification, PgLoss, PgCommandFails,
                    TriggerFetch, streamVars
<1>7. ASSUME NEW n \in Nat, Ack(n)
      PROVE  Goal
  BY <1>1, <1>7 DEF Ack, registryVars, streamVars
<1>8. CASE UNCHANGED <<storeVars, registryVars, fetchState, next, cancelled, noted, armed>>
  BY <1>1, <1>8 DEF registryVars
<1> QED
  BY <1>2, <1>3, <1>4, <1>5, <1>6, <1>7, <1>8 DEF AnyQueueStep, ServerStep, PgStep, StreamStep

\* A new stream cancels the one before.
LEMMA NewestKept ==
  ASSUME QueueTypeOK, NewestListens, AnyQueueStep
  PROVE  NewestListens'
<1>1. ASSUME NEW s \in Streams, NEW from \in Nat, Listen(s, from)
      PROVE  NewestListens'
  <2> SUFFICES ASSUME NEW q \in Streams, ~cancelled'[q]
               PROVE  Live(q)' /\ listener' = q
    BY DEF NewestListens
  <2>1. q = s
    BY <1>1 DEF Listen, CancelReplaced, NewestListens
  <2> QED
    BY <1>1, <2>1 DEF Listen, Live, QueueTypeOK
<1>2. CASE Prune
  BY <1>2 DEF Prune, NewestListens, streamVars, QueueTypeOK
<1>3. CASE Restart
  BY <1>3 DEF Restart, DropStreams, NewestListens
<1> QED
  BY <1>1, <1>2, <1>3, RegistrySteps DEF NewestListens

(* The last command decides.                                               *)
LEMMA LastCommand ==
  ASSUME NEW q \in Seq(Commands), NEW c \in Commands
  PROVE  /\ Append(q, c) # <<>> /\ Last(Append(q, c)) = c
         /\ q # <<>> => /\ Tail(q) = <<>> => Last(q) = Head(q)
                        /\ Tail(q) # <<>> => Last(Tail(q)) = Last(q)
<1>1. Append(q, c) # <<>> /\ Last(Append(q, c)) = c
  BY DEF Last
<1>2. ASSUME q # <<>>, Tail(q) = <<>>
      PROVE  Last(q) = Head(q)
  <2> DEFINE k == Len(Tail(q))
  <2>1. k = Len(q) - 1 /\ Len(q) \in Nat
    BY <1>2, HeadTailProperties
  <2>2. k = 0
    BY <1>2, EmptySeq, Zenon
  <2> HIDE DEF k
  <2>3. Len(q) = 1
    BY <2>1, <2>2
  <2>4. Head(q) = q[1]
    BY <2>3
  <2> QED
    BY <2>3, <2>4 DEF Last
<1>3. ASSUME q # <<>>, Tail(q) # <<>>
      PROVE  Last(Tail(q)) = Last(q)
  <2>1. Len(Tail(q)) = Len(q) - 1 /\ Len(q) > 1
    BY <1>3
  <2>2. Tail(q)[Len(q) - 1] = q[Len(q)]
    BY <2>1
  <2> QED
    BY <2>1, <2>2 DEF Last
<1> QED
  BY <1>1, <1>2, <1>3

(* What track_listener appends to the commands.                            *)
LEMMA CommandsOfListen ==
  ASSUME QueueTypeOK, NEW s \in Streams, NEW from \in Nat, Listen(s, from)
  PROVE  \/ /\ listener # None
            /\ commands' = commands
         \/ \E q \in Seq(Commands) : commands' = Append(q, "listen")
<1> DEFINE stale == listener # None /\ cancelled[listener]
           prev == IF stale THEN None ELSE listener
<1>1. commands' = commands \o ListenCommands(stale, prev)
  BY DEF Listen
<1>2. commands \in Seq(Commands) /\ "unlisten" \in Commands
  BY DEF QueueTypeOK, Commands
<1>3. CASE stale
  <2>1. ListenCommands(stale, prev) = <<"unlisten">> \o <<"listen">>
    BY <1>3, Zenon DEF ListenCommands
  <2>2. commands \o (<<"unlisten">> \o <<"listen">>) = Append(Append(commands, "unlisten"), "listen")
    BY <1>2
  <2>3. Append(commands, "unlisten") \in Seq(Commands)
    BY <1>2
  <2> QED
    BY <1>1, <2>1, <2>2, <2>3
<1>4. CASE ~stale /\ listener = None
  <2>1. ListenCommands(stale, prev) = <<>> \o <<"listen">>
    BY <1>4, Zenon DEF ListenCommands
  <2>2. commands \o (<<>> \o <<"listen">>) = Append(commands, "listen")
    BY <1>2
  <2> QED
    BY <1>1, <1>2, <2>1, <2>2
<1>5. CASE ~stale /\ listener # None
  <2>1. ListenCommands(stale, prev) = <<>> \o <<>>
    BY <1>5, Zenon DEF ListenCommands
  <2>2. commands \o (<<>> \o <<>>) = commands
    BY <1>2
  <2> QED
    BY <1>1, <1>5, <2>1, <2>2
<1> QED
  BY <1>3, <1>4, <1>5

\* Commands to the listener are sent with every change of the registry.
LEMMA ListenKept ==
  ASSUME QueueTypeOK, ListenFollowsRegistry, AnyQueueStep
  PROVE  ListenFollowsRegistry'
<1> USE DEF ListenFollowsRegistry
<1>1. commands \in Seq(Commands) /\ Commands = {"listen", "unlisten"}
  BY DEF QueueTypeOK, Commands
<1>2. CASE UNCHANGED <<listener, commands, listening, commandFailed>>
  BY <1>2
<1>3. ASSUME NEW s \in Streams, NEW from \in Nat, Listen(s, from)
      PROVE  ListenFollowsRegistry'
  <2>1. listener' # None /\ UNCHANGED <<listening, commandFailed>>
    BY <1>3, QueueAssumption DEF Listen
  <2>2. CASE listener # None /\ commands' = commands
    BY <2>1, <2>2
  <2>3. ASSUME NEW q \in Seq(Commands), commands' = Append(q, "listen")
        PROVE  ListenFollowsRegistry'
    BY <1>1, <2>1, <2>3, LastCommand
  <2> QED
    BY <1>3, <2>2, <2>3, CommandsOfListen
<1>4. CASE Prune
  BY <1>1, <1>4, LastCommand DEF Prune
<1>5. CASE PgCommand
  <2>1. /\ commands # <<>> /\ commands' = Tail(commands) /\ listener' = listener
        /\ listening' = (Head(commands) = "listen")
    BY <1>5 DEF PgCommand
  <2>2. "listen" \in Commands
    BY <1>1
  <2>3. CASE Tail(commands) = <<>>
    <3>1. Last(commands) = Head(commands)
      BY <1>1, <2>1, <2>2, <2>3, LastCommand
    <3> QED
      BY <2>1, <2>3, <3>1, Zenon
  <2>4. CASE Tail(commands) # <<>>
    <3>1. Last(Tail(commands)) = Last(commands)
      BY <1>1, <2>1, <2>2, <2>4, LastCommand
    <3> QED
      BY <2>1, <2>4, <3>1, Zenon
  <2> QED
    BY <2>3, <2>4
<1>6. CASE Restart
  BY <1>6 DEF Restart
<1>7. CASE PgCommandFails
  <2>1. /\ commands # <<>> /\ commands' = Tail(commands) /\ listener' = listener
        /\ commandFailed'
    BY <1>7 DEF PgCommandFails
  <2>2. Tail(commands) # <<>> => Last(Tail(commands)) = Last(commands)
    BY <1>1, <2>1, LastCommand
  <2> QED
    BY <2>1, <2>2
<1>8. ServerStep => \/ Prune \/ PgCommand \/ Restart \/ PgCommandFails
                    \/ UNCHANGED <<listener, commands, listening, commandFailed>>
  BY DEF ServerStep, Enqueue, PgStep, PgNotification, PgLoss, StreamStep, Begin, Stop,
         StartQuery, FetchNextMessages, Wake, FetchError, registryVars
<1> QED
  BY <1>2, <1>3, <1>4, <1>5, <1>6, <1>7, <1>8
     DEF AnyQueueStep, Ack, TriggerFetch, registryVars

(* A stream is armed only while LISTEN is in effect, so that the NOTIFY of *)
(* an enqueue reaches the listener task.                                   *)
ArmedIsListening == \A s \in Streams : armed[s] => listening

\* A stream waits only on a channel that is listened to.
LEMMA ArmedKept ==
  ASSUME QueueTypeOK, ArmedIsListening, AnyQueueStep
  PROVE  ArmedIsListening'
<1>1. CASE UNCHANGED <<armed, listening>>
  BY <1>1 DEF ArmedIsListening
<1>2. ASSUME NEW s \in Streams, NEW from \in Nat, Listen(s, from)
      PROVE  ArmedIsListening'
  BY <1>2 DEF ArmedIsListening, Listen, QueueTypeOK
<1>3. ASSUME NEW S, DropStreams(S), UNCHANGED listening \/ S = Streams
      PROVE  ArmedIsListening'
  <2>1. \A s \in Streams : armed'[s] <=> s \notin S /\ armed[s]
    BY <1>3, Zenon DEF DropStreams
  <2>2. \A s \in Streams : armed'[s] => listening /\ UNCHANGED listening
    BY <1>3, <2>1, Zenon DEF ArmedIsListening
  <2> QED
    BY <2>2 DEF ArmedIsListening
<1>4. CASE PgCommand
  BY <1>4, Zenon DEF ArmedIsListening, PgCommand
<1>5. CASE PgLoss
  BY <1>5 DEF ArmedIsListening, PgLoss
<1>6. ASSUME NEW s \in Streams, FetchNextMessages(s)
      PROVE  ArmedIsListening'
  BY <1>6 DEF ArmedIsListening, FetchNextMessages, QueueTypeOK, registryVars
<1>7. ServerStep => \/ PgCommand \/ PgLoss \/ (\E s \in Streams : FetchNextMessages(s))
                    \/ DropStreams(Streams) \/ UNCHANGED <<armed, listening>>
  BY DEF ServerStep, Enqueue, Prune, PgStep, PgNotification, PgCommandFails,
         StreamStep, Begin, Stop, StartQuery, Wake, FetchError, Restart, registryVars,
         streamVars
<1> QED
  BY <1>1, <1>2, <1>3, <1>4, <1>5, <1>6, <1>7
     DEF AnyQueueStep, Ack, TriggerFetch, registryVars, streamVars

(* A query that returns nothing has seen every row from its start on.      *)
LEMMA EmptyBatch ==
  ASSUME QueueTypeOK, NEW lo \in Nat, IsBatch(<<>>, lo)
  PROVE  \A n \in rows : n < lo
  BY QueueAssumption DEF IsBatch, QueueTypeOK

\* A row that a waiting stream has not fetched has a notification on its way.
LEMMA WokenKept ==
  ASSUME QueueTypeOK, ArmedIsListening, WokenWhileListening, AnyQueueStep
  PROVE  WokenWhileListening'
<1> USE DEF WokenWhileListening, Unfetched
<1>1. CASE /\ UNCHANGED <<fetchState, next, armed, noted, notified>>
           /\ rows' \subseteq rows
  BY <1>1
<1>2. CASE Enqueue
  <2>1. /\ UNCHANGED <<fetchState, next, armed, noted>>
        /\ notified' = (notified \/ listening)
        /\ rows' = rows \union {ratchet}
    BY <1>2 DEF Enqueue, streamVars
  <2>2. \A s \in Streams : armed'[s] => notified'
    BY <2>1, Zenon DEF ArmedIsListening
  <2> QED
    BY <2>2
<1>3. CASE TriggerFetch
  BY <1>3 DEF TriggerFetch, storeVars, streamVars
<1>4. ASSUME NEW s \in Streams, NEW from \in Nat, Listen(s, from)
      PROVE  WokenWhileListening'
  BY <1>4 DEF Listen, QueueTypeOK, storeVars
<1>5. ASSUME NEW S, DropStreams(S), UNCHANGED notified \/ S = Streams
      PROVE  WokenWhileListening'
  BY <1>5 DEF DropStreams, QueueTypeOK, storeVars
<1>6. CASE PgCommand
  <2>1. \A s \in Streams : armed'[s] => armed[s]
    BY <1>6, Zenon DEF PgCommand
  <2> QED
    BY <1>6, <2>1 DEF PgCommand, storeVars
<1>7. CASE PgNotification
  BY <1>7 DEF PgNotification, storeVars
<1>8. CASE PgLoss
  BY <1>8 DEF PgLoss
<1>9. ASSUME NEW s \in Streams, Begin(s) \/ Stop(s) \/ StartQuery(s) \/ Wake(s) \/ FetchError(s)
      PROVE  WokenWhileListening'
  <2>1. /\ UNCHANGED <<rows, next, armed, notified>>
        /\ fetchState'[s] # "wait"
        /\ \A q \in Streams \ {s} : fetchState'[q] = fetchState[q] /\ noted'[q] = noted[q]
    BY <1>9 DEF Begin, Stop, StartQuery, Wake, FetchError, storeVars, registryVars, QueueTypeOK
  <2> QED
    BY <2>1
<1>10. ASSUME NEW s \in Streams, FetchNextMessages(s)
       PROVE  WokenWhileListening'
  <2>1. PICK b \in BoundedSeq(rows, MaxBuffer) :
          /\ IsBatch(b, next[s])
          /\ IF b = <<>>
             THEN UNCHANGED next /\ fetchState' = [fetchState EXCEPT ![s] = "wait"]
             ELSE /\ next' = [next EXCEPT ![s] = Last(b) + 1]
                  /\ fetchState' = [fetchState EXCEPT ![s] = "fetch"]
    BY <1>10 DEF FetchNextMessages
  <2>2. /\ UNCHANGED <<rows, noted, notified>>
        /\ armed' = [armed EXCEPT ![s] = listening]
    BY <1>10 DEF FetchNextMessages, storeVars, registryVars
  <2>3. \A q \in Streams \ {s} : /\ fetchState'[q] = fetchState[q] /\ next'[q] = next[q]
                                  /\ armed'[q] = armed[q]
    BY <2>1, <2>2 DEF QueueTypeOK
  <2>4. fetchState'[s] = "wait" => ~Unfetched(s)'
    <3>1. next[s] \in Nat /\ rows \subseteq Nat
      BY DEF QueueTypeOK
    <3>2. CASE b = <<>>
      <4>1. \A n \in rows : n < next[s]
        BY <2>1, <3>1, <3>2, EmptyBatch
      <4> QED
        BY <2>1, <2>2, <3>1, <3>2, <4>1
    <3>3. CASE b # <<>>
      BY <2>1, <3>3 DEF QueueTypeOK
    <3> QED
      BY <3>2, <3>3
  <2> QED
    BY <2>2, <2>3, <2>4
<1>11. ASSUME NEW n \in Nat, Ack(n)
       PROVE  WokenWhileListening'
  BY <1>1, <1>11 DEF Ack, registryVars, streamVars
<1>12. CASE Prune \/ PgCommandFails \/ UNCHANGED <<storeVars, registryVars, fetchState, next, cancelled, noted, armed>>
  BY <1>1, <1>12 DEF Prune, PgCommandFails, storeVars, registryVars, streamVars
<1>13. CASE Restart
  BY <1>5, <1>13 DEF Restart
<1> QED
  BY <1>2, <1>3, <1>4, <1>5, <1>6, <1>7, <1>8, <1>9, <1>10, <1>11, <1>12, <1>13
     DEF AnyQueueStep, ServerStep, PgStep, StreamStep, registryVars

(* The inductive invariant of the service.                                 *)
QueueInv ==
  /\ QueueWindow
  /\ NewestListens
  /\ ListenFollowsRegistry
  /\ ArmedIsListening
  /\ WokenWhileListening

\* The invariant holds at the start.
LEMMA QueueInvInit == QueueInit => QueueInv
  BY DEF QueueInit, QueueInv, QueueWindow, NewestListens, ListenFollowsRegistry,
         ArmedIsListening, WokenWhileListening

\* Every step keeps it.
LEMMA QueueInvKept == QueueTypeOK /\ QueueInv /\ AnyQueueStep => QueueInv'
  BY WindowKept, NewestKept, ListenKept, ArmedKept, WokenKept DEF QueueInv

\* The invariant of the queue, by induction.
LEMMA QueueInvariant == QueueSpec => []QueueInv
<1>1. QueueTypeOK /\ QueueInv /\ [QueueNext]_queueVars => QueueInv'
  BY QueueNextIsAny, QueueInvKept
<1> QED
  BY <1>1, QueueInvInit, QueueTypeCorrect, PTL DEF QueueSpec

(* The table of a queue is a gapless window of the ratchet's numbers,      *)
(* whatever numbers clients acknowledge (do_enqueue, Queue::delete).       *)
THEOREM WindowWithoutHole == QueueSpec => []QueueWindow
<1>1. QueueInv => QueueWindow
  BY DEF QueueInv
<1> QED
  BY <1>1, QueueInvariant, PTL

(* A queue has one owner: a stream that track_listener has not cancelled   *)
(* is the registered one.                                                  *)
THEOREM OneListener == QueueSpec => []NewestListens
<1>1. QueueInv => NewestListens
  BY DEF QueueInv
<1> QED
  BY <1>1, QueueInvariant, PTL

(* The commands that track_listener sends leave LISTEN in effect exactly   *)
(* for a queue with a registered listener, unless the last one the task    *)
(* took has failed.                                                        *)
THEOREM ListenMatchesRegistry == QueueSpec => []ListenFollowsRegistry
<1>1. QueueInv => ListenFollowsRegistry
  BY DEF QueueInv
<1> QED
  BY <1>1, QueueInvariant, PTL

(* wait_for_notification misses no enqueue while LISTEN is in effect.      *)
THEOREM NoLostWakeup == QueueSpec => []WokenWhileListening
<1>1. QueueInv => WokenWhileListening
  BY DEF QueueInv
<1> QED
  BY <1>1, QueueInvariant, PTL
=============================================================================
