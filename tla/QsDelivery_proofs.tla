-------------------------- MODULE QsDelivery_proofs --------------------------
(***************************************************************************)
(* Proofs about QS delivery, for any number of messages, streams and       *)
(* disturbances and any batch size.                                        *)
(***************************************************************************)
EXTENDS QsDelivery, QsQueue_proofs

-----------------------------------------------------------------------------
(***************************************************************************)
(* Type correctness.                                                       *)
(***************************************************************************)

(* A process that receives is connected, which is why the transport's      *)
(* steps are applied to streams only.                                      *)
ConnectedWhenActive ==
  \A p \in Procs : mode[p] \in {"receiving", "processing"} => conn[p] \in Streams

\* Processing a message keeps the types.
LEMMA ProcessingType ==
  ASSUME TypeOK, NEW p \in Procs,
         \/ SkipReplay(p) \/ HandleMessage(p) \/ RefuseMessage(p)
         \/ FailDecryption(p) \/ FailCommit(p)
  PROVE  TypeOK'
<1>1. messages[p] \in Seq(Nat) /\ messages[p] # <<>> /\ MessageDone(p)
  BY DEF TypeOK, ClientTypeOK, SkipReplay, HandleMessage, RefuseMessage, FailDecryption, FailCommit,
         Processing
<1>2. Head(messages[p]) \in Nat /\ Tail(messages[p]) \in Seq(Nat)
  BY <1>1
<1>3. messages' \in [Procs -> Seq(Nat)]
  BY <1>1, <1>2 DEF MessageDone, TypeOK, ClientTypeOK
<1>4. clientRatchet' \in Nat /\ handled' \in Seq(Nat) /\ dropped' \in SUBSET Nat
  <2>1. CASE SkipReplay(p) \/ FailCommit(p)
    BY <2>1 DEF TypeOK, ClientTypeOK, SkipReplay, FailCommit, dbVars
  <2>2. CASE HandleMessage(p)
    <3>1. /\ clientRatchet' = Head(messages[p]) + 1
          /\ handled' = Append(handled, Head(messages[p]))
          /\ dropped' = dropped
      BY <2>2 DEF HandleMessage, NextMessage
    <3>2. /\ handled \in Seq(Nat)
          /\ dropped \in SUBSET Nat
      BY DEF TypeOK, ClientTypeOK
    <3>3. Append(handled, Head(messages[p])) \in Seq(Nat)
      BY <1>2, <3>2
    <3>4. Head(messages[p]) + 1 \in Nat
      BY <1>2
    <3> QED
      BY <3>1, <3>2, <3>3, <3>4
  <2>3. CASE RefuseMessage(p) \/ FailDecryption(p)
    <3>1. /\ clientRatchet' \in {clientRatchet, Head(messages[p]) + 1}
          /\ handled' = handled
          /\ dropped' = dropped \union {Head(messages[p])}
      BY <2>3 DEF RefuseMessage, FailDecryption, NextMessage
    <3>2. /\ handled \in Seq(Nat)
          /\ dropped \in SUBSET Nat
          /\ clientRatchet \in Nat
      BY DEF TypeOK, ClientTypeOK
    <3>3. Head(messages[p]) + 1 \in Nat
      BY <1>2
    <3>4. dropped \union {Head(messages[p])} \in SUBSET Nat
      BY <1>2, <3>2
    <3> QED
      BY <3>1, <3>2, <3>3, <3>4
  <2> QED
    BY <2>1, <2>2, <2>3
<1>5. disturbed' \in Nat
  BY DEF TypeOK, ClientTypeOK, QueueTypeOK, SkipReplay, HandleMessage, RefuseMessage, FailDecryption,
         FailCommit, Disturb
<1> QED
  BY <1>1, <1>3, <1>4, <1>5
     DEF MessageDone, TypeOK, ClientTypeOK, QueueTypeOK, storeVars, registryVars, streamVars

(* What a process does to its modes, its connection and its messages.      *)
LEMMA LeaveType ==
  ASSUME ClientTypeOK, NEW p \in Procs, NEW m \in Modes, Leave(p, m)
  PROVE  /\ mode' \in [Procs -> Modes]
         /\ start' \in [Procs -> Nat]
         /\ conn' \in [Procs -> Streams \union {None}]
         /\ responder' \in [Procs -> BOOLEAN]
  BY DEF ClientTypeOK, Leave

\* An ack is a number.
LEMMA AckType ==
  ASSUME ClientTypeOK, NEW p \in Procs, SendAck(p)
  PROVE  acks' \in SUBSET Nat
  BY DEF ClientTypeOK, SendAck

\* So is the number after the last message of a batch.
LEMMA AckNumberType ==
  ASSUME NEW q \in Seq(Nat)
  PROVE  AckNumber(q) \in Nat
<1>1. CASE q = <<>>
  BY <1>1 DEF AckNumber
<1>2. CASE q # <<>>
  <2>1. Len(q) \in DOMAIN q /\ q[Len(q)] \in Nat
    BY <1>2
  <2> QED
    BY <1>2, <2>1 DEF AckNumber, Last
<1> QED
  BY <1>1, <1>2

(* The steps of one process preserve the types.                            *)
LEMMA ProcType ==
  ASSUME TypeOK, ConnectedWhenActive, NEW p \in Procs, ProcStep(p) \/ ProcDisturbed(p)
  PROVE  TypeOK'
<1> USE DEF TypeOK, Modes
<1>1. CASE ReadStart(p)
  BY <1>1 DEF ReadStart, ClientTypeOK, QueueTypeOK, queueVars, dbVars, storeVars,
              registryVars, streamVars
<1>2. ASSUME NEW s \in Streams, Connect(p, s)
      PROVE  TypeOK'
  <2>1. start[p] \in Nat
    BY DEF ClientTypeOK
  <2>2. QueueTypeOK'
    BY <1>2, <2>1, ListenType DEF Connect
  <2>3. responder' \in [Procs -> BOOLEAN]
    BY <1>2, Zenon DEF Connect, ClientTypeOK
  <2> QED
    BY <1>2, <2>2, <2>3 DEF Connect, ClientTypeOK, dbVars
<1>3. CASE ReceiveMessage(p)
  <2>1. conn[p] \in Streams /\ EmitMessage(conn[p])
    BY <1>3 DEF ReceiveMessage, ConnectedWhenActive
  <2>2. buffer[conn[p]] \in Seq(Nat) /\ buffer[conn[p]] # <<>>
    BY <2>1 DEF EmitMessage, QueueTypeOK
  <2>3. Append(messages[p], Head(buffer[conn[p]])) \in Seq(Nat)
    BY <2>2 DEF ClientTypeOK
  <2>4. QueueTypeOK'
    BY <2>1, TransportType
  <2> QED
    BY <1>3, <2>3, <2>4 DEF ReceiveMessage, ClientTypeOK, dbVars
<1>10. CASE DropMalformed(p)
  <2>1. conn[p] \in Streams /\ buffer[conn[p]] \in Seq(Nat) /\ buffer[conn[p]] # <<>>
    BY <1>10 DEF DropMalformed, ConnectedWhenActive, QueueTypeOK
  <2>2. Tail(buffer[conn[p]]) \in Seq(Nat) /\ Head(buffer[conn[p]]) \in Nat
    BY <2>1
  <2>3. QueueTypeOK'
    <3>1. /\ buffer' = [buffer EXCEPT ![conn[p]] = Tail(buffer[conn[p]])]
          /\ disturbed' = disturbed + 1
          /\ UNCHANGED <<storeVars, registryVars, fetchState, next, sentinel, cancelled, noted,
                         fetched, armed>>
      BY <1>10 DEF DropMalformed, Disturb
    <3>2. buffer' \in [Streams -> Seq(Nat)]
      BY <2>1, <2>2, <3>1 DEF QueueTypeOK
    <3> QED
      BY <3>1, <3>2 DEF QueueTypeOK, storeVars, registryVars
  <2> QED
    BY <1>10, <2>2, <2>3 DEF DropMalformed, ClientTypeOK
<1>4. CASE ReceiveEmpty(p)
  <2>1. conn[p] \in Streams /\ EmitEmpty(conn[p])
    BY <1>4 DEF ReceiveEmpty, ConnectedWhenActive
  <2>2. AckNumber(messages[p]) \in Nat
    BY AckNumberType DEF ClientTypeOK
  <2>3. QueueTypeOK'
    BY <2>1, TransportType
  <2> QED
    BY <1>4, <2>2, <2>3 DEF ReceiveEmpty, ClientTypeOK, dbVars
<1>5. CASE ReceiveEnd(p)
  <2>1. AckNumber(messages[p]) \in Nat
    BY AckNumberType DEF ClientTypeOK
  <2>2. QueueTypeOK'
    BY <1>5 DEF ReceiveEnd, QueueTypeOK, queueVars, storeVars, registryVars, streamVars
  <2>3. /\ mode' \in [Procs -> Modes]
        /\ conn' \in [Procs -> Streams \union {None}]
        /\ responder' \in [Procs -> BOOLEAN]
    BY <1>5 DEF ReceiveEnd, ClientTypeOK
  <2>4. upTo' \in [Procs -> Nat]
    BY <1>5, <2>1 DEF ReceiveEnd, ClientTypeOK
  <2> QED
    BY <1>5, <2>2, <2>3, <2>4 DEF ReceiveEnd, ClientTypeOK, dbVars
<1>6. CASE \/ SkipReplay(p) \/ HandleMessage(p) \/ RefuseMessage(p)
           \/ FailDecryption(p) \/ FailCommit(p)
  BY <1>6, ProcessingType
<1>7. CASE Finish(p)
  <2>1. acks' \in SUBSET Nat
    BY <1>7, AckType DEF Finish
  <2>2. QueueTypeOK'
    BY <1>7 DEF Finish, QueueTypeOK, queueVars, storeVars, registryVars, streamVars
  <2>3. /\ mode' \in [Procs -> Modes]
        /\ start' \in [Procs -> Nat]
        /\ conn' \in [Procs -> Streams \union {None}]
        /\ responder' \in [Procs -> BOOLEAN]
    <3>1. CASE Leave(p, "off")
      BY <3>1, LeaveType
    <3>2. CASE mode' = [mode EXCEPT ![p] = "receiving"] /\ UNCHANGED <<start, conn, responder>>
      BY <3>2 DEF ClientTypeOK
    <3> QED
      BY <1>7, <3>1, <3>2 DEF Finish
  <2> QED
    BY <1>7, <2>1, <2>2, <2>3 DEF Finish, ClientTypeOK, dbVars
<1>8. CASE Abort(p)
  <2>1. acks' \in SUBSET Nat
    BY <1>8, AckType DEF Abort, ClientTypeOK
  <2>2. QueueTypeOK'
    BY <1>8 DEF Abort, Disturb, QueueTypeOK, storeVars, registryVars, streamVars
  <2>3. Leave(p, "idle") \/ Leave(p, "off")
    BY <1>8 DEF Abort
  <2>4. messages' \in [Procs -> Seq(Nat)] /\ upTo' \in [Procs -> Nat]
    BY <1>8 DEF Abort, ClientTypeOK
  <2>5. /\ mode' \in [Procs -> Modes]
        /\ start' \in [Procs -> Nat]
        /\ conn' \in [Procs -> Streams \union {None}]
        /\ responder' \in [Procs -> BOOLEAN]
    BY <2>3, LeaveType
  <2> QED
    BY <1>8, <2>1, <2>2, <2>4, <2>5 DEF Abort, ClientTypeOK, dbVars
<1>9. ASSUME ConnectFails(p) \/ Crash(p)
      PROVE  TypeOK'
  <2>1. QueueTypeOK'
    <3>1. UNCHANGED <<storeVars, registryVars, streamVars>>
      BY <1>9 DEF ConnectFails, Crash
    <3>2. disturbed' \in Nat
      BY <1>9 DEF ConnectFails, Crash, Disturb, QueueTypeOK
    <3> QED
      BY <3>1, <3>2, QueueSame
  <2>2. Leave(p, "idle") \/ Leave(p, "off")
    BY <1>9 DEF ConnectFails, Crash
  <2>3. messages' \in [Procs -> Seq(Nat)] /\ upTo' \in [Procs -> Nat]
    <3>1. CASE ConnectFails(p)
      BY <3>1 DEF ConnectFails, ClientTypeOK
    <3>2. CASE Crash(p)
      BY <3>2 DEF Crash, ClientTypeOK
    <3> QED
      BY <1>9, <3>1, <3>2
  <2>4. /\ mode' \in [Procs -> Modes]
        /\ start' \in [Procs -> Nat]
        /\ conn' \in [Procs -> Streams \union {None}]
        /\ responder' \in [Procs -> BOOLEAN]
    BY <2>2, LeaveType
  <2>5. UNCHANGED <<dbVars, acks>>
    BY <1>9 DEF ConnectFails, Crash
  <2> QED
    BY <2>1, <2>3, <2>4, <2>5 DEF ClientTypeOK, dbVars
<1> QED
  BY <1>1, <1>2, <1>3, <1>4, <1>5, <1>6, <1>7, <1>8, <1>9, <1>10 DEF ProcStep, ProcDisturbed

(* Every step preserves the types.                                         *)
LEMMA NextType ==
  ASSUME TypeOK, ConnectedWhenActive, Next
  PROVE  TypeOK'
<1>1. CASE ServerStep /\ UNCHANGED clientVars
  BY <1>1, ServerType DEF TypeOK, ClientTypeOK, clientVars
<1>2. ASSUME NEW p \in Procs, ProcStep(p) \/ ProcDisturbed(p)
      PROVE  TypeOK'
  BY <1>2, ProcType
<1>3. CASE ReplaceResponder
  <2>1. QueueTypeOK'
    BY <1>3, QueueSame DEF ReplaceResponder, TypeOK, queueVars, QueueTypeOK
  <2> QED
    BY <1>3, <2>1 DEF ReplaceResponder, TypeOK, ClientTypeOK, dbVars
<1>4. CASE WakeUp
  <2>1. QueueTypeOK'
    BY <1>4, QueueSame DEF WakeUp, Disturb, TypeOK, QueueTypeOK
  <2> QED
    BY <1>4, <2>1 DEF WakeUp, TypeOK, ClientTypeOK, dbVars, Modes
<1>5. CASE GoToBackground
  <2>1. QueueTypeOK'
    BY <1>5, QueueSame DEF GoToBackground, Disturb, TypeOK, QueueTypeOK
  <2>2. /\ mode' \in [Procs -> Modes]
        /\ start' \in [Procs -> Nat]
        /\ conn' \in [Procs -> Streams \union {None}]
        /\ responder' \in [Procs -> BOOLEAN]
    BY <1>5, LeaveType DEF GoToBackground, TypeOK, Modes
  <2> QED
    BY <1>5, <2>1, <2>2 DEF GoToBackground, TypeOK, ClientTypeOK, dbVars
<1>6. ASSUME NEW s \in Streams, Break(s) \/ NoticeLeft(s)
      PROVE  TypeOK'
  <2>1. DropStreams({s}) /\ UNCHANGED registryVars /\ UNCHANGED clientVars
    BY <1>6 DEF Break, NoticeLeft, Drop
  <2>2. disturbed' \in Nat
    BY <1>6 DEF Break, NoticeLeft, Drop, Disturb, TypeOK, QueueTypeOK
  <2>3. QueueTypeOK'
    BY <2>1, <2>2, DropStreamType DEF TypeOK
  <2> QED
    BY <2>1, <2>3 DEF TypeOK, ClientTypeOK, clientVars
<1>7. ASSUME NEW n \in acks, AckArrives(n)
      PROVE  TypeOK'
  <2>1. QueueTypeOK'
    BY <1>7 DEF AckArrives, Ack, TypeOK, QueueTypeOK, registryVars, streamVars
  <2> QED
    BY <1>7, <2>1 DEF AckArrives, TypeOK, ClientTypeOK, dbVars
<1>8. ASSUME NEW n \in acks, AckLost(n)
      PROVE  TypeOK'
  <2>1. QueueTypeOK'
    BY <1>8, QueueSame DEF AckLost, Disturb, TypeOK, QueueTypeOK
  <2> QED
    BY <1>8, <2>1 DEF AckLost, TypeOK, ClientTypeOK, dbVars
<1> QED
  BY <1>1, <1>2, <1>3, <1>4, <1>5, <1>6, <1>7, <1>8 DEF Next

(* Every step keeps active processes connected: a process becomes active   *)
(* by connecting, and gives up its connection only when it stops.          *)
LEMMA NextConnected ==
  ASSUME TypeOK, ConnectedWhenActive, Next
  PROVE  ConnectedWhenActive'
<1> USE DEF ConnectedWhenActive
<1>1. CASE UNCHANGED clientVars
  BY <1>1 DEF clientVars
<1>2. ASSUME NEW p \in Procs, NEW m \in {"idle", "off"}, Leave(p, m)
      PROVE  ConnectedWhenActive'
  BY <1>2 DEF Leave, TypeOK, ClientTypeOK
<1>3. ASSUME NEW p \in Procs, ProcStep(p) \/ ProcDisturbed(p)
      PROVE  ConnectedWhenActive'
  <2>1. CASE ReadStart(p)
    BY <2>1 DEF ReadStart, TypeOK, ClientTypeOK
  <2>2. ASSUME NEW s \in Streams, Connect(p, s)
        PROVE  ConnectedWhenActive'
    BY <2>2 DEF Connect, TypeOK, ClientTypeOK
  <2>3. CASE ReceiveMessage(p) \/ DropMalformed(p) \/ ReceiveEmpty(p) \/ ReceiveEnd(p)
    BY <2>3 DEF ReceiveMessage, DropMalformed, ReceiveEmpty, ReceiveEnd, TypeOK, ClientTypeOK
  <2>4. CASE \/ SkipReplay(p) \/ HandleMessage(p) \/ RefuseMessage(p)
             \/ FailDecryption(p) \/ FailCommit(p)
    BY <2>4 DEF SkipReplay, HandleMessage, RefuseMessage, FailDecryption, FailCommit,
                MessageDone
  <2>5. CASE Finish(p)
    <3>1. CASE Leave(p, "off")
      BY <1>2, <3>1
    <3>2. CASE mode' = [mode EXCEPT ![p] = "receiving"] /\ UNCHANGED conn
      BY <2>5, <3>2 DEF Finish, TypeOK, ClientTypeOK
    <3> QED
      BY <2>5, <3>1, <3>2 DEF Finish
  <2>6. CASE Abort(p) \/ ConnectFails(p) \/ Crash(p)
    <3>1. Leave(p, "idle") \/ Leave(p, "off")
      BY <2>6 DEF Abort, ConnectFails, Crash
    <3> QED
      BY <1>2, <3>1
  <2> QED
    BY <1>3, <2>1, <2>2, <2>3, <2>4, <2>5, <2>6 DEF ProcStep, ProcDisturbed
<1>4. CASE ReplaceResponder
  BY <1>4 DEF ReplaceResponder
<1>5. CASE WakeUp
  BY <1>5 DEF WakeUp, TypeOK, ClientTypeOK
<1>6. CASE GoToBackground
  BY <1>2, <1>6 DEF GoToBackground
<1>7. ASSUME NEW s \in Streams, Break(s) \/ NoticeLeft(s)
      PROVE  ConnectedWhenActive'
  BY <1>1, <1>7 DEF Break, NoticeLeft
<1>8. ASSUME NEW n \in acks, AckArrives(n) \/ AckLost(n)
      PROVE  ConnectedWhenActive'
  BY <1>8 DEF AckArrives, AckLost
<1> QED
  BY <1>1, <1>3, <1>4, <1>5, <1>6, <1>7, <1>8 DEF Next

(* Type correctness of the composed system: every variable of the service  *)
(* and of the client's processes keeps its type in every reachable state,  *)
(* and a process is connected whenever it takes messages off a stream.     *)
THEOREM TypeCorrect == Spec => [](TypeOK /\ ConnectedWhenActive)
<1>1. Init => TypeOK /\ ConnectedWhenActive
  <2> SUFFICES ASSUME Init PROVE TypeOK /\ ConnectedWhenActive
    OBVIOUS
  <2>1. QueueTypeOK
    BY QueueInitType DEF Init
  <2>2. ClientTypeOK
    <3>1. responder \in [Procs -> BOOLEAN]
      BY Zenon DEF Init
    <3> QED
      BY <3>1 DEF Init, ClientTypeOK, Modes
  <2>3. ConnectedWhenActive
    BY DEF Init, ConnectedWhenActive
  <2> QED
    BY <2>1, <2>2, <2>3 DEF TypeOK
<1>2. TypeOK /\ ConnectedWhenActive /\ [Next]_vars => (TypeOK /\ ConnectedWhenActive)'
  <2> SUFFICES ASSUME TypeOK, ConnectedWhenActive, [Next]_vars
               PROVE  TypeOK' /\ ConnectedWhenActive'
    OBVIOUS
  <2>1. CASE Next
    BY <2>1, NextType, NextConnected
  <2>2. CASE UNCHANGED vars
    <3>1. QueueTypeOK'
      BY <2>2 DEF vars, queueVars, storeVars, registryVars, streamVars, TypeOK, QueueTypeOK
    <3>2. ClientTypeOK' /\ ConnectedWhenActive'
      BY <2>2 DEF vars, clientVars, TypeOK, ClientTypeOK, ConnectedWhenActive
    <3> QED
      BY <3>1, <3>2 DEF TypeOK
  <2> QED
    BY <2>1, <2>2
<1> QED
  BY <1>1, <1>2, PTL DEF Spec

-----------------------------------------------------------------------------
(***************************************************************************)
(* What a step does to the client's database.                              *)
(***************************************************************************)

(* A step leaves the database alone unless it processes a message.         *)
LEMMA DatabaseSteps ==
  ASSUME Next
  PROVE  \/ UNCHANGED dbVars
         \/ \E p \in Procs : \/ HandleMessage(p) \/ RefuseMessage(p)
                            \/ FailDecryption(p) \/ DropMalformed(p)
<1>1. ASSUME NEW p \in Procs, ProcStep(p) \/ ProcDisturbed(p)
      PROVE  \/ UNCHANGED dbVars
             \/ HandleMessage(p) \/ RefuseMessage(p) \/ FailDecryption(p)
             \/ DropMalformed(p)
  BY <1>1 DEF ProcStep, ProcDisturbed, ReadStart, Connect, ReceiveMessage, ReceiveEmpty,
              ReceiveEnd, SkipReplay, Finish, FailCommit, Abort, ConnectFails, Crash
<1> QED
  BY <1>1 DEF Next, clientVars, dbVars, ReplaceResponder, WakeUp, GoToBackground, Break,
              NoticeLeft, AckArrives, AckLost

(* The message a process works on is a number, and so is what follows.     *)
LEMMA HeadType ==
  ASSUME TypeOK, NEW p \in Procs, Processing(p)
  PROVE  /\ messages[p] \in Seq(Nat)
         /\ messages[p] # <<>>
         /\ NextMessage(p) \in Nat
         /\ NextMessage(p) = messages[p][1]
  BY DEF TypeOK, ClientTypeOK, Processing, NextMessage

(* The effects of messages are committed in queue order and never twice:   *)
(* HandledInOrder holds in every reachable state, for any number of        *)
(* messages, streams and disturbances of any kind.                         *)
THEOREM InOrder == Spec => []HandledInOrder
<1>1. Init => HandledInOrder
  BY DEF Init, HandledInOrder
<1>2. TypeOK /\ HandledInOrder /\ [Next]_vars => HandledInOrder'
  <2> SUFFICES ASSUME TypeOK, HandledInOrder, [Next]_vars
               PROVE  HandledInOrder'
    OBVIOUS
  <2>1. CASE UNCHANGED dbVars
    BY <2>1 DEF dbVars, HandledInOrder
  <2>2. ASSUME NEW p \in Procs, HandleMessage(p)
        PROVE  HandledInOrder'
    <3> DEFINE h == NextMessage(p)
    <3>1. h \in Nat /\ handled \in Seq(Nat) /\ clientRatchet \in Nat
      BY <2>2, HeadType DEF HandleMessage, TypeOK, ClientTypeOK
    <3>2. h >= clientRatchet /\ clientRatchet' = h + 1 /\ handled' = Append(handled, h)
      BY <2>2 DEF HandleMessage
    <3> HIDE DEF h
    <3>3. \A i \in DOMAIN handled : handled[i] \in Nat /\ handled[i] < h
      BY <3>1, <3>2 DEF HandledInOrder
    <3>4. /\ DOMAIN handled' = 1..(Len(handled) + 1)
          /\ DOMAIN handled = 1..Len(handled)
          /\ \A i \in DOMAIN handled : handled'[i] = handled[i]
          /\ handled'[Len(handled) + 1] = h
      BY <3>1, <3>2
    <3>5. \A i \in DOMAIN handled' : i \in DOMAIN handled \/ i = Len(handled) + 1
      BY <3>1, <3>4
    <3>6. \A i, j \in DOMAIN handled' : i < j => handled'[i] < handled'[j]
      <4> SUFFICES ASSUME NEW i \in DOMAIN handled', NEW j \in DOMAIN handled', i < j
                   PROVE  handled'[i] < handled'[j]
        OBVIOUS
      <4>1. i \in DOMAIN handled
        BY <3>1, <3>4
      <4> QED
        BY <3>3, <3>4, <3>5, <4>1 DEF HandledInOrder
    <3>7. \A i \in DOMAIN handled' : handled'[i] < clientRatchet'
      BY <3>1, <3>2, <3>3, <3>4, <3>5
    <3> QED
      BY <3>6, <3>7 DEF HandledInOrder
  <2>3. ASSUME NEW p \in Procs, RefuseMessage(p) \/ FailDecryption(p)
        PROVE  HandledInOrder'
    <3>1. NextMessage(p) \in Nat /\ handled \in Seq(Nat) /\ clientRatchet \in Nat
      BY <2>3, HeadType DEF RefuseMessage, FailDecryption, TypeOK, ClientTypeOK
    <3>2. /\ handled' = handled
          /\ NextMessage(p) >= clientRatchet
          /\ clientRatchet' = clientRatchet \/ clientRatchet' = NextMessage(p) + 1
      BY <2>3 DEF RefuseMessage, FailDecryption
    <3> QED
      BY <3>1, <3>2 DEF HandledInOrder
  <2>6. ASSUME NEW p \in Procs, DropMalformed(p)
        PROVE  HandledInOrder'
    BY <2>6 DEF DropMalformed, HandledInOrder
  <2>4. CASE Next
    BY <2>1, <2>2, <2>3, <2>4, <2>6, DatabaseSteps
  <2>5. CASE UNCHANGED vars
    BY <2>1, <2>5 DEF vars, clientVars, dbVars
  <2> QED
    BY <2>4, <2>5
<1> QED
  BY <1>1, <1>2, TypeCorrect, PTL DEF Spec

(* What is settled stays settled.                                          *)
LEMMA SettledGrows ==
  ASSUME TypeOK, Next
  PROVE  \A n : Settled(n) => Settled(n)'
<1>1. CASE UNCHANGED dbVars
  BY <1>1 DEF dbVars, Settled
<1>2. ASSUME NEW p \in Procs, HandleMessage(p)
      PROVE  \A n : Settled(n) => Settled(n)'
  <2>1. handled \in Seq(Nat) /\ NextMessage(p) \in Nat
    BY <1>2, HeadType DEF HandleMessage, TypeOK, ClientTypeOK
  <2>2. handled' = Append(handled, NextMessage(p)) /\ dropped' = dropped
    BY <1>2 DEF HandleMessage
  <2>3. \A i \in DOMAIN handled : i \in DOMAIN handled' /\ handled'[i] = handled[i]
    BY <2>1, <2>2
  <2> QED
    BY <2>2, <2>3 DEF Settled
<1>3. ASSUME NEW p \in Procs, RefuseMessage(p) \/ FailDecryption(p)
      PROVE  \A n : Settled(n) => Settled(n)'
  BY <1>3 DEF RefuseMessage, FailDecryption, Settled
<1>4. ASSUME NEW p \in Procs, DropMalformed(p)
      PROVE  \A n : Settled(n) => Settled(n)'
  BY <1>4 DEF DropMalformed, Settled
<1> QED
  BY <1>1, <1>2, <1>3, <1>4, DatabaseSteps

-----------------------------------------------------------------------------
(***************************************************************************)
(* No message is lost.  DeliveryInv is preserved conjunct by conjunct; for *)
(* each, the steps that can disturb it are singled out.                    *)
(***************************************************************************)

(* The ratchet moves past a message only with the message in hand, and     *)
(* what precedes that message in the pipeline is settled.                  *)
LEMMA NextRatchet ==
  ASSUME TypeOK, DeliveryInv, Next
  PROVE  RatchetIsSettled'
<1>1. \A n : Settled(n) => Settled(n)'
  BY SettledGrows
<1>2. CASE clientRatchet' = clientRatchet
  BY <1>1, <1>2 DEF DeliveryInv, RatchetIsSettled
<1>3. ASSUME NEW p \in Procs, HandleMessage(p) \/ RefuseMessage(p)
      PROVE  RatchetIsSettled'
  <2>1. PICK h \in Nat : /\ messages[p] \in Seq(Nat) /\ messages[p] # <<>>
                         /\ h = NextMessage(p) /\ h = messages[p][1]
                         /\ clientRatchet' = h + 1
    BY <1>3, HeadType DEF HandleMessage, RefuseMessage
  <2>2. \A n \in 0..(h - 1) : Settled(n)
    <3>1. AccumulatedWithoutHole(p) /\ 1 \in DOMAIN messages[p]
      BY <2>1 DEF DeliveryInv, Pipeline, PipelineOf
    <3> QED
      BY <2>1, <3>1 DEF AccumulatedWithoutHole
  <2>3. Settled(h)'
    <3>1. CASE HandleMessage(p)
      <4>1. handled' = Append(handled, h) /\ handled \in Seq(Nat)
        BY <2>1, <3>1 DEF HandleMessage, TypeOK, ClientTypeOK
      <4>2. Len(handled) + 1 \in DOMAIN handled' /\ handled'[Len(handled) + 1] = h
        BY <2>1, <4>1
      <4> QED
        BY <4>2 DEF Settled
    <3>2. CASE RefuseMessage(p)
      BY <2>1, <3>2 DEF RefuseMessage, Settled
    <3> QED
      BY <1>3, <3>1, <3>2
  <2>4. SUFFICES ASSUME NEW n \in 0..h PROVE Settled(n)'
    BY <2>1 DEF RatchetIsSettled
  <2>5. n \in 0..(h - 1) \/ n = h
    BY <2>1
  <2> QED
    BY <1>1, <2>2, <2>3, <2>5
<1>4. ASSUME NEW p \in Procs, FailDecryption(p) \/ DropMalformed(p)
      PROVE  clientRatchet' = clientRatchet
  BY <1>4 DEF FailDecryption, DropMalformed
<1> QED
  BY <1>2, <1>3, <1>4, DatabaseSteps DEF dbVars

(* Rows leave the queue only by an acknowledgement, which covers settled   *)
(* messages only, and enter it only with the next number of the ratchet.   *)
LEMMA RowSteps ==
  ASSUME Next
  PROVE  \/ UNCHANGED <<ratchet, rows>>
         \/ Enqueue
         \/ \E n \in acks : AckArrives(n)
<1>1. ASSUME ServerStep
      PROVE  UNCHANGED <<ratchet, rows>> \/ Enqueue
  BY <1>1 DEF ServerStep, Prune, PgStep, PgCommand, PgNotification, PgLoss, PgCommandFails, StreamStep,
              Begin, Stop, StartQuery, FetchNextMessages, Wake, FetchError, Restart,
              DropStreams, storeVars
<1>2. ASSUME NEW p \in Procs, ProcStep(p) \/ ProcDisturbed(p)
      PROVE  UNCHANGED <<ratchet, rows>>
  BY <1>2 DEF ProcStep, ProcDisturbed, ReadStart, Connect, Listen, ReceiveMessage,
              EmitMessage, ReceiveEmpty, EmitEmpty, ReceiveEnd, SkipReplay, HandleMessage,
              RefuseMessage, FailDecryption, FailCommit, MessageDone, Finish, Abort,
              ConnectFails, Crash, DropMalformed, queueVars, storeVars
<1>3. ASSUME NEW s \in Streams, Break(s) \/ NoticeLeft(s)
      PROVE  UNCHANGED <<ratchet, rows>>
  BY <1>3 DEF Break, NoticeLeft, Drop, DropStreams, storeVars
<1> QED
  BY <1>1, <1>2, <1>3
     DEF Next, ReplaceResponder, WakeUp, GoToBackground, AckLost, queueVars, storeVars

\* Rows go only when what they hold is settled.
LEMMA NextRows ==
  ASSUME TypeOK, DeliveryInv, Next
  PROVE  RowsAreSent' /\ NoMessageLost'
<1>1. \A n : Settled(n) => Settled(n)'
  BY SettledGrows
<1>2. ratchet \in Nat /\ rows \in SUBSET Nat /\ acks \in SUBSET Nat
  BY DEF TypeOK, QueueTypeOK, ClientTypeOK
<1>3. CASE UNCHANGED <<ratchet, rows>>
  BY <1>1, <1>3 DEF DeliveryInv, RowsAreSent, NoMessageLost
<1>4. CASE Enqueue
  <2>1. ratchet' = ratchet + 1 /\ rows' = rows \union {ratchet}
    BY <1>4 DEF Enqueue
  <2>2. RowsAreSent'
    BY <1>2, <2>1 DEF DeliveryInv, RowsAreSent
  <2>3. NoMessageLost'
    <3> SUFFICES ASSUME NEW n \in 0..ratchet PROVE n \in rows' \/ Settled(n)'
      BY <1>2, <2>1 DEF NoMessageLost
    <3>1. n \in 0..(ratchet - 1) \/ n = ratchet
      BY <1>2
    <3> QED
      BY <1>1, <2>1, <3>1 DEF DeliveryInv, NoMessageLost
  <2> QED
    BY <2>2, <2>3
<1>5. ASSUME NEW a \in acks, AckArrives(a)
      PROVE  RowsAreSent' /\ NoMessageLost'
  <2>1. rows' = {n \in rows : n >= a} /\ ratchet' = ratchet
    BY <1>5 DEF AckArrives, Ack
  <2>2. \A n \in 0..(a - 1) : Settled(n)
    BY DEF DeliveryInv, AckedIsSettled
  <2>3. RowsAreSent'
    BY <2>1 DEF DeliveryInv, RowsAreSent
  <2>4. NoMessageLost'
    <3> SUFFICES ASSUME NEW n \in 0..(ratchet - 1) PROVE n \in rows' \/ Settled(n)'
      BY <2>1 DEF NoMessageLost
    <3>1. n \in rows \/ Settled(n)
      BY DEF DeliveryInv, NoMessageLost
    <3>2. n >= a \/ n \in 0..(a - 1)
      BY <1>2
    <3> QED
      BY <1>1, <2>1, <2>2, <3>1, <3>2
  <2> QED
    BY <2>3, <2>4
<1> QED
  BY <1>3, <1>4, <1>5, RowSteps

(* An acknowledgement is sent only when nothing of the batch is left to    *)
(* process: the pipeline below its number is settled.                      *)
LEMMA NextAcks ==
  ASSUME TypeOK, DeliveryInv, NoSilentFailure, Next
  PROVE  AckedIsSettled'
<1>1. \A n : Settled(n) => Settled(n)'
  BY SettledGrows
<1>2. CASE acks' \subseteq acks
  BY <1>1, <1>2 DEF DeliveryInv, AckedIsSettled
<1>3. ASSUME NEW p \in Procs, Finish(p)
      PROVE  AckedIsSettled'
  <2>1. messages[p] = <<>> /\ acks' \subseteq acks \union {upTo[p]}
    BY <1>3 DEF Finish, SendAck
  <2>2. \A n \in 0..(upTo[p] - 1) : Settled(n)
    BY <2>1 DEF DeliveryInv, Pipeline, PipelineOf, Below, In
  <2> QED
    BY <1>1, <2>1, <2>2 DEF DeliveryInv, AckedIsSettled
<1>4. ASSUME NEW p \in Procs, Abort(p)
      PROVE  acks' = acks
  BY <1>4 DEF Abort, Disturb, NoSilentFailure
<1>5. ASSUME NEW p \in Procs, ProcStep(p) \/ ProcDisturbed(p)
      PROVE  acks' = acks \/ Finish(p) \/ Abort(p)
  BY <1>5 DEF ProcStep, ProcDisturbed, ReadStart, Connect, ReceiveMessage, ReceiveEmpty,
              ReceiveEnd, SkipReplay, HandleMessage, RefuseMessage, FailDecryption,
              FailCommit, MessageDone, ConnectFails, Crash, DropMalformed
<1>6. ASSUME NEW n \in acks, AckArrives(n) \/ AckLost(n)
      PROVE  acks' \subseteq acks
  BY <1>6 DEF AckArrives, AckLost
<1>7. ASSUME NEW s \in Streams, Break(s) \/ NoticeLeft(s)
      PROVE  acks' = acks
  BY <1>7 DEF Break, NoticeLeft, clientVars
<1> QED
  BY <1>2, <1>3, <1>4, <1>5, <1>6, <1>7
     DEF Next, ReplaceResponder, WakeUp, GoToBackground, clientVars

(* No two processes own the same stream: a process connects to a stream    *)
(* nobody else has, and otherwise only gives its stream up.                *)
LEMMA ConnSteps ==
  ASSUME TypeOK, Next
  PROVE  \/ \A q \in Procs : conn'[q] = conn[q] \/ conn'[q] = None
         \/ \E p \in Procs, s \in Streams : Connect(p, s)
<1> DEFINE Kept == \A q \in Procs : conn'[q] = conn[q] \/ conn'[q] = None
<1>1. ASSUME UNCHANGED conn PROVE Kept
  BY <1>1
<1>2. ASSUME NEW p \in Procs, conn' = [conn EXCEPT ![p] = None]
      PROVE  Kept
  BY <1>2 DEF TypeOK, ClientTypeOK
<1>3. ASSUME NEW p \in Procs, ProcStep(p) \/ ProcDisturbed(p)
      PROVE  \/ UNCHANGED conn
             \/ conn' = [conn EXCEPT ![p] = None]
             \/ \E s \in Streams : Connect(p, s)
  BY <1>3 DEF ProcStep, ProcDisturbed, ReadStart, ReceiveMessage, ReceiveEmpty,
              ReceiveEnd, SkipReplay, HandleMessage, RefuseMessage, FailDecryption,
              FailCommit, MessageDone, Finish, Abort, ConnectFails, Crash, Leave,
              DropMalformed
<1>4. ASSUME GoToBackground
      PROVE  Kept
  BY <1>2, <1>4 DEF GoToBackground, Leave
<1>5. ASSUME NEW s \in Streams, Break(s) \/ NoticeLeft(s)
      PROVE  UNCHANGED conn
  BY <1>5 DEF Break, NoticeLeft, clientVars
<1> HIDE DEF Kept
<1>6. Kept \/ \E p \in Procs, s \in Streams : Connect(p, s)
  <2>1. UNCHANGED conn => Kept
    BY <1>1 DEF Kept
  <2>2. ASSUME NEW p \in Procs, ProcStep(p) \/ ProcDisturbed(p)
        PROVE  Kept \/ \E s \in Streams : Connect(p, s)
    BY <1>2, <1>3, <2>1, <2>2
  <2>3. CASE ReplaceResponder \/ WakeUp \/ UNCHANGED clientVars
    BY <2>1, <2>3 DEF ReplaceResponder, WakeUp, clientVars
  <2>4. ASSUME NEW n \in acks, AckArrives(n) \/ AckLost(n)
        PROVE  Kept
    BY <2>1, <2>4 DEF AckArrives, AckLost
  <2> QED
    BY <1>4, <1>5, <2>1, <2>2, <2>3, <2>4 DEF Next
<1> QED
  BY <1>6 DEF Kept

(* What a step does to the buffers and the next numbers of the streams.    *)
Untouched(s) == buffer'[s] = buffer[s] /\ next'[s] = next[s]

\* A stream whose task has ended.
Cleared(s) == buffer'[s] = <<>> /\ next'[s] = 0

\* The steps, by what they do to the streams.
LEMMA StreamSteps ==
  ASSUME TypeOK, Next
  PROVE  \/ \A s \in Streams : Untouched(s) \/ Cleared(s)
         \/ \E s \in Streams : FetchNextMessages(s) /\ UNCHANGED clientVars
         \/ \E p \in Procs : \/ ReceiveMessage(p) \/ DropMalformed(p)
                            \/ \E s \in Streams : Connect(p, s)
<1> DEFINE Kept == \A s \in Streams : Untouched(s) \/ Cleared(s)
<1>1. ASSUME UNCHANGED <<buffer, next>> PROVE Kept
  BY <1>1 DEF Untouched
<1>2. ASSUME NEW S, DropStreams(S) PROVE Kept
  BY <1>2 DEF DropStreams, Untouched, Cleared
<1> HIDE DEF Kept
<1>3. ASSUME ServerStep
      PROVE  Kept \/ \E s \in Streams : FetchNextMessages(s)
  <2>1. CASE Restart
    BY <1>2, <2>1 DEF Restart
  <2> QED
    BY <1>1, <1>3, <2>1
       DEF ServerStep, Enqueue, Prune, PgStep, PgCommand, PgNotification, PgLoss, PgCommandFails,
           StreamStep, Begin, Stop, StartQuery, Wake, FetchError, streamVars
<1>4. ASSUME NEW p \in Procs, ProcStep(p) \/ ProcDisturbed(p)
      PROVE  \/ UNCHANGED <<buffer, next>>
             \/ ReceiveMessage(p)
             \/ DropMalformed(p)
             \/ \E s \in Streams : Connect(p, s)
  BY <1>4 DEF ProcStep, ProcDisturbed, ReadStart, ReceiveEmpty, EmitEmpty,
              ReceiveEnd, SkipReplay, HandleMessage, RefuseMessage, FailDecryption,
              FailCommit, MessageDone, Finish, Abort, ConnectFails, Crash, queueVars,
              streamVars
<1>5. ASSUME NEW s \in Streams, Break(s) \/ NoticeLeft(s)
      PROVE  Kept
  BY <1>2, <1>5 DEF Break, NoticeLeft, Drop
<1>6. \/ Kept
      \/ \E s \in Streams : FetchNextMessages(s) /\ UNCHANGED clientVars
      \/ \E p \in Procs : \/ ReceiveMessage(p) \/ DropMalformed(p)
                         \/ \E s \in Streams : Connect(p, s)
  BY <1>1, <1>3, <1>4, <1>5
     DEF Next, ReplaceResponder, WakeUp, GoToBackground, AckArrives, Ack, AckLost,
         queueVars, streamVars
<1> QED
  BY <1>6 DEF Kept

(* A stream that is starting or querying has nothing buffered.             *)
LEMMA NextUnbuffered ==
  ASSUME TypeOK, ConnectedWhenActive, Attached, Next
  PROVE  \A s \in Streams : fetchState'[s] \in {"init", "query"} => buffer'[s] = <<>>
<1> DEFINE Goal == \A s \in Streams : fetchState'[s] \in {"init", "query"} => buffer'[s] = <<>>
<1> USE DEF Attached, TypeOK, QueueTypeOK
<1>1. ASSUME UNCHANGED <<fetchState, buffer>> PROVE Goal
  BY <1>1
<1>2. ASSUME NEW S, DropStreams(S) PROVE Goal
  BY <1>2 DEF DropStreams
<1>3. ASSUME NEW s \in Streams, StreamStep(s) \/ FetchError(s) PROVE Goal
  BY <1>3 DEF StreamStep, Begin, Stop, StartQuery, Polled, FetchNextMessages, Wake, FetchError
<1>4. ASSUME ServerStep PROVE Goal
  <2>1. CASE Restart
    BY <1>2, <2>1 DEF Restart
  <2>2. CASE Enqueue \/ Prune \/ PgStep \/ PgLoss \/ PgCommandFails
    BY <1>1, <2>2 DEF Enqueue, Prune, PgStep, PgCommand, PgNotification, PgLoss, PgCommandFails, streamVars
  <2> QED
    BY <1>3, <1>4, <2>1, <2>2 DEF ServerStep
<1>5. ASSUME NEW p \in Procs, ReceiveMessage(p) \/ DropMalformed(p) PROVE Goal
  BY <1>5 DEF ReceiveMessage, EmitMessage, DropMalformed, ConnectedWhenActive
<1>6. ASSUME NEW p \in Procs, NEW s \in Streams, Connect(p, s) PROVE Goal
  BY <1>6 DEF Connect, Listen
<1>7. ASSUME NEW p \in Procs, ProcStep(p) \/ ProcDisturbed(p)
      PROVE  \/ UNCHANGED <<fetchState, buffer>>
             \/ ReceiveMessage(p)
             \/ DropMalformed(p)
             \/ \E s \in Streams : Connect(p, s)
  BY <1>7 DEF ProcStep, ProcDisturbed, ReadStart, ReceiveEmpty, EmitEmpty,
              ReceiveEnd, SkipReplay, HandleMessage, RefuseMessage, FailDecryption,
              FailCommit, MessageDone, Finish, Abort, ConnectFails, Crash, queueVars,
              streamVars
<1>8. ASSUME NEW s \in Streams, Break(s) \/ NoticeLeft(s) PROVE Goal
  BY <1>2, <1>8 DEF Break, NoticeLeft, Drop
<1>9. ASSUME ReplaceResponder \/ WakeUp \/ GoToBackground PROVE Goal
  BY <1>1, <1>9 DEF ReplaceResponder, WakeUp, GoToBackground, queueVars, streamVars
<1>10. ASSUME NEW n \in acks, AckArrives(n) \/ AckLost(n) PROVE Goal
  BY <1>1, <1>10 DEF AckArrives, Ack, AckLost, streamVars
<1> HIDE DEF Goal
<1>11. Goal
  BY <1>1, <1>4, <1>5, <1>6, <1>7, <1>8, <1>9, <1>10 DEF Next
<1> QED
  BY <1>11 DEF Goal

\* Every step keeps the processes attached to streams of their own.
LEMMA NextAttached ==
  ASSUME TypeOK, ConnectedWhenActive, Attached, Next
  PROVE  Attached'
<1>1. \A p \in Procs : mode'[p] \in {"receiving", "processing"} => conn'[p] # None
  BY NextConnected, QueueAssumption DEF ConnectedWhenActive
<1>2. \A p, q \in Procs : conn'[p] # None /\ conn'[p] = conn'[q] => p = q
  <2>1. CASE \A q \in Procs : conn'[q] = conn[q] \/ conn'[q] = None
    BY <2>1 DEF Attached
  <2>2. ASSUME NEW p \in Procs, NEW s \in Streams, Connect(p, s)
        PROVE  \A r, q \in Procs : conn'[r] # None /\ conn'[r] = conn'[q] => r = q
    BY <2>2 DEF Connect, Attached, TypeOK, ClientTypeOK
  <2> QED
    BY <2>1, <2>2, ConnSteps
<1>3. \A s \in Streams : fetchState'[s] \in {"init", "query"} => buffer'[s] = <<>>
  BY NextUnbuffered
<1> QED
  BY <1>1, <1>2, <1>3 DEF Attached

(* The pipeline of a process stays without a hole when the process at most *)
(* gives up its stream, its start or its acknowledgement, and the stream   *)
(* is untouched or cleared.                                                *)
LEMMA PipelineKept ==
  ASSUME \A n : Settled(n) => Settled(n)', NEW q \in Procs, PipelineOf(q),
         messages'[q] = messages[q],
         conn'[q] = conn[q] \/ conn'[q] = None,
         upTo'[q] = upTo[q] \/ upTo'[q] = 0,
         start'[q] = start[q] \/ start'[q] = 0,
         conn[q] # None => Untouched(conn[q]) \/ Cleared(conn[q])
  PROVE  PipelineOf(q)'
<1>1. AccumulatedWithoutHole(q)'
  BY DEF PipelineOf, AccumulatedWithoutHole
<1>2. Below(q, upTo[q])'
  BY DEF PipelineOf, Below, In
<1>3. \A n \in 0..(start'[q] - 1) : Settled(n)'
  BY DEF PipelineOf
<1>4. ASSUME conn'[q] # None
      PROVE  BufferedWithoutHole(q, conn[q])' /\ FetchedWithoutHole(q, conn[q])'
  <2>1. conn'[q] = conn[q] /\ conn[q] # None
    BY <1>4
  <2>2. BufferedWithoutHole(q, conn[q]) /\ FetchedWithoutHole(q, conn[q])
    BY <2>1 DEF PipelineOf
  <2>3. CASE Untouched(conn[q])
    BY <2>1, <2>2, <2>3 DEF Untouched, BufferedWithoutHole, FetchedWithoutHole, In
  <2>4. CASE Cleared(conn[q])
    BY <2>1, <2>4 DEF Cleared, BufferedWithoutHole, FetchedWithoutHole, In
  <2> QED
    BY <2>1, <2>3, <2>4
<1> QED
  BY <1>1, <1>2, <1>3, <1>4 DEF PipelineOf

(* A process that forgets its messages has an empty pipeline.              *)
LEMMA PipelineForgotten ==
  ASSUME NEW q \in Procs, messages'[q] = <<>>, conn'[q] = None, upTo'[q] = 0, start'[q] = 0
  PROVE  PipelineOf(q)'
  BY DEF PipelineOf, AccumulatedWithoutHole, Below

(* Processing the first message shortens the pipeline from the front: the  *)
(* message is settled, so nothing is missing from what is left.            *)
LEMMA PipelineProcessed ==
  ASSUME TypeOK, \A n : Settled(n) => Settled(n)', NEW p \in Procs, PipelineOf(p),
         Processing(p), NEW h \in Nat, h = NextMessage(p), Settled(h)',
         MessageDone(p)
  PROVE  PipelineOf(p)'
<1>1. /\ messages[p] \in Seq(Nat) /\ messages[p] # <<>> /\ h = messages[p][1]
  BY HeadType
<1>2. messages'[p] = Tail(messages[p])
  BY DEF MessageDone, TypeOK, ClientTypeOK
<1>3. \A i \in DOMAIN messages'[p] : i + 1 \in DOMAIN messages[p] /\ messages'[p][i] = messages[p][i + 1]
  BY <1>1, <1>2
<1>4. \A i \in DOMAIN messages[p] :
        i = 1 \/ (i - 1 \in DOMAIN messages'[p] /\ messages'[p][i - 1] = messages[p][i])
  BY <1>1, <1>2
<1>5. \A n : In(n, messages[p]) => Settled(n)' \/ \E j \in DOMAIN messages'[p] : messages'[p][j] = n
  BY <1>1, <1>4 DEF In
<1>6. AccumulatedWithoutHole(p)'
  <2> SUFFICES ASSUME NEW i \in DOMAIN messages'[p], NEW n \in 0..(messages'[p][i] - 1)
               PROVE  Settled(n)' \/ \E j \in 1..(i - 1) : messages'[p][j] = n
    BY DEF AccumulatedWithoutHole
  <2>0. i \in Nat /\ i + 1 \in DOMAIN messages[p] /\ n \in 0..(messages[p][i + 1] - 1)
    BY <1>1, <1>2, <1>3
  <2>1. Settled(n) \/ \E j \in 1..i : messages[p][j] = n
    <3>1. Settled(n) \/ \E j \in 1..((i + 1) - 1) : messages[p][j] = n
      BY <2>0 DEF PipelineOf, AccumulatedWithoutHole
    <3>2. (i + 1) - 1 = i
      BY <2>0
    <3> QED
      BY <3>1, <3>2
  <2>2. ASSUME NEW j \in 1..i, messages[p][j] = n
        PROVE  Settled(n)' \/ \E k \in 1..(i - 1) : messages'[p][k] = n
    <3>1. j = 1 \/ j - 1 \in 1..(i - 1)
      BY <2>0
    <3>2. j \in DOMAIN messages[p]
      BY <1>1, <1>2
    <3> QED
      BY <1>1, <1>4, <2>2, <3>1, <3>2
  <2> QED
    BY <2>1, <2>2
<1>7. Below(p, upTo[p])'
  BY <1>5 DEF PipelineOf, Below, In, MessageDone
<1>8. conn'[p] # None => BufferedWithoutHole(p, conn[p])' /\ FetchedWithoutHole(p, conn[p])'
  <2>1. conn' = conn /\ buffer' = buffer /\ next' = next
    BY DEF MessageDone, streamVars
  <2>2. ASSUME conn[p] # None PROVE BufferedWithoutHole(p, conn[p])'
    BY <1>5, <2>1, <2>2 DEF PipelineOf, BufferedWithoutHole, In
  <2>3. ASSUME conn[p] # None PROVE FetchedWithoutHole(p, conn[p])'
    BY <1>5, <2>1, <2>3 DEF PipelineOf, FetchedWithoutHole, In
  <2> QED
    BY <2>1, <2>2, <2>3
<1>9. \A n \in 0..(start'[p] - 1) : Settled(n)'
  BY DEF PipelineOf, MessageDone
<1> QED
  BY <1>6, <1>7, <1>8, <1>9 DEF PipelineOf

(* The indices of a sequence and of its tail.                              *)
LEMMA TailIndices ==
  ASSUME NEW b \in Seq(Nat), b # <<>>
  PROVE  /\ \A i \in DOMAIN Tail(b) :
              i \in Nat /\ i + 1 \in DOMAIN b /\ Tail(b)[i] = b[i + 1]
         /\ \A i \in DOMAIN b :
              i = 1 \/ (i - 1 \in DOMAIN Tail(b) /\ Tail(b)[i - 1] = b[i])
         /\ 1 \in DOMAIN b
         /\ DOMAIN b = 1..Len(b)
         /\ Len(b) \in Nat
  OBVIOUS

(* Receiving a message moves it from the head of the buffer to the end of  *)
(* the accumulated messages: the pipeline is the same.                     *)
LEMMA PipelineReceived ==
  ASSUME TypeOK, ConnectedWhenActive, \A n : Settled(n) => Settled(n)',
         NEW p \in Procs, PipelineOf(p), ReceiveMessage(p)
  PROVE  PipelineOf(p)'
<1>1. PICK s \in Streams : s = conn[p] /\ EmitMessage(s)
  BY DEF ReceiveMessage, ConnectedWhenActive
<1>2. PICK q \in Seq(Nat) : q = messages[p]
  BY DEF TypeOK, ClientTypeOK
<1>3. PICK b \in Seq(Nat) : b = buffer[s] /\ b # <<>>
  BY <1>1 DEF TypeOK, QueueTypeOK, EmitMessage
<1>4. /\ messages'[p] = Append(q, b[1])
      /\ buffer'[s] = Tail(b)
      /\ next' = next /\ conn' = conn /\ upTo' = upTo /\ start' = start
  <2>1. Head(b) = b[1]
    BY <1>3
  <2> QED
    BY <1>1, <1>2, <1>3, <2>1
       DEF ReceiveMessage, EmitMessage, TypeOK, ClientTypeOK, QueueTypeOK
<1>5. /\ \A i \in DOMAIN q : i \in DOMAIN messages'[p] /\ messages'[p][i] = q[i]
      /\ Len(q) + 1 \in DOMAIN messages'[p] /\ messages'[p][Len(q) + 1] = b[1]
      /\ \A i \in DOMAIN messages'[p] : i \in DOMAIN q \/ i = Len(q) + 1
      /\ DOMAIN q = 1..Len(q) /\ Len(q) \in Nat
  BY <1>2, <1>3, <1>4
<1>6. /\ \A i \in DOMAIN buffer'[s] :
           i \in Nat /\ i + 1 \in DOMAIN b /\ buffer'[s][i] = b[i + 1]
      /\ \A i \in DOMAIN b :
           i = 1 \/ (i - 1 \in DOMAIN buffer'[s] /\ buffer'[s][i - 1] = b[i])
      /\ 1 \in DOMAIN b
      /\ DOMAIN b = 1..Len(b)
      /\ Len(b) \in Nat
  BY <1>3, <1>4, TailIndices
<1>7. BufferedWithoutHole(p, s) /\ FetchedWithoutHole(p, s)
  BY <1>1, QueueAssumption DEF PipelineOf
<1>8. \A n : In(n, q) \/ n = b[1] => In(n, messages[p])'
  BY <1>5 DEF In
<1>9. AccumulatedWithoutHole(p)'
  <2> SUFFICES ASSUME NEW i \in DOMAIN messages'[p], NEW n \in 0..(messages'[p][i] - 1)
               PROVE  Settled(n)' \/ \E j \in 1..(i - 1) : messages'[p][j] = n
    BY DEF AccumulatedWithoutHole
  <2>1. CASE i \in DOMAIN q
    <3>1. Settled(n) \/ \E j \in 1..(i - 1) : q[j] = n
      BY <1>2, <1>5, <2>1 DEF PipelineOf, AccumulatedWithoutHole
    <3>2. \A j \in 1..(i - 1) : j \in DOMAIN q
      BY <1>5, <2>1
    <3> QED
      BY <1>5, <3>1, <3>2
  <2>2. CASE i = Len(q) + 1
    <3>1. n \in 0..(b[1] - 1)
      BY <1>5, <2>2
    <3>2. Settled(n) \/ In(n, q) \/ \E j \in 1..(1 - 1) : b[j] = n
      BY <1>2, <1>3, <1>6, <1>7, <3>1 DEF BufferedWithoutHole
    <3>3. Settled(n) \/ \E j \in 1..Len(q) : q[j] = n
      BY <1>5, <3>2 DEF In
    <3>4. (Len(q) + 1) - 1 = Len(q)
      BY <1>5
    <3> QED
      BY <1>5, <2>2, <3>3, <3>4
  <2> QED
    BY <1>5, <2>1, <2>2
<1>10. BufferedWithoutHole(p, conn[p])'
  <2>1. ASSUME NEW i \in DOMAIN buffer'[s], NEW n \in 0..(buffer'[s][i] - 1)
        PROVE  \/ Settled(n)' \/ In(n, messages[p])'
               \/ \E j \in 1..(i - 1) : buffer'[s][j] = n
    <3>1. i \in Nat /\ i + 1 \in DOMAIN b /\ buffer'[s][i] = b[i + 1]
      BY <1>6
    <3>2. Settled(n) \/ In(n, q) \/ \E j \in 1..((i + 1) - 1) : b[j] = n
      BY <1>2, <1>3, <1>7, <3>1 DEF BufferedWithoutHole
    <3>3. ASSUME NEW j \in 1..((i + 1) - 1), b[j] = n
          PROVE  In(n, messages[p])' \/ \E k \in 1..(i - 1) : buffer'[s][k] = n
      <4>1. i + 1 <= Len(b) /\ j \in Nat /\ 1 <= j /\ j <= i
        BY <1>6, <3>1
      <4>2. j \in DOMAIN b /\ (j = 1 \/ j - 1 \in 1..(i - 1))
        BY <1>6, <3>1, <4>1
      <4> QED
        BY <1>6, <1>8, <3>3, <4>2
    <3> QED
      BY <1>8, <3>2, <3>3
  <2>2. conn'[p] = s
    BY <1>1, <1>4
  <2> QED
    BY <2>1, <2>2 DEF BufferedWithoutHole, In
<1>11. FetchedWithoutHole(p, conn[p])'
  <2> SUFFICES ASSUME NEW n \in 0..(next[s] - 1)
               PROVE  Settled(n)' \/ In(n, messages[p])' \/ \E j \in DOMAIN buffer'[s] : buffer'[s][j] = n
    BY <1>1, <1>4 DEF FetchedWithoutHole, In
  <2>1. Settled(n) \/ In(n, q) \/ \E j \in DOMAIN b : b[j] = n
    BY <1>2, <1>3, <1>7 DEF FetchedWithoutHole, In
  <2> QED
    BY <1>6, <1>8, <2>1
<1>12. Below(p, upTo[p])'
  <2> SUFFICES ASSUME NEW n \in 0..(upTo[p] - 1) PROVE Settled(n)' \/ In(n, messages[p])'
    BY <1>4 DEF Below
  <2> QED
    BY <1>2, <1>8 DEF PipelineOf, Below
<1>13. \A n \in 0..(start'[p] - 1) : Settled(n)'
  BY <1>4 DEF PipelineOf
<1> QED
  BY <1>9, <1>10, <1>11, <1>12, <1>13 DEF PipelineOf

(* Dropping a malformed message settles the head of the buffer.            *)
LEMMA PipelineDropped ==
  ASSUME TypeOK, ConnectedWhenActive, \A n : Settled(n) => Settled(n)',
         NEW p \in Procs, PipelineOf(p), DropMalformed(p)
  PROVE  PipelineOf(p)'
<1>1. PICK s \in Streams : s = conn[p]
  BY DEF DropMalformed, ConnectedWhenActive
<1>2. PICK b \in Seq(Nat) : b = buffer[s] /\ b # <<>>
  BY <1>1 DEF TypeOK, QueueTypeOK, DropMalformed
<1>3. PICK h \in Nat : h = b[1] /\ h = Head(b)
  BY <1>2
<1>4. /\ buffer'[s] = Tail(b) /\ next' = next /\ conn' = conn /\ upTo' = upTo
      /\ start' = start /\ messages' = messages /\ Settled(h)'
  BY <1>1, <1>2, <1>3 DEF DropMalformed, TypeOK, QueueTypeOK, Settled
<1>5. /\ \A i \in DOMAIN buffer'[s] :
           i \in Nat /\ i + 1 \in DOMAIN b /\ buffer'[s][i] = b[i + 1]
      /\ \A i \in DOMAIN b :
           i = 1 \/ (i - 1 \in DOMAIN buffer'[s] /\ buffer'[s][i - 1] = b[i])
      /\ DOMAIN b = 1..Len(b)
      /\ Len(b) \in Nat
  BY <1>2, <1>4, TailIndices
<1>6. BufferedWithoutHole(p, s) /\ FetchedWithoutHole(p, s)
  BY <1>1, QueueAssumption DEF PipelineOf
<1>7. BufferedWithoutHole(p, conn[p])'
  <2>1. ASSUME NEW i \in DOMAIN buffer'[s], NEW n \in 0..(buffer'[s][i] - 1)
        PROVE  \/ Settled(n)' \/ In(n, messages[p])
               \/ \E j \in 1..(i - 1) : buffer'[s][j] = n
    <3>1. i \in Nat /\ i + 1 \in DOMAIN b /\ buffer'[s][i] = b[i + 1]
      BY <1>5
    <3>2. Settled(n) \/ In(n, messages[p]) \/ \E j \in 1..((i + 1) - 1) : b[j] = n
      BY <1>2, <1>6, <3>1 DEF BufferedWithoutHole
    <3>3. ASSUME NEW j \in 1..((i + 1) - 1), b[j] = n
          PROVE  Settled(n)' \/ \E k \in 1..(i - 1) : buffer'[s][k] = n
      <4>1. i + 1 <= Len(b) /\ j \in Nat /\ 1 <= j /\ j <= i
        BY <1>5, <3>1
      <4>2. j \in DOMAIN b /\ (j = 1 \/ j - 1 \in 1..(i - 1))
        BY <1>5, <3>1, <4>1
      <4> QED
        BY <1>3, <1>4, <1>5, <3>3, <4>2
    <3> QED
      BY <3>2, <3>3
  <2>2. conn'[p] = s
    BY <1>1, <1>4
  <2>3. messages' = messages
    BY <1>4
  <2> QED
    BY <2>1, <2>2, <2>3 DEF BufferedWithoutHole, In
<1>8. FetchedWithoutHole(p, conn[p])'
  <2>1. ASSUME NEW n \in 0..(next[s] - 1)
        PROVE  \/ Settled(n)' \/ In(n, messages[p])
               \/ \E j \in DOMAIN buffer'[s] : buffer'[s][j] = n
    <3>1. Settled(n) \/ In(n, messages[p]) \/ \E j \in DOMAIN b : b[j] = n
      BY <1>2, <1>6 DEF FetchedWithoutHole, In
    <3>2. Settled(h)' /\ h = b[1]
      BY <1>3, <1>4
    <3> QED
      BY <1>5, <3>1, <3>2
  <2>2. conn'[p] = s
    BY <1>1, <1>4
  <2>3. messages' = messages /\ next' = next
    BY <1>4
  <2> QED
    BY <2>1, <2>2, <2>3 DEF FetchedWithoutHole, In
<1>9. AccumulatedWithoutHole(p)' /\ Below(p, upTo[p])' /\ \A n \in 0..(start'[p] - 1) : Settled(n)'
  BY <1>4 DEF PipelineOf, AccumulatedWithoutHole, Below, In
<1> QED
  BY <1>7, <1>8, <1>9 DEF PipelineOf

(* A query extends the pipeline at the end: the rows from next on, without *)
(* skipping one, and every message below next is settled or accumulated.   *)
LEMMA PipelineFetched ==
  ASSUME TypeOK, DeliveryInv, \A n : Settled(n) => Settled(n)',
         NEW p \in Procs, NEW s \in Streams, conn[p] = s,
         FetchNextMessages(s), UNCHANGED clientVars
  PROVE  PipelineOf(p)'
<1>1. PICK b \in BoundedSeq(rows, MaxBuffer) :
        /\ IsBatch(b, next[s])
        /\ buffer' = [buffer EXCEPT ![s] = b]
        /\ IF b = <<>>
           THEN /\ sentinel' = [sentinel EXCEPT ![s] = TRUE]
                /\ fetchState' = [fetchState EXCEPT ![s] = "wait"]
                /\ UNCHANGED next
           ELSE /\ next' = [next EXCEPT ![s] = Last(b) + 1]
                /\ fetchState' = [fetchState EXCEPT ![s] = "fetch"]
                /\ UNCHANGED sentinel
  BY DEF FetchNextMessages
<1>2. /\ b \in Seq(Nat) /\ \A i \in DOMAIN b : b[i] \in rows /\ b[i] \in Nat
      /\ DOMAIN b = 1..Len(b) /\ Len(b) \in Nat
  BY BatchType DEF TypeOK, QueueTypeOK
<1>3. PICK lo \in Nat : lo = next[s]
  BY DEF TypeOK, QueueTypeOK
<1>4. buffer[s] = <<>>
  BY DEF FetchNextMessages, DeliveryInv, Attached
<1>5. \A n \in 0..(lo - 1) : Settled(n) \/ In(n, messages[p])
  BY <1>3, <1>4, QueueAssumption DEF DeliveryInv, Pipeline, PipelineOf, FetchedWithoutHole, In
<1>6. /\ buffer'[s] = b /\ messages' = messages /\ conn' = conn /\ upTo' = upTo
      /\ start' = start
  BY <1>1 DEF clientVars, TypeOK, QueueTypeOK
<1>7. \A i \in DOMAIN b : \A n \in 0..(b[i] - 1) :
        \/ Settled(n) \/ In(n, messages[p]) \/ \E j \in 1..(i - 1) : b[j] = n
  <2> SUFFICES ASSUME NEW i \in DOMAIN b, NEW n \in 0..(b[i] - 1), ~Settled(n), n >= lo
               PROVE  \E j \in 1..(i - 1) : b[j] = n
    BY <1>3, <1>5
  <2>1. b[i] < ratchet /\ ratchet \in Nat /\ b[i] \in Nat
    BY <1>2 DEF DeliveryInv, RowsAreSent, TypeOK, QueueTypeOK
  <2>2. n \in rows
    BY <2>1 DEF DeliveryInv, NoMessageLost
  <2>3. \E j \in DOMAIN b : b[j] = n
    <3>1. (\E j \in DOMAIN b : b[j] = n) \/ (\A j \in DOMAIN b : b[j] < n)
      <4>1. IsBatch(b, lo)
        BY <1>1, <1>3
      <4> QED
        BY <4>1, <2>2 DEF IsBatch
    <3>2. ~(b[i] < n)
      BY <2>1
    <3> QED
      BY <3>1, <3>2
  <2>4. PICK j \in DOMAIN b : b[j] = n
    BY <2>3
  <2>5. j < i
    BY <1>1, <1>2, <2>1, <2>4 DEF IsBatch
  <2> QED
    BY <1>2, <2>4, <2>5
<1>8. BufferedWithoutHole(p, conn[p])'
  BY <1>6, <1>7 DEF BufferedWithoutHole, In
<1>9. FetchedWithoutHole(p, conn[p])'
  <2> SUFFICES ASSUME NEW n \in 0..(next'[s] - 1)
               PROVE  Settled(n) \/ In(n, messages[p]) \/ \E j \in DOMAIN b : b[j] = n
    BY <1>6 DEF FetchedWithoutHole, In
  <2>1. CASE b = <<>>
    BY <1>1, <1>3, <1>5, <2>1
  <2>2. CASE b # <<>>
    <3>1. Len(b) \in DOMAIN b /\ Last(b) = b[Len(b)] /\ b[Len(b)] \in Nat
      BY <1>2, <2>2 DEF Last
    <3>2. next'[s] = b[Len(b)] + 1
      BY <1>1, <2>2, <3>1 DEF TypeOK, QueueTypeOK
    <3>3. n \in 0..(b[Len(b)] - 1) \/ n = b[Len(b)]
      BY <3>1, <3>2
    <3>4. \A j \in 1..(Len(b) - 1) : j \in DOMAIN b
      BY <1>2
    <3> QED
      BY <1>7, <3>1, <3>3, <3>4
  <2> QED
    BY <2>1, <2>2
<1>10. AccumulatedWithoutHole(p)' /\ Below(p, upTo[p])' /\ \A n \in 0..(start'[p] - 1) : Settled(n)'
  <2>1. PipelineOf(p)
    BY DEF DeliveryInv, Pipeline
  <2> QED
    BY <1>6, <2>1 DEF PipelineOf, AccumulatedWithoutHole, Below, In
<1> QED
  BY <1>8, <1>9, <1>10 DEF PipelineOf

(* What an acknowledgement will cover when the accumulated messages are    *)
(* about to be processed.                                                  *)
LEMMA AckNumberBelow ==
  ASSUME TypeOK, NEW p \in Procs, AccumulatedWithoutHole(p)
  PROVE  \A n \in 0..(AckNumber(messages[p]) - 1) : Settled(n) \/ In(n, messages[p])
<1>1. PICK q \in Seq(Nat) : q = messages[p]
  BY DEF TypeOK, ClientTypeOK
<1>2. CASE q = <<>>
  BY <1>1, <1>2 DEF AckNumber
<1>3. CASE q # <<>>
  <2>1. Len(q) \in DOMAIN q /\ q[Len(q)] \in Nat /\ DOMAIN q = 1..Len(q) /\ Len(q) \in Nat
    BY <1>3
  <2>2. AckNumber(q) = q[Len(q)] + 1
    BY <1>3 DEF AckNumber, Last
  <2> SUFFICES ASSUME NEW n \in 0..(AckNumber(q) - 1) PROVE Settled(n) \/ In(n, q)
    BY <1>1
  <2>3. n \in 0..(q[Len(q)] - 1) \/ n = q[Len(q)]
    BY <2>1, <2>2
  <2>4. ASSUME n \in 0..(q[Len(q)] - 1)
        PROVE  Settled(n) \/ \E j \in 1..(Len(q) - 1) : q[j] = n
    BY <1>1, <2>1, <2>4 DEF AccumulatedWithoutHole
  <2>5. \A j \in 1..(Len(q) - 1) : j \in DOMAIN q
    BY <2>1
  <2> QED
    BY <2>1, <2>3, <2>4, <2>5 DEF In
<1> QED
  BY <1>2, <1>3

(* A process that starts processing knows what it will acknowledge.        *)
LEMMA PipelineProcessing ==
  ASSUME TypeOK, \A n : Settled(n) => Settled(n)', NEW p \in Procs, PipelineOf(p),
         messages' = messages, conn' = conn, start' = start, buffer' = buffer, next' = next,
         upTo'[p] = AckNumber(messages[p])
  PROVE  PipelineOf(p)'
<1>1. AccumulatedWithoutHole(p)'
  BY DEF PipelineOf, AccumulatedWithoutHole
<1>2. Below(p, upTo[p])'
  <2>1. \A n \in 0..(AckNumber(messages[p]) - 1) : Settled(n) \/ In(n, messages[p])
    BY AckNumberBelow DEF PipelineOf
  <2> QED
    BY <2>1 DEF Below, In
<1>3. conn'[p] # None => BufferedWithoutHole(p, conn[p])' /\ FetchedWithoutHole(p, conn[p])'
  BY DEF PipelineOf, BufferedWithoutHole, FetchedWithoutHole, In
<1>4. \A n \in 0..(start'[p] - 1) : Settled(n)'
  BY DEF PipelineOf
<1> QED
  BY <1>1, <1>2, <1>3, <1>4 DEF PipelineOf

(* A new stream starts where the client's ratchet was when the process     *)
(* asked for it, so nothing precedes it but settled messages.              *)
LEMMA PipelineConnected ==
  ASSUME TypeOK, \A n : Settled(n) => Settled(n)', NEW p \in Procs, NEW s \in Streams,
         PipelineOf(p), Connect(p, s)
  PROVE  PipelineOf(p)'
<1>1. /\ messages' = messages /\ upTo' = upTo /\ conn'[p] = s /\ start'[p] = 0
      /\ buffer'[s] = <<>> /\ next'[s] = start[p]
  BY DEF Connect, Listen, TypeOK, ClientTypeOK, QueueTypeOK
<1>2. AccumulatedWithoutHole(p)'
  BY <1>1 DEF PipelineOf, AccumulatedWithoutHole
<1>3. Below(p, upTo[p])'
  BY <1>1 DEF PipelineOf, Below, In
<1>4. BufferedWithoutHole(p, conn[p])' /\ FetchedWithoutHole(p, conn[p])'
  BY <1>1 DEF PipelineOf, BufferedWithoutHole, FetchedWithoutHole, In
<1> QED
  BY <1>1, <1>2, <1>3, <1>4 DEF PipelineOf

(* The steps of a process p keep its own pipeline.                         *)
LEMMA OwnPipeline ==
  ASSUME TypeOK, ConnectedWhenActive, DeliveryInv, NoSilentFailure, Next,
         NEW p \in Procs, ProcStep(p) \/ ProcDisturbed(p)
  PROVE  PipelineOf(p)'
<1>1. \A n : Settled(n) => Settled(n)'
  BY SettledGrows
<1>2. PipelineOf(p)
  BY DEF DeliveryInv, Pipeline
<1>3. CASE ReadStart(p)
  <2>1. /\ UNCHANGED <<messages, conn, upTo, buffer, next>>
        /\ start'[p] = clientRatchet
    BY <1>3 DEF ReadStart, queueVars, streamVars, TypeOK, ClientTypeOK
  <2>2. \A n \in 0..(start'[p] - 1) : Settled(n)'
    BY <1>1, <2>1 DEF DeliveryInv, RatchetIsSettled
  <2>3. AccumulatedWithoutHole(p)' /\ Below(p, upTo[p])'
    BY <1>1, <1>2, <2>1 DEF PipelineOf, AccumulatedWithoutHole, Below, In
  <2>4. conn'[p] # None => BufferedWithoutHole(p, conn[p])' /\ FetchedWithoutHole(p, conn[p])'
    BY <1>1, <1>2, <2>1 DEF PipelineOf, BufferedWithoutHole, FetchedWithoutHole, In
  <2> QED
    BY <2>2, <2>3, <2>4 DEF PipelineOf
<1>4. ASSUME NEW s \in Streams, Connect(p, s)
      PROVE  PipelineOf(p)'
  BY <1>1, <1>2, <1>4, PipelineConnected
<1>5. CASE ReceiveMessage(p) \/ DropMalformed(p)
  BY <1>1, <1>2, <1>5, PipelineReceived, PipelineDropped
<1>6. CASE ReceiveEmpty(p) \/ (ReceiveEnd(p) /\ p = "bg")
  <2>1. /\ UNCHANGED <<messages, conn, start, buffer, next>>
        /\ upTo'[p] = AckNumber(messages[p])
    BY <1>6 DEF ReceiveEmpty, EmitEmpty, ReceiveEnd, queueVars, streamVars, TypeOK,
                ClientTypeOK
  <2> QED
    BY <1>1, <1>2, <2>1, PipelineProcessing
<1>7. CASE ReceiveEnd(p) /\ p = "fg"
  <2>1. /\ UNCHANGED <<messages, upTo, start, buffer, next>>
        /\ conn'[p] = None
    BY <1>7 DEF ReceiveEnd, queueVars, streamVars, TypeOK, ClientTypeOK
  <2> QED
    BY <1>1, <1>2, <2>1, PipelineKept DEF Untouched
<1>8. CASE \/ SkipReplay(p) \/ HandleMessage(p) \/ RefuseMessage(p)
           \/ FailDecryption(p)
  <2>1. Processing(p) /\ MessageDone(p)
    BY <1>8 DEF SkipReplay, HandleMessage, RefuseMessage, FailDecryption
  <2>2. PICK h \in Nat : h = NextMessage(p)
    BY <2>1, HeadType
  <2>3. Settled(h)'
    <3>1. CASE SkipReplay(p)
      <4>1. h < clientRatchet /\ clientRatchet \in Nat
        BY <2>2, <3>1 DEF SkipReplay, TypeOK, ClientTypeOK
      <4> QED
        BY <1>1, <2>2, <4>1 DEF DeliveryInv, RatchetIsSettled
    <3>2. CASE HandleMessage(p)
      <4>1. handled' = Append(handled, h) /\ handled \in Seq(Nat)
        BY <2>2, <3>2 DEF HandleMessage, TypeOK, ClientTypeOK
      <4>2. Len(handled) + 1 \in DOMAIN handled' /\ handled'[Len(handled) + 1] = h
        BY <2>2, <4>1
      <4> QED
        BY <4>2 DEF Settled
    <3>3. CASE RefuseMessage(p) \/ FailDecryption(p)
      BY <2>2, <3>3 DEF RefuseMessage, FailDecryption, Settled
    <3> QED
      BY <1>8, <3>1, <3>2, <3>3
  <2> QED
    BY <1>1, <1>2, <2>1, <2>2, <2>3, PipelineProcessed
<1>9. CASE FailCommit(p)
  BY <1>9 DEF FailCommit, Disturb, NoSilentFailure
<1>10. CASE Finish(p)
  <2>1. /\ UNCHANGED <<messages, buffer, next>>
        /\ upTo'[p] = 0
        /\ start'[p] = start[p] \/ start'[p] = 0
        /\ conn'[p] = conn[p] \/ conn'[p] = None
    BY <1>10 DEF Finish, Leave, queueVars, streamVars, TypeOK, ClientTypeOK
  <2> QED
    BY <1>1, <1>2, <2>1, PipelineKept DEF Untouched
<1>11. CASE Abort(p) \/ Crash(p)
  <2>1. messages'[p] = <<>> /\ conn'[p] = None /\ upTo'[p] = 0 /\ start'[p] = 0
    BY <1>11 DEF Abort, Crash, Leave, TypeOK, ClientTypeOK
  <2> QED
    BY <2>1, PipelineForgotten
<1>12. CASE ConnectFails(p)
  <2>1. /\ UNCHANGED <<messages, upTo, buffer, next>>
        /\ start'[p] = 0 /\ conn'[p] = None
    BY <1>12 DEF ConnectFails, Leave, streamVars, TypeOK, ClientTypeOK
  <2> QED
    BY <1>1, <1>2, <2>1, PipelineKept DEF Untouched
<1>13. p = "fg" \/ p = "bg"
  BY ProcsAssumption
<1> QED
  BY <1>3, <1>4, <1>5, <1>6, <1>7, <1>8, <1>9, <1>10, <1>11, <1>12, <1>13
     DEF ProcStep, ProcDisturbed

(* A step of a process p leaves what another process q holds alone, and    *)
(* the stream of q as well, because p has a stream of its own.             *)
LEMMA OtherPipeline ==
  ASSUME TypeOK, ConnectedWhenActive, DeliveryInv, Next,
         NEW p \in Procs, ProcStep(p) \/ ProcDisturbed(p), NEW q \in Procs, q # p
  PROVE  PipelineOf(q)'
<1>1. \A n : Settled(n) => Settled(n)'
  BY SettledGrows
<1>2. PipelineOf(q)
  BY DEF DeliveryInv, Pipeline
<1>3. /\ messages'[q] = messages[q] /\ conn'[q] = conn[q]
      /\ upTo'[q] = upTo[q] /\ start'[q] = start[q]
  <2> USE DEF TypeOK, ClientTypeOK
  <2>1. CASE ReadStart(p) \/ \E s \in Streams : Connect(p, s)
    BY <2>1 DEF ReadStart, Connect
  <2>2. CASE ReceiveMessage(p) \/ DropMalformed(p) \/ ReceiveEmpty(p) \/ ReceiveEnd(p)
    BY <2>2 DEF ReceiveMessage, DropMalformed, ReceiveEmpty, ReceiveEnd
  <2>3. CASE \/ SkipReplay(p) \/ HandleMessage(p) \/ RefuseMessage(p)
             \/ FailDecryption(p) \/ FailCommit(p)
    <3>1. MessageDone(p)
      BY <2>3 DEF SkipReplay, HandleMessage, RefuseMessage, FailDecryption, FailCommit
    <3> QED
      BY <3>1 DEF MessageDone
  <2>4. CASE Finish(p) \/ Abort(p) \/ ConnectFails(p) \/ Crash(p)
    BY <2>4 DEF Finish, Abort, ConnectFails, Crash, Leave
  <2> QED
    BY <2>1, <2>2, <2>3, <2>4 DEF ProcStep, ProcDisturbed
<1>4. ASSUME conn[q] # None
      PROVE  Untouched(conn[q]) \/ Cleared(conn[q])
  <2>1. conn[q] \in Streams
    BY <1>4 DEF TypeOK, ClientTypeOK
  <2>2. CASE ReceiveMessage(p) \/ DropMalformed(p)
    <3>1. conn[p] \in Streams /\ conn[p] # conn[q]
      BY <1>4, <2>2 DEF ReceiveMessage, DropMalformed, ConnectedWhenActive, DeliveryInv, Attached
    <3> QED
      BY <2>1, <2>2, <3>1
         DEF ReceiveMessage, DropMalformed, EmitMessage, Untouched, TypeOK, QueueTypeOK
  <2>3. ASSUME NEW s \in Streams, Connect(p, s)
        PROVE  Untouched(conn[q])
    BY <2>1, <2>3 DEF Connect, Listen, Untouched, TypeOK, QueueTypeOK
  <2>4. CASE UNCHANGED <<buffer, next>>
    BY <2>4 DEF Untouched
  <2> QED
    BY <2>2, <2>3, <2>4
       DEF ProcStep, ProcDisturbed, ReadStart, ReceiveEmpty, EmitEmpty, ReceiveEnd,
           SkipReplay, HandleMessage, RefuseMessage, FailDecryption, FailCommit,
           MessageDone, Finish, Abort, ConnectFails, Crash, queueVars, streamVars
<1> QED
  BY <1>1, <1>2, <1>3, <1>4, PipelineKept

(* Every step keeps the pipelines without a hole.                          *)
LEMMA NextPipeline ==
  ASSUME TypeOK, ConnectedWhenActive, DeliveryInv, NoSilentFailure, Next
  PROVE  Pipeline'
<1> SUFFICES ASSUME NEW q \in Procs PROVE PipelineOf(q)'
  BY DEF Pipeline
<1>1. \A n : Settled(n) => Settled(n)'
  BY SettledGrows
<1>2. PipelineOf(q) /\ conn[q] \in Streams \union {None}
  BY DEF DeliveryInv, Pipeline, TypeOK, ClientTypeOK
<1>3. ASSUME NEW p \in Procs, ProcStep(p) \/ ProcDisturbed(p)
      PROVE  PipelineOf(q)'
  <2>1. CASE p = q
    BY <1>3, <2>1, OwnPipeline
  <2>2. CASE p # q
    BY <1>3, <2>2, OtherPipeline
  <2> QED
    BY <2>1, <2>2
<1>4. ASSUME NEW s \in Streams, FetchNextMessages(s), UNCHANGED clientVars
      PROVE  PipelineOf(q)'
  <2>1. CASE conn[q] = s
    BY <1>1, <1>4, <2>1, PipelineFetched
  <2>2. CASE conn[q] # s
    <3>1. /\ messages' = messages /\ conn' = conn /\ upTo' = upTo /\ start' = start
      BY <1>4 DEF clientVars
    <3>2. conn[q] # None => Untouched(conn[q])
      BY <1>2, <1>4, <2>2 DEF FetchNextMessages, Untouched, TypeOK, QueueTypeOK
    <3> QED
      BY <1>1, <1>2, <3>1, <3>2, PipelineKept
  <2> QED
    BY <2>1, <2>2
<1>5. ASSUME \A s \in Streams : Untouched(s) \/ Cleared(s),
             messages' = messages, upTo' = upTo,
             start'[q] = start[q] \/ start'[q] = 0,
             conn'[q] = conn[q] \/ conn'[q] = None
      PROVE  PipelineOf(q)'
  <2>1. conn[q] # None => Untouched(conn[q]) \/ Cleared(conn[q])
    BY <1>2, <1>5
  <2> QED
    BY <1>1, <1>2, <1>5, <2>1, PipelineKept
<1>6. \/ \E p \in Procs : ProcStep(p) \/ ProcDisturbed(p)
      \/ /\ messages' = messages /\ upTo' = upTo
         /\ start'[q] = start[q] \/ start'[q] = 0
         /\ conn'[q] = conn[q] \/ conn'[q] = None
  <2>1. CASE GoToBackground
    BY <2>1 DEF GoToBackground, Leave, TypeOK, ClientTypeOK
  <2>2. CASE UNCHANGED <<messages, upTo, start, conn>>
    BY <2>2
  <2>3. ASSUME NEW s \in Streams, Break(s) \/ NoticeLeft(s)
        PROVE  UNCHANGED <<messages, upTo, start, conn>>
    BY <2>3 DEF Break, NoticeLeft, clientVars
  <2>4. ASSUME NEW n \in acks, AckArrives(n) \/ AckLost(n)
        PROVE  UNCHANGED <<messages, upTo, start, conn>>
    BY <2>4 DEF AckArrives, AckLost
  <2>5. CASE ReplaceResponder \/ WakeUp \/ UNCHANGED clientVars
    BY <2>5 DEF ReplaceResponder, WakeUp, clientVars
  <2> QED
    BY <2>1, <2>2, <2>3, <2>4, <2>5 DEF Next
<1>7. ASSUME NEW p \in Procs,
             \/ ReceiveMessage(p) \/ DropMalformed(p)
             \/ \E s \in Streams : Connect(p, s)
      PROVE  PipelineOf(q)'
  BY <1>3, <1>7 DEF ProcStep, ProcDisturbed
<1> QED
  BY <1>3, <1>4, <1>5, <1>6, <1>7, StreamSteps

-----------------------------------------------------------------------------
(***************************************************************************)
(* The theorems.                                                           *)
(***************************************************************************)

(* DeliveryInv is an invariant of every configuration in which the         *)
(* client's ratchet transaction does not fail to commit and the background *)
(* handler meets no fatal database error: whatever the order of enqueues,  *)
(* listens, cancellations, disconnects, crashes, restarts, replays and     *)
(* lost acknowledgements.                                                  *)
THEOREM DeliveryInvariant ==
  ASSUME NoSilentFailure PROVE Spec => []DeliveryInv
<1>1. Init => DeliveryInv
  <2> SUFFICES ASSUME Init PROVE DeliveryInv
    OBVIOUS
  <2>1. Attached
    BY DEF Init, QueueInit, Attached
  <2>2. Pipeline
    BY DEF Init, QueueInit, Pipeline, PipelineOf, AccumulatedWithoutHole, Below
  <2> QED
    BY <2>1, <2>2
       DEF Init, QueueInit, DeliveryInv, RatchetIsSettled, AckedIsSettled, RowsAreSent,
           NoMessageLost
<1>2. TypeOK /\ ConnectedWhenActive /\ DeliveryInv /\ [Next]_vars => DeliveryInv'
  <2> SUFFICES ASSUME TypeOK, ConnectedWhenActive, DeliveryInv, [Next]_vars
               PROVE  DeliveryInv'
    OBVIOUS
  <2>1. CASE Next
    <3>1. Attached'
      BY <2>1, NextAttached DEF DeliveryInv
    <3>2. Pipeline'
      BY <2>1, NoSilentFailure, NextPipeline
    <3>3. RatchetIsSettled'
      BY <2>1, NextRatchet
    <3>4. AckedIsSettled'
      BY <2>1, NoSilentFailure, NextAcks
    <3>5. RowsAreSent' /\ NoMessageLost'
      BY <2>1, NextRows
    <3> QED
      BY <3>1, <3>2, <3>3, <3>4, <3>5 DEF DeliveryInv
  <2>2. CASE UNCHANGED vars
    <3> USE DEF DeliveryInv
    <3>1. /\ UNCHANGED <<ratchet, rows, fetchState, next, buffer>>
          /\ UNCHANGED <<clientRatchet, handled, dropped, mode, start, conn, messages, upTo,
                         acks>>
      BY <2>2 DEF vars, queueVars, clientVars, storeVars, streamVars
    <3>2. Attached'
      BY <3>1 DEF Attached
    <3>3. \A n : Settled(n) => Settled(n)'
      BY <3>1 DEF Settled
    <3>4. Pipeline'
      BY <3>1, <3>3, PipelineKept DEF Pipeline, Untouched
    <3>5. /\ RatchetIsSettled' /\ AckedIsSettled' /\ RowsAreSent' /\ NoMessageLost'
      BY <3>1, <3>3 DEF RatchetIsSettled, AckedIsSettled, RowsAreSent, NoMessageLost
    <3> QED
      BY <3>2, <3>4, <3>5
  <2> QED
    BY <2>1, <2>2
<1> QED
  BY <1>1, <1>2, TypeCorrect, PTL DEF Spec

(* No message is lost: every message ever enqueued is still in the queue   *)
(* or was settled by the client.                                           *)
THEOREM NothingLost ==
  ASSUME NoSilentFailure PROVE Spec => []NoMessageLost
<1>1. DeliveryInv => NoMessageLost
  BY DEF DeliveryInv
<1> QED
  BY <1>1, NoSilentFailure, DeliveryInvariant, PTL

(* The client's ratchet never skips a message: what lies between the       *)
(* ratchet and the message at hand is already settled.                     *)
THEOREM RatchetWithoutGap ==
  ASSUME NoSilentFailure PROVE Spec => []NoGap
<1>1. TypeOK /\ DeliveryInv => NoGap
  <2> SUFFICES ASSUME TypeOK, DeliveryInv, NEW p \in Procs, Processing(p),
                      NEW n \in clientRatchet..(NextMessage(p) - 1)
               PROVE  Settled(n)
    BY DEF NoGap
  <2>1. /\ messages[p] \in Seq(Nat) /\ messages[p] # <<>>
        /\ NextMessage(p) = messages[p][1] /\ NextMessage(p) \in Nat
        /\ clientRatchet \in Nat
    BY HeadType DEF TypeOK, ClientTypeOK
  <2>2. AccumulatedWithoutHole(p) /\ 1 \in DOMAIN messages[p]
    BY <2>1 DEF DeliveryInv, Pipeline, PipelineOf
  <2>3. n \in 0..(messages[p][1] - 1)
    BY <2>1
  <2> QED
    BY <2>2, <2>3 DEF AccumulatedWithoutHole
<1> QED
  BY <1>1, NoSilentFailure, DeliveryInvariant, TypeCorrect, PTL

(* Acknowledgements cover settled messages only.                           *)
THEOREM AcksAreSafe ==
  ASSUME NoSilentFailure PROVE Spec => []AckedIsSettled
<1>1. DeliveryInv => AckedIsSettled
  BY DEF DeliveryInv
<1> QED
  BY <1>1, NoSilentFailure, DeliveryInvariant, PTL

-----------------------------------------------------------------------------
(***************************************************************************)
(* The service composed with the device.  The invariants of QsQueue were   *)
(* proved for clients that do as they like; the device is one of them.     *)
(***************************************************************************)

\* The two processes are a client that the queue allows for.
LEMMA DeviceIsClient ==
  ASSUME TypeOK, ConnectedWhenActive, [Next]_vars
  PROVE  AnyQueueStep
<1> DEFINE Quiet == UNCHANGED <<storeVars, registryVars, fetchState, next, cancelled, noted, armed>>
<1>1. CASE ServerStep
  BY <1>1 DEF AnyQueueStep
<1>2. ASSUME NEW p \in Procs, NEW s \in Streams, Connect(p, s)
      PROVE  AnyQueueStep
  BY <1>2 DEF Connect, AnyQueueStep, TypeOK, ClientTypeOK
<1>3. ASSUME NEW p \in Procs, ProcStep(p) \/ ProcDisturbed(p)
      PROVE  Quiet \/ \E s \in Streams : Connect(p, s)
  BY <1>3 DEF ProcStep, ProcDisturbed, ReadStart, ReceiveMessage, EmitMessage, ReceiveEmpty,
              EmitEmpty, ReceiveEnd, SkipReplay, HandleMessage, RefuseMessage, FailDecryption,
              FailCommit, MessageDone, Finish, Abort, ConnectFails, Crash, DropMalformed,
              queueVars, streamVars
<1>4. ASSUME NEW s \in Streams, Break(s) \/ NoticeLeft(s)
      PROVE  AnyQueueStep
  BY <1>4 DEF Break, NoticeLeft, Drop, AnyQueueStep
<1>5. ASSUME NEW n \in acks, AckArrives(n)
      PROVE  AnyQueueStep
  BY <1>5 DEF AckArrives, AnyQueueStep, TypeOK, ClientTypeOK
<1>6. ASSUME \/ ReplaceResponder \/ WakeUp \/ GoToBackground \/ UNCHANGED vars
             \/ \E n \in acks : AckLost(n)
      PROVE  Quiet
  BY <1>6 DEF ReplaceResponder, WakeUp, GoToBackground, AckLost, vars, queueVars, streamVars
<1>7. Quiet => AnyQueueStep
  BY DEF AnyQueueStep
<1> HIDE DEF Quiet
<1> QED
  BY <1>1, <1>2, <1>3, <1>4, <1>5, <1>6, <1>7 DEF Next

(* Composed with the processes of a device, the service keeps its          *)
(* invariants: a gapless table, one owner, LISTEN in step with the         *)
(* registry, and no lost wakeup while LISTEN is in effect.                 *)
THEOREM QueueKeepsItsPromises ==
  Spec => [](QueueWindow /\ NewestListens /\ ListenFollowsRegistry /\ WokenWhileListening)
<1>1. Init => QueueInv
  BY QueueInvInit DEF Init
<1>2. TypeOK /\ ConnectedWhenActive /\ QueueInv /\ [Next]_vars => QueueInv'
  BY DeviceIsClient, QueueInvKept DEF TypeOK
<1>3. QueueInv => QueueWindow /\ NewestListens /\ ListenFollowsRegistry /\ WokenWhileListening
  BY DEF QueueInv
<1> QED
  BY <1>1, <1>2, <1>3, TypeCorrect, PTL DEF Spec

-----------------------------------------------------------------------------
(***************************************************************************)
(* Queue and device implement ReliableQueue, when every message can be     *)
(* read.  Then what is settled is exactly what the ratchet has passed, and *)
(* the next message at hand that is not a replay is the one the ratchet    *)
(* expects.                                                                *)
(***************************************************************************)

\* No message is dropped unread: it can be converted and decrypts.
EveryMessageReadable ==
  NoSilentFailure /\ "malformed" \notin Disturbances /\ "decrypt" \notin Disturbances

\* What is in a stream was sent.
BufferedIsSent == \A s \in Streams : \A i \in DOMAIN buffer[s] : buffer[s][i] < ratchet

\* What a process has accumulated was sent.
AccumulatedIsSent == \A p \in Procs : \A i \in DOMAIN messages[p] : messages[p][i] < ratchet

\* What is settled lies before the ratchet of the client.
SettledIsPassed ==
  /\ clientRatchet <= ratchet
  /\ \A n : Settled(n) => n \in 0..(clientRatchet - 1)

\* What the refinement needs besides the invariant of the delivery.
RefinementInv == BufferedIsSent /\ AccumulatedIsSent /\ SettledIsPassed

\* The ratchet of the queue only moves on.
LEMMA RatchetGrows ==
  ASSUME TypeOK, Next
  PROVE  ratchet' \in Nat /\ ratchet' >= ratchet
  BY RowSteps DEF Enqueue, AckArrives, Ack, TypeOK, QueueTypeOK

(* Taking the first element leaves elements of the sequence.               *)
LEMMA TailElements ==
  ASSUME NEW q \in Seq(Nat), q # <<>>
  PROVE  /\ \A i \in DOMAIN Tail(q) : \E j \in DOMAIN q : Tail(q)[i] = q[j]
         /\ \E j \in DOMAIN q : Head(q) = q[j]
<1>1. \A i \in DOMAIN Tail(q) : i + 1 \in DOMAIN q /\ Tail(q)[i] = q[i + 1]
  OBVIOUS
<1>2. 1 \in DOMAIN q /\ Head(q) = q[1]
  OBVIOUS
<1> QED
  BY <1>1, <1>2

\* Streams are filled with rows that were sent.
LEMMA BuffersSent ==
  ASSUME TypeOK, ConnectedWhenActive, RowsAreSent, BufferedIsSent, Next
  PROVE  BufferedIsSent'
<1> DEFINE Goal(s) == \A i \in DOMAIN buffer'[s] : buffer'[s][i] < ratchet'
<1>0. ratchet \in Nat /\ ratchet' \in Nat /\ ratchet' >= ratchet
  BY RatchetGrows DEF TypeOK, QueueTypeOK
<1>1. ASSUME NEW s \in Streams,
             \A i \in DOMAIN buffer'[s] :
               \/ \E j \in DOMAIN buffer[s] : buffer'[s][i] = buffer[s][j]
               \/ buffer'[s][i] \in rows
      PROVE  Goal(s)
  <2> SUFFICES ASSUME NEW i \in DOMAIN buffer'[s]
               PROVE  buffer'[s][i] < ratchet'
    OBVIOUS
  <2>1. PICK n \in Nat : n = buffer'[s][i] /\ n < ratchet
    <3>1. \A j \in DOMAIN buffer[s] : buffer[s][j] \in Nat /\ buffer[s][j] < ratchet
      BY DEF BufferedIsSent, TypeOK, QueueTypeOK
    <3>2. \A n \in rows : n \in Nat /\ n < ratchet
      BY DEF RowsAreSent, TypeOK, QueueTypeOK
    <3> QED
      BY <1>1, <3>1, <3>2
  <2> QED
    BY <1>0, <2>1
<1>2. ASSUME NEW s \in Streams, buffer'[s] = buffer[s] \/ buffer'[s] = <<>>
      PROVE  Goal(s)
  BY <1>1, <1>2
<1>3. ASSUME NEW s \in Streams, buffer[s] # <<>>, buffer'[s] = Tail(buffer[s])
      PROVE  Goal(s)
  <2>1. buffer[s] \in Seq(Nat)
    BY DEF TypeOK, QueueTypeOK
  <2>2. \A i \in DOMAIN Tail(buffer[s]) : \E j \in DOMAIN buffer[s] : Tail(buffer[s])[i] = buffer[s][j]
    BY <1>3, <2>1, TailElements
  <2>3. \A i \in DOMAIN buffer'[s] : \E j \in DOMAIN buffer[s] : buffer'[s][i] = buffer[s][j]
    BY <1>3, <2>2, Zenon
  <2> QED
    BY <1>1, <2>3
<1>4. ASSUME NEW q \in Streams, FetchNextMessages(q), NEW s \in Streams
      PROVE  Goal(s)
  <2>1. PICK b \in BoundedSeq(rows, MaxBuffer) : buffer' = [buffer EXCEPT ![q] = b]
    BY <1>4 DEF FetchNextMessages
  <2>2. \A i \in DOMAIN b : b[i] \in rows
    BY BatchType DEF TypeOK, QueueTypeOK
  <2>3. CASE s = q
    BY <1>1, <2>1, <2>2, <2>3 DEF TypeOK, QueueTypeOK
  <2>4. CASE s # q
    BY <1>2, <2>1, <2>4 DEF TypeOK, QueueTypeOK
  <2> QED
    BY <2>3, <2>4
<1> DEFINE Small == \A s \in Streams : \/ buffer'[s] = buffer[s] \/ buffer'[s] = <<>>
                                       \/ buffer[s] # <<>> /\ buffer'[s] = Tail(buffer[s])
<1>5. Next => Small \/ \E q \in Streams : FetchNextMessages(q)
  <2>1. ServerStep => Small \/ \E q \in Streams : FetchNextMessages(q)
    BY DEF ServerStep, Enqueue, Prune, PgStep, PgCommand, PgNotification, PgLoss, PgCommandFails, StreamStep,
           Begin, Stop, StartQuery, Wake, FetchError, Restart, DropStreams, streamVars
  <2>2. ASSUME NEW p \in Procs, ReceiveMessage(p) \/ DropMalformed(p)
        PROVE  Small
    BY <2>2 DEF ReceiveMessage, EmitMessage, DropMalformed, ConnectedWhenActive, TypeOK, QueueTypeOK
  <2>3. ASSUME NEW p \in Procs, NEW s \in Streams, Connect(p, s)
        PROVE  Small
    BY <2>3 DEF Connect, Listen, TypeOK, QueueTypeOK
  <2>4. ASSUME NEW p \in Procs, ProcStep(p) \/ ProcDisturbed(p)
        PROVE  Small
    <3>1. \/ UNCHANGED buffer \/ ReceiveMessage(p) \/ DropMalformed(p)
          \/ \E s \in Streams : Connect(p, s)
      BY <2>4 DEF ProcStep, ProcDisturbed, ReadStart, ReceiveEmpty, EmitEmpty, ReceiveEnd,
                  SkipReplay, HandleMessage, RefuseMessage, FailDecryption, FailCommit,
                  MessageDone, Finish, Abort, ConnectFails, Crash, queueVars, streamVars
    <3> QED
      BY <2>2, <2>3, <3>1
  <2>5. ASSUME NEW s \in Streams, Break(s) \/ NoticeLeft(s)
        PROVE  Small
    BY <2>5 DEF Break, NoticeLeft, Drop, DropStreams
  <2>6. ReplaceResponder \/ WakeUp \/ GoToBackground \/ (\E n \in acks : AckArrives(n) \/ AckLost(n))
          => Small
    BY DEF ReplaceResponder, WakeUp, GoToBackground, AckArrives, Ack, AckLost, queueVars, streamVars
  <2> HIDE DEF Small
  <2> QED
    BY <2>1, <2>4, <2>5, <2>6 DEF Next
<1> HIDE DEF Goal
<1>6. \A s \in Streams : Goal(s)
  BY <1>2, <1>3, <1>4, <1>5
<1> QED
  BY <1>6 DEF Goal, BufferedIsSent

\* Processes accumulate what a stream emits.
LEMMA MessagesSent ==
  ASSUME TypeOK, ConnectedWhenActive, BufferedIsSent, AccumulatedIsSent, Next
  PROVE  AccumulatedIsSent'
<1>0. ratchet \in Nat /\ ratchet' \in Nat /\ ratchet' >= ratchet
  BY RatchetGrows DEF TypeOK, QueueTypeOK
<1> DEFINE Goal(p) == \A i \in DOMAIN messages'[p] : messages'[p][i] < ratchet'
           Small(p) == \/ messages'[p] = messages[p] \/ messages'[p] = <<>>
                       \/ messages[p] # <<>> /\ messages'[p] = Tail(messages[p])
<1>1. ASSUME NEW p \in Procs, Small(p)
      PROVE  Goal(p)
  <2> SUFFICES ASSUME NEW i \in DOMAIN messages'[p]
               PROVE  messages'[p][i] < ratchet'
    OBVIOUS
  <2>1. messages[p] \in Seq(Nat)
    BY DEF TypeOK, ClientTypeOK
  <2>2. \E j \in DOMAIN messages[p] : messages'[p][i] = messages[p][j]
    <3>1. CASE messages'[p] = messages[p] \/ messages'[p] = <<>>
      BY <3>1
    <3>2. CASE messages[p] # <<>> /\ messages'[p] = Tail(messages[p])
      <4>1. \A k \in DOMAIN Tail(messages[p]) :
              \E j \in DOMAIN messages[p] : Tail(messages[p])[k] = messages[p][j]
        BY <2>1, <3>2, TailElements
      <4> QED
        BY <3>2, <4>1, Zenon
    <3> QED
      BY <1>1, <3>1, <3>2
  <2>3. PICK n \in Nat : n = messages'[p][i] /\ n < ratchet
    BY <2>1, <2>2 DEF AccumulatedIsSent
  <2> QED
    BY <1>0, <2>3
<1>2. ASSUME NEW p \in Procs, ReceiveMessage(p)
      PROVE  Goal(p)
  <2>1. conn[p] \in Streams /\ EmitMessage(conn[p])
    BY <1>2 DEF ReceiveMessage, ConnectedWhenActive
  <2>2. buffer[conn[p]] \in Seq(Nat) /\ buffer[conn[p]] # <<>>
    BY <2>1 DEF EmitMessage, TypeOK, QueueTypeOK
  <2>3. PICK n \in Nat : n = Head(buffer[conn[p]]) /\ n < ratchet
    <3>1. Head(buffer[conn[p]]) \in Nat
      BY <2>2
    <3>2. Head(buffer[conn[p]]) < ratchet
      BY <2>1, <2>2, TailElements DEF BufferedIsSent
    <3> QED
      BY <3>1, <3>2
  <2>4. messages[p] \in Seq(Nat) /\ messages'[p] = Append(messages[p], n)
    BY <1>2, <2>3 DEF ReceiveMessage, TypeOK, ClientTypeOK
  <2> SUFFICES ASSUME NEW i \in DOMAIN messages'[p]
               PROVE  messages'[p][i] < ratchet'
    OBVIOUS
  <2>5. messages'[p][i] = n \/ (i \in DOMAIN messages[p] /\ messages'[p][i] = messages[p][i])
    BY <2>4
  <2>6. PICK k \in Nat : k = messages'[p][i] /\ k < ratchet
    BY <2>3, <2>4, <2>5 DEF AccumulatedIsSent
  <2> QED
    BY <1>0, <2>6
<1>3. ASSUME NEW p \in Procs, ProcStep(p) \/ ProcDisturbed(p)
      PROVE  \A q \in Procs : Goal(q)
  <2>1. \A q \in Procs \ {p} : messages'[q] = messages[q]
    BY <1>3 DEF ProcStep, ProcDisturbed, ReadStart, Connect, ReceiveMessage, ReceiveEmpty,
                ReceiveEnd, SkipReplay, HandleMessage, RefuseMessage, FailDecryption, FailCommit,
                MessageDone, Finish, Abort, ConnectFails, Crash, DropMalformed, TypeOK, ClientTypeOK
  <2>2. Small(p) \/ ReceiveMessage(p)
    BY <1>3 DEF ProcStep, ProcDisturbed, ReadStart, Connect, ReceiveEmpty, ReceiveEnd,
                SkipReplay, HandleMessage, RefuseMessage, FailDecryption, FailCommit, Processing,
                MessageDone, Finish, Abort, ConnectFails, Crash, DropMalformed, TypeOK, ClientTypeOK
  <2>3. \A q \in Procs \ {p} : Small(q)
    BY <2>1
  <2> HIDE DEF Small, Goal
  <2> QED
    BY <1>1, <1>2, <2>2, <2>3
<1>4. ASSUME UNCHANGED messages
      PROVE  \A q \in Procs : Goal(q)
  BY <1>1, <1>4
<1>5. \A q \in Procs : Goal(q)
  <2> HIDE DEF Goal
  <2> QED
    BY <1>3, <1>4 DEF Next, clientVars, ReplaceResponder, WakeUp, GoToBackground, Break,
                      NoticeLeft, AckArrives, AckLost
<1> QED
  BY <1>5 DEF AccumulatedIsSent

(* The message at hand, unless it is a replay, is the one that the ratchet *)
(* expects.                                                                *)
LEMMA NextIsExpected ==
  ASSUME TypeOK, DeliveryInv, RefinementInv, NEW p \in Procs, Processing(p),
         NextMessage(p) >= clientRatchet
  PROVE  NextMessage(p) = clientRatchet /\ clientRatchet < ratchet
<1>1. /\ messages[p] \in Seq(Nat) /\ messages[p] # <<>>
      /\ NextMessage(p) = messages[p][1] /\ NextMessage(p) \in Nat
      /\ clientRatchet \in Nat /\ ratchet \in Nat
  BY HeadType DEF TypeOK, ClientTypeOK, QueueTypeOK
<1>2. AccumulatedWithoutHole(p) /\ 1 \in DOMAIN messages[p]
  BY <1>1 DEF DeliveryInv, Pipeline, PipelineOf
<1>3. \A n \in 0..(NextMessage(p) - 1) : Settled(n)
  BY <1>1, <1>2 DEF AccumulatedWithoutHole
<1>4. NextMessage(p) <= clientRatchet
  <2> SUFFICES ASSUME clientRatchet < NextMessage(p) PROVE FALSE
    BY <1>1
  <2>1. Settled(clientRatchet)
    BY <1>1, <1>3
  <2>2. clientRatchet \in 0..(clientRatchet - 1)
    BY <2>1 DEF RefinementInv, SettledIsPassed
  <2> QED
    BY <1>1, <2>2
<1>5. NextMessage(p) < ratchet
  BY <1>1, <1>2 DEF RefinementInv, AccumulatedIsSent
<1> QED
  BY <1>1, <1>4, <1>5

(* Processing a message settles it and nothing else.                       *)
LEMMA SettlesOne ==
  ASSUME TypeOK, NEW p \in Procs, HandleMessage(p) \/ RefuseMessage(p)
  PROVE  \A n : Settled(n)' <=> Settled(n) \/ n = NextMessage(p)
<1>1. CASE HandleMessage(p)
  <2> DEFINE h == NextMessage(p)
  <2>1. /\ handled \in Seq(Nat) /\ h \in Nat
        /\ handled' = Append(handled, h) /\ dropped' = dropped
    BY <1>1, HeadType DEF HandleMessage, TypeOK, ClientTypeOK
  <2> HIDE DEF h
  <2>2. \A n : (\E i \in DOMAIN handled' : handled'[i] = n)
              <=> (\E i \in DOMAIN handled : handled[i] = n) \/ n = h
    <3>1. /\ DOMAIN handled' = 1..(Len(handled) + 1) /\ DOMAIN handled = 1..Len(handled)
          /\ \A i \in 1..Len(handled) : handled'[i] = handled[i]
          /\ handled'[Len(handled) + 1] = h /\ Len(handled) \in Nat
      BY <2>1
    <3>2. \A i : i \in 1..(Len(handled) + 1) <=> i \in 1..Len(handled) \/ i = Len(handled) + 1
      BY <3>1
    <3> QED
      BY <3>1, <3>2, Zenon
  <2> QED
    BY <2>1, <2>2 DEF Settled, h
<1>2. CASE RefuseMessage(p)
  BY <1>2 DEF RefuseMessage, Settled
<1> QED
  BY <1>1, <1>2

(* A step either leaves the database alone or handles or refuses the       *)
(* expected message.                                                       *)
LEMMA ReadableSteps ==
  ASSUME EveryMessageReadable, TypeOK, DeliveryInv, RefinementInv, Next
  PROVE  \/ UNCHANGED dbVars
         \/ \E p \in Procs :
              /\ HandleMessage(p) \/ RefuseMessage(p)
              /\ NextMessage(p) = clientRatchet /\ clientRatchet < ratchet
              /\ clientRatchet' = clientRatchet + 1
              /\ UNCHANGED ratchet
<1>1. ~\E p \in Procs : FailDecryption(p) \/ DropMalformed(p)
  BY DEF EveryMessageReadable, FailDecryption, DropMalformed, Disturb
<1>2. ASSUME NEW p \in Procs, HandleMessage(p) \/ RefuseMessage(p)
      PROVE  /\ NextMessage(p) = clientRatchet /\ clientRatchet < ratchet
             /\ clientRatchet' = clientRatchet + 1 /\ UNCHANGED ratchet
  <2>1. /\ Processing(p) /\ NextMessage(p) >= clientRatchet
        /\ clientRatchet' = NextMessage(p) + 1 /\ UNCHANGED ratchet
    BY <1>2 DEF HandleMessage, RefuseMessage, MessageDone, storeVars
  <2> QED
    BY <2>1, NextIsExpected
<1> QED
  BY <1>1, <1>2, DatabaseSteps

\* A message is settled when the ratchet moves past it, or stays behind it.
LEMMA SettledPassed ==
  ASSUME EveryMessageReadable, TypeOK, DeliveryInv, RefinementInv, Next
  PROVE  SettledIsPassed'
<1>1. /\ ratchet \in Nat /\ ratchet' \in Nat /\ ratchet' >= ratchet /\ clientRatchet \in Nat
      /\ clientRatchet <= ratchet
      /\ \A n : Settled(n) => n \in 0..(clientRatchet - 1)
  BY RatchetGrows DEF TypeOK, QueueTypeOK, ClientTypeOK, RefinementInv, SettledIsPassed
<1>2. CASE UNCHANGED dbVars
  <2>1. clientRatchet' = clientRatchet /\ \A n : Settled(n)' <=> Settled(n)
    BY <1>2 DEF dbVars, Settled
  <2> QED
    BY <1>1, <2>1 DEF SettledIsPassed
<1>3. ASSUME NEW p \in Procs, HandleMessage(p) \/ RefuseMessage(p),
             NextMessage(p) = clientRatchet, clientRatchet < ratchet,
             clientRatchet' = clientRatchet + 1
      PROVE  SettledIsPassed'
  <2>1. \A n : Settled(n)' <=> Settled(n) \/ n = clientRatchet
    BY <1>3, SettlesOne
  <2>2. \A n : Settled(n)' => n \in 0..clientRatchet
    BY <1>1, <2>1
  <2>3. 0..clientRatchet = 0..(clientRatchet' - 1) /\ clientRatchet' <= ratchet'
    BY <1>1, <1>3
  <2> QED
    BY <2>2, <2>3 DEF SettledIsPassed
<1> QED
  BY <1>2, <1>3, ReadableSteps

\* The invariant of the refinement, by induction.
LEMMA RefinementInvariant ==
  ASSUME EveryMessageReadable PROVE Spec => []RefinementInv
<1>1. Init => RefinementInv
  BY DEF Init, QueueInit, RefinementInv, BufferedIsSent, AccumulatedIsSent, SettledIsPassed, Settled
<1>2. TypeOK /\ ConnectedWhenActive /\ DeliveryInv /\ RefinementInv /\ [Next]_vars
        => RefinementInv'
  <2> SUFFICES ASSUME TypeOK, ConnectedWhenActive, DeliveryInv, RefinementInv, [Next]_vars
               PROVE  RefinementInv'
    OBVIOUS
  <2>1. CASE Next
    <3>1. BufferedIsSent'
      BY <2>1, BuffersSent DEF DeliveryInv, RefinementInv
    <3>2. AccumulatedIsSent'
      BY <2>1, MessagesSent DEF RefinementInv
    <3>3. SettledIsPassed'
      BY <2>1, EveryMessageReadable, SettledPassed
    <3> QED
      BY <3>1, <3>2, <3>3 DEF RefinementInv
  <2>2. CASE UNCHANGED vars
    <3>1. UNCHANGED <<ratchet, buffer, clientRatchet, handled, dropped, messages>>
      BY <2>2 DEF vars, queueVars, storeVars, streamVars, clientVars
    <3> QED
      BY <3>1 DEF RefinementInv, BufferedIsSent, AccumulatedIsSent, SettledIsPassed, Settled
  <2> QED
    BY <2>1, <2>2
<1>3. NoSilentFailure
  BY EveryMessageReadable DEF EveryMessageReadable
<1> QED
  BY <1>1, <1>2, <1>3, TypeCorrect, DeliveryInvariant, PTL DEF Spec

\* What is settled is what the ratchet has passed.
SettledIsPrefix == SettledSet = 0..(clientRatchet - 1)

\* With it, what is settled is everything before the ratchet.
LEMMA PrefixFromInv ==
  TypeOK /\ DeliveryInv /\ RefinementInv => SettledIsPrefix
  BY DEF SettledSet, TypeOK, QueueTypeOK, ClientTypeOK, DeliveryInv, RatchetIsSettled,
         RefinementInv, SettledIsPassed, SettledIsPrefix

(* The queue service, the two processes and the network implement the      *)
(* reliable queue: the device settles the messages one by one in the order *)
(* in which they were sent, each exactly once (fully_process_qs_messages   *)
(* and everything that leads up to it).                                    *)
THEOREM DeliveryIsReliable ==
  ASSUME EveryMessageReadable PROVE Spec => ReliableDelivery
<1> USE EveryMessageReadable
<1>1. Init => RQ!RQInit
  BY DEF Init, QueueInit, RQ!RQInit, SettledSet
<1>2. /\ TypeOK /\ DeliveryInv /\ RefinementInv /\ SettledIsPrefix /\ SettledIsPrefix'
      /\ [Next]_vars
      => [RQ!RQNext]_(RQ!queue)
  <2> SUFFICES ASSUME TypeOK, DeliveryInv, RefinementInv, SettledIsPrefix, SettledIsPrefix',
                      [Next]_vars
               PROVE  RQ!RQNext \/ UNCHANGED RQ!queue
    OBVIOUS
  <2>1. SettledSet = 0..(clientRatchet - 1) /\ SettledSet' = 0..(clientRatchet' - 1)
    BY DEF SettledIsPrefix
  <2>2. ratchet \in Nat /\ clientRatchet \in Nat
    BY DEF TypeOK, QueueTypeOK, ClientTypeOK
  <2>3. CASE UNCHANGED <<ratchet, dbVars>>
    BY <2>1, <2>3 DEF dbVars, RQ!queue
  <2>4. CASE Enqueue /\ UNCHANGED dbVars
    <3>1. ratchet' = ratchet + 1 /\ SettledSet' = SettledSet /\ handled' = handled
      BY <2>1, <2>4 DEF Enqueue, dbVars
    <3> QED
      BY <3>1 DEF RQ!RQNext, RQ!Send
  <2>5. ASSUME NEW p \in Procs, HandleMessage(p) \/ RefuseMessage(p),
               NextMessage(p) = clientRatchet, clientRatchet < ratchet,
               clientRatchet' = clientRatchet + 1, UNCHANGED ratchet
        PROVE  RQ!RQNext
    <3>1. clientRatchet \in 0..(ratchet - 1) /\ RQ!Settle(clientRatchet)
      BY <2>1, <2>2, <2>5 DEF RQ!Settle
    <3>2. handled' = Append(handled, clientRatchet) \/ handled' = handled
      BY <2>5 DEF HandleMessage, RefuseMessage
    <3> QED
      BY <3>1, <3>2 DEF RQ!RQNext, RQ!Receive, RQ!Refuse
  <2>6. CASE UNCHANGED vars
    BY <2>3, <2>6 DEF vars, queueVars, storeVars, clientVars, dbVars
  <2>7. CASE Next
    <3>1. CASE UNCHANGED dbVars
      BY <2>3, <2>4, <2>7, <3>1, RowSteps DEF AckArrives, Ack
    <3> QED
      BY <2>5, <2>7, <3>1, ReadableSteps
  <2> QED
    BY <2>6, <2>7
<1>3. NoSilentFailure
  BY DEF EveryMessageReadable
<1> QED
  BY <1>1, <1>2, <1>3, TypeCorrect, DeliveryInvariant, RefinementInvariant, PrefixFromInv, PTL
     DEF Spec, ReliableDelivery, RQ!RQSpec
=============================================================================
