--------------------------- MODULE EventStreamProofs ---------------------------
(* What TLAPS proves of EventStream for every bound, page size and set of        *)
(* Engines: the type invariant, and that a ready renderer shows Serve's log. Of   *)
(* a connection while it recovers: one call is outstanding at a time, no event is *)
(* lost between the replay and the live stream and no snapshot is older than the  *)
(* cursor. And, when each connection ends before the next one opens: the cursor   *)
(* in localStorage only advances, a recovery that needs no snapshot has delivered *)
(* exactly what it says, and the renderer implements the ordered feed.            *)
EXTENDS EventStream, TLAPS, FiniteSetTheorems, SequenceTheorems

--------------------------------------------------------------------------------
(* What the buffer operators return *)

\* drainEventFrames delivers frames of its buffer, numbered from the cursor on.
LEMMA RunFact ==
  ASSUME NEW c \in Client, NEW k \in Nat, IsRun(c, k)
  PROVE  /\ Run(c, k) \in Seq(Event)
         /\ Len(Run(c, k)) = k
         /\ \A i \in 1..k : Run(c, k)[i] \in c.frames /\ Run(c, k)[i].seq = c.cursor + i
         /\ k # 0 => c.streamId # NoStream
<1>1. c.frames \subseteq Event /\ c.cursor \in Nat
  BY DEF Client
<1>2. k # 0 => c.streamId # NoStream /\ \A i \in 1..k : HasFrame(c.frames, c.cursor + i)
  BY DEF IsRun
<1>3. \A i \in 1..k : /\ FrameAt(c.frames, c.cursor + i) \in c.frames
                      /\ FrameAt(c.frames, c.cursor + i).seq = c.cursor + i
  BY <1>2 DEF HasFrame, FrameAt
<1> QED
  BY <1>1, <1>2, <1>3 DEF Run

\* Draining keeps the client a client.
LEMMA DrainedType ==
  ASSUME NEW c \in Client, NEW k \in Nat
  PROVE  Drained(c, k) \in Client
<1>1. {f \in c.frames : f.seq \notin c.cursor + 1 .. c.cursor + k} \in SUBSET Event
  BY DEF Client
<1>2. c.cursor + k \in Nat
  BY DEF Client
<1> QED
  BY <1>1, <1>2 DEF Client, Drained

\* So does the end of a recovery, complete or abandoned.
LEMMA RecoveredType ==
  ASSUME NEW c \in Client, NEW n \in Nat
  PROVE  Recovered(c) \in Client /\ Abandoned(c, n) \in Client
BY DEF Client, Recovered, Abandoned

\* A rejected call leaves a client, and keeps its stream.
LEMMA AfterRejectionType ==
  ASSUME NEW c \in Client, NEW p
  PROVE  AfterRejection(c, p) \in Client /\ AfterRejection(c, p).streamId = c.streamId
<1>1. c.latest \in Nat
  BY DEF Client
<1>2. Recovered(Abandoned(c, c.latest)) \in Client
  BY <1>1, RecoveredType
<1>3. Recovered(Abandoned(c, c.latest)).streamId = c.streamId
  BY DEF Recovered, Abandoned, Client
<1>4. [c EXCEPT !.recovering = FALSE] \in Client
  BY DEF Client
<1>5. [c EXCEPT !.recovering = FALSE].streamId = c.streamId
  BY DEF Client
<1>6. CASE p = "replaying"
  BY <1>2, <1>3, <1>6 DEF AfterRejection
<1>7. CASE p = "snapshotting"
  BY <1>4, <1>5, <1>7 DEF AfterRejection
<1>8. CASE p # "replaying" /\ p # "snapshotting"
  BY <1>8 DEF AfterRejection
<1> QED
  BY <1>6, <1>7, <1>8

\* Only a client with a stream writes the stored cursor.
LEMMA StoredAfterType ==
  ASSUME NEW c \in Client, NEW k \in Nat, k # 0 => c.streamId # NoStream,
         NEW before \in Cursor
  PROVE  StoredAfter(c, k, before) \in Cursor
BY DrainedType DEF StoredAfter, CursorOf, Drained, Client, Cursor, Stream

\* The step that ends in a drain keeps the types.
LEMMA FinishType ==
  ASSUME NEW c \in Client, NEW k \in Nat, NEW before \in Cursor, NEW a \in View,
         Finish(c, k, a, before)
  PROVE  /\ client' \in Client
         /\ app' \in View
         /\ stored' \in Cursor
<1>1. IsRun(c, k)
  BY DEF Finish
<1>2. Run(c, k) \in Seq(Event) /\ (k # 0 => c.streamId # NoStream)
  BY <1>1, RunFact
<1>3. client' \in Client
  BY DrainedType DEF Finish
<1>4. a.tail \o Run(c, k) \in Seq(Event)
  BY <1>2 DEF View
<1>5. app' \in View
  BY <1>4 DEF Finish, Applied, View
<1>6. stored' \in Cursor
  BY <1>2, StoredAfterType DEF Finish
<1> QED
  BY <1>3, <1>5, <1>6

\* What the close of a connection leaves of a client's pending call.
LEMMA RejectionType ==
  ASSUME NEW c \in Client, NEW p, NEW k \in Nat, NEW before \in Cursor,
         Released(c, p, k), p = "replaying" => c.streamId # NoStream
  PROVE  /\ Run(AfterRejection(c, p), k) \in Seq(Event)
         /\ StoredAfter(AfterRejection(c, p), k, StoredAtRejection(c, p, before)) \in Cursor
<1> DEFINE r == AfterRejection(c, p)
<1>1. r \in Client /\ r.streamId = c.streamId
  BY AfterRejectionType
<1>2. StoredAtRejection(c, p, before) \in Cursor
  BY <1>1 DEF StoredAtRejection, CursorOf, Client, Cursor
<1>3. k = 0 \/ IsRun(r, k)
  BY DEF Released
<1>4. Run(r, k) \in Seq(Event) /\ (k # 0 => r.streamId # NoStream)
  BY <1>1, <1>3, RunFact DEF Run
<1>5. StoredAfter(r, k, StoredAtRejection(c, p, before)) \in Cursor
  BY <1>1, <1>2, <1>4, StoredAfterType
<1> QED
  BY <1>4, <1>5

\* A new client, cleared surfaces and an idle connection have their types.
LEMMA FreshType ==
  /\ FreshClient \in Client
  /\ ClearedApp \in View
  /\ NoWork \in Work
  /\ NoCursor \in Cursor
<1>1. <<>> \in Logs /\ <<>> \in Seq(Event)
  BY DEF Logs
<1> QED
  BY <1>1 DEF FreshClient, ClearedApp, NoWork, Work, Client, View, Cursor, NoStream, NoSequence,
              Stream

\* The view with more events is a view.
LEMMA AppliedType ==
  ASSUME NEW a \in View, NEW events \in Seq(Event)
  PROVE  Applied(a, events) \in View
<1>1. a.tail \o events \in Seq(Event)
  BY DEF View
<1> QED
  BY <1>1 DEF Applied, View

--------------------------------------------------------------------------------
(* Types *)

TypeInv == TypeOK /\ ReplayHolds

\* A disconnection leaves a fresh client and empty surfaces, which have their types.
LEMMA DisconnectedType ==
  ASSUME TypeInv, SocketCloses \/ ConnectGivesUp
  PROVE  /\ client' \in Client /\ app' \in View /\ stored' \in Cursor
         /\ phase' = "offline" /\ phase' \in Phases
         /\ work' \in Work /\ attached' \in BOOLEAN
         /\ requests' \in Seq(Request) /\ messages' \in Seq(Message)
<1>1. PICK k \in 0..MaxLog :
        /\ PendingRejected(k)
        /\ app' = ClearedApp
             \/ app' = Applied(ClearedApp, Run(AfterRejection(client, phase), k))
        /\ Disconnected
  BY DEF SocketCloses, ConnectGivesUp
<1>2. client \in Client /\ stored \in Cursor /\ k \in Nat
      /\ (phase = "replaying" => client.streamId # NoStream)
  BY BoundsAssumption DEF TypeInv, TypeOK, ReplayHolds
<1>3. /\ Run(AfterRejection(client, phase), k) \in Seq(Event)
      /\ stored' \in Cursor
  BY <1>1, <1>2, RejectionType DEF PendingRejected
<1>4. app' \in View
  BY <1>1, <1>3, FreshType, AppliedType
<1>5. requests' \in Seq(Request) /\ messages' \in Seq(Message)
  BY <1>1 DEF Disconnected
<1>6. phase' = "offline" /\ phase' \in Phases
  BY <1>1 DEF Disconnected, Phases
<1> QED
  BY <1>1, <1>3, <1>4, <1>5, <1>6, FreshType DEF Disconnected

\* The initial state has its types.
LEMMA TypeInit == Init => TypeInv
<1> SUFFICES ASSUME Init PROVE TypeInv
  OBVIOUS
<1>1. serve \in Engine
  BY FeatureSetsAssumption DEF Init, Engine, Stream, NoStream, Logs
<1>2. requests \in Seq(Request) /\ messages \in Seq(Message)
  BY DEF Init
<1>3. superseded \in SUBSET Superseded
  BY DEF Init
<1>4. phase \in Phases /\ attached \in BOOLEAN /\ faults \in Nat
  BY DEF Init, Phases
<1>5. client \in Client /\ app \in View /\ stored \in Cursor
      /\ work \in Work
  BY FreshType DEF Init
<1>6. TypeOK
  BY <1>1, <1>2, <1>3, <1>4, <1>5 DEF TypeOK
<1>7. ReplayHolds
  BY DEF Init, ReplayHolds
<1> QED
  BY <1>6, <1>7 DEF TypeInv

\* Every step keeps the types.
LEMMA TypeStep == TypeInv /\ [Next]_vars => TypeInv'
<1> SUFFICES ASSUME TypeInv, [Next]_vars PROVE TypeInv'
  OBVIOUS
<1> USE DEF TypeInv
<1>0. /\ serve \in Engine /\ work \in Work /\ attached \in BOOLEAN
      /\ requests \in Seq(Request) /\ messages \in Seq(Message)
      /\ client \in Client /\ superseded \in SUBSET Superseded /\ stored \in Cursor
      /\ phase \in Phases /\ app \in View /\ faults \in Nat
  BY DEF TypeOK
<1>a. SUFFICES
        /\ serve' \in Engine /\ work' \in Work /\ attached' \in BOOLEAN
        /\ requests' \in Seq(Request) /\ messages' \in Seq(Message)
        /\ client' \in Client /\ superseded' \in SUBSET Superseded /\ stored' \in Cursor
        /\ phase' \in Phases /\ app' \in View /\ faults' \in Nat
        /\ ReplayHolds'
  BY DEF TypeOK
<1>1. CASE ServeLogs
  <2>1. Append(serve.log, serve.life) \in Logs /\ Len(serve.log) \in Nat
    BY <1>0 DEF Engine, Logs
  <2>2. serve' \in Engine
    BY <1>0, <1>1, <2>1 DEF ServeLogs, Engine
  <2>3. Broadcast(serve.stream, Append(serve.log, serve.life), Len(serve.log) + 1) \in Message
    BY <1>0, <2>1 DEF Engine, Broadcast, EventAt, Event, Stream, NoStream, Message, Logs
  <2>4. Len(Append(serve.log, serve.life)) = Len(serve.log) + 1
    BY <1>0 DEF Engine, Logs
  <2>5. messages' \in Seq(Message)
    BY <1>0, <1>1, <2>3, <2>4 DEF ServeLogs
  <2> QED
    BY <1>0, <1>1, <2>2, <2>5 DEF ServeLogs, clientVars, ReplayHolds
<1>2. CASE ServeExpires
  BY <1>0, <1>2 DEF Engine, ServeExpires, channelVars, clientVars, ReplayHolds
<1>26. CASE ServeRepeats
  <2>1. PICK n \in 1 .. Len(serve.log) :
          messages' = Append(messages, Broadcast(serve.stream, serve.log, n))
    BY <1>26 DEF ServeRepeats
  <2>2. serve.log \in Seq(Nat)
    BY <1>0 DEF Engine, Logs
  <2>3. n \in Nat /\ serve.log[n] \in Nat
    BY <2>2
  <2>4. Broadcast(serve.stream, serve.log, n) \in Message
    BY <1>0, <2>3 DEF Engine, Broadcast, EventAt, Event, Stream, NoStream, Message
  <2>5. messages' \in Seq(Message)
    BY <1>0, <2>1, <2>4
  <2> QED
    BY <1>0, <1>26, <2>5 DEF ServeRepeats, clientVars, ReplayHolds
<1>3. CASE ServeRefuses
  <2>1. [type |-> "error"] \in Message
    BY DEF Message
  <2>2. messages' \in Seq(Message)
    BY <1>0, <1>3, <2>1 DEF ServeRefuses
  <2>3. requests' \in Seq(Request)
    <3>1. \/ requests # <<>> /\ requests' = Tail(requests)
          \/ requests' = requests
      BY <1>3 DEF ServeRefuses
    <3>2. CASE requests' = requests
      BY <1>0, <3>2
    <3>3. CASE requests # <<>> /\ requests' = Tail(requests)
      <4>1. requests \in Seq(Request)
        BY <1>0
      <4> QED
        BY ONLY <4>1, <3>3
    <3> QED
      BY <3>1, <3>2, <3>3
  <2>4. work' \in Work
    BY <1>0, <1>3, FreshType DEF ServeRefuses
  <2> QED
    BY <1>0, <1>3, <2>2, <2>3, <2>4 DEF ServeRefuses, clientVars, ReplayHolds
<1>4. CASE ServeRestarts
  <2>1. serve' \in Engine
    <3>1. \A n \in 0..Len(serve.log) : SubSeq(serve.log, 1, n) \in Logs
      BY <1>0 DEF Engine, Logs
    <3>2. <<>> \in Logs
      BY DEF Logs
    <3>3. \A f \in FeatureSets : f \in SUBSET Features
      BY FeatureSetsAssumption
    <3>4. PICK features \in FeatureSets :
            \/ serve' = [life |-> serve.life + 1, stream |-> serve.life + 1, log |-> <<>>,
                         first |-> 1, features |-> features]
            \/ \E durable \in 0 .. Len(serve.log) :
                 serve' = [serve EXCEPT !.life = @ + 1, !.features = features,
                                        !.log = SubSeq(@, 1, durable), !.first = 1]
      BY <1>4 DEF ServeRestarts, NextEngine
    <3>5. CASE serve' = [life |-> serve.life + 1, stream |-> serve.life + 1, log |-> <<>>,
                         first |-> 1, features |-> features]
      BY <1>0, <3>2, <3>3, <3>5 DEF Engine, Stream, NoStream
    <3>6. ASSUME NEW durable \in 0 .. Len(serve.log),
                 serve' = [serve EXCEPT !.life = @ + 1, !.features = features,
                                        !.log = SubSeq(@, 1, durable), !.first = 1]
          PROVE  serve' \in Engine
      <4>1. SubSeq(serve.log, 1, durable) \in Logs
        BY <3>1
      <4>2. serve.life + 1 \in Nat \ {0}
        BY <1>0 DEF Engine
      <4>3. features \in SUBSET Features
        BY <3>3
      <4> QED
        BY <1>0, <3>6, <4>1, <4>2, <4>3 DEF Engine
    <3> QED
      BY <3>4, <3>5, <3>6
  <2>2. CASE phase = "offline"
    BY <1>0, <1>4, <2>1, <2>2 DEF ServeRestarts, channelVars, ReplayHolds
  <2>3. CASE phase # "offline"
    <3>1. SocketCloses /\ faults' \in Nat /\ superseded' = superseded
      BY <1>0, <1>4, <2>3 DEF ServeRestarts
    <3>2. ReplayHolds'
      BY <3>1, DisconnectedType DEF ReplayHolds
    <3> QED
      BY <1>0, <2>1, <3>1, <3>2, DisconnectedType
  <2> QED
    BY <2>2, <2>3
<1>5. CASE ConnectionLost \/ ListFails \/ ConnectFails
  <2>1. (SocketCloses \/ ConnectGivesUp) /\ faults' \in Nat /\ UNCHANGED <<serve, superseded>>
    BY <1>0, <1>5 DEF ConnectionLost, ListFails, ConnectFails
  <2>2. ReplayHolds'
    BY <2>1, DisconnectedType DEF ReplayHolds
  <2> QED
    BY <1>0, <2>1, <2>2, DisconnectedType
<1>6. CASE ServeAuthenticates \/ ServeStartsSnapshot
  <2>1. PICK type \in {"initialize", "snapshot"} :
          ServeAccepts(type) /\ attached' \in BOOLEAN
    BY <1>0, <1>6 DEF ServeAuthenticates, ServeStartsSnapshot
  <2>2. Len(serve.log) \in Nat
    BY <1>0 DEF Engine, Logs
  <2>3. work' \in Work /\ requests' \in Seq(Request)
    BY <1>0, <2>1, <2>2 DEF ServeAccepts, Work
  <2> QED
    BY <1>0, <2>1, <2>3 DEF ServeAccepts, clientVars, ReplayHolds
<1>7. CASE ServeInitializes
  <2>1. PICK current \in work.from .. Len(serve.log) :
          messages' = Append(messages,
            [type |-> "initialized", features |-> serve.features, current |-> current,
             stream |-> IF Numbered THEN serve.stream ELSE NoStream])
    BY <1>7 DEF ServeInitializes
  <2>2. current \in Nat
    BY <1>0 DEF Engine, Work, Logs
  <2>3. [type |-> "initialized", features |-> serve.features, current |-> current,
         stream |-> IF Numbered THEN serve.stream ELSE NoStream] \in Message
    BY <1>0, <2>2 DEF Engine, Message, Stream, NoStream
  <2>4. messages' \in Seq(Message)
    BY <1>0, <2>1, <2>3
  <2> QED
    BY <1>0, <1>7, <2>4, FreshType DEF ServeInitializes, clientVars, ReplayHolds
<1>8. CASE ServeSnapshots
  <2>1. PICK through \in work.from .. Len(serve.log) :
          messages' = Append(messages, [type |-> "snapshot", stream |-> serve.stream,
                                        log |-> SubSeq(serve.log, 1, through)])
    BY <1>8 DEF ServeSnapshots
  <2>2. SubSeq(serve.log, 1, through) \in Logs
    BY <1>0 DEF Engine, Work, Logs
  <2>3. [type |-> "snapshot", stream |-> serve.stream,
         log |-> SubSeq(serve.log, 1, through)] \in Message
    BY <1>0, <2>2 DEF Engine, Message
  <2>4. messages' \in Seq(Message)
    BY SMTT(60), <1>0, <2>1, <2>3
  <2> QED
    BY <1>0, <1>8, <2>4, FreshType DEF ServeSnapshots, clientVars, ReplayHolds
<1>9. CASE ServeReplays
  <2> DEFINE after   == Head(requests).after
             current == Len(serve.log)
             expired == after + 1 < serve.first
             through == IF expired THEN after
                        ELSE IF after + PageSize < current THEN after + PageSize ELSE current
             events  == [i \in 1 .. through - after |->
                           Broadcast(serve.stream, serve.log, after + i)]
             page    == [type |-> "page", current |-> current, through |-> through,
                         snapshotRequired |-> expired, hasMore |-> ~expired /\ through < current]
  <2>0. requests # <<>> /\ Head(requests).type = "replay" /\ requests' = Tail(requests)
    BY <1>9 DEF ServeReplays
  <2>1. requests' \in Seq(Request) /\ Head(requests) \in Request
    BY <1>0, <2>0
  <2>2. after \in Nat /\ current \in Nat /\ PageSize \in Nat \ {0}
    <3>1. after \in Nat
      BY <2>0, <2>1 DEF Request
    <3>2. current \in Nat
      BY SMTT(60), <1>0 DEF Engine, Logs
    <3> QED
      BY <3>1, <3>2, BoundsAssumption
  <2>3. messages' = messages \o events \o <<page>>
    BY <1>9 DEF ServeReplays
  <2>4. ASSUME NEW i \in 1 .. through - after
        PROVE  Broadcast(serve.stream, serve.log, after + i) \in Message
    <3>1. after \in Nat /\ after + i \in 1..Len(serve.log)
      BY <2>2
    <3>2. serve.log \in Seq(Nat)
      BY <1>0 DEF Engine, Logs
    <3>3. serve.log[after + i] \in Nat
      BY SMTT(60), <3>1, <3>2
    <3> QED
      BY <1>0, <3>1, <3>3 DEF Engine, Broadcast, EventAt, Event, Stream, NoStream, Message
  <2>5. after \in Nat /\ through \in Nat /\ current \in Nat
    BY <2>2
  <2>6. page \in Message
    BY <2>5 DEF Message
  <2> HIDE DEF after, through, page
  <2>7. events \in Seq(Message)
    BY <2>4, <2>5
  <2>8. messages' \in Seq(Message)
    <3>1. <<page>> \in Seq(Message)
      BY <2>6
    <3> QED
      BY <1>0, <2>3, <2>7, <3>1
  <2> QED
    BY ZenonT(60), <1>0, <1>9, <2>1, <2>8 DEF ServeReplays, serveVars, clientVars, ReplayHolds
<1>10. CASE Connect \/ Supersede
  <2>1. Open
    BY <1>10 DEF Connect, Supersede
  <2>2. [type |-> "initialize"] \in Request /\ <<[type |-> "initialize"]>> \in Seq(Request)
    BY DEF Request
  <2>3. superseded' \in SUBSET Superseded /\ faults' \in Nat
    BY <1>0, <1>10 DEF Connect, Supersede, Superseded
  <2>4. ReplayHolds'
    BY <1>0, <1>10 DEF Connect, Supersede, Open, ReplayHolds
  <2> QED
    <3>1. /\ serve' \in Engine /\ work' \in Work /\ attached' \in BOOLEAN
          /\ client' \in Client /\ stored' \in Cursor /\ app' \in View
      BY <1>0, <2>1, FreshType DEF Open
    <3>2. requests' \in Seq(Request)
      BY <2>1, <2>2 DEF Open
    <3>3. messages' \in Seq(Message) /\ phase' \in Phases
      BY <2>1 DEF Open, Phases
    <3> QED
      BY <2>3, <2>4, <3>1, <3>2, <3>3
<1>11. CASE SupersededCloses
  <2>1. PICK s \in superseded, k \in 0..MaxLog :
          /\ Released(s.client, s.pendingIn, k)
          /\ app' = Applied(app, Run(AfterRejection(s.client, s.pendingIn), k))
          /\ stored' = StoredAfter(AfterRejection(s.client, s.pendingIn), k,
                                   StoredAtRejection(s.client, s.pendingIn, stored))
          /\ superseded' = superseded \ {s}
          /\ UNCHANGED <<serveVars, channelVars, client, phase, faults>>
    BY <1>11 DEF SupersededCloses
  <2>2. s.client \in Client /\ k \in Nat
        /\ (s.pendingIn = "replaying" => s.client.streamId # NoStream)
    BY <1>0, BoundsAssumption DEF ReplayHolds, Superseded
  <2>3. stored' \in Cursor /\ app' \in View
    BY <1>0, <2>1, <2>2, RejectionType, AppliedType
  <2> QED
    BY <1>0, <2>1, <2>3 DEF serveVars, channelVars, ReplayHolds
<1>12. CASE ListAnswered
  <2>1. Ask([type |-> "snapshot"]) => requests' \in Seq(Request)
    <3>1. [type |-> "snapshot"] \in Request
      BY DEF Request
    <3> QED
      BY <1>0, <3>1 DEF Ask
  <2>2. [client EXCEPT !.recovering = TRUE] \in Client
    BY <1>0 DEF Client
  <2>3. client' \in Client /\ requests' \in Seq(Request)
    BY <1>0, <1>12, <2>1, <2>2 DEF ListAnswered
  <2>4. phase' \in {"snapshotting", "ready"}
    BY <1>12 DEF ListAnswered
  <2> QED
    BY <1>0, <1>12, <2>3, <2>4 DEF ListAnswered, serveVars, ReplayHolds, Phases
<1>b. ASSUME NEW type, Receive(type)
      PROVE  messages' \in Seq(Message) /\ Head(messages) \in Message
  BY <1>0, <1>b DEF Receive
<1>c. Receive("event") => incoming \in Event
  BY <1>0, <1>b DEF Receive, Message, incoming
<1>d. Receive("event") => WithFrame(incoming) \in Client
  <2>1. Receive("event") => Buffered(client.frames, incoming) \subseteq Event
    BY <1>0, <1>c DEF Buffered, Client
  <2> QED
    BY <1>0, <2>1 DEF WithFrame, Client
<1>13. CASE ReceiveUnnumbered
  <2>1. <<incoming>> \in Seq(Event)
    BY <1>c, <1>13 DEF ReceiveUnnumbered
  <2>2. app' \in View
    BY <1>0, <1>13, <2>1, AppliedType DEF ReceiveUnnumbered
  <2>3. messages' \in Seq(Message)
    BY <1>b, <1>13 DEF ReceiveUnnumbered
  <2> QED
    BY <1>0, <1>13, <2>2, <2>3 DEF ReceiveUnnumbered, serveVars, ReplayHolds
<1>14. CASE BufferEarly
  <2> DEFINE kept == IF client.bufferedStream \in {NoStream, incoming.stream}
                       THEN client.frames ELSE {}
  <2>1. incoming \in Event
    BY <1>c, <1>14 DEF BufferEarly
  <2>2. Buffered(kept, incoming) \subseteq Event
    BY <1>0, <2>1 DEF Buffered, Client
  <2>3. client' = [client EXCEPT !.bufferedStream = incoming.stream,
                                 !.frames = Buffered(kept, incoming)]
    BY <1>14 DEF BufferEarly
  <2> HIDE DEF kept
  <2>4. client' \in Client /\ client'.streamId = client.streamId
    BY <1>0, <2>1, <2>2, <2>3 DEF Client, Event
  <2>5. messages' \in Seq(Message)
    BY <1>b, <1>14 DEF BufferEarly
  <2> QED
    BY <1>0, <1>14, <2>4, <2>5 DEF BufferEarly, serveVars, ReplayHolds
<1>15. CASE DropEvent
  <2>1. messages' \in Seq(Message)
    BY <1>b, <1>15 DEF DropEvent
  <2> QED
    BY <1>0, <1>15, <2>1 DEF DropEvent, serveVars, clientVars, ReplayHolds
<1>16. CASE HoldEvent
  <2>1. client' \in Client
    BY <1>d, <1>16 DEF HoldEvent
  <2>2. client'.streamId = client.streamId
    BY <1>0, <1>16 DEF HoldEvent, WithFrame, Client
  <2>3. messages' \in Seq(Message)
    BY <1>b, <1>16 DEF HoldEvent
  <2> QED
    BY <1>0, <1>16, <2>1, <2>2, <2>3 DEF HoldEvent, serveVars, ReplayHolds
<1>17. CASE DeliverEvent
  <2>1. PICK k \in 0..MaxLog : Finish(WithFrame(incoming), k, app, stored)
    BY <1>17 DEF DeliverEvent
  <2>2. client' \in Client /\ app' \in View /\ stored' \in Cursor
    BY <1>0, <1>d, <1>17, <2>1, FinishType, BoundsAssumption DEF DeliverEvent
  <2>3. client'.streamId = client.streamId
    BY <1>0, <2>1 DEF Finish, Drained, WithFrame, Client
  <2>4. messages' \in Seq(Message)
    BY <1>b, <1>17 DEF DeliverEvent
  <2> QED
    BY <1>0, <1>17, <2>2, <2>3, <2>4 DEF DeliverEvent, serveVars, ReplayHolds
<1>18. CASE JoinUnnumbered
  <2>1. Receive("initialized") /\ Head(messages) \in Message
    BY <1>b, <1>18 DEF JoinUnnumbered, Respond
  <2>2. Head(messages).features \in SUBSET Features
    BY <2>1 DEF Receive, Message
  <2>3. client' \in Client
    BY <1>0, <1>18, <2>2 DEF JoinUnnumbered, Client, Stream, NoStream
  <2>4. PICK n \in 0..MaxLog : \E events \in [1..n -> client.frames] :
          app' = Applied(app, events)
    BY <1>18 DEF JoinUnnumbered
  <2>5. PICK events \in [1..n -> client.frames] : app' = Applied(app, events)
    BY <2>4
  <2>6. n \in Nat /\ client.frames \subseteq Event
    BY <1>0, BoundsAssumption DEF Client
  <2>7. events \in Seq(Event)
    BY <2>6
  <2>8. app' \in View
    BY <1>0, <2>5, <2>7, AppliedType
  <2>9. messages' \in Seq(Message) /\ phase' = "listing" /\ phase' \in Phases
    BY <1>b, <1>18, <2>1 DEF JoinUnnumbered, Phases
  <2> QED
    BY <1>0, <1>18, <2>3, <2>8, <2>9 DEF JoinUnnumbered, serveVars, ReplayHolds
<1>e. ASSUME NEW m \in Message, m.type = "initialized", m.stream # NoStream
      PROVE  Joined(m) \in Client /\ Joined(m).streamId = m.stream /\ m.current \in Nat
  <2>1. m.features \in SUBSET Features /\ m.current \in Nat /\ m.stream \in Stream
    BY <1>e DEF Message
  <2>2. {f \in client.frames : f.stream = m.stream} \in SUBSET Event
    BY <1>0 DEF Client
  <2>3. (IF Resumable(m) THEN stored.sequence ELSE NoSequence) \in Nat \cup {NoSequence}
    BY <1>0, <1>e DEF Resumable, Cursor, NoCursor
  <2> QED
    BY <1>0, <2>1, <2>2, <2>3 DEF Joined, Client, Stream, NoStream
<1>19. CASE JoinAndReplay
  <2> DEFINE m == Head(messages)
  <2>1. m \in Message /\ m.type = "initialized" /\ messages' \in Seq(Message)
    BY <1>b, <1>19 DEF JoinAndReplay, Respond, Receive
  <2>2. /\ m.stream # NoStream /\ Resumable(m)
        /\ client' = [Joined(m) EXCEPT !.cursor = stored.sequence, !.after = stored.sequence]
        /\ Ask([type |-> "replay", after |-> stored.sequence])
        /\ phase' = "replaying"
        /\ UNCHANGED <<serveVars, superseded, stored, app, faults>>
    BY <1>19 DEF JoinAndReplay
  <2>3. stored.sequence \in Nat
    BY <1>0, <2>2 DEF Resumable, Cursor, NoCursor
  <2>4. Joined(m) \in Client /\ Joined(m).streamId = m.stream
    BY <1>e, <2>1, <2>2
  <2> HIDE DEF m
  <2>5. client' \in Client /\ client'.streamId # NoStream
    BY <2>2, <2>3, <2>4 DEF Client
  <2>6. [type |-> "replay", after |-> stored.sequence] \in Request
    BY <2>3 DEF Request
  <2>7. requests' \in Seq(Request)
    BY <1>0, <2>2, <2>6 DEF Ask
  <2>8. phase' \in Phases
    BY <2>2 DEF Phases
  <2> QED
    BY <1>0, <2>1, <2>2, <2>5, <2>7, <2>8 DEF serveVars, ReplayHolds
<1>f. ASSUME NEW c \in Client, FinishRecovery(c), c.streamId # NoStream
      PROVE  /\ client' \in Client /\ app' \in View /\ stored' \in Cursor
             /\ phase' = "listing" /\ phase' \in Phases
  <2>1. Recovered(c) \in Client /\ Recovered(c).streamId = c.streamId
    BY RecoveredType DEF Recovered, Client
  <2>2. CursorOf(Recovered(c)) \in Cursor
    BY <1>f, <2>1 DEF CursorOf, Cursor, Client
  <2>3. PICK k \in 0..MaxLog : Finish(Recovered(c), k, app, CursorOf(Recovered(c)))
    BY <1>f DEF FinishRecovery
  <2>4. client' \in Client /\ app' \in View /\ stored' \in Cursor
    BY <1>0, <2>1, <2>2, <2>3, FinishType, BoundsAssumption
  <2> QED
    BY <1>f, <2>4 DEF FinishRecovery, Phases
<1>20. CASE JoinAtCurrent
  <2> DEFINE m == Head(messages)
             c == [Joined(m) EXCEPT
                     !.cursor = m.current,
                     !.snapshotRequired = stored # NoCursor
                       /\ stored # [stream |-> m.stream, sequence |-> m.current]]
  <2>1. m \in Message /\ m.type = "initialized" /\ messages' \in Seq(Message)
    BY <1>b, <1>20 DEF JoinAtCurrent, Respond, Receive
  <2>2. m.stream # NoStream /\ FinishRecovery(c)
    BY <1>20 DEF JoinAtCurrent
  <2>3. Joined(m) \in Client /\ Joined(m).streamId = m.stream /\ m.current \in Nat
    BY <1>e, <2>1, <2>2
  <2> HIDE DEF m
  <2>4. c \in Client /\ c.streamId # NoStream
    BY <2>2, <2>3 DEF Client
  <2> HIDE DEF c
  <2>5. client' \in Client /\ app' \in View /\ stored' \in Cursor
        /\ phase' = "listing" /\ phase' \in Phases
    BY <1>f, <2>2, <2>4
  <2> QED
    BY <1>0, <1>20, <2>1, <2>5 DEF JoinAtCurrent, serveVars, ReplayHolds
<1>g. ASSUME NEW m \in Message, m.type = "page"
      PROVE  m.current \in Nat /\ m.through \in Nat
  BY <1>g DEF Message
<1>21. CASE ReplayEnds
  <2> DEFINE m == Head(messages)
             c == IF ~m.snapshotRequired /\ ~m.hasMore
                    THEN client ELSE Abandoned(client, m.current)
  <2>1. m \in Message /\ m.type = "page" /\ messages' \in Seq(Message) /\ phase = "replaying"
    BY <1>b, <1>21 DEF ReplayEnds, Respond, Receive
  <2>2. FinishRecovery(c)
    BY <1>21 DEF ReplayEnds
  <2>3. Abandoned(client, m.current) \in Client
        /\ Abandoned(client, m.current).streamId = client.streamId
    BY <1>0, <1>g, <2>1, RecoveredType DEF Abandoned, Client
  <2>4. c \in Client /\ c.streamId # NoStream
    BY <1>0, <2>1, <2>3 DEF ReplayHolds
  <2> HIDE DEF c
  <2>5. client' \in Client /\ app' \in View /\ stored' \in Cursor
        /\ phase' = "listing" /\ phase' \in Phases
    BY <1>f, <2>2, <2>4
  <2> QED
    BY <1>0, <1>21, <2>1, <2>5 DEF ReplayEnds, serveVars, ReplayHolds
<1>22. CASE ReplayGoesOn
  <2> DEFINE m == Head(messages)
  <2>1. m \in Message /\ m.type = "page" /\ messages' \in Seq(Message)
    BY <1>b, <1>22 DEF ReplayGoesOn, Respond, Receive
  <2>2. /\ client' = [client EXCEPT !.after = m.through, !.page = @ + 1, !.latest = Later(m, @)]
        /\ Ask([type |-> "replay", after |-> m.through])
    BY <1>22 DEF ReplayGoesOn
  <2>3. m.current \in Nat /\ m.through \in Nat
    BY <1>g, <2>1
  <2> HIDE DEF m
  <2>4. Later(m, client.latest) \in Nat /\ client.page + 1 \in Nat
    BY <1>0, <2>3 DEF Later, Client
  <2>5. client' \in Client /\ client'.streamId = client.streamId
    BY <1>0, <2>2, <2>3, <2>4 DEF Client
  <2>6. [type |-> "replay", after |-> m.through] \in Request
    BY <2>3 DEF Request
  <2>7. requests' \in Seq(Request)
    BY <1>0, <2>2, <2>6 DEF Ask
  <2> QED
    BY <1>0, <1>22, <2>1, <2>5, <2>7 DEF ReplayGoesOn, serveVars, ReplayHolds
<1>23. CASE ReplayFails
  <2>1. messages' \in Seq(Message) /\ phase = "replaying"
    BY <1>b, <1>23 DEF ReplayFails, Respond
  <2>2. client.latest \in Nat
    BY <1>0 DEF Client
  <2>3. Abandoned(client, client.latest) \in Client
        /\ Abandoned(client, client.latest).streamId # NoStream
    BY <1>0, <2>1, <2>2, RecoveredType DEF Abandoned, Client, ReplayHolds
  <2>4. client' \in Client /\ app' \in View /\ stored' \in Cursor
        /\ phase' = "listing" /\ phase' \in Phases
    BY <1>f, <1>23, <2>3 DEF ReplayFails
  <2> QED
    BY <1>0, <1>23, <2>1, <2>4 DEF ReplayFails, serveVars, ReplayHolds
<1>24. CASE ApplySnapshot
  <2> DEFINE m == Head(messages)
             c == SnapshotApplied(m)
             a == [stream |-> m.stream, base |-> m.log, tail |-> <<>>, synced |-> TRUE]
  <2>1. m \in Message /\ m.type = "snapshot" /\ messages' \in Seq(Message)
    BY <1>b, <1>24 DEF ApplySnapshot, Respond, Receive
  <2>2. m.stream \in Stream \ {NoStream} /\ m.log \in Logs
    BY <2>1 DEF Message
  <2>3. SnapshotFits(m) /\ \E k \in 0..MaxLog : Finish(c, k, a, CursorOf(c))
    BY <1>24 DEF ApplySnapshot
  <2> HIDE DEF m
  <2>4. {f \in client.frames : f.seq > Len(m.log)} \in SUBSET Event /\ Len(m.log) \in Nat
    BY <1>0, <2>2 DEF Client, Logs
  <2>5. c \in Client /\ c.streamId = client.streamId
    BY <1>0, <2>4 DEF SnapshotApplied, Client
  <2>6. c.streamId # NoStream
    BY <2>2, <2>3, <2>5 DEF SnapshotFits
  <2>7. a \in View
    BY <2>2 DEF View
  <2> HIDE DEF c, a
  <2>8. CursorOf(c) \in Cursor
    BY <2>5, <2>6 DEF CursorOf, Cursor, Client
  <2>9. client' \in Client /\ app' \in View /\ stored' \in Cursor
    BY <2>3, <2>5, <2>7, <2>8, FinishType, BoundsAssumption
  <2>10. phase' = "ready" /\ phase' \in Phases
    BY <1>24 DEF ApplySnapshot, Phases
  <2> QED
    BY <1>0, <1>24, <2>1, <2>9, <2>10 DEF ApplySnapshot, serveVars, ReplayHolds
<1>25. CASE UNCHANGED vars
  BY <1>0, <1>25 DEF vars, serveVars, channelVars, clientVars, ReplayHolds
<1> QED
  BY <1>1, <1>2, <1>3, <1>4, <1>5, <1>6, <1>7, <1>8, <1>9, <1>10, <1>11, <1>12, <1>13, <1>14,
     <1>15, <1>16, <1>17, <1>18, <1>19, <1>20, <1>21, <1>22, <1>23, <1>24, <1>25, <1>26 DEF Next

\* Every behaviour of the stream is well typed, whatever the bounds, page size and
\* Engines.
THEOREM TypeCorrect == Spec => []TypeOK
<1>1. TypeInv => TypeOK
  BY DEF TypeInv
<1> QED
  BY <1>1, TypeInit, TypeStep, PTL DEF Spec

--------------------------------------------------------------------------------
(* A ready renderer shows Serve's log *)

\* Log t is log s, or log s and more of the same stream.
Continues(t, s) ==
  /\ Len(s.log) <= Len(t.log)
  /\ \A n \in 1..Len(s.log) : t.log[n] = s.log[n]
  /\ t.stream = s.stream /\ t.features = s.features

\* Serve's log continues when it is unchanged or one event longer.
LEMMA ContinuesFact ==
  ASSUME NEW s \in Engine, NEW t \in Engine, t.stream = s.stream, t.features = s.features,
         t.log = s.log \/ t.log = Append(s.log, s.life)
  PROVE  Continues(t, s)
<1>1. s.log \in Seq(Nat) /\ s.life \in Nat
  BY DEF Engine, Logs
<1> QED
  BY SMTT(60), <1>1 DEF Continues

\* What is an event, a snapshot or a message of a log stays one when the log grows.
LEMMA GenuineKept ==
  ASSUME NEW s \in Engine, NEW t \in Engine, Continues(t, s), NEW e \in Event, Genuine(s, e)
  PROVE  Genuine(t, e)
<1>1. Len(s.log) \in Nat /\ Len(t.log) \in Nat
  BY DEF Engine, Logs
<1> QED
  BY <1>1 DEF Genuine, Continues

\* A snapshot's log stays a prefix of a log that grows.
LEMMA OfLogKept ==
  ASSUME NEW s \in Engine, NEW t \in Engine, Continues(t, s), NEW l \in Logs, OfLog(s, l)
  PROVE  OfLog(t, l)
<1>1. Len(s.log) \in Nat /\ Len(t.log) \in Nat /\ Len(l) \in Nat
  BY DEF Engine, Logs
<1> QED
  BY <1>1 DEF OfLog, Continues

\* A message on the wire stays true of the log that grows.
LEMMA MessageKept ==
  ASSUME NEW s \in Engine, NEW t \in Engine, Continues(t, s),
         NEW m \in Message, MessageHolds(s, m)
  PROVE  MessageHolds(t, m)
<1>1. /\ m.type = "event" => m.event \in Event
      /\ m.type = "snapshot" => m.log \in Logs
      /\ m.type \in {"initialized", "page"} => m.current \in Nat
  BY DEF Message
<1>2. Len(s.log) \in Nat /\ Len(t.log) \in Nat /\ Len(s.log) <= Len(t.log)
      /\ t.stream = s.stream /\ t.features = s.features
  BY DEF Engine, Logs, Continues
<1>3. m.type = "event" =>
        IF "cursor" \in t.features THEN Genuine(t, m.event) ELSE m.event.stream = NoStream
  BY <1>1, <1>2, GenuineKept DEF MessageHolds
<1>4. m.type = "initialized" =>
        /\ m.current <= Len(t.log)
        /\ m.stream # NoStream => m.stream = t.stream /\ "cursor" \in t.features
  BY <1>1, <1>2 DEF MessageHolds
<1>5. m.type = "page" => m.current <= Len(t.log)
  BY <1>1, <1>2 DEF MessageHolds
<1>6. m.type = "snapshot" => m.stream = t.stream /\ OfLog(t, m.log)
  BY <1>1, <1>2, OfLogKept DEF MessageHolds
<1> QED
  BY <1>3, <1>4, <1>5, <1>6 DEF MessageHolds

\* What the client holds stays true of the log that grows.
LEMMA AgreesKept ==
  ASSUME NEW s \in Engine, NEW t \in Engine, Continues(t, s),
         NEW c \in Client, Agrees(s, c)
  PROVE  Agrees(t, c)
<1>1. c.frames \subseteq Event /\ c.cursor \in Nat /\ c.latest \in Nat
  BY DEF Client
<1>2. Len(s.log) \in Nat /\ Len(t.log) \in Nat /\ Len(s.log) <= Len(t.log)
      /\ t.stream = s.stream /\ t.features = s.features
  BY DEF Engine, Logs, Continues
<1>3. \A f \in c.frames : Genuine(t, f)
  BY <1>1, GenuineKept DEF Agrees
<1> QED
  BY <1>1, <1>2, <1>3 DEF Agrees

\* What the surfaces show stays explained by the log that grows.
LEMMA ShowsKept ==
  ASSUME NEW s \in Engine, NEW t \in Engine, Continues(t, s),
         NEW c \in Client, NEW a \in View, Shows(s, c, a)
  PROVE  Shows(t, c, a)
<1> DEFINE old  == Len(s.log)
           new  == Len(t.log)
           base == Len(a.base)
           tail == Len(a.tail)
<1>1. base \in Nat /\ tail \in Nat
  BY DEF View, Logs
<1>2. old \in Nat /\ new \in Nat /\ old <= new
  BY DEF Engine, Logs, Continues
<1>3. \A n \in 1..old : t.log[n] = s.log[n]
  BY DEF Continues
<1>4. a.stream = c.streamId /\ c.streamId = s.stream /\ t.stream = s.stream
  BY DEF Shows, Continues
<1>5. c.cursor = base + tail /\ base + tail <= old
  BY DEF Shows
<1>6. \A n \in 1..base : a.base[n] = s.log[n]
  BY DEF Shows
<1>7. \A n \in 1..tail : a.tail[n] = EventAt(s.stream, s.log, base + n)
  BY DEF Shows
<1>8. SUFFICES
        /\ base + tail <= new
        /\ \A n \in 1..base : a.base[n] = t.log[n]
        /\ \A n \in 1..tail : a.tail[n] = EventAt(t.stream, t.log, base + n)
  BY <1>4, <1>5 DEF Shows
<1> HIDE DEF old, new, base, tail
<1>9. base + tail <= new
  BY <1>1, <1>2, <1>5
<1>10. ASSUME NEW n \in 1..base PROVE a.base[n] = t.log[n]
  <2>1. n \in 1..old
    BY <1>1, <1>2, <1>5
  <2> QED
    BY <1>3, <1>6, <2>1
<1>11. ASSUME NEW n \in 1..tail
       PROVE  a.tail[n] = EventAt(t.stream, t.log, base + n)
  <2>1. base + n \in 1..old
    BY <1>1, <1>2, <1>5
  <2> QED
    BY <1>3, <1>4, <1>7, <2>1 DEF EventAt
<1> QED
  BY <1>9, <1>10, <1>11

\* The frames a drain delivers are the events of the log after the cursor.
LEMMA RunOfLog ==
  ASSUME NEW s \in Engine, NEW c \in Client, NEW k \in Nat, IsRun(c, k),
         \A f \in c.frames : Genuine(s, f)
  PROVE  /\ \A i \in 1..k : Run(c, k)[i] = EventAt(s.stream, s.log, c.cursor + i)
         /\ k # 0 => c.cursor + k <= Len(s.log)
<1>1. \A i \in 1..k : Run(c, k)[i] \in c.frames /\ Run(c, k)[i].seq = c.cursor + i
  BY RunFact
<1>2. c.frames \subseteq Event /\ c.cursor \in Nat
  BY DEF Client
<1>3. \A f \in c.frames : f = EventAt(s.stream, s.log, f.seq)
  BY <1>2 DEF Genuine, EventAt, Event
<1>4. \A i \in 1..k : c.cursor + i <= Len(s.log)
  BY <1>1 DEF Genuine
<1> QED
  BY <1>1, <1>2, <1>3, <1>4

\* A client that agrees with the log agrees with it after a drain.
LEMMA DrainAgrees ==
  ASSUME NEW s \in Engine, NEW c \in Client, NEW k \in Nat, IsRun(c, k), Agrees(s, c)
  PROVE  Agrees(s, Drained(c, k))
<1> DEFINE d == Drained(c, k)
<1>1. k # 0 => c.cursor + k <= Len(s.log)
  BY RunOfLog DEF Agrees
<1>2. /\ d.frames \subseteq c.frames /\ d.streamId = c.streamId /\ d.latest = c.latest
      /\ d.cursor = c.cursor + k /\ c.cursor \in Nat
  BY DEF Drained, Client
<1>3. Len(s.log) \in Nat
  BY DEF Engine, Logs
<1> HIDE DEF d
<1> QED
  BY <1>1, <1>2, <1>3 DEF Agrees, d

\* A view that shows the log up to the cursor shows it after a drain.
LEMMA DrainShows ==
  ASSUME NEW s \in Engine, NEW c \in Client, NEW a \in View, NEW k \in Nat, IsRun(c, k),
         \A f \in c.frames : Genuine(s, f), Shows(s, c, a)
  PROVE  Shows(s, Drained(c, k), Applied(a, Run(c, k)))
<1> DEFINE d == Drained(c, k)
           r == Run(c, k)
           v == Applied(a, r)
<1>1. /\ \A i \in 1..k : r[i] = EventAt(s.stream, s.log, c.cursor + i)
      /\ k # 0 => c.cursor + k <= Len(s.log)
  BY RunOfLog
<1>2. r \in Seq(Event) /\ Len(r) = k
  BY RunFact
<1>3. d.streamId = c.streamId /\ d.cursor = c.cursor + k /\ c.cursor \in Nat
  BY DEF Drained, Client
<1>4. v.stream = a.stream /\ v.base = a.base /\ v.tail = a.tail \o r
  BY DEF Applied, View
<1>5. a.tail \in Seq(Event) /\ Len(a.base) \in Nat
  BY DEF View, Logs
<1>6. /\ a.stream = c.streamId /\ c.streamId = s.stream
      /\ c.cursor = Len(a.base) + Len(a.tail)
      /\ c.cursor <= Len(s.log)
      /\ \A n \in 1..Len(a.base) : a.base[n] = s.log[n]
  BY DEF Shows
<1>7. \A n \in 1..Len(a.tail) : a.tail[n] = EventAt(s.stream, s.log, Len(a.base) + n)
  BY DEF Shows
<1> DEFINE base == Len(a.base)
           tail == Len(a.tail)
<1>8. base \in Nat /\ tail \in Nat /\ c.cursor = base + tail
  BY <1>5, <1>6
<1>9. base + tail <= Len(s.log) /\ Len(s.log) \in Nat
  <2>1. base + tail <= Len(s.log)
    BY DEF Shows
  <2>2. Len(s.log) \in Nat
    BY DEF Engine, Logs
  <2> QED
    BY <2>1, <2>2
<1>10. Len(v.base) = base /\ Len(v.tail) = tail + k
  <2>1. v.base = a.base
    BY <1>4
  <2>2. v.tail = a.tail \o r
    BY <1>4
  <2>3. Len(a.tail \o r) = Len(a.tail) + k
    BY <1>2, <1>5
  <2> QED
    BY <2>1, <2>2, <2>3
<1>11. \A n \in 1..tail + k :
         v.tail[n] = IF n <= tail THEN a.tail[n] ELSE r[n - tail]
  BY <1>2, <1>4, <1>5
<1>12. \A i \in 1..k : r[i] = EventAt(s.stream, s.log, (base + tail) + i)
  BY <1>1, <1>8
<1>13. k # 0 => (base + tail) + k <= Len(s.log)
  BY <1>1, <1>8
<1>14. d.cursor = (base + tail) + k
  BY <1>3, <1>8
<1>15. SUFFICES
         /\ (base + tail) + k = base + (tail + k)
         /\ (base + tail) + k <= Len(s.log)
         /\ \A n \in 1..tail + k : v.tail[n] = EventAt(s.stream, s.log, base + n)
  <2>1. /\ v.stream = d.streamId /\ d.streamId = s.stream
        /\ \A n \in 1..Len(v.base) : v.base[n] = s.log[n]
    BY <1>3, <1>4, <1>6
  <2> HIDE DEF base, tail, v, d, r
  <2> QED
    BY <2>1, <1>10, <1>14 DEF Shows, d, v, r
<1>16. \A n \in 1..tail : a.tail[n] = EventAt(s.stream, s.log, base + n)
  BY <1>7
<1> HIDE DEF base, tail, v, d, r
<1>17. ASSUME NEW n \in 1..tail + k
       PROVE  v.tail[n] = EventAt(s.stream, s.log, base + n)
  <2>1. CASE n <= tail
    BY <1>8, <1>11, <1>16, <2>1
  <2>2. CASE n > tail
    <3>1. n - tail \in 1..k /\ (base + tail) + (n - tail) = base + n
      BY <1>8, <2>2
    <3>2. v.tail[n] = r[n - tail]
      BY <1>8, <1>11, <2>2
    <3>3. r[n - tail] = EventAt(s.stream, s.log, (base + tail) + (n - tail))
      BY <1>12, <3>1
    <3> QED
      BY <3>1, <3>2, <3>3
  <2> QED
    BY <1>8, <2>1, <2>2
<1>18. (base + tail) + k = base + (tail + k)
  BY <1>8
<1>19. (base + tail) + k <= Len(s.log)
  BY <1>8, <1>9, <1>13
<1> QED
  BY <1>17, <1>18, <1>19

--------------------------------------------------------------------------------
(* The inductive invariant *)

\* The types the proofs below use.
LEMMA Typing ==
  ASSUME TypeInv
  PROVE  /\ serve \in Engine /\ Len(serve.log) \in Nat /\ serve.log \in Seq(Nat)
         /\ serve.stream # NoStream
         /\ work \in Work /\ requests \in Seq(Request) /\ messages \in Seq(Message)
         /\ client \in Client /\ client.frames \subseteq Event
         /\ client.cursor \in Nat /\ client.latest \in Nat
         /\ app \in View /\ app.synced \in BOOLEAN
BY DEF TypeInv, TypeOK, Engine, Logs, Client, View

\* Only a ready renderer is in sync.
LEMMA Unsynced ==
  ASSUME TypeInv, StreamInv, phase # "ready" \/ client.streamId = NoStream
  PROVE  app.synced = FALSE
BY Typing DEF StreamInv, SyncHolds

\* Once the connection is gone there is nothing left to disagree with the log.
LEMMA DisconnectedHolds ==
  ASSUME StreamInv, SocketCloses \/ ConnectGivesUp, UNCHANGED superseded, serve' \in Engine
  PROVE  StreamInv'
<1>1. PICK k \in 0..MaxLog :
        /\ app' = ClearedApp
             \/ app' = Applied(ClearedApp, Run(AfterRejection(client, phase), k))
        /\ Disconnected
  BY DEF SocketCloses, ConnectGivesUp
<1>2. app'.synced = FALSE
  BY <1>1 DEF ClearedApp, Applied
<1>3. client' = FreshClient /\ work' = NoWork /\ attached' = FALSE
      /\ requests' = <<>> /\ messages' = <<>>
  BY <1>1 DEF Disconnected
<1>4. OfflineHolds'
  BY <1>3 DEF OfflineHolds
<1>5. Len(serve'.log) \in Nat
  BY DEF Engine, Logs
<1>6. ChannelHolds'
  BY <1>3, <1>5 DEF ChannelHolds, NoWork
<1>7. ClientHolds'
  BY <1>3 DEF ClientHolds, Agrees, FreshClient
<1>8. SyncHolds'
  BY <1>2 DEF SyncHolds
<1> QED
  BY <1>4, <1>6, <1>7, <1>8 DEF StreamInv

\* A step of Serve: its log stands or grows, and it may send messages of that log.
LEMMA ServeHolds ==
  ASSUME TypeInv, TypeInv', StreamInv, Continues(serve', serve), UNCHANGED clientVars,
         work'.from <= Len(serve'.log),
         NEW added \in Seq(Message), messages' = messages \o added,
         \A i \in 1..Len(added) : MessageHolds(serve', added[i]),
         OfflineHolds'
  PROVE  StreamInv'
<1>1. serve \in Engine /\ serve' \in Engine /\ messages \in Seq(Message)
      /\ client \in Client /\ app \in View
  BY DEF TypeInv, TypeOK
<1>2. (MaxSuperseded = 0 => superseded = {}) /\ ChannelHolds /\ ClientHolds /\ SyncHolds
  BY DEF StreamInv
<1>3. client' = client /\ app' = app /\ phase' = phase /\ superseded' = superseded
  BY DEF clientVars
<1>4. \A i \in 1..Len(messages') : MessageHolds(serve', messages'[i])
  <2> SUFFICES ASSUME NEW i \in 1..Len(messages') PROVE MessageHolds(serve', messages'[i])
    OBVIOUS
  <2>1. CASE i <= Len(messages)
    <3>1. messages'[i] = messages[i] /\ messages[i] \in Message /\ i \in 1..Len(messages)
      BY <1>1, <2>1
    <3>2. MessageHolds(serve, messages[i])
      BY <1>2, <3>1 DEF ChannelHolds
    <3> QED
      BY <1>1, <3>1, <3>2, MessageKept
  <2>2. CASE i > Len(messages)
    <3>1. i - Len(messages) \in 1..Len(added) /\ messages'[i] = added[i - Len(messages)]
      BY <1>1, <2>2
    <3> QED
      BY <3>1
  <2> QED
    BY <1>1, <2>1, <2>2
<1>5. ChannelHolds'
  BY <1>4 DEF ChannelHolds
<1>6. ClientHolds'
  BY <1>1, <1>2, <1>3, AgreesKept DEF ClientHolds
<1>7. SyncHolds'
  <2> SUFFICES ASSUME app.synced
               PROVE /\ phase = "ready" /\ client.streamId # NoStream
                     /\ MaxSuperseded = 0 => Shows(serve', client, app)
    BY <1>3 DEF SyncHolds
  <2>1. /\ phase = "ready" /\ client.streamId # NoStream
        /\ MaxSuperseded = 0 => Shows(serve, client, app)
    BY <1>2 DEF SyncHolds
  <2>2. MaxSuperseded = 0 => Shows(serve', client, app)
    BY <1>1, <2>1, ShowsKept
  <2> QED
    BY <2>1, <2>2
<1> QED
  BY <1>2, <1>3, <1>5, <1>6, <1>7 DEF StreamInv

\* A step of the renderer that consumes one message: what is left in flight agrees
\* with the log, and so does the message.
LEMMA ReceiveHolds ==
  ASSUME TypeInv, StreamInv, NEW type, Receive(type), UNCHANGED serveVars
  PROVE  /\ ChannelHolds'
         /\ Head(messages) \in Message /\ Head(messages).type = type
         /\ MessageHolds(serve, Head(messages))
         /\ phase # "offline"
         /\ serve' = serve
<1>1. messages \in Seq(Message) /\ messages # <<>> /\ messages' = Tail(messages)
      /\ Head(messages).type = type
  BY Typing DEF Receive
<1>2. ChannelHolds /\ OfflineHolds
  BY DEF StreamInv
<1>3. Head(messages) \in Message /\ Head(messages) = messages[1] /\ 1 \in 1..Len(messages)
  BY <1>1
<1>4. \A i \in 1..Len(messages') : i + 1 \in 1..Len(messages) /\ messages'[i] = messages[i + 1]
  BY <1>1
<1>5. serve' = serve /\ work' = work
  BY DEF serveVars
<1>6. ChannelHolds'
  BY <1>2, <1>4, <1>5 DEF ChannelHolds
<1>7. phase # "offline"
  BY <1>1, <1>2 DEF OfflineHolds
<1> QED
  BY <1>1, <1>2, <1>3, <1>5, <1>6, <1>7 DEF ChannelHolds

\* An event that carries a stream is an event of Serve's log; a bare one comes from
\* an Engine that numbers nothing.
LEMMA IncomingHolds ==
  ASSUME TypeInv, StreamInv, Receive("event"), UNCHANGED serveVars
  PROVE  /\ incoming \in Event
         /\ incoming.stream # NoStream => Genuine(serve, incoming)
         /\ incoming.stream = NoStream => "cursor" \notin serve.features
<1>1. Head(messages) \in Message /\ Head(messages).type = "event"
      /\ MessageHolds(serve, Head(messages))
  BY ReceiveHolds
<1>2. incoming \in Event
  BY <1>1 DEF Message, incoming
<1>3. IF "cursor" \in serve.features THEN Genuine(serve, incoming) ELSE incoming.stream = NoStream
  BY <1>1 DEF MessageHolds, incoming
<1> QED
  BY <1>2, <1>3, Typing DEF Genuine

\* recoverEventStream ends with a client that agrees with the log.
LEMMA RecoveryHolds ==
  ASSUME serve \in Engine, app \in View, NEW c \in Client, Agrees(serve, c),
         FinishRecovery(c), app.synced = FALSE
  PROVE  Agrees(serve, client') /\ app'.synced = FALSE /\ phase' = "listing"
<1> DEFINE r == Recovered(c)
<1>1. PICK k \in 0..MaxLog : Finish(r, k, app, CursorOf(r))
  BY DEF FinishRecovery
<1>2. k \in Nat
  BY BoundsAssumption
<1>3. r \in Client
  BY RecoveredType
<1>4. r.frames \subseteq c.frames /\ r.streamId = c.streamId /\ r.cursor = c.cursor
      /\ r.latest = c.latest
  BY DEF Recovered, Client
<1> HIDE DEF r
<1>5. Agrees(serve, r)
  BY <1>4 DEF Agrees
<1>6. IsRun(r, k) /\ client' = Drained(r, k) /\ app' = Applied(app, Run(r, k))
  BY <1>1 DEF Finish
<1>7. Agrees(serve, client')
  BY <1>2, <1>3, <1>5, <1>6, DrainAgrees
<1>8. app'.synced = FALSE
  BY <1>6 DEF Applied, View
<1>9. phase' = "listing"
  BY DEF FinishRecovery
<1> QED
  BY <1>7, <1>8, <1>9

\* The renderer's steps before it is ready: nothing is in sync.
LEMMA UnsyncedHolds ==
  ASSUME ChannelHolds', MaxSuperseded = 0 => superseded' = {}, Agrees(serve', client'),
         app'.synced = FALSE, phase' # "offline"
  PROVE  StreamInv'
BY DEF StreamInv, OfflineHolds, ClientHolds, SyncHolds

\* A step of Serve that sends nothing.
LEMMA QuietHolds ==
  ASSUME TypeInv, TypeInv', StreamInv, Continues(serve', serve), UNCHANGED clientVars,
         work'.from <= Len(serve'.log), messages' = messages, OfflineHolds'
  PROVE  StreamInv'
<1>1. messages \in Seq(Message)
  BY Typing
<1>2. <<>> \in Seq(Message) /\ messages' = messages \o <<>> /\ 1..Len(<<>>) = {}
  BY <1>1
<1> QED
  BY <1>2, ServeHolds

\* An answer of Serve that leaves its log alone.
LEMMA SendHolds ==
  ASSUME TypeInv, TypeInv', StreamInv, UNCHANGED <<serve, clientVars>>,
         work'.from <= Len(serve.log), phase # "offline",
         NEW m \in Message, messages' = Append(messages, m), MessageHolds(serve, m)
  PROVE  StreamInv'
<1>1. messages \in Seq(Message) /\ serve \in Engine /\ serve' = serve
  BY Typing
<1>2. <<m>> \in Seq(Message) /\ messages' = messages \o <<m>> /\ Len(<<m>>) = 1 /\ <<m>>[1] = m
  BY <1>1
<1>3. \A i \in 1..Len(<<m>>) : MessageHolds(serve', <<m>>[i])
  BY <1>1, <1>2
<1>4. Continues(serve', serve)
  BY <1>1, ContinuesFact
<1>5. OfflineHolds' /\ UNCHANGED clientVars
  BY DEF OfflineHolds, clientVars
<1>6. work'.from <= Len(serve'.log)
  BY <1>1
<1> QED
  BY <1>2, <1>3, <1>4, <1>5, <1>6, ServeHolds

\* A page of events.replay is a run of Serve's log and a count of it.
LEMMA ReplayPageHolds ==
  ASSUME TypeInv, TypeInv', StreamInv, ServeReplays
  PROVE  StreamInv'
<1> DEFINE after   == Head(requests).after
           current == Len(serve.log)
           expired == after + 1 < serve.first
           through == IF expired THEN after
                      ELSE IF after + PageSize < current THEN after + PageSize ELSE current
           events  == [i \in 1 .. through - after |->
                         Broadcast(serve.stream, serve.log, after + i)]
           page    == [type |-> "page", current |-> current, through |-> through,
                       snapshotRequired |-> expired, hasMore |-> ~expired /\ through < current]
<1>1. requests # <<>> /\ Head(requests).type = "replay"
      /\ messages' = messages \o events \o <<page>>
      /\ UNCHANGED <<serveVars, clientVars>>
  BY DEF ServeReplays
<1>2. after \in Nat
  <2>1. requests \in Seq(Request)
    BY SMTT(60), Typing
  <2>2. requests # <<>> /\ Head(requests).type = "replay"
    BY <1>1
  <2> HIDE DEF after, current, expired, through, events, page
  <2>3. Head(requests) \in Request
    BY <2>1, <2>2
  <2> QED
    BY <2>2, <2>3 DEF Request, after
<1>3. current \in Nat /\ PageSize \in Nat \ {0} /\ serve.stream \in Stream
      /\ serve.log \in Seq(Nat) /\ messages \in Seq(Message)
  BY Typing, BoundsAssumption DEF Engine
<1>4. ASSUME NEW i \in 1 .. through - after
      PROVE  /\ Broadcast(serve.stream, serve.log, after + i) \in Message
             /\ MessageHolds(serve, Broadcast(serve.stream, serve.log, after + i))
  <2>0. through = after \/ (through \in Nat /\ through <= current)
    <3> HIDE DEF after, current, expired
    <3> QED
      BY <1>2, <1>3
  <2>1. after + i \in 1..current
    <3> HIDE DEF after, current, through, expired
    <3> QED
      BY <1>2, <1>3, <2>0
  <2>2. serve.log[after + i] \in Nat /\ after + i \in Nat
    BY <1>3, <2>1
  <2>3. Broadcast(serve.stream, serve.log, after + i) \in Message
    BY <1>3, <2>2 DEF Broadcast, EventAt, Event, Stream, NoStream, Message
  <2>4. MessageHolds(serve, Broadcast(serve.stream, serve.log, after + i))
    BY <2>1 DEF Broadcast, EventAt, MessageHolds, Genuine, Numbered
  <2> QED
    BY <2>3, <2>4
<1>5. page \in Message /\ MessageHolds(serve, page)
  <2>1. through \in Nat /\ expired \in BOOLEAN
    BY <1>2, <1>3
  <2> HIDE DEF through, expired
  <2>2. page \in Message
    BY <1>3, <2>1 DEF Message
  <2>3. MessageHolds(serve, page)
    BY <1>3 DEF MessageHolds
  <2> QED
    BY <2>2, <2>3
<1>6. through - after \in Int
  BY <1>2, <1>3
<1> DEFINE count == through - after
<1>7. \A i \in 1..count : events[i] \in Message /\ MessageHolds(serve, events[i])
  BY <1>4
<1>8. events = [i \in 1..count |-> events[i]]
  OBVIOUS
<1> HIDE DEF after, current, expired, through, page, events, count
<1>9. events \in Seq(Message) /\ (\A i \in 1..Len(events) : MessageHolds(serve, events[i]))
  <2>1. count \in Int
    BY <1>6 DEF count
  <2>2. CASE count \in Nat
    BY <1>7, <1>8, <2>2
  <2>3. CASE count \notin Nat
    <3>1. 1..count = {} /\ 1..0 = {}
      BY <2>1, <2>3
    <3>2. events = [i \in 1..0 |-> events[i]]
      BY <1>8, <3>1
    <3> QED
      BY <3>1, <3>2
  <2> QED
    BY <2>2, <2>3
<1> DEFINE added == events \o <<page>>
<1>10. added \in Seq(Message) /\ messages' = messages \o added
  BY <1>1, <1>3, <1>5, <1>9
<1>11. serve' = serve /\ work' = work
  BY <1>1 DEF serveVars
<1>12. \A i \in 1..Len(added) : MessageHolds(serve', added[i])
  <2>1. Len(events) \in Nat /\ Len(added) = Len(events) + 1
        /\ (\A i \in 1..Len(events) : added[i] = events[i]) /\ added[Len(events) + 1] = page
    BY <1>5, <1>9
  <2> HIDE DEF added
  <2>2. \A i \in 1..Len(added) : i \in 1..Len(events) \/ i = Len(events) + 1
    BY <2>1
  <2> QED
    BY <1>5, <1>9, <1>11, <2>1, <2>2
<1> HIDE DEF added
<1>13. phase # "offline"
  BY <1>1 DEF StreamInv, OfflineHolds
<1>14. OfflineHolds' /\ UNCHANGED clientVars
  BY <1>1, <1>13 DEF OfflineHolds, clientVars
<1>15. work'.from <= Len(serve'.log)
  BY <1>11 DEF StreamInv, ChannelHolds
<1>16. Continues(serve', serve)
  BY <1>11, Typing, ContinuesFact
<1> QED
  BY <1>10, <1>12, <1>14, <1>15, <1>16, ServeHolds

\* A new frame keeps the client in agreement with the log, and what is shown with both.
LEMMA FrameFact ==
  ASSUME TypeInv, StreamInv, Receive("event"), UNCHANGED serveVars,
         client.streamId # NoStream, Fresh(incoming)
  PROVE  LET c == WithFrame(incoming) IN
         /\ c \in Client /\ Agrees(serve, c) /\ c.streamId = client.streamId
         /\ app.synced /\ MaxSuperseded = 0 => Shows(serve, c, app)
<1> DEFINE c == WithFrame(incoming)
<1>1. incoming \in Event /\ incoming.stream = client.streamId
  BY IncomingHolds DEF Fresh
<1>2. Genuine(serve, incoming)
  BY <1>1, IncomingHolds
<1>3. client \in Client /\ Agrees(serve, client)
  BY Typing DEF StreamInv, ClientHolds
<1>4. Buffered(client.frames, incoming) \in SUBSET Event
  BY <1>1, <1>3 DEF Buffered, Client
<1>5. c \in Client
  BY <1>3, <1>4 DEF WithFrame, Client
<1>6. c.frames \subseteq client.frames \cup {incoming} /\ c.streamId = client.streamId
      /\ c.cursor = client.cursor /\ c.latest = client.latest
  BY <1>3 DEF WithFrame, Buffered, Client
<1> HIDE DEF c
<1>7. Agrees(serve, c)
  BY <1>2, <1>3, <1>6 DEF Agrees
<1>8. app.synced /\ MaxSuperseded = 0 => Shows(serve, c, app)
  BY <1>6 DEF StreamInv, SyncHolds, Shows
<1> QED
  BY <1>5, <1>6, <1>7, <1>8 DEF c

\* Holding back one more genuine event disturbs nothing.
LEMMA FrameHolds ==
  ASSUME TypeInv, StreamInv, Receive("event"), UNCHANGED <<serveVars, app, phase>>,
         client.streamId # NoStream, Fresh(incoming), client' = WithFrame(incoming)
  PROVE  Agrees(serve, client') /\ (SyncHolds => SyncHolds')
<1>1. Agrees(serve, client') /\ client'.streamId = client.streamId
      /\ (app.synced /\ MaxSuperseded = 0 => Shows(serve, client', app))
  BY FrameFact
<1>2. serve' = serve /\ app' = app /\ phase' = phase
  BY DEF serveVars
<1> QED
  BY <1>1, <1>2 DEF SyncHolds

\* A client that joins the stream of Serve's initialize response.
LEMMA JoinedHolds ==
  ASSUME TypeInv, StreamInv, Receive("initialized"), UNCHANGED serveVars,
         Head(messages).stream # NoStream
  PROVE  LET m == Head(messages) IN
         /\ Joined(m) \in Client
         /\ Agrees(serve, [Joined(m) EXCEPT !.cursor = m.current])
         /\ m.current \in Nat /\ m.current <= Len(serve.log)
<1> DEFINE m == Head(messages)
           j == Joined(m)
           c == [j EXCEPT !.cursor = m.current]
<1>1. m \in Message /\ m.type = "initialized" /\ MessageHolds(serve, m)
  BY ReceiveHolds
<1>2. m.current \in Nat /\ m.stream \in Stream /\ m.features \in SUBSET Features
  BY <1>1 DEF Message
<1>3. m.current <= Len(serve.log) /\ m.stream = serve.stream /\ "cursor" \in serve.features
  BY <1>1 DEF MessageHolds
<1>4. client \in Client /\ Agrees(serve, client) /\ stored \in Cursor
  BY DEF TypeInv, TypeOK, StreamInv, ClientHolds
<1> HIDE DEF m
<1>5. {f \in client.frames : f.stream = m.stream} \in SUBSET Event
  BY <1>4 DEF Client
<1>6. (IF Resumable(m) THEN stored.sequence ELSE NoSequence) \in Nat \cup {NoSequence}
  BY <1>4 DEF Cursor, NoCursor
<1>7. j \in Client
  BY <1>2, <1>4, <1>5, <1>6 DEF Joined, Client, Stream, NoStream
<1>8. j.frames \subseteq client.frames /\ j.streamId = m.stream /\ j.latest = m.current
  BY <1>4 DEF Joined, Client
<1> HIDE DEF j
<1>9. c.frames = j.frames /\ c.streamId = j.streamId /\ c.latest = j.latest
      /\ c.cursor = m.current
  BY <1>7 DEF Client
<1> HIDE DEF c
<1>10. Agrees(serve, c)
  BY <1>3, <1>4, <1>8, <1>9 DEF Agrees
<1> QED
  BY <1>2, <1>3, <1>7, <1>10 DEF m, j, c

\* Giving up a replay leaves a client that agrees with the log.
LEMMA AbandonedHolds ==
  ASSUME serve \in Engine, client \in Client, Agrees(serve, client),
         NEW n \in Nat, n <= Len(serve.log)
  PROVE  Abandoned(client, n) \in Client /\ Agrees(serve, Abandoned(client, n))
<1> DEFINE c == Abandoned(client, n)
<1>1. c \in Client
  BY RecoveredType
<1>2. c.frames = client.frames /\ c.streamId = client.streamId /\ c.latest = client.latest
      /\ c.cursor = n
  BY DEF Abandoned, Client
<1> HIDE DEF c
<1>3. Agrees(serve, c)
  BY <1>2 DEF Agrees
<1> QED
  BY <1>1, <1>3 DEF c

\* A snapshot the client accepts is Serve's log up to the cursor it sets.
LEMMA SnapshotHolds ==
  ASSUME TypeInv, StreamInv, Receive("snapshot"), UNCHANGED serveVars,
         SnapshotFits(Head(messages))
  PROVE  LET m == Head(messages)
             c == SnapshotApplied(m)
             a == [stream |-> m.stream, base |-> m.log, tail |-> <<>>, synced |-> TRUE]
         IN /\ c \in Client /\ a \in View /\ Agrees(serve, c) /\ Shows(serve, c, a)
            /\ c.streamId # NoStream
<1> DEFINE m == Head(messages)
           c == SnapshotApplied(m)
           a == [stream |-> m.stream, base |-> m.log, tail |-> <<>>, synced |-> TRUE]
<1>1. m \in Message /\ m.type = "snapshot" /\ MessageHolds(serve, m)
      /\ m.stream = client.streamId
  BY ReceiveHolds DEF SnapshotFits
<1>2. m.log \in Logs /\ Len(m.log) \in Nat /\ m.stream \in Stream \ {NoStream}
  BY <1>1 DEF Message, Logs
<1>3. m.stream = serve.stream /\ OfLog(serve, m.log)
  BY <1>1 DEF MessageHolds
<1>4. client \in Client /\ Agrees(serve, client)
  BY Typing DEF StreamInv, ClientHolds
<1> HIDE DEF m
<1>5. {f \in client.frames : f.seq > Len(m.log)} \in SUBSET Event
  BY <1>4 DEF Client
<1>6. c \in Client
  BY <1>2, <1>4, <1>5 DEF SnapshotApplied, Client
<1>7. c.frames \subseteq client.frames /\ c.streamId = client.streamId
      /\ c.latest = client.latest /\ c.cursor = Len(m.log)
  BY <1>4 DEF SnapshotApplied, Client
<1>8. a \in View
  <2>1. <<>> \in Seq(Event)
    OBVIOUS
  <2> QED
    BY <1>2, <2>1 DEF View
<1>9. a.stream = m.stream /\ a.base = m.log /\ a.tail = <<>>
  OBVIOUS
<1> HIDE DEF c, a
<1>10. Len(m.log) <= Len(serve.log)
       /\ \A n \in 1..Len(m.log) : m.log[n] = serve.log[n]
  BY <1>3 DEF OfLog
<1>11. Agrees(serve, c)
  BY <1>1, <1>2, <1>3, <1>4, <1>7, <1>10 DEF Agrees
<1>12. Len(a.base) + Len(a.tail) = Len(m.log)
  BY <1>2, <1>9
<1>13. 1..Len(a.tail) = {}
  BY <1>9
<1>14. Shows(serve, c, a)
  BY <1>1, <1>3, <1>7, <1>9, <1>10, <1>12, <1>13 DEF Shows
<1> QED
  BY <1>1, <1>2, <1>6, <1>7, <1>8, <1>11, <1>14 DEF m, c, a

\* Nothing is connected at the start, so the invariant has nothing to break.
LEMMA StreamInit == Init => StreamInv
<1> SUFFICES ASSUME Init PROVE StreamInv
  OBVIOUS
<1>1. serve.log = <<>>
  BY DEF Init
<1>2. OfflineHolds
  BY DEF Init, OfflineHolds
<1>3. ChannelHolds
  BY <1>1 DEF Init, ChannelHolds, NoWork
<1>4. ClientHolds
  BY DEF Init, ClientHolds, Agrees, FreshClient
<1>5. SyncHolds
  BY DEF Init, SyncHolds, ClearedApp
<1> QED
  BY <1>2, <1>3, <1>4, <1>5 DEF Init, StreamInv

\* Every step keeps the renderer and the log in agreement: what is in flight always,
\* what is shown as long as no client is superseded by another.
LEMMA StreamStep ==
  ASSUME TypeInv, TypeInv', StreamInv, [Next]_vars
  PROVE  StreamInv'
<1>0. /\ serve \in Engine /\ serve' \in Engine /\ work \in Work
      /\ requests \in Seq(Request) /\ messages \in Seq(Message) /\ messages' \in Seq(Message)
      /\ client \in Client /\ client' \in Client
      /\ app \in View /\ app' \in View
  BY DEF TypeInv, TypeOK
<1>a. /\ OfflineHolds /\ (MaxSuperseded = 0 => superseded = {})
      /\ ChannelHolds /\ ClientHolds /\ SyncHolds /\ Agrees(serve, client)
      /\ Len(serve.log) \in Nat
  BY <1>0 DEF StreamInv, ClientHolds, Engine, Logs
<1>1. CASE ServeLogs
  <2> DEFINE log   == Append(serve.log, serve.life)
             added == IF attached THEN <<Broadcast(serve.stream, log, Len(log))>> ELSE <<>>
  <2>1. /\ serve' = [serve EXCEPT !.log = log]
        /\ messages' = IF attached
                         THEN Append(messages, Broadcast(serve.stream, log, Len(log)))
                         ELSE messages
        /\ UNCHANGED <<work, attached, requests, clientVars, faults>>
    BY <1>1 DEF ServeLogs
  <2>2. serve'.log = log /\ serve'.stream = serve.stream /\ serve'.features = serve.features
    BY <1>0, <2>1 DEF Engine
  <2>3. serve.log \in Seq(Nat) /\ serve.life \in Nat /\ serve.stream \in Stream
    BY <1>0 DEF Engine, Logs
  <2>4. Len(log) = Len(serve.log) + 1 /\ log[Len(log)] = serve.life
    BY <2>3
  <2> DEFINE b == Broadcast(serve.stream, log, Len(log))
  <2>5. b \in Message /\ MessageHolds(serve', b)
    <3>1. b.type = "event"
          /\ b.event.stream = (IF Numbered THEN serve.stream ELSE NoStream)
          /\ b.event.seq = Len(log) /\ b.event.id = log[Len(log)]
      BY DEF Broadcast, EventAt
    <3>2. MessageHolds(serve', b)
      BY <1>a, <2>2, <2>4, <3>1 DEF MessageHolds, Genuine, Numbered
    <3>3. b \in Message
      BY <1>a, <2>3, <2>4 DEF Broadcast, EventAt, Event, Stream, NoStream, Message
    <3> QED
      BY <3>2, <3>3
  <2> HIDE DEF b
  <2>6. added \in Seq(Message) /\ messages' = messages \o added
        /\ \A i \in 1..Len(added) : MessageHolds(serve', added[i])
    <3>1. CASE attached
      <4>1. added = <<b>> /\ messages' = Append(messages, b)
        BY <2>1, <3>1 DEF b
      <4>2. <<b>> \in Seq(Message) /\ Len(<<b>>) = 1 /\ <<b>>[1] = b
        BY <2>5
      <4>3. Append(messages, b) = messages \o <<b>>
        BY <1>0, <2>5
      <4>4. \A i \in 1..Len(<<b>>) : MessageHolds(serve', <<b>>[i])
        BY <2>5, <4>2
      <4> HIDE DEF added
      <4> QED
        BY <4>1, <4>2, <4>3, <4>4
    <3>2. CASE ~attached
      <4>1. added = <<>> /\ messages' = messages
        BY <2>1, <3>2
      <4> HIDE DEF added
      <4> QED
        BY <1>0, <4>1
    <3> QED
      BY <3>1, <3>2
  <2> HIDE DEF added
  <2>7. OfflineHolds'
    BY <1>a, <2>1 DEF OfflineHolds, clientVars
  <2>8. work'.from <= Len(serve'.log)
    BY <1>0, <1>a, <2>1, <2>2, <2>4 DEF ChannelHolds, Work
  <2>9. Continues(serve', serve)
    BY <1>0, <2>1, <2>2, ContinuesFact
  <2> QED
    BY <2>1, <2>6, <2>7, <2>8, <2>9, ServeHolds
<1>2. CASE ServeExpires
  <2>1. serve' = [serve EXCEPT !.first = @ + 1]
        /\ UNCHANGED <<work, attached, channelVars, clientVars, faults>>
    BY <1>2 DEF ServeExpires
  <2>2. serve'.log = serve.log /\ serve'.stream = serve.stream
        /\ serve'.features = serve.features
    BY <1>0, <2>1 DEF Engine
  <2> QED
    BY <1>0, <1>a, <2>1, <2>2, ContinuesFact, QuietHolds DEF channelVars, ChannelHolds, OfflineHolds,
       clientVars
<1>26. CASE ServeRepeats
  <2>1. PICK n \in 1 .. Len(serve.log) :
          messages' = Append(messages, Broadcast(serve.stream, serve.log, n))
    BY <1>26 DEF ServeRepeats
  <2> DEFINE m == Broadcast(serve.stream, serve.log, n)
  <2>2. messages' = Append(messages, m) /\ UNCHANGED <<serve, work, attached, clientVars>>
        /\ attached
    BY <1>26, <2>1 DEF ServeRepeats
  <2>3. n \in Nat /\ serve.log[n] \in Nat
    BY Typing
  <2>4. m \in Message
    BY <1>0, <2>3 DEF Engine, Broadcast, EventAt, Event, Stream, NoStream, Message
  <2>5. MessageHolds(serve, m)
    BY DEF Broadcast, EventAt, MessageHolds, Genuine, Numbered
  <2> HIDE DEF m
  <2>6. phase # "offline" /\ work'.from <= Len(serve.log)
    BY <1>a, <2>2 DEF OfflineHolds, ChannelHolds
  <2> QED
    BY <2>2, <2>4, <2>5, <2>6, SendHolds
<1>3. CASE ServeRefuses
  <2> DEFINE m == [type |-> "error"]
  <2>1. m \in Message /\ MessageHolds(serve, m)
    BY DEF Message, MessageHolds
  <2>2. messages' = Append(messages, m) /\ UNCHANGED <<serve, attached, clientVars>>
    BY <1>3 DEF ServeRefuses
  <2> HIDE DEF m
  <2>3. work'.from <= Len(serve.log)
    <3>1. work' = NoWork \/ work' = work
      BY <1>3 DEF ServeRefuses
    <3> QED
      BY <1>a, <3>1 DEF NoWork, ChannelHolds
  <2>4. phase # "offline"
    BY <1>3, <1>a DEF ServeRefuses, OfflineHolds
  <2> QED
    BY <1>a, <2>1, <2>2, <2>3, <2>4, SendHolds
<1>4. CASE ServeRestarts
  <2>1. CASE phase = "offline"
    <3>1. UNCHANGED <<work, attached, channelVars, client, stored, phase, app, superseded>>
      BY <1>4, <2>1 DEF ServeRestarts
    <3>2. client' = FreshClient /\ work' = NoWork /\ ~attached' /\ requests' = <<>>
          /\ messages' = <<>> /\ app' = app /\ superseded' = superseded
          /\ phase' = "offline"
      BY <1>a, <2>1, <3>1 DEF OfflineHolds, channelVars
    <3>3. app.synced = FALSE
      BY <2>1, Unsynced
    <3>4. Len(serve'.log) \in Nat
      BY <1>0 DEF Engine, Logs
    <3>5. ChannelHolds'
      BY <3>2, <3>4 DEF ChannelHolds, NoWork
    <3>6. ClientHolds'
      BY <3>2 DEF ClientHolds, Agrees, FreshClient
    <3> QED
      BY <1>a, <3>2, <3>3, <3>5, <3>6 DEF StreamInv, OfflineHolds, SyncHolds
  <2>2. CASE phase # "offline"
    BY <1>0, <1>a, <1>4, <2>2, DisconnectedHolds DEF ServeRestarts
  <2> QED
    BY <2>1, <2>2
<1>5. CASE ConnectionLost \/ ListFails \/ ConnectFails
  <2>1. (SocketCloses \/ ConnectGivesUp) /\ UNCHANGED superseded
    BY <1>5 DEF ConnectionLost, ListFails, ConnectFails
  <2> QED
    BY <1>0, <2>1, DisconnectedHolds
<1>6. CASE ServeAuthenticates \/ ServeStartsSnapshot
  <2>1. PICK type \in {"initialize", "snapshot"} : ServeAccepts(type)
    BY <1>6 DEF ServeAuthenticates, ServeStartsSnapshot
  <2>2. requests # <<>> /\ work'.from = Len(serve.log)
        /\ UNCHANGED <<serve, messages, clientVars>>
    BY <2>1 DEF ServeAccepts
  <2>3. phase # "offline"
    BY <1>a, <2>2 DEF OfflineHolds
  <2> QED
    BY <1>0, <1>a, <2>2, <2>3, ContinuesFact, QuietHolds DEF OfflineHolds, clientVars
<1>7. CASE ServeInitializes
  <2>1. PICK current \in work.from .. Len(serve.log) :
          messages' = Append(messages,
            [type |-> "initialized", features |-> serve.features, current |-> current,
             stream |-> IF Numbered THEN serve.stream ELSE NoStream])
    BY <1>7 DEF ServeInitializes
  <2> DEFINE m == [type |-> "initialized", features |-> serve.features, current |-> current,
                   stream |-> IF Numbered THEN serve.stream ELSE NoStream]
  <2>2. current \in Nat /\ current <= Len(serve.log)
    BY <1>0, <1>a DEF Work
  <2>3. m \in Message
    BY <1>0, <2>2 DEF Engine, Message, Stream, NoStream
  <2>4. MessageHolds(serve, m)
    BY <2>2 DEF MessageHolds, Numbered
  <2>5. messages' = Append(messages, m)
    BY <2>1
  <2>6. UNCHANGED <<serve, clientVars>> /\ work' = NoWork /\ phase # "offline"
    BY <1>a, <1>7 DEF ServeInitializes, OfflineHolds, NoWork
  <2> HIDE DEF m
  <2>7. work'.from <= Len(serve.log)
    BY <1>a, <2>6 DEF NoWork
  <2> QED
    BY <2>3, <2>4, <2>5, <2>6, <2>7, SendHolds
<1>8. CASE ServeSnapshots
  <2>1. PICK through \in work.from .. Len(serve.log) :
          messages' = Append(messages, [type |-> "snapshot", stream |-> serve.stream,
                                        log |-> SubSeq(serve.log, 1, through)])
    BY <1>8 DEF ServeSnapshots
  <2> DEFINE l == SubSeq(serve.log, 1, through)
             m == [type |-> "snapshot", stream |-> serve.stream, log |-> l]
  <2>2. through \in 0..Len(serve.log)
    BY <1>0, <1>a DEF Work
  <2>3. l \in Logs /\ OfLog(serve, l)
    <3>1. serve.log \in Seq(Nat)
      BY Typing
    <3> QED
      BY <2>2, <3>1 DEF OfLog, Logs
  <2>4. messages' = Append(messages, m)
    BY <2>1
  <2> HIDE DEF l
  <2>5. m \in Message /\ MessageHolds(serve, m)
    BY <1>0, <2>3 DEF Engine, Message, MessageHolds
  <2>6. UNCHANGED <<serve, clientVars>> /\ work' = NoWork /\ phase # "offline"
    BY <1>a, <1>8 DEF ServeSnapshots, OfflineHolds, NoWork
  <2> HIDE DEF m
  <2>7. work'.from <= Len(serve.log)
    BY <1>a, <2>6 DEF NoWork
  <2> QED
    BY <2>4, <2>5, <2>6, <2>7, SendHolds
<1>9. CASE ServeReplays
  BY <1>9, ReplayPageHolds
<1>10. CASE Connect \/ Supersede
  <2>1. client' = FreshClient /\ app' = ClearedApp /\ phase' = "initializing"
        /\ messages' = <<>> /\ work' = NoWork /\ serve' = serve
    BY <1>10 DEF Connect, Supersede, Open
  <2>2. ChannelHolds'
    BY <1>a, <2>1 DEF ChannelHolds, NoWork
  <2>3. Agrees(serve', client')
    BY <2>1 DEF Agrees, FreshClient
  <2>4. app'.synced = FALSE
    BY <2>1 DEF ClearedApp
  <2>5. MaxSuperseded = 0 => superseded' = {}
    <3>1. CASE Connect
      BY <1>a, <3>1 DEF Connect
    <3>2. CASE Supersede
      <4>1. Cardinality(superseded) < MaxSuperseded
        BY <3>2 DEF Supersede
      <4> QED
        BY <1>a, <4>1, FS_EmptySet
    <3> QED
      BY <1>10, <3>1, <3>2
  <2> QED
    BY <2>2, <2>1, <2>3, <2>4, <2>5, UnsyncedHolds
<1>11. CASE SupersededCloses
  <2>1. PICK s \in superseded, k \in 0..MaxLog :
          app' = Applied(app, Run(AfterRejection(s.client, s.pendingIn), k))
    BY <1>11 DEF SupersededCloses
  <2>2. /\ MaxSuperseded # 0
        /\ UNCHANGED <<serveVars, channelVars, client, phase>>
    BY <1>a, <1>11, <2>1 DEF SupersededCloses
  <2>3. app'.synced = app.synced
    BY <1>0, <2>1 DEF Applied, View
  <2>4. OfflineHolds' /\ ChannelHolds' /\ ClientHolds'
    BY <1>a, <2>2 DEF OfflineHolds, ChannelHolds, ClientHolds, serveVars, channelVars
  <2>5. SyncHolds'
    BY <1>a, <2>2, <2>3 DEF SyncHolds
  <2> QED
    BY <2>2, <2>4, <2>5 DEF StreamInv
<1>12. CASE ListAnswered
  <2>1. phase = "listing" /\ UNCHANGED <<serveVars, messages, superseded, app>>
        /\ (client' = client \/ client' = [client EXCEPT !.recovering = TRUE])
        /\ phase' # "offline"
    BY <1>12 DEF ListAnswered
  <2>2. app.synced = FALSE
    BY <2>1, Unsynced
  <2>3. Agrees(serve', client')
    <3>1. client'.frames = client.frames /\ client'.streamId = client.streamId
          /\ client'.cursor = client.cursor /\ client'.latest = client.latest
      BY <1>0, <2>1 DEF Client
    <3>2. serve' = serve
      BY <2>1 DEF serveVars
    <3> QED
      BY <1>a, <3>1, <3>2 DEF Agrees
  <2>4. ChannelHolds'
    BY <1>a, <2>1 DEF ChannelHolds, serveVars
  <2> QED
    BY <1>a, <2>1, <2>2, <2>3, <2>4, UnsyncedHolds
<1>13. CASE ReceiveUnnumbered
  <2>1. Receive("event") /\ incoming.stream = NoStream /\ app' = Applied(app, <<incoming>>)
        /\ UNCHANGED <<serveVars, client, superseded, phase>>
    BY <1>13 DEF ReceiveUnnumbered
  <2>2. ChannelHolds' /\ phase' # "offline" /\ serve' = serve
    BY <2>1, ReceiveHolds
  <2>3. client.streamId = NoStream
    BY <1>a, <2>1, IncomingHolds DEF Agrees
  <2>4. app'.synced = FALSE
    BY <1>0, <2>1, <2>3, Unsynced DEF Applied, View
  <2> QED
    BY <1>a, <2>1, <2>2, <2>4, UnsyncedHolds
<1>14. CASE BufferEarly
  <2>1. Receive("event") /\ incoming.stream # NoStream /\ client.streamId = NoStream
        /\ UNCHANGED <<serveVars, superseded, phase, app>>
    BY <1>14 DEF BufferEarly
  <2>2. client'.streamId = client.streamId
        /\ client'.frames \subseteq client.frames \cup {incoming}
    BY <1>0, <1>14 DEF BufferEarly, Buffered, Client
  <2>3. ChannelHolds' /\ phase' # "offline" /\ serve' = serve
    BY <2>1, ReceiveHolds
  <2>4. Genuine(serve, incoming)
    BY <2>1, IncomingHolds
  <2>5. Agrees(serve', client')
    BY <1>a, <2>1, <2>2, <2>3, <2>4 DEF Agrees
  <2> QED
    BY <1>a, <2>1, <2>3, <2>5, Unsynced, UnsyncedHolds
<1>15. CASE DropEvent
  <2>1. Receive("event") /\ UNCHANGED <<serveVars, clientVars>>
    BY <1>15 DEF DropEvent
  <2>2. ChannelHolds' /\ phase # "offline" /\ serve' = serve
    BY <2>1, ReceiveHolds
  <2> QED
    BY <1>a, <2>1, <2>2 DEF StreamInv, OfflineHolds, ClientHolds, SyncHolds, clientVars
<1>16. CASE HoldEvent
  <2>1. Receive("event") /\ client.streamId # NoStream /\ Fresh(incoming)
        /\ client' = WithFrame(incoming) /\ UNCHANGED <<serveVars, superseded, phase, app>>
    BY <1>16 DEF HoldEvent
  <2>2. ChannelHolds' /\ phase # "offline" /\ serve' = serve
    BY <2>1, ReceiveHolds
  <2>3. Agrees(serve, client') /\ (SyncHolds => SyncHolds')
    BY <2>1, FrameHolds
  <2> QED
    BY <1>a, <2>1, <2>2, <2>3 DEF StreamInv, OfflineHolds, ClientHolds
<1>17. CASE DeliverEvent
  <2> DEFINE c == WithFrame(incoming)
  <2>1. Receive("event") /\ client.streamId # NoStream /\ Fresh(incoming)
        /\ UNCHANGED <<serveVars, superseded, phase>>
    BY <1>17 DEF DeliverEvent
  <2>2. PICK k \in 0..MaxLog : Finish(c, k, app, stored)
    BY <1>17 DEF DeliverEvent
  <2>3. ChannelHolds' /\ phase # "offline" /\ serve' = serve
    BY <2>1, ReceiveHolds
  <2>4. k \in Nat
    BY BoundsAssumption
  <2>5. c \in Client /\ Agrees(serve, c) /\ c.streamId = client.streamId
        /\ (app.synced => phase = "ready")
        /\ (app.synced /\ MaxSuperseded = 0 => Shows(serve, c, app))
    BY <1>a, <2>1, FrameFact DEF SyncHolds
  <2>6. IsRun(c, k) /\ client' = Drained(c, k) /\ app' = Applied(app, Run(c, k))
    BY <2>2 DEF Finish
  <2> HIDE DEF c
  <2>7. Agrees(serve', client')
    BY <1>0, <2>3, <2>4, <2>5, <2>6, DrainAgrees
  <2>8. app'.synced = app.synced /\ client'.streamId = client.streamId
    BY <1>0, <2>5, <2>6 DEF Applied, View, Drained, Client
  <2>9. SyncHolds'
    <3> SUFFICES ASSUME app.synced
                 PROVE /\ phase' = "ready" /\ client'.streamId # NoStream
                       /\ MaxSuperseded = 0 => Shows(serve', client', app')
      BY <2>8 DEF SyncHolds
    <3>1. MaxSuperseded = 0 => Shows(serve, client', app')
      BY <1>0, <2>4, <2>5, <2>6, DrainShows DEF Agrees
    <3> QED
      BY <2>1, <2>3, <2>5, <2>8, <3>1
  <2> QED
    BY <1>a, <2>1, <2>3, <2>7, <2>9 DEF StreamInv, OfflineHolds, ClientHolds
<1>18. CASE JoinUnnumbered
  <2>1. Receive("initialized") /\ phase = "initializing" /\ phase' = "listing"
        /\ UNCHANGED <<serveVars, superseded>>
    BY <1>18 DEF JoinUnnumbered, Respond
  <2>2. client'.frames = {} /\ client'.streamId = client.streamId
        /\ client'.cursor = client.cursor /\ client'.latest = client.latest
    BY <1>0, <1>18 DEF JoinUnnumbered, Client
  <2>3. ChannelHolds' /\ serve' = serve
    BY <2>1, ReceiveHolds
  <2>4. Agrees(serve', client')
    BY <1>a, <2>2, <2>3 DEF Agrees
  <2>5. PICK events : app' = Applied(app, events)
    BY <1>18 DEF JoinUnnumbered
  <2>6. app'.synced = FALSE
    BY <1>0, <2>1, <2>5, Unsynced DEF Applied, View
  <2> QED
    BY <1>a, <2>1, <2>3, <2>4, <2>6, UnsyncedHolds
<1>19. CASE JoinAndReplay
  <2> DEFINE m == Head(messages)
  <2>1. Receive("initialized") /\ phase = "initializing" /\ phase' = "replaying"
        /\ UNCHANGED <<serveVars, superseded, app>>
    BY <1>19 DEF JoinAndReplay, Respond
  <2>2. m.stream # NoStream /\ stored.sequence < m.current
        /\ client' = [Joined(m) EXCEPT !.cursor = stored.sequence, !.after = stored.sequence]
    BY <1>19 DEF JoinAndReplay
  <2>3. ChannelHolds' /\ serve' = serve
    BY <2>1, ReceiveHolds
  <2>4. Joined(m) \in Client /\ Agrees(serve, [Joined(m) EXCEPT !.cursor = m.current])
        /\ m.current \in Nat /\ m.current <= Len(serve.log)
    BY <2>1, <2>2, JoinedHolds
  <2> HIDE DEF m
  <2>5. stored.sequence \in Int
    <3>1. stored \in Cursor
      BY DEF TypeInv, TypeOK
    <3> QED
      BY <3>1 DEF Cursor, NoCursor, NoSequence
  <2>6. Agrees(serve', client')
    BY <1>a, <2>2, <2>3, <2>4, <2>5 DEF Agrees, Client
  <2>7. app'.synced = FALSE
    BY <2>1, Unsynced
  <2> QED
    BY <1>a, <2>1, <2>3, <2>6, <2>7, UnsyncedHolds
<1>20. CASE JoinAtCurrent
  <2> DEFINE m == Head(messages)
             c == [Joined(m) EXCEPT !.cursor = m.current,
                     !.snapshotRequired = stored # NoCursor
                       /\ stored # [stream |-> m.stream, sequence |-> m.current]]
  <2>1. Receive("initialized") /\ phase = "initializing"
        /\ m.stream # NoStream /\ FinishRecovery(c) /\ UNCHANGED <<serveVars, superseded>>
    BY <1>20 DEF JoinAtCurrent, Respond
  <2>2. ChannelHolds' /\ serve' = serve
    BY <2>1, ReceiveHolds
  <2>3. Joined(m) \in Client /\ Agrees(serve, [Joined(m) EXCEPT !.cursor = m.current])
        /\ m.current \in Nat
    BY <2>1, JoinedHolds
  <2>4. c \in Client /\ Agrees(serve, c)
    BY <2>3 DEF Agrees, Client
  <2> HIDE DEF c
  <2>5. Agrees(serve, client') /\ app'.synced = FALSE /\ phase' = "listing"
    BY <1>0, <2>1, <2>4, Unsynced, RecoveryHolds
  <2> QED
    BY <1>a, <2>1, <2>2, <2>5, UnsyncedHolds
<1>21. CASE ReplayEnds
  <2> DEFINE m == Head(messages)
             c == IF ~m.snapshotRequired /\ ~m.hasMore THEN client ELSE Abandoned(client, m.current)
  <2>1. Receive("page") /\ phase = "replaying"
        /\ FinishRecovery(c) /\ UNCHANGED <<serveVars, superseded>>
    BY <1>21 DEF ReplayEnds, Respond
  <2>2. ChannelHolds' /\ serve' = serve /\ m \in Message /\ m.type = "page"
        /\ MessageHolds(serve, m)
    BY <2>1, ReceiveHolds
  <2>3. m.current \in Nat /\ m.current <= Len(serve.log)
    BY <2>2 DEF Message, MessageHolds
  <2> HIDE DEF m
  <2>4. c \in Client /\ Agrees(serve, c)
    BY <1>0, <1>a, <2>3, AbandonedHolds
  <2> HIDE DEF c
  <2>5. Agrees(serve, client') /\ app'.synced = FALSE /\ phase' = "listing"
    BY <1>0, <2>1, <2>4, Unsynced, RecoveryHolds
  <2> QED
    BY <1>a, <2>1, <2>2, <2>5, UnsyncedHolds
<1>22. CASE ReplayGoesOn
  <2> DEFINE m == Head(messages)
  <2>1. Receive("page") /\ phase = "replaying" /\ phase' = phase
        /\ UNCHANGED <<serveVars, superseded, app>>
    BY <1>22 DEF ReplayGoesOn, Respond
  <2>2. client' = [client EXCEPT !.after = m.through, !.page = @ + 1, !.latest = Later(m, @)]
    BY <1>22 DEF ReplayGoesOn
  <2>3. ChannelHolds' /\ serve' = serve /\ m \in Message /\ m.type = "page"
        /\ MessageHolds(serve, m)
    BY <2>1, ReceiveHolds
  <2>4. m.current \in Nat /\ m.current <= Len(serve.log)
    BY <2>3 DEF Message, MessageHolds
  <2> HIDE DEF m
  <2>5. client'.frames = client.frames /\ client'.streamId = client.streamId
        /\ client'.cursor = client.cursor /\ client'.latest = Later(m, client.latest)
    BY <1>0, <2>2 DEF Client
  <2>6. Agrees(serve', client')
    BY <1>a, <2>3, <2>4, <2>5 DEF Agrees, Later
  <2> QED
    BY <1>a, <2>1, <2>3, <2>6, Unsynced, UnsyncedHolds
<1>23. CASE ReplayFails
  <2> DEFINE c == Abandoned(client, client.latest)
  <2>1. Receive("error") /\ phase = "replaying"
        /\ FinishRecovery(c) /\ UNCHANGED <<serveVars, superseded>>
    BY <1>23 DEF ReplayFails, Respond
  <2>2. ChannelHolds' /\ serve' = serve
    BY <2>1, ReceiveHolds
  <2>3. client.latest \in Nat
    BY Typing
  <2>4. c \in Client /\ Agrees(serve, c)
    BY <1>0, <1>a, <2>3 DEF Abandoned, Agrees, Client
  <2> HIDE DEF c
  <2>5. Agrees(serve, client') /\ app'.synced = FALSE /\ phase' = "listing"
    BY <1>0, <2>1, <2>4, Unsynced, RecoveryHolds
  <2> QED
    BY <1>a, <2>1, <2>2, <2>5, UnsyncedHolds
<1>24. CASE ApplySnapshot
  <2> DEFINE m == Head(messages)
             c == SnapshotApplied(m)
             a == [stream |-> m.stream, base |-> m.log, tail |-> <<>>, synced |-> TRUE]
  <2>1. Receive("snapshot") /\ SnapshotFits(m) /\ phase' = "ready"
        /\ UNCHANGED <<serveVars, superseded>>
    BY <1>24 DEF ApplySnapshot, Respond
  <2>2. PICK k \in 0..MaxLog : Finish(c, k, a, CursorOf(c))
    BY <1>24 DEF ApplySnapshot
  <2>3. ChannelHolds' /\ serve' = serve
    BY <2>1, ReceiveHolds
  <2>4. /\ c \in Client /\ a \in View /\ Agrees(serve, c) /\ Shows(serve, c, a)
        /\ c.streamId # NoStream
    BY <2>1, SnapshotHolds
  <2>5. k \in Nat
    BY BoundsAssumption
  <2>6. IsRun(c, k) /\ client' = Drained(c, k) /\ app' = Applied(a, Run(c, k))
    BY <2>2 DEF Finish
  <2> HIDE DEF m, c, a
  <2>7. Agrees(serve', client')
    BY <1>0, <2>3, <2>4, <2>5, <2>6, DrainAgrees
  <2>8. Shows(serve', client', app')
    BY <1>0, <2>3, <2>4, <2>5, <2>6, DrainShows DEF Agrees
  <2>9. client'.streamId # NoStream
    BY <2>4, <2>6 DEF Drained, Client
  <2> QED
    BY <1>a, <2>1, <2>3, <2>7, <2>8, <2>9 DEF StreamInv, OfflineHolds, ClientHolds, SyncHolds
<1>25. CASE UNCHANGED vars
  BY <1>a, <1>25 DEF vars, serveVars, channelVars, clientVars, StreamInv, OfflineHolds,
     ChannelHolds, ClientHolds, SyncHolds
<1> QED
  BY <1>1, <1>2, <1>3, <1>4, <1>5, <1>6, <1>7, <1>8, <1>9, <1>10, <1>11, <1>12, <1>13, <1>14,
     <1>15, <1>16, <1>17, <1>18, <1>19, <1>20, <1>21, <1>22, <1>23, <1>24, <1>25, <1>26 DEF Next

\* A renderer that synchronized and is ready shows Serve's log up to its cursor, for
\* every log, page size, set of Engines and number of faults, if connect() never
\* supersedes a client whose socket has not closed (MaxSuperseded = 0: with it the
\* code does not promise this, see EventStreamSuperseded.cfg).
THEOREM Authoritative ==
  ASSUME MaxSuperseded = 0
  PROVE  Spec => []ReadyIsAuthoritative
<1>1. TypeInv /\ StreamInv => ReadyIsAuthoritative
  BY DEF StreamInv, SyncHolds, ReadyIsAuthoritative
<1>2. Init => TypeInv /\ StreamInv
  BY TypeInit, StreamInit
<1>3. (TypeInv /\ StreamInv) /\ [Next]_vars => (TypeInv /\ StreamInv)'
  BY TypeStep, StreamStep
<1> QED
  BY <1>1, <1>2, <1>3, PTL DEF Spec

--------------------------------------------------------------------------------
(* Channels *)

\* What a message at the head of the socket leaves behind it.
LEMMA TailFact ==
  ASSUME NEW ms \in Seq(Message), ms # <<>>
  PROVE  /\ Tail(ms) \in Seq(Message) /\ Len(Tail(ms)) = Len(ms) - 1
         /\ Head(ms) = ms[1] /\ 1 \in 1..Len(ms)
         /\ \A i \in 1..Len(Tail(ms)) : i + 1 \in 1..Len(ms) /\ Tail(ms)[i] = ms[i + 1]
         /\ \A i \in 2..Len(ms) : i - 1 \in 1..Len(Tail(ms)) /\ Tail(ms)[i - 1] = ms[i]
OBVIOUS

\* Every step that handles an event leaves the calls alone.
LEMMA EventReceived ==
  ASSUME ReceiveUnnumbered \/ BufferEarly \/ DropEvent \/ HoldEvent \/ DeliverEvent
  PROVE  Receive("event") /\ UNCHANGED <<serveVars, requests, phase, superseded>>
BY DEF ReceiveUnnumbered, BufferEarly, DropEvent, HoldEvent, DeliverEvent, clientVars

\* A page is preceded by the events it stands for.
LEMMA PageFact ==
  ASSUME TypeInv, ServeReplays
  PROVE  /\ requests # <<>> /\ Head(requests).type = "replay"
         /\ Head(requests).after \in Nat
         /\ requests' = Tail(requests) /\ UNCHANGED <<serveVars, clientVars>>
         /\ Len(messages') > Len(messages)
         /\ \A i \in 1..Len(messages) : messages'[i] = messages[i]
         /\ \A i \in Len(messages) + 1 .. Len(messages') - 1 : messages'[i].type = "event"
         /\ LET page == messages'[Len(messages')] IN
            /\ page.type = "page" /\ page.current = Len(serve.log)
            /\ page.snapshotRequired \/ page.hasMore \/ page.current <= page.through
            /\ \A n \in Head(requests).after + 1 .. page.through :
                 \E j \in 1 .. Len(messages') - 1 : Carries(messages'[j], n)
<1> DEFINE after   == Head(requests).after
           current == Len(serve.log)
           expired == after + 1 < serve.first
           through == IF expired THEN after
                      ELSE IF after + PageSize < current THEN after + PageSize ELSE current
           count   == IF after <= through THEN through - after ELSE 0
           events  == [i \in 1 .. through - after |->
                         Broadcast(serve.stream, serve.log, after + i)]
           page    == [type |-> "page", current |-> current, through |-> through,
                       snapshotRequired |-> expired, hasMore |-> ~expired /\ through < current]
<1>1. requests # <<>> /\ Head(requests).type = "replay"
      /\ messages' = messages \o events \o <<page>>
      /\ requests' = Tail(requests) /\ UNCHANGED <<serveVars, clientVars>>
  BY DEF ServeReplays
<1>2. requests \in Seq(Request) /\ messages \in Seq(Message) /\ current \in Nat
      /\ PageSize \in Nat
  BY Typing, BoundsAssumption
<1>3. after \in Nat
  <2> HIDE DEF after, current, expired, through, count, events, page
  <2>1. Head(requests) \in Request
    BY <1>1, <1>2
  <2> QED
    BY <1>1, <2>1 DEF Request, after
<1>4. through \in Nat
  BY <1>2, <1>3
<1>5. expired \/ through < current \/ current <= through
  BY <1>2, <1>4
<1> DEFINE E(i) == Broadcast(serve.stream, serve.log, after + i)
<1>6. \A i \in 1..count : E(i).type = "event" /\ Carries(E(i), after + i)
  BY DEF Broadcast, EventAt, Carries
<1> HIDE DEF after, current, expired, through, E
<1>7. count \in Nat /\ events = [i \in 1..count |-> E(i)]
  <2>1. CASE after <= through
    BY <1>3, <1>4, <2>1 DEF E
  <2>2. CASE ~(after <= through)
    <3>1. 1 .. through - after = 1..count /\ count = 0
      BY <1>3, <1>4, <2>2
    <3> HIDE DEF count
    <3> QED
      BY <3>1 DEF E
  <2> QED
    BY <2>1, <2>2
<1>8. \A n \in after + 1 .. through : n - after \in 1..count /\ after + (n - after) = n
  BY <1>3, <1>4
<1> HIDE DEF events, page, count
<1>9. /\ Len(events) = count /\ (\A i \in 1..count : events[i] = E(i))
      /\ events \in Seq({E(i) : i \in 1..count})
  BY <1>7
<1>10. Len(messages') = Len(messages) + count + 1
       /\ (\A i \in 1..Len(messages) : messages'[i] = messages[i])
       /\ (\A i \in 1..count : messages'[Len(messages) + i] = E(i))
       /\ messages'[Len(messages')] = page
  <2> DEFINE S == Message \cup {E(i) : i \in 1..count} \cup {page}
             ms == messages
             es == events
  <2>1. ms \in Seq(S) /\ es \in Seq(S) /\ page \in S
    BY <1>2, <1>9
  <2>2. Len(ms) \in Nat /\ messages' = ms \o es \o <<page>>
    BY <1>1, <1>2
  <2> HIDE DEF S, es, ms
  <2>3. Len(ms \o es) = Len(ms) + Len(es) /\ ms \o es \in Seq(S)
        /\ (\A i \in 1..Len(ms) : (ms \o es)[i] = ms[i])
        /\ (\A i \in 1..Len(es) : (ms \o es)[Len(ms) + i] = es[i])
    BY <2>1
  <2> DEFINE me == ms \o es
  <2>4. me \in Seq(S) /\ Len(me) = Len(ms) + count
        /\ (\A i \in 1..Len(ms) : me[i] = ms[i])
        /\ (\A i \in 1..count : me[Len(ms) + i] = E(i))
    BY <1>9, <2>3 DEF es
  <2>5. messages' = me \o <<page>>
    BY <2>2
  <2> HIDE DEF me
  <2>6. Len(me \o <<page>>) = Len(me) + 1 /\ (me \o <<page>>)[Len(me) + 1] = page
        /\ \A i \in 1..Len(me) : (me \o <<page>>)[i] = me[i]
    BY <2>1, <2>4
  <2>7. \A i \in 1..count : Len(ms) + i \in 1..Len(me)
    BY <1>7, <2>2, <2>4
  <2>8. \A i \in 1..Len(ms) : i \in 1..Len(me)
    BY <1>7, <2>2, <2>4
  <2> QED
    BY <2>4, <2>5, <2>6, <2>7, <2>8 DEF ms
<1>11. Len(messages) \in Nat
  BY <1>2
<1>12. \A i \in Len(messages) + 1 .. Len(messages') - 1 : messages'[i].type = "event"
  <2> SUFFICES ASSUME NEW i \in Len(messages) + 1 .. Len(messages') - 1
               PROVE  messages'[i].type = "event"
    OBVIOUS
  <2>1. i - Len(messages) \in 1..count /\ Len(messages) + (i - Len(messages)) = i
    BY <1>7, <1>10, <1>11
  <2> QED
    BY <1>6, <1>10, <2>1
<1>13. \A n \in after + 1 .. through :
         \E j \in 1 .. Len(messages') - 1 : Carries(messages'[j], n)
  <2> SUFFICES ASSUME NEW n \in after + 1 .. through
               PROVE  \E j \in 1 .. Len(messages') - 1 : Carries(messages'[j], n)
    OBVIOUS
  <2>1. n - after \in 1..count /\ after + (n - after) = n
    BY <1>8
  <2>2. Len(messages) + (n - after) \in 1 .. Len(messages') - 1
    BY <1>7, <1>10, <1>11, <2>1
  <2>3. Carries(messages'[Len(messages) + (n - after)], n)
    BY <1>6, <1>10, <2>1
  <2> QED
    BY <2>2, <2>3
<1>14. page.type = "page" /\ page.current = current /\ page.through = through
       /\ (page.snapshotRequired \/ page.hasMore \/ page.current <= page.through)
  BY <1>5 DEF page
<1>15. Len(messages') > Len(messages)
  BY <1>7, <1>10, <1>11
<1> QED
  BY <1>1, <1>3, <1>10, <1>12, <1>13, <1>14, <1>15 DEF after, current

--------------------------------------------------------------------------------
(* One call at a time *)

\* Nothing is outstanding but what has just been asked, if anything.
LEMMA QuietCall ==
  ASSUME work' = NoWork, \A i \in 1..Len(messages') : messages'[i].type = "event",
         \/ requests' = <<>>
         \/ \E r \in Request : requests' = <<r>> /\ Asked(phase', r.type)
  PROVE  CallHolds'
<1>1. Len(requests') <= 1 /\ (requests' # <<>> => Asked(phase', Head(requests').type))
  <2>1. CASE requests' = <<>>
    BY <2>1
  <2>2. CASE \E r \in Request : requests' = <<r>> /\ Asked(phase', r.type)
    BY <2>2
  <2> QED
    BY <2>1, <2>2
<1> QED
  BY <1>1 DEF CallHolds

\* The last message is the response the phase waits for.
LEMMA AnsweredCall ==
  ASSUME requests' = <<>>, work' = NoWork, Len(messages') \in Nat \ {0},
         \A i \in 1 .. Len(messages') - 1 : messages'[i].type = "event",
         Answers(phase', messages'[Len(messages')].type)
  PROVE  CallHolds'
<1>1. \A i \in 1..Len(messages') : messages'[i].type # "event" => i = Len(messages')
  OBVIOUS
<1>2. Len(<<>>) = 0
  OBVIOUS
<1> QED
  BY <1>1, <1>2 DEF CallHolds

\* While a request or work is outstanding, or nothing is, every message is an event.
LEMMA Silent ==
  ASSUME CallHolds,
         \/ requests # <<>> \/ work # NoWork
         \/ phase \notin {"initializing", "replaying", "snapshotting"}
  PROVE  /\ \A i \in 1..Len(messages) : messages[i].type = "event"
         /\ phase \notin {"initializing", "replaying", "snapshotting"} =>
              requests = <<>> /\ work = NoWork
BY DEF CallHolds, Asked, Answers

\* A request that is taken up was the only one.
LEMMA TakenUp ==
  ASSUME TypeInv, CallHolds, requests # <<>>
  PROVE  Tail(requests) = <<>> /\ work = NoWork /\ Asked(phase, Head(requests).type)
<1>1. requests \in Seq(Request) /\ Len(requests) <= 1
  BY Typing DEF CallHolds
<1>2. Len(Tail(requests)) = 0 /\ Tail(requests) \in Seq(Request)
  BY <1>1, EmptySeq, HeadTailProperties
<1>3. Tail(requests) = <<>>
  BY <1>2, EmptySeq
<1> QED
  BY <1>3 DEF CallHolds

\* A response that is received was all that was outstanding.
LEMMA Responded ==
  ASSUME TypeInv, CallHolds, NEW type, type # "event", Receive(type)
  PROVE  /\ requests = <<>> /\ work = NoWork /\ Answers(phase, type)
         /\ \A i \in 1..Len(messages') : messages'[i].type = "event"
<1>1. messages \in Seq(Message) /\ messages # <<>> /\ messages' = Tail(messages)
      /\ Head(messages).type = type
  BY Typing DEF Receive
<1>2. messages[1].type = type /\ 1 \in 1..Len(messages)
  BY <1>1, TailFact
<1>3. \A i \in 1..Len(messages') :
        i + 1 \in 1..Len(messages) /\ i + 1 # 1 /\ messages'[i] = messages[i + 1]
  BY <1>1, TailFact
<1> QED
  BY <1>2, <1>3 DEF CallHolds

\* Events come and go beside the outstanding call.
LEMMA EventBeside ==
  ASSUME TypeInv, CallHolds, UNCHANGED <<requests, work, phase>>,
         \/ \E m \in Message : m.type = "event" /\ messages' = Append(messages, m)
         \/ Receive("event")
         \/ messages' = messages
  PROVE  CallHolds'
<1>0. messages \in Seq(Message)
  BY Typing
<1>1. CASE \E m \in Message : m.type = "event" /\ messages' = Append(messages, m)
  <2>1. PICK m \in Message : m.type = "event" /\ messages' = Append(messages, m)
    BY <1>1
  <2>2. Len(messages') = Len(messages) + 1 /\ messages'[Len(messages) + 1] = m
        /\ \A i \in 1..Len(messages) : messages'[i] = messages[i]
    BY <1>0, <2>1
  <2>3. \A i \in 1..Len(messages') : messages'[i].type # "event" =>
          i \in 1..Len(messages) /\ messages'[i] = messages[i]
    BY <1>0, <2>1, <2>2
  <2> QED
    BY <2>3 DEF CallHolds
<1>2. CASE Receive("event")
  <2>1. messages # <<>> /\ messages' = Tail(messages)
    BY <1>2 DEF Receive
  <2>2. \A i \in 1..Len(messages') : i + 1 \in 1..Len(messages) /\ messages'[i] = messages[i + 1]
    BY <1>0, <2>1, TailFact
  <2>3. ASSUME NEW i \in 1..Len(messages'), NEW j \in 1..Len(messages'),
               messages'[i].type # "event", messages'[j].type # "event"
        PROVE  j = i
    <3>1. i + 1 = j + 1
      BY <2>2, <2>3 DEF CallHolds
    <3> QED
      BY <3>1
  <2> QED
    BY <2>2, <2>3 DEF CallHolds
<1>3. CASE messages' = messages
  BY <1>3 DEF CallHolds
<1> QED
  BY <1>1, <1>2, <1>3

\* At most one call is outstanding, and it is the one the phase waits for.
LEMMA CallStep ==
  ASSUME TypeInv, TypeInv', StreamInv, CallHolds, [Next]_vars
  PROVE  CallHolds'
<1>0. messages \in Seq(Message) /\ messages' \in Seq(Message) /\ requests \in Seq(Request)
      /\ serve \in Engine /\ Len(serve.log) \in Nat /\ Len(messages) \in Nat
      /\ Len(messages') \in Nat
  BY Typing DEF TypeInv, TypeOK
<1>1. CASE ServeLogs
  <2> DEFINE log == Append(serve.log, serve.life)
             m   == Broadcast(serve.stream, log, Len(log))
  <2>1. messages' = messages \/ messages' = Append(messages, m)
    BY <1>1 DEF ServeLogs
  <2>2. UNCHANGED <<requests, work, phase>>
    BY <1>1 DEF ServeLogs, clientVars
  <2>3. m \in Message /\ m.type = "event"
    <3>1. log \in Seq(Nat) /\ Len(log) \in Nat \ {0} /\ serve.stream \in Stream
      BY <1>0 DEF Engine, Logs
    <3> HIDE DEF log
    <3>2. log[Len(log)] \in Nat
      BY <3>1
    <3> QED
      BY <3>1, <3>2 DEF Broadcast, EventAt, Event, Stream, NoStream, Message
  <2> HIDE DEF m
  <2> QED
    BY <2>1, <2>2, <2>3, EventBeside
<1>2. CASE ServeRepeats
  <2>1. PICK n \in 1..Len(serve.log) :
          messages' = Append(messages, Broadcast(serve.stream, serve.log, n))
    BY <1>2 DEF ServeRepeats
  <2> DEFINE m == Broadcast(serve.stream, serve.log, n)
  <2>2. m \in Message /\ m.type = "event"
    <3>1. serve.log[n] \in Nat /\ n \in Nat /\ serve.stream \in Stream
      BY Typing DEF Engine
    <3> QED
      BY <3>1 DEF Broadcast, EventAt, Event, Stream, NoStream, Message
  <2>3. UNCHANGED <<requests, work, phase>> /\ messages' = Append(messages, m)
    BY <1>2, <2>1 DEF ServeRepeats, clientVars
  <2> HIDE DEF m
  <2> QED
    BY <2>2, <2>3, EventBeside
<1>3. CASE ServeExpires \/ SupersededCloses \/ UNCHANGED vars
  <2>1. UNCHANGED <<requests, work, phase, messages>>
    BY <1>3 DEF ServeExpires, SupersededCloses, vars, serveVars, channelVars, clientVars
  <2> QED
    BY <2>1, EventBeside
<1>4. CASE ServeRefuses
  <2>1. phase' = phase /\ messages' = Append(messages, [type |-> "error"])
        /\ \/ requests # <<>> /\ requests' = Tail(requests) /\ work' = work
           \/ work # NoWork /\ work' = NoWork /\ requests' = requests
    BY <1>4 DEF ServeRefuses, clientVars
  <2>2. requests' = <<>> /\ work' = NoWork
    BY <2>1, TakenUp
  <2>3. Answers(phase, "error")
    BY <2>1 DEF CallHolds, Asked, Answers
  <2>4. Len(messages') = Len(messages) + 1 /\ messages'[Len(messages')] = [type |-> "error"]
        /\ \A i \in 1 .. Len(messages) : messages'[i] = messages[i]
    BY <1>0, <2>1 DEF Message
  <2>5. \A i \in 1 .. Len(messages') - 1 : messages'[i].type = "event"
    BY <1>0, <2>1, <2>4, Silent
  <2> QED
    BY <1>0, <2>1, <2>2, <2>3, <2>4, <2>5, AnsweredCall
<1>5. CASE ServeRestarts \/ ConnectionLost \/ ListFails \/ ConnectFails
  <2>1. CASE Disconnected
    BY <2>1, QuietCall DEF Disconnected
  <2>2. CASE UNCHANGED <<requests, work, phase, messages>>
    BY <2>2, EventBeside
  <2> QED
    BY <1>5, <2>1, <2>2 DEF ServeRestarts, ConnectionLost, ListFails, ConnectFails, SocketCloses,
       ConnectGivesUp, channelVars
<1>6. CASE ServeAuthenticates \/ ServeStartsSnapshot
  <2>1. PICK type \in {"initialize", "snapshot"} : ServeAccepts(type)
    BY <1>6 DEF ServeAuthenticates, ServeStartsSnapshot
  <2>2. requests # <<>> /\ Head(requests).type = type /\ requests' = Tail(requests)
        /\ work'.type = type /\ UNCHANGED <<messages, phase>>
    BY <2>1 DEF ServeAccepts, clientVars
  <2>3. requests' = <<>> /\ Asked(phase', work'.type)
    BY <2>2, TakenUp
  <2>4. \A i \in 1..Len(messages') : messages'[i].type = "event"
    BY <2>2, Silent
  <2>5. Len(requests') <= 1
    BY <2>3
  <2> QED
    BY <2>3, <2>4, <2>5 DEF CallHolds
<1>7. CASE ServeInitializes \/ ServeSnapshots
  <2>1. PICK m \in Message :
          /\ messages' = Append(messages, m)
          /\ \/ work.type = "initialize" /\ m.type = "initialized"
             \/ work.type = "snapshot" /\ m.type = "snapshot"
    <3>1. PICK m : /\ messages' = Append(messages, m)
                   /\ \/ work.type = "initialize" /\ m.type = "initialized"
                      \/ work.type = "snapshot" /\ m.type = "snapshot"
      <4>1. CASE ServeInitializes
        BY <4>1 DEF ServeInitializes
      <4>2. CASE ServeSnapshots
        BY <4>2 DEF ServeSnapshots
      <4> QED
        BY <1>7, <4>1, <4>2
    <3>2. messages'[Len(messages')] = m /\ Len(messages') \in 1..Len(messages')
      BY <1>0, <3>1
    <3> QED
      BY <1>0, <3>1, <3>2
  <2>2. work # NoWork /\ work' = NoWork /\ requests' = requests /\ phase' = phase
    BY <1>7 DEF ServeInitializes, ServeSnapshots, NoWork, clientVars
  <2>3. requests' = <<>> /\ Answers(phase', m.type)
    BY <2>1, <2>2 DEF CallHolds, Asked, Answers
  <2>4. Len(messages') = Len(messages) + 1 /\ messages'[Len(messages')] = m
        /\ \A i \in 1 .. Len(messages) : messages'[i] = messages[i]
    BY <1>0, <2>1
  <2>5. \A i \in 1 .. Len(messages') - 1 : messages'[i].type = "event"
    BY <1>0, <2>2, <2>4, Silent
  <2> QED
    BY <1>0, <2>2, <2>3, <2>4, <2>5, AnsweredCall
<1>8. CASE ServeReplays
  <2>1. requests # <<>> /\ Head(requests).type = "replay" /\ requests' = Tail(requests)
        /\ UNCHANGED <<work, phase>> /\ Len(messages') > Len(messages)
        /\ (\A i \in 1..Len(messages) : messages'[i] = messages[i])
        /\ (\A i \in Len(messages) + 1 .. Len(messages') - 1 : messages'[i].type = "event")
        /\ messages'[Len(messages')].type = "page"
    BY <1>8, PageFact DEF serveVars, clientVars
  <2>2. requests' = <<>> /\ work' = NoWork /\ Asked(phase, "replay")
    BY <2>1, TakenUp
  <2>3. \A i \in 1 .. Len(messages') - 1 : messages'[i].type = "event"
    <3>1. \A i \in 1..Len(messages) : messages'[i].type = "event"
      BY <2>1, Silent
    <3> QED
      BY <1>0, <2>1, <3>1
  <2>4. Answers(phase', "page")
    BY <2>1, <2>2 DEF Asked, Answers
  <2> QED
    BY <1>0, <2>1, <2>2, <2>3, <2>4, AnsweredCall
<1>9. CASE Connect \/ Supersede
  <2>1. requests' = <<[type |-> "initialize"]>> /\ work' = NoWork /\ messages' = <<>>
        /\ phase' = "initializing"
    BY <1>9 DEF Connect, Supersede, Open
  <2>2. [type |-> "initialize"] \in Request
    BY DEF Request
  <2>3. \A i \in 1..Len(messages') : messages'[i].type = "event"
    BY <2>1
  <2> QED
    BY <2>1, <2>2, <2>3, QuietCall DEF Asked
<1>10. CASE ListAnswered
  <2>1. phase = "listing" /\ UNCHANGED <<work, messages>>
        /\ \/ requests' = Append(requests, [type |-> "snapshot"]) /\ phase' = "snapshotting"
           \/ requests' = requests
    BY <1>10 DEF ListAnswered, Ask, serveVars
  <2>2. requests = <<>> /\ work = NoWork
        /\ \A i \in 1..Len(messages') : messages'[i].type = "event"
    BY <2>1, Silent
  <2>3. [type |-> "snapshot"] \in Request
    BY DEF Request
  <2>4. CASE requests' = Append(requests, [type |-> "snapshot"]) /\ phase' = "snapshotting"
    <3>1. requests' = <<[type |-> "snapshot"]>>
      BY <2>2, <2>4
    <3> QED
      BY <2>1, <2>2, <2>3, <2>4, <3>1, QuietCall DEF Asked
  <2>5. CASE requests' = requests
    BY <2>1, <2>2, <2>5, QuietCall
  <2> QED
    BY <2>1, <2>4, <2>5
<1>11. CASE ReceiveUnnumbered \/ BufferEarly \/ DropEvent \/ HoldEvent \/ DeliverEvent
  BY <1>11, EventReceived, EventBeside DEF serveVars
<1>12. CASE JoinUnnumbered \/ JoinAtCurrent \/ ReplayEnds \/ ReplayFails \/ ApplySnapshot
  <2>1. PICK type \in {"initialized", "page", "error", "snapshot"} : Receive(type)
    BY <1>12 DEF JoinUnnumbered, JoinAtCurrent, ReplayEnds, ReplayFails, ApplySnapshot, Respond
  <2>2. UNCHANGED <<requests, work>>
    BY <1>12 DEF JoinUnnumbered, JoinAtCurrent, ReplayEnds, ReplayFails, ApplySnapshot, serveVars
  <2> QED
    BY <2>1, <2>2, Responded, QuietCall
<1>13. CASE JoinAndReplay \/ ReplayGoesOn
  <2>0. PICK type \in {"initialized", "page"} :
          /\ Receive(type)
          /\ \E after : requests' = Append(requests, [type |-> "replay", after |-> after])
    BY <1>13 DEF JoinAndReplay, ReplayGoesOn, Respond, Ask
  <2>1. PICK after : requests' = Append(requests, [type |-> "replay", after |-> after])
    BY <2>0
  <2>2. UNCHANGED work /\ phase' = "replaying"
    BY <1>13 DEF JoinAndReplay, ReplayGoesOn, Respond, serveVars
  <2> DEFINE r == [type |-> "replay", after |-> after]
  <2>3. requests' = <<r>>
    <3>1. requests = <<>> /\ requests' = Append(requests, r)
      BY <2>0, <2>1, Responded
    <3> HIDE DEF r
    <3> QED
      BY <3>1
  <2>4. r.type = "replay"
    OBVIOUS
  <2> HIDE DEF r
  <2>5. r \in Request
    <3>1. requests' \in Seq(Request)
      BY DEF TypeInv, TypeOK
    <3>2. r = requests'[1] /\ 1 \in 1..Len(requests')
      BY <2>3
    <3> QED
      BY <3>1, <3>2
  <2> QED
    BY <2>0, <2>2, <2>3, <2>4, <2>5, Responded, QuietCall DEF Asked
<1> QED
  BY <1>1, <1>2, <1>3, <1>4, <1>5, <1>6, <1>7, <1>8, <1>9, <1>10, <1>11, <1>12, <1>13 DEF Next

--------------------------------------------------------------------------------
(* The client's fields *)

\* What a drain moves and what it leaves alone.
LEMMA DrainFact ==
  ASSUME NEW c \in Client, NEW k \in Nat
  PROVE  LET d == Drained(c, k) IN
         /\ d.cursor = c.cursor + k
         /\ d.frames = {f \in c.frames : f.seq \notin c.cursor + 1 .. c.cursor + k}
         /\ d.streamId = c.streamId /\ d.bufferedStream = c.bufferedStream
         /\ d.latest = c.latest /\ d.after = c.after /\ d.resumed = c.resumed
         /\ d.snapshotRequired = c.snapshotRequired /\ d.recovering = c.recovering
BY DEF Drained, Client

\* What the end of a recovery leaves of the client it ends with.
LEMMA RecoveryFact ==
  ASSUME NEW c \in Client, FinishRecovery(c)
  PROVE  \E k \in Nat :
         /\ IsRun(Recovered(c), k) /\ app' = Applied(app, Run(Recovered(c), k))
         /\ client'.cursor = c.cursor + k
         /\ client'.frames = {f \in c.frames : f.seq > c.cursor + k}
         /\ client'.streamId = c.streamId /\ client'.bufferedStream = c.bufferedStream
         /\ client'.latest = c.latest /\ client'.resumed = c.resumed
         /\ client'.snapshotRequired = c.snapshotRequired
         /\ stored' = CursorOf(client')
         /\ phase' = "listing"
<1> DEFINE r == Recovered(c)
<1>1. PICK k \in 0..MaxLog : Finish(r, k, app, CursorOf(r))
  BY DEF FinishRecovery
<1>2. k \in Nat /\ c.cursor \in Nat /\ c.frames \subseteq Event
  BY BoundsAssumption DEF Client
<1>3. /\ r.cursor = c.cursor /\ r.frames = {f \in c.frames : f.seq > c.cursor}
      /\ r.streamId = c.streamId /\ r.bufferedStream = c.bufferedStream
      /\ r.latest = c.latest /\ r.resumed = c.resumed
      /\ r.snapshotRequired = c.snapshotRequired
  BY DEF Recovered, Client
<1>4. r \in Client
  BY RecoveredType
<1>5. IsRun(r, k) /\ client' = Drained(r, k) /\ app' = Applied(app, Run(r, k))
      /\ stored' = StoredAfter(r, k, CursorOf(r)) /\ phase' = "listing"
  BY <1>1 DEF Finish, FinishRecovery
<1> HIDE DEF r
<1>6. /\ client'.cursor = c.cursor + k
      /\ client'.frames = {f \in r.frames : f.seq \notin c.cursor + 1 .. c.cursor + k}
      /\ client'.streamId = c.streamId /\ client'.bufferedStream = c.bufferedStream
      /\ client'.latest = c.latest /\ client'.resumed = c.resumed
      /\ client'.snapshotRequired = c.snapshotRequired
  BY <1>2, <1>3, <1>4, <1>5, DrainFact
<1>7. client'.frames = {f \in c.frames : f.seq > c.cursor + k}
  <2>1. \A f \in c.frames : f.seq \in Nat
    BY <1>2 DEF Event
  <2>2. \A f \in c.frames :
          f.seq > c.cursor /\ f.seq \notin c.cursor + 1 .. c.cursor + k <=> f.seq > c.cursor + k
    BY <1>2, <2>1
  <2> QED
    BY <1>3, <1>6, <2>2
<1>8. stored' = CursorOf(client')
  BY <1>2, <1>3, <1>5, <1>6 DEF StoredAfter, CursorOf
<1> QED
  BY <1>2, <1>5, <1>6, <1>7, <1>8 DEF r

\* One more frame.
LEMMA WithFrameFact ==
  ASSUME NEW event \in Event, client \in Client
  PROVE  LET c == WithFrame(event) IN
         /\ c.frames = {f \in client.frames : f.seq # event.seq} \cup {event}
         /\ c.cursor = client.cursor /\ c.streamId = client.streamId
         /\ c.bufferedStream = client.bufferedStream /\ c.latest = client.latest
         /\ c.after = client.after /\ c.resumed = client.resumed
         /\ c.snapshotRequired = client.snapshotRequired /\ c.recovering = client.recovering
         /\ c \in Client
<1>1. client.frames \subseteq Event
  BY DEF Client
<1>2. Buffered(client.frames, event) \in SUBSET Event
  BY <1>1 DEF Buffered
<1> QED
  BY <1>2 DEF WithFrame, Buffered, Client

\* What each of the five receipts of an event does to the client.
LEMMA EventFact ==
  ASSUME TypeInv, StreamInv,
         ReceiveUnnumbered \/ BufferEarly \/ DropEvent \/ HoldEvent \/ DeliverEvent
  PROVE  /\ incoming \in Event
         /\ client'.streamId = client.streamId /\ client'.latest = client.latest
         /\ client'.after = client.after /\ client'.resumed = client.resumed
         /\ client'.snapshotRequired = client.snapshotRequired
         /\ client'.recovering = client.recovering
         /\ \/ client'.bufferedStream = client.bufferedStream
            \/ client'.bufferedStream = serve.stream
         /\ \/ /\ client' = client /\ incoming.stream = NoStream
               /\ client.streamId = NoStream /\ ~Numbered
               /\ stored' = stored /\ app' = Applied(app, <<incoming>>)
            \/ /\ client.streamId = NoStream /\ Numbered /\ stored' = stored /\ app' = app
               /\ client'.cursor = client.cursor
               /\ client.bufferedStream \in {NoStream, serve.stream} =>
                    client'.frames = Buffered(client.frames, incoming)
            \/ /\ client' = client /\ client.streamId # NoStream /\ stored' = stored
               /\ app' = app /\ Genuine(serve, incoming) /\ incoming.seq <= client.cursor
            \/ /\ client' = WithFrame(incoming) /\ client.streamId # NoStream
               /\ stored' = stored /\ app' = app /\ Genuine(serve, incoming)
            \/ /\ client.streamId # NoStream /\ ~client.recovering /\ Genuine(serve, incoming)
               /\ \E k \in Nat : Finish(WithFrame(incoming), k, app, stored)
<1>1. Receive("event") /\ UNCHANGED serveVars
  BY EventReceived
<1>2. /\ incoming \in Event
      /\ incoming.stream # NoStream => Genuine(serve, incoming)
      /\ incoming.stream = NoStream => ~Numbered
  BY <1>1, IncomingHolds DEF Numbered
<1>3. client \in Client /\ serve.stream # NoStream /\ client.cursor \in Nat
      /\ (client.streamId # NoStream => client.streamId = serve.stream /\ Numbered)
      /\ incoming.seq \in Nat
  BY <1>2, Typing DEF StreamInv, ClientHolds, Agrees, Numbered, Event
<1>4. CASE ReceiveUnnumbered
  BY <1>2, <1>3, <1>4 DEF ReceiveUnnumbered
<1>5. CASE BufferEarly
  <2>1. incoming.stream # NoStream /\ client.streamId = NoStream /\ stored' = stored /\ app' = app
        /\ client' =
             LET kept == IF client.bufferedStream \in {NoStream, incoming.stream}
                           THEN client.frames ELSE {}
             IN [client EXCEPT !.bufferedStream = incoming.stream,
                               !.frames = Buffered(kept, incoming)]
    BY <1>5 DEF BufferEarly
  <2>2. incoming.stream = serve.stream
    BY <1>2, <2>1 DEF Genuine
  <2>3. /\ client'.streamId = client.streamId /\ client'.latest = client.latest
        /\ client'.after = client.after /\ client'.resumed = client.resumed
        /\ client'.snapshotRequired = client.snapshotRequired
        /\ client'.recovering = client.recovering /\ client'.cursor = client.cursor
        /\ client'.bufferedStream = incoming.stream
        /\ client.bufferedStream \in {NoStream, incoming.stream} =>
             client'.frames = Buffered(client.frames, incoming)
    BY <1>3, <2>1 DEF Client
  <2>4. Numbered
    <3>1. MessageHolds(serve, Head(messages)) /\ Head(messages).type = "event"
      BY <1>1, ReceiveHolds
    <3> QED
      BY <2>1, <3>1 DEF MessageHolds, Numbered, incoming
  <2> QED
    BY <1>2, <2>1, <2>2, <2>3, <2>4
<1>6. CASE DropEvent
  BY <1>2, <1>3, <1>6 DEF DropEvent, Fresh, clientVars, Genuine
<1>7. CASE HoldEvent
  <2>1. client' = WithFrame(incoming) /\ client.streamId # NoStream /\ stored' = stored
        /\ app' = app /\ Fresh(incoming)
    BY <1>7 DEF HoldEvent
  <2>2. Genuine(serve, incoming)
    BY <1>2, <2>1 DEF Fresh
  <2> QED
    BY <1>2, <1>3, <2>1, <2>2, WithFrameFact
<1>8. CASE DeliverEvent
  <2> DEFINE c == WithFrame(incoming)
  <2>1. client.streamId # NoStream /\ ~client.recovering /\ Fresh(incoming)
    BY <1>8 DEF DeliverEvent
  <2>2. PICK k \in 0..MaxLog : Finish(c, k, app, stored)
    BY <1>8 DEF DeliverEvent
  <2>3. Genuine(serve, incoming) /\ k \in Nat
    BY <1>2, <2>1, BoundsAssumption DEF Fresh
  <2>4. c \in Client /\ client' = Drained(c, k)
    BY <1>2, <1>3, <2>2, WithFrameFact DEF Finish
  <2>5. /\ c.streamId = client.streamId /\ c.bufferedStream = client.bufferedStream
        /\ c.latest = client.latest /\ c.after = client.after /\ c.resumed = client.resumed
        /\ c.snapshotRequired = client.snapshotRequired /\ c.recovering = client.recovering
    BY <1>2, <1>3, WithFrameFact
  <2> HIDE DEF c
  <2>6. /\ client'.streamId = client.streamId /\ client'.bufferedStream = client.bufferedStream
        /\ client'.latest = client.latest /\ client'.after = client.after
        /\ client'.resumed = client.resumed
        /\ client'.snapshotRequired = client.snapshotRequired
        /\ client'.recovering = client.recovering
    BY <2>3, <2>4, <2>5, DrainFact
  <2> QED
    BY <1>2, <2>1, <2>2, <2>3, <2>6 DEF c
<1> QED
  BY <1>4, <1>5, <1>6, <1>7, <1>8

\* A client that joins a stream keeps the frames it has: they are of that stream.
LEMMA JoinFact ==
  ASSUME TypeInv, StreamInv, Receive("initialized"), UNCHANGED serveVars,
         Head(messages).stream # NoStream
  PROVE  LET m == Head(messages)
             j == Joined(m)
         IN /\ j \in Client /\ m.current \in Nat /\ m.current <= Len(serve.log)
            /\ m.stream = serve.stream /\ Numbered
            /\ j.streamId = m.stream /\ j.bufferedStream = NoStream
            /\ j.frames = client.frames /\ j.latest = m.current
            /\ j.resumed = IF Resumable(m) THEN stored.sequence ELSE NoSequence
            /\ j.recovering = client.recovering
            /\ Resumable(m) => stored.sequence \in Nat
<1> DEFINE m == Head(messages)
<1>1. m \in Message /\ m.type = "initialized" /\ MessageHolds(serve, m)
  BY ReceiveHolds
<1>2. m.stream = serve.stream /\ Numbered
  BY <1>1 DEF MessageHolds, Numbered
<1>3. Joined(m) \in Client /\ m.current \in Nat /\ m.current <= Len(serve.log)
  BY JoinedHolds
<1>4. client \in Client /\ \A f \in client.frames : f.stream = serve.stream
  BY Typing DEF StreamInv, ClientHolds, Agrees, Genuine
<1> HIDE DEF m
<1>5. {f \in client.frames : f.stream = m.stream} = client.frames
  BY <1>2, <1>4
<1>6. Resumable(m) => stored.sequence \in Nat
  <2>1. stored \in Cursor /\ serve.stream # NoStream
    BY Typing DEF TypeInv, TypeOK
  <2> QED
    BY <1>2, <2>1 DEF Resumable, Cursor, NoCursor
<1> QED
  BY <1>2, <1>3, <1>4, <1>5, <1>6 DEF Joined, Client, m

--------------------------------------------------------------------------------
(* Broadcasting and the client's stream *)

\* A step that adds no initialized response, or only while Serve broadcasts.
LEMMA AttachKept ==
  ASSUME AttachHolds, TypeInv, StreamInv,
         attached' = attached, phase' = phase, serve'.stream = serve.stream,
         client'.streamId = client.streamId,
         client'.bufferedStream \in {client.bufferedStream, serve.stream},
         work'.type = "initialize" => attached,
         \A i \in 1..Len(messages') :
            messages'[i].type = "initialized" =>
              attached \/ \E j \in 1..Len(messages) : messages[j] = messages'[i]
  PROVE  AttachHolds'
<1>1. \A i \in 1..Len(messages') : messages'[i].type = "initialized" => attached
  BY DEF AttachHolds
<1> QED
  BY <1>1 DEF AttachHolds

\* Serve broadcasts to every client that waits for an initialize response.
LEMMA AttachStep ==
  ASSUME TypeInv, TypeInv', StreamInv, CallHolds, AttachHolds, [Next]_vars
  PROVE  AttachHolds'
<1>0. messages \in Seq(Message) /\ messages' \in Seq(Message) /\ serve \in Engine
      /\ client \in Client /\ client' \in Client /\ Len(serve.log) \in Nat
      /\ Len(messages) \in Nat /\ Len(messages') \in Nat
  BY Typing DEF TypeInv, TypeOK
<1>a. /\ NoWork.type # "initialize"
      /\ work' = NoWork \/ work' = work => (work'.type = "initialize" => attached)
  BY DEF NoWork, AttachHolds
<1>b. ASSUME NEW m, messages' = Append(messages, m), m.type # "initialized" \/ attached
      PROVE  \A i \in 1..Len(messages') : messages'[i].type = "initialized" =>
               attached \/ \E j \in 1..Len(messages) : messages[j] = messages'[i]
  <2>1. Len(messages') = Len(messages) + 1 /\ messages'[Len(messages) + 1] = m
        /\ \A i \in 1..Len(messages) : messages'[i] = messages[i]
    BY <1>0, <1>b
  <2>2. \A i \in 1..Len(messages') : i \in 1..Len(messages) \/ i = Len(messages) + 1
    BY <1>0, <2>1
  <2> QED
    BY <1>b, <2>1, <2>2
<1>1. CASE ServeLogs \/ ServeRepeats
  <2>1. messages' = messages \/ \E m : m.type = "event" /\ messages' = Append(messages, m)
    BY <1>1 DEF ServeLogs, ServeRepeats, Broadcast
  <2>2. UNCHANGED <<work, attached, client, phase>> /\ serve'.stream = serve.stream
    BY <1>0, <1>1 DEF ServeLogs, ServeRepeats, clientVars, Engine
  <2> QED
    BY <1>a, <1>b, <2>1, <2>2, AttachKept
<1>2. CASE ServeExpires \/ SupersededCloses \/ UNCHANGED vars
  <2>1. UNCHANGED <<work, attached, client, phase, messages>> /\ serve'.stream = serve.stream
    BY <1>0, <1>2 DEF ServeExpires, SupersededCloses, vars, serveVars, channelVars, clientVars,
       Engine
  <2> QED
    BY <1>a, <2>1, AttachKept
<1>3. CASE ServeRefuses \/ ServeInitializes \/ ServeSnapshots
  <2>1. \E m : messages' = Append(messages, m) /\ (m.type = "initialized" => attached)
    <3>1. CASE ServeRefuses
      BY <3>1 DEF ServeRefuses
    <3>2. CASE ServeInitializes
      <4>1. work.type = "initialize"
        BY <3>2 DEF ServeInitializes
      <4>2. \E m : messages' = Append(messages, m)
        BY <3>2 DEF ServeInitializes
      <4> QED
        BY <4>1, <4>2 DEF AttachHolds
    <3>3. CASE ServeSnapshots
      BY <3>3 DEF ServeSnapshots
    <3> QED
      BY <1>3, <3>1, <3>2, <3>3
  <2>2. (work' = NoWork \/ work' = work) /\ UNCHANGED <<serve, attached, client, phase>>
    BY <1>3 DEF ServeRefuses, ServeInitializes, ServeSnapshots, clientVars
  <2> QED
    BY <1>a, <1>b, <2>1, <2>2, AttachKept
<1>4. CASE ServeReplays
  <2>1. UNCHANGED <<serveVars, clientVars>> /\ Len(messages') > Len(messages)
        /\ (\A i \in 1..Len(messages) : messages'[i] = messages[i])
        /\ (\A i \in Len(messages) + 1 .. Len(messages') - 1 : messages'[i].type = "event")
        /\ messages'[Len(messages')].type = "page"
    BY <1>4, PageFact
  <2>2. \A i \in 1..Len(messages') : \/ i \in 1..Len(messages) \/ i = Len(messages')
                                     \/ i \in Len(messages) + 1 .. Len(messages') - 1
    BY <1>0
  <2>3. \A i \in 1..Len(messages') : messages'[i].type = "initialized" => i \in 1..Len(messages)
    BY <2>1, <2>2
  <2>4. work' = work /\ UNCHANGED <<serve, attached, client, phase>>
    BY <2>1 DEF serveVars, clientVars
  <2> QED
    BY <1>a, <2>1, <2>3, <2>4, AttachKept
<1>5. CASE ServeAuthenticates
  <2>1. work'.type = "initialize" /\ attached' /\ UNCHANGED <<serve, client, messages, phase>>
    BY <1>5 DEF ServeAuthenticates, ServeAccepts, clientVars
  <2> QED
    BY <2>1 DEF AttachHolds
<1>6. CASE ServeStartsSnapshot
  <2>1. work'.type = "snapshot" /\ UNCHANGED <<attached, serve, client, messages, phase>>
    BY <1>6 DEF ServeStartsSnapshot, ServeAccepts, clientVars
  <2> QED
    BY <2>1 DEF AttachHolds
<1>7. CASE ServeRestarts \/ ConnectionLost \/ ListFails \/ ConnectFails
  <2>1. client' = FreshClient /\ phase' = "offline" /\ work' = NoWork /\ messages' = <<>>
    <3>1. CASE Disconnected
      BY <3>1 DEF Disconnected
    <3>2. CASE ServeRestarts /\ phase = "offline"
      BY <3>2 DEF ServeRestarts, channelVars, StreamInv, OfflineHolds
    <3> QED
      BY <1>7, <3>1, <3>2 DEF ServeRestarts, ConnectionLost, ListFails, ConnectFails, SocketCloses,
         ConnectGivesUp
  <2> QED
    BY <1>a, <2>1 DEF AttachHolds, FreshClient
<1>8. CASE Connect \/ Supersede
  <2>1. client' = FreshClient /\ phase' = "initializing" /\ work' = NoWork /\ messages' = <<>>
    BY <1>8 DEF Connect, Supersede, Open
  <2> QED
    BY <1>a, <2>1 DEF AttachHolds, FreshClient
<1>c. ASSUME phase # "offline", phase # "initializing" \/ Receive("initialized"),
             \/ \E type : Receive(type) /\ type # "event"
             \/ phase = "listing",
             UNCHANGED serveVars, messages' = messages \/ messages' = Tail(messages),
             phase' \notin {"offline", "initializing"},
             client'.streamId = NoStream =>
               client'.bufferedStream \in {NoStream, serve.stream}
      PROVE  AttachHolds'
  <2>1. \A i \in 1..Len(messages') : messages'[i].type = "event"
    <3>1. CASE \E type : Receive(type) /\ type # "event"
      BY <3>1, Responded
    <3>2. CASE phase = "listing" /\ messages' = messages
      BY <3>2, Silent
    <3>3. CASE phase = "listing" /\ messages' = Tail(messages)
      <4>1. \A i \in 1..Len(messages) : messages[i].type = "event"
        BY <3>3, Silent
      <4>2. CASE messages = <<>>
        <5>1. messages' = <<>>
          BY <3>3, <4>2
        <5> QED
          BY <5>1
      <4>3. CASE messages # <<>>
        BY <1>0, <3>3, <4>1, <4>3, TailFact
      <4> QED
        BY <4>2, <4>3
    <3> QED
      BY <1>c, <3>1, <3>2, <3>3
  <2>2. attached
    <3>1. CASE Receive("initialized")
      <4>1. messages # <<>> /\ Head(messages).type = "initialized"
        BY <3>1 DEF Receive
      <4>2. 1 \in 1..Len(messages) /\ messages[1].type = "initialized"
        BY <1>0, <4>1, TailFact
      <4> QED
        BY <4>2 DEF AttachHolds
    <3>2. CASE phase \notin {"offline", "initializing"}
      BY <3>2 DEF AttachHolds
    <3> QED
      BY <1>c, <3>1, <3>2
  <2>3. work' = work /\ attached' = attached /\ serve' = serve
    BY <1>c DEF serveVars
  <2> QED
    BY <1>c, <2>1, <2>2, <2>3 DEF AttachHolds
<1>9. CASE ListAnswered
  <2>1. phase = "listing" /\ UNCHANGED serveVars /\ messages' = messages
        /\ phase' \notin {"offline", "initializing"}
        /\ client' \in {client, [client EXCEPT !.recovering = TRUE]}
    BY <1>9 DEF ListAnswered
  <2>2. client'.streamId = client.streamId /\ client'.bufferedStream = client.bufferedStream
    BY <1>0, <2>1 DEF Client
  <2> QED
    BY <1>c, <2>1, <2>2 DEF AttachHolds
<1>10. CASE ReceiveUnnumbered \/ BufferEarly \/ DropEvent \/ HoldEvent \/ DeliverEvent
  <2>1. messages # <<>> /\ messages' = Tail(messages)
        /\ UNCHANGED <<serve, work, attached, phase>>
    BY <1>10, EventReceived DEF Receive, serveVars
  <2>2. \A i \in 1..Len(messages') : \E j \in 1..Len(messages) : messages[j] = messages'[i]
    BY <1>0, <2>1, TailFact
  <2>3. client'.streamId = client.streamId
        /\ client'.bufferedStream \in {client.bufferedStream, serve.stream}
    BY <1>10, EventFact
  <2> QED
    BY <1>a, <2>1, <2>2, <2>3, AttachKept
<1>11. CASE JoinUnnumbered
  <2>1. Receive("initialized") /\ UNCHANGED serveVars /\ phase = "initializing"
        /\ phase' = "listing" /\ client'.bufferedStream = NoStream
    BY <1>0, <1>11 DEF JoinUnnumbered, Respond, Client
  <2>2. messages' = Tail(messages)
    BY <2>1 DEF Receive
  <2> QED
    BY <1>c, <2>1, <2>2
<1>12. CASE JoinAndReplay
  <2> DEFINE m == Head(messages)
  <2>1. Receive("initialized") /\ UNCHANGED serveVars /\ phase = "initializing"
        /\ phase' = "replaying" /\ m.stream # NoStream
        /\ client' = [Joined(m) EXCEPT !.cursor = stored.sequence, !.after = stored.sequence]
    BY <1>12 DEF JoinAndReplay, Respond
  <2>2. Joined(m) \in Client /\ Joined(m).bufferedStream = NoStream
    BY <2>1, JoinFact
  <2>3. client'.bufferedStream = NoStream
    BY <2>1, <2>2 DEF Client
  <2>4. messages' = Tail(messages)
    BY <2>1 DEF Receive
  <2> QED
    BY <1>c, <2>1, <2>3, <2>4
<1>13. CASE JoinAtCurrent
  <2> DEFINE m == Head(messages)
             c == [Joined(m) EXCEPT !.cursor = m.current,
                     !.snapshotRequired = stored # NoCursor
                       /\ stored # [stream |-> m.stream, sequence |-> m.current]]
  <2>1. Receive("initialized") /\ UNCHANGED serveVars /\ phase = "initializing"
        /\ m.stream # NoStream /\ FinishRecovery(c)
    BY <1>13 DEF JoinAtCurrent, Respond
  <2>2. c \in Client /\ c.bufferedStream = NoStream
    BY <2>1, JoinFact DEF Client
  <2> HIDE DEF c
  <2>3. client'.bufferedStream = NoStream /\ phase' = "listing"
    BY <2>1, <2>2, RecoveryFact
  <2>4. messages' = Tail(messages)
    BY <2>1 DEF Receive
  <2> QED
    BY <1>c, <2>1, <2>3, <2>4
<1>14. CASE ReplayEnds \/ ReplayFails
  <2>1. PICK c \in {client} \cup {Abandoned(client, n) : n \in Nat}, type \in {"page", "error"} :
          Receive(type) /\ FinishRecovery(c)
    <3>1. CASE ReplayEnds
      <4>1. Head(messages) \in Message /\ Receive("page")
        BY <3>1, ReceiveHolds DEF ReplayEnds, Respond
      <4>2. Head(messages).current \in Nat
        BY <4>1 DEF Receive, Message
      <4> QED
        BY <3>1, <4>1, <4>2 DEF ReplayEnds
    <3>2. CASE ReplayFails
      BY <3>2, Typing DEF ReplayFails, Respond
    <3> QED
      BY <1>14, <3>1, <3>2
  <2>2. phase = "replaying" /\ UNCHANGED serveVars /\ messages' = Tail(messages)
    BY <1>14 DEF ReplayEnds, ReplayFails, Respond, Receive
  <2>3. c \in Client /\ c.streamId = client.streamId
    <3>1. CASE c = client
      BY <1>0, <3>1
    <3>2. CASE c # client
      <4>1. PICK n \in Nat : c = Abandoned(client, n)
        BY <3>2
      <4>2. Abandoned(client, n).streamId = client.streamId
        BY <1>0 DEF Abandoned, Client
      <4> QED
        BY <1>0, <4>1, <4>2, RecoveredType
    <3> QED
      BY <3>1, <3>2
  <2>4. client'.streamId = client.streamId /\ phase' = "listing"
    BY <2>1, <2>3, RecoveryFact
  <2>5. client.streamId # NoStream
    BY <2>2 DEF TypeInv, ReplayHolds
  <2> QED
    BY <1>c, <2>1, <2>2, <2>4, <2>5
<1>15. CASE ReplayGoesOn
  <2>1. Receive("page") /\ phase = "replaying" /\ phase' = phase /\ UNCHANGED serveVars
        /\ messages' = Tail(messages)
    BY <1>15 DEF ReplayGoesOn, Respond, Receive
  <2>2. client'.streamId = client.streamId
    BY <1>0, <1>15 DEF ReplayGoesOn, Client
  <2>3. client.streamId # NoStream
    BY <2>1 DEF TypeInv, ReplayHolds
  <2> QED
    BY <1>c, <2>1, <2>2, <2>3
<1>16. CASE ApplySnapshot
  <2>1. Receive("snapshot") /\ phase = "snapshotting" /\ phase' = "ready" /\ UNCHANGED serveVars
        /\ messages' = Tail(messages) /\ SnapshotFits(Head(messages))
    BY <1>16 DEF ApplySnapshot, Respond, Receive
  <2>2. PICK k \in 0..MaxLog : client' = Drained(SnapshotApplied(Head(messages)), k)
    BY <1>16 DEF ApplySnapshot, Finish
  <2>3. k \in Nat
    BY BoundsAssumption
  <2>4. SnapshotApplied(Head(messages)) \in Client
        /\ SnapshotApplied(Head(messages)).streamId # NoStream
    BY <2>1, SnapshotHolds
  <2>5. client'.streamId # NoStream
    BY <2>2, <2>3, <2>4, DrainFact
  <2> QED
    BY <1>c, <2>1, <2>5
<1> QED
  BY <1>1, <1>2, <1>3, <1>4, <1>5, <1>6, <1>7, <1>8, <1>9, <1>10, <1>11, <1>12, <1>13, <1>14,
     <1>15, <1>16 DEF Next

--------------------------------------------------------------------------------
(* What is ahead of a cursor *)

\* The steps that only add to what is on the socket.
Sending ==
  \/ ServeLogs \/ ServeRepeats \/ ServeExpires \/ ServeRefuses
  \/ ServeAuthenticates \/ ServeStartsSnapshot
  \/ ServeInitializes \/ ServeSnapshots \/ ServeReplays
  \/ SupersededCloses \/ UNCHANGED vars

\* What they add, and to what.
LEMMA SentFact ==
  ASSUME TypeInv, TypeInv', StreamInv, CallHolds, Sending
  PROVE  /\ UNCHANGED <<client, phase>>
         /\ serve'.stream = serve.stream /\ serve'.features = serve.features
         /\ Len(messages) <= Len(messages')
         /\ \A i \in 1..Len(messages) : messages'[i] = messages[i]
         /\ requests' # <<>> => requests' = requests
         /\ Len(serve.log) <= Len(serve'.log)
         /\ attached => \A k \in Len(serve.log) + 1 .. Len(serve'.log) : Awaited(messages', k)
         /\ \A i \in Len(messages) + 1 .. Len(messages') :
              LET m == messages'[i] IN
              \/ m.type \in {"event", "error"}
              \/ /\ m.type = "initialized" /\ work.type = "initialize"
                 /\ m.current \in Nat /\ work.from <= m.current
              \/ /\ m.type = "snapshot" /\ work.type = "snapshot"
                 /\ m.stream = serve.stream /\ work.from <= Len(m.log)
              \/ m.type = "page" /\ ServeReplays /\ i = Len(messages')
         /\ \/ work'.type = "none"
            \/ work' = work
            \/ work'.from = Len(serve.log) /\ serve' = serve
<1>0. messages \in Seq(Message) /\ serve \in Engine /\ Len(serve.log) \in Nat
      /\ Len(messages) \in Nat /\ work \in Work /\ work.from \in Nat
      /\ work.from <= Len(serve.log)
  BY Typing DEF Work, StreamInv, ChannelHolds
<1>a. ASSUME NEW m, messages' = Append(messages, m)
      PROVE  /\ Len(messages') = Len(messages) + 1 /\ messages'[Len(messages')] = m
             /\ Len(messages) <= Len(messages') /\ Len(messages') \in 1..Len(messages')
             /\ \A i \in 1..Len(messages) : messages'[i] = messages[i]
             /\ \A i \in Len(messages) + 1 .. Len(messages') : i = Len(messages')
  <2>1. Len(messages') = Len(messages) + 1 /\ messages'[Len(messages) + 1] = m
        /\ \A i \in 1..Len(messages) : messages'[i] = messages[i]
    BY <1>0, <1>a
  <2> QED
    BY <1>0, <2>1
<1>b. messages' = messages => Len(messages) + 1 .. Len(messages') = {}
  BY <1>0
<1>c. serve' = serve => Len(serve.log) + 1 .. Len(serve'.log) = {}
  BY <1>0
<1>1. CASE ServeLogs
  <2> DEFINE log == Append(serve.log, serve.life)
             m   == Broadcast(serve.stream, log, Len(log))
  <2>1. /\ serve' = [serve EXCEPT !.log = log]
        /\ messages' = IF attached THEN Append(messages, m) ELSE messages
        /\ UNCHANGED <<work, requests, client, phase>>
    BY <1>1 DEF ServeLogs, clientVars
  <2>2. serve'.log = log /\ serve'.stream = serve.stream /\ serve'.features = serve.features
    BY <1>0, <2>1 DEF Engine
  <2>3. serve.log \in Seq(Nat)
    BY Typing
  <2>4. Len(log) = Len(serve.log) + 1 /\ Len(log) \in Nat
    BY <1>0, <2>3
  <2>5. m.type = "event" /\ Carries(m, Len(log))
    BY DEF Broadcast, EventAt, Carries
  <2> HIDE DEF log, m
  <2>6. attached => \A k \in Len(serve.log) + 1 .. Len(serve'.log) : Awaited(messages', k)
    <3> SUFFICES ASSUME attached, NEW k \in Len(serve.log) + 1 .. Len(serve'.log)
                 PROVE  Awaited(messages', k)
      OBVIOUS
    <3>1. k = Len(log)
      BY <1>0, <2>2, <2>4
    <3>2. messages' = Append(messages, m)
      BY <2>1
    <3> QED
      BY <1>a, <2>5, <3>1, <3>2 DEF Awaited
  <2>7. Len(messages) <= Len(messages') /\ (\A i \in 1..Len(messages) : messages'[i] = messages[i])
        /\ (\A i \in Len(messages) + 1 .. Len(messages') : messages'[i].type = "event")
    <3>1. CASE attached
      BY <1>a, <2>1, <2>5, <3>1
    <3>2. CASE ~attached
      BY <1>0, <1>b, <2>1, <3>2
    <3> QED
      BY <3>1, <3>2
  <2>8. Len(serve.log) <= Len(serve'.log)
    BY <1>0, <2>2, <2>4
  <2> QED
    BY <2>1, <2>2, <2>6, <2>7, <2>8
<1>2. CASE ServeExpires \/ SupersededCloses \/ UNCHANGED vars
  <2>1. UNCHANGED <<work, requests, messages, client, phase>>
    BY <1>2 DEF ServeExpires, SupersededCloses, vars, serveVars, channelVars, clientVars
  <2>2. serve'.log = serve.log /\ serve'.stream = serve.stream
        /\ serve'.features = serve.features
    BY <1>0, <1>2 DEF ServeExpires, SupersededCloses, vars, serveVars, Engine
  <2>3. Len(serve.log) + 1 .. Len(serve'.log) = {}
    BY <1>0, <2>2
  <2> QED
    BY <1>0, <1>b, <2>1, <2>2, <2>3
<1>3. CASE ServeAuthenticates \/ ServeStartsSnapshot
  <2>1. requests # <<>> /\ requests' = Tail(requests) /\ work'.from = Len(serve.log)
        /\ UNCHANGED <<serve, messages, client, phase>>
    BY <1>3 DEF ServeAuthenticates, ServeStartsSnapshot, ServeAccepts, clientVars
  <2>2. requests' = <<>>
    BY <2>1, TakenUp
  <2> QED
    BY <1>0, <1>b, <1>c, <2>1, <2>2
<1>4. CASE ServeRepeats \/ ServeRefuses \/ ServeInitializes \/ ServeSnapshots
  <2>1. PICK m :
          /\ messages' = Append(messages, m)
          /\ \/ m.type \in {"event", "error"}
             \/ /\ m.type = "initialized" /\ work.type = "initialize"
                /\ m.current \in Nat /\ work.from <= m.current
             \/ /\ m.type = "snapshot" /\ work.type = "snapshot"
                /\ m.stream = serve.stream /\ work.from <= Len(m.log)
    <3>1. CASE ServeRepeats
      BY <3>1 DEF ServeRepeats, Broadcast
    <3>2. CASE ServeRefuses
      BY <3>2 DEF ServeRefuses
    <3>3. CASE ServeInitializes
      <4>1. work.type = "initialize"
        BY <3>3 DEF ServeInitializes
      <4>2. PICK current \in work.from .. Len(serve.log) :
              messages' = Append(messages,
                [type |-> "initialized", features |-> serve.features, current |-> current,
                 stream |-> IF Numbered THEN serve.stream ELSE NoStream])
        BY <3>3 DEF ServeInitializes
      <4>3. current \in Nat /\ work.from <= current
        BY <1>0
      <4> QED
        BY <4>1, <4>2, <4>3
    <3>4. CASE ServeSnapshots
      <4>1. work.type = "snapshot"
        BY <3>4 DEF ServeSnapshots
      <4>2. PICK through \in work.from .. Len(serve.log) :
              messages' = Append(messages, [type |-> "snapshot", stream |-> serve.stream,
                                            log |-> SubSeq(serve.log, 1, through)])
        BY <3>4 DEF ServeSnapshots
      <4>3. Len(SubSeq(serve.log, 1, through)) = through /\ work.from <= through
        <5>1. serve.log \in Seq(Nat) /\ through \in 0..Len(serve.log)
          BY <1>0, Typing
        <5> QED
          BY <1>0, <5>1
      <4> QED
        BY <4>1, <4>2, <4>3
    <3> QED
      BY <1>4, <3>1, <3>2, <3>3, <3>4
  <2>2. UNCHANGED <<serve, client, phase>> /\ (work' = NoWork \/ work' = work)
        /\ (requests' = requests \/ (requests # <<>> /\ requests' = Tail(requests)))
    <3>1. CASE ServeRefuses
      BY <3>1 DEF ServeRefuses, clientVars
    <3>2. CASE ServeRepeats
      BY <3>2 DEF ServeRepeats, clientVars
    <3>3. CASE ServeInitializes
      BY <3>3 DEF ServeInitializes, clientVars
    <3>4. CASE ServeSnapshots
      BY <3>4 DEF ServeSnapshots, clientVars
    <3> QED
      BY <1>4, <3>1, <3>2, <3>3, <3>4
  <2>3. requests' # <<>> => requests' = requests
    BY <2>2, TakenUp
  <2>4. work'.type = "none" \/ work' = work
    BY <2>2 DEF NoWork
  <2> QED
    BY <1>0, <1>a, <1>c, <2>1, <2>2, <2>3, <2>4
<1>5. CASE ServeReplays
  <2>1. /\ requests # <<>> /\ requests' = Tail(requests) /\ UNCHANGED <<serveVars, clientVars>>
        /\ Len(messages') > Len(messages)
        /\ \A i \in 1..Len(messages) : messages'[i] = messages[i]
        /\ \A i \in Len(messages) + 1 .. Len(messages') - 1 : messages'[i].type = "event"
        /\ messages'[Len(messages')].type = "page"
    BY <1>5, PageFact
  <2>2. requests' = <<>>
    BY <2>1, TakenUp
  <2>3. Len(messages') \in Nat
    BY DEF TypeInv, TypeOK
  <2>4. \A i \in Len(messages) + 1 .. Len(messages') :
          i \in Len(messages) + 1 .. Len(messages') - 1 \/ i = Len(messages')
    BY <1>0, <2>3
  <2>5. UNCHANGED <<serve, work, client, phase>>
    BY <2>1 DEF serveVars, clientVars
  <2> QED
    BY <1>0, <1>5, <1>c, <2>1, <2>2, <2>4, <2>5
<1> QED
  BY <1>1, <1>2, <1>3, <1>4, <1>5 DEF Sending

\* What is ahead of a cursor stays ahead of a later one, as long as no frame and no
\* message beyond it is dropped.
LEMMA AheadKept ==
  ASSUME NEW s, NEW c, NEW ms, NEW n \in Nat, Ahead(s, c, ms, n),
         NEW d, NEW mt, NEW m \in Nat, n <= m,
         \A k \in m + 1 .. Len(s.log) :
           HasFrame(c.frames, k) \/ Awaited(ms, k) => HasFrame(d.frames, k) \/ Awaited(mt, k)
  PROVE  Ahead(s, d, mt, m)
<1>1. \A k \in m + 1 .. Len(s.log) : k \in n + 1 .. Len(s.log)
  OBVIOUS
<1> QED
  BY <1>1 DEF Ahead

\* A response that is consumed was no event.
LEMMA AwaitedKept ==
  ASSUME TypeInv, NEW type, type # "event", Receive(type), NEW k, Awaited(messages, k)
  PROVE  Awaited(messages', k)
<1>1. messages \in Seq(Message) /\ messages # <<>> /\ messages' = Tail(messages)
      /\ Head(messages).type = type
  BY Typing DEF Receive
<1>2. PICK i \in 1..Len(messages) : Carries(messages[i], k)
  BY DEF Awaited
<1>3. i # 1
  BY <1>1, <1>2, TailFact DEF Carries
<1>4. i \in 2..Len(messages)
  BY <1>1, <1>3
<1> QED
  BY <1>1, <1>2, <1>4, TailFact DEF Awaited

\* Nothing is ahead of a client of which neither a response nor a stream is expected.
LEMMA QuietAhead ==
  ASSUME CallHolds', NothingLost',
         \/ phase' \in {"offline", "listing", "snapshotting", "ready"}
         \/ AttachHolds' /\ ~attached'
  PROVE  AheadHolds'
<1>1. /\ phase' # "replaying"
      /\ work'.type # "initialize"
      /\ \A i \in 1..Len(messages') :
           messages'[i].type # "page" /\ messages'[i].type # "initialized"
  <2>1. CASE phase' \in {"offline", "listing", "snapshotting", "ready"}
    BY <2>1 DEF CallHolds, Asked, Answers, NoWork
  <2>2. CASE AttachHolds' /\ ~attached'
    <3>1. phase' # "replaying" /\ work'.type # "initialize"
          /\ \A i \in 1..Len(messages') : messages'[i].type # "initialized"
      BY <2>2 DEF AttachHolds
    <3>2. \A i \in 1..Len(messages') : messages'[i].type # "page"
      BY <3>1 DEF CallHolds, Answers
    <3> QED
      BY <3>1, <3>2
  <2> QED
    BY <2>1, <2>2
<1> QED
  BY <1>1 DEF AheadHolds

\* A client without a stream has lost nothing.
LEMMA NoStreamNoLoss ==
  ASSUME client'.streamId = NoStream \/ phase' \in {"offline", "initializing", "replaying"}
  PROVE  NothingLost'
BY DEF NothingLost

\* What Serve sends does not push anything off the socket.
LEMMA SendingAhead ==
  ASSUME TypeInv, TypeInv', StreamInv, CallHolds, CallHolds', AttachHolds, AttachHolds',
         AheadHolds, Sending, ~attached => ~attached' \/ serve' = serve
  PROVE  AheadHolds'
<1>0. Len(serve.log) \in Nat /\ Len(serve'.log) \in Nat /\ work.from \in Nat /\ work' \in Work
      /\ messages \in Seq(Message) /\ Len(messages) \in Nat /\ Len(messages') \in Nat
      /\ client \in Client /\ client.latest \in Nat /\ client.cursor \in Nat
      /\ serve' \in Engine
  BY Typing DEF Work, TypeInv, TypeOK, Engine, Logs
<1>1. /\ UNCHANGED <<client, phase>> /\ serve'.features = serve.features
      /\ Len(messages) <= Len(messages')
      /\ \A i \in 1..Len(messages) : messages'[i] = messages[i]
      /\ Len(serve.log) <= Len(serve'.log)
      /\ attached => \A k \in Len(serve.log) + 1 .. Len(serve'.log) : Awaited(messages', k)
  BY SentFact
<1>2. CASE ~attached /\ ~attached'
  <2>1. phase' \in {"offline", "initializing"}
    BY <1>2 DEF AttachHolds
  <2> QED
    BY <1>2, <2>1, QuietAhead, NoStreamNoLoss
<1>3. CASE attached \/ serve' = serve
  <2>1. \A k \in Len(serve.log) + 1 .. Len(serve'.log) : Awaited(messages', k)
    BY <1>0, <1>1, <1>3
  <2>2. \A k : Awaited(messages, k) => Awaited(messages', k)
    <3>1. \A i \in 1..Len(messages) : i \in 1..Len(messages') /\ messages'[i] = messages[i]
      BY <1>0, <1>1
    <3> QED
      BY <3>1 DEF Awaited
  <2>3. ASSUME NEW n \in Nat, NEW m \in Nat, n <= m, Ahead(serve, client, messages, n)
        PROVE  Ahead(serve', client', messages', m)
    <3> SUFFICES ASSUME NEW k \in m + 1 .. Len(serve'.log)
                 PROVE  HasFrame(client.frames, k) \/ Awaited(messages', k)
      BY <1>1 DEF Ahead
    <3>1. k \in n + 1 .. Len(serve.log) \/ k \in Len(serve.log) + 1 .. Len(serve'.log)
      BY <1>0, <2>3
    <3> QED
      BY <2>1, <2>2, <2>3, <3>1 DEF Ahead
  <2>4. \A m \in Nat : m >= Len(serve.log) => Ahead(serve', client', messages', m)
    BY <1>0, <2>1 DEF Ahead
  <2>5. work'.type = "initialize" /\ Numbered' => Ahead(serve', client', messages', work'.from)
    <3>1. Numbered' <=> Numbered
      BY <1>1 DEF Numbered
    <3>2. \/ work'.type = "none"
          \/ work' = work
          \/ work'.from = Len(serve.log)
      BY SentFact
    <3>3. CASE work' = work
      BY <1>0, <2>3, <3>1, <3>3 DEF AheadHolds
    <3> QED
      BY <1>0, <2>4, <3>2, <3>3
  <2>6. ASSUME NEW i \in 1..Len(messages'),
               messages'[i].type = "page" \/ (messages'[i].type = "initialized" /\ Numbered')
        PROVE  Ahead(serve', client', messages', messages'[i].current)
    <3>1. Numbered' <=> Numbered
      BY <1>1 DEF Numbered
    <3>2. messages'[i].current \in Nat
      <4>1. messages'[i] \in Message
        BY DEF TypeInv, TypeOK
      <4> QED
        BY <2>6, <4>1 DEF Message
    <3>3. CASE i \in 1..Len(messages)
      <4>1. messages'[i] = messages[i]
        BY <1>1, <3>3
      <4>2. Ahead(serve, client, messages, messages[i].current)
        BY <2>6, <3>1, <3>3, <4>1 DEF AheadHolds
      <4> QED
        BY <2>3, <3>2, <4>1, <4>2
    <3>4. CASE i \in Len(messages) + 1 .. Len(messages')
      <4>1. CASE /\ messages'[i].type = "initialized" /\ work.type = "initialize"
                 /\ work.from <= messages'[i].current
        <5>1. Ahead(serve, client, messages, work.from)
          BY <2>6, <3>1, <4>1 DEF AheadHolds
        <5> QED
          BY <1>0, <2>3, <3>2, <4>1, <5>1
      <4>2. CASE ServeReplays /\ i = Len(messages')
        <5>1. messages'[i].current = Len(serve.log)
          BY <4>2, PageFact
        <5> QED
          BY <2>4, <3>2, <5>1
      <4> QED
        BY <2>6, <3>4, <4>1, <4>2, SentFact
    <3> QED
      BY <1>0, <3>3, <3>4
  <2>7. phase' = "replaying" => Ahead(serve', client', messages', client'.latest)
    BY <1>0, <1>1, <2>3 DEF AheadHolds
  <2>8. NothingLost'
    BY <1>0, <1>1, <2>3 DEF AheadHolds, NothingLost
  <2> QED
    BY <2>5, <2>6, <2>7, <2>8 DEF AheadHolds
<1> QED
  BY <1>2, <1>3

\* An event that is received is in the frame buffer unless the cursor covers it.
LEMMA EventKept ==
  ASSUME TypeInv, StreamInv, AttachHolds, Numbered,
         ReceiveUnnumbered \/ BufferEarly \/ DropEvent \/ HoldEvent \/ DeliverEvent
  PROVE  /\ client'.cursor \in Nat /\ client.cursor <= client'.cursor
         /\ client.recovering \/ client.streamId = NoStream => client'.cursor = client.cursor
         /\ \A k \in Nat :
              /\ client.streamId # NoStream => k > client'.cursor
              /\ HasFrame(client.frames, k) \/ Carries(Head(messages), k)
              => HasFrame(client'.frames, k)
<1>0. client \in Client /\ client.frames \subseteq Event /\ client.cursor \in Nat
  BY Typing
<1>1. incoming \in Event /\ incoming.seq \in Nat
      /\ \A k : Carries(Head(messages), k) => incoming.seq = k
  BY EventFact DEF Event, Carries, incoming
<1>2. CASE client' = client /\ client.streamId # NoStream /\ incoming.seq <= client.cursor
  BY <1>0, <1>1, <1>2
<1>3. CASE /\ client.streamId = NoStream /\ client'.cursor = client.cursor
           /\ client.bufferedStream \in {NoStream, serve.stream} =>
                client'.frames = Buffered(client.frames, incoming)
  <2>1. client'.frames = Buffered(client.frames, incoming)
    BY <1>3 DEF AttachHolds
  <2> QED
    BY <1>0, <1>1, <1>3, <2>1 DEF Buffered, HasFrame
<1>4. ASSUME NEW c, c = WithFrame(incoming)
      PROVE  /\ c \in Client /\ c.cursor = client.cursor
             /\ \A k \in Nat : HasFrame(client.frames, k) \/ Carries(Head(messages), k)
                  => HasFrame(c.frames, k)
  <2>1. c \in Client /\ c.cursor = client.cursor
        /\ c.frames = {f \in client.frames : f.seq # incoming.seq} \cup {incoming}
    BY <1>0, <1>1, <1>4, WithFrameFact
  <2> QED
    BY <1>1, <2>1 DEF HasFrame
<1>5. CASE client' = WithFrame(incoming)
  BY <1>0, <1>4, <1>5
<1>6. CASE ~client.recovering /\ client.streamId # NoStream
           /\ \E k \in Nat : Finish(WithFrame(incoming), k, app, stored)
  <2> DEFINE c == WithFrame(incoming)
  <2>1. PICK n \in Nat : client' = Drained(c, n)
    BY <1>6 DEF Finish
  <2>2. /\ c \in Client /\ c.cursor = client.cursor
        /\ \A k \in Nat : HasFrame(client.frames, k) \/ Carries(Head(messages), k)
             => HasFrame(c.frames, k)
    BY <1>4
  <2> HIDE DEF c
  <2>3. client'.cursor = client.cursor + n
        /\ client'.frames = {f \in c.frames : f.seq \notin client.cursor + 1 .. client.cursor + n}
    BY <2>1, <2>2, DrainFact
  <2>4. \A k \in Nat : k > client'.cursor /\ HasFrame(c.frames, k) => HasFrame(client'.frames, k)
    BY <1>0, <2>3 DEF HasFrame
  <2>5. client'.cursor \in Nat /\ client.cursor <= client'.cursor
    BY <1>0, <2>3
  <2>6. ASSUME NEW k \in Nat, k > client'.cursor,
               HasFrame(client.frames, k) \/ Carries(Head(messages), k)
        PROVE  HasFrame(client'.frames, k)
    <3>1. HasFrame(c.frames, k)
      BY <2>2, <2>6
    <3> QED
      BY <2>4, <2>6, <3>1
  <2>7. client.recovering = FALSE /\ client.streamId # NoStream
    BY <1>0, <1>6 DEF Client
  <2> HIDE <1>6
  <2> QED
    BY <2>5, <2>6, <2>7
<1>7. \/ client' = client /\ client.streamId # NoStream /\ incoming.seq <= client.cursor
      \/ /\ client.streamId = NoStream /\ client'.cursor = client.cursor
         /\ client.bufferedStream \in {NoStream, serve.stream} =>
              client'.frames = Buffered(client.frames, incoming)
      \/ client' = WithFrame(incoming)
      \/ ~client.recovering /\ client.streamId # NoStream
         /\ \E k \in Nat : Finish(WithFrame(incoming), k, app, stored)
  BY EventFact
<1> QED
  BY <1>2, <1>3, <1>5, <1>6, <1>7

\* A page that is received and ends the replay has delivered everything up to the
\* current event it reports.
LEMMA PageComplete ==
  ASSUME TypeInv, PageHolds, AheadHolds, Receive("page"), phase = "replaying",
         ~Head(messages).snapshotRequired, ~Head(messages).hasMore
  PROVE  Ahead(serve, client, messages, client.cursor)
<1> DEFINE m == Head(messages)
<1>0. messages \in Seq(Message) /\ messages # <<>> /\ m = messages[1] /\ m.type = "page"
      /\ 1 \in 1..Len(messages) /\ m \in Message
  BY Typing, TailFact DEF Receive
<1>1. m.current \in Nat /\ m.through \in Nat /\ client.after \in Nat /\ client.cursor \in Nat
      /\ Len(serve.log) \in Nat
  <2>1. m.current \in Nat /\ m.through \in Nat
    BY <1>0 DEF Message
  <2> QED
    BY <2>1, Typing DEF Client
<1> HIDE DEF m
<1>2. /\ m.current <= m.through
      /\ \A n \in client.after + 1 .. m.through :
           HasFrame(client.frames, n) \/ \E j \in 1..0 : Carries(messages[j], n)
      /\ \A n \in client.cursor + 1 .. client.after : HasFrame(client.frames, n)
  <2>1. ~messages[1].snapshotRequired /\ ~messages[1].hasMore /\ 1 - 1 = 0
    BY <1>0 DEF m
  <2> QED
    BY <1>0, <2>1 DEF PageHolds, Paged
<1>3. Ahead(serve, client, messages, m.current)
  BY <1>0 DEF AheadHolds
<1>4. ASSUME NEW k \in client.cursor + 1 .. Len(serve.log)
      PROVE  HasFrame(client.frames, k) \/ Awaited(messages, k)
  <2>1. \/ k \in client.cursor + 1 .. client.after
        \/ k \in client.after + 1 .. m.through
        \/ k \in m.current + 1 .. Len(serve.log)
    BY <1>1, <1>2
  <2>2. 1..0 = {}
    OBVIOUS
  <2> QED
    BY <1>2, <1>3, <2>1, <2>2 DEF Ahead
<1> QED
  BY <1>4 DEF Ahead

\* When a recovery ends, nothing is lost behind the cursor it ends with.
LEMMA RecoveredAhead ==
  ASSUME TypeInv, NEW c \in Client, FinishRecovery(c), c.frames = client.frames,
         Ahead(serve, client, messages, c.cursor), UNCHANGED serve,
         NEW type, type # "event", Receive(type)
  PROVE  NothingLost'
<1>1. PICK k \in Nat : client'.cursor = c.cursor + k
                      /\ client'.frames = {f \in c.frames : f.seq > c.cursor + k}
  BY RecoveryFact
<1>2. c.cursor \in Nat /\ client'.cursor \in Nat /\ c.cursor <= client'.cursor
  BY <1>1 DEF Client
<1>3. \A n \in client'.cursor + 1 .. Len(serve.log) :
        HasFrame(client.frames, n) \/ Awaited(messages, n)
          => HasFrame(client'.frames, n) \/ Awaited(messages', n)
  <2> SUFFICES ASSUME NEW n \in client'.cursor + 1 .. Len(serve.log)
               PROVE  HasFrame(client.frames, n) \/ Awaited(messages, n)
                        => HasFrame(client'.frames, n) \/ Awaited(messages', n)
    OBVIOUS
  <2>1. n > c.cursor + k
    BY <1>1, <1>2
  <2>2. HasFrame(client.frames, n) => HasFrame(client'.frames, n)
    BY <1>1, <2>1 DEF HasFrame
  <2> QED
    BY <2>2, AwaitedKept
<1>4. Ahead(serve', client', messages', client'.cursor)
  BY <1>2, <1>3, AheadKept
<1> QED
  BY <1>4 DEF NothingLost

\* No event falls between the replay and the live stream.
LEMMA AheadStep ==
  ASSUME TypeInv, TypeInv', StreamInv, CallHolds, CallHolds', AttachHolds, AttachHolds',
         AheadHolds, PageHolds, [Next]_vars
  PROVE  AheadHolds'
<1>0. /\ messages \in Seq(Message) /\ client \in Client /\ client' \in Client
      /\ Len(serve.log) \in Nat /\ client.cursor \in Nat /\ client.latest \in Nat
      /\ work.from \in Nat
  BY Typing DEF TypeInv, TypeOK, Work
<1>1. CASE Sending
  <2>1. ~attached => ~attached' \/ serve' = serve
    <3>1. CASE ServeLogs
      BY <3>1 DEF ServeLogs
    <3>2. CASE ServeExpires
      BY <3>2 DEF ServeExpires
    <3>3. CASE Sending /\ ~ServeLogs /\ ~ServeExpires
      BY <3>3 DEF Sending, ServeRepeats, ServeRefuses, ServeAuthenticates, ServeStartsSnapshot,
         ServeAccepts, ServeInitializes, ServeSnapshots, ServeReplays, SupersededCloses, vars,
         serveVars
    <3> QED
      BY <1>1, <3>1, <3>2, <3>3
  <2> QED
    BY <1>1, <2>1, SendingAhead
<1>2. CASE ServeRestarts \/ ConnectionLost \/ ListFails \/ ConnectFails
  <2>1. phase' = "offline"
    BY <1>2 DEF ServeRestarts, ConnectionLost, ListFails, ConnectFails, SocketCloses,
       ConnectGivesUp, Disconnected
  <2> QED
    BY <2>1, NoStreamNoLoss, QuietAhead
<1>3. CASE Connect \/ Supersede
  <2>1. phase' = "initializing" /\ ~attached'
    BY <1>3 DEF Connect, Supersede, Open
  <2> QED
    BY <2>1, NoStreamNoLoss, QuietAhead
<1>4. CASE ListAnswered
  <2>1. phase = "listing" /\ phase' \in {"snapshotting", "ready"}
        /\ UNCHANGED <<serve, messages>>
        /\ client' \in {client, [client EXCEPT !.recovering = TRUE]}
    BY <1>4 DEF ListAnswered, serveVars
  <2>2. client'.frames = client.frames /\ client'.cursor = client.cursor
        /\ client'.streamId = client.streamId
    BY <1>0, <2>1 DEF Client
  <2>3. NothingLost'
    BY <2>1, <2>2 DEF AheadHolds, NothingLost, Ahead
  <2> QED
    BY <2>1, <2>3, QuietAhead
<1>5. CASE ReceiveUnnumbered \/ BufferEarly \/ DropEvent \/ HoldEvent \/ DeliverEvent
  <2>1. Receive("event") /\ UNCHANGED <<serve, work, phase>>
    BY <1>5, EventReceived DEF serveVars
  <2>2. messages # <<>> /\ messages' = Tail(messages)
    BY <2>1 DEF Receive
  <2>3. CASE ~Numbered
    <3>1. client.streamId = NoStream
      BY <2>3 DEF StreamInv, ClientHolds, Agrees, Numbered
    <3>2. client'.streamId = NoStream
      BY <1>5, <3>1, EventFact
    <3>3. NothingLost'
      BY <3>2, NoStreamNoLoss
    <3>4. phase' # "replaying" /\ ~Numbered'
      BY <2>1, <2>3, <3>1 DEF TypeInv, ReplayHolds, Numbered
    <3>5. \A i \in 1..Len(messages') : messages'[i].type # "page"
      BY <3>4 DEF CallHolds, Answers
    <3> QED
      BY <3>3, <3>4, <3>5 DEF AheadHolds
  <2>4. CASE Numbered
    <3>1. /\ client'.cursor \in Nat /\ client.cursor <= client'.cursor
          /\ client.recovering \/ client.streamId = NoStream => client'.cursor = client.cursor
          /\ \A k \in Nat :
               /\ client.streamId # NoStream => k > client'.cursor
               /\ HasFrame(client.frames, k) \/ Carries(Head(messages), k)
               => HasFrame(client'.frames, k)
      BY <1>5, <2>4, EventKept
    <3>2. ASSUME NEW k \in Nat, Awaited(messages, k)
          PROVE  Awaited(messages', k) \/ Carries(Head(messages), k)
      <4>1. PICK i \in 1..Len(messages) : Carries(messages[i], k)
        BY <3>2 DEF Awaited
      <4>2. i = 1 \/ i \in 2..Len(messages)
        BY <1>0
      <4> QED
        BY <1>0, <2>2, <4>1, <4>2, TailFact DEF Awaited
    <3>3. ASSUME NEW n \in Nat, NEW m \in Nat, n <= m, Ahead(serve, client, messages, n),
                 client.streamId # NoStream => m >= client'.cursor
          PROVE  Ahead(serve', client', messages', m)
      <4>1. ASSUME NEW k \in m + 1 .. Len(serve.log),
                   HasFrame(client.frames, k) \/ Awaited(messages, k)
            PROVE  HasFrame(client'.frames, k) \/ Awaited(messages', k)
        <5>1. k \in Nat /\ (client.streamId # NoStream => k > client'.cursor)
          BY <1>0, <3>1, <3>3
        <5> QED
          BY <3>1, <3>2, <4>1, <5>1
      <4>2. Ahead(serve, client', messages', m)
        BY <3>3, <4>1, AheadKept
      <4> QED
        BY <2>1, <4>2
    <3>4. work'.type = "initialize" => Ahead(serve', client', messages', work'.from)
      <4> SUFFICES ASSUME work'.type = "initialize"
                   PROVE  Ahead(serve', client', messages', work'.from)
        OBVIOUS
      <4>1. work # NoWork /\ work.type = "initialize"
        BY <2>1 DEF NoWork
      <4>2. client.streamId = NoStream
        BY <4>1 DEF CallHolds, Asked, AttachHolds
      <4> QED
        BY <1>0, <2>1, <2>4, <3>3, <4>1, <4>2 DEF AheadHolds
    <3>5. ASSUME NEW i \in 1..Len(messages'), messages'[i].type \in {"page", "initialized"}
          PROVE  Ahead(serve', client', messages', messages'[i].current)
      <4>1. i + 1 \in 1..Len(messages) /\ messages'[i] = messages[i + 1]
        BY <1>0, <2>2, TailFact
      <4>2. messages[i + 1].current \in Nat
        <5>1. messages[i + 1] \in Message
          BY <1>0, <4>1
        <5> QED
          BY <3>5, <4>1, <5>1 DEF Message
      <4>3. Ahead(serve, client, messages, messages[i + 1].current)
        BY <2>4, <3>5, <4>1 DEF AheadHolds
      <4>4. client.streamId # NoStream => messages[i + 1].current >= client'.cursor
        <5>1. Answers(phase, messages[i + 1].type)
          BY <3>5, <4>1 DEF CallHolds
        <5>2. CASE phase = "initializing"
          BY <5>2 DEF AttachHolds
        <5>3. CASE phase = "replaying" /\ messages[i + 1].type = "page"
          <6>1. client.recovering /\ client.cursor <= messages[i + 1].current
            BY <4>1, <5>3 DEF PageHolds
          <6> QED
            BY <1>0, <3>1, <4>2, <6>1
        <5> QED
          BY <3>5, <4>1, <5>1, <5>2, <5>3 DEF Answers
      <4> QED
        BY <3>3, <4>1, <4>2, <4>3, <4>4
    <3>6. phase' = "replaying" => Ahead(serve', client', messages', client'.latest)
      <4> SUFFICES ASSUME phase = "replaying"
                   PROVE  Ahead(serve', client', messages', client'.latest)
        BY <2>1
      <4>1. client.recovering /\ client.cursor <= client.latest
        BY DEF PageHolds
      <4>2. client'.latest = client.latest
        BY <1>5, EventFact
      <4>3. client.latest >= client'.cursor
        BY <1>0, <3>1, <4>1
      <4> QED
        BY <1>0, <3>3, <4>2, <4>3 DEF AheadHolds
    <3>7. NothingLost'
      <4>1. client'.streamId = client.streamId
        BY <1>5, EventFact
      <4> QED
        BY <1>0, <2>1, <3>1, <3>3, <4>1 DEF AheadHolds, NothingLost
    <3> QED
      BY <3>4, <3>5, <3>6, <3>7 DEF AheadHolds
  <2> QED
    BY <2>3, <2>4
<1>6. CASE JoinUnnumbered
  <2>1. phase = "initializing" /\ phase' = "listing"
    BY <1>6 DEF JoinUnnumbered, Respond
  <2>2. client'.streamId = client.streamId
    BY <1>0, <1>6 DEF JoinUnnumbered, Client
  <2>3. client'.streamId = NoStream
    BY <2>1, <2>2 DEF AttachHolds
  <2> QED
    BY <2>1, <2>3, NoStreamNoLoss, QuietAhead
<1>7. CASE JoinAndReplay
  <2> DEFINE m == Head(messages)
             j == Joined(m)
  <2>1. Receive("initialized") /\ UNCHANGED serveVars /\ phase' = "replaying"
        /\ m.stream # NoStream /\ stored.sequence < m.current
        /\ client' = [j EXCEPT !.cursor = stored.sequence, !.after = stored.sequence]
    BY <1>7 DEF JoinAndReplay, Respond
  <2>2. j \in Client /\ j.frames = client.frames /\ j.latest = m.current /\ Numbered
        /\ m.current \in Nat
    BY <2>1, JoinFact
  <2>3. m = messages[1] /\ 1 \in 1..Len(messages) /\ m.type = "initialized"
    BY <1>0, <2>1, TailFact DEF Receive
  <2> HIDE DEF m, j
  <2>4. client'.frames = client.frames /\ client'.latest = m.current
    BY <2>1, <2>2 DEF Client
  <2>5. Ahead(serve, client, messages, m.current)
    BY <2>2, <2>3 DEF AheadHolds
  <2>6. \A k : Awaited(messages, k) => Awaited(messages', k)
    BY <2>1, AwaitedKept
  <2>7. Ahead(serve', client', messages', client'.latest)
    BY <2>1, <2>4, <2>5, <2>6 DEF Ahead, serveVars
  <2>8. \A i \in 1..Len(messages') : messages'[i].type = "event"
    BY <2>1, Responded
  <2>9. work'.type # "initialize"
    BY <2>1 DEF CallHolds, Asked, NoWork
  <2> QED
    BY <2>1, <2>7, <2>8, <2>9, NoStreamNoLoss DEF AheadHolds
<1>8. CASE JoinAtCurrent
  <2> DEFINE m == Head(messages)
             c == [Joined(m) EXCEPT !.cursor = m.current,
                     !.snapshotRequired = stored # NoCursor
                       /\ stored # [stream |-> m.stream, sequence |-> m.current]]
  <2>1. Receive("initialized") /\ UNCHANGED serveVars /\ m.stream # NoStream
        /\ FinishRecovery(c)
    BY <1>8 DEF JoinAtCurrent, Respond
  <2>2. c \in Client /\ c.frames = client.frames /\ c.cursor = m.current /\ Numbered
    BY <2>1, JoinFact DEF Client
  <2>3. m = messages[1] /\ 1 \in 1..Len(messages) /\ m.type = "initialized"
    BY <1>0, <2>1, TailFact DEF Receive
  <2> HIDE DEF m, c
  <2>4. Ahead(serve, client, messages, c.cursor)
    BY <2>2, <2>3 DEF AheadHolds
  <2>5. serve' = serve /\ phase' = "listing"
    BY <2>1 DEF serveVars, FinishRecovery
  <2>6. NothingLost'
    BY <2>1, <2>2, <2>4, <2>5, RecoveredAhead
  <2> QED
    BY <2>5, <2>6, QuietAhead
<1>9. CASE ReplayEnds \/ ReplayFails
  <2>1. PICK c \in Client, type \in {"page", "error"} :
          /\ Receive(type) /\ FinishRecovery(c) /\ c.frames = client.frames
          /\ Ahead(serve, client, messages, c.cursor)
    <3>1. CASE ReplayEnds
      <4> DEFINE m == Head(messages)
      <4>1. Receive("page") /\ phase = "replaying"
            /\ FinishRecovery(IF ~m.snapshotRequired /\ ~m.hasMore
                                THEN client ELSE Abandoned(client, m.current))
        BY <3>1 DEF ReplayEnds, Respond
      <4>2. m = messages[1] /\ 1 \in 1..Len(messages) /\ m.type = "page" /\ m \in Message
        BY <1>0, <4>1, TailFact DEF Receive
      <4>3. m.current \in Nat
        BY <4>2 DEF Message
      <4> HIDE DEF m
      <4>4. CASE ~m.snapshotRequired /\ ~m.hasMore
        <5>1. Ahead(serve, client, messages, client.cursor)
          BY <4>1, <4>4, PageComplete DEF m
        <5> QED
          BY <1>0, <4>1, <4>4, <5>1
      <4>5. CASE ~(~m.snapshotRequired /\ ~m.hasMore)
        <5> DEFINE a == Abandoned(client, m.current)
        <5>1. a \in Client /\ a.frames = client.frames /\ a.cursor = m.current
          BY <1>0, <4>3, RecoveredType DEF Abandoned, Client
        <5>2. Ahead(serve, client, messages, m.current)
          BY <4>2 DEF AheadHolds
        <5>3. FinishRecovery(a)
          BY <4>1, <4>5
        <5> HIDE DEF a
        <5> QED
          BY <4>1, <5>1, <5>2, <5>3
      <4> QED
        BY <4>4, <4>5
    <3>2. CASE ReplayFails
      <4> DEFINE a == Abandoned(client, client.latest)
      <4>1. Receive("error") /\ phase = "replaying" /\ FinishRecovery(a)
        BY <3>2 DEF ReplayFails, Respond
      <4>2. a \in Client /\ a.frames = client.frames /\ a.cursor = client.latest
        BY <1>0, RecoveredType DEF Abandoned, Client
      <4> HIDE DEF a
      <4> QED
        BY <4>1, <4>2 DEF AheadHolds
    <3> QED
      BY <1>9, <3>1, <3>2
  <2>2. serve' = serve /\ phase' = "listing"
    BY <1>9, <2>1 DEF ReplayEnds, ReplayFails, serveVars, FinishRecovery
  <2>3. NothingLost'
    BY <2>1, <2>2, RecoveredAhead
  <2> QED
    BY <2>2, <2>3, QuietAhead
<1>10. CASE ReplayGoesOn
  <2> DEFINE m == Head(messages)
  <2>1. Receive("page") /\ phase = "replaying" /\ phase' = phase /\ UNCHANGED serveVars
        /\ client' = [client EXCEPT !.after = m.through, !.page = @ + 1, !.latest = Later(m, @)]
    BY <1>10 DEF ReplayGoesOn, Respond
  <2>2. m = messages[1] /\ 1 \in 1..Len(messages) /\ m.type = "page" /\ m \in Message
    BY <1>0, <2>1, TailFact DEF Receive
  <2>3. m.current \in Nat
    BY <2>2 DEF Message
  <2> HIDE DEF m
  <2>4. client'.frames = client.frames /\ client'.latest = Later(m, client.latest)
    BY <1>0, <2>1 DEF Client
  <2>5. \A k : Awaited(messages, k) => Awaited(messages', k)
    BY <2>1, AwaitedKept
  <2>6. m.current <= client'.latest /\ client'.latest \in Nat
    BY <1>0, <2>3, <2>4 DEF Later
  <2>7. Ahead(serve, client, messages, m.current)
    BY <2>2 DEF AheadHolds
  <2>8. Ahead(serve, client', messages', client'.latest)
    BY <2>3, <2>4, <2>5, <2>6, <2>7, AheadKept
  <2>9. \A i \in 1..Len(messages') : messages'[i].type = "event"
    BY <2>1, Responded
  <2>10. work'.type # "initialize" /\ serve' = serve
    BY <2>1 DEF CallHolds, Asked, NoWork, serveVars
  <2> QED
    BY <2>1, <2>8, <2>9, <2>10, NoStreamNoLoss DEF AheadHolds
<1>11. CASE ApplySnapshot
  <2> DEFINE m == Head(messages)
             c == SnapshotApplied(m)
  <2>1. Receive("snapshot") /\ phase = "snapshotting" /\ phase' = "ready" /\ UNCHANGED serveVars
        /\ SnapshotFits(m)
    BY <1>11 DEF ApplySnapshot, Respond
  <2>2. PICK k \in 0..MaxLog : client' = Drained(c, k)
    BY <1>11 DEF ApplySnapshot, Finish
  <2>3. k \in Nat /\ c \in Client /\ c.streamId # NoStream
    BY <2>1, SnapshotHolds, BoundsAssumption
  <2>4. m.type = "snapshot" /\ m \in Message
    BY <1>0, <2>1, TailFact DEF Receive
  <2>5. Len(m.log) \in Nat /\ client.cursor <= Len(m.log) /\ client.streamId # NoStream
    BY <1>0, <2>1, <2>4 DEF Message, Logs, SnapshotFits
  <2>6. c.cursor = Len(m.log) /\ c.frames = {f \in client.frames : f.seq > Len(m.log)}
    BY <1>0 DEF SnapshotApplied, Client
  <2> HIDE DEF c, m
  <2>7. client'.cursor = c.cursor + k
        /\ client'.frames = {f \in c.frames : f.seq \notin c.cursor + 1 .. c.cursor + k}
    BY <2>2, <2>3, DrainFact
  <2>8. Ahead(serve, client, messages, client.cursor)
    BY <2>1, <2>5 DEF AheadHolds, NothingLost
  <2>9. client'.cursor \in Nat /\ client.cursor <= client'.cursor
    BY <1>0, <2>3, <2>5, <2>6, <2>7
  <2>10. ASSUME NEW n \in client'.cursor + 1 .. Len(serve.log)
         PROVE  HasFrame(client.frames, n) \/ Awaited(messages, n)
                  => HasFrame(client'.frames, n) \/ Awaited(messages', n)
    <3>1. n > Len(m.log) /\ n \notin c.cursor + 1 .. c.cursor + k
      BY <1>0, <2>3, <2>5, <2>6, <2>7
    <3>2. HasFrame(client.frames, n) => HasFrame(client'.frames, n)
      BY <2>6, <2>7, <3>1 DEF HasFrame
    <3> QED
      BY <2>1, <3>2, AwaitedKept
  <2>11. Ahead(serve, client', messages', client'.cursor)
    BY <1>0, <2>8, <2>9, <2>10, AheadKept
  <2>12. NothingLost'
    BY <2>1, <2>11 DEF NothingLost, serveVars
  <2> QED
    BY <2>1, <2>12, QuietAhead
<1> QED
  BY <1>1, <1>2, <1>3, <1>4, <1>5, <1>6, <1>7, <1>8, <1>9, <1>10, <1>11 DEF Next, Sending

\* The client of a replay has come no further than the log, and holds what every
\* page so far has brought.
LEMMA PageStep ==
  ASSUME TypeInv, TypeInv', StreamInv, CallHolds, CallHolds', AttachHolds, PageHolds,
         [Next]_vars
  PROVE  PageHolds'
<1>0. /\ messages \in Seq(Message) /\ client \in Client /\ client' \in Client
      /\ Len(serve.log) \in Nat /\ client.cursor \in Nat /\ client.latest \in Nat
      /\ client.after \in Nat /\ Len(messages) \in Nat
  BY Typing DEF TypeInv, TypeOK, Client
<1>1. CASE Sending
  <2>0. UNCHANGED <<client, phase>> /\ (requests' # <<>> => requests' = requests)
        /\ Len(messages) <= Len(messages') /\ Len(messages') \in Nat
        /\ \A i \in 1..Len(messages) : messages'[i] = messages[i]
    BY <1>1, SentFact DEF TypeInv, TypeOK
  <2> SUFFICES ASSUME phase = "replaying",
                      NEW i \in 1..Len(messages'), messages'[i].type = "page"
               PROVE  /\ client.cursor <= messages'[i].current
                      /\ messages'[i].snapshotRequired \/ messages'[i].hasMore
                           \/ messages'[i].current <= messages'[i].through
                      /\ Paged(client, messages', i)
    BY <2>0 DEF PageHolds
  <2>1. CASE i \in 1..Len(messages)
    <3>1. messages'[i] = messages[i] /\ \A j \in 1 .. i - 1 : messages'[j] = messages[j]
      BY <1>0, <2>0, <2>1
    <3>2. Paged(client, messages, i)
      BY <2>1, <3>1 DEF PageHolds
    <3>3. Paged(client, messages', i)
      BY <3>1, <3>2 DEF Paged
    <3> QED
      BY <2>1, <3>1, <3>3 DEF PageHolds
  <2>2. CASE i \in Len(messages) + 1 .. Len(messages')
    <3>1. ServeReplays /\ i = Len(messages')
      BY <1>1, <2>2, SentFact
    <3>2. requests # <<>> /\ Head(requests).after = client.after
      BY <3>1, PageFact DEF PageHolds
    <3>3. client.cursor <= Len(serve.log)
      BY DEF TypeInv, ReplayHolds, StreamInv, ClientHolds, Agrees
    <3>4. /\ messages'[i].current = Len(serve.log)
          /\ messages'[i].snapshotRequired \/ messages'[i].hasMore
               \/ messages'[i].current <= messages'[i].through
          /\ \A n \in client.after + 1 .. messages'[i].through :
               \E j \in 1 .. i - 1 : Carries(messages'[j], n)
      BY <3>1, <3>2, PageFact
    <3> QED
      BY <3>3, <3>4 DEF Paged
  <2> QED
    BY <1>0, <2>0, <2>1, <2>2
<1>2. CASE ServeRestarts \/ ConnectionLost \/ ListFails \/ ConnectFails
  <2>1. phase' = "offline"
    BY <1>2 DEF ServeRestarts, ConnectionLost, ListFails, ConnectFails, SocketCloses,
       ConnectGivesUp, Disconnected
  <2> QED
    BY <2>1 DEF PageHolds
<1>3. CASE Connect \/ Supersede
  <2>1. phase' = "initializing" /\ client' = FreshClient
    BY <1>3 DEF Connect, Supersede, Open
  <2>2. FreshClient.recovering
    BY DEF FreshClient
  <2> QED
    BY <2>1, <2>2 DEF PageHolds
<1>4. CASE ListAnswered
  <2>1. \/ phase' = "ready"
        \/ /\ phase' = "snapshotting"
           /\ client' = [client EXCEPT !.recovering = TRUE]
    BY <1>4 DEF ListAnswered
  <2>2. phase' = "snapshotting" => client'.recovering
    BY <1>0, <2>1 DEF Client
  <2> QED
    BY <2>1, <2>2 DEF PageHolds
<1>5. CASE ReceiveUnnumbered \/ BufferEarly \/ DropEvent \/ HoldEvent \/ DeliverEvent
  <2>1. Receive("event") /\ UNCHANGED <<requests, phase>>
    BY <1>5, EventReceived
  <2>2. messages # <<>> /\ messages' = Tail(messages)
    BY <2>1 DEF Receive
  <2>3. client'.after = client.after /\ client'.latest = client.latest
        /\ client'.recovering = client.recovering
    BY <1>5, EventFact
  <2>4. CASE phase = "replaying"
    <3>1. client.streamId # NoStream /\ client.recovering /\ Numbered
      BY <2>4 DEF TypeInv, ReplayHolds, StreamInv, ClientHolds, Agrees, PageHolds, Numbered
    <3>2. /\ client'.cursor = client.cursor
          /\ \A k \in Nat :
               k > client.cursor
                 /\ (HasFrame(client.frames, k) \/ Carries(Head(messages), k))
               => HasFrame(client'.frames, k)
      BY <1>5, <3>1, EventKept
    <3>3. ASSUME NEW n \in client'.cursor + 1 .. client'.after
          PROVE  HasFrame(client'.frames, n)
      <4>1. n \in Nat /\ n > client.cursor /\ HasFrame(client.frames, n)
        BY <1>0, <2>3, <2>4, <3>2, <3>3 DEF PageHolds
      <4> QED
        BY <3>2, <4>1
    <3>4. ASSUME NEW i \in 1..Len(messages'), messages'[i].type = "page"
          PROVE  /\ client'.cursor <= messages'[i].current
                 /\ messages'[i].snapshotRequired \/ messages'[i].hasMore
                      \/ messages'[i].current <= messages'[i].through
                 /\ Paged(client', messages', i)
      <4>1. i + 1 \in 1..Len(messages) /\ messages'[i] = messages[i + 1]
            /\ Len(messages') = Len(messages) - 1
        BY <1>0, <2>2, TailFact
      <4>2. /\ client.cursor <= messages[i + 1].current
            /\ messages[i + 1].snapshotRequired \/ messages[i + 1].hasMore
                 \/ messages[i + 1].current <= messages[i + 1].through
            /\ Paged(client, messages, i + 1)
        BY <2>4, <3>4, <4>1 DEF PageHolds
      <4>3. messages[i + 1] \in Message /\ messages[i + 1].through \in Nat
        <5>1. messages[i + 1] \in Message
          BY <1>0, <4>1
        <5> QED
          BY <3>4, <4>1, <5>1 DEF Message
      <4>4. ASSUME NEW n \in client'.after + 1 .. messages'[i].through
            PROVE  HasFrame(client'.frames, n) \/ \E j \in 1 .. i - 1 : Carries(messages'[j], n)
        <5>1. n \in Nat /\ n > client.cursor /\ n \in client.after + 1 .. messages[i + 1].through
          BY <1>0, <2>3, <2>4, <4>1, <4>3, <4>4 DEF PageHolds
        <5>2. HasFrame(client.frames, n) \/ \E j \in 1 .. i : Carries(messages[j], n)
          BY <4>2, <5>1 DEF Paged
        <5>3. CASE HasFrame(client.frames, n)
          BY <3>2, <5>1, <5>3
        <5>4. ASSUME NEW j \in 1 .. i, Carries(messages[j], n)
              PROVE  HasFrame(client'.frames, n) \/ \E l \in 1 .. i - 1 : Carries(messages'[l], n)
          <6>1. CASE j = 1
            <7>1. Head(messages) = messages[1]
              BY <1>0, <2>2, TailFact
            <7> QED
              BY <3>2, <5>1, <5>4, <6>1, <7>1
          <6>2. CASE j # 1
            <7>1. j - 1 \in 1 .. i - 1 /\ j \in 2..Len(messages)
              BY <1>0, <4>1, <6>2
            <7>2. messages'[j - 1] = messages[j]
              BY <1>0, <2>2, <7>1, TailFact
            <7> QED
              BY <5>4, <7>1, <7>2
          <6> QED
            BY <6>1, <6>2
        <5> QED
          BY <5>2, <5>3, <5>4
      <4> QED
        BY <3>2, <4>1, <4>2, <4>4 DEF Paged
    <3> QED
      BY <2>1, <2>3, <2>4, <3>2, <3>3, <3>4 DEF PageHolds
  <2>5. CASE phase # "replaying"
    BY <2>1, <2>3, <2>5 DEF PageHolds
  <2> QED
    BY <2>4, <2>5
<1>6. CASE JoinUnnumbered \/ JoinAtCurrent \/ ReplayEnds \/ ReplayFails \/ ApplySnapshot
  <2>1. phase' \in {"listing", "ready"}
    BY <1>6 DEF JoinUnnumbered, JoinAtCurrent, ReplayEnds, ReplayFails, ApplySnapshot,
       FinishRecovery
  <2> QED
    BY <2>1 DEF PageHolds
<1>7. CASE JoinAndReplay
  <2> DEFINE m == Head(messages)
             j == Joined(m)
             request == [type |-> "replay", after |-> stored.sequence]
  <2>1. /\ Receive("initialized") /\ UNCHANGED serveVars
        /\ phase = "initializing" /\ phase' = "replaying"
        /\ m.stream # NoStream /\ stored.sequence < m.current /\ Resumable(m)
        /\ requests' = Append(requests, request)
        /\ client' = [j EXCEPT !.cursor = stored.sequence, !.after = stored.sequence]
    BY <1>7 DEF JoinAndReplay, Respond, Ask
  <2>2. j \in Client /\ j.latest = m.current /\ m.current \in Nat /\ stored.sequence \in Nat
        /\ j.recovering = client.recovering
    BY <2>1, JoinFact
  <2>3. requests = <<>> /\ \A i \in 1..Len(messages') : messages'[i].type = "event"
    BY <2>1, Responded
  <2>4. Head(requests') = request /\ request.after = stored.sequence
    BY <2>1, <2>3
  <2> HIDE DEF m, j, request
  <2>5. client'.cursor = stored.sequence /\ client'.after = stored.sequence
        /\ client'.latest = m.current /\ client'.recovering = client.recovering
    BY <2>1, <2>2 DEF Client
  <2>6. client'.recovering
    BY <2>1, <2>5 DEF PageHolds
  <2>7. client'.cursor <= client'.latest /\ client'.cursor <= client'.after
        /\ client'.cursor + 1 .. client'.after = {}
    BY <2>1, <2>2, <2>5
  <2> QED
    BY <2>3, <2>4, <2>5, <2>6, <2>7 DEF PageHolds
<1>8. CASE ReplayGoesOn
  <2> DEFINE m == Head(messages)
             request == [type |-> "replay", after |-> m.through]
  <2>1. /\ Receive("page") /\ phase = "replaying" /\ phase' = phase
        /\ ~EndOfReplay(m) /\ requests' = Append(requests, request)
        /\ client' = [client EXCEPT !.after = m.through, !.page = @ + 1, !.latest = Later(m, @)]
    BY <1>8 DEF ReplayGoesOn, Respond, Ask
  <2>2. m = messages[1] /\ 1 \in 1..Len(messages) /\ m.type = "page" /\ m \in Message
    BY <1>0, <2>1, TailFact DEF Receive
  <2>3. m.current \in Nat /\ m.through \in Nat /\ ~(m.through <= client.after)
    BY <2>1, <2>2 DEF Message, EndOfReplay
  <2>4. requests = <<>> /\ \A i \in 1..Len(messages') : messages'[i].type = "event"
    BY <2>1, Responded
  <2>5. Head(requests') = request /\ request.after = m.through
    BY <2>1, <2>4
  <2> HIDE DEF m, request
  <2>6. client'.cursor = client.cursor /\ client'.after = m.through
        /\ client'.latest = Later(m, client.latest) /\ client'.frames = client.frames
        /\ client'.recovering = client.recovering
    BY <1>0, <2>1 DEF Client
  <2>7. client.cursor <= client.latest /\ client.cursor <= client.after /\ client.recovering
    BY <2>1 DEF PageHolds
  <2>8. client'.cursor <= client'.latest /\ client'.cursor <= client'.after
    BY <1>0, <2>3, <2>6, <2>7 DEF Later
  <2>9. ASSUME NEW n \in client'.cursor + 1 .. client'.after
        PROVE  HasFrame(client'.frames, n)
    <3>1. CASE n \in client.cursor + 1 .. client.after
      BY <2>1, <2>6, <3>1 DEF PageHolds
    <3>2. CASE n \in client.after + 1 .. m.through
      <4>1. Paged(client, messages, 1)
        BY <2>1, <2>2 DEF PageHolds
      <4>2. 1 .. 1 - 1 = {} /\ messages[1].through = m.through
        BY <2>2
      <4>3. HasFrame(client.frames, n) \/ \E j \in 1 .. 1 - 1 : Carries(messages[j], n)
        BY <3>2, <4>1, <4>2 DEF Paged
      <4> QED
        BY <2>6, <4>2, <4>3
    <3> QED
      BY <1>0, <2>3, <2>6, <2>9, <3>1, <3>2
  <2> QED
    BY <2>1, <2>4, <2>5, <2>6, <2>7, <2>8, <2>9 DEF PageHolds
<1> QED
  BY <1>1, <1>2, <1>3, <1>4, <1>5, <1>6, <1>7, <1>8 DEF Next, Sending

\* A snapshot that is on its way, or will be read, reaches the cursor.
LEMMA WaitStep ==
  ASSUME TypeInv, TypeInv', StreamInv, CallHolds, CallHolds', AttachHolds, PageHolds,
         WaitHolds, [Next]_vars
  PROVE  WaitHolds'
<1>0. /\ messages \in Seq(Message) /\ client \in Client /\ client' \in Client
      /\ Len(serve.log) \in Nat /\ client.cursor \in Nat /\ work \in Work /\ work.from \in Nat
  BY Typing DEF TypeInv, TypeOK, Work
<1>1. CASE Sending
  <2>0. UNCHANGED <<client, phase>> /\ serve'.stream = serve.stream
        /\ \A i \in 1..Len(messages) : messages'[i] = messages[i]
        /\ Len(messages) \in Nat /\ Len(messages') \in Nat
    BY <1>0, <1>1, SentFact DEF TypeInv, TypeOK
  <2>1. client.streamId # NoStream =>
          client.streamId = serve.stream /\ client.cursor <= Len(serve.log)
    BY DEF StreamInv, ClientHolds, Agrees
  <2>2. work'.type = "snapshot" /\ client.streamId # NoStream => client.cursor <= work'.from
    <3>1. work'.type = "none" \/ work' = work \/ work'.from = Len(serve.log)
      BY <1>1, SentFact
    <3>2. CASE work'.type = "none"
      BY <3>2
    <3> QED
      BY <2>1, <3>1, <3>2 DEF WaitHolds
  <2>3. ASSUME NEW i \in 1..Len(messages'), messages'[i].type = "snapshot",
               client.streamId # NoStream
        PROVE  messages'[i].stream = client.streamId /\ Len(messages'[i].log) >= client.cursor
    <3>1. CASE i \in 1..Len(messages)
      BY <2>0, <2>3, <3>1 DEF WaitHolds, SnapshotNotOlder, SnapshotFits
    <3>2. CASE i \in Len(messages) + 1 .. Len(messages')
      <4>1. work.type = "snapshot" /\ messages'[i].stream = serve.stream
            /\ work.from <= Len(messages'[i].log)
        BY <1>1, <2>3, <3>2, SentFact
      <4>2. Len(messages'[i].log) \in Nat
        <5>1. messages'[i] \in Message
          BY DEF TypeInv, TypeOK
        <5> QED
          BY <2>3, <5>1 DEF Message, Logs
      <4>3. client.cursor <= work.from
        BY <2>3, <4>1 DEF WaitHolds
      <4> QED
        BY <1>0, <2>1, <2>3, <4>1, <4>2, <4>3
    <3> QED
      BY <2>0, <3>1, <3>2
  <2> QED
    BY <2>0, <2>2, <2>3 DEF WaitHolds, SnapshotNotOlder, SnapshotFits
<1>2. CASE /\ work'.type # "snapshot"
           /\ \A i \in 1..Len(messages') : messages'[i].type # "snapshot"
  BY <1>2 DEF WaitHolds, SnapshotNotOlder
<1>3. ASSUME phase' # "snapshotting"
      PROVE  WaitHolds'
  <2>1. work'.type # "snapshot"
    BY <1>3 DEF CallHolds, Asked, NoWork
  <2>2. \A i \in 1..Len(messages') : messages'[i].type # "snapshot"
    BY <1>3 DEF CallHolds, Answers
  <2> QED
    BY <1>2, <2>1, <2>2
<1>4. CASE ReceiveUnnumbered \/ BufferEarly \/ DropEvent \/ HoldEvent \/ DeliverEvent
  <2>1. Receive("event") /\ UNCHANGED <<serve, work, phase>>
    BY <1>4, EventReceived DEF serveVars
  <2>2. messages # <<>> /\ messages' = Tail(messages)
    BY <2>1 DEF Receive
  <2>3. client'.streamId = client.streamId
    BY <1>4, EventFact
  <2>4. CASE phase = "snapshotting" /\ client.streamId # NoStream
    <3>1. client.recovering /\ Numbered
      BY <2>4 DEF PageHolds, StreamInv, ClientHolds, Agrees, Numbered
    <3>2. client'.cursor = client.cursor
      BY <1>4, <3>1, EventKept
    <3>3. ASSUME NEW i \in 1..Len(messages'), messages'[i].type = "snapshot"
          PROVE  messages'[i].stream = client'.streamId /\ Len(messages'[i].log) >= client'.cursor
      <4>1. i + 1 \in 1..Len(messages) /\ messages'[i] = messages[i + 1]
        BY <1>0, <2>2, TailFact
      <4> QED
        BY <2>3, <2>4, <3>2, <3>3, <4>1 DEF WaitHolds, SnapshotNotOlder, SnapshotFits
    <3> QED
      BY <2>1, <2>3, <2>4, <3>2, <3>3 DEF WaitHolds, SnapshotNotOlder, SnapshotFits
  <2>5. CASE client.streamId = NoStream
    BY <2>3, <2>5 DEF WaitHolds, SnapshotNotOlder
  <2> QED
    BY <1>3, <2>1, <2>4, <2>5
<1>5. CASE ListAnswered
  <2>1. UNCHANGED <<messages, work>> /\ phase = "listing"
    BY <1>5 DEF ListAnswered, serveVars
  <2>2. \A i \in 1..Len(messages) : messages[i].type = "event"
    BY <2>1, Silent
  <2>3. work.type # "snapshot"
    BY <2>1 DEF CallHolds, Asked, NoWork
  <2> QED
    BY <1>2, <2>1, <2>2, <2>3
<1>6. CASE phase' # "snapshotting"
  BY <1>3, <1>6
<1>7. ASSUME phase' = "snapshotting"
      PROVE  Sending \/ ListAnswered
               \/ ReceiveUnnumbered \/ BufferEarly \/ DropEvent \/ HoldEvent \/ DeliverEvent
  <2>1. Next \/ UNCHANGED vars
    OBVIOUS
  <2>2. CASE ServeRestarts
    <3>1. phase' = "offline"
      BY <2>2 DEF ServeRestarts, SocketCloses, Disconnected
    <3> QED
      BY <1>7, <3>1
  <2>3. CASE ConnectionLost \/ ListFails \/ ConnectFails
    <3>1. phase' = "offline"
      BY <2>3 DEF ConnectionLost, ListFails, ConnectFails, SocketCloses, ConnectGivesUp,
         Disconnected
    <3> QED
      BY <1>7, <3>1
  <2>4. CASE Connect \/ Supersede
    BY <1>7, <2>4 DEF Connect, Supersede, Open
  <2>5. CASE JoinUnnumbered \/ JoinAtCurrent \/ ReplayEnds \/ ReplayFails \/ ApplySnapshot
    BY <1>7, <2>5 DEF JoinUnnumbered, JoinAtCurrent, ReplayEnds, ReplayFails, ApplySnapshot,
       FinishRecovery
  <2>6. CASE JoinAndReplay \/ ReplayGoesOn
    BY <1>7, <2>6 DEF JoinAndReplay, ReplayGoesOn, Respond
  <2> QED
    BY <2>2, <2>1, <2>3, <2>4, <2>5, <2>6 DEF Next, Sending
<1> QED
  BY <1>1, <1>4, <1>5, <1>6, <1>7

\* Nothing is asked for and nothing in flight before the first connect().
LEMMA RecoveryInit == Init => RecoveryInv
<1> SUFFICES ASSUME Init
             PROVE  RecoveryInv
  OBVIOUS
<1>1. requests = <<>> /\ messages = <<>> /\ work = NoWork /\ phase = "offline"
      /\ client = FreshClient /\ NoWork.type = "none"
  BY DEF Init, NoWork
<1>2. Len(messages) = 0 /\ Len(requests) = 0 /\ 1..Len(messages) = {}
  BY <1>1
<1>3. client.streamId = NoStream /\ client.bufferedStream = NoStream
  BY <1>1 DEF FreshClient
<1>4. CallHolds
  BY <1>1, <1>2 DEF CallHolds
<1>5. AttachHolds
  BY <1>1, <1>2, <1>3 DEF AttachHolds
<1>6. AheadHolds /\ PageHolds /\ WaitHolds
  BY <1>1, <1>2 DEF AheadHolds, PageHolds, WaitHolds, NothingLost, SnapshotNotOlder
<1> QED
  BY <1>4, <1>5, <1>6 DEF RecoveryInv

\* Every step keeps what a connection in its phase still waits for.
LEMMA RecoveryStep ==
  ASSUME TypeInv, TypeInv', StreamInv, RecoveryInv, [Next]_vars
  PROVE  RecoveryInv'
<1>1. CallHolds /\ AttachHolds /\ AheadHolds /\ PageHolds /\ WaitHolds
  BY DEF RecoveryInv
<1>2. CallHolds'
  BY <1>1, CallStep
<1>3. AttachHolds'
  BY <1>1, AttachStep
<1> QED
  BY <1>1, <1>2, <1>3, AheadStep, PageStep, WaitStep DEF RecoveryInv

\* It holds in every reachable state, clients superseded or not.
LEMMA RecoveryCorrect == Spec => [](TypeInv /\ StreamInv /\ RecoveryInv)
<1>1. Init => TypeInv /\ StreamInv /\ RecoveryInv
  BY TypeInit, StreamInit, RecoveryInit
<1>2. TypeInv /\ StreamInv /\ RecoveryInv /\ [Next]_vars
        => (TypeInv /\ StreamInv /\ RecoveryInv)'
  BY TypeStep, StreamStep, RecoveryStep
<1> QED
  BY <1>1, <1>2, PTL DEF Spec

\* Whatever is lost, repeated, refused, restarted or superseded: once recovery is
\* over, every event after the cursor is in the frame buffer or on the socket
\* (recoverEventStream, the frames it keeps and the cursor it sets).
THEOREM NothingIsLost == Spec => []NothingLost
<1>1. RecoveryInv => NothingLost
  BY DEF RecoveryInv, AheadHolds
<1> QED
  BY <1>1, RecoveryCorrect, PTL

\* No snapshot Serve takes for a numbered stream is older than the client's cursor,
\* so synchronizeEventSnapshot never refuses an honest one.
THEOREM SnapshotsFit == Spec => []SnapshotNotOlder
<1>1. RecoveryInv => SnapshotNotOlder
  BY DEF RecoveryInv, WaitHolds
<1> QED
  BY <1>1, RecoveryCorrect, PTL

--------------------------------------------------------------------------------
(* The cursor in localStorage and the events shown before a snapshot *)

\* Events t are those of log s after the from-th.
Stretch(s, from, t) ==
  \A n \in 1..Len(t) : t[n] = EventAt(s.stream, s.log, from + n)

\* Two stretches of a log make one.
LEMMA Stretches ==
  ASSUME NEW s \in Engine, NEW from \in Nat, NEW t \in Seq(Event), NEW run \in Seq(Event),
         Stretch(s, from, t), Stretch(s, from + Len(t), run)
  PROVE  Len(t \o run) = Len(t) + Len(run) /\ Stretch(s, from, t \o run)
<1> DEFINE u == t \o run
<1>1. Len(t) \in Nat /\ Len(run) \in Nat
  OBVIOUS
<1>2. Len(u) = Len(t) + Len(run)
  BY ConcatProperties
<1>3. ASSUME NEW n \in 1 .. Len(t) + Len(run)
      PROVE  u[n] = IF n <= Len(t) THEN t[n] ELSE run[n - Len(t)]
  BY ConcatProperties
<1> HIDE DEF u
<1>4. ASSUME NEW n \in 1..Len(u)
      PROVE  u[n] = EventAt(s.stream, s.log, from + n)
  <2>1. CASE n <= Len(t)
    <3>1. n \in 1..Len(t) /\ u[n] = t[n]
      BY <1>1, <1>2, <1>3, <2>1
    <3> QED
      BY <3>1 DEF Stretch
  <2>2. CASE ~(n <= Len(t))
    <3>1. PICK i \in 1..Len(run) : n = Len(t) + i
      <4>1. n - Len(t) \in 1..Len(run) /\ n = Len(t) + (n - Len(t))
        BY <1>1, <1>2, <2>2
      <4> QED
        BY <4>1
    <3>2. n - Len(t) = i /\ from + Len(t) + i = from + n
      BY <1>1, <3>1
    <3>3. u[n] = run[i]
      BY <1>2, <1>3, <2>2, <3>1, <3>2
    <3> QED
      BY <3>1, <3>2, <3>3 DEF Stretch
  <2> QED
    BY <2>1, <2>2
<1> QED
  BY <1>2, <1>4 DEF u, Stretch

\* What a drain adds to the events shown is what the log holds after the cursor.
LEMMA ShownRun ==
  ASSUME NEW s \in Engine, NEW c \in Client, NEW k \in Nat, IsRun(c, k),
         \A f \in c.frames : Genuine(s, f),
         NEW a \in View, NEW b, b = Applied(a, Run(c, k)),
         NEW from \in Nat, c.cursor = from + Len(a.tail), Stretch(s, from, a.tail)
  PROVE  Len(b.tail) = Len(a.tail) + k /\ Stretch(s, from, b.tail)
<1> DEFINE run == Run(c, k)
<1>1. a.tail \in Seq(Event)
  BY DEF View
<1>2. run \in Seq(Event) /\ Len(run) = k
  BY RunFact
<1>3. Stretch(s, from + Len(a.tail), run)
  BY <1>2, RunOfLog DEF Stretch
<1>4. b.tail = a.tail \o run
  BY DEF Applied, View
<1> HIDE DEF run
<1> QED
  BY <1>1, <1>2, <1>3, <1>4, Stretches

\* The first drain shows the events after the cursor.
LEMMA ShownFromNothing ==
  ASSUME NEW s \in Engine, NEW c \in Client, NEW k \in Nat, IsRun(c, k),
         \A f \in c.frames : Genuine(s, f),
         NEW a \in View, a.tail = <<>>, NEW b, b = Applied(a, Run(c, k))
  PROVE  Len(b.tail) = k /\ Stretch(s, c.cursor, b.tail)
<1>1. c.cursor \in Nat
  BY DEF Client
<1>2. Len(a.tail) = 0
  OBVIOUS
<1>3. c.cursor = c.cursor + Len(a.tail) /\ 1..Len(a.tail) = {} /\ Len(a.tail) + k = k
  BY <1>1, <1>2
<1>4. Stretch(s, c.cursor, a.tail)
  BY <1>3 DEF Stretch
<1>5. Len(b.tail) = Len(a.tail) + k /\ Stretch(s, c.cursor, b.tail)
  BY <1>1, <1>3, <1>4, ShownRun
<1> QED
  BY <1>3, <1>5

\* A cursor that is stored with every drain is the client's.
LEMMA StoredDrained ==
  ASSUME NEW c \in Client, NEW k \in Nat
  PROVE  StoredAfter(c, k, CursorOf(c)) = CursorOf(Drained(c, k))
<1>1. c.cursor \in Nat
  BY DEF Client
<1>2. Drained(c, k).cursor = c.cursor + k /\ Drained(c, k).streamId = c.streamId
  BY DrainFact
<1> QED
  BY <1>1, <1>2 DEF StoredAfter, CursorOf

\* Nothing is stored, resumed or shown before the first connect().
LEMMA CursorInit == Init => CursorInv
<1> SUFFICES ASSUME Init
             PROVE  CursorInv
  OBVIOUS
<1>1. client.resumed = NoSequence /\ phase = "offline"
  BY DEF Init, FreshClient
<1> QED
  BY <1>1 DEF CursorInv, StoredHolds, SummaryHolds, RecoverySummaryHolds

\* Offline nothing is resumed.
LEMMA OfflineCursor ==
  ASSUME phase' = "offline", client' = FreshClient
  PROVE  CursorInv'
<1>1. FreshClient.resumed = NoSequence
  BY DEF FreshClient
<1> QED
  BY <1>1 DEF CursorInv, StoredHolds, SummaryHolds, RecoverySummaryHolds

\* While no client is superseded, the stored cursor is the client's, and what is
\* shown before a snapshot is what the recovery has delivered.
LEMMA CursorStep ==
  ASSUME MaxSuperseded = 0, TypeInv, TypeInv', StreamInv, RecoveryInv, CursorInv, [Next]_vars
  PROVE  CursorInv'
<1>0. /\ messages \in Seq(Message) /\ client \in Client /\ client' \in Client
      /\ serve \in Engine /\ serve' \in Engine /\ app \in View /\ stored \in Cursor
      /\ Len(serve.log) \in Nat /\ client.cursor \in Nat /\ client.latest \in Nat
  BY Typing DEF TypeInv, TypeOK
<1>a. superseded = {} /\ CallHolds /\ AttachHolds /\ PageHolds
  BY DEF StreamInv, RecoveryInv
<1>b. Agrees(serve, client)
  BY DEF StreamInv, ClientHolds
<1>1. CASE Sending
  <2>1. UNCHANGED <<client, phase, stored, app>>
    BY <1>1, <1>a DEF Sending, ServeLogs, ServeRepeats, ServeExpires, ServeRefuses,
       ServeAuthenticates, ServeStartsSnapshot, ServeAccepts, ServeInitializes, ServeSnapshots,
       ServeReplays, SupersededCloses, clientVars, vars
  <2>2. serve'.stream = serve.stream /\ serve'.features = serve.features
        /\ Len(serve.log) <= Len(serve'.log)
    BY <1>1, <1>a, SentFact
  <2>3. \A n \in 1..Len(serve.log) : serve'.log[n] = serve.log[n]
    <3>1. CASE serve'.log = Append(serve.log, serve.life)
      <4>1. serve.log \in Seq(Nat)
        BY <1>0 DEF Engine, Logs
      <4> QED
        BY <3>1, <4>1
    <3>2. CASE serve'.log = serve.log
      BY <3>2
    <3>3. serve'.log = Append(serve.log, serve.life) \/ serve'.log = serve.log
      <4>1. CASE ServeLogs
        BY <1>0, <4>1 DEF ServeLogs, Engine
      <4>2. CASE ServeExpires
        BY <1>0, <4>2 DEF ServeExpires, Engine
      <4>3. CASE serve' = serve
        BY <4>3
      <4> QED
        BY <1>1, <4>1, <4>2, <4>3 DEF Sending, ServeRepeats, ServeRefuses, ServeAuthenticates,
           ServeStartsSnapshot, ServeAccepts, ServeInitializes, ServeSnapshots, ServeReplays,
           SupersededCloses, serveVars, vars
    <3> QED
      BY <3>1, <3>2, <3>3
  <2>4. StoredHolds'
    BY <2>1 DEF CursorInv, StoredHolds, CursorOf
  <2>5. RecoverySummaryHolds'
    <3> SUFFICES ASSUME phase \in {"listing", "snapshotting"}, client.resumed # NoSequence,
                        ~client.snapshotRequired
                 PROVE  /\ Len(app.tail) = client.cursor - client.resumed
                        /\ \A n \in 1..Len(app.tail) :
                             app.tail[n] = EventAt(serve'.stream, serve'.log, client.resumed + n)
      BY <2>1 DEF RecoverySummaryHolds
    <3>1. /\ Len(app.tail) = client.cursor - client.resumed
          /\ \A n \in 1..Len(app.tail) :
               app.tail[n] = EventAt(serve.stream, serve.log, client.resumed + n)
          /\ client.streamId # NoStream
      BY DEF CursorInv, SummaryHolds, RecoverySummaryHolds
    <3>2. client.resumed \in Nat /\ client.cursor <= Len(serve.log)
      BY <1>0, <1>b, <3>1 DEF Client, Agrees
    <3>3. \A n \in 1..Len(app.tail) : client.resumed + n \in 1..Len(serve.log)
      BY <1>0, <3>1, <3>2
    <3> QED
      BY <2>2, <2>3, <3>1, <3>3 DEF EventAt
  <2>6. Numbered' <=> Numbered
    BY <2>2 DEF Numbered
  <2> QED
    BY <2>1, <2>4, <2>5, <2>6 DEF CursorInv, SummaryHolds
<1>2. CASE ServeRestarts \/ ConnectionLost \/ ListFails \/ ConnectFails
  <2>1. phase' = "offline" /\ client' = FreshClient
    BY <1>2 DEF StreamInv, OfflineHolds, ServeRestarts, ConnectionLost, ListFails, ConnectFails,
       SocketCloses, ConnectGivesUp, Disconnected
  <2> QED
    BY <2>1, OfflineCursor
<1>3. CASE Connect \/ Supersede
  <2>1. phase' = "initializing" /\ client' = FreshClient /\ app' = ClearedApp
    BY <1>3 DEF Connect, Supersede, Open
  <2>2. FreshClient.resumed = NoSequence /\ ClearedApp.tail = <<>>
    BY DEF FreshClient, ClearedApp
  <2> QED
    BY <2>1, <2>2 DEF CursorInv, StoredHolds, SummaryHolds, RecoverySummaryHolds
<1>4. CASE ListAnswered
  <2>1. phase = "listing" /\ phase' \in {"snapshotting", "ready"}
        /\ UNCHANGED <<serve, stored, app>>
        /\ client' \in {client, [client EXCEPT !.recovering = TRUE]}
    BY <1>4 DEF ListAnswered, serveVars
  <2>2. client'.cursor = client.cursor /\ client'.streamId = client.streamId
        /\ client'.resumed = client.resumed
        /\ client'.snapshotRequired = client.snapshotRequired
    BY <1>0, <2>1 DEF Client
  <2> QED
    BY <2>1, <2>2 DEF CursorInv, StoredHolds, SummaryHolds, RecoverySummaryHolds, CursorOf
<1>5. CASE ReceiveUnnumbered \/ BufferEarly \/ DropEvent \/ HoldEvent \/ DeliverEvent
  <2>1. Receive("event") /\ UNCHANGED <<serve, phase>>
    BY <1>5, EventReceived DEF serveVars
  <2>2. client'.streamId = client.streamId /\ client'.resumed = client.resumed
        /\ client'.snapshotRequired = client.snapshotRequired /\ incoming \in Event
    BY <1>5, EventFact
  <2>3. (Numbered' <=> Numbered) /\ phase # "offline"
    BY <2>1 DEF Numbered, StreamInv, OfflineHolds, Receive
  <2>4. CASE /\ client.streamId = NoStream /\ ~Numbered
             /\ stored' = stored
    <3>1. client.resumed = NoSequence /\ phase # "replaying"
      BY <2>4 DEF CursorInv, SummaryHolds, TypeInv, ReplayHolds
    <3> QED
      BY <2>1, <2>2, <2>3, <2>4, <3>1 DEF CursorInv, StoredHolds, SummaryHolds,
         RecoverySummaryHolds
  <2>5. CASE /\ client.streamId = NoStream
             /\ stored' = stored /\ app' = app
    <3>1. client.resumed = NoSequence /\ phase # "replaying"
      BY <2>5 DEF CursorInv, SummaryHolds, TypeInv, ReplayHolds
    <3> QED
      BY <2>1, <2>2, <2>3, <2>5, <3>1 DEF CursorInv, StoredHolds, SummaryHolds,
         RecoverySummaryHolds
  <2>6. CASE client'.cursor = client.cursor /\ stored' = stored /\ app' = app
    BY <2>1, <2>2, <2>3, <2>6 DEF CursorInv, StoredHolds, SummaryHolds, RecoverySummaryHolds,
       CursorOf
  <2>7. CASE /\ client.streamId # NoStream /\ ~client.recovering /\ Genuine(serve, incoming)
             /\ \E k \in Nat : Finish(WithFrame(incoming), k, app, stored)
    <3> DEFINE c == WithFrame(incoming)
    <3>1. PICK k \in Nat : Finish(c, k, app, stored)
      BY <2>7
    <3>2. /\ c.frames = {f \in client.frames : f.seq # incoming.seq} \cup {incoming}
          /\ c.cursor = client.cursor /\ c.streamId = client.streamId /\ c \in Client
      BY <1>0, <2>2, WithFrameFact
    <3>3. phase \in {"listing", "ready"}
      BY <1>a, <2>3, <2>7 DEF PageHolds, TypeInv, TypeOK, Phases
    <3>4. IsRun(c, k) /\ client' = Drained(c, k) /\ app' = Applied(app, Run(c, k))
          /\ stored' = StoredAfter(c, k, stored)
      BY <3>1 DEF Finish
    <3> HIDE DEF c
    <3>5. stored = CursorOf(c)
      BY <2>7, <3>2, <3>3 DEF CursorInv, StoredHolds, CursorOf
    <3>6. stored' = CursorOf(client')
      BY <3>2, <3>4, <3>5, StoredDrained
    <3>7. \A f \in c.frames : Genuine(serve, f)
      BY <1>b, <2>7, <3>2 DEF Agrees
    <3>8. ASSUME phase = "listing", client.resumed # NoSequence, ~client.snapshotRequired
          PROVE  /\ Len(app'.tail) = client'.cursor - client.resumed
                 /\ Stretch(serve, client.resumed, app'.tail)
      <4> DEFINE from == client.resumed
      <4>1. Len(app.tail) = client.cursor - from /\ Stretch(serve, from, app.tail)
            /\ from \in Nat
        BY <1>0, <3>8 DEF CursorInv, SummaryHolds, RecoverySummaryHolds, Client, Stretch
      <4>2. client'.cursor = c.cursor + k
        BY <3>2, <3>4, DrainFact
      <4>3. Len(app.tail) \in Nat
        <5>1. app.tail \in Seq(Event)
          BY <1>0 DEF View
        <5> QED
          BY <5>1
      <4> HIDE DEF from
      <4>4. c.cursor = from + Len(app.tail)
        BY <1>0, <3>2, <4>1, <4>3
      <4>5. Len(app'.tail) = Len(app.tail) + k /\ Stretch(serve, from, app'.tail)
        <5>1. serve \in Engine /\ c \in Client /\ k \in Nat /\ app \in View /\ IsRun(c, k)
              /\ app' = Applied(app, Run(c, k))
          BY <1>0, <3>2, <3>4
        <5> QED
          BY <3>7, <4>1, <4>4, <5>1, ShownRun
      <4>6. Len(app'.tail) = client'.cursor - from
        <5>1. client'.cursor = from + Len(app.tail) + k
          BY <4>2, <4>4
        <5> QED
          BY <4>1, <4>3, <4>5, <5>1
      <4> QED
        BY <4>5, <4>6 DEF from
    <3>9. RecoverySummaryHolds'
      BY <2>1, <2>2, <3>3, <3>8 DEF RecoverySummaryHolds, Stretch
    <3> QED
      BY <2>1, <2>2, <3>3, <3>6, <3>9, <2>7 DEF CursorInv, StoredHolds, SummaryHolds
  <2>8. CASE client' = WithFrame(incoming) /\ stored' = stored /\ app' = app
    <3>1. client'.cursor = client.cursor
      BY <1>0, <2>2, <2>8, WithFrameFact
    <3> QED
      BY <2>6, <2>8, <3>1
  <2> QED
    BY <1>5, <2>4, <2>5, <2>6, <2>7, <2>8, EventFact
<1>6. CASE JoinUnnumbered
  <2>1. phase = "initializing" /\ phase' = "listing"
    BY <1>6 DEF JoinUnnumbered, Respond
  <2>2. client'.streamId = client.streamId /\ client'.resumed = client.resumed
    BY <1>0, <1>6 DEF JoinUnnumbered, Client
  <2>3. client.streamId = NoStream /\ client.resumed = NoSequence
    BY <1>a, <2>1 DEF AttachHolds, CursorInv, SummaryHolds
  <2> QED
    BY <2>1, <2>2, <2>3 DEF CursorInv, StoredHolds, SummaryHolds, RecoverySummaryHolds
<1>7. CASE JoinAndReplay
  <2> DEFINE m == Head(messages)
             j == Joined(m)
  <2>1. /\ Receive("initialized") /\ UNCHANGED <<serveVars, stored, app>>
        /\ phase = "initializing" /\ phase' = "replaying"
        /\ m.stream # NoStream /\ Resumable(m)
        /\ client' = [j EXCEPT !.cursor = stored.sequence, !.after = stored.sequence]
    BY <1>7 DEF JoinAndReplay, Respond
  <2>2. j \in Client /\ Numbered /\ j.streamId = m.stream
        /\ j.resumed = (IF Resumable(m) THEN stored.sequence ELSE NoSequence)
    BY <2>1, JoinFact
  <2>3. stored.stream = m.stream
    BY <2>1 DEF Resumable
  <2> HIDE DEF m, j
  <2>4. client'.cursor = stored.sequence /\ client'.streamId = m.stream
        /\ client'.resumed = stored.sequence
    BY <2>1, <2>2 DEF Client
  <2>5. stored = [stream |-> stored.stream, sequence |-> stored.sequence]
    BY <1>0 DEF Cursor, NoCursor
  <2>6. stored' = CursorOf(client')
    BY <2>1, <2>3, <2>4, <2>5 DEF CursorOf
  <2>7. app.tail = <<>>
    BY <2>1, <2>2 DEF CursorInv, SummaryHolds
  <2> QED
    BY <2>1, <2>4, <2>6, <2>7 DEF CursorInv, StoredHolds, SummaryHolds, RecoverySummaryHolds
<1>8. CASE JoinAtCurrent
  <2> DEFINE m == Head(messages)
             c == [Joined(m) EXCEPT !.cursor = m.current,
                     !.snapshotRequired = stored # NoCursor
                       /\ stored # [stream |-> m.stream, sequence |-> m.current]]
  <2>1. /\ Receive("initialized") /\ UNCHANGED serveVars /\ m.stream # NoStream
        /\ phase = "initializing" /\ FinishRecovery(c)
    BY <1>8 DEF JoinAtCurrent, Respond
  <2>2. /\ c \in Client /\ c.cursor = m.current /\ Numbered /\ m.current \in Nat
        /\ c.frames = client.frames /\ c.streamId = m.stream
        /\ c.resumed = (IF Resumable(m) THEN stored.sequence ELSE NoSequence)
        /\ ~c.snapshotRequired =>
             stored = NoCursor \/ stored = [stream |-> m.stream, sequence |-> m.current]
    BY <2>1, JoinFact DEF Client
  <2>3. c.resumed # NoSequence /\ ~c.snapshotRequired => c.resumed = c.cursor
    <3>1. Resumable(m) => stored.stream # NoStream
      BY <2>1 DEF Resumable
    <3>2. NoCursor.stream = NoStream
      BY DEF NoCursor
    <3> QED
      BY <2>2, <3>1, <3>2
  <2>4. app.tail = <<>>
    BY <2>1, <2>2 DEF CursorInv, SummaryHolds
  <2> HIDE DEF m, c
  <2>5. PICK k \in Nat :
          /\ IsRun(Recovered(c), k) /\ app' = Applied(app, Run(Recovered(c), k))
          /\ client'.cursor = c.cursor + k
          /\ client'.streamId = c.streamId /\ client'.resumed = c.resumed
          /\ client'.snapshotRequired = c.snapshotRequired
          /\ stored' = CursorOf(client')
          /\ phase' = "listing"
    BY <2>1, <2>2, RecoveryFact
  <2>6. /\ Recovered(c) \in Client /\ Recovered(c).cursor = c.cursor
        /\ \A f \in Recovered(c).frames : Genuine(serve, f)
    BY <1>b, <2>2, RecoveredType DEF Recovered, Client, Agrees
  <2>7. RecoverySummaryHolds'
    <3> SUFFICES ASSUME c.resumed # NoSequence, ~c.snapshotRequired
                 PROVE  /\ Len(app'.tail) = client'.cursor - c.resumed
                        /\ \A n \in 1..Len(app'.tail) :
                             app'.tail[n] = EventAt(serve.stream, serve.log, c.resumed + n)
      BY <2>1, <2>5 DEF RecoverySummaryHolds, serveVars
    <3>1. c.resumed = c.cursor
      BY <2>3
    <3>2. Len(app'.tail) = k /\ Stretch(serve, Recovered(c).cursor, app'.tail)
      BY <1>0, <2>4, <2>5, <2>6, ShownFromNothing
    <3>3. Len(app'.tail) = client'.cursor - c.resumed
      BY <2>2, <2>5, <3>1, <3>2
    <3> QED
      BY <2>6, <3>1, <3>2, <3>3 DEF Stretch
  <2>8. client'.streamId # NoStream
    BY <2>1, <2>2, <2>5
  <2> QED
    BY <2>5, <2>7, <2>8 DEF CursorInv, StoredHolds, SummaryHolds
<1>9. CASE ReplayEnds \/ ReplayFails
  <2>1. /\ phase = "replaying" /\ client.streamId # NoStream /\ serve' = serve
        /\ app.tail = <<>> /\ client.resumed = client.cursor
    BY <1>9 DEF ReplayEnds, ReplayFails, Respond, TypeInv, ReplayHolds, CursorInv, SummaryHolds,
       serveVars
  <2>2. \E c \in Client :
          /\ FinishRecovery(c) /\ c.streamId = client.streamId
          /\ c.snapshotRequired \/ c = client
    <3>1. ASSUME NEW n \in Nat, FinishRecovery(Abandoned(client, n))
          PROVE  \E c \in Client :
                   /\ FinishRecovery(c) /\ c.streamId = client.streamId
                   /\ c.snapshotRequired \/ c = client
      <4> DEFINE a == Abandoned(client, n)
      <4>1. a \in Client /\ a.streamId = client.streamId /\ a.snapshotRequired
        BY <1>0, RecoveredType DEF Abandoned, Client
      <4> HIDE DEF a
      <4> QED
        BY <3>1, <4>1 DEF a
    <3>2. CASE ReplayEnds
      <4> DEFINE m == Head(messages)
      <4>1. Receive("page") /\ FinishRecovery(IF ~m.snapshotRequired /\ ~m.hasMore
                                                THEN client ELSE Abandoned(client, m.current))
        BY <3>2 DEF ReplayEnds, Respond
      <4>2. m \in Message /\ m.type = "page"
        BY <1>0, <4>1, TailFact DEF Receive
      <4>3. m.current \in Nat
        BY <4>2 DEF Message
      <4> HIDE DEF m
      <4> QED
        BY <1>0, <3>1, <4>1, <4>3
    <3>3. CASE ReplayFails
      BY <1>0, <3>1, <3>3 DEF ReplayFails
    <3> QED
      BY <1>9, <3>2, <3>3
  <2>3. PICK c \in Client :
          /\ FinishRecovery(c) /\ c.streamId = client.streamId
          /\ c.snapshotRequired \/ c = client
    BY <2>2
  <2>4. PICK k \in Nat :
          /\ IsRun(Recovered(c), k) /\ app' = Applied(app, Run(Recovered(c), k))
          /\ client'.cursor = c.cursor + k
          /\ client'.streamId = c.streamId /\ client'.resumed = c.resumed
          /\ client'.snapshotRequired = c.snapshotRequired
          /\ stored' = CursorOf(client')
          /\ phase' = "listing"
    BY <2>3, RecoveryFact
  <2>5. RecoverySummaryHolds'
    <3>1. CASE c.snapshotRequired
      BY <2>4, <3>1 DEF RecoverySummaryHolds
    <3>2. CASE c = client
      <4>1. /\ Recovered(c) \in Client /\ Recovered(c).cursor = c.cursor
            /\ \A f \in Recovered(c).frames : Genuine(serve, f)
        BY <1>b, <3>2, RecoveredType DEF Recovered, Client, Agrees
      <4>2. Len(app'.tail) = k /\ Stretch(serve, Recovered(c).cursor, app'.tail)
        BY <1>0, <2>1, <2>4, <4>1, ShownFromNothing
      <4>3. Len(app'.tail) = client'.cursor - client'.resumed /\ client'.resumed = c.cursor
        BY <1>0, <2>1, <2>4, <3>2, <4>2
      <4> QED
        BY <2>1, <4>1, <4>2, <4>3 DEF RecoverySummaryHolds, Stretch
    <3> QED
      BY <2>3, <3>1, <3>2
  <2> QED
    BY <2>1, <2>3, <2>4, <2>5 DEF CursorInv, StoredHolds, SummaryHolds
<1>10. CASE ReplayGoesOn
  <2>1. /\ phase = "replaying" /\ phase' = phase /\ UNCHANGED <<serve, stored, app>>
        /\ client' = [client EXCEPT !.after = Head(messages).through, !.page = @ + 1,
                                    !.latest = Later(Head(messages), @)]
    BY <1>10 DEF ReplayGoesOn, Respond, serveVars
  <2>2. client'.cursor = client.cursor /\ client'.streamId = client.streamId
        /\ client'.resumed = client.resumed
    BY <1>0, <2>1 DEF Client
  <2> QED
    BY <2>1, <2>2 DEF CursorInv, StoredHolds, SummaryHolds, RecoverySummaryHolds, CursorOf
<1>11. CASE ApplySnapshot
  <2> DEFINE m == Head(messages)
             c == SnapshotApplied(m)
             a == [stream |-> m.stream, base |-> m.log, tail |-> <<>>, synced |-> TRUE]
  <2>1. Receive("snapshot") /\ phase' = "ready" /\ UNCHANGED serveVars /\ SnapshotFits(m)
    BY <1>11 DEF ApplySnapshot, Respond
  <2>2. PICK k \in 0..MaxLog : Finish(c, k, a, CursorOf(c))
    BY <1>11 DEF ApplySnapshot
  <2>3. k \in Nat /\ c \in Client
    BY <2>1, SnapshotHolds, BoundsAssumption
  <2>4. c.streamId = client.streamId /\ c.resumed = client.resumed
    BY <1>0 DEF SnapshotApplied, Client
  <2>5. client' = Drained(c, k) /\ stored' = StoredAfter(c, k, CursorOf(c))
    BY <2>2 DEF Finish
  <2>6. stored' = CursorOf(client')
    BY <2>3, <2>5, StoredDrained
  <2>7. client'.streamId = client.streamId /\ client'.resumed = client.resumed
    BY <2>3, <2>4, <2>5, DrainFact
  <2> QED
    BY <2>1, <2>6, <2>7 DEF CursorInv, StoredHolds, SummaryHolds, RecoverySummaryHolds
<1> QED
  BY <1>1, <1>2, <1>3, <1>4, <1>5, <1>6, <1>7, <1>8, <1>9, <1>10, <1>11 DEF Next, Sending

\* What holds of a renderer that ends one connection before it opens the next.
FeedInv == TypeInv /\ StreamInv /\ RecoveryInv /\ CursorInv

\* It holds in every reachable state.
LEMMA FeedCorrect ==
  ASSUME MaxSuperseded = 0
  PROVE  Spec => []FeedInv
<1>1. Init => FeedInv
  BY TypeInit, StreamInit, RecoveryInit, CursorInit DEF FeedInv
<1>2. FeedInv /\ [Next]_vars => FeedInv'
  BY TypeStep, StreamStep, RecoveryStep, CursorStep DEF FeedInv
<1> QED
  BY <1>1, <1>2, PTL DEF Spec

\* A recovery that does not ask for a snapshot has delivered exactly the events after
\* the stored cursor, in order and once, on every connection that opens after the one
\* before it has closed (the EventRecoverySummary recoverEventStream returns).
THEOREM SummaryIsTrue ==
  ASSUME MaxSuperseded = 0
  PROVE  Spec => []RecoverySummaryHolds
<1>1. FeedInv => RecoverySummaryHolds
  BY DEF FeedInv, CursorInv, SummaryHolds
<1> QED
  BY <1>1, FeedCorrect, PTL

\* What the rejection of the pending call stores is not behind the client's cursor.
LEMMA RejectionAdvances ==
  ASSUME FeedInv, NEW k \in Nat, PendingRejected(k)
  PROVE  stored' = stored \/ stored'.sequence >= stored.sequence
<1> DEFINE c == AfterRejection(client, phase)
<1>0. /\ client \in Client /\ client.cursor \in Nat /\ client.latest \in Nat
      /\ c \in Client /\ c.streamId = client.streamId
  BY Typing, AfterRejectionType DEF FeedInv
<1>1. Released(client, phase, k)
      /\ stored' = StoredAfter(c, k, StoredAtRejection(client, phase, stored))
  BY DEF PendingRejected
<1>2. CASE phase = "replaying"
  <2>1. stored.sequence = client.cursor /\ client.cursor <= client.latest
    BY <1>2 DEF FeedInv, TypeInv, ReplayHolds, CursorInv, StoredHolds, CursorOf, RecoveryInv,
       PageHolds
  <2>2. c.cursor = client.latest
    BY <1>0, <1>2 DEF AfterRejection, Recovered, Abandoned, Client
  <2>3. StoredAtRejection(client, phase, stored) = CursorOf(c)
    BY <1>2 DEF StoredAtRejection
  <2> HIDE DEF c
  <2>4. stored' = CursorOf(Drained(c, k)) /\ Drained(c, k).cursor = c.cursor + k
    BY <1>0, <1>1, <2>3, StoredDrained, DrainFact
  <2> QED
    BY <1>0, <2>1, <2>2, <2>4 DEF CursorOf
<1>3. CASE phase = "snapshotting"
  <2>1. c.cursor = client.cursor /\ StoredAtRejection(client, phase, stored) = stored
    BY <1>0, <1>3 DEF AfterRejection, Client, StoredAtRejection
  <2>2. IsRun(c, k)
    BY <1>1, <1>3 DEF Released
  <2> HIDE DEF c
  <2>3. CASE k = 0
    BY <1>1, <2>1, <2>3 DEF StoredAfter
  <2>4. CASE k # 0
    <3>1. client.streamId # NoStream
      BY <1>0, <2>2, <2>4, RunFact
    <3>2. stored.sequence = client.cursor
      BY <1>3, <3>1 DEF FeedInv, CursorInv, StoredHolds, CursorOf
    <3>3. stored' = CursorOf(Drained(c, k)) /\ Drained(c, k).cursor = c.cursor + k
      BY <1>0, <1>1, <2>4, DrainFact DEF StoredAfter
    <3> QED
      BY <1>0, <2>1, <3>2, <3>3 DEF CursorOf
  <2> QED
    BY <2>3, <2>4
<1>4. CASE phase \notin {"replaying", "snapshotting"}
  <2>1. k = 0 /\ StoredAtRejection(client, phase, stored) = stored
    BY <1>1, <1>4 DEF Released, StoredAtRejection
  <2> QED
    BY <1>1, <2>1 DEF StoredAfter
<1> QED
  BY <1>2, <1>3, <1>4

\* Behind the end of a recovery the cursor is where it ends, or further on.
LEMMA RecoveryAdvances ==
  ASSUME FeedInv, NEW c \in Client, FinishRecovery(c), phase = "replaying",
         client.cursor <= c.cursor
  PROVE  stored'.sequence >= stored.sequence
<1>1. client.cursor \in Nat /\ c.cursor \in Nat
  BY Typing DEF FeedInv, Client
<1>2. stored.sequence = client.cursor
  BY DEF FeedInv, TypeInv, ReplayHolds, CursorInv, StoredHolds, CursorOf
<1>3. PICK k \in Nat : client'.cursor = c.cursor + k /\ stored' = CursorOf(client')
  BY RecoveryFact
<1> QED
  BY <1>1, <1>2, <1>3 DEF CursorOf

\* Only initialize may store an older cursor of the same stream.
LEMMA StoredStep ==
  ASSUME MaxSuperseded = 0, FeedInv, [Next]_vars,
         stored'.stream = stored.stream, stored'.sequence < stored.sequence
  PROVE  phase = "initializing" /\ phase' # "offline"
<1>0. /\ messages \in Seq(Message) /\ client \in Client /\ stored \in Cursor
      /\ client.cursor \in Nat /\ client.latest \in Nat /\ TypeInv /\ StreamInv
      /\ stored.sequence \in Int
  BY Typing DEF FeedInv, TypeInv, TypeOK, Cursor, NoCursor, NoSequence
<1>a. stored' # stored /\ ~(stored'.sequence >= stored.sequence)
  <2>1. stored' # stored
    BY <1>0
  <2>2. CASE stored'.sequence >= stored.sequence
    <3>1. stored'.sequence \in Int
      <4>1. stored' \in Cursor
        BY <1>0, TypeStep DEF TypeInv, TypeOK
      <4> QED
        BY <4>1 DEF Cursor, NoCursor, NoSequence
    <3> QED
      BY <1>0, <2>2, <3>1
  <2> QED
    BY <2>1, <2>2
<1>1. CASE Sending
  BY <1>1, <1>a DEF FeedInv, StreamInv, Sending, ServeLogs, ServeRepeats, ServeExpires,
     ServeRefuses, ServeAuthenticates, ServeStartsSnapshot, ServeAccepts, ServeInitializes,
     ServeSnapshots, ServeReplays, SupersededCloses, clientVars, vars
<1>2. CASE ServeRestarts \/ ConnectionLost \/ ListFails \/ ConnectFails
  <2>1. stored' = stored \/ \E k \in 0..MaxLog : PendingRejected(k)
    BY <1>2 DEF ServeRestarts, ConnectionLost, ListFails, ConnectFails, SocketCloses,
       ConnectGivesUp
  <2>2. 0..MaxLog \subseteq Nat
    BY BoundsAssumption
  <2> QED
    BY <1>a, <2>1, <2>2, RejectionAdvances
<1>3. CASE Connect \/ Supersede
  BY <1>3, <1>a DEF Connect, Supersede, Open
<1>4. CASE ListAnswered
  BY <1>4, <1>a DEF ListAnswered
<1>5. CASE ReceiveUnnumbered \/ BufferEarly \/ DropEvent \/ HoldEvent \/ DeliverEvent
  <2>1. Receive("event") /\ incoming \in Event /\ phase # "offline"
    BY <1>0, <1>5, EventReceived, EventFact DEF StreamInv, OfflineHolds, Receive
  <2>2. /\ client.streamId # NoStream /\ ~client.recovering
        /\ \E k \in Nat : Finish(WithFrame(incoming), k, app, stored)
    BY <1>0, <1>5, <1>a, EventFact
  <2> DEFINE c == WithFrame(incoming)
  <2>3. PICK k \in Nat : Finish(c, k, app, stored)
    BY <2>2
  <2>4. c \in Client /\ c.cursor = client.cursor
    BY <1>0, <2>1, WithFrameFact
  <2> HIDE DEF c
  <2>5. phase # "initializing"
    BY <2>2 DEF FeedInv, RecoveryInv, PageHolds
  <2>6. stored.sequence = client.cursor
    BY <2>1, <2>2, <2>5 DEF FeedInv, CursorInv, StoredHolds, CursorOf
  <2>7. stored' = stored \/ stored' = CursorOf(Drained(c, k))
    BY <2>3 DEF Finish, StoredAfter
  <2>8. Drained(c, k).cursor = client.cursor + k
    BY <2>4, DrainFact
  <2> QED
    BY <1>0, <1>a, <2>6, <2>7, <2>8 DEF CursorOf
<1>6. CASE JoinUnnumbered \/ JoinAndReplay
  BY <1>6, <1>a DEF JoinUnnumbered, JoinAndReplay
<1>7. CASE JoinAtCurrent
  BY <1>7 DEF JoinAtCurrent, Respond, FinishRecovery
<1>8. CASE ReplayEnds
  <2> DEFINE m == Head(messages)
  <2>1. Receive("page") /\ phase = "replaying"
        /\ FinishRecovery(IF ~m.snapshotRequired /\ ~m.hasMore
                            THEN client ELSE Abandoned(client, m.current))
    BY <1>8 DEF ReplayEnds, Respond
  <2>2. m = messages[1] /\ 1 \in 1..Len(messages) /\ m.type = "page" /\ m \in Message
    BY <1>0, <2>1, TailFact DEF Receive
  <2>3. m.current \in Nat /\ client.cursor <= m.current
    BY <2>1, <2>2 DEF Message, FeedInv, RecoveryInv, PageHolds
  <2> HIDE DEF m
  <2>4. Abandoned(client, m.current) \in Client
        /\ Abandoned(client, m.current).cursor = m.current
    BY <1>0, <2>3, RecoveredType DEF Abandoned, Client
  <2> QED
    BY <1>0, <1>a, <2>1, <2>3, <2>4, RecoveryAdvances
<1>9. CASE ReplayFails
  <2>1. phase = "replaying" /\ FinishRecovery(Abandoned(client, client.latest))
    BY <1>9 DEF ReplayFails, Respond
  <2>2. Abandoned(client, client.latest) \in Client
        /\ Abandoned(client, client.latest).cursor = client.latest
    BY <1>0, RecoveredType DEF Abandoned, Client
  <2>3. client.cursor <= client.latest
    BY <2>1 DEF FeedInv, RecoveryInv, PageHolds
  <2> QED
    BY <1>a, <2>1, <2>2, <2>3, RecoveryAdvances
<1>10. CASE ReplayGoesOn
  BY <1>10, <1>a DEF ReplayGoesOn
<1>11. CASE ApplySnapshot
  <2> DEFINE m == Head(messages)
             c == SnapshotApplied(m)
  <2>1. Receive("snapshot") /\ phase = "snapshotting" /\ UNCHANGED serveVars /\ SnapshotFits(m)
    BY <1>11 DEF ApplySnapshot, Respond
  <2>2. PICK k \in 0..MaxLog : stored' = StoredAfter(c, k, CursorOf(c))
    BY <1>11 DEF ApplySnapshot, Finish
  <2>3. k \in Nat /\ c \in Client /\ c.streamId # NoStream
    BY <1>0, <2>1, SnapshotHolds, BoundsAssumption
  <2>4. c.cursor = Len(m.log) /\ Len(m.log) >= client.cursor /\ c.streamId = client.streamId
    BY <1>0, <2>1 DEF SnapshotApplied, Client, SnapshotFits
  <2>5. Len(m.log) \in Nat
    BY <2>3, <2>4 DEF Client
  <2>6. stored.sequence = client.cursor
    BY <2>1, <2>3, <2>4 DEF FeedInv, CursorInv, StoredHolds, CursorOf
  <2> HIDE DEF m, c
  <2>7. stored' = CursorOf(Drained(c, k)) /\ Drained(c, k).cursor = c.cursor + k
    BY <2>2, <2>3, StoredDrained, DrainFact
  <2>8. stored'.sequence = c.cursor + k
    BY <2>7 DEF CursorOf
  <2> QED
    BY <1>0, <1>a, <2>3, <2>4, <2>5, <2>6, <2>8
<1> QED
  BY <1>1, <1>2, <1>3, <1>4, <1>5, <1>6, <1>7, <1>8, <1>9, <1>10, <1>11 DEF Next, Sending

\* The cursor in localStorage moves back only when initialize finds it ahead of its own
\* stream; no disconnection, refusal, replay or snapshot stores an older one, as long as
\* a connection closes before the next one opens.
THEOREM StoredAdvances ==
  ASSUME MaxSuperseded = 0
  PROVE  Spec => StoredOnlyAdvances
<1>1. FeedInv /\ [Next]_vars =>
        [ stored'.stream = stored.stream /\ stored'.sequence < stored.sequence
            => phase = "initializing" /\ phase' # "offline" ]_vars
  BY StoredStep
<1> QED
  BY <1>1, FeedCorrect, PTL DEF Spec, StoredOnlyAdvances

--------------------------------------------------------------------------------
(* The renderer implements OrderedFeed *)

\* A new Engine life costs a fault, and faults are bounded.
LifeHolds == serve.life <= faults + 1 /\ faults <= MaxFaults

\* The next Engine is another life with a part of the log.
LEMMA NextEngineFact ==
  ASSUME serve \in Engine, NextEngine
  PROVE  /\ serve'.life = serve.life + 1
         /\ \E n \in 0..Len(serve.log) : serve'.log = SubSeq(serve.log, 1, n)
<1>1. PICK features \in FeatureSets :
        \/ serve' = [life |-> serve.life + 1, stream |-> serve.life + 1, log |-> <<>>,
                     first |-> 1, features |-> features]
        \/ \E durable \in 0 .. Len(serve.log) :
             serve' = [serve EXCEPT !.life = @ + 1, !.features = features,
                                    !.log = SubSeq(@, 1, durable), !.first = 1]
  BY DEF NextEngine
<1>2. serve.log \in Seq(Nat) /\ Len(serve.log) \in Nat
  BY DEF Engine, Logs
<1>3. CASE serve' = [life |-> serve.life + 1, stream |-> serve.life + 1, log |-> <<>>,
                     first |-> 1, features |-> features]
  <2>1. serve'.life = serve.life + 1 /\ serve'.log = <<>>
    BY <1>3
  <2>2. <<>> = SubSeq(serve.log, 1, 0) /\ 0 \in 0..Len(serve.log)
    BY <1>2
  <2> QED
    BY <2>1, <2>2
<1>4. ASSUME NEW durable \in 0 .. Len(serve.log),
             serve' = [serve EXCEPT !.life = @ + 1, !.features = features,
                                    !.log = SubSeq(@, 1, durable), !.first = 1]
      PROVE  serve'.life = serve.life + 1 /\ serve'.log = SubSeq(serve.log, 1, durable)
  BY <1>4 DEF Engine
<1> QED
  BY <1>1, <1>3, <1>4

\* The first Engine is the first life.
LEMMA LifeInit == TypeInv /\ Init => LifeHolds
BY BoundsAssumption DEF Init, LifeHolds

\* Only a restart opens another life, and it is a fault.
LEMMA LifeStep ==
  ASSUME TypeInv, LifeHolds, [Next]_vars
  PROVE  LifeHolds'
<1>0. faults \in Nat /\ serve.life \in Nat /\ MaxFaults \in Nat /\ serve \in Engine
  BY BoundsAssumption DEF TypeInv, TypeOK, Engine
<1>1. CASE serve'.life = serve.life /\ faults' = faults
  BY <1>1 DEF LifeHolds
<1>2. CASE serve'.life = serve.life /\ faults < MaxFaults /\ faults' = faults + 1
  BY <1>0, <1>2 DEF LifeHolds
<1>3. CASE ServeRestarts
  <2>1. serve'.life = serve.life + 1 /\ faults < MaxFaults /\ faults' = faults + 1
    BY <1>0, <1>3, NextEngineFact DEF ServeRestarts
  <2> QED
    BY <1>0, <2>1 DEF LifeHolds
<1>4. CASE ServeLogs \/ ServeExpires
  <2>1. serve'.life = serve.life /\ faults' = faults
    BY <1>0, <1>4 DEF ServeLogs, ServeExpires, Engine
  <2> QED
    BY <1>1, <2>1
<1>5. CASE ServeRepeats \/ ServeRefuses \/ Supersede \/ ConnectionLost \/ ListFails
  <2>1. serve' = serve /\ faults < MaxFaults /\ faults' = faults + 1
    BY <1>5 DEF ServeRepeats, ServeRefuses, Supersede, Open, ConnectionLost, ListFails
  <2> QED
    BY <1>2, <2>1
<1>6. CASE ServeAuthenticates \/ ServeInitializes \/ ServeReplays \/ ServeStartsSnapshot
             \/ ServeSnapshots \/ Connect \/ SupersededCloses \/ ListAnswered
             \/ ReceiveUnnumbered \/ BufferEarly \/ DropEvent \/ HoldEvent \/ DeliverEvent
  <2>1. serve' = serve /\ faults' = faults
    BY <1>6 DEF ServeAuthenticates, ServeStartsSnapshot, ServeAccepts, ServeInitializes,
       ServeReplays, ServeSnapshots, Connect, Open, SupersededCloses, ListAnswered,
       ReceiveUnnumbered, BufferEarly, DropEvent, HoldEvent, DeliverEvent, serveVars, clientVars
  <2> QED
    BY <1>1, <2>1
<1>7. CASE JoinUnnumbered \/ JoinAndReplay \/ JoinAtCurrent \/ ReplayEnds \/ ReplayGoesOn
             \/ ReplayFails \/ ApplySnapshot \/ ConnectFails
  <2>1. serve' = serve /\ faults' = faults
    BY <1>7 DEF JoinUnnumbered, JoinAndReplay, JoinAtCurrent, ReplayEnds, ReplayGoesOn,
       ReplayFails, ApplySnapshot, ConnectFails, serveVars
  <2> QED
    BY <1>1, <2>1
<1>8. CASE UNCHANGED vars
  BY <1>1, <1>8 DEF vars, serveVars
<1> QED
  BY <1>3, <1>4, <1>5, <1>6, <1>7, <1>8 DEF Next

\* A sequence that agrees with a longer one is its prefix.
LEMMA PrefixFact ==
  ASSUME NEW log \in Seq(Nat), NEW base \in Seq(Nat), NEW ids \in Seq(Nat),
         NEW size \in Nat, size = Len(base) + Len(ids), size <= Len(log),
         \A n \in 1..Len(base) : base[n] = log[n],
         \A n \in 1..Len(ids) : ids[n] = log[Len(base) + n]
  PROVE  base \o ids = SubSeq(log, 1, size)
<1> DEFINE s == base \o ids
           t == SubSeq(log, 1, size)
<1>1. Len(base) \in Nat /\ Len(ids) \in Nat /\ Len(log) \in Nat
  OBVIOUS
<1>2. t \in Seq(Nat) /\ Len(t) = size /\ \A n \in 1..size : t[n] = log[n]
  BY <1>1
<1>3. s \in Seq(Nat)
  BY ConcatProperties
<1>4. Len(s) = size
  BY ConcatProperties
<1>5. ASSUME NEW n \in 1..size
      PROVE  s[n] = IF n <= Len(base) THEN base[n] ELSE ids[n - Len(base)]
  BY ConcatProperties
<1> HIDE DEF s, t
<1>6. ASSUME NEW n \in 1..Len(s)
      PROVE  s[n] = t[n]
  <2>1. CASE n <= Len(base)
    <3>1. n \in 1..Len(base)
      BY <1>1, <2>1
    <3> QED
      BY <1>2, <1>4, <1>5, <2>1, <3>1
  <2>2. CASE ~(n <= Len(base))
    <3>1. PICK i \in 1..Len(ids) : n = Len(base) + i
      <4>1. n - Len(base) \in 1..Len(ids) /\ n = Len(base) + (n - Len(base))
        BY <1>1, <1>4, <2>2
      <4> QED
        BY <4>1
    <3>2. n - Len(base) = i
      BY <1>1, <3>1
    <3>3. s[n] = ids[i] /\ ids[i] = log[n]
      BY <1>4, <1>5, <2>2, <3>1, <3>2
    <3> QED
      BY <1>2, <1>4, <3>3
  <2> QED
    BY <2>1, <2>2
<1>7. s = t
  BY <1>2, <1>3, <1>4, <1>6, SeqEqual
<1> QED
  BY <1>7 DEF s, t

\* A view that shows a log up to a cursor shows exactly that prefix of it.
LEMMA ShownPrefix ==
  ASSUME NEW s \in Engine, NEW c \in Client, NEW a \in View, Shows(s, c, a)
  PROVE  /\ c.cursor \in 0..Len(s.log)
         /\ a.base \o [n \in 1..Len(a.tail) |-> a.tail[n].id] = SubSeq(s.log, 1, c.cursor)
<1> DEFINE ids == [n \in 1..Len(a.tail) |-> a.tail[n].id]
<1>1. a.base \in Seq(Nat) /\ s.log \in Seq(Nat) /\ a.tail \in Seq(Event)
      /\ Len(a.tail) \in Nat /\ c.cursor \in Nat /\ Len(s.log) \in Nat
  BY DEF View, Engine, Logs, Client
<1>2. ids \in Seq(Nat) /\ Len(ids) = Len(a.tail)
  <2>1. \A n \in 1..Len(a.tail) : a.tail[n].id \in Nat
    <3>1. \A n \in 1..Len(a.tail) : a.tail[n] \in Event
      BY <1>1
    <3> QED
      BY <3>1 DEF Event
  <2> QED
    BY <1>1, <2>1
<1>3. ASSUME NEW n \in 1..Len(ids)
      PROVE  ids[n] = s.log[Len(a.base) + n]
  <2>1. n \in 1..Len(a.tail) /\ ids[n] = a.tail[n].id
    BY <1>2
  <2>2. a.tail[n] = EventAt(s.stream, s.log, Len(a.base) + n)
    BY <2>1 DEF Shows
  <2> QED
    BY <2>1, <2>2 DEF EventAt
<1> HIDE DEF ids
<1>4. c.cursor = Len(a.base) + Len(ids) /\ c.cursor <= Len(s.log)
      /\ \A n \in 1..Len(a.base) : a.base[n] = s.log[n]
  BY <1>2 DEF Shows
<1>5. a.base \o ids = SubSeq(s.log, 1, c.cursor)
  BY <1>1, <1>2, <1>3, <1>4, PrefixFact
<1>6. c.cursor \in 0..Len(s.log)
  BY <1>1, <1>4
<1> QED
  BY Zenon, <1>5, <1>6 DEF ids

\* In sync the renderer shows the log up to its cursor.
LEMMA ShownInSync ==
  ASSUME MaxSuperseded = 0, TypeInv, StreamInv, InSync
  PROVE  client.cursor \in 0..Len(serve.log) /\ Shown = SubSeq(serve.log, 1, client.cursor)
<1>1. Shows(serve, client, app)
  BY DEF StreamInv, SyncHolds, InSync
<1> QED
  BY <1>1, ShownPrefix DEF TypeInv, TypeOK, Shown

\* The same of the next state.
LEMMA ShownInSyncNext ==
  ASSUME MaxSuperseded = 0, TypeInv', StreamInv', InSync'
  PROVE  client'.cursor \in 0..Len(serve'.log)
         /\ Shown' = SubSeq(serve'.log, 1, client'.cursor)
<1>1. Shows(serve', client', app')
  BY DEF StreamInv, SyncHolds, InSync
<1> QED
  BY <1>1, ShownPrefix DEF TypeInv, TypeOK, Shown

\* The feed starts empty and out of sync.
LEMMA FeedInit == Init => Feed!Init
BY DEF Init, Feed!Init, InSync, Shown, ClearedApp

\* A step of the renderer or of Serve is a step of the feed, or none.
LEMMA FeedStep ==
  ASSUME MaxSuperseded = 0, TypeInv, TypeInv', StreamInv, StreamInv', LifeHolds, [Next]_vars
  PROVE  [Feed!Next]_(Feed!vars)
<1>0. /\ serve \in Engine /\ serve' \in Engine /\ app \in View /\ app' \in View
      /\ client \in Client /\ Len(serve.log) \in Nat /\ serve.log \in Seq(Nat)
      /\ superseded = {} /\ InSync \in BOOLEAN
  BY Typing DEF TypeInv, TypeOK, StreamInv, InSync
<1>s. ASSUME serve'.log = serve.log, InSync' = InSync, Shown' = Shown
      PROVE  [Feed!Next]_(Feed!vars)
  BY <1>s DEF Feed!vars
<1>d. ASSUME serve'.log = serve.log, phase' # "ready"
      PROVE  [Feed!Next]_(Feed!vars)
  <2>1. InSync' = FALSE /\ Shown' = <<>>
    BY <1>d DEF InSync, Shown
  <2>2. Feed!Disconnect
    BY <1>d, <2>1 DEF Feed!Disconnect
  <2> QED
    BY <2>2 DEF Feed!Next
<1>1. CASE ServeLogs
  <2>1. serve'.log = Append(serve.log, serve.life) /\ UNCHANGED <<phase, app>>
    BY <1>0, <1>1 DEF ServeLogs, clientVars, Engine
  <2>2. InSync' = InSync /\ Shown' = Shown
    BY <2>1 DEF InSync, Shown
  <2>3. serve.life \in 1 .. MaxFaults + 1
    BY <1>0, BoundsAssumption DEF LifeHolds, TypeInv, TypeOK, Engine
  <2>4. Feed!Log
    BY <2>1, <2>2, <2>3 DEF Feed!Log
  <2> QED
    BY <2>4 DEF Feed!Next
<1>2. CASE ServeRestarts
  <2>1. phase' = "offline"
    BY <1>2 DEF ServeRestarts, SocketCloses, Disconnected
  <2>2. InSync' = FALSE /\ Shown' = <<>>
    BY <2>1 DEF InSync, Shown
  <2>3. \E n \in 0..Len(serve.log) : serve'.log = SubSeq(serve.log, 1, n)
    BY <1>0, <1>2, NextEngineFact DEF ServeRestarts
  <2>4. Feed!Replace
    BY <2>2, <2>3 DEF Feed!Replace, Feed!Prefixes
  <2> QED
    BY <2>4 DEF Feed!Next
<1>3. CASE ConnectionLost \/ ListFails \/ ConnectFails \/ Connect \/ Supersede
  <2>1. serve' = serve /\ phase' # "ready"
    BY <1>3 DEF ConnectionLost, ListFails, ConnectFails, Connect, Supersede, Open, SocketCloses,
       ConnectGivesUp, Disconnected
  <2> QED
    BY <1>d, <2>1
<1>4. CASE Sending /\ ~ServeLogs
  <2>1. serve'.log = serve.log /\ UNCHANGED <<phase, app>>
    BY <1>0, <1>4 DEF Sending, ServeRepeats, ServeExpires, ServeRefuses,
       ServeAuthenticates, ServeStartsSnapshot, ServeAccepts, ServeInitializes, ServeSnapshots,
       ServeReplays, SupersededCloses, clientVars, serveVars, vars, Engine
  <2>2. InSync' = InSync /\ Shown' = Shown
    BY <2>1 DEF InSync, Shown
  <2> QED
    BY <1>s, <2>1, <2>2
<1>5. CASE JoinUnnumbered \/ JoinAndReplay \/ JoinAtCurrent \/ ReplayEnds \/ ReplayFails
             \/ ReplayGoesOn
  <2>1. serve' = serve /\ phase' # "ready"
    BY <1>5 DEF JoinUnnumbered, JoinAndReplay, JoinAtCurrent, ReplayEnds, ReplayFails,
       ReplayGoesOn, FinishRecovery, Respond, serveVars
  <2> QED
    BY <1>d, <2>1
<1>6. CASE ListAnswered
  <2>1. phase = "listing" /\ UNCHANGED <<serve, app>>
    BY <1>6 DEF ListAnswered, serveVars
  <2>2. app.synced = FALSE
    BY <2>1, Unsynced
  <2>3. InSync' = InSync /\ Shown' = Shown
    BY <2>1, <2>2 DEF InSync, Shown
  <2> QED
    BY <1>s, <2>1, <2>3
<1>7. CASE ReceiveUnnumbered \/ BufferEarly \/ DropEvent \/ HoldEvent \/ DeliverEvent
  <2>1. serve' = serve /\ phase' = phase
    BY <1>7, EventReceived DEF serveVars
  <2>2. CASE app' = app
    BY <1>s, <2>1, <2>2 DEF InSync, Shown
  <2>3. ASSUME app.synced = FALSE, app'.synced = FALSE
        PROVE  [Feed!Next]_(Feed!vars)
    BY <1>s, <2>1, <2>3 DEF InSync, Shown
  <2>4. CASE client.streamId = NoStream /\ app' = Applied(app, <<incoming>>)
    <3>1. app.synced = FALSE
      BY <2>4, Unsynced
    <3>2. app'.synced = app.synced
      BY <1>0, <2>4 DEF Applied, View
    <3> QED
      BY <2>3, <3>1, <3>2
  <2>5. CASE /\ client.streamId # NoStream /\ incoming \in Event
             /\ \E k \in Nat : Finish(WithFrame(incoming), k, app, stored)
    <3> DEFINE c == WithFrame(incoming)
    <3>1. PICK k \in Nat : Finish(c, k, app, stored)
      BY <2>5
    <3>2. c \in Client /\ c.cursor = client.cursor
      BY <1>0, <2>5, WithFrameFact
    <3> HIDE DEF c
    <3>3. client' = Drained(c, k) /\ app' = Applied(app, Run(c, k))
      BY <3>1 DEF Finish
    <3>4. client'.cursor = client.cursor + k
      BY <3>2, <3>3, DrainFact
    <3>5. app'.synced = app.synced
      BY <1>0, <3>3 DEF Applied, View
    <3>6. InSync' = InSync
      BY <2>1, <3>5 DEF InSync
    <3>7. CASE ~InSync
      <4>1. Shown' = Shown
        BY <3>6, <3>7 DEF Shown
      <4> QED
        BY <1>s, <2>1, <3>6, <4>1
    <3>8. CASE InSync
      <4>1. client.cursor \in 0..Len(serve.log) /\ Shown = SubSeq(serve.log, 1, client.cursor)
        BY <3>8, ShownInSync
      <4>2. client'.cursor \in 0..Len(serve.log) /\ Shown' = SubSeq(serve.log, 1, client'.cursor)
        BY <2>1, <3>6, <3>8, ShownInSyncNext
      <4>3. CASE k = 0
        <5>1. client'.cursor = client.cursor
          BY <3>2, <3>4, <4>1, <4>3
        <5> QED
          BY <1>s, <2>1, <3>6, <4>1, <4>2, <5>1
      <4>4. CASE k # 0
        <5>1. Len(Shown) = client.cursor
          BY <1>0, <4>1
        <5>2. client'.cursor \in Len(Shown) + 1 .. Len(serve.log)
          BY <1>0, <3>4, <4>1, <4>2, <4>4, <5>1
        <5>3. Feed!Advance
          BY <2>1, <3>6, <3>8, <4>2, <5>2 DEF Feed!Advance
        <5> QED
          BY <5>3 DEF Feed!Next
      <4> QED
        BY <4>3, <4>4
    <3> QED
      BY <3>7, <3>8
  <2> QED
    BY <1>7, <2>2, <2>4, <2>5, EventFact
<1>8. CASE ApplySnapshot
  <2>1. phase = "snapshotting" /\ phase' = "ready" /\ serve' = serve
    BY <1>8 DEF ApplySnapshot, Respond, serveVars
  <2>2. app'.synced = TRUE
    BY <1>8 DEF ApplySnapshot, Finish, Applied
  <2>3. ~InSync /\ InSync' = TRUE
    BY <2>1, <2>2 DEF InSync
  <2>4. client'.cursor \in 0..Len(serve.log) /\ Shown' = SubSeq(serve.log, 1, client'.cursor)
    BY <2>1, <2>3, ShownInSyncNext
  <2>5. Feed!Synchronize
    BY <2>1, <2>3, <2>4 DEF Feed!Synchronize, Feed!Prefixes
  <2> QED
    BY <2>5 DEF Feed!Next
<1> QED
  BY <1>1, <1>2, <1>3, <1>4, <1>5, <1>6, <1>7, <1>8 DEF Next, Sending

\* The renderer implements the ordered feed: it comes into sync by a prefix of Serve's
\* log, moves forward by whole runs of it, and leaves sync with its connection, however
\* events are repeated, held back or dropped on the way.
THEOREM StreamImplementsFeed ==
  ASSUME MaxSuperseded = 0
  PROVE  Spec => FeedSpec
<1>1. Init => TypeInv /\ StreamInv /\ LifeHolds
  BY TypeInit, StreamInit, LifeInit
<1>2. TypeInv /\ StreamInv /\ LifeHolds /\ [Next]_vars => (TypeInv /\ StreamInv /\ LifeHolds)'
  BY TypeStep, StreamStep, LifeStep
<1>3. /\ TypeInv /\ TypeInv' /\ StreamInv /\ StreamInv' /\ LifeHolds
      /\ [Next]_vars
      => [Feed!Next]_(Feed!vars)
  BY FeedStep
<1> QED
  BY <1>1, <1>2, <1>3, FeedInit, PTL DEF Spec, FeedSpec, Feed!Spec

================================================================================
