------------------------------ MODULE EventStream ------------------------------
(* The ordered event stream between the renderer and `hara serve`: HaraClient   *)
(* (src/client.ts) receives numbered events over one WebSocket, recovers the    *)
(* events it missed when it reconnects, and lets App.connect (src/App.tsx)      *)
(* replace its state by an authoritative snapshot before it becomes "ready".    *)
(*                                                                              *)
(* One client step handles one WebSocket message to its last microtask: in the  *)
(* browser the promise continuations of a response run before the next message. *)
(* Serve is external; what it does is what client.ts and its tests rely on.     *)
EXTENDS Integers, Sequences, FiniteSets

CONSTANTS
  FeatureSets,    \* what an Engine may advertise, subsets of Features
  PageSize,       \* EVENT_REPLAY_PAGE_SIZE
  MaxPages,       \* MAX_EVENT_REPLAY_PAGES
  MaxLog,         \* bound: events in one Serve log
  MaxFaults,      \* bound: restarts, lost connections, refusals, repeats, superseding connects
  MaxSuperseded   \* bound: superseded sockets whose close is still outstanding

Features == {"cursor", "replay", "snapshot"}

ASSUME FeatureSetsAssumption == FeatureSets \subseteq SUBSET Features
ASSUME BoundsAssumption ==
  /\ PageSize \in Nat \ {0}
  /\ MaxPages \in Nat \ {0}
  /\ MaxLog \in Nat /\ MaxFaults \in Nat /\ MaxSuperseded \in Nat

VARIABLES
  serve,       \* Serve's log of the current stream and what it advertises
  work,        \* the request Serve has accepted and not answered yet
  attached,    \* Serve broadcasts to the current connection
  requests,    \* renderer -> Serve
  messages,    \* Serve -> renderer
  client,      \* the HaraClient of the current connection
  superseded,  \* clients closed by a newer connect(), close event outstanding
  stored,      \* localStorage["hara.serve.event-cursor.v1"]
  phase,       \* how far App.connect has come
  app,         \* what the renderer shows: a snapshot and the events applied to it
  faults       \* how much of MaxFaults is used

serveVars   == <<serve, work, attached>>
channelVars == <<requests, messages>>
clientVars  == <<client, superseded, stored, phase, app>>
vars        == <<serveVars, channelVars, clientVars, faults>>

--------------------------------------------------------------------------------
(* Values *)

NoStream == 0      \* no stream id; a real one is the Serve life that opened it
NoSequence == -1
NoCursor == [stream |-> NoStream, sequence |-> NoSequence]
NoWork   == [type |-> "none", from |-> 0]

\* The event at position n of a log; its id is the Serve life that logged it, so
\* that a position a restarted Serve uses a second time holds a different event.
EventAt(stream, log, n) == [stream |-> stream, seq |-> n, id |-> log[n]]

Phases == {"offline", "initializing", "replaying", "listing", "snapshotting", "ready"}

FreshClient ==
  [ streamId |-> NoStream, cursor |-> 0, frames |-> {}, bufferedStream |-> NoStream,
    recovering |-> TRUE, features |-> {}, after |-> 0, page |-> 0, latest |-> 0,
    resumed |-> NoSequence, snapshotRequired |-> FALSE ]

ClearedApp == [stream |-> NoStream, base |-> <<>>, tail |-> <<>>, synced |-> FALSE]

Numbered == "cursor" \in serve.features

Init ==
  /\ \E features \in FeatureSets :
       serve = [life |-> 1, stream |-> 1, log |-> <<>>, first |-> 1, features |-> features]
  /\ work = NoWork
  /\ attached = FALSE
  /\ requests = <<>>
  /\ messages = <<>>
  /\ client = FreshClient
  /\ superseded = {}
  /\ stored = NoCursor
  /\ phase = "offline"
  /\ app = ClearedApp
  /\ faults = 0

--------------------------------------------------------------------------------
(* HaraClient's frame buffer *)

HasFrame(frames, n) == \E f \in frames : f.seq = n
FrameAt(frames, n)  == CHOOSE f \in frames : f.seq = n

\* Map.set: the newest frame of a sequence number replaces the one before it
Buffered(frames, event) == {f \in frames : f.seq # event.seq} \cup {event}

\* drainEventFrames can deliver exactly the k frames that follow the cursor
IsRun(c, k) ==
  IF c.streamId = NoStream THEN k = 0
  ELSE /\ \A i \in 1..k : HasFrame(c.frames, c.cursor + i)
       /\ ~HasFrame(c.frames, c.cursor + k + 1)

Run(c, k) == [i \in 1..k |-> FrameAt(c.frames, c.cursor + i)]

\* mutant of Drained: the cursor counts drains, not frames
DrainedOnce(c, k) ==
  [c EXCEPT !.cursor = IF k = 0 THEN @ ELSE @ + 1,
            !.frames = {f \in @ : f.seq \notin c.cursor + 1 .. c.cursor + k}]

Drained(c, k) ==
  [c EXCEPT !.cursor = @ + k,
            !.frames = {f \in @ : f.seq \notin c.cursor + 1 .. c.cursor + k}]

CursorOf(c) == [stream |-> c.streamId, sequence |-> c.cursor]

StoredAfter(c, k, before) == IF k = 0 THEN before ELSE CursorOf(Drained(c, k))

Applied(a, events) == [a EXCEPT !.tail = @ \o events]

\* mutant of Recovered: the end of a recovery empties the frame buffer
RecoveredEmpty(c) == [c EXCEPT !.frames = {}, !.recovering = FALSE]

\* The end of recoverEventStream: forget the frames the cursor covers, stop
\* recovering; the cursor is stored and the buffered run is drained by the caller.
Recovered(c) ==
  [c EXCEPT !.frames = {f \in @ : f.seq > c.cursor}, !.recovering = FALSE]

\* mutant of Abandoned: nobody is told that a snapshot is needed
AbandonedSilently(c, current) == [c EXCEPT !.cursor = current]

\* A replay that failed or that Serve refused: everything up to `current` is left
\* to the snapshot.
Abandoned(c, current) == [c EXCEPT !.cursor = current, !.snapshotRequired = TRUE]

\* The flush of an Engine without a stream: every buffered frame, by number
InOrder(events, frames) ==
  /\ \A i, j \in DOMAIN events : i < j => events[i].seq < events[j].seq
  /\ frames = {events[i] : i \in DOMAIN events}

--------------------------------------------------------------------------------
(* What a rejected call leaves behind, by the phase it was pending in: the catch *)
(* of events.replay finishes the recovery, the finally of events.snapshot stops  *)
(* holding events back; both drain.                                              *)

AfterRejection(c, pendingIn) ==
  CASE pendingIn = "replaying"    -> Recovered(Abandoned(c, c.latest))
    [] pendingIn = "snapshotting" -> [c EXCEPT !.recovering = FALSE]
    [] OTHER                      -> c

\* mutant of StoredAtRejection: a client that has not joined a stream stores its cursor
StoredAtAnyRejection(c, pendingIn, before) ==
  IF pendingIn \in {"initializing", "replaying"}
    THEN CursorOf(AfterRejection(c, pendingIn)) ELSE before

StoredAtRejection(c, pendingIn, before) ==
  IF pendingIn = "replaying" THEN CursorOf(AfterRejection(c, pendingIn)) ELSE before

\* Frames that the rejection of a pending call lets through
Released(c, pendingIn, k) ==
  IF pendingIn \in {"replaying", "snapshotting"}
    THEN IsRun(AfterRejection(c, pendingIn), k)
    ELSE k = 0

\* The pending call of the current client is rejected; k frames are let through
PendingRejected(k) ==
  /\ Released(client, phase, k)
  /\ stored' = StoredAfter(AfterRejection(client, phase), k,
                           StoredAtRejection(client, phase, stored))

Disconnected ==
  /\ client' = FreshClient
  /\ phase' = "offline"
  /\ work' = NoWork
  /\ attached' = FALSE
  /\ requests' = <<>>
  /\ messages' = <<>>

\* The socket of the current client closes: onClose clears the surfaces, then the
\* rejected call drains into the cleared surfaces.
SocketCloses ==
  \E k \in 0..MaxLog :
    /\ PendingRejected(k)
    /\ app' = Applied(ClearedApp, Run(AfterRejection(client, phase), k))
    /\ Disconnected

\* connect() gives up: the failed call has drained when the client is closed, and
\* the close clears the surfaces.
ConnectGivesUp ==
  \E k \in 0..MaxLog :
    /\ PendingRejected(k)
    /\ app' = ClearedApp
    /\ Disconnected

--------------------------------------------------------------------------------
(* Serve *)

\* What an attached connection is sent for event n: an Engine without the cursor
\* protocol sends it bare.
Broadcast(stream, log, n) ==
  [type |-> "event",
   event |-> EventAt(IF Numbered THEN stream ELSE NoStream, log, n)]

ServeLogs ==
  /\ Len(serve.log) < MaxLog
  /\ LET log == Append(serve.log, serve.life) IN
     /\ serve' = [serve EXCEPT !.log = log]
     /\ messages' = IF attached
                      THEN Append(messages, Broadcast(serve.stream, log, Len(log)))
                      ELSE messages
  /\ UNCHANGED <<work, attached, requests, clientVars, faults>>

\* Serve sends a numbered event once more, as client.test.mjs has it do
ServeRepeats ==
  /\ attached /\ Numbered
  /\ faults < MaxFaults
  /\ \E n \in 1 .. Len(serve.log) :
       messages' = Append(messages, Broadcast(serve.stream, serve.log, n))
  /\ faults' = faults + 1
  /\ UNCHANGED <<serve, work, attached, requests, clientVars>>

\* Retention: the oldest replayable event expires
ServeExpires ==
  /\ serve.first <= Len(serve.log)
  /\ serve' = [serve EXCEPT !.first = @ + 1]
  /\ UNCHANGED <<work, attached, channelVars, clientVars, faults>>

\* Serve takes a request up; what it reads for the answer it reads at any moment
\* from here until it answers.
ServeAccepts(type) ==
  /\ requests # <<>> /\ Head(requests).type = type
  /\ work = NoWork
  /\ work' = [type |-> type, from |-> Len(serve.log)]
  /\ requests' = Tail(requests)
  /\ UNCHANGED <<serve, messages, clientVars, faults>>

ServeAuthenticates == ServeAccepts("initialize") /\ attached' = TRUE

ServeStartsSnapshot == ServeAccepts("snapshot") /\ UNCHANGED attached

ServeInitializes ==
  /\ work.type = "initialize"
  /\ \E current \in work.from .. Len(serve.log) :
       messages' = Append(messages,
         [type |-> "initialized", features |-> serve.features, current |-> current,
          stream |-> IF Numbered THEN serve.stream ELSE NoStream])
  /\ work' = NoWork
  /\ UNCHANGED <<serve, attached, requests, clientVars, faults>>

ServeSnapshots ==
  /\ work.type = "snapshot"
  /\ \E through \in work.from .. Len(serve.log) :
       messages' = Append(messages,
         [type |-> "snapshot", stream |-> serve.stream,
          log |-> SubSeq(serve.log, 1, through)])
  /\ work' = NoWork
  /\ UNCHANGED <<serve, attached, requests, clientVars, faults>>

\* One page of events.replay: the events, then the response that counts them
ServeReplays ==
  /\ requests # <<>> /\ Head(requests).type = "replay"
  /\ LET after   == Head(requests).after
         current == Len(serve.log)
         expired == after + 1 < serve.first
         through == IF expired THEN after
                    ELSE IF after + PageSize < current THEN after + PageSize ELSE current
         events  == [i \in 1 .. through - after |->
                       Broadcast(serve.stream, serve.log, after + i)]
     IN messages' = messages \o events \o
          << [type |-> "page", current |-> current, through |-> through,
              snapshotRequired |-> expired, hasMore |-> ~expired /\ through < current] >>
  /\ requests' = Tail(requests)
  /\ UNCHANGED <<serveVars, clientVars, faults>>

\* Any request may be answered with an error
ServeRefuses ==
  /\ faults < MaxFaults
  /\ \/ requests # <<>> /\ requests' = Tail(requests) /\ UNCHANGED work
     \/ work # NoWork /\ work' = NoWork /\ UNCHANGED requests
  /\ messages' = Append(messages, [type |-> "error"])
  /\ faults' = faults + 1
  /\ UNCHANGED <<serve, attached, clientVars>>

\* A new Engine, perhaps another version: it opens a new stream, or goes on with
\* the part of the old one that had reached its disk.
NextEngine ==
  \E features \in FeatureSets :
    \/ serve' = [life |-> serve.life + 1, stream |-> serve.life + 1, log |-> <<>>,
                 first |-> 1, features |-> features]
    \/ \E durable \in 0 .. Len(serve.log) :
         serve' = [serve EXCEPT !.life = @ + 1, !.features = features,
                                !.log = SubSeq(@, 1, durable), !.first = 1]

ServeRestarts ==
  /\ faults < MaxFaults
  /\ NextEngine
  /\ faults' = faults + 1
  /\ IF phase = "offline"
       THEN UNCHANGED <<work, attached, channelVars, client, stored, phase, app>>
       ELSE SocketCloses
  /\ UNCHANGED superseded

ConnectionLost ==
  /\ phase # "offline"
  /\ faults < MaxFaults
  /\ faults' = faults + 1
  /\ SocketCloses
  /\ UNCHANGED <<serve, superseded>>

--------------------------------------------------------------------------------
(* App.connect *)

Open ==
  /\ client' = FreshClient
  /\ app' = ClearedApp
  /\ phase' = "initializing"
  /\ requests' = <<[type |-> "initialize"]>>
  /\ messages' = <<>>
  /\ work' = NoWork
  /\ attached' = FALSE
  /\ UNCHANGED <<serve, stored>>

Connect ==
  /\ phase = "offline"
  /\ Open
  /\ UNCHANGED <<superseded, faults>>

\* connect() again while a client exists: its socket is told to close, and only
\* the close event, later, rejects what it was waiting for.
Supersede ==
  /\ phase # "offline"
  /\ Cardinality(superseded) < MaxSuperseded
  /\ faults < MaxFaults
  /\ superseded' = superseded \cup {[client |-> client, pendingIn |-> phase]}
  /\ faults' = faults + 1
  /\ Open

\* The close event of a superseded socket: App.onClose returns early, the rejected
\* call does not.
SupersededCloses ==
  \E s \in superseded, k \in 0..MaxLog :
    LET c == AfterRejection(s.client, s.pendingIn) IN
    /\ Released(s.client, s.pendingIn, k)
    /\ app' = Applied(app, Run(c, k))
    /\ stored' = StoredAfter(c, k, StoredAtRejection(s.client, s.pendingIn, stored))
    /\ superseded' = superseded \ {s}
    /\ UNCHANGED <<serveVars, channelVars, client, phase, faults>>

\* Send one more request
Ask(request) == requests' = Append(requests, request)

\* mutant of ListAnswered: events are not held back while the snapshot is read
ListAnsweredFlowing ==
  /\ phase = "listing"
  /\ IF "snapshot" \in client.features
       THEN /\ Ask([type |-> "snapshot"])
            /\ phase' = "snapshotting"
            /\ UNCHANGED client
       ELSE /\ phase' = "ready"
            /\ UNCHANGED <<client, requests>>
  /\ UNCHANGED <<serveVars, messages, superseded, stored, app, faults>>

\* session.list has answered: ask for the snapshot, or do without one
ListAnswered ==
  /\ phase = "listing"
  /\ IF "snapshot" \in client.features
       THEN /\ client' = [client EXCEPT !.recovering = TRUE]
            /\ Ask([type |-> "snapshot"])
            /\ phase' = "snapshotting"
       ELSE /\ phase' = "ready"
            /\ UNCHANGED <<client, requests>>
  /\ UNCHANGED <<serveVars, messages, superseded, stored, app, faults>>

\* Any other call connect() awaits before it is ready fails: it closes the client
ListFails ==
  /\ phase = "listing"
  /\ faults < MaxFaults
  /\ faults' = faults + 1
  /\ ConnectGivesUp
  /\ UNCHANGED <<serve, superseded>>

--------------------------------------------------------------------------------
(* Messages, in the order the socket delivers them *)

Receive(type) ==
  /\ messages # <<>>
  /\ Head(messages).type = type
  /\ messages' = Tail(messages)

incoming == Head(messages).event

\* A response reaches the one call that is pending; ids tell responses apart
Respond(type, pendingIn) == Receive(type) /\ phase = pendingIn

\* The end of a step that may drain: k frames follow the cursor of c and go to a
Finish(c, k, a, before) ==
  /\ IsRun(c, k)
  /\ client' = Drained(c, k)
  /\ app' = Applied(a, Run(c, k))
  /\ stored' = StoredAfter(c, k, before)

ReceiveUnnumbered ==
  /\ Receive("event")
  /\ incoming.stream = NoStream
  /\ app' = Applied(app, <<incoming>>)
  /\ UNCHANGED <<serveVars, requests, client, superseded, stored, phase, faults>>

\* No stream is known before initialize answers
BufferEarly ==
  /\ Receive("event")
  /\ incoming.stream # NoStream
  /\ client.streamId = NoStream
  /\ client' =
       LET kept == IF client.bufferedStream \in {NoStream, incoming.stream}
                     THEN client.frames ELSE {}
       IN [client EXCEPT !.bufferedStream = incoming.stream,
                         !.frames = Buffered(kept, incoming)]
  /\ UNCHANGED <<serveVars, requests, superseded, stored, phase, app, faults>>

Fresh(event) == event.stream = client.streamId /\ event.seq > client.cursor

DropEvent ==
  /\ Receive("event")
  /\ incoming.stream # NoStream
  /\ client.streamId # NoStream
  /\ ~Fresh(incoming)
  /\ UNCHANGED <<serveVars, requests, clientVars, faults>>

WithFrame(event) == [client EXCEPT !.frames = Buffered(@, event)]

HoldEvent ==
  /\ Receive("event")
  /\ client.streamId # NoStream
  /\ Fresh(incoming)
  /\ client.recovering
  /\ client' = WithFrame(incoming)
  /\ UNCHANGED <<serveVars, requests, superseded, stored, phase, app, faults>>

DeliverEvent ==
  /\ Receive("event")
  /\ client.streamId # NoStream
  /\ Fresh(incoming)
  /\ ~client.recovering
  /\ \E k \in 0..MaxLog : Finish(WithFrame(incoming), k, app, stored)
  /\ UNCHANGED <<serveVars, requests, superseded, phase, faults>>

\* recoverEventStream returns: the cursor is stored, the run behind it delivered
FinishRecovery(c) ==
  LET r == Recovered(c) IN
  /\ \E k \in 0..MaxLog : Finish(r, k, app, CursorOf(r))
  /\ phase' = "listing"

Resumable(m) == stored.stream = m.stream /\ stored.sequence <= m.current

\* mutant of Joined: the current event initialize reports is not remembered
JoinedUnaware(m) ==
  [client EXCEPT !.features = m.features, !.streamId = m.stream,
                 !.bufferedStream = NoStream,
                 !.frames = {f \in @ : f.stream = m.stream},
                 !.resumed = IF Resumable(m) THEN stored.sequence ELSE NoSequence]

\* The client once it knows the stream: frames of another stream are forgotten
Joined(m) ==
  [client EXCEPT !.features = m.features, !.streamId = m.stream,
                 !.bufferedStream = NoStream,
                 !.frames = {f \in @ : f.stream = m.stream},
                 !.resumed = IF Resumable(m) THEN stored.sequence ELSE NoSequence,
                 !.latest = m.current]

JoinUnnumbered ==
  /\ Respond("initialized", "initializing")
  /\ Head(messages).stream = NoStream
  /\ client' = [client EXCEPT !.features = Head(messages).features, !.recovering = FALSE,
                              !.frames = {}, !.bufferedStream = NoStream]
  /\ \E n \in 0..MaxLog : \E events \in [1..n -> client.frames] :
       /\ InOrder(events, client.frames)
       /\ app' = Applied(app, events)
  /\ phase' = "listing"
  /\ UNCHANGED <<serveVars, requests, superseded, stored, faults>>

JoinAndReplay ==
  /\ Respond("initialized", "initializing")
  /\ LET m == Head(messages) IN
     /\ m.stream # NoStream
     /\ Resumable(m)
     /\ stored.sequence < m.current
     /\ "replay" \in m.features
     /\ client' = [Joined(m) EXCEPT !.cursor = stored.sequence, !.after = stored.sequence]
     /\ Ask([type |-> "replay", after |-> stored.sequence])
  /\ phase' = "replaying"
  /\ UNCHANGED <<serveVars, superseded, stored, app, faults>>

\* Nothing to replay, no replay to ask for, or a cursor that means nothing here:
\* go on from Serve's current event.
JoinAtCurrent ==
  /\ Respond("initialized", "initializing")
  /\ LET m == Head(messages) IN
     /\ m.stream # NoStream
     /\ ~Resumable(m) \/ stored.sequence = m.current \/ "replay" \notin m.features
     /\ FinishRecovery([Joined(m) EXCEPT
          !.cursor = m.current,
          !.snapshotRequired = stored # NoCursor /\ stored # [stream |-> m.stream,
                                                              sequence |-> m.current]])
  /\ UNCHANGED <<serveVars, requests, superseded, faults>>

Later(m, n) == IF m.current > n THEN m.current ELSE n

\* A page after which recovery is over, complete or abandoned
EndOfReplay(m) ==
  m.snapshotRequired \/ ~m.hasMore \/ m.through <= client.after \/ client.page = MaxPages - 1

ReplayEnds ==
  /\ Respond("page", "replaying")
  /\ LET m == Head(messages) IN
     /\ EndOfReplay(m)
     /\ FinishRecovery(IF ~m.snapshotRequired /\ ~m.hasMore
                         THEN client ELSE Abandoned(client, m.current))
  /\ UNCHANGED <<serveVars, requests, superseded, faults>>

ReplayGoesOn ==
  /\ Respond("page", "replaying")
  /\ LET m == Head(messages) IN
     /\ ~EndOfReplay(m)
     /\ client' = [client EXCEPT !.after = m.through, !.page = @ + 1,
                                 !.latest = Later(m, @)]
     /\ Ask([type |-> "replay", after |-> m.through])
  /\ UNCHANGED <<serveVars, superseded, stored, phase, app, faults>>

\* events.replay is answered with an error
ReplayFails ==
  /\ Respond("error", "replaying")
  /\ FinishRecovery(Abandoned(client, client.latest))
  /\ UNCHANGED <<serveVars, requests, superseded, faults>>

\* synchronizeEventSnapshot accepts the snapshot
SnapshotFits(m) == m.stream = client.streamId /\ Len(m.log) >= client.cursor

\* mutant of SnapshotApplied: the cursor stays behind the snapshot
SnapshotAppliedBehind(m) ==
  [client EXCEPT !.frames = {f \in @ : f.seq > Len(m.log)}, !.recovering = FALSE]

\* mutant of SnapshotApplied: events are held back for ever
SnapshotAppliedHolding(m) ==
  [client EXCEPT !.cursor = Len(m.log), !.frames = {f \in @ : f.seq > Len(m.log)}]

SnapshotApplied(m) ==
  [client EXCEPT !.cursor = Len(m.log), !.frames = {f \in @ : f.seq > Len(m.log)},
                 !.recovering = FALSE]

ApplySnapshot ==
  /\ Respond("snapshot", "snapshotting")
  /\ LET m == Head(messages)
         c == SnapshotApplied(m)
     IN /\ SnapshotFits(m)
        /\ \E k \in 0..MaxLog :
             Finish(c, k, [stream |-> m.stream, base |-> m.log, tail |-> <<>>, synced |-> TRUE],
                    CursorOf(c))
  /\ phase' = "ready"
  /\ UNCHANGED <<serveVars, requests, superseded, faults>>

\* mutant of ConnectFails: nobody handles a failed events.snapshot
ConnectFailsEarlyOnly ==
  /\ messages # <<>>
  /\ LET m == Head(messages) IN
       \/ phase \in {"initializing", "snapshotting"} /\ m.type = "error"
       \/ phase = "snapshotting" /\ m.type = "snapshot" /\ ~SnapshotFits(m)
  /\ IF phase = "initializing" THEN ConnectGivesUp
     ELSE messages' = Tail(messages) /\ UNCHANGED <<work, attached, requests, client, stored, phase, app>>
  /\ UNCHANGED <<serve, superseded, faults>>

\* initialize or events.snapshot failed: connect() closes the client
ConnectFails ==
  /\ messages # <<>>
  /\ LET m == Head(messages) IN
       \/ phase \in {"initializing", "snapshotting"} /\ m.type = "error"
       \/ phase = "snapshotting" /\ m.type = "snapshot" /\ ~SnapshotFits(m)
  /\ ConnectGivesUp
  /\ UNCHANGED <<serve, superseded, faults>>

--------------------------------------------------------------------------------

Next ==
  \/ ServeLogs \/ ServeRepeats \/ ServeExpires \/ ServeRefuses \/ ServeRestarts
  \/ ServeAuthenticates \/ ServeInitializes \/ ServeReplays
  \/ ServeStartsSnapshot \/ ServeSnapshots
  \/ Connect \/ Supersede \/ SupersededCloses \/ ConnectionLost \/ ListAnswered \/ ListFails
  \/ ReceiveUnnumbered \/ BufferEarly \/ DropEvent \/ HoldEvent \/ DeliverEvent
  \/ JoinUnnumbered \/ JoinAndReplay \/ JoinAtCurrent
  \/ ReplayEnds \/ ReplayGoesOn \/ ReplayFails
  \/ ApplySnapshot \/ ConnectFails

Spec == Init /\ [][Next]_vars

\* The browser delivers what the socket holds and runs every continuation; a live
\* Serve answers what it has accepted. Nobody owes a connect, a fault or an event.
Receipt ==
  \/ ReceiveUnnumbered \/ BufferEarly \/ DropEvent \/ HoldEvent \/ DeliverEvent
  \/ JoinUnnumbered \/ JoinAndReplay \/ JoinAtCurrent
  \/ ReplayEnds \/ ReplayGoesOn \/ ReplayFails
  \/ ApplySnapshot \/ ConnectFails

Answer ==
  \/ ServeAuthenticates \/ ServeInitializes \/ ServeReplays
  \/ ServeStartsSnapshot \/ ServeSnapshots

FairSpec == Spec /\ WF_vars(Receipt) /\ WF_vars(Answer) /\ WF_vars(ListAnswered)

--------------------------------------------------------------------------------
(* Properties *)

\* The renderer shows what it has synchronized
InSync == phase = "ready" /\ app.synced

\* The entries it shows then
Shown == IF InSync THEN app.base \o [n \in 1..Len(app.tail) |-> app.tail[n].id] ELSE <<>>

\* The renderer implements an ordered feed of Serve's log.
Feed == INSTANCE OrderedFeed WITH
  Entry <- 1 .. MaxFaults + 1, log <- serve.log, inSync <- InSync, view <- Shown

\* The stream is an ordered feed: a ready renderer comes into sync by a snapshot,
\* only ever moves forward through the log, and leaves sync with its connection.
FeedSpec == Feed!Spec

Stream == Nat                     \* NoStream or a Serve life
Logs   == Seq(Nat)
Event  == [stream : Stream, seq : Nat, id : Nat]
Cursor == {NoCursor} \cup [stream : Stream \ {NoStream}, sequence : Nat]

Client ==
  [ streamId : Stream, cursor : Nat, frames : SUBSET Event, bufferedStream : Stream,
    recovering : BOOLEAN, features : SUBSET Features, after : Nat, page : Nat, latest : Nat,
    resumed : Nat \cup {NoSequence}, snapshotRequired : BOOLEAN ]

Superseded == [client : Client, pendingIn : Phases]

Engine ==
  [ life : Nat \ {0}, stream : Stream \ {NoStream}, log : Logs, first : Nat,
    features : SUBSET Features ]

Work == [type : {"none", "initialize", "snapshot"}, from : Nat]

Request == [type : {"initialize", "snapshot"}] \cup [type : {"replay"}, after : Nat]

Message ==
  [type : {"event"}, event : Event]
    \cup [type : {"initialized"}, features : SUBSET Features, current : Nat, stream : Stream]
    \cup [type : {"page"}, current : Nat, through : Nat, snapshotRequired : BOOLEAN,
          hasMore : BOOLEAN]
    \cup [type : {"snapshot"}, stream : Stream \ {NoStream}, log : Logs]
    \cup [type : {"error"}]

View == [stream : Stream, base : Logs, tail : Seq(Event), synced : BOOLEAN]

\* Every variable of the stream keeps its type.
TypeOK ==
  /\ serve \in Engine
  /\ work \in Work
  /\ attached \in BOOLEAN
  /\ requests \in Seq(Request)
  /\ messages \in Seq(Message)
  /\ client \in Client
  /\ superseded \in SUBSET Superseded
  /\ stored \in Cursor
  /\ phase \in Phases
  /\ app \in View
  /\ faults \in Nat

\* View a holds log s up to the cursor of client c: a snapshot, then every later
\* event once and in order.
Shows(s, c, a) ==
  /\ a.stream = c.streamId /\ c.streamId = s.stream
  /\ c.cursor = Len(a.base) + Len(a.tail)
  /\ c.cursor <= Len(s.log)
  /\ \A n \in 1..Len(a.base) : a.base[n] = s.log[n]
  /\ \A n \in 1..Len(a.tail) : a.tail[n] = EventAt(s.stream, s.log, Len(a.base) + n)

\* A renderer that synchronized and is ready shows the current Serve's log up to its
\* cursor (App.connect's events.snapshot call, then drainEventFrames).
ReadyIsAuthoritative ==
  phase = "ready" /\ app.synced => Shows(serve, client, app)

Carries(m, n)  == m.type = "event" /\ m.event.seq = n
Awaited(ms, n) == \E i \in 1..Len(ms) : Carries(ms[i], n)

\* Every event of s after the n-th is in the frame buffer of c or on the socket
Ahead(s, c, ms, n) ==
  \A k \in n + 1 .. Len(s.log) : HasFrame(c.frames, k) \/ Awaited(ms, k)

\* Once recovery is over no event can fall between the cursor and the live
\* stream: each later one is in the frame buffer or still on the socket.
NothingLost ==
  phase \in {"listing", "snapshotting", "ready"} /\ client.streamId # NoStream =>
    Ahead(serve, client, messages, client.cursor)

\* A recovery that does not ask for a snapshot has delivered exactly the events
\* after the stored cursor, in order, each once (EventRecoverySummary).
RecoverySummaryHolds ==
  phase \in {"listing", "snapshotting"} /\ client.resumed # NoSequence
    /\ ~client.snapshotRequired =>
    /\ Len(app.tail) = client.cursor - client.resumed
    /\ \A n \in 1..Len(app.tail) :
         app.tail[n] = EventAt(serve.stream, serve.log, client.resumed + n)

\* The snapshot of a synchronization is never older than what the renderer has
\* applied: synchronizeEventSnapshot's throw is for a Serve that misbehaves.
SnapshotNotOlder ==
  \A i \in 1..Len(messages) :
    messages[i].type = "snapshot" /\ client.streamId # NoStream => SnapshotFits(messages[i])

\* The stored cursor moves back only when initialize finds it ahead of its own
\* stream, never because a late handler writes an old cursor.
StoredOnlyAdvances ==
  [][ stored'.stream = stored.stream /\ stored'.sequence < stored.sequence
        => phase = "initializing" /\ phase' # "offline" ]_vars

\* A connection attempt ends: connect() becomes ready or the client is closed.
ConnectResolves == phase = "initializing" ~> phase \in {"ready", "offline"}

\* Every event Serve has logged reaches a ready renderer, unless it disconnects.
CatchesUp ==
  \A n \in 1..MaxLog :
    phase = "ready" /\ client.streamId # NoStream /\ Len(serve.log) >= n
      ~> client.cursor >= n \/ phase # "ready"

--------------------------------------------------------------------------------
(* The inductive invariant behind ReadyIsAuthoritative, for a renderer that lets  *)
(* one connection end before it opens the next. It says what everything in flight *)
(* or buffered has to do with the log Serve has now.                              *)

Genuine(s, e) ==
  /\ e.stream = s.stream
  /\ e.seq \in 1..Len(s.log)
  /\ e.id = s.log[e.seq]

OfLog(s, entries) ==
  Len(entries) <= Len(s.log) /\ \A n \in 1..Len(entries) : entries[n] = s.log[n]

MessageHolds(s, m) ==
  /\ m.type = "event" =>
       IF "cursor" \in s.features THEN Genuine(s, m.event) ELSE m.event.stream = NoStream
  /\ m.type = "initialized" =>
       /\ m.current <= Len(s.log)
       /\ m.stream # NoStream => m.stream = s.stream /\ "cursor" \in s.features
  /\ m.type = "page" => m.current <= Len(s.log)
  /\ m.type = "snapshot" => m.stream = s.stream /\ OfLog(s, m.log)

\* Offline nothing is in flight and the client is a new one.
OfflineHolds ==
  phase = "offline" =>
    /\ client = FreshClient /\ work = NoWork /\ ~attached
    /\ requests = <<>> /\ messages = <<>>

\* A client that replays knows its stream; so does one superseded while replaying.
ReplayHolds ==
  /\ phase = "replaying" => client.streamId # NoStream
  /\ \A s \in superseded : s.pendingIn = "replaying" => s.client.streamId # NoStream

ChannelHolds ==
  /\ work.from <= Len(serve.log)
  /\ \A i \in 1..Len(messages) : MessageHolds(serve, messages[i])

\* Client c buffers events of s only, and has not run ahead of it.
Agrees(s, c) ==
  /\ \A f \in c.frames : Genuine(s, f)
  /\ c.streamId # NoStream =>
       /\ c.streamId = s.stream /\ "cursor" \in s.features
       /\ c.cursor <= Len(s.log) /\ c.latest <= Len(s.log)

ClientHolds == Agrees(serve, client)

SyncHolds ==
  app.synced =>
    /\ phase = "ready" /\ client.streamId # NoStream
    /\ MaxSuperseded = 0 => Shows(serve, client, app)

StreamInv ==
  /\ MaxSuperseded = 0 => superseded = {}
  /\ OfflineHolds
  /\ ChannelHolds
  /\ ClientHolds
  /\ SyncHolds

--------------------------------------------------------------------------------
(* What it takes besides for NothingLost, SnapshotNotOlder, StoredOnlyAdvances    *)
(* and RecoverySummaryHolds: what a connection in each phase still waits for.     *)

Asked(p, type) ==
  \/ p = "initializing" /\ type = "initialize"
  \/ p = "replaying"    /\ type = "replay"
  \/ p = "snapshotting" /\ type = "snapshot"

Answers(p, type) ==
  \/ p = "initializing" /\ type \in {"initialized", "error"}
  \/ p = "replaying"    /\ type \in {"page", "error"}
  \/ p = "snapshotting" /\ type \in {"snapshot", "error"}

\* One call is outstanding, the one the phase waits for: a request, work of Serve,
\* or a response.
CallHolds ==
  /\ Len(requests) <= 1
  /\ requests # <<>> => Asked(phase, Head(requests).type) /\ work = NoWork
  /\ work # NoWork => Asked(phase, work.type)
  /\ \A i \in 1..Len(messages) : messages[i].type # "event" =>
       /\ Answers(phase, messages[i].type)
       /\ requests = <<>> /\ work = NoWork
       /\ \A j \in 1..Len(messages) : messages[j].type # "event" => j = i

\* Serve broadcasts from the moment it takes initialize up; its answer is what gives
\* the client a stream.
AttachHolds ==
  /\ work.type = "initialize" => attached
  /\ \A i \in 1..Len(messages) : messages[i].type = "initialized" => attached
  /\ phase \notin {"offline", "initializing"} => attached
  /\ phase = "initializing" => client.streamId = NoStream
  /\ client.streamId = NoStream => client.bufferedStream \in {NoStream, serve.stream}

\* Nothing is missing after the event at which the recovery will set the cursor
AheadHolds ==
  /\ work.type = "initialize" /\ Numbered => Ahead(serve, client, messages, work.from)
  /\ \A i \in 1..Len(messages) :
       messages[i].type = "page" \/ (messages[i].type = "initialized" /\ Numbered) =>
         Ahead(serve, client, messages, messages[i].current)
  /\ phase = "replaying" => Ahead(serve, client, messages, client.latest)
  /\ NothingLost

\* The events a page stands for came before it
Paged(c, ms, i) ==
  \A n \in c.after + 1 .. ms[i].through :
    HasFrame(c.frames, n) \/ \E j \in 1 .. i - 1 : Carries(ms[j], n)

\* The cursor waits for every page
PageHolds ==
  /\ phase \in {"initializing", "replaying", "snapshotting"} => client.recovering
  /\ phase = "replaying" =>
       /\ client.cursor <= client.latest /\ client.cursor <= client.after
       /\ requests # <<>> => Head(requests).after = client.after
       /\ \A n \in client.cursor + 1 .. client.after : HasFrame(client.frames, n)
       /\ \A i \in 1..Len(messages) : messages[i].type = "page" =>
            /\ client.cursor <= messages[i].current
            /\ messages[i].snapshotRequired \/ messages[i].hasMore
                 \/ messages[i].current <= messages[i].through
            /\ Paged(client, messages, i)

\* A snapshot is taken of a log no shorter than the cursor that waits for it
WaitHolds ==
  /\ work.type = "snapshot" /\ client.streamId # NoStream => client.cursor <= work.from
  /\ SnapshotNotOlder

RecoveryInv == CallHolds /\ AttachHolds /\ AheadHolds /\ PageHolds /\ WaitHolds

\* The cursor in localStorage is the client's own
StoredHolds ==
  phase \notin {"offline", "initializing"} /\ client.streamId # NoStream =>
    stored = CursorOf(client)

\* Nothing is shown before the replay has ended
SummaryHolds ==
  /\ client.resumed # NoSequence => client.streamId # NoStream
  /\ phase = "initializing" /\ Numbered => app.tail = <<>>
  /\ phase = "replaying" => app.tail = <<>> /\ client.resumed = client.cursor
  /\ RecoverySummaryHolds

CursorInv == StoredHolds /\ SummaryHolds

================================================================================
