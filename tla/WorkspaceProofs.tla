--------------------------------- MODULE WorkspaceProofs ---------------------------------
(* Proofs about WorkspaceStartup: whatever starts, stops and closing sockets        *)
(* overlap, one client at most is connected (workspace-startup.ts), for any number  *)
(* of opens. And about WorkspaceView: whatever overlaps, a view at rest shows what   *)
(* the Core has (workspace-dev-state.ts), for any number of requests and changes. And *)
(* about Collaboration: what is shown of a channel has no gap, whatever is read,     *)
(* pushed out, posted or refused meanwhile, for any number of messages and reads. And *)
(* about GroupsDesk: what a window shows of an organization's Desk is of the binding *)
(* the organization has and no older than what the user was told of his own changes, *)
(* and a switch of the Space is not shown for ever (groups-state.ts, App.tsx),       *)
(* whatever answers, refusals, new bindings and closes come in whatever order, for   *)
(* any number of organizations and tasks. And that all a window reads is complete    *)
(* (WindowViews).                                                                    *)
EXTENDS WorkspaceStartup, WindowViews, FiniteSetTheorems, WellFoundedInduction, TLAPS

\* Why one client is connected: the epoch of an open is its own, and the current client
\* is the client of an open of the current epoch that has got past its connection.
\* A socket that is open is the current client's, so that whoever replaces the client
\* closes the only open socket.
EpochsAreTaken ==
  /\ \A i \in Opens : opens[i].epoch <= epoch
  /\ \A i, j \in Opens :
       opens[i].step # "none" /\ opens[j].step # "none" /\ opens[i].epoch = opens[j].epoch => i = j
ClientIsCurrent ==
  client # 0 => Current(client) /\ opens[client].step \notin {"none", "connecting"}
SocketsHaveOpens == \A i \in Opens : opens[i].step \in {"none", "connecting"} => sockets[i] = "none"
StartupInv == StartupTypeOK /\ EpochsAreTaken /\ ClientIsCurrent /\ SocketsHaveOpens /\ OneConnection

\* No client and no socket before the first start.
LEMMA StartupInit == InitStartup => StartupInv
  BY WorkspaceStartupAssumption, SMT
  DEF InitStartup, StartupInv, StartupTypeOK, EpochsAreTaken, ClientIsCurrent, SocketsHaveOpens, OneConnection, Opens, Steps

\* A socket that is asked to close leaves no other open.
LEMMA NothingStaysOpen ==
  ASSUME StartupInv
  PROVE  \A i \in Opens : Closing(client)[i] # "open" /\ Closing(client)[i] \in {"none", "closing", "closed"}
  BY SMT DEF StartupInv, StartupTypeOK, OneConnection, Closing, Opens

\* Every start, stop and late close keeps one client at most.
LEMMA StartupNext == StartupInv /\ [NextStartup]_startupVars => StartupInv'
<1> SUFFICES ASSUME StartupInv, [NextStartup]_startupVars PROVE StartupInv'
  OBVIOUS
<1> USE WorkspaceStartupAssumption DEF StartupInv, Opens, Steps
<1>1. CASE UNCHANGED startupVars
  BY <1>1 DEF startupVars, StartupTypeOK, EpochsAreTaken, ClientIsCurrent, SocketsHaveOpens, OneConnection, Current
<1>2. CASE Stop
  BY <1>2, NothingStaysOpen
  DEF Stop, StartupTypeOK, EpochsAreTaken, ClientIsCurrent, SocketsHaveOpens, OneConnection, Current, Closing
<1>3. ASSUME NEW i \in Opens, Start(i) PROVE StartupInv'
  BY SMTT(30), <1>3, NothingStaysOpen
  DEF Start, StartupTypeOK, EpochsAreTaken, ClientIsCurrent, SocketsHaveOpens, OneConnection, Current, Closing
<1>4. ASSUME NEW i \in Opens, Connected(i) PROVE StartupInv'
  <2>1. CASE Current(i)
    <3>1. \A j \in Opens : sockets[j] # "open"
      BY <1>4, <2>1 DEF Connected, Current, StartupTypeOK, EpochsAreTaken, ClientIsCurrent, SocketsHaveOpens, OneConnection
    <3>2. /\ opens' = [opens EXCEPT ![i].step = "handshake"] /\ sockets' = [sockets EXCEPT ![i] = "open"]
          /\ client' = i /\ phase' = "handshake" /\ UNCHANGED <<epoch, model, pending>>
      BY <1>4, <2>1 DEF Connected, At
    <3>3. StartupTypeOK'
      BY <3>2 DEF StartupTypeOK
    <3>4. EpochsAreTaken'
      BY <1>4, <3>2 DEF StartupTypeOK, EpochsAreTaken, Connected
    <3>5. ClientIsCurrent' /\ SocketsHaveOpens' /\ OneConnection'
      BY <2>1, <3>1, <3>2 DEF StartupTypeOK, ClientIsCurrent, SocketsHaveOpens, OneConnection, Current
    <3>6. QED BY <3>3, <3>4, <3>5
  <2>2. CASE ~Current(i)
    <3>1. /\ opens' = [opens EXCEPT ![i].step = "ended"] /\ pending' \in {0, pending}
          /\ UNCHANGED <<epoch, model, sockets, client, phase>>
      BY <1>4, <2>2 DEF Connected, Ended, At
    <3>2. StartupTypeOK'
      BY <3>1 DEF StartupTypeOK
    <3>3. EpochsAreTaken'
      BY <1>4, <3>1 DEF StartupTypeOK, EpochsAreTaken, Connected
    <3>4. ClientIsCurrent' /\ SocketsHaveOpens' /\ OneConnection'
      BY <3>1 DEF StartupTypeOK, ClientIsCurrent, SocketsHaveOpens, OneConnection, Current
    <3>5. QED BY <3>2, <3>3, <3>4
  <2>3. QED BY <2>1, <2>2
<1>5. ASSUME NEW i \in Opens, Initialized(i) PROVE StartupInv'
  <2>1. CASE Current(i)
    <3>1. /\ opens' = [opens EXCEPT ![i].step = "loading"] /\ phase' = "loading"
          /\ UNCHANGED <<epoch, model, sockets, client, pending>>
      BY <1>5, <2>1 DEF Initialized, At
    <3>2. StartupTypeOK'
      BY <3>1 DEF StartupTypeOK
    <3>3. EpochsAreTaken'
      BY <1>5, <3>1 DEF StartupTypeOK, EpochsAreTaken, Initialized
    <3>4. ClientIsCurrent' /\ SocketsHaveOpens' /\ OneConnection'
      BY <3>1 DEF StartupTypeOK, ClientIsCurrent, SocketsHaveOpens, OneConnection, Current
    <3>5. QED BY <3>2, <3>3, <3>4
  <2>2. CASE ~Current(i)
    <3>1. client # i /\ sockets[i] = "open"
      BY <1>5, <2>2 DEF Initialized, ClientIsCurrent, StartupTypeOK
    <3>2. QED BY <1>5, <3>1 DEF OneConnection
  <2>3. QED BY <2>1, <2>2
<1>6. ASSUME NEW i \in Opens, Loaded(i) PROVE StartupInv'
  BY <1>6
  DEF Loaded, Closing, Ended, At, Current, StartupTypeOK, EpochsAreTaken, ClientIsCurrent, SocketsHaveOpens, OneConnection
<1>7. ASSUME NEW i \in Opens, Failed(i) PROVE StartupInv'
  BY SMTT(30), <1>7
  DEF Failed, Closing, Ended, At, Current, StartupTypeOK, EpochsAreTaken, ClientIsCurrent, SocketsHaveOpens, OneConnection
<1>8. ASSUME NEW i \in Opens, SocketCloses(i) PROVE StartupInv'
  BY <1>8 DEF SocketCloses, Current, StartupTypeOK, EpochsAreTaken, ClientIsCurrent, SocketsHaveOpens, OneConnection
<1>9. ASSUME NEW i \in Opens, SocketClosed(i) PROVE StartupInv'
  <2>1. /\ sockets[i] = "closing" /\ sockets' = [sockets EXCEPT ![i] = "closed"] /\ UNCHANGED opens
    BY <1>9 DEF SocketClosed
  <2>2. CASE Current(i) /\ model # 0
    <3>1. phase' = "disconnected" /\ UNCHANGED <<epoch, client, pending, model>>
      BY <1>9, <2>2 DEF SocketClosed, Disconnect, AnyDisconnect
    <3>2. QED
      BY <2>1, <3>1 DEF StartupTypeOK, EpochsAreTaken, ClientIsCurrent, SocketsHaveOpens, OneConnection, Current
  <2>3. CASE Current(i) /\ model = 0
    <3>1. epoch' = epoch + 1 /\ client' = 0 /\ pending' = 0 /\ phase' = "failed" /\ model' = 0
      BY <1>9, <2>3 DEF SocketClosed, Disconnect, AnyDisconnect
    <3>2. \A j \in Opens : sockets[j] # "open"
      BY <2>1, <2>3 DEF Current, StartupTypeOK, EpochsAreTaken, ClientIsCurrent, SocketsHaveOpens, OneConnection
    <3>3. QED
      BY <2>1, <3>1, <3>2 DEF StartupTypeOK, EpochsAreTaken, ClientIsCurrent, SocketsHaveOpens, OneConnection, Current
  <2>4. CASE ~Current(i)
    <3>1. UNCHANGED <<epoch, phase, model, client, pending>>
      BY <1>9, <2>4 DEF SocketClosed, Disconnect
    <3>2. client # i
      BY <2>4 DEF ClientIsCurrent
    <3>3. QED
      BY <2>1, <3>1, <3>2 DEF StartupTypeOK, EpochsAreTaken, ClientIsCurrent, SocketsHaveOpens, OneConnection, Current
  <2>5. QED BY <2>2, <2>3, <2>4
<1>10. QED
  BY <1>1, <1>2, <1>3, <1>4, <1>5, <1>6, <1>7, <1>8, <1>9 DEF NextStartup

\* However starts, stops and closing sockets overlap, at most the current client is
\* connected, and a model shown as ready reads from it (WorkspaceStartupModel.open).
THEOREM OnlyOneConnection == SpecStartup => []OneConnection
<1>1. StartupInv => OneConnection
  BY DEF StartupInv
<1>2. QED
  BY StartupInit, StartupNext, <1>1, PTL DEF SpecStartup

--------------------------------------------------------------------------------
(* WorkspaceView: what is read is in order, one refresh runs at a time, and what is   *)
(* stale is due to be read again.                                                   *)

\* What the Core has read of the requests is on the wire, in their order; the others
\* wait, in order, and an awaited one is on the wire or waits.
Unread == Len(viewReads) - Len(queue)
InOrder ==
  /\ Len(queue) <= Len(viewReads)
  /\ \A i \in 1..Len(queue) : queue[i] = Unread + i
  /\ \A i \in 1..Len(wire) : wire[i].read <= Unread
  /\ \A i, j \in 1..Len(wire) : i < j /\ wire[i].read # 0 /\ wire[j].read # 0 => wire[i].read < wire[j].read
  /\ \A r \in awaited : r <= Len(viewReads) /\ (r <= Unread => \E i \in 1..Len(wire) : wire[i].read = r)
  /\ reading # Nobody => queue # <<>>
  /\ core.generation <= core.version

\* A request of the epoch that is shown
OfEpoch(r) == viewReads[r].epoch = viewEpoch
Refresher(r) == viewReads[r].kind = "snapshot"

\* Of the requests of an epoch, the first selects, and then there is nothing to show; a
\* refresh follows it, one at a time.
OneRefresh ==
  /\ \A r \in 1..Len(viewReads) : viewReads[r].epoch <= viewEpoch
  /\ refreshing # Nobody => refreshing <= viewEpoch
  /\ \A r \in awaited : OfEpoch(r) /\ ~Refresher(r) => shown = Nobody /\ \A q \in awaited : OfEpoch(q) => r <= q
  /\ \A r, q \in awaited : OfEpoch(r) /\ OfEpoch(q) /\ Refresher(r) /\ Refresher(q) => r = q
  /\ \A r \in awaited : OfEpoch(r) /\ Refresher(r) => refreshing = viewEpoch
  /\ refreshing = viewEpoch => \E r \in awaited : OfEpoch(r) /\ Refresher(r)

\* The answer to a request will show what the Core no longer has.
Old(value) == value # Nobody /\ value.version # core.version
Stale(r) ==
  \/ \E i \in 1..Len(wire) : wire[i].read = r /\ Old(wire[i].value)
  \/ r = Unread + 1 /\ Old(reading)

\* Something will tell the view to read again, or something is read after request n.
Due(n) ==
  \/ \E i \in 1..Len(wire) : wire[i].read = Announcement
  \/ overlooked
  \/ dirty /\ refreshing = viewEpoch
  \/ \E q \in awaited : n < q /\ OfEpoch(q) /\ ~Stale(q)
StaleIsDue ==
  /\ Old(shown) => notice \/ Due(0)
  /\ \A r \in awaited : OfEpoch(r) /\ Stale(r) => Due(r)

ViewInv == ViewTypeOK /\ InOrder /\ OneRefresh /\ StaleIsDue

\* A view that shows nothing has asked for nothing.
LEMMA ViewStart == InitView => ViewInv
<1> SUFFICES ASSUME InitView PROVE ViewInv
  OBVIOUS
<1> USE DEF InitView
<1>1. /\ <<>> \in Seq(Read) /\ <<>> \in Seq(1..MaxViewReads)
      /\ <<>> \in Seq([read : 0..MaxViewReads, value : Snapshot \union {Nobody}])
      /\ Len(viewReads) = 0 /\ Len(queue) = 0 /\ Len(wire) = 0
  OBVIOUS
<1>2. ViewTypeOK
  <2>1. core \in [version : 0..MaxVersions, generation : 0..MaxVersions]
    BY ViewAssumption
  <2>2. viewReads \in Seq(Read) /\ queue \in Seq(1..MaxViewReads)
        /\ wire \in Seq([read : 0..MaxViewReads, value : Snapshot \union {Nobody}])
    BY <1>1
  <2>3. Len(viewReads) <= MaxViewReads /\ viewEpoch \in Nat
    BY <1>1, ViewAssumption
  <2> QED
    BY <2>1, <2>2, <2>3 DEF ViewTypeOK
<1>3. InOrder
  BY <1>1 DEF InOrder, Unread
<1>4. OneRefresh /\ StaleIsDue
  BY <1>1, ViewAssumption DEF OneRefresh, StaleIsDue, Old
<1> QED
  BY <1>2, <1>3, <1>4 DEF ViewInv

\* What a sequence is without its first element.
LEMMA TailFact ==
  ASSUME NEW S, NEW s \in Seq(S), s # <<>>
  PROVE  /\ Len(s) \in Nat \ {0} /\ Head(s) = s[1] /\ Head(s) \in S
         /\ Tail(s) \in Seq(S) /\ Len(Tail(s)) = Len(s) - 1
         /\ \A i \in 1..Len(s) - 1 : Tail(s)[i] = s[i + 1]
OBVIOUS

\* What a sequence is made of.
LEMMA ElementFact ==
  ASSUME NEW S, NEW s \in Seq(S)
  PROVE  Len(s) \in Nat /\ \A i \in 1..Len(s) : s[i] \in S
OBVIOUS

\* What a sequence is with one more element.
LEMMA AppendFact ==
  ASSUME NEW S, NEW s \in Seq(S), NEW x \in S
  PROVE  /\ Append(s, x) \in Seq(S) /\ Len(s) \in Nat /\ Len(Append(s, x)) = Len(s) + 1
         /\ \A i \in 1..Len(s) : Append(s, x)[i] = s[i]
         /\ Append(s, x)[Len(s) + 1] = x
OBVIOUS

\* What the view does to the requests: it makes one more, or none, and reads one message
\* of the wire, or none.
Asks(x, more) ==
  /\ viewReads' = (IF more THEN Append(viewReads, x) ELSE viewReads)
  /\ queue' = (IF more THEN Append(queue, Len(viewReads) + 1) ELSE queue)
  /\ more => Len(viewReads) < MaxViewReads
  /\ awaited' \subseteq awaited \union (IF more THEN {Len(viewReads) + 1} ELSE {})
Hears ==
  \/ wire' = wire
  \/ wire # <<>> /\ wire' = Tail(wire) /\ Head(wire).read \notin awaited'

\* When one request more is made, or none, and a message is heard that nobody waits for,
\* or none: the requests and answers stay in order, and an answer is as stale as it was.
LEMMA AsksKeeps ==
  ASSUME ViewInv, NEW x \in Read, NEW more \in BOOLEAN, Asks(x, more), Hears,
         UNCHANGED <<reading, core>>
  PROVE  /\ viewReads' \in Seq(Read) /\ Len(viewReads') <= MaxViewReads
         /\ awaited' \subseteq 1..MaxViewReads /\ queue' \in Seq(1..MaxViewReads)
         /\ wire' \in Seq([read : 0..MaxViewReads, value : Snapshot \union {Nobody}])
         /\ Len(viewReads) \in Nat
         /\ Len(viewReads') = Len(viewReads) + (IF more THEN 1 ELSE 0)
         /\ \A r \in 1..Len(viewReads) : viewReads'[r] = viewReads[r]
         /\ more => viewReads'[Len(viewReads) + 1] = x
         /\ InOrder'
         /\ \A r \in awaited : r \in 1..Len(viewReads)
         /\ \A r \in awaited \intersect awaited' : Stale(r)' <=> Stale(r)
         /\ \A n : more /\ n = Len(viewReads) + 1 => ~Stale(n)'
         /\ \A i \in 1..Len(wire) :
              wire[i].read = Announcement =>
                \/ \E j \in 1..Len(wire') : wire'[j].read = Announcement
                \/ i = 1 /\ Head(wire).read = Announcement /\ wire' = Tail(wire)
<1> DEFINE Wired == [read : 0..MaxViewReads, value : Snapshot \union {Nobody}]
<1>0. MaxViewReads \in Nat
  BY ViewAssumption
<1>1. /\ viewReads \in Seq(Read) /\ queue \in Seq(1..MaxViewReads) /\ wire \in Seq(Wired)
      /\ awaited \subseteq 1..MaxViewReads /\ Len(viewReads) <= MaxViewReads
      /\ Len(viewReads) \in Nat /\ Len(queue) \in Nat /\ Len(wire) \in Nat
  BY DEF ViewInv, ViewTypeOK
<1> HIDE DEF Wired
<1>2. /\ viewReads' \in Seq(Read) /\ Len(viewReads') = Len(viewReads) + (IF more THEN 1 ELSE 0)
      /\ \A r \in 1..Len(viewReads) : viewReads'[r] = viewReads[r]
      /\ more => viewReads'[Len(viewReads) + 1] = x
  BY <1>1, AppendFact DEF Asks
<1>3. more => Len(viewReads) + 1 \in 1..MaxViewReads
  BY <1>0, <1>1 DEF Asks
<1>4. /\ queue' \in Seq(1..MaxViewReads) /\ Len(queue') = Len(queue) + (IF more THEN 1 ELSE 0)
      /\ \A i \in 1..Len(queue) : queue'[i] = queue[i]
      /\ more => queue'[Len(queue) + 1] = Len(viewReads) + 1
  <2> HIDE DEF Asks
  <2>1. CASE more
    <3>1. queue' = Append(queue, Len(viewReads) + 1)
      BY <2>1 DEF Asks
    <3>2. QED
      BY <1>1, <1>3, <2>1, <3>1, AppendFact
  <2>2. CASE ~more
    BY <1>1, <2>2 DEF Asks
  <2> QED
    BY <2>1, <2>2
<1>5. /\ Len(viewReads') <= MaxViewReads /\ awaited' \subseteq 1..MaxViewReads
  BY <1>0, <1>1, <1>2, <1>3 DEF Asks
<1>6. Unread' = Unread /\ Unread \in Nat /\ Unread <= Len(viewReads) /\ Len(queue) <= Len(viewReads)
  BY <1>1, <1>2, <1>4 DEF Unread, ViewInv, InOrder
<1>7. PICK d \in {0, 1} :
        /\ Len(wire') = Len(wire) - d /\ Len(wire') \in Nat
        /\ \A i \in 1..Len(wire') : wire'[i] = wire[i + d]
        /\ d = 1 => wire[1].read \notin awaited' /\ Head(wire) = wire[1] /\ wire' = Tail(wire)
        /\ wire' \in Seq(Wired)
  <2>1. CASE wire' = wire
    <3>1. \A i \in 1..Len(wire') : wire'[i] = wire[i + 0]
      BY <1>1, <2>1
    <3> QED
      BY <1>1, <2>1, <3>1
  <2>2. CASE wire # <<>> /\ wire' = Tail(wire) /\ Head(wire).read \notin awaited'
    <3>1. /\ Len(wire) \in Nat \ {0} /\ Head(wire) = wire[1]
          /\ Tail(wire) \in Seq(Wired) /\ Len(Tail(wire)) = Len(wire) - 1
          /\ \A i \in 1..Len(wire) - 1 : Tail(wire)[i] = wire[i + 1]
      BY <1>1, <2>2, TailFact
    <3>2. /\ Len(wire') = Len(wire) - 1 /\ Len(wire') \in Nat
          /\ \A i \in 1..Len(wire') : wire'[i] = wire[i + 1]
          /\ wire[1].read \notin awaited' /\ Head(wire) = wire[1] /\ wire' = Tail(wire)
          /\ wire' \in Seq(Wired)
      BY <1>1, <2>2, <3>1
    <3> QED
      BY <3>2
  <2> QED
    BY <2>1, <2>2 DEF Hears
<1>8. /\ wire' \in Seq(Wired)
      /\ \A i \in 1..Len(wire) : wire[i].read \in Nat
      /\ \A i \in 1..Len(wire') : wire'[i].read \in Nat
  <2>1. wire' \in Seq(Wired)
    BY <1>7
  <2>2. \A e \in Wired : e.read \in Nat
    BY <1>0 DEF Wired
  <2>3. (\A i \in 1..Len(wire) : wire[i] \in Wired) /\ \A i \in 1..Len(wire') : wire'[i] \in Wired
    BY <1>1, <2>1
  <2> QED
    BY <2>1, <2>2, <2>3
<1>o. InOrder
  BY DEF ViewInv
<1>9. \A r \in awaited : r \in 1..Len(viewReads)
  BY <1>1, <1>o DEF InOrder
<1>10. \A i \in 1..Len(wire') : i + d \in 1..Len(wire) /\ wire'[i] = wire[i + d]
  BY <1>1, <1>7
<1>11. \A r \in awaited', i \in 1..Len(wire) :
         wire[i].read = r => i - d \in 1..Len(wire') /\ wire'[i - d] = wire[i]
  <2> SUFFICES ASSUME NEW r \in awaited', NEW i \in 1..Len(wire), wire[i].read = r
               PROVE  i - d \in 1..Len(wire') /\ wire'[i - d] = wire[i]
    OBVIOUS
  <2>1. i - d \in 1..Len(wire')
    BY <1>1, <1>7
  <2>2. wire'[i - d] = wire[i - d + d] /\ i - d + d = i
    BY <1>1, <1>7, <2>1
  <2> QED
    BY <2>1, <2>2
<1>12. InOrder'
  <2>1. Len(queue') <= Len(viewReads')
    BY <1>1, <1>2, <1>4, <1>6
  <2>2. \A i \in 1..Len(queue') : queue'[i] = Unread' + i
    <3> SUFFICES ASSUME NEW i \in 1..Len(queue') PROVE queue'[i] = Unread' + i
      OBVIOUS
    <3>1. CASE i \in 1..Len(queue)
      BY <1>4, <1>6, <1>o, <3>1 DEF InOrder
    <3>2. CASE i = Len(queue) + 1 /\ more
      BY <1>1, <1>4, <1>6, <3>2 DEF Unread
    <3> QED
      BY <1>1, <1>4, <3>1, <3>2
  <2>3. \A i \in 1..Len(wire') : wire'[i].read <= Unread'
    BY <1>6, <1>10, <1>o DEF InOrder
  <2>4. \A i, j \in 1..Len(wire') :
          i < j /\ wire'[i].read # 0 /\ wire'[j].read # 0 => wire'[i].read < wire'[j].read
    <3> SUFFICES ASSUME NEW i \in 1..Len(wire'), NEW j \in 1..Len(wire'), i < j,
                        wire'[i].read # 0, wire'[j].read # 0
                 PROVE  wire'[i].read < wire'[j].read
      OBVIOUS
    <3>1. i + d < j + d
      BY <1>7
    <3>2. /\ i + d \in 1..Len(wire) /\ wire'[i] = wire[i + d]
          /\ j + d \in 1..Len(wire) /\ wire'[j] = wire[j + d]
      BY <1>10
    <3> QED
      BY <1>o, <3>1, <3>2 DEF InOrder
  <2>5. \A r \in awaited' : r <= Len(viewReads') /\ (r <= Unread' => \E i \in 1..Len(wire') : wire'[i].read = r)
    <3> SUFFICES ASSUME NEW r \in awaited'
                 PROVE  r <= Len(viewReads') /\ (r <= Unread' => \E i \in 1..Len(wire') : wire'[i].read = r)
      OBVIOUS
    <3>1. CASE r \in awaited
      <4>1. r <= Len(viewReads')
        BY <1>1, <1>2, <1>9, <3>1
      <4>2. r <= Unread' => \E i \in 1..Len(wire) : wire[i].read = r
        BY <1>6, <1>o, <3>1 DEF InOrder
      <4>3. r <= Unread' => \E i \in 1..Len(wire') : wire'[i].read = r
        BY <1>11, <4>2
      <4> QED
        BY <4>1, <4>3
    <3>2. CASE r \notin awaited
      <4>1. more /\ r = Len(viewReads) + 1
        BY <3>2 DEF Asks
      <4> QED
        BY <1>1, <1>2, <1>6, <4>1
    <3> QED
      BY <3>1, <3>2
  <2>6. reading' # Nobody => queue' # <<>>
    <3>1. reading' # Nobody => Len(queue) # 0
      BY <1>1, <1>o DEF InOrder
    <3>2. reading' # Nobody => Len(queue') # 0
      BY <1>1, <1>4, <3>1
    <3> QED
      BY <3>2
  <2>7. core'.generation <= core'.version
    BY <1>o DEF InOrder
  <2> QED
    BY <2>2, <2>1, <2>3, <2>4, <2>5, <2>6, <2>7 DEF InOrder
<1>13. \A r \in awaited \intersect awaited' : Stale(r)' <=> Stale(r)
  <2> SUFFICES ASSUME NEW r \in awaited \intersect awaited' PROVE Stale(r)' <=> Stale(r)
    OBVIOUS
  <2>1. ASSUME NEW i \in 1..Len(wire'), wire'[i].read = r, Old(wire[i].value)'
        PROVE  \E j \in 1..Len(wire) : wire[j].read = r /\ Old(wire[j].value)
    BY <1>10, <2>1 DEF Old
  <2>2. ASSUME NEW i \in 1..Len(wire), wire[i].read = r, Old(wire[i].value)
        PROVE  \E j \in 1..Len(wire') : wire'[j].read = r /\ Old(wire[j].value)'
    BY <1>11, <2>2 DEF Old
  <2>3. Old(reading)' <=> Old(reading)
    BY DEF Old
  <2> QED
    BY <1>6, <2>1, <2>2, <2>3 DEF Stale
<1>14. \A n : more /\ n = Len(viewReads) + 1 => ~Stale(n)'
  <2> SUFFICES ASSUME more, NEW n, n = Len(viewReads) + 1 PROVE ~Stale(n)'
    OBVIOUS
  <2>1. \A i \in 1..Len(wire') : wire'[i].read # n
    BY <1>1, <1>6, <1>8, <1>12 DEF InOrder
  <2>2. Len(viewReads) = Unread => reading = Nobody
    <3>1. Len(viewReads) = Unread => Len(queue) = 0
      BY <1>1 DEF Unread
    <3> QED
      BY <1>1, <1>o, <3>1 DEF InOrder
  <2>3. Len(viewReads) = Unread => ~Old(reading)'
    BY <2>2 DEF Old
  <2>4. n = Unread' + 1 => Len(viewReads) = Unread
    BY <1>1, <1>6
  <2> QED
    BY <2>1, <2>3, <2>4 DEF Stale
<1>15. \A i \in 1..Len(wire) :
         wire[i].read = Announcement =>
           \/ \E j \in 1..Len(wire') : wire'[j].read = Announcement
           \/ i = 1 /\ Head(wire).read = Announcement /\ wire' = Tail(wire)
  <2> SUFFICES ASSUME NEW i \in 1..Len(wire), wire[i].read = Announcement
               PROVE  \/ \E j \in 1..Len(wire') : wire'[j].read = Announcement
                      \/ i = 1 /\ Head(wire).read = Announcement /\ wire' = Tail(wire)
    OBVIOUS
  <2>1. CASE d = 1 /\ i = 1
    BY <1>7, <2>1
  <2>2. CASE ~(d = 1 /\ i = 1)
    <3>1. i - d \in 1..Len(wire') /\ i - d + d = i
      BY <1>1, <1>7, <2>2
    <3>2. wire'[i - d] = wire[i]
      BY <1>7, <3>1
    <3> QED
      BY <3>1, <3>2
  <2> QED
    BY <2>1, <2>2
<1>16. wire' \in Seq([read : 0..MaxViewReads, value : Snapshot \union {Nobody}])
  BY <1>8 DEF Wired
<1> QED
  BY <1>1, <1>2, <1>4, <1>5, <1>9, <1>12, <1>13, <1>14, <1>15, <1>16

\* The types of what the view keeps, when requests are made and heard as above.
LEMMA ViewTyped ==
  ASSUME ViewInv, NEW x \in Read, NEW more \in BOOLEAN, Asks(x, more), Hears,
         UNCHANGED <<reading, core>>,
         viewEpoch' \in Nat, agent' \in Agents \union {Nobody}, shown' \in Snapshot \union {Nobody},
         notice' \in BOOLEAN, dirty' \in BOOLEAN, overlooked' \in BOOLEAN,
         refreshing' \in Nat \union {Nobody}
  PROVE  ViewTypeOK'
BY AsksKeeps DEF ViewInv, ViewTypeOK, Snapshot, Read

\* A selection begins an epoch, in which only its own request counts.
LEMMA Selects ==
  ASSUME ViewInv, NEW kind \in {"select", "agent"}, NEW who \in Agents \union {Nobody},
         viewEpoch' = viewEpoch + 1, agent' = who, shown' = Nobody, notice' = FALSE,
         Request(kind, who, viewEpoch + 1),
         UNCHANGED <<refreshing, dirty, reading, wire, core>>
  PROVE  ViewInv'
<1> DEFINE x == [kind |-> kind, agent |-> who, epoch |-> viewEpoch + 1]
<1>n. PICK n : n = Len(viewReads) + 1
  OBVIOUS
<1>1. viewEpoch \in Nat /\ refreshing \in Nat \union {Nobody} /\ dirty \in BOOLEAN
  BY DEF ViewInv, ViewTypeOK
<1>2. x \in Read /\ x.epoch = viewEpoch + 1
  BY <1>1 DEF Read
<1> HIDE DEF x
<1>3. Asks(x, TRUE) /\ Hears /\ awaited' = awaited \union {n} /\ overlooked' = FALSE
  BY <1>n DEF Asks, Hears, Request, x
<1>4. /\ Len(viewReads) \in Nat /\ Len(viewReads') = n
      /\ \A r \in 1..Len(viewReads) : viewReads'[r] = viewReads[r]
      /\ viewReads'[n] = x
      /\ InOrder' /\ \A r \in awaited : r \in 1..Len(viewReads)
      /\ ~Stale(n)'
  BY <1>n, <1>2, <1>3, AsksKeeps
<1>5. ViewTypeOK'
  <2>1. /\ viewEpoch' \in Nat /\ agent' \in Agents \union {Nobody} /\ shown' \in Snapshot \union {Nobody}
        /\ refreshing' \in Nat \union {Nobody}
    BY <1>1
  <2>2. notice' \in BOOLEAN /\ dirty' \in BOOLEAN /\ overlooked' \in BOOLEAN
    BY <1>1, <1>3
  <2> QED
    BY <1>2, <1>3, <2>1, <2>2, ViewTyped
<1>6. \A r \in 1..Len(viewReads) : viewReads'[r].epoch <= viewEpoch /\ viewReads[r].epoch \in Nat
  <2>1. \A r \in 1..Len(viewReads) : viewReads[r] \in Read
    BY DEF ViewInv, ViewTypeOK
  <2> QED
    BY <1>4, <2>1 DEF ViewInv, OneRefresh, Read
<1>7. \A r \in awaited' : OfEpoch(r)' => r = n
  BY <1>1, <1>3, <1>4, <1>6 DEF OfEpoch
<1>8. refreshing' # viewEpoch'
  BY <1>1, ViewAssumption DEF ViewInv, OneRefresh
<1>9. n \in awaited' /\ ~Refresher(n)'
  BY <1>3, <1>4 DEF Refresher, x
<1>10. OneRefresh'
  <2>1. \A r \in 1..Len(viewReads') : viewReads'[r].epoch <= viewEpoch'
    BY <1>n, <1>1, <1>2, <1>4, <1>6
  <2>2. refreshing' # Nobody => refreshing' <= viewEpoch'
    BY <1>1 DEF ViewInv, OneRefresh
  <2>3. \A r \in awaited' : OfEpoch(r)' /\ ~Refresher(r)' =>
          shown' = Nobody /\ \A q \in awaited' : OfEpoch(q)' => r <= q
    BY <1>4, <1>7
  <2>4. \A r \in awaited' : OfEpoch(r)' => ~Refresher(r)'
    BY <1>4, <1>7, <1>9 DEF Refresher, x
  <2> QED
    BY <1>8, <2>1, <2>2, <2>3, <2>4 DEF OneRefresh
<1>11. StaleIsDue'
  BY <1>4, <1>7 DEF StaleIsDue, Old
<1> QED
  BY <1>4, <1>5, <1>10, <1>11 DEF ViewInv

\* A refresh reads what is there, itself or by another round of the one under way.
LEMMA Refreshes ==
  ASSUME ViewInv, agent # Nobody, Refreshing, Hears,
         UNCHANGED <<viewEpoch, agent, shown, notice, reading, core>>
  PROVE  ViewInv'
<1> DEFINE x == [kind |-> "snapshot", agent |-> agent, epoch |-> viewEpoch]
<1>n. PICK n : n = Len(viewReads) + 1
  OBVIOUS
<1>1. /\ viewEpoch \in Nat /\ refreshing \in Nat \union {Nobody} /\ dirty \in BOOLEAN
      /\ agent \in Agents /\ overlooked \in BOOLEAN /\ notice \in BOOLEAN
      /\ shown \in Snapshot \union {Nobody}
  BY DEF ViewInv, ViewTypeOK
<1>2. x \in Read /\ x.epoch = viewEpoch /\ x.kind = "snapshot"
  BY <1>1 DEF Read
<1> HIDE DEF x
<1>3. CASE refreshing = viewEpoch
  <2>1. Asks(x, FALSE) /\ awaited' = awaited /\ dirty' = TRUE /\ UNCHANGED <<refreshing, viewReads, overlooked>>
    BY <1>3 DEF Asks, Refreshing
  <2>2. InOrder' /\ \A r \in awaited : r \in 1..Len(viewReads)
    BY <1>2, <2>1, AsksKeeps
  <2>3. ViewTypeOK'
    BY <1>1, <1>2, <2>1, ViewTyped
  <2>4. OneRefresh'
    BY <2>1 DEF ViewInv, OneRefresh, OfEpoch, Refresher
  <2>5. \A m : Due(m)'
    BY <1>3, <2>1 DEF Due
  <2>6. StaleIsDue'
    BY <2>5 DEF StaleIsDue
  <2> QED
    BY <2>2, <2>3, <2>4, <2>6 DEF ViewInv
<1>4. CASE refreshing # viewEpoch
  <2>1. /\ Asks(x, TRUE) /\ awaited' = awaited \union {n} /\ overlooked' = FALSE
        /\ refreshing' = viewEpoch /\ dirty' = dirty
    BY <1>n, <1>4 DEF Asks, Refreshing, Request, x
  <2>2. /\ Len(viewReads) \in Nat /\ Len(viewReads') = n
        /\ \A r \in 1..Len(viewReads) : viewReads'[r] = viewReads[r]
        /\ viewReads'[n] = x
        /\ InOrder' /\ \A r \in awaited : r \in 1..Len(viewReads)
        /\ ~Stale(n)'
    BY <1>n, <1>2, <2>1, AsksKeeps
  <2>3. ViewTypeOK'
    BY <1>1, <1>2, <2>1, ViewTyped
  <2>4. OfEpoch(n)' /\ Refresher(n)' /\ n \in awaited'
    BY <1>2, <2>1, <2>2 DEF OfEpoch, Refresher
  <2>5. \A r \in awaited : /\ OfEpoch(r)' <=> OfEpoch(r)
                           /\ Refresher(r)' <=> Refresher(r)
                           /\ r \in awaited' /\ r < n
    BY <1>n, <2>1, <2>2 DEF OfEpoch, Refresher
  <2>6. \A r \in awaited : ~(OfEpoch(r) /\ Refresher(r))
    BY <1>4 DEF ViewInv, OneRefresh
  <2>7. OneRefresh'
    <3>1. \A r \in 1..Len(viewReads') : viewReads'[r].epoch <= viewEpoch'
      BY <1>n, <1>1, <1>2, <2>2 DEF ViewInv, OneRefresh
    <3>2. refreshing' # Nobody => refreshing' <= viewEpoch'
      BY <1>1, <2>1
    <3>3. \A r \in awaited' : r \in awaited \/ r = n
      BY <2>1
    <3>4. ASSUME NEW r \in awaited', OfEpoch(r)', ~Refresher(r)'
          PROVE  shown' = Nobody /\ \A q \in awaited' : OfEpoch(q)' => r <= q
      <4>1. r \in awaited
        BY <2>4, <3>3, <3>4
      <4>2. shown = Nobody /\ \A q \in awaited : OfEpoch(q) => r <= q
        BY <2>5, <3>4, <4>1 DEF ViewInv, OneRefresh
      <4>3. r < n
        BY <2>5, <4>1
      <4>4. r <= n
        BY <2>2, <4>1, <4>3
      <4> QED
        BY <2>5, <3>3, <4>2, <4>4
    <3>5. \A r, q \in awaited' : OfEpoch(r)' /\ OfEpoch(q)' /\ Refresher(r)' /\ Refresher(q)' => r = q
      BY <2>5, <2>6, <3>3
    <3> QED
      BY <2>1, <2>4, <3>1, <3>2, <3>4, <3>5 DEF OneRefresh
  <2>8. Due(0)' /\ \A r \in awaited : Due(r)'
    <3>1. 0 < n
      BY <1>n, <2>2
    <3> QED
      BY <2>2, <2>4, <2>5, <3>1 DEF Due
  <2>9. StaleIsDue'
    BY <2>1, <2>2, <2>8 DEF StaleIsDue
  <2> QED
    BY <2>2, <2>3, <2>7, <2>9 DEF ViewInv
<1> QED
  BY <1>3, <1>4

\* The oldest request ends. What was due is due still, but for an answer that was to come
\* for this request; and a request of the epoch that comes after it is a refresh.
LEMMA RequestEnds ==
  ASSUME ViewInv, NEW r \in awaited, \A q \in awaited : r <= q, Ends(r, FALSE),
         wire' = wire \/ (wire # <<>> /\ wire' = Tail(wire) /\ Head(wire).read = r),
         UNCHANGED <<viewEpoch, reading, core>>,
         shown' = shown \/ (OfEpoch(r) /\ shown' \in Snapshot),
         agent' \in Agents \union {Nobody}, notice' \in BOOLEAN
  PROVE  /\ ViewTypeOK' /\ InOrder' /\ OneRefresh'
         /\ \A q \in awaited' : OfEpoch(q)' /\ Stale(q)' => Due(q)'
         /\ \A m \in 0..Len(viewReads) : Due(m) => Due(m)' \/ (m < r /\ OfEpoch(r) /\ ~Stale(r))
<1> DEFINE x == viewReads[r]
<1>n. PICK n : n = Len(viewReads) + 1
  OBVIOUS
<1>1. /\ viewEpoch \in Nat /\ refreshing \in Nat \union {Nobody} /\ dirty \in BOOLEAN
      /\ overlooked \in BOOLEAN /\ shown \in Snapshot \union {Nobody}
      /\ viewReads \in Seq(Read) /\ awaited \subseteq 1..MaxViewReads
      /\ Len(viewReads) \in Nat
  BY DEF ViewInv, ViewTypeOK
<1>2. /\ r \in 1..Len(viewReads) /\ r \in Nat /\ r # 0
      /\ \A q \in awaited : q \in 1..Len(viewReads)
  BY <1>1 DEF ViewInv, InOrder
<1>3. x \in Read /\ \A q \in awaited : viewReads[q].epoch \in Nat
  <2>1. \A q \in 1..Len(viewReads) : viewReads[q] \in Read
    BY <1>1
  <2> QED
    BY <1>2, <2>1 DEF Read
<1>4. PICK more \in BOOLEAN :
        /\ Asks(x, more)
        /\ awaited' = (awaited \ {r}) \union (IF more THEN {n} ELSE {})
        /\ more => OfEpoch(r) /\ Refresher(r) /\ overlooked' = FALSE
        /\ refreshing' # refreshing => /\ refreshing' = Nobody /\ ~more /\ refreshing = viewReads[r].epoch
                                       /\ Refresher(r)
        /\ dirty /\ refreshing = viewEpoch =>
             more \/ (refreshing' = refreshing /\ dirty' = dirty)
        /\ overlooked' \in BOOLEAN /\ (overlooked => overlooked' \/ more)
        /\ dirty' \in BOOLEAN
        /\ refreshing = viewReads[r].epoch /\ Refresher(r) /\ ~more => refreshing' = Nobody
  <2>1. CASE /\ Refresher(r) /\ refreshing = viewReads[r].epoch
             /\ dirty /\ viewReads[r].epoch = viewEpoch
    <3>1. /\ Asks(x, TRUE) /\ awaited' = (awaited \ {r}) \union {n} /\ overlooked' = FALSE
          /\ refreshing' = refreshing /\ dirty' = FALSE
      BY <1>n, <2>1 DEF Ends, RefreshEnds, Refresher, Asks
    <3>2. OfEpoch(r)
      BY <2>1 DEF OfEpoch
    <3> QED
      BY <2>1, <3>1, <3>2
  <2>2. CASE /\ Refresher(r) /\ refreshing = viewReads[r].epoch
             /\ ~(dirty /\ viewReads[r].epoch = viewEpoch)
    <3>1. /\ Asks(x, FALSE) /\ awaited' = awaited \ {r}
          /\ refreshing' = Nobody /\ dirty' = FALSE /\ (overlooked' <=> overlooked)
      BY <1>1, <2>2 DEF Ends, RefreshEnds, Refresher, Asks
    <3>2. overlooked' \in BOOLEAN
      BY <1>1, <2>2 DEF Ends, RefreshEnds, Refresher
    <3> QED
      BY <1>1, <2>2, <3>1, <3>2
  <2>3. CASE ~(Refresher(r) /\ refreshing = viewReads[r].epoch)
    <3>1. Asks(x, FALSE) /\ awaited' = awaited \ {r} /\ UNCHANGED <<refreshing, dirty, overlooked>>
      BY <2>3 DEF Ends, RefreshEnds, Refresher, Asks
    <3> QED
      BY <1>1, <2>3, <3>1
  <2> QED
    BY <1>1, <2>1, <2>2, <2>3
<1> HIDE DEF x
<1>h. Hears
  <2>1. r # n
    BY <1>n, <1>1, <1>2
  <2> QED
    BY <1>4, <2>1 DEF Hears
<1>5. /\ Len(viewReads') = Len(viewReads) + (IF more THEN 1 ELSE 0)
      /\ \A q \in 1..Len(viewReads) : viewReads'[q] = viewReads[q]
      /\ more => viewReads'[n] = x
      /\ InOrder'
      /\ \A q \in awaited \intersect awaited' : Stale(q)' <=> Stale(q)
      /\ more => ~Stale(n)'
      /\ \A i \in 1..Len(wire) :
           wire[i].read = Announcement =>
             \/ \E j \in 1..Len(wire') : wire'[j].read = Announcement
             \/ i = 1 /\ Head(wire).read = Announcement /\ wire' = Tail(wire)
  BY <1>n, <1>h, <1>3, <1>4, AsksKeeps
<1>6. ViewTypeOK'
  <2>1. /\ viewEpoch' \in Nat /\ shown' \in Snapshot \union {Nobody}
        /\ refreshing' \in Nat \union {Nobody}
    BY <1>1, <1>4
  <2> QED
    BY <1>h, <1>3, <1>4, <2>1, ViewTyped
<1>7. n \notin awaited /\ \A q \in awaited : q < n
  BY <1>n, <1>1, <1>2
<1>8. \A q \in awaited : (OfEpoch(q)' <=> OfEpoch(q)) /\ (Refresher(q)' <=> Refresher(q))
  BY <1>2, <1>5 DEF OfEpoch, Refresher
<1>9. more => OfEpoch(n)' /\ Refresher(n)' /\ n \in awaited'
  BY <1>4, <1>5 DEF OfEpoch, Refresher, x
<1>10. \A q \in awaited' : (q \in awaited /\ q # r) \/ (more /\ q = n)
  <2>1. \A q \in awaited' : q \in awaited \ {r} \/ (more /\ q = n)
    BY <1>4
  <2> QED
    BY <2>1
<1>11. \A q \in awaited : q # r => q \in awaited'
  BY <1>4
<1>12. OneRefresh'
  <2>o. OneRefresh
    BY DEF ViewInv
  <2>1. \A q \in 1..Len(viewReads') : viewReads'[q].epoch <= viewEpoch'
    <3>1. \A q \in 1..Len(viewReads) : viewReads'[q].epoch <= viewEpoch'
      BY <1>5, <2>o DEF OneRefresh
    <3>2. more => viewReads'[n].epoch <= viewEpoch'
      BY <1>2, <1>5, <2>o DEF OneRefresh, x
    <3> QED
      BY <1>n, <1>1, <1>5, <3>1, <3>2
  <2>2. refreshing' # Nobody => refreshing' <= viewEpoch'
    BY <1>4, <2>o DEF OneRefresh
  <2>3. ASSUME NEW q \in awaited', OfEpoch(q)', ~Refresher(q)'
        PROVE  shown' = Nobody /\ \A p \in awaited' : OfEpoch(p)' => q <= p
    <3>1. q \in awaited /\ q # r
      BY <1>9, <1>10, <2>3
    <3>2. shown = Nobody /\ \A p \in awaited : OfEpoch(p) => q <= p
      BY <1>8, <2>3, <2>o, <3>1 DEF OneRefresh
    <3>3. ~OfEpoch(r)
      BY <1>2, <3>1, <3>2
    <3>4. q <= n
      BY <1>n, <1>2, <1>7, <3>1
    <3> QED
      BY <1>8, <1>10, <3>2, <3>3, <3>4
  <2>4. \A q, p \in awaited : OfEpoch(q) /\ OfEpoch(p) /\ Refresher(q) /\ Refresher(p) => q = p
    BY <2>o DEF OneRefresh
  <2>5. \A q, p \in awaited' : OfEpoch(q)' /\ OfEpoch(p)' /\ Refresher(q)' /\ Refresher(p)' => q = p
    BY <1>4, <1>8, <1>10, <2>4
  <2>6. ASSUME NEW q \in awaited', OfEpoch(q)', Refresher(q)'
        PROVE  refreshing' = viewEpoch'
    <3>1. CASE q \in awaited /\ q # r
      <4>1. refreshing = viewEpoch
        BY <1>8, <2>6, <2>o, <3>1 DEF OneRefresh
      <4>2. ~(OfEpoch(r) /\ Refresher(r))
        BY <1>8, <2>4, <2>6, <3>1
      <4> QED
        BY <1>4, <4>1, <4>2 DEF OfEpoch
    <3>2. CASE more /\ q = n
      BY <1>4, <2>o, <3>2 DEF OneRefresh
    <3> QED
      BY <1>10, <3>1, <3>2
  <2>7. ASSUME refreshing' = viewEpoch' PROVE \E q \in awaited' : OfEpoch(q)' /\ Refresher(q)'
    <3>1. refreshing = viewEpoch /\ refreshing' = refreshing
      BY <1>1, <1>4, <2>7, ViewAssumption
    <3>2. PICK q \in awaited : OfEpoch(q) /\ Refresher(q)
      BY <2>o, <3>1 DEF OneRefresh
    <3>3. CASE more
      BY <1>9, <3>3
    <3>4. CASE ~more
      <4>1. q # r
        BY <1>1, <1>4, <3>1, <3>2, <3>4, ViewAssumption DEF OfEpoch
      <4> QED
        BY <1>8, <1>11, <3>2, <4>1
    <3> QED
      BY <3>3, <3>4
  <2> QED
    BY <2>1, <2>2, <2>3, <2>5, <2>6, <2>7 DEF OneRefresh
<1>13. ASSUME NEW m \in Nat, Due(m), ~(m < r /\ OfEpoch(r) /\ ~Stale(r))
       PROVE  Due(m)' \/ (more /\ ~(m < n))
  <2>1. CASE more
    BY <1>5, <1>9, <2>1 DEF Due
  <2>2. CASE ~more
    <3>1. CASE \E i \in 1..Len(wire) : wire[i].read = Announcement
      BY <1>2, <1>5, <3>1 DEF Due, Announcement
    <3>2. CASE overlooked
      BY <1>4, <2>2, <3>2 DEF Due
    <3>3. CASE dirty /\ refreshing = viewEpoch
      BY <1>4, <2>2, <3>3 DEF Due
    <3>4. CASE \E q \in awaited : m < q /\ OfEpoch(q) /\ ~Stale(q)
      <4>1. PICK q \in awaited : m < q /\ OfEpoch(q) /\ ~Stale(q)
        BY <3>4
      <4>2. q # r
        BY <1>13, <4>1
      <4> QED
        BY <1>5, <1>8, <1>11, <4>1, <4>2 DEF Due
    <3> QED
      BY <1>13, <3>1, <3>2, <3>3, <3>4 DEF Due
  <2> QED
    BY <2>1, <2>2
<1>14. \A q \in awaited' : OfEpoch(q)' /\ Stale(q)' => Due(q)'
  <2> SUFFICES ASSUME NEW q \in awaited', OfEpoch(q)', Stale(q)' PROVE Due(q)'
    OBVIOUS
  <2>1. q \in awaited /\ q # r /\ q \in Nat /\ r <= q /\ q < n
    <3>1. ~(more /\ q = n)
      BY <1>5
    <3>2. q \in awaited /\ q # r
      BY <1>10, <3>1
    <3> QED
      BY <1>2, <1>7, <3>2
  <2>2. Due(q)
    BY <1>5, <1>8, <2>1 DEF ViewInv, StaleIsDue
  <2> QED
    BY <1>2, <1>13, <2>1, <2>2
<1>15. \A m \in 0..Len(viewReads) : Due(m) => Due(m)' \/ (m < r /\ OfEpoch(r) /\ ~Stale(r))
  <2> SUFFICES ASSUME NEW m \in 0..Len(viewReads), Due(m), ~(m < r /\ OfEpoch(r) /\ ~Stale(r))
               PROVE  Due(m)'
    OBVIOUS
  <2>1. m \in Nat /\ m < n
    BY <1>n, <1>1
  <2> QED
    BY <1>13, <2>1
<1> QED
  BY <1>5, <1>6, <1>12, <1>14, <1>15

\* A request of the epoch that ends without an answer is told of.
LEMMA Unanswered ==
  ASSUME ViewInv, NEW r \in awaited, \A q \in awaited : r <= q, Ends(r, FALSE),
         wire' = wire \/ (wire # <<>> /\ wire' = Tail(wire) /\ Head(wire).read = r),
         notice' = (notice \/ OfEpoch(r)),
         UNCHANGED <<viewEpoch, agent, shown, reading, core>>
  PROVE  ViewInv'
<1>1. agent' \in Agents \union {Nobody} /\ Len(viewReads) \in Nat
  BY DEF ViewInv, ViewTypeOK
<1>2. notice' \in BOOLEAN
  BY DEF OfEpoch
<1>3. /\ ViewTypeOK' /\ InOrder' /\ OneRefresh'
      /\ \A q \in awaited' : OfEpoch(q)' /\ Stale(q)' => Due(q)'
      /\ \A m \in 0..Len(viewReads) : Due(m) => Due(m)' \/ (m < r /\ OfEpoch(r) /\ ~Stale(r))
  BY <1>1, <1>2, RequestEnds
<1>4. Old(shown)' => Old(shown)
  BY DEF Old
<1>5. Old(shown) => notice \/ Due(0)
  BY DEF ViewInv, StaleIsDue
<1>6. Due(0) => Due(0)' \/ OfEpoch(r)
  BY <1>1, <1>3
<1>7. StaleIsDue'
  BY <1>3, <1>4, <1>5, <1>6 DEF StaleIsDue
<1> QED
  BY <1>3, <1>7 DEF ViewInv

\* The answers come in the order of the requests.
LEMMA AnsweredFirst ==
  ASSUME ViewInv, wire # <<>>, Head(wire).read \in awaited
  PROVE  /\ \A q \in awaited : Head(wire).read <= q
         /\ Head(wire).read \in 1..Len(viewReads) /\ Len(viewReads) \in Nat
         /\ Head(wire).value \in Snapshot \union {Nobody}
         /\ Old(Head(wire).value) => Stale(Head(wire).read)
<1> DEFINE Wired == [read : 0..MaxViewReads, value : Snapshot \union {Nobody}]
           r == Head(wire).read
<1>1. wire \in Seq(Wired) /\ InOrder /\ Len(viewReads) \in Nat /\ awaited \subseteq 1..MaxViewReads
  BY DEF ViewInv, ViewTypeOK
<1>2. Head(wire).value \in Snapshot \union {Nobody}
  <2>1. Head(wire) \in Wired
    <3> HIDE DEF Wired
    <3> QED
      BY <1>1, TailFact
  <2> QED
    BY <2>1
<1> HIDE DEF Wired
<1>3. Len(wire) \in Nat \ {0} /\ Head(wire) = wire[1]
  BY <1>1, TailFact
<1>4. \A q \in awaited : q \in 1..Len(viewReads)
  BY <1>1 DEF InOrder
<1>5. ASSUME NEW q \in awaited PROVE r <= q
  <2>1. CASE q <= Unread
    <3>1. PICK i \in 1..Len(wire) : wire[i].read = q
      BY <1>1, <2>1 DEF InOrder
    <3>2. CASE i = 1
      BY <1>3, <1>4, <3>1, <3>2
    <3>3. CASE 1 < i
      <4>1. wire[1].read < wire[i].read
        BY <1>1, <1>3, <1>4, <3>1, <3>3 DEF InOrder
      <4> QED
        BY <1>3, <1>4, <3>1, <4>1
    <3> QED
      BY <1>3, <3>2, <3>3
  <2>2. CASE ~(q <= Unread)
    <3>1. r <= Unread
      BY <1>1, <1>3 DEF InOrder
    <3>2. Unread \in Nat
      BY <1>1 DEF Unread, InOrder, ViewInv, ViewTypeOK
    <3> QED
      BY <1>4, <2>2, <3>1, <3>2
  <2> QED
    BY <2>1, <2>2
<1>6. Old(Head(wire).value) => Stale(r)
  BY <1>3 DEF Stale
<1> QED
  BY <1>1, <1>2, <1>4, <1>5, <1>6

\* An answer is shown if it counts, and what it overtook is read again.
LEMMA ViewAnswered ==
  ASSUME ViewInv, Answered
  PROVE  ViewInv'
<1>r. PICK r : r = Head(wire).read
  OBVIOUS
<1>v. PICK value : value = Head(wire).value
  OBVIOUS
<1>1. /\ wire # <<>> /\ r \in awaited /\ wire' = Tail(wire) /\ UNCHANGED <<reading, core>>
      /\ IF OfEpoch(r) /\ value # Nobody THEN Apply(value)
         ELSE notice' = (notice \/ OfEpoch(r)) /\ UNCHANGED <<viewEpoch, agent, shown>>
      /\ Ends(r, OfEpoch(r) /\ value # Nobody /\ Renewed(value))
  BY <1>r, <1>v DEF Answered, OfEpoch
<1>2. /\ \A q \in awaited : r <= q
      /\ r \in 1..Len(viewReads) /\ Len(viewReads) \in Nat
      /\ value \in Snapshot \union {Nobody}
      /\ Old(value) => Stale(r)
  BY <1>r, <1>v, <1>1, AnsweredFirst
<1>3. viewEpoch \in Nat /\ dirty \in BOOLEAN /\ overlooked \in BOOLEAN
  BY DEF ViewInv, ViewTypeOK
<1>4. CASE ~(OfEpoch(r) /\ value # Nobody)
  <2>1. Ends(r, FALSE)
    BY <1>1, <1>4 DEF Ends, RefreshEnds
  <2>2. Head(wire).read = r
    BY <1>r
  <2>3. notice' = (notice \/ OfEpoch(r)) /\ UNCHANGED <<viewEpoch, agent, shown, reading, core>>
    BY <1>1, <1>4
  <2>4. wire' = wire \/ (wire # <<>> /\ wire' = Tail(wire) /\ Head(wire).read = r)
    BY <1>1, <2>2
  <2> QED
    BY <1>1, <1>2, <2>1, <2>3, <2>4, Unanswered
<1>5. CASE OfEpoch(r) /\ value # Nobody /\ ~Renewed(value)
  <2>1. Ends(r, FALSE)
    BY <1>1, <1>5 DEF Ends, RefreshEnds
  <2>2. Head(wire).read = r
    BY <1>r
  <2>3. viewEpoch' = viewEpoch /\ shown' = value /\ agent' = value.agent /\ notice' = FALSE
    BY <1>1, <1>5 DEF Apply
  <2>4. value \in Snapshot /\ value.agent \in Agents
    BY <1>2, <1>5 DEF Snapshot
  <2>5. wire' = wire \/ (wire # <<>> /\ wire' = Tail(wire) /\ Head(wire).read = r)
    BY <1>1, <2>2
  <2>6. shown' = shown \/ (OfEpoch(r) /\ shown' \in Snapshot)
    BY <1>5, <2>3, <2>4
  <2>7. agent' \in Agents \union {Nobody} /\ notice' \in BOOLEAN
    BY <2>3, <2>4
  <2>8. /\ ViewTypeOK' /\ InOrder' /\ OneRefresh'
        /\ \A q \in awaited' : OfEpoch(q)' /\ Stale(q)' => Due(q)'
        /\ \A m \in 0..Len(viewReads) : Due(m) => Due(m)' \/ (m < r /\ OfEpoch(r) /\ ~Stale(r))
    BY <1>1, <1>2, <2>1, <2>3, <2>5, <2>6, <2>7, RequestEnds
  <2>9. Old(shown)' => Due(0)'
    <3> SUFFICES ASSUME Old(shown)' PROVE Due(0)'
      OBVIOUS
    <3>1. Stale(r)
      BY <1>1, <1>2, <2>3 DEF Old
    <3>2. Due(r)
      BY <1>1, <1>5, <3>1 DEF ViewInv, StaleIsDue
    <3>3. Due(r)'
      BY <1>2, <2>8, <3>1, <3>2
    <3>4. \A q \in awaited' : 0 < q
      BY <2>8 DEF ViewTypeOK
    <3> QED
      BY <3>3, <3>4 DEF Due
  <2>10. StaleIsDue'
    BY <2>8, <2>9 DEF StaleIsDue
  <2> QED
    BY <2>8, <2>10 DEF ViewInv
<1>6. CASE OfEpoch(r) /\ value # Nobody /\ Renewed(value)
  <2> DEFINE x == viewReads[r]
  <2>o. OneRefresh
    BY DEF ViewInv
  <2>1. /\ viewEpoch' = viewEpoch + 1 /\ shown' = value /\ agent' = value.agent /\ notice' = FALSE
        /\ shown # Nobody
    BY <1>1, <1>6 DEF Apply, Renewed
  <2>2. Refresher(r) /\ refreshing = viewEpoch
    BY <1>1, <1>6, <2>o, <2>1 DEF OneRefresh
  <2>3. /\ refreshing' = Nobody /\ dirty' = FALSE /\ awaited' = awaited \ {r}
        /\ overlooked' = (overlooked \/ dirty) /\ UNCHANGED <<viewReads, queue>>
    BY <1>1, <1>6, <2>2 DEF Ends, RefreshEnds, Refresher, OfEpoch
  <2>4. x \in Read
    BY <1>2 DEF ViewInv, ViewTypeOK
  <2>5. Asks(x, FALSE) /\ Hears
    <3>1. Head(wire).read \notin awaited'
      BY <1>r, <2>3
    <3> QED
      BY <1>1, <2>3, <3>1 DEF Asks, Hears
  <2> HIDE DEF x
  <2>6. /\ InOrder'
        /\ \A q \in awaited : q \in 1..Len(viewReads)
        /\ \A i \in 1..Len(wire) :
             wire[i].read = Announcement =>
               \/ \E j \in 1..Len(wire') : wire'[j].read = Announcement
               \/ i = 1 /\ Head(wire).read = Announcement /\ wire' = Tail(wire)
    BY <1>1, <2>4, <2>5, AsksKeeps
  <2>7. value \in Snapshot /\ value.agent \in Agents
    BY <1>2, <1>6 DEF Snapshot
  <2>8. ViewTypeOK'
    <3>1. viewEpoch' \in Nat /\ agent' \in Agents \union {Nobody} /\ shown' \in Snapshot \union {Nobody}
          /\ refreshing' \in Nat \union {Nobody}
      BY <1>3, <2>1, <2>3, <2>7
    <3>2. notice' \in BOOLEAN /\ dirty' \in BOOLEAN /\ overlooked' \in BOOLEAN
      BY <1>3, <2>1, <2>3
    <3> QED
      BY <1>1, <2>4, <2>5, <3>1, <3>2, ViewTyped
  <2>9. \A q \in 1..Len(viewReads) : viewReads[q].epoch \in Nat /\ viewReads[q].epoch <= viewEpoch
    <3>1. \A q \in 1..Len(viewReads) : viewReads[q] \in Read
      BY DEF ViewInv, ViewTypeOK
    <3> QED
      BY <2>o, <3>1 DEF OneRefresh, Read
  <2>10. \A q \in awaited' : ~OfEpoch(q)'
    BY <1>3, <2>1, <2>3, <2>6, <2>9 DEF OfEpoch
  <2>11. OneRefresh'
    <3>1. \A q \in 1..Len(viewReads') : viewReads'[q].epoch <= viewEpoch'
      BY <1>3, <2>1, <2>3, <2>9
    <3>2. refreshing' # viewEpoch'
      BY <1>3, <2>1, <2>3, ViewAssumption
    <3> QED
      BY <2>3, <2>10, <3>1, <3>2 DEF OneRefresh
  <2>12. Old(shown)' => Due(0)'
    <3> SUFFICES ASSUME Old(shown)' PROVE Due(0)'
      OBVIOUS
    <3>1. Stale(r)
      BY <1>1, <1>2, <2>1 DEF Old
    <3>2. Due(r)
      BY <1>1, <1>6, <3>1 DEF ViewInv, StaleIsDue
    <3>3. ~\E q \in awaited : r < q /\ OfEpoch(q) /\ ~Stale(q)
      <4> SUFFICES ASSUME NEW q \in awaited, r < q, OfEpoch(q) PROVE FALSE
        OBVIOUS
      <4>1. Refresher(q)
        BY <2>o, <2>1 DEF OneRefresh
      <4>2. q = r
        BY <1>1, <1>6, <2>o, <2>2, <4>1 DEF OneRefresh
      <4> QED
        BY <1>2, <4>2
    <3>4. (\E i \in 1..Len(wire) : wire[i].read = Announcement) \/ overlooked \/ dirty
      BY <3>2, <3>3 DEF Due
    <3>5. CASE overlooked \/ dirty
      BY <2>3, <3>5 DEF Due
    <3>6. CASE \E i \in 1..Len(wire) : wire[i].read = Announcement
      <4>1. Head(wire).read # Announcement
        BY <1>r, <1>2 DEF Announcement
      <4> QED
        BY <2>6, <3>6, <4>1 DEF Due
    <3> QED
      BY <3>4, <3>5, <3>6
  <2>13. StaleIsDue'
    BY <2>10, <2>12 DEF StaleIsDue
  <2> QED
    BY <2>6, <2>8, <2>11, <2>13 DEF ViewInv
<1> QED
  BY <1>4, <1>5, <1>6

\* An answer nobody waits for is read, and an announcement while no one is selected.
LEMMA Overhears ==
  ASSUME ViewInv, wire # <<>>, wire' = Tail(wire), Head(wire).read \notin awaited,
         \/ Head(wire).read # Announcement /\ overlooked' = overlooked
         \/ overlooked' = TRUE,
         UNCHANGED <<viewEpoch, agent, shown, notice, refreshing, dirty, viewReads, awaited, queue,
                     reading, core>>
  PROVE  ViewInv'
<1> DEFINE x == [kind |-> "snapshot", agent |-> Nobody, epoch |-> 0]
<1>1. x \in Read
  BY DEF Read
<1>2. Asks(x, FALSE) /\ Hears
  BY DEF Asks, Hears
<1> HIDE DEF x
<1>3. /\ InOrder'
      /\ \A r \in awaited : Stale(r)' <=> Stale(r)
      /\ \A i \in 1..Len(wire) :
           wire[i].read = Announcement =>
             \/ \E j \in 1..Len(wire') : wire'[j].read = Announcement
             \/ i = 1 /\ Head(wire).read = Announcement /\ wire' = Tail(wire)
  BY <1>1, <1>2, AsksKeeps
<1>4. overlooked' \in BOOLEAN
  BY DEF ViewInv, ViewTypeOK
<1>5. ViewTypeOK'
  <2>1. /\ viewEpoch \in Nat /\ agent \in Agents \union {Nobody} /\ shown \in Snapshot \union {Nobody}
        /\ notice \in BOOLEAN /\ dirty \in BOOLEAN /\ refreshing \in Nat \union {Nobody}
    BY DEF ViewInv, ViewTypeOK
  <2> QED
    BY <1>1, <1>2, <1>4, <2>1, ViewTyped
<1>6. OneRefresh'
  BY DEF ViewInv, OneRefresh, OfEpoch, Refresher
<1>7. \A m : Due(m) => Due(m)'
  BY <1>3 DEF Due, OfEpoch
<1>8. StaleIsDue'
  BY <1>3, <1>7 DEF ViewInv, StaleIsDue, Old, OfEpoch
<1> QED
  BY <1>3, <1>5, <1>6, <1>8 DEF ViewInv

\* The Core reads what it has at this moment.
LEMMA ReadsView ==
  ASSUME ViewInv, CoreReads
  PROVE  ViewInv'
<1>1. /\ queue # <<>> /\ reading = Nobody
      /\ reading' \in Snapshot /\ reading'.version = core.version
      /\ UNCHANGED <<viewEpoch, agent, shown, notice, refreshing, dirty, viewReads, awaited, queue, wire,
                     core, overlooked>>
  BY DEF CoreReads, ViewInv, ViewTypeOK, Snapshot
<1>2. ViewTypeOK'
  BY <1>1 DEF ViewInv, ViewTypeOK, Snapshot, Read
<1>3. InOrder'
  BY <1>1 DEF ViewInv, InOrder, Unread
<1>4. OneRefresh'
  BY <1>1 DEF ViewInv, OneRefresh, OfEpoch, Refresher
<1>5. \A r : Stale(r)' <=> Stale(r)
  BY <1>1 DEF Stale, Old, Unread
<1>6. StaleIsDue'
  BY <1>1, <1>5 DEF ViewInv, StaleIsDue, Due, Old, OfEpoch
<1> QED
  BY <1>2, <1>3, <1>4, <1>6 DEF ViewInv

\* It answers what it has read, or refuses.
LEMMA AnswersView ==
  ASSUME ViewInv, CoreAnswers
  PROVE  ViewInv'
<1> DEFINE Wired == [read : 0..MaxViewReads, value : Snapshot \union {Nobody}]
<1>1. PICK value \in {reading, Nobody} : wire' = Append(wire, [read |-> Head(queue), value |-> value])
  BY DEF CoreAnswers
<1>2. /\ reading # Nobody /\ queue' = Tail(queue) /\ reading' = Nobody
      /\ UNCHANGED <<viewEpoch, agent, shown, notice, refreshing, dirty, viewReads, awaited, core,
                     overlooked>>
  BY DEF CoreAnswers
<1>3. /\ InOrder /\ wire \in Seq(Wired) /\ queue \in Seq(1..MaxViewReads)
      /\ Len(viewReads) \in Nat /\ Len(viewReads) <= MaxViewReads
      /\ reading \in Snapshot \union {Nobody} /\ awaited \subseteq 1..MaxViewReads
  BY DEF ViewInv, ViewTypeOK
<1>4. queue # <<>>
  BY <1>2, <1>3 DEF InOrder
<1>5. /\ Len(queue) \in Nat \ {0} /\ Head(queue) = queue[1] /\ Head(queue) \in 1..MaxViewReads
      /\ queue' \in Seq(1..MaxViewReads) /\ Len(queue') = Len(queue) - 1
      /\ \A i \in 1..Len(queue) - 1 : queue'[i] = queue[i + 1]
  BY <1>2, <1>3, <1>4, TailFact
<1>6. PICK m \in Nat : m = Unread
  <2>1. Len(queue) <= Len(viewReads)
    BY <1>3 DEF InOrder
  <2>2. Unread \in Nat
    BY <1>3, <1>5, <2>1 DEF Unread
  <2> QED
    BY <2>2
<1>7. Unread' = m + 1 /\ Head(queue) = m + 1
  BY <1>2, <1>3, <1>5, <1>6 DEF Unread, InOrder
<1>8. PICK e : e = [read |-> Head(queue), value |-> value]
  OBVIOUS
<1>9. e \in Wired /\ e.read = m + 1 /\ e.value = value
  <2>1. Head(queue) \in 0..MaxViewReads
    BY <1>5
  <2> QED
    BY <1>3, <1>7, <1>8, <2>1
<1> HIDE DEF Wired
<1>10. /\ wire' \in Seq(Wired) /\ Len(wire) \in Nat /\ Len(wire') = Len(wire) + 1
       /\ \A i \in 1..Len(wire) : wire'[i] = wire[i]
       /\ wire'[Len(wire) + 1] = e
  BY <1>1, <1>3, <1>8, <1>9, AppendFact
<1>11. \A i \in 1..Len(wire) : wire[i].read <= m /\ wire[i].read \in Nat
  <2>1. \A i \in 1..Len(wire) : wire[i] \in Wired
    BY <1>3
  <2> QED
    BY <1>3, <1>6, <2>1, ViewAssumption DEF InOrder, Wired
<1>12. \A i \in 1..Len(wire') : i \in 1..Len(wire) \/ i = Len(wire) + 1
  BY <1>10
<1>13. ViewTypeOK'
  <2>1. wire' \in Seq([read : 0..MaxViewReads, value : Snapshot \union {Nobody}])
    BY <1>10 DEF Wired
  <2> QED
    BY <1>2, <1>5, <2>1 DEF ViewInv, ViewTypeOK, Snapshot, Read
<1>14. InOrder'
  <2>1. Len(queue') <= Len(viewReads')
    BY <1>2, <1>3, <1>5 DEF InOrder
  <2>2. ASSUME NEW i \in 1..Len(queue') PROVE queue'[i] = Unread' + i
    <3>1. i + 1 \in 1..Len(queue) /\ queue'[i] = queue[i + 1] /\ i \in Nat
      BY <1>5
    <3>2. queue[i + 1] = m + (i + 1)
      BY <1>3, <1>6, <3>1 DEF InOrder
    <3> QED
      BY <1>7, <3>1, <3>2
  <2>3. \A i \in 1..Len(wire') : wire'[i].read <= Unread'
    BY <1>7, <1>9, <1>10, <1>11, <1>12
  <2>4. ASSUME NEW i \in 1..Len(wire'), NEW j \in 1..Len(wire'), i < j,
               wire'[i].read # 0, wire'[j].read # 0
        PROVE  wire'[i].read < wire'[j].read
    <3>1. i \in 1..Len(wire)
      BY <1>10, <2>4
    <3>2. CASE j \in 1..Len(wire)
      <4>1. wire'[i] = wire[i] /\ wire'[j] = wire[j]
        BY <1>10, <3>1, <3>2
      <4> QED
        BY <1>3, <2>4, <3>1, <3>2, <4>1 DEF InOrder
    <3>3. CASE j = Len(wire) + 1
      BY <1>9, <1>10, <1>11, <3>1, <3>3
    <3> QED
      BY <1>12, <3>2, <3>3
  <2>5. ASSUME NEW r \in awaited'
        PROVE  r <= Len(viewReads') /\ (r <= Unread' => \E i \in 1..Len(wire') : wire'[i].read = r)
    <3>1. r <= Len(viewReads) /\ r \in Nat /\ (r <= m => \E i \in 1..Len(wire) : wire[i].read = r)
      BY <1>2, <1>3, <1>6 DEF InOrder
    <3>2. CASE r <= m
      <4>1. PICK i \in 1..Len(wire) : wire[i].read = r
        BY <3>1, <3>2
      <4>2. i \in 1..Len(wire') /\ wire'[i].read = r
        BY <1>10, <4>1
      <4> QED
        BY <1>2, <3>1, <4>2
    <3>3. CASE r = m + 1
      BY <1>2, <1>9, <1>10, <3>1, <3>3
    <3>4. CASE r > m + 1
      BY <1>2, <1>7, <3>1, <3>4
    <3> QED
      BY <3>1, <3>2, <3>3, <3>4
  <2>6. reading' = Nobody /\ core'.generation <= core'.version
    BY <1>2, <1>3 DEF InOrder
  <2> QED
    BY <2>2, <2>1, <2>3, <2>4, <2>5, <2>6 DEF InOrder
<1>15. OneRefresh'
  BY <1>2 DEF ViewInv, OneRefresh, OfEpoch, Refresher
<1>16. \A r : Stale(r)' => Stale(r)
  <2> SUFFICES ASSUME NEW r, Stale(r)' PROVE Stale(r)
    OBVIOUS
  <2>1. ~Old(reading)'
    BY <1>2 DEF Old
  <2>2. PICK i \in 1..Len(wire') : wire'[i].read = r /\ wire'[i].value # Nobody
                                   /\ wire'[i].value.version # core.version
    BY <1>2, <2>1 DEF Stale, Old
  <2>3. CASE i \in 1..Len(wire)
    BY <1>10, <2>2, <2>3 DEF Stale, Old
  <2>4. CASE i = Len(wire) + 1
    <3>1. r = m + 1 /\ value # Nobody /\ value.version # core.version
      BY <1>9, <1>10, <2>2, <2>4
    <3>2. value = reading
      BY <1>1, <3>1
    <3> QED
      BY <1>6, <3>1, <3>2 DEF Stale, Old
  <2> QED
    BY <1>12, <2>3, <2>4
<1>17. \A n : Due(n) => Due(n)'
  <2>1. (\E i \in 1..Len(wire) : wire[i].read = Announcement)
          => \E i \in 1..Len(wire') : wire'[i].read = Announcement
    BY <1>10
  <2> QED
    BY <1>2, <1>16, <2>1 DEF Due, OfEpoch
<1>18. StaleIsDue'
  BY <1>2, <1>16, <1>17 DEF ViewInv, StaleIsDue, Old, OfEpoch
<1> QED
  BY <1>13, <1>14, <1>15, <1>18 DEF ViewInv

\* A change is announced.
LEMMA ChangesView ==
  ASSUME ViewInv, CoreChanges
  PROVE  ViewInv'
<1> DEFINE Wired == [read : 0..MaxViewReads, value : Snapshot \union {Nobody}]
<1>1. PICK e : e = [read |-> Announcement, value |-> Nobody]
  OBVIOUS
<1>2. /\ wire' = Append(wire, e)
      /\ UNCHANGED <<viewEpoch, agent, shown, notice, refreshing, dirty, viewReads, awaited, queue,
                     reading, overlooked>>
      /\ core' \in [version : 0..MaxVersions, generation : 0..MaxVersions]
      /\ core'.generation <= core'.version
  BY <1>1, ViewAssumption DEF CoreChanges, ViewInv, ViewTypeOK, InOrder
<1>3. wire \in Seq(Wired) /\ InOrder /\ Len(viewReads) \in Nat /\ Len(queue) \in Nat
      /\ awaited \subseteq 1..MaxViewReads
  BY DEF ViewInv, ViewTypeOK
<1>4. e \in Wired /\ e.read = 0
  BY <1>1, ViewAssumption DEF Announcement
<1> HIDE DEF Wired
<1>5. /\ wire' \in Seq(Wired) /\ Len(wire) \in Nat /\ Len(wire') = Len(wire) + 1
      /\ \A i \in 1..Len(wire) : wire'[i] = wire[i]
      /\ wire'[Len(wire) + 1] = e
  BY <1>2, <1>3, <1>4, AppendFact
<1>6. \A i \in 1..Len(wire') : i \in 1..Len(wire) \/ i = Len(wire) + 1
  BY <1>5
<1>7. ViewTypeOK'
  <2>1. wire' \in Seq([read : 0..MaxViewReads, value : Snapshot \union {Nobody}])
    BY <1>5 DEF Wired
  <2> QED
    BY <1>2, <2>1 DEF ViewInv, ViewTypeOK, Snapshot, Read
<1>8. InOrder'
  <2>1. Unread' = Unread /\ Unread \in Nat
    BY <1>2, <1>3 DEF Unread, InOrder
  <2>2. /\ Len(queue') <= Len(viewReads') /\ (\A i \in 1..Len(queue') : queue'[i] = Unread' + i)
        /\ (reading' # Nobody => queue' # <<>>)
    BY <1>2, <1>3, <2>1 DEF InOrder
  <2>3. \A i \in 1..Len(wire') : wire'[i].read <= Unread'
    BY <1>3, <1>4, <1>5, <1>6, <2>1 DEF InOrder
  <2>4. ASSUME NEW i \in 1..Len(wire'), NEW j \in 1..Len(wire'), i < j,
               wire'[i].read # 0, wire'[j].read # 0
        PROVE  wire'[i].read < wire'[j].read
    <3>1. i \in 1..Len(wire) /\ j \in 1..Len(wire)
      BY <1>4, <1>5, <1>6, <2>4
    <3>2. wire'[i] = wire[i] /\ wire'[j] = wire[j]
      BY <1>5, <3>1
    <3> QED
      BY <1>3, <2>4, <3>1, <3>2 DEF InOrder
  <2>5. ASSUME NEW r \in awaited'
        PROVE  r <= Len(viewReads') /\ (r <= Unread' => \E i \in 1..Len(wire') : wire'[i].read = r)
    <3>1. r <= Len(viewReads) /\ (r <= Unread => \E i \in 1..Len(wire) : wire[i].read = r)
      BY <1>2, <1>3 DEF InOrder
    <3>2. \A i \in 1..Len(wire) : i \in 1..Len(wire') /\ wire'[i] = wire[i]
      BY <1>5
    <3> QED
      BY <1>2, <2>1, <3>1, <3>2
  <2> QED
    BY <1>2, <2>2, <2>3, <2>4, <2>5 DEF InOrder
<1>9. OneRefresh'
  BY <1>2 DEF ViewInv, OneRefresh, OfEpoch, Refresher
<1>10. \A m : Due(m)'
  <2>1. Len(wire) + 1 \in 1..Len(wire') /\ wire'[Len(wire) + 1].read = 0
    BY <1>4, <1>5
  <2> QED
    BY <2>1 DEF Due, Announcement
<1> QED
  BY <1>7, <1>8, <1>9, <1>10 DEF ViewInv, StaleIsDue

\* Every step of the view and of the Core keeps the invariant.
LEMMA ViewStep ==
  ASSUME ViewInv, [NextView]_viewVars
  PROVE  ViewInv'
<1>1. CASE ShowWorkspace
  BY <1>1, Selects DEF ShowWorkspace
<1>2. ASSUME NEW a \in Agents, SelectAgent(a) PROVE ViewInv'
  BY <1>2, Selects DEF SelectAgent
<1>3. CASE Refresh
  <2>1. Hears
    BY <1>3 DEF Refresh, Hears
  <2> QED
    BY <1>3, <2>1, Refreshes DEF Refresh
<1>4. CASE Announced
  <2>1. Head(wire).read \notin awaited
    BY <1>4 DEF Announced, Announcement, ViewInv, ViewTypeOK
  <2>2. CASE agent = Nobody
    BY <1>4, <2>1, <2>2, Overhears DEF Announced
  <2>3. CASE agent # Nobody
    <3>1. Head(wire).read \notin awaited'
      BY <1>4, <2>1, <2>3 DEF Announced, Announcement, Refreshing, Request, ViewInv, ViewTypeOK
    <3>2. Hears
      BY <1>4, <3>1 DEF Announced, Hears
    <3> QED
      BY <1>4, <2>3, <3>2, Refreshes DEF Announced
  <2> QED
    BY <2>2, <2>3
<1>5. CASE Answered
  BY <1>5, ViewAnswered
<1>6. CASE TooLate
  BY <1>6, Overhears DEF TooLate
<1>7. ASSUME NEW r \in 1..MaxViewReads, TimesOut(r) PROVE ViewInv'
  <2>1. /\ r \in awaited /\ (\A q \in awaited : r <= q) /\ Ends(r, FALSE) /\ wire' = wire
        /\ notice' = (notice \/ OfEpoch(r))
        /\ UNCHANGED <<viewEpoch, agent, shown, reading, core>>
    BY <1>7 DEF TimesOut, OfEpoch
  <2> QED
    BY <2>1, Unanswered
<1>8. CASE CoreReads
  BY <1>8, ReadsView
<1>9. CASE CoreAnswers
  BY <1>9, AnswersView
<1>10. CASE CoreChanges
  BY <1>10, ChangesView
<1>11. CASE UNCHANGED viewVars
  BY <1>11 DEF viewVars, ViewInv, ViewTypeOK, InOrder, OneRefresh, StaleIsDue, Due, Stale, Old,
               Unread, OfEpoch, Refresher, Snapshot, Read
<1> QED
  BY <1>1, <1>2, <1>3, <1>4, <1>5, <1>6, <1>7, <1>8, <1>9, <1>10, <1>11 DEF NextView

\* It holds in every reachable state.
LEMMA ViewHolds == SpecView => []ViewInv
BY ViewStart, ViewStep, PTL DEF SpecView

\* The view, its requests and what is on the way keep their types (workspace-dev-state.ts),
\* for every number of requests and of changes.
THEOREM ViewTypeCorrect == SpecView => []ViewTypeOK
<1>1. ViewInv => ViewTypeOK
  BY DEF ViewInv
<1> QED
  BY <1>1, ViewHolds, PTL

\* However refreshes, selections, late answers and changes overlap, a view for which
\* nothing is under way shows what the Core has, tells the user that it may not, or has
\* met one of the two announcements the code does not act on (refresh, workspaceChanged
\* and apply of workspace-dev-state.ts).
THEOREM ViewStaysFresh == SpecView => []ViewIsFresh
<1>1. ASSUME ViewInv PROVE ViewIsFresh
  <2> SUFFICES ASSUME awaited = {}, wire = <<>>, shown # Nobody, shown.version # core.version
               PROVE  notice \/ overlooked
    BY DEF ViewIsFresh
  <2>1. notice \/ Due(0)
    BY <1>1 DEF ViewInv, StaleIsDue, Old
  <2>2. refreshing # viewEpoch
    BY <1>1 DEF ViewInv, OneRefresh
  <2> QED
    BY <2>1, <2>2 DEF Due
<1> QED
  BY <1>1, ViewHolds, PTL

--------------------------------------------------------------------------------
\* What a message has in front of it, and whether one is shown or was pushed out by
\* newer ones.
Newer(m, some) == {n \in some : n > m}
Has(m, some) == m \in some \/ Cardinality(Newer(m, some)) >= MaxShown

\* The calls of one visit, and the reads of the history, are told apart.
FeedCall ==
  [kind : {"bootstrap", "history", "sync"}, visit : 1..MaxReads, request : 0..MaxReads,
   channel : FeedChannels \union {NoChannel}, mark : 0..MaxMessages,
   reply : [read : BOOLEAN, messages : SUBSET MessageNumbers, mark : 0..MaxMessages]]
Alike(c, d) ==
  c.kind = d.kind /\ IF c.kind = "history" THEN c.request = d.request ELSE c.visit = d.visit
CallsTold ==
  /\ flying \subseteq FeedCall
  /\ \A c, d \in flying : Alike(c, d) => c = d
  /\ \A c \in flying :
       /\ c.reply.messages \subseteq 1..Len(posted)
       /\ c.reply.mark <= Len(posted)
       /\ c.kind = "sync" => c.mark <= Len(posted)
       /\ c.kind = "sync" /\ c.reply.read =>
            c.reply.messages = c.mark + 1..c.reply.mark /\ c.mark <= c.reply.mark

\* A visit is bootstrapped before it syncs, once at a time and from the cursor.
OfTheVisit(c) ==
  /\ c.kind = "bootstrap" => ~ready
  /\ c.kind = "sync" => ready /\ syncing = visit /\ c.mark = cursor
Visits ==
  /\ ready <=> channel # NoChannel
  /\ ready => visit # 0
  /\ \A c \in flying : c.visit <= visit /\ (c.kind = "history" => c.request <= reads)
  /\ \A c \in flying : c.visit = visit => OfTheVisit(c)

\* Nothing is shown that was not posted to the channel.
Known ==
  /\ cursor <= Len(posted)
  /\ messages \subseteq 1..Len(posted)
  /\ \A m \in messages : posted[m] = channel

\* The messages of the channel that the window has been told of
Told == {m \in 1..cursor : posted[m] = channel}

\* What the window has read of the channel has no gap, begins where the next page ends, and
\* is whole when there is no next page; what only the answer to a send has brought may lie
\* before it.
Covered ==
  /\ \A n \in messages \ echoed, m \in Told : n <= m => Has(m, messages)
  /\ history.before # 0 /\ ready => \A m \in Told : history.before <= m => Has(m, messages)
  /\ history.phase = "ready" /\ history.before = 0 => \A m \in Told : Has(m, messages)

\* The page that counts fits in front of it.
Counts(c) == c.kind = "history" /\ c.visit = visit /\ c.request = reads
PageFits(c) ==
  /\ \A n \in c.reply.messages : posted[n] = channel /\ n >= c.reply.mark
  /\ c.reply.mark # 0 => c.reply.messages # {}
  /\ \A m \in Told : m \in c.reply.messages \/ Has(m, messages) \/ m < c.reply.mark
PagesFit ==
  \A c \in flying : Counts(c) =>
    /\ c.channel = channel /\ ready
    /\ IF c.reply.read THEN PageFits(c) ELSE c.mark # 0 => c.mark = history.before

\* What the service accepted under a key was posted to the channel it was sent in, and the
\* message a channel waits for has such a key.
SendsKnown ==
  /\ \A k \in 1..Len(keyed) :
       /\ keyed[k].message <= Len(posted)
       /\ keyed[k].message # 0 => posted[keyed[k].message] = keyed[k].channel
  /\ \A c \in FeedChannels :
       /\ outbox[c].key <= Len(keyed)
       /\ outbox[c].key # 0 => keyed[outbox[c].key].channel = c
       /\ outbox[c].sending => outbox[c].key # 0

FeedInv == CollaborationTypeOK /\ CallsTold /\ Visits /\ Known /\ Covered /\ PagesFit /\ SendsKnown
Outboxes == [FeedChannels -> [key : 0..MaxKeyed, sending : BOOLEAN]]

\* A set of numbers has a smallest.
Below == {ss \in Nat \X Nat : ss[1] < ss[2]}
LEMMA Smallest ==
  ASSUME NEW T \in SUBSET Nat, T # {}
  PROVE  \E x \in T : \A y \in T : x <= y
<1>1. IsWellFoundedOn(Below, Nat)
  BY NatLessThanWellFounded DEF OpToRel, Below
<1>2. PICK x \in T : \A y \in T : <<y, x>> \notin Below
  BY <1>1, WFMin, Zenon
<1>3. ASSUME NEW y \in T, y < x PROVE FALSE
  <2>1. <<y, x>> \in Nat \X Nat /\ <<y, x>>[1] < <<y, x>>[2]
    BY <1>3
  <2>2. <<y, x>> \in Below
    BY <2>1, Zenon DEF Below
  <2> QED
    BY <1>2, <2>2
<1> QED
  BY <1>3

\* A bounded set of numbers has a largest.
LEMMA Largest ==
  ASSUME NEW n \in Nat, NEW T \in SUBSET (1..n), T # {}
  PROVE  \E x \in T : \A y \in T : y <= x
<1> DEFINE U == {n - x : x \in T}
<1>1. U \in SUBSET Nat /\ U # {}
  <2>1. \A x \in T : n - x \in Nat
    OBVIOUS
  <2> QED
    BY <2>1
<1>2. PICK u \in U : \A y \in U : u <= y
  BY <1>1, Smallest
<1>3. PICK x \in T : u = n - x
  BY <1>2
<1>4. \A y \in T : n - y \in U
  OBVIOUS
<1>5. \A y \in T : y <= x
  BY <1>2, <1>3, <1>4
<1> QED
  BY <1>5

\* What of a set of messages is in front of one of them is finite.
LEMMA Counted ==
  ASSUME NEW S \in SUBSET MessageNumbers
  PROVE  /\ IsFiniteSet(S) /\ Cardinality(S) \in Nat
         /\ \A T \in SUBSET S : IsFiniteSet(T) /\ Cardinality(T) \in Nat /\ Cardinality(T) <= Cardinality(S)
<1>1. MaxMessages \in Nat
  BY CollaborationAssumption
<1>2. IsFiniteSet(1..MaxMessages)
  BY <1>1, FS_Interval
<1>3. IsFiniteSet(S)
  BY <1>2, FS_Subset DEF MessageNumbers
<1> QED
  BY <1>3, FS_Subset, FS_CardinalityType

\* The later a message is, the fewer are newer.
LEMMA NewerFalls ==
  ASSUME NEW S \in SUBSET Nat, NEW m \in Nat, NEW n \in Nat, m <= n
  PROVE  Newer(n, S) \in SUBSET Newer(m, S)
<1> SUFFICES ASSUME NEW x \in Newer(n, S) PROVE x \in Newer(m, S)
  OBVIOUS
<1>1. x \in S /\ x > n
  BY DEF Newer
<1>2. x \in Nat
  BY <1>1
<1>3. x > m
  BY <1>1, <1>2
<1> QED
  BY <1>1, <1>3 DEF Newer

\* The newest k of a set of messages: no more than k, upward closed, and k of them unless
\* they are all.
Newests(S, k) == {m \in S : Cardinality(Newer(m, S)) < k}
LEMMA NewestFacts ==
  ASSUME NEW S \in SUBSET MessageNumbers, NEW k \in Nat \ {0}
  PROVE  /\ Newests(S, k) \subseteq S
         /\ Cardinality(Newests(S, k)) <= k
         /\ S # {} => Newests(S, k) # {}
         /\ \A m \in Newests(S, k), n \in S : m <= n => n \in Newests(S, k)
         /\ \A m \in Nat : Cardinality(Newer(m, S)) >= k => Cardinality(Newer(m, Newests(S, k))) >= k
<1> DEFINE K == Newests(S, k)
<1>1. S \in SUBSET (1..MaxMessages) /\ MaxMessages \in Nat /\ S \subseteq Nat
  BY CollaborationAssumption DEF MessageNumbers
<1>2. \A m : Newer(m, S) \in SUBSET S
  BY DEF Newer
<1>3. K \in SUBSET S
  BY DEF Newests
<1>4. \A m \in K, n \in S : m <= n => n \in K
  <2> SUFFICES ASSUME NEW m \in K, NEW n \in S, m <= n PROVE n \in K
    OBVIOUS
  <2>1. Newer(n, S) \in SUBSET Newer(m, S)
    BY <1>1, <1>3, NewerFalls
  <2>2. Newer(m, S) \in SUBSET MessageNumbers
    BY <1>2
  <2>3. Cardinality(Newer(n, S)) <= Cardinality(Newer(m, S)) /\ Cardinality(Newer(n, S)) \in Nat /\ Cardinality(Newer(m, S)) \in Nat
    BY <2>1, <2>2, Counted
  <2>4. Cardinality(Newer(m, S)) < k
    BY DEF Newests
  <2> QED
    BY <2>3, <2>4 DEF Newests
<1>5. Cardinality(K) <= k
  <2>1. CASE K = {}
    BY <2>1, FS_EmptySet
  <2>2. CASE K # {}
    <3>1. PICK x \in K : \A y \in K : x <= y
      BY <1>1, <1>3, <2>2, Smallest
    <3>2. K \subseteq Newer(x, S) \union {x}
      <4> SUFFICES ASSUME NEW y \in K, y # x PROVE y \in Newer(x, S)
        OBVIOUS
      <4>0. y \in S /\ y \in Nat /\ x \in Nat /\ x <= y
        BY <1>1, <1>3, <3>1
      <4>1. y \in S /\ y > x
        BY <4>0
      <4> QED
        BY <4>1 DEF Newer
    <3>3. Newer(x, S) \in SUBSET MessageNumbers /\ IsFiniteSet(Newer(x, S)) /\ Cardinality(Newer(x, S)) \in Nat
      BY <1>2, Counted
    <3>4. IsFiniteSet(Newer(x, S) \union {x}) /\ Cardinality(Newer(x, S) \union {x}) <= Cardinality(Newer(x, S)) + 1
      <4>1. \A n \in Nat : n <= n + 1 /\ n <= n
        OBVIOUS
      <4>2. /\ IsFiniteSet(Newer(x, S) \union {x})
            /\ Cardinality(Newer(x, S) \union {x}) \in {Cardinality(Newer(x, S)), Cardinality(Newer(x, S)) + 1}
        BY <3>3, FS_AddElement, Zenon
      <4> QED
        BY <3>3, <4>1, <4>2
    <3>5. Cardinality(Newer(x, S)) < k
      BY DEF Newests
    <3>6. Cardinality(K) <= Cardinality(Newer(x, S) \union {x})
      BY <3>2, <3>4, FS_Subset
    <3>7. Cardinality(K) \in Nat /\ Cardinality(Newer(x, S) \union {x}) \in Nat
      BY <1>3, <3>4, Counted, FS_CardinalityType
    <3> QED
      BY <3>3, <3>4, <3>5, <3>6, <3>7
  <2> QED
    BY <2>1, <2>2
<1>6. ASSUME S # {} PROVE K # {}
  <2>1. PICK x \in S : \A y \in S : y <= x
    BY <1>1, <1>6, Largest
  <2>2. Newer(x, S) = {}
    <3>1. \A y \in S : ~(y > x)
      BY <1>1, <2>1
    <3> QED
      BY <3>1 DEF Newer
  <2>3. x \in K
    BY <2>2, FS_EmptySet DEF Newests
  <2> QED
    BY <2>3
<1>7. ASSUME NEW m \in Nat, Cardinality(Newer(m, S)) >= k
      PROVE  Cardinality(Newer(m, K)) >= k
  <2>1. CASE Newer(m, S) \subseteq K
    <3>1. Newer(m, S) = Newer(m, K)
      BY <1>3, <2>1 DEF Newer
    <3> QED
      BY <1>7, <3>1
  <2>2. CASE ~(Newer(m, S) \subseteq K)
    <3> DEFINE D == Newer(m, S) \ K
    <3>1. D # {} /\ D \in SUBSET (1..MaxMessages)
      BY <1>1, <1>2, <2>2
    <3>2. PICK x \in D : \A y \in D : y <= x
      BY <1>1, <3>1, Largest
    <3>3. Newer(x, S) \in SUBSET Newer(m, K)
      <4>1. x \in S /\ x > m
        BY <3>2 DEF Newer
      <4> SUFFICES ASSUME NEW y \in Newer(x, S) PROVE y \in Newer(m, K)
        OBVIOUS
      <4>2. y \in S /\ y > x
        BY DEF Newer
      <4>3. y > m /\ ~(y <= x)
        BY <1>1, <4>1, <4>2
      <4>4. y \in K
        BY <3>2, <4>2, <4>3 DEF Newer
      <4> QED
        BY <4>3, <4>4 DEF Newer
    <3>4. Newer(m, K) \in SUBSET MessageNumbers
      BY <1>3 DEF Newer
    <3>5. /\ Cardinality(Newer(x, S)) <= Cardinality(Newer(m, K))
          /\ Cardinality(Newer(x, S)) \in Nat /\ Cardinality(Newer(m, K)) \in Nat
      BY <3>3, <3>4, Counted
    <3>6. ~(Cardinality(Newer(x, S)) < k)
      BY DEF Newests, Newer
    <3> QED
      BY <3>5, <3>6
  <2> QED
    BY <2>1, <2>2
<1> QED
  BY <1>3, <1>4, <1>5, <1>6, <1>7

\* What mergeCollaborationMessages keeps, and a page of the history, are the newest of
\* their messages.
LEMMA KeptIsNewest == \A S : Kept(S) = Newests(S, MaxShown)
  BY DEF Kept, Newests, Newer
LEMMA PageIsNewest == \A S : Newest(S) = Newests(S, HistoryPage)
  BY DEF Newest, Newests, Newer

\* What was shown or pushed out still is when messages are added, and so are those.
LEMMA HasMore ==
  ASSUME NEW S \in SUBSET MessageNumbers, NEW T \in SUBSET MessageNumbers, S \subseteq T, NEW m \in Nat,
         Has(m, S) \/ m \in T
  PROVE  Has(m, Kept(T)) /\ Has(m, T)
<1>1. MaxShown \in Nat \ {0}
  BY CollaborationAssumption
<1>2. Has(m, T)
  <2>1. Newer(m, S) \in SUBSET Newer(m, T) /\ Newer(m, T) \in SUBSET MessageNumbers
    BY DEF Newer
  <2>2. /\ Cardinality(Newer(m, S)) <= Cardinality(Newer(m, T))
        /\ Cardinality(Newer(m, S)) \in Nat /\ Cardinality(Newer(m, T)) \in Nat
    BY <2>1, Counted
  <2> QED
    BY <1>1, <2>2 DEF Has
<1>3. CASE Cardinality(Newer(m, T)) >= MaxShown
  BY <1>1, <1>2, <1>3, KeptIsNewest, NewestFacts DEF Has
<1>4. CASE m \in Kept(T)
  BY <1>2, <1>4 DEF Has
<1>5. m \in T /\ m \notin Kept(T) => Cardinality(Newer(m, T)) >= MaxShown
  <2>1. Cardinality(Newer(m, T)) \in Nat
    <3>1. Newer(m, T) \in SUBSET MessageNumbers
      BY DEF Newer
    <3> QED
      BY <3>1, Counted
  <2> QED
    BY <1>1, <2>1 DEF Kept, Newer
<1> QED
  BY <1>2, <1>3, <1>4, <1>5 DEF Has

\* The calls are still told apart when one is made and others are answered, or none is.
LEMMA CallMade ==
  ASSUME FeedInv, NEW d \in FeedCall, NEW others \in SUBSET flying, flying' = others \union {d},
         posted' = posted, d.reply = NoReply, d.kind = "sync" => d.mark <= Len(posted),
         \A c \in others : ~Alike(c, d)
  PROVE  CallsTold'
<1>1. flying' \subseteq FeedCall
  BY DEF FeedInv, CallsTold
<1>2. \A c, e \in flying' : Alike(c, e) => c = e
  <2>1. \A c \in others : ~Alike(d, c)
    BY DEF Alike
  <2> QED
    BY <2>1 DEF FeedInv, CallsTold
<1>3. Len(posted) \in Nat
  BY DEF FeedInv, CollaborationTypeOK
<1>4. d.reply.messages = {} /\ d.reply.mark = 0 /\ d.reply.read = FALSE
  BY DEF NoReply
<1> QED
  BY <1>1, <1>2, <1>3, <1>4 DEF FeedInv, CallsTold

\* The calls are still told apart when some of them are answered.
LEMMA CallsAnswered ==
  ASSUME FeedInv, flying' \in SUBSET flying, posted' = posted
  PROVE  CallsTold'
  BY DEF FeedInv, CallsTold

\* What is shown and known stays when nothing of it changes.
LEMMA FeedStays ==
  ASSUME FeedInv, UNCHANGED <<posted, channel, cursor, messages, history, ready, echoed>>
  PROVE  Known' /\ Covered' /\ Told' = Told /\ \A c : PageFits(c)' <=> PageFits(c)
<1>1. Told' = Told
  BY DEF Told
<1>2. Known'
  BY DEF FeedInv, Known
<1>3. Covered'
  BY <1>1 DEF FeedInv, Covered
<1>4. \A c : PageFits(c)' <=> PageFits(c)
  BY <1>1 DEF PageFits
<1> QED
  BY <1>1, <1>2, <1>3, <1>4

\* What is known of the messages sent stays when none is sent or accepted; they may be
\* forgotten.
LEMMA SendsStay ==
  ASSUME FeedInv, UNCHANGED <<posted, keyed>>, outbox' \in {outbox, NoPosts}
  PROVE  SendsKnown' /\ outbox' \in Outboxes /\ keyed' = keyed
<1>1. Len(keyed) \in Nat /\ MaxKeyed \in Nat /\ outbox \in Outboxes
  BY CollaborationAssumption DEF FeedInv, CollaborationTypeOK, Outboxes
<1>2. NoPosts \in Outboxes /\ \A c \in FeedChannels : NoPosts[c].key = 0 /\ ~NoPosts[c].sending
  BY <1>1 DEF NoPosts, Outboxes
<1>3. CASE outbox' = outbox
  BY <1>1, <1>3 DEF FeedInv, SendsKnown
<1>4. CASE outbox' = NoPosts
  BY <1>1, <1>2, <1>4 DEF FeedInv, SendsKnown
<1> QED
  BY <1>3, <1>4

\* The types of what the window keeps.
LEMMA FeedTyped ==
  ASSUME FeedInv
  PROVE  /\ posted \in Seq(FeedChannels) /\ Len(posted) \in Nat /\ Len(posted) <= MaxMessages
         /\ visit \in Nat /\ reads \in Nat /\ cursor \in Nat /\ MaxReads \in Nat /\ MaxMessages \in Nat
         /\ messages \in SUBSET MessageNumbers /\ syncing \in 0..MaxReads
         /\ Told \subseteq 1..cursor /\ Told \subseteq 1..Len(posted) /\ Told \subseteq Nat
         /\ \A c \in flying : c \in FeedCall
         /\ echoed \in SUBSET MessageNumbers /\ outbox \in Outboxes
<1>1. MaxReads \in Nat /\ MaxMessages \in Nat
  BY CollaborationAssumption
<1>2. /\ posted \in Seq(FeedChannels) /\ Len(posted) <= MaxMessages
      /\ visit \in 0..MaxReads /\ reads \in 0..MaxReads /\ cursor \in 0..MaxMessages
      /\ messages \in SUBSET MessageNumbers /\ syncing \in 0..MaxReads
      /\ echoed \in SUBSET MessageNumbers /\ outbox \in Outboxes
  BY DEF FeedInv, CollaborationTypeOK, Outboxes
<1>3. Len(posted) \in Nat /\ visit \in Nat /\ reads \in Nat /\ cursor \in Nat
  BY <1>1, <1>2
<1>4. Told \subseteq 1..cursor
  BY DEF Told
<1>5. Told \subseteq 1..Len(posted) /\ Told \subseteq Nat
  <2>1. cursor <= Len(posted)
    BY DEF FeedInv, Known
  <2> QED
    BY <1>3, <1>4, <2>1
<1>6. \A c \in flying : c \in FeedCall
  BY DEF FeedInv, CallsTold
<1> QED
  BY <1>1, <1>2, <1>3, <1>4, <1>5, <1>6

\* Nothing of the Workspace is shown after it is left, whatever is on the way.
LEMMA WorkspaceLeft ==
  ASSUME FeedInv, Leaves, UNCHANGED <<posted, reads, keyed>>, CallsTold', SendsKnown',
         outbox' \in Outboxes, syncing' \in 0..MaxReads,
         history' \in [phase : {"idle", "loading", "ready", "error"}, before : 0..MaxMessages],
         \A c \in flying' : c \in flying \/ (c.kind = "bootstrap" /\ c.visit = visit + 1)
  PROVE  FeedInv'
<1>1. /\ visit + reads < MaxReads /\ visit' = visit + 1 /\ ready' = FALSE /\ channel' = NoChannel
      /\ cursor' = 0 /\ messages' = {} /\ echoed' = {}
  BY DEF Leaves
<1>2. visit + 1 \in 0..MaxReads /\ Cardinality({}) <= MaxShown /\ 0 \in 0..MaxMessages
  BY <1>1, FeedTyped, FS_EmptySet, CollaborationAssumption
<1>3. \A c \in flying' : c \in FeedCall
  BY DEF CallsTold
<1>4. CollaborationTypeOK'
  <2>1. \A c \in flying' : /\ c.kind \in {"bootstrap", "history", "sync"}
                            /\ c.visit \in 1..MaxReads /\ c.reply.messages \subseteq MessageNumbers
    BY <1>3 DEF FeedCall
  <2> QED
    BY <1>1, <1>2, <2>1 DEF FeedInv, CollaborationTypeOK, Outboxes
<1>5. \A c \in flying : c.visit <= visit /\ c.visit \in Nat /\ (c.kind = "history" => c.request <= reads)
  BY FeedTyped DEF FeedInv, Visits, FeedCall
<1>6. \A c \in flying' : c.visit <= visit' /\ (c.visit = visit' => c.kind = "bootstrap")
                          /\ (c.kind = "history" => c.request <= reads')
  BY <1>1, <1>5, FeedTyped
<1>7. Visits'
  BY <1>1, <1>6 DEF Visits, OfTheVisit
<1>8. Known'
  BY <1>1, FeedTyped DEF Known
<1>9. Told' = {}
  BY <1>1 DEF Told
<1>10. Covered'
  BY <1>1, <1>9 DEF Covered
<1>11. PagesFit'
  <2>1. \A c \in flying' : ~Counts(c)'
    BY <1>6 DEF Counts
  <2> QED
    BY <2>1 DEF PagesFit
<1> QED
  BY <1>4, <1>7, <1>8, <1>10, <1>11 DEF FeedInv

\* A visit begins.
LEMMA WorkspaceSelected ==
  ASSUME FeedInv, SelectWorkspace
  PROVE  FeedInv'
<1>1. PICK d : d = [Call("bootstrap", 0, NoChannel, 0, NoReply) EXCEPT !.visit = visit + 1]
  OBVIOUS
<1>2. /\ visit + reads < MaxReads /\ visit' = visit + 1 /\ syncing' = 0
      /\ flying' = flying \union {d} /\ UNCHANGED <<posted, history, reads, keyed>>
      /\ outbox' = [c \in FeedChannels |-> [outbox[c] EXCEPT !.sending = FALSE]]
  BY <1>1 DEF SelectWorkspace, Leaves
<1>3. /\ d \in FeedCall /\ d.kind = "bootstrap" /\ d.visit = visit + 1 /\ d.reply = NoReply
  <2>1. d = [kind |-> "bootstrap", visit |-> visit + 1, request |-> 0, channel |-> NoChannel, mark |-> 0,
             reply |-> NoReply]
    BY <1>1 DEF Call
  <2>2. visit + 1 \in 1..MaxReads /\ 0 \in 0..MaxReads /\ 0 \in 0..MaxMessages
    BY <1>2, FeedTyped
  <2>3. NoReply \in [read : BOOLEAN, messages : SUBSET MessageNumbers, mark : 0..MaxMessages]
    BY <2>2 DEF NoReply
  <2> QED
    BY <2>1, <2>2, <2>3 DEF FeedCall
<1>4. CallsTold'
  <2>1. \A c \in flying : ~Alike(c, d)
    BY SMTT(30), <1>3, FeedTyped DEF Alike, FeedInv, Visits, FeedCall
  <2> QED
    BY <1>2, <1>3, <2>1, CallMade
<1>5. /\ outbox' \in Outboxes
      /\ \A c \in FeedChannels : outbox'[c].key = outbox[c].key /\ ~outbox'[c].sending
  <2>1. \A c \in FeedChannels : outbox[c] \in [key : 0..MaxKeyed, sending : BOOLEAN]
    BY FeedTyped DEF Outboxes
  <2> QED
    BY <1>2, <2>1 DEF Outboxes
<1>6. SendsKnown'
  BY <1>2, <1>5 DEF FeedInv, SendsKnown
<1>7. /\ 0 \in 0..MaxReads
      /\ history' \in [phase : {"idle", "loading", "ready", "error"}, before : 0..MaxMessages]
  BY <1>2, FeedTyped DEF FeedInv, CollaborationTypeOK
<1>8. Leaves
  BY DEF SelectWorkspace
<1> QED
  BY <1>2, <1>3, <1>4, <1>5, <1>6, <1>7, <1>8, WorkspaceLeft

\* The access is gone, and a call with it.
LEMMA AccessIsGone ==
  ASSUME FeedInv, Revoked, flying' \in SUBSET flying, syncing' \in 0..MaxReads
  PROVE  FeedInv'
<1>1. /\ Leaves /\ UNCHANGED <<posted, reads, keyed>> /\ outbox' = NoPosts
      /\ history' = [phase |-> "idle", before |-> 0]
  BY DEF Revoked
<1>2. SendsKnown' /\ outbox' \in Outboxes
  BY <1>1, SendsStay
<1>3. CallsTold'
  BY <1>1, CallsAnswered
<1>4. history' \in [phase : {"idle", "loading", "ready", "error"}, before : 0..MaxMessages]
  BY <1>1, FeedTyped
<1> QED
  BY <1>1, <1>2, <1>3, <1>4, WorkspaceLeft

\* A sync starts from the cursor, and nothing else changes of what it counts on.
LEMMA SyncStarts ==
  ASSUME FeedInv, MaySync, StartsSync, UNCHANGED <<posted, visit, ready, channel, cursor, history, reads>>
  PROVE  /\ CallsTold' /\ Visits' /\ syncing' \in 0..MaxReads
         /\ \A d \in flying' : Counts(d)' => d \in flying /\ Counts(d)
<1>1. PICK d : d = Call("sync", 0, channel, cursor, NoReply)
  OBVIOUS
<1>2. ready /\ syncing # visit /\ syncing' = visit /\ flying' = flying \union {d}
  BY <1>1 DEF MaySync, StartsSync
<1>3. /\ d \in FeedCall /\ d.kind = "sync" /\ d.visit = visit /\ d.reply = NoReply /\ d.mark = cursor
      /\ cursor <= Len(posted) /\ visit \in 0..MaxReads
  <2>1. visit \in 1..MaxReads /\ channel \in FeedChannels \union {NoChannel} /\ cursor \in 0..MaxMessages
        /\ cursor <= Len(posted)
    BY <1>2, FeedTyped DEF FeedInv, Visits, Known, CollaborationTypeOK
  <2> QED
    BY <1>1, <2>1, FeedTyped DEF Call, FeedCall, NoReply
<1>4. CallsTold'
  <2>1. \A c \in flying : ~Alike(c, d)
    BY <1>2, <1>3 DEF Alike, FeedInv, Visits, OfTheVisit
  <2> QED
    BY <1>2, <1>3, <2>1, CallMade
<1>5. Visits'
  BY <1>2, <1>3, FeedTyped DEF FeedInv, Visits, OfTheVisit
<1> QED
  BY <1>2, <1>3, <1>4, <1>5 DEF Counts

LEMMA Syncs ==
  ASSUME FeedInv, Sync
  PROVE  FeedInv'
<1>1. /\ MaySync /\ StartsSync
      /\ UNCHANGED <<posted, visit, ready, channel, cursor, messages, history, reads, keyed, outbox, echoed>>
  BY DEF Sync
<1>2. /\ CallsTold' /\ Visits' /\ syncing' \in 0..MaxReads
      /\ \A d \in flying' : Counts(d)' => d \in flying /\ Counts(d)
  BY <1>1, SyncStarts
<1>3. CollaborationTypeOK'
  <2>1. \A c \in flying' : c \in FeedCall
    BY <1>2 DEF CallsTold
  <2> QED
    BY <1>1, <1>2, <2>1 DEF FeedInv, CollaborationTypeOK, FeedCall
<1>4. Known' /\ Covered' /\ \A c : PageFits(c)' <=> PageFits(c)
  BY <1>1, FeedStays
<1>5. PagesFit'
  BY <1>1, <1>2, <1>4 DEF FeedInv, PagesFit
<1>6. SendsKnown'
  BY <1>1, SendsStay
<1> QED
  BY <1>2, <1>3, <1>4, <1>5, <1>6 DEF FeedInv

\* A page is asked for: the newest one, or the one in front of the last.
LEMMA Loads ==
  ASSUME FeedInv, NEW c \in FeedChannels, NEW mark \in 0..MaxMessages, NEW before \in 0..MaxMessages,
         NEW others \in SUBSET flying,
         Loading(c, mark, before, others), UNCHANGED <<posted, visit, syncing>>,
         visit # 0, ready', channel' = c, cursor' \in 0..Len(posted),
         messages' \in SUBSET (1..Len(posted)), Cardinality(messages') <= MaxShown,
         echoed' \in SUBSET MessageNumbers, keyed' = keyed, outbox' \in Outboxes,
         Known', Covered', SendsKnown', mark # 0 => mark = before,
         \A d \in others : d.visit = visit => OfTheVisit(d)'
  PROVE  FeedInv'
<1>1. PICK d : d = Call("history", reads + 1, c, mark, NoReply)
  OBVIOUS
<1>2. /\ visit + reads < MaxReads /\ reads' = reads + 1
      /\ history' = [phase |-> "loading", before |-> before] /\ flying' = others \union {d}
  BY <1>1 DEF Loading
<1>3. /\ d \in FeedCall /\ d.kind = "history" /\ d.visit = visit /\ d.request = reads + 1
      /\ d.reply = NoReply /\ d.mark = mark /\ d.channel = c /\ d.reply.read = FALSE
  <2>1. visit \in 1..MaxReads /\ reads + 1 \in 0..MaxReads
    BY <1>2, FeedTyped
  <2> QED
    BY <1>1, <2>1, FeedTyped DEF Call, FeedCall, NoReply
<1>4. \A e \in others : e.kind = "history" => e.request <= reads /\ e.request # reads + 1 /\ e.request <= reads + 1
  BY SMTT(30), FeedTyped DEF FeedInv, Visits, FeedCall
<1>5. CallsTold'
  <2>1. \A e \in others : ~Alike(e, d)
    BY <1>3, <1>4 DEF Alike
  <2> QED
    BY <1>2, <1>3, <2>1, CallMade
<1>6. CollaborationTypeOK'
  <2>1. \A e \in flying' : e \in FeedCall
    BY <1>5 DEF CallsTold
  <2>2. reads' \in 0..MaxReads /\ cursor' \in 0..MaxMessages /\ messages' \subseteq MessageNumbers
    BY SMTT(30), <1>2, FeedTyped DEF MessageNumbers
  <2> QED
    BY <1>2, <2>1, <2>2 DEF FeedInv, CollaborationTypeOK, FeedCall, Outboxes
<1>7. Visits'
  <2>1. \A e \in flying' : e.visit <= visit' /\ (e.kind = "history" => e.request <= reads')
    BY SMTT(30), <1>2, <1>3, <1>4, FeedTyped DEF FeedInv, Visits
  <2>2. \A e \in flying' : e.visit = visit' => OfTheVisit(e)'
    BY <1>2, <1>3 DEF OfTheVisit
  <2> QED
    BY <2>1, <2>2, CollaborationAssumption DEF Visits
<1>8. PagesFit'
  <2>1. \A e \in flying' : Counts(e)' => e = d
    BY <1>2, <1>4 DEF Counts
  <2> QED
    BY <1>2, <1>3, <2>1 DEF PagesFit
<1> QED
  BY <1>5, <1>6, <1>7, <1>8 DEF FeedInv

\* A call ends that has no say in what is shown.
LEMMA CallsEnd ==
  ASSUME FeedInv, flying' \in SUBSET flying,
         UNCHANGED <<posted, visit, ready, channel, cursor, messages, history, reads, keyed, echoed>>,
         syncing' \in 0..MaxReads, outbox' \in Outboxes, SendsKnown',
         \A d \in flying' : d.kind = "sync" /\ d.visit = visit => syncing' = syncing
  PROVE  FeedInv'
<1>1. CallsTold'
  BY CallsAnswered
<1>2. CollaborationTypeOK'
  BY DEF FeedInv, CollaborationTypeOK, Outboxes
<1>3. Visits'
  BY DEF FeedInv, Visits, OfTheVisit
<1>4. Known' /\ Covered' /\ \A c : PageFits(c)' <=> PageFits(c)
  BY FeedStays
<1>5. PagesFit'
  BY <1>4 DEF FeedInv, PagesFit, Counts
<1> QED
  BY <1>1, <1>2, <1>3, <1>4, <1>5 DEF FeedInv

\* Nothing changes but what is being sent.
LEMMA OnlyTheSends ==
  ASSUME FeedInv, SendsKnown', CollaborationTypeOK',
         UNCHANGED <<posted, visit, ready, channel, cursor, messages, history, reads, syncing, flying, echoed>>
  PROVE  FeedInv'
<1>1. flying' \in SUBSET flying
  OBVIOUS
<1>2. CallsTold'
  BY <1>1, CallsAnswered
<1>3. Visits'
  BY DEF FeedInv, Visits, OfTheVisit
<1>4. Known' /\ Covered' /\ \A c : PageFits(c)' <=> PageFits(c)
  BY FeedStays
<1>5. PagesFit'
  BY <1>4 DEF FeedInv, PagesFit, Counts
<1> QED
  BY <1>2, <1>3, <1>4, <1>5 DEF FeedInv

\* Another channel is chosen: nothing of it is shown yet.
LEMMA ChannelSelected ==
  ASSUME FeedInv, NEW c \in FeedChannels, SelectChannel(c)
  PROVE  FeedInv'
<1>1. /\ ready /\ channel' = c /\ messages' = {} /\ echoed' = {} /\ Loading(c, 0, 0, flying)
      /\ UNCHANGED <<posted, visit, ready, cursor, syncing, keyed, outbox>>
  BY DEF SelectChannel
<1>2. visit # 0 /\ cursor' \in 0..Len(posted)
  BY <1>1, FeedTyped DEF FeedInv, Visits, Known
<1>3. Known' /\ Covered'
  BY <1>1, <1>2, FeedTyped DEF Known, Covered, Loading
<1>4. Cardinality(messages') <= MaxShown
  BY <1>1, FS_EmptySet, CollaborationAssumption
<1>5. \A d \in flying : d.visit = visit => OfTheVisit(d)'
  BY <1>1 DEF FeedInv, Visits, OfTheVisit
<1>6. 0 \in 0..MaxMessages
  BY FeedTyped
<1>7. SendsKnown' /\ outbox' \in Outboxes
  BY <1>1, SendsStay
<1> QED
  BY <1>1, <1>2, <1>3, <1>4, <1>5, <1>6, <1>7, Loads

\* The bootstrap is answered, and a first channel is chosen with it.
LEMMA Bootstraps ==
  ASSUME FeedInv, NEW c \in flying, Bootstrapped(c)
  PROVE  FeedInv'
<1>1. /\ c.kind = "bootstrap" /\ c.reply.read
      /\ UNCHANGED <<posted, visit, syncing, keyed>>
  BY DEF Bootstrapped
<1>2. c \in FeedCall
  BY FeedTyped
<1>3. CASE c.visit = visit
  <2>1. PICK first \in FeedChannels :
          /\ ready' = TRUE /\ cursor' = c.reply.mark /\ channel' = first
          /\ messages' = {} /\ echoed' = {} /\ outbox' \in {outbox, NoPosts}
          /\ Loading(first, 0, 0, flying \ {c})
    BY <1>3 DEF Bootstrapped
  <2>2. visit # 0 /\ cursor' \in 0..Len(posted)
    BY <1>2, <1>3, <2>1, FeedTyped DEF FeedInv, CallsTold, FeedCall
  <2>3. Known' /\ Covered'
    BY <1>1, <2>1, <2>2, FeedTyped DEF Known, Covered, Loading
  <2>4. Cardinality(messages') <= MaxShown
    BY <2>1, FS_EmptySet, CollaborationAssumption
  <2>5. ~ready
    BY <1>1, <1>3 DEF FeedInv, Visits, OfTheVisit
  <2>6. ASSUME NEW d \in flying \ {c}, d.visit = visit PROVE OfTheVisit(d)'
    <3>1. d.kind # "bootstrap"
      BY <1>1, <1>3, <2>6 DEF FeedInv, CallsTold, Alike
    <3>2. d.kind # "sync"
      BY <2>5, <2>6 DEF FeedInv, Visits, OfTheVisit
    <3> QED
      BY <3>1, <3>2 DEF OfTheVisit
  <2>7. 0 \in 0..MaxMessages
    BY FeedTyped
  <2>8. SendsKnown' /\ outbox' \in Outboxes
    BY <1>1, <2>1, SendsStay
  <2> QED
    BY <1>1, <2>1, <2>2, <2>3, <2>4, <2>6, <2>7, <2>8, Loads
<1>4. CASE c.visit # visit
  <2>1. flying' = flying \ {c} /\ UNCHANGED <<ready, cursor, channel, messages, history, reads, outbox, echoed>>
    BY <1>4 DEF Bootstrapped
  <2>2. SendsKnown' /\ outbox' \in Outboxes
    BY <1>1, <2>1, SendsStay
  <2> QED
    BY <1>1, <2>1, <2>2, CallsEnd, FeedTyped
<1> QED
  BY <1>3, <1>4

\* The newest page is asked for again, or an older one.
LEMMA HistoryAsked ==
  ASSUME FeedInv, NEW older \in BOOLEAN, LoadHistory(older)
  PROVE  FeedInv'
<1> DEFINE mark == IF older THEN history.before ELSE 0
<1>1. /\ channel # NoChannel /\ Loading(channel, mark, history.before, flying)
      /\ UNCHANGED <<posted, visit, ready, channel, cursor, messages, syncing, keyed, outbox, echoed>>
  BY DEF LoadHistory
<1>2. /\ ready /\ visit # 0 /\ cursor' \in 0..Len(posted) /\ channel \in FeedChannels
      /\ messages' \in SUBSET (1..Len(posted)) /\ Cardinality(messages') <= MaxShown
      /\ history.before \in 0..MaxMessages /\ mark \in 0..MaxMessages
  BY <1>1, FeedTyped DEF FeedInv, Visits, Known, CollaborationTypeOK
<1>3. history' = [phase |-> "loading", before |-> history.before]
  BY <1>1 DEF Loading
<1>4. Told' = Told
  BY <1>1 DEF Told
<1>5. Known' /\ Covered'
  BY <1>1, <1>3, <1>4 DEF FeedInv, Known, Covered
<1>6. \A d \in flying : d.visit = visit => OfTheVisit(d)'
  BY <1>1 DEF FeedInv, Visits, OfTheVisit
<1>7. SendsKnown' /\ outbox' \in Outboxes /\ echoed' \in SUBSET MessageNumbers
  BY <1>1, SendsStay, FeedTyped
<1> QED
  BY <1>1, <1>2, <1>5, <1>6, <1>7, Loads

\* A page is read: it fits in front of what is shown, or it does not count.
LEMMA HistoryComes ==
  ASSUME FeedInv, NEW c \in flying, HistoryRead(c)
  PROVE  FeedInv'
<1>1. /\ c.kind = "history" /\ c.reply.read /\ flying' = flying \ {c}
      /\ UNCHANGED <<posted, visit, ready, channel, cursor, reads, syncing, keyed, outbox>>
      /\ SendsKnown' /\ outbox' \in Outboxes
  BY SendsStay DEF HistoryRead
<1>2. CASE ~Counts(c)
  <2>1. UNCHANGED <<messages, history, echoed>>
    BY <1>1, <1>2 DEF HistoryRead, Counts
  <2> QED
    BY <1>1, <2>1, CallsEnd, FeedTyped
<1>3. CASE Counts(c)
  <2>1. /\ messages' = Kept(messages \union c.reply.messages)
        /\ echoed' = echoed \ c.reply.messages
        /\ history' = [phase |-> "ready", before |-> c.reply.mark]
    BY <1>1, <1>3 DEF HistoryRead, Counts
  <2> DEFINE all == messages \union c.reply.messages
  <2>2. PageFits(c) /\ ready
    BY <1>1, <1>3 DEF FeedInv, PagesFit
  <2>3. /\ all \in SUBSET MessageNumbers /\ all \in SUBSET (1..Len(posted))
        /\ c.reply.mark \in 0..MaxMessages /\ \A m \in all : posted[m] = channel
    BY <2>2, FeedTyped DEF FeedInv, CallsTold, Known, PageFits, FeedCall
  <2>4. messages' \in SUBSET all /\ Cardinality(messages') <= MaxShown /\ (all # {} => messages' # {})
    BY <2>1, <2>3, KeptIsNewest, NewestFacts, CollaborationAssumption
  <2>5. Told' = Told
    BY <1>1 DEF Told
  <2>6. \A m \in Told : Has(m, messages) \/ m \in c.reply.messages => Has(m, messages')
    BY <2>1, <2>3, HasMore, FeedTyped
  <2>7. \A m \in Told : Has(m, messages') \/ m < c.reply.mark
    BY <2>2, <2>6 DEF PageFits
  <2>8. CallsTold'
    BY <1>1, CallsAnswered
  <2>9. CollaborationTypeOK'
    <3>1. messages' \subseteq MessageNumbers /\ echoed' \subseteq MessageNumbers
      BY <2>1, <2>3, <2>4, FeedTyped
    <3> QED
      BY <1>1, <2>1, <2>3, <2>4, <3>1 DEF FeedInv, CollaborationTypeOK
  <2>10. Visits'
    BY <1>1 DEF FeedInv, Visits, OfTheVisit
  <2>11. Known'
    BY <1>1, <2>3, <2>4 DEF FeedInv, Known
  <2>12. Covered'
    <3>1. ASSUME NEW n \in messages' \ echoed', NEW m \in Told, n <= m PROVE Has(m, messages')
      <4>1. CASE n \in messages \ echoed
        BY <2>6, <3>1, <4>1 DEF FeedInv, Covered
      <4>2. CASE n \in c.reply.messages
        <5>1. n >= c.reply.mark /\ n \in Nat /\ m \in Nat /\ c.reply.mark \in Nat
          BY <2>2, <2>3, <4>2, FeedTyped DEF PageFits
        <5>2. ~(m < c.reply.mark)
          BY <3>1, <5>1
        <5> QED
          BY <2>7, <5>2
      <4> QED
        BY <2>1, <2>4, <4>1, <4>2
    <3>3. \A m \in Told : c.reply.mark <= m => Has(m, messages')
      BY <2>3, <2>7, FeedTyped
    <3>4. c.reply.mark = 0 => \A m \in Told : Has(m, messages')
      BY <2>7, FeedTyped
    <3> QED
      BY <2>1, <2>5, <3>1, <3>3, <3>4 DEF Covered
  <2>13. PagesFit'
    <3>1. \A d \in flying' : ~Counts(d)'
      BY <1>1, <1>3 DEF Counts, FeedInv, CallsTold, Alike
    <3> QED
      BY <3>1 DEF PagesFit
  <2> QED
    BY <1>1, <2>8, <2>9, <2>10, <2>11, <2>12, <2>13 DEF FeedInv
<1> QED
  BY <1>2, <1>3

\* A page is refused: what is shown stays, or goes with the place of the next page.
LEMMA HistoryRefused ==
  ASSUME FeedInv, NEW c \in flying, HistoryFailed(c)
  PROVE  FeedInv'
<1>1. /\ c.kind = "history" /\ flying' = flying \ {c}
      /\ UNCHANGED <<posted, visit, ready, channel, cursor, reads, syncing, keyed, outbox>>
      /\ SendsKnown' /\ outbox' \in Outboxes
  BY SendsStay DEF HistoryFailed
<1>2. CASE ~Counts(c)
  <2>1. UNCHANGED <<messages, history, echoed>>
    BY <1>1, <1>2 DEF HistoryFailed, Counts
  <2> QED
    BY <1>1, <2>1, CallsEnd, FeedTyped
<1>3. CASE Counts(c)
  <2>1. \/ history' = [history EXCEPT !.phase = "error"] /\ messages' = messages /\ echoed' = echoed
        \/ history' = [phase |-> "error", before |-> 0] /\ messages' = {} /\ echoed' = {}
    BY <1>1, <1>3 DEF HistoryFailed, Counts
  <2>2. /\ history' \in [phase : {"idle", "loading", "ready", "error"}, before : 0..MaxMessages]
        /\ history'.phase = "error"
        /\ \/ history'.before = history.before /\ messages' = messages /\ echoed' = echoed
           \/ history'.before = 0 /\ messages' = {} /\ echoed' = {}
    <3>1. history \in [phase : {"idle", "loading", "ready", "error"}, before : 0..MaxMessages]
          /\ 0 \in 0..MaxMessages
      BY FeedTyped DEF FeedInv, CollaborationTypeOK
    <3>2. CASE history' = [history EXCEPT !.phase = "error"] /\ messages' = messages /\ echoed' = echoed
      <4>1. history' = [phase |-> "error", before |-> history.before]
        BY <3>1, <3>2
      <4>2. history.before \in 0..MaxMessages
        BY <3>1
      <4>3. history'.phase = "error" /\ history'.before = history.before
        BY <4>1
      <4>4. history' \in [phase : {"idle", "loading", "ready", "error"}, before : 0..MaxMessages]
        BY <4>1, <4>2
      <4> QED
        BY <3>2, <4>2, <4>3, <4>4
    <3>3. CASE history' = [phase |-> "error", before |-> 0] /\ messages' = {} /\ echoed' = {}
      BY <3>1, <3>3
    <3> QED
      BY <2>1, <3>2, <3>3
  <2>3. Told' = Told
    BY <1>1 DEF Told
  <2>4. CallsTold'
    BY <1>1, CallsAnswered
  <2>5. CollaborationTypeOK'
    <3>1. Cardinality({}) <= MaxShown
      BY FS_EmptySet, CollaborationAssumption
    <3> QED
      BY <1>1, <2>2, <3>1 DEF FeedInv, CollaborationTypeOK
  <2>6. Visits'
    BY <1>1 DEF FeedInv, Visits, OfTheVisit
  <2>7. Known'
    BY <1>1, <2>2 DEF FeedInv, Known
  <2>8. Covered'
    BY <1>1, <2>2, <2>3 DEF FeedInv, Covered
  <2>9. PagesFit'
    <3>1. \A d \in flying' : ~Counts(d)'
      BY <1>1, <1>3 DEF Counts, FeedInv, CallsTold, Alike
    <3> QED
      BY <3>1 DEF PagesFit
  <2> QED
    BY <1>1, <2>4, <2>5, <2>6, <2>7, <2>8, <2>9 DEF FeedInv
<1> QED
  BY <1>2, <1>3

\* What a sync brings is told of and shown, in the channel it is for by now.
LEMMA SyncEnds ==
  ASSUME FeedInv, NEW c \in flying, Synced(c)
  PROVE  FeedInv'
<1>1. /\ c.kind = "sync" /\ c.reply.read /\ flying' = flying \ {c}
      /\ syncing' = IF syncing = c.visit THEN 0 ELSE syncing
      /\ UNCHANGED <<posted, visit, ready, channel, history, reads, keyed, outbox>>
      /\ SendsKnown' /\ outbox' \in Outboxes
  BY SendsStay DEF Synced, SyncOver
<1>2. \A d \in flying' : d.kind = "sync" => d.visit # c.visit
  BY <1>1 DEF FeedInv, CallsTold, Alike
<1>3. syncing' \in 0..MaxReads /\ \A d \in flying' : d.kind = "sync" /\ d.visit = visit => syncing' = syncing
  <2>1. 0 \in 0..MaxReads
    BY FeedTyped
  <2> QED
    BY <1>1, <1>2, <2>1, FeedTyped DEF FeedInv, Visits, OfTheVisit
<1>4. CASE c.visit # visit
  <2>1. UNCHANGED <<cursor, messages, echoed>>
    BY <1>4 DEF Synced
  <2> QED
    BY <1>1, <1>3, <2>1, CallsEnd
<1>5. CASE c.visit = visit
  <2> DEFINE new == ForChannel(c)
             all == messages \union new
  <2>1. cursor' = c.reply.mark /\ messages' = Kept(all) /\ echoed' = echoed \ new
    BY <1>5 DEF Synced
  <2>2. /\ ready /\ c.mark = cursor /\ c.reply.messages = c.mark + 1..c.reply.mark /\ c.mark <= c.reply.mark
        /\ c.reply.mark <= Len(posted) /\ c.reply.messages \subseteq 1..Len(posted)
        /\ c.reply.mark \in 0..MaxMessages
    BY <1>1, <1>5, FeedTyped DEF FeedInv, Visits, OfTheVisit, CallsTold, FeedCall
  <2>3. new = {m \in cursor + 1..cursor' : posted[m] = channel}
    BY <2>1, <2>2 DEF ForChannel, Of
  <2>4. /\ all \in SUBSET MessageNumbers /\ all \in SUBSET (1..Len(posted)) /\ \A m \in all : posted[m] = channel
    <3>1. new \subseteq 1..Len(posted) /\ \A m \in new : posted[m] = channel
      BY <2>2 DEF ForChannel, Of
    <3>2. 1..Len(posted) \subseteq MessageNumbers
      BY FeedTyped DEF MessageNumbers
    <3> QED
      BY <3>1, <3>2 DEF FeedInv, Known
  <2>5. messages' \in SUBSET all /\ Cardinality(messages') <= MaxShown /\ (all # {} => messages' # {})
    BY <2>1, <2>4, KeptIsNewest, NewestFacts, CollaborationAssumption
  <2>6. Told' = Told \union new /\ \A m \in new : \A n \in Told : n < m
    <3>1. cursor \in Nat /\ cursor' \in Nat /\ cursor <= cursor'
      BY <2>1, <2>2, FeedTyped
    <3>2. 1..cursor' = (1..cursor) \union (cursor + 1..cursor')
      BY <3>1
    <3>3. Told' = {m \in 1..cursor' : posted[m] = channel}
      BY <1>1 DEF Told
    <3> QED
      BY <2>3, <3>1, <3>2, <3>3, FeedTyped DEF Told
  <2>7. \A m \in Told' : m \in Nat /\ (Has(m, messages) \/ m \in new => Has(m, messages'))
    <3>1. \A m \in Told' : m \in Nat
      BY <2>4, <2>6, FeedTyped
    <3>2. \A m \in Nat : Has(m, messages) \/ m \in new => Has(m, messages')
      BY <2>1, <2>4, HasMore, FeedTyped
    <3> QED
      BY <3>1, <3>2
  <2>8. CallsTold'
    BY <1>1, CallsAnswered
  <2>9. CollaborationTypeOK'
    <3>1. messages' \subseteq MessageNumbers /\ echoed' \subseteq MessageNumbers
      BY <2>1, <2>4, <2>5, FeedTyped
    <3> QED
      BY <1>1, <1>3, <2>1, <2>2, <2>5, <3>1 DEF FeedInv, CollaborationTypeOK
  <2>10. Visits'
    <3>1. \A d \in flying' : d.visit = visit => OfTheVisit(d)'
      BY <1>1, <1>2, <1>5 DEF FeedInv, Visits, OfTheVisit
    <3> QED
      BY <1>1, <3>1 DEF FeedInv, Visits
  <2>11. Known'
    BY <1>1, <2>1, <2>2, <2>4, <2>5 DEF Known
  <2>12. Covered'
    <3>1. ASSUME NEW n \in messages' \ echoed', NEW m \in Told', n <= m PROVE Has(m, messages')
      <4>1. CASE m \in new
        BY <2>7, <4>1
      <4>2. CASE m \in Told /\ n \in messages \ echoed
        BY <2>7, <3>1, <4>2 DEF FeedInv, Covered
      <4>3. CASE m \in Told /\ n \in new
        <5>1. m < n /\ m \in Nat /\ n \in Nat
          BY <2>4, <2>6, <4>3, FeedTyped
        <5> QED
          BY <3>1, <5>1
      <4> QED
        BY <2>1, <2>5, <2>6, <4>1, <4>2, <4>3
    <3>2. history.before # 0 => \A m \in Told' : history.before <= m => Has(m, messages')
      BY <2>2, <2>6, <2>7 DEF FeedInv, Covered
    <3>3. history.phase = "ready" /\ history.before = 0 => \A m \in Told' : Has(m, messages')
      BY <2>6, <2>7 DEF FeedInv, Covered
    <3> QED
      BY <1>1, <3>1, <3>2, <3>3 DEF Covered
  <2>13. PagesFit'
    <3>1. ASSUME NEW d \in flying', Counts(d), PageFits(d) PROVE PageFits(d)'
      <4>1. \A m \in Told' : m \in d.reply.messages \/ Has(m, messages') \/ m < d.reply.mark
        BY <2>6, <2>7, <3>1 DEF PageFits
      <4> QED
        BY <1>1, <3>1, <4>1 DEF PageFits
    <3>2. \A d \in flying' : Counts(d)' <=> Counts(d)
      BY <1>1 DEF Counts
    <3> QED
      BY <1>1, <3>1, <3>2 DEF FeedInv, PagesFit
  <2> QED
    BY <1>1, <2>8, <2>9, <2>10, <2>11, <2>12, <2>13 DEF FeedInv
<1> QED
  BY <1>4, <1>5

\* A sync or a bootstrap fails.
LEMMA FeedCallFails ==
  ASSUME FeedInv, NEW c \in flying, CallFailed(c)
  PROVE  FeedInv'
<1>1. /\ flying' = flying \ {c}
      /\ syncing' = IF c.kind = "sync" /\ syncing = c.visit THEN 0 ELSE syncing
      /\ UNCHANGED <<posted, visit, ready, channel, cursor, messages, history, reads, keyed, outbox, echoed>>
      /\ SendsKnown' /\ outbox' \in Outboxes
  BY SendsStay DEF CallFailed, SyncOver
<1>2. c.kind = "sync" => \A d \in flying' : d.kind = "sync" => d.visit # c.visit
  BY <1>1 DEF FeedInv, CallsTold, Alike
<1>3. syncing' \in 0..MaxReads /\ \A d \in flying' : d.kind = "sync" /\ d.visit = visit => syncing' = syncing
  <2>1. 0 \in 0..MaxReads
    BY FeedTyped
  <2> QED
    BY <1>1, <1>2, <2>1, FeedTyped DEF FeedInv, Visits, OfTheVisit
<1> QED
  BY <1>1, <1>3, CallsEnd

\* A call is refused with the access to the Workspace.
LEMMA CallIsRevoked ==
  ASSUME FeedInv, NEW c \in flying, CallRevoked(c)
  PROVE  FeedInv'
<1>1. Revoked /\ flying' = flying \ {c} /\ syncing' \in {0, syncing}
  BY DEF CallRevoked, SyncOver
<1>2. 0 \in 0..MaxReads
  BY FeedTyped
<1> QED
  BY <1>1, <1>2, FeedTyped, AccessIsGone

\* A message is sent: nothing is accepted under a new key yet.
LEMMA Sends ==
  ASSUME FeedInv, NEW again \in BOOLEAN, SendMessage(again)
  PROVE  FeedInv'
<1>1. /\ channel # NoChannel
      /\ UNCHANGED <<posted, visit, ready, channel, cursor, messages, history, reads, syncing, flying, echoed>>
  BY DEF SendMessage
<1>2. /\ channel \in FeedChannels /\ Len(keyed) \in Nat /\ MaxKeyed \in Nat /\ Len(keyed) <= MaxKeyed
      /\ keyed \in Seq([channel : FeedChannels, message : 0..MaxMessages]) /\ 0 \in 0..MaxMessages
      /\ \A c \in FeedChannels : outbox[c] \in [key : 0..MaxKeyed, sending : BOOLEAN]
  BY <1>1, FeedTyped, CollaborationAssumption DEF FeedInv, CollaborationTypeOK, Outboxes
<1>3. CASE again
  <2>1. /\ outbox[channel].key # 0 /\ keyed' = keyed
        /\ outbox' = [outbox EXCEPT ![channel].sending = TRUE]
    BY <1>3 DEF SendMessage
  <2>2. /\ outbox' \in Outboxes
        /\ \A c \in FeedChannels : /\ outbox'[c].key = outbox[c].key
                                   /\ outbox'[c].sending => outbox[c].sending \/ c = channel
    BY <1>2, <2>1, FeedTyped DEF Outboxes
  <2>3. SendsKnown' /\ CollaborationTypeOK'
    BY <1>1, <2>1, <2>2 DEF FeedInv, SendsKnown, CollaborationTypeOK, Outboxes
  <2> QED
    BY <1>1, <2>2, <2>3, OnlyTheSends
<1>4. CASE ~again
  <2> DEFINE k == Len(keyed) + 1
             entry == [channel |-> channel, message |-> 0]
  <2>1. /\ Len(keyed) < MaxKeyed /\ keyed' = Append(keyed, entry)
        /\ outbox' = [outbox EXCEPT ![channel] = [key |-> k, sending |-> TRUE]]
    BY <1>4 DEF SendMessage
  <2>2. entry \in [channel : FeedChannels, message : 0..MaxMessages]
    BY <1>2
  <2>3. /\ keyed' \in Seq([channel : FeedChannels, message : 0..MaxMessages])
        /\ Len(keyed') = k /\ Len(keyed') <= MaxKeyed
        /\ \A i \in 1..Len(keyed) : keyed'[i] = keyed[i]
        /\ keyed'[k] = entry
    BY <1>2, <2>1, <2>2, AppendFact
  <2>4. /\ outbox' \in Outboxes /\ k \in 0..MaxKeyed
        /\ outbox'[channel] = [key |-> k, sending |-> TRUE]
        /\ \A c \in FeedChannels : c # channel => outbox'[c] = outbox[c]
    BY <1>2, <2>1, FeedTyped DEF Outboxes
  <2>5. SendsKnown'
    <3>1. ASSUME NEW i \in 1..Len(keyed')
          PROVE  /\ keyed'[i].message <= Len(posted)
                 /\ keyed'[i].message # 0 => posted[keyed'[i].message] = keyed'[i].channel
      <4>1. i \in 1..Len(keyed) \/ i = k
        BY <1>2, <2>3
      <4>2. entry.message = 0 /\ Len(posted) \in Nat
        BY FeedTyped
      <4>3. CASE i \in 1..Len(keyed)
        <5>1. /\ keyed[i].message <= Len(posted)
              /\ keyed[i].message # 0 => posted[keyed[i].message] = keyed[i].channel
          BY <4>3 DEF FeedInv, SendsKnown
        <5>2. keyed'[i] = keyed[i]
          BY <2>3, <4>3
        <5> QED
          BY <5>1, <5>2, Zenon
      <4>4. CASE i = k
        BY <2>3, <4>2, <4>4
      <4> QED
        BY <4>1, <4>3, <4>4
    <3>2. ASSUME NEW c \in FeedChannels
          PROVE  /\ outbox'[c].key <= Len(keyed')
                 /\ outbox'[c].key # 0 => keyed'[outbox'[c].key].channel = c
                 /\ outbox'[c].sending => outbox'[c].key # 0
      <4>1. CASE c = channel
        BY <1>2, <2>3, <2>4, <4>1
      <4>2. CASE c # channel
        <5>1. outbox[c].key \in Nat /\ outbox[c].key <= Len(keyed)
          BY <1>2 DEF FeedInv, SendsKnown
        <5>2. outbox[c].key # 0 => keyed'[outbox[c].key].channel = c
          <6>1. outbox[c].key # 0 => outbox[c].key \in 1..Len(keyed)
            BY <1>2, <5>1
          <6> QED
            BY <2>3, <6>1 DEF FeedInv, SendsKnown
        <5> QED
          BY <1>2, <2>3, <2>4, <4>2, <5>1, <5>2 DEF FeedInv, SendsKnown
      <4> QED
        BY <4>1, <4>2
    <3> QED
      BY <1>1, <3>1, <3>2 DEF SendsKnown
  <2>6. CollaborationTypeOK'
    BY <1>1, <2>3, <2>4 DEF FeedInv, CollaborationTypeOK, Outboxes
  <2> QED
    BY <1>1, <2>5, <2>6, OnlyTheSends
<1> QED
  BY <1>3, <1>4

\* A message that is sent is refused, or its outcome is not known.
LEMMA SendingEnds ==
  ASSUME FeedInv, NEW c \in FeedChannels, SendingFails(c)
  PROVE  FeedInv'
<1>1. UNCHANGED <<syncing, flying>>
  BY DEF SendingFails
<1>2. CASE Revoked
  BY <1>1, <1>2, FeedTyped, AccessIsGone
<1>3. CASE /\ outbox' = [outbox EXCEPT ![c].sending = FALSE]
           /\ UNCHANGED <<posted, visit, ready, channel, cursor, messages, history, reads, keyed, echoed>>
  <2>1. /\ outbox' \in Outboxes
        /\ \A d \in FeedChannels : /\ outbox'[d].key = outbox[d].key
                                   /\ outbox'[d].sending => outbox[d].sending
    <3>1. \A d \in FeedChannels : outbox[d] \in [key : 0..MaxKeyed, sending : BOOLEAN]
      BY FeedTyped DEF Outboxes
    <3> QED
      BY <1>3, <3>1, FeedTyped DEF Outboxes
  <2>2. SendsKnown' /\ CollaborationTypeOK'
    BY <1>1, <1>3, <2>1 DEF FeedInv, SendsKnown, CollaborationTypeOK, Outboxes
  <2> QED
    BY <1>1, <1>3, <2>2, OnlyTheSends
<1> QED
  BY <1>2, <1>3 DEF SendingFails

\* The window shows a message of its own that is answered, old or new: what was shown or
\* pushed out still is, and nothing that was read is any different.
LEMMA MessageAnswered ==
  ASSUME FeedInv, NEW c \in FeedChannels, MessageSent(c)
  PROVE  FeedInv'
<1> DEFINE k == outbox[c].key
           m == keyed[k].message
<1>1. /\ outbox[c].sending /\ m # 0
      /\ outbox' = [outbox EXCEPT ![c] = [key |-> 0, sending |-> FALSE]]
      /\ messages' = Echoed(c, m)
      /\ echoed' = IF c = channel THEN echoed \union ({m} \ messages) ELSE echoed
      /\ IF MaySync THEN StartsSync ELSE UNCHANGED <<syncing, flying>>
      /\ UNCHANGED <<posted, visit, ready, channel, cursor, history, reads, keyed>>
  BY DEF MessageSent
<1>2. /\ \A d \in FeedChannels : outbox[d] \in [key : 0..MaxKeyed, sending : BOOLEAN]
      /\ MaxKeyed \in Nat /\ Len(keyed) \in Nat
      /\ keyed \in Seq([channel : FeedChannels, message : 0..MaxMessages])
  BY FeedTyped, CollaborationAssumption DEF FeedInv, CollaborationTypeOK, Outboxes
<1>3. m \in 1..Len(posted) /\ posted[m] = c
  <2>1. k \in 1..Len(keyed)
    <3>1. k \in Nat
      BY <1>2
    <3>2. k <= Len(keyed) /\ k # 0
      BY <1>1 DEF FeedInv, SendsKnown
    <3> QED
      BY <1>2, <3>1, <3>2
  <2>2. keyed[k] \in [channel : FeedChannels, message : 0..MaxMessages] /\ keyed[k].channel = c
    <3>1. keyed[k] \in [channel : FeedChannels, message : 0..MaxMessages]
      BY <1>2, <2>1, ElementFact
    <3>2. k # 0
      BY <1>1 DEF FeedInv, SendsKnown
    <3> QED
      BY <3>1, <3>2 DEF FeedInv, SendsKnown
  <2>3. m <= Len(posted) /\ posted[m] = keyed[k].channel
    BY <1>1, <2>1 DEF FeedInv, SendsKnown
  <2> QED
    BY <1>1, <2>2, <2>3, FeedTyped
<1> HIDE DEF m, k
<1>4. /\ outbox' \in Outboxes /\ outbox'[c] = [key |-> 0, sending |-> FALSE]
      /\ \A d \in FeedChannels : d # c => outbox'[d] = outbox[d]
  BY <1>1, <1>2, FeedTyped DEF Outboxes
<1>5. SendsKnown'
  BY <1>1, <1>2, <1>4 DEF FeedInv, SendsKnown
<1>6. PICK new \in SUBSET {m} :
        /\ messages' = IF new = {} THEN messages ELSE Kept(messages \union new)
        /\ echoed' = echoed \union (new \ messages)
        /\ new # {} => c = channel
  <2>1. CASE c = channel
    BY <1>1, <2>1 DEF Echoed
  <2>2. CASE c # channel
    <3>1. messages' = messages /\ echoed' = echoed
      BY <1>1, <2>2 DEF Echoed
    <3> QED
      BY <3>1
  <2> QED
    BY <2>1, <2>2
<1> DEFINE all == messages \union new
<1>7. /\ all \in SUBSET MessageNumbers /\ all \in SUBSET (1..Len(posted)) /\ \A n \in all : posted[n] = channel
      /\ new \in SUBSET MessageNumbers
  BY <1>3, <1>6, FeedTyped DEF FeedInv, Known, MessageNumbers
<1>8. messages' \in SUBSET all /\ Cardinality(messages') <= MaxShown /\ echoed' \in SUBSET MessageNumbers
  BY <1>6, <1>7, KeptIsNewest, NewestFacts, FeedTyped, CollaborationAssumption DEF FeedInv, CollaborationTypeOK
<1>9. \A n \in Nat : Has(n, messages) => Has(n, messages')
  <2>1. \A n \in Nat : Has(n, messages) => Has(n, Kept(all))
    BY <1>7, HasMore, FeedTyped
  <2> QED
    BY <1>6, <2>1
<1>10. Told' = Told /\ Told \subseteq Nat
  BY <1>1, FeedTyped DEF Told
<1>11. messages' \ echoed' \subseteq messages \ echoed
  BY <1>6, <1>8
<1>12. /\ CallsTold' /\ Visits' /\ syncing' \in 0..MaxReads
       /\ \A d \in flying' : Counts(d)' => d \in flying /\ Counts(d)
  <2>1. CASE MaySync
    BY <1>1, <2>1, SyncStarts
  <2>2. CASE ~MaySync
    <3>1. flying' = flying /\ syncing' = syncing
      BY <1>1, <2>2
    <3>2. flying' \in SUBSET flying
      BY <3>1
    <3>3. CallsTold'
      BY <1>1, <3>2, CallsAnswered
    <3>4. Visits'
      BY <1>1, <3>1 DEF FeedInv, Visits, OfTheVisit
    <3> QED
      BY <1>1, <3>1, <3>3, <3>4, FeedTyped DEF Counts
  <2> QED
    BY <2>1, <2>2
<1>13. CollaborationTypeOK'
  <2>1. \A d \in flying' : d \in FeedCall
    BY <1>12 DEF CallsTold
  <2>2. messages' \subseteq MessageNumbers /\ echoed' \subseteq MessageNumbers
    BY <1>7, <1>8
  <2> QED
    BY <1>1, <1>4, <1>8, <1>12, <2>1, <2>2 DEF FeedInv, CollaborationTypeOK, FeedCall, Outboxes
<1>14. Known'
  BY <1>1, <1>7, <1>8 DEF FeedInv, Known
<1>15. Covered'
  <2>1. \A n \in messages' \ echoed', x \in Told : n <= x => Has(x, messages')
    BY <1>9, <1>10, <1>11 DEF FeedInv, Covered
  <2> QED
    BY <1>1, <1>9, <1>10, <2>1 DEF FeedInv, Covered
<1>16. PagesFit'
  <2>1. ASSUME NEW d \in flying, PageFits(d) PROVE PageFits(d)'
    <3>1. \A x \in Told : x \in d.reply.messages \/ Has(x, messages') \/ x < d.reply.mark
      BY <1>9, <1>10, <2>1 DEF PageFits
    <3> QED
      BY <1>1, <1>10, <2>1, <3>1 DEF PageFits
  <2> QED
    BY <1>1, <1>12, <2>1 DEF FeedInv, PagesFit
<1> QED
  BY <1>5, <1>12, <1>13, <1>14, <1>15, <1>16 DEF FeedInv

\* A message is posted, by somebody else or under a key: the window is not told yet.
LEMMA Posts ==
  ASSUME FeedInv, NEW c \in FeedChannels, Len(posted) < MaxMessages, posted' = Append(posted, c),
         UNCHANGED <<visit, ready, channel, cursor, messages, history, reads, syncing, flying, outbox, echoed>>,
         keyed' \in Seq([channel : FeedChannels, message : 0..MaxMessages]), Len(keyed') = Len(keyed),
         SendsKnown'
  PROVE  FeedInv'
<1>1. /\ posted' \in Seq(FeedChannels) /\ Len(posted) \in Nat /\ Len(posted') = Len(posted) + 1
      /\ \A m \in 1..Len(posted) : posted'[m] = posted[m]
  BY AppendFact, FeedTyped
<1>2. \A m : m \in 1..Len(posted) => m \in 1..Len(posted')
  BY <1>1
<1>3. Told' = Told
  <2>1. 1..cursor \subseteq 1..Len(posted)
    BY FeedTyped DEF FeedInv, Known
  <2> QED
    BY <1>1, <2>1 DEF Told
<1>4. CallsTold'
  BY <1>1, <1>2, FeedTyped DEF FeedInv, CallsTold, FeedCall
<1>5. CollaborationTypeOK'
  <2>1. Len(posted') <= MaxMessages
    BY <1>1, FeedTyped
  <2> QED
    BY <1>1, <2>1 DEF FeedInv, CollaborationTypeOK
<1>6. Visits'
  BY DEF FeedInv, Visits, OfTheVisit
<1>7. Known'
  BY <1>1, <1>2, FeedTyped DEF FeedInv, Known
<1>8. Covered'
  BY <1>3 DEF FeedInv, Covered
<1>9. PagesFit'
  <2>1. ASSUME NEW d \in flying, PageFits(d) PROVE PageFits(d)'
    <3>1. \A n \in d.reply.messages : posted'[n] = posted[n]
      BY <1>1 DEF FeedInv, CallsTold
    <3> QED
      BY <1>3, <2>1, <3>1 DEF PageFits
  <2>2. \A d \in flying' : Counts(d)' <=> Counts(d)
    BY DEF Counts
  <2> QED
    BY <2>1, <2>2 DEF FeedInv, PagesFit
<1> QED
  BY <1>4, <1>5, <1>6, <1>7, <1>8, <1>9 DEF FeedInv

LEMMA OthersPost ==
  ASSUME FeedInv, NEW c \in FeedChannels, Post(c)
  PROVE  FeedInv'
<1>1. /\ Len(posted) < MaxMessages /\ posted' = Append(posted, c)
      /\ UNCHANGED <<visit, ready, channel, cursor, messages, history, reads, syncing, flying, keyed, outbox,
                     echoed>>
  BY DEF Post
<1>2. /\ Len(posted) \in Nat /\ Len(posted') = Len(posted) + 1
      /\ \A m \in 1..Len(posted) : posted'[m] = posted[m]
  BY <1>1, AppendFact, FeedTyped
<1>3. keyed \in Seq([channel : FeedChannels, message : 0..MaxMessages])
  BY DEF FeedInv, CollaborationTypeOK
<1>4. SendsKnown'
  <2>1. ASSUME NEW i \in 1..Len(keyed)
        PROVE  /\ keyed[i].message <= Len(posted')
               /\ keyed[i].message # 0 => posted'[keyed[i].message] = keyed[i].channel
    <3>1. keyed[i].message \in Nat
      <4>1. keyed[i] \in [channel : FeedChannels, message : 0..MaxMessages]
        BY <1>3, ElementFact
      <4> QED
        BY <4>1
    <3>2. /\ keyed[i].message <= Len(posted)
          /\ keyed[i].message # 0 => posted[keyed[i].message] = keyed[i].channel
      BY DEF FeedInv, SendsKnown
    <3>3. keyed[i].message # 0 => posted'[keyed[i].message] = posted[keyed[i].message]
      BY <1>2, <3>1, <3>2
    <3> QED
      BY <1>2, <3>1, <3>2, <3>3
  <2> QED
    BY <1>1, <2>1 DEF FeedInv, SendsKnown
<1> QED
  BY <1>1, <1>3, <1>4, Posts

\* The service accepts a message under its key.
LEMMA Accepted ==
  ASSUME FeedInv, NEW k \in 1..Len(keyed), Accepts(k)
  PROVE  FeedInv'
<1> DEFINE c == keyed[k].channel
           m == Len(posted) + 1
<1>1. /\ Len(posted) < MaxMessages /\ posted' = Append(posted, c)
      /\ keyed' = [keyed EXCEPT ![k].message = m]
      /\ UNCHANGED <<visit, ready, channel, cursor, messages, history, reads, syncing, flying, outbox, echoed>>
  BY DEF Accepts
<1>2. /\ keyed \in Seq([channel : FeedChannels, message : 0..MaxMessages]) /\ Len(keyed) \in Nat
      /\ \A i \in 1..Len(keyed) : keyed[i] \in [channel : FeedChannels, message : 0..MaxMessages]
      /\ c \in FeedChannels /\ m \in 0..MaxMessages
  <2>1. keyed \in Seq([channel : FeedChannels, message : 0..MaxMessages])
    BY DEF FeedInv, CollaborationTypeOK
  <2>2. \A i \in 1..Len(keyed) : keyed[i] \in [channel : FeedChannels, message : 0..MaxMessages]
    BY <2>1, ElementFact
  <2>3. m \in 0..MaxMessages
    BY <1>1, FeedTyped
  <2> QED
    BY <2>1, <2>2, <2>3
<1>3. /\ Len(posted) \in Nat /\ Len(posted') = m /\ posted'[m] = c
      /\ \A i \in 1..Len(posted) : posted'[i] = posted[i]
  BY <1>1, <1>2, AppendFact, FeedTyped
<1>4. /\ keyed' \in Seq([channel : FeedChannels, message : 0..MaxMessages]) /\ Len(keyed') = Len(keyed)
      /\ \A i \in 1..Len(keyed) : /\ keyed'[i].channel = keyed[i].channel
                                  /\ keyed'[i].message = IF i = k THEN m ELSE keyed[i].message
  <2> HIDE DEF m
  <2> DEFINE entry == [keyed[k] EXCEPT !.message = m]
  <2>1. entry = [channel |-> keyed[k].channel, message |-> m]
    BY <1>2
  <2>2. entry \in [channel : FeedChannels, message : 0..MaxMessages]
    BY <1>2, <2>1
  <2>3. keyed' = [keyed EXCEPT ![k] = entry]
    BY <1>1
  <2> HIDE DEF entry
  <2>4. /\ keyed' \in Seq([channel : FeedChannels, message : 0..MaxMessages]) /\ Len(keyed') = Len(keyed)
        /\ \A i \in 1..Len(keyed) : keyed'[i] = IF i = k THEN entry ELSE keyed[i]
    BY <1>2, <2>2, <2>3
  <2> QED
    BY <2>1, <2>4
<1>5. SendsKnown'
  <2>1. ASSUME NEW i \in 1..Len(keyed)
        PROVE  /\ keyed'[i].message <= Len(posted')
               /\ keyed'[i].message # 0 => posted'[keyed'[i].message] = keyed'[i].channel
    <3>1. CASE i = k
      BY <1>2, <1>3, <1>4, <3>1
    <3>2. CASE i # k
      <4>1. keyed[i].message \in Nat
        BY <1>2
      <4>2. /\ keyed[i].message <= Len(posted)
            /\ keyed[i].message # 0 => posted[keyed[i].message] = keyed[i].channel
        BY DEF FeedInv, SendsKnown
      <4>3. keyed'[i].message = keyed[i].message /\ keyed'[i].channel = keyed[i].channel
        BY <1>4, <3>2
      <4>4. keyed[i].message # 0 => posted'[keyed[i].message] = posted[keyed[i].message]
        BY <1>3, <4>1, <4>2
      <4>5. keyed[i].message <= Len(posted')
        BY <1>3, <4>1, <4>2
      <4> QED
        BY <4>2, <4>3, <4>4, <4>5
    <3> QED
      BY <3>1, <3>2
  <2>2. ASSUME NEW d \in FeedChannels
        PROVE  /\ outbox[d].key <= Len(keyed)
               /\ outbox[d].key # 0 => keyed'[outbox[d].key].channel = d
               /\ outbox[d].sending => outbox[d].key # 0
    <3>1. outbox[d].key \in Nat
      BY FeedTyped DEF Outboxes
    <3>2. /\ outbox[d].key <= Len(keyed)
          /\ outbox[d].key # 0 => keyed[outbox[d].key].channel = d
          /\ outbox[d].sending => outbox[d].key # 0
      BY DEF FeedInv, SendsKnown
    <3>3. outbox[d].key # 0 => outbox[d].key \in 1..Len(keyed)
      BY <1>2, <3>1, <3>2
    <3>4. outbox[d].key # 0 => keyed'[outbox[d].key].channel = keyed[outbox[d].key].channel
      BY <1>4, <3>3
    <3> QED
      BY <3>2, <3>4
  <2> QED
    BY <1>1, <1>4, <2>1, <2>2 DEF SendsKnown
<1>6. c \in FeedChannels
  BY <1>2
<1> HIDE DEF c, m
<1>7. Len(posted) < MaxMessages /\ posted' = Append(posted, c) /\ Len(keyed') = Len(keyed)
  BY <1>1, <1>4
<1> QED
  BY <1>1, <1>4, <1>5, <1>6, <1>7, Posts

\* A page of the history: the newest messages of the channel, or those in front of the mark,
\* and where the next page ends.
LEMMA PageFacts ==
  ASSUME FeedInv, NEW c \in flying, NEW all,
         all = {m \in 1..Len(posted) : posted[m] = c.channel /\ (c.mark # 0 => m < c.mark)}
  PROVE  /\ Page(c) \in [read : {TRUE}, messages : SUBSET all, mark : 0..Len(posted)]
         /\ \A n \in Page(c).messages : n >= Page(c).mark
         /\ Page(c).mark # 0 => Page(c).messages # {}
         /\ \A m \in all : m \in Page(c).messages \/ m < Page(c).mark
<1> DEFINE newest == Newest(all)
<1>1. all \in SUBSET MessageNumbers /\ all \in SUBSET (1..Len(posted)) /\ HistoryPage \in Nat \ {0}
  BY FeedTyped, CollaborationAssumption DEF MessageNumbers
<1>2. /\ newest \in SUBSET all /\ (all # {} => newest # {})
      /\ \A m \in newest, n \in all : m <= n => n \in newest
  BY <1>1, NewestFacts, PageIsNewest
<1>3. Page(c) = [read |-> TRUE, messages |-> newest, mark |-> IF newest = all THEN 0 ELSE Min(newest)]
  BY DEF Page, Reply
<1> HIDE DEF newest
<1>4. CASE newest = all
  <2>1. Page(c) = [read |-> TRUE, messages |-> all, mark |-> 0] /\ 0 \in 0..Len(posted)
    BY <1>3, <1>4, FeedTyped
  <2> QED
    BY <1>1, <2>1
<1>5. CASE newest # all
  <2>1. newest # {} /\ newest \in SUBSET Nat
    BY <1>1, <1>2, <1>5
  <2>2. \E x \in newest : \A y \in newest : x <= y
    BY <2>1, Smallest
  <2>3. PICK x \in newest : x = Min(newest) /\ \A y \in newest : x <= y
    BY <2>2 DEF Min
  <2>4. Page(c) = [read |-> TRUE, messages |-> newest, mark |-> x]
    BY <1>3, <1>5, <2>3
  <2>5. x \in 0..Len(posted) /\ x \in Nat
    BY <1>1, <1>2
  <2>6. ASSUME NEW m \in all, m \notin newest PROVE m < x
    <3>1. ~(x <= m)
      BY <1>2, <2>6
    <3> QED
      BY <1>1, <2>5, <3>1
  <2>7. \A n \in newest : n >= x
    BY <2>1, <2>3
  <2>8. Page(c).messages = newest /\ Page(c).mark = x /\ Page(c).read = TRUE
    BY <2>4
  <2>9. Page(c) \in [read : {TRUE}, messages : SUBSET all, mark : 0..Len(posted)]
    BY <1>2, <2>4, <2>5
  <2> QED
    BY <2>1, <2>6, <2>7, <2>8, <2>9
<1> QED
  BY <1>4, <1>5

\* The server answers a call with what it has at this moment.
LEMMA Answers ==
  ASSUME FeedInv, NEW c \in flying, ServerReads(c)
  PROVE  FeedInv'
<1> DEFINE all == {m \in 1..Len(posted) : posted[m] = c.channel /\ (c.mark # 0 => m < c.mark)}
<1>1. c \in FeedCall /\ ~c.reply.read
      /\ UNCHANGED <<posted, visit, ready, channel, cursor, messages, history, reads, syncing, keyed, outbox,
                     echoed>>
      /\ SendsKnown'
  BY FeedTyped, SendsStay DEF ServerReads
<1>2. PICK reply : reply = CASE c.kind = "bootstrap" -> Reply({}, Len(posted))
                             [] c.kind = "history" -> Page(c)
                             [] c.kind = "sync" -> Events(c)
  OBVIOUS
<1>3. PICK d : d = [c EXCEPT !.reply = reply]
  OBVIOUS
<1>4. flying' = (flying \ {c}) \union {d}
  BY <1>2, <1>3 DEF ServerReads
<1>5. c.kind = "bootstrap" => reply = [read |-> TRUE, messages |-> {}, mark |-> Len(posted)]
  BY <1>2 DEF Reply
<1>6. c.kind = "history" =>
        /\ reply \in [read : {TRUE}, messages : SUBSET all, mark : 0..Len(posted)]
        /\ \A n \in reply.messages : n >= reply.mark
        /\ reply.mark # 0 => reply.messages # {}
        /\ \A m \in all : m \in reply.messages \/ m < reply.mark
  <2>1. c.kind = "history" => reply = Page(c)
    BY <1>2
  <2> QED
    BY <2>1, PageFacts
<1>7. c.kind = "sync" => \E last \in c.mark..Len(posted) :
        reply = [read |-> TRUE, messages |-> c.mark + 1..last, mark |-> last]
  <2> SUFFICES ASSUME c.kind = "sync"
               PROVE  \E last \in c.mark..Len(posted) :
                        reply = [read |-> TRUE, messages |-> c.mark + 1..last, mark |-> last]
    OBVIOUS
  <2>1. c.mark <= Len(posted) /\ c.mark \in Nat /\ Len(posted) \in Nat /\ SyncPage \in Nat
    BY SMTT(30), <1>1, FeedTyped, CollaborationAssumption DEF FeedInv, CallsTold, FeedCall
  <2>2. \E x \in {Len(posted), c.mark + SyncPage} : \A y \in {Len(posted), c.mark + SyncPage} : x <= y
    BY <2>1
  <2>3. PICK last \in {Len(posted), c.mark + SyncPage} :
          /\ last = Min({Len(posted), c.mark + SyncPage})
          /\ \A y \in {Len(posted), c.mark + SyncPage} : last <= y
    BY <2>2 DEF Min
  <2>4. last \in c.mark..Len(posted)
    BY <2>1, <2>3
  <2>5. reply = [read |-> TRUE, messages |-> c.mark + 1..last, mark |-> last]
    BY <1>2, <2>3 DEF Events, Reply
  <2> QED
    BY <2>4, <2>5
<1>8. c.kind \in {"bootstrap", "history", "sync"}
  BY <1>1 DEF FeedCall
<1>9. /\ reply.read = TRUE /\ reply.messages \subseteq 1..Len(posted) /\ reply.mark \in 0..Len(posted)
      /\ reply \in [read : BOOLEAN, messages : SUBSET MessageNumbers, mark : 0..MaxMessages]
      /\ c.kind = "sync" => reply.messages = c.mark + 1..reply.mark /\ c.mark <= reply.mark
  <2>1. 1..Len(posted) \subseteq MessageNumbers /\ 0..Len(posted) \subseteq 0..MaxMessages
        /\ Len(posted) \in 0..Len(posted)
    BY FeedTyped DEF MessageNumbers
  <2>2. CASE c.kind = "bootstrap"
    <3>1. reply = [read |-> TRUE, messages |-> {}, mark |-> Len(posted)]
      BY <1>5, <2>2
    <3>2. reply.read = TRUE /\ reply.messages = {} /\ reply.mark = Len(posted)
      BY <3>1
    <3>3. Len(posted) \in 0..MaxMessages
      BY <2>1
    <3>4. reply \in [read : BOOLEAN, messages : SUBSET MessageNumbers, mark : 0..MaxMessages]
      BY <3>1, <3>3
    <3> QED
      BY <2>1, <2>2, <3>2, <3>4
  <2>3. CASE c.kind = "history"
    BY <1>6, <2>1, <2>3
  <2>4. CASE c.kind = "sync"
    <3>1. PICK last \in c.mark..Len(posted) :
            reply = [read |-> TRUE, messages |-> c.mark + 1..last, mark |-> last]
      BY <1>7, <2>4
    <3>2. c.mark \in Nat /\ last \in Nat /\ c.mark <= last /\ last \in 0..Len(posted)
          /\ c.mark + 1..last \subseteq 1..Len(posted)
      BY <1>1, FeedTyped DEF FeedCall
    <3> QED
      BY <2>1, <2>4, <3>1, <3>2
  <2> QED
    BY <1>8, <2>2, <2>3, <2>4
<1>10. /\ d \in FeedCall /\ d.kind = c.kind /\ d.visit = c.visit /\ d.request = c.request
       /\ d.channel = c.channel /\ d.mark = c.mark /\ d.reply = reply
  BY <1>1, <1>3, <1>9 DEF FeedCall
<1>11. \A e : (Alike(e, d) <=> Alike(e, c)) /\ (Alike(d, e) <=> Alike(c, e))
  BY <1>10 DEF Alike
<1>12. CallsTold'
  <2>1. flying' \subseteq FeedCall
    BY <1>4, <1>10, FeedTyped
  <2>2. ASSUME NEW e \in flying', NEW f \in flying', Alike(e, f) PROVE e = f
    BY <1>4, <1>11, <2>2 DEF FeedInv, CallsTold
  <2>3. \A e \in flying' :
          /\ e.reply.messages \subseteq 1..Len(posted)
          /\ e.reply.mark <= Len(posted)
          /\ e.kind = "sync" => e.mark <= Len(posted)
          /\ e.kind = "sync" /\ e.reply.read =>
               e.reply.messages = e.mark + 1..e.reply.mark /\ e.mark <= e.reply.mark
    <3>1. reply.mark <= Len(posted)
      BY <1>9, FeedTyped
    <3> QED
      BY <1>4, <1>9, <1>10, <3>1 DEF FeedInv, CallsTold
  <2> QED
    BY <1>1, <2>1, <2>2, <2>3 DEF CallsTold
<1>13. CollaborationTypeOK'
  <2>1. \A e \in flying' : e \in FeedCall
    BY <1>12 DEF CallsTold
  <2> QED
    BY <1>1, <2>1 DEF FeedInv, CollaborationTypeOK, FeedCall
<1>14. Visits'
  BY <1>1, <1>4, <1>10 DEF FeedInv, Visits, OfTheVisit
<1>15. Known' /\ Covered' /\ \A e : PageFits(e)' <=> PageFits(e)
  BY <1>1, FeedStays
<1>16. \A e : Counts(e)' <=> Counts(e)
  BY <1>1 DEF Counts
<1>17. Counts(d) => d.channel = channel /\ ready /\ PageFits(d)
  <2> SUFFICES ASSUME Counts(d) PROVE d.channel = channel /\ ready /\ PageFits(d)
    OBVIOUS
  <2>1. Counts(c) /\ c.kind = "history"
    BY <1>10 DEF Counts
  <2>2. c.channel = channel /\ ready /\ (c.mark # 0 => c.mark = history.before)
    BY <1>1, <2>1 DEF FeedInv, PagesFit
  <2>3. \A n \in reply.messages : posted[n] = channel /\ n >= reply.mark
    BY <1>6, <2>1, <2>2
  <2>4. ASSUME NEW m \in Told PROVE m \in reply.messages \/ Has(m, messages) \/ m < reply.mark
    <3>1. CASE m \in all
      BY <1>6, <2>1, <3>1
    <3>2. CASE m \notin all
      <4>1. m \in 1..Len(posted) /\ posted[m] = channel /\ m \in Nat
        BY FeedTyped DEF Told
      <4>2. c.mark # 0 /\ ~(m < c.mark)
        BY <2>2, <3>2, <4>1
      <4>3. history.before # 0 /\ history.before <= m
        BY <1>1, <2>2, <4>1, <4>2 DEF FeedCall
      <4> QED
        BY <2>2, <4>3 DEF FeedInv, Covered
    <3> QED
      BY <3>1, <3>2
  <2> QED
    BY <1>6, <1>10, <2>1, <2>2, <2>3, <2>4 DEF PageFits
<1>18. PagesFit'
  <2>1. \A e \in flying' : Counts(e) =>
          /\ e.channel = channel /\ ready
          /\ IF e.reply.read THEN PageFits(e) ELSE e.mark # 0 => e.mark = history.before
    BY <1>4, <1>9, <1>10, <1>17 DEF FeedInv, PagesFit
  <2> QED
    BY <1>1, <1>15, <1>16, <2>1 DEF PagesFit
<1> QED
  BY <1>1, <1>12, <1>13, <1>14, <1>15, <1>18 DEF FeedInv

\* Nothing is shown before the first visit.
LEMMA FeedStart == InitCollaboration => FeedInv
<1> SUFFICES ASSUME InitCollaboration PROVE FeedInv
  OBVIOUS
<1>1. /\ posted = <<>> /\ visit = 0 /\ ready = FALSE /\ channel = NoChannel /\ cursor = 0
      /\ messages = {} /\ history = [phase |-> "idle", before |-> 0]
      /\ reads = 0 /\ syncing = 0 /\ flying = {}
      /\ keyed = <<>> /\ outbox = NoPosts /\ echoed = {}
  BY DEF InitCollaboration
<1>2. /\ MaxMessages \in Nat /\ MaxReads \in Nat /\ MaxShown \in Nat /\ MaxKeyed \in Nat
      /\ <<>> \in Seq(FeedChannels) /\ Len(<<>>) = 0
      /\ <<>> \in Seq([channel : FeedChannels, message : 0..MaxMessages])
  BY CollaborationAssumption
<1>3. /\ outbox \in [FeedChannels -> [key : 0..MaxKeyed, sending : BOOLEAN]]
      /\ \A c \in FeedChannels : outbox[c].key = 0 /\ ~outbox[c].sending
  BY <1>1, <1>2 DEF NoPosts
<1>4. CollaborationTypeOK
  <2>1. Cardinality({}) <= MaxShown /\ 0 \in 0..MaxMessages /\ 0 \in 0..MaxReads /\ 0 <= MaxMessages
        /\ 0 <= MaxKeyed
    BY <1>2, FS_EmptySet
  <2>2. [phase |-> "idle", before |-> 0] \in [phase : {"idle", "loading", "ready", "error"}, before : 0..MaxMessages]
    BY <2>1
  <2> QED
    BY <1>1, <1>2, <1>3, <2>1, <2>2 DEF CollaborationTypeOK
<1>5. CallsTold /\ Visits /\ Known /\ Covered /\ PagesFit
  BY <1>1, <1>2 DEF CallsTold, Visits, Known, Covered, PagesFit, Told
<1>6. SendsKnown
  BY <1>1, <1>2, <1>3 DEF SendsKnown
<1> QED
  BY <1>4, <1>5, <1>6 DEF FeedInv

\* Every step of the window and of the service keeps it.
LEMMA FeedStep ==
  ASSUME FeedInv, [NextCollaboration]_collaborationVars
  PROVE  FeedInv'
<1>1. CASE SelectWorkspace
  BY <1>1, WorkspaceSelected
<1>2. CASE Sync
  BY <1>2, Syncs
<1>3. CASE \E any \in BOOLEAN : LoadHistory(any) \/ SendMessage(any)
  BY <1>3, HistoryAsked, Sends
<1>4. CASE \E c \in FeedChannels : SelectChannel(c) \/ MessageSent(c)
  BY <1>4, ChannelSelected, MessageAnswered
<1>5. CASE \E c \in FeedChannels : SendingFails(c) \/ Post(c)
  BY <1>5, SendingEnds, OthersPost
<1>6. CASE \E k \in 1..Len(keyed) : Accepts(k)
  BY <1>6, Accepted
<1>7. CASE \E c \in flying : Bootstrapped(c) \/ HistoryRead(c) \/ HistoryFailed(c)
  BY <1>7, Bootstraps, HistoryComes, HistoryRefused
<1>8. CASE \E c \in flying : Synced(c) \/ CallFailed(c) \/ CallRevoked(c)
  BY <1>8, SyncEnds, FeedCallFails, CallIsRevoked
<1>9. CASE \E c \in flying : ServerReads(c)
  BY <1>9, Answers
<1>10. CASE UNCHANGED collaborationVars
  <2>1. /\ flying' \in SUBSET flying /\ syncing' \in 0..MaxReads /\ syncing' = syncing
        /\ UNCHANGED <<posted, visit, ready, channel, cursor, messages, history, reads, keyed, echoed>>
        /\ UNCHANGED outbox
    BY <1>10, FeedTyped DEF collaborationVars
  <2>2. SendsKnown' /\ outbox' \in Outboxes
    BY <2>1, SendsStay
  <2> QED
    BY <2>1, <2>2, CallsEnd
<1> QED
  BY <1>1, <1>2, <1>3, <1>4, <1>5, <1>6, <1>7, <1>8, <1>9, <1>10 DEF NextCollaboration

\* It holds in every reachable state.
LEMMA FeedHolds == SpecCollaboration => []FeedInv
BY FeedStart, FeedStep, PTL DEF SpecCollaboration

\* The messages, the pages and the calls on the way keep their types and their bounds
\* (workspace-collaboration-state.ts), for every number of channels, messages and reads.
THEOREM FeedTypeCorrect == SpecCollaboration => []CollaborationTypeOK
<1>1. FeedInv => CollaborationTypeOK
  BY DEF FeedInv
<1> QED
  BY <1>1, FeedHolds, PTL

\* However visits, pages of the history, syncs, sends, retries and failures overlap, what the
\* window shows of a channel lies without a gap between the oldest message it has read and
\* the cursor, and what is missing before can be loaded (mergeCollaborationMessages,
\* loadHistory, sync and send of workspace-collaboration-state.ts).
THEOREM FeedHasNoGap == SpecCollaboration => []NoGap
<1>1. ASSUME FeedInv PROVE NoGap
  <2>1. \A m \in messages : posted[m] = channel
    BY <1>1 DEF FeedInv, Known
  <2> SUFFICES ASSUME channel # NoChannel, history.phase = "ready", NEW m \in Told, m \notin messages
               PROVE  /\ \A n \in messages \ echoed : m < n
                      /\ m < history.before \/ Cardinality(messages) = MaxShown
    BY <2>1 DEF NoGap, Missing, Told
  <2>2. /\ messages \in SUBSET MessageNumbers /\ messages \subseteq Nat /\ m \in Nat
        /\ Cardinality(messages) \in Nat /\ Cardinality(messages) <= MaxShown /\ MaxShown \in Nat \ {0}
        /\ history.before \in Nat
    BY SMTT(30), <1>1, FeedTyped, Counted, CollaborationAssumption DEF FeedInv, CollaborationTypeOK, MessageNumbers
  <2>3. ready
    BY <1>1 DEF FeedInv, Visits
  <2>4. Newer(m, messages) \in SUBSET messages
    BY DEF Newer
  <2>5. /\ Cardinality(Newer(m, messages)) \in Nat /\ Cardinality(Newer(m, messages)) <= Cardinality(messages)
        /\ IsFiniteSet(messages)
    BY <2>2, <2>4, Counted
  <2>6. Has(m, messages) => Newer(m, messages) = messages /\ Cardinality(messages) = MaxShown
    <3> SUFFICES ASSUME Has(m, messages)
                 PROVE  Newer(m, messages) = messages /\ Cardinality(messages) = MaxShown
      OBVIOUS
    <3>1. Cardinality(Newer(m, messages)) >= MaxShown
      BY DEF Has
    <3>2. Cardinality(Newer(m, messages)) = Cardinality(messages) /\ Cardinality(messages) = MaxShown
      BY <2>2, <2>5, <3>1
    <3>3. Newer(m, messages) = messages
      BY <2>4, <2>5, <3>2, FS_Subset
    <3> QED
      BY <3>2, <3>3
  <2>7. ASSUME NEW n \in messages \ echoed PROVE m < n
    <3> SUFFICES ASSUME ~(m < n) PROVE FALSE
      OBVIOUS
    <3>1. n <= m
      BY <2>2
    <3>2. Has(m, messages)
      BY <1>1, <3>1 DEF FeedInv, Covered
    <3>3. n \in Newer(m, messages)
      BY <2>6, <3>2
    <3> QED
      BY <2>2, <3>3 DEF Newer
  <2>8. ASSUME ~(m < history.before) PROVE Cardinality(messages) = MaxShown
    <3>1. history.before <= m
      BY <2>2, <2>8
    <3>2. Has(m, messages)
      BY <1>1, <2>3, <3>1 DEF FeedInv, Covered
    <3> QED
      BY <2>6, <3>2
  <2> QED
    BY <2>7, <2>8
<1> QED
  BY <1>1, FeedHolds, PTL

--------------------------------------------------------------------------------
(* The Desk of an organization.                                                  *)

BoardKeys == {BoardKey(o) : o \in Organizations}
Ages == Nat \union {Unknown}
\* What a window and the Desks are
GroupsStates ==
  [selected : Organizations \union {NoOrganization}, revisions : [Organizations -> Ages],
   boards : [Organizations -> Slot], tasks : [TaskKeys -> Slot], open : TaskKeys \union {NoTask}]
PageStates ==
  [connected : BOOLEAN, directory : {"idle", "loading", "ready", "error"}, listed : BOOLEAN,
   space : Organizations \union {NoOrganization}, choosing : Organizations \union {NoOrganization},
   switching : Organizations \union {NoOrganization, "header"}, saving : BOOLEAN]
DeskCalls ==
  [kind : {"directory", "board", "task", "change"}, key : TaskKeys \union BoardKeys \union {NoTask},
   newest : BOOLEAN, then : Organizations \union {NoOrganization}, mine : BOOLEAN, data : Ages,
   bindings : [Organizations -> Ages]]
Windows == [groups : GroupsStates, page : PageStates, calls : SUBSET DeskCalls]
Desks == [Organizations -> [age : Nat, binding : Nat]]
Confirmations == [TaskKeys -> Nat]

\* A board, or a task, that is read at some age is of the binding the directory names and
\* shows what the user was told of.
BoardFits(w, o, age, told) ==
  age >= w.groups.revisions[o] /\ \A k \in TaskKeys : k[1] = o => age >= told[k]
TaskFits(w, k, age, told) == age >= w.groups.revisions[k[1]] /\ age >= told[k]

\* A call is about what its kind is about, and its answer is of the Desk; one that will be
\* shown fits, but for what is to be read again.
CallFits(w, c, told, again) ==
  /\ c.kind = "board" => c.key \in BoardKeys
  /\ c.kind \in {"task", "change"} => c.key \in TaskKeys
  /\ c.data # Unknown =>
       /\ c.kind = "board" /\ c.newest /\ c.key \notin again => BoardFits(w, c.key[1], c.data, told)
       /\ c.kind = "task" /\ c.newest /\ c.key \notin again => TaskFits(w, c.key, c.data, told)
       /\ c.kind = "change" => c.data <= desks[c.key[1]].age
       /\ c.kind = "directory" => \A o \in Organizations : c.bindings[o] <= desks[o].binding

\* So does what is shown, and nothing is newer than the Desk.
WindowFits(w, told, again) ==
  /\ \A o \in Organizations :
       w.groups.boards[o].phase = "ready" /\ BoardKey(o) \notin again
         => BoardFits(w, o, w.groups.boards[o].data, told)
  /\ \A o \in Organizations : w.groups.revisions[o] <= desks[o].binding
  /\ \A k \in TaskKeys \ again :
       w.groups.tasks[k].phase = "ready" => TaskFits(w, k, w.groups.tasks[k].data, told)
  /\ \A c \in w.calls : CallFits(w, c, told, again)
DesksGrow ==
  /\ \A o \in Organizations : desks[o].binding <= desks[o].age
  /\ \A k \in TaskKeys : deskConfirmed[k] <= desks[k[1]].age

\* Nothing is awaited without a connection, and a switch that is shown is under way.
AwaitsConnected(w) ==
  /\ ~w.page.connected => w.calls = {}
  /\ w.page.switching # NoOrganization => w.page.connected
Awaited(w, who) == \E c \in w.calls : c.kind = "directory" /\ c.then = who
Chooses(w) ==
  w.page.choosing # NoOrganization =>
    w.page.switching = w.page.choosing \/ Awaited(w, w.page.choosing)

WindowHolds(w, told, again) == w \in Windows /\ WindowFits(w, told, again) /\ AwaitsConnected(w)
DeskInv ==
  /\ desks \in Desks /\ deskConfirmed \in Confirmations /\ DesksGrow
  /\ WindowHolds(Window, deskConfirmed, {}) /\ Chooses(Window)

\* The keys of boards and of tasks are told apart.
LEMMA KeyFacts ==
  /\ \A o : BoardKey(o)[1] = o
  /\ \A o, p : BoardKey(o) = BoardKey(p) => o = p
  /\ \A k \in TaskKeys : k[1] \in Organizations /\ k # NoTask /\ \A o : k # BoardKey(o)
  /\ \A x \in BoardKeys : x[1] \in Organizations /\ x = BoardKey(x[1])
  /\ \A o \in Organizations : BoardKey(o) \in BoardKeys
<1>1. \A k \in TaskKeys : k[1] \in Organizations /\ k[2] \in DeskTasks
  BY DEF TaskKeys
<1>2. \A o : BoardKey(o)[1] = o /\ BoardKey(o)[2] = "no task"
  BY DEF BoardKey
<1>3. NoTask[1] = NoOrganization
  BY DEF NoTask
<1> QED
  BY <1>1, <1>2, <1>3, GroupsAssumption DEF BoardKeys

\* An unknown age is before every age.
LEMMA UnknownFacts == Unknown \notin Nat /\ Unknown \in Ages /\ \A n \in Nat : Unknown <= n /\ n >= Unknown
  BY DEF Unknown, Ages

\* What a window is made of
LEMMA WindowTyped ==
  ASSUME NEW w \in Windows
  PROVE  /\ w.groups \in GroupsStates /\ w.page \in PageStates /\ w.calls \in SUBSET DeskCalls
         /\ w.groups.selected \in Organizations \union {NoOrganization}
         /\ w.groups.revisions \in [Organizations -> Ages] /\ w.groups.boards \in [Organizations -> Slot]
         /\ w.groups.tasks \in [TaskKeys -> Slot] /\ w.groups.open \in TaskKeys \union {NoTask}
         /\ w.page.connected \in BOOLEAN /\ w.page.listed \in BOOLEAN /\ w.page.saving \in BOOLEAN
         /\ w.page.space \in Organizations \union {NoOrganization}
         /\ w.page.choosing \in Organizations \union {NoOrganization}
         /\ w.page.switching \in Organizations \union {NoOrganization, "header"}
BY DEF Windows, GroupsStates, PageStates

\* A call that is at most as new as another, and otherwise about the same.
Like(c, d) ==
  /\ c.kind = d.kind /\ c.key = d.key /\ c.then = d.then /\ c.data = d.data /\ c.bindings = d.bindings
  /\ c.newest => d.newest
\* What an order of calls was awaited for is awaited still.
Keeps(w, v) == \A d \in w.calls : \E c \in v.calls : c.kind = d.kind /\ c.then = d.then

\* Some calls are outdated.
LEMMA Outdated ==
  ASSUME NEW w \in Windows, NEW kinds, NEW keys, NEW v, v = Outdates(w, kinds, keys)
  PROVE  /\ v \in Windows /\ v.groups = w.groups /\ v.page = w.page
         /\ v = [groups |-> w.groups, page |-> w.page, calls |-> v.calls]
         /\ \A c \in v.calls : /\ \E d \in w.calls : Like(c, d)
                               /\ c.newest => ~(c.kind \in kinds /\ c.key \in keys)
         /\ Keeps(w, v)
         /\ w.calls = {} => v.calls = {}
<1> DEFINE Aged(c) == IF c.kind \in kinds /\ c.key \in keys THEN [c EXCEPT !.newest = FALSE] ELSE c
<1>1. w = [groups |-> w.groups, page |-> w.page, calls |-> w.calls] /\ w.calls \in SUBSET DeskCalls
      /\ w.groups \in GroupsStates /\ w.page \in PageStates
  BY DEF Windows
<1>2. v = [groups |-> w.groups, page |-> w.page, calls |-> {Aged(c) : c \in w.calls}]
  BY <1>1 DEF Outdates
<1>3. \A c \in DeskCalls : /\ Aged(c) \in DeskCalls /\ Like(Aged(c), c)
                           /\ Aged(c).newest => ~(c.kind \in kinds /\ c.key \in keys)
  <2> SUFFICES ASSUME NEW c \in DeskCalls
               PROVE  /\ Aged(c) \in DeskCalls /\ Like(Aged(c), c)
                      /\ Aged(c).newest => ~(c.kind \in kinds /\ c.key \in keys)
    OBVIOUS
  <2>1. PICK e : e = [c EXCEPT !.newest = FALSE]
    OBVIOUS
  <2>2. e \in DeskCalls
    BY <2>1 DEF DeskCalls
  <2>3. /\ e.kind = c.kind /\ e.key = c.key /\ e.then = c.then /\ e.data = c.data
        /\ e.bindings = c.bindings /\ e.newest = FALSE
    BY <2>1 DEF DeskCalls
  <2>4. CASE c.kind \in kinds /\ c.key \in keys
    <3>1. Aged(c) = e
      BY <2>1, <2>4
    <3> HIDE DEF Aged
    <3> QED
      BY <2>2, <2>3, <3>1 DEF Like
  <2>5. CASE ~(c.kind \in kinds /\ c.key \in keys)
    <3>1. Aged(c) = c
      BY <2>5
    <3> HIDE DEF Aged
    <3> QED
      BY <2>5, <3>1 DEF Like
  <2> QED
    BY <2>4, <2>5
<1> HIDE DEF Aged
<1>4. v.calls = {Aged(c) : c \in w.calls} /\ v.groups = w.groups /\ v.page = w.page
  BY <1>2
<1>5. v.calls \in SUBSET DeskCalls
  BY <1>1, <1>3, <1>4
<1>6. v \in Windows
  BY <1>1, <1>2, <1>4, <1>5 DEF Windows
<1>7. Keeps(w, v)
  BY <1>1, <1>3, <1>4 DEF Keeps, Like
<1>8. \A c \in v.calls : /\ \E d \in w.calls : Like(c, d)
                         /\ c.newest => ~(c.kind \in kinds /\ c.key \in keys)
  BY <1>1, <1>3, <1>4 DEF Like
<1> QED
  BY <1>2, <1>4, <1>6, <1>7, <1>8

\* A call that has not been answered
NewCall(c) ==
  /\ c \in DeskCalls /\ c.data = Unknown
  /\ c.kind = "board" => c.key \in BoardKeys
  /\ c.kind \in {"task", "change"} => c.key \in TaskKeys

\* What fits, still fits in a window that shows the same, or less, of the same bindings.
LEMMA StillFits ==
  ASSUME NEW w \in Windows, NEW told, NEW again, WindowFits(w, told, again),
         NEW v \in Windows, NEW less, less \subseteq again,
         v.groups.revisions = w.groups.revisions,
         \A o \in Organizations : v.groups.boards[o].phase = "ready" =>
           v.groups.boards[o] = w.groups.boards[o] /\ BoardKey(o) \notin again \ less,
         \A k \in TaskKeys : v.groups.tasks[k].phase = "ready" =>
           v.groups.tasks[k] = w.groups.tasks[k] /\ k \notin again \ less,
         \A c \in v.calls : NewCall(c) \/ /\ \E d \in w.calls : Like(c, d)
                                          /\ c.newest /\ c.kind \in Reads => c.key \notin again \ less
  PROVE  WindowFits(v, told, less)
<1>1. \A o \in Organizations :
        v.groups.boards[o].phase = "ready" /\ BoardKey(o) \notin less
          => BoardFits(v, o, v.groups.boards[o].data, told)
  BY DEF WindowFits, BoardFits
<1>2. \A k \in TaskKeys \ less :
        v.groups.tasks[k].phase = "ready" => TaskFits(v, k, v.groups.tasks[k].data, told)
  BY DEF WindowFits, TaskFits
<1>3. ASSUME NEW c \in v.calls PROVE CallFits(v, c, told, less)
  <2>1. CASE NewCall(c)
    BY <2>1 DEF NewCall, CallFits
  <2>2. CASE ~NewCall(c)
    <3>1. PICK d \in w.calls : Like(c, d)
      BY <2>2
    <3>2. CallFits(w, d, told, again)
      BY DEF WindowFits
    <3>3. c.newest /\ c.kind \in Reads => c.key \notin again \ less
      BY <2>2
    <3> QED
      BY <3>1, <3>2, <3>3 DEF CallFits, Like, BoardFits, TaskFits, Reads
  <2> QED
    BY <2>1, <2>2
<1> QED
  BY <1>1, <1>2, <1>3 DEF WindowFits

\* A board is read: it is shown as being read, and the read of it alone counts.
LEMMA BoardIsRead ==
  ASSUME NEW told, NEW again, NEW w, WindowHolds(w, told, again), NEW o \in Organizations,
         NEW v, v = ReadsBoard(w, o)
  PROVE  /\ WindowHolds(v, told, IF w.page.connected THEN again \ {BoardKey(o)} ELSE again)
         /\ v.page = w.page /\ Keeps(w, v)
<1>0. w \in Windows /\ WindowFits(w, told, again) /\ AwaitsConnected(w)
  BY DEF WindowHolds
<1>1. CASE ~w.page.connected
  BY <1>1 DEF ReadsBoard, Keeps
<1>2. CASE w.page.connected
  <2> DEFINE kinds == {"board"}
             keys == {BoardKey(o)}
  <2>k. \A c : c.kind \in kinds /\ c.key \in keys <=> c.kind = "board" /\ c.key = BoardKey(o)
    OBVIOUS
  <2>1. PICK u : u = Outdates(w, kinds, keys)
    OBVIOUS
  <2>2. PICK d : d = [DeskCall EXCEPT !.kind = "board", !.key = BoardKey(o)]
    OBVIOUS
  <2>3. d = [kind |-> "board", key |-> BoardKey(o), newest |-> TRUE, then |-> NoOrganization, mine |-> FALSE,
             data |-> Unknown, bindings |-> [p \in Organizations |-> Unknown]]
    BY <2>2 DEF DeskCall
  <2>4. NewCall(d)
    BY <2>3, KeyFacts, UnknownFacts DEF NewCall, DeskCalls
  <2>5. /\ u \in Windows /\ u.groups = w.groups /\ u.page = w.page
        /\ u = [groups |-> w.groups, page |-> w.page, calls |-> u.calls]
        /\ \A c \in u.calls : /\ \E e \in w.calls : Like(c, e)
                              /\ c.newest => ~(c.kind = "board" /\ c.key = BoardKey(o))
        /\ Keeps(w, u)
    <3> HIDE DEF kinds, keys
    <3>1. /\ u \in Windows /\ u.groups = w.groups /\ u.page = w.page
          /\ u = [groups |-> w.groups, page |-> w.page, calls |-> u.calls]
          /\ \A c \in u.calls : /\ \E e \in w.calls : Like(c, e)
                                /\ c.newest => ~(c.kind \in kinds /\ c.key \in keys)
          /\ Keeps(w, u)
      BY <1>0, <2>1, Outdated
    <3> QED
      BY <2>k, <3>1
  <2>6. v = Awaits([u EXCEPT !.groups.boards[o] = Started(@)], d)
    BY <1>2, <2>1, <2>2 DEF ReadsBoard
  <2>7. PICK boards : boards = [w.groups.boards EXCEPT ![o] = Started(@)]
    OBVIOUS
  <2>8. /\ boards \in [Organizations -> Slot] /\ boards[o].phase = "loading"
        /\ \A p \in Organizations : p # o => boards[p] = w.groups.boards[p]
    BY <1>0, <2>7, WindowTyped DEF Started, Slot
  <2>9. /\ v.groups.boards = boards /\ v.groups.tasks = w.groups.tasks /\ v.page = w.page
        /\ v.groups.revisions = w.groups.revisions /\ v.calls = u.calls \union {d} /\ v \in Windows
    <3>1. v = [groups |-> [w.groups EXCEPT !.boards = boards], page |-> w.page, calls |-> u.calls \union {d}]
      BY <2>5, <2>6, <2>7, WindowTyped DEF Awaits, GroupsStates
    <3>2. PICK g : g = [w.groups EXCEPT !.boards = boards]
      OBVIOUS
    <3>3. /\ g \in GroupsStates /\ g.boards = boards /\ g.tasks = w.groups.tasks
          /\ g.revisions = w.groups.revisions
      BY <1>0, <2>8, <3>2, WindowTyped DEF GroupsStates
    <3>4. u.calls \union {d} \in SUBSET DeskCalls
      BY <2>4, <2>5, WindowTyped DEF NewCall
    <3>5. v = [groups |-> g, page |-> w.page, calls |-> u.calls \union {d}] /\ w.page \in PageStates
      BY <1>0, <3>1, <3>2, WindowTyped
    <3>6. v \in Windows /\ v.groups = g /\ v.page = w.page /\ v.calls = u.calls \union {d}
      BY <3>3, <3>4, <3>5 DEF Windows
    <3> QED
      BY <3>3, <3>6
  <2>10. WindowFits(v, told, again \ {BoardKey(o)})
    <3> DEFINE less == again \ {BoardKey(o)}
    <3>1. \A x : x \in again \ less => x = BoardKey(o)
      OBVIOUS
    <3>2. \A p \in Organizations : v.groups.boards[p].phase = "ready" =>
            v.groups.boards[p] = w.groups.boards[p] /\ BoardKey(p) \notin again \ less
      BY <2>8, <2>9, <3>1, KeyFacts
    <3>3. \A k \in TaskKeys : v.groups.tasks[k].phase = "ready" =>
            v.groups.tasks[k] = w.groups.tasks[k] /\ k \notin again \ less
      BY <2>9, <3>1, KeyFacts
    <3>4. ASSUME NEW c \in v.calls
          PROVE  NewCall(c) \/ /\ \E e \in w.calls : Like(c, e)
                               /\ c.newest /\ c.kind \in Reads => c.key \notin again \ less
      <4>1. CASE c = d
        BY <2>4, <4>1
      <4>2. CASE c \in u.calls
        <5>1. PICK e \in w.calls : Like(c, e)
          BY <2>5, <4>2
        <5>2. ASSUME c.kind = "task", c.key = BoardKey(o) PROVE FALSE
          <6>1. CallFits(w, e, told, again)
            BY <1>0 DEF WindowFits
          <6> QED
            BY <5>1, <5>2, <6>1, KeyFacts DEF CallFits, Like
        <5> QED
          BY <2>5, <3>1, <4>2, <5>1, <5>2 DEF Reads
      <4> QED
        BY <2>9, <4>1, <4>2
    <3>5. less \subseteq again
      OBVIOUS
    <3> HIDE DEF less
    <3>6. WindowFits(v, told, less)
      BY <1>0, <2>9, <3>2, <3>3, <3>4, <3>5, StillFits
    <3> QED
      BY <3>6 DEF less
  <2>11. AwaitsConnected(v)
    BY <1>0, <1>2, <2>9 DEF AwaitsConnected
  <2>12. Keeps(w, v)
    BY <2>5, <2>9 DEF Keeps
  <2> QED
    BY <1>2, <2>9, <2>10, <2>11, <2>12 DEF WindowHolds
<1> QED
  BY <1>1, <1>2

\* A task is opened: the same of its page.
LEMMA TaskIsOpened ==
  ASSUME NEW told, NEW again, NEW w, WindowHolds(w, told, again), NEW k \in TaskKeys,
         NEW v, v = OpensTask(w, k)
  PROVE  /\ WindowHolds(v, told, IF w.page.connected THEN again \ {k} ELSE again)
         /\ v.page = w.page /\ Keeps(w, v)
<1>0. w \in Windows /\ WindowFits(w, told, again) /\ AwaitsConnected(w)
  BY DEF WindowHolds
<1>1. CASE ~w.page.connected
  BY <1>1 DEF OpensTask, Keeps
<1>2. CASE w.page.connected
  <2> DEFINE kinds == {"task"}
             keys == {k}
  <2>k. \A c : c.kind \in kinds /\ c.key \in keys <=> c.kind = "task" /\ c.key = k
    OBVIOUS
  <2>1. PICK u : u = Outdates(w, kinds, keys)
    OBVIOUS
  <2>2. PICK d : d = [DeskCall EXCEPT !.kind = "task", !.key = k]
    OBVIOUS
  <2>3. d = [kind |-> "task", key |-> k, newest |-> TRUE, then |-> NoOrganization, mine |-> FALSE,
             data |-> Unknown, bindings |-> [p \in Organizations |-> Unknown]]
    BY <2>2 DEF DeskCall
  <2>4. NewCall(d)
    BY <2>3, UnknownFacts DEF NewCall, DeskCalls
  <2>5. /\ u \in Windows /\ u.groups = w.groups /\ u.page = w.page
        /\ u = [groups |-> w.groups, page |-> w.page, calls |-> u.calls]
        /\ \A c \in u.calls : /\ \E e \in w.calls : Like(c, e)
                              /\ c.newest => ~(c.kind = "task" /\ c.key = k)
        /\ Keeps(w, u)
    <3> HIDE DEF kinds, keys
    <3>1. /\ u \in Windows /\ u.groups = w.groups /\ u.page = w.page
          /\ u = [groups |-> w.groups, page |-> w.page, calls |-> u.calls]
          /\ \A c \in u.calls : /\ \E e \in w.calls : Like(c, e)
                                /\ c.newest => ~(c.kind \in kinds /\ c.key \in keys)
          /\ Keeps(w, u)
      BY <1>0, <2>1, Outdated
    <3> QED
      BY <2>k, <3>1
  <2>6. v = Awaits([u EXCEPT !.groups.open = k, !.groups.tasks[k] = Started(@)], d)
    BY <1>2, <2>1, <2>2 DEF OpensTask
  <2>7. PICK tasks : tasks = [w.groups.tasks EXCEPT ![k] = Started(@)]
    OBVIOUS
  <2>8. /\ tasks \in [TaskKeys -> Slot] /\ tasks[k].phase = "loading"
        /\ \A l \in TaskKeys : l # k => tasks[l] = w.groups.tasks[l]
    BY <1>0, <2>7, WindowTyped DEF Started, Slot
  <2>9. /\ v.groups.tasks = tasks /\ v.groups.boards = w.groups.boards /\ v.page = w.page
        /\ v.groups.revisions = w.groups.revisions /\ v.calls = u.calls \union {d} /\ v \in Windows
    <3>1. v = [groups |-> [w.groups EXCEPT !.open = k, !.tasks = tasks], page |-> w.page,
               calls |-> u.calls \union {d}]
      <4>1. PICK opened : opened = [w.groups EXCEPT !.open = k]
        OBVIOUS
      <4>2. PICK u1 : u1 = [u EXCEPT !.groups.open = k]
        OBVIOUS
      <4>3. u1 = [groups |-> opened, page |-> w.page, calls |-> u.calls]
        BY <2>5, <4>1, <4>2
      <4>4. opened.tasks = w.groups.tasks
        BY <1>0, <4>1, WindowTyped DEF GroupsStates
      <4>5. PICK u2 : u2 = [u1 EXCEPT !.groups.tasks[k] = Started(@)]
        OBVIOUS
      <4>6. u2 = [groups |-> [opened EXCEPT !.tasks = tasks], page |-> w.page, calls |-> u.calls]
        BY <2>7, <4>3, <4>4, <4>5, <1>0, <4>1, WindowTyped DEF GroupsStates
      <4>7. v = Awaits(u2, d)
        BY <2>6, <4>2, <4>5
      <4>8. v = [groups |-> [opened EXCEPT !.tasks = tasks], page |-> w.page, calls |-> u.calls \union {d}]
        BY <4>6, <4>7 DEF Awaits
      <4> QED
        BY <4>1, <4>8
    <3>2. PICK g : g = [w.groups EXCEPT !.open = k, !.tasks = tasks]
      OBVIOUS
    <3>3. /\ g \in GroupsStates /\ g.boards = w.groups.boards /\ g.tasks = tasks
          /\ g.revisions = w.groups.revisions
      BY <1>0, <2>8, <3>2, WindowTyped DEF GroupsStates
    <3>4. u.calls \union {d} \in SUBSET DeskCalls
      BY <2>4, <2>5, WindowTyped DEF NewCall
    <3>5. v = [groups |-> g, page |-> w.page, calls |-> u.calls \union {d}] /\ w.page \in PageStates
      BY <1>0, <3>1, <3>2, WindowTyped
    <3>6. v \in Windows /\ v.groups = g /\ v.page = w.page /\ v.calls = u.calls \union {d}
      BY <3>3, <3>4, <3>5 DEF Windows
    <3> QED
      BY <3>3, <3>6
  <2>10. WindowFits(v, told, again \ {k})
    <3> DEFINE less == again \ {k}
    <3>1. \A x : x \in again \ less => x = k
      OBVIOUS
    <3>2. \A p \in Organizations : v.groups.boards[p].phase = "ready" =>
            v.groups.boards[p] = w.groups.boards[p] /\ BoardKey(p) \notin again \ less
      BY <2>9, <3>1, KeyFacts
    <3>3. \A l \in TaskKeys : v.groups.tasks[l].phase = "ready" =>
            v.groups.tasks[l] = w.groups.tasks[l] /\ l \notin again \ less
      BY <2>8, <2>9, <3>1
    <3>4. ASSUME NEW c \in v.calls
          PROVE  NewCall(c) \/ /\ \E e \in w.calls : Like(c, e)
                               /\ c.newest /\ c.kind \in Reads => c.key \notin again \ less
      <4>1. CASE c = d
        BY <2>4, <4>1
      <4>2. CASE c \in u.calls
        <5>1. PICK e \in w.calls : Like(c, e)
          BY <2>5, <4>2
        <5>2. ASSUME c.kind = "board", c.key = k PROVE FALSE
          <6>1. CallFits(w, e, told, again)
            BY <1>0 DEF WindowFits
          <6> QED
            BY <5>1, <5>2, <6>1, KeyFacts DEF CallFits, Like
        <5> QED
          BY <2>5, <3>1, <4>2, <5>1, <5>2 DEF Reads
      <4> QED
        BY <2>9, <4>1, <4>2
    <3>5. less \subseteq again
      OBVIOUS
    <3> HIDE DEF less
    <3>6. WindowFits(v, told, less)
      BY <1>0, <2>9, <3>2, <3>3, <3>4, <3>5, StillFits
    <3> QED
      BY <3>6 DEF less
  <2>11. AwaitsConnected(v)
    BY <1>0, <1>2, <2>9 DEF AwaitsConnected
  <2>12. Keeps(w, v)
    BY <2>5, <2>9 DEF Keeps
  <2> QED
    BY <1>2, <2>9, <2>10, <2>11, <2>12 DEF WindowHolds
<1> QED
  BY <1>1, <1>2

\* A window is what it is made of.
LEMMA Made ==
  ASSUME NEW g \in GroupsStates, NEW p \in PageStates, NEW cs \in SUBSET DeskCalls,
         NEW v, v = [groups |-> g, page |-> p, calls |-> cs]
  PROVE  v \in Windows /\ v.groups = g /\ v.page = p /\ v.calls = cs
BY DEF Windows

\* What was read still fits when the page, what is selected and what is open change, and
\* when calls are given up.
LEMMA ViewChanges ==
  ASSUME NEW told, NEW again, NEW w, WindowHolds(w, told, again), NEW v \in Windows, AwaitsConnected(v),
         v.groups.revisions = w.groups.revisions, v.groups.boards = w.groups.boards,
         v.groups.tasks = w.groups.tasks, v.calls \subseteq w.calls
  PROVE  WindowHolds(v, told, again)
<1>1. w \in Windows /\ WindowFits(w, told, again)
  BY DEF WindowHolds
<1>2. again \ again = {} /\ again \subseteq again
  OBVIOUS
<1>3. \A c \in v.calls : \E d \in w.calls : Like(c, d)
  BY DEF Like
<1>4. WindowFits(v, told, again)
  BY <1>1, <1>2, <1>3, StillFits
<1> QED
  BY <1>4 DEF WindowHolds

\* The directory is read: what is shown stays.
LEMMA DirectoryIsRead ==
  ASSUME NEW told, NEW again, NEW w, WindowHolds(w, told, again),
         NEW then \in Organizations \union {NoOrganization}, NEW v, v = RefreshesDirectory(w, then)
  PROVE  /\ WindowHolds(v, told, again) /\ v.groups = w.groups /\ Keeps(w, v)
         /\ v.page.connected = w.page.connected /\ v.page.switching = w.page.switching
         /\ v.page.choosing = w.page.choosing
         /\ w.page.connected => Awaited(v, then)
<1>0. w \in Windows /\ WindowFits(w, told, again) /\ AwaitsConnected(w)
  BY DEF WindowHolds
<1>1. CASE ~w.page.connected
  BY <1>1 DEF RefreshesDirectory, Keeps
<1>2. CASE w.page.connected
  <2> DEFINE kinds == {"directory"}
             keys == {NoTask}
  <2>1. PICK u : u = Outdates(w, kinds, keys)
    OBVIOUS
  <2>2. PICK d : d = [DeskCall EXCEPT !.kind = "directory", !.then = then]
    OBVIOUS
  <2>3. v = Awaits([u EXCEPT !.page.directory = "loading"], d)
    BY <1>2, <2>1, <2>2 DEF RefreshesDirectory
  <2> HIDE DEF kinds, keys
  <2>4. d = [kind |-> "directory", key |-> NoTask, newest |-> TRUE, then |-> then, mine |-> FALSE,
             data |-> Unknown, bindings |-> [p \in Organizations |-> Unknown]]
    BY <2>2 DEF DeskCall
  <2>5. NewCall(d)
    BY <2>4, UnknownFacts DEF NewCall, DeskCalls
  <2>6. /\ u \in Windows /\ u.groups = w.groups /\ u.page = w.page
        /\ u = [groups |-> w.groups, page |-> w.page, calls |-> u.calls]
        /\ \A c \in u.calls : \E e \in w.calls : Like(c, e)
        /\ Keeps(w, u)
    BY <1>0, <2>1, Outdated
  <2>7. PICK p : p = [w.page EXCEPT !.directory = "loading"]
    OBVIOUS
  <2>8. /\ p \in PageStates /\ p.connected = w.page.connected /\ p.switching = w.page.switching
        /\ p.choosing = w.page.choosing
    BY <1>0, <2>7, WindowTyped DEF PageStates
  <2>9. v = [groups |-> w.groups, page |-> p, calls |-> u.calls \union {d}]
    BY <2>3, <2>6, <2>7 DEF Awaits
  <2>10. v \in Windows /\ v.groups = w.groups /\ v.page = p /\ v.calls = u.calls \union {d}
    <3>1. u.calls \union {d} \in SUBSET DeskCalls /\ w.groups \in GroupsStates
      BY <1>0, <2>5, <2>6, WindowTyped DEF NewCall
    <3> QED
      BY <2>8, <2>9, <3>1, Made
  <2>11. WindowFits(v, told, again)
    <3>1. again \ again = {} /\ again \subseteq again
      OBVIOUS
    <3>2. \A c \in v.calls : NewCall(c) \/ \E e \in w.calls : Like(c, e)
      BY <2>5, <2>6, <2>10
    <3> QED
      BY <1>0, <2>10, <3>1, <3>2, StillFits
  <2>12. AwaitsConnected(v)
    BY <1>2, <2>8, <2>10 DEF AwaitsConnected
  <2>13. Keeps(w, v) /\ Awaited(v, then)
    BY <2>4, <2>6, <2>10 DEF Keeps, Awaited
  <2> QED
    BY <2>8, <2>10, <2>11, <2>12, <2>13 DEF WindowHolds
<1> QED
  BY <1>1, <1>2

\* The directory is taken over: what was read under another binding goes, and what is still
\* being read of it no longer counts.
LEMMA DirectoryIsTaken ==
  ASSUME NEW told, NEW w, WindowHolds(w, told, {}), NEW c \in DeskCalls,
         \A o \in Organizations : c.bindings[o] <= desks[o].binding,
         NEW v, v = SyncsDirectory(w, c)
  PROVE  /\ WindowHolds(v, told, {}) /\ Keeps(w, v)
         /\ v.page.connected = w.page.connected /\ v.page.switching = w.page.switching
         /\ v.page.choosing = w.page.choosing
<1>0. w \in Windows /\ WindowFits(w, told, {}) /\ AwaitsConnected(w)
  BY DEF WindowHolds
<1> DEFINE same == SameBinding(w.groups, c.bindings)
           gone == Organizations \ same
           keys == {k \in TaskKeys \union {BoardKey(o) : o \in Organizations} : k[1] \in gone}
<1>1. PICK u : u = Outdates(w, Reads, keys)
  OBVIOUS
<1>2. PICK g : g = DirectorySynced(w.groups, c.bindings, w.page.space)
  OBVIOUS
<1>3. PICK p : p = [w.page EXCEPT !.directory = "ready", !.listed = TRUE]
  OBVIOUS
<1>4. /\ u \in Windows /\ u.groups = w.groups /\ u.page = w.page
      /\ u = [groups |-> w.groups, page |-> w.page, calls |-> u.calls]
      /\ \A d \in u.calls : /\ \E e \in w.calls : Like(d, e)
                            /\ d.newest => ~(d.kind \in Reads /\ d.key \in keys)
      /\ Keeps(w, u) /\ (w.calls = {} => u.calls = {})
  <2> HIDE DEF keys
  <2> QED
    BY <1>0, <1>1, Outdated
<1>5. v = [groups |-> g, page |-> p, calls |-> u.calls]
  <2>1. v = [u EXCEPT !.page.directory = "ready", !.page.listed = TRUE,
                      !.groups = DirectorySynced(@, c.bindings, w.page.space)]
    BY <1>1 DEF SyncsDirectory
  <2> HIDE DEF keys
  <2>2. PICK u1 : u1 = [u EXCEPT !.page.directory = "ready", !.page.listed = TRUE]
    OBVIOUS
  <2>3. u1 = [groups |-> w.groups, page |-> p, calls |-> u.calls]
    BY <1>3, <1>4, <2>2
  <2>4. v = [u1 EXCEPT !.groups = DirectorySynced(@, c.bindings, w.page.space)]
    BY <2>1, <2>2
  <2> QED
    BY <1>2, <2>3, <2>4
<1>6. /\ p \in PageStates /\ p.connected = w.page.connected /\ p.switching = w.page.switching
      /\ p.choosing = w.page.choosing
  BY <1>0, <1>3, WindowTyped DEF PageStates
<1>7. /\ c.bindings \in [Organizations -> Ages] /\ w.groups.revisions \in [Organizations -> Ages]
      /\ w.groups.boards \in [Organizations -> Slot] /\ w.groups.tasks \in [TaskKeys -> Slot]
      /\ \A o \in same : o \in Organizations /\ w.groups.revisions[o] = c.bindings[o]
  BY <1>0, WindowTyped DEF DeskCalls, SameBinding
<1>8. /\ g.revisions = c.bindings
      /\ g.boards = [o \in Organizations |-> IF o \in same THEN w.groups.boards[o] ELSE IdleSlot]
      /\ g.tasks = [k \in TaskKeys |-> IF k[1] \in same THEN w.groups.tasks[k] ELSE IdleSlot]
      /\ g.open = IF w.groups.open[1] \in same THEN w.groups.open ELSE NoTask
      /\ g = [selected |-> g.selected, revisions |-> g.revisions, boards |-> g.boards, tasks |-> g.tasks,
              open |-> g.open]
      /\ g.selected \in Organizations \union {NoOrganization}
  <2>1. (CHOOSE o \in Organizations : TRUE) \in Organizations
    BY GroupsAssumption
  <2>2. g.selected = CASE w.groups.selected # NoOrganization -> w.groups.selected
                       [] w.page.space # NoOrganization -> w.page.space
                       [] OTHER -> CHOOSE o \in Organizations : TRUE
    BY <1>2 DEF DirectorySynced
  <2>3. g.selected \in Organizations \union {NoOrganization}
    BY <1>0, <2>1, <2>2, WindowTyped
  <2> QED
    BY <1>2, <2>3 DEF DirectorySynced
<1>9. IdleSlot \in Slot /\ IdleSlot.phase = "idle"
  BY DEF IdleSlot, Slot, Unknown
<1>10. g \in GroupsStates
  <2> HIDE DEF same
  <2>1. g.boards \in [Organizations -> Slot] /\ g.tasks \in [TaskKeys -> Slot]
    BY <1>7, <1>8, <1>9
  <2>2. g.open \in TaskKeys \union {NoTask}
    BY <1>0, <1>8, WindowTyped
  <2> QED
    BY <1>7, <1>8, <2>1, <2>2 DEF GroupsStates
<1>11. v \in Windows /\ v.groups = g /\ v.page = p /\ v.calls = u.calls
  <2>1. u.calls \in SUBSET DeskCalls
    BY <1>4, WindowTyped
  <2> QED
    BY <1>5, <1>6, <1>10, <2>1, Made
<1>12. WindowFits(v, told, {})
  <2>1. ASSUME NEW o \in Organizations, v.groups.boards[o].phase = "ready"
        PROVE  BoardFits(v, o, v.groups.boards[o].data, told)
    <3>1. o \in same /\ v.groups.boards[o] = w.groups.boards[o]
      BY <1>8, <1>9, <1>11, <2>1
    <3> QED
      BY <1>0, <1>7, <1>8, <1>11, <2>1, <3>1 DEF WindowFits, BoardFits
  <2>2. ASSUME NEW k \in TaskKeys, v.groups.tasks[k].phase = "ready"
        PROVE  TaskFits(v, k, v.groups.tasks[k].data, told)
    <3>1. k[1] \in same /\ v.groups.tasks[k] = w.groups.tasks[k]
      BY <1>8, <1>9, <1>11, <2>2
    <3> QED
      BY <1>0, <1>7, <1>8, <1>11, <2>2, <3>1 DEF WindowFits, TaskFits
  <2>3. ASSUME NEW d \in v.calls PROVE CallFits(v, d, told, {})
    <3>1. PICK e \in w.calls : Like(d, e)
      BY <1>4, <1>11
    <3>2. CallFits(w, e, told, {})
      BY <1>0 DEF WindowFits
    <3>3. d.newest => ~(d.kind \in Reads /\ d.key \in keys)
      BY <1>4, <1>11
    <3>4. d.kind = "board" => d.key \in BoardKeys /\ d.key[1] \in Organizations
      BY <3>1, <3>2, KeyFacts DEF CallFits, Like
    <3>5. d.kind = "task" => d.key \in TaskKeys /\ d.key[1] \in Organizations
      BY <3>1, <3>2, KeyFacts DEF CallFits, Like
    <3>6. d.kind = "board" /\ d.newest => d.key[1] \in same
      BY <3>3, <3>4 DEF Reads, BoardKeys
    <3>7. d.kind = "task" /\ d.newest => d.key[1] \in same
      BY <3>3, <3>5 DEF Reads
    <3> HIDE DEF keys
    <3>8. d.kind = "board" /\ d.newest => v.groups.revisions[d.key[1]] = w.groups.revisions[d.key[1]]
      BY <1>7, <1>8, <1>11, <3>6
    <3>9. d.kind = "task" /\ d.newest => v.groups.revisions[d.key[1]] = w.groups.revisions[d.key[1]]
      BY <1>7, <1>8, <1>11, <3>7
    <3> HIDE DEF same
    <3> QED
      BY <3>1, <3>2, <3>8, <3>9 DEF CallFits, Like, BoardFits, TaskFits
  <2> QED
    BY <1>8, <1>11, <2>1, <2>2, <2>3 DEF WindowFits
<1>13. AwaitsConnected(v)
  BY <1>0, <1>4, <1>6, <1>11 DEF AwaitsConnected
<1>14. Keeps(w, v)
  BY <1>4, <1>11 DEF Keeps
<1> QED
  BY <1>6, <1>11, <1>12, <1>13, <1>14 DEF WindowHolds

\* Everything is reset: nothing is shown, and nothing that is still being read counts.
LEMMA EverythingIsReset ==
  ASSUME NEW told, NEW again, NEW w, WindowHolds(w, told, again),
         \A o \in Organizations : desks[o].binding \in Nat,
         NEW v, v = Resets(w)
  PROVE  /\ WindowHolds(v, told, {}) /\ Keeps(w, v) /\ v.groups = InitialGroups
         /\ v.page.connected = w.page.connected /\ v.page.switching = w.page.switching
         /\ v.page.choosing = w.page.choosing /\ (w.calls = {} => v.calls = {})
         /\ v = [groups |-> InitialGroups, page |-> v.page, calls |-> v.calls]
<1>0. w \in Windows /\ WindowFits(w, told, again) /\ AwaitsConnected(w)
  BY DEF WindowHolds
<1> DEFINE kinds == Reads \union {"directory"}
           keys == {c.key : c \in w.calls}
<1>1. PICK u : u = Outdates(w, kinds, keys)
  OBVIOUS
<1>2. PICK p : p = [w.page EXCEPT !.directory = "idle", !.listed = FALSE]
  OBVIOUS
<1>3. v = [u EXCEPT !.groups = InitialGroups, !.page.directory = "idle", !.page.listed = FALSE]
  BY <1>1 DEF Resets
<1>4. /\ u \in Windows /\ u.groups = w.groups /\ u.page = w.page
      /\ u = [groups |-> w.groups, page |-> w.page, calls |-> u.calls]
      /\ \A d \in u.calls : /\ \E e \in w.calls : Like(d, e)
                            /\ d.newest => ~(d.kind \in kinds /\ d.key \in keys)
      /\ Keeps(w, u) /\ (w.calls = {} => u.calls = {})
  <2> HIDE DEF keys, kinds
  <2> QED
    BY <1>0, <1>1, Outdated
<1>5. v = [groups |-> InitialGroups, page |-> p, calls |-> u.calls]
  BY <1>2, <1>3, <1>4
<1>6. /\ p \in PageStates /\ p.connected = w.page.connected /\ p.switching = w.page.switching
      /\ p.choosing = w.page.choosing
  BY <1>0, <1>2, WindowTyped DEF PageStates
<1>7. IdleSlot \in Slot /\ IdleSlot.phase = "idle"
  BY DEF IdleSlot, Slot, Unknown
<1>8. /\ InitialGroups \in GroupsStates
      /\ \A o \in Organizations : InitialGroups.boards[o].phase = "idle" /\ InitialGroups.revisions[o] = Unknown
      /\ \A k \in TaskKeys : InitialGroups.tasks[k].phase = "idle"
  BY <1>7, UnknownFacts DEF InitialGroups, GroupsStates
<1>9. v \in Windows /\ v.groups = InitialGroups /\ v.page = p /\ v.calls = u.calls
  <2>1. u.calls \in SUBSET DeskCalls
    BY <1>4, WindowTyped
  <2> QED
    BY <1>5, <1>6, <1>8, <2>1, Made
<1>10. WindowFits(v, told, {})
  <2>1. ASSUME NEW d \in v.calls PROVE CallFits(v, d, told, {})
    <3>1. PICK e \in w.calls : Like(d, e)
      BY <1>4, <1>9
    <3>2. CallFits(w, e, told, again)
      BY <1>0 DEF WindowFits
    <3>3. d.kind \in Reads => ~d.newest
      BY <1>4, <1>9, <3>1 DEF Like
    <3> QED
      BY <3>1, <3>2, <3>3 DEF CallFits, Like, Reads
  <2> QED
    BY <1>8, <1>9, <2>1, UnknownFacts DEF WindowFits
<1>11. AwaitsConnected(v) /\ Keeps(w, v)
  BY <1>0, <1>4, <1>6, <1>9 DEF AwaitsConnected, Keeps
<1> QED
  BY <1>4, <1>5, <1>6, <1>9, <1>10, <1>11 DEF WindowHolds

\* What a switch waits for goes on.
LEMMA StillChooses ==
  ASSUME NEW w, Chooses(w), NEW v, Keeps(w, v), v.page.choosing = w.page.choosing,
         v.page.switching = w.page.switching
  PROVE  Chooses(v)
BY DEF Chooses, Awaited, Keeps

\* What is known of the Desks and of the changes the user was told of
DesksHold(told) ==
  /\ desks \in Desks /\ told \in Confirmations
  /\ \A o \in Organizations : desks[o].binding <= desks[o].age
  /\ \A k \in TaskKeys : told[k] <= desks[k[1]].age

\* What the window is, once it has been rendered
LEMMA Shown ==
  ASSUME NEW told, DesksHold(told), NEW w, WindowHolds(w, told, {}), Chooses(w), Shows(w),
         desks' = desks, deskConfirmed' = told
  PROVE  DeskInv'
<1>0. w \in Windows /\ WindowFits(w, told, {}) /\ AwaitsConnected(w)
  BY DEF WindowHolds
<1>1. PICK stays : stays = (w.groups.open # NoTask /\ w.page.listed)
  OBVIOUS
<1> DEFINE Own(c) == c.kind = "change" /\ ~stays
           Left(c) == IF Own(c) THEN [c EXCEPT !.mine = FALSE] ELSE c
<1>2. PICK p : p = [w.page EXCEPT !.saving = @ /\ stays]
  OBVIOUS
<1>3. PICK cs : cs = {Left(c) : c \in w.calls}
  OBVIOUS
<1>4. groups' = w.groups /\ page' = p /\ deskCalls' = cs
  BY <1>1, <1>2, <1>3 DEF Shows
<1>5. /\ p \in PageStates /\ p.connected = w.page.connected /\ p.switching = w.page.switching
      /\ p.choosing = w.page.choosing
  BY <1>0, <1>1, <1>2, WindowTyped DEF PageStates
<1>6. \A c \in DeskCalls : Left(c) \in DeskCalls /\ Like(Left(c), c)
  <2> SUFFICES ASSUME NEW c \in DeskCalls PROVE Left(c) \in DeskCalls /\ Like(Left(c), c)
    OBVIOUS
  <2>1. PICK e : e = [c EXCEPT !.mine = FALSE]
    OBVIOUS
  <2>2. e \in DeskCalls
    BY <2>1 DEF DeskCalls
  <2>3. /\ e.kind = c.kind /\ e.key = c.key /\ e.then = c.then /\ e.data = c.data
        /\ e.bindings = c.bindings /\ e.newest = c.newest
    BY <2>1 DEF DeskCalls
  <2>4. Left(c) = e \/ Left(c) = c
    BY <2>1
  <2> HIDE DEF Left
  <2> QED
    BY <2>2, <2>3, <2>4 DEF Like
<1> HIDE DEF Left
<1>7. cs \in SUBSET DeskCalls /\ \A c \in cs : \E d \in w.calls : Like(c, d)
  BY <1>0, <1>3, <1>6, WindowTyped
<1>8. PICK v : v = [groups |-> w.groups, page |-> p, calls |-> cs]
  OBVIOUS
<1>9. v \in Windows /\ v.groups = w.groups /\ v.page = p /\ v.calls = cs
  <2>1. w.groups \in GroupsStates
    BY <1>0, WindowTyped
  <2> QED
    BY <1>5, <1>7, <1>8, <2>1, Made
<1>10. WindowFits(v, told, {})
  <2>1. {} \ {} = {} /\ {} \subseteq {}
    OBVIOUS
  <2> QED
    BY <1>0, <1>7, <1>9, <2>1, StillFits
<1>11. AwaitsConnected(v) /\ Chooses(v)
  <2>1. Keeps(w, v)
    <3>1. \A d \in w.calls : Left(d) \in cs /\ Like(Left(d), d)
      BY <1>0, <1>3, <1>6, WindowTyped
    <3> QED
      BY <1>9, <3>1 DEF Keeps, Like
  <2>2. Chooses(v)
    BY <1>5, <1>9, <2>1, StillChooses
  <2>3. w.calls = {} => cs = {}
    BY <1>3
  <2> QED
    BY <1>0, <1>5, <1>9, <2>2, <2>3 DEF AwaitsConnected
<1>12. Window' = v
  BY <1>4, <1>8 DEF Window
<1>13. WindowFits(v, told, {})'
  BY <1>10 DEF WindowFits, BoardFits, TaskFits, CallFits
<1>14. WindowHolds(Window, deskConfirmed, {})' /\ Chooses(Window)'
  BY <1>9, <1>11, <1>12, <1>13 DEF WindowHolds, AwaitsConnected, Chooses, Awaited
<1>15. desks' \in Desks /\ deskConfirmed' \in Confirmations /\ DesksGrow'
  BY DEF DesksHold, DesksGrow
<1> QED
  BY <1>14, <1>15 DEF DeskInv

\* What is known of the window that is shown
LEMMA WindowFacts ==
  ASSUME DeskInv
  PROVE  /\ WindowHolds(Window, deskConfirmed, {}) /\ Chooses(Window) /\ DesksHold(deskConfirmed)
         /\ Window \in Windows /\ Window.groups = groups /\ Window.page = page /\ Window.calls = deskCalls
         /\ groups \in GroupsStates /\ page \in PageStates /\ deskCalls \in SUBSET DeskCalls
         /\ \A o \in Organizations : desks[o].binding \in Nat /\ desks[o].age \in Nat
         /\ \A c \in deskCalls : page.connected /\ CallFits(Window, c, deskConfirmed, {})
<1>1. /\ WindowHolds(Window, deskConfirmed, {}) /\ Chooses(Window) /\ desks \in Desks
      /\ deskConfirmed \in Confirmations /\ DesksGrow
  BY DEF DeskInv
<1>2. Window.groups = groups /\ Window.page = page /\ Window.calls = deskCalls
  BY DEF Window
<1>3. Window \in Windows /\ WindowFits(Window, deskConfirmed, {}) /\ AwaitsConnected(Window)
  BY <1>1 DEF WindowHolds
<1>4. groups \in GroupsStates /\ page \in PageStates /\ deskCalls \in SUBSET DeskCalls
  BY <1>2, <1>3, WindowTyped
<1>5. DesksHold(deskConfirmed)
  BY <1>1 DEF DesksHold, DesksGrow
<1>6. \A c \in deskCalls : page.connected /\ CallFits(Window, c, deskConfirmed, {})
  BY <1>2, <1>3, <1>4 DEF WindowFits, AwaitsConnected, PageStates
<1>7. \A o \in Organizations : desks[o].binding \in Nat /\ desks[o].age \in Nat
  BY <1>1 DEF Desks
<1> QED
  BY <1>1, <1>2, <1>3, <1>4, <1>5, <1>6, <1>7

\* The directory is read, and so are a board and a task.
LEMMA DirectoryRefreshed ==
  ASSUME DeskInv, RefreshDirectory
  PROVE  DeskInv'
<1>1. PICK v : v = RefreshesDirectory(Window, NoOrganization)
  OBVIOUS
<1>2. Shows(v) /\ desks' = desks /\ deskConfirmed' = deskConfirmed
  BY <1>1 DEF RefreshDirectory
<1>3. /\ WindowHolds(v, deskConfirmed, {}) /\ Keeps(Window, v)
      /\ v.page.switching = Window.page.switching /\ v.page.choosing = Window.page.choosing
  BY <1>1, WindowFacts, DirectoryIsRead
<1>4. Chooses(v)
  BY <1>3, WindowFacts, StillChooses
<1> QED
  BY <1>2, <1>3, <1>4, WindowFacts, Shown

\* Reading a board again keeps the invariant.
LEMMA BoardReads ==
  ASSUME DeskInv, NEW o \in Organizations, Shows(ReadsBoard(Window, o)), desks' = desks,
         deskConfirmed' = deskConfirmed
  PROVE  DeskInv'
<1>1. PICK v : v = ReadsBoard(Window, o)
  OBVIOUS
<1>2. Shows(v)
  BY <1>1
<1>3. /\ WindowHolds(v, deskConfirmed, {}) /\ Keeps(Window, v) /\ v.page = Window.page
  <2>1. {} \ {BoardKey(o)} = {}
    OBVIOUS
  <2> QED
    BY SMTT(30), <1>1, <2>1, WindowFacts, BoardIsRead
<1>4. Chooses(v)
  BY <1>3, WindowFacts, StillChooses
<1> QED
  BY <1>2, <1>3, <1>4, WindowFacts, Shown

\* Opening a task keeps the invariant.
LEMMA TaskOpened ==
  ASSUME DeskInv, NEW k \in TaskKeys, OpenTask(k)
  PROVE  DeskInv'
<1>1. PICK v : v = OpensTask(Window, k)
  OBVIOUS
<1>2. Shows(v) /\ desks' = desks /\ deskConfirmed' = deskConfirmed
  BY <1>1 DEF OpenTask
<1>3. /\ WindowHolds(v, deskConfirmed, {}) /\ Keeps(Window, v) /\ v.page = Window.page
  <2>1. \A again : again = {} => (IF Window.page.connected THEN again \ {k} ELSE again) = {}
    OBVIOUS
  <2>2. /\ WindowHolds(v, deskConfirmed, IF Window.page.connected THEN {} \ {k} ELSE {})
        /\ Keeps(Window, v) /\ v.page = Window.page
    <3>1. PICK w : w = Window
      OBVIOUS
    <3>2. WindowHolds(w, deskConfirmed, {})
      BY <3>1, WindowFacts
    <3>3. v = OpensTask(w, k)
      BY <1>1, <3>1
    <3>4. /\ WindowHolds(v, deskConfirmed, IF w.page.connected THEN {} \ {k} ELSE {})
          /\ v.page = w.page /\ Keeps(w, v)
      BY <3>2, <3>3, TaskIsOpened
    <3> QED
      BY <3>1, <3>4
  <2> QED
    BY <2>1, <2>2
<1>4. Chooses(v)
  BY <1>3, WindowFacts, StillChooses
<1> QED
  BY <1>2, <1>3, <1>4, WindowFacts, Shown

\* Another Space is asked for: everything is reset, and the switch is under way.
LEMMA SpaceSwitched ==
  ASSUME DeskInv, page.connected, NEW to \in Organizations \union {NoOrganization, "header"},
         to # NoOrganization, NEW who \in Organizations \union {NoOrganization},
         who = to \/ (who = page.choosing /\ page.switching = NoOrganization), NEW v,
         LET w == Resets(Window) IN
           v = [groups |-> w.groups, page |-> [w.page EXCEPT !.choosing = who, !.switching = to], calls |-> w.calls],
         Shows(v), desks' = desks, deskConfirmed' = deskConfirmed
  PROVE  DeskInv'
<1>1. PICK w : w = Resets(Window)
  OBVIOUS
<1>2. PICK p : p = [w.page EXCEPT !.choosing = who, !.switching = to]
  OBVIOUS
<1>3. v = [groups |-> w.groups, page |-> p, calls |-> w.calls]
  BY <1>1, <1>2
<1>4. /\ WindowHolds(w, deskConfirmed, {}) /\ Keeps(Window, w) /\ w.page.connected = page.connected
      /\ w.page.choosing = page.choosing
  <2>1. /\ WindowHolds(Window, deskConfirmed, {}) /\ \A o \in Organizations : desks[o].binding \in Nat
        /\ Window.page = page
    BY WindowFacts
  <2>2. PICK s : s = Window
    OBVIOUS
  <2>3. WindowHolds(s, deskConfirmed, {}) /\ w = Resets(s) /\ s.page = page
    BY <1>1, <2>1, <2>2
  <2>4. /\ WindowHolds(w, deskConfirmed, {}) /\ Keeps(s, w) /\ w.page.connected = s.page.connected
        /\ w.page.choosing = s.page.choosing
    BY <2>1, <2>3, EverythingIsReset
  <2> QED
    BY <2>2, <2>3, <2>4
<1>5. w \in Windows
  BY <1>4 DEF WindowHolds
<1>6. p \in PageStates /\ p.connected = w.page.connected /\ p.switching = to /\ p.choosing = who
  BY <1>2, <1>5, WindowTyped DEF PageStates
<1>8. v \in Windows /\ v.groups = w.groups /\ v.page = p /\ v.calls = w.calls
  <2>1. w.groups \in GroupsStates /\ w.calls \in SUBSET DeskCalls
    BY <1>5, WindowTyped
  <2> QED
    BY <1>3, <1>6, <2>1, Made
<1>10. AwaitsConnected(v)
  BY <1>4, <1>6, <1>8 DEF AwaitsConnected
<1>11. WindowHolds(v, deskConfirmed, {})
  BY <1>4, <1>8, <1>10, ViewChanges
<1>9. Chooses(v)
  <2>1. CASE who = to
    BY <1>6, <1>8, <2>1 DEF Chooses
  <2>2. CASE who = page.choosing /\ page.switching = NoOrganization
    BY <1>4, <1>6, <1>8, <2>2, WindowFacts DEF Chooses, Awaited, Keeps
  <2> QED
    BY <2>1, <2>2
<1> QED
  BY <1>9, <1>11, WindowFacts, Shown

\* Switching to a Space keeps the invariant.
LEMMA SpaceSwitches ==
  ASSUME DeskInv, SwitchSpace
  PROVE  DeskInv'
<1>1. PICK w : w = Resets(Window)
  OBVIOUS
<1>2. PICK v : v = [w EXCEPT !.page.switching = "header"]
  OBVIOUS
<1>3. /\ page.connected /\ page.switching = NoOrganization /\ Shows(v) /\ desks' = desks
      /\ deskConfirmed' = deskConfirmed
  BY <1>1, <1>2 DEF SwitchSpace, UserMoves
<1>4. /\ WindowHolds(w, deskConfirmed, {}) /\ w.page.choosing = page.choosing
      /\ w = [groups |-> w.groups, page |-> w.page, calls |-> w.calls]
  BY <1>1, WindowFacts, EverythingIsReset
<1>5. w.page \in PageStates /\ page.choosing \in Organizations \union {NoOrganization}
  BY <1>4, WindowTyped DEF WindowHolds
<1>6. [w.page EXCEPT !.choosing = page.choosing, !.switching = "header"] = [w.page EXCEPT !.switching = "header"]
  BY <1>4, <1>5 DEF PageStates
<1>7. v = [groups |-> w.groups, page |-> [w.page EXCEPT !.choosing = page.choosing, !.switching = "header"],
           calls |-> w.calls]
  BY <1>2, <1>4, <1>6
<1>8. "header" # NoOrganization
  BY GroupsAssumption, WindowFacts
<1> QED
  BY <1>1, <1>3, <1>5, <1>7, <1>8, SpaceSwitched

\* The parts of a window and its Desks, as the operators name them.
LEMMA OfParts ==
  ASSUME NEW w \in Windows
  PROVE  w = [groups |-> w.groups, page |-> w.page, calls |-> w.calls]
BY DEF Windows

\* The page changes, and what is read stays.
LEMMA PageChanges ==
  ASSUME NEW told, NEW w, WindowHolds(w, told, {}), NEW p \in PageStates,
         p.connected = w.page.connected, p.switching # NoOrganization => p.connected,
         NEW v, v = [groups |-> w.groups, page |-> p, calls |-> w.calls]
  PROVE  WindowHolds(v, told, {}) /\ v.groups = w.groups /\ v.page = p /\ v.calls = w.calls
<1>1. w \in Windows /\ AwaitsConnected(w)
  BY DEF WindowHolds
<1>2. v \in Windows /\ v.groups = w.groups /\ v.page = p /\ v.calls = w.calls
  <2>1. w.groups \in GroupsStates /\ w.calls \in SUBSET DeskCalls
    BY <1>1, WindowTyped
  <2> QED
    BY <2>1, Made
<1>3. AwaitsConnected(v)
  BY <1>1, <1>2 DEF AwaitsConnected
<1> QED
  BY <1>2, <1>3, ViewChanges

\* What is selected and what is open change, and what is read stays.
LEMMA GroupsChange ==
  ASSUME DeskInv, NEW g \in GroupsStates, g.revisions = groups.revisions, g.boards = groups.boards,
         g.tasks = groups.tasks, Shows([groups |-> g, page |-> page, calls |-> deskCalls]),
         desks' = desks, deskConfirmed' = deskConfirmed
  PROVE  DeskInv'
<1>1. PICK v : v = [groups |-> g, page |-> page, calls |-> deskCalls]
  OBVIOUS
<1>2. v \in Windows /\ v.groups = g /\ v.page = page /\ v.calls = deskCalls
  BY <1>1, WindowFacts, Made
<1>3. PICK w : w = Window
  OBVIOUS
<1>4. /\ WindowHolds(w, deskConfirmed, {}) /\ AwaitsConnected(w) /\ Chooses(w)
      /\ w.groups = groups /\ w.page = page /\ w.calls = deskCalls
  BY <1>3, WindowFacts DEF WindowHolds
<1>5. AwaitsConnected(v) /\ Chooses(v)
  BY <1>2, <1>4 DEF AwaitsConnected, Chooses, Awaited
<1>6. WindowHolds(v, deskConfirmed, {})
  BY <1>2, <1>4, <1>5, ViewChanges
<1> QED
  BY <1>1, <1>5, <1>6, WindowFacts, Shown

\* Choosing an organization keeps the invariant.
LEMMA OrganizationSelected ==
  ASSUME DeskInv, NEW o \in Organizations, SelectOrganization(o)
  PROVE  DeskInv'
<1>1. page.connected /\ desks' = desks /\ deskConfirmed' = deskConfirmed
  BY DEF SelectOrganization, UserMoves
<1>2. CASE o = page.space
  <2>1. PICK g : g = [groups EXCEPT !.selected = o]
    OBVIOUS
  <2>2. g \in GroupsStates /\ g.revisions = groups.revisions /\ g.boards = groups.boards /\ g.tasks = groups.tasks
    BY <2>1, WindowFacts DEF GroupsStates
  <2>3. [Window EXCEPT !.groups.selected = o] = [groups |-> g, page |-> page, calls |-> deskCalls]
    BY <2>1 DEF Window
  <2>4. Shows([groups |-> g, page |-> page, calls |-> deskCalls])
    BY <1>2, <2>3 DEF SelectOrganization
  <2> QED
    BY <1>1, <2>2, <2>4, GroupsChange
<1>3. CASE o # page.space
  <2>1. PICK w : w = Resets(Window)
    OBVIOUS
  <2>2. PICK v : v = [w EXCEPT !.page.choosing = o, !.page.switching = o]
    OBVIOUS
  <2>3. Shows(v)
    BY <1>3, <2>1, <2>2 DEF SelectOrganization
  <2>4. w = [groups |-> w.groups, page |-> w.page, calls |-> w.calls]
    <3>1. PICK s : s = Window
      OBVIOUS
    <3>2. WindowHolds(s, deskConfirmed, {}) /\ w = Resets(s) /\ \A p \in Organizations : desks[p].binding \in Nat
      BY <2>1, <3>1, WindowFacts
    <3>3. WindowHolds(w, deskConfirmed, {})
      BY <3>2, EverythingIsReset
    <3>4. w \in Windows
      BY <3>3 DEF WindowHolds
    <3> QED
      BY <3>4, OfParts
  <2>5. v = [groups |-> w.groups, page |-> [w.page EXCEPT !.choosing = o, !.switching = o], calls |-> w.calls]
    BY <2>2, <2>4
  <2>6. o # NoOrganization
    BY GroupsAssumption
  <2> QED
    BY <1>1, <2>1, <2>3, <2>5, <2>6, SpaceSwitched
<1> QED
  BY <1>2, <1>3

\* Closing the dossier keeps the invariant.
LEMMA TaskClosed ==
  ASSUME DeskInv, CloseTask
  PROVE  DeskInv'
<1>1. PICK g : g = [groups EXCEPT !.open = NoTask]
  OBVIOUS
<1>2. g \in GroupsStates /\ g.revisions = groups.revisions /\ g.boards = groups.boards /\ g.tasks = groups.tasks
  BY <1>1, WindowFacts DEF GroupsStates
<1>3. [Window EXCEPT !.groups.open = NoTask] = [groups |-> g, page |-> page, calls |-> deskCalls]
  BY <1>1 DEF Window
<1>4. Shows([groups |-> g, page |-> page, calls |-> deskCalls]) /\ desks' = desks /\ deskConfirmed' = deskConfirmed
  BY <1>3 DEF CloseTask
<1> QED
  BY <1>2, <1>4, GroupsChange

\* A change is asked for.
LEMMA ChangeAsked ==
  ASSUME DeskInv, page.connected, NEW d, NewCall(d), NEW p \in PageStates, p.connected = page.connected,
         p.switching = page.switching, p.choosing = page.choosing,
         Shows([groups |-> groups, page |-> p, calls |-> deskCalls \union {d}]),
         desks' = desks, deskConfirmed' = deskConfirmed
  PROVE  DeskInv'
<1>1. PICK v : v = [groups |-> groups, page |-> p, calls |-> deskCalls \union {d}]
  OBVIOUS
<1>2. v \in Windows /\ v.groups = groups /\ v.page = p /\ v.calls = deskCalls \union {d}
  <2>1. groups \in GroupsStates /\ deskCalls \union {d} \in SUBSET DeskCalls
    BY WindowFacts DEF NewCall
  <2> QED
    BY <1>1, <2>1, Made
<1>3. PICK w : w = Window
  OBVIOUS
<1>4. /\ w \in Windows /\ WindowFits(w, deskConfirmed, {}) /\ AwaitsConnected(w) /\ Chooses(w)
      /\ w.groups = groups /\ w.page = page /\ w.calls = deskCalls
  BY <1>3, WindowFacts DEF WindowHolds
<1>5. WindowFits(v, deskConfirmed, {})
  <2>1. {} \ {} = {} /\ {} \subseteq {}
    OBVIOUS
  <2>2. \A c \in v.calls : NewCall(c) \/ \E e \in w.calls : Like(c, e)
    BY <1>2, <1>4 DEF Like
  <2> QED
    BY <1>2, <1>4, <2>1, <2>2, StillFits
<1>6. AwaitsConnected(v) /\ Keeps(w, v)
  BY <1>2, <1>4 DEF AwaitsConnected, Keeps
<1>7. Chooses(v)
  BY <1>2, <1>4, <1>6, StillChooses
<1>8. WindowHolds(v, deskConfirmed, {})
  BY <1>2, <1>5, <1>6 DEF WindowHolds
<1> QED
  BY <1>1, <1>7, <1>8, WindowFacts, Shown

\* Asking for a change of a task keeps the invariant.
LEMMA TaskChanged ==
  ASSUME DeskInv, ChangeTask
  PROVE  DeskInv'
<1>1. PICK d : d = [DeskCall EXCEPT !.kind = "change", !.key = groups.open, !.mine = TRUE]
  OBVIOUS
<1>2. PICK p : p = [page EXCEPT !.saving = TRUE]
  OBVIOUS
<1>3. d = [kind |-> "change", key |-> groups.open, newest |-> TRUE, then |-> NoOrganization, mine |-> TRUE,
           data |-> Unknown, bindings |-> [o \in Organizations |-> Unknown]]
  BY <1>1 DEF DeskCall
<1>4. groups.open \in TaskKeys
  BY WindowFacts DEF ChangeTask, GroupsStates
<1>5. NewCall(d)
  BY <1>3, <1>4, UnknownFacts DEF NewCall, DeskCalls
<1>6. p \in PageStates /\ p.connected = page.connected /\ p.switching = page.switching /\ p.choosing = page.choosing
  BY <1>2, WindowFacts DEF PageStates
<1>7. Awaits([Window EXCEPT !.page.saving = TRUE], d) = [groups |-> groups, page |-> p, calls |-> deskCalls \union {d}]
  <2>1. PICK w : w = [groups |-> groups, page |-> p, calls |-> deskCalls]
    OBVIOUS
  <2>2. [Window EXCEPT !.page.saving = TRUE] = w
    <3>1. [Window EXCEPT !.page.saving = TRUE]
            = [groups |-> groups, page |-> [page EXCEPT !.saving = TRUE], calls |-> deskCalls]
      <4>1. PICK s : s = Window
        OBVIOUS
      <4>2. s = [groups |-> groups, page |-> page, calls |-> deskCalls]
        BY <4>1 DEF Window
      <4>3. PICK saves : saves = TRUE
        OBVIOUS
      <4>4. [s EXCEPT !.page.saving = saves]
              = [groups |-> groups, page |-> [page EXCEPT !.saving = saves], calls |-> deskCalls]
        BY <4>2
      <4> QED
        BY <4>1, <4>3, <4>4
    <3> QED
      BY <1>2, <2>1, <3>1
  <2>3. Awaits(w, d) = [groups |-> groups, page |-> p, calls |-> deskCalls \union {d}]
    BY <2>1 DEF Awaits
  <2> QED
    BY <2>2, <2>3
<1>8. /\ Shows([groups |-> groups, page |-> p, calls |-> deskCalls \union {d}])
      /\ page.connected /\ desks' = desks /\ deskConfirmed' = deskConfirmed
  BY <1>1, <1>7 DEF ChangeTask, UserMoves
<1> QED
  BY <1>5, <1>6, <1>8, ChangeAsked

\* Asking for a new task keeps the invariant.
LEMMA TaskCreated ==
  ASSUME DeskInv, NEW k \in TaskKeys, CreateTask(k)
  PROVE  DeskInv'
<1>1. PICK d : d = [DeskCall EXCEPT !.kind = "change", !.key = k]
  OBVIOUS
<1>2. d = [kind |-> "change", key |-> k, newest |-> TRUE, then |-> NoOrganization, mine |-> FALSE,
           data |-> Unknown, bindings |-> [o \in Organizations |-> Unknown]]
  BY <1>1 DEF DeskCall
<1>3. NewCall(d)
  BY <1>2, UnknownFacts DEF NewCall, DeskCalls
<1>4. Awaits(Window, d) = [groups |-> groups, page |-> page, calls |-> deskCalls \union {d}]
  BY DEF Window, Awaits
<1>5. /\ Shows([groups |-> groups, page |-> page, calls |-> deskCalls \union {d}])
      /\ page.connected /\ desks' = desks /\ deskConfirmed' = deskConfirmed
  BY <1>1, <1>4 DEF CreateTask, UserMoves
<1>6. page \in PageStates
  BY WindowFacts
<1> QED
  BY <1>3, <1>5, <1>6, ChangeAsked

\* The window once a call has ended, and with a board, or a task, in a slot
CallOver(c) == [Window EXCEPT !.calls = @ \ {c}]
WithBoard(w, o, slot) == [w EXCEPT !.groups.boards[o] = slot]
WithTask(w, k, slot) == [w EXCEPT !.groups.tasks[k] = slot]

\* A call has ended: what it was awaited for is no longer under way.
LEMMA CallEnds ==
  ASSUME DeskInv, NEW c \in deskCalls, NEW w, w = CallOver(c)
  PROVE  /\ WindowHolds(w, deskConfirmed, {}) /\ w = [groups |-> groups, page |-> page, calls |-> deskCalls \ {c}]
         /\ w.groups = groups /\ w.page = page /\ w.calls = deskCalls \ {c}
         /\ c.kind # "directory" \/ c.then = NoOrganization => Chooses(w)
<1>1. w = [groups |-> groups, page |-> page, calls |-> deskCalls \ {c}]
  BY DEF Window, CallOver
<1>2. w \in Windows /\ w.groups = groups /\ w.page = page /\ w.calls = deskCalls \ {c}
  <2>1. PICK cs : cs = deskCalls \ {c}
    OBVIOUS
  <2>2. cs \in SUBSET DeskCalls /\ groups \in GroupsStates /\ page \in PageStates
    BY <2>1, WindowFacts
  <2>3. w = [groups |-> groups, page |-> page, calls |-> cs]
    BY <1>1, <2>1
  <2>4. w \in Windows /\ w.groups = groups /\ w.page = page /\ w.calls = cs
    BY <2>2, <2>3 DEF Windows
  <2> QED
    BY <2>1, <2>4
<1>3. PICK s : s = Window
  OBVIOUS
<1>4. /\ WindowHolds(s, deskConfirmed, {}) /\ AwaitsConnected(s) /\ Chooses(s)
      /\ s.groups = groups /\ s.page = page /\ s.calls = deskCalls
  BY <1>3, WindowFacts DEF WindowHolds
<1>5. AwaitsConnected(w)
  BY <1>2, <1>4 DEF AwaitsConnected
<1>6. WindowHolds(w, deskConfirmed, {})
  BY <1>2, <1>4, <1>5, ViewChanges
<1>7. c.kind # "directory" \/ c.then = NoOrganization => Chooses(w)
  BY <1>2, <1>4 DEF Chooses, Awaited
<1> QED
  BY <1>1, <1>2, <1>6, <1>7

\* A board, or a task, is shown as it was read, or not as read.
LEMMA SlotsChange ==
  ASSUME NEW told, NEW w, WindowHolds(w, told, {}), NEW v \in Windows, v.page = w.page, v.calls = w.calls,
         v.groups.revisions = w.groups.revisions,
         \A o \in Organizations : v.groups.boards[o].phase = "ready" =>
           v.groups.boards[o] = w.groups.boards[o] \/ BoardFits(w, o, v.groups.boards[o].data, told),
         \A k \in TaskKeys : v.groups.tasks[k].phase = "ready" =>
           v.groups.tasks[k] = w.groups.tasks[k] \/ TaskFits(w, k, v.groups.tasks[k].data, told)
  PROVE  WindowHolds(v, told, {})
<1>1. WindowFits(w, told, {}) /\ AwaitsConnected(w)
  BY DEF WindowHolds
<1>2. WindowFits(v, told, {})
  <2>1. \A c \in v.calls : CallFits(v, c, told, {})
    BY <1>1 DEF WindowFits, CallFits, BoardFits, TaskFits
  <2>2. \A o \in Organizations : v.groups.boards[o].phase = "ready" => BoardFits(v, o, v.groups.boards[o].data, told)
    BY <1>1 DEF WindowFits, BoardFits
  <2>3. \A k \in TaskKeys : v.groups.tasks[k].phase = "ready" => TaskFits(v, k, v.groups.tasks[k].data, told)
    BY <1>1 DEF WindowFits, TaskFits
  <2> QED
    BY <1>1, <2>1, <2>2, <2>3 DEF WindowFits
<1>3. AwaitsConnected(v)
  BY <1>1 DEF AwaitsConnected
<1> QED
  BY <1>2, <1>3 DEF WindowHolds

\* What a read that ends, and that counts, shows: a board, or a task
LEMMA BoardShown ==
  ASSUME DeskInv, NEW c \in deskCalls, c.kind = "board", NEW slot \in Slot,
         \/ slot = groups.boards[c.key[1]]
         \/ slot.phase = "error"
         \/ c.newest /\ c.data # Unknown /\ slot.data = c.data,
         NEW w, w = CallOver(c),
         NEW v, v = WithBoard(w, c.key[1], slot),
         Shows(v), desks' = desks, deskConfirmed' = deskConfirmed
  PROVE  DeskInv'
<1>1. PICK o : o = c.key[1]
  OBVIOUS
<1>2. CallFits(Window, c, deskConfirmed, {}) /\ Window.groups = groups
  BY WindowFacts
<1>3. o \in Organizations
  BY <1>1, <1>2, KeyFacts DEF CallFits
<1>4. /\ WindowHolds(w, deskConfirmed, {}) /\ w = [groups |-> groups, page |-> page, calls |-> deskCalls \ {c}]
      /\ w.groups = groups /\ w.page = page /\ w.calls = deskCalls \ {c} /\ Chooses(w)
  BY CallEnds
<1>5. PICK boards : boards = [groups.boards EXCEPT ![o] = slot]
  OBVIOUS
<1>6. PICK g : g = [groups EXCEPT !.boards = boards]
  OBVIOUS
<1>7. v = [groups |-> g, page |-> page, calls |-> deskCalls \ {c}]
  BY <1>1, <1>4, <1>5, <1>6, WindowFacts DEF GroupsStates, WithBoard, WithTask
<1>8. boards \in [Organizations -> Slot] /\ boards[o] = slot /\ \A p \in Organizations : p # o => boards[p] = groups.boards[p]
  BY <1>3, <1>5, WindowFacts DEF GroupsStates
<1>9. g \in GroupsStates /\ g.boards = boards /\ g.tasks = groups.tasks /\ g.revisions = groups.revisions
  BY <1>6, <1>8, WindowFacts DEF GroupsStates
<1>10. v \in Windows /\ v.groups = g /\ v.page = page /\ v.calls = deskCalls \ {c}
  <2>1. PICK cs : cs = deskCalls \ {c}
    OBVIOUS
  <2>2. cs \in SUBSET DeskCalls /\ page \in PageStates
    BY <2>1, WindowFacts
  <2>3. v = [groups |-> g, page |-> page, calls |-> cs]
    BY <1>7, <2>1
  <2>4. v \in Windows /\ v.groups = g /\ v.page = page /\ v.calls = cs
    BY <1>9, <2>2, <2>3 DEF Windows
  <2> QED
    BY <2>1, <2>4
<1>11. WindowHolds(v, deskConfirmed, {})
  <2>1. slot.phase = "ready" => slot = groups.boards[o] \/ BoardFits(w, o, slot.data, deskConfirmed)
    BY <1>1, <1>2, <1>4 DEF CallFits, BoardFits
  <2>2. \A p \in Organizations : v.groups.boards[p].phase = "ready" =>
          v.groups.boards[p] = w.groups.boards[p] \/ BoardFits(w, p, v.groups.boards[p].data, deskConfirmed)
    <3>1. v.groups.boards = boards /\ w.groups.boards = groups.boards
      BY <1>4, <1>9, <1>10
    <3> SUFFICES ASSUME NEW p \in Organizations, boards[p].phase = "ready"
                 PROVE  boards[p] = groups.boards[p] \/ BoardFits(w, p, boards[p].data, deskConfirmed)
      BY <3>1
    <3>2. CASE p = o
      BY <1>8, <2>1, <3>2
    <3>3. CASE p # o
      BY <1>8, <3>3
    <3> QED
      BY <3>2, <3>3
  <2>3. v.groups.tasks = w.groups.tasks /\ v.groups.revisions = w.groups.revisions /\ v.page = w.page
        /\ v.calls = w.calls
    BY <1>4, <1>9, <1>10
  <2> QED
    BY <1>4, <1>10, <2>2, <2>3, SlotsChange
<1>12. Chooses(v)
  BY <1>4, <1>10 DEF Chooses, Awaited
<1> QED
  BY <1>11, <1>12, WindowFacts, Shown

\* The answer to the read of a task shows what was asked for.
LEMMA TaskShown ==
  ASSUME DeskInv, NEW c \in deskCalls, c.kind = "task", NEW slot \in Slot,
         \/ slot = groups.tasks[c.key]
         \/ slot.phase = "error"
         \/ c.newest /\ c.data # Unknown /\ slot.data = c.data,
         NEW w, w = CallOver(c),
         NEW v, v = WithTask(w, c.key, slot),
         Shows(v), desks' = desks, deskConfirmed' = deskConfirmed
  PROVE  DeskInv'
<1>1. PICK k : k = c.key
  OBVIOUS
<1>2. CallFits(Window, c, deskConfirmed, {}) /\ Window.groups = groups
  BY WindowFacts
<1>3. k \in TaskKeys
  BY <1>1, <1>2 DEF CallFits
<1>4. /\ WindowHolds(w, deskConfirmed, {}) /\ w = [groups |-> groups, page |-> page, calls |-> deskCalls \ {c}]
      /\ w.groups = groups /\ w.page = page /\ w.calls = deskCalls \ {c} /\ Chooses(w)
  BY CallEnds
<1>5. PICK tasks : tasks = [groups.tasks EXCEPT ![k] = slot]
  OBVIOUS
<1>6. PICK g : g = [groups EXCEPT !.tasks = tasks]
  OBVIOUS
<1>7. v = [groups |-> g, page |-> page, calls |-> deskCalls \ {c}]
  BY <1>1, <1>4, <1>5, <1>6, WindowFacts DEF GroupsStates, WithBoard, WithTask
<1>8. tasks \in [TaskKeys -> Slot] /\ tasks[k] = slot /\ \A l \in TaskKeys : l # k => tasks[l] = groups.tasks[l]
  BY <1>3, <1>5, WindowFacts DEF GroupsStates
<1>9. g \in GroupsStates /\ g.boards = groups.boards /\ g.tasks = tasks /\ g.revisions = groups.revisions
  BY <1>6, <1>8, WindowFacts DEF GroupsStates
<1>10. v \in Windows /\ v.groups = g /\ v.page = page /\ v.calls = deskCalls \ {c}
  <2>1. PICK cs : cs = deskCalls \ {c}
    OBVIOUS
  <2>2. cs \in SUBSET DeskCalls /\ page \in PageStates
    BY <2>1, WindowFacts
  <2>3. v = [groups |-> g, page |-> page, calls |-> cs]
    BY <1>7, <2>1
  <2>4. v \in Windows /\ v.groups = g /\ v.page = page /\ v.calls = cs
    BY <1>9, <2>2, <2>3 DEF Windows
  <2> QED
    BY <2>1, <2>4
<1>11. WindowHolds(v, deskConfirmed, {})
  <2>1. slot.phase = "ready" => slot = groups.tasks[k] \/ TaskFits(w, k, slot.data, deskConfirmed)
    BY <1>1, <1>2, <1>4 DEF CallFits, TaskFits
  <2>2. \A l \in TaskKeys : v.groups.tasks[l].phase = "ready" =>
          v.groups.tasks[l] = w.groups.tasks[l] \/ TaskFits(w, l, v.groups.tasks[l].data, deskConfirmed)
    <3>1. v.groups.tasks = tasks /\ w.groups.tasks = groups.tasks
      BY <1>4, <1>9, <1>10
    <3> SUFFICES ASSUME NEW l \in TaskKeys, tasks[l].phase = "ready"
                 PROVE  tasks[l] = groups.tasks[l] \/ TaskFits(w, l, tasks[l].data, deskConfirmed)
      BY <3>1
    <3>2. CASE l = k
      BY <1>8, <2>1, <3>2
    <3>3. CASE l # k
      BY <1>8, <3>3
    <3> QED
      BY <3>2, <3>3
  <2>3. v.groups.boards = w.groups.boards /\ v.groups.revisions = w.groups.revisions /\ v.page = w.page
        /\ v.calls = w.calls
    BY <1>4, <1>9, <1>10
  <2> QED
    BY <1>4, <1>10, <2>2, <2>3, SlotsChange
<1>12. Chooses(v)
  BY <1>4, <1>10 DEF Chooses, Awaited
<1> QED
  BY <1>11, <1>12, WindowFacts, Shown

\* An answer to a read keeps the invariant.
LEMMA ReadEnds ==
  ASSUME DeskInv, NEW c \in deskCalls, ReadArrives(c)
  PROVE  DeskInv'
<1>1. PICK w : w = CallOver(c)
  OBVIOUS
<1>2. c.kind \in {"board", "task"} /\ c.data # Unknown /\ desks' = desks /\ deskConfirmed' = deskConfirmed
  BY DEF ReadArrives
<1>3. w.groups = groups
  BY <1>1, CallEnds
<1>4. CallFits(Window, c, deskConfirmed, {}) /\ groups \in GroupsStates /\ c.data \in Int
  BY WindowFacts DEF DeskCalls, Ages, Unknown
<1>5. \A slot \in Slot : Succeeded(slot, c) \in Slot /\ (Succeeded(slot, c) = slot \/ (c.newest /\ Succeeded(slot, c).data = c.data))
  BY <1>4 DEF Succeeded, Slot
<1>6. CASE c.kind = "board"
  <2>1. PICK slot : slot = Succeeded(groups.boards[c.key[1]], c)
    OBVIOUS
  <2>2. PICK v : v = WithBoard(w, c.key[1], slot)
    OBVIOUS
  <2>3. c.key[1] \in Organizations
    BY <1>4, <1>6, KeyFacts DEF CallFits
  <2>4. groups.boards[c.key[1]] \in Slot
    BY <1>4, <2>3 DEF GroupsStates
  <2>5. slot \in Slot /\ (slot = groups.boards[c.key[1]] \/ (c.newest /\ slot.data = c.data))
    BY <1>5, <2>1, <2>4
  <2>6. v = [w EXCEPT !.groups.boards[c.key[1]] = Succeeded(@, c)]
    BY <1>3, <2>1, <2>2 DEF WithBoard
  <2>7. Shows(v)
    BY <1>1, <1>6, <2>6 DEF ReadArrives, CallOver
  <2> QED
    BY <1>1, <1>2, <1>6, <2>2, <2>5, <2>7, BoardShown
<1>7. CASE c.kind = "task"
  <2>1. PICK slot : slot = Succeeded(groups.tasks[c.key], c)
    OBVIOUS
  <2>2. PICK v : v = WithTask(w, c.key, slot)
    OBVIOUS
  <2>3. groups.tasks[c.key] \in Slot
    BY <1>4, <1>7 DEF GroupsStates, CallFits
  <2>4. slot \in Slot /\ (slot = groups.tasks[c.key] \/ (c.newest /\ slot.data = c.data))
    BY <1>5, <2>1, <2>3
  <2>5. v = [w EXCEPT !.groups.tasks[c.key] = Succeeded(@, c)]
    BY <1>3, <2>1, <2>2 DEF WithTask
  <2>6. Shows(v)
    BY <1>1, <1>7, <2>5 DEF ReadArrives, CallOver
  <2> QED
    BY <1>1, <1>2, <1>7, <2>2, <2>4, <2>6, TaskShown
<1> QED
  BY <1>2, <1>6, <1>7

\* The window once a change is no longer being saved, once an organization is selected
\* after a switch, and once the directory could not be read
Unsaved(w, c) == [w EXCEPT !.page.saving = @ /\ ~c.mine]
SelectsIn(w, then) ==
  IF then = NoOrganization THEN w
  ELSE [w EXCEPT !.groups.selected = then, !.page.choosing = NoOrganization]
Unlisted(w, c) == IF ~c.newest THEN w ELSE [w EXCEPT !.page.directory = "error", !.page.listed = FALSE]

\* What is read again once a change is saved.
LEMMA ChangeIsSaved ==
  ASSUME DeskInv, NEW c \in deskCalls, NEW w, w = CallOver(c), NEW v, v = Unsaved(w, c)
  PROVE  /\ v \in Windows /\ v.groups = groups /\ v.calls = deskCalls \ {c} /\ AwaitsConnected(v)
         /\ v.page.connected = page.connected /\ v.page.switching = page.switching
         /\ v.page.choosing = page.choosing
<1>1. /\ WindowHolds(w, deskConfirmed, {}) /\ w = [groups |-> groups, page |-> page, calls |-> deskCalls \ {c}]
      /\ w.groups = groups /\ w.page = page /\ w.calls = deskCalls \ {c}
  BY CallEnds
<1>2. PICK p : p = [page EXCEPT !.saving = @ /\ ~c.mine]
  OBVIOUS
<1>3. PICK cs : cs = deskCalls \ {c}
  OBVIOUS
<1>4. v = [groups |-> groups, page |-> p, calls |-> cs]
  BY <1>1, <1>2, <1>3 DEF Unsaved
<1>5. p \in PageStates /\ p.connected = page.connected /\ p.switching = page.switching /\ p.choosing = page.choosing
  BY <1>2, WindowFacts DEF PageStates
<1>6. groups \in GroupsStates /\ cs \in SUBSET DeskCalls
  BY <1>3, WindowFacts
<1>7. v \in Windows /\ v.groups = groups /\ v.page = p /\ v.calls = cs
  BY <1>4, <1>5, <1>6 DEF Windows
<1>8. AwaitsConnected(v)
  BY <1>1, <1>3, <1>5, <1>7 DEF AwaitsConnected, WindowHolds
<1> QED
  BY <1>3, <1>5, <1>7, <1>8

\* What is read again once an organization is chosen.
LEMMA OrganizationIsSelected ==
  ASSUME DeskInv, NEW w, WindowHolds(w, deskConfirmed, {}), NEW then \in Organizations \union {NoOrganization},
         then = NoOrganization => Chooses(w), NEW v, v = SelectsIn(w, then), Shows(v), desks' = desks,
         deskConfirmed' = deskConfirmed
  PROVE  DeskInv'
<1>1. CASE then = NoOrganization
  <2>1. v = w
    BY <1>1 DEF SelectsIn
  <2> QED
    BY <1>1, <2>1, WindowFacts, Shown
<1>2. CASE then # NoOrganization
  <2>1. w \in Windows /\ AwaitsConnected(w) /\ w = [groups |-> w.groups, page |-> w.page, calls |-> w.calls]
    BY OfParts DEF WindowHolds
  <2>2. PICK g : g = [w.groups EXCEPT !.selected = then]
    OBVIOUS
  <2>3. PICK p : p = [w.page EXCEPT !.choosing = NoOrganization]
    OBVIOUS
  <2>4. v = [groups |-> g, page |-> p, calls |-> w.calls]
    BY <1>2, <2>1, <2>2, <2>3 DEF SelectsIn
  <2>5. /\ g \in GroupsStates /\ g.revisions = w.groups.revisions /\ g.boards = w.groups.boards
        /\ g.tasks = w.groups.tasks
    BY <2>1, <2>2, WindowTyped DEF GroupsStates
  <2>6. p \in PageStates /\ p.connected = w.page.connected /\ p.switching = w.page.switching
        /\ p.choosing = NoOrganization
    BY <2>1, <2>3, WindowTyped DEF PageStates
  <2>7. w.calls \in SUBSET DeskCalls
    BY <2>1, WindowTyped
  <2>8. v \in Windows /\ v.groups = g /\ v.page = p /\ v.calls = w.calls
    BY <2>4, <2>5, <2>6, <2>7 DEF Windows
  <2>9. AwaitsConnected(v) /\ Chooses(v)
    BY <2>1, <2>6, <2>8 DEF AwaitsConnected, Chooses
  <2>10. WindowHolds(v, deskConfirmed, {})
    BY <2>5, <2>8, <2>9, ViewChanges
  <2> QED
    BY <2>9, <2>10, WindowFacts, Shown
<1> QED
  BY <1>1, <1>2

\* An answer to the directory's call keeps the invariant.
LEMMA DirectoryEnds ==
  ASSUME DeskInv, NEW c \in deskCalls, DirectoryArrives(c)
  PROVE  DeskInv'
<1>1. PICK w : w = CallOver(c)
  OBVIOUS
<1>2. PICK read : read = IF c.newest THEN SyncsDirectory(w, c) ELSE w
  OBVIOUS
<1>3. PICK v : v = SelectsIn(read, c.then)
  OBVIOUS
<1>4. c.kind = "directory" /\ c.data # Unknown /\ Shows(v) /\ desks' = desks /\ deskConfirmed' = deskConfirmed
  BY <1>1, <1>2, <1>3 DEF DirectoryArrives, CallOver, SelectsIn
<1>5. /\ WindowHolds(w, deskConfirmed, {}) /\ (c.then = NoOrganization => Chooses(w))
  BY <1>1, CallEnds
<1>6. /\ c \in DeskCalls /\ CallFits(Window, c, deskConfirmed, {})
      /\ c.then \in Organizations \union {NoOrganization}
  BY WindowFacts DEF DeskCalls
<1>7. WindowHolds(read, deskConfirmed, {}) /\ (c.then = NoOrganization => Chooses(read))
  <2>1. CASE c.newest
    <3>1. read = SyncsDirectory(w, c)
      BY <1>2, <2>1
    <3>2. \A o \in Organizations : c.bindings[o] <= desks[o].binding
      BY <1>4, <1>6 DEF CallFits
    <3>3. /\ WindowHolds(read, deskConfirmed, {}) /\ Keeps(w, read)
          /\ read.page.switching = w.page.switching /\ read.page.choosing = w.page.choosing
      BY <1>5, <1>6, <3>1, <3>2, DirectoryIsTaken
    <3> QED
      BY <1>5, <3>3, StillChooses
  <2>2. CASE ~c.newest
    <3>1. read = w
      BY <1>2, <2>2
    <3> QED
      BY <1>5, <3>1
  <2> QED
    BY <2>1, <2>2
<1> QED
  BY <1>3, <1>4, <1>6, <1>7, OrganizationIsSelected

\* The user is told of a change: all that is shown of its task and of its board has to be
\* read again.
LEMMA ChangeIsTold ==
  ASSUME DeskInv, NEW c \in deskCalls, c.kind = "change", c.data # Unknown, NEW told,
         told = [deskConfirmed EXCEPT ![c.key] = IF c.data > @ THEN c.data ELSE @],
         NEW w \in Windows, w.groups = groups, w.calls \subseteq deskCalls, AwaitsConnected(w)
  PROVE  WindowHolds(w, told, {c.key, BoardKey(c.key[1])}) /\ DesksHold(told)
<1> DEFINE again == {c.key, BoardKey(c.key[1])}
<1>1. /\ c.key \in TaskKeys /\ c.key[1] \in Organizations /\ c.data <= desks[c.key[1]].age
      /\ c.data \in Nat
  BY WindowFacts, KeyFacts DEF CallFits, DeskCalls, Ages
<1>2. deskConfirmed \in [TaskKeys -> Nat]
  BY DEF DeskInv, Confirmations
<1>3. /\ told \in [TaskKeys -> Nat] /\ \A k \in TaskKeys : k # c.key => told[k] = deskConfirmed[k]
      /\ told[c.key] = deskConfirmed[c.key] \/ told[c.key] = c.data
  BY <1>1, <1>2
<1>4. DesksHold(told)
  <2>1. \A k \in TaskKeys : told[k] <= desks[k[1]].age
    BY <1>1, <1>3, WindowFacts DEF DesksHold
  <2> QED
    BY <1>3, <2>1, WindowFacts DEF DesksHold, Confirmations
<1>5. PICK s : s = Window
  OBVIOUS
<1>6. WindowFits(s, deskConfirmed, {}) /\ s.groups = groups /\ s.calls = deskCalls
  BY <1>5, WindowFacts DEF WindowHolds
<1>7. \A o \in Organizations : \A age : BoardKey(o) \notin again /\ BoardFits(s, o, age, deskConfirmed) => BoardFits(w, o, age, told)
  BY <1>3, <1>6 DEF BoardFits
<1>8. \A k \in TaskKeys : \A age : k \notin again /\ TaskFits(s, k, age, deskConfirmed) => TaskFits(w, k, age, told)
  BY <1>3, <1>6 DEF TaskFits
<1>9. WindowFits(w, told, again)
  <2>1. ASSUME NEW d \in w.calls PROVE CallFits(w, d, told, again)
    <3>1. CallFits(s, d, deskConfirmed, {})
      BY <1>6 DEF WindowFits
    <3>2. d.kind = "board" => d.key[1] \in Organizations /\ d.key = BoardKey(d.key[1])
      BY <3>1, KeyFacts DEF CallFits
    <3> HIDE DEF again
    <3> QED
      BY <1>7, <1>8, <3>1, <3>2 DEF CallFits
  <2>2. \A o \in Organizations :
          w.groups.boards[o].phase = "ready" /\ BoardKey(o) \notin again
            => BoardFits(w, o, w.groups.boards[o].data, told)
    BY <1>6, <1>7 DEF WindowFits
  <2>3. \A k \in TaskKeys \ again :
          w.groups.tasks[k].phase = "ready" => TaskFits(w, k, w.groups.tasks[k].data, told)
    BY <1>6, <1>8 DEF WindowFits
  <2> HIDE DEF again
  <2> QED
    BY <1>6, <2>1, <2>2, <2>3 DEF WindowFits
<1> QED
  BY <1>4, <1>9 DEF WindowHolds

\* An answer to a change keeps the invariant.
LEMMA ChangeEnds ==
  ASSUME DeskInv, NEW c \in deskCalls, ChangeArrives(c)
  PROVE  DeskInv'
<1>1. PICK told : told = [deskConfirmed EXCEPT ![c.key] = IF c.data > @ THEN c.data ELSE @]
  OBVIOUS
<1>2. PICK w0 : w0 = CallOver(c)
  OBVIOUS
<1>3. PICK w : w = Unsaved(w0, c)
  OBVIOUS
<1>4. PICK u : u = OpensTask(w, c.key)
  OBVIOUS
<1>5. PICK v : v = ReadsBoard(u, c.key[1])
  OBVIOUS
<1>6. c.kind = "change" /\ c.data # Unknown /\ Shows(v) /\ desks' = desks /\ deskConfirmed' = told
  <2>1. [Window EXCEPT !.calls = @ \ {c}, !.page.saving = @ /\ ~c.mine] = w
    BY <1>2, <1>3 DEF CallOver, Unsaved
  <2> QED
    BY <1>1, <1>4, <1>5, <2>1 DEF ChangeArrives, AfterChange
<1>7. /\ w \in Windows /\ w.groups = groups /\ w.calls = deskCalls \ {c} /\ AwaitsConnected(w)
      /\ w.page.connected = page.connected /\ w.page.switching = page.switching
      /\ w.page.choosing = page.choosing
  BY <1>2, <1>3, ChangeIsSaved
<1>8. WindowHolds(w, told, {c.key, BoardKey(c.key[1])}) /\ DesksHold(told)
  <2>1. w.calls \subseteq deskCalls
    BY <1>7
  <2> QED
    BY <1>1, <1>6, <1>7, <2>1, ChangeIsTold
<1>9. c.key \in TaskKeys /\ c.key[1] \in Organizations /\ w.page.connected
  BY <1>6, <1>7, WindowFacts, KeyFacts DEF CallFits
<1>10. PICK k : k = c.key
  OBVIOUS
<1>11. PICK again : again = {k, BoardKey(k[1])}
  OBVIOUS
<1>12. /\ WindowHolds(u, told, again \ {k}) /\ u.page = w.page /\ Keeps(w, u)
  <2>1. WindowHolds(w, told, again) /\ k \in TaskKeys /\ u = OpensTask(w, k)
    BY <1>4, <1>8, <1>9, <1>10, <1>11
  <2>2. /\ WindowHolds(u, told, IF w.page.connected THEN again \ {k} ELSE again)
        /\ u.page = w.page /\ Keeps(w, u)
    BY <2>1, TaskIsOpened
  <2> QED
    BY <1>9, <2>2
<1>13. /\ WindowHolds(v, told, {}) /\ v.page = u.page /\ Keeps(u, v)
  <2>1. PICK rest : rest = again \ {k}
    OBVIOUS
  <2>2. WindowHolds(u, told, rest) /\ k[1] \in Organizations /\ v = ReadsBoard(u, k[1])
    BY <1>5, <1>9, <1>10, <1>12, <2>1
  <2>3. /\ WindowHolds(v, told, IF u.page.connected THEN rest \ {BoardKey(k[1])} ELSE rest)
        /\ v.page = u.page /\ Keeps(u, v)
    BY <2>2, BoardIsRead
  <2>4. u.page.connected /\ rest \ {BoardKey(k[1])} = {}
    BY <1>9, <1>11, <1>12, <2>1
  <2> QED
    BY <2>3, <2>4
<1>14. Chooses(v)
  <2>1. Chooses(w0) /\ w0.page = page /\ w0.calls = deskCalls \ {c}
    BY <1>2, <1>6, CallEnds
  <2>2. Chooses(w)
    BY <1>7, <2>1 DEF Chooses, Awaited
  <2>3. Chooses(u)
    BY <1>12, <2>2, StillChooses
  <2> QED
    BY <1>13, <2>3, StillChooses
<1> QED
  BY <1>6, <1>8, <1>13, <1>14, Shown

\* A refused read keeps the invariant.
LEMMA ReadFails ==
  ASSUME DeskInv, NEW c \in deskCalls, CallFails(c), c.kind \in {"board", "task"}
  PROVE  DeskInv'
<1>1. PICK w : w = CallOver(c)
  OBVIOUS
<1>2. desks' = desks /\ deskConfirmed' = deskConfirmed
  BY DEF CallFails
<1>3. w.groups = groups
  BY <1>1, CallEnds
<1>4. CallFits(Window, c, deskConfirmed, {}) /\ groups \in GroupsStates
  BY WindowFacts
<1>5. \A slot \in Slot : FailedRead(slot, c) \in Slot /\ (FailedRead(slot, c) = slot \/ FailedRead(slot, c).phase = "error")
  BY DEF FailedRead, Slot, Unknown
<1>6. CASE c.kind = "board"
  <2>1. PICK slot : slot = FailedRead(groups.boards[c.key[1]], c)
    OBVIOUS
  <2>2. PICK v : v = WithBoard(w, c.key[1], slot)
    OBVIOUS
  <2>3. c.key[1] \in Organizations
    BY <1>4, <1>6, KeyFacts DEF CallFits
  <2>4. groups.boards[c.key[1]] \in Slot
    BY <1>4, <2>3 DEF GroupsStates
  <2>5. slot \in Slot /\ (slot = groups.boards[c.key[1]] \/ slot.phase = "error")
    BY <1>5, <2>1, <2>4
  <2>6. v = [w EXCEPT !.groups.boards[c.key[1]] = FailedRead(@, c)]
    BY <1>3, <2>1, <2>2 DEF WithBoard
  <2>7. Shows(v)
    BY <1>1, <1>6, <2>6 DEF CallFails, CallOver
  <2> QED
    BY <1>1, <1>2, <1>6, <2>2, <2>5, <2>7, BoardShown
<1>7. CASE c.kind = "task"
  <2>1. PICK slot : slot = FailedRead(groups.tasks[c.key], c)
    OBVIOUS
  <2>2. PICK v : v = WithTask(w, c.key, slot)
    OBVIOUS
  <2>3. groups.tasks[c.key] \in Slot
    BY <1>4, <1>7 DEF GroupsStates, CallFits
  <2>4. slot \in Slot /\ (slot = groups.tasks[c.key] \/ slot.phase = "error")
    BY <1>5, <2>1, <2>3
  <2>5. v = [w EXCEPT !.groups.tasks[c.key] = FailedRead(@, c)]
    BY <1>3, <2>1, <2>2 DEF WithTask
  <2>6. Shows(v)
    BY <1>1, <1>7, <2>5 DEF CallFails, CallOver
  <2> QED
    BY <1>1, <1>2, <1>7, <2>2, <2>4, <2>6, TaskShown
<1> QED
  BY <1>6, <1>7

\* A refused change keeps the invariant.
LEMMA ChangeFails ==
  ASSUME DeskInv, NEW c \in deskCalls, CallFails(c), c.kind = "change"
  PROVE  DeskInv'
<1>1. PICK w : w = CallOver(c)
  OBVIOUS
<1>2. PICK v : v = Unsaved(w, c)
  OBVIOUS
<1>3. Shows(v) /\ desks' = desks /\ deskConfirmed' = deskConfirmed
  BY <1>1, <1>2 DEF CallFails, CallOver, Unsaved
<1>4. WindowHolds(w, deskConfirmed, {}) /\ Chooses(w) /\ w.groups = groups /\ w.page = page /\ w.calls = deskCalls \ {c}
  BY <1>1, CallEnds
<1>5. /\ v \in Windows /\ v.groups = groups /\ v.calls = deskCalls \ {c} /\ AwaitsConnected(v)
      /\ v.page.switching = page.switching /\ v.page.choosing = page.choosing
  BY <1>1, <1>2, ChangeIsSaved
<1>6. WindowHolds(v, deskConfirmed, {})
  BY <1>4, <1>5, ViewChanges
<1>7. Chooses(v)
  BY <1>4, <1>5 DEF Chooses, Awaited
<1> QED
  BY <1>3, <1>6, <1>7, WindowFacts, Shown

\* A refused directory call keeps the invariant.
LEMMA DirectoryFails ==
  ASSUME DeskInv, NEW c \in deskCalls, CallFails(c), c.kind = "directory"
  PROVE  DeskInv'
<1>1. PICK w : w = CallOver(c)
  OBVIOUS
<1>2. PICK read : read = Unlisted(w, c)
  OBVIOUS
<1>3. PICK v : v = SelectsIn(read, c.then)
  OBVIOUS
<1>4. Shows(v) /\ desks' = desks /\ deskConfirmed' = deskConfirmed
  BY <1>1, <1>2, <1>3 DEF CallFails, CallOver, Unlisted, SelectsIn
<1>5. /\ WindowHolds(w, deskConfirmed, {}) /\ (c.then = NoOrganization => Chooses(w))
      /\ w = [groups |-> groups, page |-> page, calls |-> deskCalls \ {c}]
      /\ w.groups = groups /\ w.page = page /\ w.calls = deskCalls \ {c}
  BY <1>1, CallEnds
<1>6. c.then \in Organizations \union {NoOrganization}
  BY WindowFacts DEF DeskCalls
<1>7. WindowHolds(read, deskConfirmed, {}) /\ (c.then = NoOrganization => Chooses(read))
  <2>1. CASE c.newest
    <3>1. PICK p : p = [page EXCEPT !.directory = "error", !.listed = FALSE]
      OBVIOUS
    <3>2. /\ p \in PageStates /\ p.connected = page.connected /\ p.switching = page.switching
          /\ p.choosing = page.choosing
      BY <3>1, WindowFacts DEF PageStates
    <3>3. PICK no : no = FALSE
      OBVIOUS
    <3>4. read = [w EXCEPT !.page.directory = "error", !.page.listed = no]
      BY <1>2, <2>1, <3>3 DEF Unlisted
    <3>5. p = [page EXCEPT !.directory = "error", !.listed = no]
      BY <3>1, <3>3
    <3>6. read = [groups |-> groups, page |-> p, calls |-> deskCalls \ {c}]
      BY <1>5, <3>4, <3>5
    <3>7. PICK cs : cs = deskCalls \ {c}
      OBVIOUS
    <3>8. cs \in SUBSET DeskCalls /\ groups \in GroupsStates
      BY <3>7, WindowFacts
    <3>9. read = [groups |-> groups, page |-> p, calls |-> cs]
      BY <3>6, <3>7
    <3>10. read \in Windows /\ read.groups = groups /\ read.page = p /\ read.calls = w.calls
      BY <1>5, <3>2, <3>7, <3>8, <3>9 DEF Windows
    <3>11. AwaitsConnected(read)
      BY <1>5, <3>2, <3>10 DEF WindowHolds, AwaitsConnected
    <3>12. WindowHolds(read, deskConfirmed, {})
      BY <1>5, <3>10, <3>11, ViewChanges
    <3>13. Keeps(w, read)
      BY <3>10 DEF Keeps
    <3> QED
      BY <1>5, <3>2, <3>10, <3>12, <3>13, StillChooses
  <2>2. CASE ~c.newest
    <3>1. read = w
      BY <1>2, <2>2 DEF Unlisted
    <3> QED
      BY <1>5, <3>1
  <2> QED
    BY <2>1, <2>2
<1> QED
  BY <1>3, <1>4, <1>6, <1>7, OrganizationIsSelected

\* A switch ends, and the selection that began it waits for the directory.
SwitchedTo(w, to) == [w EXCEPT !.page.switching = to]
SpaceIs(w, o) == [w EXCEPT !.page.space = o]
ChoosingIs(w, o) == [w EXCEPT !.page.choosing = o]
\* A change of the Space that is shown keeps the invariant.
LEMMA SpaceChanges ==
  ASSUME NEW told, NEW w, WindowHolds(w, told, {}), NEW o \in Organizations \union {NoOrganization},
         NEW v, v = SpaceIs(w, o)
  PROVE  /\ WindowHolds(v, told, {}) /\ Keeps(w, v) /\ v.page.switching = w.page.switching
         /\ v.page.choosing = w.page.choosing /\ v.page.connected = w.page.connected
<1>1. w \in Windows /\ AwaitsConnected(w) /\ w = [groups |-> w.groups, page |-> w.page, calls |-> w.calls]
  BY OfParts DEF WindowHolds
<1>2. PICK p : p = [w.page EXCEPT !.space = o]
  OBVIOUS
<1>3. p \in PageStates /\ p.connected = w.page.connected /\ p.switching = w.page.switching
      /\ p.choosing = w.page.choosing
  BY <1>1, <1>2, WindowTyped DEF PageStates
<1>4. v = [groups |-> w.groups, page |-> p, calls |-> w.calls]
  BY <1>1, <1>2 DEF SpaceIs
<1>5. w.groups \in GroupsStates /\ w.calls \in SUBSET DeskCalls
  BY <1>1, WindowTyped
<1>6. v \in Windows /\ v.groups = w.groups /\ v.page = p /\ v.calls = w.calls
  BY <1>3, <1>4, <1>5 DEF Windows
<1>7. AwaitsConnected(v) /\ Keeps(w, v)
  BY <1>1, <1>3, <1>6 DEF AwaitsConnected, Keeps
<1>8. WindowHolds(v, told, {})
  BY <1>6, <1>7, ViewChanges
<1> QED
  BY <1>3, <1>6, <1>7, <1>8

\* The end of a switch keeps the invariant.
LEMMA SwitchIsOver ==
  ASSUME DeskInv, SwitchEnds
  PROVE  DeskInv'
<1>1. PICK w : w = SwitchedTo(Window, NoOrganization)
  OBVIOUS
<1>2. PICK read : read = RefreshesDirectory(w, NoOrganization)
  OBVIOUS
<1>3. page.switching # NoOrganization /\ desks' = desks /\ deskConfirmed' = deskConfirmed
  BY DEF SwitchEnds
<1>4. PICK p : p = [page EXCEPT !.switching = NoOrganization]
  OBVIOUS
<1>5. /\ p \in PageStates /\ p.connected = page.connected /\ p.switching = NoOrganization
      /\ p.choosing = page.choosing
  BY <1>4, WindowFacts DEF PageStates
<1>6. w = [groups |-> groups, page |-> p, calls |-> deskCalls]
  BY <1>1, <1>4 DEF SwitchedTo, Window
<1>7. w \in Windows /\ w.groups = groups /\ w.page = p /\ w.calls = deskCalls
  BY <1>5, <1>6, WindowFacts DEF Windows
<1>8. PICK s : s = Window
  OBVIOUS
<1>9. /\ WindowHolds(s, deskConfirmed, {}) /\ AwaitsConnected(s) /\ Chooses(s)
      /\ s.groups = groups /\ s.page = page /\ s.calls = deskCalls
  BY <1>8, WindowFacts DEF WindowHolds
<1>10. page.connected
  BY <1>3, <1>9 DEF AwaitsConnected
<1>11. AwaitsConnected(w)
  BY <1>5, <1>7, <1>9 DEF AwaitsConnected
<1>12. WindowHolds(w, deskConfirmed, {})
  BY <1>7, <1>9, <1>11, ViewChanges
<1>13. /\ WindowHolds(read, deskConfirmed, {}) /\ Keeps(w, read) /\ read.page.connected
       /\ read.page.switching = NoOrganization /\ read.page.choosing = page.choosing
  <2>1. NoOrganization \in Organizations \union {NoOrganization}
    OBVIOUS
  <2>2. /\ WindowHolds(read, deskConfirmed, {}) /\ Keeps(w, read)
        /\ read.page.connected = w.page.connected /\ read.page.switching = w.page.switching
        /\ read.page.choosing = w.page.choosing
    BY <1>2, <1>12, <2>1, DirectoryIsRead
  <2>3. w.page.connected = page.connected /\ w.page.switching = NoOrganization /\ w.page.choosing = page.choosing
    BY <1>5, <1>7
  <2> QED
    BY <1>10, <2>2, <2>3
<1>14. page.choosing \in Organizations \union {NoOrganization} /\ page.switching \in Organizations \union {NoOrganization, "header"}
  BY WindowFacts DEF PageStates
<1>15. CASE page.switching # "header" /\ Shows(RefreshesDirectory(SpaceIs(read, page.switching), page.choosing))
  <2>1. PICK u : u = SpaceIs(read, page.switching)
    OBVIOUS
  <2>2. PICK v : v = RefreshesDirectory(u, page.choosing)
    OBVIOUS
  <2>3. page.switching \in Organizations \union {NoOrganization}
    BY <1>14, <1>15
  <2>4. /\ WindowHolds(u, deskConfirmed, {}) /\ u.page.switching = read.page.switching
        /\ u.page.choosing = read.page.choosing /\ u.page.connected = read.page.connected
    <3>1. WindowHolds(read, deskConfirmed, {})
      BY <1>13
    <3> QED
      BY <2>1, <2>3, <3>1, SpaceChanges
  <2>5. u.page.connected
    BY <1>13, <2>4
  <2>6. /\ WindowHolds(v, deskConfirmed, {}) /\ v.page.choosing = u.page.choosing
        /\ Awaited(v, page.choosing)
    BY <1>14, <2>2, <2>4, <2>5, DirectoryIsRead
  <2>7. Chooses(v)
    BY <1>13, <2>4, <2>6 DEF Chooses
  <2>8. Shows(v)
    BY <1>15, <2>1, <2>2
  <2> QED
    BY <1>3, <2>6, <2>7, <2>8, WindowFacts, Shown
<1>16. CASE page.switching = "header" /\ \E o \in Organizations \union {NoOrganization} : Shows(SpaceIs(read, o))
  <2>1. PICK o \in Organizations \union {NoOrganization} : Shows(SpaceIs(read, o))
    BY <1>16
  <2>2. PICK v : v = SpaceIs(read, o)
    OBVIOUS
  <2>3. /\ WindowHolds(v, deskConfirmed, {}) /\ Keeps(read, v) /\ v.page.choosing = read.page.choosing
    BY <1>13, <2>2, SpaceChanges
  <2>4. page.choosing # NoOrganization => page.choosing # "header"
    BY <1>14, GroupsAssumption
  <2>5. page.choosing # NoOrganization => Awaited(s, page.choosing)
    BY <1>9, <1>16, <2>4 DEF Chooses
  <2>6. Chooses(v)
    BY <1>7, <1>9, <1>13, <2>3, <2>5 DEF Chooses, Awaited, Keeps
  <2>7. Shows(v)
    BY <2>1, <2>2
  <2> QED
    BY <1>3, <2>3, <2>6, <2>7, WindowFacts, Shown
<1>17. CASE Shows(ChoosingIs(w, IF page.switching = "header" THEN page.choosing ELSE NoOrganization))
  <2>1. PICK o : o = IF page.switching = "header" THEN page.choosing ELSE NoOrganization
    OBVIOUS
  <2>2. PICK v : v = ChoosingIs(w, o)
    OBVIOUS
  <2>3. PICK q : q = [p EXCEPT !.choosing = o]
    OBVIOUS
  <2>4. o \in Organizations \union {NoOrganization}
    BY <1>14, <2>1
  <2>5. q \in PageStates /\ q.connected = page.connected /\ q.switching = NoOrganization /\ q.choosing = o
    BY <1>5, <2>3, <2>4 DEF PageStates
  <2>6. v = [groups |-> groups, page |-> q, calls |-> deskCalls]
    BY <1>6, <2>2, <2>3 DEF ChoosingIs
  <2>7. v \in Windows /\ v.groups = groups /\ v.page = q /\ v.calls = deskCalls
    BY <2>5, <2>6, WindowFacts DEF Windows
  <2>8. AwaitsConnected(v)
    BY <1>9, <2>5, <2>7 DEF AwaitsConnected
  <2>9. WindowHolds(v, deskConfirmed, {})
    BY <1>9, <2>7, <2>8, ViewChanges
  <2>10. page.choosing # NoOrganization => page.choosing # "header"
    BY <1>14, GroupsAssumption
  <2>11. Chooses(v)
    BY <1>9, <2>1, <2>5, <2>7, <2>10 DEF Chooses, Awaited
  <2>12. Shows(v)
    BY <1>17, <2>1, <2>2
  <2> QED
    BY <1>3, <2>9, <2>11, <2>12, WindowFacts, Shown
<1> QED
  <2>1. \/ page.switching # "header" /\ Shows(RefreshesDirectory(SpaceIs(read, page.switching), page.choosing))
        \/ page.switching = "header" /\ \E o \in Organizations \union {NoOrganization} : Shows(SpaceIs(read, o))
        \/ Shows([w EXCEPT !.page.choosing = IF page.switching = "header" THEN @ ELSE NoOrganization])
    BY <1>1, <1>2 DEF SwitchEnds, SwitchedTo, SpaceIs
  <2>2. [w EXCEPT !.page.choosing = IF page.switching = "header" THEN @ ELSE NoOrganization]
          = ChoosingIs(w, IF page.switching = "header" THEN page.choosing ELSE NoOrganization)
    BY <1>5, <1>7 DEF ChoosingIs
  <2> QED
    BY <1>15, <1>16, <1>17, <2>1, <2>2

\* The Desks get on, and some calls are answered.
LEMMA DesksGetOn ==
  ASSUME DeskInv, desks' \in Desks,
         \A o \in Organizations :
           /\ desks[o].binding <= desks'[o].binding /\ desks[o].age <= desks'[o].age
           /\ desks'[o].binding <= desks'[o].age,
         groups' = groups, page' = page, deskConfirmed' = deskConfirmed,
         deskCalls' \in SUBSET DeskCalls, deskCalls = {} => deskCalls' = {},
         \A c \in deskCalls : \E d \in deskCalls' : d.kind = c.kind /\ d.then = c.then,
         \A c \in deskCalls' : c \in deskCalls \/ CallFits(Window, c, deskConfirmed, {})'
  PROVE  DeskInv'
<1>1. /\ desks \in Desks /\ deskConfirmed \in Confirmations /\ DesksGrow
      /\ WindowFits(Window, deskConfirmed, {}) /\ AwaitsConnected(Window) /\ Chooses(Window)
  BY DEF DeskInv, WindowHolds
<1>2. Window'.groups = groups /\ Window'.page = page /\ Window'.calls = deskCalls'
      /\ Window.groups = groups /\ Window.page = page /\ Window.calls = deskCalls
  BY DEF Window
<1>3. /\ \A o \in Organizations : /\ desks[o].binding \in Nat /\ desks[o].age \in Nat
                                  /\ desks'[o].binding \in Nat /\ desks'[o].age \in Nat
      /\ \A k \in TaskKeys : deskConfirmed[k] \in Nat /\ k[1] \in Organizations
      /\ \A o \in Organizations : groups.revisions[o] \in Ages
  BY <1>1, KeyFacts, WindowFacts DEF Desks, Confirmations, GroupsStates
<1>4. DesksGrow'
  BY <1>1, <1>3 DEF DesksGrow
<1>5. ASSUME NEW c \in deskCalls' PROVE CallFits(Window, c, deskConfirmed, {})'
  <2>1. CASE c \in deskCalls
    <3>1. CallFits(Window, c, deskConfirmed, {}) /\ c \in DeskCalls
      BY <2>1, WindowFacts
    <3>2. c.data \in Ages /\ \A o \in Organizations : c.bindings[o] \in Ages
      BY <3>1 DEF DeskCalls
    <3>3. \A a \in Ages, m, n \in Nat : a <= m /\ m <= n => a <= n
      BY DEF Ages, Unknown
    <3>4. c.kind = "change" => c.key[1] \in Organizations
      BY <3>1, KeyFacts DEF CallFits
    <3> QED
      BY <1>2, <1>3, <3>1, <3>2, <3>3, <3>4 DEF CallFits, BoardFits, TaskFits
  <2> QED
    BY <2>1
<1>6. WindowFits(Window, deskConfirmed, {})'
  <2>1. \A o \in Organizations : groups.revisions[o] <= desks'[o].binding
    <3>1. \A a \in Ages, m, n \in Nat : a <= m /\ m <= n => a <= n
      BY DEF Ages, Unknown
    <3> QED
      BY <1>1, <1>2, <1>3, <3>1 DEF WindowFits
  <2> QED
    BY <1>1, <1>2, <1>5, <2>1 DEF WindowFits, BoardFits, TaskFits
<1>7. AwaitsConnected(Window)' /\ Chooses(Window)'
  BY <1>1, <1>2 DEF AwaitsConnected, Chooses, Awaited
<1>8. Window' \in Windows
  <2>1. Window' = [groups |-> groups, page |-> page, calls |-> deskCalls']
    BY DEF Window
  <2> QED
    BY <2>1, WindowFacts DEF Windows
<1> QED
  BY <1>4, <1>6, <1>7, <1>8 DEF DeskInv, WindowHolds

\* A Desk's answer to a call keeps the invariant.
LEMMA CallIsAnswered ==
  ASSUME DeskInv, NEW c \in deskCalls, DeskAnswers(c)
  PROVE  DeskInv'
<1>1. /\ c \in DeskCalls /\ CallFits(Window, c, deskConfirmed, {}) /\ DesksHold(deskConfirmed)
      /\ WindowFits(Window, deskConfirmed, {}) /\ Window.groups = groups /\ groups \in GroupsStates
      /\ deskCalls \in SUBSET DeskCalls
      /\ \A o \in Organizations : desks[o].binding \in Nat /\ desks[o].age \in Nat
  BY WindowFacts DEF WindowHolds
<1>2. PICK o : o = c.key[1]
  OBVIOUS
<1>3. PICK changed : changed = IF c.kind = "change" THEN [desks EXCEPT ![o].age = @ + 1] ELSE desks
  OBVIOUS
<1>4. PICK d : d = IF c.kind = "directory"
                   THEN [c EXCEPT !.data = 0, !.bindings = [p \in Organizations |-> desks[p].binding]]
                   ELSE [c EXCEPT !.data = changed[o].age]
  OBVIOUS
<1>5. /\ desks' = changed /\ deskCalls' = (deskCalls \ {c}) \union {d}
      /\ groups' = groups /\ page' = page /\ deskConfirmed' = deskConfirmed /\ c.data = Unknown
  BY <1>2, <1>3, <1>4 DEF DeskAnswers
<1>6. c.kind \in {"directory", "board", "task", "change"} /\ (c.kind # "directory" => o \in Organizations)
  BY <1>1, <1>2, KeyFacts DEF CallFits, DeskCalls
<1>7. /\ changed \in Desks
      /\ \A p \in Organizations : changed[p].binding = desks[p].binding /\ changed[p].age \in Nat
                                  /\ desks[p].age <= changed[p].age
  <2>1. CASE c.kind = "change"
    <3>1. PICK n \in Nat : n = desks[o].age
      BY <1>1, <1>6, <2>1
    <3>2. changed = [desks EXCEPT ![o].age = n + 1]
      BY <1>3, <2>1, <3>1
    <3>3. desks \in [Organizations -> [age : Nat, binding : Nat]] /\ n + 1 \in Nat /\ n <= n + 1
      BY <1>1, <3>1 DEF DesksHold, Desks
    <3>4. /\ changed \in [Organizations -> [age : Nat, binding : Nat]]
          /\ \A p \in Organizations : changed[p].binding = desks[p].binding
          /\ changed[o].age = n + 1 /\ \A p \in Organizations : p # o => changed[p] = desks[p]
      BY <1>6, <2>1, <3>2, <3>3
    <3>5. \A p \in Organizations : changed[p].age \in Nat /\ desks[p].age <= changed[p].age
      BY <1>1, <3>1, <3>3, <3>4
    <3> QED
      BY <3>4, <3>5 DEF Desks
  <2>2. CASE c.kind # "change"
    BY <1>1, <1>3, <2>2 DEF DesksHold
  <2> QED
    BY <2>1, <2>2
<1>8. /\ d \in DeskCalls /\ d.kind = c.kind /\ d.key = c.key /\ d.then = c.then /\ d.newest = c.newest
      /\ c.kind # "directory" => d.data = changed[o].age
      /\ c.kind = "directory" => \A p \in Organizations : d.bindings[p] = desks[p].binding
  <2>1. CASE c.kind = "directory"
    <3>1. PICK b : b = [p \in Organizations |-> desks[p].binding]
      OBVIOUS
    <3>2. d = [c EXCEPT !.data = 0, !.bindings = b]
      BY <1>4, <2>1, <3>1
    <3>3. 0 \in Ages /\ b \in [Organizations -> Ages] /\ \A p \in Organizations : b[p] = desks[p].binding
      BY <1>1, <3>1 DEF Ages
    <3>4. /\ d \in DeskCalls /\ d.kind = c.kind /\ d.key = c.key /\ d.then = c.then /\ d.newest = c.newest
          /\ d.bindings = b
      BY <1>1, <3>2, <3>3 DEF DeskCalls
    <3> QED
      BY <2>1, <3>3, <3>4
  <2>2. CASE c.kind # "directory"
    <3>1. d = [c EXCEPT !.data = changed[o].age] /\ changed[o].age \in Ages
      BY <1>4, <1>6, <1>7, <2>2 DEF Ages
    <3>2. PICK a \in Ages : a = changed[o].age
      BY <3>1
    <3>3. d = [c EXCEPT !.data = a]
      BY <3>1, <3>2
    <3>4. /\ d \in DeskCalls /\ d.kind = c.kind /\ d.key = c.key /\ d.then = c.then /\ d.newest = c.newest
          /\ d.data = a
      BY <1>1, <3>3 DEF DeskCalls
    <3> QED
      BY <2>2, <3>2, <3>4
  <2> QED
    BY <2>1, <2>2
<1>9. \A p \in Organizations : /\ desks[p].binding <= desks'[p].binding /\ desks[p].age <= desks'[p].age
                               /\ desks'[p].binding <= desks'[p].age
  BY <1>1, <1>5, <1>7 DEF DesksHold
<1>10. CallFits(Window, d, deskConfirmed, {})'
  <2>1. \A a \in Ages, m, n, l \in Nat : a <= m /\ m <= n /\ n <= l => l >= a
    BY DEF Ages, Unknown
  <2>2. \A p \in Organizations : groups.revisions[p] \in Ages /\ groups.revisions[p] <= desks[p].binding
                                 /\ changed[p].age >= groups.revisions[p]
    <3>1. \A p \in Organizations : groups.revisions[p] \in Ages /\ groups.revisions[p] <= desks[p].binding
      BY <1>1 DEF WindowFits, GroupsStates
    <3>2. \A p \in Organizations : desks[p].binding <= desks[p].age
      BY <1>1 DEF DesksHold
    <3> QED
      BY <1>1, <1>7, <2>1, <3>1, <3>2
  <2>3. \A k \in TaskKeys : changed[k[1]].age >= deskConfirmed[k]
    <3>1. \A m, n, l \in Nat : m <= n /\ n <= l => l >= m
      OBVIOUS
    <3>2. \A k \in TaskKeys : deskConfirmed[k] \in Nat /\ deskConfirmed[k] <= desks[k[1]].age /\ k[1] \in Organizations
      BY <1>1, KeyFacts DEF DesksHold, Confirmations
    <3> QED
      BY <1>1, <1>7, <3>1, <3>2
  <2>4. Window'.groups = groups
    BY <1>5 DEF Window
  <2>5. c.kind = "board" => c.key \in BoardKeys /\ d.data = changed[o].age
    BY <1>1, <1>8 DEF CallFits
  <2>6. c.kind \in {"task", "change"} => c.key \in TaskKeys /\ d.data = changed[o].age
    BY <1>1, <1>8 DEF CallFits
  <2>7. c.kind = "board" => BoardFits(Window, o, d.data, deskConfirmed)'
    BY <1>5, <1>6, <2>2, <2>3, <2>4, <2>5 DEF BoardFits
  <2>8. c.kind = "task" => TaskFits(Window, c.key, d.data, deskConfirmed)'
    BY <1>2, <1>5, <1>6, <2>2, <2>3, <2>4, <2>6 DEF TaskFits
  <2>9. c.kind = "change" => d.data <= desks'[o].age
    BY <1>5, <1>6, <1>7, <2>6
  <2>10. c.kind = "directory" => \A p \in Organizations : d.bindings[p] <= desks'[p].binding
    BY <1>1, <1>5, <1>7, <1>8
  <2> QED
    BY <1>2, <1>8, <2>5, <2>6, <2>7, <2>8, <2>9, <2>10 DEF CallFits
<1>11. deskCalls' \in SUBSET DeskCalls /\ (deskCalls = {} => deskCalls' = {})
  BY <1>1, <1>5, <1>8
<1>12. \A e \in deskCalls : \E f \in deskCalls' : f.kind = e.kind /\ f.then = e.then
  BY <1>5, <1>8
<1>13. \A e \in deskCalls' : e \in deskCalls \/ CallFits(Window, e, deskConfirmed, {})'
  BY <1>5, <1>10
<1>14. desks' \in Desks
  BY <1>5, <1>7
<1> QED
  BY <1>5, <1>9, <1>11, <1>12, <1>13, <1>14, DesksGetOn

\* A new binding of an organization keeps the invariant.
LEMMA BindingChanges ==
  ASSUME DeskInv, DeskIsBound
  PROVE  DeskInv'
<1>1. PICK o \in Organizations : desks' = [desks EXCEPT ![o] = [age |-> @.age + 1, binding |-> @.age + 1]]
  BY DEF DeskIsBound
<1>2. groups' = groups /\ page' = page /\ deskCalls' = deskCalls /\ deskConfirmed' = deskConfirmed
  BY DEF DeskIsBound
<1>3. PICK n \in Nat : n = desks[o].age
  BY WindowFacts
<1>4. PICK desk : desk = [age |-> n + 1, binding |-> n + 1]
  OBVIOUS
<1>5. desks' = [desks EXCEPT ![o] = desk]
  BY <1>1, <1>3, <1>4
<1>6. desk \in [age : Nat, binding : Nat] /\ desk.age = n + 1 /\ desk.binding = n + 1
  BY <1>4
<1>7. desks \in [Organizations -> [age : Nat, binding : Nat]]
  BY WindowFacts DEF DesksHold, Desks
<1>8. /\ desks' \in Desks /\ desks'[o] = desk
      /\ \A p \in Organizations : p # o => desks'[p] = desks[p]
  BY <1>5, <1>6, <1>7 DEF Desks
<1>9. ASSUME NEW p \in Organizations
      PROVE  /\ desks[p].binding <= desks'[p].binding /\ desks[p].age <= desks'[p].age
             /\ desks'[p].binding <= desks'[p].age
  <2>1. desks[p].binding <= desks[p].age /\ desks[p].binding \in Nat /\ desks[p].age \in Nat
    BY WindowFacts DEF DesksHold
  <2>2. CASE p = o
    BY <1>3, <1>6, <1>8, <2>1, <2>2
  <2>3. CASE p # o
    BY <1>8, <2>1, <2>3
  <2> QED
    BY <2>2, <2>3
<1>10. deskCalls \in SUBSET DeskCalls
  BY WindowFacts
<1> QED
  BY <1>2, <1>8, <1>9, <1>10, DesksGetOn

\* The connection closes, and another opens.
LEMMA ConnectionCloses ==
  ASSUME DeskInv, DeskDisconnects
  PROVE  DeskInv'
<1>1. PICK w : w = Resets(Window)
  OBVIOUS
<1>2. PICK v : v = [w EXCEPT !.page.connected = FALSE, !.page.choosing = NoOrganization,
                            !.page.switching = NoOrganization, !.calls = {}]
  OBVIOUS
<1>3. Shows(v) /\ desks' = desks /\ deskConfirmed' = deskConfirmed
  BY <1>1, <1>2 DEF DeskDisconnects
<1>4. WindowHolds(w, deskConfirmed, {})
  <2>1. PICK s : s = Window
    OBVIOUS
  <2>2. WindowHolds(s, deskConfirmed, {}) /\ w = Resets(s) /\ \A p \in Organizations : desks[p].binding \in Nat
    BY <1>1, <2>1, WindowFacts
  <2> QED
    BY <2>2, EverythingIsReset
<1>5. w \in Windows /\ w = [groups |-> w.groups, page |-> w.page, calls |-> w.calls]
  BY <1>4, OfParts DEF WindowHolds
<1>6. PICK no : no = FALSE
  OBVIOUS
<1>7. PICK p : p = [w.page EXCEPT !.connected = no, !.choosing = NoOrganization, !.switching = NoOrganization]
  OBVIOUS
<1>8. v = [groups |-> w.groups, page |-> p, calls |-> {}]
  <2>1. v = [w EXCEPT !.page.connected = no, !.page.choosing = NoOrganization,
                      !.page.switching = NoOrganization, !.calls = {}]
    BY <1>2, <1>6
  <2> QED
    BY <1>5, <1>7, <2>1
<1>9. p \in PageStates /\ p.choosing = NoOrganization /\ p.switching = NoOrganization
  BY <1>5, <1>6, <1>7, WindowTyped DEF PageStates
<1>10. v \in Windows /\ v.groups = w.groups /\ v.page = p /\ v.calls = {}
  <2>1. w.groups \in GroupsStates
    BY <1>5, WindowTyped
  <2> QED
    BY <1>8, <1>9, <2>1 DEF Windows
<1>11. AwaitsConnected(v) /\ Chooses(v)
  BY <1>9, <1>10 DEF AwaitsConnected, Chooses
<1>12. WindowHolds(v, deskConfirmed, {})
  BY <1>4, <1>10, <1>11, ViewChanges
<1> QED
  BY <1>3, <1>11, <1>12, WindowFacts, Shown

\* A new connection keeps the invariant.
LEMMA ConnectionOpens ==
  ASSUME DeskInv, DeskReconnects
  PROVE  DeskInv'
<1>1. PICK w : w = Resets(Window)
  OBVIOUS
<1>2. PICK u : u = [w EXCEPT !.page.connected = TRUE]
  OBVIOUS
<1>3. PICK v : v = RefreshesDirectory(u, NoOrganization)
  OBVIOUS
<1>4. ~page.connected /\ Shows(v) /\ desks' = desks /\ deskConfirmed' = deskConfirmed
  BY <1>1, <1>2, <1>3 DEF DeskReconnects
<1>5. PICK s : s = Window
  OBVIOUS
<1>6. /\ WindowHolds(s, deskConfirmed, {}) /\ w = Resets(s) /\ AwaitsConnected(s) /\ Chooses(s)
      /\ s.page = page /\ s.calls = deskCalls
      /\ \A p \in Organizations : desks[p].binding \in Nat
  BY <1>1, <1>5, WindowFacts DEF WindowHolds
<1>7. /\ WindowHolds(w, deskConfirmed, {}) /\ w.page.switching = page.switching
      /\ w.page.choosing = page.choosing /\ (deskCalls = {} => w.calls = {})
  BY <1>6, EverythingIsReset
<1>8. /\ deskCalls = {} /\ page.switching = NoOrganization /\ page.choosing = NoOrganization
  BY <1>4, <1>6 DEF AwaitsConnected, Chooses, Awaited
<1>9. w \in Windows /\ w = [groups |-> w.groups, page |-> w.page, calls |-> w.calls]
  BY <1>7, OfParts DEF WindowHolds
<1>10. PICK yes : yes = TRUE
  OBVIOUS
<1>11. PICK p : p = [w.page EXCEPT !.connected = yes]
  OBVIOUS
<1>12. u = [groups |-> w.groups, page |-> p, calls |-> w.calls]
  <2>1. u = [w EXCEPT !.page.connected = yes]
    BY <1>2, <1>10
  <2> QED
    BY <1>9, <1>11, <2>1
<1>13. p \in PageStates /\ p.connected /\ p.choosing = NoOrganization /\ p.switching = NoOrganization
  BY <1>7, <1>8, <1>9, <1>10, <1>11, WindowTyped DEF PageStates
<1>14. u \in Windows /\ u.groups = w.groups /\ u.page = p /\ u.calls = w.calls
  <2>1. w.groups \in GroupsStates /\ w.calls \in SUBSET DeskCalls
    BY <1>9, WindowTyped
  <2> QED
    BY <1>12, <1>13, <2>1 DEF Windows
<1>15. AwaitsConnected(u)
  BY <1>13, <1>14 DEF AwaitsConnected
<1>16. WindowHolds(u, deskConfirmed, {})
  BY <1>7, <1>14, <1>15, ViewChanges
<1>17. WindowHolds(v, deskConfirmed, {}) /\ v.page.choosing = u.page.choosing
  BY <1>3, <1>16, DirectoryIsRead
<1>18. Chooses(v)
  BY <1>13, <1>14, <1>17 DEF Chooses
<1> QED
  BY <1>4, <1>17, <1>18, WindowFacts, Shown

\* Nothing is shown when the page has just been opened.
LEMMA DeskStart == InitGroups => DeskInv
<1> SUFFICES ASSUME InitGroups PROVE DeskInv
  OBVIOUS
<1>1. /\ groups = InitialGroups /\ desks = [o \in Organizations |-> [age |-> 0, binding |-> 0]]
      /\ page = [connected |-> TRUE, directory |-> "loading", listed |-> FALSE, space |-> NoOrganization,
                 choosing |-> NoOrganization, switching |-> NoOrganization, saving |-> FALSE]
      /\ deskCalls = {[DeskCall EXCEPT !.kind = "directory"]}
      /\ deskConfirmed = [k \in TaskKeys |-> 0]
  BY DEF InitGroups
<1>2. PICK d : d = [DeskCall EXCEPT !.kind = "directory"]
  OBVIOUS
<1>3. d = [kind |-> "directory", key |-> NoTask, newest |-> TRUE, then |-> NoOrganization, mine |-> FALSE,
           data |-> Unknown, bindings |-> [p \in Organizations |-> Unknown]]
  BY <1>2 DEF DeskCall
<1>4. NewCall(d)
  BY <1>3, UnknownFacts DEF NewCall, DeskCalls
<1>5. IdleSlot \in Slot /\ IdleSlot.phase = "idle"
  BY DEF IdleSlot, Slot, Unknown
<1>6. /\ InitialGroups \in GroupsStates
      /\ \A o \in Organizations : InitialGroups.boards[o].phase = "idle" /\ InitialGroups.revisions[o] = Unknown
      /\ \A k \in TaskKeys : InitialGroups.tasks[k].phase = "idle"
  BY <1>5, UnknownFacts DEF InitialGroups, GroupsStates
<1>7. page \in PageStates /\ page.connected /\ page.choosing = NoOrganization
  BY <1>1 DEF PageStates
<1>8. PICK w : w = Window
  OBVIOUS
<1>9. w = [groups |-> groups, page |-> page, calls |-> {d}]
  BY <1>1, <1>2, <1>8 DEF Window
<1>10. w \in Windows /\ w.groups = InitialGroups /\ w.page = page /\ w.calls = {d}
  <2>1. {d} \in SUBSET DeskCalls /\ groups \in GroupsStates
    BY <1>1, <1>4, <1>6 DEF NewCall
  <2> QED
    BY <1>1, <1>7, <1>9, <2>1 DEF Windows
<1>11. desks \in Desks /\ \A o \in Organizations : desks[o].age = 0 /\ desks[o].binding = 0
  BY <1>1 DEF Desks
<1>12. deskConfirmed \in Confirmations /\ \A k \in TaskKeys : deskConfirmed[k] = 0
  BY <1>1 DEF Confirmations
<1>13. DesksGrow
  BY <1>11, <1>12, KeyFacts DEF DesksGrow
<1>14. WindowFits(w, deskConfirmed, {})
  <2>1. CallFits(w, d, deskConfirmed, {})
    BY <1>4 DEF NewCall, CallFits
  <2>2. \A o \in Organizations : w.groups.revisions[o] <= desks[o].binding
    BY <1>6, <1>10, <1>11, UnknownFacts
  <2> QED
    BY <1>6, <1>10, <2>1, <2>2 DEF WindowFits
<1>15. AwaitsConnected(w) /\ Chooses(w)
  BY <1>7, <1>10 DEF AwaitsConnected, Chooses
<1> QED
  BY <1>8, <1>10, <1>11, <1>12, <1>13, <1>14, <1>15 DEF DeskInv, WindowHolds

\* Every step of the user, the window, Serve and the Desks keeps it.
LEMMA DeskStep ==
  ASSUME DeskInv, [NextGroups]_groupsVars
  PROVE  DeskInv'
<1>1. CASE RefreshDirectory
  BY <1>1, DirectoryRefreshed
<1>2. CASE SwitchSpace
  BY <1>2, SpaceSwitches
<1>3. CASE ReadBoard
  <2>1. groups.selected \in Organizations
    BY <1>3, WindowFacts DEF ReadBoard, GroupsStates
  <2> QED
    BY <1>3, <2>1, BoardReads DEF ReadBoard
<1>4. CASE CloseTask
  BY <1>4, TaskClosed
<1>5. CASE ChangeTask
  BY <1>5, TaskChanged
<1>6. CASE \E o \in Organizations : SelectOrganization(o)
  BY <1>6, OrganizationSelected
<1>7. CASE \E k \in TaskKeys : OpenTask(k) \/ CreateTask(k)
  BY <1>7, TaskOpened, TaskCreated
<1>8. CASE AutoReadBoard
  <2>1. groups.selected \in Organizations
    BY <1>8, WindowFacts DEF AutoReadBoard, GroupsStates
  <2> QED
    BY <1>8, <2>1, BoardReads DEF AutoReadBoard
<1>9. CASE SwitchEnds
  BY <1>9, SwitchIsOver
<1>10. CASE \E c \in deskCalls : DeskAnswers(c)
  BY <1>10, CallIsAnswered
<1>11. CASE \E c \in deskCalls : DirectoryArrives(c)
  BY <1>11, DirectoryEnds
<1>12. CASE \E c \in deskCalls : ReadArrives(c)
  BY <1>12, ReadEnds
<1>13. CASE \E c \in deskCalls : ChangeArrives(c)
  BY <1>13, ChangeEnds
<1>14. CASE \E c \in deskCalls : CallFails(c)
  <2>1. \A c \in deskCalls : c.kind \in {"directory", "board", "task", "change"}
    BY WindowFacts DEF DeskCalls
  <2> QED
    BY <1>14, <2>1, ReadFails, ChangeFails, DirectoryFails
<1>15. CASE DeskIsBound
  BY <1>15, BindingChanges
<1>16. CASE DeskDisconnects
  BY <1>16, ConnectionCloses
<1>17. CASE DeskReconnects
  BY <1>17, ConnectionOpens
<1>18. CASE UNCHANGED groupsVars
  <2>1. UNCHANGED <<groups, page, desks, deskCalls, deskConfirmed>>
    BY <1>18 DEF groupsVars
  <2> QED
    BY <2>1 DEF DeskInv, DesksGrow, WindowHolds, WindowFits, CallFits, BoardFits, TaskFits, AwaitsConnected,
                Chooses, Awaited, Window
<1> QED
  BY <1>1, <1>2, <1>3, <1>4, <1>5, <1>6, <1>7, <1>8, <1>9, <1>10, <1>11, <1>12, <1>13, <1>14, <1>15, <1>16,
     <1>17, <1>18 DEF NextGroups

\* It holds in every reachable state.
LEMMA DeskHolds == SpecGroups => []DeskInv
BY DeskStart, DeskStep, PTL DEF SpecGroups

\* What the page shows, and the calls it awaits, keep their types (groups-state.ts,
\* App.tsx), for every number of organizations, tasks and moves.
THEOREM DeskTypeCorrect == SpecGroups => []GroupsTypeOK
<1>1. DeskInv => GroupsTypeOK
  <2> SUFFICES ASSUME DeskInv PROVE GroupsTypeOK
    OBVIOUS
  <2>1. groups \in GroupsStates /\ page \in PageStates /\ \A c \in deskCalls : c \in DeskCalls
    BY WindowFacts
  <2> QED
    BY <2>1 DEF GroupsTypeOK, GroupsStates, PageStates, DeskCalls, Ages
<1> QED
  BY <1>1, DeskHolds, PTL

\* However refreshes, reads, changes, rebindings and refusals overlap, a board or a task
\* that is shown is not older than the binding of its organization that the directory
\* names (directorySynced and snapshotSucceeded of groups-state.ts).
THEOREM DeskIsOfItsBinding == SpecGroups => []OfItsBinding
<1>1. DeskInv => OfItsBinding
  <2> SUFFICES ASSUME DeskInv PROVE OfItsBinding
    OBVIOUS
  <2>1. WindowFits(Window, deskConfirmed, {}) /\ Window.groups = groups
    BY WindowFacts DEF WindowHolds
  <2> QED
    BY <2>1 DEF WindowFits, BoardFits, TaskFits, OfItsBinding
<1> QED
  BY <1>1, DeskHolds, PTL

\* A task that is shown as read, and the board of its organization, hold every change of
\* it the user was told of (the reads after a change in App.tsx).
THEOREM DeskShowsOwnChanges == SpecGroups => []ShowsOwnChanges
<1>1. DeskInv => ShowsOwnChanges
  <2> SUFFICES ASSUME DeskInv PROVE ShowsOwnChanges
    OBVIOUS
  <2>1. WindowFits(Window, deskConfirmed, {}) /\ Window.groups = groups
    BY WindowFacts DEF WindowHolds
  <2> QED
    BY <2>1, KeyFacts DEF WindowFits, BoardFits, TaskFits, ShowsOwnChanges
<1> QED
  BY <1>1, DeskHolds, PTL

\* A switch of the organization that the page shows as under way is under way: its Space
\* is being switched, or the directory it selects from is awaited (the finally of
\* selectGroupsOrganization in App.tsx).
THEOREM DeskChoosingEnds == SpecGroups => []ChoosingEnds
<1>1. DeskInv => ChoosingEnds
  <2> SUFFICES ASSUME DeskInv PROVE ChoosingEnds
    OBVIOUS
  <2>1. Chooses(Window) /\ Window.page = page /\ Window.calls = deskCalls
    BY WindowFacts
  <2> QED
    BY <2>1 DEF Chooses, Awaited, ChoosingEnds
<1> QED
  BY <1>1, DeskHolds, PTL

--------------------------------------------------------------------------------
(* The window. *)

\* All a window reads is shown as it is: ViewIsFresh, NoGap, and what GroupsDesk shows.
THEOREM ViewsStayComplete == SpecWindowViews => []ViewsAreComplete
<1>1. SpecWindowViews => SpecView /\ SpecCollaboration /\ SpecGroups
  BY DEF SpecWindowViews
<1>2. ViewIsFresh /\ NoGap /\ OfItsBinding /\ ShowsOwnChanges /\ ChoosingEnds => ViewsAreComplete
  BY DEF ViewsAreComplete
<1> QED
  BY <1>1, <1>2, ViewStaysFresh, FeedHasNoGap, DeskIsOfItsBinding, DeskShowsOwnChanges,
     DeskChoosingEnds, PTL
================================================================================
