----------------------------- MODULE TurnQueueProofs -----------------------------
(* Proofs about TurnQueue where React runs every updater in the call.              *)
EXTENDS TurnQueue, SequenceTheorems, FiniteSetTheorems, TLAPS

\* The updaters of a renderer that has none
AfterUpdates(q, k, d) == k = 0 => d = ui.shown
Updates == INSTANCE FoldFacts WITH Step <- Updated, After <- AfterUpdates

Fields == {"up", "attached", "busy", "active", "task", "dispatch", "queue", "shown", "updates", "dirty",
           "sends", "out", "mark", "fate"}

Eager(u) ==
  DOMAIN u = Fields /\ ~world.lazy /\ ~u.dirty /\ u.updates = <<>> /\ u.shown = u.queue

\* What the proofs look at of a state of the renderer
Shows(v, up, q, S, f, o) ==
  Eager(v) /\ v.up = up /\ v.queue = q /\ v.sends = S /\ v.fate = f /\ v.out = o

LEMMA BusyShows ==
  ASSUME NEW u, NEW up, NEW q, NEW S, NEW f, NEW o, NEW value, Shows(u, up, q, S, f, o)
  PROVE  Shows(SetBusy(u, value), up, q, S, f, o)
BY DEF Shows, Eager, Fields, SetBusy

LEMMA ResolveShows ==
  ASSUME NEW u, NEW up, NEW q, NEW S, NEW f, NEW o, NEW i, NEW accepted, Shows(u, up, q, S, f, o)
  PROVE  Shows(ResolveUser(u, i, accepted), up, q, S, f, o)
BY DEF Shows, Eager, Fields, ResolveUser

LEMMA ClearShows ==
  ASSUME NEW u, NEW up, NEW q, NEW S, NEW f, NEW o, NEW i, Shows(u, up, q, S, f, o)
  PROVE  Shows(ClearDispatch(u, i), up, q, S, f, o)
BY DEF Shows, Eager, Fields, ClearDispatch

LEMMA LeaveShows ==
  ASSUME NEW u, NEW up, NEW q, NEW S, NEW f, NEW o, NEW s, Shows(u, up, q, S, f, o)
  PROVE  Shows(Leave(u, s), up, q, S \ {s}, f, o)
BY DEF Shows, Eager, Fields, Leave

LEMMA AwaitShows ==
  ASSUME NEW u, NEW up, NEW q, NEW S, NEW f, NEW o, NEW s, NEW t, Shows(u, up, q, S, f, o)
  PROVE  Shows(Await(u, s, t), up, q, (S \ {s}) \cup {t}, f, o)
BY DEF Shows, Eager, Fields, Await

LEMMA FateShows ==
  ASSUME NEW u, NEW up, NEW q, NEW S, NEW f, NEW o, NEW i, NEW fate, Shows(u, up, q, S, f, o)
  PROVE  Shows(Fate(u, i, fate), up, q, S, [f EXCEPT ![i] = fate], o)
BY DEF Shows, Eager, Fields, Fate

LEMMA SetShows ==
  ASSUME NEW u, NEW up, NEW q, NEW S, NEW f, NEW o, NEW update, Shows(u, up, q, S, f, o)
  PROVE  Shows(SetQueue(u, update), up, Updated(q, update), S, f, o)
BY DEF Shows, Eager, Fields, SetQueue

LEMMA PutShows ==
  ASSUME NEW u, NEW up, NEW q, NEW S, NEW f, NEW o, NEW p, Shows(u, up, q, S, f, o)
  PROVE  Shows(PutQueue(u, p), up, p, S, f, o)
<1> DEFINE update == [op |-> "set", items |-> p]
<1>1. Updated(q, update) = p
  BY DEF Updated
<1>2. Shows(SetQueue(u, update), up, p, S, f, o)
  BY <1>1, SetShows
<1> DEFINE w == SetQueue(u, update)
<1>3. PutQueue(u, p) = [w EXCEPT !.queue = p]
  BY DEF PutQueue
<1> HIDE DEF w
<1>4. QED BY <1>2, <1>3 DEF Shows, Eager, Fields, w

--------------------------------------------------------------------------------
(* A call of sendText                                                             *)

Ats == {"handoff", "resume", "call", "steer", "compose", "pause", "recheck"}
Awaiting == {"call", "steer", "compose"}

IsSend(s) ==
  /\ s = [item |-> s.item, at |-> s.at, attempt |-> s.attempt, front |-> s.front, stale |-> s.stale, n |-> s.n]
  /\ s.item \in Item /\ s.at \in Ats

IsCall(c) ==
  /\ c = [of |-> c.of, n |-> c.n, cmd |-> c.cmd, kind |-> c.kind, turn |-> c.turn, rpc |-> c.rpc, lost |-> c.lost]
  /\ c.of \in Inputs /\ c.cmd \in Nat

\* The call of an input may only meet a Retry of the same input that resumes the session
Apart(B, s) == \A r \in B : r.item.of = s.item.of => r.at = "resume" /\ s.at # "resume"

Fresh(i) == FreshCommand(i) \in Nat /\ (Durable => FreshCommand(i) # None)

\* The renderer is at the call s of sendText; B are the others
Ready(u, up, q, B, f, s) ==
  Shows(u, up, q, B \cup {s}, f, {}) /\ IsSend(s) /\ Apart(B, s) /\ Fresh(s.item.of)

Ended(v, up, q, B, f, i) ==
  \E how \in {"sent", "failed"} : Shows(v, up, q, B, [f EXCEPT ![i] = how], {})
Queued(v, up, q, B, f, x) ==
  Shows(v, up, <<x>> \o q, B, f, {}) \/ Shows(v, up, q \o <<x>>, B, f, {})
Waits(v, up, q, B, f, t) == Shows(v, up, q, B \cup {t}, f, {})
Asks(v, up, q, B, f, t, c) == Shows(v, up, q, B \cup {t}, f, {c})

\* The RPC c of the call t, where the call was s; free when the input was not taken before
Matches(t, c, s, free) ==
  \/ /\ t.at = "call" /\ c.cmd = t.item.cmd /\ (Durable => c.cmd # None)
     /\ free \/ s.item.cmd = None \/ c.cmd = s.item.cmd
  \/ t.at = "steer" /\ free
  \/ t.at = "compose" /\ free /\ t.item.cmd = None /\ c.cmd = None /\ c.kind = "steer"

\* What may come of it: the end, the queue, a pause, or an RPC
Requeues(v, up, q, B, f, s, free) ==
  \E x \in Item : /\ x.of = s.item.of /\ (free \/ (~up /\ x.cmd = s.item.cmd))
                  /\ Queued(v, up, q, B, f, x)
Pauses(v, up, q, B, f, s, free) ==
  \E t : /\ IsSend(t) /\ t.item = s.item /\ t.at \in {"pause", "recheck"} /\ free
         /\ (t.stale <=> s.stale) /\ Waits(v, up, q, B, f, t)
Sends(v, up, q, B, f, s, free) ==
  \E t, c : /\ IsSend(t) /\ t.item.of = s.item.of /\ ~t.stale /\ ~s.stale
            /\ IsCall(c) /\ c.of = s.item.of /\ c.rpc = "asked" /\ ~c.lost
            /\ Matches(t, c, s, free) /\ Asks(v, up, q, B, f, t, c)
Result(v, up, q, B, f, s, free) ==
  \/ Ended(v, up, q, B, f, s.item.of)
  \/ Requeues(v, up, q, B, f, s, free)
  \/ Pauses(v, up, q, B, f, s, free)
  \/ Sends(v, up, q, B, f, s, free)

LEMMA ReadyLeaves ==
  ASSUME NEW u, NEW up, NEW q, NEW B, NEW f, NEW s, Ready(u, up, q, B, f, s)
  PROVE  Shows(Leave(u, s), up, q, B, f, {})
<1>1. (B \cup {s}) \ {s} = B
  BY DEF Ready, Apart
<1>2. QED BY <1>1, LeaveShows DEF Ready

LEMMA ReadyAwaits ==
  ASSUME NEW u, NEW up, NEW q, NEW B, NEW f, NEW s, NEW t, Ready(u, up, q, B, f, s)
  PROVE  Shows(Await(u, s, t), up, q, B \cup {t}, f, {})
<1>1. (B \cup {s}) \ {s} = B
  BY DEF Ready, Apart
<1>2. QED BY <1>1, AwaitShows DEF Ready

(* Another record of the same call, at the same place.                            *)
LEMMA ReadyStays ==
  ASSUME NEW u, NEW up, NEW q, NEW B, NEW f, NEW s, NEW t, NEW v, Ready(u, up, q, B, f, s),
         IsSend(t), t.item.of = s.item.of, t.at = s.at, Shows(v, up, q, B \cup {t}, f, {})
  PROVE  Ready(v, up, q, B, f, t)
BY DEF Ready, Apart, Fresh

(* The renderer's other state may change under it.                                *)
LEMMA ReadyShows ==
  ASSUME NEW u, NEW v, NEW up, NEW q, NEW B, NEW f, NEW s, Ready(u, up, q, B, f, s),
         Shows(v, up, q, B \cup {s}, f, {})
  PROVE  Ready(v, up, q, B, f, s)
BY DEF Ready

LEMMA SendAt ==
  ASSUME NEW s, IsSend(s), NEW at \in Ats
  PROVE  /\ IsSend([s EXCEPT !.at = at]) /\ [s EXCEPT !.at = at].item = s.item
         /\ [s EXCEPT !.at = at].at = at /\ ([s EXCEPT !.at = at].stale <=> s.stale)
BY DEF IsSend

LEMMA SendTries ==
  ASSUME NEW s, IsSend(s), NEW attempt
  PROVE  LET t == [s EXCEPT !.attempt = attempt]
         IN IsSend(t) /\ t.item = s.item /\ t.at = s.at /\ (t.stale <=> s.stale)
BY DEF IsSend

LEMMA SendPauses ==
  ASSUME NEW s, IsSend(s), NEW at \in Ats, NEW attempt
  PROVE  LET t == [s EXCEPT !.at = at, !.attempt = attempt]
         IN IsSend(t) /\ t.item = s.item /\ t.at = at /\ (t.stale <=> s.stale)
<1> DEFINE w == [s EXCEPT !.at = at]
           t == [w EXCEPT !.attempt = attempt]
<1>1. IsSend(w) /\ w.item = s.item /\ w.at = at /\ (w.stale <=> s.stale)
  BY SendAt
<1>2. t = [s EXCEPT !.at = at, !.attempt = attempt]
  OBVIOUS
<1> HIDE DEF w
<1>3. IsSend(t) /\ t.item = w.item /\ t.at = w.at /\ (t.stale <=> w.stale)
  BY <1>1, SendTries
<1> HIDE DEF t
<1>4. QED BY <1>1, <1>2, <1>3

LEMMA SendRenamed ==
  ASSUME NEW s, IsSend(s), NEW cmd \in Nat
  PROVE  LET t == [s EXCEPT !.item.cmd = cmd]
         IN IsSend(t) /\ t.item.of = s.item.of /\ t.item.cmd = cmd /\ t.at = s.at /\ (t.stale <=> s.stale)
BY DEF IsSend, Item

LEMMA AskShows ==
  ASSUME NEW u, NEW up, NEW q, NEW B, NEW f, NEW s, Ready(u, up, q, B, f, s), ~s.stale,
         NEW at \in {"call", "steer", "compose"}, NEW kind, NEW turn, NEW cmd \in Nat
  PROVE  \E t, c : /\ IsSend(t) /\ t.item = s.item /\ t.at = at /\ ~t.stale
                   /\ IsCall(c) /\ c.of = s.item.of /\ c.rpc = "asked" /\ ~c.lost /\ c.cmd = cmd /\ c.kind = kind
                   /\ Asks(Ask(u, s, at, kind, turn, cmd), up, q, B, f, t, c)
<1> DEFINE t == [s EXCEPT !.at = at]
<1>0. PICK no : no = FALSE
  OBVIOUS
<1> DEFINE c == [of |-> s.item.of, n |-> s.n, cmd |-> cmd, kind |-> kind, turn |-> turn, rpc |-> "asked", lost |-> no]
           w == Await(u, s, t)
<1>1. IsSend(t) /\ t.item = s.item /\ t.at = at /\ ~t.stale
  <2>1. IsSend(s) /\ at \in Ats
    BY DEF Ready, Ats
  <2>2. QED BY <2>1, SendAt
<1>2. IsCall(c) /\ c.of = s.item.of /\ c.rpc = "asked" /\ c.cmd = cmd /\ c.kind = kind
  BY DEF IsCall, Ready, IsSend, Item
<1>3. ~c.lost
  BY <1>0
<1>4. Shows(w, up, q, B \cup {t}, f, {})
  BY ReadyAwaits
<1>5. Ask(u, s, at, kind, turn, cmd) = [w EXCEPT !.out = {c}]
  BY <1>0, Zenon DEF Ask
<1> HIDE DEF c, t, w
<1>6. Shows([w EXCEPT !.out = {c}], up, q, B \cup {t}, f, {c})
  BY <1>4 DEF Shows, Eager, Fields
<1>7. Asks(Ask(u, s, at, kind, turn, cmd), up, q, B, f, t, c)
  BY <1>5, <1>6 DEF Asks
<1>8. QED BY <1>1, <1>2, <1>3, <1>7, Zenon

LEMMA AttachedShows ==
  ASSUME NEW u, NEW up, NEW q, NEW S, NEW f, NEW o, NEW value, Shows(u, up, q, S, f, o)
  PROVE  Shows([u EXCEPT !.attached = value], up, q, S, f, o)
BY DEF Shows, Eager, Fields

LEMMA MarkShows ==
  ASSUME NEW u, NEW up, NEW q, NEW S, NEW f, NEW o, NEW mark, Shows(u, up, q, S, f, o)
  PROVE  Shows([u EXCEPT !.mark = mark], up, q, S, f, o)
BY DEF Shows, Eager, Fields

LEMMA DispatchShows ==
  ASSUME NEW u, NEW up, NEW q, NEW S, NEW f, NEW o, NEW dispatch, Shows(u, up, q, S, f, o)
  PROVE  Shows([u EXCEPT !.dispatch = dispatch], up, q, S, f, o)
BY DEF Shows, Eager, Fields

LEMMA EnqueueShows ==
  ASSUME NEW u, NEW up, NEW q, NEW S, NEW f, NEW o, NEW x, Shows(u, up, q, S, f, o)
  PROVE  /\ Shows(Enqueue(u, x, "front"), up, <<x>> \o q, S, f, o)
         /\ Shows(Enqueue(u, x, "back"), up, q \o <<x>>, S, f, o)
<1>1. /\ Updated(q, [op |-> "front", items |-> <<x>>]) = <<x>> \o q
      /\ Updated(q, [op |-> "back", items |-> <<x>>]) = q \o <<x>>
  BY DEF Updated
<1>2. QED BY <1>1, SetShows DEF Enqueue

LEMMA OutcomeUnknownRequeues ==
  ASSUME NEW u, NEW up, NEW q, NEW B, NEW f, NEW s, Ready(u, up, q, B, f, s)
  PROVE  \E x \in Item : /\ x.of = s.item.of /\ x.cmd = s.item.cmd
                         /\ Shows(OutcomeUnknown(u, s), up, <<x>> \o q, B, f, {})
<1> DEFINE i == s.item.of
<1>0. PICK yes : yes \in BOOLEAN /\ yes = (u.mark[i] = "pending")
  BY Zenon
<1> DEFINE x == [of |-> i, cmd |-> s.item.cmd, recorded |-> yes]
           v == ClearDispatch(u, i)
           w == [v EXCEPT !.attached = FALSE]
           l == Leave(w, s)
           e == Enqueue(l, x, "front")
<1>1. x \in Item /\ x.of = i /\ x.cmd = s.item.cmd
  BY <1>0 DEF Ready, IsSend, Item
<1>2. OutcomeUnknown(u, s) = SetBusy(e, FALSE)
  BY <1>0, Zenon DEF OutcomeUnknown
<1> HIDE DEF x
<1>3. Shows(u, up, q, B \cup {s}, f, {})
  BY DEF Ready
<1>4. Shows(v, up, q, B \cup {s}, f, {})
  BY <1>3, ClearShows
<1> HIDE DEF v
<1>5. Shows(w, up, q, B \cup {s}, f, {})
  BY <1>4, AttachedShows
<1> HIDE DEF w
<1>6. Shows(l, up, q, B, f, {})
  BY <1>5, ReadyShows, ReadyLeaves
<1> HIDE DEF l
<1>7. Shows(e, up, <<x>> \o q, B, f, {})
  BY <1>6, EnqueueShows
<1> HIDE DEF e
<1>8. Shows(SetBusy(e, FALSE), up, <<x>> \o q, B, f, {})
  BY <1>7, BusyShows
<1>9. QED BY <1>1, <1>2, <1>8

LEMMA SendFailsEnds ==
  ASSUME NEW u, NEW up, NEW q, NEW B, NEW f, NEW s, Ready(u, up, q, B, f, s)
  PROVE  Ended(SendFails(u, s), up, q, B, f, s.item.of)
<1> DEFINE i == s.item.of
           v == ClearDispatch(u, i)
           l == Leave(v, s)
           persisted == u.dispatch.of = i /\ u.dispatch.completed
           r == ResolveUser(l, i, TRUE)
           e == IF persisted THEN Fate(r, i, "sent") ELSE Fate(l, i, "failed")
<1>1. Shows(v, up, q, B \cup {s}, f, {})
  BY ClearShows DEF Ready
<1>2. SendFails(u, s) = SetBusy(e, FALSE)
  BY Zenon DEF SendFails
<1> HIDE DEF v
<1>3. Shows(l, up, q, B, f, {})
  BY <1>1, ReadyShows, ReadyLeaves
<1> HIDE DEF l
<1>4. Shows(r, up, q, B, f, {})
  BY <1>3, ResolveShows
<1> HIDE DEF r
<1>5. Shows(Fate(r, i, "sent"), up, q, B, [f EXCEPT ![i] = "sent"], {})
  BY <1>4, FateShows
<1>6. Shows(Fate(l, i, "failed"), up, q, B, [f EXCEPT ![i] = "failed"], {})
  BY <1>3, FateShows
<1> HIDE DEF i
<1>7. PICK how \in {"sent", "failed"} : Shows(e, up, q, B, [f EXCEPT ![i] = how], {})
  <2>1. CASE persisted
    BY <1>5, <2>1
  <2>2. CASE ~persisted
    BY <1>6, <2>2
  <2>3. QED BY <2>1, <2>2
<1> HIDE DEF e
<1>8. Shows(SetBusy(e, FALSE), up, q, B, [f EXCEPT ![i] = how], {})
  BY <1>7, BusyShows
<1>9. QED BY <1>2, <1>8 DEF Ended, i

LEMMA ConnectionErrorResult ==
  ASSUME NEW u, NEW up, NEW q, NEW B, NEW f, NEW s, Ready(u, up, q, B, f, s)
  PROVE  Result(ConnectionError(u, s), up, q, B, f, s, TRUE)
<1>1. CASE Durable
  BY <1>1, OutcomeUnknownRequeues DEF ConnectionError, Result, Requeues, Queued
<1>2. CASE ~Durable
  BY <1>2, SendFailsEnds DEF ConnectionError, Result
<1>3. QED BY <1>1, <1>2

(* A round of the loop: with a client that holds, the RPC goes out under the id of
   the message.                                                                   *)
LEMMA DispatchResult ==
  ASSUME NEW u, NEW up, NEW q, NEW B, NEW f, NEW s, Ready(u, up, q, B, f, s),
         Durable => s.item.cmd # None,
         NEW was, was.item.of = s.item.of, was.stale <=> s.stale,
         NEW free \in BOOLEAN, free \/ (~s.stale /\ (was.item.cmd = None \/ s.item.cmd = was.item.cmd))
  PROVE  Result(Dispatch(u, s), up, q, B, f, was, free)
<1> DEFINE b == [u EXCEPT !.dispatch = [of |-> s.item.of, turn |-> None, completed |-> FALSE]]
<1>1. Ready(b, up, q, B, f, s)
  <2>1. Shows(b, up, q, B \cup {s}, f, {})
    BY DispatchShows DEF Ready
  <2> HIDE DEF b
  <2>2. QED BY <2>1, ReadyShows
<1>2. CASE s.stale
  <2>1. Dispatch(u, s) = ConnectionError(b, s)
    BY <1>2 DEF Dispatch
  <2> HIDE DEF b
  <2>2. Result(ConnectionError(b, s), up, q, B, f, s, TRUE)
    BY <1>1, ConnectionErrorResult
  <2>3. Ended(ConnectionError(b, s), up, q, B, f, s.item.of) \/ Requeues(ConnectionError(b, s), up, q, B, f, s, TRUE)
    <3>1. CASE Durable
      BY <1>1, <3>1, OutcomeUnknownRequeues DEF ConnectionError, Requeues, Queued
    <3>2. CASE ~Durable
      BY <1>1, <3>2, SendFailsEnds DEF ConnectionError
    <3>3. QED BY <3>1, <3>2
  <2>4. free
    BY <1>2
  <2>5. QED BY <2>1, <2>3, <2>4, Zenon DEF Result, Requeues
<1>3. CASE ~s.stale
  <2> DEFINE kind == IF Atomic THEN "submit" ELSE "send"
  <2>1. Dispatch(u, s) = Ask(b, s, "call", kind, None, s.item.cmd)
    BY <1>3 DEF Dispatch
  <2> HIDE DEF b, kind
  <2>2. s.item.cmd \in Nat
    BY DEF Ready, IsSend, Item
  <2>3. PICK t, c : /\ IsSend(t) /\ t.item = s.item /\ t.at = "call" /\ ~t.stale
                    /\ IsCall(c) /\ c.of = s.item.of /\ c.rpc = "asked" /\ ~c.lost /\ c.cmd = s.item.cmd
                    /\ Asks(Ask(b, s, "call", kind, None, s.item.cmd), up, q, B, f, t, c)
    BY <1>1, <1>3, <2>2, AskShows
  <2>4. Matches(t, c, was, free)
    BY <1>3, <2>3 DEF Matches
  <2>5. Sends(Dispatch(u, s), up, q, B, f, was, free)
    BY <1>3, <2>1, <2>3, <2>4 DEF Sends
  <2>6. QED BY <2>5 DEF Result
<1>4. QED BY <1>2, <1>3

LEMMA TryAgainResult ==
  ASSUME NEW u, NEW up, NEW q, NEW B, NEW f, NEW s, Ready(u, up, q, B, f, s)
  PROVE  Result(TryAgain(u, s), up, q, B, f, s, TRUE)
<1> DEFINE cmd == FreshCommand(s.item.of)
           t == [s EXCEPT !.item.cmd = cmd]
           w == Await(u, s, t)
<1>1. IsSend(s) /\ cmd \in Nat /\ (Durable => cmd # None)
  BY DEF Ready, Fresh
<1>2. TryAgain(u, s) = Dispatch(w, t)
  BY Zenon DEF TryAgain
<1> HIDE DEF cmd
<1>3. IsSend(t) /\ t.item.of = s.item.of /\ t.item.cmd = cmd /\ t.at = s.at /\ (t.stale <=> s.stale)
  BY <1>1, SendRenamed
<1> HIDE DEF t
<1>4. Shows(w, up, q, B \cup {t}, f, {})
  BY ReadyAwaits
<1> HIDE DEF w
<1>5. Ready(w, up, q, B, f, t)
  BY <1>3, <1>4, ReadyStays
<1>6. Result(Dispatch(w, t), up, q, B, f, s, TRUE)
  BY <1>1, <1>3, <1>5, DispatchResult
<1>7. QED BY <1>2, <1>6

LEMMA SendTextResult ==
  ASSUME NEW u, NEW up, NEW q, NEW B, NEW f, NEW s, Ready(u, up, q, B, f, s), ~s.stale
  PROVE  Result(SendText(u, s), up, q, B, f, s, FALSE)
<1> DEFINE i == s.item.of
           cmd == IF s.item.cmd = None THEN FreshCommand(i) ELSE s.item.cmd
           r == [s EXCEPT !.item.recorded = TRUE]
           t == [r EXCEPT !.item.cmd = cmd]
           m == [u.mark EXCEPT ![i] = "pending"]
           marked == IF s.item.recorded THEN u ELSE [u EXCEPT !.mark = m]
           w == Await(marked, s, t)
           b == SetBusy(w, TRUE)
<1>1. IsSend(s) /\ cmd \in Nat /\ (Durable => cmd # None) /\ (s.item.cmd # None => cmd = s.item.cmd)
  BY DEF Ready, Fresh, IsSend, Item
<1>2. SendText(u, s) = Dispatch(b, t)
  <2>1. t = [s EXCEPT !.item.recorded = TRUE, !.item.cmd = IF @ = None THEN FreshCommand(i) ELSE @]
    BY <1>1 DEF IsSend, Item
  <2> DEFINE n == [s EXCEPT !.item.recorded = TRUE, !.item.cmd = IF @ = None THEN FreshCommand(i) ELSE @]
  <2>2. SendText(u, s) = Dispatch(SetBusy(Await(marked, s, n), TRUE), n)
    BY Zenon DEF SendText
  <2> HIDE DEF n, t
  <2>3. t = n
    BY <2>1 DEF n
  <2>4. QED BY <2>2, <2>3
<1>3. IsSend(r) /\ r.item.of = s.item.of /\ r.item.cmd = s.item.cmd /\ r.at = s.at /\ (r.stale <=> s.stale)
  <2>1. PICK yes : yes \in BOOLEAN /\ yes = TRUE
    OBVIOUS
  <2> DEFINE z == [s EXCEPT !.item.recorded = yes]
  <2>2. IsSend(z) /\ z.item.of = s.item.of /\ z.item.cmd = s.item.cmd /\ z.at = s.at /\ (z.stale <=> s.stale)
    <3> DEFINE y == [s.item EXCEPT !.recorded = yes]
    <3>1. y \in Item /\ y.of = s.item.of /\ y.cmd = s.item.cmd
      BY <1>1, <2>1 DEF IsSend, Item
    <3>2. z = [s EXCEPT !.item = y]
      BY Zenon
    <3> HIDE DEF y, z
    <3>3. QED BY <1>1, <3>1, <3>2 DEF IsSend
  <2>3. z = r
    BY <2>1, Zenon
  <2> HIDE DEF z, r
  <2>4. QED BY <2>2, <2>3
<1> HIDE DEF r, cmd
<1>4. IsSend(t) /\ t.item.of = s.item.of /\ t.item.cmd = cmd /\ t.at = s.at /\ (t.stale <=> s.stale)
  BY <1>1, <1>3, SendRenamed
<1> HIDE DEF t
<1>5. Shows(marked, up, q, B \cup {s}, f, {})
  BY MarkShows DEF Ready
<1> HIDE DEF marked
<1>6. Shows(w, up, q, B \cup {t}, f, {})
  BY <1>5, ReadyShows, ReadyAwaits
<1> HIDE DEF w
<1>7. Shows(b, up, q, B \cup {t}, f, {})
  BY <1>6, BusyShows
<1> HIDE DEF b
<1>8. Ready(b, up, q, B, f, t)
  BY <1>4, <1>7, ReadyStays
<1>9. Result(Dispatch(b, t), up, q, B, f, s, FALSE)
  BY <1>1, <1>4, <1>8, DispatchResult
<1>10. QED BY <1>2, <1>9

LEMMA QueueAgainResult ==
  ASSUME NEW u, NEW up, NEW q, NEW B, NEW f, NEW s, NEW live, Ready(u, up, q, B, f, s)
  PROVE  Result(QueueAgain(u, s, live), up, q, B, f, s, TRUE)
<1>0. PICK yes : yes \in BOOLEAN /\ yes = TRUE
  OBVIOUS
<1> DEFINE x == [of |-> s.item.of, cmd |-> None, recorded |-> yes]
           v == ClearDispatch(u, s.item.of)
           l == Leave(v, s)
           place == IF s.front THEN "front" ELSE "back"
           e == Enqueue(l, x, place)
<1>1. x \in Item /\ x.of = s.item.of
  BY <1>0 DEF Ready, IsSend, Item, None
<1>2. QueueAgain(u, s, live) = IF live THEN e ELSE SetBusy(e, FALSE)
  BY <1>0, Zenon DEF QueueAgain
<1> HIDE DEF x
<1>3. Shows(v, up, q, B \cup {s}, f, {})
  BY ClearShows DEF Ready
<1> HIDE DEF v
<1>4. Shows(l, up, q, B, f, {})
  BY <1>3, ReadyShows, ReadyLeaves
<1> HIDE DEF l
<1>5. Queued(e, up, q, B, f, x)
  BY <1>4, EnqueueShows DEF Queued
<1> HIDE DEF e
<1>6. Queued(SetBusy(e, FALSE), up, q, B, f, x)
  BY <1>5, BusyShows DEF Queued
<1>7. Queued(QueueAgain(u, s, live), up, q, B, f, x)
  BY <1>2, <1>5, <1>6
<1>8. QED BY <1>1, <1>7 DEF Result, Requeues

LEMMA PauseResult ==
  ASSUME NEW u, NEW up, NEW q, NEW B, NEW f, NEW s, NEW at \in {"pause", "recheck"}, Ready(u, up, q, B, f, s)
  PROVE  Result(Pause(u, s, at), up, q, B, f, s, TRUE)
<1> DEFINE t == [s EXCEPT !.at = at, !.attempt = s.attempt + 1]
<1>1. Pause(u, s, at) = Await(u, s, t)
  BY DEF Pause
<1>2. IsSend(t) /\ t.item = s.item /\ t.at = at /\ (t.stale <=> s.stale)
  <2>1. IsSend(s) /\ at \in Ats
    BY DEF Ready, Ats
  <2>2. QED BY <2>1, SendPauses
<1> HIDE DEF t
<1>3. Waits(Pause(u, s, at), up, q, B, f, t)
  BY <1>1, ReadyAwaits DEF Waits
<1>4. QED BY <1>2, <1>3 DEF Result, Pauses

LEMMA NotSubmittedResult ==
  ASSUME NEW u, NEW up, NEW q, NEW B, NEW f, NEW s, NEW turn, Ready(u, up, q, B, f, s)
  PROVE  Result(NotSubmitted(u, s, turn), up, q, B, f, s, TRUE)
BY PauseResult, QueueAgainResult DEF NotSubmitted

LEMMA AcceptedEnds ==
  ASSUME NEW u, NEW up, NEW q, NEW B, NEW f, NEW s, Ready(u, up, q, B, f, s)
  PROVE  Ended(Accepted(u, s), up, q, B, f, s.item.of)
<1> DEFINE i == s.item.of
           v == ClearDispatch(u, i)
           l == Leave(v, s)
           r == ResolveUser(l, i, TRUE)
<1>1. Shows(v, up, q, B \cup {s}, f, {})
  BY ClearShows DEF Ready
<1>2. Accepted(u, s) = Fate(r, i, "sent")
  BY Zenon DEF Accepted
<1> HIDE DEF v
<1>3. Shows(l, up, q, B, f, {})
  BY <1>1, ReadyShows, ReadyLeaves
<1> HIDE DEF l
<1>4. Shows(r, up, q, B, f, {})
  BY <1>3, ResolveShows
<1> HIDE DEF r
<1>5. Shows(Fate(r, i, "sent"), up, q, B, [f EXCEPT ![i] = "sent"], {})
  BY <1>4, FateShows
<1>6. QED BY <1>2, <1>5 DEF Ended

LEMMA SteerFailsEnds ==
  ASSUME NEW u, NEW up, NEW q, NEW B, NEW f, NEW s, Ready(u, up, q, B, f, s)
  PROVE  Ended(SteerFails(u, s), up, q, B, f, s.item.of)
<1> DEFINE i == s.item.of
           l == Leave(u, s)
           r == ResolveUser(l, i, FALSE)
           e == Fate(r, i, "failed")
<1>1. SteerFails(u, s) = SetBusy(e, FALSE)
  BY Zenon DEF SteerFails
<1>2. Shows(l, up, q, B, f, {})
  BY ReadyLeaves
<1> HIDE DEF l
<1>3. Shows(r, up, q, B, f, {})
  BY <1>2, ResolveShows
<1> HIDE DEF r
<1>4. Shows(e, up, q, B, [f EXCEPT ![i] = "failed"], {})
  BY <1>3, FateShows
<1> HIDE DEF e
<1>5. Shows(SetBusy(e, FALSE), up, q, B, [f EXCEPT ![i] = "failed"], {})
  BY <1>4, BusyShows
<1>6. QED BY <1>1, <1>5 DEF Ended

LEMMA SteerOrQueueResult ==
  ASSUME NEW u, NEW up, NEW q, NEW B, NEW f, NEW s, Ready(u, up, q, B, f, s)
  PROVE  Result(SteerOrQueue(u, s), up, q, B, f, s, TRUE)
<1> DEFINE v == ClearDispatch(u, s.item.of)
           cmd == FreshCommand(s.item.of)
<1>1. Ready(v, up, q, B, f, s)
  <2>1. Shows(v, up, q, B \cup {s}, f, {})
    BY ClearShows DEF Ready
  <2> HIDE DEF v
  <2>2. QED BY <2>1, ReadyShows
<1>2. CASE s.item.of \in Attached \/ u.active = None
  BY <1>2, QueueAgainResult DEF SteerOrQueue
<1>3. CASE ~(s.item.of \in Attached \/ u.active = None) /\ s.stale
  <2>1. SteerOrQueue(u, s) = SteerFails(v, s)
    BY <1>3 DEF SteerOrQueue
  <2> HIDE DEF v
  <2>2. QED BY <1>1, <2>1, SteerFailsEnds DEF Result
<1>4. CASE ~(s.item.of \in Attached \/ u.active = None) /\ ~s.stale
  <2>1. SteerOrQueue(u, s) = Ask(v, s, "steer", "steer", u.active, cmd)
    BY <1>4 DEF SteerOrQueue
  <2>2. cmd \in Nat
    BY DEF Ready, Fresh
  <2> HIDE DEF v, cmd
  <2>3. PICK t, c : /\ IsSend(t) /\ t.item = s.item /\ t.at = "steer" /\ ~t.stale
                    /\ IsCall(c) /\ c.of = s.item.of /\ c.rpc = "asked" /\ ~c.lost
                    /\ Asks(SteerOrQueue(u, s), up, q, B, f, t, c)
    BY <1>1, <1>4, <2>1, <2>2, AskShows
  <2>4. QED BY <1>4, <2>3 DEF Result, Sends, Matches
<1>5. QED BY <1>2, <1>3, <1>4

LEMMA SendBusyResult ==
  ASSUME NEW u, NEW up, NEW q, NEW B, NEW f, NEW s, Ready(u, up, q, B, f, s)
  PROVE  Result(SendBusy(u, s), up, q, B, f, s, TRUE)
BY PauseResult, SteerOrQueueResult DEF SendBusy

\* What the caller's record does not tell apart
LEMMA ResultOfSame ==
  ASSUME NEW v, NEW up, NEW q, NEW B, NEW f, NEW s, NEW t, Result(v, up, q, B, f, t, TRUE),
         t.item = s.item, t.stale <=> s.stale
  PROVE  Result(v, up, q, B, f, s, TRUE)
<1>1. Ended(v, up, q, B, f, t.item.of) => Ended(v, up, q, B, f, s.item.of)
  OBVIOUS
<1>2. Requeues(v, up, q, B, f, t, TRUE) => Requeues(v, up, q, B, f, s, TRUE)
  BY DEF Requeues
<1>3. Pauses(v, up, q, B, f, t, TRUE) => Pauses(v, up, q, B, f, s, TRUE)
  BY Zenon DEF Pauses
<1>4. Sends(v, up, q, B, f, t, TRUE) => Sends(v, up, q, B, f, s, TRUE)
  BY Zenon DEF Sends, Matches
<1>5. QED BY <1>1, <1>2, <1>3, <1>4 DEF Result

LEMMA SteerBusyResult ==
  ASSUME NEW u, NEW up, NEW q, NEW B, NEW f, NEW s, Ready(u, up, q, B, f, s)
  PROVE  Result(SteerBusy(u, s), up, q, B, f, s, TRUE)
<1>1. CASE Live(u)
  BY <1>1, QueueAgainResult DEF SteerBusy
<1>2. CASE ~Live(u)
  <2> DEFINE t == [s EXCEPT !.attempt = 0]
             w == Await(u, s, t)
  <2>1. SteerBusy(u, s) = TryAgain(w, t)
    BY <1>2 DEF SteerBusy
  <2>2. IsSend(t) /\ t.item = s.item /\ t.at = s.at /\ (t.stale <=> s.stale)
    BY SendTries DEF Ready
  <2> HIDE DEF t
  <2>3. Shows(w, up, q, B \cup {t}, f, {})
    BY ReadyAwaits
  <2> HIDE DEF w
  <2>4. Ready(w, up, q, B, f, t)
    BY <2>2, <2>3, ReadyStays
  <2>5. Result(TryAgain(w, t), up, q, B, f, t, TRUE)
    BY <2>4, TryAgainResult
  <2>6. QED BY <2>1, <2>2, <2>5, ResultOfSame
<1>3. QED BY <1>1, <1>2

LEMMA AnswerToResult ==
  ASSUME NEW u, NEW up, NEW q, NEW B, NEW f, NEW s, NEW m, Ready(u, up, q, B, f, s),
         m.kind \in Answers
  PROVE  /\ Result(AnswerTo(u, s, m), up, q, B, f, s, TRUE)
         /\ m.kind \in {"started", "steered", "error"} => Ended(AnswerTo(u, s, m), up, q, B, f, s.item.of)
<1>1. CASE m.kind \in {"started", "steered"}
  <2>1. AnswerTo(u, s, m) = Accepted(u, s)
    BY <1>1 DEF AnswerTo
  <2>2. QED BY <2>1, AcceptedEnds DEF Result
<1>2. CASE m.kind = "not_submitted"
  <2>1. AnswerTo(u, s, m) = NotSubmitted(u, s, m.turn)
    BY <1>2 DEF AnswerTo
  <2>2. QED BY <1>2, <2>1, NotSubmittedResult
<1>3. CASE m.kind = "unknown"
  <2>1. AnswerTo(u, s, m) = ConnectionError(u, s)
    BY <1>3 DEF AnswerTo
  <2>2. QED BY <1>3, <2>1, ConnectionErrorResult
<1>4. CASE m.kind = "busy"
  <2>1. AnswerTo(u, s, m) = IF s.at = "call" THEN SendBusy(u, s) ELSE SteerBusy(u, s)
    BY <1>4 DEF AnswerTo
  <2>2. QED BY <1>4, <2>1, SendBusyResult, SteerBusyResult
<1>5. CASE m.kind = "error"
  <2>1. AnswerTo(u, s, m) = IF s.at = "call" THEN SendFails(u, s) ELSE SteerFails(u, s)
    BY <1>5 DEF AnswerTo
  <2>2. QED BY <1>5, <2>1, SendFailsEnds, SteerFailsEnds DEF Result
<1>6. QED BY <1>1, <1>2, <1>3, <1>4, <1>5 DEF Answers

LEMMA AnswerToComposerResult ==
  ASSUME NEW u, NEW up, NEW q, NEW B, NEW f, NEW s, NEW m, Ready(u, up, q, B, f, s), ~s.stale,
         s.item.cmd = None, m.of = s.item.of, m.kind \in {"steered", "busy", "error"}
  PROVE  /\ Result(AnswerToComposer(u, s, m), up, q, B, f, s, TRUE)
         /\ m.kind \in {"steered", "error"} => Ended(AnswerToComposer(u, s, m), up, q, B, f, s.item.of)
<1> DEFINE left == Leave(u, s)
           kept == [left.mark EXCEPT ![m.of] = "kept"]
           pending == [left.mark EXCEPT ![m.of] = "pending"]
<1>1. Shows(left, up, q, B, f, {})
  BY ReadyLeaves
<1>2. CASE m.kind = "steered"
  <2> DEFINE l == [left EXCEPT !.mark = kept]
  <2>1. AnswerToComposer(u, s, m) = Fate(l, m.of, "sent")
    BY <1>2 DEF AnswerToComposer
  <2>2. Shows(l, up, q, B, f, {})
    <3> HIDE DEF left, kept
    <3>1. QED BY <1>1, MarkShows
  <2> HIDE DEF l
  <2>3. Shows(Fate(l, m.of, "sent"), up, q, B, [f EXCEPT ![m.of] = "sent"], {})
    BY <2>2, FateShows
  <2>4. QED BY <2>1, <2>3 DEF Ended, Result
<1>3. CASE m.kind = "error"
  <2>1. AnswerToComposer(u, s, m) = Fate(left, m.of, "failed")
    BY <1>3 DEF AnswerToComposer
  <2> HIDE DEF left
  <2>2. Shows(Fate(left, m.of, "failed"), up, q, B, [f EXCEPT ![m.of] = "failed"], {})
    BY <1>1, FateShows
  <2>3. QED BY <2>1, <2>2 DEF Ended, Result
<1>4. CASE m.kind = "busy" /\ ~Live(u)
  <2>1. AnswerToComposer(u, s, m) = SendText(u, s)
    BY <1>4 DEF AnswerToComposer
  <2>2. Result(SendText(u, s), up, q, B, f, s, FALSE)
    BY SendTextResult
  <2>3. Result(SendText(u, s), up, q, B, f, s, TRUE)
    BY <2>2, Zenon DEF Result, Requeues, Pauses, Sends, Matches
  <2>4. QED BY <1>4, <2>1, <2>3
<1>5. CASE m.kind = "busy" /\ Live(u)
  <2>0. PICK yes : yes \in BOOLEAN /\ yes = TRUE
    OBVIOUS
  <2> DEFINE l == [left EXCEPT !.mark = pending]
             x == [s.item EXCEPT !.recorded = yes]
  <2>1. AnswerToComposer(u, s, m) = Enqueue(l, x, "back")
    <3> DEFINE y == [s.item EXCEPT !.recorded = TRUE]
    <3>1. AnswerToComposer(u, s, m) = Enqueue(l, y, "back")
      BY <1>5 DEF AnswerToComposer
    <3>2. x = y
      BY <2>0, Zenon
    <3> HIDE DEF x, y, l
    <3>3. QED BY <3>1, <3>2
  <2>2. x \in Item /\ x.of = s.item.of
    BY <2>0 DEF Ready, IsSend, Item
  <2>3. Shows(l, up, q, B, f, {})
    <3> HIDE DEF left, pending
    <3>1. QED BY <1>1, MarkShows
  <2> HIDE DEF l, x
  <2>4. Queued(Enqueue(l, x, "back"), up, q, B, f, x)
    BY <2>3, EnqueueShows DEF Queued
  <2>5. QED BY <1>5, <2>1, <2>2, <2>4 DEF Result, Requeues
<1>6. QED BY <1>2, <1>3, <1>4, <1>5

LEMMA HandoffResult ==
  ASSUME NEW u, NEW up, NEW q, NEW B, NEW f, NEW s, Ready(u, up, q, B, f, s), ~s.stale
  PROVE  Result(Handoff(u, s), up, q, B, f, s, FALSE)
<1>1. u.up = up
  BY DEF Ready, Shows
<1>2. CASE u.up
  BY <1>2, SendTextResult DEF Handoff
<1>3. CASE ~u.up
  <2> DEFINE l == Leave(u, s)
             e == Enqueue(l, s.item, "front")
  <2>1. Handoff(u, s) = SetBusy(e, FALSE)
    BY <1>3, Zenon DEF Handoff
  <2>2. Shows(l, up, q, B, f, {})
    BY ReadyLeaves
  <2> HIDE DEF l
  <2>3. Shows(e, up, <<s.item>> \o q, B, f, {})
    BY <2>2, EnqueueShows
  <2> HIDE DEF e
  <2>4. Shows(SetBusy(e, FALSE), up, <<s.item>> \o q, B, f, {})
    BY <2>3, BusyShows
  <2>5. s.item \in Item /\ ~up
    BY <1>1, <1>3 DEF Ready, IsSend
  <2>6. QED BY <2>1, <2>4, <2>5 DEF Result, Requeues, Queued
<1>4. QED BY <1>2, <1>3

LEMMA SubmittedResult ==
  ASSUME NEW u, NEW up, NEW q, NEW B, NEW f, NEW s, Ready(u, up, q, B, f, s), ~s.stale, s.item.cmd = None
  PROVE  Result(Submitted(u, s), up, q, B, f, s, TRUE)
<1> DEFINE i == s.item.of
           turn == IF u.task.live THEN u.task.turn ELSE u.active
           live == u.busy \/ (i \notin Attached /\ u.task.live)
<1>1. CASE Atomic \/ ~live
  <2>1. Submitted(u, s) = SendText(u, s)
    BY <1>1 DEF Submitted
  <2>2. Result(SendText(u, s), up, q, B, f, s, FALSE)
    BY SendTextResult
  <2>3. Result(SendText(u, s), up, q, B, f, s, TRUE)
    BY <2>2, Zenon DEF Result, Requeues, Pauses, Sends, Matches
  <2>4. QED BY <2>1, <2>3
<1>2. CASE ~(Atomic \/ ~live) /\ i \in Attached
  <2> DEFINE l == Leave(u, s)
  <2>1. Submitted(u, s) = Enqueue(l, s.item, "back")
    BY <1>2, Zenon DEF Submitted
  <2>2. Shows(l, up, q, B, f, {})
    BY ReadyLeaves
  <2> HIDE DEF l
  <2>3. Queued(Enqueue(l, s.item, "back"), up, q, B, f, s.item)
    BY <2>2, EnqueueShows DEF Queued
  <2>4. QED BY <2>1, <2>3 DEF Result, Requeues, Ready, IsSend
<1>3. CASE ~(Atomic \/ ~live) /\ i \notin Attached /\ turn # None
  <2>1. Submitted(u, s) = Ask(u, s, "compose", "steer", turn, None)
    BY <1>3 DEF Submitted
  <2> HIDE DEF turn
  <2>2. None \in Nat
    BY DEF None
  <2>3. PICK t, c : /\ IsSend(t) /\ t.item = s.item /\ t.at = "compose" /\ ~t.stale
                    /\ IsCall(c) /\ c.of = s.item.of /\ c.rpc = "asked" /\ ~c.lost /\ c.cmd = None /\ c.kind = "steer"
                    /\ Asks(Submitted(u, s), up, q, B, f, t, c)
    BY <2>1, <2>2, AskShows
  <2>4. QED BY <2>3 DEF Result, Sends, Matches
<1>4. CASE ~(Atomic \/ ~live) /\ i \notin Attached /\ turn = None
  <2>0. PICK yes : yes \in BOOLEAN /\ yes = TRUE
    OBVIOUS
  <2> DEFINE left == Leave(u, s)
             pending == [left.mark EXCEPT ![i] = "pending"]
             l == [left EXCEPT !.mark = pending]
             x == [s.item EXCEPT !.recorded = yes]
  <2>1. Submitted(u, s) = Enqueue(l, x, "back")
    <3> DEFINE y == [s.item EXCEPT !.recorded = TRUE]
    <3>1. Submitted(u, s) = Enqueue(l, y, "back")
      BY <1>4 DEF Submitted
    <3>2. x = y
      BY <2>0, Zenon
    <3> HIDE DEF x, y, l
    <3>3. QED BY <3>1, <3>2
  <2>2. x \in Item /\ x.of = s.item.of
    BY <2>0 DEF Ready, IsSend, Item
  <2>3. Shows(left, up, q, B, f, {})
    BY ReadyLeaves
  <2>4. Shows(l, up, q, B, f, {})
    <3> HIDE DEF left, pending
    <3>1. QED BY <2>3, MarkShows
  <2> HIDE DEF l, x
  <2>5. Queued(Enqueue(l, x, "back"), up, q, B, f, x)
    BY <2>4, EnqueueShows DEF Queued
  <2>6. QED BY <2>1, <2>2, <2>5 DEF Result, Requeues
<1>5. QED BY <1>1, <1>2, <1>3, <1>4

--------------------------------------------------------------------------------
(* The turn events, session.resume, and the close                                 *)

LEMMA ActiveShows ==
  ASSUME NEW u, NEW up, NEW q, NEW S, NEW f, NEW o, NEW active, Shows(u, up, q, S, f, o)
  PROVE  Shows([u EXCEPT !.active = active], up, q, S, f, o)
BY DEF Shows, Eager, Fields

LEMMA TaskShows ==
  ASSUME NEW u, NEW up, NEW q, NEW S, NEW f, NEW o, NEW task, Shows(u, up, q, S, f, o)
  PROVE  Shows([u EXCEPT !.task = task], up, q, S, f, o)
BY DEF Shows, Eager, Fields

LEMMA TurnStartShows ==
  ASSUME NEW u, NEW up, NEW q, NEW S, NEW f, NEW o, NEW turn, Shows(u, up, q, S, f, o)
  PROVE  Shows(TurnStart(u, turn), up, q, S, f, o)
<1> DEFINE v == [u EXCEPT !.active = turn]
           d == [u.dispatch EXCEPT !.turn = IF u.dispatch # NoDispatch /\ u.dispatch.turn = None THEN turn ELSE @]
           w == [v EXCEPT !.dispatch = d]
<1>1. Shows(v, up, q, S, f, o)
  BY ActiveShows
<1>2. v.dispatch = u.dispatch
  BY DEF Shows, Eager, Fields
<1>3. TurnStart(u, turn) = SetBusy(w, TRUE)
  BY <1>2, Zenon DEF TurnStart
<1> HIDE DEF v, d
<1>4. Shows(w, up, q, S, f, o)
  BY <1>1, DispatchShows
<1> HIDE DEF w
<1>5. QED BY <1>3, <1>4, BusyShows

LEMMA TaskStateShows ==
  ASSUME NEW u, NEW up, NEW q, NEW S, NEW f, NEW o, NEW turn, NEW live, Shows(u, up, q, S, f, o)
  PROVE  Shows(TaskState(u, turn, live), up, q, S, f, o)
<1> DEFINE task == [turn |-> turn, live |-> live]
           active == IF live THEN turn ELSE None
           v == [u EXCEPT !.task = task]
           w == [v EXCEPT !.active = active]
<1>1. TaskState(u, turn, live) = SetBusy(w, live)
  BY Zenon DEF TaskState
<1> HIDE DEF task, active
<1>2. Shows(v, up, q, S, f, o)
  BY TaskShows
<1> HIDE DEF v
<1>3. Shows(w, up, q, S, f, o)
  BY <1>2, ActiveShows
<1> HIDE DEF w
<1>4. QED BY <1>1, <1>3, BusyShows

LEMMA SendsShow ==
  ASSUME NEW u, NEW up, NEW q, NEW S, NEW f, NEW o, NEW T, Shows(u, up, q, S, f, o)
  PROVE  Shows([u EXCEPT !.sends = T], up, q, T, f, o)
BY DEF Shows, Eager, Fields

LEMMA CallerIsSend ==
  ASSUME NEW u, NEW item \in Item, NEW at \in Ats, NEW front
  PROVE  LET s == Caller(u, item, at, front) IN IsSend(s) /\ s.item = item /\ s.at = at /\ ~s.stale
<1> DEFINE n == Unused(u, item.of)
<1>0. PICK no : no \in BOOLEAN /\ no = FALSE
  OBVIOUS
<1> DEFINE s == [item |-> item, at |-> at, attempt |-> 0, front |-> front, stale |-> no, n |-> n]
<1>1. s = Caller(u, item, at, front)
  BY <1>0, Zenon DEF Caller
<1> HIDE DEF n
<1>2. IsSend(s) /\ s.item = item /\ s.at = at /\ ~s.stale
  BY <1>0 DEF IsSend
<1> HIDE DEF s
<1>3. QED BY <1>1, <1>2

\* The drain hands the first message of the queue over
HandsOver(v, up, q, S, f) ==
  q # <<>> /\ \E s : /\ IsSend(s) /\ s.item = Head(q) /\ s.at = "handoff" /\ ~s.stale
                     /\ Shows(v, up, Tail(q), S \cup {s}, f, {})

LEMMA DrainShows ==
  ASSUME NEW u, NEW up, NEW q \in Seq(Item), NEW S, NEW f, Shows(u, up, q, S, f, {})
  PROVE  Shows(Drain(u), up, q, S, f, {}) \/ HandsOver(Drain(u), up, q, S, f)
<1>1. CASE q = <<>>
  <2>1. Drain(u) = u
    BY <1>1 DEF Drain, Shows
  <2>2. QED BY <2>1
<1>2. CASE q # <<>>
  <2> DEFINE s == Caller(u, Head(q), "handoff", TRUE)
             b == SetBusy(u, TRUE)
             w == [b EXCEPT !.sends = S \cup {s}]
             update == [op |-> "set", items |-> Tail(q)]
  <2>1. Shows(b, up, q, S, f, {})
    BY BusyShows
  <2>2. u.queue = q /\ b.sends = S
    BY <2>1 DEF Shows
  <2>3. Drain(u) = SetQueue(w, update)
    BY <1>2, <2>2, Zenon DEF Drain
  <2>4. Head(q) \in Item /\ "handoff" \in Ats
    BY <1>2 DEF Ats
  <2>5. IsSend(s) /\ s.item = Head(q) /\ s.at = "handoff" /\ ~s.stale
    BY <2>4, CallerIsSend
  <2> HIDE DEF s, b
  <2>6. Shows(w, up, q, S \cup {s}, f, {})
    BY <2>1, SendsShow
  <2>7. Updated(q, update) = Tail(q)
    BY DEF Updated
  <2> HIDE DEF w, update
  <2>8. Shows(Drain(u), up, Tail(q), S \cup {s}, f, {})
    BY <2>3, <2>6, <2>7, SetShows
  <2>9. QED BY <1>2, <2>5, <2>8 DEF HandsOver
<1>3. QED BY <1>1, <1>2

LEMMA TurnEndShows ==
  ASSUME NEW u, NEW up, NEW q \in Seq(Item), NEW S, NEW f, NEW turn, Shows(u, up, q, S, f, {})
  PROVE  Shows(TurnEnd(u, turn), up, q, S, f, {}) \/ HandsOver(TurnEnd(u, turn), up, q, S, f)
<1>1. CASE ~IsCurrent(u, turn)
  BY <1>1 DEF TurnEnd
<1>2. CASE IsCurrent(u, turn)
  <2> DEFINE d == [u.dispatch EXCEPT !.completed = TRUE]
             c == [u EXCEPT !.dispatch = d]
             bound == IF u.dispatch.turn # turn THEN u ELSE ResolveUser(c, u.dispatch.of, TRUE)
             a == [bound EXCEPT !.active = None]
             task == [a.task EXCEPT !.live = a.task.live /\ u.task.turn # turn]
             over == [a EXCEPT !.task = task]
             b == SetBusy(over, FALSE)
  <2>1. Shows(c, up, q, S, f, {})
    <3> HIDE DEF d
    <3>1. QED BY DispatchShows
  <2>2. Shows(bound, up, q, S, f, {})
    <3> HIDE DEF c
    <3>1. QED BY <2>1, ResolveShows
  <2>3. TurnEnd(u, turn) = Drain(b)
    <3>1. bound = IF u.dispatch.turn # turn THEN u
                  ELSE ResolveUser([u EXCEPT !.dispatch.completed = TRUE], u.dispatch.of, TRUE)
      BY Zenon
    <3>2. DOMAIN bound = Fields
      BY <2>2 DEF Shows, Eager
    <3> HIDE DEF bound
    <3>3. a.task = bound.task
      BY <3>2 DEF Fields
    <3> DEFINE o == [bound EXCEPT !.active = None, !.task.live = @ /\ u.task.turn # turn]
    <3>4. o = over
      BY <3>3, Zenon
    <3>5. TurnEnd(u, turn) = Drain(SetBusy(o, FALSE))
      BY <1>2, <3>1, Zenon DEF TurnEnd
    <3> HIDE DEF o, over
    <3>6. QED BY <3>4, <3>5
  <2> HIDE DEF bound
  <2>4. Shows(a, up, q, S, f, {})
    BY <2>2, ActiveShows
  <2> HIDE DEF a, task
  <2>5. Shows(over, up, q, S, f, {})
    BY <2>4, TaskShows
  <2> HIDE DEF over
  <2>6. Shows(b, up, q, S, f, {})
    BY <2>5, BusyShows
  <2> HIDE DEF b
  <2>7. QED BY <2>3, <2>6, DrainShows
<1>3. QED BY <1>1, <1>2

LEMMA ResumedShows ==
  ASSUME NEW u, NEW up, NEW q, NEW S, NEW f, NEW o, NEW kept, Shows(u, up, q, S, f, o)
  PROVE  Shows(Resumed(u, kept), up, q, S, f, o)
<1> DEFINE mark == [i \in Inputs |-> IF i \in kept THEN u.mark[i] ELSE "none"]
           v == [u EXCEPT !.attached = TRUE]
           d == [v EXCEPT !.dirty = world.lazy]
           w == [d EXCEPT !.mark = mark]
<1>1. DOMAIN u = Fields /\ d.mark = u.mark
  BY DEF Shows, Eager, Fields
<1>2. Resumed(u, kept) = IF Atomic \/ serve.last = None THEN w
                         ELSE TaskState(w, serve.last, serve.turn # None)
  BY <1>1, Zenon DEF Resumed
<1>3. Shows(v, up, q, S, f, o)
  BY AttachedShows
<1> HIDE DEF v, mark
<1>4. Shows(d, up, q, S, f, o)
  BY <1>3 DEF Shows, Eager, Fields
<1> HIDE DEF d
<1>5. Shows(w, up, q, S, f, o)
  BY <1>4, MarkShows
<1> HIDE DEF w
<1>6. QED BY <1>2, <1>5, TaskStateShows

LEMMA ClearedShows ==
  ASSUME NEW u, NEW up, NEW q, NEW S, NEW f, NEW o, Shows(u, up, q, S, f, o)
  PROVE  Shows(Cleared(u), up, q, S, f, o)
BY DEF Cleared, Shows, Eager, Fields

\* The calls of sendText that a lost connection leaves
Abandoned(S) == {[s EXCEPT !.stale = s.at # "handoff"] : s \in {t \in S : t.at # "resume"}}
Dropped(f, q) == [i \in Inputs |-> IF i \in Of(q) THEN "dropped" ELSE f[i]]

LEMMA WaitingIsQueue ==
  ASSUME Eager(ui)
  PROVE  Waiting(ui) = ui.queue
<1>1. ui.updates = <<>> /\ ui.shown = ui.queue
  BY DEF Eager
<1>2. <<>> \in Seq(Item) /\ Len(<<>>) = 0
  OBVIOUS
<1>3. AfterUpdates(<<>>, 0, ui.shown)
  BY DEF AfterUpdates
<1>4. \A k \in 0..Len(<<>>) - 1 : \A d : AfterUpdates(<<>>, k, d) => AfterUpdates(<<>>, k + 1, Updated(d, <<>>[k + 1]))
  BY <1>2
<1>5. AfterUpdates(<<>>, Len(<<>>), Updates!FoldLeft(Updated, ui.shown, <<>>))
  BY <1>2, <1>3, <1>4, Updates!FoldLeftKeeps
<1>6. Updates!FoldLeft(Updated, ui.shown, <<>>) = FoldLeft(Updated, ui.shown, <<>>)
  BY Zenon DEF FoldLeft, Updates!FoldLeft, MapThenFoldSet, Updates!MapThenFoldSet, Max, Updates!Max
<1>7. QED BY <1>1, <1>2, <1>5, <1>6 DEF AfterUpdates, Waiting

LEMMA OnCloseShows ==
  ASSUME NEW q, NEW S, NEW f, Shows(ui, ui.up, q, S, f, {})
  PROVE  \E up : ~up /\ Shows(OnClose(ui), up, <<>>, Abandoned(S), Dropped(f, q), {})
<1> DEFINE v == Cleared(ui)
           f1 == [i \in Inputs |-> IF i \in Of(Waiting(ui)) THEN "dropped" ELSE v.fate[i]]
           S1 == {[s EXCEPT !.stale = s.at # "handoff"] : s \in {t \in v.sends : t.at # "resume"}}
<1>1. Shows(v, ui.up, q, S, f, {})
  BY ClearedShows
<1>2. Waiting(ui) = q
  BY WaitingIsQueue DEF Shows
<1>3. f1 = Dropped(f, q) /\ S1 = Abandoned(S)
  BY <1>1, <1>2 DEF Dropped, Abandoned, Shows
<1>4. PICK no : ~no /\ no = FALSE
  OBVIOUS
<1> DEFINE a == [v EXCEPT !.up = no]
           b == [a EXCEPT !.active = None]
           c == [b EXCEPT !.fate = f1]
           d == [c EXCEPT !.sends = S1]
<1>5. OnClose(ui) = PutQueue(d, <<>>)
  <2>1. DOMAIN v = Fields
    BY <1>1 DEF Shows, Eager
  <2> DEFINE n == [v EXCEPT !.up = FALSE, !.active = None,
                           !.fate = [i \in Inputs |-> IF i \in Of(Waiting(ui)) THEN "dropped" ELSE @[i]],
                           !.sends = {[s EXCEPT !.stale = s.at # "handoff"] : s \in {t \in @ : t.at # "resume"}}]
  <2>2. OnClose(ui) = PutQueue(n, <<>>)
    BY Zenon DEF OnClose
  <2> HIDE DEF v
  <2>3. b.fate = v.fate /\ c.sends = v.sends
    BY <2>1 DEF Fields
  <2>4. n = d
    BY <1>4, <2>3, Zenon
  <2> HIDE DEF n, d
  <2>5. QED BY <2>2, <2>4
<1> HIDE DEF v, f1, S1
<1>6. Shows(a, no, q, S, f, {})
  BY <1>1 DEF Shows, Eager, Fields
<1> HIDE DEF a
<1>7. Shows(b, no, q, S, f, {})
  BY <1>6, ActiveShows
<1> HIDE DEF b
<1>8. Shows(c, no, q, S, f1, {})
  BY <1>7 DEF Shows, Eager, Fields
<1> HIDE DEF c
<1>9. Shows(d, no, q, S1, f1, {})
  BY <1>8, SendsShow
<1> HIDE DEF d
<1>10. Shows(PutQueue(d, <<>>), no, <<>>, S1, f1, {})
  BY <1>9, PutShows
<1>11. QED BY <1>3, <1>4, <1>5, <1>10

--------------------------------------------------------------------------------
(* Where the inputs are. up: there is a connection; Q: the items of the queue; S:  *)
(* the calls of sendText; O: the inputs whose end the user does not know; C: the   *)
(* RPCs; W: the frames.                                                            *)

\* Each call of sendText is its input's own
SendsApart(up, S) ==
  /\ \A s \in S : /\ IsSend(s)
                  /\ s.stale => s.at \in {"pause", "recheck"}
                  /\ ~up => s.at = "handoff" \/ s.stale
                  /\ s.at = "compose" => s.item.cmd = None
  /\ \A s, t \in S : s.item.of = t.item.of /\ (s.at = "resume" <=> t.at = "resume") => s = t

\* An open input is in the queue or in a call of sendText, others are in neither
Held(S, i) == \E s \in S : s.at # "resume" /\ s.item.of = i
PlacesApart(Q, S, O) ==
  /\ Q \subseteq Item /\ O \subseteq Inputs
  /\ \A x, y \in Q : x.of = y.of => x = y
  /\ \A x \in Q : x.of \in O /\ ~Held(S, x.of)
  /\ \A i \in O : Held(S, i) \/ \E x \in Q : x.of = i
  /\ \A s \in S : s.at # "resume" => s.item.of \in O

\* An RPC has its call of sendText, or has lost it with the connection
Waited(S, i) == \E s \in S : s.at \in Awaiting /\ s.item.of = i
CallsApart(up, S, C) ==
  /\ \A c \in C : /\ IsCall(c) /\ c.rpc \in {"asked", "running"} \cup Answers
                  /\ c.lost <=> ~up
                  /\ c.lost => c.rpc = "asked" /\ ~Held(S, c.of)
                  /\ ~c.lost => Waited(S, c.of)
  /\ \A c, d \in C : c.of = d.of => c = d
  /\ \A s \in S, c \in C : s.at = "compose" /\ c.of = s.item.of =>
       c.cmd = None /\ c.kind = "steer" /\ c.rpc \in {"asked", "steered", "busy", "error"}

\* An answer has its call of sendText, and no RPC
IsFrame(m, up, S, C) ==
  m.of # None => /\ up /\ m.kind \in Answers /\ Waited(S, m.of)
                 /\ \A c \in C : c.of # m.of
                 /\ \A s \in S : s.at = "compose" /\ s.item.of = m.of => m.kind \in {"steered", "busy", "error"}
FramesApart(up, S, C, W) ==
  /\ W \in Seq(Range(W))
  /\ \A k \in DOMAIN W : IsFrame(W[k], up, S, C)
  /\ \A j, k \in DOMAIN W : W[j].of = W[k].of /\ W[j].of # None => j = k

Apartness(up, Q, S, O, C, W) ==
  SendsApart(up, S) /\ PlacesApart(Q, S, O) /\ CallsApart(up, S, C) /\ FramesApart(up, S, C, W)

Quiet(i, C) == \A c \in C : c.of # i
Unanswered(i, W) == \A k \in DOMAIN W : W[k].of # i

\* Nothing is on its way for an input that is in no call of sendText
LEMMA UnheldIsUnanswered ==
  ASSUME NEW up, NEW Q, NEW S, NEW O, NEW C, NEW W, Apartness(up, Q, S, O, C, W),
         NEW i \in Inputs, ~Waited(S, i)
  PROVE  Unanswered(i, W) /\ (up => Quiet(i, C))
<1>1. i # None
  BY Assumptions DEF None
<1>2. Unanswered(i, W)
  BY <1>1 DEF Apartness, FramesApart, IsFrame, Unanswered
<1>3. up => Quiet(i, C)
  BY DEF Apartness, CallsApart, Quiet
<1>4. QED BY <1>2, <1>3

LEMMA UnopenedIsUnheld ==
  ASSUME NEW up, NEW Q, NEW S, NEW O, NEW C, NEW W, Apartness(up, Q, S, O, C, W),
         NEW i \in Inputs, i \notin O
  PROVE  ~Held(S, i) /\ ~Waited(S, i) /\ \A x \in Q : x.of # i
BY DEF Apartness, PlacesApart, Held, Waited, Awaiting

\* The input i comes to the queue
LEMMA QueueKeeps ==
  ASSUME NEW up, NEW Q, NEW S, NEW O, NEW C, NEW W, NEW x \in Item, x.of \in O, O \subseteq Inputs,
         Apartness(up, Q, S, O \ {x.of}, C, W)
  PROVE  Apartness(up, Q \cup {x}, S, O, C, W)
<1>1. ~Held(S, x.of) /\ \A y \in Q : y.of # x.of
  BY UnopenedIsUnheld
<1>2. PlacesApart(Q \cup {x}, S, O)
  BY <1>1 DEF Apartness, PlacesApart
<1>3. QED BY <1>2 DEF Apartness

\* The input comes to a call of sendText
LEMMA HoldKeeps ==
  ASSUME NEW up, NEW Q, NEW S, NEW O, NEW C, NEW W, NEW t, IsSend(t), t.item.of \in O, O \subseteq Inputs,
         t.at # "resume", t.stale => t.at \in {"pause", "recheck"}, ~up => t.at = "handoff" \/ t.stale,
         t.at = "compose" => t.item.cmd = None, Quiet(t.item.of, C),
         Apartness(up, Q, S, O \ {t.item.of}, C, W)
  PROVE  Apartness(up, Q, S \cup {t}, O, C, W) /\ Unanswered(t.item.of, W)
<1> DEFINE i == t.item.of
           T == S \cup {t}
<1>1. ~Held(S, i) /\ ~Waited(S, i) /\ \A y \in Q : y.of # i
  BY UnopenedIsUnheld
<1>2. Unanswered(i, W)
  BY <1>1, UnheldIsUnanswered
<1>3. /\ Held(T, i)
      /\ \A j : j # i => (Held(T, j) <=> Held(S, j)) /\ (Waited(T, j) <=> Waited(S, j))
  BY DEF Held, Waited
<1>4. SendsApart(up, T)
  BY <1>1 DEF Apartness, SendsApart, Held
<1>5. PlacesApart(Q, T, O)
  <2>1. \A x \in Q : x.of \in O /\ ~Held(T, x.of)
    BY <1>1, <1>3 DEF Apartness, PlacesApart
  <2>2. \A j \in O : Held(T, j) \/ \E x \in Q : x.of = j
    BY <1>3 DEF Apartness, PlacesApart
  <2>3. QED BY <2>1, <2>2 DEF Apartness, PlacesApart
<1>6. CallsApart(up, T, C)
  BY <1>3 DEF Apartness, CallsApart, Quiet
<1>7. FramesApart(up, T, C, W)
  <2>1. ASSUME NEW k \in DOMAIN W PROVE IsFrame(W[k], up, T, C)
    <3>1. IsFrame(W[k], up, S, C) /\ W[k].of # i
      BY <1>2 DEF Apartness, FramesApart, Unanswered
    <3>2. QED BY <1>3, <3>1 DEF IsFrame
  <2>2. QED BY <2>1 DEF Apartness, FramesApart
<1>8. QED BY <1>2, <1>4, <1>5, <1>6, <1>7 DEF Apartness

\* It makes its RPC
LEMMA CallKeeps ==
  ASSUME NEW Q, NEW S, NEW O, NEW C, NEW W, NEW c, IsCall(c), c.rpc = "asked", ~c.lost, NEW up, up,
         Waited(S, c.of), Quiet(c.of, C), Unanswered(c.of, W), Apartness(up, Q, S, O, C, W),
         \A s \in S : s.at = "compose" /\ s.item.of = c.of => c.cmd = None /\ c.kind = "steer"
  PROVE  Apartness(up, Q, S, O, C \cup {c}, W)
<1>1. CallsApart(up, S, C \cup {c})
  BY DEF Apartness, CallsApart, Quiet
<1>2. FramesApart(up, S, C \cup {c}, W)
  BY DEF Apartness, FramesApart, IsFrame, Unanswered
<1>3. QED BY <1>1, <1>2 DEF Apartness

\* The input leaves the queue
LEMMA UnqueueKeeps ==
  ASSUME NEW up, NEW Q, NEW S, NEW O, NEW C, NEW W, NEW x \in Q, Apartness(up, Q, S, O, C, W)
  PROVE  /\ Apartness(up, Q \ {x}, S, O \ {x.of}, C, W)
         /\ x \in Item /\ x.of \in O /\ ~Held(S, x.of) /\ (up => Quiet(x.of, C))
<1>1. x \in Item /\ x.of \in Inputs /\ x.of \in O /\ ~Held(S, x.of)
  BY DEF Apartness, PlacesApart, Item
<1>2. PlacesApart(Q \ {x}, S, O \ {x.of})
  BY <1>1 DEF Apartness, PlacesApart, Held
<1>3. ~Waited(S, x.of)
  BY <1>1 DEF Held, Waited, Awaiting
<1>4. up => Quiet(x.of, C)
  BY <1>1, <1>3, UnheldIsUnanswered
<1>5. QED BY <1>1, <1>2, <1>4 DEF Apartness

\* The input leaves its call of sendText
LEMMA ReleaseKeeps ==
  ASSUME NEW up, NEW Q, NEW S, NEW O, NEW C, NEW W, NEW s \in S, s.at # "resume",
         Apartness(up, Q, S, O, C, W), Quiet(s.item.of, C), Unanswered(s.item.of, W)
  PROVE  /\ Apartness(up, Q, S \ {s}, O \ {s.item.of}, C, W)
         /\ s.item.of \in O /\ Apart(S \ {s}, s)
<1> DEFINE i == s.item.of
           T == S \ {s}
<1>1. IsSend(s) /\ i \in O /\ \A t \in T : t.item.of = i => t.at = "resume"
  BY DEF Apartness, SendsApart, PlacesApart
<1>2. /\ ~Held(T, i)
      /\ \A j : j # i => (Held(T, j) <=> Held(S, j)) /\ (Waited(T, j) <=> Waited(S, j))
      /\ \A j : Held(T, j) => Held(S, j)
  BY <1>1 DEF Held, Waited
<1>3. SendsApart(up, T)
  BY DEF Apartness, SendsApart
<1>4. PlacesApart(Q, T, O \ {i})
  <2>1. \A x \in Q : x.of # i
    <3>1. Held(S, i)
      BY DEF Held
    <3>2. QED BY <3>1 DEF Apartness, PlacesApart
  <2>2. \A x \in Q : x.of \in O \ {i} /\ ~Held(T, x.of)
    BY <1>2, <2>1 DEF Apartness, PlacesApart
  <2>3. \A j \in O \ {i} : Held(T, j) \/ \E x \in Q : x.of = j
    BY <1>2 DEF Apartness, PlacesApart
  <2>4. \A t \in T : t.at # "resume" => t.item.of \in O \ {i}
    BY <1>1 DEF Apartness, PlacesApart
  <2>5. QED BY <2>2, <2>3, <2>4 DEF Apartness, PlacesApart
<1>5. CallsApart(up, T, C)
  BY <1>2 DEF Apartness, CallsApart, Quiet
<1>6. FramesApart(up, T, C, W)
  <2>1. ASSUME NEW k \in DOMAIN W PROVE IsFrame(W[k], up, T, C)
    <3>1. IsFrame(W[k], up, S, C) /\ W[k].of # i
      BY DEF Apartness, FramesApart, Unanswered
    <3>2. QED BY <1>2, <3>1 DEF IsFrame
  <2>2. QED BY <2>1 DEF Apartness, FramesApart
<1>7. QED BY <1>1, <1>3, <1>4, <1>5, <1>6 DEF Apartness, Apart

\* A Retry resumes the session first, and that is over
LEMMA ResumeKeeps ==
  ASSUME NEW up, NEW Q, NEW S, NEW O, NEW C, NEW W, NEW s, s.at = "resume", Apartness(up, Q, S, O, C, W)
  PROVE  /\ Apartness(up, Q, S \ {s}, O, C, W)
         /\ up /\ IsSend(s) /\ ~s.stale /\ (\A t \in S : t.at = "resume" => t.item.of # s.item.of)
              => Apartness(up, Q, S \cup {s}, O, C, W)
<1>1. ASSUME NEW T, \A t : t # s => (t \in T <=> t \in S)
      PROVE  \A i : (Held(T, i) <=> Held(S, i)) /\ (Waited(T, i) <=> Waited(S, i))
  BY <1>1 DEF Held, Waited, Awaiting
<1>2. ASSUME NEW T, SendsApart(up, T), \A t : t # s => (t \in T <=> t \in S)
      PROVE  Apartness(up, Q, T, O, C, W)
  <2>1. \A i : (Held(T, i) <=> Held(S, i)) /\ (Waited(T, i) <=> Waited(S, i))
    BY <1>1, <1>2
  <2>2. PlacesApart(Q, T, O)
    BY <1>2, <2>1 DEF Apartness, PlacesApart
  <2>3. CallsApart(up, T, C)
    BY <1>2, <2>1 DEF Apartness, CallsApart
  <2>4. FramesApart(up, T, C, W)
    BY <1>2, <2>1 DEF Apartness, FramesApart, IsFrame
  <2>5. QED BY <1>2, <2>2, <2>3, <2>4 DEF Apartness
<1>3. Apartness(up, Q, S \ {s}, O, C, W)
  <2>1. SendsApart(up, S \ {s})
    BY DEF Apartness, SendsApart
  <2>2. QED BY <1>2, <2>1
<1>4. ASSUME up, IsSend(s), ~s.stale, \A t \in S : t.at = "resume" => t.item.of # s.item.of
      PROVE  Apartness(up, Q, S \cup {s}, O, C, W)
  <2>1. SendsApart(up, S \cup {s})
    BY <1>4 DEF Apartness, SendsApart
  <2>2. QED BY <1>2, <2>1
<1>5. QED BY <1>3, <1>4

LEMMA SeqOfLength ==
  ASSUME NEW R, NEW n \in Nat, NEW W \in [1..n -> R]
  PROVE  W \in Seq(R)
<1>1. W \in UNION {[1..k -> R] : k \in Nat}
  BY Zenon
<1>2. QED BY <1>1, SeqDef, Zenon

LEMMA SeqOverRange ==
  ASSUME NEW T, NEW W \in Seq(T)
  PROVE  W \in Seq(Range(W))
<1>1. \A k \in 1..Len(W) : W[k] \in Range(W)
  BY DEF Range
<1>2. W = [k \in 1..Len(W) |-> W[k]] /\ Len(W) \in Nat
  OBVIOUS
<1>3. W \in [1..Len(W) -> Range(W)]
  BY <1>1, <1>2
<1>4. \A R : \A n \in Nat : W \in [1..n -> R] => W \in Seq(R)
  BY SeqOfLength
<1>5. W \in [1..Len(W) -> Range(W)] => W \in Seq(Range(W))
  BY <1>2, <1>4
<1>6. QED BY <1>3, <1>5

LEMMA TailOfRange ==
  ASSUME NEW W, W \in Seq(Range(W)), W # <<>>
  PROVE  /\ Tail(W) \in Seq(Range(Tail(W))) /\ Len(W) \in Nat \ {0} /\ Head(W) = W[1] /\ 1 \in DOMAIN W
         /\ DOMAIN Tail(W) = 1..Len(W) - 1 /\ DOMAIN W = 1..Len(W)
         /\ \A k \in DOMAIN Tail(W) : Tail(W)[k] = W[k + 1] /\ k + 1 \in DOMAIN W /\ k + 1 # 1 /\ k \in Nat
<1> DEFINE R == Range(W)
<1>1. W \in Seq(R)
  OBVIOUS
<1> HIDE DEF R
<1>2. Tail(W) \in Seq(R)
  BY <1>1
<1>3. Tail(W) \in Seq(Range(Tail(W)))
  BY <1>2, SeqOverRange
<1>4. QED BY <1>1, <1>3

LEMMA AppendOfRange ==
  ASSUME NEW W, W \in Seq(Range(W)), NEW m
  PROVE  /\ Append(W, m) \in Seq(Range(Append(W, m))) /\ Len(W) \in Nat
         /\ DOMAIN Append(W, m) = 1..Len(W) + 1 /\ DOMAIN W = 1..Len(W)
         /\ \A k \in DOMAIN W : Append(W, m)[k] = W[k]
         /\ Append(W, m)[Len(W) + 1] = m
<1> DEFINE R == Range(W) \cup {m}
<1>1. W \in Seq(R) /\ m \in R
  <2>1. \A k \in 1..Len(W) : W[k] \in R
    OBVIOUS
  <2>2. QED BY <2>1
<1> HIDE DEF R
<1>2. Append(W, m) \in Seq(R)
  BY <1>1
<1>3. Append(W, m) \in Seq(Range(Append(W, m)))
  BY <1>2, SeqOverRange
<1>4. QED BY <1>1, <1>3

\* A frame is read
LEMMA TailKeeps ==
  ASSUME NEW up, NEW Q, NEW S, NEW O, NEW C, NEW W, W # <<>>, Apartness(up, Q, S, O, C, W)
  PROVE  /\ Apartness(up, Q, S, O, C, Tail(W))
         /\ IsFrame(Head(W), up, S, C)
         /\ Head(W).of # None => Quiet(Head(W).of, C) /\ Unanswered(Head(W).of, Tail(W))
<1>1. W \in Seq(Range(W))
  BY DEF Apartness, FramesApart
<1> DEFINE V == Tail(W)
<1>2. /\ V \in Seq(Range(V)) /\ Head(W) = W[1] /\ 1 \in DOMAIN W
      /\ \A k \in DOMAIN V : V[k] = W[k + 1] /\ k + 1 \in DOMAIN W /\ k + 1 # 1 /\ k \in Nat
  BY <1>1, TailOfRange
<1> HIDE DEF V
<1>3. FramesApart(up, S, C, V)
  <2>1. \A k \in DOMAIN V : IsFrame(V[k], up, S, C)
    BY <1>2 DEF Apartness, FramesApart
  <2>2. ASSUME NEW j \in DOMAIN V, NEW k \in DOMAIN V, V[j].of = V[k].of, V[j].of # None PROVE j = k
    <3>1. j + 1 = k + 1
      BY <1>2, <2>2 DEF Apartness, FramesApart
    <3>2. QED BY <1>2, <3>1
  <2>3. QED BY <1>2, <2>1, <2>2 DEF FramesApart
<1>4. IsFrame(Head(W), up, S, C)
  BY <1>2 DEF Apartness, FramesApart
<1>5. Head(W).of # None => Quiet(Head(W).of, C)
  BY <1>4 DEF IsFrame, Quiet
<1>6. Head(W).of # None => Unanswered(Head(W).of, V)
  BY <1>2 DEF Apartness, FramesApart, Unanswered
<1>7. QED BY <1>3, <1>4, <1>5, <1>6 DEF Apartness, V

\* Serve writes an event
LEMMA EventKeeps ==
  ASSUME NEW up, NEW Q, NEW S, NEW O, NEW C, NEW W, Apartness(up, Q, S, O, C, W), NEW m, m.of = None
  PROVE  Apartness(up, Q, S, O, C, Append(W, m))
<1> DEFINE V == Append(W, m)
<1>1. /\ V \in Seq(Range(V)) /\ Len(W) \in Nat /\ DOMAIN V = 1..Len(W) + 1 /\ DOMAIN W = 1..Len(W)
      /\ (\A k \in DOMAIN W : V[k] = W[k]) /\ V[Len(W) + 1] = m
  BY AppendOfRange DEF Apartness, FramesApart
<1> HIDE DEF V
<1>2. \A k \in DOMAIN V : k \in DOMAIN W \/ V[k] = m
  BY <1>1
<1>3. \A k \in DOMAIN V : IsFrame(V[k], up, S, C)
  <2>1. IsFrame(m, up, S, C)
    BY DEF IsFrame
  <2>2. QED BY <1>1, <1>2, <2>1 DEF Apartness, FramesApart
<1>4. \A j, k \in DOMAIN V : V[j].of = V[k].of /\ V[j].of # None => j = k
  BY <1>1, <1>2 DEF Apartness, FramesApart
<1>5. QED BY <1>1, <1>3, <1>4 DEF Apartness, FramesApart, V

\* Serve writes an answer
LEMMA AnswerKeeps ==
  ASSUME NEW up, NEW Q, NEW S, NEW O, NEW C, NEW W, Apartness(up, Q, S, O, C, W), NEW c \in C,
         c.rpc \notin {"asked", "running"}, NEW m, m.of = c.of, m.kind = c.rpc
  PROVE  Apartness(up, Q, S, O, C \ {c}, Append(W, m))
<1> DEFINE V == Append(W, m)
           D == C \ {c}
<1>1. /\ V \in Seq(Range(V)) /\ Len(W) \in Nat /\ DOMAIN V = 1..Len(W) + 1 /\ DOMAIN W = 1..Len(W)
      /\ (\A k \in DOMAIN W : V[k] = W[k]) /\ V[Len(W) + 1] = m
  BY AppendOfRange DEF Apartness, FramesApart
<1> HIDE DEF V
<1>2. \A k \in DOMAIN V : k \in DOMAIN W \/ k = Len(W) + 1
  BY <1>1
<1>3. c.rpc \in Answers /\ ~c.lost /\ up /\ Waited(S, c.of) /\ \A d \in D : d.of # c.of
  BY DEF Apartness, CallsApart
<1>4. IsFrame(m, up, S, D)
  BY <1>3 DEF Apartness, CallsApart, IsFrame
<1>5. \A k \in DOMAIN W : IsFrame(W[k], up, S, D) /\ W[k].of # m.of
  <2>1. m.of # None
    BY Assumptions DEF Apartness, CallsApart, IsCall, None
  <2>2. QED BY <2>1 DEF Apartness, FramesApart, IsFrame
<1>6. \A k \in DOMAIN V : IsFrame(V[k], up, S, D)
  BY <1>1, <1>2, <1>4, <1>5
<1>7. \A j, k \in DOMAIN V : V[j].of = V[k].of /\ V[j].of # None => j = k
  BY <1>1, <1>2, <1>5 DEF Apartness, FramesApart
<1>8. CallsApart(up, S, D)
  BY DEF Apartness, CallsApart
<1>9. QED BY <1>1, <1>6, <1>7, <1>8 DEF Apartness, FramesApart, V

\* Serve has dealt with an RPC that nobody waits for
LEMMA ForgetKeeps ==
  ASSUME NEW up, NEW Q, NEW S, NEW O, NEW C, NEW W, Apartness(up, Q, S, O, C, W), NEW c
  PROVE  Apartness(up, Q, S, O, C \ {c}, W)
<1>1. CallsApart(up, S, C \ {c}) /\ FramesApart(up, S, C \ {c}, W)
  BY DEF Apartness, CallsApart, FramesApart, IsFrame
<1>2. QED BY <1>1 DEF Apartness

\* Serve decides on an RPC
LEMMA DecideKeeps ==
  ASSUME NEW up, NEW Q, NEW S, NEW O, NEW C, NEW W, Apartness(up, Q, S, O, C, W), NEW c \in C, ~c.lost,
         NEW d, IsCall(d), d.of = c.of, d.cmd = c.cmd, d.kind = c.kind, ~d.lost,
         d.rpc \in {"asked", "running"} \cup Answers,
         \A s \in S : s.at = "compose" /\ s.item.of = c.of => d.rpc \in {"asked", "steered", "busy", "error"}
  PROVE  Apartness(up, Q, S, O, (C \ {c}) \cup {d}, W)
<1>1. CallsApart(up, S, (C \ {c}) \cup {d})
  BY DEF Apartness, CallsApart
<1>2. FramesApart(up, S, (C \ {c}) \cup {d}, W)
  BY DEF Apartness, FramesApart, IsFrame
<1>3. QED BY <1>1, <1>2 DEF Apartness

\* The turn of the RPCs that run is over
LEMMA RelabelKeeps ==
  ASSUME NEW up, NEW Q, NEW S, NEW O, NEW C, NEW W, Apartness(up, Q, S, O, C, W), NEW rpc \in Answers
  PROVE  Apartness(up, Q, S, O, {IF c.rpc = "running" THEN [c EXCEPT !.rpc = rpc] ELSE c : c \in C}, W)
<1> DEFINE D == {IF c.rpc = "running" THEN [c EXCEPT !.rpc = rpc] ELSE c : c \in C}
<1>1. ASSUME NEW d \in D
      PROVE  \E c \in C : /\ IsCall(d) /\ d.of = c.of /\ d.cmd = c.cmd /\ d.kind = c.kind /\ (d.lost <=> c.lost)
                          /\ d = c \/ (c.rpc = "running" /\ d = [c EXCEPT !.rpc = rpc] /\ d.rpc = rpc)
  <2>1. PICK c \in C : d = IF c.rpc = "running" THEN [c EXCEPT !.rpc = rpc] ELSE c
    OBVIOUS
  <2>2. IsCall(c)
    BY DEF Apartness, CallsApart
  <2>3. CASE c.rpc = "running"
    <3>1. d = [c EXCEPT !.rpc = rpc]
      BY <2>1, <2>3
    <3>2. IsCall(d) /\ d.of = c.of /\ d.cmd = c.cmd /\ d.kind = c.kind /\ (d.lost <=> c.lost) /\ d.rpc = rpc
      BY <2>2, <3>1 DEF IsCall
    <3>3. QED BY <2>3, <3>1, <3>2
  <2>4. CASE c.rpc # "running"
    BY <2>1, <2>2, <2>4
  <2>5. QED BY <2>3, <2>4
<1> HIDE DEF D
<1>2. CallsApart(up, S, D)
  <2>1. ASSUME NEW d \in D
        PROVE  /\ IsCall(d) /\ d.rpc \in {"asked", "running"} \cup Answers
               /\ d.lost <=> ~up
               /\ d.lost => d.rpc = "asked" /\ ~Held(S, d.of)
               /\ ~d.lost => Waited(S, d.of)
    BY <1>1 DEF Apartness, CallsApart
  <2>2. ASSUME NEW d \in D, NEW e \in D, d.of = e.of PROVE d = e
    <3>1. PICK a \in C : d.of = a.of /\ (d = a \/ (a.rpc = "running" /\ d = [a EXCEPT !.rpc = rpc] /\ d.rpc = rpc))
      BY <1>1
    <3>2. PICK b \in C : e.of = b.of /\ (e = b \/ (b.rpc = "running" /\ e = [b EXCEPT !.rpc = rpc] /\ e.rpc = rpc))
      BY <1>1
    <3>3. a = b
      BY <2>2, <3>1, <3>2 DEF Apartness, CallsApart
    <3>4. ASSUME NEW z \in D PROVE z.rpc # "running"
      BY DEF D, Answers, Apartness, CallsApart, IsCall
    <3>5. QED BY <3>1, <3>2, <3>3, <3>4
  <2>3. ASSUME NEW s \in S, NEW d \in D, s.at = "compose", d.of = s.item.of
        PROVE  d.cmd = None /\ d.kind = "steer" /\ d.rpc \in {"asked", "steered", "busy", "error"}
    <3>1. PICK c \in C : /\ d.of = c.of /\ d.cmd = c.cmd /\ d.kind = c.kind
                         /\ d = c \/ c.rpc = "running"
      BY <1>1
    <3>2. QED BY <2>3, <3>1 DEF Apartness, CallsApart
  <2>4. QED BY <2>1, <2>2, <2>3 DEF CallsApart
<1>3. FramesApart(up, S, D, W)
  <2>1. \A i : Quiet(i, C) => Quiet(i, D)
    BY <1>1 DEF Quiet
  <2>2. QED BY <2>1 DEF Apartness, FramesApart, IsFrame, Quiet
<1>4. QED BY <1>2, <1>3 DEF Apartness, D

--------------------------------------------------------------------------------
(* The queue, with the rest                                                       *)

Fates == {"unsent", "open", "sent", "failed", "cancelled", "dropped"}
Opened(f) == {i \in Inputs : f[i] = "open"}
IsQueue(q) == q \in Seq(Item) /\ \A j, k \in DOMAIN q : q[j].of = q[k].of => j = k

Whole(up, q, S, f, C, W) ==
  /\ IsQueue(q) /\ f \in [Inputs -> Fates] /\ IsFiniteSet(S)
  /\ Apartness(up, Range(q), S, Opened(f), C, W)

LEMMA PushQueue ==
  ASSUME NEW q, IsQueue(q), NEW x \in Item, \A y \in Range(q) : y.of # x.of
  PROVE  /\ IsQueue(<<x>> \o q) /\ Range(<<x>> \o q) = Range(q) \cup {x}
         /\ IsQueue(q \o <<x>>) /\ Range(q \o <<x>>) = Range(q) \cup {x}
<1>0. q \in Seq(Item) /\ <<x>> \in Seq(Item) /\ Len(<<x>>) = 1 /\ Len(q) \in Nat
  BY DEF IsQueue
<1> DEFINE n == Len(q)
           a == <<x>> \o q
           b == q \o <<x>>
<1>1. /\ a \in Seq(Item) /\ DOMAIN a = 1..n + 1 /\ DOMAIN q = 1..n /\ a[1] = x
      /\ \A k \in DOMAIN a : k # 1 => k - 1 \in DOMAIN q /\ a[k] = q[k - 1]
      /\ \A k \in DOMAIN q : k + 1 \in DOMAIN a /\ a[k + 1] = q[k]
  BY <1>0
<1>2. /\ b \in Seq(Item) /\ DOMAIN b = 1..n + 1 /\ b[n + 1] = x
      /\ \A k \in DOMAIN b : k # n + 1 => k \in DOMAIN q /\ b[k] = q[k]
      /\ \A k \in DOMAIN q : k \in DOMAIN b /\ b[k] = q[k]
  BY <1>0
<1> HIDE DEF a, b
<1>3. \A k \in DOMAIN q : q[k].of # x.of
  BY DEF Range
<1>4. IsQueue(a)
  <2>1. ASSUME NEW j \in DOMAIN a, NEW k \in DOMAIN a, a[j].of = a[k].of PROVE j = k
    <3>1. CASE j = 1 \/ k = 1
      BY <1>1, <1>3, <2>1, <3>1
    <3>2. CASE j # 1 /\ k # 1
      <4>1. j - 1 = k - 1
        BY <1>1, <2>1, <3>2 DEF IsQueue
      <4>2. QED BY <1>1, <4>1
    <3>3. QED BY <3>1, <3>2
  <2>2. QED BY <1>1, <2>1 DEF IsQueue
<1>5. IsQueue(b)
  <2>1. ASSUME NEW j \in DOMAIN b, NEW k \in DOMAIN b, b[j].of = b[k].of PROVE j = k
    <3>1. CASE j = n + 1 \/ k = n + 1
      BY <1>2, <1>3, <2>1, <3>1
    <3>2. CASE j # n + 1 /\ k # n + 1
      BY <1>2, <2>1, <3>2 DEF IsQueue
    <3>3. QED BY <3>1, <3>2
  <2>2. QED BY <1>2, <2>1 DEF IsQueue
<1>6. Range(a) = Range(q) \cup {x}
  <2>1. ASSUME NEW y \in Range(a) PROVE y \in Range(q) \cup {x}
    BY <1>1 DEF Range
  <2>2. ASSUME NEW y \in Range(q) PROVE y \in Range(a)
    BY <1>1 DEF Range
  <2>3. x \in Range(a)
    <3>1. 1 \in DOMAIN a
      BY <1>0, <1>1
    <3>2. QED BY <1>1, <3>1 DEF Range
  <2>4. QED BY <2>1, <2>2, <2>3
<1>7. Range(b) = Range(q) \cup {x}
  <2>1. ASSUME NEW y \in Range(b) PROVE y \in Range(q) \cup {x}
    BY <1>2 DEF Range
  <2>2. ASSUME NEW y \in Range(q) PROVE y \in Range(b)
    BY <1>2 DEF Range
  <2>3. x \in Range(b)
    <3>1. n + 1 \in DOMAIN b
      BY <1>0, <1>2
    <3>2. QED BY <1>2, <3>1 DEF Range
  <2>4. QED BY <2>1, <2>2, <2>3
<1>8. QED BY <1>4, <1>5, <1>6, <1>7 DEF a, b

LEMMA RemoveQueue ==
  ASSUME NEW q, IsQueue(q), NEW k \in DOMAIN q
  PROVE  /\ IsQueue(RemoveAt(q, k)) /\ Range(RemoveAt(q, k)) = Range(q) \ {q[k]}
         /\ q[k] \in Range(q)
<1> DEFINE n == Len(q)
           r == RemoveAt(q, k)
<1>0. q \in Seq(Item) /\ n \in Nat /\ DOMAIN q = 1..n /\ k \in 1..n
  BY DEF IsQueue
<1>1. r \in Seq(Item) /\ Len(r) = n - 1 /\ \A j \in 1..n - 1 : r[j] = IF j < k THEN q[j] ELSE q[j + 1]
  <2> DEFINE a == SubSeq(q, 1, k - 1)
             b == SubSeq(q, k + 1, n)
  <2>1. a \in Seq(Item) /\ Len(a) = k - 1 /\ \A j \in 1..k - 1 : a[j] = q[j]
    BY <1>0
  <2>2. b \in Seq(Item) /\ Len(b) = n - k /\ \A j \in 1..n - k : b[j] = q[k + j]
    BY <1>0
  <2>3. r = a \o b
    BY DEF RemoveAt
  <2> HIDE DEF a, b, r, n
  <2>4. r \in Seq(Item) /\ Len(r) = (k - 1) + (n - k)
    <3>1. a \o b \in Seq(Item) /\ Len(a \o b) = Len(a) + Len(b)
      BY <2>1, <2>2
    <3>2. QED BY <2>1, <2>2, <2>3, <3>1
  <2>5. \A j \in 1..(k - 1) + (n - k) : r[j] = IF j <= k - 1 THEN a[j] ELSE b[j - (k - 1)]
    <3>1. \A j \in 1..Len(a) + Len(b) : (a \o b)[j] = IF j <= Len(a) THEN a[j] ELSE b[j - Len(a)]
      BY <2>1, <2>2
    <3>2. QED BY <2>1, <2>2, <2>3, <3>1
  <2>6. Len(r) = n - 1 /\ (k - 1) + (n - k) = n - 1
    BY <1>0, <2>4
  <2>7. ASSUME NEW j \in 1..n - 1 PROVE r[j] = IF j < k THEN q[j] ELSE q[j + 1]
    <3>1. CASE j < k
      <4>1. j <= k - 1 /\ j \in 1..k - 1
        BY <1>0, <3>1
      <4>2. QED BY <2>1, <2>5, <2>6, <3>1, <4>1
    <3>2. CASE ~(j < k)
      <4>1. ~(j <= k - 1) /\ j - (k - 1) \in 1..n - k /\ k + (j - (k - 1)) = j + 1
        BY <1>0, <3>2
      <4>2. QED BY <2>2, <2>5, <2>6, <3>2, <4>1
    <3>3. QED BY <3>1, <3>2
  <2>8. QED BY <2>4, <2>6, <2>7
<1>2. DOMAIN r = 1..n - 1
  BY <1>0, <1>1
<1> HIDE DEF r, n
<1> DEFINE old(j) == IF j < k THEN j ELSE j + 1
<1>3. \A j \in DOMAIN r : r[j] = q[old(j)] /\ old(j) \in DOMAIN q /\ old(j) # k /\ j \in Nat
  BY <1>0, <1>1, <1>2
<1>4. \A j, l \in DOMAIN r : old(j) = old(l) => j = l
  BY <1>2, <1>0
<1>5. \A m \in DOMAIN q : m # k => \E j \in DOMAIN r : old(j) = m
  <2>1. ASSUME NEW m \in DOMAIN q, m < k PROVE m \in DOMAIN r /\ old(m) = m
    BY <1>0, <1>2, <2>1
  <2>2. ASSUME NEW m \in DOMAIN q, m > k PROVE m - 1 \in DOMAIN r /\ old(m - 1) = m
    BY <1>0, <1>2, <2>2
  <2>3. QED BY <1>0, <2>1, <2>2
<1> HIDE DEF old
<1>6. IsQueue(r)
  BY <1>1, <1>3, <1>4 DEF IsQueue
<1>7. Range(r) \subseteq Range(q) \ {q[k]}
  BY <1>3 DEF Range, IsQueue
<1>8. Range(q) \ {q[k]} \subseteq Range(r)
  <2>1. ASSUME NEW y \in Range(q), y # q[k] PROVE y \in Range(r)
    <3>1. PICK m \in DOMAIN q : y = q[m]
      BY DEF Range
    <3>2. PICK j \in DOMAIN r : old(j) = m
      BY <1>5, <2>1, <3>1
    <3>3. y = r[j]
      BY <1>3, <3>1, <3>2
    <3>4. QED BY <3>3 DEF Range
  <2>2. QED BY <2>1
<1>9. QED BY <1>6, <1>7, <1>8 DEF Range, r

LEMMA PopQueue ==
  ASSUME NEW q, IsQueue(q), q # <<>>
  PROVE  IsQueue(Tail(q)) /\ Range(Tail(q)) = Range(q) \ {Head(q)} /\ Head(q) \in Range(q)
<1> DEFINE n == Len(q)
           t == Tail(q)
<1>1. /\ q \in Seq(Item) /\ n \in Nat /\ n # 0 /\ DOMAIN q = 1..n /\ Head(q) = q[1] /\ 1 \in DOMAIN q
      /\ t \in Seq(Item) /\ DOMAIN t = 1..n - 1
      /\ \A k \in DOMAIN t : t[k] = q[k + 1] /\ k + 1 \in DOMAIN q
      /\ \A k \in DOMAIN q : k # 1 => k - 1 \in DOMAIN t /\ t[k - 1] = q[k]
  BY DEF IsQueue
<1> HIDE DEF t
<1>2. IsQueue(t)
  <2>1. ASSUME NEW j \in DOMAIN t, NEW k \in DOMAIN t, t[j].of = t[k].of PROVE j = k
    <3>1. j + 1 = k + 1
      BY <1>1, <2>1 DEF IsQueue
    <3>2. QED BY <1>1, <3>1
  <2>2. QED BY <1>1, <2>1 DEF IsQueue
<1>3. Head(q) \in Range(q)
  BY <1>1 DEF Range
<1>4. Range(t) \subseteq Range(q) \ {Head(q)}
  <2>1. ASSUME NEW k \in DOMAIN t PROVE t[k] \in Range(q) /\ t[k] # Head(q)
    <3>1. t[k] = q[k + 1] /\ k + 1 \in DOMAIN q /\ k + 1 # 1
      BY <1>1
    <3>2. q[k + 1].of # q[1].of
      BY <1>1, <3>1 DEF IsQueue
    <3>3. QED BY <1>1, <3>1, <3>2 DEF Range
  <2>2. QED BY <2>1 DEF Range
<1>5. Range(q) \ {Head(q)} \subseteq Range(t)
  <2>1. ASSUME NEW k \in DOMAIN q, q[k] # Head(q) PROVE q[k] \in Range(t)
    <3>1. k - 1 \in DOMAIN t /\ t[k - 1] = q[k]
      BY <1>1, <2>1
    <3>2. QED BY <3>1 DEF Range
  <2>2. QED BY <2>1 DEF Range
<1>6. QED BY <1>2, <1>3, <1>4, <1>5 DEF t

LEMMA OpenedExcept ==
  ASSUME NEW f \in [Inputs -> Fates], NEW i \in Inputs, NEW how \in Fates
  PROVE  /\ [f EXCEPT ![i] = how] \in [Inputs -> Fates]
         /\ how # "open" => Opened([f EXCEPT ![i] = how]) = Opened(f) \ {i}
         /\ how = "open" => Opened([f EXCEPT ![i] = how]) = Opened(f) \cup {i}
BY DEF Opened

\* The input of s is nowhere but in s
Parked(up, q, B, f, s, C, W) ==
  /\ IsQueue(q) /\ f \in [Inputs -> Fates] /\ IsFiniteSet(B) /\ IsSend(s)
  /\ f[s.item.of] = "open" /\ Quiet(s.item.of, C)
  /\ Apartness(up, Range(q), B, Opened(f) \ {s.item.of}, C, W)

\* A step of the renderer leaves its state at v
Stands(v, up, C, W) ==
  /\ Eager(v) /\ (v.up <=> up) /\ Whole(up, v.queue, v.sends, v.fate, C \cup v.out, W)
  /\ v.out = {} \/ \E c : IsCall(c) /\ v.out = {c}

LEMMA EndKeeps ==
  ASSUME NEW v, NEW up, NEW q, NEW B, NEW f, NEW s, NEW C, NEW W, Parked(up, q, B, f, s, C, W),
         NEW how \in Fates, how # "open", Shows(v, up, q, B, [f EXCEPT ![s.item.of] = how], {})
  PROVE  Stands(v, up, C, W)
<1> DEFINE i == s.item.of
           g == [f EXCEPT ![i] = how]
<1>1. i \in Inputs
  BY DEF Parked, IsSend, Item
<1>2. g \in [Inputs -> Fates] /\ Opened(g) = Opened(f) \ {i}
  BY <1>1, OpenedExcept DEF Parked
<1> HIDE DEF g
<1>3. Whole(up, q, B, g, C \cup {}, W)
  BY <1>2 DEF Parked, Whole
<1>4. QED BY <1>3 DEF Stands, Shows, g

LEMMA RequeueKeeps ==
  ASSUME NEW v, NEW up, NEW q, NEW B, NEW f, NEW s, NEW C, NEW W, Parked(up, q, B, f, s, C, W),
         NEW x \in Item, x.of = s.item.of, Queued(v, up, q, B, f, x)
  PROVE  Stands(v, up, C, W)
<1>1. x.of \in Opened(f) /\ Opened(f) \subseteq Inputs
  BY DEF Parked, IsSend, Item, Opened
<1>2. \A y \in Range(q) : y.of # x.of
  BY DEF Parked, Apartness, PlacesApart
<1>3. Apartness(up, Range(q) \cup {x}, B, Opened(f), C, W)
  BY <1>1, QueueKeeps DEF Parked
<1>4. /\ IsQueue(<<x>> \o q) /\ Range(<<x>> \o q) = Range(q) \cup {x}
      /\ IsQueue(q \o <<x>>) /\ Range(q \o <<x>>) = Range(q) \cup {x}
  BY <1>2, PushQueue DEF Parked
<1>5. ASSUME NEW p, IsQueue(p), Range(p) = Range(q) \cup {x}, Shows(v, up, p, B, f, {})
      PROVE  Stands(v, up, C, W)
  <2>1. Whole(up, p, B, f, C \cup {}, W)
    BY <1>3, <1>5 DEF Parked, Whole
  <2>2. QED BY <1>5, <2>1 DEF Stands, Shows
<1>6. QED BY <1>4, <1>5 DEF Queued

LEMMA HoldStands ==
  ASSUME NEW v, NEW up, NEW q, NEW B, NEW f, NEW s, NEW C, NEW W, Parked(up, q, B, f, s, C, W),
         NEW t, IsSend(t), t.item.of = s.item.of, t.at # "resume", t.stale => t.at \in {"pause", "recheck"},
         ~up => t.at = "handoff" \/ t.stale, t.at = "compose" => t.item.cmd = None,
         NEW o, Shows(v, up, q, B \cup {t}, f, o),
         o = {} \/ \E c : /\ IsCall(c) /\ o = {c} /\ c.of = t.item.of /\ c.rpc = "asked" /\ ~c.lost /\ up
                          /\ t.at \in Awaiting /\ (t.at = "compose" => c.cmd = None /\ c.kind = "steer")
  PROVE  Stands(v, up, C, W)
<1> DEFINE i == t.item.of
           O == Opened(f)
           S == B \cup {t}
           Q == Range(q)
<1>1. i \in O /\ O \subseteq Inputs /\ Quiet(i, C)
  BY DEF Parked, IsSend, Item, Opened
<1>2. Apartness(up, Q, B, O \ {i}, C, W)
  BY DEF Parked
<1> HIDE DEF O, Q
<1>3. Apartness(up, Q, S, O, C, W) /\ Unanswered(i, W)
  BY <1>1, <1>2, HoldKeeps
<1>4. Apartness(up, Q, S, O, C \cup o, W)
  <2>1. CASE o = {}
    <3>1. C \cup o = C
      BY <2>1
    <3>2. QED BY <1>3, <3>1
  <2>2. ASSUME NEW c, IsCall(c), o = {c}, c.of = t.item.of, c.rpc = "asked", ~c.lost, up, t.at \in Awaiting,
               t.at = "compose" => c.cmd = None /\ c.kind = "steer"
        PROVE  Apartness(up, Q, S, O, C \cup o, W)
    <3>1. Waited(S, c.of)
      BY <2>2 DEF Waited
    <3>2. \A r \in S : r.at = "compose" /\ r.item.of = c.of => c.cmd = None /\ c.kind = "steer"
      BY <1>3, <2>2 DEF Apartness, SendsApart
    <3> HIDE DEF S
    <3>3. QED BY <1>1, <1>3, <2>2, <3>1, <3>2, CallKeeps
  <2>3. QED BY <2>1, <2>2
<1>5. IsFiniteSet(S)
  BY FS_AddElement DEF Parked
<1>6. Whole(up, q, S, f, C \cup o, W)
  BY <1>4, <1>5 DEF Whole, Parked, O, Q
<1>7. QED BY <1>6 DEF Stands, Shows

LEMMA ResultKeeps ==
  ASSUME NEW v, NEW up, NEW q, NEW B, NEW f, NEW s, NEW C, NEW W, Parked(up, q, B, f, s, C, W),
         Result(v, up, q, B, f, s, TRUE), up \/ s.stale
  PROVE  Stands(v, up, C, W)
<1>1. CASE Ended(v, up, q, B, f, s.item.of)
  BY <1>1, EndKeeps DEF Ended, Fates
<1>2. CASE Requeues(v, up, q, B, f, s, TRUE)
  BY <1>2, RequeueKeeps DEF Requeues
<1>3. CASE Pauses(v, up, q, B, f, s, TRUE)
  <2>1. PICK t : /\ IsSend(t) /\ t.item = s.item /\ t.at \in {"pause", "recheck"} /\ (t.stale <=> s.stale)
                 /\ Shows(v, up, q, B \cup {t}, f, {})
    BY <1>3 DEF Pauses, Waits
  <2>2. QED BY <2>1, HoldStands
<1>4. CASE Sends(v, up, q, B, f, s, TRUE)
  <2>1. PICK t, c : /\ IsSend(t) /\ t.item.of = s.item.of /\ ~t.stale /\ ~s.stale
                    /\ IsCall(c) /\ c.of = s.item.of /\ c.rpc = "asked" /\ ~c.lost
                    /\ Matches(t, c, s, TRUE) /\ Shows(v, up, q, B \cup {t}, f, {c})
    BY <1>4 DEF Sends, Asks
  <2>2. t.at \in Awaiting /\ (t.at = "compose" => t.item.cmd = None /\ c.cmd = None /\ c.kind = "steer")
    BY <2>1 DEF Matches, Awaiting
  <2>3. t.at # "resume" /\ up
    BY <2>1, <2>2 DEF Awaiting
  <2> DEFINE o == {c}
  <2>4. o = {} \/ \E d : /\ IsCall(d) /\ o = {d} /\ d.of = t.item.of /\ d.rpc = "asked" /\ ~d.lost /\ up
                         /\ t.at \in Awaiting /\ (t.at = "compose" => d.cmd = None /\ d.kind = "steer")
    BY <2>1, <2>2, <2>3
  <2> HIDE DEF o
  <2>5. Shows(v, up, q, B \cup {t}, f, o)
    BY <2>1 DEF o
  <2>6. QED BY <2>2, <2>1, <2>3, <2>4, <2>5, HoldStands
<1>5. QED BY <1>1, <1>2, <1>3, <1>4 DEF Result

--------------------------------------------------------------------------------
(* What Serve has taken: ran, and the receipts R it keeps of it. An input that may *)
(* be sent again has not been taken, or goes under the id of a receipt.            *)

Safe(ran, R, i, cmd) == ran[i] = 0 \/ (cmd # None /\ \E r \in R : r.of = i /\ r.cmd = cmd)

SendsSafe(ran, R, Q, S, C) ==
  \A s \in S :
    /\ s.at = "handoff" => Safe(ran, R, s.item.of, s.item.cmd)
    /\ s.at \in {"pause", "recheck"} => ran[s.item.of] = 0
    /\ s.at = "call" /\ Durable => /\ s.item.cmd # None /\ Safe(ran, R, s.item.of, s.item.cmd)
                                   /\ \A c \in C : c.of = s.item.of => c.cmd = s.item.cmd
    /\ s.at = "resume" => \A x \in Q : x.of = s.item.of => Safe(ran, R, s.item.of, s.item.cmd)
QueueSafe(ran, R, Q, C) ==
  /\ \A x \in Q : Safe(ran, R, x.of, x.cmd)
  /\ \A x \in Q, c \in C : x.of = c.of => Durable /\ c.cmd # None /\ x.cmd = c.cmd
CallsSafe(ran, R, C) ==
  \A c \in C : /\ c.rpc = "asked" => Safe(ran, R, c.of, c.cmd)
               /\ c.rpc \in {"not_submitted", "busy"} => ran[c.of] = 0
               /\ c.rpc # "unknown"
FrameSafe(ran, m) ==
  m.of # None => m.kind # "unknown" /\ (m.kind \in {"not_submitted", "busy"} => ran[m.of] = 0)

Sound(ran, R, Q, S, f, C, W) ==
  /\ ran \in [Inputs -> {0, 1}]
  /\ \A i \in Inputs : f[i] = "unsent" => ran[i] = 0 /\ Quiet(i, C)
  /\ SendsSafe(ran, R, Q, S, C) /\ QueueSafe(ran, R, Q, C) /\ CallsSafe(ran, R, C)
  /\ \A k \in DOMAIN W : FrameSafe(ran, W[k])

\* It survives whatever is taken away
LEMMA LessIsSound ==
  ASSUME NEW ran, NEW R, NEW Q, NEW S, NEW f, NEW C, NEW W, Sound(ran, R, Q, S, f, C, W),
         NEW P, NEW T, NEW g, P \subseteq Q, T \subseteq S, \A i \in Inputs : g[i] = "unsent" => f[i] = "unsent"
  PROVE  Sound(ran, R, P, T, g, C, W)
<1>1. SendsSafe(ran, R, P, T, C)
  BY DEF Sound, SendsSafe
<1>2. QueueSafe(ran, R, P, C)
  BY DEF Sound, QueueSafe
<1>3. QED BY <1>1, <1>2 DEF Sound

\* What a step of the renderer leaves, as far as the receipts are good
Lands(v, up, C, W) ==
  /\ Stands(v, up, C, W)
  /\ ~world.loses => Sound(serve.ran, serve.receipts, Range(v.queue), v.sends, v.fate, C \cup v.out, W)

\* The part of it that the call s is not in
Kept(q, B, f, C, W) ==
  ~world.loses => Sound(serve.ran, serve.receipts, Range(q), B, f, C, W)
Untaken(i) == ~world.loses => serve.ran[i] = 0
Takeable(item) == ~world.loses => Safe(serve.ran, serve.receipts, item.of, item.cmd)

LEMMA EndLands ==
  ASSUME NEW v, NEW up, NEW q, NEW B, NEW f, NEW s, NEW C, NEW W, Parked(up, q, B, f, s, C, W),
         Kept(q, B, f, C, W), Ended(v, up, q, B, f, s.item.of)
  PROVE  Lands(v, up, C, W)
<1>1. PICK how \in {"sent", "failed"} : Shows(v, up, q, B, [f EXCEPT ![s.item.of] = how], {})
  BY DEF Ended
<1> DEFINE g == [f EXCEPT ![s.item.of] = how]
<1>2. how \in Fates /\ how # "open" /\ how # "unsent"
  BY DEF Fates
<1>3. Stands(v, up, C, W)
  BY <1>1, <1>2, EndKeeps
<1>4. \A i \in Inputs : g[i] = "unsent" => f[i] = "unsent"
  BY <1>2 DEF Parked
<1> HIDE DEF g
<1>5. ~world.loses => Sound(serve.ran, serve.receipts, Range(q), B, g, C, W)
  BY <1>4, LessIsSound DEF Kept
<1>6. C \cup {} = C
  OBVIOUS
<1>7. v.queue = q /\ v.sends = B /\ v.fate = g /\ v.out = {}
  BY <1>1 DEF Shows, g
<1>8. QED BY <1>3, <1>5, <1>6, <1>7 DEF Lands

\* The input comes to the queue
LEMMA RequeueLands ==
  ASSUME NEW v, NEW up, NEW q, NEW B, NEW f, NEW s, NEW C, NEW W, Parked(up, q, B, f, s, C, W),
         Kept(q, B, f, C, W), NEW x \in Item, x.of = s.item.of, Queued(v, up, q, B, f, x),
         Takeable(x), Untaken(x.of) \/ ~up
  PROVE  Lands(v, up, C, W)
<1>1. Stands(v, up, C, W)
  BY RequeueKeeps
<1>2. v.sends = B /\ v.fate = f /\ v.out = {} /\ Range(v.queue) = Range(q) \cup {x}
  <2>1. \A y \in Range(q) : y.of # x.of
    BY DEF Parked, Apartness, PlacesApart
  <2>2. Range(<<x>> \o q) = Range(q) \cup {x} /\ Range(q \o <<x>>) = Range(q) \cup {x}
    BY <2>1, PushQueue DEF Parked
  <2>3. v.queue \in {<<x>> \o q, q \o <<x>>} /\ v.sends = B /\ v.fate = f /\ v.out = {}
    BY DEF Queued, Shows
  <2>4. QED BY <2>2, <2>3
<1>3. ASSUME ~world.loses
      PROVE  Sound(serve.ran, serve.receipts, Range(q) \cup {x}, B, f, C, W)
  <2> DEFINE ran == serve.ran
             R == serve.receipts
             Q == Range(q)
  <2>1. Sound(ran, R, Q, B, f, C, W) /\ Safe(ran, R, x.of, x.cmd) /\ (ran[x.of] = 0 \/ ~up)
    BY <1>3 DEF Kept, Takeable, Untaken
  <2>2. \A c \in C : c.of # x.of
    BY DEF Parked, Quiet
  <2>3. \A r \in B : r.at = "resume" => up
    BY DEF Parked, Apartness, SendsApart
  <2> HIDE DEF Q, ran, R
  <2>4. QueueSafe(ran, R, Q \cup {x}, C)
    BY <2>1, <2>2 DEF Sound, QueueSafe
  <2>5. SendsSafe(ran, R, Q \cup {x}, B, C)
    <3>1. ASSUME NEW r \in B, r.at = "resume", NEW y \in Q \cup {x}, y.of = r.item.of
          PROVE  Safe(ran, R, r.item.of, r.item.cmd)
      <4>1. CASE y \in Q
        BY <2>1, <3>1, <4>1 DEF Sound, SendsSafe
      <4>2. CASE y = x
        BY <2>1, <2>3, <3>1, <4>2 DEF Safe
      <4>3. QED BY <4>1, <4>2
    <3>2. QED BY <2>1, <3>1 DEF Sound, SendsSafe
  <2>6. QED BY <2>1, <2>4, <2>5 DEF Sound, Q, ran, R
<1>4. C \cup {} = C
  OBVIOUS
<1>5. QED BY <1>1, <1>2, <1>3, <1>4 DEF Lands

\* The input comes to a call of sendText, which may make its RPC
LEMMA HoldLands ==
  ASSUME NEW v, NEW up, NEW q, NEW B, NEW f, NEW s, NEW C, NEW W, Parked(up, q, B, f, s, C, W),
         Kept(q, B, f, C, W), NEW t, t.item.of = s.item.of, t.at # "resume",
         t.at = "handoff" => Takeable(t.item),
         t.at \in {"pause", "recheck"} => Untaken(t.item.of),
         t.at = "call" /\ Durable => t.item.cmd # None /\ Takeable(t.item),
         NEW o, Shows(v, up, q, B \cup {t}, f, o), Stands(v, up, C, W),
         o = {} \/ \E c : /\ o = {c} /\ c.of = t.item.of /\ c.rpc = "asked"
                          /\ ~world.loses => Safe(serve.ran, serve.receipts, c.of, c.cmd)
                          /\ t.at = "call" /\ Durable => c.cmd = t.item.cmd
  PROVE  Lands(v, up, C, W)
<1> DEFINE ran == serve.ran
           R == serve.receipts
           Q == Range(q)
           D == C \cup o
           i == t.item.of
<1>1. SUFFICES ASSUME ~world.loses PROVE Sound(ran, R, Q, B \cup {t}, f, D, W)
  <2>1. v.queue = q /\ v.sends = B \cup {t} /\ v.fate = f /\ v.out = o
    BY DEF Shows
  <2>2. QED BY <2>1 DEF Lands
<1>2. Sound(ran, R, Q, B, f, C, W)
  BY <1>1 DEF Kept
<1>3. \A c \in o : c.of = i /\ c.rpc = "asked" /\ Safe(ran, R, c.of, c.cmd) /\ (t.at = "call" /\ Durable => c.cmd = t.item.cmd)
  BY <1>1
<1>4. /\ \A c \in C : c.of # i
      /\ \A x \in Q : x.of # i
      /\ \A r \in B : r.at # "resume" => r.item.of # i
      /\ f[i] # "unsent" /\ i \in Inputs
  <2>1. i \in Inputs /\ f[i] = "open"
    BY DEF Parked, IsSend, Item
  <2>2. PlacesApart(Q, B, Opened(f) \ {i})
    BY DEF Parked, Apartness
  <2>3. QED BY <2>1, <2>2 DEF PlacesApart, Parked, Quiet
<1>5. t.at = "handoff" => Safe(ran, R, i, t.item.cmd)
  BY <1>1 DEF Takeable
<1>6. t.at \in {"pause", "recheck"} => ran[i] = 0
  BY <1>1 DEF Untaken
<1>7. t.at = "call" /\ Durable => t.item.cmd # None /\ Safe(ran, R, i, t.item.cmd)
  BY <1>1 DEF Takeable
<1> HIDE DEF ran, R, Q, i, D
<1>8. SendsSafe(ran, R, Q, B \cup {t}, D)
  <2>1. ASSUME NEW r \in B, r.at = "call", Durable, NEW c \in D, c.of = r.item.of
        PROVE  c.cmd = r.item.cmd
    <3>1. c \notin o
      BY <1>3, <1>4, <2>1
    <3>2. c \in C
      BY <3>1 DEF D
    <3>3. QED BY <1>2, <2>1, <3>2 DEF Sound, SendsSafe
  <2>2. ASSUME NEW c \in D, c.of = i, t.at = "call", Durable
        PROVE  c.cmd = t.item.cmd
    BY <1>3, <1>4, <2>2 DEF D
  <2>3. \A r \in B \cup {t} : r \in B \/ r = t
    OBVIOUS
  <2>4. ASSUME NEW r \in B
        PROVE  /\ r.at = "handoff" => Safe(ran, R, r.item.of, r.item.cmd)
               /\ r.at \in {"pause", "recheck"} => ran[r.item.of] = 0
               /\ r.at = "call" /\ Durable => /\ r.item.cmd # None /\ Safe(ran, R, r.item.of, r.item.cmd)
                                              /\ \A c \in D : c.of = r.item.of => c.cmd = r.item.cmd
               /\ r.at = "resume" => \A x \in Q : x.of = r.item.of => Safe(ran, R, r.item.of, r.item.cmd)
    BY <1>2, <2>1 DEF Sound, SendsSafe
  <2>5. /\ t.at = "handoff" => Safe(ran, R, t.item.of, t.item.cmd)
        /\ t.at \in {"pause", "recheck"} => ran[t.item.of] = 0
        /\ t.at = "call" /\ Durable => /\ t.item.cmd # None /\ Safe(ran, R, t.item.of, t.item.cmd)
                                       /\ \A c \in D : c.of = t.item.of => c.cmd = t.item.cmd
        /\ t.at = "resume" => \A x \in Q : x.of = t.item.of => Safe(ran, R, t.item.of, t.item.cmd)
    BY <1>5, <1>6, <1>7, <2>2 DEF i
  <2>6. QED BY <2>3, <2>4, <2>5, Zenon DEF SendsSafe
<1>9. QueueSafe(ran, R, Q, D)
  BY <1>2, <1>3, <1>4 DEF Sound, QueueSafe, D
<1>10. CallsSafe(ran, R, D)
  BY <1>2, <1>3 DEF Sound, CallsSafe, D
<1>11. \A j \in Inputs : f[j] = "unsent" => ran[j] = 0 /\ Quiet(j, D)
  BY <1>2, <1>3, <1>4 DEF Sound, Quiet, D
<1>12. QED BY <1>2, <1>8, <1>9, <1>10, <1>11 DEF Sound

LEMMA ResultLands ==
  ASSUME NEW v, NEW up, NEW q, NEW B, NEW f, NEW s, NEW C, NEW W, Parked(up, q, B, f, s, C, W),
         Kept(q, B, f, C, W), NEW free \in BOOLEAN, Result(v, up, q, B, f, s, free), up \/ s.stale,
         IF free THEN Untaken(s.item.of) ELSE Takeable(s.item)
  PROVE  Lands(v, up, C, W)
<1>0. Stands(v, up, C, W)
  <2>1. Result(v, up, q, B, f, s, TRUE)
    BY Zenon DEF Result, Requeues, Pauses, Sends, Matches
  <2>2. QED BY <2>1, ResultKeeps
<1>1. CASE Ended(v, up, q, B, f, s.item.of)
  BY <1>1, EndLands
<1>2. CASE Requeues(v, up, q, B, f, s, free)
  <2>1. PICK x \in Item : /\ x.of = s.item.of /\ (free \/ (~up /\ x.cmd = s.item.cmd))
                          /\ Queued(v, up, q, B, f, x)
    BY <1>2 DEF Requeues
  <2>2. Takeable(x) /\ (Untaken(x.of) \/ ~up)
    BY <2>1 DEF Takeable, Untaken, Safe
  <2>3. QED BY <2>1, <2>2, RequeueLands
<1>3. CASE Pauses(v, up, q, B, f, s, free)
  <2>1. PICK t : /\ IsSend(t) /\ t.item = s.item /\ t.at \in {"pause", "recheck"} /\ free
                 /\ Shows(v, up, q, B \cup {t}, f, {})
    BY <1>3 DEF Pauses, Waits
  <2>2. t.at \notin {"handoff", "call", "resume"} /\ t.item.of = s.item.of /\ Untaken(t.item.of)
    BY <2>1
  <2>3. QED BY <1>0, <2>1, <2>2, HoldLands
<1>4. CASE Sends(v, up, q, B, f, s, free)
  <2>1. PICK t, c : /\ t.item.of = s.item.of /\ c.of = s.item.of /\ c.rpc = "asked"
                    /\ Matches(t, c, s, free) /\ Shows(v, up, q, B \cup {t}, f, {c})
    BY <1>4 DEF Sends, Asks
  <2>2. t.at \in {"call", "steer", "compose"} /\ (t.at = "call" /\ Durable => c.cmd = t.item.cmd /\ c.cmd # None)
    BY <2>1 DEF Matches
  <2>3. ASSUME ~world.loses PROVE Safe(serve.ran, serve.receipts, c.of, c.cmd)
    BY <2>1, <2>3 DEF Matches, Untaken, Takeable, Safe
  <2>4. t.at = "call" /\ Durable => t.item.cmd # None /\ Takeable(t.item)
    BY <2>1, <2>2, <2>3 DEF Takeable
  <2> DEFINE o == {c}
  <2>5. o = {} \/ \E d : /\ o = {d} /\ d.of = t.item.of /\ d.rpc = "asked"
                         /\ ~world.loses => Safe(serve.ran, serve.receipts, d.of, d.cmd)
                         /\ t.at = "call" /\ Durable => d.cmd = t.item.cmd
    BY <2>1, <2>2, <2>3
  <2>6. t.at \notin {"handoff", "pause", "recheck", "resume"}
    BY <2>2
  <2> HIDE DEF o
  <2>7. Shows(v, up, q, B \cup {t}, f, o)
    BY <2>1 DEF o
  <2>8. QED BY <1>0, <2>1, <2>4, <2>5, <2>6, <2>7, HoldLands
<1>5. QED BY <1>1, <1>2, <1>3, <1>4 DEF Result

--------------------------------------------------------------------------------
(* The inductive invariant, and the renderer's steps                              *)

\* Serve and the renderer remember finitely many command ids
Bounded(C, R) == \E b \in Nat : \A d \in C \cup R : d.cmd \in 0..b

LEMMA CommandIsFresh ==
  ASSUME Bounded(calls, serve.receipts), NEW i
  PROVE  Fresh(i)
<1>1. PICK b \in Nat : \A d \in calls \cup serve.receipts : d.cmd \in 0..b
  BY DEF Bounded
<1> DEFINE T == {0} \cup Commands(i)
<1>2. T \in SUBSET (0..b) /\ T # {}
  BY <1>1 DEF Commands
<1> HIDE DEF T
<1>3. Updates!Max(T) \in T
  BY <1>2, Updates!MaxIsMember
<1>4. Updates!Max(T) = Max(T)
  BY Zenon DEF Max, Updates!Max
<1>5. Max(T) \in 0..b
  BY <1>2, <1>3, <1>4
<1>6. FreshCommand(i) = IF Durable THEN Max(T) + 1 ELSE 0
  BY DEF FreshCommand, T, None
<1> HIDE DEF T
<1>7. QED BY <1>5, <1>6 DEF Fresh, None

Taken(R) == \A r \in R : r.how \in {"started", "steered"}

QueueInv ==
  ~world.lazy =>
    /\ Eager(ui) /\ ui.out = {} /\ Whole(ui.up, ui.queue, ui.sends, ui.fate, calls, wire)
    /\ DOMAIN serve = {"turn", "last", "attached", "receipts", "ran"}
    /\ Bounded(calls, serve.receipts) /\ Taken(serve.receipts)
    /\ Kept(ui.queue, ui.sends, ui.fate, calls, wire)

LEMMA WholeSame ==
  ASSUME NEW up, NEW q, NEW S, NEW f, NEW C, NEW W, Whole(up, q, S, f, C, W), NEW on, on <=> up
  PROVE  Whole(on, q, S, f, C, W)
<1>1. SendsApart(on, S)
  BY DEF Whole, Apartness, SendsApart
<1>2. CallsApart(on, S, C)
  BY DEF Whole, Apartness, CallsApart
<1>3. FramesApart(on, S, C, W)
  BY DEF Whole, Apartness, FramesApart, IsFrame
<1>4. QED BY <1>1, <1>2, <1>3 DEF Whole, Apartness

\* What a step of the renderer leaves is as the invariant says
LEMMA LandsKeeps ==
  ASSUME QueueInv, ~world.lazy, NEW v, NEW up, Lands(v, up, calls, wire'), Step(v), world' = world,
         serve'.ran = serve.ran, serve'.receipts = serve.receipts, DOMAIN serve' = DOMAIN serve
  PROVE  QueueInv'
<1>1. /\ Eager(v) /\ Whole(v.up, v.queue, v.sends, v.fate, calls \cup v.out, wire')
      /\ v.out = {} \/ \E c : IsCall(c) /\ v.out = {c}
  BY WholeSame DEF Lands, Stands
<1>2. /\ ui' = [v EXCEPT !.out = {}] /\ calls' = calls \cup v.out
      /\ ui'.up = v.up /\ ui'.queue = v.queue /\ ui'.sends = v.sends /\ ui'.fate = v.fate /\ ui'.out = {}
      /\ ui'.dirty = v.dirty /\ ui'.updates = v.updates /\ ui'.shown = v.shown
  BY <1>1 DEF Step, Eager, Fields
<1>3. Eager(ui)'
  BY <1>1, <1>2 DEF Eager, Fields
<1>4. Whole(ui.up, ui.queue, ui.sends, ui.fate, calls, wire)'
  BY <1>1, <1>2
<1>5. Bounded(calls, serve.receipts)'
  <2>1. PICK b \in Nat : \A d \in calls \cup serve.receipts : d.cmd \in 0..b
    BY DEF QueueInv, Bounded
  <2>2. CASE v.out = {}
    BY <1>2, <2>1, <2>2 DEF Bounded
  <2>3. ASSUME NEW c, IsCall(c), v.out = {c} PROVE Bounded(calls, serve.receipts)'
    <3> DEFINE a == IF b <= c.cmd THEN c.cmd ELSE b
    <3>1. c.cmd \in Nat
      BY <2>3 DEF IsCall
    <3>2. a \in Nat /\ c.cmd \in 0..a /\ 0..b \subseteq 0..a
      BY <2>1, <3>1
    <3> HIDE DEF a
    <3>3. \A d \in (calls \cup {c}) \cup serve.receipts : d.cmd \in 0..a
      BY <2>1, <3>2
    <3>4. QED BY <1>2, <2>3, <3>2, <3>3 DEF Bounded
  <2>4. QED BY <1>1, <2>2, <2>3
<1>6. Kept(ui.queue, ui.sends, ui.fate, calls, wire)'
  <2>1. ~world.loses => Sound(serve.ran, serve.receipts, Range(v.queue), v.sends, v.fate, calls \cup v.out, wire')
    BY DEF Lands
  <2>2. ASSUME ~world.loses
        PROVE  /\ SendsSafe(serve.ran, serve.receipts, Range(ui.queue), ui.sends, calls)'
               /\ QueueSafe(serve.ran, serve.receipts, Range(ui.queue), calls)'
    <3>1. SendsSafe(serve.ran, serve.receipts, Range(ui.queue), ui.sends, calls)'
      BY <1>2, <2>1, <2>2 DEF Sound, SendsSafe, Durable
    <3>2. QueueSafe(serve.ran, serve.receipts, Range(ui.queue), calls)'
      BY <1>2, <2>1, <2>2 DEF Sound, QueueSafe, Durable
    <3>3. QED BY <3>1, <3>2
  <2>3. QED BY <1>2, <2>1, <2>2 DEF Kept, Sound
<1>7. Taken(serve.receipts)'
  BY DEF QueueInv, Taken
<1>8. QED BY <1>2, <1>3, <1>4, <1>5, <1>6, <1>7 DEF QueueInv

LEMMA ShowsLands ==
  ASSUME NEW v, NEW up, NEW q, NEW S, NEW f, NEW C, NEW W, Shows(v, up, q, S, f, {}),
         Whole(up, q, S, f, C, W), Kept(q, S, f, C, W)
  PROVE  Lands(v, up, C, W)
<1>1. C \cup {} = C
  OBVIOUS
<1>2. QED BY <1>1 DEF Shows, Lands, Stands, Kept

LEMMA InvShows ==
  ASSUME QueueInv, ~world.lazy
  PROVE  /\ Shows(ui, ui.up, ui.queue, ui.sends, ui.fate, {})
         /\ Whole(ui.up, ui.queue, ui.sends, ui.fate, calls, wire)
         /\ Kept(ui.queue, ui.sends, ui.fate, calls, wire)
         /\ \A i : Fresh(i)
BY CommandIsFresh DEF QueueInv, Shows

\* A call of sendText that waits for no RPC goes on
LEMMA IdleIsQuiet ==
  ASSUME NEW up, NEW Q, NEW S, NEW O, NEW C, NEW W, Apartness(up, Q, S, O, C, W),
         NEW s \in S, s.at \in {"handoff", "pause", "recheck"}
  PROVE  Quiet(s.item.of, C) /\ Unanswered(s.item.of, W)
<1>1. IsSend(s) /\ s.item.of \in Inputs
  BY DEF Apartness, SendsApart, IsSend, Item
<1>2. ~Waited(S, s.item.of)
  <2>1. ASSUME NEW t \in S, t.at \in Awaiting, t.item.of = s.item.of PROVE FALSE
    <3>1. t.at # "resume" /\ s.at # "resume"
      BY <2>1 DEF Awaiting
    <3>2. t = s
      BY <2>1, <3>1 DEF Apartness, SendsApart
    <3>3. QED BY <2>1, <3>2 DEF Awaiting
  <2>2. QED BY <2>1 DEF Waited
<1>3. Held(S, s.item.of)
  BY DEF Held
<1>4. QED BY <1>1, <1>2, <1>3, UnheldIsUnanswered DEF Apartness, CallsApart, Quiet

\* The call s of sendText goes on
LEMMA SendGoesOn ==
  ASSUME NEW u, NEW up, NEW q, NEW S, NEW f, NEW C, NEW W, Shows(u, up, q, S, f, {}),
         Whole(up, q, S, f, C, W), Kept(q, S, f, C, W), NEW s \in S, s.at # "resume",
         Quiet(s.item.of, C), Unanswered(s.item.of, W), Fresh(s.item.of)
  PROVE  /\ Ready(u, up, q, S \ {s}, f, s)
         /\ Parked(up, q, S \ {s}, f, s, C, W)
         /\ Kept(q, S \ {s}, f, C, W)
<1> DEFINE B == S \ {s}
           i == s.item.of
<1>1. Apartness(up, Range(q), B, Opened(f) \ {i}, C, W) /\ i \in Opened(f) /\ Apart(B, s) /\ IsSend(s)
  <2>1. Apartness(up, Range(q), S, Opened(f), C, W)
    BY DEF Whole
  <2>2. IsSend(s)
    BY <2>1 DEF Apartness, SendsApart
  <2>3. QED BY <2>1, <2>2, ReleaseKeeps
<1>2. B \cup {s} = S
  OBVIOUS
<1>3. Ready(u, up, q, B, f, s)
  <2> HIDE DEF B
  <2>1. QED BY <1>1, <1>2 DEF Ready
<1>4. IsFiniteSet(B)
  BY FS_RemoveElement DEF Whole
<1>5. Parked(up, q, B, f, s, C, W)
  <2> HIDE DEF B
  <2>1. QED BY <1>1, <1>4 DEF Parked, Whole, Opened
<1>6. Kept(q, B, f, C, W)
  BY LessIsSound DEF Kept
<1>7. QED BY <1>3, <1>5, <1>6

LEMMA HandoffBare ==
  ASSUME NEW u, NEW up, NEW q, NEW B, NEW f, NEW s, Ready(u, up, q, B, f, s), ~up
  PROVE  Queued(Handoff(u, s), up, q, B, f, s.item) /\ s.item \in Item
<1> DEFINE l == Leave(u, s)
           e == Enqueue(l, s.item, "front")
<1>1. ~u.up
  BY DEF Ready, Shows
<1>2. Handoff(u, s) = SetBusy(e, FALSE)
  BY <1>1, Zenon DEF Handoff
<1>3. Shows(l, up, q, B, f, {})
  BY ReadyLeaves
<1> HIDE DEF l
<1>4. Shows(e, up, <<s.item>> \o q, B, f, {})
  BY <1>3, EnqueueShows
<1> HIDE DEF e
<1>5. Shows(SetBusy(e, FALSE), up, <<s.item>> \o q, B, f, {})
  BY <1>4, BusyShows
<1>6. QED BY <1>2, <1>5 DEF Queued, Ready, IsSend

LEMMA TimerKeeps ==
  ASSUME QueueInv, ~world.lazy, TimerFires
  PROVE  QueueInv'
<1> DEFINE up == ui.up
           q == ui.queue
           S == ui.sends
           f == ui.fate
<1>1. Shows(ui, up, q, S, f, {}) /\ Whole(up, q, S, f, calls, wire) /\ Kept(q, S, f, calls, wire) /\ \A i : Fresh(i)
  BY InvShows
<1>2. UNCHANGED <<world, serve, wire>>
  BY DEF TimerFires
<1>3. PICK s \in S : \/ s.at = "handoff" /\ Step(Handoff(ui, s))
                     \/ s.at = "pause"   /\ Step(TryAgain(ui, s))
                     \/ s.at = "recheck" /\ Step(IF Live(ui) THEN SteerOrQueue(ui, s) ELSE TryAgain(ui, s))
  BY DEF TimerFires
<1> DEFINE B == S \ {s}
<1> HIDE DEF up, q, S, f, B
<1>4. s.at \in {"handoff", "pause", "recheck"} /\ s.at # "resume"
  BY <1>3
<1>5. Quiet(s.item.of, calls) /\ Unanswered(s.item.of, wire)
  BY <1>1, <1>3, <1>4, IdleIsQuiet DEF Whole
<1>6. Ready(ui, up, q, B, f, s) /\ Parked(up, q, B, f, s, calls, wire) /\ Kept(q, B, f, calls, wire)
  BY <1>1, <1>3, <1>4, <1>5, SendGoesOn DEF B
<1>7. (~up => s.at = "handoff" \/ s.stale) /\ (s.stale => s.at \in {"pause", "recheck"})
  BY <1>1, <1>3 DEF Whole, Apartness, SendsApart
<1>8. (s.at = "handoff" => Takeable(s.item)) /\ (s.at \in {"pause", "recheck"} => Untaken(s.item.of))
  BY <1>1, <1>3 DEF Kept, Sound, SendsSafe, Takeable, Untaken
<1>9. ASSUME NEW v, Lands(v, up, calls, wire), Step(v) PROVE QueueInv'
  BY <1>2, <1>9, LandsKeeps
<1>10. ASSUME NEW v, Result(v, up, q, B, f, s, TRUE), s.at \in {"pause", "recheck"} PROVE Lands(v, up, calls, wire)
  BY <1>6, <1>7, <1>8, <1>10, ResultLands
<1>11. CASE s.at = "handoff" /\ Step(Handoff(ui, s))
  <2>1. ~s.stale
    BY <1>7, <1>11
  <2>2. CASE up
    <3>1. Result(Handoff(ui, s), up, q, B, f, s, FALSE)
      BY <1>6, <2>1, HandoffResult
    <3>2. Lands(Handoff(ui, s), up, calls, wire)
      BY <1>6, <1>8, <1>11, <2>2, <3>1, ResultLands
    <3>3. QED BY <1>9, <1>11, <3>2
  <2>3. CASE ~up
    <3>1. Queued(Handoff(ui, s), up, q, B, f, s.item) /\ s.item \in Item
      BY <1>6, <2>3, HandoffBare
    <3>2. Lands(Handoff(ui, s), up, calls, wire)
      BY <1>6, <1>8, <1>11, <2>3, <3>1, RequeueLands
    <3>3. QED BY <1>9, <1>11, <3>2
  <2>4. QED BY <2>2, <2>3
<1>12. CASE s.at = "pause" /\ Step(TryAgain(ui, s))
  BY <1>6, <1>9, <1>10, <1>12, TryAgainResult
<1>13. CASE s.at = "recheck" /\ Step(IF Live(ui) THEN SteerOrQueue(ui, s) ELSE TryAgain(ui, s))
  BY <1>6, <1>9, <1>10, <1>13, TryAgainResult, SteerOrQueueResult
<1>14. QED BY <1>3, <1>11, <1>12, <1>13

LEMMA ComposeKeeps ==
  ASSUME QueueInv, ~world.lazy, Compose
  PROVE  QueueInv'
<1> DEFINE up == ui.up
           q == ui.queue
           S == ui.sends
           f == ui.fate
<1>1. Shows(ui, up, q, S, f, {}) /\ Whole(up, q, S, f, calls, wire) /\ Kept(q, S, f, calls, wire) /\ \A i : Fresh(i)
  BY InvShows
<1>2. up /\ UNCHANGED <<world, serve, wire>>
  BY DEF Compose
<1>3. PICK i \in Inputs :
        LET s == Caller(ui, [of |-> i, cmd |-> None, recorded |-> FALSE], "compose", FALSE) IN
        /\ f[i] = "unsent"
        /\ Step(Submitted(Fate([ui EXCEPT !.sends = @ \cup {s}], i, "open"), s))
  BY DEF Compose
<1>4. PICK no : no \in BOOLEAN /\ no = FALSE
  OBVIOUS
<1> DEFINE x == [of |-> i, cmd |-> 0, recorded |-> no]
           s == Caller(ui, x, "compose", no)
           w == [ui EXCEPT !.sends = S \cup {s}]
           u == Fate(w, i, "open")
           g == [f EXCEPT ![i] = "open"]
<1>5. Step(Submitted(u, s)) /\ f[i] = "unsent"
  BY <1>3, <1>4, Zenon DEF None
<1>6. IsSend(s) /\ s.item = x /\ s.at = "compose" /\ ~s.stale /\ s.item.of = i /\ s.item.cmd = None
  <2>1. x \in Item /\ x.of = i /\ x.cmd = None /\ "compose" \in Ats
    BY <1>4 DEF Item, Ats, None
  <2> HIDE DEF x
  <2>2. QED BY <2>1, CallerIsSend
<1>7. Shows(u, up, q, S \cup {s}, g, {})
  <2> HIDE DEF s, up, q, S, f
  <2>1. Shows(w, up, q, S \cup {s}, f, {})
    BY <1>1, SendsShow
  <2> HIDE DEF w
  <2>2. QED BY <2>1, FateShows
<1> HIDE DEF up, q, S, f, s, x, u, w
<1>8. f \in [Inputs -> Fates] /\ Opened(g) = Opened(f) \cup {i} /\ i \notin Opened(f) /\ g \in [Inputs -> Fates] /\ g[i] = "open"
  <2>1. f \in [Inputs -> Fates] /\ "open" \in Fates
    BY <1>1 DEF Whole, Fates
  <2>2. QED BY <1>5, <2>1, OpenedExcept DEF Opened
<1>9. ~Held(S, i) /\ ~Waited(S, i) /\ Quiet(i, calls)
  BY <1>1, <1>2, <1>8, UnopenedIsUnheld, UnheldIsUnanswered DEF Whole
<1>10. \A j \in Inputs : g[j] = "unsent" => f[j] = "unsent"
  BY <1>8
<1> HIDE DEF g
<1>11. Ready(u, up, q, S, g, s)
  <2>1. Apart(S, s)
    BY <1>6, <1>9 DEF Held, Apart
  <2>2. QED BY <1>1, <1>6, <1>7, <2>1 DEF Ready
<1>12. Parked(up, q, S, g, s, calls, wire)
  <2>1. Opened(g) \ {i} = Opened(f)
    BY <1>8
  <2>2. QED BY <1>1, <1>6, <1>8, <1>9, <2>1 DEF Parked, Whole
<1>13. Kept(q, S, g, calls, wire)
  BY <1>1, <1>10, LessIsSound DEF Kept
<1>14. Untaken(i)
  BY <1>1, <1>5 DEF Kept, Sound, Untaken
<1>15. Result(Submitted(u, s), up, q, S, g, s, TRUE)
  BY <1>6, <1>11, SubmittedResult
<1>16. Lands(Submitted(u, s), up, calls, wire)
  BY <1>2, <1>6, <1>12, <1>13, <1>14, <1>15, ResultLands
<1>17. QED BY <1>2, <1>5, <1>16, LandsKeeps

LEMMA IndexInQueue ==
  ASSUME NEW q, IsQueue(q), NEW i \in Of(q)
  PROVE  Index(q, i) \in DOMAIN q /\ q[Index(q, i)].of = i
<1>1. PICK k \in DOMAIN q : q[k].of = i
  BY DEF Of, Range
<1>2. \A j \in 1..k - 1 : q[j].of # i
  <2>1. k \in 1..Len(q) /\ DOMAIN q = 1..Len(q) /\ Len(q) \in Nat
    BY <1>1 DEF IsQueue
  <2>2. ASSUME NEW j \in 1..k - 1 PROVE j \in DOMAIN q /\ j # k
    BY <2>1
  <2>3. QED BY <1>1, <2>2 DEF IsQueue
<1>3. \E m \in DOMAIN q : q[m].of = i /\ \A j \in 1..m - 1 : q[j].of # i
  BY <1>1, <1>2
<1>4. QED BY <1>3 DEF Index

\* An item of the queue is taken out of it
LEMMA TakenOut ==
  ASSUME NEW up, NEW q, NEW S, NEW f, NEW C, NEW W, Whole(up, q, S, f, C, W), Kept(q, S, f, C, W),
         NEW k \in DOMAIN q
  PROVE  LET p == RemoveAt(q, k)
             i == q[k].of
         IN /\ IsQueue(p) /\ Range(p) = Range(q) \ {q[k]} /\ q[k] \in Range(q)
            /\ Apartness(up, Range(p), S, Opened(f) \ {i}, C, W)
            /\ q[k] \in Item /\ f[i] = "open" /\ ~Held(S, i) /\ (up => Quiet(i, C))
            /\ Kept(p, S, f, C, W) /\ Takeable(q[k])
<1> DEFINE p == RemoveAt(q, k)
           x == q[k]
<1>1. IsQueue(p) /\ Range(p) = Range(q) \ {x} /\ x \in Range(q)
  BY RemoveQueue DEF Whole
<1> HIDE DEF p, x
<1>2. Apartness(up, Range(q), S, Opened(f), C, W)
  BY DEF Whole
<1>3. /\ Apartness(up, Range(p), S, Opened(f) \ {x.of}, C, W)
      /\ x \in Item /\ x.of \in Opened(f) /\ ~Held(S, x.of) /\ (up => Quiet(x.of, C))
  BY <1>1, <1>2, UnqueueKeeps
<1>4. Kept(p, S, f, C, W)
  BY <1>1, LessIsSound DEF Kept
<1>5. Takeable(x)
  BY <1>1 DEF Kept, Sound, QueueSafe, Takeable
<1>6. QED BY <1>1, <1>3, <1>4, <1>5 DEF Opened, p, x

LEMMA CancelKeeps ==
  ASSUME QueueInv, ~world.lazy, Cancel
  PROVE  QueueInv'
<1> DEFINE up == ui.up
           q == ui.queue
           S == ui.sends
           f == ui.fate
<1>1. Shows(ui, up, q, S, f, {}) /\ Whole(up, q, S, f, calls, wire) /\ Kept(q, S, f, calls, wire)
  BY InvShows
<1>2. UNCHANGED <<world, serve, wire>>
  BY DEF Cancel
<1>3. PICK k \in DOMAIN q :
        LET item == q[k]
            left == Fate(PutQueue(ui, RemoveAt(q, k)), item.of, "cancelled")
        IN Step(IF item.recorded THEN ResolveUser(left, item.of, FALSE) ELSE left)
  BY DEF Cancel
<1> DEFINE p == RemoveAt(q, k)
           i == q[k].of
           w == PutQueue(ui, p)
           left == Fate(w, i, "cancelled")
           v == IF q[k].recorded THEN ResolveUser(left, i, FALSE) ELSE left
           g == [f EXCEPT ![i] = "cancelled"]
<1>4. Step(v)
  BY <1>3
<1> HIDE DEF up, q, S, f
<1>5. /\ IsQueue(p) /\ Apartness(up, Range(p), S, Opened(f) \ {i}, calls, wire)
      /\ i \in Inputs /\ Kept(p, S, f, calls, wire)
  BY <1>1, TakenOut DEF Item
<1> HIDE DEF p, i
<1>6. Shows(v, up, p, S, g, {})
  <2>1. Shows(w, up, p, S, f, {})
    BY <1>1, PutShows
  <2> HIDE DEF w
  <2>2. Shows(left, up, p, S, g, {})
    BY <2>1, FateShows
  <2> HIDE DEF left, g
  <2>3. QED BY <2>2, ResolveShows
<1> HIDE DEF v
<1>7. f \in [Inputs -> Fates] /\ "cancelled" \in Fates /\ "cancelled" # "open"
  BY <1>1 DEF Whole, Fates
<1>8. g \in [Inputs -> Fates] /\ Opened(g) = Opened(f) \ {i}
  BY <1>5, <1>7, OpenedExcept
<1>9. \A j \in Inputs : g[j] = "unsent" => f[j] = "unsent"
  BY <1>5, <1>7
<1> HIDE DEF g
<1>10. Kept(p, S, g, calls, wire)
  BY <1>5, <1>9, LessIsSound DEF Kept
<1>11. Whole(up, p, S, g, calls, wire)
  BY <1>1, <1>5, <1>8 DEF Whole
<1>12. Lands(v, up, calls, wire)
  BY <1>6, <1>10, <1>11, ShowsLands
<1>13. QED BY <1>2, <1>4, <1>12, LandsKeeps

\* A Retry sends the input that it finds in the queue
LEMMA RetryLands ==
  ASSUME NEW u, NEW up, NEW q, NEW B, NEW f, NEW C, NEW W, NEW s, Shows(u, up, q, B \cup {s}, f, {}),
         Whole(up, q, B, f, C, W), Kept(q, B, f, C, W), IsSend(s), s.at = "resume", ~s.stale, u.up,
         \A r \in B : r.at = "resume" => r.item.of # s.item.of,
         \A x \in Range(q) : x.of = s.item.of => Takeable(s.item), Fresh(s.item.of)
  PROVE  Lands(RetryNow(u, s), up, C, W)
<1> DEFINE i == s.item.of
<1>1. CASE i \notin Of(q)
  <2>1. RetryNow(u, s) = Leave(u, s)
    BY <1>1 DEF RetryNow, Shows
  <2>2. s \notin B
    OBVIOUS
  <2>3. (B \cup {s}) \ {s} = B
    BY <2>2
  <2> DEFINE S == B \cup {s}
  <2>4. Shows(u, up, q, S, f, {})
    OBVIOUS
  <2>5. Shows(Leave(u, s), up, q, S \ {s}, f, {})
    <3> HIDE DEF S
    <3>1. QED BY <2>4, LeaveShows
  <2>6. Shows(Leave(u, s), up, q, B, f, {})
    BY <2>3, <2>5
  <2>7. QED BY <2>1, <2>6, ShowsLands
<1>2. CASE i \in Of(q)
  <2> DEFINE k == Index(q, i)
             p == RemoveAt(q, k)
             w == PutQueue(u, p)
  <2>1. k \in DOMAIN q /\ q[k].of = i
    BY <1>2, IndexInQueue DEF Whole
  <2>2. RetryNow(u, s) = SendText(w, s)
    BY <1>2 DEF RetryNow, Shows, Without
  <2> HIDE DEF k
  <2>3. /\ IsQueue(p) /\ Apartness(up, Range(p), B, Opened(f) \ {i}, C, W)
        /\ q[k] \in Range(q) /\ f[i] = "open" /\ ~Held(B, i) /\ Quiet(i, C)
        /\ Kept(p, B, f, C, W)
    <3>1. /\ IsQueue(p) /\ Apartness(up, Range(p), B, Opened(f) \ {q[k].of}, C, W)
          /\ q[k] \in Range(q) /\ f[q[k].of] = "open" /\ ~Held(B, q[k].of) /\ (up => Quiet(q[k].of, C))
          /\ Kept(p, B, f, C, W)
      BY <2>1, TakenOut
    <3>2. up
      BY DEF Shows
    <3>3. QED BY <2>1, <3>1, <3>2
  <2> HIDE DEF p
  <2>4. Shows(w, up, p, B \cup {s}, f, {})
    BY PutShows
  <2> HIDE DEF w
  <2>5. Apart(B, s)
    BY <2>3 DEF Apart, Held
  <2>6. Ready(w, up, p, B, f, s)
    BY <2>4, <2>5 DEF Ready
  <2>7. Parked(up, p, B, f, s, C, W)
    BY <2>3 DEF Parked, Whole
  <2>8. Result(SendText(w, s), up, p, B, f, s, FALSE)
    BY <2>6, SendTextResult
  <2>9. Takeable(s.item)
    BY <2>1, <2>3
  <2>10. up
    BY DEF Shows
  <2>11. QED BY <2>2, <2>3, <2>7, <2>8, <2>9, <2>10, ResultLands
<1>3. QED BY <1>1, <1>2

LEMMA RetryKeeps ==
  ASSUME QueueInv, ~world.lazy, Retry
  PROVE  QueueInv'
<1> DEFINE up == ui.up
           q == ui.queue
           S == ui.sends
           f == ui.fate
<1>1. Shows(ui, up, q, S, f, {}) /\ Whole(up, q, S, f, calls, wire) /\ Kept(q, S, f, calls, wire) /\ \A i : Fresh(i)
  BY InvShows
<1>2. up /\ UNCHANGED <<world, serve, wire>>
  BY DEF Retry
<1>3. PICK k \in DOMAIN q :
        LET s == Caller(ui, q[k], "resume", FALSE)
            begun == [ui EXCEPT !.sends = @ \cup {s}]
        IN /\ \A t \in S : t.at = "resume" => t.item.of # s.item.of
           /\ Step(IF ui.attached THEN RetryNow(begun, s) ELSE begun)
  BY DEF Retry
<1>4. PICK no : no \in BOOLEAN /\ no = FALSE
  OBVIOUS
<1> DEFINE x == q[k]
           s == Caller(ui, x, "resume", no)
           u == [ui EXCEPT !.sends = S \cup {s}]
<1>5. /\ \A t \in S : t.at = "resume" => t.item.of # s.item.of
      /\ Step(IF ui.attached THEN RetryNow(u, s) ELSE u)
  BY <1>3, <1>4, Zenon
<1> HIDE DEF up, q, S, f
<1>6. x \in Range(q) /\ x \in Item /\ Takeable(x) /\ \A y \in Range(q) : y.of = x.of => y = x
  <2>1. x \in Range(q) /\ x \in Item /\ Takeable(x)
    BY <1>1, TakenOut
  <2>2. QED BY <1>1, <2>1 DEF Whole, Apartness, PlacesApart
<1> HIDE DEF x
<1>7. IsSend(s) /\ s.item = x /\ s.at = "resume" /\ ~s.stale
  BY <1>6, CallerIsSend DEF Ats
<1>8. Shows(u, up, q, S \cup {s}, f, {})
  <2> HIDE DEF s
  <2>1. QED BY <1>1, SendsShow
<1> HIDE DEF s, u
<1>9. ASSUME NEW v, Lands(v, up, calls, wire), Step(v) PROVE QueueInv'
  BY <1>2, <1>9, LandsKeeps
<1>10. CASE ui.attached
  <2>1. u.up
    BY <1>2, <1>8 DEF Shows
  <2>2. Lands(RetryNow(u, s), up, calls, wire)
    BY <1>1, <1>5, <1>6, <1>7, <1>8, <2>1, RetryLands
  <2>3. QED BY <1>5, <1>9, <1>10, <2>2
<1>11. CASE ~ui.attached
  <2>1. Whole(up, q, S \cup {s}, f, calls, wire)
    <3>1. Apartness(up, Range(q), S \cup {s}, Opened(f), calls, wire)
      BY <1>1, <1>2, <1>5, <1>7, ResumeKeeps DEF Whole
    <3>2. IsFiniteSet(S \cup {s})
      BY <1>1, FS_AddElement DEF Whole
    <3>3. QED BY <1>1, <3>1, <3>2 DEF Whole
  <2>2. Kept(q, S \cup {s}, f, calls, wire)
    <3>1. SUFFICES ASSUME ~world.loses
                   PROVE  Sound(serve.ran, serve.receipts, Range(q), S \cup {s}, f, calls, wire)
      BY DEF Kept
    <3>2. Sound(serve.ran, serve.receipts, Range(q), S, f, calls, wire)
      BY <1>1, <3>1 DEF Kept
    <3>3. Safe(serve.ran, serve.receipts, s.item.of, s.item.cmd)
      BY <1>6, <1>7, <3>1 DEF Takeable
    <3>4. SendsSafe(serve.ran, serve.receipts, Range(q), S \cup {s}, calls)
      BY <1>7, <3>2, <3>3 DEF Sound, SendsSafe
    <3>5. QED BY <3>2, <3>4 DEF Sound
  <2>3. Lands(u, up, calls, wire)
    BY <1>8, <2>1, <2>2, ShowsLands
  <2>4. QED BY <1>5, <1>9, <1>11, <2>3
<1>12. QED BY <1>10, <1>11

\* A Retry that waits for session.resume is taken out
LEMMA RetryIsAlone ==
  ASSUME NEW u, NEW up, NEW q, NEW S, NEW f, NEW C, NEW W, Shows(u, up, q, S, f, {}),
         Whole(up, q, S, f, C, W), Kept(q, S, f, C, W), NEW s \in S, s.at = "resume"
  PROVE  LET B == S \ {s}
         IN /\ Shows(u, up, q, B \cup {s}, f, {}) /\ Whole(up, q, B, f, C, W) /\ Kept(q, B, f, C, W)
            /\ IsSend(s) /\ ~s.stale /\ \A r \in B : r.at = "resume" => r.item.of # s.item.of
            /\ \A x \in Range(q) : x.of = s.item.of => Takeable(s.item)
            /\ Shows(Leave(u, s), up, q, B, f, {})
<1> DEFINE B == S \ {s}
<1>1. B \cup {s} = S
  OBVIOUS
<1>2. Whole(up, q, B, f, C, W)
  <2>1. Apartness(up, Range(q), B, Opened(f), C, W)
    BY ResumeKeeps DEF Whole
  <2>2. IsFiniteSet(B)
    BY FS_RemoveElement DEF Whole
  <2>3. QED BY <2>1, <2>2 DEF Whole
<1>3. Kept(q, B, f, C, W)
  BY LessIsSound DEF Kept
<1>4. SendsApart(up, S)
  BY DEF Whole, Apartness
<1>5. IsSend(s) /\ ~s.stale /\ \A r \in B : r.at = "resume" => r.item.of # s.item.of
  BY <1>4 DEF SendsApart
<1>6. \A x \in Range(q) : x.of = s.item.of => Takeable(s.item)
  BY DEF Kept, Sound, SendsSafe, Takeable
<1>7. Shows(Leave(u, s), up, q, B, f, {})
  BY LeaveShows
<1> HIDE DEF B
<1>8. QED BY <1>1, <1>2, <1>3, <1>5, <1>6, <1>7 DEF B

LEMMA ResumeStepKeeps ==
  ASSUME QueueInv, ~world.lazy, Resume
  PROVE  QueueInv'
<1> DEFINE up == ui.up
           q == ui.queue
           S == ui.sends
           f == ui.fate
<1>1. Shows(ui, up, q, S, f, {}) /\ Whole(up, q, S, f, calls, wire) /\ Kept(q, S, f, calls, wire) /\ \A i : Fresh(i)
  BY InvShows
<1>2. up /\ UNCHANGED <<world, wire>>
  BY DEF Resume
<1>3. serve'.ran = serve.ran /\ serve'.receipts = serve.receipts /\ DOMAIN serve' = DOMAIN serve
  BY DEF Resume, QueueInv
<1>4. ASSUME NEW v, Lands(v, up, calls, wire), Step(v) PROVE QueueInv'
  BY <1>2, <1>3, <1>4, LandsKeeps
<1>5. \/ \E s \in S : s.at = "resume" /\ Step(RetryNow(Resumed(ui, Pending), s))
      \/ Step(Resumed(ui, {}))
      \/ \E s \in S : s.at = "resume" /\ Step(Leave(ui, s))
  BY DEF Resume
<1> HIDE DEF up, q, S, f
<1>6. ASSUME NEW s \in S, s.at = "resume", Step(RetryNow(Resumed(ui, Pending), s)) PROVE QueueInv'
  <2> DEFINE u == Resumed(ui, Pending)
             B == S \ {s}
  <2>1. Shows(u, up, q, S, f, {})
    BY <1>1, ResumedShows
  <2> HIDE DEF u
  <2>2. /\ Shows(u, up, q, B \cup {s}, f, {}) /\ Whole(up, q, B, f, calls, wire) /\ Kept(q, B, f, calls, wire)
        /\ IsSend(s) /\ ~s.stale /\ \A r \in B : r.at = "resume" => r.item.of # s.item.of
        /\ \A x \in Range(q) : x.of = s.item.of => Takeable(s.item)
    BY <1>1, <1>6, <2>1, RetryIsAlone
  <2> HIDE DEF B
  <2>3. u.up
    BY <1>2, <2>1 DEF Shows
  <2>4. Lands(RetryNow(u, s), up, calls, wire)
    BY <1>1, <1>6, <2>2, <2>3, RetryLands
  <2>5. QED BY <1>4, <1>6, <2>4 DEF u
<1>7. ASSUME Step(Resumed(ui, {})) PROVE QueueInv'
  <2> DEFINE u == Resumed(ui, {})
  <2>1. Shows(u, up, q, S, f, {})
    BY <1>1, ResumedShows
  <2> HIDE DEF u
  <2>2. Lands(u, up, calls, wire)
    BY <1>1, <2>1, ShowsLands
  <2>3. QED BY <1>4, <1>7, <2>2 DEF u
<1>8. ASSUME NEW s \in S, s.at = "resume", Step(Leave(ui, s)) PROVE QueueInv'
  <2> DEFINE B == S \ {s}
  <2>1. Whole(up, q, B, f, calls, wire) /\ Kept(q, B, f, calls, wire) /\ Shows(Leave(ui, s), up, q, B, f, {})
    BY <1>1, <1>8, RetryIsAlone
  <2> HIDE DEF B
  <2>2. Lands(Leave(ui, s), up, calls, wire)
    BY <2>1, ShowsLands
  <2>3. QED BY <1>4, <1>8, <2>2
<1>9. QED BY <1>5, <1>6, <1>7, <1>8

\* The drain of the queue
LEMMA HandsOverLands ==
  ASSUME NEW v, NEW up, NEW q, NEW S, NEW f, NEW C, NEW W, Whole(up, q, S, f, C, W), Kept(q, S, f, C, W),
         v.up, HandsOver(v, up, q, S, f)
  PROVE  Lands(v, up, C, W)
<1>1. PICK s : /\ IsSend(s) /\ s.item = Head(q) /\ s.at = "handoff" /\ ~s.stale
               /\ Shows(v, up, Tail(q), S \cup {s}, f, {})
  BY DEF HandsOver
<1> DEFINE x == Head(q)
           p == Tail(q)
           i == s.item.of
<1>2. IsQueue(p) /\ Range(p) = Range(q) \ {x} /\ x \in Range(q)
  BY PopQueue DEF Whole, HandsOver
<1> HIDE DEF p
<1>3. Apartness(up, Range(q), S, Opened(f), C, W)
  BY DEF Whole
<1>4. Apartness(up, Range(p), S, Opened(f) \ {i}, C, W) /\ i \in Opened(f) /\ Quiet(i, C)
  <2> HIDE DEF x
  <2> DEFINE Q == Range(q)
             O == Opened(f)
  <2>1. /\ Apartness(up, Range(q) \ {x}, S, Opened(f) \ {x.of}, C, W)
        /\ x \in Item /\ x.of \in Opened(f) /\ ~Held(S, x.of) /\ (up => Quiet(x.of, C))
    <3>1. x \in Q
      BY <1>2
    <3>2. Apartness(up, Q, S, O, C, W)
      BY <1>3
    <3> HIDE DEF Q, O
    <3>3. /\ Apartness(up, Q \ {x}, S, O \ {x.of}, C, W)
          /\ x \in Item /\ x.of \in O /\ ~Held(S, x.of) /\ (up => Quiet(x.of, C))
      BY <3>1, <3>2, UnqueueKeeps
    <3>4. QED BY <3>3 DEF Q, O
  <2>2. s.item = x
    BY <1>1 DEF x
  <2>3. up
    BY <1>1 DEF Shows
  <2>4. QED BY <1>2, <2>1, <2>2, <2>3
<1>5. Parked(up, p, S, f, s, C, W)
  BY <1>1, <1>2, <1>4 DEF Parked, Whole, Opened
<1>6. Kept(p, S, f, C, W)
  BY <1>2, LessIsSound DEF Kept
<1>7. Takeable(s.item)
  BY <1>1, <1>2 DEF Kept, Sound, QueueSafe, Takeable
<1> DEFINE o == {}
<1>8. Shows(v, up, p, S \cup {s}, f, o)
  BY <1>1 DEF p
<1>9. o = {}
  OBVIOUS
<1> HIDE DEF o
<1>10. Stands(v, up, C, W)
  BY <1>1, <1>5, <1>8, <1>9, HoldStands
<1>11. s.at \notin {"pause", "recheck", "call", "resume"}
  BY <1>1
<1>12. QED BY <1>5, <1>6, <1>7, <1>8, <1>9, <1>10, <1>11, HoldLands

LEMMA ReceiveKeeps ==
  ASSUME QueueInv, ~world.lazy, Receive
  PROVE  QueueInv'
<1> DEFINE up == ui.up
           q == ui.queue
           S == ui.sends
           f == ui.fate
           m == Head(wire)
           W == Tail(wire)
<1>1. Shows(ui, up, q, S, f, {}) /\ Whole(up, q, S, f, calls, wire) /\ Kept(q, S, f, calls, wire) /\ \A i : Fresh(i)
  BY InvShows
<1>2. up /\ wire # <<>> /\ wire' = W /\ UNCHANGED <<world, serve>>
  BY DEF Receive
<1>3. \/ Step(IF Atomic THEN TaskState(TurnStart(ui, m.turn), m.turn, TRUE) ELSE TurnStart(ui, m.turn))
      \/ Step(TaskState(ui, m.turn, m.kind = "live"))
      \/ Step(TurnEnd(ui, m.turn))
      \/ \E s \in S :
          /\ s.item.of = m.of /\ s.n = m.n
          /\ \/ s.at = "compose" /\ Step(AnswerToComposer(ui, s, m))
             \/ s.at \in {"call", "steer"} /\ Step(AnswerTo(ui, s, m))
  BY DEF Receive
<1> HIDE DEF up, q, S, f
<1>4. /\ Apartness(up, Range(q), S, Opened(f), calls, W)
      /\ IsFrame(m, up, S, calls)
      /\ m.of # None => Quiet(m.of, calls) /\ Unanswered(m.of, W)
  BY <1>1, <1>2, TailKeeps DEF Whole
<1>5. Whole(up, q, S, f, calls, W)
  BY <1>1, <1>4 DEF Whole
<1>6. Kept(q, S, f, calls, W) /\ (~world.loses => FrameSafe(serve.ran, m))
  <2>1. wire \in Seq(Range(wire))
    BY <1>1 DEF Whole, Apartness, FramesApart
  <2>2. /\ m = wire[1] /\ 1 \in DOMAIN wire
        /\ \A k \in DOMAIN W : W[k] = wire[k + 1] /\ k + 1 \in DOMAIN wire
    BY <1>2, <2>1, TailOfRange
  <2> HIDE DEF m, W
  <2>3. QED BY <1>1, <2>2 DEF Kept, Sound
<1> HIDE DEF m, W
<1>7. ASSUME NEW v, Lands(v, up, calls, W), Step(v) PROVE QueueInv'
  BY <1>2, <1>7, LandsKeeps
<1>8. ASSUME NEW v, Shows(v, up, q, S, f, {}), Step(v) PROVE QueueInv'
  BY <1>5, <1>6, <1>7, <1>8, ShowsLands
<1>9. CASE Step(IF Atomic THEN TaskState(TurnStart(ui, m.turn), m.turn, TRUE) ELSE TurnStart(ui, m.turn))
  <2> DEFINE u == TurnStart(ui, m.turn)
             w == TaskState(u, m.turn, TRUE)
  <2>1. Shows(u, up, q, S, f, {})
    BY <1>1, TurnStartShows
  <2>2. Step(w) \/ Step(u)
    BY <1>9
  <2> HIDE DEF u
  <2>3. Shows(w, up, q, S, f, {})
    BY <2>1, TaskStateShows
  <2> HIDE DEF w
  <2>4. QED BY <1>8, <2>1, <2>2, <2>3
<1>10. CASE Step(TaskState(ui, m.turn, m.kind = "live"))
  <2> DEFINE w == TaskState(ui, m.turn, m.kind = "live")
  <2>1. Shows(w, up, q, S, f, {})
    BY <1>1, TaskStateShows
  <2>2. Step(w)
    BY <1>10
  <2> HIDE DEF w
  <2>3. QED BY <1>8, <2>1, <2>2
<1>11. CASE Step(TurnEnd(ui, m.turn))
  <2> DEFINE w == TurnEnd(ui, m.turn)
  <2>1. Shows(w, up, q, S, f, {}) \/ HandsOver(w, up, q, S, f)
    BY <1>1, TurnEndShows DEF Whole, IsQueue
  <2>2. Step(w)
    BY <1>11
  <2> HIDE DEF w
  <2>3. ASSUME HandsOver(w, up, q, S, f) PROVE w.up
    BY <1>2, <2>3 DEF HandsOver, Shows
  <2>4. QED BY <1>5, <1>6, <1>7, <1>8, <2>1, <2>2, <2>3, HandsOverLands
<1>12. ASSUME NEW s \in S, s.item.of = m.of,
              \/ s.at = "compose" /\ Step(AnswerToComposer(ui, s, m))
              \/ s.at \in {"call", "steer"} /\ Step(AnswerTo(ui, s, m))
       PROVE  QueueInv'
  <2> DEFINE i == s.item.of
             B == S \ {s}
  <2>1. IsSend(s) /\ i # None /\ i \in Inputs
    <3>1. IsSend(s) /\ i \in Inputs
      BY <1>1, <1>12 DEF Whole, Apartness, SendsApart, IsSend, Item
    <3>2. QED BY <3>1, Assumptions DEF None
  <2>2. s.at # "resume" /\ s.at \in Awaiting
    BY <1>12 DEF Awaiting
  <2>3. Quiet(i, calls) /\ Unanswered(i, W) /\ m.kind \in Answers
    BY <1>4, <1>12, <2>1 DEF IsFrame
  <2> HIDE DEF B, i
  <2>4. Ready(ui, up, q, B, f, s) /\ Parked(up, q, B, f, s, calls, W) /\ Kept(q, B, f, calls, W)
    BY <1>1, <1>5, <1>6, <1>12, <2>2, <2>3, SendGoesOn DEF B, i
  <2>5. ~s.stale
    BY <1>1, <1>12, <2>2 DEF Whole, Apartness, SendsApart, Awaiting
  <2>6. m.kind \in {"not_submitted", "busy", "unknown"} => Untaken(i)
    BY <1>6, <1>12, <2>1 DEF FrameSafe, Untaken, i
  <2>7. ASSUME NEW v, Result(v, up, q, B, f, s, TRUE), Step(v),
               m.kind \in {"started", "steered", "error"} => Ended(v, up, q, B, f, i)
        PROVE  QueueInv'
    <3>1. CASE m.kind \in {"started", "steered", "error"}
      <4>1. Lands(v, up, calls, W)
        BY <2>4, <2>7, <3>1, EndLands DEF i
      <4>2. QED BY <1>7, <2>7, <4>1
    <3>2. CASE m.kind \notin {"started", "steered", "error"}
      <4>1. Untaken(i)
        BY <2>3, <2>6, <3>2 DEF Answers
      <4>2. Lands(v, up, calls, W)
        BY <1>2, <2>4, <2>7, <4>1, ResultLands DEF i
      <4>3. QED BY <1>7, <2>7, <4>2
    <3>3. QED BY <3>1, <3>2
  <2>8. CASE s.at = "compose" /\ Step(AnswerToComposer(ui, s, m))
    <3>1. m.kind \in {"steered", "busy", "error"} /\ s.item.cmd = None
      BY <1>1, <1>4, <1>12, <2>1, <2>8 DEF IsFrame, i, Whole, Apartness, SendsApart
    <3>2. /\ Result(AnswerToComposer(ui, s, m), up, q, B, f, s, TRUE)
          /\ m.kind \in {"steered", "error"} => Ended(AnswerToComposer(ui, s, m), up, q, B, f, i)
      BY <1>12, <2>4, <2>5, <3>1, AnswerToComposerResult DEF i
    <3>3. QED BY <2>7, <2>8, <3>1, <3>2
  <2>9. CASE s.at \in {"call", "steer"} /\ Step(AnswerTo(ui, s, m))
    <3>1. /\ Result(AnswerTo(ui, s, m), up, q, B, f, s, TRUE)
          /\ m.kind \in {"started", "steered", "error"} => Ended(AnswerTo(ui, s, m), up, q, B, f, i)
      BY <2>3, <2>4, AnswerToResult DEF i
    <3>2. QED BY <2>7, <2>9, <3>1
  <2>10. QED BY <1>12, <2>8, <2>9
<1>13. QED BY <1>3, <1>9, <1>10, <1>11, <1>12

--------------------------------------------------------------------------------
(* The steps of Serve                                                             *)

LEMMA ServeSideKeeps ==
  ASSUME QueueInv, ~world.lazy, ui' = ui, world' = world,
         Whole(ui.up, ui.queue, ui.sends, ui.fate, calls', wire'),
         \A d \in calls' \cup serve'.receipts : \E e \in calls \cup serve.receipts : d.cmd = e.cmd,
         DOMAIN serve' = DOMAIN serve, Taken(serve'.receipts),
         ~world.loses => Sound(serve'.ran, serve'.receipts, Range(ui.queue), ui.sends, ui.fate, calls', wire')
  PROVE  QueueInv'
<1>1. Eager(ui)' /\ ui'.out = {}
  BY DEF QueueInv, Eager
<1>2. Bounded(calls, serve.receipts)'
  <2>1. PICK b \in Nat : \A d \in calls \cup serve.receipts : d.cmd \in 0..b
    BY DEF QueueInv, Bounded
  <2>2. \A d \in calls' \cup serve'.receipts : d.cmd \in 0..b
    BY <2>1
  <2>3. QED BY <2>1, <2>2 DEF Bounded
<1>3. Kept(ui.queue, ui.sends, ui.fate, calls, wire)'
  BY DEF Kept, Sound, SendsSafe, QueueSafe, Durable
<1>4. QED BY <1>1, <1>2, <1>3 DEF QueueInv

\* Serve decides on RPCs that it does not take
LEMMA DecidedIsSound ==
  ASSUME NEW ran, NEW R, NEW Q, NEW S, NEW f, NEW C, NEW W, Sound(ran, R, Q, S, f, C, W), NEW D,
         \A e \in D : \E c \in C : /\ e.of = c.of /\ e.cmd = c.cmd
                                   /\ \/ e = c
                                      \/ e.rpc \notin {"asked", "unknown", "not_submitted", "busy"}
                                      \/ e.rpc \in {"not_submitted", "busy"} /\ ran[c.of] = 0
  PROVE  Sound(ran, R, Q, S, f, D, W)
<1>1. SendsSafe(ran, R, Q, S, D)
  <2>1. ASSUME NEW s \in S, s.at = "call", Durable, NEW e \in D, e.of = s.item.of PROVE e.cmd = s.item.cmd
    BY <2>1 DEF Sound, SendsSafe
  <2>2. QED BY <2>1 DEF Sound, SendsSafe
<1>2. QueueSafe(ran, R, Q, D)
  <2>1. ASSUME NEW x \in Q, NEW e \in D, x.of = e.of PROVE Durable /\ e.cmd # None /\ x.cmd = e.cmd
    BY <2>1 DEF Sound, QueueSafe
  <2>2. QED BY <2>1 DEF Sound, QueueSafe
<1>3. CallsSafe(ran, R, D)
  <2>1. ASSUME NEW e \in D
        PROVE  /\ e.rpc = "asked" => Safe(ran, R, e.of, e.cmd)
               /\ e.rpc \in {"not_submitted", "busy"} => ran[e.of] = 0
               /\ e.rpc # "unknown"
    <3>1. PICK c \in C : /\ e.of = c.of /\ e.cmd = c.cmd
                         /\ \/ e = c
                            \/ e.rpc \notin {"asked", "unknown", "not_submitted", "busy"}
                            \/ e.rpc \in {"not_submitted", "busy"} /\ ran[c.of] = 0
      OBVIOUS
    <3>2. QED BY <3>1 DEF Sound, CallsSafe
  <2>2. QED BY <2>1 DEF CallsSafe
<1>4. \A i \in Inputs : f[i] = "unsent" => ran[i] = 0 /\ Quiet(i, D)
  BY DEF Sound, Quiet
<1>5. QED BY <1>1, <1>2, <1>3, <1>4 DEF Sound

\* Serve takes the input of the RPC c
LEMMA TakenIsSound ==
  ASSUME NEW ran, NEW R, NEW q, NEW S, NEW f, NEW C, NEW W, NEW up, Whole(up, q, S, f, C, W),
         Sound(ran, R, Range(q), S, f, C, W), NEW c \in C, c.rpc = "asked",
         ~\E r \in R : c.cmd # None /\ r.of = c.of /\ r.cmd = c.cmd,
         NEW T, R \subseteq T, Durable => \E r \in T : r.of = c.of /\ r.cmd = c.cmd,
         NEW D, \A e \in D : \/ e \in C \ {c}
                             \/ e.of = c.of /\ e.cmd = c.cmd /\ e.rpc \in {"running", "steered"}
  PROVE  Sound([ran EXCEPT ![c.of] = @ + 1], T, Range(q), S, f, D, W)
<1> DEFINE i == c.of
           now == [ran EXCEPT ![i] = @ + 1]
           Q == Range(q)
<1>1. i \in Inputs /\ ran[i] = 0 /\ ran \in [Inputs -> {0, 1}]
  <2>1. i \in Inputs
    BY DEF Whole, Apartness, CallsApart, IsCall
  <2>2. Safe(ran, R, i, c.cmd)
    BY DEF Sound, CallsSafe
  <2>3. QED BY <2>1, <2>2 DEF Safe, Sound
<1>2. now \in [Inputs -> {0, 1}] /\ \A j \in Inputs : j # i => now[j] = ran[j]
  BY <1>1
<1>3. \A j \in Inputs : \A cmd : j # i /\ Safe(ran, R, j, cmd) => Safe(now, T, j, cmd)
  BY <1>2 DEF Safe
<1>4. Durable /\ c.cmd # None => Safe(now, T, i, c.cmd)
  BY DEF Safe
<1>5. /\ SendsApart(up, S) /\ PlacesApart(Q, S, Opened(f)) /\ CallsApart(up, S, C) /\ FramesApart(up, S, C, W)
      /\ \A s \in S : s.item.of \in Inputs
  BY DEF Whole, Apartness, SendsApart, IsSend, Item
<1> HIDE DEF i, now, Q
<1>6. \A s \in S : s.at \in {"handoff", "pause", "recheck"} => s.item.of # i
  <2>1. ASSUME NEW s \in S, s.at \in {"handoff", "pause", "recheck"}, s.item.of = i PROVE FALSE
    <3>1. Quiet(s.item.of, C)
      BY <2>1, IdleIsQuiet DEF Whole
    <3>2. QED BY <2>1, <3>1 DEF Quiet, i
  <2>2. QED BY <2>1
<1>7. \A s \in S, x \in Q : s.at = "resume" /\ x.of = i => FALSE
  <2>1. ASSUME NEW s \in S, NEW x \in Q, s.at = "resume", x.of = i PROVE FALSE
    <3>1. ~Held(S, i)
      BY <1>5, <2>1 DEF PlacesApart
    <3>2. ~Waited(S, i)
      BY <3>1 DEF Held, Waited, Awaiting
    <3>3. ~up
      BY <1>5, <3>2 DEF CallsApart, i
    <3>4. QED BY <1>5, <2>1, <3>3 DEF SendsApart
  <2>2. QED BY <2>1
<1>8. \A e \in D : \E d \in C : e.of = d.of /\ e.cmd = d.cmd
  BY DEF i
<1>9. SendsSafe(now, T, Q, S, D)
  <2>1. ASSUME NEW s \in S, s.at = "call", Durable
        PROVE  s.item.cmd # None /\ Safe(now, T, s.item.of, s.item.cmd) /\ \A e \in D : e.of = s.item.of => e.cmd = s.item.cmd
    <3>1. /\ s.item.cmd # None /\ Safe(ran, R, s.item.of, s.item.cmd)
          /\ \A d \in C : d.of = s.item.of => d.cmd = s.item.cmd
      BY <2>1 DEF Sound, SendsSafe
    <3>2. Safe(now, T, s.item.of, s.item.cmd)
      <4>1. CASE s.item.of = i
        BY <1>4, <2>1, <3>1, <4>1 DEF i
      <4>2. CASE s.item.of # i
        BY <1>3, <1>5, <3>1, <4>2
      <4>3. QED BY <4>1, <4>2
    <3>3. \A e \in D : e.of = s.item.of => e.cmd = s.item.cmd
      BY <1>8, <3>1
    <3>4. QED BY <3>1, <3>2, <3>3
  <2>2. ASSUME NEW s \in S, s.at = "handoff" PROVE Safe(now, T, s.item.of, s.item.cmd)
    BY <1>3, <1>5, <1>6, <2>2 DEF Sound, SendsSafe
  <2>3. ASSUME NEW s \in S, s.at \in {"pause", "recheck"} PROVE now[s.item.of] = 0
    BY <1>2, <1>5, <1>6, <2>3 DEF Sound, SendsSafe
  <2>4. ASSUME NEW s \in S, s.at = "resume", NEW x \in Q, x.of = s.item.of
        PROVE  Safe(now, T, s.item.of, s.item.cmd)
    <3>1. s.item.of # i
      BY <1>7, <2>4
    <3>2. Safe(ran, R, s.item.of, s.item.cmd)
      BY <2>4 DEF Sound, SendsSafe, Q
    <3>3. QED BY <1>3, <1>5, <3>1, <3>2
  <2>5. QED BY <2>1, <2>2, <2>3, <2>4 DEF SendsSafe
<1>10. QueueSafe(now, T, Q, D)
  <2>1. ASSUME NEW x \in Q PROVE Safe(now, T, x.of, x.cmd)
    <3>1. Safe(ran, R, x.of, x.cmd) /\ x.of \in Inputs
      BY <1>5, <2>1 DEF Sound, QueueSafe, Q, PlacesApart, Item
    <3>2. CASE x.of = i
      <4>1. Durable /\ c.cmd # None /\ x.cmd = c.cmd
        BY <2>1, <3>2 DEF Sound, QueueSafe, Q, i
      <4>2. QED BY <1>4, <3>2, <4>1
    <3>3. CASE x.of # i
      BY <1>3, <3>1, <3>3
    <3>4. QED BY <3>2, <3>3
  <2>2. ASSUME NEW x \in Q, NEW e \in D, x.of = e.of PROVE Durable /\ e.cmd # None /\ x.cmd = e.cmd
    <3>1. PICK d \in C : e.of = d.of /\ e.cmd = d.cmd
      BY <1>8
    <3>2. QED BY <2>2, <3>1 DEF Sound, QueueSafe, Q
  <2>3. QED BY <2>1, <2>2 DEF QueueSafe
<1>11. CallsSafe(now, T, D)
  <2>1. ASSUME NEW e \in C \ {c}
        PROVE  /\ e.rpc = "asked" => Safe(now, T, e.of, e.cmd)
               /\ e.rpc \in {"not_submitted", "busy"} => now[e.of] = 0
               /\ e.rpc # "unknown"
    <3>1. e.of # i /\ e.of \in Inputs
      BY <1>5, <2>1 DEF CallsApart, i, IsCall
    <3>2. /\ e.rpc = "asked" => Safe(ran, R, e.of, e.cmd)
          /\ e.rpc \in {"not_submitted", "busy"} => ran[e.of] = 0
          /\ e.rpc # "unknown"
      BY <2>1 DEF Sound, CallsSafe
    <3>3. QED BY <1>2, <1>3, <3>1, <3>2
  <2>2. QED BY <2>1 DEF CallsSafe
<1>12. \A j \in Inputs : f[j] = "unsent" => now[j] = 0 /\ Quiet(j, D)
  <2>1. ASSUME NEW j \in Inputs, f[j] = "unsent" PROVE now[j] = 0 /\ Quiet(j, D)
    <3>1. ran[j] = 0 /\ Quiet(j, C)
      BY <2>1 DEF Sound
    <3>2. j # i
      BY <3>1 DEF Quiet, i
    <3>3. QED BY <1>2, <1>8, <3>1, <3>2 DEF Quiet
  <2>2. QED BY <2>1
<1>13. ASSUME NEW k \in DOMAIN W PROVE FrameSafe(now, W[k])
  <2>1. IsFrame(W[k], up, S, C) /\ FrameSafe(ran, W[k])
    BY <1>5 DEF FramesApart, Sound
  <2>2. W[k].of # None => W[k].of # i
    BY <2>1 DEF IsFrame, i
  <2>3. W[k].of # None => W[k].of \in Inputs
    BY <1>5, <2>1 DEF IsFrame, Waited
  <2>4. QED BY <1>2, <2>1, <2>2, <2>3 DEF FrameSafe
<1>14. QED BY <1>2, <1>9, <1>10, <1>11, <1>12, <1>13 DEF Sound, now, i, Q

\* What Serve's decision makes of the RPCs
Decided(C, c, rpc, turn) == (C \ {c}) \cup IF c.lost THEN {} ELSE {[c EXCEPT !.rpc = rpc, !.turn = turn]}

LEMMA DecidedIsWhole ==
  ASSUME NEW up, NEW q, NEW S, NEW f, NEW C, NEW W, Whole(up, q, S, f, C, W), NEW c \in C, NEW turn,
         NEW rpc \in {"running"} \cup Answers,
         \A s \in S : s.at = "compose" /\ s.item.of = c.of => rpc \in {"steered", "busy", "error"}
  PROVE  /\ Whole(up, q, S, f, Decided(C, c, rpc, turn), W)
         /\ \A e \in Decided(C, c, rpc, turn) :
              e \in C \ {c} \/ (e.of = c.of /\ e.cmd = c.cmd /\ e.rpc = rpc)
<1> DEFINE w == [c EXCEPT !.rpc = rpc]
           d == [w EXCEPT !.turn = turn]
           D == Decided(C, c, rpc, turn)
<1>1. IsCall(c)
  BY DEF Whole, Apartness, CallsApart
<1>2. /\ IsCall(w) /\ w.of = c.of /\ w.cmd = c.cmd /\ w.kind = c.kind /\ w.rpc = rpc
      /\ w.lost <=> c.lost
  BY <1>1 DEF IsCall
<1>3. D = (C \ {c}) \cup IF c.lost THEN {} ELSE {d}
  <2>1. d = [c EXCEPT !.rpc = rpc, !.turn = turn]
    OBVIOUS
  <2>2. QED BY <2>1 DEF Decided
<1> HIDE DEF w
<1>4. /\ IsCall(d) /\ d.of = c.of /\ d.cmd = c.cmd /\ d.kind = c.kind /\ d.rpc = rpc
      /\ d.lost <=> c.lost
  BY <1>2 DEF IsCall
<1> HIDE DEF d, D
<1>5. Apartness(up, Range(q), S, Opened(f), C, W)
  BY DEF Whole
<1>6. CASE c.lost
  <2>1. D = C \ {c}
    BY <1>3, <1>6
  <2>2. Apartness(up, Range(q), S, Opened(f), D, W)
    BY <1>5, <2>1, ForgetKeeps
  <2>3. QED BY <2>1, <2>2 DEF Whole, D
<1>7. CASE ~c.lost
  <2>1. D = (C \ {c}) \cup {d}
    BY <1>3, <1>7
  <2>2. rpc \in {"asked", "running"} \cup Answers
    OBVIOUS
  <2>3. Apartness(up, Range(q), S, Opened(f), (C \ {c}) \cup {d}, W)
    BY <1>4, <1>5, <1>7, <2>2, DecideKeeps
  <2>4. QED BY <1>4, <2>1, <2>3 DEF Whole, D
<1>8. QED BY <1>6, <1>7

\* A decision by which Serve does not take the input
LEMMA DeclinedKeeps ==
  ASSUME QueueInv, ~world.lazy, UNCHANGED <<world, ui, serve, wire>>, NEW c \in calls, NEW turn,
         NEW rpc \in {"running"} \cup Answers, Decide(c, rpc, turn),
         \A s \in ui.sends : s.at = "compose" /\ s.item.of = c.of => rpc \in {"steered", "busy", "error"},
         ~world.loses => /\ rpc # "unknown"
                         /\ rpc \in {"not_submitted", "busy"} => serve.ran[c.of] = 0
  PROVE  QueueInv'
<1> DEFINE D == Decided(calls, c, rpc, turn)
<1>1. calls' = D
  BY DEF Decide, Decided
<1>2. Whole(ui.up, ui.queue, ui.sends, ui.fate, calls, wire)
  BY InvShows
<1>3. /\ Whole(ui.up, ui.queue, ui.sends, ui.fate, D, wire)
      /\ \A e \in D : e \in calls \ {c} \/ (e.of = c.of /\ e.cmd = c.cmd /\ e.rpc = rpc)
  BY <1>2, DecidedIsWhole
<1> HIDE DEF D
<1>4. \A d \in calls' \cup serve'.receipts : \E e \in calls \cup serve.receipts : d.cmd = e.cmd
  BY <1>1, <1>3
<1>5. ASSUME ~world.loses
      PROVE  Sound(serve.ran, serve.receipts, Range(ui.queue), ui.sends, ui.fate, D, wire)
  <2>1. Sound(serve.ran, serve.receipts, Range(ui.queue), ui.sends, ui.fate, calls, wire)
    BY <1>5, InvShows DEF Kept
  <2>2. \A e \in D : \E b \in calls : /\ e.of = b.of /\ e.cmd = b.cmd
                                      /\ \/ e = b
                                         \/ e.rpc \notin {"asked", "unknown", "not_submitted", "busy"}
                                         \/ e.rpc \in {"not_submitted", "busy"} /\ serve.ran[b.of] = 0
    <3>1. rpc \notin {"asked", "unknown"}
      BY <1>5 DEF Answers
    <3>2. ASSUME NEW e \in D, e \notin calls
          PROVE  /\ e.of = c.of /\ e.cmd = c.cmd
                 /\ \/ e.rpc \notin {"asked", "unknown", "not_submitted", "busy"}
                    \/ e.rpc \in {"not_submitted", "busy"} /\ serve.ran[c.of] = 0
      BY <1>3, <1>5, <3>1, <3>2
    <3>3. QED BY <3>2
  <2>3. QED BY <2>1, <2>2, DecidedIsSound
<1>6. Taken(serve'.receipts)
  BY DEF QueueInv
<1>7. QED BY <1>1, <1>3, <1>4, <1>5, <1>6, ServeSideKeeps

\* A decision by which it does
LEMMA TakenKeeps ==
  ASSUME QueueInv, ~world.lazy, UNCHANGED <<world, ui>>, NEW c \in calls, c.rpc = "asked", Receipts(c) = {},
         NEW how \in {"started", "steered"}, NEW rpc \in {"running", "steered"}, NEW turn,
         Take(c, how, turn), Decide(c, rpc, turn),
         \A s \in ui.sends : s.at = "compose" /\ s.item.of = c.of => rpc = "steered",
         wire' = wire \/ \E m : m.of = None /\ wire' = Append(wire, m)
  PROVE  QueueInv'
<1> DEFINE D == Decided(calls, c, rpc, turn)
           r == [of |-> c.of, cmd |-> c.cmd, how |-> how, turn |-> turn]
           T == IF Durable THEN serve.receipts \cup {r} ELSE serve.receipts
           now == [serve.ran EXCEPT ![c.of] = @ + 1]
<1>1. calls' = D
  BY DEF Decide, Decided
<1>2. serve'.ran = now /\ serve'.receipts = T /\ DOMAIN serve' = DOMAIN serve
  <2>1. DOMAIN serve = {"turn", "last", "attached", "receipts", "ran"}
    BY DEF QueueInv
  <2>2. QED BY <2>1 DEF Take
<1>3. Whole(ui.up, ui.queue, ui.sends, ui.fate, calls, wire)
  BY InvShows
<1>4. /\ Whole(ui.up, ui.queue, ui.sends, ui.fate, D, wire)
      /\ \A e \in D : e \in calls \ {c} \/ (e.of = c.of /\ e.cmd = c.cmd /\ e.rpc = rpc)
  <2>1. rpc \in {"running"} \cup Answers
    BY DEF Answers
  <2>2. QED BY <1>3, <2>1, DecidedIsWhole
<1>5. Whole(ui.up, ui.queue, ui.sends, ui.fate, D, wire')
  <2> HIDE DEF D
  <2>1. ASSUME NEW m, m.of = None
        PROVE  Whole(ui.up, ui.queue, ui.sends, ui.fate, D, Append(wire, m))
    BY <1>4, <2>1, EventKeeps DEF Whole
  <2>2. QED BY <1>4, <2>1
<1>6. r.of = c.of /\ r.cmd = c.cmd /\ r.how = how
  OBVIOUS
<1> HIDE DEF D, r
<1>7. \A d \in D \cup T : \E e \in calls \cup serve.receipts : d.cmd = e.cmd
  BY <1>4, <1>6
<1>8. Taken(T)
  BY <1>6 DEF QueueInv, Taken
<1>9. serve.receipts \subseteq T /\ (Durable => \E t \in T : t.of = c.of /\ t.cmd = c.cmd)
  BY <1>6
<1> HIDE DEF T, now
<1>10. ASSUME ~world.loses
       PROVE  Sound(now, T, Range(ui.queue), ui.sends, ui.fate, D, wire')
  <2>1. Sound(serve.ran, serve.receipts, Range(ui.queue), ui.sends, ui.fate, calls, wire)
    BY <1>10, InvShows DEF Kept
  <2>2. ~\E t \in serve.receipts : c.cmd # None /\ t.of = c.of /\ t.cmd = c.cmd
    BY DEF Receipts
  <2>3. \A e \in D : \/ e \in calls \ {c}
                     \/ e.of = c.of /\ e.cmd = c.cmd /\ e.rpc \in {"running", "steered"}
    BY <1>4
  <2>4. Sound(now, T, Range(ui.queue), ui.sends, ui.fate, D, wire)
    BY <1>3, <1>9, <2>1, <2>2, <2>3, TakenIsSound DEF now
  <2>5. ASSUME NEW m, m.of = None
        PROVE  Sound(now, T, Range(ui.queue), ui.sends, ui.fate, D, Append(wire, m))
    <3>1. wire \in Seq(Range(wire))
      BY <1>3 DEF Whole, Apartness, FramesApart
    <3> DEFINE V == Append(wire, m)
    <3>2. /\ DOMAIN V = 1..Len(wire) + 1 /\ DOMAIN wire = 1..Len(wire) /\ Len(wire) \in Nat
          /\ \A k \in DOMAIN wire : V[k] = wire[k]
          /\ V[Len(wire) + 1] = m
      BY <3>1, AppendOfRange
    <3> HIDE DEF V
    <3>3. \A k \in DOMAIN V : k \in DOMAIN wire \/ k = Len(wire) + 1
      BY <3>2
    <3>4. \A k \in DOMAIN V : FrameSafe(now, V[k])
      <4>1. FrameSafe(now, m)
        BY <2>5 DEF FrameSafe
      <4>2. QED BY <2>4, <3>2, <3>3, <4>1 DEF Sound
    <3>5. QED BY <2>4, <3>4 DEF Sound, V
  <2>6. QED BY <2>4, <2>5
<1>11. QED BY <1>1, <1>2, <1>5, <1>7, <1>8, <1>10, ServeSideKeeps

LEMMA ServeReadsKeeps ==
  ASSUME QueueInv, ~world.lazy, ServeReads
  PROVE  QueueInv'
<1>1. UNCHANGED <<world, ui>>
  BY DEF ServeReads
<1>2. PICK c \in calls :
        /\ c.rpc = "asked"
        /\ \/ Receipts(c) = {} /\ (ServeStarts(c) \/ ServeSteers(c) \/ ServeDeclines(c) \/ ServeIsBusy(c))
           \/ ServeRepeats(c)
           \/ ServeRefuses(c)
  BY DEF ServeReads
<1>3. \A s \in ui.sends : s.at = "compose" /\ s.item.of = c.of => c.cmd = None /\ c.kind = "steer"
  BY InvShows DEF Whole, Apartness, CallsApart
<1>4. ASSUME ~world.loses, Receipts(c) = {} PROVE serve.ran[c.of] = 0
  <2>1. CallsSafe(serve.ran, serve.receipts, calls)
    BY <1>4, InvShows DEF Kept, Sound
  <2>2. QED BY <1>2, <1>4, <2>1 DEF CallsSafe, Safe, Receipts
<1>5. CASE Receipts(c) = {} /\ ServeStarts(c)
  <2> DEFINE turn == serve.last + 1
             m == Event("start", turn)
  <2>1. m.of = None /\ wire' = Append(wire, m) /\ Take(c, "started", turn) /\ Decide(c, "running", turn) /\ c.kind # "steer"
    BY <1>5 DEF ServeStarts, Event
  <2> HIDE DEF turn, m
  <2>2. \A s \in ui.sends : s.at = "compose" /\ s.item.of = c.of => FALSE
    BY <1>3, <2>1
  <2>3. QED BY <1>1, <1>2, <1>5, <2>1, <2>2, TakenKeeps
<1>6. CASE Receipts(c) = {} /\ ServeSteers(c)
  <2>1. Take(c, "steered", serve.turn) /\ Decide(c, "steered", serve.turn) /\ wire' = wire
    BY <1>6 DEF ServeSteers
  <2>2. QED BY <1>1, <1>2, <1>6, <2>1, TakenKeeps
<1>7. CASE Receipts(c) = {} /\ ServeDeclines(c)
  <2>1. Decide(c, "not_submitted", serve.turn) /\ serve' = serve /\ wire' = wire /\ c.kind = "submit"
    BY <1>7 DEF ServeDeclines
  <2>2. "not_submitted" \in {"running"} \cup Answers
    BY DEF Answers
  <2>3. QED BY <1>1, <1>3, <1>4, <1>7, <2>1, <2>2, DeclinedKeeps
<1>8. CASE Receipts(c) = {} /\ ServeIsBusy(c)
  <2>1. Decide(c, "busy", None) /\ serve' = serve /\ wire' = wire
    BY <1>8 DEF ServeIsBusy
  <2>2. "busy" \in {"running"} \cup Answers
    BY DEF Answers
  <2>3. QED BY <1>1, <1>4, <1>8, <2>1, <2>2, DeclinedKeeps
<1>9. CASE ServeRepeats(c)
  <2>1. PICK r \in Receipts(c) : Decide(c, IF r.how = "started" /\ serve.turn = r.turn THEN "running" ELSE r.how, r.turn)
    BY <1>9 DEF ServeRepeats
  <2> DEFINE rpc == IF r.how = "started" /\ serve.turn = r.turn THEN "running" ELSE r.how
  <2>2. r.how \in {"started", "steered"} /\ c.cmd # None
    BY <2>1 DEF Receipts, QueueInv, Taken
  <2>3. rpc \in {"running"} \cup Answers /\ rpc \notin {"unknown", "not_submitted", "busy"}
    BY <2>2 DEF Answers
  <2>4. Decide(c, rpc, r.turn) /\ serve' = serve /\ wire' = wire
    BY <1>9, <2>1 DEF ServeRepeats
  <2> HIDE DEF rpc
  <2>5. QED BY <1>1, <1>3, <2>2, <2>3, <2>4, DeclinedKeeps
<1>10. CASE ServeRefuses(c)
  <2>1. Decide(c, "error", None) /\ serve' = serve /\ wire' = wire
    BY <1>10 DEF ServeRefuses
  <2>2. "error" \in {"running"} \cup Answers /\ "error" \notin {"unknown", "not_submitted", "busy"}
    BY DEF Answers
  <2>3. QED BY <1>1, <2>1, <2>2, DeclinedKeeps
<1>11. QED BY <1>2, <1>5, <1>6, <1>7, <1>8, <1>9, <1>10

LEMMA EventIsSound ==
  ASSUME NEW ran, NEW R, NEW Q, NEW S, NEW f, NEW C, NEW W, Sound(ran, R, Q, S, f, C, W),
         W \in Seq(Range(W)), NEW m, FrameSafe(ran, m)
  PROVE  Sound(ran, R, Q, S, f, C, Append(W, m))
<1> DEFINE V == Append(W, m)
<1>1. /\ DOMAIN V = 1..Len(W) + 1 /\ DOMAIN W = 1..Len(W) /\ Len(W) \in Nat
      /\ \A k \in DOMAIN W : V[k] = W[k]
      /\ V[Len(W) + 1] = m
  BY AppendOfRange
<1> HIDE DEF V
<1>2. \A k \in DOMAIN V : k \in DOMAIN W \/ k = Len(W) + 1
  BY <1>1
<1>3. \A k \in DOMAIN V : FrameSafe(ran, V[k])
  BY <1>1, <1>2 DEF Sound
<1>4. QED BY <1>3 DEF Sound, V

LEMMA EventStays ==
  ASSUME NEW up, NEW q, NEW S, NEW f, NEW C, NEW W, Whole(up, q, S, f, C, W), NEW ran, NEW R,
         ~world.loses => Sound(ran, R, Range(q), S, f, C, W), NEW m, m.of = None
  PROVE  /\ Whole(up, q, S, f, C, Append(W, m))
         /\ ~world.loses => Sound(ran, R, Range(q), S, f, C, Append(W, m))
<1>1. Whole(up, q, S, f, C, Append(W, m))
  BY EventKeeps DEF Whole
<1>2. W \in Seq(Range(W)) /\ FrameSafe(ran, m)
  BY DEF Whole, Apartness, FramesApart, FrameSafe
<1>3. QED BY <1>1, <1>2, EventIsSound

LEMMA EndTurnKeeps ==
  ASSUME QueueInv, ~world.lazy, EndTurn
  PROVE  QueueInv'
<1>1. UNCHANGED <<world, ui>> /\ serve'.ran = serve.ran /\ serve'.receipts = serve.receipts /\ DOMAIN serve' = DOMAIN serve
  BY DEF EndTurn, QueueInv
<1>2. PICK rpc \in {"started", "unknown"} :
        /\ rpc = "unknown" => world.loses
        /\ calls' = {IF c.rpc = "running" THEN [c EXCEPT !.rpc = rpc] ELSE c : c \in calls}
  BY DEF EndTurn
<1> DEFINE q == ui.queue
           S == ui.sends
           f == ui.fate
           D == {IF c.rpc = "running" THEN [c EXCEPT !.rpc = rpc] ELSE c : c \in calls}
           ran == serve.ran
           R == serve.receipts
           m == Event("over", serve.turn)
           e == Event("end", serve.turn)
<1>3. Whole(ui.up, q, S, f, calls, wire) /\ (~world.loses => Sound(ran, R, Range(q), S, f, calls, wire))
  BY InvShows DEF Kept
<1>4. \A d \in D : \E c \in calls : d.of = c.of /\ d.cmd = c.cmd /\ (d = c \/ d.rpc = rpc)
  <2>1. \A c \in calls : IsCall(c)
    BY <1>3 DEF Whole, Apartness, CallsApart
  <2>2. ASSUME NEW d \in D PROVE \E c \in calls : d.of = c.of /\ d.cmd = c.cmd /\ (d = c \/ d.rpc = rpc)
    <3>1. PICK c \in calls : d = IF c.rpc = "running" THEN [c EXCEPT !.rpc = rpc] ELSE c
      OBVIOUS
    <3>2. QED BY <2>1, <3>1 DEF IsCall
  <2>3. QED BY <2>2
<1>5. Whole(ui.up, q, S, f, D, wire)
  <2>1. rpc \in Answers
    BY DEF Answers
  <2>2. QED BY <1>3, <2>1, RelabelKeeps DEF Whole
<1>6. wire \in Seq(Range(wire)) /\ (wire' = Append(wire, e) \/ wire' = Append(Append(wire, m), e))
  <2>1. wire \in Seq(Range(wire))
    BY <1>3 DEF Whole, Apartness, FramesApart
  <2> DEFINE T == Range(wire) \cup {m, e}
  <2>2. wire \in Seq(T) /\ m \in T /\ e \in T
    BY <2>1
  <2>3. wire' = wire \o (IF Atomic THEN <<m>> ELSE <<>>) \o <<e>>
    BY DEF EndTurn
  <2> HIDE DEF T, m, e
  <2>4. wire \o <<e>> = Append(wire, e) /\ wire \o <<>> = wire /\ wire \o <<m>> = Append(wire, m)
        /\ Append(wire, m) \o <<e>> = Append(Append(wire, m), e)
    BY <2>2
  <2>5. QED BY <2>1, <2>3, <2>4
<1>7. m.of = None /\ e.of = None
  BY DEF Event
<1> HIDE DEF D, q, S, f, ran, R, m, e
<1>8. ~world.loses => Sound(ran, R, Range(q), S, f, D, wire)
  <2>1. SUFFICES ASSUME ~world.loses PROVE Sound(ran, R, Range(q), S, f, D, wire)
    OBVIOUS
  <2>2. rpc = "started"
    BY <1>2, <2>1
  <2>3. \A d \in D : \E c \in calls : /\ d.of = c.of /\ d.cmd = c.cmd
                                      /\ \/ d = c
                                         \/ d.rpc \notin {"asked", "unknown", "not_submitted", "busy"}
                                         \/ d.rpc \in {"not_submitted", "busy"} /\ ran[c.of] = 0
    BY <1>4, <2>2
  <2>4. QED BY <1>3, <2>1, <2>3, DecidedIsSound
<1>9. Whole(ui.up, q, S, f, D, wire') /\ (~world.loses => Sound(ran, R, Range(q), S, f, D, wire'))
  <2>1. CASE wire' = Append(wire, e)
    BY <1>5, <1>7, <1>8, <2>1, EventStays
  <2>2. CASE wire' = Append(Append(wire, m), e)
    <3> DEFINE V == Append(wire, m)
    <3>1. Whole(ui.up, q, S, f, D, V) /\ (~world.loses => Sound(ran, R, Range(q), S, f, D, V))
      BY <1>5, <1>7, <1>8, EventStays
    <3>2. wire' = Append(V, e)
      BY <2>2
    <3> HIDE DEF V
    <3>3. QED BY <1>7, <3>1, <3>2, EventStays
  <2>3. QED BY <1>6, <2>1, <2>2
<1>10. Taken(serve'.receipts) /\ \A d \in calls' \cup serve'.receipts : \E c \in calls \cup serve.receipts : d.cmd = c.cmd
  BY <1>1, <1>2, <1>4 DEF QueueInv, D
<1>11. QED BY <1>1, <1>2, <1>9, <1>10, ServeSideKeeps DEF D, q, S, f, ran, R

LEMMA StartForeignKeeps ==
  ASSUME QueueInv, ~world.lazy, StartForeign
  PROVE  QueueInv'
<1>1. UNCHANGED <<world, ui, calls>> /\ serve'.ran = serve.ran /\ serve'.receipts = serve.receipts /\ DOMAIN serve' = DOMAIN serve
  BY DEF StartForeign, QueueInv
<1> DEFINE m == Event("start", serve.last + 1)
<1>2. wire' = Append(wire, m) /\ m.of = None
  BY DEF StartForeign, Event
<1> HIDE DEF m
<1>3. /\ Whole(ui.up, ui.queue, ui.sends, ui.fate, calls, wire')
      /\ ~world.loses => Sound(serve.ran, serve.receipts, Range(ui.queue), ui.sends, ui.fate, calls, wire')
  BY <1>2, InvShows, EventStays DEF Kept
<1>4. Taken(serve'.receipts)
  BY <1>1 DEF QueueInv
<1>5. QED BY <1>1, <1>3, <1>4, ServeSideKeeps

LEMMA AnswerStepKeeps ==
  ASSUME QueueInv, ~world.lazy, Answer
  PROVE  QueueInv'
<1>1. UNCHANGED <<world, ui, serve>>
  BY DEF Answer
<1>2. PICK c \in calls : /\ c.rpc \notin {"asked", "running"} /\ calls' = calls \ {c}
                         /\ wire' = Append(wire, [kind |-> c.rpc, turn |-> c.turn, of |-> c.of, n |-> c.n])
  BY DEF Answer
<1> DEFINE m == [kind |-> c.rpc, turn |-> c.turn, of |-> c.of, n |-> c.n]
           D == calls \ {c}
<1>3. m.of = c.of /\ m.kind = c.rpc /\ wire' = Append(wire, m)
  BY <1>2
<1> HIDE DEF m
<1>4. Whole(ui.up, ui.queue, ui.sends, ui.fate, calls, wire)
  BY InvShows
<1>5. Whole(ui.up, ui.queue, ui.sends, ui.fate, D, wire')
  BY <1>2, <1>3, <1>4, AnswerKeeps DEF Whole
<1>6. ASSUME ~world.loses
      PROVE  Sound(serve.ran, serve.receipts, Range(ui.queue), ui.sends, ui.fate, D, wire')
  <2>1. Sound(serve.ran, serve.receipts, Range(ui.queue), ui.sends, ui.fate, calls, wire)
    BY <1>6, InvShows DEF Kept
  <2>2. FrameSafe(serve.ran, m)
    BY <1>3, <2>1 DEF Sound, CallsSafe, FrameSafe
  <2>3. Sound(serve.ran, serve.receipts, Range(ui.queue), ui.sends, ui.fate, D, wire)
    BY <2>1, DecidedIsSound
  <2>4. wire \in Seq(Range(wire))
    BY <1>4 DEF Whole, Apartness, FramesApart
  <2>5. QED BY <1>3, <2>2, <2>3, <2>4, EventIsSound
<1>7. Taken(serve'.receipts) /\ \A d \in calls' \cup serve'.receipts : \E e \in calls \cup serve.receipts : d.cmd = e.cmd
  BY <1>1, <1>2 DEF QueueInv
<1>8. QED BY <1>1, <1>2, <1>5, <1>6, <1>7, ServeSideKeeps

--------------------------------------------------------------------------------
(* The connection                                                                 *)

\* Events are for nobody
Events(W) == W \in Seq(Range(W)) /\ \A k \in DOMAIN W : W[k].of = None

LEMMA ConcatEvents ==
  ASSUME NEW V, NEW W, Events(V), Events(W)
  PROVE  Events(V \o W)
<1> DEFINE U == V \o W
           T == Range(V) \cup Range(W)
<1>1. V \in Seq(T) /\ W \in Seq(T)
  BY DEF Events
<1> HIDE DEF T
<1>2. U \in Seq(T) /\ Len(U) = Len(V) + Len(W) /\ Len(V) \in Nat /\ Len(W) \in Nat
      /\ DOMAIN V = 1..Len(V) /\ DOMAIN W = 1..Len(W) /\ DOMAIN U = 1..Len(U)
      /\ \A k \in 1..Len(U) : U[k] = IF k <= Len(V) THEN V[k] ELSE W[k - Len(V)]
  BY <1>1
<1> HIDE DEF U
<1>3. U \in Seq(Range(U))
  BY <1>2, SeqOverRange
<1>4. ASSUME NEW k \in DOMAIN U PROVE U[k].of = None
  <2>1. CASE k <= Len(V)
    BY <1>2, <2>1 DEF Events
  <2>2. CASE ~(k <= Len(V))
    <3>1. k - Len(V) \in DOMAIN W /\ U[k] = W[k - Len(V)]
      BY <1>2, <2>2
    <3>2. QED BY <3>1 DEF Events
  <2>3. QED BY <2>1, <2>2
<1>5. QED BY <1>3, <1>4 DEF Events, U

LEMMA EventsAlone ==
  ASSUME NEW m, m.of = None
  PROVE  Events(<<m>>) /\ Events(<<>>)
<1>1. <<m>> \in Seq({m}) /\ DOMAIN <<m>> = 1..1 /\ <<m>>[1] = m
  OBVIOUS
<1>2. <<m>> \in Seq(Range(<<m>>))
  BY <1>1, SeqOverRange
<1>3. <<>> \in Seq({m}) /\ DOMAIN <<>> = 1..0
  OBVIOUS
<1>4. <<>> \in Seq(Range(<<>>))
  BY <1>3, SeqOverRange
<1>5. QED BY <1>1, <1>2, <1>3, <1>4 DEF Events

LEMMA EventsAreQuiet ==
  ASSUME NEW W, Events(W), NEW up, NEW S, NEW C, NEW ran
  PROVE  FramesApart(up, S, C, W) /\ \A k \in DOMAIN W : FrameSafe(ran, W[k])
BY DEF Events, FramesApart, IsFrame, FrameSafe

LEMMA ConnectKeeps ==
  ASSUME QueueInv, ~world.lazy, Connect
  PROVE  QueueInv'
<1> DEFINE q == ui.queue
           S == ui.sends
           f == ui.fate
           u == Cleared(ui)
<1>1. Shows(ui, ui.up, q, S, f, {}) /\ Whole(ui.up, q, S, f, calls, wire) /\ Kept(q, S, f, calls, wire)
  BY InvShows
<1>2. ~ui.up /\ (\A c \in calls : c.rpc # "asked") /\ UNCHANGED <<world, calls, serve>>
  BY DEF Connect
<1>3. PICK yes : yes = TRUE
  OBVIOUS
<1> DEFINE v == [u EXCEPT !.up = yes]
<1>4. ui' = v
  BY <1>3, Zenon DEF Connect
<1> HIDE DEF q, S, f
<1>5. Shows(v, yes, q, S, f, {})
  <2>1. Shows(u, ui.up, q, S, f, {})
    BY <1>1, ClearedShows
  <2> HIDE DEF u
  <2>2. QED BY <2>1 DEF Shows, Eager, Fields
<1> HIDE DEF v
<1>6. calls = {}
  BY <1>1, <1>2 DEF Whole, Apartness, CallsApart
<1>7. Events(wire')
  <2>1. Events(wire)
    BY <1>1, <1>2 DEF Whole, Apartness, FramesApart, IsFrame, Events
  <2> DEFINE m == Event(IF serve.turn = None THEN "over" ELSE "live", serve.last)
             V == IF Atomic /\ serve.last # None THEN <<m>> ELSE <<>>
  <2>2. PICK replayed \in {<<>>, wire} : wire' = replayed \o V
    BY DEF Connect
  <2>3. m.of = None
    BY DEF Event
  <2> HIDE DEF m
  <2>4. Events(V) /\ Events(<<>>)
    BY <2>3, EventsAlone
  <2> HIDE DEF V
  <2>5. QED BY <2>1, <2>2, <2>4, ConcatEvents
<1>8. Whole(yes, q, S, f, calls, wire')
  <2>1. SendsApart(yes, S)
    BY <1>1, <1>3 DEF Whole, Apartness, SendsApart
  <2>2. CallsApart(yes, S, calls)
    BY <1>6 DEF CallsApart
  <2>3. FramesApart(yes, S, calls, wire')
    BY <1>7, EventsAreQuiet
  <2>4. QED BY <1>1, <2>1, <2>2, <2>3 DEF Whole, Apartness
<1>9. ASSUME ~world.loses PROVE Sound(serve.ran, serve.receipts, Range(q), S, f, calls, wire')
  <2>1. \A k \in DOMAIN wire' : FrameSafe(serve.ran, wire'[k])
    BY <1>7, EventsAreQuiet
  <2>2. QED BY <1>1, <1>9, <2>1 DEF Kept, Sound
<1>10. Lands(v, yes, calls, wire')
  <2>1. Kept(q, S, f, calls, wire')
    BY <1>9 DEF Kept
  <2>2. QED BY <1>5, <1>8, <2>1, ShowsLands
<1>11. Step(v)
  <2>1. v.out = {} /\ DOMAIN v = Fields
    BY <1>5 DEF Shows, Eager
  <2>2. v = [v EXCEPT !.out = {}]
    <3> HIDE DEF u
    <3>1. v = [x \in DOMAIN v |-> v[x]]
      BY DEF v
    <3>2. QED BY <2>1, <3>1
  <2>3. QED BY <1>2, <1>4, <2>1, <2>2 DEF Step
<1>12. serve'.ran = serve.ran /\ serve'.receipts = serve.receipts /\ DOMAIN serve' = DOMAIN serve /\ world' = world
  BY <1>2
<1>13. QED BY <1>10, <1>11, <1>12, LandsKeeps

\* What a lost connection leaves of the calls of sendText
LEMMA AbandonedSends ==
  ASSUME NEW up, NEW S, SendsApart(up, S), IsFiniteSet(S)
  PROVE  LET A == Abandoned(S)
         IN /\ IsFiniteSet(A)
            /\ \A a \in A : /\ IsSend(a) /\ a.at # "resume" /\ (a.stale <=> a.at # "handoff")
                            /\ \E s \in S : s.at = a.at /\ s.item = a.item
            /\ \A s \in S : s.at # "resume" => \E a \in A : a.at = s.at /\ a.item = s.item
            /\ \A a, b \in A : a.item.of = b.item.of => a = b
<1> DEFINE A == Abandoned(S)
           T == {t \in S : t.at # "resume"}
           g == [t \in T |-> [t EXCEPT !.stale = t.at # "handoff"]]
<1>1. A = {g[t] : t \in T}
  BY DEF Abandoned
<1>2. ASSUME NEW t \in T
      PROVE  IsSend(g[t]) /\ g[t].at = t.at /\ g[t].item = t.item /\ (g[t].stale <=> t.at # "handoff")
  <2>1. PICK away : away \in BOOLEAN /\ away = (t.at # "handoff")
    BY Zenon
  <2>2. g[t] = [t EXCEPT !.stale = away]
    BY <2>1, Zenon
  <2>3. IsSend(t)
    BY DEF SendsApart
  <2> HIDE DEF g, T
  <2>4. IsSend(g[t]) /\ g[t].at = t.at /\ g[t].item = t.item /\ g[t].stale = away
    BY <2>2, <2>3 DEF IsSend
  <2>5. QED BY <2>1, <2>4
<1>3. IsFiniteSet(A)
  <2>1. IsFiniteSet(T)
    BY FS_Subset
  <2>2. DOMAIN g = T /\ g = [t \in T |-> g[t]]
    OBVIOUS
  <2> HIDE DEF g, A, T
  <2>3. g \in Surjection(T, A)
    BY <1>1, <2>2 DEF Surjection
  <2>4. QED BY <2>1, <2>3, FS_Surjection
<1>4. \A t \in T : t \in S /\ t.at # "resume"
  OBVIOUS
<1>5. \A t \in S : t.at # "resume" => t \in T
  OBVIOUS
<1> HIDE DEF g, A, T
<1>6. ASSUME NEW a \in A
      PROVE  /\ IsSend(a) /\ a.at # "resume" /\ (a.stale <=> a.at # "handoff")
             /\ \E s \in S : s.at = a.at /\ s.item = a.item
  <2>1. PICK t \in T : a = g[t]
    BY <1>1
  <2>2. QED BY <1>2, <1>4, <2>1
<1>7. ASSUME NEW s \in S, s.at # "resume" PROVE \E a \in A : a.at = s.at /\ a.item = s.item
  <2>1. s \in T
    BY <1>5, <1>7
  <2>2. g[s] \in A
    BY <1>1, <2>1
  <2>3. QED BY <1>2, <2>1, <2>2
<1>8. ASSUME NEW a \in A, NEW b \in A, a.item.of = b.item.of PROVE a = b
  <2>1. PICK t \in T : a = g[t]
    BY <1>1
  <2>2. PICK r \in T : b = g[r]
    BY <1>1
  <2>3. t.item.of = r.item.of
    BY <1>2, <1>8, <2>1, <2>2
  <2>4. t = r
    BY <1>4, <2>3 DEF SendsApart
  <2>5. QED BY <2>1, <2>2, <2>4
<1>9. QED BY <1>3, <1>6, <1>7, <1>8 DEF A

\* A call of sendText ends, or its input comes to the queue
LEMMA PlacesDrop ==
  ASSUME NEW Q, NEW S, NEW O, PlacesApart(Q, S, O), NEW s \in S, s.at # "resume",
         \A t \in S : t.item.of = s.item.of => t = s
  PROVE  PlacesApart(Q, S \ {s}, O \ {s.item.of}) /\ s.item.of \in O /\ \A x \in Q : x.of # s.item.of
<1> DEFINE i == s.item.of
           B == S \ {s}
<1>1. i \in O
  BY DEF PlacesApart
<1>2. Held(S, i)
  BY DEF Held
<1>3. \A x \in Q : x.of # i
  BY <1>2 DEF PlacesApart
<1>4. \A j : j # i => (Held(B, j) <=> Held(S, j))
  BY DEF Held
<1>5. \A t \in B : t.at # "resume" => t.item.of \in O \ {i}
  BY DEF PlacesApart
<1> HIDE DEF B, i
<1>6. PlacesApart(Q, B, O \ {i})
  BY <1>3, <1>4, <1>5 DEF PlacesApart
<1>7. QED BY <1>1, <1>3, <1>6 DEF B, i

LEMMA PlacesPush ==
  ASSUME NEW Q, NEW B, NEW O, NEW x \in Item, PlacesApart(Q, B, O \ {x.of}), x.of \in O
  PROVE  PlacesApart(Q \cup {x}, B, O) /\ \A y \in Q : y.of # x.of
<1>1. /\ \A y \in Q : y.of # x.of /\ y.of \in O /\ ~Held(B, y.of)
      /\ \A s \in B : s.at # "resume" => s.item.of # x.of
  BY DEF PlacesApart
<1>2. ~Held(B, x.of) /\ x.of \in Inputs
  BY <1>1 DEF Held, Item
<1>3. \A i \in O : Held(B, i) \/ \E y \in Q \cup {x} : y.of = i
  BY DEF PlacesApart
<1>4. QED BY <1>1, <1>2, <1>3 DEF PlacesApart

\* What is left of them when the first k that wait have been rejected
Rest(order, k) == Abandoned(ui.sends) \ {order[j] : j \in 1..k}
Rejecting(d, q, f, S) ==
  /\ ~d.up /\ Shows(d, d.up, q, S, f, {})
  /\ IsQueue(q) /\ f \in [Inputs -> Fates] /\ PlacesApart(Range(q), S, Opened(f))
  /\ \A i \in Inputs : f[i] = "unsent" => ui.fate[i] = "unsent"
  /\ \A x \in Range(q) : Durable /\ \E s \in ui.sends : s.at = "call" /\ s.item.of = x.of /\ s.item.cmd = x.cmd
AfterRejects(order, k, d) == \E q, f : Rejecting(d, q, f, Rest(order, k))
Rejects == INSTANCE FoldFacts WITH Step <- Rejected, After <- AfterRejects

\* Rejecting one
LEMMA RejectedShows ==
  ASSUME NEW u, NEW up, NEW q, NEW B, NEW f, NEW s, Ready(u, up, q, B, f, s), s.at \in Awaiting
  PROVE  \/ \E how \in {"sent", "failed"} : Shows(Rejected(u, s), up, q, B, [f EXCEPT ![s.item.of] = how], {})
         \/ /\ s.at = "call" /\ Durable
            /\ \E x \in Item : /\ x.of = s.item.of /\ x.cmd = s.item.cmd
                               /\ Shows(Rejected(u, s), up, <<x>> \o q, B, f, {})
<1>1. CASE s.at = "call"
  <2>1. Rejected(u, s) = ConnectionError(u, s)
    BY <1>1 DEF Rejected
  <2>2. CASE Durable
    BY <1>1, <2>1, <2>2, OutcomeUnknownRequeues DEF ConnectionError
  <2>3. CASE ~Durable
    <3>1. Ended(SendFails(u, s), up, q, B, f, s.item.of)
      BY SendFailsEnds
    <3>2. Rejected(u, s) = SendFails(u, s)
      BY <2>1, <2>3 DEF ConnectionError
    <3>3. QED BY <3>1, <3>2, Zenon DEF Ended
  <2>4. QED BY <2>2, <2>3
<1>2. CASE s.at = "steer"
  <2>1. Rejected(u, s) = SteerFails(u, s)
    BY <1>2 DEF Rejected
  <2>2. Ended(SteerFails(u, s), up, q, B, f, s.item.of)
    BY SteerFailsEnds
  <2>3. QED BY <2>1, <2>2, Zenon DEF Ended
<1>3. CASE s.at = "compose"
  <2> DEFINE l == Leave(u, s)
             i == s.item.of
  <2>1. Rejected(u, s) = Fate(l, i, "failed")
    BY <1>3 DEF Rejected
  <2>2. Shows(l, up, q, B, f, {})
    BY ReadyLeaves
  <2> HIDE DEF l, i
  <2>3. Shows(Fate(l, i, "failed"), up, q, B, [f EXCEPT ![i] = "failed"], {})
    BY <2>2, FateShows
  <2>4. QED BY <2>1, <2>3 DEF i
<1>4. QED BY <1>1, <1>2, <1>3 DEF Awaiting

LEMMA RejectedKeeps ==
  ASSUME QueueInv, ~world.lazy, NEW order, NEW n \in Nat,
         \A j \in 1..n : order[j] \in Abandoned(ui.sends) /\ order[j].at \in Awaiting,
         \A j, k \in 1..n : order[j] = order[k] => j = k,
         NEW k \in 0..n - 1, NEW d, AfterRejects(order, k, d)
  PROVE  AfterRejects(order, k + 1, Rejected(d, order[k + 1]))
<1> DEFINE A == Abandoned(ui.sends)
           s == order[k + 1]
           i == s.item.of
           S == Rest(order, k)
           B == Rest(order, k + 1)
           v == Rejected(d, s)
           w == d.up
<1>1. /\ \A a \in A : /\ IsSend(a) /\ a.at # "resume"
                      /\ \E t \in ui.sends : t.at = a.at /\ t.item = a.item
      /\ \A a, b \in A : a.item.of = b.item.of => a = b
  BY InvShows, AbandonedSends DEF Whole, Apartness
<1>2. k + 1 \in 1..n /\ \A j \in 1..k : j \in 1..n /\ j # k + 1
  OBVIOUS
<1>3. s \in A /\ s.at \in Awaiting /\ \A j \in 1..k : order[j] # s
  BY <1>2
<1>4. S \subseteq A /\ s \in S
  BY <1>3 DEF Rest
<1>5. B = S \ {s}
  <2>1. 1..k + 1 = (1..k) \cup {k + 1}
    OBVIOUS
  <2>2. QED BY <2>1 DEF Rest
<1>6. B \cup {s} = S
  BY <1>4, <1>5
<1>0. PICK q, f : Rejecting(d, q, f, S)
  BY DEF AfterRejects
<1>7. /\ ~d.up /\ Shows(d, d.up, q, S, f, {})
      /\ IsQueue(q) /\ f \in [Inputs -> Fates] /\ PlacesApart(Range(q), S, Opened(f))
      /\ \A j \in Inputs : f[j] = "unsent" => ui.fate[j] = "unsent"
      /\ \A x \in Range(q) : Durable /\ \E t \in ui.sends : t.at = "call" /\ t.item.of = x.of /\ t.item.cmd = x.cmd
  BY <1>0 DEF Rejecting
<1>8. Shows(d, w, q, S, f, {}) /\ ~w
  BY <1>7
<1> HIDE DEF A, s, S, B, v, w
<1>9. IsSend(s) /\ s.at # "resume" /\ i \in Inputs
  BY <1>1, <1>3 DEF IsSend, Item
<1> HIDE DEF i
<1>10. \A t \in S : t.item.of = i => t = s
  BY <1>1, <1>3, <1>4 DEF i
<1>11. Ready(d, w, q, B, f, s)
  <2>1. Apart(B, s)
    BY <1>5, <1>10 DEF Apart, i
  <2>2. Fresh(s.item.of)
    BY InvShows
  <2>3. QED BY <1>6, <1>8, <1>9, <2>1, <2>2 DEF Ready
<1>12. PlacesApart(Range(q), B, Opened(f) \ {i}) /\ i \in Opened(f)
  <2> DEFINE Q == Range(q)
             O == Opened(f)
  <2>1. PlacesApart(Q, S, O) /\ \A t \in S : t.item.of = s.item.of => t = s
    BY <1>7, <1>10 DEF i
  <2> HIDE DEF Q, O
  <2>2. PlacesApart(Q, S \ {s}, O \ {s.item.of}) /\ s.item.of \in O
    BY <1>4, <1>9, <2>1, PlacesDrop
  <2>3. QED BY <1>5, <2>2 DEF i, Q, O
<1>13. ASSUME NEW how \in {"sent", "failed"}, Shows(v, w, q, B, [f EXCEPT ![i] = how], {})
       PROVE  AfterRejects(order, k + 1, v)
  <2> DEFINE g == [f EXCEPT ![i] = how]
  <2>1. how \in Fates /\ how # "open" /\ how # "unsent"
    BY DEF Fates
  <2>2. g \in [Inputs -> Fates] /\ Opened(g) = Opened(f) \ {i}
    BY <1>7, <1>9, <2>1, OpenedExcept
  <2>3. \A j \in Inputs : g[j] = "unsent" => ui.fate[j] = "unsent"
    BY <1>7, <1>9, <2>1
  <2> HIDE DEF g
  <2>4. Shows(v, w, q, B, g, {})
    BY <1>13 DEF g
  <2>5. v.up = w
    BY <2>4 DEF Shows
  <2>6. ~v.up /\ Shows(v, v.up, q, B, g, {}) /\ PlacesApart(Range(q), B, Opened(g))
    BY <1>8, <1>12, <2>2, <2>4, <2>5
  <2>7. \A x \in Range(q) : Durable /\ \E t \in ui.sends : t.at = "call" /\ t.item.of = x.of /\ t.item.cmd = x.cmd
    BY <1>7
  <2>8. IsQueue(q)
    BY <1>7
  <2>9. Rejecting(v, q, g, B)
    BY <2>2, <2>3, <2>6, <2>7, <2>8 DEF Rejecting
  <2>10. QED BY <2>9 DEF AfterRejects, B
<1>14. ASSUME s.at = "call", Durable, NEW x \in Item, x.of = i, x.cmd = s.item.cmd,
              Shows(v, w, <<x>> \o q, B, f, {})
       PROVE  AfterRejects(order, k + 1, v)
  <2> DEFINE p == <<x>> \o q
  <2>1. PlacesApart(Range(q) \cup {x}, B, Opened(f)) /\ \A y \in Range(q) : y.of # x.of
    BY <1>12, <1>14, PlacesPush
  <2>2. IsQueue(p) /\ Range(p) = Range(q) \cup {x}
    BY <1>7, <2>1, PushQueue
  <2>3. \E t \in ui.sends : t.at = "call" /\ t.item.of = x.of /\ t.item.cmd = x.cmd
    BY <1>1, <1>3, <1>14 DEF i
  <2>4. v.up = w
    BY <1>14 DEF Shows
  <2> HIDE DEF p
  <2>5. ~v.up /\ Shows(v, v.up, p, B, f, {})
    BY <1>8, <1>14, <2>4 DEF p
  <2>6. \A y \in Range(p) : Durable /\ \E t \in ui.sends : t.at = "call" /\ t.item.of = y.of /\ t.item.cmd = y.cmd
    BY <1>7, <1>14, <2>2, <2>3
  <2>7. PlacesApart(Range(p), B, Opened(f))
    BY <2>1, <2>2
  <2>8. f \in [Inputs -> Fates] /\ \A j \in Inputs : f[j] = "unsent" => ui.fate[j] = "unsent"
    BY <1>7
  <2>9. Rejecting(v, p, f, B)
    BY <2>2, <2>5, <2>6, <2>7, <2>8 DEF Rejecting
  <2>10. QED BY <2>9 DEF AfterRejects, B
<1>15. \/ \E how \in {"sent", "failed"} : Shows(v, w, q, B, [f EXCEPT ![i] = how], {})
       \/ /\ s.at = "call" /\ Durable
          /\ \E x \in Item : x.of = i /\ x.cmd = s.item.cmd /\ Shows(v, w, <<x>> \o q, B, f, {})
  BY <1>3, <1>11, RejectedShows DEF v, i
<1>16. AfterRejects(order, k + 1, v)
  BY <1>13, <1>14, <1>15
<1>17. QED BY <1>16 DEF v, s

\* The whole of it, in any order
LEMMA AllRejected ==
  ASSUME QueueInv, ~world.lazy,
         NEW order \in SetToSeqs({s \in OnClose(ui).sends : s.at \in Awaiting})
  PROVE  LET v == FoldLeft(Rejected, OnClose(ui), order)
             R == {a \in Abandoned(ui.sends) : a.at \notin Awaiting}
         IN \E q, f : Rejecting(v, q, f, R)
<1> DEFINE A == Abandoned(ui.sends)
           T == {a \in A : a.at \in Awaiting}
           R == {a \in A : a.at \notin Awaiting}
           c == OnClose(ui)
           n == Cardinality(T)
           g == Dropped(ui.fate, ui.queue)
           v == FoldLeft(Rejected, c, order)
<1>1. Shows(ui, ui.up, ui.queue, ui.sends, ui.fate, {}) /\ Whole(ui.up, ui.queue, ui.sends, ui.fate, calls, wire)
  BY InvShows
<1>2. ~c.up /\ Shows(c, c.up, <<>>, A, g, {})
  <2>1. PICK up : ~up /\ Shows(c, up, <<>>, A, g, {})
    BY <1>1, OnCloseShows
  <2>2. c.up = up
    BY <2>1 DEF Shows
  <2>3. QED BY <2>1, <2>2
<1>3. /\ IsFiniteSet(A)
      /\ \A a \in A : /\ IsSend(a) /\ a.at # "resume"
                      /\ \E s \in ui.sends : s.at = a.at /\ s.item = a.item
      /\ \A s \in ui.sends : s.at # "resume" => \E a \in A : a.at = s.at /\ a.item = s.item
  BY <1>1, AbandonedSends DEF Whole, Apartness
<1>4. order \in SetToSeqs(T)
  <2>1. c.sends = A
    BY <1>2 DEF Shows
  <2>2. QED BY <2>1
<1>5. n \in Nat /\ IsFiniteSet(T)
  BY <1>3, FS_Subset, FS_CardinalityType
<1>6. order \in [1..n -> T] /\ \A j, k \in 1..n : order[j] = order[k] => j = k
  BY <1>4 DEF SetToSeqs
<1>7. \A t \in T : \E j \in 1..n : order[j] = t
  <2> HIDE DEF T
  <2>1. order \in Injection(1..n, T)
    BY <1>6 DEF Injection, IsInjective
  <2>2. Cardinality(1..n) = n
    <3>1. 1 \in Int /\ n \in Int
      BY <1>5
    <3>2. Cardinality(1..n) = IF 1 > n THEN 0 ELSE n - 1 + 1
      BY <3>1, FS_Interval
    <3>3. QED BY <1>5, <3>2
  <2>3. order \in Surjection(1..n, T)
    BY <1>5, <2>1, <2>2, FS_Injection
  <2>4. QED BY <2>3 DEF Surjection
<1>8. order \in Seq(T) /\ Len(order) = n
  BY <1>5, <1>6, SeqOfLength
<1>9. AfterRejects(order, 0, c)
  <2>1. Rest(order, 0) = A
    BY DEF Rest
  <2>2. IsQueue(<<>>) /\ Range(<<>>) = {}
    <3>1. <<>> \in Seq(Item) /\ DOMAIN <<>> = {}
      OBVIOUS
    <3>2. QED BY <3>1 DEF IsQueue, Range
  <2>3. g \in [Inputs -> Fates] /\ \A i \in Inputs : g[i] = IF i \in Of(ui.queue) THEN "dropped" ELSE ui.fate[i]
    BY <1>1 DEF Dropped, Whole, Fates
  <2>4. \A i \in Inputs : i \in Opened(g) <=> i \in Opened(ui.fate) /\ i \notin Of(ui.queue)
    BY <2>3 DEF Opened
  <2> HIDE DEF A, g
  <2>5. \A i : i \in Of(ui.queue) <=> \E x \in Range(ui.queue) : x.of = i
    BY DEF Of
  <2>6. PlacesApart(Range(ui.queue), ui.sends, Opened(ui.fate))
    BY <1>1 DEF Whole, Apartness
  <2>7. Opened(g) \subseteq Inputs
    BY DEF Opened
  <2>8. \A i \in Opened(g) : Held(A, i)
    <3>1. ASSUME NEW i \in Opened(g) PROVE Held(A, i)
      <4>1. Held(ui.sends, i)
        BY <2>4, <2>5, <2>6, <2>7 DEF PlacesApart
      <4>2. QED BY <1>3, <4>1 DEF Held
    <3>2. QED BY <3>1
  <2>9. \A a \in A : a.item.of \in Opened(g)
    <3>1. ASSUME NEW a \in A PROVE a.item.of \in Opened(g)
      <4>1. PICK s \in ui.sends : s.at # "resume" /\ s.item = a.item
        BY <1>3
      <4>2. a.item.of \in Opened(ui.fate) /\ Held(ui.sends, a.item.of)
        BY <2>6, <4>1 DEF PlacesApart, Held
      <4>3. a.item.of \notin Of(ui.queue)
        BY <2>5, <2>6, <4>2 DEF PlacesApart
      <4>4. a.item.of \in Inputs
        BY <4>2 DEF Opened
      <4>5. QED BY <2>4, <4>2, <4>3, <4>4
    <3>2. QED BY <3>1
  <2>10. PlacesApart({}, A, Opened(g))
    BY <2>7, <2>8, <2>9 DEF PlacesApart
  <2>11. Rejecting(c, <<>>, g, A)
    <3>1. \A i \in Inputs : g[i] = "unsent" => ui.fate[i] = "unsent"
      BY <2>3
    <3> HIDE DEF c
    <3>2. PlacesApart(Range(<<>>), A, Opened(g)) /\ \A x : x \notin Range(<<>>)
      BY <2>2, <2>10
    <3>3. IsQueue(<<>>) /\ g \in [Inputs -> Fates]
      BY <2>2, <2>3
    <3> DEFINE q == <<>>
    <3>4. /\ ~c.up /\ Shows(c, c.up, q, A, g, {}) /\ IsQueue(q) /\ g \in [Inputs -> Fates]
          /\ PlacesApart(Range(q), A, Opened(g)) /\ \A x : x \notin Range(q)
      BY <1>2, <3>2, <3>3
    <3> HIDE DEF q
    <3>5. Rejecting(c, q, g, A)
      BY <3>1, <3>4 DEF Rejecting
    <3>6. QED BY <3>5 DEF q
  <2> HIDE DEF c
  <2>12. QED BY <2>1, <2>11 DEF AfterRejects
<1>10. \A k \in 0..Len(order) - 1 : \A d : AfterRejects(order, k, d) => AfterRejects(order, k + 1, Rejected(d, order[k + 1]))
  <2>1. \A j \in 1..n : order[j] \in Abandoned(ui.sends) /\ order[j].at \in Awaiting
    BY <1>6
  <2> HIDE DEF n
  <2>2. \A k \in 0..n - 1 : \A d : AfterRejects(order, k, d) => AfterRejects(order, k + 1, Rejected(d, order[k + 1]))
    BY <1>5, <1>6, <2>1, RejectedKeeps
  <2>3. QED BY <1>8, <2>2
<1>11. AfterRejects(order, n, v)
  <2>1. AfterRejects(order, Len(order), Rejects!FoldLeft(Rejected, c, order))
    <3> HIDE DEF T, c, n
    <3>1. QED BY <1>8, <1>9, <1>10, Rejects!FoldLeftKeeps
  <2>2. Rejects!FoldLeft(Rejected, c, order) = v
    BY Zenon DEF FoldLeft, Rejects!FoldLeft, MapThenFoldSet, Rejects!MapThenFoldSet, Max, Rejects!Max
  <2> HIDE DEF v, c, n
  <2>3. QED BY <1>8, <2>1, <2>2
<1>12. Rest(order, n) = R
  <2>1. {order[j] : j \in 1..n} = T
    BY <1>6, <1>7
  <2>2. A \ T = R
    OBVIOUS
  <2> HIDE DEF n
  <2>3. QED BY <2>1, <2>2 DEF Rest
<1> HIDE DEF v, R, n
<1>13. \E q, f : Rejecting(v, q, f, R)
  BY <1>11, <1>12 DEF AfterRejects
<1>14. QED BY <1>13 DEF v, R

\* The events outlive the connection, the answers do not
AfterFrames(frames, k, d) == Events(d)
Frames == INSTANCE FoldFacts WITH Step <- KeepEvent, After <- AfterFrames

LEMMA EventsAreKept ==
  ASSUME NEW W, W \in Seq(Range(W))
  PROVE  Events(FoldLeft(KeepEvent, <<>>, W))
<1>1. Events(<<>>)
  <2>1. PICK m : m = [of |-> None]
    OBVIOUS
  <2>2. m.of = None
    BY <2>1
  <2>3. QED BY <2>2, EventsAlone
<1>2. ASSUME NEW d, NEW m, Events(d) PROVE Events(KeepEvent(d, m))
  <2>1. CASE m.of = None
    <3>1. KeepEvent(d, m) = Append(d, m)
      BY <2>1 DEF KeepEvent
    <3> DEFINE V == Append(d, m)
    <3>2. /\ V \in Seq(Range(V)) /\ Len(d) \in Nat /\ DOMAIN V = 1..Len(d) + 1 /\ DOMAIN d = 1..Len(d)
          /\ \A k \in DOMAIN d : V[k] = d[k]
          /\ V[Len(d) + 1] = m
      BY <1>2, AppendOfRange DEF Events
    <3> HIDE DEF V
    <3>3. \A k \in DOMAIN V : k \in DOMAIN d \/ k = Len(d) + 1
      BY <3>2
    <3>4. Events(V)
      BY <1>2, <2>1, <3>2, <3>3 DEF Events
    <3>5. QED BY <3>1, <3>4 DEF V
  <2>2. CASE m.of # None
    BY <1>2, <2>2 DEF KeepEvent
  <2>3. QED BY <2>1, <2>2
<1>3. AfterFrames(W, 0, <<>>)
  BY <1>1 DEF AfterFrames
<1>4. \A k \in 0..Len(W) - 1 : \A d : AfterFrames(W, k, d) => AfterFrames(W, k + 1, KeepEvent(d, W[k + 1]))
  BY <1>2 DEF AfterFrames
<1>5. AfterFrames(W, Len(W), Frames!FoldLeft(KeepEvent, <<>>, W))
  BY <1>3, <1>4, Frames!FoldLeftKeeps
<1>6. Frames!FoldLeft(KeepEvent, <<>>, W) = FoldLeft(KeepEvent, <<>>, W)
  BY Zenon DEF FoldLeft, Frames!FoldLeft, MapThenFoldSet, Frames!MapThenFoldSet, Max, Frames!Max
<1>7. QED BY <1>5, <1>6 DEF AfterFrames

LEMMA CloseKeeps ==
  ASSUME QueueInv, ~world.lazy, Close
  PROVE  QueueInv'
<1> DEFINE A == Abandoned(ui.sends)
           R == {a \in A : a.at \notin Awaiting}
           S == ui.sends
<1>1. ui.up /\ world' = world /\ serve'.ran = serve.ran /\ serve'.receipts = serve.receipts /\ DOMAIN serve' = DOMAIN serve
  BY DEF Close, QueueInv
<1>2. Shows(ui, ui.up, ui.queue, S, ui.fate, {}) /\ Whole(ui.up, ui.queue, S, ui.fate, calls, wire) /\ Kept(ui.queue, S, ui.fate, calls, wire)
  BY InvShows
<1>3. PICK q, f : Rejecting(ui', q, f, R)
  <2>1. PICK order \in SetToSeqs({s \in OnClose(ui).sends : s.at \in Awaiting}) : ui' = FoldLeft(Rejected, OnClose(ui), order)
    BY DEF Close, Awaiting
  <2>2. QED BY <2>1, AllRejected
<1>4. PICK yes : yes = TRUE
  OBVIOUS
<1>5. \A e \in calls' : \E c \in calls : e = [c EXCEPT !.lost = yes] /\ c.rpc = "asked" /\ ~c.lost
  <2>1. PICK read \in SUBSET {c \in calls : c.rpc = "asked"} :
          calls' = {[c EXCEPT !.lost = TRUE] : c \in read \cup {d \in calls : d.lost}}
    BY DEF Close
  <2>2. \A c \in calls : ~c.lost
    BY <1>1, <1>2 DEF Whole, Apartness, CallsApart
  <2>3. ASSUME NEW e \in calls' PROVE \E c \in calls : e = [c EXCEPT !.lost = yes] /\ c.rpc = "asked" /\ ~c.lost
    <3>1. PICK c \in read \cup {d \in calls : d.lost} : e = [c EXCEPT !.lost = TRUE]
      BY <2>1
    <3>2. c \in calls /\ c.rpc = "asked" /\ ~c.lost
      BY <2>2
    <3>3. e = [c EXCEPT !.lost = yes]
      BY <1>4, <3>1, Zenon
    <3>4. QED BY <3>2, <3>3
  <2>4. QED BY <2>3
<1>6. /\ IsFiniteSet(A)
      /\ \A a \in A : /\ IsSend(a) /\ a.at # "resume" /\ (a.stale <=> a.at # "handoff")
                      /\ \E s \in S : s.at = a.at /\ s.item = a.item
      /\ \A a, b \in A : a.item.of = b.item.of => a = b
  BY <1>2, AbandonedSends DEF Whole, Apartness
<1>7. /\ \A a \in R : a \in A /\ a.at \in {"handoff", "pause", "recheck"}
      /\ IsFiniteSet(R)
  <2>1. IsFiniteSet(R)
    BY <1>6, FS_Subset
  <2>2. ASSUME NEW a \in R PROVE a \in A /\ a.at \in {"handoff", "pause", "recheck"}
    BY <1>6 DEF Awaiting, IsSend, Ats
  <2>3. QED BY <2>1, <2>2
<1>8. /\ ~ui'.up /\ Shows(ui', ui'.up, q, R, f, {})
      /\ IsQueue(q) /\ f \in [Inputs -> Fates] /\ PlacesApart(Range(q), R, Opened(f))
      /\ \A i \in Inputs : f[i] = "unsent" => ui.fate[i] = "unsent"
      /\ \A x \in Range(q) : Durable /\ \E s \in S : s.at = "call" /\ s.item.of = x.of /\ s.item.cmd = x.cmd
  BY <1>3 DEF Rejecting
<1> HIDE DEF A, R, S
<1>9. ASSUME NEW e \in calls'
      PROVE  /\ IsCall(e) /\ e.lost /\ e.rpc = "asked"
             /\ \E c \in calls : /\ e.of = c.of /\ e.cmd = c.cmd /\ c.rpc = "asked" /\ ~c.lost
                                 /\ \A z \in calls' : e.of = z.of => e = z
  <2>1. PICK c \in calls : e = [c EXCEPT !.lost = yes] /\ c.rpc = "asked" /\ ~c.lost
    BY <1>5
  <2>2. IsCall(c) /\ \A d \in calls : IsCall(d) /\ (c.of = d.of => c = d)
    BY <1>2 DEF Whole, Apartness, CallsApart
  <2>3. e.lost = yes /\ e.of = c.of /\ e.cmd = c.cmd /\ e.rpc = c.rpc /\ IsCall(e)
    BY <2>1, <2>2 DEF IsCall
  <2>4. ASSUME NEW z \in calls', e.of = z.of PROVE e = z
    <3>1. PICK d \in calls : z = [d EXCEPT !.lost = yes]
      BY <1>5
    <3>2. z.of = d.of
      BY <2>2, <3>1 DEF IsCall
    <3>3. c = d
      BY <2>2, <2>3, <2>4, <3>2
    <3>4. QED BY <2>1, <3>1, <3>3
  <2>5. QED BY <1>4, <2>1, <2>3, <2>4
<1>10. \A c \in calls : ~c.lost => ~Held(R, c.of)
  <2>1. ASSUME NEW c \in calls, ~c.lost, NEW a \in R, a.item.of = c.of PROVE FALSE
    <3>1. PICK s \in S : s.at \in Awaiting /\ s.item.of = c.of
      BY <1>2, <2>1 DEF Whole, Apartness, CallsApart, Waited
    <3>2. PICK t \in S : t.at = a.at /\ t.item = a.item
      BY <1>6, <1>7
    <3>3. t.at \in {"handoff", "pause", "recheck"} /\ s.at # "resume" /\ t.at # "resume"
      BY <1>7, <3>1, <3>2 DEF Awaiting
    <3>4. s = t
      BY <1>2, <2>1, <3>1, <3>2, <3>3 DEF Whole, Apartness, SendsApart
    <3>5. QED BY <3>1, <3>3, <3>4 DEF Awaiting
  <2>2. QED BY <2>1 DEF Held
<1>11. Events(wire')
  <2>1. wire' = FoldLeft(KeepEvent, <<>>, wire)
    BY DEF Close
  <2>2. wire \in Seq(Range(wire))
    BY <1>2 DEF Whole, Apartness, FramesApart
  <2>3. QED BY <2>1, <2>2, EventsAreKept
<1> DEFINE on == ui'.up
           C == calls'
           W == wire'
<1>12. Whole(on, q, R, f, C, W)
  <2>1. SendsApart(on, R)
    BY <1>6, <1>7, <1>8 DEF SendsApart
  <2>2. CallsApart(on, R, C)
    <3>1. ASSUME NEW e \in C PROVE ~Held(R, e.of) /\ IsCall(e) /\ e.lost /\ e.rpc = "asked" /\ \A z \in C : e.of = z.of => e = z
      BY <1>9, <1>10
    <3>2. \A s \in R : s.at # "compose"
      BY <1>7
    <3> HIDE DEF on, C
    <3>3. ~on
      BY <1>8 DEF on
    <3>4. QED BY <3>1, <3>2, <3>3 DEF CallsApart
  <2>3. FramesApart(on, R, C, W)
    BY <1>11, EventsAreQuiet
  <2> HIDE DEF on, C, W
  <2>4. QED BY <1>7, <1>8, <2>1, <2>2, <2>3 DEF Whole, Apartness
<1>13. ASSUME ~world.loses PROVE Sound(serve.ran, serve.receipts, Range(q), R, f, C, W)
  <2> DEFINE ran == serve.ran
             K == serve.receipts
  <2>1. Sound(ran, K, Range(ui.queue), S, ui.fate, calls, wire)
    BY <1>2, <1>13 DEF Kept
  <2>2. \A e \in C : e.rpc = "asked" /\ \E c \in calls : e.of = c.of /\ e.cmd = c.cmd /\ c.rpc = "asked"
    BY <1>9
  <2>3. \A a \in R : \E s \in S : s.at = a.at /\ s.item = a.item
    BY <1>6, <1>7
  <2>4. \A k \in DOMAIN W : FrameSafe(ran, W[k])
    BY <1>11, EventsAreQuiet
  <2> HIDE DEF ran, K, C, W, on
  <2>5. SendsSafe(ran, K, Range(q), R, C)
    <3>1. ASSUME NEW a \in R
          PROVE  /\ a.at = "handoff" => Safe(ran, K, a.item.of, a.item.cmd)
                 /\ a.at \in {"pause", "recheck"} => ran[a.item.of] = 0
                 /\ a.at \notin {"call", "resume"}
      BY <1>7, <2>1, <2>3 DEF Sound, SendsSafe
    <3>2. QED BY <3>1 DEF SendsSafe
  <2>6. QueueSafe(ran, K, Range(q), C)
    <3>1. ASSUME NEW x \in Range(q)
          PROVE  Safe(ran, K, x.of, x.cmd) /\ \A e \in C : x.of = e.of => Durable /\ e.cmd # None /\ x.cmd = e.cmd
      <4>1. Durable
        BY <1>8
      <4>2. PICK s \in S : s.at = "call" /\ s.item.of = x.of /\ s.item.cmd = x.cmd
        BY <1>8
      <4>3. /\ s.item.cmd # None /\ Safe(ran, K, s.item.of, s.item.cmd)
            /\ \A c \in calls : c.of = s.item.of => c.cmd = s.item.cmd
        BY <2>1, <4>1, <4>2 DEF Sound, SendsSafe
      <4>4. QED BY <2>2, <4>1, <4>2, <4>3
    <3>2. QED BY <3>1 DEF QueueSafe
  <2>7. CallsSafe(ran, K, C)
    BY <2>1, <2>2 DEF Sound, CallsSafe
  <2>8. \A i \in Inputs : f[i] = "unsent" => ran[i] = 0 /\ Quiet(i, C)
    BY <1>8, <2>1, <2>2 DEF Sound, Quiet
  <2>9. QED BY <2>1, <2>4, <2>5, <2>6, <2>7, <2>8 DEF Sound, ran, K
<1>14. ui'.queue = q /\ ui'.sends = R /\ ui'.fate = f /\ ui'.out = {} /\ Eager(ui)'
  BY <1>1, <1>8 DEF Shows, Eager
<1>15. Bounded(calls, serve.receipts)'
  <2>1. PICK b \in Nat : \A d \in calls \cup serve.receipts : d.cmd \in 0..b
    BY DEF QueueInv, Bounded
  <2>2. \A d \in calls' \cup serve'.receipts : d.cmd \in 0..b
    BY <1>1, <1>9, <2>1
  <2>3. QED BY <2>1, <2>2 DEF Bounded
<1>16. Kept(ui.queue, ui.sends, ui.fate, calls, wire)'
  BY <1>1, <1>13, <1>14 DEF Kept, Sound, SendsSafe, QueueSafe, Durable
<1>17. Whole(ui.up, ui.queue, ui.sends, ui.fate, calls, wire)'
  BY <1>12, <1>14
<1>18. QED BY <1>1, <1>14, <1>15, <1>16, <1>17 DEF QueueInv, Taken

--------------------------------------------------------------------------------
(* The invariant holds from the first state on                                    *)

LEMMA InitKeeps ==
  ASSUME Init
  PROVE  QueueInv
<1>1. PICK no : no \in BOOLEAN /\ no = FALSE
  OBVIOUS
<1>2. PICK yes : yes \in BOOLEAN /\ yes = TRUE
  OBVIOUS
<1> DEFINE f == [i \in Inputs |-> "unsent"]
           ran == [i \in Inputs |-> 0]
           mark == [i \in Inputs |-> "none"]
           u == [up |-> yes, attached |-> yes, busy |-> no, active |-> None, task |-> NoTask,
                 dispatch |-> NoDispatch, queue |-> <<>>, shown |-> <<>>, updates |-> <<>>, dirty |-> no,
                 sends |-> {}, out |-> {}, mark |-> mark, fate |-> f]
           v == [turn |-> None, last |-> None, attached |-> yes, receipts |-> {}, ran |-> ran]
<1>3. ui = u /\ serve = v
  BY <1>1, <1>2, Zenon DEF Init
<1>4. calls = {} /\ wire = <<>>
  BY DEF Init
<1> HIDE DEF f, ran, mark
<1>5. /\ DOMAIN u = Fields /\ u.dirty = no /\ u.updates = <<>> /\ u.shown = <<>> /\ u.queue = <<>>
      /\ u.out = {} /\ u.sends = {} /\ u.fate = f
  BY DEF Fields
<1>6. v.receipts = {} /\ v.ran = ran /\ DOMAIN v = {"turn", "last", "attached", "receipts", "ran"}
  OBVIOUS
<1> HIDE DEF u, v
<1>7. SUFFICES ASSUME ~world.lazy PROVE QueueInv
  BY Zenon DEF QueueInv
<1>8. Eager(ui)
  BY <1>1, <1>3, <1>5, <1>7 DEF Eager
<1>9. f \in [Inputs -> Fates] /\ Opened(f) = {} /\ \A i \in Inputs : f[i] = "unsent"
  BY DEF f, Fates, Opened
<1>10. Range(<<>>) = {} /\ IsQueue(<<>>) /\ <<>> \in Seq({}) /\ DOMAIN <<>> = {}
  BY DEF Range, IsQueue
<1>11. Whole(ui.up, ui.queue, ui.sends, ui.fate, calls, wire)
  <2>1. Apartness(ui.up, {}, {}, {}, {}, <<>>)
    BY <1>10 DEF Apartness, SendsApart, PlacesApart, CallsApart, FramesApart
  <2>2. QED BY <1>3, <1>4, <1>5, <1>9, <1>10, <2>1, FS_EmptySet DEF Whole
<1>12. Bounded(calls, serve.receipts) /\ Taken(serve.receipts)
  BY <1>3, <1>4, <1>6 DEF Bounded, Taken
<1>13. ran \in [Inputs -> {0, 1}] /\ \A i \in Inputs : ran[i] = 0
  BY DEF ran
<1>14. Sound(ran, {}, {}, {}, f, {}, <<>>)
  BY <1>9, <1>10, <1>13 DEF Sound, SendsSafe, QueueSafe, CallsSafe, Quiet
<1>15. Kept(ui.queue, ui.sends, ui.fate, calls, wire)
  BY <1>3, <1>4, <1>5, <1>6, <1>10, <1>14 DEF Kept
<1>16. QED BY <1>3, <1>5, <1>6, <1>8, <1>11, <1>12, <1>15 DEF QueueInv

LEMMA NextKeeps ==
  ASSUME QueueInv, [Next]_vars
  PROVE  QueueInv'
<1>1. world' = world
  BY DEF Next, vars, Compose, Cancel, Retry, Resume, TimerFires, Receive, Render, Close, Connect, ServeReads,
         EndTurn, StartForeign, Answer
<1>2. CASE world.lazy
  BY <1>1, <1>2 DEF QueueInv
<1>3. CASE ~world.lazy /\ Render
  BY <1>3 DEF QueueInv, Eager, Render
<1>4. CASE ~world.lazy /\ UNCHANGED vars
  <2>1. Eager(ui)' /\ Bounded(calls, serve.receipts)' /\ Kept(ui.queue, ui.sends, ui.fate, calls, wire)'
    BY <1>4 DEF QueueInv, Eager, Bounded, Kept, Sound, SendsSafe, QueueSafe, Durable, vars
  <2>2. QED BY <1>4, <2>1 DEF QueueInv, vars
<1>5. CASE ~world.lazy /\ ~Render /\ Next
  BY <1>5, ComposeKeeps, CancelKeeps, RetryKeeps, ResumeStepKeeps, TimerKeeps, ReceiveKeeps, CloseKeeps, ConnectKeeps,
     ServeReadsKeeps, EndTurnKeeps, StartForeignKeeps, AnswerStepKeeps, Zenon DEF Next
<1>6. QED BY <1>2, <1>3, <1>4, <1>5, Zenon

\* The invariant of the proofs: where React runs every updater in the call, each open
\* input is in the queue or in one call of sendText, each RPC and each answer belongs to
\* one call, and as long as Serve loses no receipt every input that may be sent again has
\* not been taken or goes under the command id that Serve remembers.
THEOREM QueueInvHolds == Spec => []QueueInv
<1>1. Init => QueueInv
  BY InitKeeps
<1>2. QueueInv /\ [Next]_vars => QueueInv'
  BY NextKeeps
<1>3. QED BY <1>1, <1>2, PTL DEF Spec

\* AtMostOnce: no input is taken twice by Serve, whatever sendText's retries, the Retry
\* button, the drain and a lost connection make of it.
THEOREM TakenAtMostOnce == Spec => []AtMostOnce
<1>1. ASSUME QueueInv PROVE AtMostOnce
  <2>1. SUFFICES ASSUME ~world.lazy, ~world.loses, NEW i \in Inputs PROVE serve.ran[i] <= 1
    BY DEF AtMostOnce
  <2>2. serve.ran \in [Inputs -> {0, 1}]
    BY <1>1, <2>1 DEF QueueInv, Kept, Sound
  <2>3. QED BY <2>2
<1>2. QED BY <1>1, QueueInvHolds, PTL

\* QueuedIsNotTaken: a queued input without a command id was never taken by Serve, so
\* that sending it under a new id is safe.
THEOREM QueuedWasNotTaken == Spec => []QueuedIsNotTaken
<1>1. ASSUME QueueInv PROVE QueuedIsNotTaken
  <2>1. SUFFICES ASSUME ~world.lazy, ~world.loses, NEW item \in Range(ui.queue), item.cmd = None
                 PROVE serve.ran[item.of] = 0
    BY DEF QueuedIsNotTaken
  <2>2. QueueSafe(serve.ran, serve.receipts, Range(ui.queue), calls)
    BY <1>1, <2>1 DEF QueueInv, Kept, Sound
  <2>3. QED BY <2>1, <2>2 DEF QueueSafe, Safe
<1>2. QED BY <1>1, QueueInvHolds, PTL

LEMMA CountAlone ==
  ASSUME NEW T, \A a, b \in T : a = b
  PROVE  Cardinality(T) = IF T = {} THEN 0 ELSE 1
<1>1. CASE T = {}
  BY <1>1, FS_EmptySet
<1>2. ASSUME NEW a \in T PROVE Cardinality(T) = 1
  <2>1. T = {a}
    BY <1>2
  <2>2. QED BY <2>1, FS_Singleton
<1>3. QED BY <1>1, <1>2

\* InOnePlace: an input whose end the user does not know is in the queue or in one call
\* of sendText or submitSessionText, never in both, twice or in none.
THEOREM InputIsInOnePlace == Spec => []InOnePlace
<1>1. ASSUME QueueInv PROVE InOnePlace
  <2>1. SUFFICES ASSUME ~world.lazy, NEW i \in Inputs
                 PROVE Places(i) = IF ui.fate[i] = "open" THEN 1 ELSE 0
    BY DEF InOnePlace
  <2> DEFINE q == ui.queue
             S == ui.sends
             O == Opened(ui.fate)
             D == {k \in DOMAIN q : q[k].of = i}
             E == {s \in S : s.item.of = i /\ s.at # "resume"}
  <2>2. Waiting(ui) = q
    BY <1>1, <2>1, WaitingIsQueue DEF QueueInv
  <2>3. IsQueue(q) /\ Apartness(ui.up, Range(q), S, O, calls, wire)
    BY <1>1, <2>1 DEF QueueInv, Whole
  <2>4. ui.fate[i] = "open" <=> i \in O
    BY DEF Opened
  <2>5. \A a, b \in D : a = b
    BY <2>3 DEF IsQueue
  <2>6. \A a, b \in E : a = b
    BY <2>3 DEF Apartness, SendsApart
  <2>7. D # {} <=> \E x \in Range(q) : x.of = i
    BY DEF Range
  <2>8. E # {} <=> Held(S, i)
    BY DEF Held
  <2>9. (i \in O => D # {} \/ E # {}) /\ (D # {} => i \in O /\ E = {}) /\ (E # {} => i \in O)
    BY <2>3, <2>7, <2>8 DEF Apartness, PlacesApart, Held
  <2>10. Places(i) = Cardinality(D) + Cardinality(E)
    BY <2>2 DEF Places
  <2> HIDE DEF D, E, O
  <2>11. Cardinality(D) = (IF D = {} THEN 0 ELSE 1) /\ Cardinality(E) = IF E = {} THEN 0 ELSE 1
    BY <2>5, <2>6, CountAlone
  <2>12. QED BY <2>4, <2>9, <2>10, <2>11
<1>2. QED BY <1>1, QueueInvHolds, PTL

--------------------------------------------------------------------------------
(* What Serve takes, step by step                                                 *)

Counts == DOMAIN serve = {"turn", "last", "attached", "receipts", "ran"} /\ DOMAIN serve.ran = Inputs

\* Serve counts an input only where it takes an RPC of it that it has just read
LEMMA OnlyServeTakes ==
  ASSUME Counts, Next
  PROVE  /\ Counts'
         /\ \A i \in Inputs : serve'.ran[i] = serve.ran[i] \/ \E c \in calls : c.rpc = "asked" /\ c.of = i
<1>1. CASE UNCHANGED serve
  BY <1>1 DEF Counts
<1>2. CASE Compose \/ Cancel \/ Retry \/ TimerFires \/ Receive \/ Render \/ Connect \/ Answer
  BY <1>1, <1>2 DEF Compose, Cancel, Retry, TimerFires, Receive, Render, Connect, Answer
<1>3. ASSUME serve'.ran = serve.ran, DOMAIN serve' = DOMAIN serve
      PROVE  Counts' /\ \A i \in Inputs : serve'.ran[i] = serve.ran[i]
  BY <1>3 DEF Counts
<1>4. CASE Resume \/ Close
  <2>1. serve' = serve \/ \E b \in BOOLEAN : serve' = [serve EXCEPT !.attached = b]
    BY <1>4, Zenon DEF Resume, Close
  <2>2. ASSUME NEW b, serve' = [serve EXCEPT !.attached = b]
        PROVE  serve'.ran = serve.ran /\ DOMAIN serve' = DOMAIN serve
    BY <2>2 DEF Counts
  <2>3. QED BY <1>1, <1>3, <2>1, <2>2
<1>5. CASE EndTurn \/ StartForeign
  <2>1. serve'.ran = serve.ran /\ DOMAIN serve' = DOMAIN serve
    BY <1>5 DEF Counts, EndTurn, StartForeign
  <2>2. QED BY <1>3, <2>1
<1>6. CASE ServeReads
  <2>1. PICK c \in calls :
          /\ c.rpc = "asked"
          /\ \/ ServeStarts(c) \/ ServeSteers(c)
             \/ ServeDeclines(c) \/ ServeIsBusy(c) \/ ServeRepeats(c) \/ ServeRefuses(c)
    BY <1>6 DEF ServeReads
  <2>2. CASE ServeDeclines(c) \/ ServeIsBusy(c) \/ ServeRepeats(c) \/ ServeRefuses(c)
    BY <1>1, <2>2 DEF ServeDeclines, ServeIsBusy, ServeRepeats, ServeRefuses
  <2>3. CASE ServeStarts(c) \/ ServeSteers(c)
    <3>1. PICK how, turn : Take(c, how, turn)
      BY <2>3 DEF ServeStarts, ServeSteers
    <3> DEFINE now == [serve.ran EXCEPT ![c.of] = @ + 1]
    <3>2. serve'.ran = now /\ DOMAIN serve' = DOMAIN serve
      BY <3>1 DEF Take, Counts
    <3>3. DOMAIN now = Inputs /\ \A i \in Inputs : i # c.of => now[i] = serve.ran[i]
      BY DEF Counts
    <3> HIDE DEF now
    <3>4. Counts'
      BY <3>2, <3>3 DEF Counts
    <3>5. QED BY <2>1, <3>2, <3>3, <3>4
  <2>4. QED BY <2>1, <2>2, <2>3
<1>7. QED BY <1>2, <1>4, <1>5, <1>6 DEF Next

THEOREM CountsHolds == Spec => []Counts
<1>1. ASSUME Init PROVE Counts
  <2>1. PICK yes : yes \in BOOLEAN /\ yes = TRUE
    OBVIOUS
  <2> DEFINE ran == [i \in Inputs |-> 0]
             v == [turn |-> None, last |-> None, attached |-> yes, receipts |-> {}, ran |-> ran]
  <2>2. serve = v
    BY <1>1, <2>1, Zenon DEF Init
  <2>3. v.ran = ran /\ DOMAIN v = {"turn", "last", "attached", "receipts", "ran"} /\ DOMAIN ran = Inputs
    OBVIOUS
  <2> HIDE DEF v, ran
  <2>4. QED BY <2>2, <2>3 DEF Counts
<1>2. ASSUME Counts, [Next]_vars PROVE Counts'
  <2>1. CASE UNCHANGED vars
    BY <1>2, <2>1 DEF Counts, vars
  <2>2. QED BY <1>2, <2>1, OnlyServeTakes
<1>3. QED BY <1>1, <1>2, PTL DEF Spec

\* CancelledStaysOut: after cancelQueuedInput no RPC of the input is on its way, except
\* one that was when the connection was lost, so Serve does not take it afterwards.
THEOREM CancelledIsNotTaken == Spec => CancelledStaysOut
<1>1. ASSUME QueueInv, Counts, [Next]_vars, ~world.lazy, NEW i \in Inputs, ui.fate[i] = "cancelled",
             \A c \in calls : c.of = i => ~c.lost
      PROVE  serve'.ran[i] = serve.ran[i]
  <2>1. CASE UNCHANGED vars
    BY <2>1 DEF vars
  <2>2. CASE Next
    <3>1. \A c \in calls : c.of # i
      <4>1. i \notin Opened(ui.fate)
        BY <1>1 DEF Opened
      <4>2. Apartness(ui.up, Range(ui.queue), ui.sends, Opened(ui.fate), calls, wire)
        BY <1>1 DEF QueueInv, Whole
      <4>3. ~Waited(ui.sends, i)
        BY <4>1, <4>2, UnopenedIsUnheld
      <4>4. QED BY <1>1, <4>2, <4>3 DEF Apartness, CallsApart
    <3>2. QED BY <1>1, <2>2, <3>1, OnlyServeTakes
  <2>3. QED BY <1>1, <2>1, <2>2
<1>2. ASSUME QueueInv, Counts
      PROVE  [Next]_vars =>
               [~world.lazy => \A i \in Inputs : ui.fate[i] = "cancelled" /\ (\A c \in calls : c.of = i => ~c.lost)
                                => serve'.ran[i] = serve.ran[i]]_vars
  BY <1>1, <1>2
<1>3. QED BY <1>2, QueueInvHolds, CountsHolds, PTL DEF Spec, CancelledStaysOut
=============================================================================
