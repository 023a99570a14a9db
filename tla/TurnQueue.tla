------------------------------- MODULE TurnQueue -------------------------------
(* Submitting the messages of one session (src/src/App.tsx): the composer, the   *)
(* queue of inputs that wait, sendText with its bounded retries, the turn events *)
(* that drain the queue, and the visible Retry after a lost connection. One step *)
(* is one callback of the renderer with the promise continuations it runs, or    *)
(* one step of Serve. The handlers are functions of the renderer's state `ui`.   *)
(* There is no staged model change, no interruption by the user and no planned   *)
(* restart; a conversation is the marks its user messages carry.                 *)
EXTENDS Integers, Sequences, FiniteSetsExt, SequencesExt

CONSTANTS
  Inputs,       \* bound: what the user types
  Attached,     \* the inputs that have attachments
  BusyRetries,  \* BUSY_SEND_RETRIES
  MaxForeign,   \* bound: turns that someone else starts
  Worlds        \* each: the features of Serve's generation; lazy, when React runs a setState
                \* updater as it renders, not in the call; loses, when Serve may lose a receipt;
                \* the bounds closes, of the connections lost, and faults, of refusals, lost
                \* receipts and moments of SERVER_BUSY

ASSUME Assumptions ==
  /\ Inputs \subseteq Nat \ {0}
  /\ Attached \subseteq Inputs
  /\ BusyRetries \in Nat /\ MaxForeign \in Nat
  /\ \A w \in Worlds : /\ w.features \subseteq {"atomic", "durable"}
                       /\ w.lazy \in BOOLEAN /\ w.loses \in BOOLEAN
                       /\ w.closes \in Nat /\ w.faults \in Nat

VARIABLES
  world,   \* the world of this behaviour
  ui,      \* the renderer's refs and state for the session, and the sendText calls under way
  calls,   \* the RPCs Serve has not answered
  serve,   \* Serve's side of the session
  wire,    \* what Serve has written and the renderer has not read
  budget   \* what is left of the bounds

vars == <<world, ui, calls, serve, wire, budget>>

None == 0

\* Serve has session.submit and event.task_state; and
\* sessions.command-idempotency.durable.v2
Atomic == "atomic" \in world.features
Durable == "durable" \in world.features
NoTask == [turn |-> None, live |-> FALSE]
NoDispatch == [of |-> None, turn |-> None, completed |-> FALSE]
Commands(i) == {c.cmd : c \in {d \in calls \cup serve.receipts : d.of = i}}

\* createRpcCommandId: an id that nobody remembers
FreshCommand(i) == IF Durable THEN Max({0} \cup Commands(i)) + 1 ELSE None

--------------------------------------------------------------------------------
(* The queue: `queue` is queueRef, `shown` React's state, `updates` the setQueue *)
(* calls that React has not run, and `dirty` says that a render is due.          *)

Updated(q, update) ==
  CASE update.op = "front" -> update.items \o q
    [] update.op = "back"  -> q \o update.items
    [] update.op = "set"   -> update.items

\* React runs an updater in the call only when nothing waits to be rendered
SetQueue(u, update) ==
  IF u.dirty THEN [u EXCEPT !.updates = Append(@, update)]
  ELSE LET q == Updated(u.shown, update) IN [u EXCEPT !.queue = q, !.shown = q, !.dirty = world.lazy]

\* The queue as React will show it
Waiting(u) == FoldLeft(Updated, u.shown, u.updates)

\* enqueueInput
Enqueue(u, item, position) == SetQueue(u, [op |-> position, items |-> <<item>>])

\* queueRef.current = next; setQueue(next)
PutQueue(u, q) == [SetQueue(u, [op |-> "set", items |-> q]) EXCEPT !.queue = q]

SetBusy(u, value) == [u EXCEPT !.busy = value, !.dirty = world.lazy]

\* resolvePendingUser
ResolveUser(u, i, accepted) ==
  [u EXCEPT !.mark[i] = IF @ # "pending" THEN @ ELSE IF accepted THEN "kept" ELSE "none",
            !.dirty = world.lazy]

Live(u) == u.active # None \/ u.task.live

--------------------------------------------------------------------------------
(* sendText. A call of it is a record of ui.sends: `at` says what it awaits,     *)
(* `stale` that the client it holds has lost its connection, and `n` tells the   *)
(* calls for one input apart. `out` is the RPC it makes, which the action hands  *)
(* to Serve.                                                                     *)

Leave(u, s) == [u EXCEPT !.sends = @ \ {s}]
Await(u, s, t) == [u EXCEPT !.sends = (@ \ {s}) \cup {t}]
Fate(u, i, fate) == [u EXCEPT !.fate[i] = fate]

ClearDispatch(u, i) == IF u.dispatch.of = i THEN [u EXCEPT !.dispatch = NoDispatch] ELSE u

Ask(u, s, at, kind, turn, cmd) ==
  LET call == [of |-> s.item.of, n |-> s.n, cmd |-> cmd, kind |-> kind, turn |-> turn, rpc |-> "asked",
               lost |-> FALSE]
  IN [Await(u, s, [s EXCEPT !.at = at]) EXCEPT !.out = {call}]

\* mutant of OutcomeUnknown: the input is queued again without its command id
OutcomeUnknownForgets(u, s) ==
  LET i == s.item.of
      freed == Leave([ClearDispatch(u, i) EXCEPT !.attached = FALSE], s)
  IN SetBusy(Enqueue(freed, [of |-> i, cmd |-> None, recorded |-> u.mark[i] = "pending"], "front"), FALSE)

OutcomeUnknown(u, s) ==
  LET i == s.item.of
      freed == Leave([ClearDispatch(u, i) EXCEPT !.attached = FALSE], s)
  IN SetBusy(Enqueue(freed, [of |-> i, cmd |-> s.item.cmd, recorded |-> u.mark[i] = "pending"], "front"), FALSE)

\* The end of sendText's catch: an error that is neither busy nor unknown
SendFails(u, s) ==
  LET i == s.item.of
      persisted == u.dispatch.of = i /\ u.dispatch.completed
      freed == Leave(ClearDispatch(u, i), s)
  IN SetBusy(IF persisted THEN Fate(ResolveUser(freed, i, TRUE), i, "sent") ELSE Fate(freed, i, "failed"), FALSE)

ConnectionError(u, s) == IF Durable THEN OutcomeUnknown(u, s) ELSE SendFails(u, s)

\* One round of sendText's loop
Dispatch(u, s) ==
  LET bound == [u EXCEPT !.dispatch = [of |-> s.item.of, turn |-> None, completed |-> FALSE]] IN
  IF s.stale THEN ConnectionError(bound, s)
  ELSE Ask(bound, s, "call", IF Atomic THEN "submit" ELSE "send", None, s.item.cmd)

\* nextLogicalAttempt, and the next round
TryAgain(u, s) ==
  LET t == [s EXCEPT !.item.cmd = FreshCommand(s.item.of)] IN Dispatch(Await(u, s, t), t)

\* sendText, from a client that is connected; s is the record of its caller
SendText(u, s) ==
  LET i == s.item.of
      t == [s EXCEPT !.item.recorded = TRUE, !.item.cmd = IF @ = None THEN FreshCommand(i) ELSE @]
      marked == IF s.item.recorded THEN u ELSE [u EXCEPT !.mark[i] = "pending"]
  IN Dispatch(SetBusy(Await(marked, s, t), TRUE), t)

Unused(u, i) ==
  CHOOSE n \in 0..Cardinality(u.sends) : \A s \in u.sends : s.item.of = i => s.n # n
Caller(u, item, at, front) ==
  [item |-> item, at |-> at, attempt |-> 0, front |-> front, stale |-> FALSE, n |-> Unused(u, item.of)]

\* mutant of QueueAgain: the session stays busy although no turn will end
QueueAgainBusy(u, s, live) ==
  Enqueue(Leave(ClearDispatch(u, s.item.of), s), [of |-> s.item.of, cmd |-> None, recorded |-> TRUE],
          IF s.front THEN "front" ELSE "back")

\* The engine did not take the input: it waits in the queue, without a command id
QueueAgain(u, s, live) ==
  LET queued == Enqueue(Leave(ClearDispatch(u, s.item.of), s),
                        [of |-> s.item.of, cmd |-> None, recorded |-> TRUE],
                        IF s.front THEN "front" ELSE "back")
  IN IF live THEN queued ELSE SetBusy(queued, FALSE)

Pause(u, s, at) == Await(u, s, [s EXCEPT !.at = at, !.attempt = @ + 1])

\* mutant of NotSubmitted: one attempt more than BUSY_SEND_RETRIES
NotSubmittedOnceMore(u, s, turn) ==
  LET stillLive == turn # None /\ (u.active = turn \/ u.task = [turn |-> turn, live |-> TRUE]) IN
  IF ~stillLive /\ s.attempt <= BusyRetries THEN Pause(u, s, "pause") ELSE QueueAgain(u, s, stillLive)

\* submission "not_submitted" of the turn `turn`, or of no turn
NotSubmitted(u, s, turn) ==
  LET stillLive == turn # None /\ (u.active = turn \/ u.task = [turn |-> turn, live |-> TRUE]) IN
  IF ~stillLive /\ s.attempt < BusyRetries THEN Pause(u, s, "pause") ELSE QueueAgain(u, s, stillLive)

Accepted(u, s) ==
  Fate(ResolveUser(Leave(ClearDispatch(u, s.item.of), s), s.item.of, TRUE), s.item.of, "sent")

SteerFails(u, s) == SetBusy(Fate(ResolveUser(Leave(u, s), s.item.of, FALSE), s.item.of, "failed"), FALSE)

\* SERVER_BUSY, once the retries are over or a live turn is seen
SteerOrQueue(u, s) ==
  LET free == ClearDispatch(u, s.item.of) IN
  IF s.item.of \in Attached \/ u.active = None THEN QueueAgain(u, s, Live(u))
  ELSE IF s.stale THEN SteerFails(free, s)
  ELSE Ask(free, s, "steer", "steer", u.active, FreshCommand(s.item.of))

SendBusy(u, s) ==
  IF ~Live(u) /\ s.attempt < BusyRetries THEN Pause(u, s, "recheck") ELSE SteerOrQueue(u, s)

SteerBusy(u, s) ==
  LET t == [s EXCEPT !.attempt = 0] IN
  IF Live(u) THEN QueueAgain(u, s, TRUE) ELSE TryAgain(Await(u, s, t), t)

--------------------------------------------------------------------------------
(* handleEvent, and the answers of the RPCs                                      *)

TurnStart(u, turn) ==
  SetBusy([u EXCEPT !.active = turn,
                    !.dispatch.turn = IF u.dispatch # NoDispatch /\ @ = None THEN turn ELSE @], TRUE)

TaskState(u, turn, live) ==
  SetBusy([u EXCEPT !.task = [turn |-> turn, live |-> live],
                    !.active = IF live THEN turn ELSE None], live)

\* terminalTurnIsCurrent
IsCurrent(u, turn) ==
  IF u.active # None THEN turn = u.active ELSE u.task.turn \in {None, turn}

\* mutant of Drain: the message that is handed over stays in the queue
DrainKeeps(u) ==
  IF u.queue = <<>> THEN u
  ELSE [SetBusy(u, TRUE) EXCEPT !.sends = @ \cup {Caller(u, Head(u.queue), "handoff", TRUE)}]

\* The next queued message is on its way to sendText: a timer of 50 ms
Drain(u) ==
  IF u.queue = <<>> THEN u
  ELSE SetQueue([SetBusy(u, TRUE) EXCEPT !.sends = @ \cup {Caller(u, Head(u.queue), "handoff", TRUE)}],
                [op |-> "set", items |-> Tail(u.queue)])

TurnEnd(u, turn) ==
  LET bound == IF u.dispatch.turn # turn THEN u
               ELSE ResolveUser([u EXCEPT !.dispatch.completed = TRUE], u.dispatch.of, TRUE)
      over == [bound EXCEPT !.active = None, !.task.live = @ /\ u.task.turn # turn]
  IN IF IsCurrent(u, turn) THEN Drain(SetBusy(over, FALSE)) ELSE u

\* submitSessionText, an engine without session.submit: its steer call is answered
AnswerToComposer(u, s, m) ==
  LET left == Leave(u, s) IN
  CASE m.kind = "steered" -> Fate([left EXCEPT !.mark[m.of] = "kept"], m.of, "sent")
    [] m.kind = "error"   -> Fate(left, m.of, "failed")
    [] m.kind = "busy"    -> IF ~Live(u) THEN SendText(u, s)
                             ELSE Enqueue([left EXCEPT !.mark[m.of] = "pending"],
                                          [s.item EXCEPT !.recorded = TRUE], "back")

\* An RPC of sendText is answered
AnswerTo(u, s, m) ==
  CASE m.kind \in {"started", "steered"} -> Accepted(u, s)
    [] m.kind = "not_submitted"          -> NotSubmitted(u, s, m.turn)
    [] m.kind = "unknown"                -> ConnectionError(u, s)
    [] m.kind = "busy"                   -> IF s.at = "call" THEN SendBusy(u, s) ELSE SteerBusy(u, s)
    [] m.kind = "error"                  -> IF s.at = "call" THEN SendFails(u, s) ELSE SteerFails(u, s)

--------------------------------------------------------------------------------

Init ==
  /\ world \in Worlds
  /\ ui = [up |-> TRUE, attached |-> TRUE, busy |-> FALSE, active |-> None, task |-> NoTask,
           dispatch |-> NoDispatch, queue |-> <<>>, shown |-> <<>>, updates |-> <<>>, dirty |-> FALSE,
           sends |-> {}, out |-> {}, mark |-> [i \in Inputs |-> "none"], fate |-> [i \in Inputs |-> "unsent"]]
  /\ calls = {}
  /\ serve = [turn |-> None, last |-> None, attached |-> TRUE, receipts |-> {}, ran |-> [i \in Inputs |-> 0]]
  /\ wire = <<>>
  /\ budget = [turns |-> MaxForeign, closes |-> world.closes, faults |-> world.faults]

\* A callback of the renderer leaves its state at u and hands its RPC to Serve
Step(u) == ui' = [u EXCEPT !.out = {}] /\ calls' = calls \cup u.out

Fault == budget.faults > 0 /\ budget' = [budget EXCEPT !.faults = @ - 1]

\* What sendMsg and submitSessionText make of an input
Submitted(u, s) ==
  LET i == s.item.of
      turn == IF u.task.live THEN u.task.turn ELSE u.active
      live == u.busy \/ (i \notin Attached /\ u.task.live)
  IN IF Atomic \/ ~live THEN SendText(u, s)
     ELSE IF i \in Attached THEN Enqueue(Leave(u, s), s.item, "back")
     ELSE IF turn # None THEN Ask(u, s, "compose", "steer", turn, None)
     ELSE Enqueue([Leave(u, s) EXCEPT !.mark[i] = "pending"], [s.item EXCEPT !.recorded = TRUE], "back")

\* The user acts on a screen that shows what there is
CanClick == ~ui.dirty

\* The user sends what the composer of the session holds
Compose ==
  /\ ui.up /\ ui.attached /\ CanClick
  /\ \E i \in Inputs :
       LET s == Caller(ui, [of |-> i, cmd |-> None, recorded |-> FALSE], "compose", FALSE) IN
       /\ ui.fate[i] = "unsent"
       /\ Step(Submitted(Fate([ui EXCEPT !.sends = @ \cup {s}], i, "open"), s))
  /\ UNCHANGED <<world, serve, wire, budget>>

\* cancelQueuedInput, with an index of the queue
Cancel ==
  /\ CanClick
  /\ \E k \in DOMAIN ui.queue :
       LET item == ui.queue[k]
           left == Fate(PutQueue(ui, RemoveAt(ui.queue, k)), item.of, "cancelled")
       IN Step(IF item.recorded THEN ResolveUser(left, item.of, FALSE) ELSE left)
  /\ UNCHANGED <<world, serve, wire, budget>>

\* latest.findIndex, and latest without that item
Index(q, i) == CHOOSE k \in DOMAIN q : q[k].of = i /\ \A j \in 1..k - 1 : q[j].of # i
Without(q, i) == RemoveAt(q, Index(q, i))
Of(q) == {item.of : item \in Range(q)}

\* mutant of RetryNow: the input is sent although it has left the queue in the meantime
RetryBlindly(u, s) ==
  SendText(IF s.item.of \in Of(u.queue) THEN PutQueue(u, Without(u.queue, s.item.of)) ELSE u, s)

\* The second half of retryQueuedInput: the input is looked up again, and sent
RetryNow(u, s) ==
  IF s.item.of \in Of(u.queue) THEN SendText(PutQueue(u, Without(u.queue, s.item.of)), s)
  ELSE Leave(u, s)

Retry ==
  /\ ui.up /\ ~ui.busy /\ CanClick
  /\ \E k \in DOMAIN ui.queue :
       LET s == Caller(ui, ui.queue[k], "resume", FALSE)
           begun == [ui EXCEPT !.sends = @ \cup {s}]
       IN /\ \A t \in ui.sends : t.at = "resume" => t.item.of # s.item.of
          /\ Step(IF ui.attached THEN RetryNow(begun, s) ELSE begun)
  /\ UNCHANGED <<world, serve, wire, budget>>

\* The renderer's share of session.resume: only an engine without event.task_state is
\* believed about the task (hydrateLegacyTaskState); `kept` are the messages of the
\* conversation that its history does not replace
Resumed(u, kept) ==
  LET attached == [u EXCEPT !.attached = TRUE, !.dirty = world.lazy,
                            !.mark = [i \in Inputs |-> IF i \in kept THEN @[i] ELSE "none"]] IN
  IF Atomic \/ serve.last = None THEN attached
  ELSE TaskState(attached, serve.last, serve.turn # None)

\* restoreAuthoritativeConversation
Pending == {i \in Inputs : ui.mark[i] = "pending"}

\* session.resume, called by retryQueuedInput or by openSession, is answered or fails
Resume ==
  /\ ui.up
  /\ \/ /\ \/ \E s \in ui.sends : s.at = "resume" /\ Step(RetryNow(Resumed(ui, Pending), s))
           \/ ~ui.attached /\ Step(Resumed(ui, {}))
        /\ serve' = [serve EXCEPT !.attached = TRUE]
        /\ UNCHANGED budget
     \/ /\ \E s \in ui.sends : s.at = "resume" /\ Step(Leave(ui, s))
        /\ Fault
        /\ UNCHANGED serve
  /\ UNCHANGED <<world, wire>>

\* mutant of Handoff: a message that finds no connection does not come back
HandoffLoses(u, s) == IF u.up THEN SendText(u, s) ELSE SetBusy(Leave(u, s), FALSE)

Handoff(u, s) ==
  IF u.up THEN SendText(u, s) ELSE SetBusy(Enqueue(Leave(u, s), s.item, "front"), FALSE)

\* A timer of the renderer: the hand-off of the drain, and the pauses of sendText. They
\* take 50 ms and more; a render that is due comes first.
TimerFires ==
  /\ ~ui.dirty
  /\ \E s \in ui.sends :
       \/ s.at = "handoff" /\ Step(Handoff(ui, s))
       \/ s.at = "pause"   /\ Step(TryAgain(ui, s))
       \/ s.at = "recheck" /\ Step(IF Live(ui) THEN SteerOrQueue(ui, s) ELSE TryAgain(ui, s))
  /\ UNCHANGED <<world, serve, wire, budget>>

\* A frame is read. Serve follows turn_start by the state of the task, if it reports it.
Receive ==
  /\ ui.up /\ wire # <<>>
  /\ LET m == Head(wire) IN
     \/ m.kind = "start" /\ Step(IF Atomic THEN TaskState(TurnStart(ui, m.turn), m.turn, TRUE)
                                 ELSE TurnStart(ui, m.turn))
     \/ m.kind \in {"live", "over"} /\ Step(TaskState(ui, m.turn, m.kind = "live"))
     \/ m.kind = "end" /\ Step(TurnEnd(ui, m.turn))
     \/ \E s \in ui.sends :
          /\ s.item.of = m.of /\ s.n = m.n
          /\ \/ s.at = "compose" /\ Step(AnswerToComposer(ui, s, m))
             \/ s.at \in {"call", "steer"} /\ Step(AnswerTo(ui, s, m))
  /\ wire' = Tail(wire)
  /\ UNCHANGED <<world, serve, budget>>

\* React renders, runs the updaters and then the effect that copies the queue
Render ==
  /\ ui.dirty
  /\ ui' = [ui EXCEPT !.queue = Waiting(ui), !.shown = Waiting(ui), !.updates = <<>>, !.dirty = FALSE]
  /\ UNCHANGED <<world, calls, serve, wire, budget>>

--------------------------------------------------------------------------------
(* Losing the connection and getting another one                                 *)

\* clearEngineBoundSurfaces and its callers, for this session
Cleared(u) ==
  [u EXCEPT !.attached = FALSE, !.busy = FALSE, !.task = NoTask, !.dispatch = NoDispatch, !.dirty = world.lazy,
            !.mark = [i \in Inputs |-> "none"]]

\* onClose: the queue goes too. retryQueuedInput gives up; a pause of sendText goes on
\* with the client it holds, a hand-off with the client it will find.
OnClose(u) ==
  LET bare == [Cleared(u) EXCEPT
                 !.up = FALSE, !.active = None,
                 !.fate = [i \in Inputs |-> IF i \in Of(Waiting(u)) THEN "dropped" ELSE @[i]],
                 !.sends = {[s EXCEPT !.stale = s.at # "handoff"] : s \in {t \in @ : t.at # "resume"}}]
  IN PutQueue(bare, <<>>)

\* "connection closed" rejects an RPC
Rejected(u, s) ==
  CASE s.at = "call"    -> ConnectionError(u, s)
    [] s.at = "steer"   -> SteerFails(u, s)
    [] s.at = "compose" -> Fate(Leave(u, s), s.item.of, "failed")

\* The answers are for nobody; the events may be replayed.
KeepEvent(events, m) == IF m.of = None THEN Append(events, m) ELSE events

\* ws.onclose: the sendText calls whose RPC the client rejects go on after onClose, one
\* after the other. Serve may still read an RPC that is on its way.
Close ==
  /\ ui.up /\ budget.closes > 0
  /\ LET closed == OnClose(ui) IN
     \E order \in SetToSeqs({s \in closed.sends : s.at \in {"call", "steer", "compose"}}) :
       ui' = FoldLeft(Rejected, closed, order)
  /\ \E read \in SUBSET {c \in calls : c.rpc = "asked"} :
       calls' = {[c EXCEPT !.lost = TRUE] : c \in read \cup {d \in calls : d.lost}}
  /\ wire' = FoldLeft(KeepEvent, <<>>, wire)
  /\ serve' = [serve EXCEPT !.attached = FALSE]
  /\ budget' = [budget EXCEPT !.closes = @ - 1]
  /\ UNCHANGED world

Event(kind, turn) == [kind |-> kind, turn |-> turn, of |-> None, n |-> 0]

\* App.connect keeps the queue. Serve has read what the last connection left, replays
\* the events missed, if it still can, and its snapshot reports the task.
Connect ==
  /\ ~ui.up /\ \A c \in calls : c.rpc # "asked"
  /\ ui' = [Cleared(ui) EXCEPT !.up = TRUE]
  /\ \E replayed \in {<<>>, wire} :
       wire' = replayed \o (IF Atomic /\ serve.last # None
                            THEN <<Event(IF serve.turn = None THEN "over" ELSE "live", serve.last)>>
                            ELSE <<>>)
  /\ UNCHANGED <<world, calls, serve, budget>>

--------------------------------------------------------------------------------
(* Serve, from what the renderer expects of it                                   *)

\* Serve has decided on a call; nobody waits for the answer of a lost one
Decide(c, rpc, turn) ==
  calls' = (calls \ {c}) \cup IF c.lost THEN {} ELSE {[c EXCEPT !.rpc = rpc, !.turn = turn]}

\* The receipt of a command that Serve has taken before
Receipts(c) == {r \in serve.receipts : c.cmd # None /\ r.of = c.of /\ r.cmd = c.cmd}

Take(c, how, turn) ==
  serve' = [serve EXCEPT !.turn = turn, !.last = turn, !.ran[c.of] = @ + 1,
                         !.receipts = IF Durable THEN @ \cup {[of |-> c.of, cmd |-> c.cmd, how |-> how, turn |-> turn]}
                                      ELSE @]

ServeStarts(c) ==
  /\ c.kind # "steer" /\ serve.turn = None
  /\ Take(c, "started", serve.last + 1)
  /\ Decide(c, "running", serve.last + 1)
  /\ wire' = Append(wire, Event("start", serve.last + 1))
  /\ UNCHANGED budget

ServeSteers(c) ==
  /\ serve.turn # None
  /\ (c.kind = "submit" /\ c.of \notin Attached) \/ (c.kind = "steer" /\ c.turn = serve.turn)
  /\ Take(c, "steered", serve.turn)
  /\ Decide(c, "steered", serve.turn)
  /\ UNCHANGED <<wire, budget>>

\* attachments_not_steerable, or active_turn_not_steerable
ServeDeclines(c) ==
  /\ c.kind = "submit" /\ serve.turn # None
  /\ IF c.of \in Attached THEN UNCHANGED budget ELSE Fault
  /\ Decide(c, "not_submitted", serve.turn)
  /\ UNCHANGED <<serve, wire>>

\* SERVER_BUSY; "provider reconfiguration and turn-start delivery" may also cause it
ServeIsBusy(c) ==
  /\ IF \/ c.kind = "send" /\ serve.turn # None
        \/ c.kind = "steer" /\ serve.turn # c.turn
     THEN UNCHANGED budget ELSE Fault
  /\ Decide(c, "busy", None)
  /\ UNCHANGED <<serve, wire>>

\* A command that Serve has taken is not taken again: its receipt answers
ServeRepeats(c) ==
  /\ \E r \in Receipts(c) :
       Decide(c, IF r.how = "started" /\ serve.turn = r.turn THEN "running" ELSE r.how, r.turn)
  /\ UNCHANGED <<serve, wire, budget>>

\* NO_SESSION, or any other error
ServeRefuses(c) ==
  /\ IF serve.attached \/ c.lost THEN Fault ELSE UNCHANGED budget
  /\ Decide(c, "error", None)
  /\ UNCHANGED <<serve, wire>>

ServeReads ==
  /\ \E c \in calls :
       /\ c.rpc = "asked"
       /\ \/ /\ serve.attached \/ c.lost
             /\ \/ Receipts(c) = {} /\ (ServeStarts(c) \/ ServeSteers(c) \/ ServeDeclines(c) \/ ServeIsBusy(c))
                \/ ServeRepeats(c)
          \/ ServeRefuses(c)
  /\ UNCHANGED <<world, ui>>

\* The turn is over: the call that started it will be answered, unless its receipt is lost
EndTurn ==
  /\ serve.turn # None
  /\ serve' = [serve EXCEPT !.turn = None]
  /\ wire' = wire \o (IF Atomic THEN <<Event("over", serve.turn)>> ELSE <<>>) \o <<Event("end", serve.turn)>>
  /\ \E rpc \in {"started", "unknown"} :
       /\ IF rpc = "unknown" THEN Durable /\ world.loses /\ Fault ELSE UNCHANGED budget
       /\ calls' = {IF c.rpc = "running" THEN [c EXCEPT !.rpc = rpc] ELSE c : c \in calls}
  /\ UNCHANGED <<world, ui>>

\* Another client, an agent or a schedule starts a turn of the session
StartForeign ==
  /\ serve.turn = None /\ budget.turns > 0
  /\ budget' = [budget EXCEPT !.turns = @ - 1]
  /\ serve' = [serve EXCEPT !.turn = serve.last + 1, !.last = serve.last + 1]
  /\ wire' = Append(wire, Event("start", serve.last + 1))
  /\ UNCHANGED <<world, ui, calls>>

\* Serve writes an answer, perhaps after events that are younger than its decision
Answer ==
  /\ \E c \in calls :
       /\ c.rpc \notin {"asked", "running"}
       /\ calls' = calls \ {c}
       /\ wire' = Append(wire, [kind |-> c.rpc, turn |-> c.turn, of |-> c.of, n |-> c.n])
  /\ UNCHANGED <<world, ui, serve, budget>>

Next ==
  \/ Compose \/ Cancel \/ Retry \/ Resume \/ TimerFires \/ Receive \/ Render
  \/ Close \/ Connect
  \/ ServeReads \/ EndTurn \/ StartForeign \/ Answer

Spec == Init /\ [][Next]_vars

\* Timers fire, React renders, frames are read, and a live Serve reads, ends its turns and answers
FairSpec ==
  /\ Spec
  /\ WF_vars(TimerFires) /\ WF_vars(Receive) /\ WF_vars(Render) /\ WF_vars(Resume)
  /\ WF_vars(ServeReads) /\ WF_vars(EndTurn) /\ WF_vars(Answer)

--------------------------------------------------------------------------------
(* Properties *)

Item == [of : Inputs, cmd : Nat, recorded : BOOLEAN]
Answers == {"started", "steered", "not_submitted", "busy", "error", "unknown"}

\* Every variable keeps its type.
TypeOK ==
  /\ {ui.up, ui.attached, ui.busy, ui.dirty, serve.attached} \subseteq BOOLEAN
  /\ ui.active \in Nat /\ ui.task \in [turn : Nat, live : BOOLEAN]
  /\ ui.dispatch \in [of : Inputs \cup {None}, turn : Nat, completed : BOOLEAN]
  /\ Range(ui.queue) \cup Range(ui.shown) \subseteq Item
  /\ ~ui.dirty => ui.shown = ui.queue /\ ui.updates = <<>>
  /\ \A update \in Range(ui.updates) : update.op \in {"front", "back", "set"} /\ Range(update.items) \subseteq Item
  /\ ui.sends \subseteq [item : Item, at : {"handoff", "resume", "call", "steer", "compose", "pause", "recheck"},
                         attempt : 0..BusyRetries, front : BOOLEAN, stale : BOOLEAN, n : Nat]
  /\ ui.out = {}
  /\ ui.mark \in [Inputs -> {"none", "pending", "kept"}]
  /\ ui.fate \in [Inputs -> {"unsent", "open", "sent", "failed", "cancelled", "dropped"}]
  /\ calls \subseteq [of : Inputs, n : Nat, cmd : Nat, kind : {"submit", "send", "steer"}, turn : Nat,
                      rpc : {"asked", "running"} \cup Answers, lost : BOOLEAN]
  /\ world \in Worlds /\ budget.closes \in 0..world.closes /\ budget.faults \in 0..world.faults
  /\ serve.turn \in {None, serve.last} /\ serve.ran \in [Inputs -> Nat]
  /\ serve.receipts \subseteq [of : Inputs, cmd : Nat, how : {"started", "steered"}, turn : Nat]
  /\ Range(wire) \subseteq [kind : {"start", "live", "over", "end"} \cup Answers, turn : Nat,
                            of : Inputs \cup {None}, n : Nat]
  /\ budget.turns \in 0..MaxForeign

\* Where an input is: queued, or in a call of sendText or submitSessionText
\* (retryQueuedInput leaves it in the queue while it resumes the session).
Places(i) ==
  Cardinality({k \in DOMAIN Waiting(ui) : Waiting(ui)[k].of = i})
    + Cardinality({s \in ui.sends : s.item.of = i /\ s.at # "resume"})

\* An input is in one place at a time, whatever turn_end, Retry, Cancel and a close do
\* to the queue, and it is in one until the user has been told how it ended.
InOnePlace ==
  ~world.lazy => \A i \in Inputs : Places(i) = IF ui.fate[i] = "open" THEN 1 ELSE 0

\* No queued input disappears: until its end it is queued or in a call ("a visible
\* queued message remains retryable").
QueuedIsKept == \A i \in Inputs : ui.fate[i] = "open" => Places(i) > 0

\* An input is taken by Serve at most once, however often it is sent again
\* (sendText's catch of an unknown outcome, retryQueuedInput).
AtMostOnce == ~world.lazy /\ ~world.loses => \A i \in Inputs : serve.ran[i] <= 1

\* An input that waits without a command id has never been taken: sending it under a
\* new id is safe (enqueueInput after not_submitted and SERVER_BUSY).
QueuedIsNotTaken ==
  ~world.lazy /\ ~world.loses => \A item \in Range(ui.queue) : item.cmd = None => serve.ran[item.of] = 0

\* An input that the user has cancelled is not taken afterwards (cancelQueuedInput),
\* unless it was on its way to Serve when the connection was lost: it was queued again
\* because its outcome was unknown, and Serve may still read it.
CancelledStaysOut ==
  [][~world.lazy => \A i \in Inputs : ui.fate[i] = "cancelled" /\ (\A c \in calls : c.of = i => ~c.lost)
                       => serve'.ran[i] = serve.ran[i]]_vars

\* The session is never busy for nothing: a turn, a frame on its way or a call that has
\* not ended will release it (setSessionBusy in sendText and in the turn events).
BusyHasReason ==
  ui.busy => serve.turn # None \/ wire # <<>> \/ ui.sends # {}

\* A message that the conversation shows as accepted has been taken by Serve ("late
\* turn-end events can no longer acknowledge the wrong optimistic message").
AcknowledgedIsTaken ==
  \A i \in Inputs : ui.mark[i] = "kept" => serve.ran[i] > 0

\* Every input comes to an end the user knows of, or to a Retry the user can press.
InputSettles ==
  \A i \in Inputs :
    ui.fate[i] = "open" ~> ui.fate[i] # "open" \/ (i \in Of(ui.queue) /\ ~ui.busy)

================================================================================
