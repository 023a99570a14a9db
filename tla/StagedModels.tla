------------------------------ MODULE StagedModels ------------------------------
(* The model a user picks for the next turn of a session (App.tsx: changeModel,     *)
(* flushStagedModelChange and its callers). The choice is staged in the renderer    *)
(* and Serve is asked to set it between two turns; one loop per session asks, and   *)
(* begins again when the user chooses once more. Whoever sends a message waits for  *)
(* the loop, except that an Engine with session.submit is told the expected model   *)
(* instead when Serve is still busy.                                                *)
(*                                                                                  *)
(* Choices are numbered, and the model of Serve is the number of the choice it has  *)
(* set. The connection holds: a close forgets the choices and the queue.            *)
EXTENDS Naturals, Sequences, SequencesExt

CONSTANTS
  Messages,     \* what the user sends
  MaxChoices,   \* bound on the choices
  BusyDelays,   \* the length of MODEL_CHANGE_BUSY_RETRY_DELAYS_MS
  SendRetries,  \* BUSY_SEND_RETRIES
  MaxTurns,     \* bound on the turns that someone else starts
  MaxFaults     \* bound on Serve's refusals, and on moments of SERVER_BUSY between turns

VARIABLES
  atomic,    \* Serve has session.submit; without it, it has no session.steer either
  chosen,    \* stagedModelChangeSequenceRef
  staged,    \* stagedModelChangesRef of the session; 0 is none
  flush,     \* the loop of flushStagedModelChange
  sends,     \* the calls of sendText under way, in the order they began
  queue,     \* queueRef
  busy,      \* busyRef
  live,      \* activeTurnsRef: the renderer has seen a turn begin and not end
  calls,     \* what Serve has not read
  wire,      \* what the renderer has not read
  serve,     \* the model set, whether a turn is live, and what is left of the bounds
  fate,      \* what became of each message
  meant,     \* history: the newest choice when a message was dispatched
  ran,       \* history: the models of the turns it started
  refused    \* history: choices Serve refused

stagedVars == <<atomic, chosen, staged, flush, sends, queue, busy, live, calls, wire, serve, fate, meant,
                ran, refused>>
deskVars == <<chosen, staged, flush, sends, queue, busy, live, calls, fate, meant>>

NoLoop == [at |-> "none", choice |-> 0, tries |-> 0]
Sender == [message : Messages, from : {"composer", "drain", "retry"}, tries : 0..SendRetries,
           at : {"handoff", "flush", "call", "again", "pause"}, expected : 0..MaxChoices]

StagedTypeOK ==
  /\ atomic \in BOOLEAN /\ busy \in BOOLEAN /\ live \in BOOLEAN
  /\ chosen \in 0..MaxChoices /\ staged \in 0..chosen
  /\ flush \in [at : {"none", "asked", "pause", "info"}, choice : 0..MaxChoices, tries : 0..BusyDelays]
  /\ sends \in Seq(Sender) /\ queue \in Seq(Messages)
  /\ serve.model \in 0..MaxChoices
  /\ fate \in [Messages -> {"unsent", "open", "sent", "returned", "failed", "lost"}]
  /\ meant \in [Messages -> 0..MaxChoices] /\ ran \in [Messages -> SUBSET (0..MaxChoices)]
  /\ refused \subseteq 1..MaxChoices

InitStaged ==
  /\ atomic \in BOOLEAN
  /\ chosen = 0 /\ staged = 0 /\ flush = NoLoop
  /\ sends = <<>> /\ queue = <<>> /\ busy = FALSE /\ live = FALSE
  /\ calls = <<>> /\ wire = <<>>
  /\ serve = [model |-> 0, live |-> FALSE, turns |-> MaxTurns, faults |-> MaxFaults]
  /\ fate = [m \in Messages |-> "unsent"]
  /\ meant = [m \in Messages |-> 0] /\ ran = [m \in Messages |-> {}]
  /\ refused = {}

--------------------------------------------------------------------------------
(* The renderer. `d` is its state, so that a callback is a function of it.       *)

Desk == [chosen |-> chosen, staged |-> staged, flush |-> flush, sends |-> sends, queue |-> queue,
         busy |-> busy, live |-> live, calls |-> calls, fate |-> fate, meant |-> meant]
Becomes(d) ==
  /\ chosen' = d.chosen /\ staged' = d.staged /\ flush' = d.flush /\ sends' = d.sends
  /\ queue' = d.queue /\ busy' = d.busy /\ live' = d.live /\ calls' = d.calls
  /\ fate' = d.fate /\ meant' = d.meant

Left(d, s) == [d EXCEPT !.sends = SelectSeq(@, LAMBDA t : t.message # s.message)]
Put(d, s) == [d EXCEPT !.sends = [k \in DOMAIN @ |-> IF @[k].message = s.message THEN s ELSE @[k]]]

\* sendText throws: each caller handles it for itself.
Thrown(d, s) ==
  CASE s.from = "composer" -> [Left(d, s) EXCEPT !.fate[s.message] = "returned"]
    [] s.from = "drain" -> [Left(d, s) EXCEPT !.queue = <<s.message>> \o @, !.busy = FALSE]
    [] s.from = "retry" -> [Left(d, s) EXCEPT !.fate[s.message] = "lost"]

\* One round of sendText's loop.
Dispatched(d, s) ==
  [Put(d, [s EXCEPT !.at = "call"]) EXCEPT
     !.calls = Append(@, [kind |-> "submit", of |-> s.message, choice |-> s.expected])]

Paused(d, s) == Put(d, [s EXCEPT !.at = "pause", !.tries = @ + 1])
\* The message waits for the end of a turn, or for a Retry.
Queued(d, s, seen) ==
  [Left(d, s) EXCEPT !.queue = IF s.from = "drain" THEN <<s.message>> \o @ ELSE Append(@, s.message),
                     !.busy = @ /\ seen]

\* sendText after its await of the loop.
Sends(d, s, result) ==
  IF result = "failed" \/ (result = "deferred" /\ ~atomic) THEN Thrown(d, s)
  ELSE Dispatched([d EXCEPT !.meant[s.message] = d.chosen, !.busy = TRUE],
                  [s EXCEPT !.expected = IF result = "deferred" THEN d.staged ELSE 0])
\* After a mismatch: the error is caught in sendText, and the message has failed.
SendsAgain(d, s, result) ==
  IF result = "failed" THEN [Left(d, s) EXCEPT !.fate[s.message] = "failed", !.busy = FALSE]
  ELSE LET t == [s EXCEPT !.expected = IF result = "deferred" THEN d.staged ELSE 0]
           e == [d EXCEPT !.meant[s.message] = d.chosen]
       IN IF s.tries < SendRetries THEN Paused(e, t) ELSE Queued(e, t, FALSE)

\* Everybody who waits for the loop goes on, in the order they came.
LoopEnds(d, result) ==
  LET Goes(e, s) == IF s.at = "flush" THEN Sends(e, s, result)
                    ELSE IF s.at = "again" THEN SendsAgain(e, s, result) ELSE e
  IN FoldLeft(Goes, [d EXCEPT !.flush = NoLoop], d.sends)

\* setSessionModel() with the choice that is staged now.
AsksFor(d, choice, tries) ==
  [d EXCEPT !.flush = [at |-> "asked", choice |-> choice, tries |-> tries],
            !.calls = Append(@, [kind |-> "set", of |-> 0, choice |-> choice])]

\* flushStagedModelChange(): a loop that runs is joined.
Flushed(d) ==
  IF d.flush # NoLoop THEN d
  ELSE IF d.staged = 0 THEN LoopEnds(d, "none") ELSE AsksFor(d, d.staged, 0)

SendText(d, m, from) ==
  Flushed([d EXCEPT !.sends = Append(@, [message |-> m, from |-> from, tries |-> 0, at |-> "flush",
                                         expected |-> 0])])

Cleared(d, choice) == IF d.staged = choice THEN [d EXCEPT !.staged = 0] ELSE d

\* A loop that does not look again for a newer choice.
SetOnce(d) == LoopEnds(Cleared(d, d.flush.choice), "applied")
\* Serve has set the model: a newer choice is next, or the badge is refreshed.
Set(d) ==
  LET e == Cleared(d, d.flush.choice)
  IN IF e.staged # 0 THEN AsksFor(e, e.staged, 0) ELSE [e EXCEPT !.flush.at = "info"]

Refused(d) ==
  IF d.staged # d.flush.choice THEN AsksFor(d, d.staged, 0)
  ELSE LoopEnds(Cleared(d, d.flush.choice), "failed")

StillBusy(d) ==
  IF d.flush.tries < BusyDelays THEN [d EXCEPT !.flush.at = "pause", !.flush.tries = @ + 1]
  ELSE IF d.staged # d.flush.choice THEN AsksFor(d, d.staged, 0)
  ELSE LoopEnds(d, "deferred")

Drained(d) ==
  IF d.queue = <<>> THEN d
  ELSE [d EXCEPT !.busy = TRUE, !.queue = Tail(@),
                 !.sends = Append(@, [message |-> Head(d.queue), from |-> "drain", tries |-> 0,
                                      at |-> "handoff", expected |-> 0])]

--------------------------------------------------------------------------------
Unchanged == UNCHANGED <<atomic, serve, wire, ran, refused>>

\* changeModel(): Serve is asked at once only when no turn is live.
ChangeModel ==
  /\ chosen < MaxChoices
  /\ LET d == [Desk EXCEPT !.chosen = @ + 1, !.staged = chosen + 1]
     IN Becomes(IF busy THEN d ELSE Flushed(d))
  /\ Unchanged

\* submitSessionText(): without session.submit a message waits in the queue for the turn.
Compose(m) ==
  /\ fate[m] = "unsent"
  /\ LET d == [Desk EXCEPT !.fate[m] = "open"]
     IN Becomes(IF atomic \/ ~busy THEN SendText(d, m, "composer") ELSE [d EXCEPT !.queue = Append(@, m)])
  /\ Unchanged

\* retryQueuedInput()
Retry(k) ==
  /\ k \in DOMAIN queue /\ ~busy
  /\ Becomes(SendText([Desk EXCEPT !.queue = RemoveAt(@, k)], queue[k], "retry"))
  /\ Unchanged

\* A timer of the loop, of the hand-off or of a retry.
TimerFires ==
  /\ \/ flush.at = "pause" /\ Becomes(AsksFor(Desk, flush.choice, flush.tries))
     \/ \E s \in Range(sends) : s.at = "handoff" /\ Becomes(SendText(Left(Desk, s), s.message, s.from))
     \/ \E s \in Range(sends) :
          s.at = "pause" /\ Becomes(IF live /\ ~atomic THEN Queued(Desk, s, TRUE) ELSE Dispatched(Desk, s))
  /\ Unchanged

\* refreshModelInfo() is answered, or fails: the loop looks once more.
InfoRefreshed ==
  /\ flush.at = "info"
  /\ Becomes(IF staged # 0 THEN AsksFor(Desk, staged, 0) ELSE LoopEnds(Desk, "applied"))
  /\ Unchanged

Answered(d, answer) ==
  LET s == CHOOSE t \in Range(d.sends) : t.message = answer.of
  IN CASE answer.kind = "taken" -> [Left(d, s) EXCEPT !.fate[s.message] = "sent"]
       [] answer.kind = "mismatch" -> Flushed(Put(d, [s EXCEPT !.at = "again"]))
       [] answer.kind = "not submitted" ->
            IF ~d.live /\ s.tries < SendRetries THEN Paused(d, s) ELSE Queued(d, s, d.live)

\* handleEvent and the answers, in the order Serve wrote them.
Receive ==
  /\ wire # <<>>
  /\ LET event == Head(wire)
     IN Becomes(CASE event.kind = "turn_start" -> [Desk EXCEPT !.busy = TRUE, !.live = TRUE]
                  [] event.kind = "turn_end" -> Drained(Flushed([Desk EXCEPT !.busy = FALSE, !.live = FALSE]))
                  [] event.kind = "set" -> Set(Desk)
                  [] event.kind = "refused" -> Refused(Desk)
                  [] event.kind = "busy" -> StillBusy(Desk)
                  [] OTHER -> Answered(Desk, event))
  /\ wire' = Tail(wire)
  /\ UNCHANGED <<atomic, serve, ran, refused>>

--------------------------------------------------------------------------------
(* Serve, as src/ relies on it: a model is set between turns only, and a message  *)
(* that carries an expectation is taken by an idle session with that model only.  *)

Writes(events) == wire' = wire \o events
Event(kind, of) == [kind |-> kind, of |-> of]

ReadsSet(choice) ==
  \/ /\ serve.live /\ Writes(<<Event("busy", 0)>>)
     /\ UNCHANGED <<serve, refused>>
  \/ /\ ~serve.live
     /\ serve' = [serve EXCEPT !.model = choice]
     /\ Writes(<<Event("set", 0)>>) /\ UNCHANGED refused
  \/ /\ ~serve.live /\ serve.faults > 0
     /\ serve' = [serve EXCEPT !.faults = @ - 1]
     /\ \/ Writes(<<Event("refused", 0)>>) /\ refused' = refused \union {choice}
        \/ Writes(<<Event("busy", 0)>>) /\ UNCHANGED refused

ReadsMessage(m, expected) ==
  IF serve.live
  THEN /\ Writes(<<Event(IF atomic /\ expected = 0 THEN "taken" ELSE "not submitted", m)>>)
       /\ UNCHANGED <<serve, ran>>
  ELSE IF expected \notin {0, serve.model}
  THEN Writes(<<Event("mismatch", m)>>) /\ UNCHANGED <<serve, ran>>
  ELSE /\ serve' = [serve EXCEPT !.live = TRUE]
       /\ Writes(<<Event("turn_start", m), Event("taken", m)>>)
       /\ ran' = [ran EXCEPT ![m] = @ \union {serve.model}]

ServeReads ==
  /\ calls # <<>>
  /\ LET call == Head(calls)
     IN IF call.kind = "set" THEN ReadsSet(call.choice) /\ UNCHANGED ran
        ELSE ReadsMessage(call.of, call.choice) /\ UNCHANGED refused
  /\ calls' = Tail(calls)
  /\ UNCHANGED <<atomic, chosen, staged, flush, sends, queue, busy, live, fate, meant>>

ServeEndsTurn ==
  /\ serve.live
  /\ serve' = [serve EXCEPT !.live = FALSE]
  /\ Writes(<<Event("turn_end", 0)>>)
  /\ UNCHANGED <<atomic, ran, refused, deskVars>>

OthersStartTurn ==
  /\ ~serve.live /\ serve.turns > 0
  /\ serve' = [serve EXCEPT !.live = TRUE, !.turns = @ - 1]
  /\ Writes(<<Event("turn_start", 0)>>)
  /\ UNCHANGED <<atomic, ran, refused, deskVars>>

NextStaged ==
  \/ ChangeModel \/ TimerFires \/ InfoRefreshed \/ Receive
  \/ \E m \in Messages : Compose(m)
  \/ \E k \in DOMAIN queue : Retry(k)
  \/ ServeReads \/ ServeEndsTurn \/ OthersStartTurn

SpecStaged == InitStaged /\ [][NextStaged]_stagedVars

--------------------------------------------------------------------------------
\* A message that was dispatched after a choice starts no turn on an older model: the
\* newest choice wins, whatever was chosen while Serve was asked for another, unless
\* Serve has refused it.
NewestChoiceIsUsed ==
  \A m \in Messages : \A model \in ran[m] : model >= meant[m] \/ meant[m] \in refused

\* A choice leaves the composer only when Serve has set it or refused it.
ChoiceIsAnswered ==
  chosen > 0 /\ staged = 0 => chosen = serve.model \/ chosen \in refused

\* A message that waits stays in the queue until it is sent ("a visible queued message
\* remains retryable").
WaitingStays == \A m \in Messages : fate[m] # "lost"
================================================================================
