----------------------------- MODULE TerminalInput -----------------------------
(* What the user types into the terminal of an external session: the surface that   *)
(* buffers keys, attaches, hands control over and releases it                        *)
(* (ExternalNativeTerminalSurface.tsx), the numbered input of the client (client.ts: *)
(* attachTerminal to releaseTerminal) and, as src/ relies on it, the Engine that      *)
(* gives one stream at a time control of a terminal.                                  *)
(*                                                                                    *)
(* One session and one surface, which is closed for good; the connection holds.       *)
(* Frames, sizes and scrolling are left out.                                          *)
EXTENDS Integers, Sequences, SequencesExt, FiniteSets

CONSTANTS
  MaxKeys,      \* bound on the keys typed
  MaxStreams,   \* bound on the streams the Engine opens
  MaxUpdates,   \* bound on the buttons pressed and the changes of the session
  MaxHandoffs,  \* bound on the requests for a handoff
  Overlapping,  \* whether the Engine asks again before it has read an acknowledgement
  MaxBreaks     \* bound on the Engine's failures

VARIABLES
  surface,   \* the refs and the status of the surface
  lines,     \* what was sent through each stream, and terminalNextInputSequence
  jobs,      \* the handoffs, attachments and releases under way, in the order they began
  calls,     \* what the Engine has not read
  wire,      \* what the renderer has not read
  host,      \* the Engine
  typed,     \* history: the stream of each key the surface took
  applied    \* history: the keys the terminal got

terminalVars == <<surface, lines, jobs, calls, wire, host, typed, applied>>

Streams == 1..MaxStreams
Nothing == 0
Other == MaxStreams + 1   \* another window
Statuses == {"connecting", "control", "observe", "handoff", "external", "closed", "error"}
Job == [n : Nat \ {0}, kind : {"handoff", "attach", "release", "leave"}, stream : 0..MaxStreams, id : 0..MaxHandoffs,
        chain : 0..MaxStreams, upto : 0..MaxKeys, at : {"drain", "queue", "call", "attach", "observe"},
        takeover : BOOLEAN, force : BOOLEAN]

TerminalTypeOK ==
  /\ surface \in [shown : BOOLEAN, stream : 0..MaxStreams, chain : 0..MaxStreams, accepting : BOOLEAN,
                  failed : BOOLEAN, status : Statuses, buffer : Seq(1..MaxKeys), updates : 0..MaxUpdates]
  /\ DOMAIN lines = Streams
  /\ \A s \in Streams : lines[s].mode \in {"none", "control", "observe"} /\ lines[s].next \in 0..MaxKeys + 1
                        /\ lines[s].done \in 0..Len(lines[s].chunks)
  /\ jobs \in Seq(Job)
  /\ host.open \subseteq 1..host.opened /\ host.controller \in host.open \union {Nothing, Other}
  /\ host.given \subseteq Streams \ host.open
  /\ typed \in Seq(Streams) /\ Len(typed) <= MaxKeys
  /\ Range(applied) \subseteq DOMAIN typed

InitTerminal ==
  /\ surface = [shown |-> TRUE, stream |-> Nothing, chain |-> Nothing, accepting |-> FALSE, failed |-> FALSE,
                status |-> "connecting", buffer |-> <<>>, updates |-> 0]
  /\ lines = [s \in Streams |-> [mode |-> "none", chunks |-> <<>>, done |-> 0, next |-> 0]]
  \* The first attachment: there is nothing to release.
  /\ jobs = <<[n |-> 1, kind |-> "attach", stream |-> Nothing, id |-> 0, chain |-> Nothing, upto |-> 0,
               at |-> "attach", takeover |-> FALSE, force |-> FALSE]>>
  /\ calls = <<[kind |-> "control", stream |-> Nothing, seq |-> 0]>>
  /\ wire = <<>>
  /\ \E c \in {Nothing, Other} :
       host = [opened |-> 0, open |-> {}, controller |-> c, next |-> [s \in Streams |-> 1],
               handoff |-> 0, asked |-> 0, unread |-> 0, given |-> {}, breaks |-> MaxBreaks]
  /\ typed = <<>> /\ applied = <<>>

--------------------------------------------------------------------------------
(* The renderer. `d` is its state, so that a callback is a function of it.         *)

Desk == [surface |-> surface, lines |-> lines, jobs |-> jobs, calls |-> calls]
Becomes(d) == surface' = d.surface /\ lines' = d.lines /\ jobs' = d.jobs /\ calls' = d.calls

Asks(d, call) == [d EXCEPT !.calls = Append(@, call)]
Ends(d, j) == [d EXCEPT !.jobs = SelectSeq(@, LAMBDA i : i # j)]
Moves(d, j, i) == [d EXCEPT !.jobs = [k \in DOMAIN @ |-> IF @[k] = j THEN i ELSE @[k]]]
Shows(d, status) == [d EXCEPT !.surface.status = status]
HasControl(d) == d.surface.stream # Nothing /\ d.lines[d.surface.stream].mode = "control"
IsSent(d, s) == d.lines[s].done = Len(d.lines[s].chunks)

\* terminalRawInput(): the first chunk that is not answered is with the Engine.
SendsFirst(d, s) ==
  IF IsSent(d, s) THEN d
  ELSE Asks(d, [kind |-> "input", stream |-> s, seq |-> d.lines[s].next])

\* flushInput(): what was typed for a stream that is gone is dropped.
Flushed(d) ==
  LET s == d.surface.stream
      e == [d EXCEPT !.surface.buffer = <<>>]
      f == [e EXCEPT !.lines[s].chunks = Append(@, d.surface.buffer), !.surface.chain = s]
  IN IF d.surface.buffer = <<>> \/ ~HasControl(d) THEN e
     ELSE IF IsSent(d, s) THEN SendsFirst(f, s) ELSE f

\* The end of a handoff that was not acknowledged.
HandoffFails(d, j) ==
  [Ends(d, j) EXCEPT !.surface.accepting = ~d.surface.failed,
                     !.surface.status = IF d.surface.failed THEN "error" ELSE "control"]

\* readyTerminalHandoff() once the client's queue is empty.
Acknowledges(d, j) ==
  IF d.lines[j.stream].next = 0 THEN HandoffFails(d, j)
  ELSE Asks(Moves(d, j, [j EXCEPT !.at = "call"]),
            [kind |-> "ready", stream |-> j.stream, seq |-> d.lines[j.stream].next - 1, id |-> j.id])

\* What follows a release. Without a terminal to fit, attach() throws.
Released(d, j) ==
  CASE j.kind = "attach" /\ d.surface.shown -> Asks(Moves(d, j, [j EXCEPT !.at = "attach"]),
                                 [kind |-> IF j.takeover THEN "takeover" ELSE "control",
                                  stream |-> Nothing, seq |-> 0])
    [] j.kind = "release" -> Shows(Ends(d, j), "closed")
    [] OTHER -> Ends(d, j)

\* releaseTerminal() once the client's queue is empty, or is discarded.
Releases(d, j) == Asks(Moves(d, j, [j EXCEPT !.at = "call"]),
                       [kind |-> "release", stream |-> j.stream, seq |-> 0])

\* mutant of Drained: an input error does not block a handoff
DrainedRegardless(d, j, ok) ==
  LET i == [j EXCEPT !.stream = d.surface.stream, !.at = "queue"]
      e == [Moves(d, j, i) EXCEPT !.surface.stream = Nothing, !.surface.failed = FALSE,
                                  !.surface.chain = Nothing]
  IN IF j.kind = "handoff"
     THEN IF IsSent(d, j.stream) THEN Acknowledges(d, j) ELSE Moves(d, j, [j EXCEPT !.at = "queue"])
     ELSE IF i.stream = Nothing THEN Released(e, i) ELSE Releases(e, i)

\* After drainInput(): a handoff is acknowledged, everything else releases the stream
\* that is current by now.
Drained(d, j, ok) ==
  LET i == [j EXCEPT !.stream = d.surface.stream, !.at = "queue"]
      e == [Moves(d, j, i) EXCEPT !.surface.stream = Nothing, !.surface.failed = FALSE,
                                  !.surface.chain = Nothing]
  IN IF ~ok /\ j.kind = "handoff" THEN HandoffFails(d, j)
     ELSE IF ~ok /\ ~j.force
     THEN Shows([Ends(d, j) EXCEPT !.surface.accepting = ~d.surface.failed /\ HasControl(d)], "error")
     ELSE IF j.kind = "handoff"
     THEN IF IsSent(d, j.stream) THEN Acknowledges(d, j) ELSE Moves(d, j, [j EXCEPT !.at = "queue"])
     ELSE IF i.stream = Nothing THEN Released(e, i)
     ELSE IF j.force \/ IsSent(d, i.stream) THEN Releases(e, i) ELSE e

\* drainInput(): the buffer is flushed, and what the chain holds by then is awaited.
Begins(d, job) ==
  LET e == Flushed([d EXCEPT !.surface.accepting = FALSE])
      c == e.surface.chain
      j == [job EXCEPT !.n = CHOOSE n \in 1..Len(d.jobs) + 1 : \A i \in Range(d.jobs) : i.n # n,
                       !.chain = c, !.upto = IF c = Nothing THEN 0 ELSE Len(e.lines[c].chunks)]
      f == [e EXCEPT !.jobs = Append(@, j)]
  IN IF c # Nothing /\ ~IsSent(e, c) THEN f ELSE Drained(f, j, ~e.surface.failed)

NewJob(kind, takeover, force) ==
  [n |-> 1, kind |-> kind, stream |-> Nothing, id |-> 0, chain |-> Nothing, upto |-> 0, at |-> "drain",
   takeover |-> takeover, force |-> force]

\* attach()
Attaches(d, takeover, force) == Begins(Shows(d, "connecting"), NewJob("attach", takeover, force))

--------------------------------------------------------------------------------
\* What is answered, and what the surface hears.

\* A chunk is answered: whoever waited for it goes on, in the order they came, and the
\* next chunk is sent.
InputAnswered(d, answer) ==
  LET s == answer.stream
      e == [d EXCEPT !.lines[s].done = @ + 1, !.lines[s].next = IF answer.ok THEN answer.seq ELSE @]
      f == IF answer.ok THEN e
           ELSE Shows([e EXCEPT !.surface.accepting = FALSE, !.surface.failed = TRUE], "error")
      Goes(g, j) ==
        IF j.at = "drain" /\ j.chain = s /\ j.upto = e.lines[s].done
        THEN Drained(g, j, answer.ok /\ ~g.surface.failed)
        ELSE IF j.at = "queue" /\ j.stream = s /\ IsSent(e, s)
        THEN IF j.kind = "handoff" THEN IF answer.ok THEN Acknowledges(g, j) ELSE HandoffFails(g, j)
             ELSE IF answer.ok THEN Releases(g, j) ELSE Released(g, j)
        ELSE g
  IN FoldLeft(Goes, SendsFirst(f, s), d.jobs)

\* The attachment the Engine has answered: calls of a kind are answered in their order.
Attaching(d, at) == CHOOSE j \in Range(d.jobs) :
  j.at = at /\ \E k \in DOMAIN d.jobs : d.jobs[k] = j /\ \A l \in 1..k - 1 : d.jobs[l].at # at

Observes(d, j) == Asks(Moves(d, j, [j EXCEPT !.at = "observe"]),
                       [kind |-> "observe", stream |-> Nothing, seq |-> 0])

\* A terminal that was disposed of meanwhile makes the rest of attach() throw.
ControlAnswered(d, answer) ==
  LET j == Attaching(d, "attach")
      s == answer.stream
      e == [d EXCEPT !.surface.stream = s, !.surface.failed = FALSE, !.surface.chain = Nothing,
                     !.surface.accepting = TRUE,
                     !.lines[s] = [@ EXCEPT !.mode = "control", !.next = answer.seq]]
      AfterThrow(g) == IF j.takeover THEN Shows(Ends(g, j), "error") ELSE Observes(g, j)
  IN IF ~answer.ok THEN AfterThrow(d)
     ELSE IF d.surface.shown THEN Shows(Ends(e, j), "control") ELSE AfterThrow(e)

ObserveAnswered(d, answer) ==
  LET j == Attaching(d, "observe")
      e == [d EXCEPT !.surface.stream = answer.stream, !.lines[answer.stream].mode = "observe"]
  IN IF answer.ok THEN Shows(Ends(e, j), IF d.surface.shown THEN "observe" ELSE "error")
     ELSE Shows(Ends(d, j), "error")

Calling(d, kinds, s) == {j \in Range(d.jobs) : j.at = "call" /\ j.kind \in kinds /\ j.stream = s}

\* The answer to a release is not looked at.
ReleaseAnswered(d, s) ==
  LET e == [d EXCEPT !.lines[s].next = 0]
  IN FoldLeft(Released, e, SetToSeq(Calling(d, {"attach", "release", "leave"}, s)))

ReadyAnswered(d, answer) ==
  LET j == CHOOSE i \in Calling(d, {"handoff"}, answer.stream) : i.id = answer.id
  IN IF answer.ok THEN Ends(d, j) ELSE HandoffFails(d, j)

HandoffCancelled(d) ==
  [d EXCEPT !.surface.accepting = ~d.surface.failed /\ HasControl(d),
            !.surface.status = IF d.surface.failed THEN "error" ELSE d.lines[d.surface.stream].mode]

\* The client forgets the numbering of any stream that is closed, the surface its own.
Closed(d, event) ==
  LET e == [d EXCEPT !.lines[event.stream].next = 0]
  IN IF d.surface.stream # event.stream \/ ~d.surface.shown THEN e
     ELSE Shows([e EXCEPT !.surface.accepting = FALSE, !.surface.stream = Nothing],
                IF event.id = 0 THEN "error" ELSE "external")

\* The events of a stream that is not the current one are not for the surface.
Heard(d, event) ==
  IF event.kind = "closed" THEN Closed(d, event)
  ELSE IF d.surface.stream # event.stream \/ ~d.surface.shown THEN d
  ELSE IF event.kind = "cancelled" THEN HandoffCancelled(d)
  ELSE Begins(Shows(d, "handoff"),
              [NewJob("handoff", FALSE, FALSE) EXCEPT !.stream = event.stream, !.id = event.id])

Receive ==
  /\ wire # <<>> /\ wire' = Tail(wire)
  /\ LET event == Head(wire)
     IN Becomes(CASE event.kind = "input" -> InputAnswered(Desk, event)
                  [] event.kind \in {"control", "takeover"} -> ControlAnswered(Desk, event)
                  [] event.kind = "observe" -> ObserveAnswered(Desk, event)
                  [] event.kind = "release" -> ReleaseAnswered(Desk, event.stream)
                  [] event.kind = "ready" -> ReadyAnswered(Desk, event)
                  [] OTHER -> Heard(Desk, event))
  /\ UNCHANGED <<host, typed, applied>>

Unchanged == UNCHANGED <<wire, host, applied>>

\* queueInput()
Type ==
  /\ surface.shown /\ surface.accepting /\ HasControl(Desk) /\ Len(typed) < MaxKeys
  /\ typed' = Append(typed, surface.stream)
  /\ Becomes([Desk EXCEPT !.surface.buffer = Append(@, Len(typed) + 1)])
  /\ Unchanged

\* The timer of the buffer.
FlushTimer ==
  /\ surface.shown /\ surface.buffer # <<>> /\ Becomes(Flushed(Desk))
  /\ Unchanged /\ UNCHANGED typed

Again == [Desk EXCEPT !.surface.updates = @ + 1]

\* The buttons: Take control, Reconnect, Release.
Press ==
  /\ surface.shown /\ surface.updates < MaxUpdates
  /\ \/ surface.status = "observe" /\ Becomes(Attaches(Again, TRUE, FALSE))
     \/ surface.status \in {"closed", "error", "external"} /\ Becomes(Attaches(Again, FALSE, TRUE))
     \/ surface.status = "control" /\ Becomes(Begins(Again, NewJob("release", FALSE, FALSE)))
  /\ Unchanged /\ UNCHANGED typed

\* Anything about the session changes: onAttach is another function, and the effect
\* attaches again.
SessionUpdated ==
  /\ surface.shown /\ surface.updates < MaxUpdates
  /\ Becomes(Attaches(Again, FALSE, FALSE))
  /\ Unchanged /\ UNCHANGED typed

\* The surface is unmounted.
Close ==
  /\ surface.shown
  /\ Becomes(Begins([Desk EXCEPT !.surface.shown = FALSE], NewJob("leave", FALSE, TRUE)))
  /\ Unchanged /\ UNCHANGED typed

--------------------------------------------------------------------------------
(* The Engine, as src/ relies on it: the input of the controlling stream is taken  *)
(* in its numbering, and a handoff is granted for the input that was taken.        *)

Writes(events) == wire' = wire \o events
Event(kind, s, seq, id, ok) == [kind |-> kind, stream |-> s, seq |-> seq, id |-> id, ok |-> ok]

ReadsInput(call) ==
  LET s == call.stream
      good == host.controller = s /\ call.seq = host.next[s]
      taken == [host EXCEPT !.next[s] = @ + 1]
      text == lines[s].chunks[lines[s].done + 1]
  IN \/ /\ good /\ host' = taken /\ applied' = applied \o text
        /\ Writes(<<Event("input", s, taken.next[s], 0, TRUE)>>)
     \/ /\ good /\ host.breaks > 0 /\ host' = [taken EXCEPT !.breaks = @ - 1]
        /\ applied' = applied \o text /\ Writes(<<Event("input", s, 0, 0, FALSE)>>)
     \/ /\ good => host.breaks > 0
        /\ host' = IF good THEN [host EXCEPT !.breaks = @ - 1] ELSE host
        /\ Writes(<<Event("input", s, 0, 0, FALSE)>>) /\ UNCHANGED applied

\* Control is given to whom asks first, or takes over from another window.
ReadsAttach(kind) ==
  LET s == host.opened + 1
      due == kind = "observe" \/ host.controller = Nothing
      may == due \/ (kind = "takeover" /\ host.controller = Other)
      opened == [host EXCEPT !.opened = s, !.open = @ \union {s},
                             !.controller = IF kind = "observe" THEN @ ELSE s]
  IN \/ /\ s \in Streams /\ may
        /\ host' = opened /\ Writes(<<Event(kind, s, 1, 0, TRUE)>>)
     \/ /\ s \in Streams /\ due => host.breaks > 0
        /\ host' = IF s \in Streams /\ due THEN [host EXCEPT !.breaks = @ - 1] ELSE host
        /\ Writes(<<Event(kind, Nothing, 0, 0, FALSE)>>)

Lets(h, s) == [h EXCEPT !.open = @ \ {s}, !.controller = IF @ = s THEN Nothing ELSE @,
                        !.handoff = IF h.controller = s THEN 0 ELSE @]

ReadsReady(call) ==
  LET s == call.stream
      h == [host EXCEPT !.unread = IF call.id = host.asked THEN 0 ELSE @]
  IN IF host.controller = s /\ host.handoff = call.id /\ call.seq = host.next[s] - 1
     THEN /\ host' = [Lets(h, s) EXCEPT !.controller = Other, !.given = @ \union {s}]
          /\ Writes(<<Event("ready", s, 0, call.id, TRUE), Event("closed", s, 0, call.id, TRUE)>>)
     ELSE host' = h /\ Writes(<<Event("ready", s, 0, call.id, FALSE)>>)

EngineReads ==
  /\ calls # <<>> /\ calls' = Tail(calls)
  /\ LET call == Head(calls)
     IN CASE call.kind = "input" -> ReadsInput(call)
          [] call.kind \in {"control", "takeover", "observe"} -> ReadsAttach(call.kind) /\ UNCHANGED applied
          [] call.kind = "ready" -> ReadsReady(call) /\ UNCHANGED applied
          [] call.kind = "release" -> /\ host' = Lets(host, call.stream)
                                      /\ Writes(<<Event("release", call.stream, 0, 0, TRUE)>>)
                                      /\ UNCHANGED applied
  /\ UNCHANGED <<surface, lines, jobs, typed>>

\* What the Engine does by itself; another window wants control, gives up, or lets go.
EngineActs ==
  /\ \/ /\ host.controller \in host.open /\ host.handoff = 0 /\ host.asked < MaxHandoffs
        /\ Overlapping \/ host.unread = 0
        /\ host' = [host EXCEPT !.handoff = host.asked + 1, !.asked = @ + 1, !.unread = host.asked + 1]
        /\ Writes(<<Event("requested", host.controller, 0, host.asked + 1, TRUE)>>)
     \/ /\ host.handoff # 0 /\ host' = [host EXCEPT !.handoff = 0]
        /\ Writes(<<Event("cancelled", host.controller, 0, host.handoff, TRUE)>>)
     \/ /\ host.controller = Other /\ host' = [host EXCEPT !.controller = Nothing] /\ UNCHANGED wire
     \/ \E s \in host.open :
          /\ host.breaks > 0 /\ host' = [Lets(host, s) EXCEPT !.breaks = @ - 1]
          /\ Writes(<<Event("closed", s, 0, 0, TRUE)>>)
  /\ UNCHANGED <<surface, lines, jobs, calls, typed, applied>>

NextTerminal ==
  \/ Type \/ FlushTimer \/ Press \/ SessionUpdated \/ Close \/ Receive
  \/ EngineReads \/ EngineActs

SpecTerminal == InitTerminal /\ [][NextTerminal]_terminalVars

--------------------------------------------------------------------------------
\* Control goes to another window only after the surface has stopped taking keys, and
\* all those it took have reached the terminal, in the order they were typed.
HandoffIsExact ==
  /\ \A k \in DOMAIN typed : typed[k] \in host.given => k \in Range(applied)
  /\ \A i, k \in DOMAIN applied : i < k => applied[i] < applied[k]

\* When nothing is under way, a stream that controls the terminal is the one a shown
\* surface has ("a renderer close cannot leave a hidden controller behind").
NoHiddenController ==
  jobs = <<>> /\ calls = <<>> /\ wire = <<>> /\ host.controller \in host.open
    => surface.shown /\ host.controller = surface.stream
================================================================================
