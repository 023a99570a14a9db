------------------------------- MODULE EventAcks -------------------------------
(* Acknowledging applied events (src/client.ts): HaraClient tells Serve, in the  *)
(* background, how far it has applied the ordered stream, and once more before   *)
(* it asks Serve to shut down. One step is one callback of the browser with the  *)
(* promise continuations it runs. Serve answers acknowledgements in any order;   *)
(* a call keeps its id only while it is pending, so that ids stay few.           *)
EXTENDS Integers, Sequences, FiniteSetsExt, SequencesExt

CONSTANTS
  BatchSize,    \* EVENT_ACK_BATCH_SIZE
  MaxEvents,    \* bound: events of the stream
  MaxFaults     \* bound: refused calls and timeouts

ASSUME AcksAssumption ==
  /\ BatchSize \in Nat \ {0}
  /\ MaxEvents \in Nat /\ MaxEvents >= 2
  /\ MaxFaults \in Nat

VARIABLES
  client,     \* the acknowledgement state of one HaraClient
  shutdown,   \* HaraClient.shutdownServer: how far it has come
  through,    \* the cursor when shutdownServer was called
  acked,      \* Serve: the highest acknowledged sequence
  faults      \* how much of MaxFaults is used

vars == <<client, shutdown, through, acked, faults>>

None == 0
Shutdowns == {"idle", "flushing", "asked", "closing", "done", "failed"}

--------------------------------------------------------------------------------
(* flushEventAcks and scheduleEventAck, as functions of the client's state. A    *)
(* call of events.ack is [id, upTo, by, waiting]; `by` tells the background from *)
(* shutdownServer, `waiting` are the flushes that await the call, in the order   *)
(* in which they came and by whom they were made.                                *)

\* The second half of flushEventAcks, for flushes that reach it one after the other:
\* each acknowledges the cursor as it is now, none looks for a call already made.
SendAck(c, flushes) ==
  LET last == Max({0} \cup {call.id : call \in c.calls}) IN
  IF ~c.open \/ c.cursor <= c.lastAcked \/ flushes = <<>> THEN c
  ELSE [c EXCEPT !.calls = @ \cup {[id |-> last + i, upTo |-> c.cursor, by |-> flushes[i],
                                    waiting |-> <<>>] : i \in DOMAIN flushes},
                 !.inFlight = last + Len(flushes)]

\* A flush that finds a call in flight awaits it
Awaits(call, by) == [call EXCEPT !.waiting = Append(@, by)]

Flush(c, by) ==
  LET quiet == [c EXCEPT !.timer = FALSE] IN
  IF c.inFlight = None THEN SendAck(quiet, <<by>>)
  ELSE [quiet EXCEPT !.calls = {IF call.id = c.inFlight THEN Awaits(call, by) ELSE call : call \in @}]

\* mutant of Schedule: nothing asks whether the socket is still there
ScheduleBlindly(c) ==
  IF c.delivered >= BatchSize THEN Flush(c, "background") ELSE [c EXCEPT !.timer = TRUE]

Schedule(c) ==
  IF ~c.open THEN c
  ELSE IF c.delivered >= BatchSize THEN Flush(c, "background")
  ELSE [c EXCEPT !.timer = TRUE]

\* mutant of Acknowledged: Serve may know of more than this client has applied
AcknowledgedNegative(c, sequence) ==
  LET last == Max({c.lastAcked, sequence}) IN
  [c EXCEPT !.lastAcked = last, !.delivered = c.cursor - last]

\* events.ack has answered: Serve acknowledges `sequence`
Acknowledged(c, sequence) ==
  LET last == Max({c.lastAcked, sequence}) IN
  [c EXCEPT !.lastAcked = last, !.delivered = Max({0, c.cursor - last})]

\* mutant of Finally: a failed acknowledgement is not scheduled again
FinallyForgets(c, call) ==
  [c EXCEPT !.calls = @ \ {call}, !.inFlight = IF @ = call.id THEN None ELSE @]

\* The finally of the flush that made the call
Finally(c, call) ==
  LET over == [c EXCEPT !.calls = @ \ {call},
                        !.inFlight = IF @ = call.id THEN None ELSE @]
  IN IF over.cursor > over.lastAcked THEN Schedule(over) ELSE over

\* mutant of Resumed: a flush that has waited takes the earlier call for its own
ResumedDone(c, call) == c

\* The flushes that waited for the call go on
Resumed(c, call) == SendAck(c, call.waiting)

AckSettles(c, call) == Resumed(Finally(c, call), call)

\* shutdownServer's own flush has something left to wait for
Flushing(c) ==
  \E call \in c.calls : call.by = "shutdown" \/ "shutdown" \in Range(call.waiting)

--------------------------------------------------------------------------------

Init ==
  /\ acked \in 0..2
  /\ \E cursor \in 0..1 :
       client = [open |-> TRUE, synced |-> FALSE, cursor |-> cursor, lastAcked |-> 0, delivered |-> 0,
                 timer |-> FALSE, calls |-> {}, inFlight |-> None]
  /\ shutdown = "idle"
  /\ through = 0
  /\ faults = 0

\* drainEventFrames delivers one event; the rejection of a call drains after the
\* socket has closed, too.
Deliver ==
  /\ client.cursor < MaxEvents
  /\ client' = Schedule([client EXCEPT !.cursor = @ + 1, !.delivered = @ + 1])
  /\ UNCHANGED <<shutdown, through, acked, faults>>

\* synchronizeEventSnapshot, which App.connect calls once, moves the cursor
ApplySnapshot ==
  /\ client.open
  /\ ~client.synced
  /\ \E sequence \in client.cursor .. MaxEvents :
       client' = Schedule([client EXCEPT !.synced = TRUE, !.cursor = sequence,
                                         !.delivered = @ + (sequence - client.cursor)])
  /\ UNCHANGED <<shutdown, through, acked, faults>>

TimerFires ==
  /\ client.timer
  /\ client' = Flush(client, "background")
  /\ UNCHANGED <<shutdown, through, acked, faults>>

\* mutant of AskWhenFlushed: only the answer to a call of its own lets shutdownServer go on
AskWhenAnswered ==
  shutdown' = IF shutdown = "flushing" /\ ~Flushing(client')
                 /\ \E call \in client.calls : call.by = "shutdown"
              THEN "asked" ELSE shutdown

\* Once its flush is over, well or badly, shutdownServer asks Serve to exit
AskWhenFlushed ==
  shutdown' = IF shutdown = "flushing" /\ ~Flushing(client') THEN "asked" ELSE shutdown

AckAnswered ==
  /\ \E call \in client.calls :
       /\ acked' = Max({acked, call.upTo})
       /\ client' = AckSettles(Acknowledged(client, acked'), call)
  /\ AskWhenFlushed
  /\ UNCHANGED <<through, faults>>

AckFails ==
  /\ faults < MaxFaults
  /\ faults' = faults + 1
  /\ \E call \in client.calls : client' = AckSettles(client, call)
  /\ AskWhenFlushed
  /\ UNCHANGED <<through, acked>>

ShutdownServer ==
  /\ shutdown = "idle"
  /\ client.open
  /\ client' = Flush(client, "shutdown")
  /\ through' = client.cursor
  /\ shutdown' = IF Flushing(client') THEN "flushing" ELSE "asked"
  /\ UNCHANGED <<acked, faults>>

\* server.shutdown is answered: accepted, refused, or an error
ShutdownAnswered ==
  /\ shutdown = "asked"
  /\ \/ shutdown' = "closing" /\ UNCHANGED faults
     \/ faults < MaxFaults /\ faults' = faults + 1 /\ shutdown' = "failed"
  /\ UNCHANGED <<client, through, acked>>

\* waitForClose gives up after its four seconds
CloseTimesOut ==
  /\ shutdown = "closing"
  /\ faults < MaxFaults
  /\ faults' = faults + 1
  /\ shutdown' = "failed"
  /\ UNCHANGED <<client, through, acked>>

\* The socket closes: every pending call is rejected, every flush ends without a
\* call, and a shutdownServer that has not reached waitForClose fails.
SocketCloses ==
  /\ client.open
  /\ client' = [client EXCEPT !.open = FALSE, !.timer = FALSE, !.calls = {},
                              !.inFlight = None]
  /\ shutdown' = CASE shutdown = "closing" -> "done"
                   [] shutdown \in {"flushing", "asked"} -> "failed"
                   [] OTHER -> shutdown
  /\ UNCHANGED <<through, acked, faults>>

Next ==
  \/ Deliver \/ ApplySnapshot \/ TimerFires \/ AckAnswered \/ AckFails
  \/ ShutdownServer \/ ShutdownAnswered \/ CloseTimesOut \/ SocketCloses

Spec == Init /\ [][Next]_vars

\* The browser fires its timers and a live Serve answers; nothing else is owed.
FairSpec == Spec /\ WF_vars(TimerFires) /\ WF_vars(AckAnswered) /\ WF_vars(ShutdownAnswered)

--------------------------------------------------------------------------------
(* Properties *)

Makers == {"background", "shutdown"}
Call == [id : Nat \ {None}, upTo : 0..MaxEvents, by : Makers, waiting : Seq(Makers)]
Client ==
  [open : BOOLEAN, synced : BOOLEAN, cursor : 0..MaxEvents, lastAcked : 0..MaxEvents,
   delivered : 0..MaxEvents, timer : BOOLEAN, calls : SUBSET Call, inFlight : Nat]

\* Every variable keeps its type, and the call in flight is one of the calls.
AcksTypeOK ==
  /\ client \in Client
  /\ client.inFlight \in {None} \cup {call.id : call \in client.calls}
  /\ shutdown \in Shutdowns
  /\ through \in 0..MaxEvents
  /\ acked \in 0..MaxEvents
  /\ faults \in 0..MaxFaults

\* An applied event is never forgotten: while the connection stands, a timer or a
\* call in flight will acknowledge what Serve is not known to have seen acknowledged
\* (scheduleEventAck, and the finally of flushEventAcks).
AckIsComing ==
  client.open /\ client.delivered > 0 /\ client.cursor > client.lastAcked =>
    client.timer \/ client.inFlight # None

\* A closed client is quiet: no timer runs and no flush waits, even when the
\* rejection of a call delivers events after the close (ws.onclose).
ClosedIsQuiet == ~client.open => ~client.timer /\ client.inFlight = None /\ ~Flushing(client)

\* When shutdownServer goes on after a flush that did not fail, Serve knows of every
\* event applied when it was called ("Used before an engine handoff").
ShutdownIsAcked ==
  [][shutdown # "asked" /\ shutdown' = "asked" /\ faults' = faults => acked' >= through']_vars

\* Every event delivered is acknowledged, if the connection stands.
EveryEventAcked ==
  \A n \in 1..MaxEvents :
    client.open /\ client.delivered > 0 /\ client.cursor = n
      ~> client.lastAcked >= n \/ ~client.open

\* shutdownServer does not wait for an acknowledgement for ever.
ShutdownProceeds == shutdown = "flushing" ~> shutdown # "flushing"

================================================================================
