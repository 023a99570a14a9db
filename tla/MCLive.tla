--------------------------------- MODULE MCLive ---------------------------------
(* What must come about under fair scheduling: a connection attempt ends and the    *)
(* renderer catches up, over clients that are superseded (EventStream); what is      *)
(* applied is acknowledged (EventAcks); an input comes to an end (TurnQueue).       *)
(*                                                                                  *)
(* A behaviour follows one of them, chosen at the start. Fairness is the fairness of *)
(* the part that is followed.                                                       *)
EXTENDS EventAcks

CONSTANTS
  PageSize, MaxPages, MaxLog, MaxStreamFaults, MaxSuperseded,
  Inputs, Attached, BusyRetries, MaxForeign

\* Engines without numbered events, that can be resumed but not snapshotted, that can
\* be snapshotted but not resumed, and current ones.
StreamEngines == {{}, {"cursor", "replay"}, {"cursor", "snapshot"}, {"cursor", "replay", "snapshot"}}
\* Engines without durable command ids, with one lost connection and one fault.
ForgetfulWorlds == [features : {{}, {"atomic"}}, lazy : {FALSE}, loses : {FALSE}, closes : {1}, faults : {1}]

VARIABLES
  part,
  \* EventStream
  log, work, attached, requests, messages, streamClient, superseded, stored, phase, app,
  streamFaults,
  \* TurnQueue
  world, ui, calls, session, wire, budget

streamVars ==
  <<log, work, attached, requests, messages, streamClient, superseded, stored, phase, app, streamFaults>>
turnVars == <<world, ui, calls, session, wire, budget>>

Stream == INSTANCE EventStream WITH
  FeatureSets <- StreamEngines, MaxFaults <- MaxStreamFaults, serve <- log, client <- streamClient,
  faults <- streamFaults
Turns == INSTANCE TurnQueue WITH Worlds <- ForgetfulWorlds, serve <- session

\* What the parts that are not followed start with does not matter.
InitLive ==
  /\ part \in {"stream", "acks", "turns"}
  /\ Stream!Init /\ (part # "stream" => log.features = {})
  /\ Turns!Init /\ (part # "turns" => world.features = {})
  /\ Init /\ (part # "acks" => client.cursor = 0 /\ acked = 0)

StreamStep == part = "stream" /\ Stream!Next /\ UNCHANGED <<part, vars, turnVars>>
AcksStep == part = "acks" /\ Next /\ UNCHANGED <<part, streamVars, turnVars>>
TurnsStep == part = "turns" /\ Turns!Next /\ UNCHANGED <<part, streamVars, vars>>

NextLive == StreamStep \/ AcksStep \/ TurnsStep

\* Weak fairness of the actions of the FairSpec of each part, while the part is
\* followed. Where TLC is slow to find out whether an action is enabled, its guard
\* is written out: []<>~ENABLED <<A>>_v \/ []<><<A>>_v is WF_v(A).
FairStream ==
  /\ []<>~(part = "stream" /\ messages # <<>>) \/ []<><<Stream!Receipt>>_streamVars
  /\ []<>~(part = "stream" /\ (work # Stream!NoWork \/ requests # <<>>)) \/ []<><<Stream!Answer>>_streamVars
  /\ WF_streamVars(part = "stream" /\ Stream!ListAnswered)

FairAcks ==
  /\ []<>~(part = "acks" /\ client.timer) \/ []<><<TimerFires>>_vars
  /\ []<>~(part = "acks" /\ client.calls # {}) \/ []<><<AckAnswered>>_vars
  /\ WF_vars(part = "acks" /\ ShutdownAnswered)

InTurns == part = "turns"
SendsAt(where) == \E s \in ui.sends : s.at \in where
FairTurns ==
  /\ []<>~(InTurns /\ ~ui.dirty /\ SendsAt({"handoff", "pause", "recheck"})) \/ []<><<Turns!TimerFires>>_turnVars
  /\ []<>~(InTurns /\ ui.up /\ wire # <<>>) \/ []<><<Turns!Receive>>_turnVars
  /\ []<>~(InTurns /\ ui.up /\ (~ui.attached \/ SendsAt({"resume"}))) \/ []<><<Turns!Resume>>_turnVars
  /\ []<>~(InTurns /\ \E c \in calls : c.rpc = "asked") \/ []<><<Turns!ServeReads>>_turnVars
  /\ WF_turnVars(InTurns /\ Turns!Render)
  /\ WF_turnVars(InTurns /\ Turns!EndTurn)
  /\ WF_turnVars(InTurns /\ Turns!Answer)

LiveSpec ==
  /\ InitLive /\ [][NextLive]_<<part, streamVars, vars, turnVars>>
  /\ FairStream /\ FairAcks /\ FairTurns

--------------------------------------------------------------------------------
(* AcksTypeOK, ClosedIsQuiet, ShutdownIsAcked, EveryEventAcked and ShutdownProceeds  *)
(* are those of EventAcks, which hold of it while it stays as it was.                *)

\* What is waited for is still to come: no event has fallen between the cursor and the
\* live stream (EventStream), an event that was applied will be acknowledged (EventAcks),
\* and no session is busy for nothing (TurnQueue).
NothingForgotten ==
  /\ part = "stream" => Stream!NothingLost
  /\ part = "acks" => AckIsComing
  /\ part = "turns" => Turns!BusyHasReason

\* An attempt to connect ends (EventStream).
ConnectResolves == Stream!ConnectResolves

\* What Serve logged reaches a ready renderer (EventStream), and no input waits for ever
\* (TurnQueue).
CatchesUp == Stream!CatchesUp
InputSettles == Turns!InputSettles
================================================================================
