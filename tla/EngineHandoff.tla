------------------------------ MODULE EngineHandoff ------------------------------
(* The Engine as a process: how Desktop starts `hara serve`, restarts it, and       *)
(* retires it before an update is installed (App.tsx startServer, connect,          *)
(* restartBundledEngine, restartForUpdate; desktop-update.js; lib.rs start_serve    *)
(* and retire_discovered_serve_at).                                                 *)
(*                                                                                  *)
(* Three flows run in the renderer, each a program of its own with awaits between   *)
(* its steps: the restart, the update, and a start that the user asks for. They     *)
(* meet in the discovery file, in the client and in the phase. An Engine process    *)
(* is a number in the order of their starts; the user may start one in a terminal.  *)
EXTENDS Naturals

CONSTANT MaxServes      \* bound on the Engine processes

ASSUME EngineHandoffAssumption == MaxServes \in Nat \ {0}

VARIABLES
  serve,      \* the Engine processes
  discovery,  \* the process that the discovery file names, or 0
  client,     \* the process that clientRef is connected to, or 0
  phase,      \* the phase of the renderer
  planned,    \* plannedUpdateRestartRef
  conn,       \* the latest connect(): its step, expectedPid and discovered process
  pc,         \* where a flow is
  raw,        \* the record that a flow has read in order to retire it
  pid,        \* the process that a flow has shut down, or has started
  after,      \* what a flow does once the native side has retired a process
  retired,    \* engineRetired of restartForUpdate
  old,        \* the first process is an Engine without server.shutdown
  package,    \* the downloaded update
  installs,   \* history: the installations of it
  unlinked,   \* history: processes whose record the native side removed
  raced,      \* history: processes that wrote their record just before a removal
  ours        \* history: processes that these flows have started

engine == <<serve, discovery>>
renderer == <<client, phase, planned, conn>>
flows == <<pc, raw, pid, after, retired>>
history == <<installs, unlinked, raced, ours>>
handoffVars == <<engine, renderer, flows, package, old, history>>

Serves == 1..MaxServes
Flows == {"restart", "update", "user"}
Steps == {"off", "shutdown", "closing", "retiring", "installing", "relaunching",
          "inspecting", "reading", "signalling", "killed", "rechecking", "removing",
          "spawning", "polling", "connecting"}

HandoffTypeOK ==
  /\ serve \in [Serves -> {"off", "starting", "serving", "stopping", "dead"}]
  /\ discovery \in 0..MaxServes /\ client \in 0..MaxServes
  /\ phase \in {"connecting", "ready", "no-server", "lost", "gone"} /\ planned \in BOOLEAN
  /\ conn \in [step: {"off", "reading", "opening", "initializing"},
               expected: 0..MaxServes, target: 0..MaxServes]
  /\ pc \in [Flows -> Steps]
  /\ raw \in [Flows -> 0..MaxServes] /\ pid \in [Flows -> 0..MaxServes]
  /\ after \in [Flows -> {"retiring", "spawning"}]
  /\ retired \in BOOLEAN
  /\ package \in {"downloaded", "installed"}
  /\ old \in BOOLEAN
  /\ installs \in Nat /\ unlinked \subseteq Serves /\ raced \subseteq Serves /\ ours \subseteq Serves

--------------------------------------------------------------------------------
Alive(s) == s # 0 /\ serve[s] \in {"starting", "serving", "stopping"}
\* read_discovery: the record of a process that lives.
Discovered == IF Alive(discovery) THEN discovery ELSE 0

Idle == [step |-> "off", expected |-> 0, target |-> 0]

InitHandoff ==
  /\ serve = [s \in Serves |-> IF s = 1 THEN "serving" ELSE "off"]
  /\ discovery = 1 /\ client = 1 /\ phase = "ready" /\ planned = FALSE
  /\ conn = Idle
  /\ pc = [f \in Flows |-> "off"]
  /\ raw = [f \in Flows |-> 0] /\ pid = [f \in Flows |-> 0]
  /\ after = [f \in Flows |-> "spawning"]
  /\ retired = FALSE /\ package = "downloaded" /\ old \in BOOLEAN
  /\ installs = 0 /\ unlinked = {} /\ raced = {} /\ ours = {}

--------------------------------------------------------------------------------
(* The Engine, external. It writes its record when it is up, and takes it away, if  *)
(* it is still its own, when it stops in an orderly way.                            *)

Begin(s) == serve[s] = "off" /\ \A x \in 1..(s - 1) : serve[x] # "off"
Terminal(s) ==
  /\ Begin(s) /\ serve' = [serve EXCEPT ![s] = "starting"]
  /\ UNCHANGED <<discovery, renderer, flows, package, old, history>>
Up(s) ==
  /\ serve[s] = "starting"
  /\ serve' = [serve EXCEPT ![s] = "serving"] /\ discovery' = s
  /\ raced' = IF \E f \in Flows : pc[f] = "removing" THEN raced \cup {s} ELSE raced
  /\ UNCHANGED <<renderer, flows, package, old, installs, unlinked, ours>>
Withdraw(s) ==
  /\ serve[s] = "stopping" /\ discovery = s
  /\ discovery' = 0
  /\ UNCHANGED <<serve, renderer, flows, package, old, history>>
Die(s) ==
  /\ Alive(s) /\ serve' = [serve EXCEPT ![s] = "dead"]
  /\ UNCHANGED <<discovery, renderer, flows, package, old, history>>

--------------------------------------------------------------------------------
(* The connection. *)

\* onClose: a close that was planned leaves the phase as it is.
OnClose ==
  /\ client # 0 /\ serve[client] # "serving"
  /\ client' = 0 /\ phase' = IF planned THEN phase ELSE "lost"
  /\ UNCHANGED <<engine, planned, conn, flows, package, old, history>>

\* connect(expectedPid): earlier calls are stale from here on, and the client is closed.
Connects(expected) ==
  /\ conn' = [step |-> "reading", expected |-> expected, target |-> 0]
  /\ client' = 0 /\ phase' = "connecting"
Retry ==
  /\ phase \in {"no-server", "lost"}
  /\ Connects(0)
  /\ UNCHANGED <<engine, planned, flows, package, old, history>>
ConnectReads ==
  /\ conn.step = "reading"
  /\ IF Discovered = 0 \/ (conn.expected # 0 /\ Discovered # conn.expected)
       THEN conn' = Idle /\ phase' = "no-server"
       ELSE conn' = [conn EXCEPT !.step = "opening", !.target = Discovered]
            /\ UNCHANGED phase
  /\ UNCHANGED <<engine, client, planned, flows, package, old, history>>
ConnectOpens ==
  /\ conn.step = "opening"
  /\ IF serve[conn.target] = "serving"
       THEN conn' = [conn EXCEPT !.step = "initializing"] /\ client' = conn.target
            /\ UNCHANGED phase
       ELSE conn' = Idle /\ phase' = "no-server"
            /\ UNCHANGED client
  /\ UNCHANGED <<engine, planned, flows, package, old, history>>
\* initialize, the session list and the snapshot; a lost connection fails them.
ConnectEnds ==
  /\ conn.step = "initializing"
  /\ \/ client = conn.target /\ serve[client] = "serving" /\ phase' = "ready"
        /\ UNCHANGED client
     \/ client # conn.target /\ phase' = "no-server" /\ UNCHANGED client
  /\ conn' = Idle
  /\ UNCHANGED <<engine, planned, flows, package, old, history>>

--------------------------------------------------------------------------------
(* What the flows have in common. *)

At(f, step) == pc[f] = step
Goto(f, step) == pc' = [pc EXCEPT ![f] = step]

\* startServer begins with start_serve, which recovers what is discovered.
StartSteps == {"inspecting", "reading", "signalling", "killed", "rechecking", "removing",
               "spawning", "polling", "connecting"}
Starting(f) == pc[f] \in StartSteps /\ after[f] = "spawning"
\* The end of a flow; the restart's finally forgets that it was planned.
Ends(f) ==
  /\ Goto(f, "off") /\ planned' = (planned /\ f # "restart")
  /\ raw' = [raw EXCEPT ![f] = 0] /\ pid' = [pid EXCEPT ![f] = 0]
\* An error before or after the retirement. The update restores the Engine that it has
\* retired; a failed start shows its page.
Fails(f) ==
  IF Starting(f)
    THEN Ends(f) /\ phase' = "no-server" /\ UNCHANGED after
    ELSE /\ planned' = FALSE
         /\ Goto(f, IF f = "update" /\ retired THEN "inspecting" ELSE "off")
         /\ after' = [after EXCEPT ![f] = "spawning"]
         /\ raw' = [raw EXCEPT ![f] = 0] /\ pid' = [pid EXCEPT ![f] = 0]
         /\ UNCHANGED phase

\* A flow asks the Engine it is connected to to stop, or closes the client and lets the
\* native side stop an old one.
Retires(f) ==
  /\ planned' = TRUE
  /\ pid' = [pid EXCEPT ![f] = client]
  /\ IF old /\ client = 1
       THEN Goto(f, "reading") /\ client' = 0 /\ after' = [after EXCEPT ![f] = "retiring"]
       ELSE Goto(f, "shutdown") /\ UNCHANGED <<client, after>>
RestartEngine ==
  /\ phase = "ready" /\ At("restart", "off") /\ client # 0
  /\ Retires("restart")
  /\ UNCHANGED <<engine, phase, conn, raw, retired, package, old, history>>
\* Without a client there must be no Engine.
RestartForUpdate ==
  /\ phase = "ready" /\ At("update", "off")
  /\ retired' = FALSE
  /\ \/ client # 0 /\ Retires("update")
     \/ /\ client = 0 /\ Discovered = 0
        /\ planned' = TRUE /\ pid' = [pid EXCEPT !["update"] = 0]
        /\ Goto("update", "retiring") /\ UNCHANGED <<client, after>>
  /\ UNCHANGED <<engine, phase, conn, raw, package, old, history>>
UserStarts ==
  /\ phase \in {"no-server", "lost"} /\ At("user", "off")
  /\ Goto("user", "inspecting")
  /\ UNCHANGED <<engine, renderer, raw, pid, after, retired, package, old, history>>

\* server.shutdown: accepted, or refused by an Engine that is busy or gone.
ShutdownAccepted(f) ==
  /\ At(f, "shutdown") /\ serve[pid[f]] \in {"serving", "stopping"}
  /\ serve' = [serve EXCEPT ![pid[f]] = "stopping"]
  /\ Goto(f, "closing")
  /\ UNCHANGED <<discovery, renderer, raw, pid, after, retired, package, old, history>>
\* waitForClose, for four seconds.
Closed(f) ==
  /\ At(f, "closing") /\ client # pid[f]
  /\ Goto(f, "retiring")
  /\ UNCHANGED <<engine, renderer, raw, pid, after, retired, package, old, history>>
\* waitForDiscoveryRetirement, for four seconds. Then the restart starts, and the update
\* is installed unless it is (applyDesktopUpdateHandoff).
\* Mutant of Barrier: nobody waits for the record to go.
NoBarrier == TRUE
Barrier == Discovered = 0
RetirementSeen(f) ==
  /\ At(f, "retiring") /\ Barrier
  /\ Goto(f, CASE f = "restart" -> "inspecting"
               [] f = "update" /\ package = "downloaded" -> "installing"
               [] OTHER -> "relaunching")
  /\ after' = [after EXCEPT ![f] = "spawning"]
  /\ retired' = (retired \/ f = "update")
  /\ UNCHANGED <<engine, renderer, raw, pid, package, old, history>>
\* An answer that refuses, and the two waits that time out.
GivesUp(f) ==
  /\ \/ At(f, "shutdown") \/ At(f, "closing")
     \/ At(f, "retiring") /\ Discovered # 0
  /\ Fails(f)
  /\ UNCHANGED <<engine, client, conn, retired, package, old, history>>

Installed ==
  /\ At("update", "installing")
  /\ package' = "installed" /\ installs' = installs + 1
  /\ Goto("update", "relaunching")
  /\ UNCHANGED <<engine, renderer, raw, pid, after, retired, old, unlinked, raced, ours>>
\* restart_after_update: this process is replaced.
Relaunched ==
  /\ At("update", "relaunching")
  /\ phase' = "gone" /\ client' = 0 /\ conn' = Idle
  /\ pc' = [f \in Flows |-> "off"]
  /\ UNCHANGED <<engine, planned, raw, pid, after, retired, package, old, history>>
HandoffFails ==
  /\ At("update", "installing") \/ At("update", "relaunching")
  /\ Fails("update")
  /\ UNCHANGED <<engine, client, conn, retired, package, old, history>>

--------------------------------------------------------------------------------
(* The native side. *)

\* recover_discovered_serve_before_start, of a start: is there a record at all?
InspectRecord(f) ==
  /\ At(f, "inspecting")
  /\ Goto(f, IF discovery = 0 THEN "spawning" ELSE "reading")
  /\ UNCHANGED <<engine, renderer, raw, pid, after, retired, package, old, history>>

\* retire_discovered_serve_at opens the record, if it is still there; the caller of
\* terminate_legacy_serve must mean the same process.
ReadRecord(f) ==
  /\ At(f, "reading")
  /\ IF discovery # 0 /\ (after[f] = "retiring" => discovery = pid[f])
       THEN /\ raw' = [raw EXCEPT ![f] = discovery]
            /\ Goto(f, "signalling")
            /\ UNCHANGED <<pid, phase, planned, after>>
       ELSE Fails(f)
  /\ UNCHANGED <<engine, client, conn, retired, package, old, history>>
\* It stops the process, if it lives. One that is not a Hara of Desktop's, or is gone by
\* then, cannot be stopped.
StopProcess(f) ==
  /\ At(f, "signalling")
  /\ \/ /\ serve' = [serve EXCEPT ![raw[f]] = IF Alive(raw[f]) THEN "stopping" ELSE @]
        /\ Goto(f, "killed")
        /\ UNCHANGED <<raw, pid, phase, planned, after>>
     \/ Fails(f) /\ UNCHANGED serve
  /\ UNCHANGED <<discovery, client, conn, retired, package, old, history>>

\* The process is retired: the caller goes on.
Retired(f) ==
  /\ Goto(f, after[f]) /\ raw' = [raw EXCEPT ![f] = 0]
  /\ UNCHANGED <<pid, phase, planned, after>>
\* The process has stopped: is its record still there?
RecheckRecord(f) ==
  /\ At(f, "killed") /\ ~Alive(raw[f])
  /\ IF discovery = 0 THEN Retired(f)
     ELSE Goto(f, "rechecking") /\ UNCHANGED <<raw, pid, phase, planned, after>>
  /\ UNCHANGED <<engine, client, conn, retired, package, old, history>>
\* It is read again, and must be the one that was opened.
\* Mutant of SameRecord: whatever is there is removed.
AnyRecord(f) == TRUE
SameRecord(f) == discovery = raw[f]
CompareRecord(f) ==
  /\ At(f, "rechecking")
  /\ IF SameRecord(f)
       THEN Goto(f, "removing") /\ UNCHANGED <<raw, pid, phase, planned, after>>
       ELSE Fails(f)
  /\ UNCHANGED <<engine, client, conn, retired, package, old, history>>
\* The file is removed, whatever it holds by now.
RemoveRecord(f) ==
  /\ At(f, "removing")
  /\ IF discovery # 0
       THEN discovery' = 0 /\ unlinked' = unlinked \cup {discovery} /\ Retired(f)
       ELSE Fails(f) /\ UNCHANGED <<discovery, unlinked>>
  /\ UNCHANGED <<serve, client, conn, retired, package, old, installs, raced, ours>>
\* It has not stopped within five seconds.
StopTimesOut(f) ==
  /\ At(f, "killed") /\ Alive(raw[f])
  /\ Fails(f)
  /\ UNCHANGED <<engine, client, conn, retired, package, old, history>>

\* start_serve starts the process, and the renderer looks for its record, twelve times.
Spawn(f, s) ==
  /\ At(f, "spawning") /\ Begin(s)
  /\ serve' = [serve EXCEPT ![s] = "starting"] /\ ours' = ours \cup {s}
  /\ pid' = [pid EXCEPT ![f] = s]
  /\ phase' = "connecting"
  /\ Goto(f, "polling")
  /\ UNCHANGED <<discovery, client, planned, conn, raw, after, retired, package, old,
                 installs, unlinked, raced>>
PollFinds(f) ==
  /\ At(f, "polling") /\ Discovered = pid[f]
  /\ Connects(pid[f])
  /\ Goto(f, "connecting")
  /\ UNCHANGED <<engine, planned, raw, pid, after, retired, package, old, history>>
PollGivesUp(f) ==
  /\ At(f, "polling")
  /\ Fails(f)
  /\ UNCHANGED <<engine, client, conn, retired, package, old, history>>
StartEnds(f) ==
  /\ At(f, "connecting") /\ (conn.step = "off" \/ conn.expected # pid[f])
  /\ Ends(f)
  /\ UNCHANGED <<engine, client, phase, conn, after, retired, package, old, history>>

NextHandoff ==
  \/ \E s \in Serves :
       \/ Terminal(s) \/ Up(s) \/ Withdraw(s) \/ Die(s)
       \/ \E f \in Flows : Spawn(f, s)
  \/ OnClose \/ Retry \/ ConnectReads \/ ConnectOpens \/ ConnectEnds
  \/ RestartEngine \/ RestartForUpdate \/ UserStarts
  \/ Installed \/ Relaunched \/ HandoffFails
  \/ \E f \in Flows :
       \/ ShutdownAccepted(f) \/ Closed(f) \/ RetirementSeen(f) \/ GivesUp(f)
       \/ InspectRecord(f) \/ ReadRecord(f) \/ StopProcess(f) \/ StopTimesOut(f)
       \/ RecheckRecord(f) \/ CompareRecord(f) \/ RemoveRecord(f)
       \/ PollFinds(f) \/ PollGivesUp(f) \/ StartEnds(f)

SpecHandoff == InitHandoff /\ [][NextHandoff]_handoffVars

--------------------------------------------------------------------------------
(* Properties. *)

\* An Engine loses its record only if it writes it between the last comparison and the
\* removal of the file: a record that was there when it was compared, or is written at any
\* other time, while a flow waits for a process to stop or reads what it left, is kept,
\* however the flows, the terminal and the ends of processes overlap. For those the native
\* side keeps what it says of the record (lib.rs 2145), to "never unlink a replacement
\* instance".
RecordsAreCompared == \A s \in unlinked \ raced : serve[s] = "dead"

\* An update is installed at most once, whatever fails and is tried again, and not while
\* the Engine that the renderer was connected to when the user asked can be discovered.
InstalledOnceRetired ==
  /\ installs <= 1
  /\ pc["update"] \in {"installing", "relaunching"} /\ pid["update"] # 0 =>
       Discovered # pid["update"]

\* "After authenticated shutdown has retired the discovery record", App.tsx says of the
\* installation, because a running Engine cannot be replaced: no process that Desktop
\* itself has started since is at work while the package is installed.
NoEngineWhileInstalling ==
  pc["update"] = "installing" => \A s \in ours : serve[s] \notin {"starting", "serving"}
================================================================================
