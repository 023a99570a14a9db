------------------------------ MODULE WorkspaceCore ------------------------------
(* The start of the Workspace Core by the native side (src-tauri/src/lib.rs,      *)
(* connect_or_start_workspace). The renderer may call at any time; one call waits *)
(* for the other (WORKSPACE_START_LOCK). A Core that was started and did not show *)
(* its discovery in time is kept, so that a later call looks for it again and does *)
(* not start a second one.                                                        *)
(*                                                                                *)
(* A Core process is a number in the order of the starts. One root is modelled,   *)
(* and one process of Desktop.                                                    *)
EXTENDS Naturals, FiniteSets

CONSTANT MaxCores   \* bound on the Core processes

ASSUME CoresAssumption == MaxCores \in Nat

VARIABLES
  core,       \* the Core processes
  named,      \* the process that the discovery names, or 0
  readable,   \* the discovery can be read and is of this root
  reused,     \* processes whose id another program has after they died
  owned,      \* the retained OwnedWorkspaceStartup, or 0
  call,       \* the call that has the lock, and how far it is
  spawned     \* history: processes that Desktop started

coreVars == <<core, named, readable, reused, owned, call, spawned>>

Cores == 1..MaxCores
CoreTypeOK ==
  /\ core \in [Cores -> {"off", "starting", "serving", "stopping", "dead"}]
  /\ named \in 0..MaxCores /\ readable \in BOOLEAN
  /\ reused \subseteq Cores /\ owned \in 0..MaxCores /\ spawned \subseteq Cores
  /\ call \in {"idle", "deciding", "observing"}

--------------------------------------------------------------------------------
CoreRuns(c) == c # 0 /\ core[c] \in {"starting", "serving", "stopping"}
\* process_is_alive, and workspace_connection_at.
Lives(c) == CoreRuns(c) \/ c \in reused
Attachable == named # 0 /\ readable /\ Lives(named)
First(c) == core[c] = "off" /\ \A x \in 1..(c - 1) : core[x] # "off"

InitCore ==
  /\ core = [c \in Cores |-> "off"] /\ named = 0 /\ readable = TRUE
  /\ reused = {} /\ owned = 0 /\ spawned = {}
  /\ call = "idle"

\* A Core comes up and is discovered, or stops; a program takes the id of a dead one.
\* External: another Core, started by hand, and a discovery that cannot be read.
Manual(c) ==
  /\ First(c) /\ core' = [core EXCEPT ![c] = "starting"]
  /\ UNCHANGED <<named, readable, reused, owned, call, spawned>>
ComesUp(c) ==
  /\ core[c] = "starting" /\ ~\E x \in Cores : core[x] = "serving"
  /\ core' = [core EXCEPT ![c] = "serving"] /\ named' = c
  /\ readable' \in BOOLEAN
  /\ UNCHANGED <<reused, owned, call, spawned>>
Stops(c) ==
  /\ core[c] = "serving"
  /\ core' = [core EXCEPT ![c] = "stopping"] /\ named' = IF named = c THEN 0 ELSE named
  /\ UNCHANGED <<readable, reused, owned, call, spawned>>
Dies(c) ==
  /\ CoreRuns(c) /\ core' = [core EXCEPT ![c] = "dead"]
  /\ UNCHANGED <<named, readable, reused, owned, call, spawned>>
Reused(c) ==
  /\ core[c] = "dead" /\ reused' = reused \cup {c}
  /\ UNCHANGED <<core, named, readable, owned, call, spawned>>

--------------------------------------------------------------------------------
\* A call gets the lock.
Call ==
  /\ call = "idle"
  /\ call' = IF owned # 0 THEN "observing" ELSE "deciding"
  /\ UNCHANGED <<core, named, readable, reused, owned, spawned>>

\* What is discovered is attached, or refused when it lives or cannot be read.
Attaches ==
  /\ call = "deciding" /\ named # 0 /\ (Lives(named) \/ ~readable)
  /\ call' = "idle"
  /\ UNCHANGED <<core, named, readable, reused, owned, spawned>>
\* Nothing, or a dead Core: a new one is started and retained.
Starts(c) ==
  /\ call = "deciding" /\ (named = 0 \/ (readable /\ ~Lives(named))) /\ First(c)
  /\ core' = [core EXCEPT ![c] = "starting"]
  /\ owned' = c /\ spawned' = spawned \cup {c}
  /\ call' = "observing"
  /\ UNCHANGED <<named, readable, reused>>

\* observe_owned_workspace_start: the process has died, is discovered, or the wait ends.
SeesExit ==
  /\ call = "observing" /\ ~CoreRuns(owned)
  /\ owned' = 0 /\ call' = "idle"
  /\ UNCHANGED <<core, named, readable, reused, spawned>>
SeesDiscovery ==
  /\ call = "observing" /\ CoreRuns(owned) /\ Attachable /\ named = owned
  /\ owned' = 0 /\ call' = "idle"
  /\ UNCHANGED <<core, named, readable, reused, spawned>>
\* Mutant of WaitEnds: the start is given up.
Forgets ==
  /\ call = "observing"
  /\ owned' = 0 /\ call' = "idle"
  /\ UNCHANGED <<core, named, readable, reused, spawned>>
WaitEnds ==
  /\ call = "observing"
  /\ call' = "idle"
  /\ UNCHANGED <<core, named, readable, reused, owned, spawned>>

NextCore ==
  \/ \E c \in Cores :
       Manual(c) \/ ComesUp(c) \/ Stops(c) \/ Dies(c) \/ Reused(c) \/ Starts(c)
  \/ Call \/ Attaches \/ SeesExit \/ SeesDiscovery \/ WaitEnds

SpecCore == InitCore /\ [][NextCore]_coreVars

--------------------------------------------------------------------------------
(* Properties. *)

\* However often the renderer asks while a Core is slow to come up, Desktop has at most
\* one Core of its own that is starting or serving.
OneCore == Cardinality({c \in spawned : core[c] \in {"starting", "serving"}}) <= 1
================================================================================
