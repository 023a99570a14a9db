------------------------------ MODULE LaunchMarkers ------------------------------
(* The marker files by which one run of Desktop speaks to the next (src-tauri/    *)
(* src/lib.rs). A run marker, named by the process id, is made at launch and      *)
(* removed at a clean exit: one that a later launch finds is a run that crashed,  *)
(* and becomes a pending crash report. The update marker is made just before the  *)
(* process is replaced by an updated one: the next launch that takes it starts    *)
(* the Engine, and reports no crash.                                              *)
(*                                                                                *)
(* A run is one process of Desktop; runs are numbered in the order of their       *)
(* launch, and several may live at the same time. The operating system reuses     *)
(* process ids, for runs and for other programs. A step is a file operation, or   *)
(* the operations between which a crash makes no difference.                      *)
EXTENDS Naturals, FiniteSets

CONSTANTS
  Pids,       \* process ids
  MaxRuns     \* bound on the launches

ASSUME MarkersAssumption == MaxRuns \in Nat

VARIABLES
  run,        \* the run that a live process id belongs to, or 0
  foreign,    \* process ids that other programs have
  step,       \* where a run is
  list,       \* the marker names that a launching run has still to look at
  stale,      \* the marker that it is about to remove, or a set of none
  expected,   \* expected_update_restart of a launching run
  runMarker,  \* the run whose marker bears a process id, or 0
  pending,    \* the pending crash report: "none", "exit" or "renderer"
  updateMarker, \* the update marker is there
  armed,      \* history: the markers made for updates
  taking,     \* runs whose renderer has found it and is about to remove it
  started,    \* history: how often it was taken, and the Engine started
  crashed,    \* history: runs that crashed after they had made their marker
  told,       \* history: crashed runs that a launch has accounted for, or whose marker
              \* went with that of a run that could not be set up
  blamed      \* history: runs whose marker became an unclean_exit report

machine == <<run, foreign>>
scan == <<list, stale, expected>>
updates == <<updateMarker, armed, taking, started>>
ghosts == <<crashed, told, blamed>>
markerVars == <<machine, step, scan, runMarker, pending, updates, ghosts>>

Runs == 1..MaxRuns
RunSteps == {"unborn", "scanning", "failed", "up", "handing over", "gone"}

MarkersTypeOK ==
  /\ run \in [Pids -> 0..MaxRuns] /\ foreign \subseteq Pids
  /\ step \in [Runs -> RunSteps]
  /\ list \in [Runs -> SUBSET Pids] /\ stale \in [Runs -> SUBSET Pids]
  /\ expected \in [Runs -> BOOLEAN]
  /\ runMarker \in [Pids -> 0..MaxRuns]
  /\ pending \in {"none", "exit", "renderer"} /\ updateMarker \in BOOLEAN
  /\ armed \in 0..MaxRuns /\ taking \subseteq Runs /\ started \in Nat
  /\ crashed \subseteq Runs /\ told \subseteq Runs /\ blamed \subseteq Runs

--------------------------------------------------------------------------------
\* process_is_alive(pid).
ProcessIsAlive(p) == run[p] # 0 \/ p \in foreign
Live(r, p) == r # 0 /\ run[p] = r
\* To a launch with process id p, the marker q was left by a run that is no more.
\* Mutant of Stale: nobody asks whether the owner lives.
Left(p, q) == TRUE
Stale(p, q) == q = p \/ ~ProcessIsAlive(q)

InitMarkers ==
  /\ run = [p \in Pids |-> 0] /\ foreign = {}
  /\ step = [r \in Runs |-> "unborn"]
  /\ list = [r \in Runs |-> {}] /\ stale = [r \in Runs |-> {}]
  /\ expected = [r \in Runs |-> FALSE]
  /\ runMarker = [p \in Pids |-> 0] /\ pending = "none" /\ updateMarker = FALSE
  /\ armed = 0 /\ taking = {} /\ started = 0 /\ crashed = {} /\ told = {} /\ blamed = {}

\* A process begins, on a free process id: the setup reads the update marker and the
\* names in the directory (initialize_crash_tracking, reconcile_crash_run_markers_at).
\* Assumed: an id is not reused in the moment in which its marker is being removed.
Launch(r, p) ==
  /\ step[r] = "unborn" /\ \A q \in 1..(r - 1) : step[q] # "unborn"
  /\ ~ProcessIsAlive(p) /\ \A q \in Pids : run[q] # 0 => p \notin stale[run[q]]
  /\ run' = [run EXCEPT ![p] = r]
  /\ step' = [step EXCEPT ![r] = "scanning"]
  /\ expected' = [expected EXCEPT ![r] = updateMarker]
  /\ list' = [list EXCEPT ![r] = {q \in Pids : runMarker[q] # 0}]
  /\ UNCHANGED <<foreign, stale, updates, ghosts, runMarker, pending>>

\* The next name belongs to another process that lives.
SkipLive(r, p, q) ==
  /\ Live(r, p) /\ step[r] = "scanning" /\ stale[r] = {} /\ q \in list[r]
  /\ ~Stale(p, q)
  /\ list' = [list EXCEPT ![r] = @ \ {q}]
  /\ UNCHANGED <<machine, stale, expected, updates, ghosts, step, runMarker, pending>>

\* The next name is stale: a report is written unless one is pending, or an update
\* explains it. A marker that another launch removed meanwhile fails the setup.
Report(r, p, q) ==
  /\ Live(r, p) /\ step[r] = "scanning" /\ stale[r] = {} /\ q \in list[r]
  /\ Stale(p, q)
  /\ LET writes == runMarker[q] # 0 /\ ~expected[r] /\ pending = "none"
     IN  /\ step' = [step EXCEPT ![r] = IF runMarker[q] = 0 THEN "failed" ELSE @]
         /\ stale' = [stale EXCEPT ![r] = {x \in {q} : runMarker[q] # 0}]
         /\ pending' = IF writes THEN "exit" ELSE pending
         /\ blamed' = blamed \cup {x \in {runMarker[q]} : writes}
         /\ told' = told \cup ({runMarker[q]} \cap crashed)
  /\ UNCHANGED <<machine, list, expected, updates, crashed, runMarker>>

\* The stale marker is removed; another launch may have been faster.
Retire(r, p, q) ==
  /\ Live(r, p) /\ step[r] = "scanning" /\ q \in stale[r]
  /\ step' = [step EXCEPT ![r] = IF runMarker[q] = 0 THEN "failed" ELSE @]
  /\ runMarker' = [runMarker EXCEPT ![q] = 0]
  /\ stale' = [stale EXCEPT ![r] = {}]
  /\ list' = [list EXCEPT ![r] = @ \ {q}]
  /\ UNCHANGED <<machine, expected, updates, ghosts, pending>>

\* The setup makes the marker of its own run, with create_new.
Arm(r, p) ==
  /\ Live(r, p) /\ step[r] = "scanning" /\ stale[r] = {} /\ list[r] = {}
  /\ IF runMarker[p] = 0
       THEN /\ step' = [step EXCEPT ![r] = "up"]
            /\ runMarker' = [runMarker EXCEPT ![p] = r]
       ELSE step' = [step EXCEPT ![r] = "failed"] /\ UNCHANGED runMarker
  /\ UNCHANGED <<machine, scan, updates, ghosts, pending>>

\* The setup failed, which is only logged: the application runs without a marker.
Running(r) == step[r] \in {"failed", "up"}

\* The renderer boots. It finds the update marker, removes it and starts the Engine; it
\* connects when there is none, or when another process has just removed it
\* (take_update_restart_marker_at).
FindUpdate(r, p) ==
  /\ Live(r, p) /\ Running(r) /\ updateMarker /\ r \notin taking
  /\ taking' = taking \cup {r}
  /\ UNCHANGED <<machine, scan, updateMarker, armed, started, ghosts, step,
                 runMarker, pending>>
\* Mutant of TakeUpdate: the failure of the removal is not noticed.
TakeSeen(r, p) ==
  /\ Live(r, p) /\ r \in taking
  /\ taking' = taking \ {r}
  /\ updateMarker' = FALSE
  /\ started' = started + 1
  /\ UNCHANGED <<machine, scan, armed, ghosts, step, runMarker, pending>>
TakeUpdate(r, p) ==
  /\ Live(r, p) /\ r \in taking
  /\ taking' = taking \ {r}
  /\ updateMarker' = FALSE
  /\ started' = IF updateMarker THEN started + 1 ELSE started
  /\ UNCHANGED <<machine, scan, armed, ghosts, step, runMarker, pending>>

\* The renderer reaches its recovery boundary, and the user sends or discards what is
\* pending by the time the command ends.
RendererFails(r, p) ==
  /\ Live(r, p) /\ Running(r) /\ pending # "renderer"
  /\ pending' = "renderer"
  /\ UNCHANGED <<machine, scan, updates, ghosts, step, runMarker>>
Discard(r, p) ==
  /\ Live(r, p) /\ Running(r) /\ pending # "none"
  /\ pending' = "none"
  /\ UNCHANGED <<machine, scan, updates, ghosts, step, runMarker>>

\* restart_after_update: the update marker first, then the own run marker, then the
\* process is replaced.
ArmUpdate(r, p) ==
  /\ Live(r, p) /\ Running(r) /\ armed < MaxRuns
  /\ updateMarker' = TRUE /\ armed' = armed + 1
  /\ step' = [step EXCEPT ![r] = "handing over"]
  /\ UNCHANGED <<machine, scan, taking, started, ghosts, runMarker, pending>>
\* The own marker, whatever run it is of, goes at a clean exit (clear_crash_tracking)
\* and before the process is replaced (retire_crash_run_marker_at).
Exit(r, p) ==
  /\ Live(r, p) /\ (Running(r) \/ step[r] = "handing over")
  /\ runMarker' = [runMarker EXCEPT ![p] = 0]
  /\ run' = [run EXCEPT ![p] = 0]
  /\ step' = [step EXCEPT ![r] = "gone"]
  /\ told' = told \cup (crashed \cap {runMarker[p]})
  /\ UNCHANGED <<foreign, scan, updates, crashed, blamed, pending>>

\* The process dies at any of its steps.
Crash(r, p) ==
  /\ Live(r, p)
  /\ run' = [run EXCEPT ![p] = 0]
  /\ step' = [step EXCEPT ![r] = "gone"]
  /\ crashed' = IF runMarker[p] = r THEN crashed \cup {r} ELSE crashed
  /\ UNCHANGED <<foreign, scan, updates, told, blamed, runMarker, pending>>

\* Another program takes a free process id, or gives it back.
Reuse(p) ==
  /\ run[p] = 0
  /\ foreign' = IF p \in foreign THEN foreign \ {p} ELSE foreign \cup {p}
  /\ UNCHANGED <<run, scan, updates, ghosts, step, runMarker, pending>>

NextMarkers ==
  \/ \E r \in Runs, p \in Pids :
       \/ Launch(r, p) \/ Arm(r, p) \/ FindUpdate(r, p) \/ TakeUpdate(r, p)
       \/ RendererFails(r, p)
       \/ Discard(r, p) \/ ArmUpdate(r, p) \/ Exit(r, p) \/ Crash(r, p)
       \/ \E q \in Pids : SkipLive(r, p, q) \/ Report(r, p, q) \/ Retire(r, p, q)
  \/ \E p \in Pids : Reuse(p)

SpecMarkers == InitMarkers /\ [][NextMarkers]_markerVars

--------------------------------------------------------------------------------
(* Properties. *)

\* A run that crashed is not forgotten: its marker stays until a launch has written a
\* report of it, has seen one pending, or knows that an update explains it. A run that
\* has not crashed is never reported, whatever runs beside it, dies in the middle of
\* its own launch, or has its process id again.
CrashesAreTold ==
  /\ \A r \in crashed \ told : \E p \in Pids : runMarker[p] = r
  /\ blamed \subseteq crashed

\* An update starts the Engine at most once, of all the processes that are launched
\* around it: no more markers are taken than were made.
UpdateStartsOnce == started <= armed

\* Whatever crashes between its steps, a launch accounts for every crash of an earlier
\* one, and starts the Engine once for an update.
MarkersAreExact == CrashesAreTold /\ UpdateStartsOnce
================================================================================
