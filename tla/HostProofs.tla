------------------------------- MODULE HostProofs -------------------------------
(* What the native host does with its processes and files, proved: the markers of  *)
(* the launches (LaunchMarkers), the Workspace Core (WorkspaceCore), the Engine    *)
(* with its restarts and updates (EngineHandoff) and the command-line Hara         *)
(* (ManagedCli), each from an invariant of its own. The parts share no state, so   *)
(* their invariants hold of the host (NativeHost) as they stand.                   *)
(*                                                                                 *)
(* And what the channels that the Workspace Core keeps for a window promise, for   *)
(* every bound and every set of channels: the messages (LocalChannelSends), from   *)
(* SendsInv, then the catalog, the channel shown and the creations (LocalChannels), *)
(* from LocalInv.                                                                  *)
EXTENDS NativeHost, PersonalChannels, SequenceTheorems, FiniteSetTheorems, TLAPS

--------------------------------------------------------------------------------
(* The markers. *)

\* A run has one process id, has it from its launch to its end, and looks at no marker
\* before.
RunsLive ==
  /\ \A p, q \in Pids : run[p] # 0 /\ run[q] = run[p] => p = q
  /\ \A p \in Pids : run[p] # 0 => step[run[p]] \notin {"unborn", "gone"}
  /\ \A r \in Runs : step[r] = "unborn" => stale[r] = {}

\* A marker is of a run that has come through its setup: of the process that bears its
\* id, or of one that crashed.
MarkersHold == \A q \in Pids : runMarker[q] # 0 =>
  /\ step[runMarker[q]] \notin {"unborn", "scanning"}
  /\ run[q] = runMarker[q] \/ runMarker[q] \in crashed
  /\ \A p \in Pids : run[p] = runMarker[q] => p = q

\* The marker that a launch is about to remove is not that of a process that lives, it is
\* not made again meanwhile, and the crash it stands for is accounted for.
StaleHolds == \A p, q \in Pids : run[p] # 0 /\ q \in stale[run[p]] =>
  /\ run[q] \in {0, run[p]}
  /\ runMarker[q] # 0 => runMarker[q] # run[q]
  /\ runMarker[q] \in crashed => runMarker[q] \in told

\* The update marker that is there has been made, and was not taken yet.
UpdatesHold == started + (IF updateMarker THEN 1 ELSE 0) <= armed

MarkersInv ==
  MarkersTypeOK /\ RunsLive /\ MarkersHold /\ StaleHolds /\ UpdatesHold /\ CrashesAreTold

USE DEF Runs

LEMMA MarkersStart == InitMarkers => MarkersInv
<1> SUFFICES ASSUME InitMarkers PROVE MarkersInv
  OBVIOUS
<1>1. MarkersTypeOK
  <2>1. /\ 0 \in 0..MaxRuns /\ {} \in SUBSET Pids /\ FALSE \in BOOLEAN
        /\ "unborn" \in RunSteps
    BY MarkersAssumption DEF RunSteps
  <2>2. step \in [Runs -> RunSteps] /\ run \in [Pids -> 0..MaxRuns]
    BY <2>1 DEF InitMarkers
  <2>3. list \in [Runs -> SUBSET Pids] /\ stale \in [Runs -> SUBSET Pids]
    BY <2>1 DEF InitMarkers
  <2>4. expected \in [Runs -> BOOLEAN] /\ runMarker \in [Pids -> 0..MaxRuns]
    BY <2>1 DEF InitMarkers
  <2>5. /\ pending \in {"none", "exit", "renderer"} /\ updateMarker \in BOOLEAN
        /\ armed \in 0..MaxRuns /\ started \in Nat
    BY <2>1 DEF InitMarkers
  <2> QED
    BY <2>2, <2>3, <2>4, <2>5 DEF InitMarkers, MarkersTypeOK
<1> QED
  BY <1>1 DEF InitMarkers, MarkersInv, RunsLive, MarkersHold, StaleHolds, UpdatesHold,
              CrashesAreTold

\* A new process: its id was free, and no marker is of its run.
LEMMA LaunchStep ==
  ASSUME MarkersInv, NEW r \in Runs, NEW p \in Pids, Launch(r, p) PROVE MarkersInv'
<1> USE MarkersAssumption DEF MarkersInv, Launch, MarkersTypeOK, machine, scan, updates, ghosts
<1>1. MarkersTypeOK'
  <2>1. step' \in [Runs -> RunSteps]
    BY DEF RunSteps
  <2> QED
    BY <2>1
<1>2. run[p] = 0
  BY DEF ProcessIsAlive
<1>3. \A q \in Pids : run[q] # r /\ runMarker[q] # r
  <2>1. r # 0 /\ step[r] = "unborn"
    OBVIOUS
  <2>2. \A q \in Pids : run[q] # r
    BY <2>1 DEF RunsLive
  <2>3. \A q \in Pids : runMarker[q] # r
    BY <2>1 DEF MarkersHold
  <2> QED
    BY <2>2, <2>3
<1>4. RunsLive'
  BY <1>2, <1>3 DEF RunsLive
<1>5. MarkersHold'
  BY <1>2, <1>3 DEF MarkersHold
<1>6. StaleHolds'
  <2> SUFFICES ASSUME NEW a \in Pids, NEW b \in Pids, run'[a] # 0, b \in stale[run'[a]]
               PROVE  /\ run'[b] \in {0, run'[a]}
                      /\ runMarker[b] # 0 => runMarker[b] # run'[b]
                      /\ runMarker[b] \in crashed => runMarker[b] \in told
    BY DEF StaleHolds
  <2>1. CASE a = p
    BY <2>1 DEF RunsLive
  <2>2. CASE a # p
    <3>1. run'[a] = run[a] /\ run[a] # 0 /\ b \in stale[run[a]]
      BY <2>2
    <3>2. b # p
      BY <3>1
    <3>3. run'[b] = run[b]
      BY <3>2
    <3> QED
      BY <3>1, <3>3 DEF StaleHolds
  <2> QED
    BY <2>1, <2>2
<1>7. UpdatesHold' /\ CrashesAreTold'
  BY DEF UpdatesHold, CrashesAreTold
<1> QED
  BY <1>1, <1>4, <1>5, <1>6, <1>7

LEMMA SkipStep ==
  ASSUME MarkersInv, NEW r \in Runs, NEW p \in Pids, NEW q \in Pids, SkipLive(r, p, q)
  PROVE  MarkersInv'
<1> USE MarkersAssumption DEF MarkersInv, SkipLive, MarkersTypeOK, machine, updates, ghosts
<1>1. MarkersTypeOK'
  OBVIOUS
<1>2. RunsLive' /\ MarkersHold' /\ StaleHolds' /\ UpdatesHold' /\ CrashesAreTold'
  BY DEF RunsLive, MarkersHold, StaleHolds, UpdatesHold, CrashesAreTold
<1> QED
  BY <1>1, <1>2

\* Who is reported had crashed: the marker bears the id of the launch itself, which has
\* made none, or of a process that is no more.
LEMMA ReportStep ==
  ASSUME MarkersInv, NEW r \in Runs, NEW p \in Pids, NEW q \in Pids, Report(r, p, q)
  PROVE  MarkersInv'
<1> USE MarkersAssumption DEF MarkersInv, Report, MarkersTypeOK, machine
<1>1. run[q] \in {0, r}
  BY DEF Stale, ProcessIsAlive, Live
<1>2. runMarker[q] # 0 => runMarker[q] # run[q] /\ runMarker[q] \in crashed
  BY <1>1 DEF MarkersHold, Live
<1>3. MarkersTypeOK'
  <2>1. step' \in [Runs -> RunSteps]
    BY DEF RunSteps
  <2>2. told' \subseteq Runs /\ blamed' \subseteq Runs
    BY <1>2
  <2>3. stale' \in [Runs -> SUBSET Pids]
    OBVIOUS
  <2> QED
    BY <2>1, <2>2, <2>3 DEF updates
<1>4. RunsLive'
  BY DEF RunsLive, Live
<1>5. MarkersHold'
  BY DEF MarkersHold, Live
<1>6. StaleHolds'
  <2> SUFFICES ASSUME NEW a \in Pids, NEW b \in Pids, run[a] # 0, b \in stale'[run[a]]
               PROVE  /\ run[b] \in {0, run[a]}
                      /\ runMarker[b] # 0 => runMarker[b] # run[b]
                      /\ runMarker[b] \in crashed => runMarker[b] \in told'
    BY DEF StaleHolds, updates
  <2>1. CASE run[a] = r
    BY <1>1, <1>2, <2>1
  <2>2. CASE run[a] # r
    BY <2>2 DEF StaleHolds
  <2> QED
    BY <2>1, <2>2
<1>7. UpdatesHold' /\ CrashesAreTold'
  BY <1>2 DEF UpdatesHold, CrashesAreTold, updates
<1> QED
  BY <1>3, <1>4, <1>5, <1>6, <1>7

\* The marker that is removed stands for no crash that is still untold.
LEMMA RetireStep ==
  ASSUME MarkersInv, NEW r \in Runs, NEW p \in Pids, NEW q \in Pids, Retire(r, p, q)
  PROVE  MarkersInv'
<1> USE MarkersAssumption DEF MarkersInv, Retire, MarkersTypeOK, machine, updates, ghosts
<1>1. runMarker[q] \in crashed => runMarker[q] \in told
  BY DEF StaleHolds, Live
<1>2. MarkersTypeOK'
  <2>1. step' \in [Runs -> RunSteps]
    BY DEF RunSteps
  <2>2. runMarker' \in [Pids -> 0..MaxRuns]
    OBVIOUS
  <2> QED
    BY <2>1, <2>2
<1>3. RunsLive'
  BY DEF RunsLive, Live
<1>4. MarkersHold'
  BY DEF MarkersHold, Live
<1>5. StaleHolds'
  BY DEF StaleHolds
<1>6. UpdatesHold' /\ CrashesAreTold'
  <2>1. \A x \in crashed \ told : \E s \in Pids : runMarker'[s] = x
    <3> SUFFICES ASSUME NEW x \in crashed \ told PROVE \E s \in Pids : runMarker'[s] = x
      OBVIOUS
    <3>1. PICK s \in Pids : runMarker[s] = x
      BY DEF CrashesAreTold
    <3>2. s # q
      BY <1>1, <3>1
    <3> QED
      BY <3>1, <3>2
  <2> QED
    BY <2>1 DEF UpdatesHold, CrashesAreTold
<1> QED
  BY <1>2, <1>3, <1>4, <1>5, <1>6

\* The launch that makes its marker has nothing left to remove.
LEMMA ArmStep ==
  ASSUME MarkersInv, NEW r \in Runs, NEW p \in Pids, Arm(r, p) PROVE MarkersInv'
<1> USE MarkersAssumption DEF MarkersInv, Arm, MarkersTypeOK, machine, scan, updates, ghosts
<1>1. MarkersTypeOK'
  <2>1. step' \in [Runs -> RunSteps]
    <3>1. step \in [Runs -> RunSteps] /\ "up" \in RunSteps /\ "failed" \in RunSteps
      BY DEF RunSteps
    <3>2. step' = [step EXCEPT ![r] = "up"] \/ step' = [step EXCEPT ![r] = "failed"]
      OBVIOUS
    <3> QED
      BY <3>1, <3>2
  <2>2. runMarker' \in [Pids -> 0..MaxRuns]
    OBVIOUS
  <2> QED
    BY <2>1, <2>2
<1>2. RunsLive'
  BY DEF RunsLive, Live
<1>3. MarkersHold'
  BY DEF MarkersHold, RunsLive, Live
<1>4. StaleHolds'
  <2> SUFFICES ASSUME NEW a \in Pids, NEW b \in Pids, run[a] # 0, b \in stale[run[a]]
               PROVE  /\ run[b] \in {0, run[a]}
                      /\ runMarker'[b] # 0 => runMarker'[b] # run[b]
                      /\ runMarker'[b] \in crashed => runMarker'[b] \in told
    BY DEF StaleHolds
  <2>1. run[a] # r
    BY DEF Live
  <2>2. b # p
    BY <2>1 DEF StaleHolds, Live
  <2>3. runMarker'[b] = runMarker[b]
    BY <2>2
  <2> QED
    BY <2>3 DEF StaleHolds
<1>5. UpdatesHold' /\ CrashesAreTold'
  BY DEF UpdatesHold, CrashesAreTold
<1> QED
  BY <1>1, <1>2, <1>3, <1>4, <1>5

\* What the launches and their markers are is left alone.
LEMMA LeftAlone ==
  ASSUME MarkersInv, UNCHANGED <<run, step, stale, runMarker, crashed, told, blamed>>
  PROVE  RunsLive' /\ MarkersHold' /\ StaleHolds' /\ CrashesAreTold'
BY DEF MarkersInv, RunsLive, MarkersHold, StaleHolds, CrashesAreTold

\* The renderer finds the update marker, and takes it once.
LEMMA FindStep ==
  ASSUME MarkersInv, NEW r \in Runs, NEW p \in Pids, FindUpdate(r, p) PROVE MarkersInv'
<1>1. /\ UNCHANGED <<run, foreign, step, list, stale, expected, updateMarker, armed, started>>
      /\ UNCHANGED <<crashed, told, blamed, runMarker, pending>>
      /\ taking' = taking \cup {r}
  BY DEF FindUpdate, machine, scan, ghosts
<1>2. MarkersTypeOK'
  BY <1>1 DEF MarkersInv, MarkersTypeOK
<1>3. UpdatesHold'
  BY <1>1 DEF MarkersInv, UpdatesHold
<1> QED
  BY <1>1, <1>2, <1>3, LeftAlone DEF MarkersInv

LEMMA TakeStep ==
  ASSUME MarkersInv, NEW r \in Runs, NEW p \in Pids, TakeUpdate(r, p) PROVE MarkersInv'
<1>1. /\ UNCHANGED <<run, foreign, step, list, stale, expected, armed>>
      /\ UNCHANGED <<crashed, told, blamed, runMarker, pending>>
      /\ taking' = taking \ {r} /\ updateMarker' = FALSE
      /\ started' = IF updateMarker THEN started + 1 ELSE started
  BY DEF TakeUpdate, machine, scan, ghosts
<1>2. started \in Nat /\ armed \in Nat /\ started' \in Nat
  <2>1. started \in Nat /\ armed \in Nat
    BY MarkersAssumption DEF MarkersInv, MarkersTypeOK
  <2> QED
    BY <1>1, <2>1
<1>3. MarkersTypeOK'
  <2>1. updateMarker' \in BOOLEAN
    BY <1>1
  <2> QED
    BY <1>1, <1>2, <2>1 DEF MarkersInv, MarkersTypeOK
<1>4. UpdatesHold'
  <2>1. started + (IF updateMarker THEN 1 ELSE 0) <= armed
    BY DEF MarkersInv, UpdatesHold
  <2>2. started' <= armed
    BY <1>1, <1>2, <2>1
  <2> QED
    BY <1>1, <1>2, <2>2 DEF UpdatesHold
<1> QED
  BY <1>1, <1>3, <1>4, LeftAlone DEF MarkersInv

\* The pending report is replaced, sent or discarded.
LEMMA ReportsStep ==
  ASSUME MarkersInv, NEW r \in Runs, NEW p \in Pids,
         RendererFails(r, p) \/ Discard(r, p)
  PROVE  MarkersInv'
<1>1. /\ UNCHANGED <<run, foreign, step, list, stale, expected, updateMarker, armed>>
      /\ UNCHANGED <<started, taking, crashed, told, blamed, runMarker>>
      /\ pending' \in {"none", "exit", "renderer"}
  BY DEF RendererFails, Discard, machine, scan, updates, ghosts
<1>2. MarkersTypeOK'
  BY <1>1 DEF MarkersInv, MarkersTypeOK
<1>3. UpdatesHold'
  BY <1>1 DEF MarkersInv, UpdatesHold
<1> QED
  BY <1>1, <1>2, <1>3, LeftAlone DEF MarkersInv

LEMMA ArmUpdateStep ==
  ASSUME MarkersInv, NEW r \in Runs, NEW p \in Pids, ArmUpdate(r, p) PROVE MarkersInv'
<1>1. /\ UNCHANGED <<run, foreign, list, stale, expected, started, taking>>
      /\ UNCHANGED <<crashed, told, blamed, runMarker, pending>>
      /\ updateMarker' = TRUE /\ armed' = armed + 1 /\ armed < MaxRuns
      /\ step' = [step EXCEPT ![r] = "handing over"]
  BY DEF ArmUpdate, machine, scan, ghosts
<1>2. /\ step \in [Runs -> RunSteps] /\ started \in Nat /\ armed \in 0..MaxRuns
      /\ updateMarker \in BOOLEAN /\ run \in [Pids -> 0..MaxRuns]
  BY DEF MarkersInv, MarkersTypeOK
<1>3. MarkersTypeOK'
  <2>1. step' \in [Runs -> RunSteps]
    BY <1>1, <1>2 DEF RunSteps
  <2>2. armed' \in 0..MaxRuns
    <3>1. armed \in 0..MaxRuns /\ armed < MaxRuns /\ armed' = armed + 1
      BY <1>1, <1>2
    <3> QED
      BY <3>1, MarkersAssumption
  <2>3. updateMarker' \in BOOLEAN
    BY <1>1
  <2> QED
    BY <1>1, <2>1, <2>2, <2>3 DEF MarkersInv, MarkersTypeOK
<1>4. UpdatesHold'
  <2>1. started <= armed
    BY <1>2, MarkersAssumption DEF MarkersInv, UpdatesHold
  <2>2. started + 1 <= armed + 1
    BY <1>2, <2>1, MarkersAssumption
  <2> QED
    BY <1>1, <2>2 DEF UpdatesHold
<1>5. RunsLive' /\ MarkersHold'
  <2>1. \A x \in Runs : step'[x] = IF x = r THEN "handing over" ELSE step[x]
    BY <1>1, <1>2
  <2>2. RunsLive'
    <3>1. \A q \in Pids : run[q] # 0 => run[q] \in Runs
      BY <1>2, MarkersAssumption
    <3>2. RunsLive /\ run' = run /\ stale' = stale
      BY <1>1 DEF MarkersInv
    <3> QED
      BY <2>1, <3>1, <3>2 DEF RunsLive
  <2>3. MarkersHold'
    <3>1. \A q \in Pids : runMarker[q] # 0 => runMarker[q] \in Runs
      BY MarkersAssumption DEF MarkersInv, MarkersTypeOK
    <3>2. MarkersHold /\ run' = run /\ runMarker' = runMarker /\ crashed' = crashed
      BY <1>1 DEF MarkersInv
    <3> QED
      BY <2>1, <3>1, <3>2 DEF MarkersHold
  <2> QED
    BY <2>2, <2>3
<1>6. StaleHolds' /\ CrashesAreTold'
  BY <1>1 DEF MarkersInv, StaleHolds, CrashesAreTold
<1> QED
  BY <1>3, <1>4, <1>5, <1>6 DEF MarkersInv

\* A clean exit accounts for the crash whose marker goes with it.
LEMMA ExitStep ==
  ASSUME MarkersInv, NEW r \in Runs, NEW p \in Pids, Exit(r, p) PROVE MarkersInv'
<1>1. /\ UNCHANGED <<foreign, list, stale, expected, updateMarker, armed, started, taking>>
      /\ UNCHANGED <<crashed, blamed, pending>>
      /\ run[p] = r /\ r # 0
      /\ runMarker' = [runMarker EXCEPT ![p] = 0]
      /\ run' = [run EXCEPT ![p] = 0]
      /\ step' = [step EXCEPT ![r] = "gone"]
      /\ told' = told \cup (crashed \cap {runMarker[p]})
  BY DEF Exit, scan, updates, Live
<1>2. /\ run \in [Pids -> 0..MaxRuns] /\ step \in [Runs -> RunSteps]
      /\ runMarker \in [Pids -> 0..MaxRuns] /\ crashed \subseteq Runs /\ told \subseteq Runs
      /\ stale \in [Runs -> SUBSET Pids]
  BY DEF MarkersInv, MarkersTypeOK
<1>3. MarkersTypeOK'
  <2>1. step' \in [Runs -> RunSteps]
    BY <1>1, <1>2 DEF RunSteps
  <2>2. 0 \in 0..MaxRuns
    BY MarkersAssumption
  <2>3. runMarker' \in [Pids -> 0..MaxRuns]
    BY <1>1, <1>2, <2>2
  <2>4. run' \in [Pids -> 0..MaxRuns]
    BY <1>1, <1>2, <2>2
  <2>5. told' \subseteq Runs
    BY <1>1, <1>2
  <2> QED
    BY <1>1, <2>1, <2>3, <2>4, <2>5 DEF MarkersInv, MarkersTypeOK
<1>4. RunsLive'
  BY <1>1, <1>2 DEF MarkersInv, RunsLive
<1>5. MarkersHold'
  BY <1>1, <1>2 DEF MarkersInv, MarkersHold
<1>6. StaleHolds'
  BY <1>1, <1>2 DEF MarkersInv, StaleHolds
<1>7. CrashesAreTold'
  <2>1. \A x \in crashed \ told' : \E s \in Pids : runMarker'[s] = x
    <3> SUFFICES ASSUME NEW x \in crashed \ told' PROVE \E s \in Pids : runMarker'[s] = x
      OBVIOUS
    <3>1. PICK s \in Pids : runMarker[s] = x
      BY <1>1 DEF MarkersInv, CrashesAreTold
    <3>2. s # p
      BY <1>1, <3>1
    <3> QED
      BY <1>1, <1>2, <3>1, <3>2
  <2> QED
    BY <1>1, <2>1 DEF MarkersInv, CrashesAreTold
<1>8. UpdatesHold'
  BY <1>1 DEF MarkersInv, UpdatesHold
<1> QED
  BY <1>3, <1>4, <1>5, <1>6, <1>7, <1>8 DEF MarkersInv

\* A run that crashes leaves its marker, and no launch has it in hand.
LEMMA CrashStep ==
  ASSUME MarkersInv, NEW r \in Runs, NEW p \in Pids, Crash(r, p) PROVE MarkersInv'
<1> USE MarkersAssumption DEF MarkersInv, Crash, MarkersTypeOK, scan, updates
<1>1. MarkersTypeOK'
  <2>1. step' \in [Runs -> RunSteps]
    BY DEF RunSteps
  <2>2. run' \in [Pids -> 0..MaxRuns]
    OBVIOUS
  <2>3. crashed' \subseteq Runs
    OBVIOUS
  <2> QED
    BY <2>1, <2>2, <2>3
<1>2. RunsLive'
  BY DEF RunsLive, Live
<1>3. MarkersHold'
  BY DEF MarkersHold, Live
<1>4. StaleHolds'
  BY DEF StaleHolds, MarkersHold, Live
<1>5. UpdatesHold' /\ CrashesAreTold'
  BY DEF UpdatesHold, CrashesAreTold
<1> QED
  BY <1>1, <1>2, <1>3, <1>4, <1>5

LEMMA MarkersStep ==
  ASSUME MarkersInv, [NextMarkers]_markerVars PROVE MarkersInv'
<1>1. CASE UNCHANGED markerVars
  BY <1>1 DEF MarkersInv, MarkersTypeOK, RunsLive, MarkersHold, StaleHolds, UpdatesHold,
              CrashesAreTold, markerVars, machine, scan, updates, ghosts
<1>2. CASE \E p \in Pids : Reuse(p)
  BY <1>2 DEF Reuse, MarkersInv, MarkersTypeOK, RunsLive, MarkersHold, StaleHolds,
              UpdatesHold, CrashesAreTold, scan, updates, ghosts
<1>3. CASE \E r \in Runs, p \in Pids :
       \/ Launch(r, p) \/ Arm(r, p) \/ FindUpdate(r, p) \/ TakeUpdate(r, p)
       \/ RendererFails(r, p)
       \/ Discard(r, p) \/ ArmUpdate(r, p) \/ Exit(r, p) \/ Crash(r, p)
       \/ \E q \in Pids : SkipLive(r, p, q) \/ Report(r, p, q) \/ Retire(r, p, q)
  BY <1>3, LaunchStep, ArmStep, FindStep, TakeStep, ReportsStep, ArmUpdateStep, ExitStep,
     CrashStep, SkipStep, ReportStep, RetireStep
<1> QED
  BY <1>1, <1>2, <1>3 DEF NextMarkers

\* The files and the histories of the launches keep their types.
THEOREM MarkersTypeCorrect == SpecMarkers => []MarkersTypeOK
<1>1. SpecMarkers => []MarkersInv
  BY MarkersStart, MarkersStep, PTL DEF SpecMarkers
<1>2. MarkersInv => MarkersTypeOK
  BY DEF MarkersInv
<1> QED
  BY <1>1, <1>2, PTL

\* However many launches there are, whatever crashes between two of its steps and whose
\* process ids come back: a crash stays on disk until a launch accounts for it, nobody is
\* reported who has not crashed, and no update starts the Engine twice.
THEOREM MarkersStayExact == SpecMarkers => []MarkersAreExact
<1>1. SpecMarkers => []MarkersInv
  BY MarkersStart, MarkersStep, PTL DEF SpecMarkers
<1>2. MarkersInv => MarkersAreExact
  BY MarkersAssumption
     DEF MarkersInv, MarkersTypeOK, UpdatesHold, MarkersAreExact, UpdateStartsOnce
<1> QED
  BY <1>1, <1>2, PTL

--------------------------------------------------------------------------------
(* The Workspace Core. *)

\* A process of Desktop is at work: it comes up, or serves.
AtWork(c) == core[c] \in {"starting", "serving"}

\* A call that decides has no start to wait for; a Core that serves is the one that the
\* discovery names; and one that Desktop has started and that is still to come up is the
\* one it keeps.
OwnsItsStart ==
  /\ call = "deciding" => owned = 0
  /\ named # 0 => core[named] \notin {"off", "starting"}
  /\ \A c \in Cores : core[c] = "serving" => named = c
  /\ \A c \in spawned : core[c] # "off"
  /\ \A c \in spawned : core[c] = "starting" => owned = c

OneAtWork == \A c, d \in spawned : AtWork(c) /\ AtWork(d) => c = d

CoreInv == CoreTypeOK /\ OwnsItsStart /\ OneAtWork

LEMMA CoreStart == InitCore => CoreInv
BY CoresAssumption
   DEF InitCore, CoreInv, CoreTypeOK, OwnsItsStart, OneAtWork, AtWork, Cores

\* The Cores that come, serve and go by themselves.
LEMMA CoreRunsOn ==
  ASSUME CoreInv, NEW c \in Cores, Manual(c) \/ Stops(c) \/ Dies(c) \/ Reused(c)
  PROVE  CoreInv'
<1> USE CoresAssumption DEF CoreInv, CoreTypeOK, Cores
<1>1. CASE Manual(c)
  <2>1. c \notin spawned /\ c # named
    BY <1>1 DEF Manual, First, OwnsItsStart
  <2>2. CoreTypeOK'
    BY <1>1 DEF Manual
  <2>3. OwnsItsStart'
    BY <1>1, <2>1 DEF Manual, OwnsItsStart
  <2>4. OneAtWork'
    BY <1>1, <2>1 DEF Manual, OneAtWork, AtWork
  <2> QED
    BY <2>2, <2>3, <2>4
<1>2. CASE Stops(c)
  <2>1. named = c /\ named' = 0
    BY <1>2 DEF Stops, OwnsItsStart
  <2>2. CoreTypeOK'
    BY <1>2 DEF Stops
  <2>3. OwnsItsStart'
    BY <1>2, <2>1 DEF Stops, OwnsItsStart
  <2>4. OneAtWork'
    BY <1>2 DEF Stops, OneAtWork, AtWork
  <2> QED
    BY <2>2, <2>3, <2>4
<1>3. CASE Dies(c)
  <2>1. CoreTypeOK'
    BY <1>3 DEF Dies
  <2>2. OwnsItsStart'
    BY <1>3 DEF Dies, OwnsItsStart
  <2>3. OneAtWork'
    BY <1>3 DEF Dies, OneAtWork, AtWork
  <2> QED
    BY <2>1, <2>2, <2>3
<1>4. CASE Reused(c)
  BY <1>4 DEF Reused, OwnsItsStart, OneAtWork, AtWork
<1> QED
  BY <1>1, <1>2, <1>3, <1>4

\* A Core comes up only when none serves, and is discovered.
LEMMA CoreComesUp ==
  ASSUME CoreInv, NEW c \in Cores, ComesUp(c) PROVE CoreInv'
<1> USE CoresAssumption DEF CoreInv, CoreTypeOK, Cores, ComesUp
<1>1. CoreTypeOK'
  OBVIOUS
<1>2. OwnsItsStart'
  BY DEF OwnsItsStart
<1>3. OneAtWork'
  BY DEF OneAtWork, AtWork
<1> QED
  BY <1>1, <1>2, <1>3

\* One is started only when nothing of Desktop's is at work: what starts would be owned,
\* and what serves would be discovered alive.
LEMMA CoreStarts ==
  ASSUME CoreInv, NEW c \in Cores, Starts(c) PROVE CoreInv'
<1> USE CoresAssumption DEF CoreInv, CoreTypeOK, Cores
<1>1. /\ core[c] = "off" /\ owned = 0 /\ owned' = c /\ call' = "observing"
      /\ spawned' = spawned \cup {c} /\ core' = [core EXCEPT ![c] = "starting"]
      /\ UNCHANGED <<named, readable, reused>>
  BY DEF Starts, First, OwnsItsStart
<1>2. \A d \in spawned : ~AtWork(d)
  <2> SUFFICES ASSUME NEW d \in spawned, AtWork(d) PROVE FALSE
    OBVIOUS
  <2>1. core[d] # "starting"
    BY <1>1 DEF OwnsItsStart
  <2>2. core[d] = "serving" /\ named = d /\ d # 0
    BY <2>1 DEF AtWork, OwnsItsStart
  <2> QED
    BY <2>2 DEF Starts, Lives, CoreRuns
<1>3. CoreTypeOK'
  BY <1>1
<1>4. OwnsItsStart'
  BY <1>1, <1>2 DEF OwnsItsStart, AtWork
<1>5. OneAtWork'
  BY <1>1, <1>2 DEF OneAtWork, AtWork
<1> QED
  BY <1>3, <1>4, <1>5

\* The calls that attach, wait and give up.
LEMMA CoreIsAsked ==
  ASSUME CoreInv, Call \/ Attaches \/ SeesExit \/ SeesDiscovery \/ WaitEnds
  PROVE  CoreInv'
<1>1. UNCHANGED <<core, named, readable, reused, spawned>>
  BY DEF Call, Attaches, SeesExit, SeesDiscovery, WaitEnds
<1>2. /\ call' \in {"idle", "deciding", "observing"} /\ owned' \in {owned, 0}
      /\ call' = "deciding" => owned' = 0
  BY DEF Call, Attaches, SeesExit, SeesDiscovery, WaitEnds
<1>3. owned' # owned => owned = 0 \/ core[owned] # "starting"
  BY DEF Call, Attaches, SeesExit, SeesDiscovery, WaitEnds, CoreRuns, Attachable, CoreInv,
         OwnsItsStart
<1>4. CoreTypeOK'
  BY <1>1, <1>2, CoresAssumption DEF CoreInv, CoreTypeOK
<1>5. OwnsItsStart'
  <2>1. \A c \in spawned : core[c] = "starting" => owned' = c
    <3> SUFFICES ASSUME NEW c \in spawned, core[c] = "starting" PROVE owned' = c
      OBVIOUS
    <3>1. owned = c /\ c # 0
      BY DEF CoreInv, CoreTypeOK, OwnsItsStart, Cores
    <3> QED
      BY <1>3, <3>1
  <2> QED
    BY <1>1, <1>2, <2>1 DEF CoreInv, OwnsItsStart
<1>6. OneAtWork'
  BY <1>1 DEF CoreInv, OneAtWork, AtWork
<1> QED
  BY <1>4, <1>5, <1>6 DEF CoreInv

LEMMA CoreStep == ASSUME CoreInv, [NextCore]_coreVars PROVE CoreInv'
<1>1. CASE UNCHANGED coreVars
  BY <1>1 DEF CoreInv, CoreTypeOK, OwnsItsStart, OneAtWork, AtWork, coreVars
<1>2. CASE NextCore
  BY <1>2, CoreRunsOn, CoreComesUp, CoreStarts, CoreIsAsked DEF NextCore
<1> QED
  BY <1>1, <1>2

\* Of what is pairwise the same there is at most one.
LEMMA AtMostOne ==
  ASSUME NEW S, \A x, y \in S : x = y
  PROVE  Cardinality(S) <= 1
<1>1. CASE S = {}
  BY <1>1, FS_EmptySet
<1>2. CASE S # {}
  <2>1. PICK x \in S : TRUE
    BY <1>2
  <2>2. S = {x}
    BY <2>1
  <2> QED
    BY <2>2, FS_Singleton
<1> QED
  BY <1>1, <1>2

\* What Desktop keeps of the Workspace Core keeps its types.
THEOREM CoreTypeCorrect == SpecCore => []CoreTypeOK
<1>1. SpecCore => []CoreInv
  BY CoreStart, CoreStep, PTL DEF SpecCore
<1>2. CoreInv => CoreTypeOK
  BY DEF CoreInv
<1> QED
  BY <1>1, <1>2, PTL

\* Desktop never has two Workspace Cores of its own at work, however often the renderer
\* asks, however slow a Core is to come up, and whichever of them dies or is replaced.
THEOREM OneCoreAtATime == SpecCore => []OneCore
<1>1. SpecCore => []CoreInv
  BY CoreStart, CoreStep, PTL DEF SpecCore
<1>2. CoreInv => OneCore
  <2> SUFFICES ASSUME CoreInv PROVE OneCore
    OBVIOUS
  <2>1. \A c, d \in {x \in spawned : core[x] \in {"starting", "serving"}} : c = d
    BY DEF CoreInv, OneAtWork, AtWork
  <2> QED
    BY <2>1, AtMostOne DEF OneCore
<1> QED
  BY <1>1, <1>2, PTL

--------------------------------------------------------------------------------
(* The Engine, its restarts and its updates. *)

\* The process has come up, whatever has become of it.
IsPast(s) == s # 0 => serve[s] \notin {"off", "starting"}

\* What the discovery and the client name has come up, and so has the Engine that an
\* update has shut down, until it starts one to restore it.
EnginesHold ==
  /\ IsPast(discovery) /\ IsPast(client)
  /\ pc["update"] \notin {"polling", "connecting"} => IsPast(pid["update"])

\* A package is installed while it is still to be installed.
PackageHolds ==
  /\ pc["update"] = "installing" => package = "downloaded"
  /\ package = "downloaded" => installs = 0

\* A record that is opened names a process that has come up. It is dead when its record is
\* read again; and from the comparison on it is this record that is there, or none, or one
\* that an Engine has written since.
Opened == {"signalling", "killed", "rechecking", "removing"}
OpenedHold ==
  /\ \A f \in Flows : pc[f] \in Opened => raw[f] # 0 /\ IsPast(raw[f])
  /\ \A f \in Flows : pc[f] \in {"rechecking", "removing"} => serve[raw[f]] = "dead"
  /\ \A f \in Flows : pc[f] = "removing" => discovery \in {0, raw[f]} \cup raced

HandoffInv ==
  HandoffTypeOK /\ EnginesHold /\ OpenedHold /\ PackageHolds /\ RecordsAreCompared /\ InstalledOnceRetired

LEMMA HandoffStart == InitHandoff => HandoffInv
<1> SUFFICES ASSUME InitHandoff PROVE HandoffInv
  OBVIOUS
<1>1. HandoffTypeOK
  <2>1. /\ 0 \in 0..MaxServes /\ 1 \in 0..MaxServes /\ 1 \in Serves
        /\ "off" \in Steps /\ FALSE \in BOOLEAN
    BY EngineHandoffAssumption DEF Serves, Steps
  <2>2. /\ serve \in [Serves -> {"off", "starting", "serving", "stopping", "dead"}]
        /\ discovery \in 0..MaxServes /\ client \in 0..MaxServes
    BY <2>1 DEF InitHandoff
  <2>3. conn \in [step: {"off", "reading", "opening", "initializing"},
                  expected: 0..MaxServes, target: 0..MaxServes]
    BY <2>1 DEF InitHandoff, Idle
  <2>4. /\ pc \in [Flows -> Steps] /\ raw \in [Flows -> 0..MaxServes]
        /\ pid \in [Flows -> 0..MaxServes] /\ after \in [Flows -> {"retiring", "spawning"}]
    BY <2>1 DEF InitHandoff
  <2>5. planned \in BOOLEAN /\ retired \in BOOLEAN /\ old \in BOOLEAN
    BY <2>1 DEF InitHandoff
  <2> QED
    BY <2>2, <2>3, <2>4, <2>5 DEF InitHandoff, HandoffTypeOK
<1>2. EnginesHold
  <2>1. 1 \in Serves
    BY EngineHandoffAssumption DEF Serves
  <2>2. serve[1] = "serving" /\ pid["update"] = 0
    BY <2>1 DEF InitHandoff, Flows
  <2> QED
    BY <2>2 DEF InitHandoff, EnginesHold, IsPast
<1>3. PackageHolds /\ RecordsAreCompared /\ InstalledOnceRetired /\ OpenedHold
  BY DEF InitHandoff, PackageHolds, RecordsAreCompared, InstalledOnceRetired, OpenedHold, Opened, Flows
<1> QED
  BY <1>1, <1>2, <1>3 DEF HandoffInv

\* What is typed of a flow, and of the connection.
FlowsTyped ==
  /\ pc \in [Flows -> Steps] /\ raw \in [Flows -> 0..MaxServes]
  /\ pid \in [Flows -> 0..MaxServes] /\ after \in [Flows -> {"retiring", "spawning"}]
ServesTyped == serve \in [Serves -> {"off", "starting", "serving", "stopping", "dead"}]
ConnTyped == conn \in [step: {"off", "reading", "opening", "initializing"},
                       expected: 0..MaxServes, target: 0..MaxServes]
PhaseTyped == phase \in {"connecting", "ready", "no-server", "lost", "gone"}

LEMMA ZeroIsTyped == 0 \in 0..MaxServes
BY EngineHandoffAssumption

LEMMA GotoTyped ==
  ASSUME FlowsTyped, NEW f \in Flows, NEW to \in Steps, Goto(f, to)
  PROVE  pc' \in [Flows -> Steps]
BY DEF FlowsTyped, Goto

LEMMA EndsTyped ==
  ASSUME FlowsTyped, planned \in BOOLEAN, NEW f \in Flows, Ends(f)
  PROVE  /\ pc' \in [Flows -> Steps] /\ raw' \in [Flows -> 0..MaxServes]
         /\ pid' \in [Flows -> 0..MaxServes] /\ planned' \in BOOLEAN
<1>1. pc' \in [Flows -> Steps]
  BY GotoTyped DEF Ends, Steps
<1>2. raw' \in [Flows -> 0..MaxServes] /\ pid' \in [Flows -> 0..MaxServes]
  BY ZeroIsTyped DEF Ends, FlowsTyped
<1>3. planned' \in BOOLEAN
  BY Zenon DEF Ends
<1> QED
  BY <1>1, <1>2, <1>3

LEMMA FailsTyped ==
  ASSUME FlowsTyped, PhaseTyped, planned \in BOOLEAN, NEW f \in Flows, Fails(f)
  PROVE  FlowsTyped' /\ PhaseTyped' /\ planned' \in BOOLEAN
<1>1. CASE Starting(f)
  <2>1. Ends(f) /\ phase' = "no-server" /\ UNCHANGED after
    BY <1>1 DEF Fails
  <2> QED
    BY <2>1, EndsTyped DEF FlowsTyped, PhaseTyped
<1>2. CASE ~Starting(f)
  <2>1. /\ planned' = FALSE
        /\ Goto(f, IF f = "update" /\ retired THEN "inspecting" ELSE "off")
        /\ after' = [after EXCEPT ![f] = "spawning"]
        /\ raw' = [raw EXCEPT ![f] = 0] /\ pid' = [pid EXCEPT ![f] = 0]
        /\ UNCHANGED phase
    BY <1>2 DEF Fails
  <2>2. pc' \in [Flows -> Steps]
    BY <2>1 DEF FlowsTyped, Goto, Steps
  <2>3. /\ after' \in [Flows -> {"retiring", "spawning"}]
        /\ raw' \in [Flows -> 0..MaxServes] /\ pid' \in [Flows -> 0..MaxServes]
    BY <2>1, ZeroIsTyped DEF FlowsTyped
  <2>4. planned' \in BOOLEAN
    BY <2>1
  <2> QED
    BY <2>1, <2>2, <2>3, <2>4 DEF FlowsTyped, PhaseTyped
<1> QED
  BY <1>1, <1>2

\* What a flow that fails leaves of the update.
LEMMA FailsLeaves ==
  ASSUME FlowsTyped, NEW f \in Flows, Fails(f)
  PROVE  \/ pc'["update"] = pc["update"] /\ pid'["update"] = pid["update"]
         \/ pc'["update"] \in {"off", "inspecting"} /\ pid'["update"] = 0
BY DEF Fails, Ends, Goto, FlowsTyped, Flows

\* What a step leaves alone keeps its type.
HistoryTyped ==
  /\ retired \in BOOLEAN /\ old \in BOOLEAN /\ package \in {"downloaded", "installed"}
  /\ installs \in Nat /\ unlinked \subseteq Serves /\ raced \subseteq Serves
  /\ ours \subseteq Serves
RecordsTyped == discovery \in 0..MaxServes /\ client \in 0..MaxServes

LEMMA TypedGroups ==
  HandoffTypeOK <=>
    /\ FlowsTyped /\ ServesTyped /\ ConnTyped /\ PhaseTyped
    /\ HistoryTyped /\ RecordsTyped /\ planned \in BOOLEAN
BY DEF HandoffTypeOK, FlowsTyped, ServesTyped, ConnTyped, PhaseTyped, HistoryTyped,
       RecordsTyped

LEMMA EngineTyped ==
  ASSUME HandoffTypeOK, NEW s \in Serves, Terminal(s) \/ Up(s) \/ Withdraw(s) \/ Die(s)
  PROVE  HandoffTypeOK'
<1>1. /\ FlowsTyped /\ ServesTyped /\ ConnTyped /\ PhaseTyped
      /\ HistoryTyped /\ RecordsTyped /\ planned \in BOOLEAN
  BY TypedGroups
<1>2. UNCHANGED <<pc, raw, pid, after, retired, conn, phase, planned, client, old, package>>
  BY DEF Terminal, Up, Withdraw, Die, renderer, flows
<1>3. UNCHANGED <<installs, unlinked, ours>> /\ raced' \in {raced, raced \cup {s}}
  BY DEF Terminal, Up, Withdraw, Die, history
<1>4. ServesTyped'
  BY <1>1 DEF Terminal, Up, Withdraw, Die, ServesTyped
<1>5. discovery' \in 0..MaxServes
  BY <1>1, EngineHandoffAssumption DEF Terminal, Up, Withdraw, Die, RecordsTyped, Serves
<1>6. FlowsTyped' /\ ConnTyped' /\ PhaseTyped' /\ HistoryTyped' /\ RecordsTyped' /\ planned' \in BOOLEAN
  <2>1. raced' \subseteq Serves
    BY <1>1, <1>3 DEF HistoryTyped
  <2> QED
    BY <1>1, <1>2, <1>3, <1>5, <2>1
       DEF FlowsTyped, ConnTyped, PhaseTyped, HistoryTyped, RecordsTyped
<1> QED
  BY <1>4, <1>6
     DEF HandoffTypeOK, FlowsTyped, ServesTyped, ConnTyped, PhaseTyped, HistoryTyped,
         RecordsTyped

LEMMA ConnectionTyped ==
  ASSUME HandoffTypeOK,
         OnClose \/ Retry \/ ConnectReads \/ ConnectOpens \/ ConnectEnds
  PROVE  HandoffTypeOK'
<1>1. /\ FlowsTyped /\ ServesTyped /\ ConnTyped /\ PhaseTyped
      /\ HistoryTyped /\ RecordsTyped /\ planned \in BOOLEAN
  BY TypedGroups
<1>2. UNCHANGED <<serve, discovery, planned, pc, raw, pid, after, retired, old, package>>
  BY DEF OnClose, Retry, ConnectReads, ConnectOpens, ConnectEnds, engine, flows
<1>3. UNCHANGED <<installs, unlinked, raced, ours>>
  BY DEF OnClose, Retry, ConnectReads, ConnectOpens, ConnectEnds, history
<1>4. PhaseTyped'
  BY <1>1 DEF OnClose, Retry, ConnectReads, ConnectOpens, ConnectEnds, Connects, PhaseTyped
<1>5. ConnTyped'
  <2>1. Discovered \in 0..MaxServes
    BY <1>1, ZeroIsTyped DEF Discovered, RecordsTyped
  <2>2. CASE OnClose
    BY <1>1, <2>2 DEF OnClose, ConnTyped
  <2>3. CASE Retry
    BY <2>3, ZeroIsTyped DEF Retry, Connects, ConnTyped
  <2>4. CASE ConnectReads
    <3>1. Idle \in [step: {"off", "reading", "opening", "initializing"},
                    expected: 0..MaxServes, target: 0..MaxServes]
      BY ZeroIsTyped DEF Idle
    <3>2. [conn EXCEPT !.step = "opening", !.target = Discovered]
            \in [step: {"off", "reading", "opening", "initializing"},
                expected: 0..MaxServes, target: 0..MaxServes]
      BY <1>1, <2>1 DEF ConnTyped
    <3>3. \/ conn' = Idle
          \/ conn' = [conn EXCEPT !.step = "opening", !.target = Discovered]
      BY <2>4 DEF ConnectReads
    <3> QED
      BY <3>1, <3>2, <3>3 DEF ConnTyped
  <2>5. CASE ConnectOpens
    BY <1>1, <2>5, ZeroIsTyped DEF ConnectOpens, ConnTyped, Idle
  <2>6. CASE ConnectEnds
    BY <2>6, ZeroIsTyped DEF ConnectEnds, ConnTyped, Idle
  <2> QED
    BY <2>2, <2>3, <2>4, <2>5, <2>6
<1>6. RecordsTyped'
  <2>1. client' \in {client, 0, conn.target} /\ discovery' = discovery
    BY <1>2 DEF OnClose, Retry, ConnectReads, ConnectOpens, ConnectEnds, Connects
  <2> QED
    BY <1>1, <2>1, ZeroIsTyped DEF RecordsTyped, ConnTyped
<1>7. FlowsTyped' /\ ServesTyped' /\ HistoryTyped' /\ planned' \in BOOLEAN
  BY <1>1, <1>2, <1>3 DEF FlowsTyped, ServesTyped, HistoryTyped
<1> QED
  BY <1>4, <1>5, <1>6, <1>7
     DEF HandoffTypeOK, FlowsTyped, ServesTyped, ConnTyped, PhaseTyped, HistoryTyped,
         RecordsTyped

\* A flow that begins.
LEMMA BeginTyped ==
  ASSUME HandoffTypeOK, RestartEngine \/ RestartForUpdate \/ UserStarts
  PROVE  HandoffTypeOK'
<1>1. /\ FlowsTyped /\ ServesTyped /\ ConnTyped /\ PhaseTyped
      /\ HistoryTyped /\ RecordsTyped /\ planned \in BOOLEAN
  BY TypedGroups
<1>2. UNCHANGED <<serve, discovery, phase, conn, raw, old, package, installs, unlinked, raced,
                  ours>>
  BY DEF RestartEngine, RestartForUpdate, UserStarts, engine, renderer, history
<1>3. retired' \in {retired, FALSE} /\ planned' \in {planned, TRUE}
  BY DEF RestartEngine, RestartForUpdate, UserStarts, Retires, renderer
<1>4. client' \in {client, 0}
  BY DEF RestartEngine, RestartForUpdate, UserStarts, Retires, renderer
<1>5. ASSUME NEW f \in Flows, Retires(f)
      PROVE  /\ pid' \in [Flows -> 0..MaxServes] /\ pc' \in [Flows -> Steps]
             /\ after' \in [Flows -> {"retiring", "spawning"}]
  <2>1. pid' \in [Flows -> 0..MaxServes]
    BY <1>1, <1>5 DEF Retires, FlowsTyped, RecordsTyped
  <2>2. pc' \in [Flows -> Steps]
    BY <1>1, <1>5 DEF Retires, FlowsTyped, Goto, Steps
  <2>3. after' \in [Flows -> {"retiring", "spawning"}]
    BY <1>1, <1>5 DEF Retires, FlowsTyped
  <2> QED
    BY <2>1, <2>2, <2>3
<1>6. /\ pid' \in [Flows -> 0..MaxServes] /\ pc' \in [Flows -> Steps]
      /\ after' \in [Flows -> {"retiring", "spawning"}]
  <2>1. CASE RestartEngine
    BY <1>5, <2>1 DEF RestartEngine, Flows
  <2>2. CASE RestartForUpdate
    <3>1. CASE Retires("update")
      BY <1>5, <3>1 DEF Flows
    <3>2. CASE /\ pid' = [pid EXCEPT !["update"] = 0]
               /\ Goto("update", "retiring") /\ UNCHANGED <<client, after>>
      BY <1>1, <3>2, ZeroIsTyped DEF FlowsTyped, Goto, Steps
    <3> QED
      BY <2>2, <3>1, <3>2 DEF RestartForUpdate
  <2>3. CASE UserStarts
    BY <1>1, <2>3 DEF UserStarts, FlowsTyped, Goto, Steps
  <2> QED
    BY <2>1, <2>2, <2>3
<1>7. FlowsTyped' /\ ServesTyped' /\ ConnTyped' /\ PhaseTyped' /\ RecordsTyped'
  BY <1>1, <1>2, <1>4, <1>6, ZeroIsTyped
     DEF FlowsTyped, ServesTyped, ConnTyped, PhaseTyped, RecordsTyped
<1>8. HistoryTyped'
  BY <1>1, <1>2, <1>3 DEF HistoryTyped
<1>9. planned' \in BOOLEAN
  BY <1>1, <1>3
<1> QED
  BY <1>7, <1>8, <1>9
     DEF HandoffTypeOK, FlowsTyped, ServesTyped, ConnTyped, PhaseTyped, HistoryTyped,
         RecordsTyped

\* A flow that gives up, whatever its step.
LEMMA FailureTyped ==
  ASSUME HandoffTypeOK, NEW f \in Flows, Fails(f),
         UNCHANGED <<serve, discovery, client, conn, retired, package, old, installs,
                     unlinked, raced, ours>>
  PROVE  HandoffTypeOK'
<1>1. /\ FlowsTyped /\ ServesTyped /\ ConnTyped /\ PhaseTyped
      /\ HistoryTyped /\ RecordsTyped /\ planned \in BOOLEAN
  BY TypedGroups
<1>2. FlowsTyped' /\ PhaseTyped' /\ planned' \in BOOLEAN
  BY <1>1, FailsTyped
<1>3. ServesTyped' /\ ConnTyped' /\ HistoryTyped' /\ RecordsTyped'
  BY <1>1 DEF ServesTyped, ConnTyped, HistoryTyped, RecordsTyped
<1> QED
  BY <1>2, <1>3
     DEF HandoffTypeOK, FlowsTyped, ServesTyped, ConnTyped, PhaseTyped, HistoryTyped,
         RecordsTyped

\* A flow that goes on: it waits, has something retired or installed, or is at its end.
LEMMA WaitsTyped ==
  ASSUME HandoffTypeOK, NEW f \in Flows,
         ShutdownAccepted(f) \/ Closed(f) \/ RetirementSeen(f) \/ Installed
  PROVE  HandoffTypeOK'
<1>1. /\ FlowsTyped /\ ServesTyped /\ ConnTyped /\ PhaseTyped
      /\ HistoryTyped /\ RecordsTyped /\ planned \in BOOLEAN
  BY TypedGroups
<1>2. UNCHANGED <<discovery, client, phase, planned, conn, raw, pid, old, unlinked, raced, ours>>
  BY DEF ShutdownAccepted, Closed, RetirementSeen, Installed, engine, renderer, history
<1>3. ServesTyped'
  <2>1. CASE ShutdownAccepted(f)
    BY <1>1, <2>1 DEF ShutdownAccepted, ServesTyped
  <2>2. CASE Closed(f) \/ RetirementSeen(f) \/ Installed
    BY <1>1, <2>2 DEF Closed, RetirementSeen, Installed, engine, ServesTyped
  <2> QED
    BY <2>1, <2>2
<1>4. pc' \in [Flows -> Steps]
  <2>1. CASE ShutdownAccepted(f)
    BY <1>1, <2>1, GotoTyped DEF ShutdownAccepted, Steps
  <2>2. CASE Closed(f)
    BY <1>1, <2>2, GotoTyped DEF Closed, Steps
  <2>3. CASE RetirementSeen(f)
    BY <1>1, <2>3 DEF RetirementSeen, Goto, FlowsTyped, Steps
  <2>4. CASE Installed
    BY <1>1, <2>4 DEF Installed, Goto, FlowsTyped, Steps
  <2> QED
    BY <2>1, <2>2, <2>3, <2>4
<1>5. after' \in [Flows -> {"retiring", "spawning"}]
  BY <1>1 DEF ShutdownAccepted, Closed, RetirementSeen, Installed, FlowsTyped
<1>6. retired' \in BOOLEAN
  <2>1. CASE RetirementSeen(f)
    BY <2>1, Zenon DEF RetirementSeen
  <2>2. CASE ShutdownAccepted(f) \/ Closed(f) \/ Installed
    BY <1>1, <2>2 DEF ShutdownAccepted, Closed, Installed, HistoryTyped
  <2> QED
    BY <2>1, <2>2
<1>7. package' \in {"downloaded", "installed"} /\ installs' \in Nat
  BY <1>1 DEF ShutdownAccepted, Closed, RetirementSeen, Installed, HistoryTyped, history
<1>8. FlowsTyped' /\ HistoryTyped'
  BY <1>1, <1>2, <1>4, <1>5, <1>6, <1>7 DEF FlowsTyped, HistoryTyped
<1>9. ConnTyped' /\ PhaseTyped' /\ RecordsTyped' /\ planned' \in BOOLEAN
  BY <1>1, <1>2 DEF ConnTyped, PhaseTyped, RecordsTyped
<1> QED
  BY <1>3, <1>8, <1>9
     DEF HandoffTypeOK, FlowsTyped, ServesTyped, ConnTyped, PhaseTyped, HistoryTyped,
         RecordsTyped

LEMMA RelaunchTyped ==
  ASSUME HandoffTypeOK, Relaunched PROVE HandoffTypeOK'
<1>1. /\ FlowsTyped /\ ServesTyped /\ ConnTyped /\ PhaseTyped
      /\ HistoryTyped /\ RecordsTyped /\ planned \in BOOLEAN
  BY TypedGroups
<1>2. /\ UNCHANGED <<serve, discovery, planned, raw, pid, after, retired, package, old>>
      /\ UNCHANGED <<installs, unlinked, raced, ours>>
      /\ phase' = "gone" /\ client' = 0 /\ conn' = Idle
      /\ pc' = [f \in Flows |-> "off"]
  BY DEF Relaunched, engine, history
<1>3. FlowsTyped'
  BY <1>1, <1>2 DEF FlowsTyped, Steps
<1>4. ConnTyped'
  BY <1>2, ZeroIsTyped DEF ConnTyped, Idle
<1>5. RecordsTyped' /\ PhaseTyped'
  BY <1>1, <1>2, ZeroIsTyped DEF RecordsTyped, PhaseTyped
<1>6. ServesTyped' /\ HistoryTyped' /\ planned' \in BOOLEAN
  BY <1>1, <1>2 DEF ServesTyped, HistoryTyped
<1> QED
  BY <1>3, <1>4, <1>5, <1>6
     DEF HandoffTypeOK, FlowsTyped, ServesTyped, ConnTyped, PhaseTyped, HistoryTyped,
         RecordsTyped

\* The native side looks for a record, reads it, stops its process, looks again, compares
\* and removes.
LEMMA RetireTyped ==
  ASSUME HandoffTypeOK, NEW f \in Flows,
         InspectRecord(f) \/ ReadRecord(f) \/ RecheckRecord(f) \/ CompareRecord(f)
  PROVE  HandoffTypeOK'
<1>1. /\ FlowsTyped /\ ServesTyped /\ ConnTyped /\ PhaseTyped
      /\ HistoryTyped /\ RecordsTyped /\ planned \in BOOLEAN
  BY TypedGroups
<1>2. UNCHANGED <<serve, discovery, client, conn, retired, package, old, installs, unlinked, raced, ours>>
  BY DEF InspectRecord, ReadRecord, RecheckRecord, CompareRecord, engine, renderer, history
<1>3. CASE Fails(f)
  BY <1>2, <1>3, FailureTyped
<1>4. CASE /\ UNCHANGED <<pid, phase, planned, after>>
           /\ \E to \in Steps : Goto(f, to)
           /\ raw' = raw \/ \E v \in 0..MaxServes : raw' = [raw EXCEPT ![f] = v]
  <2>1. pc' \in [Flows -> Steps]
    BY <1>1, <1>4, GotoTyped
  <2>2. raw' \in [Flows -> 0..MaxServes]
    BY <1>1, <1>4 DEF FlowsTyped
  <2> QED
    BY <1>1, <1>2, <1>4, <2>1, <2>2
       DEF HandoffTypeOK, FlowsTyped, ServesTyped, ConnTyped, PhaseTyped, HistoryTyped,
         RecordsTyped
<1>5. /\ discovery \in 0..MaxServes /\ 0 \in 0..MaxServes /\ after[f] \in Steps
      /\ {"spawning", "reading", "signalling", "rechecking", "removing"} \subseteq Steps
  BY <1>1, ZeroIsTyped DEF RecordsTyped, FlowsTyped, Steps
<1>6. CASE InspectRecord(f)
  BY <1>4, <1>5, <1>6 DEF InspectRecord, renderer
<1>7. CASE ReadRecord(f)
  BY <1>3, <1>4, <1>5, <1>7 DEF ReadRecord
<1>8. CASE RecheckRecord(f)
  BY <1>4, <1>5, <1>8 DEF RecheckRecord, Retired
<1>9. CASE CompareRecord(f)
  BY <1>3, <1>4, <1>5, <1>9 DEF CompareRecord
<1> QED
  BY <1>6, <1>7, <1>8, <1>9

LEMMA StopTyped ==
  ASSUME HandoffTypeOK, NEW f \in Flows, StopProcess(f) PROVE HandoffTypeOK'
<1>1. /\ FlowsTyped /\ ServesTyped /\ ConnTyped /\ PhaseTyped
      /\ HistoryTyped /\ RecordsTyped /\ planned \in BOOLEAN
  BY TypedGroups
<1>2. UNCHANGED <<discovery, client, conn, retired, package, old, installs, unlinked, raced, ours>>
  BY DEF StopProcess, history
<1>3. CASE Fails(f) /\ UNCHANGED serve
  BY <1>2, <1>3, FailureTyped
<1>4. CASE /\ serve' = [serve EXCEPT ![raw[f]] = IF Alive(raw[f]) THEN "stopping" ELSE @]
           /\ Goto(f, "killed") /\ UNCHANGED <<raw, pid, phase, planned, after>>
  <2>1. pc' \in [Flows -> Steps]
    BY <1>1, <1>4, GotoTyped DEF Steps
  <2>2. ServesTyped'
    BY <1>1, <1>4 DEF ServesTyped
  <2> QED
    BY <1>1, <1>2, <1>4, <2>1, <2>2
       DEF HandoffTypeOK, FlowsTyped, ServesTyped, ConnTyped, PhaseTyped, HistoryTyped,
         RecordsTyped
<1> QED
  BY <1>3, <1>4 DEF StopProcess

LEMMA RemoveTyped ==
  ASSUME HandoffTypeOK, NEW f \in Flows, RemoveRecord(f)
  PROVE  HandoffTypeOK'
<1>1. /\ FlowsTyped /\ ServesTyped /\ ConnTyped /\ PhaseTyped
      /\ HistoryTyped /\ RecordsTyped /\ planned \in BOOLEAN
  BY TypedGroups
<1>2. UNCHANGED <<serve, client, conn, retired, package, old, installs, raced, ours>>
  BY DEF RemoveRecord
<1>3. CASE Fails(f) /\ UNCHANGED <<discovery, unlinked>>
  BY <1>2, <1>3, FailureTyped
<1>4. CASE /\ discovery # 0 /\ discovery' = 0 /\ unlinked' = unlinked \cup {discovery}
           /\ Retired(f)
  <2>1. pc' \in [Flows -> Steps]
    BY <1>1, <1>4 DEF FlowsTyped, Retired, Goto, Steps
  <2>2. raw' \in [Flows -> 0..MaxServes]
    BY <1>1, <1>4, ZeroIsTyped DEF FlowsTyped, Retired
  <2>3. unlinked' \subseteq Serves
    BY <1>1, <1>4, EngineHandoffAssumption DEF HistoryTyped, RecordsTyped, Serves
  <2>4. discovery' \in 0..MaxServes /\ UNCHANGED <<pid, phase, planned, after>>
    BY <1>4, ZeroIsTyped DEF Retired
  <2> QED
    BY <1>1, <1>2, <2>1, <2>2, <2>3, <2>4
       DEF HandoffTypeOK, FlowsTyped, ServesTyped, ConnTyped, PhaseTyped, HistoryTyped,
         RecordsTyped
<1> QED
  BY <1>3, <1>4 DEF RemoveRecord

\* An Engine is started, looked for and connected to.
LEMMA SpawnTyped ==
  ASSUME HandoffTypeOK, NEW f \in Flows, NEW s \in Serves, Spawn(f, s)
  PROVE  HandoffTypeOK'
<1>1. /\ FlowsTyped /\ ServesTyped /\ ConnTyped /\ PhaseTyped
      /\ HistoryTyped /\ RecordsTyped /\ planned \in BOOLEAN
  BY TypedGroups
<1>2. /\ UNCHANGED <<discovery, client, planned, conn, raw, after, retired, package, old>>
      /\ UNCHANGED <<installs, unlinked, raced>>
      /\ serve' = [serve EXCEPT ![s] = "starting"] /\ ours' = ours \cup {s}
      /\ pid' = [pid EXCEPT ![f] = s]
      /\ phase' = "connecting" /\ Goto(f, "polling")
  BY DEF Spawn
<1>3. pc' \in [Flows -> Steps]
  BY <1>1, <1>2, GotoTyped DEF Steps
<1>4. pid' \in [Flows -> 0..MaxServes]
  <2>1. s \in 0..MaxServes
    BY EngineHandoffAssumption DEF Serves
  <2> QED
    BY <1>1, <1>2, <2>1 DEF FlowsTyped
<1>5. ServesTyped' /\ ours' \subseteq Serves
  BY <1>1, <1>2 DEF ServesTyped, HistoryTyped
<1> QED
  BY <1>1, <1>2, <1>3, <1>4, <1>5
     DEF HandoffTypeOK, FlowsTyped, ServesTyped, ConnTyped, PhaseTyped, HistoryTyped,
         RecordsTyped

LEMMA PollTyped ==
  ASSUME HandoffTypeOK, NEW f \in Flows, PollFinds(f) PROVE HandoffTypeOK'
<1>1. /\ FlowsTyped /\ ServesTyped /\ ConnTyped /\ PhaseTyped
      /\ HistoryTyped /\ RecordsTyped /\ planned \in BOOLEAN
  BY TypedGroups
<1>2. /\ UNCHANGED <<serve, discovery, planned, raw, pid, after, retired, package, old>>
      /\ UNCHANGED <<installs, unlinked, raced, ours>>
      /\ Connects(pid[f]) /\ Goto(f, "connecting")
  BY DEF PollFinds, engine, history
<1>3. pc' \in [Flows -> Steps]
  BY <1>1, <1>2, GotoTyped DEF Steps
<1>4. ConnTyped' /\ PhaseTyped' /\ client' = 0
  <2>1. pid[f] \in 0..MaxServes
    BY <1>1 DEF FlowsTyped
  <2> QED
    BY <1>2, <2>1, ZeroIsTyped DEF ConnTyped, PhaseTyped, Connects
<1> QED
  BY <1>1, <1>2, <1>3, <1>4, ZeroIsTyped
     DEF HandoffTypeOK, FlowsTyped, ServesTyped, ConnTyped, PhaseTyped, HistoryTyped,
         RecordsTyped

LEMMA StartEndsTyped ==
  ASSUME HandoffTypeOK, NEW f \in Flows, StartEnds(f) PROVE HandoffTypeOK'
<1>1. /\ FlowsTyped /\ ServesTyped /\ ConnTyped /\ PhaseTyped
      /\ HistoryTyped /\ RecordsTyped /\ planned \in BOOLEAN
  BY TypedGroups
<1>2. /\ UNCHANGED <<serve, discovery, client, phase, conn, after, retired, package, old>>
      /\ UNCHANGED <<installs, unlinked, raced, ours>> /\ Ends(f)
  BY DEF StartEnds, engine, history
<1>3. /\ pc' \in [Flows -> Steps] /\ raw' \in [Flows -> 0..MaxServes]
      /\ pid' \in [Flows -> 0..MaxServes] /\ planned' \in BOOLEAN
  BY <1>1, <1>2, EndsTyped
<1> QED
  BY <1>1, <1>2, <1>3
     DEF HandoffTypeOK, FlowsTyped, ServesTyped, ConnTyped, PhaseTyped, HistoryTyped,
         RecordsTyped

\* The steps at which a flow gives up.
LEMMA GivesUpTyped ==
  ASSUME HandoffTypeOK, NEW f \in Flows,
         GivesUp(f) \/ StopTimesOut(f) \/ PollGivesUp(f) \/ HandoffFails
  PROVE  HandoffTypeOK'
<1>1. UNCHANGED <<serve, discovery, client, conn, retired, package, old, installs, unlinked,
                  raced, ours>>
  BY DEF GivesUp, StopTimesOut, PollGivesUp, HandoffFails, engine, history
<1>2. Fails(f) \/ Fails("update")
  BY DEF GivesUp, StopTimesOut, PollGivesUp, HandoffFails
<1> QED
  BY <1>1, <1>2, FailureTyped DEF Flows

LEMMA HandoffTypes ==
  ASSUME HandoffTypeOK, [NextHandoff]_handoffVars PROVE HandoffTypeOK'
<1>1. CASE UNCHANGED handoffVars
  BY <1>1 DEF HandoffTypeOK, handoffVars, engine, renderer, flows, history
<1>2. CASE \E s \in Serves : Terminal(s) \/ Up(s) \/ Withdraw(s) \/ Die(s)
  BY <1>2, EngineTyped
<1>3. CASE \E s \in Serves, f \in Flows : Spawn(f, s)
  BY <1>3, SpawnTyped
<1>4. CASE OnClose \/ Retry \/ ConnectReads \/ ConnectOpens \/ ConnectEnds
  BY <1>4, ConnectionTyped
<1>5. CASE RestartEngine \/ RestartForUpdate \/ UserStarts
  BY <1>5, BeginTyped
<1>6. CASE Installed \/ Relaunched \/ HandoffFails
  <2>1. "update" \in Flows
    BY DEF Flows
  <2> QED
    BY <1>6, <2>1, WaitsTyped, RelaunchTyped, GivesUpTyped
<1>7. CASE \E f \in Flows :
       \/ ShutdownAccepted(f) \/ Closed(f) \/ RetirementSeen(f) \/ GivesUp(f)
       \/ StopTimesOut(f) \/ PollFinds(f) \/ PollGivesUp(f) \/ StartEnds(f)
  BY <1>7, WaitsTyped, GivesUpTyped, PollTyped, StartEndsTyped
<1>8. CASE \E f \in Flows :
       \/ InspectRecord(f) \/ ReadRecord(f) \/ StopProcess(f)
       \/ RecheckRecord(f) \/ CompareRecord(f) \/ RemoveRecord(f)
  BY <1>8, RetireTyped, StopTyped, RemoveTyped
<1> QED
  BY <1>1, <1>2, <1>3, <1>4, <1>5, <1>6, <1>7, <1>8 DEF NextHandoff

\* A process goes forward: what is dead stays dead, and what has come up has come up.
Forward == \A s \in Serves :
  /\ serve[s] = "dead" => serve'[s] = "dead"
  /\ serve[s] \notin {"off", "starting"} => serve'[s] \notin {"off", "starting"}

LEMMA GoesForward ==
  ASSUME HandoffTypeOK, [NextHandoff]_handoffVars PROVE Forward
<1>1. ServesTyped
  BY TypedGroups
<1>2. CASE \E s \in Serves : Terminal(s) \/ Up(s) \/ Die(s) \/ \E f \in Flows : Spawn(f, s)
  <2>1. PICK s \in Serves : /\ serve[s] \in {"off", "starting"} \/ Alive(s)
                            /\ \E v \in {"starting", "serving", "dead"} :
                                 /\ serve' = [serve EXCEPT ![s] = v]
                                 /\ v = "starting" => serve[s] = "off"
    BY <1>2 DEF Terminal, Up, Die, Spawn, Begin
  <2> QED
    BY <1>1, <2>1 DEF Forward, ServesTyped, Alive
<1>3. CASE \E f \in Flows : ShutdownAccepted(f)
  BY <1>1, <1>3 DEF ShutdownAccepted, Forward, ServesTyped
<1>4. CASE \E f \in Flows : StopProcess(f)
  <2>1. PICK f \in Flows :
          \/ serve' = serve
          \/ serve' = [serve EXCEPT ![raw[f]] = IF Alive(raw[f]) THEN "stopping" ELSE @]
    BY <1>4 DEF StopProcess
  <2> QED
    BY <1>1, <2>1 DEF Forward, ServesTyped, Alive
<1>5. CASE UNCHANGED serve
  BY <1>5 DEF Forward
<1>6. CASE UNCHANGED handoffVars
  BY <1>5, <1>6 DEF handoffVars, engine
<1>7. CASE OnClose \/ Retry \/ ConnectReads \/ ConnectOpens \/ ConnectEnds
  BY <1>5, <1>7 DEF OnClose, Retry, ConnectReads, ConnectOpens, ConnectEnds, engine
<1>8. CASE RestartEngine \/ RestartForUpdate \/ UserStarts
  BY <1>5, <1>8 DEF RestartEngine, RestartForUpdate, UserStarts, engine
<1>9. CASE Installed \/ Relaunched \/ HandoffFails
  BY <1>5, <1>9 DEF Installed, Relaunched, HandoffFails, engine
<1>10. CASE \E f \in Flows :
         \/ Closed(f) \/ RetirementSeen(f) \/ GivesUp(f) \/ InspectRecord(f) \/ ReadRecord(f)
         \/ RecheckRecord(f) \/ CompareRecord(f) \/ RemoveRecord(f)
  BY <1>5, <1>10
     DEF Closed, RetirementSeen, GivesUp, InspectRecord, ReadRecord, RecheckRecord, CompareRecord,
         RemoveRecord, engine
<1>11. CASE \E f \in Flows :
         StopTimesOut(f) \/ PollFinds(f) \/ PollGivesUp(f) \/ StartEnds(f)
  BY <1>5, <1>11 DEF StopTimesOut, PollFinds, PollGivesUp, StartEnds, engine
<1>12. CASE \E s \in Serves : Withdraw(s)
  BY <1>5, <1>12 DEF Withdraw
<1> QED
  BY <1>2, <1>3, <1>4, <1>6, <1>7, <1>8, <1>9, <1>10, <1>11, <1>12 DEF NextHandoff

\* What the discovery, the client and the list of the removed records may become.
RecordMoves ==
  \/ discovery' \in {discovery, 0} /\ unlinked' = unlinked /\ raced' = raced
  \/ /\ discovery' = 0 /\ discovery # 0 /\ serve' = serve /\ raced' = raced
     /\ unlinked' = unlinked \cup {discovery}
     /\ \E f \in Flows : pc[f] = "removing"
  \/ /\ unlinked' = unlinked
     /\ \E s \in Serves : /\ discovery' = s /\ serve[s] = "starting"
                          /\ serve' = [serve EXCEPT ![s] = "serving"]
                          /\ raced' = IF \E f \in Flows : pc[f] = "removing" THEN raced \cup {s} ELSE raced
                          /\ UNCHANGED <<pc, pid, raw>>
ClientMoves ==
  \/ client' \in {client, 0}
  \/ serve' = serve /\ client' = conn.target /\ serve[conn.target] = "serving"

LEMMA MovesOfRecords == ASSUME [NextHandoff]_handoffVars PROVE RecordMoves
<1>1. CASE \E s \in Serves : Up(s)
  BY <1>1 DEF Up, flows, history, RecordMoves
<1>2. CASE \E f \in Flows : RemoveRecord(f)
  BY <1>2 DEF RemoveRecord, At, RecordMoves
<1>3. CASE discovery' \in {discovery, 0} /\ unlinked' = unlinked /\ raced' = raced
  BY <1>3 DEF RecordMoves
<1>4. CASE UNCHANGED handoffVars
  BY <1>3, <1>4 DEF handoffVars, engine, history
<1>5. CASE OnClose \/ Retry \/ ConnectReads \/ ConnectOpens \/ ConnectEnds
  BY <1>3, <1>5 DEF OnClose, Retry, ConnectReads, ConnectOpens, ConnectEnds, engine, history
<1>6. CASE RestartEngine \/ RestartForUpdate \/ UserStarts
  BY <1>3, <1>6 DEF RestartEngine, RestartForUpdate, UserStarts, engine, history
<1>7. CASE Installed \/ Relaunched \/ HandoffFails
  BY <1>3, <1>7 DEF Installed, Relaunched, HandoffFails, engine, history
<1>8. CASE \E f \in Flows : Closed(f) \/ RetirementSeen(f) \/ GivesUp(f) \/ ShutdownAccepted(f)
  BY <1>3, <1>8 DEF Closed, RetirementSeen, GivesUp, ShutdownAccepted, engine, history
<1>9. CASE \E f \in Flows :
        \/ StopTimesOut(f) \/ PollFinds(f) \/ PollGivesUp(f) \/ StartEnds(f)
        \/ InspectRecord(f) \/ ReadRecord(f) \/ StopProcess(f) \/ RecheckRecord(f) \/ CompareRecord(f)
  BY <1>3, <1>9
     DEF StopTimesOut, PollFinds, PollGivesUp, StartEnds, InspectRecord, ReadRecord, StopProcess,
         RecheckRecord, CompareRecord, engine, history
<1>10. CASE \E s \in Serves : \/ Terminal(s) \/ Withdraw(s) \/ Die(s)
                              \/ \E f \in Flows : Spawn(f, s)
  BY <1>3, <1>10 DEF Terminal, Withdraw, Die, Spawn, history
<1> QED
  BY <1>1, <1>2, <1>4, <1>5, <1>6, <1>7, <1>8, <1>9, <1>10 DEF NextHandoff

LEMMA MovesOfClient == ASSUME [NextHandoff]_handoffVars PROVE ClientMoves
<1>1. CASE ConnectOpens
  BY <1>1 DEF ConnectOpens, engine, ClientMoves
<1>2. CASE client' \in {client, 0}
  BY <1>2 DEF ClientMoves
<1>3. CASE UNCHANGED handoffVars
  BY <1>2, <1>3 DEF handoffVars, renderer
<1>4. CASE OnClose \/ Retry \/ ConnectReads \/ ConnectEnds
  BY <1>2, <1>4 DEF OnClose, Retry, Connects, ConnectReads, ConnectEnds
<1>5. CASE RestartEngine \/ RestartForUpdate \/ UserStarts
  BY <1>2, <1>5 DEF RestartEngine, RestartForUpdate, UserStarts, Retires, renderer
<1>6. CASE Installed \/ Relaunched \/ HandoffFails
  BY <1>2, <1>6 DEF Installed, Relaunched, HandoffFails, renderer
<1>7. CASE \E f \in Flows : Closed(f) \/ RetirementSeen(f) \/ GivesUp(f) \/ ShutdownAccepted(f)
  BY <1>2, <1>7 DEF Closed, RetirementSeen, GivesUp, ShutdownAccepted, renderer
<1>8. CASE \E f \in Flows : StopTimesOut(f) \/ PollFinds(f) \/ PollGivesUp(f) \/ StartEnds(f)
  BY <1>2, <1>8 DEF StopTimesOut, PollFinds, Connects, PollGivesUp, StartEnds
<1>9. CASE \E f \in Flows :
        \/ InspectRecord(f) \/ ReadRecord(f) \/ StopProcess(f)
        \/ RecheckRecord(f) \/ CompareRecord(f) \/ RemoveRecord(f)
  BY <1>2, <1>9
     DEF InspectRecord, ReadRecord, StopProcess, RecheckRecord, CompareRecord, RemoveRecord, renderer
<1>10. CASE \E s \in Serves : \/ Terminal(s) \/ Up(s) \/ Withdraw(s) \/ Die(s)
                              \/ \E f \in Flows : Spawn(f, s)
  BY <1>2, <1>10 DEF Terminal, Up, Withdraw, Die, Spawn, renderer
<1> QED
  BY <1>1, <1>3, <1>4, <1>5, <1>6, <1>7, <1>8, <1>9, <1>10 DEF NextHandoff

\* What the update may become in a step: it stands, begins, ends, starts an Engine, goes
\* on, sees the retirement, or installs.
Stands == pc'["update"] = pc["update"] /\ pid'["update"] = pid["update"]
Begins == /\ pc'["update"] \in {"reading", "shutdown", "retiring"}
          /\ pid'["update"] \in {client, 0}
IsOver == pc'["update"] \in {"off", "inspecting"} /\ pid'["update"] = 0
StartsOne == pc'["update"] = "polling"
GoesOn == /\ pc["update"] \notin {"polling", "connecting"} \/ pc'["update"] = "connecting"
          /\ pc'["update"] \notin {"installing", "relaunching"}
          /\ pid'["update"] = pid["update"]
SeesRetirement ==
  /\ Discovered = 0 /\ UNCHANGED <<serve, discovery>> /\ pc["update"] = "retiring"
  /\ pid'["update"] = pid["update"]
  /\ pc'["update"] = IF package = "downloaded" THEN "installing" ELSE "relaunching"
Installs ==
  /\ pc["update"] = "installing" /\ pc'["update"] = "relaunching"
  /\ pid'["update"] = pid["update"] /\ UNCHANGED <<serve, discovery>>
  /\ package' = "installed" /\ installs' = installs + 1

UpdateMoves ==
  \/ Installs
  \/ /\ Stands \/ Begins \/ IsOver \/ StartsOne \/ GoesOn \/ SeesRetirement
     /\ UNCHANGED <<package, installs>>

LEMMA FailureMoves ==
  ASSUME FlowsTyped, NEW f \in Flows, Fails(f), UNCHANGED <<package, installs>>
  PROVE  UpdateMoves
BY FailsLeaves DEF UpdateMoves, Stands, IsOver

LEMMA MovesOfUpdate ==
  ASSUME HandoffTypeOK, [NextHandoff]_handoffVars PROVE UpdateMoves
<1>1. FlowsTyped
  BY TypedGroups
<1>2. "update" \in Flows /\ "restart" \in Flows /\ "user" \in Flows
  BY DEF Flows
<1>3. ASSUME NEW f \in Flows, NEW to, Goto(f, to)
      PROVE  pc'["update"] = IF f = "update" THEN to ELSE pc["update"]
  BY <1>1, <1>2, <1>3 DEF Goto, FlowsTyped
<1>4. CASE UNCHANGED <<pc, pid, package, installs>>
  BY <1>4 DEF UpdateMoves, Stands
<1>5. CASE UNCHANGED handoffVars
  BY <1>4, <1>5 DEF handoffVars, flows, history
<1>6. CASE \E s \in Serves : Terminal(s) \/ Up(s) \/ Withdraw(s) \/ Die(s)
  BY <1>4, <1>6 DEF Terminal, Up, Withdraw, Die, flows, history
<1>7. CASE OnClose \/ Retry \/ ConnectReads \/ ConnectOpens \/ ConnectEnds
  BY <1>4, <1>7 DEF OnClose, Retry, ConnectReads, ConnectOpens, ConnectEnds, flows, history
<1>8. CASE \E s \in Serves, f \in Flows : Spawn(f, s)
  <2>1. PICK s \in Serves, f \in Flows : Spawn(f, s)
    BY <1>8
  <2>2. /\ UNCHANGED <<package, installs>> /\ pid' = [pid EXCEPT ![f] = s]
        /\ pc'["update"] = IF f = "update" THEN "polling" ELSE pc["update"]
    BY <1>3, <2>1 DEF Spawn
  <2> QED
    BY <1>1, <1>2, <2>2 DEF UpdateMoves, Stands, StartsOne, FlowsTyped
<1>9. CASE RestartEngine \/ UserStarts
  <2>1. pc'["update"] = pc["update"]
    BY <1>1, <1>2, <1>9 DEF RestartEngine, UserStarts, Retires, Goto, FlowsTyped
  <2>2. pid'["update"] = pid["update"] /\ UNCHANGED <<package, installs>>
    BY <1>1, <1>2, <1>9 DEF RestartEngine, UserStarts, Retires, FlowsTyped, history
  <2> QED
    BY <2>1, <2>2 DEF UpdateMoves, Stands
<1>10. CASE RestartForUpdate
  <2>1. pc'["update"] \in {"reading", "shutdown", "retiring"}
    BY <1>1, <1>2, <1>10 DEF RestartForUpdate, Retires, Goto, FlowsTyped
  <2>2. pid'["update"] \in {client, 0} /\ UNCHANGED <<package, installs>>
    BY <1>1, <1>2, <1>10 DEF RestartForUpdate, Retires, FlowsTyped, history
  <2> QED
    BY <2>1, <2>2 DEF UpdateMoves, Begins
<1>11. CASE Installed
  BY <1>2, <1>3, <1>11 DEF Installed, At, engine, UpdateMoves, Installs
<1>12. CASE Relaunched
  <2>1. pc["update"] = "relaunching" /\ pc'["update"] = "off"
    BY <1>2, <1>12 DEF Relaunched, At
  <2> QED
    BY <1>12, <2>1 DEF Relaunched, UpdateMoves, GoesOn, history
<1>13. CASE HandoffFails
  BY <1>1, <1>2, <1>13, FailureMoves DEF HandoffFails, history
<1>14. CASE \E f \in Flows : GivesUp(f) \/ StopTimesOut(f) \/ PollGivesUp(f)
  BY <1>1, <1>14, FailureMoves DEF GivesUp, StopTimesOut, PollGivesUp, history
<1>15. CASE \E f \in Flows : ShutdownAccepted(f) \/ Closed(f)
  <2>1. PICK f \in Flows : ShutdownAccepted(f) \/ Closed(f)
    BY <1>15
  <2>2. /\ pc[f] \in {"shutdown", "closing"} /\ UNCHANGED <<pid, package, installs>>
        /\ \E to \in {"closing", "retiring"} : Goto(f, to)
    BY <2>1 DEF ShutdownAccepted, Closed, At, history
  <2> QED
    BY <1>3, <2>2 DEF UpdateMoves, Stands, GoesOn
<1>16. CASE \E f \in Flows : RetirementSeen(f)
  <2>1. PICK f \in Flows : RetirementSeen(f)
    BY <1>16
  <2>2. CASE f = "update"
    BY <1>2, <1>3, <2>1, <2>2
       DEF RetirementSeen, At, Barrier, UpdateMoves, SeesRetirement, engine, history
  <2>3. CASE f # "update"
    BY <1>3, <2>1, <2>3 DEF RetirementSeen, UpdateMoves, Stands, history
  <2> QED
    BY <2>2, <2>3
<1>17. CASE \E f \in Flows : \/ InspectRecord(f) \/ ReadRecord(f) \/ StopProcess(f)
                            \/ RecheckRecord(f) \/ CompareRecord(f)
  <2>1. PICK f \in Flows : \/ InspectRecord(f) \/ ReadRecord(f) \/ StopProcess(f)
                           \/ RecheckRecord(f) \/ CompareRecord(f)
    BY <1>17
  <2>2. UNCHANGED <<package, installs>> /\ pc[f] \notin {"polling", "connecting"}
    BY <2>1 DEF InspectRecord, ReadRecord, StopProcess, RecheckRecord, CompareRecord, At, history
  <2>3. CASE Fails(f)
    BY <1>1, <2>2, <2>3, FailureMoves
  <2>4. CASE /\ UNCHANGED pid
             /\ \E to \in {"spawning", "reading", "signalling", "killed", "retiring", "rechecking", "removing"} :
                  Goto(f, to)
    BY <1>3, <2>2, <2>4 DEF UpdateMoves, Stands, GoesOn
  <2>5. after[f] \in {"retiring", "spawning"}
    BY <1>1 DEF FlowsTyped
  <2> QED
    BY <2>1, <2>3, <2>4, <2>5
       DEF InspectRecord, ReadRecord, StopProcess, RecheckRecord, CompareRecord, Retired
<1>18. CASE \E f \in Flows : RemoveRecord(f)
  <2>1. PICK f \in Flows : RemoveRecord(f)
    BY <1>18
  <2>2. UNCHANGED <<package, installs>> /\ pc[f] = "removing"
    BY <2>1 DEF RemoveRecord, At
  <2>3. CASE Fails(f)
    BY <1>1, <2>2, <2>3, FailureMoves
  <2>4. CASE UNCHANGED pid /\ \E to \in {"retiring", "spawning"} : Goto(f, to)
    BY <1>3, <2>2, <2>4 DEF UpdateMoves, Stands, GoesOn
  <2>5. after[f] \in {"retiring", "spawning"}
    BY <1>1 DEF FlowsTyped
  <2> QED
    BY <2>1, <2>3, <2>4, <2>5 DEF RemoveRecord, Retired
<1>19. CASE \E f \in Flows : PollFinds(f)
  <2>1. PICK f \in Flows : PollFinds(f)
    BY <1>19
  <2>2. UNCHANGED <<pid, package, installs>> /\ Goto(f, "connecting")
    BY <2>1 DEF PollFinds, history
  <2> QED
    BY <1>3, <2>2 DEF UpdateMoves, Stands, GoesOn
<1>20. CASE \E f \in Flows : StartEnds(f)
  <2>1. PICK f \in Flows : StartEnds(f)
    BY <1>20
  <2>2. /\ UNCHANGED <<package, installs>> /\ Goto(f, "off") /\ pid' = [pid EXCEPT ![f] = 0]
    BY <2>1 DEF StartEnds, Ends, history
  <2> QED
    BY <1>1, <1>2, <1>3, <2>2 DEF UpdateMoves, Stands, IsOver, FlowsTyped
<1> QED
  BY <1>5, <1>6, <1>7, <1>8, <1>9, <1>10, <1>11, <1>12, <1>13, <1>14, <1>15, <1>16, <1>17,
     <1>18, <1>19, <1>20 DEF NextHandoff

\* What a step does to a flow that has opened a record: nothing, or it opens one, stops its
\* process, finds it dead, finds it the same, or is done with it.
RetireMoves(f) ==
  \/ pc'[f] = pc[f] /\ raw'[f] = raw[f]
  \/ pc'[f] \notin Opened
  \/ pc'[f] = "signalling" /\ raw'[f] = discovery /\ discovery # 0
  \/ pc[f] = "signalling" /\ pc'[f] = "killed" /\ raw'[f] = raw[f]
  \/ /\ pc[f] = "killed" /\ pc'[f] = "rechecking" /\ raw'[f] = raw[f]
     /\ ~Alive(raw[f]) /\ serve' = serve
  \/ /\ pc[f] = "rechecking" /\ pc'[f] = "removing" /\ raw'[f] = raw[f]
     /\ discovery = raw[f] /\ UNCHANGED <<discovery, raced, serve>>

LEMMA MovesOfRetirement ==
  ASSUME HandoffTypeOK, [NextHandoff]_handoffVars, NEW g \in Flows PROVE RetireMoves(g)
<1>1. FlowsTyped
  BY TypedGroups
<1>2. ASSUME NEW f \in Flows, NEW to, Goto(f, to)
      PROVE  pc'[g] = IF g = f THEN to ELSE pc[g]
  BY <1>1, <1>2 DEF Goto, FlowsTyped
<1>3. ASSUME NEW f \in Flows, NEW to, Goto(f, to), to \notin Opened,
             \/ raw' = raw
             \/ raw' = [raw EXCEPT ![f] = 0]
      PROVE  RetireMoves(g)
  <2>1. g # f => raw'[g] = raw[g]
    BY <1>1, <1>3 DEF FlowsTyped
  <2> QED
    BY <1>2, <1>3, <2>1 DEF RetireMoves
<1>4. ASSUME NEW f \in Flows, Fails(f) PROVE RetireMoves(g)
  <2>1. \E to \in {"off", "inspecting"} : Goto(f, to)
    BY <1>4 DEF Fails, Ends
  <2>2. raw' = [raw EXCEPT ![f] = 0]
    BY <1>4 DEF Fails, Ends
  <2> QED
    BY <1>3, <2>1, <2>2 DEF Opened
<1>5. CASE UNCHANGED <<pc, raw>>
  BY <1>5 DEF RetireMoves
<1>6. CASE UNCHANGED handoffVars
  BY <1>5, <1>6 DEF handoffVars, flows
<1>7. CASE \E s \in Serves : Terminal(s) \/ Up(s) \/ Withdraw(s) \/ Die(s)
  BY <1>5, <1>7 DEF Terminal, Up, Withdraw, Die, flows
<1>8. CASE OnClose \/ Retry \/ ConnectReads \/ ConnectOpens \/ ConnectEnds
  BY <1>5, <1>8 DEF OnClose, Retry, ConnectReads, ConnectOpens, ConnectEnds, flows
<1>9. CASE \E s \in Serves, f \in Flows : Spawn(f, s)
  BY <1>3, <1>9 DEF Spawn, Opened
<1>10. CASE RestartEngine \/ RestartForUpdate \/ UserStarts
  <2>1. \E f \in Flows, to \in {"inspecting", "reading", "shutdown", "retiring"} : Goto(f, to)
    BY <1>10 DEF RestartEngine, RestartForUpdate, UserStarts, Retires, Flows
  <2>2. raw' = raw
    BY <1>10 DEF RestartEngine, RestartForUpdate, UserStarts
  <2> QED
    BY <1>3, <2>1, <2>2 DEF Opened
<1>11. CASE Installed
  BY <1>3, <1>11 DEF Installed, Opened, Flows
<1>12. CASE Relaunched
  BY <1>12 DEF Relaunched, RetireMoves, Opened
<1>13. CASE HandoffFails
  BY <1>4, <1>13 DEF HandoffFails, Flows
<1>14. CASE \E f \in Flows : GivesUp(f) \/ StopTimesOut(f) \/ PollGivesUp(f)
  BY <1>4, <1>14 DEF GivesUp, StopTimesOut, PollGivesUp
<1>15. CASE \E f \in Flows : ShutdownAccepted(f) \/ Closed(f) \/ PollFinds(f)
  BY <1>3, <1>15 DEF ShutdownAccepted, Closed, PollFinds, Opened
<1>16. CASE \E f \in Flows : RetirementSeen(f)
  <2>1. PICK f \in Flows : RetirementSeen(f)
    BY <1>16
  <2>2. /\ raw' = raw
        /\ \E to \in {"inspecting", "installing", "relaunching"} : Goto(f, to)
    BY <2>1 DEF RetirementSeen
  <2> QED
    BY <1>3, <2>2 DEF Opened
<1>17. CASE \E f \in Flows : StartEnds(f)
  BY <1>3, <1>17 DEF StartEnds, Ends, Opened
<1>18. CASE \E f \in Flows : InspectRecord(f)
  BY <1>3, <1>18 DEF InspectRecord, Opened
<1>19. CASE \E f \in Flows : ReadRecord(f)
  <2>1. PICK f \in Flows : ReadRecord(f)
    BY <1>19
  <2>2. CASE Goto(f, "signalling") /\ raw' = [raw EXCEPT ![f] = discovery] /\ discovery # 0
    <3>1. raw'[g] = IF g = f THEN discovery ELSE raw[g]
      BY <1>1, <2>2 DEF FlowsTyped
    <3> QED
      BY <1>2, <2>2, <3>1 DEF RetireMoves
  <2> QED
    BY <1>4, <2>1, <2>2 DEF ReadRecord
<1>20. CASE \E f \in Flows : StopProcess(f)
  <2>1. PICK f \in Flows : StopProcess(f)
    BY <1>20
  <2>2. CASE Goto(f, "killed") /\ raw' = raw /\ pc[f] = "signalling"
    BY <1>2, <2>2 DEF RetireMoves
  <2> QED
    BY <1>4, <2>1, <2>2 DEF StopProcess, At
<1>21. CASE \E f \in Flows : RecheckRecord(f)
  <2>1. PICK f \in Flows : RecheckRecord(f)
    BY <1>21
  <2>2. pc[f] = "killed" /\ ~Alive(raw[f]) /\ serve' = serve
    BY <2>1 DEF RecheckRecord, At, engine
  <2>3. CASE Goto(f, "rechecking") /\ raw' = raw
    BY <1>2, <2>2, <2>3 DEF RetireMoves
  <2>4. CASE Retired(f)
    BY <1>1, <1>3, <2>4 DEF Retired, FlowsTyped, Opened
  <2> QED
    BY <2>1, <2>3, <2>4 DEF RecheckRecord
<1>22. CASE \E f \in Flows : CompareRecord(f)
  <2>1. PICK f \in Flows : CompareRecord(f)
    BY <1>22
  <2>2. pc[f] = "rechecking" /\ UNCHANGED <<discovery, raced, serve>>
    BY <2>1 DEF CompareRecord, At, engine, history
  <2>3. CASE Goto(f, "removing") /\ raw' = raw /\ discovery = raw[f]
    BY <1>2, <2>2, <2>3 DEF RetireMoves
  <2> QED
    BY <1>4, <2>1, <2>3 DEF CompareRecord, SameRecord
<1>23. CASE \E f \in Flows : RemoveRecord(f)
  <2>1. PICK f \in Flows : RemoveRecord(f)
    BY <1>23
  <2>2. CASE Retired(f)
    BY <1>1, <1>3, <2>2 DEF Retired, FlowsTyped, Opened
  <2> QED
    BY <1>4, <2>1, <2>2 DEF RemoveRecord
<1> QED
  BY <1>6, <1>7, <1>8, <1>9, <1>10, <1>11, <1>12, <1>13, <1>14, <1>15, <1>16, <1>17, <1>18,
     <1>19, <1>20, <1>21, <1>22, <1>23 DEF NextHandoff

LEMMA HandoffStep ==
  ASSUME HandoffInv, [NextHandoff]_handoffVars PROVE HandoffInv'
<1>1. HandoffTypeOK /\ HandoffTypeOK'
  BY HandoffTypes DEF HandoffInv
<1>2. Forward /\ RecordMoves /\ ClientMoves /\ UpdateMoves
  BY <1>1, GoesForward, MovesOfRecords, MovesOfClient, MovesOfUpdate
<1>3. /\ ServesTyped /\ ServesTyped' /\ RecordsTyped /\ unlinked \subseteq Serves
      /\ pid["update"] \in 0..MaxServes /\ installs \in Nat
  BY <1>1 DEF HandoffTypeOK, ServesTyped, RecordsTyped, Flows
<1>4. \A s \in 0..MaxServes : IsPast(s) => IsPast(s)'
  <2> SUFFICES ASSUME NEW s \in 0..MaxServes, IsPast(s), s # 0 PROVE IsPast(s)'
    BY DEF IsPast
  <2>1. s \in Serves
    BY EngineHandoffAssumption DEF Serves
  <2> QED
    BY <1>2, <2>1 DEF Forward, IsPast
<1>5. IsPast(discovery)'
  <2>1. CASE discovery' \in {discovery, 0}
    <3>1. discovery' = discovery => IsPast(discovery)'
      BY <1>2, <1>3, EngineHandoffAssumption
         DEF Forward, HandoffInv, EnginesHold, IsPast, RecordsTyped, Serves
    <3> QED
      BY <2>1, <3>1 DEF IsPast
  <2>2. ASSUME NEW s \in Serves, discovery' = s, serve' = [serve EXCEPT ![s] = "serving"]
        PROVE  IsPast(discovery)'
    BY <1>3, <2>2 DEF ServesTyped, IsPast
  <2> QED
    BY <1>2, <2>1, <2>2 DEF RecordMoves
<1>6. IsPast(client)'
  <2>1. CASE client' = client
    BY <1>2, <1>3, <2>1, EngineHandoffAssumption
       DEF Forward, HandoffInv, EnginesHold, IsPast, RecordsTyped, Serves
  <2>2. CASE client' = 0
    BY <2>2 DEF IsPast
  <2>3. CASE serve' = serve /\ client' = conn.target /\ serve[conn.target] = "serving"
    BY <2>3 DEF IsPast
  <2> QED
    BY <1>2, <2>1, <2>2, <2>3 DEF ClientMoves
<1>7. pc'["update"] \notin {"polling", "connecting"} =>
        \/ pid'["update"] = 0
        \/ pid'["update"] = pid["update"] /\ IsPast(pid["update"])
        \/ pid'["update"] = client
  BY <1>2 DEF UpdateMoves, Stands, Begins, IsOver, StartsOne, GoesOn, SeesRetirement, Installs,
              HandoffInv, EnginesHold
<1>8. EnginesHold'
  <2>1. ASSUME pc'["update"] \notin {"polling", "connecting"} PROVE IsPast(pid["update"])'
    <3>1. CASE pid'["update"] = 0
      BY <3>1 DEF IsPast
    <3>2. CASE pid'["update"] = pid["update"] /\ IsPast(pid["update"])
      BY <1>2, <1>3, <3>2, EngineHandoffAssumption DEF Forward, IsPast, Serves
    <3>3. CASE pid'["update"] = client
      BY <1>2, <1>3, <3>3, EngineHandoffAssumption
         DEF Forward, HandoffInv, EnginesHold, IsPast, RecordsTyped, Serves
    <3> QED
      BY <1>7, <2>1, <3>1, <3>2, <3>3
  <2> QED
    BY <1>5, <1>6, <2>1 DEF EnginesHold
<1>9. PackageHolds'
  BY <1>2 DEF UpdateMoves, Stands, Begins, IsOver, StartsOne, GoesOn, SeesRetirement, Installs,
              HandoffInv, PackageHolds
<1>10. RecordsAreCompared'
  <2>1. ASSUME NEW s \in unlinked', s \notin raced'
        PROVE  s \in Serves /\ serve[s] = "dead"
    <3>1. raced \subseteq raced'
      BY <1>2 DEF RecordMoves
    <3>2. CASE s \in unlinked
      BY <1>3, <2>1, <3>1, <3>2 DEF HandoffInv, RecordsAreCompared
    <3>3. CASE s \notin unlinked
      <4>1. PICK f \in Flows : pc[f] = "removing" /\ s = discovery /\ discovery # 0 /\ raced' = raced
        BY <1>2, <2>1, <3>3 DEF RecordMoves
      <4>2. s = raw[f] /\ serve[raw[f]] = "dead"
        BY <2>1, <4>1 DEF HandoffInv, OpenedHold
      <4>3. s \in Serves
        BY <1>3, <4>1, EngineHandoffAssumption DEF RecordsTyped, Serves
      <4> QED
        BY <4>2, <4>3
    <3> QED
      BY <3>2, <3>3
  <2> QED
    BY <1>2, <2>1 DEF Forward, RecordsAreCompared
<1>11. installs' <= 1
  BY <1>2, <1>3 DEF UpdateMoves, Installs, HandoffInv, PackageHolds, InstalledOnceRetired
<1>12. ASSUME pc'["update"] \in {"installing", "relaunching"}, pid'["update"] # 0
       PROVE  Discovered' # pid'["update"]
  <2>1. CASE SeesRetirement
    BY <1>12, <2>1 DEF SeesRetirement, Discovered, Alive
  <2>2. CASE Installs
    BY <1>12, <2>2 DEF Installs, HandoffInv, InstalledOnceRetired, Discovered, Alive
  <2>3. CASE Stands
    <3> DEFINE p == pid["update"]
    <3>1. p \in Serves /\ p # 0 /\ pid'["update"] = p /\ Discovered # p /\ IsPast(p)
      BY <1>3, <1>12, <2>3, EngineHandoffAssumption
         DEF Stands, HandoffInv, InstalledOnceRetired, EnginesHold, Serves
    <3> HIDE DEF p
    <3> SUFFICES ASSUME discovery' = p, serve'[p] \in {"starting", "serving", "stopping"}
                 PROVE  FALSE
      BY <3>1 DEF Discovered, Alive
    <3>2. CASE discovery' = discovery
      <4>1. serve[p] \notin {"starting", "serving", "stopping"}
        BY <3>1, <3>2 DEF Discovered, Alive
      <4>2. serve[p] = "dead"
        BY <1>3, <3>1, <4>1 DEF ServesTyped, IsPast
      <4> QED
        BY <1>2, <3>1, <4>2 DEF Forward
    <3>3. CASE \E s \in Serves : discovery' = s /\ serve[s] = "starting"
      BY <3>1, <3>3 DEF IsPast
    <3>4. discovery' # 0
      BY <3>1
    <3> QED
      BY <1>2, <3>2, <3>3, <3>4 DEF RecordMoves
  <2> QED
    BY <1>2, <1>12, <2>1, <2>2, <2>3 DEF UpdateMoves, Begins, IsOver, StartsOne, GoesOn
<1>13. InstalledOnceRetired'
  BY <1>11, <1>12 DEF InstalledOnceRetired
<1>14. OpenedHold'
  <2>1. \A f \in Flows : RetireMoves(f)
    BY <1>1, MovesOfRetirement
  <2>2. ASSUME NEW f \in Flows, pc'[f] \in Opened
        PROVE  raw'[f] \in Serves /\ IsPast(raw'[f]) /\ IsPast(raw[f])'
    <3>1. raw'[f] \in 0..MaxServes /\ raw[f] \in 0..MaxServes
      BY <1>1 DEF HandoffTypeOK
    <3>2. raw'[f] # 0 /\ IsPast(raw'[f])
      BY <2>1, <2>2 DEF RetireMoves, Opened, HandoffInv, OpenedHold, EnginesHold
    <3>3. raw'[f] \in Serves
      BY <3>1, <3>2, EngineHandoffAssumption DEF Serves
    <3> QED
      BY <1>2, <3>2, <3>3 DEF Forward, IsPast
  <2>3. ASSUME NEW f \in Flows, pc'[f] \in {"rechecking", "removing"}
        PROVE  serve'[raw'[f]] = "dead"
    <3>1. raw'[f] \in Serves /\ IsPast(raw'[f])
      BY <2>2, <2>3 DEF Opened
    <3>2. raw'[f] = raw[f]
      BY <2>1, <2>3 DEF RetireMoves, Opened
    <3>3. serve[raw[f]] = "dead"
      <4>1. CASE pc[f] \in {"rechecking", "removing"}
        BY <4>1 DEF HandoffInv, OpenedHold
      <4>2. CASE ~Alive(raw[f])
        BY <1>3, <3>1, <3>2, <4>2, EngineHandoffAssumption DEF Alive, IsPast, ServesTyped, Serves
      <4> QED
        BY <2>1, <2>3, <4>1, <4>2 DEF RetireMoves, Opened
    <3> QED
      BY <1>2, <3>1, <3>2, <3>3 DEF Forward
  <2>4. ASSUME NEW f \in Flows, pc'[f] = "removing"
        PROVE  discovery' \in {0, raw'[f]} \cup raced'
    <3>1. CASE pc[f] = "removing" /\ raw'[f] = raw[f]
      <4>1. discovery \in {0, raw[f]} \cup raced
        BY <3>1 DEF HandoffInv, OpenedHold
      <4> QED
        BY <1>2, <3>1, <4>1 DEF RecordMoves
    <3>2. CASE discovery = raw[f] /\ raw'[f] = raw[f] /\ discovery' = discovery
      BY <3>2
    <3> QED
      BY <2>1, <2>4, <3>1, <3>2 DEF RetireMoves, Opened
  <2>5. \A f \in Flows : pc'[f] \in Opened => raw'[f] # 0 /\ IsPast(raw[f])'
    BY <2>2, EngineHandoffAssumption DEF Serves
  <2>6. Opened' = Opened
    BY DEF Opened
  <2> QED
    BY <2>3, <2>4, <2>5, <2>6 DEF OpenedHold
<1> QED
  BY <1>1, <1>8, <1>9, <1>10, <1>13, <1>14 DEF HandoffInv

\* What the renderer and the native side keep of the Engine keeps its types.
THEOREM HandoffTypeCorrect == SpecHandoff => []HandoffTypeOK
<1>1. SpecHandoff => []HandoffInv
  BY HandoffStart, HandoffStep, PTL DEF SpecHandoff
<1>2. HandoffInv => HandoffTypeOK
  BY DEF HandoffInv
<1> QED
  BY <1>1, <1>2, PTL

\* However the restart, the update and the user's own start interleave, and whichever
\* Engines come and die meanwhile: a discovery record that is removed is that of a dead
\* process, unless another wrote its own between the comparison and the removal; and the
\* update is installed at most once, when the Engine that it retired can no longer be
\* discovered.
THEOREM HandedOver == SpecHandoff => [](RecordsAreCompared /\ InstalledOnceRetired)
<1>1. SpecHandoff => []HandoffInv
  BY HandoffStart, HandoffStep, PTL DEF SpecHandoff
<1>2. HandoffInv => RecordsAreCompared /\ InstalledOnceRetired
  BY DEF HandoffInv
<1> QED
  BY <1>1, <1>2, PTL

--------------------------------------------------------------------------------
(* The command-line Hara. *)

\* A process that does not run does nothing, and what one has copied is its own bundle.
ProcessesHold ==
  /\ \A p \in Procs : bundle[p] = None => work[p] = "idle"
  /\ \A p \in Procs : work[p] = "moving" => digest[p] = bundle[p]

\* A process that is to replace the file, though nobody asked for it, has looked at one
\* that is not the user's, and nobody has changed it since.
LeavesOwn == \A p \in undisturbed \ asked :
  work[p] \in {"copying", "moving"} => cli # Own

\* The receipt that a process is to write is that of the file, and so is the receipt when
\* a process of the file's release has gone through, unless somebody came between.
ReceiptsHold == \A p \in undisturbed :
  /\ work[p] = "receipt" => digest[p] = cli
  /\ work[p] = "verifying" /\ Current(p) => receipt \in {None, Elsewhere, cli}

CliInv == ManagedCliTypeOK /\ ProcessesHold /\ LeavesOwn /\ ReceiptsHold

LEMMA CliStart == InitManagedCli => CliInv
BY ManagedCliAssumption
   DEF InitManagedCli, CliInv, ManagedCliTypeOK, ProcessesHold, LeavesOwn, ReceiptsHold,
       Files, CliSteps

\* One process takes a step, another Desktop starts or stops, or the user acts.
LEMMA CliStep ==
  ASSUME CliInv, [NextManagedCli]_cliVars
  PROVE  CliInv'
<1> USE DEF CliInv, ManagedCliTypeOK, Files, CliSteps, ProcessesHold, LeavesOwn, ReceiptsHold,
            Present, Managed, Current, Blocked
<1>1. ASSUME NEW p \in Procs, NEW b \in Releases, StartDesktop(p, b) PROVE CliInv'
  BY <1>1, ManagedCliAssumption DEF StartDesktop
<1>2. ASSUME NEW p \in Procs, Synchronize(p) PROVE CliInv'
  <2>1. CASE Recovers(p)
    BY <1>2, <2>1, ManagedCliAssumption DEF Synchronize, Recovers
  <2>2. CASE ~Recovers(p) /\ Replaces(p)
    BY <1>2, <2>2, ManagedCliAssumption DEF Synchronize, Replaces
  <2>3. CASE ~Recovers(p) /\ ~Replaces(p)
    BY <1>2, <2>3, ManagedCliAssumption DEF Synchronize, Recovers, Replaces
  <2> QED
    BY <2>1, <2>2, <2>3
<1>3. ASSUME NEW p \in Procs, Install(p) PROVE CliInv'
  BY <1>3, ManagedCliAssumption DEF Install
<1>4. ASSUME NEW p \in Procs, Copy(p) PROVE CliInv'
  BY <1>4, ManagedCliAssumption DEF Copy
<1>5. ASSUME NEW p \in Procs, Move(p) PROVE CliInv'
  BY <1>5, ManagedCliAssumption DEF Move
<1>6. ASSUME NEW p \in Procs, Recover(p) PROVE CliInv'
  BY <1>6, ManagedCliAssumption DEF Recover
<1>7. ASSUME NEW p \in Procs, WriteReceipt(p) PROVE CliInv'
  BY <1>7, ManagedCliAssumption DEF WriteReceipt
<1>8. ASSUME NEW p \in Procs, Verify(p) PROVE CliInv'
  BY <1>8, ManagedCliAssumption DEF Verify
<1>9. ASSUME NEW p \in Procs, Stop(p) PROVE CliInv'
  BY <1>9, ManagedCliAssumption DEF Stop
<1>10. ASSUME NEW file \in Files, Edit(file) PROVE CliInv'
  BY <1>10, ManagedCliAssumption DEF Edit
<1>11. CASE UNCHANGED cliVars
  BY <1>11 DEF cliVars
<1> QED
  BY <1>1, <1>2, <1>3, <1>4, <1>5, <1>6, <1>7, <1>8, <1>9, <1>10, <1>11 DEF NextManagedCli

\* What the host keeps of the command-line Hara keeps its types, for any number of
\* processes and releases.
THEOREM CliTypeCorrect == SpecManagedCli => []ManagedCliTypeOK
<1>1. SpecManagedCli => []CliInv
  BY CliStart, CliStep, PTL DEF SpecManagedCli
<1>2. CliInv => ManagedCliTypeOK
  BY DEF CliInv
<1> QED
  BY <1>1, <1>2, PTL

\* What takes the place of a file of the user's own is his own doing, or asked for, or came
\* after somebody else had changed what a process had looked at.
LEMMA OwnStays ==
  ASSUME CliInv, [NextManagedCli]_cliVars, cli = Own, cli' # Own
  PROVE  \/ edits' # edits
         \/ \E p \in Procs : work[p] = "moving" /\ (p \in asked \/ p \notin undisturbed)
<1>1. CASE \E p \in Procs : Move(p)
  BY <1>1 DEF Move, CliInv, LeavesOwn
<1>2. CASE \E file \in Files : Edit(file)
  BY <1>2 DEF Edit, CliInv, ManagedCliTypeOK
<1>3. CASE UNCHANGED cli
  BY <1>3
<1> QED
  BY <1>1, <1>2, <1>3
     DEF NextManagedCli, cliVars, StartDesktop, Synchronize, Install, Copy, Recover,
         WriteReceipt, Verify, Stop

\* A process that has gone through for the release of the file leaves it managed.
LEMMA HoldStays ==
  ASSUME CliInv, NEW p \in Procs, work[p] = "verifying", p \in undisturbed, Current(p),
         receipt \notin {None, Elsewhere}
  PROVE  Managed
BY ManagedCliAssumption
   DEF CliInv, ManagedCliTypeOK, ProcessesHold, ReceiptsHold, Current, Managed, Present

\* Only what the user asked for, or did behind the back of a process, takes the place of a
\* file of his own; and a release's file ends as a managed one when nobody came between,
\* whatever processes of whatever releases overlap and die between the two renames
\* (CliIsTheUsers).
THEOREM CliStaysTheUsers == SpecManagedCli => CliIsTheUsers
<1>1. SpecManagedCli => []CliInv
  BY CliStart, CliStep, PTL DEF SpecManagedCli
<1>2. CliInv /\ [NextManagedCli]_cliVars =>
        [cli = Own /\ cli' # Own =>
           \/ edits' # edits
           \/ \E p \in Procs : work[p] = "moving" /\ (p \in asked \/ p \notin undisturbed)]_cliVars
  BY OwnStays
<1>3. CliInv /\ [NextManagedCli]_cliVars =>
        [\A p \in Procs :
           work[p] = "verifying" /\ work'[p] = "idle" /\ bundle'[p] # None
             /\ p \in undisturbed /\ Current(p) /\ receipt \notin {None, Elsewhere}
           => Managed]_cliVars
  BY HoldStays
<1> QED
  BY <1>1, <1>2, <1>3, PTL DEF SpecManagedCli, CliIsTheUsers, UsersFileStays, HoldIsRecovered

--------------------------------------------------------------------------------
(* The host. *)

\* The whole of it, whatever the parts do around each other: HandedOver, and OneCore.
THEOREM HostHandsOver == HostSpec => []ProcessesAreHandedOver
<1>1. HostSpec => SpecHandoff /\ SpecCore
  BY DEF HostSpec
<1>2. RecordsAreCompared /\ InstalledOnceRetired /\ OneCore => ProcessesAreHandedOver
  BY DEF ProcessesAreHandedOver
<1> QED
  BY <1>1, <1>2, HandedOver, OneCoreAtATime, PTL

--------------------------------------------------------------------------------
(* The personal channels: the messages. *)

Messages == [id : 0..MaxItems, text : 0..MaxTexts, kind : Kinds \union {"none"},
             state : {"none", "sending", "unknown"}]
RoomRequests == [kind : {"send", "receipt"}, channel : Channels, item : Messages, epoch : Nat, late : BOOLEAN]
SendCall(rpc) == rpc.kind = "send"
\* A receipt is asked for what is unknown.
AsksReceipt(rpc) == rpc \in RoomRequests /\ ~SendCall(rpc) /\ rpc.item.state = "unknown"
WireTyped ==
  /\ \A rpc \in roomCalls : rpc \in RoomRequests
  /\ \A reply \in replies : reply.call \in RoomRequests /\ reply.result \in {"ok", "refused", "unknown"}
  /\ items \in Seq([channel : Channels, text : 0..MaxTexts]) /\ Len(items) <= MaxItems
  /\ accepted \subseteq 1..Len(items)

\* What a pending message says of itself is what was sent.
TrueIn(sent, item, c) ==
  /\ item.id \in 1..Len(sent) /\ sent[item.id].channel = c
  /\ item.kind \in {"message", "answer"} => sent[item.id].text = item.text /\ item.text # 0
  /\ item.kind = "card" => sent[item.id].text = 0
  /\ item.kind = "none" => item.text = 0
PendingIsSaved ==
  /\ place # NoChannel => bound
  /\ \A c \in Channels : saved[c] # 0 => saved[c] \in 1..Len(items) /\ items[saved[c]].channel = c
  /\ \A c \in Channels : roomPending[c] # Nothing =>
       roomPending[c].id = saved[c] /\ TrueIn(items, roomPending[c], c) /\ roomPending[c].state # "none"
  /\ bound => \A c \in Channels : saved[c] # 0 => roomPending[c] # Nothing

CallsSaved ==
  /\ \A rpc \in roomCalls : SendCall(rpc) =>
       /\ saved[rpc.channel] = rpc.item.id /\ TrueIn(items, rpc.item, rpc.channel)
       /\ rpc.item.id \notin accepted
       /\ ~rpc.late => roomPending[rpc.channel] = rpc.item /\ rpc.item.state = "sending"
  /\ \A a, b \in roomCalls : SendCall(a) /\ SendCall(b) /\ a.channel = b.channel => a = b
  /\ \A rpc \in roomCalls : ~SendCall(rpc) => rpc.item.state = "unknown"
RepliesAwaited ==
  /\ \A reply \in replies : SendCall(reply.call) =>
       /\ roomPending[reply.call.channel] = reply.call.item /\ reply.call.item.state = "sending"
       /\ reply.result = "ok" => reply.call.item.id \in accepted
       /\ reply.result = "refused" => reply.call.item.id \notin accepted
       /\ \A rpc \in roomCalls : SendCall(rpc) /\ rpc.channel = reply.call.channel =>
            rpc.late /\ reply.result = "unknown"
  /\ \A a, b \in replies : SendCall(a.call) /\ SendCall(b.call) /\ a.call.channel = b.call.channel => a = b
  /\ \A reply \in replies : ~SendCall(reply.call) =>
       reply.call.item.state = "unknown" /\ (reply.result = "ok" => reply.call.item.id \in accepted)

TextsTold ==
  /\ \A c \in Channels : drafts[c] <= written
  /\ \A i \in 1..Len(items) : items[i].text <= written
  /\ \A c, d \in Channels : drafts[c] # 0 /\ drafts[c] = drafts[d] => c = d
  /\ \A i \in 1..Len(items), c \in Channels :
       drafts[c] # 0 /\ drafts[c] = items[i].text => items[i].channel = c

\* A message that the Core has accepted, or may
Counts(i) == i \in accepted \/ \E rpc \in roomCalls : SendCall(rpc) /\ rpc.item.id = i
HeldIsPending ==
  \A i \in 1..Len(items) : Counts(i) /\ items[i].text # 0 /\ drafts[items[i].channel] = items[i].text =>
    LET item == roomPending[items[i].channel] IN item.id = i /\ item.kind \in {"message", "answer"}
CountsOnce ==
  \A i, j \in 1..Len(items) : Counts(i) /\ Counts(j) /\ items[i].text # 0 /\ items[i].text = items[j].text => i = j

SendsInv ==
  /\ SendsTypeOK /\ WireTyped /\ PendingIsSaved /\ CallsSaved /\ RepliesAwaited /\ TextsTold /\ HeldIsPending
  /\ CountsOnce /\ NothingDropped

\* The bounds are numbers, and what the variables hold.
LEMMA SendsTypes ==
  ASSUME SendsInv
  PROVE  /\ MaxTexts \in Nat /\ MaxItems \in Nat
         /\ place \in Channels \union {NoChannel} /\ bound \in BOOLEAN /\ epoch \in Nat
         /\ drafts \in [Channels -> 0..MaxTexts] /\ roomPending \in [Channels -> Messages]
         /\ saved \in [Channels -> 0..MaxItems] /\ pausing \subseteq Channels
         /\ accepted \subseteq Numbers /\ accepted \subseteq 1..Len(items)
         /\ written \in 0..MaxTexts /\ gone \in [1..MaxTexts -> Gone]
         /\ items \in Seq([channel : Channels, text : 0..MaxTexts])
         /\ Len(items) \in 0..MaxItems
         /\ \A i \in 1..Len(items) : items[i].channel \in Channels /\ items[i].text \in 0..MaxTexts
         /\ \A rpc \in roomCalls : rpc \in RoomRequests /\ rpc.channel \in Channels /\ rpc.item \in Messages
         /\ \A reply \in replies : reply.call \in RoomRequests /\ reply.call.channel \in Channels
                                   /\ reply.call.item \in Messages
<1>1. SendsTypeOK /\ WireTyped
  BY DEF SendsInv
<1>2. MaxTexts \in Nat /\ MaxItems \in Nat
  BY LocalSendsAssumption
<1>3. /\ place \in Channels \union {NoChannel} /\ bound \in BOOLEAN /\ epoch \in Nat
      /\ drafts \in [Channels -> 0..MaxTexts] /\ roomPending \in [Channels -> Messages]
      /\ saved \in [Channels -> 0..MaxItems] /\ pausing \subseteq Channels
      /\ accepted \subseteq Numbers /\ written \in 0..MaxTexts /\ gone \in [1..MaxTexts -> Gone]
  BY <1>1 DEF SendsTypeOK, Messages
<1>4. items \in Seq([channel : Channels, text : 0..MaxTexts]) /\ accepted \subseteq 1..Len(items)
  BY <1>1 DEF WireTyped
<1>5. Len(items) \in 0..MaxItems
  BY <1>1, <1>2, <1>4 DEF WireTyped
<1>6. \A i \in 1..Len(items) : items[i].channel \in Channels /\ items[i].text \in 0..MaxTexts
  <2> TAKE i \in 1..Len(items)
  <2> DEFINE Entries == [channel : Channels, text : 0..MaxTexts]
  <2>1. items \in Seq(Entries)
    BY <1>4
  <2>2. items[i] \in Entries
    <3> HIDE DEF Entries
    <3> QED
      BY <2>1
  <2> QED
    BY <2>2
<1>7. \A r \in RoomRequests : r.channel \in Channels /\ r.item \in Messages
  BY DEF RoomRequests
<1>8. /\ \A rpc \in roomCalls : rpc \in RoomRequests
      /\ \A reply \in replies : reply.call \in RoomRequests
  BY <1>1 DEF WireTyped
<1> QED
  BY <1>2, <1>3, <1>4, <1>5, <1>6, <1>7, <1>8

LEMMA NothingIs == Nothing \in Messages /\ Nothing.id = 0 /\ Nothing.state = "none" /\ Nothing.kind = "none"
                   /\ Nothing.text = 0
BY LocalSendsAssumption DEF Nothing, Messages, Kinds

\* At first nothing is written, sent or awaited.
LEMMA SendsStart == InitSends => SendsInv
<1> SUFFICES ASSUME InitSends PROVE SendsInv
  OBVIOUS
<1> USE DEF InitSends
<1>1. SendsTypeOK
  BY NothingIs, LocalSendsAssumption DEF SendsTypeOK, Messages, Gone
<1>2. WireTyped /\ PendingIsSaved /\ CallsSaved /\ RepliesAwaited /\ TextsTold /\ HeldIsPending /\ CountsOnce
  BY LocalSendsAssumption DEF WireTyped, PendingIsSaved, CallsSaved, RepliesAwaited, TextsTold, HeldIsPending, CountsOnce
<1>3. NothingDropped
  BY DEF NothingDropped
<1> QED
  BY <1>1, <1>2, <1>3 DEF SendsInv

\* Where the window goes, and the receipts it asks for, change nothing that was sent.
LEMMA WindowMoves ==
  ASSUME SendsInv, place' \in Channels \union {NoChannel}, bound' \in BOOLEAN, epoch' \in Nat,
         place' # NoChannel => bound', bound' => bound, pausing' \subseteq Channels,
         UNCHANGED <<drafts, roomPending, saved, accepted, items, written, gone, replies>>,
         roomCalls \subseteq roomCalls', \A rpc \in roomCalls' \ roomCalls : AsksReceipt(rpc)
  PROVE  SendsInv'
<1>0. /\ SendsTypeOK /\ WireTyped /\ PendingIsSaved /\ CallsSaved /\ RepliesAwaited /\ TextsTold
      /\ HeldIsPending /\ CountsOnce /\ NothingDropped
  BY DEF SendsInv
<1>1. SendsTypeOK' /\ WireTyped'
  BY <1>0 DEF SendsTypeOK, WireTyped, AsksReceipt
<1>2. PendingIsSaved'
  BY <1>0 DEF PendingIsSaved, TrueIn
<1>3. TextsTold' /\ NothingDropped'
  BY <1>0 DEF TextsTold, NothingDropped
<1>4. CallsSaved'
  BY <1>0 DEF CallsSaved, TrueIn, AsksReceipt
<1>5. RepliesAwaited'
  BY <1>0 DEF RepliesAwaited, AsksReceipt
<1>6. \A i : Counts(i)' <=> Counts(i)
  BY DEF Counts, AsksReceipt
<1>7. HeldIsPending' /\ CountsOnce'
  BY <1>0, <1>6 DEF HeldIsPending, CountsOnce
<1> QED
  BY <1>1, <1>2, <1>3, <1>4, <1>5, <1>7 DEF SendsInv

\* A receipt is asked for what is unknown.
LEMMA ReceiptAsked ==
  ASSUME SendsInv, NEW c \in Channels, roomPending[c].state = "unknown"
  PROVE  AsksReceipt(ReceiptAsks(c))
<1>1. roomPending[c] \in Messages /\ epoch \in Nat
  BY SendsTypes
<1>2. PICK no \in BOOLEAN : ReceiptAsks(c) =
        [kind |-> "receipt", channel |-> c, item |-> roomPending[c], epoch |-> epoch, late |-> no]
  BY DEF ReceiptAsks
<1> QED
  BY <1>1, <1>2 DEF RoomRequests, SendCall, AsksReceipt

LEMMA RoomMovesKeep ==
  ASSUME SendsInv, LeaveRooms \/ SelectRoom \/ VerifyPending \/ Pause \/ PauseEnds
  PROVE  SendsInv'
<1>0. place # NoChannel => bound
  BY DEF SendsInv, PendingIsSaved
<1>00. bound \in BOOLEAN /\ epoch \in Nat /\ place \in Channels \union {NoChannel} /\ pausing \subseteq Channels
  BY SendsTypes
<1>1. CASE LeaveRooms
  <2>1. /\ bound' = FALSE /\ place' = NoChannel /\ epoch' = epoch + 1
        /\ UNCHANGED <<drafts, roomPending, saved, pausing, roomCalls, replies, accepted, items, written, gone>>
    BY <1>1 DEF LeaveRooms
  <2>2. bound' \in BOOLEAN /\ ~bound'
    BY <2>1, Zenon
  <2>3. epoch + 1 \in Nat
    BY <1>00
  <2>4. place' \in Channels \union {NoChannel} /\ epoch' \in Nat
    BY <2>1, <2>3
  <2> QED
    BY <1>00, <2>1, <2>2, <2>4, WindowMoves
<1>2. CASE SelectRoom
  <2>1. PICK c \in Channels :
          /\ place' = c
          /\ \/ roomCalls' = roomCalls
             \/ roomPending[c].state = "unknown" /\ roomCalls' = roomCalls \union {ReceiptAsks(c)}
    BY <1>2 DEF SelectRoom
  <2>2. roomCalls \subseteq roomCalls' /\ \A rpc \in roomCalls' \ roomCalls : AsksReceipt(rpc)
    BY <2>1, ReceiptAsked
  <2>3. bound /\ UNCHANGED <<bound, epoch, drafts, roomPending, saved, pausing, replies, accepted, items, written, gone>>
    BY <1>2 DEF SelectRoom
  <2> QED
    BY <1>00, <2>1, <2>2, <2>3, WindowMoves
<1>3. CASE VerifyPending
  <2>1. /\ place # NoChannel /\ roomPending[place].state = "unknown" /\ roomCalls' = roomCalls \union {ReceiptAsks(place)}
        /\ UNCHANGED <<place, bound, epoch, drafts, roomPending, saved, pausing, replies, accepted, items, written, gone>>
    BY <1>3 DEF VerifyPending
  <2>2. AsksReceipt(ReceiptAsks(place))
    BY <1>00, <2>1, ReceiptAsked
  <2> QED
    BY <1>0, <1>00, <2>1, <2>2, WindowMoves
<1>4. CASE Pause \/ PauseEnds
  <2>1. /\ pausing' \subseteq Channels
        /\ UNCHANGED <<place, bound, epoch, roomCalls, drafts, roomPending, saved, accepted, items, written, gone, replies>>
    BY <1>00, <1>4 DEF Pause, PauseEnds
  <2> QED
    BY <1>0, <1>00, <2>1, WindowMoves
<1> QED
  BY <1>1, <1>2, <1>3, <1>4

\* A window that is loaded again takes up what was saved.
LEMMA BindKeeps == SendsInv /\ BindRooms => SendsInv'
<1> SUFFICES ASSUME SendsInv, BindRooms PROVE SendsInv'
  OBVIOUS
<1> DEFINE Taken(c) == roomPending[c] = Nothing /\ saved[c] # 0
<1>1. /\ ~bound /\ bound' = TRUE /\ epoch' = epoch + 1
      /\ roomPending' = [c \in Channels |-> IF Taken(c) THEN [Nothing EXCEPT !.id = saved[c], !.state = "unknown"]
                                        ELSE roomPending[c]]
      /\ UNCHANGED <<place, drafts, saved, pausing, roomCalls, replies, accepted, items, written, gone>>
  BY DEF BindRooms
<1>2. /\ SendsTypeOK /\ WireTyped /\ PendingIsSaved /\ CallsSaved /\ RepliesAwaited /\ TextsTold
      /\ HeldIsPending /\ CountsOnce /\ NothingDropped
  BY DEF SendsInv
<1>3. \A c \in Channels : Taken(c) =>
        roomPending'[c] = [id |-> saved[c], text |-> 0, state |-> "unknown", kind |-> "none"]
  BY <1>1 DEF Nothing
<1>30. \A c \in Channels : Taken(c) => /\ roomPending'[c].id = saved[c] /\ roomPending'[c].text = 0
                                       /\ roomPending'[c].state = "unknown" /\ roomPending'[c].kind = "none"
  <2> HIDE DEF Taken
  <2> TAKE c \in Channels
  <2> HAVE Taken(c)
  <2> DEFINE new == roomPending'[c]
  <2>1. new = [id |-> saved[c], text |-> 0, state |-> "unknown", kind |-> "none"]
    BY <1>3
  <2> HIDE DEF new
  <2>2. new.id = saved[c] /\ new.text = 0 /\ new.state = "unknown" /\ new.kind = "none"
    BY <2>1
  <2> QED
    BY <2>2 DEF new
<1>4. \A c \in Channels : ~Taken(c) => roomPending'[c] = roomPending[c]
  BY <1>1
<1>5. roomPending' \in [Channels -> Messages]
  <2>1. ASSUME NEW c \in Channels PROVE roomPending'[c] \in Messages
    <3>1. CASE Taken(c)
      <4>1. saved[c] \in 0..MaxItems /\ 0 \in 0..MaxTexts
        BY SendsTypes
      <4> DEFINE new == roomPending'[c]
      <4>2. new = [id |-> saved[c], text |-> 0, state |-> "unknown", kind |-> "none"]
        BY <1>3, <3>1
      <4> HIDE DEF new
      <4>3. new \in Messages
        BY <4>1, <4>2 DEF Messages
      <4> QED
        BY <4>3 DEF new
    <3>2. CASE ~Taken(c)
      BY <1>4, <3>2, SendsTypes
    <3> QED
      BY <3>1, <3>2
  <2> QED
    BY <1>1, <2>1
<1> HIDE DEF Taken
<1>6. SendsTypeOK' /\ WireTyped'
  <2>1. epoch + 1 \in Nat
    BY SendsTypes
  <2>4. epoch' \in Nat /\ bound' \in BOOLEAN
    BY <1>1, <2>1, Zenon
  <2>2. SendsTypeOK'
    BY <1>1, <1>2, <1>5, <2>4 DEF SendsTypeOK, Messages
  <2>3. WireTyped'
    BY <1>1, <1>2 DEF WireTyped
  <2> QED
    BY <2>2, <2>3
<1>7. \A c \in Channels : Taken(c) => saved[c] # 0 /\ roomPending'[c] # Nothing /\ roomPending[c] = Nothing
  <2> TAKE c \in Channels
  <2> HAVE Taken(c)
  <2>1. roomPending'[c].state = "unknown"
    BY <1>30
  <2> QED
    BY <2>1, NothingIs DEF Taken
<1>8. PendingIsSaved'
  <2>1. ASSUME NEW c \in Channels, roomPending'[c] # Nothing
        PROVE  roomPending'[c].id = saved[c] /\ TrueIn(items, roomPending'[c], c) /\ roomPending'[c].state # "none"
    <3>1. CASE Taken(c)
      <4>1. /\ roomPending'[c].id = saved[c] /\ roomPending'[c].state = "unknown" /\ roomPending'[c].kind = "none"
            /\ roomPending'[c].text = 0
        BY <1>30, <3>1
      <4>2. saved[c] \in 1..Len(items) /\ items[saved[c]].channel = c
        BY <1>2, <1>7, <3>1 DEF PendingIsSaved
      <4> QED
        BY <4>1, <4>2 DEF TrueIn
    <3>2. CASE ~Taken(c)
      BY <1>1, <1>2, <1>4, <2>1, <3>2 DEF PendingIsSaved, TrueIn
    <3> QED
      BY <3>1, <3>2
  <2>2. ASSUME NEW c \in Channels, saved[c] # 0 PROVE roomPending'[c] # Nothing
    BY <1>4, <1>7, <2>2 DEF Taken
  <2> QED
    <3>1. \A c \in Channels : roomPending'[c] # Nothing => TrueIn(items', roomPending'[c], c)
      BY <1>1, <2>1 DEF TrueIn
    <3> QED
      BY <1>1, <1>2, <2>1, <2>2, <3>1 DEF PendingIsSaved
<1>9. \A c \in Channels : roomPending[c].state = "sending" => roomPending'[c] = roomPending[c]
  BY <1>4, NothingIs DEF Taken
<1>10. CallsSaved' /\ RepliesAwaited'
  <2>1. /\ \A rpc \in roomCalls : rpc.channel \in Channels
        /\ \A reply \in replies : reply.call.channel \in Channels
    BY SendsTypes
  <2>2. CallsSaved'
    <3>1. ASSUME NEW rpc \in roomCalls, SendCall(rpc), ~rpc.late
          PROVE  roomPending'[rpc.channel] = rpc.item /\ rpc.item.state = "sending"
      <4>1. roomPending[rpc.channel] = rpc.item /\ rpc.item.state = "sending"
        BY <1>2, <3>1 DEF CallsSaved
      <4> QED
        BY <1>9, <2>1, <4>1
    <3>2. \A rpc \in roomCalls : SendCall(rpc) =>
            saved[rpc.channel] = rpc.item.id /\ TrueIn(items, rpc.item, rpc.channel) /\ rpc.item.id \notin accepted
      BY <1>2 DEF CallsSaved
    <3>3. /\ \A a, b \in roomCalls : SendCall(a) /\ SendCall(b) /\ a.channel = b.channel => a = b
          /\ \A rpc \in roomCalls : ~SendCall(rpc) => rpc.item.state = "unknown"
      BY <1>2 DEF CallsSaved
    <3>4. \A item, c : TrueIn(items', item, c) <=> TrueIn(items, item, c)
      BY <1>1 DEF TrueIn
    <3> QED
      BY <1>1, <3>1, <3>2, <3>3, <3>4 DEF CallsSaved
  <2>3. RepliesAwaited'
    <3>1. ASSUME NEW reply \in replies, SendCall(reply.call)
          PROVE  roomPending'[reply.call.channel] = reply.call.item
      <4>1. roomPending[reply.call.channel] = reply.call.item /\ reply.call.item.state = "sending"
        BY <1>2, <3>1 DEF RepliesAwaited
      <4> QED
        BY <1>9, <2>1, <4>1
    <3> QED
      BY <1>1, <1>2, <3>1 DEF RepliesAwaited
  <2> QED
    BY <2>2, <2>3
<1>11. \A i : Counts(i)' <=> Counts(i)
  BY <1>1 DEF Counts
<1>12. HeldIsPending'
  <2> SUFFICES ASSUME NEW i \in 1..Len(items), Counts(i), items[i].text # 0, drafts[items[i].channel] = items[i].text
               PROVE  roomPending'[items[i].channel].id = i /\ roomPending'[items[i].channel].kind \in {"message", "answer"}
    BY <1>1, <1>11 DEF HeldIsPending
  <2>1. roomPending[items[i].channel].kind \in {"message", "answer"} /\ roomPending[items[i].channel].id = i
    BY <1>2 DEF HeldIsPending
  <2>2. roomPending[items[i].channel] # Nothing
    BY <2>1, NothingIs
  <2> QED
    BY <1>4, <2>1, <2>2, SendsTypes DEF Taken
<1>13. TextsTold' /\ CountsOnce' /\ NothingDropped'
  BY <1>1, <1>2, <1>11 DEF TextsTold, CountsOnce, NothingDropped
<1> QED
  BY <1>6, <1>8, <1>10, <1>12, <1>13 DEF SendsInv

\* What is sent is still known to be sent after the window is loaded again.
LEMMA ReloadKeeps == SendsInv /\ ReloadRooms => SendsInv'
<1> SUFFICES ASSUME SendsInv, ReloadRooms PROVE SendsInv'
  OBVIOUS
<1>0. PICK yes \in {TRUE} : roomCalls' = {[rpc EXCEPT !.late = yes] : rpc \in {d \in roomCalls : d.kind # "receipt"}}
  BY DEF ReloadRooms
<1>1. /\ place' = NoChannel /\ ~bound' /\ epoch' = 0 /\ bound' \in BOOLEAN
      /\ drafts' = [c \in Channels |-> 0] /\ roomPending' = [c \in Channels |-> Nothing]
      /\ pausing' = {} /\ replies' = {}
      /\ gone' = [t \in 1..MaxTexts |-> IF \E c \in Channels : drafts[c] = t THEN "lost" ELSE gone[t]]
      /\ UNCHANGED <<saved, accepted, items, written>>
  BY DEF ReloadRooms
<1>2. /\ SendsTypeOK /\ WireTyped /\ PendingIsSaved /\ CallsSaved /\ RepliesAwaited /\ TextsTold
      /\ HeldIsPending /\ CountsOnce /\ NothingDropped
  BY DEF SendsInv
<1>3. \A d \in roomCalls' : \E rpc \in roomCalls :
        /\ SendCall(rpc) /\ d = [rpc EXCEPT !.late = yes] /\ d \in RoomRequests
        /\ d.kind = rpc.kind /\ d.channel = rpc.channel /\ d.item = rpc.item /\ d.late = yes
  <2> TAKE d \in roomCalls'
  <2>1. PICK rpc \in roomCalls : rpc.kind # "receipt" /\ d = [rpc EXCEPT !.late = yes]
    BY <1>0
  <2>2. rpc \in RoomRequests /\ SendCall(rpc)
    BY <2>1, SendsTypes DEF RoomRequests, SendCall
  <2>3. d \in RoomRequests /\ d.kind = rpc.kind /\ d.channel = rpc.channel /\ d.item = rpc.item /\ d.late = yes
    BY <2>1, <2>2 DEF RoomRequests
  <2> QED
    BY <2>1, <2>2, <2>3
<1>4. SendsTypeOK' /\ WireTyped'
  <2>1. roomPending' \in [Channels -> Messages] /\ drafts' \in [Channels -> 0..MaxTexts]
    BY <1>1, NothingIs, SendsTypes
  <2>2. gone' \in [1..MaxTexts -> Gone]
    BY <1>1, SendsTypes DEF Gone
  <2>3. WireTyped'
    BY <1>1, <1>2, <1>3 DEF WireTyped
  <2> QED
    BY <1>1, <1>2, <2>1, <2>2, <2>3, SendsTypes DEF SendsTypeOK, Messages
<1>5. PendingIsSaved'
  BY <1>1, <1>2 DEF PendingIsSaved
<1>6. CallsSaved'
  <2>1. \A d \in roomCalls' : SendCall(d) /\ d.late
                          /\ saved[d.channel] = d.item.id /\ TrueIn(items, d.item, d.channel) /\ d.item.id \notin accepted
    <3> TAKE d \in roomCalls'
    <3>1. PICK rpc \in roomCalls : SendCall(rpc) /\ d.kind = rpc.kind /\ d.channel = rpc.channel
                                     /\ d.item = rpc.item /\ d.late = yes
      BY <1>3
    <3> QED
      BY <1>2, <3>1 DEF CallsSaved, SendCall
  <2>2. ASSUME NEW a \in roomCalls', NEW b \in roomCalls', a.channel = b.channel PROVE a = b
    <3>1. PICK one \in roomCalls : SendCall(one) /\ a = [one EXCEPT !.late = yes] /\ a.channel = one.channel
      BY <1>3
    <3>2. PICK other \in roomCalls : SendCall(other) /\ b = [other EXCEPT !.late = yes] /\ b.channel = other.channel
      BY <1>3
    <3>3. one = other
      BY <1>2, <2>2, <3>1, <3>2 DEF CallsSaved
    <3> QED
      BY <3>1, <3>2, <3>3
  <2> QED
    BY <1>1, <2>1, <2>2 DEF CallsSaved, TrueIn, SendCall
<1>7. RepliesAwaited'
  BY <1>1 DEF RepliesAwaited
<1>8. TextsTold'
  BY <1>1, <1>2 DEF TextsTold, SendsTypeOK
<1>9. \A i : Counts(i)' => Counts(i)
  <2>1. \A d \in roomCalls' : \E rpc \in roomCalls : SendCall(rpc) /\ rpc.item = d.item
    BY <1>3
  <2> QED
    BY <1>1, <2>1 DEF Counts
<1>10. HeldIsPending' /\ CountsOnce'
  BY <1>1, <1>2, <1>9, SendsTypes DEF HeldIsPending, CountsOnce
<1>11. NothingDropped'
  BY <1>1, <1>2 DEF NothingDropped
<1> QED
  BY <1>4, <1>5, <1>6, <1>7, <1>8, <1>10, <1>11 DEF SendsInv

\* The parts of the invariant, by name.
LEMMA SendsParts ==
  SendsInv => /\ SendsTypeOK /\ WireTyped /\ PendingIsSaved /\ CallsSaved /\ RepliesAwaited /\ TextsTold
              /\ HeldIsPending /\ CountsOnce /\ NothingDropped
BY DEF SendsInv

\* A text that is typed now is in no message.
LEMMA WriteKeeps == SendsInv /\ Write => SendsInv'
<1> SUFFICES ASSUME SendsInv, Write PROVE SendsInv'
  OBVIOUS
<1>1. /\ place # NoChannel /\ written < MaxTexts /\ written' = written + 1
      /\ drafts' = [drafts EXCEPT ![place] = written + 1]
      /\ gone' = [t \in 1..MaxTexts |-> IF drafts[place] = t THEN "replaced" ELSE gone[t]]
      /\ UNCHANGED <<place, bound, epoch, roomPending, saved, pausing, roomCalls, replies, accepted, items, roomLeft>>
  BY DEF Write
<1>2. place \in Channels /\ written \in 0..MaxTexts /\ MaxTexts \in Nat /\ drafts \in [Channels -> 0..MaxTexts]
  BY <1>1, SendsTypes
<1>3. /\ drafts' \in [Channels -> 0..MaxTexts] /\ written' \in 0..MaxTexts
      /\ drafts'[place] = written + 1 /\ \A c \in Channels \ {place} : drafts'[c] = drafts[c]
  BY <1>1, <1>2
<1>4. gone' \in [1..MaxTexts -> Gone]
  BY <1>1, SendsTypes DEF Gone
<1>5. SendsTypeOK' /\ WireTyped'
  <2>1. SendsTypeOK'
    BY <1>1, <1>3, <1>4, SendsParts DEF SendsTypeOK
  <2>2. WireTyped'
    BY <1>1, SendsParts DEF WireTyped
  <2> QED
    BY <2>1, <2>2
<1>6. PendingIsSaved' /\ CallsSaved' /\ RepliesAwaited'
  BY <1>1, SendsParts DEF PendingIsSaved, CallsSaved, RepliesAwaited, TrueIn
<1>7. TextsTold'
  <2>1. /\ \A c \in Channels : drafts[c] <= written /\ drafts[c] \in Nat
        /\ \A i \in 1..Len(items) : items[i].text <= written /\ items[i].text \in Nat
        /\ \A c, d \in Channels : drafts[c] # 0 /\ drafts[c] = drafts[d] => c = d
        /\ \A i \in 1..Len(items), c \in Channels :
             drafts[c] # 0 /\ drafts[c] = items[i].text => items[i].channel = c
    <3>1. TextsTold
      BY SendsParts
    <3>2. \A c \in Channels : drafts[c] \in Nat
      BY <1>2
    <3>3. \A i \in 1..Len(items) : items[i].text \in Nat
      BY SMTT(30), SendsTypes
    <3> QED
      BY <3>1, <3>2, <3>3 DEF TextsTold
  <2>2. \A c \in Channels : drafts'[c] <= written'
    BY <1>1, <1>2, <1>3, <2>1
  <2>3. \A i \in 1..Len(items) : items[i].text <= written'
    BY <1>1, <1>2, <2>1
  <2>4. ASSUME NEW c \in Channels, NEW d \in Channels, drafts'[c] # 0, drafts'[c] = drafts'[d] PROVE c = d
    BY <1>2, <1>3, <2>1, <2>4
  <2>5. ASSUME NEW i \in 1..Len(items), NEW c \in Channels, drafts'[c] # 0, drafts'[c] = items[i].text
        PROVE  items[i].channel = c
    BY <1>2, <1>3, <2>1, <2>5
  <2> QED
    BY <1>1, <2>2, <2>3, <2>4, <2>5 DEF TextsTold
<1>8. \A i : Counts(i)' <=> Counts(i)
  BY <1>1 DEF Counts
<1>9. HeldIsPending'
  <2> SUFFICES ASSUME NEW i \in 1..Len(items), Counts(i), items[i].text # 0, drafts'[items[i].channel] = items[i].text
               PROVE  roomPending[items[i].channel].id = i /\ roomPending[items[i].channel].kind \in {"message", "answer"}
    BY <1>1, <1>8 DEF HeldIsPending
  <2>1. items[i].text <= written /\ items[i].text \in Nat /\ items[i].channel \in Channels
    <3>1. TextsTold
      BY SendsParts
    <3>2. items[i].text \in Nat /\ items[i].channel \in Channels
      BY SMTT(30), SendsTypes
    <3> QED
      BY <3>1, <3>2 DEF TextsTold
  <2>2. drafts[items[i].channel] = items[i].text
    BY <1>2, <1>3, <2>1
  <2> QED
    BY <2>2, SendsParts DEF HeldIsPending
<1>10. CountsOnce' /\ NothingDropped'
  BY <1>1, <1>8, SendsParts DEF CountsOnce, NothingDropped
<1> QED
  BY <1>5, <1>6, <1>7, <1>9, <1>10 DEF SendsInv

\* A channel that has no pending message has none under way.
LEMMA FreeChannel ==
  ASSUME SendsInv, NEW c \in Channels, bound, roomPending[c] = Nothing
  PROVE  /\ saved[c] = 0
         /\ \A rpc \in roomCalls : SendCall(rpc) => rpc.channel # c
         /\ \A reply \in replies : SendCall(reply.call) => reply.call.channel # c
<1>1. saved[c] = 0
  BY SendsParts DEF PendingIsSaved
<1>2. ASSUME NEW rpc \in roomCalls, SendCall(rpc) PROVE rpc.channel # c
  <2>1. saved[rpc.channel] = rpc.item.id /\ rpc.item.id \in 1..Len(items)
    BY <1>2, SendsParts DEF CallsSaved, TrueIn
  <2> QED
    BY SMTT(30), <1>1, <2>1, SendsTypes
<1>3. ASSUME NEW reply \in replies, SendCall(reply.call) PROVE reply.call.channel # c
  <2>1. roomPending[reply.call.channel] = reply.call.item /\ reply.call.item.state = "sending"
    BY <1>3, SendsParts DEF RepliesAwaited
  <2> QED
    BY <2>1, NothingIs
<1> QED
  BY <1>1, <1>2, <1>3

\* A message has an id of its own, and the channel has no other under way.
LEMMA SendKeeps == SendsInv /\ Send => SendsInv'
<1> SUFFICES ASSUME SendsInv, Send PROVE SendsInv'
  OBVIOUS
<1> DEFINE n == Len(items) + 1
<1>1. /\ place # NoChannel /\ roomPending[place] = Nothing /\ Len(items) < MaxItems
      /\ UNCHANGED <<place, bound, epoch, drafts, pausing, replies, accepted, written, gone, roomLeft>>
  BY DEF Send
<1>2. PICK kind \in Kinds, no \in {FALSE} :
        LET item == [id |-> n, text |-> drafts[place], state |-> "sending", kind |-> kind]
        IN /\ kind # "card" => drafts[place] # 0
           /\ items' = Append(items, [channel |-> place, text |-> IF kind = "card" THEN 0 ELSE item.text])
           /\ roomPending' = [roomPending EXCEPT ![place] = item]
           /\ saved' = [saved EXCEPT ![place] = item.id]
           /\ roomCalls' = roomCalls \union {[kind |-> "send", channel |-> place, item |-> item, epoch |-> 0,
                                      late |-> no]}
  BY DEF Send
<1> DEFINE item == [id |-> n, text |-> drafts[place], state |-> "sending", kind |-> kind]
           entry == [channel |-> place, text |-> IF kind = "card" THEN 0 ELSE drafts[place]]
           rpc == [kind |-> "send", channel |-> place, item |-> item, epoch |-> 0, late |-> no]
<1>3. /\ kind # "card" => drafts[place] # 0
      /\ items' = Append(items, entry) /\ roomCalls' = roomCalls \union {rpc}
      /\ roomPending' = [roomPending EXCEPT ![place] = item] /\ saved' = [saved EXCEPT ![place] = n]
  BY <1>2
<1>4. /\ place \in Channels /\ bound /\ Len(items) \in Nat /\ n \in 1..MaxItems /\ MaxItems \in Nat /\ MaxTexts \in Nat
      /\ drafts \in [Channels -> 0..MaxTexts] /\ drafts[place] \in 0..MaxTexts
      /\ items \in Seq([channel : Channels, text : 0..MaxTexts])
      /\ \A i \in 1..Len(items) : items[i].channel \in Channels /\ items[i].text \in 0..MaxTexts
      /\ accepted \subseteq 1..Len(items)
  <2>1. Len(items) \in 0..MaxItems /\ MaxItems \in Nat
    BY SendsTypes
  <2>2. Len(items) \in Nat /\ n \in 1..MaxItems
    BY <1>1, <2>1
  <2>3. place \in Channels /\ bound
    BY <1>1, SendsTypes, SendsParts DEF PendingIsSaved
  <2> QED
    BY <2>1, <2>2, <2>3, SendsTypes
<1>5. /\ item.id = n /\ item.text = drafts[place] /\ item.state = "sending" /\ item.kind = kind /\ item \in Messages
  BY <1>4 DEF Messages
<1>6. /\ entry.channel = place /\ (kind = "card" => entry.text = 0) /\ (kind # "card" => entry.text = drafts[place])
      /\ entry \in [channel : Channels, text : 0..MaxTexts]
  BY <1>4
<1> HIDE DEF item, entry
<1>7. SendCall(rpc) /\ rpc.channel = place /\ rpc.item = item /\ ~rpc.late /\ rpc \in RoomRequests
  BY <1>4, <1>5 DEF SendCall, RoomRequests
<1> HIDE DEF rpc
<1>8. /\ Len(items') = n /\ items'[n] = entry /\ \A i \in 1..Len(items) : items'[i] = items[i]
      /\ items' \in Seq([channel : Channels, text : 0..MaxTexts])
  <2> DEFINE Entries == [channel : Channels, text : 0..MaxTexts]
  <2> SUFFICES /\ Len(items') = n /\ items'[n] = entry /\ \A i \in 1..Len(items) : items'[i] = items[i]
               /\ items' \in Seq(Entries)
    OBVIOUS
  <2>1. items \in Seq(Entries) /\ entry \in Entries
    BY <1>4, <1>6
  <2> HIDE DEF Entries
  <2> QED
    BY <1>3, <2>1
<1>9. /\ roomPending' \in [Channels -> Messages] /\ roomPending'[place] = item
      /\ \A c \in Channels \ {place} : roomPending'[c] = roomPending[c]
  BY <1>3, <1>4, <1>5, SendsTypes
<1>10. /\ saved' \in [Channels -> 0..MaxItems] /\ saved'[place] = n
       /\ \A c \in Channels \ {place} : saved'[c] = saved[c]
  BY <1>3, <1>4, SendsTypes
<1>11. /\ saved[place] = 0
       /\ \A d \in roomCalls : SendCall(d) => d.channel # place
       /\ \A reply \in replies : SendCall(reply.call) => reply.call.channel # place
  BY <1>1, <1>4, FreeChannel
<1>12. \A d, c : TrueIn(items, d, c) => TrueIn(items', d, c)
  <2> TAKE d, c
  <2> HAVE TrueIn(items, d, c)
  <2> DEFINE i == d.id
  <2>1. i \in 1..Len(items)
    BY DEF TrueIn
  <2>2. Len(items') = Len(items) + 1 /\ Len(items) \in Nat /\ items'[i] = items[i]
    BY <1>4, <1>8, <2>1
  <2> HIDE DEF i
  <2>3. i \in 1..Len(items')
    BY <2>1, <2>2
  <2> USE DEF i
  <2> QED
    BY <2>2, <2>3 DEF TrueIn
<1>13. TrueIn(items', item, place)
  <2>1. item.id \in 1..Len(items') /\ items'[item.id].channel = place
    BY <1>4, <1>5, <1>6, <1>8
  <2>2. /\ item.kind \in {"message", "answer"} => items'[item.id].text = item.text /\ item.text # 0
        /\ item.kind = "card" => items'[item.id].text = 0
    BY <1>3, <1>5, <1>6, <1>8
  <2>3. item.kind # "none"
    BY <1>5 DEF Kinds
  <2> QED
    BY <2>1, <2>2, <2>3 DEF TrueIn
<1>14. SendsTypeOK' /\ WireTyped'
  <2>1. SendsTypeOK'
    BY <1>1, <1>9, <1>10, SendsParts DEF SendsTypeOK, Messages
  <2>2. accepted' \subseteq 1..Len(items') /\ Len(items') <= MaxItems
    BY <1>1, <1>4, <1>8
  <2> QED
    BY <1>1, <1>3, <1>7, <1>8, <2>1, <2>2, SendsParts DEF WireTyped
<1>15. PendingIsSaved'
  <2>1. ASSUME NEW c \in Channels, saved'[c] # 0 PROVE saved'[c] \in 1..Len(items') /\ items'[saved'[c]].channel = c
    <3>1. CASE c = place
      BY <1>4, <1>6, <1>8, <1>10, <3>1
    <3>2. CASE c # place
      <4>0. Len(items') = Len(items) + 1 /\ Len(items) \in Nat
        BY <1>4, <1>8
      <4>1. saved[c] \in 1..Len(items) /\ items[saved[c]].channel = c
        BY <1>10, <2>1, <3>2, SendsParts DEF PendingIsSaved
      <4> QED
        BY <1>8, <1>10, <3>2, <4>0, <4>1
    <3> QED
      BY <3>1, <3>2
  <2>2. ASSUME NEW c \in Channels, roomPending'[c] # Nothing
        PROVE  roomPending'[c].id = saved'[c] /\ TrueIn(items', roomPending'[c], c) /\ roomPending'[c].state # "none"
    <3>1. CASE c = place
      <4>1. roomPending'[c] = item /\ saved'[c] = n
        BY <1>9, <1>10, <3>1
      <4>2. TrueIn(items', roomPending'[c], c)
        BY <1>13, <3>1, <4>1 DEF TrueIn
      <4> QED
        BY <1>5, <4>1, <4>2
    <3>2. CASE c # place
      <4>1. roomPending[c].id = saved[c] /\ TrueIn(items, roomPending[c], c) /\ roomPending[c].state # "none"
        BY <1>9, <2>2, <3>2, SendsParts DEF PendingIsSaved
      <4>2. roomPending'[c] = roomPending[c] /\ saved'[c] = saved[c]
        BY <1>9, <1>10, <3>2
      <4>3. TrueIn(items', roomPending'[c], c)
        BY <1>12, <4>1, <4>2 DEF TrueIn
      <4> QED
        BY <4>1, <4>2, <4>3
    <3> QED
      BY <3>1, <3>2
  <2>3. ASSUME NEW c \in Channels, saved'[c] # 0, bound PROVE roomPending'[c] # Nothing
    BY <1>5, <1>9, <1>10, <2>3, NothingIs, SendsParts DEF PendingIsSaved
  <2> QED
    BY <1>1, <2>1, <2>2, <2>3, SendsParts DEF PendingIsSaved
<1>16. CallsSaved'
  <2>1. ASSUME NEW d \in roomCalls', SendCall(d)
        PROVE  /\ saved'[d.channel] = d.item.id /\ TrueIn(items', d.item, d.channel) /\ d.item.id \notin accepted
               /\ ~d.late => roomPending'[d.channel] = d.item /\ d.item.state = "sending"
    <3>1. CASE d = rpc
      <4>1. TrueIn(items', d.item, d.channel)
        BY <1>7, <1>13, <3>1 DEF TrueIn
      <4>2. n \notin accepted
        BY <1>4
      <4> QED
        BY <1>5, <1>7, <1>9, <1>10, <3>1, <4>1, <4>2
    <3>2. CASE d \in roomCalls
      <4>1. d.channel \in Channels \ {place}
        BY <1>11, <2>1, <3>2, SendsTypes
      <4>2. /\ saved[d.channel] = d.item.id /\ TrueIn(items, d.item, d.channel) /\ d.item.id \notin accepted
            /\ ~d.late => roomPending[d.channel] = d.item /\ d.item.state = "sending"
        BY <2>1, <3>2, SendsParts DEF CallsSaved
      <4> QED
        BY <1>9, <1>10, <1>12, <4>1, <4>2
    <3> QED
      BY <1>3, <3>1, <3>2
  <2>2. ASSUME NEW a \in roomCalls', NEW b \in roomCalls', SendCall(a), SendCall(b), a.channel = b.channel PROVE a = b
    BY <1>3, <1>7, <1>11, <2>2, SendsParts DEF CallsSaved
  <2>3. \A d \in roomCalls' : ~SendCall(d) => d.item.state = "unknown"
    BY <1>3, <1>7, SendsParts DEF CallsSaved
  <2> QED
    BY <1>1, <2>1, <2>2, <2>3 DEF CallsSaved
<1>17. RepliesAwaited'
  <2>1. ASSUME NEW reply \in replies, SendCall(reply.call)
        PROVE  /\ roomPending'[reply.call.channel] = reply.call.item /\ reply.call.item.state = "sending"
               /\ \A d \in roomCalls' : SendCall(d) /\ d.channel = reply.call.channel =>
                    d.late /\ reply.result = "unknown"
    <3>1. reply.call.channel \in Channels \ {place}
      BY <1>11, <2>1, SendsTypes
    <3>2. /\ roomPending[reply.call.channel] = reply.call.item /\ reply.call.item.state = "sending"
          /\ \A d \in roomCalls : SendCall(d) /\ d.channel = reply.call.channel => d.late /\ reply.result = "unknown"
      BY <2>1, SendsParts DEF RepliesAwaited
    <3> QED
      BY <1>3, <1>7, <1>9, <3>1, <3>2
  <2> QED
    BY <1>1, <2>1, SendsParts DEF RepliesAwaited
<1>18. TextsTold'
  <2>1. /\ \A c \in Channels : drafts[c] <= written
        /\ \A i \in 1..Len(items) : items[i].text <= written
        /\ \A c, d \in Channels : drafts[c] # 0 /\ drafts[c] = drafts[d] => c = d
        /\ \A i \in 1..Len(items), c \in Channels :
             drafts[c] # 0 /\ drafts[c] = items[i].text => items[i].channel = c
    BY SendsParts DEF TextsTold
  <2>2. entry.text <= written
    BY <1>4, <1>6, <2>1, SendsTypes
  <2>3. \A i \in 1..Len(items') : i = n \/ i \in 1..Len(items)
    BY <1>4, <1>8
  <2>4. \A i \in 1..Len(items') : items'[i].text <= written
    BY <1>8, <2>1, <2>2, <2>3
  <2>5. \A i \in 1..Len(items'), c \in Channels :
             drafts[c] # 0 /\ drafts[c] = items'[i].text => items'[i].channel = c
    <3> TAKE i \in 1..Len(items'), c \in Channels
    <3> HAVE drafts[c] # 0 /\ drafts[c] = items'[i].text
    <3>1. CASE i = n
      BY <1>4, <1>6, <1>8, <2>1, <3>1
    <3>2. CASE i \in 1..Len(items)
      BY <1>8, <2>1, <3>2
    <3> QED
      BY <2>3, <3>1, <3>2
  <2> QED
    BY <1>1, <2>1, <2>4, <2>5 DEF TextsTold
<1>19. \A i : Counts(i)' => Counts(i) \/ i = n
  BY <1>1, <1>3, <1>5, <1>7 DEF Counts
<1>20. \A i \in 1..Len(items) : Counts(i) /\ items[i].text # 0 /\ items[i].channel = place =>
         drafts[place] # items[i].text
  BY <1>1, NothingIs, SendsParts DEF HeldIsPending
<1>21. HeldIsPending'
  <2> SUFFICES ASSUME NEW i \in 1..Len(items'), Counts(i)', items'[i].text # 0,
                      drafts[items'[i].channel] = items'[i].text
               PROVE  roomPending'[items'[i].channel].id = i /\ roomPending'[items'[i].channel].kind \in {"message", "answer"}
    BY <1>1 DEF HeldIsPending
  <2>1. CASE i = n
    <3>1. kind \in {"message", "answer"}
      BY <1>6, <1>8, <2>1 DEF Kinds
    <3> QED
      BY <1>5, <1>6, <1>8, <1>9, <2>1, <3>1
  <2>2. CASE i # n
    <3>1. i \in 1..Len(items)
      BY <1>4, <1>8, <2>2
    <3>2. items'[i] = items[i] /\ Counts(i) /\ items[i].channel \in Channels
      BY <1>4, <1>8, <1>19, <2>2, <3>1
    <3>3. items[i].channel # place
      BY <1>20, <3>1, <3>2
    <3>4. roomPending[items[i].channel].id = i /\ roomPending[items[i].channel].kind \in {"message", "answer"}
      BY <3>1, <3>2, SendsParts DEF HeldIsPending
    <3> QED
      BY <1>9, <3>2, <3>3, <3>4
  <2> QED
    BY <2>1, <2>2
<1>22. CountsOnce'
  <2>1. ASSUME NEW i \in 1..Len(items), Counts(i), items[i].text # 0 PROVE items[i].text # entry.text
    <3>1. CASE kind = "card"
      BY <1>6, <2>1, <3>1
    <3>2. CASE kind # "card"
      <4>1. entry.text = drafts[place] /\ drafts[place] # 0
        BY <1>3, <1>6, <3>2
      <4> QED
        BY <1>4, <1>20, <2>1, <4>1, SendsParts DEF TextsTold
    <3> QED
      BY <3>1, <3>2
  <2>2. \A i \in 1..Len(items') : i = n \/ i \in 1..Len(items)
    BY <1>4, <1>8
  <2> SUFFICES ASSUME NEW i \in 1..Len(items'), NEW j \in 1..Len(items'), Counts(i)', Counts(j)',
                      items'[i].text # 0, items'[i].text = items'[j].text, i # j
               PROVE  FALSE
    BY DEF CountsOnce
  <2>3. CASE i = n
    BY <1>8, <1>19, <2>1, <2>2, <2>3
  <2>4. CASE j = n
    BY <1>8, <1>19, <2>1, <2>2, <2>4
  <2>5. CASE i # n /\ j # n
    BY <1>8, <1>19, <2>2, <2>5, SendsParts DEF CountsOnce
  <2> QED
    BY <2>3, <2>4, <2>5
<1>23. NothingDropped'
  BY <1>1, <1>4, <1>8, SendsParts DEF NothingDropped
<1> QED
  BY <1>14, <1>15, <1>16, <1>17, <1>18, <1>21, <1>22, <1>23 DEF SendsInv

\* The message of channel c is over: it is not pending, nothing of it is under way, and a
\* text that leaves its draft has been accepted.
Over(c) ==
  /\ roomPending' \in [Channels -> Messages] /\ saved' \in [Channels -> 0..MaxItems]
  /\ drafts' \in [Channels -> 0..MaxTexts] /\ gone' \in [1..MaxTexts -> Gone]
  /\ roomPending'[c] = Nothing /\ saved'[c] = 0 /\ drafts'[c] \in {0, drafts[c]}
  /\ \A d \in Channels \ {c} : roomPending'[d] = roomPending[d] /\ saved'[d] = saved[d] /\ drafts'[d] = drafts[d]
  /\ \A t \in 1..MaxTexts : gone'[t] = "settled" => gone[t] = "settled" \/ \E a \in accepted : items[a].text = t
  /\ \A rpc \in roomCalls : SendCall(rpc) => rpc.channel # c
  /\ replies' \subseteq replies /\ \A reply \in replies' : SendCall(reply.call) => reply.call.channel # c
  /\ \A i \in 1..Len(items) :
       Counts(i) /\ items[i].channel = c /\ items[i].text # 0 => drafts'[c] # items[i].text
  /\ UNCHANGED <<place, bound, epoch, pausing, roomCalls, accepted, items, written>>

LEMMA OverKeeps ==
  ASSUME SendsInv, NEW c \in Channels, Over(c)
  PROVE  SendsInv'
<1>1. UNCHANGED <<place, bound, epoch, pausing, roomCalls, accepted, items, written>> /\ replies' \subseteq replies
  BY DEF Over
<1>2. /\ roomPending' \in [Channels -> Messages] /\ saved' \in [Channels -> 0..MaxItems]
      /\ drafts' \in [Channels -> 0..MaxTexts] /\ gone' \in [1..MaxTexts -> Gone]
      /\ roomPending'[c] = Nothing /\ saved'[c] = 0 /\ drafts'[c] \in {0, drafts[c]}
      /\ \A d \in Channels \ {c} : roomPending'[d] = roomPending[d] /\ saved'[d] = saved[d] /\ drafts'[d] = drafts[d]
  BY DEF Over
<1>3. /\ \A rpc \in roomCalls : SendCall(rpc) => rpc.channel # c
      /\ \A reply \in replies' : SendCall(reply.call) => reply.call.channel # c
  BY DEF Over
<1>4. SendsTypeOK' /\ WireTyped'
  <2>1. SendsTypeOK'
    BY <1>1, <1>2, SendsParts DEF SendsTypeOK, Messages
  <2>2. WireTyped'
    BY <1>1, SendsParts DEF WireTyped
  <2> QED
    BY <2>1, <2>2
<1>5. PendingIsSaved'
  <2>1. ASSUME NEW d \in Channels
        PROVE  /\ saved'[d] # 0 => saved'[d] \in 1..Len(items) /\ items[saved'[d]].channel = d
               /\ roomPending'[d] # Nothing =>
                    roomPending'[d].id = saved'[d] /\ TrueIn(items, roomPending'[d], d) /\ roomPending'[d].state # "none"
               /\ bound /\ saved'[d] # 0 => roomPending'[d] # Nothing
    <3>1. CASE d = c
      BY <1>2, <3>1
    <3>2. CASE d # c
      <4>1. roomPending'[d] = roomPending[d] /\ saved'[d] = saved[d]
        BY <1>2, <3>2
      <4> QED
        BY <4>1, SendsParts DEF PendingIsSaved
    <3> QED
      BY <3>1, <3>2
  <2> QED
    BY <1>1, <2>1, SendsParts DEF PendingIsSaved
<1>6. CallsSaved'
  <2>1. ASSUME NEW rpc \in roomCalls, SendCall(rpc)
        PROVE  /\ saved'[rpc.channel] = rpc.item.id /\ TrueIn(items, rpc.item, rpc.channel)
               /\ rpc.item.id \notin accepted
               /\ ~rpc.late => roomPending'[rpc.channel] = rpc.item /\ rpc.item.state = "sending"
    <3>1. rpc.channel \in Channels \ {c}
      BY <1>3, <2>1, SendsTypes
    <3> QED
      BY <1>2, <2>1, <3>1, SendsParts DEF CallsSaved
  <2> QED
    BY <1>1, <2>1, SendsParts DEF CallsSaved
<1>7. RepliesAwaited'
  <2>1. ASSUME NEW reply \in replies', SendCall(reply.call) PROVE roomPending'[reply.call.channel] = reply.call.item
    <3>1. reply.call.channel \in Channels \ {c}
      BY <1>1, <1>3, <2>1, SendsTypes
    <3> QED
      BY <1>1, <1>2, <2>1, <3>1, SendsParts DEF RepliesAwaited
  <2> QED
    BY <1>1, <2>1, SendsParts DEF RepliesAwaited
<1>8. TextsTold'
  <2>1. /\ \A d \in Channels : drafts[d] <= written /\ drafts[d] \in Nat
        /\ \A d, e \in Channels : drafts[d] # 0 /\ drafts[d] = drafts[e] => d = e
        /\ \A i \in 1..Len(items), d \in Channels :
             drafts[d] # 0 /\ drafts[d] = items[i].text => items[i].channel = d
        /\ \A i \in 1..Len(items) : items[i].text <= written
    BY SendsParts, SendsTypes DEF TextsTold
  <2>2. \A d \in Channels : drafts'[d] = 0 \/ drafts'[d] = drafts[d]
    BY <1>2
  <2>0. written \in Nat
    BY SendsTypes
  <2>3. \A d \in Channels : drafts'[d] <= written
    BY <2>0, <2>1, <2>2
  <2>4. \A d, e \in Channels : drafts'[d] # 0 /\ drafts'[d] = drafts'[e] => d = e
    BY <2>1, <2>2
  <2>5. \A i \in 1..Len(items), d \in Channels :
             drafts'[d] # 0 /\ drafts'[d] = items[i].text => items[i].channel = d
    BY <2>1, <2>2
  <2> QED
    BY <1>1, <2>1, <2>3, <2>4, <2>5 DEF TextsTold
<1>9. \A i : Counts(i)' <=> Counts(i)
  BY <1>1 DEF Counts
<1>10. HeldIsPending'
  <2> SUFFICES ASSUME NEW i \in 1..Len(items), Counts(i), items[i].text # 0, drafts'[items[i].channel] = items[i].text
               PROVE  roomPending'[items[i].channel].id = i /\ roomPending'[items[i].channel].kind \in {"message", "answer"}
    BY <1>1, <1>9 DEF HeldIsPending
  <2>1. items[i].channel \in Channels \ {c}
    BY SendsTypes DEF Over
  <2> QED
    BY <1>2, <2>1, SendsParts DEF HeldIsPending
<1>11. CountsOnce'
  BY <1>1, <1>9, SendsParts DEF CountsOnce
<1>12. NothingDropped'
  BY <1>1, SendsParts DEF NothingDropped, Over
<1> QED
  BY <1>4, <1>5, <1>6, <1>7, <1>8, <1>10, <1>11, <1>12 DEF SendsInv

\* An accepted message takes its own words out of the draft, and the channel's messages
\* that count are not in it any more.
LEMMA SettledIs ==
  ASSUME SendsInv, NEW c \in Channels, NEW item \in Messages, item = roomPending[c], item # Nothing,
         item.id \in accepted, Settled(c, item)
  PROVE  /\ roomPending' \in [Channels -> Messages] /\ saved' \in [Channels -> 0..MaxItems]
         /\ drafts' \in [Channels -> 0..MaxTexts] /\ gone' \in [1..MaxTexts -> Gone]
         /\ roomPending'[c] = Nothing /\ saved'[c] = 0 /\ drafts'[c] \in {0, drafts[c]}
         /\ \A d \in Channels \ {c} : roomPending'[d] = roomPending[d] /\ saved'[d] = saved[d] /\ drafts'[d] = drafts[d]
         /\ \A t \in 1..MaxTexts :
              gone'[t] = "settled" => gone[t] = "settled" \/ \E a \in accepted : items[a].text = t
         /\ \A i \in 1..Len(items) :
              Counts(i) /\ items[i].channel = c /\ items[i].text # 0 => drafts'[c] # items[i].text
<1> DEFINE clears == item.kind # "card" /\ item.text # 0 /\ drafts[c] = item.text
<1>1. /\ roomPending' = [roomPending EXCEPT ![c] = Nothing] /\ saved' = [saved EXCEPT ![c] = 0]
      /\ clears => drafts' = [drafts EXCEPT ![c] = 0] /\ gone' = [gone EXCEPT ![item.text] = "settled"]
      /\ ~clears => drafts' = drafts /\ gone' = gone
  BY DEF Settled
<1>2. /\ roomPending \in [Channels -> Messages] /\ saved \in [Channels -> 0..MaxItems]
      /\ drafts \in [Channels -> 0..MaxTexts] /\ gone \in [1..MaxTexts -> Gone] /\ MaxTexts \in Nat /\ MaxItems \in Nat
  BY SendsTypes
<1>3. /\ roomPending' \in [Channels -> Messages] /\ roomPending'[c] = Nothing
      /\ \A d \in Channels \ {c} : roomPending'[d] = roomPending[d]
  BY <1>1, <1>2, NothingIs
<1>4. /\ saved' \in [Channels -> 0..MaxItems] /\ saved'[c] = 0
      /\ \A d \in Channels \ {c} : saved'[d] = saved[d]
  BY <1>1, <1>2
<1>5. item.kind \in {"message", "answer", "card", "none"} /\ item.text \in 0..MaxTexts
  BY DEF Messages, Kinds
<1>6. TrueIn(items, item, c)
  BY SendsParts DEF PendingIsSaved
<1>7. clears => item.kind \in {"message", "answer"} /\ items[item.id].text = item.text /\ item.text \in 1..MaxTexts
  BY <1>2, <1>5, <1>6 DEF TrueIn
<1> HIDE DEF clears
<1>8. /\ drafts' \in [Channels -> 0..MaxTexts] /\ drafts'[c] \in {0, drafts[c]}
      /\ \A d \in Channels \ {c} : drafts'[d] = drafts[d]
      /\ clears => drafts'[c] = 0
  <2>1. drafts' = drafts \/ drafts' = [drafts EXCEPT ![c] = 0]
    BY <1>1
  <2>2. drafts \in [Channels -> 0..MaxTexts] /\ 0 \in 0..MaxTexts
    BY <1>2
  <2>3. clears => drafts'[c] = 0
    BY <1>1, <2>2
  <2>4. drafts' \in [Channels -> 0..MaxTexts]
    BY <2>1, <2>2
  <2>5. drafts'[c] \in {0, drafts[c]} /\ \A d \in Channels \ {c} : drafts'[d] = drafts[d]
    BY <2>1, <2>2
  <2> QED
    BY <2>3, <2>4, <2>5
<1>9. gone' \in [1..MaxTexts -> Gone]
  BY <1>1, <1>2, <1>7 DEF Gone
<1>10. ASSUME NEW t \in 1..MaxTexts, gone'[t] = "settled"
       PROVE  gone[t] = "settled" \/ \E a \in accepted : items[a].text = t
  BY <1>1, <1>2, <1>7, <1>10
<1>11. ASSUME NEW i \in 1..Len(items), Counts(i), items[i].channel = c, items[i].text # 0
       PROVE  drafts'[c] # items[i].text
  <2>1. CASE clears
    BY <1>8, <1>11, <2>1
  <2>2. CASE ~clears
    <3>1. drafts' = drafts
      BY <1>1, <2>2
    <3>2. SUFFICES ASSUME drafts[c] = items[i].text PROVE FALSE
      BY <3>1
    <3>3. item.id = i /\ item.kind \in {"message", "answer"}
      BY <1>11, <3>2, SendsParts DEF HeldIsPending
    <3>4. item.text = drafts[c] /\ item.text # 0
      BY <1>6, <3>2, <3>3 DEF TrueIn
    <3> QED
      BY <2>2, <3>3, <3>4 DEF clears
  <2> QED
    BY <2>1, <2>2
<1> QED
  BY <1>3, <1>4, <1>8, <1>9, <1>10, <1>11

\* The answer to a message counts, whatever is shown.
LEMMA SendAnsweredKeeps ==
  ASSUME SendsInv, NEW reply \in replies, replies' = replies \ {reply}, SendCall(reply.call),
         SendAnswered(reply.call, reply.result),
         UNCHANGED <<place, bound, epoch, pausing, roomCalls, accepted, items, written, roomLeft>>
  PROVE  SendsInv'
<1> DEFINE c == reply.call.channel
           item == reply.call.item
<1>1. c \in Channels /\ item \in Messages /\ reply.result \in {"ok", "refused", "unknown"}
  BY SendsTypes, SendsParts DEF WireTyped
<1>2. /\ roomPending[c] = item /\ item.state = "sending"
      /\ reply.result = "ok" => item.id \in accepted
      /\ reply.result = "refused" => item.id \notin accepted
      /\ \A rpc \in roomCalls : SendCall(rpc) /\ rpc.channel = c => rpc.late /\ reply.result = "unknown"
  BY SendsParts DEF RepliesAwaited
<1>3. \A other \in replies' : SendCall(other.call) => other.call.channel # c
  BY SendsParts DEF RepliesAwaited
<1>4. item # Nothing
  BY <1>2, NothingIs
<1> HIDE DEF c, item
<1>5. CASE reply.result = "ok"
  <2>1. Settled(c, item)
    BY <1>5 DEF SendAnswered, c, item
  <2>2. Over(c)
    BY <1>1, <1>2, <1>3, <1>4, <1>5, <2>1, SettledIs DEF Over
  <2> QED
    BY <1>1, <2>2, OverKeeps
<1>6. CASE reply.result = "refused"
  <2>1. /\ roomPending' = [roomPending EXCEPT ![c] = Nothing] /\ saved' = [saved EXCEPT ![c] = 0] /\ UNCHANGED <<drafts, gone>>
    BY <1>6 DEF SendAnswered, c, item
  <2>2. /\ roomPending' \in [Channels -> Messages] /\ roomPending'[c] = Nothing
        /\ \A d \in Channels \ {c} : roomPending'[d] = roomPending[d]
    BY <1>1, <2>1, NothingIs, SendsTypes
  <2>3. /\ saved' \in [Channels -> 0..MaxItems] /\ saved'[c] = 0
        /\ \A d \in Channels \ {c} : saved'[d] = saved[d]
    BY <1>1, <2>1, SendsTypes
  <2>4. \A rpc \in roomCalls : SendCall(rpc) => rpc.channel # c
    BY <1>2, <1>6
  <2>5. ASSUME NEW i \in 1..Len(items), Counts(i), items[i].channel = c, items[i].text # 0
        PROVE  drafts[c] # items[i].text
    <3>1. SUFFICES ASSUME drafts[c] = items[i].text PROVE FALSE
      OBVIOUS
    <3>2. item.id = i
      BY <1>2, <2>5, <3>1, SendsParts DEF HeldIsPending
    <3>3. i \notin accepted
      BY <1>2, <1>6, <3>2
    <3>4. PICK rpc \in roomCalls : SendCall(rpc) /\ rpc.item.id = i
      BY <2>5, <3>3 DEF Counts
    <3>5. items[rpc.item.id].channel = rpc.channel
      BY <3>4, SendsParts DEF CallsSaved, TrueIn
    <3> QED
      BY <2>4, <2>5, <3>4, <3>5
  <2>6. drafts \in [Channels -> 0..MaxTexts] /\ gone \in [1..MaxTexts -> Gone] /\ replies' \subseteq replies
    BY SendsTypes
  <2>7. Over(c)
    BY <1>3, <2>1, <2>2, <2>3, <2>4, <2>5, <2>6 DEF Over
  <2> QED
    BY <1>1, <2>7, OverKeeps
<1>7. CASE reply.result = "unknown"
  <2>1. PICK open \in {"unknown"} : /\ roomPending' = [roomPending EXCEPT ![c] = [item EXCEPT !.state = open]]
                                    /\ UNCHANGED <<saved, drafts, gone>>
    BY <1>7 DEF SendAnswered, c, item
  <2> DEFINE new == [item EXCEPT !.state = open]
  <2>2. new \in Messages /\ new.id = item.id /\ new.text = item.text /\ new.kind = item.kind /\ new.state = "unknown"
    BY <1>1, <2>1 DEF Messages
  <2> HIDE DEF new
  <2>3. /\ roomPending' \in [Channels -> Messages] /\ roomPending'[c] = new
        /\ \A d \in Channels \ {c} : roomPending'[d] = roomPending[d]
    BY <1>1, <2>1, <2>2, SendsTypes DEF new
  <2>4. SendsTypeOK' /\ WireTyped'
    <3>1. SendsTypeOK'
      BY <2>1, <2>3, SendsParts DEF SendsTypeOK, Messages
    <3>2. WireTyped'
      BY SendsParts DEF WireTyped
    <3> QED
      BY <3>1, <3>2
  <2>5. PendingIsSaved'
    <3>1. ASSUME NEW d \in Channels
          PROVE  /\ roomPending'[d] # Nothing =>
                      roomPending'[d].id = saved[d] /\ TrueIn(items, roomPending'[d], d) /\ roomPending'[d].state # "none"
                 /\ bound /\ saved[d] # 0 => roomPending'[d] # Nothing
      <4>1. CASE d = c
        <5>1. item.id = saved[c] /\ TrueIn(items, item, c)
          BY <1>1, <1>2, <1>4, SendsParts DEF PendingIsSaved
        <5>2. TrueIn(items, new, c)
          BY <2>2, <5>1 DEF TrueIn
        <5> QED
          BY <2>2, <2>3, <4>1, <5>1, <5>2, NothingIs
      <4>2. CASE d # c
        <5>1. roomPending'[d] = roomPending[d]
          BY <2>3, <4>2
        <5> QED
          BY <5>1, SendsParts DEF PendingIsSaved
      <4> QED
        BY <4>1, <4>2
    <3> QED
      BY <2>1, <3>1, SendsParts DEF PendingIsSaved
  <2>6. CallsSaved'
    <3>1. ASSUME NEW rpc \in roomCalls, SendCall(rpc), ~rpc.late PROVE roomPending'[rpc.channel] = rpc.item
      <4>1. rpc.channel \in Channels \ {c}
        BY <1>2, <3>1, SendsTypes
      <4> QED
        BY <2>3, <3>1, <4>1, SendsParts DEF CallsSaved
    <3> QED
      BY <2>1, <3>1, SendsParts DEF CallsSaved
  <2>7. RepliesAwaited'
    <3>1. ASSUME NEW other \in replies', SendCall(other.call) PROVE roomPending'[other.call.channel] = other.call.item
      <4>1. other.call.channel \in Channels \ {c}
        BY <1>3, <3>1, SendsTypes
      <4> QED
        BY <2>3, <3>1, <4>1, SendsParts DEF RepliesAwaited
    <3> QED
      BY <3>1, SendsParts DEF RepliesAwaited
  <2>8. TextsTold' /\ NothingDropped'
    BY <2>1, SendsParts DEF TextsTold, NothingDropped
  <2>9. \A i : Counts(i)' <=> Counts(i)
    BY DEF Counts
  <2>10. CountsOnce'
    BY <2>9, SendsParts DEF CountsOnce
  <2>11. HeldIsPending'
    <3> SUFFICES ASSUME NEW i \in 1..Len(items), Counts(i), items[i].text # 0, drafts[items[i].channel] = items[i].text
                 PROVE  roomPending'[items[i].channel].id = i /\ roomPending'[items[i].channel].kind \in {"message", "answer"}
      BY <2>1, <2>9 DEF HeldIsPending
    <3>1. roomPending[items[i].channel].id = i /\ roomPending[items[i].channel].kind \in {"message", "answer"}
      BY SendsParts DEF HeldIsPending
    <3>2. items[i].channel \in Channels
      BY SendsTypes
    <3>3. CASE items[i].channel = c
      BY <1>2, <2>2, <2>3, <3>1, <3>3
    <3>4. CASE items[i].channel # c
      BY <2>3, <3>1, <3>2, <3>4
    <3> QED
      BY <3>3, <3>4
  <2> QED
    BY <2>4, <2>5, <2>6, <2>7, <2>8, <2>10, <2>11 DEF SendsInv
<1> QED
  BY <1>1, <1>5, <1>6, <1>7

\* A receipt settles only the message that was asked about.
LEMMA ReceiptAnsweredKeeps ==
  ASSUME SendsInv, NEW reply \in replies, replies' = replies \ {reply}, ~SendCall(reply.call),
         ReceiptAnswered(reply.call, reply.result),
         UNCHANGED <<place, bound, epoch, pausing, roomCalls, accepted, items, written, roomLeft>>
  PROVE  SendsInv'
<1> DEFINE c == reply.call.channel
           item == reply.call.item
<1>1. c \in Channels /\ item \in Messages
  BY SendsTypes
<1>2. item.state = "unknown" /\ (reply.result = "ok" => item.id \in accepted)
  BY SendsParts DEF RepliesAwaited
<1> HIDE DEF c, item
<1>3. CASE reply.result = "ok" /\ roomPending[c] = item /\ Settled(c, item)
  <2>1. item # Nothing
    BY <1>2, NothingIs
  <2>2. ASSUME NEW rpc \in roomCalls, SendCall(rpc) PROVE rpc.channel # c
    <3>1. saved[rpc.channel] = rpc.item.id /\ rpc.item.id \notin accepted
      BY <2>2, SendsParts DEF CallsSaved
    <3>2. item.id = saved[c]
      BY <1>1, <1>3, <2>1, SendsParts DEF PendingIsSaved
    <3> QED
      BY <1>2, <1>3, <3>1, <3>2
  <2>3. ASSUME NEW other \in replies, SendCall(other.call) PROVE other.call.channel # c
    <3>1. roomPending[other.call.channel].state = "sending"
      BY <2>3, SendsParts DEF RepliesAwaited
    <3> QED
      BY <1>2, <1>3, <3>1
  <2>4. Over(c)
    BY <1>1, <1>2, <1>3, <2>1, <2>2, <2>3, SettledIs DEF Over
  <2> QED
    BY <1>1, <2>4, OverKeeps
<1>4. CASE UNCHANGED <<roomPending, saved, drafts, gone>>
  <2>1. SendsTypeOK' /\ WireTyped'
    BY <1>4, SendsParts DEF SendsTypeOK, WireTyped
  <2>2. PendingIsSaved' /\ TextsTold' /\ NothingDropped'
    BY <1>4, SendsParts DEF PendingIsSaved, TextsTold, NothingDropped
  <2>3. CallsSaved'
    BY <1>4, SendsParts DEF CallsSaved
  <2>4. RepliesAwaited'
    BY <1>4, SendsParts DEF RepliesAwaited
  <2>5. \A i : Counts(i)' <=> Counts(i)
    BY DEF Counts
  <2>6. HeldIsPending' /\ CountsOnce'
    BY <1>4, <2>5, SendsParts DEF HeldIsPending, CountsOnce
  <2> QED
    BY <2>2, <2>1, <2>3, <2>4, <2>6 DEF SendsInv
<1> QED
  BY <1>3, <1>4 DEF ReceiptAnswered, c, item

LEMMA AnsweredKeeps == SendsInv /\ Answered => SendsInv'
<1> SUFFICES ASSUME SendsInv, Answered PROVE SendsInv'
  OBVIOUS
<1>1. PICK reply \in replies :
        /\ replies' = replies \ {reply}
        /\ IF reply.call.kind = "send" THEN SendAnswered(reply.call, reply.result)
           ELSE ReceiptAnswered(reply.call, reply.result)
  BY DEF Answered
<1>2. UNCHANGED <<place, bound, epoch, pausing, roomCalls, accepted, items, written, roomLeft>>
  BY DEF Answered
<1>3. CASE SendCall(reply.call)
  BY <1>1, <1>2, <1>3, SendAnsweredKeeps DEF SendCall
<1>4. CASE ~SendCall(reply.call)
  BY <1>1, <1>2, <1>4, ReceiptAnsweredKeeps DEF SendCall
<1> QED
  BY <1>3, <1>4

\* The Core reads a request: at most the message of it is accepted.
LEMMA ReadKeeps ==
  ASSUME SendsInv, NEW rpc \in roomCalls, NEW result \in {"ok", "refused", "unknown"},
         roomCalls' = roomCalls \ {rpc}, Replies(rpc, result),
         accepted' = accepted \/ (SendCall(rpc) /\ accepted' = accepted \union {rpc.item.id}),
         result = "ok" => rpc.item.id \in accepted',
         result = "refused" => SendCall(rpc) /\ accepted' = accepted,
         UNCHANGED <<place, bound, epoch, drafts, roomPending, saved, pausing, items, written, gone>>
  PROVE  SendsInv'
<1> DEFINE answer == [call |-> rpc, result |-> result]
<1>1. /\ answer.call = rpc /\ answer.result = result
      /\ replies' = replies \/ (~rpc.late /\ replies' = replies \union {answer})
  BY DEF Replies
<1> HIDE DEF answer
<1>2. rpc \in RoomRequests /\ rpc.channel \in Channels
  BY SendsTypes
<1>3. SendCall(rpc) => /\ TrueIn(items, rpc.item, rpc.channel) /\ rpc.item.id \notin accepted
                       /\ ~rpc.late => roomPending[rpc.channel] = rpc.item /\ rpc.item.state = "sending"
  BY SendsParts DEF CallsSaved
<1>4. accepted \subseteq accepted' /\ \A i \in accepted' : i \in accepted \/ (SendCall(rpc) /\ i = rpc.item.id)
  OBVIOUS
<1>5. SendCall(rpc) => rpc.item.id \in 1..Len(items)
  BY <1>3 DEF TrueIn
<1>6. SendsTypeOK' /\ WireTyped'
  <2>1. accepted' \subseteq 1..Len(items) /\ accepted' \subseteq Numbers
    <3>1. 1..Len(items) \subseteq Numbers
      BY SendsTypes DEF Numbers
    <3>2. accepted' \subseteq 1..Len(items)
      BY <1>4, <1>5, SendsTypes
    <3> QED
      BY <3>1, <3>2
  <2>2. SendsTypeOK'
    BY <2>1, SendsParts DEF SendsTypeOK
  <2>3. \A reply \in replies' : reply.call \in RoomRequests /\ reply.result \in {"ok", "refused", "unknown"}
    BY <1>1, <1>2, SendsParts DEF WireTyped
  <2> QED
    BY <2>1, <2>2, <2>3, SendsParts DEF WireTyped
<1>7. PendingIsSaved' /\ TextsTold'
  BY SendsParts DEF PendingIsSaved, TextsTold
<1>8. \A d \in roomCalls' : SendCall(rpc) /\ SendCall(d) => d.channel # rpc.channel
  BY SendsParts DEF CallsSaved
<1>9. CallsSaved'
  <2>1. ASSUME NEW d \in roomCalls', SendCall(d) PROVE d.item.id \notin accepted'
    <3>1. d.item.id \notin accepted /\ items[d.item.id].channel = d.channel
      BY <2>1, SendsParts DEF CallsSaved, TrueIn
    <3>2. SendCall(rpc) => items[rpc.item.id].channel = rpc.channel
      BY <1>3 DEF TrueIn
    <3> QED
      BY <1>4, <1>8, <2>1, <3>1, <3>2
  <2> QED
    BY <2>1, SendsParts DEF CallsSaved
<1>10. RepliesAwaited'
  <2>1. ASSUME NEW reply \in replies, SendCall(reply.call)
        PROVE  /\ roomPending[reply.call.channel] = reply.call.item /\ reply.call.item.state = "sending"
               /\ reply.result = "ok" => reply.call.item.id \in accepted'
               /\ reply.result = "refused" => reply.call.item.id \notin accepted'
               /\ \A d \in roomCalls' : SendCall(d) /\ d.channel = reply.call.channel =>
                    d.late /\ reply.result = "unknown"
               /\ SendCall(rpc) /\ ~rpc.late => reply.call.channel # rpc.channel
    <3>1. /\ roomPending[reply.call.channel] = reply.call.item /\ reply.call.item.state = "sending"
          /\ reply.result = "ok" => reply.call.item.id \in accepted
          /\ reply.result = "refused" => reply.call.item.id \notin accepted
          /\ \A d \in roomCalls : SendCall(d) /\ d.channel = reply.call.channel => d.late /\ reply.result = "unknown"
      BY <2>1, SendsParts DEF RepliesAwaited
    <3>2. reply.call.channel \in Channels
      BY SendsTypes
    <3>3. reply.result = "refused" => reply.call.item.id \notin accepted'
      <4>1. SUFFICES ASSUME reply.result = "refused", SendCall(rpc), reply.call.item.id = rpc.item.id PROVE FALSE
        BY <1>4, <3>1
      <4>2. items[rpc.item.id].channel = rpc.channel
        BY <1>3, <4>1 DEF TrueIn
      <4>3. reply.call.item # Nothing
        BY <3>1, NothingIs
      <4>4. items[reply.call.item.id].channel = reply.call.channel
        BY <3>1, <3>2, <4>3, SendsParts DEF PendingIsSaved, TrueIn
      <4> QED
        BY <3>1, <4>1, <4>2, <4>4
    <3> QED
      BY <1>4, <3>1, <3>3
  <2>2. ASSUME NEW reply \in replies', SendCall(reply.call)
        PROVE  /\ roomPending[reply.call.channel] = reply.call.item /\ reply.call.item.state = "sending"
               /\ reply.result = "ok" => reply.call.item.id \in accepted'
               /\ reply.result = "refused" => reply.call.item.id \notin accepted'
               /\ \A d \in roomCalls' : SendCall(d) /\ d.channel = reply.call.channel =>
                    d.late /\ reply.result = "unknown"
    <3>1. CASE reply \in replies
      BY <2>1, <2>2, <3>1
    <3>2. CASE reply \notin replies
      <4>1. reply = answer /\ ~rpc.late
        BY <1>1, <3>2
      <4>2. reply.call = rpc /\ reply.result = result /\ SendCall(rpc)
        BY <1>1, <2>2, <4>1
      <4> QED
        BY <1>3, <1>8, <4>1, <4>2
    <3> QED
      BY <3>1, <3>2
  <2>3. ASSUME NEW a \in replies', NEW b \in replies', SendCall(a.call), SendCall(b.call),
               a.call.channel = b.call.channel
        PROVE  a = b
    <3>1. CASE a \in replies /\ b \in replies
      BY <2>3, <3>1, SendsParts DEF RepliesAwaited
    <3>2. CASE a \notin replies \/ b \notin replies
      BY <1>1, <2>1, <2>3, <3>2
    <3> QED
      BY <3>1, <3>2
  <2>4. ASSUME NEW reply \in replies', ~SendCall(reply.call)
        PROVE  reply.call.item.state = "unknown" /\ (reply.result = "ok" => reply.call.item.id \in accepted')
    <3>1. CASE reply \in replies
      BY <1>4, <2>4, <3>1, SendsParts DEF RepliesAwaited
    <3>2. CASE reply \notin replies
      <4>1. reply.call = rpc /\ reply.result = result /\ ~SendCall(rpc)
        BY <1>1, <2>4, <3>2
      <4> QED
        BY <4>1, SendsParts DEF CallsSaved
    <3> QED
      BY <3>1, <3>2
  <2> QED
    BY <2>2, <2>3, <2>4 DEF RepliesAwaited
<1>11. \A i : Counts(i)' => Counts(i)
  BY <1>4 DEF Counts
<1>12. HeldIsPending' /\ CountsOnce'
  BY <1>11, SendsParts DEF HeldIsPending, CountsOnce
<1>13. NothingDropped'
  BY <1>4, SendsParts DEF NothingDropped
<1> QED
  BY <1>6, <1>7, <1>9, <1>10, <1>12, <1>13 DEF SendsInv

\* A request that timed out may still be read.
LEMMA TimeoutKeeps ==
  ASSUME SendsInv, NEW rpc \in roomCalls, ~rpc.late, NEW later, later \in RoomRequests, later.kind = rpc.kind,
         later.channel = rpc.channel, later.item = rpc.item, later.late,
         roomCalls' = (roomCalls \ {rpc}) \union {later}, Replies(rpc, "unknown"),
         UNCHANGED <<place, bound, epoch, drafts, roomPending, saved, pausing, accepted, items, written, gone>>
  PROVE  SendsInv'
<1> DEFINE answer == [call |-> rpc, result |-> "unknown"]
<1>1. answer.call = rpc /\ answer.result = "unknown" /\ replies' = replies \union {answer}
  BY DEF Replies
<1> HIDE DEF answer
<1>2. rpc \in RoomRequests /\ rpc.channel \in Channels /\ (SendCall(later) <=> SendCall(rpc))
  BY SendsTypes DEF SendCall
<1>3. SendCall(rpc) => /\ saved[rpc.channel] = rpc.item.id /\ TrueIn(items, rpc.item, rpc.channel)
                       /\ rpc.item.id \notin accepted
                       /\ roomPending[rpc.channel] = rpc.item /\ rpc.item.state = "sending"
  BY SendsParts DEF CallsSaved
<1>4. SendsTypeOK' /\ WireTyped'
  <2>1. SendsTypeOK'
    BY SendsParts DEF SendsTypeOK
  <2>2. \A reply \in replies' : reply.call \in RoomRequests /\ reply.result \in {"ok", "refused", "unknown"}
    BY <1>1, <1>2, SendsParts DEF WireTyped
  <2>3. \A d \in roomCalls' : d \in RoomRequests
    BY SendsParts DEF WireTyped
  <2> QED
    BY <2>1, <2>2, <2>3, SendsParts DEF WireTyped
<1>5. PendingIsSaved' /\ TextsTold' /\ NothingDropped'
  BY SendsParts DEF PendingIsSaved, TextsTold, NothingDropped
<1>6. \A d \in roomCalls \ {rpc} : SendCall(rpc) /\ SendCall(d) => d.channel # rpc.channel
  BY SendsParts DEF CallsSaved
<1>7. CallsSaved'
  <2>1. ASSUME NEW d \in roomCalls', SendCall(d)
        PROVE  /\ saved[d.channel] = d.item.id /\ TrueIn(items, d.item, d.channel) /\ d.item.id \notin accepted
               /\ ~d.late => roomPending[d.channel] = d.item /\ d.item.state = "sending"
    <3>1. CASE d = later
      BY <1>2, <1>3, <2>1, <3>1
    <3>2. CASE d \in roomCalls
      BY <2>1, <3>2, SendsParts DEF CallsSaved
    <3> QED
      BY <3>1, <3>2
  <2>2. ASSUME NEW a \in roomCalls', NEW b \in roomCalls', SendCall(a), SendCall(b), a.channel = b.channel PROVE a = b
    BY <1>2, <1>6, <2>2, SendsParts DEF CallsSaved
  <2>3. \A d \in roomCalls' : ~SendCall(d) => d.item.state = "unknown"
    BY <1>2, SendsParts DEF CallsSaved
  <2> QED
    BY <2>1, <2>2, <2>3 DEF CallsSaved
<1>8. RepliesAwaited'
  <2>1. ASSUME NEW reply \in replies, SendCall(reply.call)
        PROVE  /\ roomPending[reply.call.channel] = reply.call.item /\ reply.call.item.state = "sending"
               /\ reply.result = "ok" => reply.call.item.id \in accepted
               /\ reply.result = "refused" => reply.call.item.id \notin accepted
               /\ \A d \in roomCalls' : SendCall(d) /\ d.channel = reply.call.channel =>
                    d.late /\ reply.result = "unknown"
               /\ SendCall(rpc) => reply.call.channel # rpc.channel
    <3>1. /\ roomPending[reply.call.channel] = reply.call.item /\ reply.call.item.state = "sending"
          /\ reply.result = "ok" => reply.call.item.id \in accepted
          /\ reply.result = "refused" => reply.call.item.id \notin accepted
          /\ \A d \in roomCalls : SendCall(d) /\ d.channel = reply.call.channel => d.late /\ reply.result = "unknown"
      BY <2>1, SendsParts DEF RepliesAwaited
    <3>2. SendCall(rpc) => reply.call.channel # rpc.channel
      BY <3>1
    <3> QED
      BY <1>2, <3>1, <3>2
  <2>2. ASSUME NEW reply \in replies', SendCall(reply.call)
        PROVE  /\ roomPending[reply.call.channel] = reply.call.item /\ reply.call.item.state = "sending"
               /\ reply.result = "ok" => reply.call.item.id \in accepted
               /\ reply.result = "refused" => reply.call.item.id \notin accepted
               /\ \A d \in roomCalls' : SendCall(d) /\ d.channel = reply.call.channel =>
                    d.late /\ reply.result = "unknown"
    <3>1. CASE reply \in replies
      BY <2>1, <2>2, <3>1
    <3>2. CASE reply \notin replies
      <4>1. reply.call = rpc /\ reply.result = "unknown" /\ SendCall(rpc)
        BY <1>1, <2>2, <3>2
      <4> QED
        BY <1>3, <1>6, <4>1
    <3> QED
      BY <3>1, <3>2
  <2>3. ASSUME NEW a \in replies', NEW b \in replies', SendCall(a.call), SendCall(b.call),
               a.call.channel = b.call.channel
        PROVE  a = b
    <3>1. CASE a \in replies /\ b \in replies
      BY <2>3, <3>1, SendsParts DEF RepliesAwaited
    <3>2. CASE a \notin replies \/ b \notin replies
      BY <1>1, <2>1, <2>3, <3>2
    <3> QED
      BY <3>1, <3>2
  <2>4. ASSUME NEW reply \in replies', ~SendCall(reply.call)
        PROVE  reply.call.item.state = "unknown" /\ (reply.result = "ok" => reply.call.item.id \in accepted)
    <3>1. CASE reply \in replies
      BY <2>4, <3>1, SendsParts DEF RepliesAwaited
    <3>2. CASE reply \notin replies
      <4>1. reply.call = rpc /\ reply.result = "unknown" /\ ~SendCall(rpc)
        BY <1>1, <2>4, <3>2
      <4> QED
        BY <4>1, SendsParts DEF CallsSaved
    <3> QED
      BY <3>1, <3>2
  <2> QED
    BY <2>2, <2>3, <2>4 DEF RepliesAwaited
<1>9. \A i : Counts(i)' => Counts(i)
  BY <1>2 DEF Counts
<1>10. HeldIsPending' /\ CountsOnce'
  BY <1>9, SendsParts DEF HeldIsPending, CountsOnce
<1> QED
  BY <1>4, <1>5, <1>7, <1>8, <1>10 DEF SendsInv

LEMMA RoomReadsKeep == SendsInv /\ CoreReadsRoom => SendsInv'
<1> SUFFICES ASSUME SendsInv, CoreReadsRoom PROVE SendsInv'
  OBVIOUS
<1>1. UNCHANGED <<place, bound, epoch, drafts, roomPending, saved, pausing, items, written, gone>>
  BY DEF CoreReadsRoom
<1>2. PICK rpc \in roomCalls, yes \in {TRUE} :
       \/ /\ roomCalls' = roomCalls \ {rpc}
          /\ \/ rpc.kind = "receipt" /\ Replies(rpc, Receipt(rpc)) /\ UNCHANGED accepted
             \/ /\ rpc.kind = "send"
                /\ \/ Replies(rpc, "ok") /\ accepted' = accepted \union {rpc.item.id}
                   \/ Replies(rpc, "refused") /\ UNCHANGED accepted
       \/ /\ roomCalls' = roomCalls \ {rpc} /\ Replies(rpc, "unknown")
          /\ \/ UNCHANGED accepted
             \/ rpc.kind = "send" /\ accepted' = accepted \union {rpc.item.id}
       \/ /\ ~rpc.late /\ Replies(rpc, "unknown")
          /\ roomCalls' = (roomCalls \ {rpc}) \union {[rpc EXCEPT !.late = yes]} /\ UNCHANGED accepted
  BY DEF CoreReadsRoom
<1>3. CASE roomCalls' = roomCalls \ {rpc} /\ rpc.kind = "receipt" /\ Replies(rpc, Receipt(rpc)) /\ UNCHANGED accepted
  <2>1. Receipt(rpc) \in {"ok", "unknown"} /\ (Receipt(rpc) = "ok" => rpc.item.id \in accepted)
    BY DEF Receipt
  <2> HIDE DEF Receipt
  <2> QED
    BY <1>1, <1>3, <2>1, ReadKeeps
<1>4. CASE /\ roomCalls' = roomCalls \ {rpc} /\ rpc.kind = "send"
           /\ \/ Replies(rpc, "ok") /\ accepted' = accepted \union {rpc.item.id}
              \/ Replies(rpc, "refused") /\ UNCHANGED accepted
  BY <1>1, <1>4, ReadKeeps DEF SendCall
<1>5. CASE /\ roomCalls' = roomCalls \ {rpc} /\ Replies(rpc, "unknown")
           /\ \/ UNCHANGED accepted
              \/ rpc.kind = "send" /\ accepted' = accepted \union {rpc.item.id}
  BY <1>1, <1>5, ReadKeeps DEF SendCall
<1>6. CASE /\ ~rpc.late /\ Replies(rpc, "unknown")
           /\ roomCalls' = (roomCalls \ {rpc}) \union {[rpc EXCEPT !.late = yes]} /\ UNCHANGED accepted
  <2> DEFINE later == [rpc EXCEPT !.late = yes]
  <2>1. rpc \in RoomRequests
    BY SendsTypes
  <2>2. /\ later \in RoomRequests /\ later.kind = rpc.kind /\ later.channel = rpc.channel
        /\ later.item = rpc.item /\ later.late
    BY <2>1 DEF RoomRequests
  <2>3. roomCalls' = (roomCalls \ {rpc}) \union {later}
    BY <1>6
  <2> HIDE DEF later
  <2> QED
    BY <1>1, <1>6, <2>2, <2>3, TimeoutKeeps
<1> QED
  BY <1>2, <1>3, <1>4, <1>5, <1>6

\* Every step of the channels' messages keeps the invariant.
LEMMA SendsStep == SendsInv /\ [NextSends]_sendVars => SendsInv'
<1> SUFFICES ASSUME SendsInv, [NextSends]_sendVars PROVE SendsInv'
  OBVIOUS
<1>1. CASE UNCHANGED sendVars
  <2>1. UNCHANGED <<place, bound, epoch, drafts, roomPending, saved, pausing, roomCalls, replies, accepted, items, written, gone>>
    BY <1>1 DEF sendVars
  <2>2. SendsTypeOK' /\ WireTyped'
    BY <2>1, SendsParts DEF SendsTypeOK, WireTyped
  <2>3. PendingIsSaved' /\ TextsTold' /\ NothingDropped'
    BY <2>1, SendsParts DEF PendingIsSaved, TextsTold, NothingDropped
  <2>4. CallsSaved' /\ RepliesAwaited'
    BY <2>1, SendsParts DEF CallsSaved, RepliesAwaited
  <2>5. \A i : Counts(i)' <=> Counts(i)
    BY <2>1 DEF Counts
  <2>6. HeldIsPending' /\ CountsOnce'
    BY <2>1, <2>5, SendsParts DEF HeldIsPending, CountsOnce
  <2> QED
    BY <2>2, <2>3, <2>4, <2>6 DEF SendsInv
<1>2. CASE NextSends
  BY <1>2, BindKeeps, ReloadKeeps, RoomMovesKeep, WriteKeeps, SendKeeps, AnsweredKeeps, RoomReadsKeep DEF NextSends
<1> QED
  BY <1>1, <1>2

LEMMA SendsHold == SpecSends => []SendsInv
<1>1. InitSends => SendsInv
  BY SendsStart
<1>2. SendsInv /\ [NextSends]_sendVars => SendsInv'
  BY SendsStep
<1> QED
  BY <1>1, <1>2, PTL DEF SpecSends

\* Every variable of the channels' messages keeps its type.
THEOREM SendsTyped == SpecSends => []SendsTypeOK
<1>1. SendsInv => SendsTypeOK
  BY SendsParts
<1> QED
  BY <1>1, SendsHold, PTL

\* What the user types is accepted once, whatever is lost, late or loaded again.
THEOREM TextsAreTypedOnce == SpecSends => []TypedOnce
<1>1. SendsInv => TypedOnce
  <2> SUFFICES ASSUME SendsInv, NEW a \in accepted, NEW b \in accepted, a # b, items[a].text # 0,
                      items[a].text = items[b].text
               PROVE  FALSE
    BY DEF TypedOnce
  <2>1. a \in 1..Len(items) /\ b \in 1..Len(items)
    BY SendsTypes
  <2>2. Counts(a) /\ Counts(b)
    BY DEF Counts
  <2> QED
    BY <2>1, <2>2, SendsParts DEF CountsOnce
<1> QED
  BY <1>1, SendsHold, PTL

\* A composer is emptied only of what the Core has accepted.
THEOREM TextsAreNotDropped == SpecSends => []NothingDropped
<1>1. SendsInv => NothingDropped
  BY SendsParts
<1> QED
  BY <1>1, SendsHold, PTL

\* What may still be accepted is known to be pending, also after the window is loaded again.
THEOREM OpenMessagesAreSaved == SpecSends => []OpenIsSaved
<1>1. SendsInv => OpenIsSaved
  BY SendsParts DEF OpenIsSaved, CallsSaved, PendingIsSaved, SendCall
<1> QED
  BY <1>1, SendsHold, PTL

--------------------------------------------------------------------------------
(* The catalog, the channel shown and the creations. *)

RequestKinds == {"list", "select", "snapshot", "create", "verify", "update"}
Requests == [kind : RequestKinds, n : Nat, channel : Ids \union {0}, epoch : Nat, selection : Nat, expected : Int,
             late : BOOLEAN]
Values == [revision : Nat, ids : SUBSET Ids, room : Nat]
AnswersOf == [call : Requests, result : {"ok", "refused", "unknown"}, value : Values, slow : BOOLEAN]
Views == [home : BOOLEAN, epoch : Nat, selection : Nat, catalog : [revision : Int, ids : SUBSET Ids],
          channel : Ids \union {0}, shown : Int, error : {"none", "load", "unknown", "refused"},
          saving : BOOLEAN, unknown : BOOLEAN]
WorkOfDesk == [n : Nat, dirty : BOOLEAN, last : Nat]
Desks == [view : Views, refreshing : [n : Nat, dirty : BOOLEAN, last : Nat], creation : Ids \union {0},
          savers : SUBSET [n : Nat, epoch : Nat], calls : Seq(Requests), overlooked : BOOLEAN]
RoomCores == [revision : Nat, ids : SUBSET Ids, rooms : [Ids -> Nat]]

\* What the renderer still waits for: what the Core has not read, and what it has answered.
Unread(d) == {d.calls[i] : i \in {j \in 1..Len(d.calls) : ~d.calls[j].late}}
HeardIn(w) == {w[i] : i \in {j \in 1..Len(w) : w[j].call.kind # "changed"}}
ToldIn(w) == \E i \in 1..Len(w) : w[i].call.kind = "changed"
Open(d, heard) == Unread(d) \union {a.call : a \in heard}

\* What is known of the Core, of the requests to it, and of its answers.
KnownOf(d, c, f) ==
  /\ \A e \in Ids \ {Room} : f[e] = "open" => d.creation = e
  /\ \A e \in c.ids \ {Room} : f[e] \notin {"none", "open"}
  /\ d.creation # 0 => d.creation # Room /\ f[d.creation] # "none"
  /\ d.view.catalog.ids \subseteq c.ids /\ d.view.channel \in c.ids \union {0}
  /\ d.view.catalog.revision <= c.revision
  /\ d.view.channel # 0 => d.view.shown <= c.rooms[d.view.channel]
CallOf(rpc, c, f) ==
  /\ rpc.kind \in {"update", "select", "snapshot"} => rpc.channel \in c.ids
  /\ rpc.kind = "create" => rpc.channel \in Ids \ {Room} /\ f[rpc.channel] # "none"
AnswerOf(a, c, f) ==
  /\ a.value.ids \subseteq c.ids /\ a.value.revision <= c.revision
  /\ a.call.channel # 0 => a.value.room <= c.rooms[a.call.channel]
  /\ CallOf(a.call, c, f)
  /\ a.call.kind = "create" /\ a.result # "unknown" => f[a.call.channel] # "open"

\* A request is of the epoch and the selection it was made in.
Aged(d, rpc, f) ==
  /\ rpc.epoch <= d.view.epoch /\ rpc.selection <= d.view.selection /\ rpc.n <= d.refreshing.last
  /\ rpc.epoch = d.view.epoch => d.view.home
  /\ rpc.kind \notin {"list", "snapshot"} => rpc.n = 0
  /\ rpc.kind = "snapshot" => rpc.n # 0
  /\ rpc.kind = "verify" => rpc.channel \in Ids /\ f[rpc.channel] # "none"
  /\ CurrentFor(d, rpc) /\ (rpc.kind \in {"select", "snapshot"} \/ (rpc.kind = "list" /\ rpc.n # 0)) =>
       rpc.channel = d.view.channel
  /\ rpc.n # 0 /\ rpc.n = d.refreshing.n => CurrentFor(d, rpc)
AgesOf(d, open, f) ==
  /\ \A rpc \in open : Aged(d, rpc, f)
  /\ \A a, b \in open : a.kind = "create" /\ b.kind = "create" /\ a.channel = b.channel => a.epoch = b.epoch
\* Work under way, but k, waits for a request of its own, and so do those who await it.
WorkOf(d, open, k) ==
  /\ d.refreshing.n <= d.refreshing.last
  /\ d.refreshing.n # 0 => d.view.home /\ (d.refreshing.n = k \/ \E rpc \in open : rpc.n = d.refreshing.n)
  /\ \A s \in d.savers : s.n # 0 /\ (s.n = k \/ \E rpc \in open : rpc.n = s.n)
\* Who is busy waits for an answer.
AsideOf(d) ==
  /\ ~d.view.home => ~d.view.saving /\ d.view.catalog = NoCatalog /\ ~d.view.unknown
  /\ d.view.unknown => d.creation # 0
Creates(d, open) ==
  /\ \E rpc \in open : rpc.kind = "create" /\ rpc.epoch = d.view.epoch /\ rpc.channel = d.creation
  /\ ~d.view.unknown
  /\ ~\E rpc \in open : rpc.kind = "verify" /\ rpc.epoch = d.view.epoch /\ rpc.channel = d.creation
Updates(d, open) ==
  \/ \E rpc \in open : rpc.kind = "update" /\ rpc.epoch = d.view.epoch
  \/ \E s \in d.savers : s.epoch = d.view.epoch
BusyOf(d, open) == d.view.saving => Creates(d, open) \/ Updates(d, open)
\* What is old is read again, or it is said that it may be old.
Says(d) == d.overlooked \/ d.view.error = "load"
Admits(d, admitted) == Says(d) \/ admitted \/ (d.refreshing.n # 0 /\ d.refreshing.dirty)
CatalogOf(d, heard, c, admitted) ==
  d.view.home =>
    \/ d.view.catalog.revision = c.revision \/ Admits(d, admitted)
    \/ \E rpc \in Unread(d) : rpc.kind = "list" /\ rpc.epoch = d.view.epoch
    \/ \E a \in heard : a.call.kind = "list" /\ a.call.epoch = d.view.epoch
                        /\ (a.result # "ok" \/ a.value.revision = c.revision)
ChannelOf(d, heard, c, admitted) ==
  d.view.home /\ d.view.channel # 0 =>
    \/ d.view.shown = c.rooms[d.view.channel] \/ Admits(d, admitted)
    \/ \E rpc \in Open(d, heard) : rpc.kind = "list" /\ rpc.n # 0 /\ CurrentFor(d, rpc)
    \/ \E rpc \in Unread(d) : rpc.kind \in {"select", "snapshot"} /\ CurrentFor(d, rpc)
    \/ \E a \in heard : a.call.kind \in {"select", "snapshot"} /\ CurrentFor(d, a.call)
                        /\ (a.result # "ok" \/ a.value.room = c.rooms[d.view.channel])

\* The renderer, the answers it has not heard, the Core and its changes that are told; but
\* the work k and the claims in `but`, while an answer is dealt with.
DeskInv(d, heard, c, f, admitted, k, but) ==
  /\ d \in Desks /\ heard \subseteq AnswersOf /\ c \in RoomCores /\ f \in [Ids -> Fates]
  /\ KnownOf(d, c, f)
  /\ \A i \in 1..Len(d.calls) : CallOf(d.calls[i], c, f)
  /\ \A a \in heard : AnswerOf(a, c, f)
  /\ AgesOf(d, Open(d, heard), f) /\ WorkOf(d, Open(d, heard), k) /\ AsideOf(d)
  /\ "busy" \in but \/ BusyOf(d, Open(d, heard))
  /\ "catalog" \in but \/ CatalogOf(d, heard, c, admitted)
  /\ "channel" \in but \/ ChannelOf(d, heard, c, admitted)

\* What is shown changes at most in the catalog, the channel's snapshot, errors and what is busy.
Stays(d, e) ==
  /\ e \in Desks /\ e.view.home = d.view.home /\ e.view.epoch = d.view.epoch
  /\ e.view.selection = d.view.selection /\ e.view.channel = d.view.channel
  /\ e.refreshing = d.refreshing /\ e.savers = d.savers /\ e.calls = d.calls
  /\ Says(d) => Says(e)
\* A desk with another view, a creation, and work.
DeskWith(d, v, o, x, r) == [d EXCEPT !.view = v, !.overlooked = o, !.creation = x, !.refreshing = r]
\* A desk that is busy or not, with an error, an unknown creation, and a creation.
Banners(d, s, er, u, o, x) ==
  DeskWith(d, [d.view EXCEPT !.saving = s, !.error = er, !.unknown = u], o, x, d.refreshing)
\* Such a change keeps what DeskInv says: what could not be loaded is not forgotten, and who is
\* busy, but for the claims in `but`, waits.
BannersFit(d, heard, f, s, er, u, o, x, but, less) ==
  /\ s \in BOOLEAN /\ er \in {"none", "load", "unknown", "refused"} /\ u \in BOOLEAN /\ o \in BOOLEAN
  /\ x = d.creation \/ (x = 0 /\ f[d.creation] # "open")
  /\ d.overlooked \/ d.view.error = "load" => o \/ er = "load"
  /\ d.view.home \/ (~s /\ ~u)
  /\ u => x # 0
  /\ but \ less \subseteq {"busy"}
  /\ \/ "busy" \in less \/ ~s \/ Updates(d, Open(d, heard))
     \/ "busy" \notin but /\ (s => d.view.saving) /\ u = d.view.unknown /\ x = d.creation
\* A selection, and none.
Chooses(d, channel) ==
  [Leaves(ForgetsWork(d)) EXCEPT !.view.channel = channel, !.view.shown = Never, !.view.error = "none"]

Wires == {Changed} \union AnswersOf
LocalInv == wire \in Seq(Wires) /\ DeskInv(Desk, HeardIn(wire), localCore, fates, ToldIn(wire), 0, {})
\* What the Core has does not get less.
Grows(c, c2, f, f2) ==
  /\ c2 \in RoomCores /\ f2 \in [Ids -> Fates] /\ c.revision <= c2.revision /\ c.ids \subseteq c2.ids
  /\ \A x \in Ids : c.rooms[x] <= c2.rooms[x]
  /\ \A x \in c2.ids \ {Room} : f2[x] \notin {"none", "open"}
  /\ \A x \in Ids : (f2[x] = "open" => f[x] = "open") /\ (f[x] # "none" => f2[x] # "none")
\* An answer to a request, as the Core is.
AnsweredNow(a, d, c, f) ==
  /\ a \in AnswersOf /\ a.call \in Unread(d) /\ AnswerOf(a, c, f)
  /\ \/ a.result # "ok"
     \/ a.value.revision = c.revision /\ (a.call.channel # 0 => a.value.room = c.rooms[a.call.channel])
\* A change of channel x.
ChangedCore(c, x, ids) == [c EXCEPT !.revision = @ + 1, !.ids = ids, !.rooms[x] = @ + 1]
\* What the Core answers.
AnswerTo(rpc, result, c, slow) ==
  [call |-> rpc, result |-> result, value |-> Value(c, rpc.channel), slow |-> slow]

\* Numbers and sets that the definitions speak of.
LEMMA LocalNumbers == MaxCreations \in Nat /\ Room \in Ids /\ 0 \notin Ids /\ Never = -1 /\ Ids \subseteq Nat
BY LocalAssumption DEF Ids, Room, Never

\* A request of the desk d.
NewCall(d, kind, n, channel) ==
  [kind |-> kind, n |-> n, channel |-> channel, epoch |-> d.view.epoch, selection |-> d.view.selection,
   expected |-> d.view.catalog.revision, late |-> FALSE]

LEMMA NewCallIs ==
  ASSUME NEW d \in Desks, NEW kind \in RequestKinds, NEW n \in Nat, NEW channel \in Ids \union {0}
  PROVE  LET rpc == NewCall(d, kind, n, channel)
         IN /\ rpc \in Requests /\ ~rpc.late
            /\ rpc.kind = kind /\ rpc.n = n /\ rpc.channel = channel /\ rpc.epoch = d.view.epoch
            /\ rpc.selection = d.view.selection
<1>1. PICK no \in {FALSE} : NewCall(d, kind, n, channel) =
        [kind |-> kind, n |-> n, channel |-> channel, epoch |-> d.view.epoch, selection |-> d.view.selection,
         expected |-> d.view.catalog.revision, late |-> no]
  BY DEF NewCall
<1>2. d.view.epoch \in Nat /\ d.view.selection \in Nat /\ d.view.catalog.revision \in Int
  BY DEF Desks, Views
<1> QED
  BY <1>1, <1>2 DEF Requests

\* What a desk keeps.
LEMMA DeskTypes ==
  ASSUME NEW d \in Desks
  PROVE  /\ d.view \in Views /\ d.creation \in Ids \union {0} /\ d.calls \in Seq(Requests)
         /\ d.savers \subseteq [n : Nat, epoch : Nat] /\ d.overlooked \in BOOLEAN
         /\ d.refreshing \in [n : Nat, dirty : BOOLEAN, last : Nat]
         /\ d.view.home \in BOOLEAN /\ d.view.epoch \in Nat /\ d.view.selection \in Nat
         /\ d.view.catalog \in [revision : Int, ids : SUBSET Ids] /\ d.view.catalog.revision \in Int
         /\ d.view.channel \in Ids \union {0} /\ d.view.shown \in Int /\ d.view.saving \in BOOLEAN
         /\ d.view.unknown \in BOOLEAN /\ d.view.error \in {"none", "load", "unknown", "refused"}
         /\ d.refreshing.n \in Nat /\ d.refreshing.last \in Nat /\ d.refreshing.dirty \in BOOLEAN
         /\ \A s \in d.savers : s.n \in Nat /\ s.epoch \in Nat
         /\ Len(d.calls) \in Nat
         /\ \A i \in 1..Len(d.calls) : d.calls[i] \in Requests
<1>1. /\ d.view \in Views /\ d.creation \in Ids \union {0} /\ d.calls \in Seq(Requests)
      /\ d.savers \subseteq [n : Nat, epoch : Nat] /\ d.overlooked \in BOOLEAN
      /\ d.refreshing \in [n : Nat, dirty : BOOLEAN, last : Nat]
  BY DEF Desks
<1>2. /\ d.view.home \in BOOLEAN /\ d.view.epoch \in Nat /\ d.view.selection \in Nat
      /\ d.view.catalog \in [revision : Int, ids : SUBSET Ids] /\ d.view.catalog.revision \in Int
      /\ d.view.channel \in Ids \union {0} /\ d.view.shown \in Int /\ d.view.saving \in BOOLEAN
      /\ d.view.unknown \in BOOLEAN /\ d.view.error \in {"none", "load", "unknown", "refused"}
  BY <1>1 DEF Views
<1>3. d.refreshing.n \in Nat /\ d.refreshing.last \in Nat /\ d.refreshing.dirty \in BOOLEAN
  BY <1>1
<1>4. \A s \in d.savers : s.n \in Nat /\ s.epoch \in Nat
  BY <1>1
<1>5. Len(d.calls) \in Nat /\ \A i \in 1..Len(d.calls) : d.calls[i] \in Requests
  <2> HIDE DEF Requests
  <2> QED
    BY <1>1
<1> QED
  BY <1>1, <1>2, <1>3, <1>4, <1>5

\* Asking adds one request, which the Core has not read.
LEMMA AsksIs ==
  ASSUME NEW d \in Desks, NEW kind \in RequestKinds, NEW n \in Nat, NEW channel \in Ids \union {0}
  PROVE  LET e == Asks(d, kind, n, channel)
             rpc == NewCall(d, kind, n, channel)
         IN /\ e \in Desks /\ e.view = d.view /\ e.refreshing = d.refreshing /\ e.creation = d.creation
            /\ e.savers = d.savers /\ e.overlooked = d.overlooked
            /\ Unread(e) = Unread(d) \union {rpc}
            /\ Len(e.calls) = Len(d.calls) + 1 /\ e.calls[Len(d.calls) + 1] = rpc
            /\ \A i \in 1..Len(d.calls) : e.calls[i] = d.calls[i]
<1> DEFINE rpc == NewCall(d, kind, n, channel)
           e == Asks(d, kind, n, channel)
<1>1. rpc \in Requests /\ ~rpc.late
  BY NewCallIs
<1>2. e = [d EXCEPT !.calls = Append(d.calls, rpc)]
  BY DEF Asks, NewCall
<1> HIDE DEF rpc
<1>3. d.calls \in Seq(Requests) /\ Append(d.calls, rpc) \in Seq(Requests)
  <2> HIDE DEF Requests
  <2> QED
    BY <1>1, DeskTypes
<1>4. /\ e \in Desks /\ e.view = d.view /\ e.refreshing = d.refreshing /\ e.creation = d.creation
      /\ e.savers = d.savers /\ e.overlooked = d.overlooked /\ e.calls = Append(d.calls, rpc)
  <2> DEFINE more == Append(d.calls, rpc)
  <2> HIDE DEF more, e
  <2> SUFFICES /\ e \in Desks /\ e.view = d.view /\ e.refreshing = d.refreshing /\ e.creation = d.creation
               /\ e.savers = d.savers /\ e.overlooked = d.overlooked /\ e.calls = more
    BY DEF more
  <2>1. more \in Seq(Requests) /\ e = [d EXCEPT !.calls = more]
    BY <1>2, <1>3 DEF more, e
  <2> HIDE DEF Requests
  <2> QED
    BY <2>1 DEF Desks
<1> HIDE DEF e
<1>5. /\ Len(e.calls) = Len(d.calls) + 1 /\ e.calls[Len(d.calls) + 1] = rpc
      /\ \A i \in 1..Len(d.calls) : e.calls[i] = d.calls[i]
  <2> HIDE DEF Requests
  <2> QED
    BY <1>1, <1>3, <1>4
<1>6. Unread(e) = Unread(d) \union {rpc}
  <2>1. Len(d.calls) \in Nat
    BY DeskTypes
  <2>2. ASSUME NEW x \in Unread(e) PROVE x \in Unread(d) \/ x = rpc
    <3>1. PICK i \in 1..Len(e.calls) : ~e.calls[i].late /\ x = e.calls[i]
      BY <2>2 DEF Unread
    <3>2. i = Len(d.calls) + 1 \/ i \in 1..Len(d.calls)
      BY <1>5, <2>1, <3>1
    <3>3. CASE i \in 1..Len(d.calls)
      <4>1. e.calls[i] = d.calls[i]
        BY <1>5, <3>3
      <4> QED
        BY <3>1, <3>3, <4>1 DEF Unread
    <3> QED
      BY <1>5, <3>1, <3>2, <3>3
  <2>3. ASSUME NEW x \in Unread(d) PROVE x \in Unread(e)
    <3>1. PICK i \in 1..Len(d.calls) : ~d.calls[i].late /\ x = d.calls[i]
      BY <2>3 DEF Unread
    <3>2. i \in 1..Len(e.calls) /\ e.calls[i] = x
      BY <1>5, <2>1, <3>1
    <3> QED
      BY <3>1, <3>2 DEF Unread
  <2>4. rpc \in Unread(e)
    <3>1. Len(d.calls) + 1 \in 1..Len(e.calls)
      BY <1>5, <2>1
    <3> QED
      BY <1>1, <1>5, <3>1 DEF Unread
  <2> QED
    BY <2>2, <2>3, <2>4
<1> QED
  BY <1>4, <1>5, <1>6 DEF rpc, e

\* The parts of the invariant, by name.
LEMMA DeskParts ==
  ASSUME NEW d, NEW heard, NEW c, NEW f, NEW admitted, NEW k, NEW but, DeskInv(d, heard, c, f, admitted, k, but)
  PROVE  /\ d \in Desks /\ heard \subseteq AnswersOf /\ c \in RoomCores /\ f \in [Ids -> Fates]
         /\ KnownOf(d, c, f)
         /\ \A i \in 1..Len(d.calls) : CallOf(d.calls[i], c, f)
         /\ \A a \in heard : AnswerOf(a, c, f)
         /\ AgesOf(d, Open(d, heard), f) /\ WorkOf(d, Open(d, heard), k) /\ AsideOf(d)
         /\ "busy" \in but \/ BusyOf(d, Open(d, heard))
         /\ "catalog" \in but \/ CatalogOf(d, heard, c, admitted)
         /\ "channel" \in but \/ ChannelOf(d, heard, c, admitted)
BY DEF DeskInv

\* Whatever is open is a request.
LEMMA OpenTypes ==
  ASSUME NEW d \in Desks, NEW heard, heard \subseteq AnswersOf
  PROVE  /\ \A rpc \in Open(d, heard) : rpc \in Requests
         /\ \A rpc \in Requests : rpc.n \in Nat /\ rpc.epoch \in Nat /\ rpc.selection \in Nat
                                   /\ rpc.channel \in Ids \union {0} /\ rpc.kind \in RequestKinds
<1>1. \A rpc \in Unread(d) : rpc \in Requests
  BY DeskTypes DEF Unread
<1>2. \A a \in heard : a.call \in Requests
  <2> HIDE DEF Requests
  <2> QED
    BY DEF AnswersOf
<1> QED
  BY <1>1, <1>2 DEF Open, Requests

\* A change of what is shown: the answers only bring newer snapshots, and what could not
\* be loaded is not forgotten without a word.
LEMMA ViewChanges ==
  ASSUME NEW d, NEW e \in Desks, NEW heard, NEW c, NEW f, NEW admitted, NEW k, NEW but, NEW less,
         DeskInv(d, heard, c, f, admitted, k, but),
         e.view.home = d.view.home, e.view.epoch = d.view.epoch, e.view.selection = d.view.selection,
         e.view.channel = d.view.channel, e.refreshing = d.refreshing, e.savers = d.savers, e.calls = d.calls,
         Says(d) => Says(e),
         e.view.catalog.ids \subseteq c.ids, d.view.catalog.revision <= e.view.catalog.revision,
         e.view.catalog.revision <= c.revision,
         d.view.channel # 0 => d.view.shown <= e.view.shown /\ e.view.shown <= c.rooms[d.view.channel],
         e.creation = d.creation \/ (e.creation = 0 /\ f[d.creation] # "open"),
         AsideOf(e), "busy" \in less \/ BusyOf(e, Open(d, heard)),
         "catalog" \in but \ less => e.view.catalog.revision = c.revision \/ e.view.error = "load",
         "channel" \in but \ less =>
           d.view.channel = 0 \/ e.view.shown = c.rooms[d.view.channel] \/ e.view.error = "load"
  PROVE  DeskInv(e, heard, c, f, admitted, k, less)
<1>1. /\ d \in Desks /\ heard \subseteq AnswersOf /\ c \in RoomCores /\ f \in [Ids -> Fates]
      /\ KnownOf(d, c, f)
      /\ \A i \in 1..Len(d.calls) : CallOf(d.calls[i], c, f)
      /\ \A a \in heard : AnswerOf(a, c, f)
      /\ AgesOf(d, Open(d, heard), f) /\ WorkOf(d, Open(d, heard), k)
      /\ "catalog" \in but \/ CatalogOf(d, heard, c, admitted)
      /\ "channel" \in but \/ ChannelOf(d, heard, c, admitted)
  BY DeskParts
<1>2. Unread(e) = Unread(d) /\ Open(e, heard) = Open(d, heard)
  BY DEF Unread, Open
<1>3. KnownOf(e, c, f)
  BY <1>1 DEF KnownOf
<1>4. AgesOf(e, Open(e, heard), f)
  BY <1>1, <1>2 DEF AgesOf, Aged, CurrentFor, SameEpoch
<1>5. WorkOf(e, Open(e, heard), k)
  BY <1>1, <1>2 DEF WorkOf
<1>6. ASSUME "catalog" \notin less PROVE CatalogOf(e, heard, c, admitted)
  <2>1. CASE "catalog" \in but
    BY <1>6, <2>1 DEF CatalogOf, Admits, Says
  <2>2. CASE CatalogOf(d, heard, c, admitted)
    <3>1. d.view.catalog.revision = c.revision => e.view.catalog.revision = c.revision
      <4>1. d.view.catalog.revision \in Int /\ e.view.catalog.revision \in Int /\ c.revision \in Int
        BY <1>1, DeskTypes DEF RoomCores
      <4> QED
        BY <4>1
    <3> QED
      BY <1>2, <2>2, <3>1 DEF CatalogOf, Admits
  <2> QED
    BY <1>1, <2>1, <2>2
<1>7. ASSUME "channel" \notin less PROVE ChannelOf(e, heard, c, admitted)
  <2>1. CASE "channel" \in but
    BY <1>7, <2>1 DEF ChannelOf, Admits, Says
  <2>2. CASE ChannelOf(d, heard, c, admitted)
    <3>1. d.view.channel # 0 /\ d.view.shown = c.rooms[d.view.channel] => e.view.shown = c.rooms[d.view.channel]
      <4>1. d.view.channel # 0 => c.rooms[d.view.channel] \in Int
        BY <1>1, DeskTypes DEF RoomCores
      <4>2. e.view.shown \in Int
        BY DeskTypes
      <4> QED
        BY <4>1, <4>2
    <3> QED
      BY <1>2, <2>2, <3>1 DEF ChannelOf, Admits, CurrentFor, SameEpoch
  <2> QED
    BY <1>1, <2>1, <2>2
<1> QED
  BY <1>1, <1>2, <1>3, <1>4, <1>5, <1>6, <1>7 DEF DeskInv

\* A request that is added, by work, by a selection, or by the user.
LEMMA AsksKeep ==
  ASSUME NEW d, NEW heard, NEW c, NEW f, NEW admitted, NEW k \in Nat, NEW but, NEW j \in Nat, NEW less,
         DeskInv(d, heard, c, f, admitted, k, but),
         NEW kind \in RequestKinds, NEW n \in Nat, NEW channel \in Ids \union {0},
         d.view.home, n <= d.refreshing.last, kind # "create",
         kind \notin {"list", "snapshot"} => n = 0, kind = "snapshot" => n # 0,
         kind \in {"update", "select", "snapshot"} => channel \in c.ids,
         kind = "verify" => d.view.unknown /\ channel \in Ids /\ f[channel] # "none",
         kind \in {"select", "snapshot"} \/ (kind = "list" /\ n # 0) => channel = d.view.channel,
         j = k \/ (j = 0 /\ n = k),
         "busy" \in but \ less => kind = "update",
         "catalog" \in but \ less => kind = "list",
         "channel" \in but \ less => kind \in {"select", "snapshot"} \/ (kind = "list" /\ n # 0)
  PROVE  DeskInv(Asks(d, kind, n, channel), heard, c, f, admitted, j, less)
<1> DEFINE e == Asks(d, kind, n, channel)
           rpc == NewCall(d, kind, n, channel)
<1>1. /\ d \in Desks /\ heard \subseteq AnswersOf /\ c \in RoomCores /\ f \in [Ids -> Fates]
      /\ KnownOf(d, c, f)
      /\ \A i \in 1..Len(d.calls) : CallOf(d.calls[i], c, f)
      /\ \A a \in heard : AnswerOf(a, c, f)
      /\ AgesOf(d, Open(d, heard), f) /\ WorkOf(d, Open(d, heard), k) /\ AsideOf(d)
      /\ "busy" \in but \/ BusyOf(d, Open(d, heard))
      /\ "catalog" \in but \/ CatalogOf(d, heard, c, admitted)
      /\ "channel" \in but \/ ChannelOf(d, heard, c, admitted)
  BY DeskParts
<1>2. /\ e \in Desks /\ e.view = d.view /\ e.refreshing = d.refreshing /\ e.creation = d.creation
      /\ e.savers = d.savers /\ e.overlooked = d.overlooked
      /\ Unread(e) = Unread(d) \union {rpc}
      /\ Len(e.calls) = Len(d.calls) + 1 /\ e.calls[Len(d.calls) + 1] = rpc
      /\ \A i \in 1..Len(d.calls) : e.calls[i] = d.calls[i]
  BY SMTT(30), <1>1, AsksIs
<1>3. /\ rpc \in Requests /\ rpc.kind = kind /\ rpc.n = n /\ rpc.channel = channel /\ rpc.epoch = d.view.epoch
      /\ rpc.selection = d.view.selection
  BY <1>1, NewCallIs
<1> HIDE DEF e, rpc
<1>4. Open(e, heard) = Open(d, heard) \union {rpc}
  BY <1>2 DEF Open
<1>5. d.view.epoch \in Nat /\ d.view.selection \in Nat
  BY <1>1, DeskTypes
<1>6. CurrentFor(e, rpc) /\ \A x : CurrentFor(e, x) <=> CurrentFor(d, x)
  BY <1>2, <1>3 DEF CurrentFor, SameEpoch
<1>7. KnownOf(e, c, f)
  BY <1>1, <1>2 DEF KnownOf
<1>8. \A i \in 1..Len(e.calls) : CallOf(e.calls[i], c, f)
  <2> TAKE i \in 1..Len(e.calls)
  <2>1. i = Len(d.calls) + 1 \/ i \in 1..Len(d.calls)
    BY <1>1, <1>2, DeskTypes
  <2>2. CallOf(rpc, c, f)
    BY <1>3 DEF CallOf
  <2> QED
    BY <1>1, <1>2, <2>1, <2>2
<1>9. AgesOf(e, Open(e, heard), f)
  <2>1. Aged(e, rpc, f)
    BY <1>2, <1>3, <1>5, <1>6 DEF Aged
  <2>2. ASSUME NEW x \in Open(d, heard) PROVE Aged(e, x, f)
    BY <1>1, <1>2, <1>6 DEF AgesOf, Aged
  <2>3. \A a, b \in Open(e, heard) : a.kind = "create" /\ b.kind = "create" /\ a.channel = b.channel => a.epoch = b.epoch
    BY <1>1, <1>3, <1>4 DEF AgesOf
  <2> QED
    BY <1>4, <2>1, <2>2, <2>3 DEF AgesOf
<1>10. WorkOf(e, Open(e, heard), j)
  BY <1>1, <1>2, <1>3, <1>4 DEF WorkOf
<1>11. AsideOf(e)
  BY <1>1, <1>2 DEF AsideOf
<1>12. "busy" \in less \/ BusyOf(e, Open(e, heard))
  <2>1. CASE "busy" \in but
    BY <1>2, <1>3, <1>4, <2>1 DEF BusyOf, Updates
  <2>2. CASE BusyOf(d, Open(d, heard))
    <3>1. Creates(d, Open(d, heard)) => Creates(e, Open(e, heard))
      BY <1>2, <1>3, <1>4 DEF Creates
    <3>2. Updates(d, Open(d, heard)) => Updates(e, Open(e, heard))
      BY <1>2, <1>4 DEF Updates
    <3> QED
      BY <1>2, <2>2, <3>1, <3>2 DEF BusyOf
  <2> QED
    BY <1>1, <2>1, <2>2
<1>13. "catalog" \in less \/ CatalogOf(e, heard, c, admitted)
  <2>1. CASE kind = "list"
    BY <1>2, <1>3, <2>1 DEF CatalogOf
  <2>2. CASE CatalogOf(d, heard, c, admitted)
    BY <1>2, <2>2 DEF CatalogOf, Admits, Says
  <2> QED
    BY <1>1, <2>1, <2>2
<1>14. "channel" \in less \/ ChannelOf(e, heard, c, admitted)
  <2>1. CASE kind \in {"select", "snapshot"} \/ (kind = "list" /\ n # 0)
    BY <1>2, <1>3, <1>4, <1>6, <2>1 DEF ChannelOf
  <2>2. CASE ChannelOf(d, heard, c, admitted)
    BY <1>2, <1>4, <1>6, <2>2 DEF ChannelOf, Admits, Says
  <2> QED
    BY <1>1, <2>1, <2>2
<1> QED
  BY <1>1, <1>2, <1>7, <1>8, <1>9, <1>10, <1>11, <1>12, <1>13, <1>14 DEF DeskInv, e

\* The end of work n, which is not dirty, releases whoever awaited it.
LEMMA WorkEndsIs ==
  ASSUME NEW d \in Desks, NEW n
  PROVE  LET e == WorkEnds(d, n)
         IN /\ e \in Desks /\ e.creation = d.creation /\ e.calls = d.calls /\ e.overlooked = d.overlooked
            /\ e.view.home = d.view.home /\ e.view.epoch = d.view.epoch /\ e.view.selection = d.view.selection
            /\ e.view.catalog = d.view.catalog /\ e.view.channel = d.view.channel /\ e.view.shown = d.view.shown
            /\ e.view.error = d.view.error /\ e.view.unknown = d.view.unknown
            /\ e.savers = {s \in d.savers : s.n # n}
            /\ e.view.saving => d.view.saving /\ \A s \in d.savers : s.n = n => s.epoch # d.view.epoch
            /\ d.refreshing.n # n => e.refreshing = d.refreshing
            /\ d.refreshing.n = n => e.refreshing.n = 0 /\ e.refreshing.last = d.refreshing.last
<1> DEFINE ended == {s \in d.savers : s.n = n}
           stays == d.view.saving /\ \A s \in ended : s.epoch # d.view.epoch
<1>1. PICK r \in [n : Nat, dirty : BOOLEAN, last : Nat] :
        /\ WorkEnds(d, n) = [[d EXCEPT !.refreshing = r] EXCEPT !.savers = @ \ ended, !.view.saving = stays]
        /\ d.refreshing.n # n => r = d.refreshing
        /\ d.refreshing.n = n => r.n = 0 /\ r.last = d.refreshing.last
  <2>1. CASE d.refreshing.n = n
    <3>1. PICK no \in {FALSE} : Idles(d) = [d EXCEPT !.refreshing.n = 0, !.refreshing.dirty = no]
      BY DEF Idles
    <3> DEFINE r == [d.refreshing EXCEPT !.n = 0, !.dirty = no]
    <3>2. r \in [n : Nat, dirty : BOOLEAN, last : Nat] /\ r.n = 0 /\ r.last = d.refreshing.last
      BY <3>1, DeskTypes
    <3>3. Idles(d) = [d EXCEPT !.refreshing = r]
      BY <3>1 DEF Desks
    <3> HIDE DEF r
    <3> QED
      BY <2>1, <3>2, <3>3 DEF WorkEnds
  <2>2. CASE d.refreshing.n # n
    <3>1. d = [d EXCEPT !.refreshing = d.refreshing]
      BY DEF Desks
    <3> QED
      BY <2>2, <3>1, DeskTypes DEF WorkEnds
  <2> QED
    BY <2>1, <2>2
<1>2. stays \in BOOLEAN
  BY DeskTypes, Zenon
<1> HIDE DEF stays
<1> DEFINE seen == [d.view EXCEPT !.saving = stays]
           rest == d.savers \ ended
           e == WorkEnds(d, n)
<1>3. /\ seen \in Views
      /\ seen.home = d.view.home /\ seen.epoch = d.view.epoch /\ seen.selection = d.view.selection
      /\ seen.catalog = d.view.catalog /\ seen.channel = d.view.channel /\ seen.shown = d.view.shown
      /\ seen.error = d.view.error /\ seen.unknown = d.view.unknown /\ seen.saving = stays
  BY <1>2, DeskTypes DEF Views
<1>4. rest \subseteq [n : Nat, epoch : Nat] /\ rest = {s \in d.savers : s.n # n}
  BY DeskTypes
<1>5. e = [d EXCEPT !.refreshing = r, !.savers = rest, !.view = seen]
  BY <1>1 DEF Desks
<1> HIDE DEF seen, rest, e
<1>6. /\ e \in Desks /\ e.view = seen /\ e.savers = rest /\ e.refreshing = r /\ e.creation = d.creation
      /\ e.calls = d.calls /\ e.overlooked = d.overlooked
  <2> HIDE DEF Views, Requests
  <2> QED
    BY <1>1, <1>3, <1>4, <1>5 DEF Desks
<1>7. stays => d.view.saving /\ \A s \in d.savers : s.n = n => s.epoch # d.view.epoch
  BY DEF stays
<1> QED
  BY <1>1, <1>3, <1>4, <1>6, <1>7 DEF e

LEMMA WorkEndsKeep ==
  ASSUME NEW d, NEW heard, NEW c, NEW f, NEW admitted, NEW k \in Nat, NEW but, NEW n \in Nat, NEW j \in Nat,
         DeskInv(d, heard, c, f, admitted, k, but), j = k \/ (j = 0 /\ n = k),
         n # 0 /\ d.refreshing.n = n => ~d.refreshing.dirty
  PROVE  DeskInv(WorkEnds(d, n), heard, c, f, admitted, j, but)
<1> DEFINE e == WorkEnds(d, n)
<1>1. /\ d \in Desks /\ heard \subseteq AnswersOf /\ c \in RoomCores /\ f \in [Ids -> Fates]
      /\ KnownOf(d, c, f)
      /\ \A i \in 1..Len(d.calls) : CallOf(d.calls[i], c, f)
      /\ \A a \in heard : AnswerOf(a, c, f)
      /\ AgesOf(d, Open(d, heard), f) /\ WorkOf(d, Open(d, heard), k) /\ AsideOf(d)
      /\ "busy" \in but \/ BusyOf(d, Open(d, heard))
      /\ "catalog" \in but \/ CatalogOf(d, heard, c, admitted)
      /\ "channel" \in but \/ ChannelOf(d, heard, c, admitted)
  BY DeskParts
<1>2. /\ e \in Desks /\ e.creation = d.creation /\ e.calls = d.calls /\ e.overlooked = d.overlooked
      /\ e.view.home = d.view.home /\ e.view.epoch = d.view.epoch /\ e.view.selection = d.view.selection
      /\ e.view.catalog = d.view.catalog /\ e.view.channel = d.view.channel /\ e.view.shown = d.view.shown
      /\ e.view.error = d.view.error /\ e.view.unknown = d.view.unknown
      /\ e.savers = {s \in d.savers : s.n # n}
      /\ e.view.saving => d.view.saving /\ \A s \in d.savers : s.n = n => s.epoch # d.view.epoch
      /\ d.refreshing.n # n => e.refreshing = d.refreshing
      /\ d.refreshing.n = n => e.refreshing.n = 0 /\ e.refreshing.last = d.refreshing.last
  BY <1>1, WorkEndsIs
<1> HIDE DEF e
<1>3. Unread(e) = Unread(d) /\ Open(e, heard) = Open(d, heard)
  BY <1>2 DEF Unread, Open
<1>4. KnownOf(e, c, f) /\ AsideOf(e)
  BY <1>1, <1>2 DEF KnownOf, AsideOf
<1>5. e.refreshing.last = d.refreshing.last /\ (e.refreshing.n = 0 \/ e.refreshing.n = d.refreshing.n)
  BY <1>2
<1>6. AgesOf(e, Open(e, heard), f)
  <2>1. ASSUME NEW x \in Open(d, heard) PROVE Aged(e, x, f)
    BY <1>1, <1>2, <1>5 DEF AgesOf, Aged, CurrentFor, SameEpoch
  <2> QED
    BY <1>1, <1>3, <2>1 DEF AgesOf
<1>7. WorkOf(e, Open(e, heard), j)
  <2>1. e.refreshing.n <= e.refreshing.last
    BY <1>1, <1>5, DeskTypes DEF WorkOf
  <2>2. e.refreshing.n # 0 => e.view.home /\ (e.refreshing.n = j \/ \E rpc \in Open(d, heard) : rpc.n = e.refreshing.n)
    BY <1>1, <1>2 DEF WorkOf
  <2>3. \A s \in e.savers : s.n # 0 /\ (s.n = j \/ \E rpc \in Open(d, heard) : rpc.n = s.n)
    BY <1>1, <1>2 DEF WorkOf
  <2> QED
    BY <1>3, <2>1, <2>2, <2>3 DEF WorkOf
<1>8. "busy" \in but \/ BusyOf(e, Open(e, heard))
  <2>1. Creates(d, Open(d, heard)) => Creates(e, Open(e, heard))
    BY <1>2, <1>3 DEF Creates
  <2>2. ASSUME BusyOf(d, Open(d, heard)), e.view.saving, NEW s \in d.savers, s.epoch = d.view.epoch
        PROVE  s \in e.savers /\ s.epoch = e.view.epoch
    BY <1>2, <2>2
  <2> QED
    BY <1>1, <1>2, <1>3, <2>1, <2>2 DEF BusyOf, Updates
<1>9. Admits(d, admitted) => Admits(e, admitted)
  <2>1. d.refreshing.n # 0 /\ d.refreshing.dirty => e.refreshing = d.refreshing
    BY <1>1, <1>2, DeskTypes
  <2> QED
    BY <1>2, <2>1 DEF Admits, Says
<1>10. "catalog" \in but \/ CatalogOf(e, heard, c, admitted)
  BY <1>1, <1>2, <1>3, <1>9 DEF CatalogOf
<1>11. "channel" \in but \/ ChannelOf(e, heard, c, admitted)
  BY <1>1, <1>2, <1>3, <1>9 DEF ChannelOf, CurrentFor, SameEpoch
<1> QED
  BY <1>1, <1>2, <1>4, <1>6, <1>7, <1>8, <1>10, <1>11 DEF DeskInv, e

\* A claim that holds again is no exemption any more, and one that is exempt is not needed.
LEMMA ClaimsAre ==
  ASSUME NEW d, NEW heard, NEW c, NEW f, NEW admitted, NEW k, NEW but, NEW less,
         DeskInv(d, heard, c, f, admitted, k, but),
         "busy" \in but \ less => BusyOf(d, Open(d, heard)),
         "catalog" \in but \ less => CatalogOf(d, heard, c, admitted),
         "channel" \in but \ less => ChannelOf(d, heard, c, admitted)
  PROVE  DeskInv(d, heard, c, f, admitted, k, less)
BY DEF DeskInv

\* What the work is changes, and nothing that is asked or shown.
LEMMA WorkChanges ==
  ASSUME NEW d, NEW e \in Desks, NEW heard, NEW c, NEW f, NEW admitted, NEW told2, NEW k, NEW j, NEW but, NEW less,
         DeskInv(d, heard, c, f, admitted, k, but),
         e.view = d.view, e.creation = d.creation, e.savers = d.savers, e.calls = d.calls,
         e.refreshing.last >= d.refreshing.last,
         e.refreshing.n = d.refreshing.n \/ e.refreshing.n > d.refreshing.last,
         WorkOf(e, Open(d, heard), j), but \subseteq less,
         "catalog" \in less \/ (Admits(d, admitted) => Admits(e, told2)),
         "channel" \in less \/ (Admits(d, admitted) => Admits(e, told2))
  PROVE  DeskInv(e, heard, c, f, told2, j, less)
<1>1. /\ d \in Desks /\ heard \subseteq AnswersOf /\ c \in RoomCores /\ f \in [Ids -> Fates]
      /\ KnownOf(d, c, f)
      /\ \A i \in 1..Len(d.calls) : CallOf(d.calls[i], c, f)
      /\ \A a \in heard : AnswerOf(a, c, f)
      /\ AgesOf(d, Open(d, heard), f) /\ AsideOf(d)
      /\ "busy" \in but \/ BusyOf(d, Open(d, heard))
      /\ "catalog" \in but \/ CatalogOf(d, heard, c, admitted)
      /\ "channel" \in but \/ ChannelOf(d, heard, c, admitted)
  BY DeskParts
<1>2. Unread(e) = Unread(d) /\ Open(e, heard) = Open(d, heard)
  BY DEF Unread, Open
<1>3. KnownOf(e, c, f) /\ AsideOf(e)
  BY <1>1 DEF KnownOf, AsideOf
<1>4. AgesOf(e, Open(e, heard), f)
  <2>1. ASSUME NEW x \in Open(d, heard) PROVE Aged(e, x, f)
    <3>1. Aged(d, x, f) /\ x.n \in Nat
      BY <1>1, OpenTypes DEF AgesOf
    <3>2. d.refreshing.last \in Nat /\ e.refreshing.last \in Nat /\ e.refreshing.n \in Nat
      BY <1>1, DeskTypes
    <3>3. x.n <= d.refreshing.last
      BY <3>1 DEF Aged
    <3>4. x.n <= e.refreshing.last /\ (x.n = e.refreshing.n => x.n = d.refreshing.n)
      BY <3>1, <3>2, <3>3
    <3> QED
      BY <3>1, <3>4 DEF Aged, CurrentFor, SameEpoch
  <2> QED
    BY <1>1, <1>2, <2>1 DEF AgesOf
<1>5. "busy" \in less \/ BusyOf(e, Open(e, heard))
  BY <1>1, <1>2 DEF BusyOf, Creates, Updates
<1>6. "catalog" \in less \/ CatalogOf(e, heard, c, told2)
  BY <1>1, <1>2 DEF CatalogOf
<1>7. "channel" \in less \/ ChannelOf(e, heard, c, told2)
  BY <1>1, <1>2 DEF ChannelOf, CurrentFor, SameEpoch
<1> QED
  BY <1>1, <1>2, <1>3, <1>4, <1>5, <1>6, <1>7 DEF DeskInv

\* A round of refresh() ends: a dirty one is followed by another.
LEMMA RoundEndsKeep ==
  ASSUME NEW d, NEW heard, NEW c, NEW f, NEW admitted, NEW but, NEW rpc \in Requests,
         DeskInv(d, heard, c, f, admitted, rpc.n, but), rpc.n # 0,
         rpc.n = d.refreshing.n => CurrentFor(d, rpc),
         CurrentFor(d, rpc) => rpc.channel = d.view.channel
  PROVE  DeskInv(RoundEnds(d, rpc), heard, c, f, admitted, 0, but)
<1>1. d \in Desks /\ WorkOf(d, Open(d, heard), rpc.n)
  BY DeskParts
<1>2. rpc.n \in Nat /\ rpc.channel \in Ids \union {0}
  BY DEF Requests
<1>3. CASE d.refreshing.n = rpc.n /\ d.refreshing.dirty /\ CurrentFor(d, rpc)
  <2>1. PICK no \in {FALSE} : RoundEnds(d, rpc) =
          Asks([d EXCEPT !.refreshing.dirty = no, !.overlooked = no], "list", rpc.n, rpc.channel)
    BY <1>3 DEF RoundEnds
  <2> DEFINE r == [d.refreshing EXCEPT !.dirty = no]
             e == [d EXCEPT !.refreshing = r, !.overlooked = no]
  <2>2. r \in [n : Nat, dirty : BOOLEAN, last : Nat] /\ r.n = d.refreshing.n /\ r.last = d.refreshing.last
    BY <1>1, <2>1, DeskTypes
  <2>3. RoundEnds(d, rpc) = Asks(e, "list", rpc.n, rpc.channel)
    BY <1>1, <2>1 DEF Desks
  <2> HIDE DEF r
  <2>4. /\ e \in Desks /\ e.view = d.view /\ e.refreshing = r /\ e.creation = d.creation /\ e.savers = d.savers
        /\ e.calls = d.calls
    <3> HIDE DEF Views, Requests
    <3> QED
      BY <1>1, <2>1, <2>2 DEF Desks
  <2> HIDE DEF e
  <2>5. WorkOf(e, Open(d, heard), rpc.n)
    BY <1>1, <2>2, <2>4 DEF WorkOf
  <2>6. e.refreshing.last >= d.refreshing.last /\ e.refreshing.n = d.refreshing.n
    BY <1>1, <2>2, <2>4, DeskTypes
  <2> DEFINE more == but \union {"catalog", "channel"}
  <2>7. but \subseteq more /\ "catalog" \in more /\ "channel" \in more
    OBVIOUS
  <2>8. DeskInv(e, heard, c, f, admitted, rpc.n, more)
    <3> HIDE DEF more
    <3> QED
      BY <2>4, <2>5, <2>6, <2>7, WorkChanges
  <2>9. e.view.home /\ rpc.n <= e.refreshing.last /\ rpc.channel = e.view.channel
    BY <1>1, <1>3, <2>2, <2>4 DEF WorkOf
  <2>10. "list" \in RequestKinds /\ 0 \in Nat
    BY DEF RequestKinds
  <2>11. "busy" \notin more \ but
    OBVIOUS
  <2> HIDE DEF more
  <2>12. DeskInv(Asks(e, "list", rpc.n, rpc.channel), heard, c, f, admitted, 0, but)
    BY <1>2, <2>8, <2>9, <2>10, <2>11, AsksKeep
  <2> QED
    BY <2>3, <2>12
<1>4. CASE ~(d.refreshing.n = rpc.n /\ d.refreshing.dirty /\ CurrentFor(d, rpc))
  <2>1. RoundEnds(d, rpc) = WorkEnds(d, rpc.n)
    BY <1>4 DEF RoundEnds
  <2>2. rpc.n # 0 /\ d.refreshing.n = rpc.n => ~d.refreshing.dirty
    BY <1>4
  <2> QED
    BY <1>2, <2>1, <2>2, WorkEndsKeep
<1> QED
  BY <1>3, <1>4

\* refresh(): there is work that reads everything again, or that will.
LEMMA RefreshedKeep ==
  ASSUME NEW d, NEW heard, NEW c, NEW f, NEW admitted, NEW told2, NEW but, NEW less,
         DeskInv(d, heard, c, f, admitted, 0, but), "busy" \in but => "busy" \in less
  PROVE  /\ DeskInv(Refreshed(d), heard, c, f, told2, 0, less)
         /\ Refreshed(d).view = d.view /\ Refreshed(d).creation = d.creation
         /\ Refreshed(d).savers = d.savers
         /\ d.view.home => Refreshed(d).refreshing.n # 0
<1>1. /\ d \in Desks /\ heard \subseteq AnswersOf /\ c \in RoomCores /\ f \in [Ids -> Fates]
      /\ WorkOf(d, Open(d, heard), 0)
  BY DeskParts
<1>2. CASE ~d.view.home
  <2>1. Refreshed(d) = d
    BY <1>2 DEF Refreshed
  <2>2. CatalogOf(d, heard, c, told2) /\ ChannelOf(d, heard, c, told2)
    BY <1>2 DEF CatalogOf, ChannelOf
  <2>3. DeskInv(d, heard, c, f, told2, 0, less)
    BY <2>2 DEF DeskInv
  <2> QED
    BY <1>2, <2>1, <2>3
<1>3. CASE d.view.home /\ d.refreshing.n # 0
  <2>1. PICK yes \in {TRUE} : Refreshed(d) = [d EXCEPT !.refreshing.dirty = yes]
    BY <1>3 DEF Refreshed
  <2> DEFINE r == [d.refreshing EXCEPT !.dirty = yes]
             e == [d EXCEPT !.refreshing = r]
  <2>2. /\ r \in [n : Nat, dirty : BOOLEAN, last : Nat] /\ r.n = d.refreshing.n /\ r.last = d.refreshing.last
        /\ r.dirty = yes
    BY <1>1, <2>1, DeskTypes
  <2>3. Refreshed(d) = e
    BY <1>1, <2>1 DEF Desks
  <2> HIDE DEF r
  <2>4. /\ e \in Desks /\ e.view = d.view /\ e.refreshing = r /\ e.creation = d.creation /\ e.savers = d.savers
        /\ e.calls = d.calls
    <3> HIDE DEF Views, Requests
    <3> QED
      BY <1>1, <2>1, <2>2 DEF Desks
  <2> HIDE DEF e
  <2>5. WorkOf(e, Open(d, heard), 0)
    BY <1>1, <2>2, <2>4 DEF WorkOf
  <2>6. e.refreshing.last >= d.refreshing.last /\ e.refreshing.n = d.refreshing.n
    BY <1>1, <2>2, <2>4, DeskTypes
  <2>7. Admits(e, told2)
    <3>1. e.refreshing.n # 0 /\ e.refreshing.dirty
      BY <1>3, <2>1, <2>2, <2>4, Zenon
    <3> QED
      BY <3>1 DEF Admits
  <2> DEFINE more == less \union but
  <2>8. DeskInv(e, heard, c, f, told2, 0, more)
    <3>1. but \subseteq more
      OBVIOUS
    <3> HIDE DEF more
    <3> QED
      BY <2>4, <2>5, <2>6, <2>7, <3>1, WorkChanges
  <2>9. CatalogOf(e, heard, c, told2) /\ ChannelOf(e, heard, c, told2)
    BY <2>7 DEF CatalogOf, ChannelOf
  <2>10. "busy" \notin more \ less
    OBVIOUS
  <2>11. DeskInv(e, heard, c, f, told2, 0, less)
    <3> HIDE DEF more
    <3> QED
      BY <2>8, <2>9, <2>10, ClaimsAre
  <2> QED
    BY <1>3, <2>2, <2>3, <2>4, <2>11
<1>4. CASE d.view.home /\ d.refreshing.n = 0
  <2> DEFINE n == d.refreshing.last + 1
  <2>1. PICK no \in {FALSE} : Refreshed(d) =
          Asks([d EXCEPT !.refreshing = [n |-> n, dirty |-> no, last |-> n], !.overlooked = no],
               "list", n, d.view.channel)
    BY <1>4 DEF Refreshed
  <2>2. n \in Nat /\ n > d.refreshing.last /\ n # 0
    BY <1>1, DeskTypes
  <2> HIDE DEF n
  <2> DEFINE r == [n |-> n, dirty |-> no, last |-> n]
             e == [d EXCEPT !.refreshing = r, !.overlooked = no]
  <2>3. r \in [n : Nat, dirty : BOOLEAN, last : Nat] /\ r.n = n /\ r.last = n
    BY <2>1, <2>2
  <2> HIDE DEF r
  <2>4. /\ e \in Desks /\ e.view = d.view /\ e.refreshing = r /\ e.creation = d.creation /\ e.savers = d.savers
        /\ e.calls = d.calls
    <3> HIDE DEF Views, Requests
    <3> QED
      BY <1>1, <2>1, <2>3 DEF Desks
  <2>5. Refreshed(d) = Asks(e, "list", n, d.view.channel)
    BY <2>1 DEF r
  <2> HIDE DEF e
  <2>6. WorkOf(e, Open(d, heard), n)
    BY <1>1, <1>4, <2>2, <2>3, <2>4 DEF WorkOf
  <2>7. e.refreshing.last >= d.refreshing.last /\ e.refreshing.n > d.refreshing.last
    BY <1>1, <2>2, <2>3, <2>4, DeskTypes
  <2> DEFINE more == less \union but \union {"catalog", "channel"}
  <2>8. DeskInv(e, heard, c, f, told2, n, more)
    <3>1. but \subseteq more /\ "catalog" \in more /\ "channel" \in more
      OBVIOUS
    <3> HIDE DEF more
    <3> QED
      BY <2>4, <2>6, <2>7, <3>1, WorkChanges
  <2>9. e.view.home /\ n <= e.refreshing.last /\ d.view.channel = e.view.channel
    BY <1>4, <2>2, <2>3, <2>4
  <2>10. "list" \in RequestKinds /\ 0 \in Nat /\ d.view.channel \in Ids \union {0}
    BY <1>1, DeskTypes DEF RequestKinds
  <2>11. "busy" \notin more \ less
    OBVIOUS
  <2> HIDE DEF more
  <2>12. DeskInv(Asks(e, "list", n, d.view.channel), heard, c, f, told2, 0, less)
    BY <2>2, <2>8, <2>9, <2>10, <2>11, AsksKeep
  <2>13. /\ Refreshed(d).view = d.view /\ Refreshed(d).creation = d.creation
         /\ Refreshed(d).savers = d.savers /\ Refreshed(d).refreshing = r
    BY <2>2, <2>4, <2>5, <2>10, AsksIs
  <2> QED
    BY <2>2, <2>3, <2>5, <2>12, <2>13
<1> QED
  BY <1>2, <1>3, <1>4

\* A selection: what belongs to the one before does not count any more.
LEMMA MovesKeep ==
  ASSUME NEW d, NEW e \in Desks, NEW heard, NEW c, NEW f, NEW admitted, NEW but, NEW less,
         DeskInv(d, heard, c, f, admitted, 0, but),
         e.view.home = d.view.home, e.view.epoch = d.view.epoch, e.view.selection = d.view.selection + 1,
         e.view.catalog = d.view.catalog, e.view.saving = d.view.saving, e.view.unknown = d.view.unknown,
         e.creation = d.creation, e.savers = d.savers, e.calls = d.calls,
         e.refreshing.n = 0, e.refreshing.last = d.refreshing.last,
         \/ e.view.channel = d.view.channel /\ e.view.shown = d.view.shown
         \/ e.view.channel \in c.ids \union {0} /\ e.view.shown = Never,
         but \subseteq less,
         "catalog" \in less \/ (Says(d) \/ (d.refreshing.n # 0 /\ d.refreshing.dirty) => Says(e)),
         "channel" \in less \/ e.view.channel = 0
  PROVE  DeskInv(e, heard, c, f, admitted, 0, less)
<1>1. /\ d \in Desks /\ heard \subseteq AnswersOf /\ c \in RoomCores /\ f \in [Ids -> Fates]
      /\ KnownOf(d, c, f)
      /\ \A i \in 1..Len(d.calls) : CallOf(d.calls[i], c, f)
      /\ \A a \in heard : AnswerOf(a, c, f)
      /\ AgesOf(d, Open(d, heard), f) /\ WorkOf(d, Open(d, heard), 0) /\ AsideOf(d)
      /\ "busy" \in but \/ BusyOf(d, Open(d, heard))
      /\ "catalog" \in but \/ CatalogOf(d, heard, c, admitted)
  BY DeskParts
<1>2. Unread(e) = Unread(d) /\ Open(e, heard) = Open(d, heard)
  BY DEF Unread, Open
<1>3. KnownOf(e, c, f)
  <2>1. e.view.channel # 0 => e.view.shown <= c.rooms[e.view.channel]
    <3>1. CASE e.view.channel = d.view.channel /\ e.view.shown = d.view.shown
      BY <1>1, <3>1 DEF KnownOf
    <3>2. CASE e.view.channel \in c.ids \union {0} /\ e.view.shown = Never
      <4>1. e.view.channel # 0 => c.rooms[e.view.channel] \in Nat
        BY <1>1, <3>2 DEF RoomCores
      <4> QED
        BY <3>2, <4>1 DEF Never
    <3> QED
      BY <3>1, <3>2
  <2> QED
    BY <1>1, <2>1 DEF KnownOf
<1>4. AgesOf(e, Open(e, heard), f)
  <2>1. ASSUME NEW x \in Open(d, heard) PROVE Aged(e, x, f)
    <3>1. Aged(d, x, f) /\ x.selection \in Nat /\ x.n \in Nat
      BY <1>1, OpenTypes DEF AgesOf
    <3>2. d.view.selection \in Nat /\ x.selection <= d.view.selection
      BY <1>1, <3>1, DeskTypes DEF Aged
    <3>3. x.selection <= e.view.selection /\ x.selection # e.view.selection
      BY <3>1, <3>2
    <3> QED
      BY <3>1, <3>3 DEF Aged, CurrentFor, SameEpoch
  <2> QED
    BY <1>1, <1>2, <2>1 DEF AgesOf
<1>5. WorkOf(e, Open(e, heard), 0)
  BY <1>1, <1>2, DeskTypes DEF WorkOf
<1>6. AsideOf(e)
  BY <1>1 DEF AsideOf
<1>7. "busy" \in less \/ BusyOf(e, Open(e, heard))
  BY <1>1, <1>2 DEF BusyOf, Creates, Updates
<1>8. "catalog" \in less \/ CatalogOf(e, heard, c, admitted)
  BY <1>1, <1>2 DEF CatalogOf, Admits
<1>9. "channel" \in less \/ ChannelOf(e, heard, c, admitted)
  BY DEF ChannelOf
<1> QED
  BY <1>1, <1>2, <1>3, <1>4, <1>5, <1>6, <1>7, <1>8, <1>9 DEF DeskInv

\* A desk with another view.
LEMMA ShownIs ==
  ASSUME NEW d \in Desks, NEW v, v \in Views, NEW o, o \in BOOLEAN, NEW x, x \in Ids \union {0},
         NEW r, r \in WorkOfDesk
  PROVE  /\ DeskWith(d, v, o, x, r) \in Desks /\ DeskWith(d, v, o, x, r).view = v
         /\ DeskWith(d, v, o, x, r).overlooked = o /\ DeskWith(d, v, o, x, r).creation = x
         /\ DeskWith(d, v, o, x, r).refreshing = r
         /\ DeskWith(d, v, o, x, r).savers = d.savers /\ DeskWith(d, v, o, x, r).calls = d.calls
<1> HIDE DEF Views, Requests
<1> QED
  BY DEF Desks, DeskWith, WorkOfDesk

LEMMA LeavesIs ==
  ASSUME NEW d \in Desks
  PROVE  LET e == Leaves(d)
         IN /\ e \in Desks /\ e.refreshing.n = 0 /\ e.refreshing.last = d.refreshing.last
            /\ e.view = [d.view EXCEPT !.selection = d.view.selection + 1]
            /\ e.creation = d.creation /\ e.savers = d.savers /\ e.calls = d.calls /\ e.overlooked = d.overlooked
<1>1. PICK no \in {FALSE} : Idles(d) = [d EXCEPT !.refreshing.n = 0, !.refreshing.dirty = no]
  BY DEF Idles
<1> DEFINE r == [d.refreshing EXCEPT !.n = 0, !.dirty = no]
           v == [d.view EXCEPT !.selection = d.view.selection + 1]
           e == DeskWith(d, v, d.overlooked, d.creation, r)
<1>2. r \in WorkOfDesk /\ r.n = 0 /\ r.last = d.refreshing.last
  BY <1>1, DeskTypes DEF WorkOfDesk
<1>3. v \in Views
  BY SMTT(30), DeskTypes DEF Views
<1>4. Leaves(d) = e
  BY <1>1 DEF Leaves, Desks, DeskWith
<1> HIDE DEF r, v
<1>5. /\ e \in Desks /\ e.view = v /\ e.overlooked = d.overlooked /\ e.creation = d.creation /\ e.refreshing = r
      /\ e.savers = d.savers /\ e.calls = d.calls
  <2>1. d \in Desks /\ d.overlooked \in BOOLEAN /\ d.creation \in Ids \union {0}
        /\ d.refreshing \in WorkOfDesk
    BY <1>2, <1>3, DeskTypes DEF WorkOfDesk
  <2> QED
    BY <1>2, <1>3, <2>1, ShownIs
<1> HIDE DEF e
<1> QED
  BY <1>2, <1>4, <1>5 DEF v

LEMMA ChoosesIs ==
  ASSUME NEW d \in Desks, NEW channel \in Ids \union {0}
  PROVE  LET e == Chooses(d, channel)
         IN /\ e \in Desks /\ e.refreshing.n = 0 /\ e.refreshing.last = d.refreshing.last
            /\ e.view.home = d.view.home /\ e.view.epoch = d.view.epoch
            /\ e.view.selection = d.view.selection + 1 /\ e.view.catalog = d.view.catalog
            /\ e.view.saving = d.view.saving /\ e.view.unknown = d.view.unknown
            /\ e.view.channel = channel /\ e.view.shown = Never /\ e.view.error = "none"
            /\ e.creation = d.creation /\ e.savers = d.savers /\ e.calls = d.calls
            /\ d.overlooked \/ d.refreshing.dirty \/ d.view.error = "load" => e.overlooked
<1>1. PICK o \in BOOLEAN : /\ ForgetsWork(d) = [d EXCEPT !.overlooked = o]
                           /\ d.overlooked \/ d.refreshing.dirty \/ d.view.error = "load" => o
  BY DeskTypes, Zenon DEF ForgetsWork
<1> DEFINE g == [d EXCEPT !.overlooked = o]
<1>2. g \in Desks /\ g.view = d.view /\ g.overlooked = o /\ g.creation = d.creation /\ g.refreshing = d.refreshing
      /\ g.savers = d.savers /\ g.calls = d.calls
  <2> HIDE DEF Views, Requests
  <2> QED
    BY DEF Desks
<1> HIDE DEF g
<1> DEFINE h == Leaves(g)
<1>3. /\ h \in Desks /\ h.refreshing.n = 0 /\ h.refreshing.last = d.refreshing.last
      /\ h.view = [d.view EXCEPT !.selection = d.view.selection + 1]
      /\ h.creation = d.creation /\ h.savers = d.savers /\ h.calls = d.calls /\ h.overlooked = o
  BY <1>2, LeavesIs
<1> HIDE DEF h
<1> DEFINE v == [h.view EXCEPT !.channel = channel, !.shown = Never, !.error = "none"]
           e == DeskWith(h, v, h.overlooked, h.creation, h.refreshing)
<1>4. /\ v \in Views /\ v.home = d.view.home /\ v.epoch = d.view.epoch
      /\ v.selection = d.view.selection + 1 /\ v.catalog = d.view.catalog
      /\ v.saving = d.view.saving /\ v.unknown = d.view.unknown
      /\ v.channel = channel /\ v.shown = Never /\ v.error = "none"
  <2>1. v = [d.view EXCEPT !.selection = d.view.selection + 1, !.channel = channel, !.shown = Never,
                           !.error = "none"]
    BY <1>3, DeskTypes DEF Views
  <2>2. d.view \in Views /\ d.view.selection + 1 \in Nat /\ Never \in Int /\ channel \in Ids \union {0}
    BY DeskTypes, LocalNumbers
  <2> HIDE DEF v
  <2> QED
    BY <2>1, <2>2 DEF Views
<1>5. Chooses(d, channel) = e
  <2>1. Leaves(ForgetsWork(d)) = h
    BY <1>1 DEF g, h
  <2> QED
    BY <1>3, <2>1 DEF Chooses, Desks, DeskWith
<1> HIDE DEF v
<1>6. /\ e \in Desks /\ e.view = v /\ e.overlooked = h.overlooked /\ e.creation = h.creation
      /\ e.refreshing = h.refreshing /\ e.savers = h.savers /\ e.calls = h.calls
  <2>1. h \in Desks /\ h.overlooked \in BOOLEAN /\ h.creation \in Ids \union {0}
        /\ h.refreshing \in WorkOfDesk
    BY <1>3, <1>4, DeskTypes DEF WorkOfDesk
  <2> QED
    BY <1>3, <1>4, <2>1, ShownIs
<1> HIDE DEF e
<1> QED
  BY <1>1, <1>3, <1>4, <1>5, <1>6

LEMMA ChoosesKeep ==
  ASSUME NEW d, NEW heard, NEW c, NEW f, NEW admitted, NEW less, NEW channel \in c.ids \union {0},
         DeskInv(d, heard, c, f, admitted, 0, {}), "channel" \in less \/ channel = 0
  PROVE  DeskInv(Chooses(d, channel), heard, c, f, admitted, 0, less)
<1>1. d \in Desks /\ c \in RoomCores
  BY DeskParts
<1>2. channel \in Ids \union {0}
  BY <1>1 DEF RoomCores
<1> DEFINE e == Chooses(d, channel)
<1>3. /\ e \in Desks /\ e.refreshing.n = 0 /\ e.refreshing.last = d.refreshing.last
      /\ e.view.home = d.view.home /\ e.view.epoch = d.view.epoch
      /\ e.view.selection = d.view.selection + 1 /\ e.view.catalog = d.view.catalog
      /\ e.view.saving = d.view.saving /\ e.view.unknown = d.view.unknown
      /\ e.view.channel = channel /\ e.view.shown = Never
      /\ e.creation = d.creation /\ e.savers = d.savers /\ e.calls = d.calls
      /\ d.overlooked \/ d.refreshing.dirty \/ d.view.error = "load" => e.overlooked
  BY <1>1, <1>2, ChoosesIs
<1> HIDE DEF e
<1>4. Says(d) \/ (d.refreshing.n # 0 /\ d.refreshing.dirty) => Says(e)
  BY <1>3 DEF Says
<1>5. DeskInv(e, heard, c, f, admitted, 0, less)
  BY <1>3, <1>4, MovesKeep
<1> QED
  BY <1>5 DEF e

\* select()
LEMMA SelectedKeep ==
  ASSUME NEW d, NEW heard, NEW c, NEW f, NEW admitted, NEW channel,
         DeskInv(d, heard, c, f, admitted, 0, {}), d.view.home
  PROVE  DeskInv(Selected(d, channel), heard, c, f, admitted, 0, {})
<1>1. d \in Desks /\ c \in RoomCores /\ KnownOf(d, c, f)
  BY DeskParts
<1>2. CASE channel \notin d.view.catalog.ids
  BY <1>2 DEF Selected
<1>3. CASE channel \in d.view.catalog.ids
  <2> DEFINE e == Chooses(d, channel)
  <2>1. channel \in c.ids /\ channel \in Ids
    BY <1>1, <1>3 DEF KnownOf, RoomCores
  <2>2. Selected(d, channel) = Asks(e, "select", 0, channel)
    BY <1>3 DEF Selected, Chooses
  <2>3. e.view.channel = channel /\ e.view.home /\ e \in Desks
    BY <1>1, <2>1, ChoosesIs
  <2>4. "channel" \in {"channel"} /\ "select" \in RequestKinds /\ 0 \in Nat
    BY DEF RequestKinds
  <2>5. DeskInv(e, heard, c, f, admitted, 0, {"channel"})
    BY <2>1, <2>4, ChoosesKeep
  <2>6. 0 <= e.refreshing.last
    BY <2>3, DeskTypes
  <2> HIDE DEF e
  <2>7. DeskInv(Asks(e, "select", 0, channel), heard, c, f, admitted, 0, {})
    BY <2>1, <2>3, <2>4, <2>5, <2>6, AsksKeep
  <2> QED
    BY <2>2, <2>7
<1> QED
  BY <1>2, <1>3

\* bind(): another Workspace is another epoch.
LEMMA BoundKeep ==
  ASSUME NEW d, NEW heard, NEW c, NEW f, NEW admitted, NEW home \in BOOLEAN, NEW less,
         DeskInv(d, heard, c, f, admitted, 0, {}), home => "catalog" \in less
  PROVE  DeskInv(Bound(d, home), heard, c, f, admitted, 0, less) /\ Bound(d, home).view.home = home
<1>1. /\ d \in Desks /\ heard \subseteq AnswersOf /\ c \in RoomCores /\ f \in [Ids -> Fates]
      /\ KnownOf(d, c, f)
      /\ \A i \in 1..Len(d.calls) : CallOf(d.calls[i], c, f)
      /\ \A a \in heard : AnswerOf(a, c, f)
      /\ AgesOf(d, Open(d, heard), f) /\ WorkOf(d, Open(d, heard), 0)
  BY DeskParts
<1>2. PICK no \in {FALSE} : /\ Blank = [home |-> no, epoch |-> 0, selection |-> 0, catalog |-> NoCatalog,
                                         channel |-> 0, shown |-> Never, error |-> "none", saving |-> no, unknown |-> no]
  BY DEF Blank
<1>3. PICK u \in BOOLEAN : u = (home /\ d.creation # 0)
  BY Zenon
<1> DEFINE g == Leaves(d)
           v == [Blank EXCEPT !.home = home, !.epoch = d.view.epoch + 1, !.selection = d.view.selection + 1,
                              !.unknown = u]
           e == DeskWith(g, v, g.overlooked, g.creation, g.refreshing)
<1>4. /\ g \in Desks /\ g.refreshing.n = 0 /\ g.refreshing.last = d.refreshing.last
      /\ g.creation = d.creation /\ g.savers = d.savers /\ g.calls = d.calls
  BY <1>1, LeavesIs
<1>5. NoCatalog \in [revision : Int, ids : SUBSET Ids] /\ NoCatalog.revision = -1 /\ NoCatalog.ids = {}
  BY LocalNumbers DEF NoCatalog
<1>6. /\ v \in Views /\ v.home = home /\ v.epoch = d.view.epoch + 1 /\ v.selection = d.view.selection + 1
      /\ v.catalog = NoCatalog /\ v.channel = 0 /\ ~v.saving /\ v.unknown = u
  <2>1. d.view.epoch + 1 \in Nat /\ d.view.selection + 1 \in Nat /\ Never \in Int /\ 0 \in Ids \union {0} /\ 0 \in Nat
        /\ ~no /\ no \in BOOLEAN
    BY <1>1, <1>2, DeskTypes, LocalNumbers
  <2>2. Blank \in Views /\ Blank.catalog = NoCatalog /\ Blank.channel = 0 /\ ~Blank.saving
    <3> HIDE DEF v, g
    <3> QED
      BY <1>2, <1>5, <2>1 DEF Views
  <2>3. v = [Blank EXCEPT !.home = home, !.epoch = d.view.epoch + 1, !.selection = d.view.selection + 1,
                          !.unknown = u]
    OBVIOUS
  <2> HIDE DEF v, g
  <2> QED
    BY <2>1, <2>2, <2>3 DEF Views
<1>7. Bound(d, home) = e
  <2>1. [Blank EXCEPT !.home = home, !.epoch = d.view.epoch + 1, !.selection = d.view.selection + 1,
                      !.unknown = home /\ d.creation # 0] = v
    BY <1>3, Zenon
  <2>2. Bound(d, home) = [g EXCEPT !.view = v]
    BY <2>1, Zenon DEF Bound
  <2> HIDE DEF v, g
  <2> QED
    BY <1>4, <2>2 DEF Desks, DeskWith
<1> HIDE DEF v, g
<1>8. /\ e \in Desks /\ e.view = v /\ e.creation = g.creation
      /\ e.refreshing = g.refreshing /\ e.savers = g.savers /\ e.calls = g.calls
  <2>1. g \in Desks /\ g.overlooked \in BOOLEAN /\ g.creation \in Ids \union {0}
        /\ g.refreshing \in WorkOfDesk
    BY <1>4, <1>6, DeskTypes DEF WorkOfDesk
  <2> QED
    BY <1>4, <1>6, <2>1, ShownIs
<1> HIDE DEF e
<1>9. Unread(e) = Unread(d) /\ Open(e, heard) = Open(d, heard)
  BY <1>4, <1>8 DEF Unread, Open
<1>10. KnownOf(e, c, f)
  <2>1. c.revision \in Nat
    BY <1>1 DEF RoomCores
  <2> QED
    BY <1>1, <1>4, <1>5, <1>6, <1>8, <2>1 DEF KnownOf
<1>11. AgesOf(e, Open(e, heard), f)
  <2>1. ASSUME NEW x \in Open(d, heard) PROVE Aged(e, x, f)
    <3>1. Aged(d, x, f) /\ x.selection \in Nat /\ x.n \in Nat /\ x.epoch \in Nat
      BY <1>1, OpenTypes DEF AgesOf
    <3>2. /\ d.view.selection \in Nat /\ x.selection <= d.view.selection
          /\ d.view.epoch \in Nat /\ x.epoch <= d.view.epoch
      BY <1>1, <3>1, DeskTypes DEF Aged
    <3>3. x.selection <= e.view.selection /\ x.epoch <= e.view.epoch /\ x.epoch # e.view.epoch
      BY <1>6, <1>8, <3>1, <3>2
    <3> QED
      BY <1>4, <1>8, <3>1, <3>3 DEF Aged, CurrentFor, SameEpoch
  <2> QED
    BY <1>1, <1>9, <2>1 DEF AgesOf
<1>12. WorkOf(e, Open(e, heard), 0)
  BY <1>1, <1>4, <1>8, <1>9, DeskTypes DEF WorkOf
<1>13. AsideOf(e)
  BY <1>3, <1>4, <1>6, <1>8 DEF AsideOf
<1>14. BusyOf(e, Open(e, heard))
  BY <1>6, <1>8 DEF BusyOf
<1>15. "catalog" \in less \/ CatalogOf(e, heard, c, admitted)
  BY <1>6, <1>8 DEF CatalogOf
<1>16. ChannelOf(e, heard, c, admitted)
  BY <1>6, <1>8 DEF ChannelOf
<1>17. DeskInv(e, heard, c, f, admitted, 0, less)
  BY <1>1, <1>4, <1>8, <1>10, <1>11, <1>12, <1>13, <1>14, <1>15, <1>16 DEF DeskInv
<1> QED
  BY <1>6, <1>7, <1>8, <1>17

\* applyCatalog(): only a newer catalog is shown.
LEMMA WithCatalogKeep ==
  ASSUME NEW d, NEW heard, NEW c, NEW f, NEW admitted, NEW k, NEW but, NEW less, NEW value \in Values,
         DeskInv(d, heard, c, f, admitted, k, but), d.view.home,
         value.ids \subseteq c.ids, value.revision <= c.revision,
         but \ less \subseteq {"catalog"}, "catalog" \in but \ less => value.revision = c.revision
  PROVE  LET e == WithCatalog(d, value)
         IN /\ DeskInv(e, heard, c, f, admitted, k, less) /\ Stays(d, e)
            /\ e.creation = d.creation /\ e.view.saving = d.view.saving /\ e.view.unknown = d.view.unknown
            /\ e.view.shown = d.view.shown
<1>1. /\ d \in Desks /\ c \in RoomCores /\ KnownOf(d, c, f) /\ AsideOf(d)
      /\ "busy" \in but \/ BusyOf(d, Open(d, heard))
      /\ "catalog" \in but \/ CatalogOf(d, heard, c, admitted)
      /\ "channel" \in but \/ ChannelOf(d, heard, c, admitted)
  BY DeskParts
<1>2. value.revision \in Nat /\ value.ids \in SUBSET Ids /\ c.revision \in Nat
  BY <1>1 DEF Values, RoomCores
<1>3. CASE value.revision < d.view.catalog.revision
  <2>1. WithCatalog(d, value) = d
    BY <1>3 DEF WithCatalog
  <2>2. "catalog" \notin but \ less
    BY <1>1, <1>2, <1>3, DeskTypes DEF KnownOf
  <2>3. DeskInv(d, heard, c, f, admitted, k, less)
    BY <1>1, <2>2, ClaimsAre
  <2> QED
    BY <1>1, <2>1, <2>3 DEF Stays
<1>4. CASE ~(value.revision < d.view.catalog.revision)
  <2> DEFINE cat == [revision |-> value.revision, ids |-> value.ids]
             er == IF d.view.error = "load" THEN "none" ELSE d.view.error
             v == [d.view EXCEPT !.catalog = cat, !.error = er]
  <2>1. PICK o :
          /\ o \in BOOLEAN
          /\ WithCatalog(d, value) = [d EXCEPT !.view.catalog = cat, !.view.error = er, !.overlooked = o]
          /\ (d.overlooked \/ d.view.error = "load" => o)
    BY <1>1, <1>4, DeskTypes, Zenon DEF WithCatalog
  <2>2. /\ v \in Views /\ v.catalog = cat /\ v.home = d.view.home /\ v.epoch = d.view.epoch
        /\ v.selection = d.view.selection /\ v.channel = d.view.channel /\ v.shown = d.view.shown
        /\ v.saving = d.view.saving /\ v.unknown = d.view.unknown
    <3>1. d.view \in Views /\ cat \in [revision : Int, ids : SUBSET Ids] /\ er \in {"none", "load", "unknown", "refused"}
      BY <1>1, <1>2, DeskTypes
    <3> HIDE DEF cat, er
    <3> QED
      BY <3>1 DEF Views
  <2> DEFINE e == DeskWith(d, v, o, d.creation, d.refreshing)
  <2>3. WithCatalog(d, value) = e
    BY <1>1, <2>1 DEF Desks, DeskWith
  <2>4. cat.revision = value.revision /\ cat.ids = value.ids
    OBVIOUS
  <2> HIDE DEF v, cat, er
  <2>5. /\ e \in Desks /\ e.view = v /\ e.overlooked = o /\ e.creation = d.creation
        /\ e.refreshing = d.refreshing /\ e.savers = d.savers /\ e.calls = d.calls
    <3>1. /\ d.creation \in Ids \union {0} /\ d.refreshing \in WorkOfDesk /\ o \in BOOLEAN
      BY <1>1, <2>1, DeskTypes DEF WorkOfDesk
    <3> QED
      BY <1>1, <2>2, <3>1, ShownIs
  <2> HIDE DEF e
  <2>6. Says(d) => Says(e)
    BY <2>1, <2>5 DEF Says
  <2>7. Stays(d, e)
    BY <2>2, <2>5, <2>6 DEF Stays
  <2>8. AsideOf(e) /\ ("busy" \in less \/ BusyOf(e, Open(d, heard)))
    <3>1. "busy" \in but => "busy" \in less
      OBVIOUS
    <3>2. BusyOf(d, Open(d, heard)) => BusyOf(e, Open(d, heard))
      BY <2>2, <2>5 DEF BusyOf, Creates, Updates
    <3>3. AsideOf(e)
      BY <1>1, <2>2, <2>5 DEF AsideOf
    <3> QED
      BY <1>1, <3>1, <3>2, <3>3
  <2>9. /\ e.view.catalog.ids \subseteq c.ids /\ d.view.catalog.revision <= e.view.catalog.revision
        /\ e.view.catalog.revision <= c.revision
    BY <1>1, <1>2, <1>4, <2>2, <2>4, <2>5, DeskTypes
  <2>10. d.view.channel # 0 => d.view.shown <= e.view.shown /\ e.view.shown <= c.rooms[d.view.channel]
    BY <1>1, <2>2, <2>5, DeskTypes DEF KnownOf
  <2>11. "catalog" \in but \ less => e.view.catalog.revision = c.revision
    BY <2>2, <2>4, <2>5
  <2>12. "channel" \notin but \ less
    OBVIOUS
  <2>13. DeskInv(e, heard, c, f, admitted, k, less)
    BY <2>2, <2>5, <2>6, <2>8, <2>9, <2>10, <2>11, <2>12, ViewChanges
  <2> QED
    BY <2>2, <2>3, <2>5, <2>7, <2>13
<1> QED
  BY <1>3, <1>4

\* loadCatalog(): the catalog of this epoch, or an error.
LEMMA ListedKeep ==
  ASSUME NEW d, NEW heard, NEW c, NEW f, NEW admitted, NEW k, NEW but, NEW less, NEW a \in AnswersOf,
         DeskInv(d, heard, c, f, admitted, k, but), AnswerOf(a, c, f), Aged(d, a.call, f),
         but \ less \subseteq {"catalog"},
         "catalog" \in but \ less => SameEpoch(d, a.call) /\ (a.result # "ok" \/ a.value.revision = c.revision)
  PROVE  LET e == Listed(d, a.call, a)
         IN /\ DeskInv(e, heard, c, f, admitted, k, less) /\ Stays(d, e)
            /\ e.creation = d.creation /\ e.view.saving = d.view.saving /\ e.view.unknown = d.view.unknown
            /\ e.view.shown = d.view.shown
<1>1. /\ d \in Desks /\ c \in RoomCores /\ KnownOf(d, c, f) /\ AsideOf(d)
      /\ "busy" \in but \/ BusyOf(d, Open(d, heard))
      /\ "catalog" \in but \/ CatalogOf(d, heard, c, admitted)
      /\ "channel" \in but \/ ChannelOf(d, heard, c, admitted)
  BY DeskParts
<1>2. CASE ~SameEpoch(d, a.call)
  <2>1. Listed(d, a.call, a) = d
    BY <1>2 DEF Listed
  <2>2. DeskInv(d, heard, c, f, admitted, k, less)
    BY <1>1, <1>2, ClaimsAre
  <2> QED
    BY <1>1, <2>1, <2>2 DEF Stays
<1>3. CASE SameEpoch(d, a.call) /\ a.result = "ok"
  <2>1. Listed(d, a.call, a) = WithCatalog(d, a.value)
    BY <1>3 DEF Listed
  <2>2. d.view.home
    BY <1>3 DEF Aged, SameEpoch
  <2>3. a.value \in Values
    <3> HIDE DEF Values, Requests
    <3> QED
      BY DEF AnswersOf
  <2>4. a.value.ids \subseteq c.ids /\ a.value.revision <= c.revision
    BY DEF AnswerOf
  <2>5. "catalog" \in but \ less => a.value.revision = c.revision
    BY <1>3
  <2> DEFINE e == WithCatalog(d, a.value)
  <2>6. /\ DeskInv(e, heard, c, f, admitted, k, less) /\ Stays(d, e)
        /\ e.creation = d.creation /\ e.view.saving = d.view.saving /\ e.view.unknown = d.view.unknown
        /\ e.view.shown = d.view.shown
    BY <2>2, <2>3, <2>4, <2>5, WithCatalogKeep
  <2> HIDE DEF e
  <2> QED
    BY <2>1, <2>6 DEF e
<1>4. CASE SameEpoch(d, a.call) /\ a.result # "ok"
  <2> DEFINE v == [d.view EXCEPT !.error = "load"]
             e == DeskWith(d, v, d.overlooked, d.creation, d.refreshing)
  <2>1. Listed(d, a.call, a) = e
    BY <1>1, <1>4 DEF Listed, FailsAs, Desks, DeskWith
  <2>2. /\ v \in Views /\ v.catalog = d.view.catalog /\ v.home = d.view.home /\ v.epoch = d.view.epoch
        /\ v.selection = d.view.selection /\ v.channel = d.view.channel /\ v.shown = d.view.shown
        /\ v.saving = d.view.saving /\ v.unknown = d.view.unknown /\ v.error = "load"
    BY <1>1, DeskTypes DEF Views
  <2> HIDE DEF v
  <2>3. /\ e \in Desks /\ e.view = v /\ e.overlooked = d.overlooked /\ e.creation = d.creation
        /\ e.refreshing = d.refreshing /\ e.savers = d.savers /\ e.calls = d.calls
    <3>1. /\ d.creation \in Ids \union {0} /\ d.refreshing \in WorkOfDesk /\ d.overlooked \in BOOLEAN
      BY <1>1, DeskTypes DEF WorkOfDesk
    <3> QED
      BY <1>1, <2>2, <3>1, ShownIs
  <2> HIDE DEF e
  <2>4. Says(e)
    BY <2>2, <2>3 DEF Says
  <2>5. Stays(d, e)
    BY <2>2, <2>3, <2>4 DEF Stays
  <2>6. AsideOf(e) /\ ("busy" \in less \/ BusyOf(e, Open(d, heard)))
    <3>1. "busy" \in but => "busy" \in less
      OBVIOUS
    <3>2. BusyOf(d, Open(d, heard)) => BusyOf(e, Open(d, heard))
      BY <2>2, <2>3 DEF BusyOf, Creates, Updates
    <3>3. AsideOf(e)
      BY <1>1, <2>2, <2>3 DEF AsideOf
    <3> QED
      BY <1>1, <3>1, <3>2, <3>3
  <2>7. /\ e.view.catalog.ids \subseteq c.ids /\ d.view.catalog.revision <= e.view.catalog.revision
        /\ e.view.catalog.revision <= c.revision
    BY <1>1, <2>2, <2>3, DeskTypes DEF KnownOf
  <2>8. d.view.channel # 0 => d.view.shown <= e.view.shown /\ e.view.shown <= c.rooms[d.view.channel]
    BY <1>1, <2>2, <2>3, DeskTypes DEF KnownOf
  <2>9. DeskInv(e, heard, c, f, admitted, k, less)
    BY <2>2, <2>3, <2>4, <2>6, <2>7, <2>8, ViewChanges
  <2> QED
    BY <2>1, <2>2, <2>3, <2>5, <2>9
<1> QED
  BY <1>2, <1>3, <1>4

\* An answer is taken from the wire: what waited for it is dealt with next.
LEMMA TakesKeep ==
  ASSUME NEW d, NEW heard, NEW less, NEW c, NEW f, NEW admitted, NEW but, NEW a \in heard,
         DeskInv(d, heard, c, f, admitted, 0, {}), less \subseteq heard, heard \subseteq less \union {a},
         (a.call.kind = "create" /\ SameEpoch(d, a.call) /\ a.call.channel = d.creation)
           \/ (a.call.kind = "update" /\ SameEpoch(d, a.call)) => "busy" \in but,
         a.call.kind = "list" /\ SameEpoch(d, a.call) /\ (a.result # "ok" \/ a.value.revision = c.revision) =>
           "catalog" \in but,
         a.call.kind = "list" /\ a.call.n # 0 /\ CurrentFor(d, a.call) => "channel" \in but,
         a.call.kind \in {"select", "snapshot"} /\ CurrentFor(d, a.call)
           /\ (a.result # "ok" \/ a.value.room = c.rooms[d.view.channel]) => "channel" \in but
  PROVE  /\ DeskInv(d, less, c, f, admitted, a.call.n, but)
         /\ a \in AnswersOf /\ a.call \in Requests /\ AnswerOf(a, c, f) /\ Aged(d, a.call, f)
         /\ a.call.channel = d.creation /\ d.view.saving
            /\ ((a.call.kind = "verify" /\ SameEpoch(d, a.call)) \/ (a.call.kind = "create" /\ ~SameEpoch(d, a.call))) =>
              Updates(d, Open(d, less))
<1>1. /\ d \in Desks /\ heard \subseteq AnswersOf /\ c \in RoomCores /\ f \in [Ids -> Fates]
      /\ KnownOf(d, c, f)
      /\ \A i \in 1..Len(d.calls) : CallOf(d.calls[i], c, f)
      /\ \A b \in heard : AnswerOf(b, c, f)
      /\ AgesOf(d, Open(d, heard), f) /\ WorkOf(d, Open(d, heard), 0) /\ AsideOf(d)
      /\ BusyOf(d, Open(d, heard)) /\ CatalogOf(d, heard, c, admitted) /\ ChannelOf(d, heard, c, admitted)
  BY DeskParts
<1>2. a \in AnswersOf /\ AnswerOf(a, c, f) /\ a.call \in Open(d, heard)
  BY <1>1 DEF Open
<1>3. a.call \in Requests /\ Aged(d, a.call, f)
  BY <1>1, <1>2, OpenTypes DEF AgesOf
<1>4. /\ Open(d, less) \subseteq Open(d, heard)
      /\ \A rpc \in Open(d, heard) : rpc \in Open(d, less) \/ rpc = a.call
  BY DEF Open
<1>5. AgesOf(d, Open(d, less), f)
  BY <1>1, <1>4 DEF AgesOf
<1>6. WorkOf(d, Open(d, less), a.call.n)
  BY <1>1, <1>4 DEF WorkOf
<1>7. Updates(d, Open(d, heard)) => Updates(d, Open(d, less)) \/ (a.call.kind = "update" /\ SameEpoch(d, a.call))
  BY <1>4 DEF Updates, SameEpoch
<1>8. "busy" \in but \/ BusyOf(d, Open(d, less))
  <2>1. Creates(d, Open(d, heard)) =>
          Creates(d, Open(d, less)) \/ (a.call.kind = "create" /\ SameEpoch(d, a.call) /\ a.call.channel = d.creation)
    BY <1>4 DEF Creates, SameEpoch
  <2> QED
    BY <1>1, <1>7, <2>1 DEF BusyOf
<1>9. "catalog" \in but \/ CatalogOf(d, less, c, admitted)
  <2>1. SUFFICES ASSUME "catalog" \notin but, NEW b \in heard, b.call.kind = "list", b.call.epoch = d.view.epoch,
                        b.result # "ok" \/ b.value.revision = c.revision
                 PROVE  b \in less
    BY <1>1 DEF CatalogOf
  <2> QED
    BY <2>1 DEF SameEpoch
<1>10. "channel" \in but \/ ChannelOf(d, less, c, admitted)
  <2>1. SUFFICES ASSUME "channel" \notin but
                 PROVE  ChannelOf(d, less, c, admitted)
    OBVIOUS
  <2>2. ASSUME NEW rpc \in Open(d, heard), rpc.kind = "list", rpc.n # 0, CurrentFor(d, rpc)
        PROVE  rpc \in Open(d, less)
    BY <1>4, <2>1, <2>2
  <2>3. ASSUME NEW b \in heard, b.call.kind \in {"select", "snapshot"}, CurrentFor(d, b.call),
               b.result # "ok" \/ b.value.room = c.rooms[d.view.channel]
        PROVE  b \in less
    BY <2>1, <2>3
  <2> QED
    BY <1>1, <2>2, <2>3 DEF ChannelOf
<1>11. DeskInv(d, less, c, f, admitted, a.call.n, but)
  BY <1>1, <1>5, <1>6, <1>8, <1>9, <1>10 DEF DeskInv
<1>12. ASSUME a.call.channel = d.creation, d.view.saving,
              (a.call.kind = "verify" /\ SameEpoch(d, a.call)) \/ (a.call.kind = "create" /\ ~SameEpoch(d, a.call))
       PROVE  Updates(d, Open(d, less))
  <2>1. ~Creates(d, Open(d, heard))
    <3>1. CASE a.call.kind = "verify" /\ SameEpoch(d, a.call)
      BY <1>2, <1>12, <3>1 DEF Creates, SameEpoch
    <3>2. CASE a.call.kind = "create" /\ ~SameEpoch(d, a.call)
      <4>1. \A b \in Open(d, heard) : b.kind = "create" /\ b.channel = a.call.channel => b.epoch = a.call.epoch
        BY <1>1, <1>2, <3>2 DEF AgesOf
      <4> QED
        BY <1>12, <3>2, <4>1 DEF Creates, SameEpoch
    <3> QED
      BY <1>12, <3>1, <3>2
  <2> QED
    BY <1>1, <1>7, <1>12, <2>1 DEF BusyOf
<1> QED
  BY <1>2, <1>3, <1>11, <1>12

\* loadCatalog() for a refresh, or for bind().
LEMMA ListAnsweredKeep ==
  ASSUME NEW d, NEW heard, NEW rest, NEW c, NEW f, NEW admitted, NEW a \in heard,
         DeskInv(d, heard, c, f, admitted, 0, {}), rest \subseteq heard, heard \subseteq rest \union {a},
         a.call.kind = "list"
  PROVE  DeskInv(ListAnswered(d, a.call, a), rest, c, f, admitted, 0, {})
<1> DEFINE rpc == a.call
           cats == IF SameEpoch(d, rpc) /\ (a.result # "ok" \/ a.value.revision = c.revision) THEN {"catalog"} ELSE {}
           chans == IF rpc.n # 0 /\ CurrentFor(d, rpc) THEN {"channel"} ELSE {}
           but == cats \union chans
           e == Listed(d, rpc, a)
<1>1. /\ "catalog" \in but <=> SameEpoch(d, rpc) /\ (a.result # "ok" \/ a.value.revision = c.revision)
      /\ "channel" \in but <=> rpc.n # 0 /\ CurrentFor(d, rpc)
      /\ "channel" \in chans <=> rpc.n # 0 /\ CurrentFor(d, rpc)
      /\ but \ chans \subseteq {"catalog"} /\ "busy" \notin chans /\ chans \subseteq {"channel"}
  OBVIOUS
<1> HIDE DEF cats, chans, but, e
<1>2. /\ DeskInv(d, rest, c, f, admitted, rpc.n, but)
      /\ a \in AnswersOf /\ rpc \in Requests /\ AnswerOf(a, c, f) /\ Aged(d, rpc, f)
  BY <1>1, TakesKeep
<1>3. DeskInv(e, rest, c, f, admitted, rpc.n, chans) /\ Stays(d, e)
  BY <1>1, <1>2, ListedKeep DEF e
<1>4. /\ e \in Desks /\ (CurrentFor(e, rpc) <=> CurrentFor(d, rpc)) /\ e.refreshing = d.refreshing
      /\ e.view.channel = d.view.channel /\ e.view.home = d.view.home
  BY <1>3 DEF Stays, CurrentFor, SameEpoch
<1>5. rpc.n \in Nat /\ rpc.channel \in Ids \union {0}
  BY <1>2 DEF Requests
<1>6. CASE rpc.n = 0
  <2>1. chans = {}
    BY <1>1, <1>6
  <2>2. ListAnswered(d, rpc, a) = e
    BY <1>6 DEF ListAnswered, e
  <2> QED
    BY <1>3, <1>6, <2>1, <2>2
<1>7. CASE rpc.n # 0 /\ ~CurrentFor(e, rpc)
  <2>1. chans = {}
    BY <1>1, <1>4, <1>7
  <2>2. ListAnswered(d, rpc, a) = WorkEnds(e, rpc.n)
    BY <1>7 DEF ListAnswered, e
  <2>3. e.refreshing.n # rpc.n
    BY <1>2, <1>4, <1>7 DEF Aged
  <2>4. DeskInv(WorkEnds(e, rpc.n), rest, c, f, admitted, 0, chans)
    BY <1>3, <1>5, <2>3, WorkEndsKeep
  <2> QED
    BY <2>1, <2>2, <2>4
<1>8. CASE rpc.n # 0 /\ CurrentFor(e, rpc)
  <2>1. rpc.channel = e.view.channel /\ e.view.home /\ rpc.n <= e.refreshing.last
    BY <1>2, <1>4, <1>8 DEF Aged, CurrentFor, SameEpoch
  <2>2. KnownOf(e, c, f)
    BY <1>3, DeskParts
  <2>3. CASE rpc.channel # 0
    <3>1. ListAnswered(d, rpc, a) = Asks(e, "snapshot", rpc.n, rpc.channel)
      BY <1>8, <2>3 DEF ListAnswered, e
    <3>2. rpc.channel \in c.ids
      BY <2>1, <2>2, <2>3 DEF KnownOf
    <3>3. "snapshot" \in RequestKinds /\ 0 \in Nat
      BY DEF RequestKinds
    <3>4. "busy" \notin chans \ {} /\ "catalog" \notin chans \ {}
      BY <1>1
    <3>5. DeskInv(Asks(e, "snapshot", rpc.n, rpc.channel), rest, c, f, admitted, 0, {})
      BY <1>3, <1>5, <1>8, <2>1, <3>2, <3>3, <3>4, AsksKeep
    <3> QED
      BY <3>1, <3>5
  <2>4. CASE rpc.channel = 0
    <3>1. ListAnswered(d, rpc, a) = RoundEnds(e, rpc)
      BY <1>8, <2>4 DEF ListAnswered, e
    <3>2. ChannelOf(e, rest, c, admitted)
      BY <2>1, <2>4 DEF ChannelOf
    <3>3. DeskInv(e, rest, c, f, admitted, rpc.n, {})
      BY <1>1, <1>3, <3>2, ClaimsAre
    <3>4. DeskInv(RoundEnds(e, rpc), rest, c, f, admitted, 0, {})
      BY <1>2, <1>8, <2>1, <3>3, RoundEndsKeep
    <3> QED
      BY <3>1, <3>4
  <2> QED
    BY <2>3, <2>4
<1> QED
  BY <1>6, <1>7, <1>8

\* loadChannel() for a selection or for a refresh.
LEMMA ChannelAnsweredKeep ==
  ASSUME NEW d, NEW heard, NEW rest, NEW c, NEW f, NEW admitted, NEW a \in heard,
         DeskInv(d, heard, c, f, admitted, 0, {}), rest \subseteq heard, heard \subseteq rest \union {a},
         a.call.kind \in {"select", "snapshot"}
  PROVE  DeskInv(ChannelAnswered(d, a.call, a), rest, c, f, admitted, 0, {})
<1> DEFINE rpc == a.call
           news == CurrentFor(d, rpc) /\ (a.result # "ok" \/ a.value.room = c.rooms[d.view.channel])
           but == IF news THEN {"channel"} ELSE {}
           e == IF ~CurrentFor(d, rpc) THEN d
                ELSE IF a.result = "ok" THEN WithChannel(d, rpc.channel, a.value) ELSE FailsAs(d, "load")
<1>1. ("channel" \in but <=> news) /\ but \subseteq {"channel"} /\ but \ {} = but
  OBVIOUS
<1>2. /\ DeskInv(d, rest, c, f, admitted, rpc.n, but)
      /\ a \in AnswersOf /\ rpc \in Requests /\ AnswerOf(a, c, f) /\ Aged(d, rpc, f)
  <2> HIDE DEF but
  <2> QED
    BY <1>1, TakesKeep
<1>3. /\ d \in Desks /\ c \in RoomCores /\ KnownOf(d, c, f) /\ AsideOf(d)
      /\ BusyOf(d, Open(d, rest))
  <2>1. "busy" \notin but
    OBVIOUS
  <2> QED
    BY <1>2, <2>1, DeskParts
<1>4. rpc.n \in Nat /\ rpc.channel \in Ids \union {0} /\ a.value \in Values
  <2>1. a.value \in Values
    <3> HIDE DEF Values, Requests
    <3> QED
      BY <1>2 DEF AnswersOf
  <2> QED
    BY <1>2, <2>1 DEF Requests
<1> HIDE DEF but, e
<1>5. DeskInv(e, rest, c, f, admitted, rpc.n, {}) /\ Stays(d, e)
  <2>1. CASE ~CurrentFor(d, rpc)
    <3>1. e = d /\ but = {}
      BY <2>1 DEF e, but
    <3> QED
      BY <1>2, <1>3, <3>1 DEF Stays
  <2>2. CASE CurrentFor(d, rpc)
    <3>1. /\ rpc.channel = d.view.channel /\ d.view.home /\ rpc.channel \in c.ids /\ rpc.channel # 0
          /\ c.rooms[rpc.channel] \in Nat
      <4>1. rpc.channel = d.view.channel /\ d.view.home
        BY <1>2, <2>2 DEF Aged, CurrentFor, SameEpoch
      <4>2. rpc.channel \in c.ids /\ c.ids \subseteq Ids
        BY <1>2, <1>3 DEF AnswerOf, CallOf, RoomCores
      <4> QED
        BY <1>3, <4>1, <4>2, LocalNumbers DEF RoomCores
    <3>2. a.value.room \in Nat /\ a.value.room <= c.rooms[d.view.channel]
      BY <1>2, <1>4, <3>1 DEF AnswerOf, Values
    <3>3. CASE a.result = "ok" /\ a.value.room < d.view.shown
      <4>1. e = d
        BY <2>2, <3>3 DEF e, WithChannel
      <4>2. d.view.shown <= c.rooms[d.view.channel] /\ d.view.shown \in Int
        BY <1>3, <3>1, DeskTypes DEF KnownOf
      <4>3. ~news
        BY <3>1, <3>2, <3>3, <4>2
      <4> QED
        BY <1>1, <1>2, <1>3, <4>1, <4>3, ClaimsAre DEF Stays
    <3>4. CASE ~(a.result = "ok" /\ a.value.room < d.view.shown)
      <4> DEFINE shows == IF a.result = "ok" THEN a.value.room ELSE d.view.shown
                 er == IF a.result # "ok" THEN "load" ELSE IF d.view.error = "load" THEN "none" ELSE d.view.error
                 v == [d.view EXCEPT !.shown = shows, !.error = er]
      <4>1. PICK o :
              /\ o \in BOOLEAN
              /\ e = [d EXCEPT !.view.shown = shows, !.view.error = er, !.overlooked = o]
              /\ (d.overlooked \/ d.view.error = "load" => o \/ er = "load")
        <5>1. CASE a.result = "ok"
          <6>1. shows = a.value.room /\ er = IF d.view.error = "load" THEN "none" ELSE d.view.error
            BY <5>1
          <6>2. PICK o :
              /\ o \in BOOLEAN
              /\ e = [d EXCEPT !.view.shown = a.value.room,
                               !.view.error = IF d.view.error = "load" THEN "none" ELSE d.view.error, !.overlooked = o]
              /\ (d.overlooked \/ d.view.error = "load" => o)
            BY <1>3, <2>2, <3>4, <5>1, DeskTypes, Zenon DEF e, WithChannel
          <6> HIDE DEF shows, er
          <6> QED
            BY <6>1, <6>2
        <5>2. CASE a.result # "ok"
          <6>1. e = [d EXCEPT !.view.error = "load"] /\ shows = d.view.shown /\ er = "load"
            BY <2>2, <5>2 DEF e, FailsAs
          <6> HIDE DEF shows, er
          <6>2. e = [d EXCEPT !.view.shown = shows, !.view.error = er, !.overlooked = d.overlooked]
            BY <1>3, <6>1 DEF Desks, Views
          <6> QED
            BY <1>3, <6>1, <6>2, DeskTypes, Zenon
        <5> QED
          BY <5>1, <5>2
      <4>2. shows \in Int /\ er \in {"none", "load", "unknown", "refused"} /\ d.view \in Views
        BY <1>3, <3>2, DeskTypes
      <4>3. d.view.shown <= shows /\ shows <= c.rooms[d.view.channel]
        BY <1>3, <3>1, <3>2, <3>4, DeskTypes DEF KnownOf
      <4>4. news => shows = c.rooms[d.view.channel] \/ er = "load"
        OBVIOUS
      <4> HIDE DEF shows, er
      <4>5. /\ v \in Views /\ v.catalog = d.view.catalog /\ v.home = d.view.home /\ v.epoch = d.view.epoch
            /\ v.selection = d.view.selection /\ v.channel = d.view.channel /\ v.shown = shows
            /\ v.saving = d.view.saving /\ v.unknown = d.view.unknown /\ v.error = er
        BY <4>2 DEF Views
      <4> DEFINE g == DeskWith(d, v, o, d.creation, d.refreshing)
      <4>6. e = g
        BY <1>3, <4>1 DEF Desks, DeskWith
      <4> HIDE DEF v
      <4>7. /\ g \in Desks /\ g.view = v /\ g.overlooked = o /\ g.creation = d.creation
            /\ g.refreshing = d.refreshing /\ g.savers = d.savers /\ g.calls = d.calls
        <5>1. /\ d.creation \in Ids \union {0} /\ d.refreshing \in WorkOfDesk /\ o \in BOOLEAN
          BY <1>3, <4>1, DeskTypes DEF WorkOfDesk
        <5>2. d \in Desks /\ v \in Views
          BY <1>3, <4>5
        <5>3. DeskWith(d, v, o, d.creation, d.refreshing) = g
          OBVIOUS
        <5> HIDE DEF g
        <5> QED
          BY <5>1, <5>2, <5>3, ShownIs
      <4> HIDE DEF g
      <4>8. Says(d) => Says(g)
        BY <4>1, <4>5, <4>7 DEF Says
      <4>9. Stays(d, g)
        BY <4>5, <4>7, <4>8 DEF Stays
      <4>10. AsideOf(g) /\ BusyOf(g, Open(d, rest))
        <5>1. BusyOf(d, Open(d, rest)) => BusyOf(g, Open(d, rest))
          BY <4>5, <4>7 DEF BusyOf, Creates, Updates
        <5>2. AsideOf(g)
          BY <1>3, <4>5, <4>7 DEF AsideOf
        <5> QED
          BY <1>3, <5>1, <5>2
      <4>11. /\ g.view.catalog.ids \subseteq c.ids /\ d.view.catalog.revision <= g.view.catalog.revision
             /\ g.view.catalog.revision <= c.revision
        BY <1>3, <4>5, <4>7, DeskTypes DEF KnownOf
      <4>12. /\ d.view.channel # 0 => d.view.shown <= g.view.shown /\ g.view.shown <= c.rooms[d.view.channel]
             /\ news => g.view.shown = c.rooms[d.view.channel] \/ g.view.error = "load"
        BY <4>3, <4>4, <4>5, <4>7
      <4>13. "catalog" \notin but \ {} /\ ("channel" \in but \ {} => news)
        BY <1>1
      <4> HIDE DEF news
      <4>14. DeskInv(g, rest, c, f, admitted, rpc.n, {})
        BY <1>2, <4>5, <4>7, <4>8, <4>10, <4>11, <4>12, <4>13, ViewChanges
      <4> QED
        BY <4>6, <4>9, <4>14
    <3> QED
      BY <3>3, <3>4
  <2> QED
    BY <2>1, <2>2
<1>6. CASE rpc.kind = "select"
  <2>1. ChannelAnswered(d, rpc, a) = e
    BY <1>6 DEF ChannelAnswered, e
  <2>2. rpc.n = 0
    BY <1>2, <1>6 DEF Aged
  <2> QED
    BY <1>5, <2>1, <2>2
<1>7. CASE rpc.kind = "snapshot"
  <2>1. ChannelAnswered(d, rpc, a) = RoundEnds(e, rpc)
    BY <1>7 DEF ChannelAnswered, e
  <2>2. /\ rpc.n # 0 /\ (rpc.n = e.refreshing.n => CurrentFor(e, rpc))
        /\ (CurrentFor(e, rpc) => rpc.channel = e.view.channel)
    BY <1>2, <1>5, <1>7 DEF Aged, Stays, CurrentFor, SameEpoch
  <2>3. DeskInv(RoundEnds(e, rpc), rest, c, f, admitted, 0, {})
    BY <1>2, <1>5, <2>2, RoundEndsKeep
  <2> QED
    BY <2>1, <2>3
<1> QED
  BY <1>6, <1>7

\* What is said to the user, and what is being created.
LEMMA BannersKeep ==
  ASSUME NEW d, NEW heard, NEW c, NEW f, NEW admitted, NEW k, NEW but, NEW less,
         DeskInv(d, heard, c, f, admitted, k, but),
         NEW s, NEW er, NEW u, NEW o, NEW x, BannersFit(d, heard, f, s, er, u, o, x, but, less)
  PROVE  LET e == Banners(d, s, er, u, o, x)
         IN /\ DeskInv(e, heard, c, f, admitted, k, less) /\ Stays(d, e)
            /\ e.creation = x /\ e.view.saving = s /\ e.view.error = er /\ e.view.unknown = u /\ e.overlooked = o
            /\ e.view.catalog = d.view.catalog /\ e.view.shown = d.view.shown
<1> DEFINE v == [d.view EXCEPT !.saving = s, !.error = er, !.unknown = u]
           e == DeskWith(d, v, o, x, d.refreshing)
<1>0. /\ s \in BOOLEAN /\ er \in {"none", "load", "unknown", "refused"} /\ u \in BOOLEAN /\ o \in BOOLEAN
      /\ x = d.creation \/ (x = 0 /\ f[d.creation] # "open")
      /\ d.overlooked \/ d.view.error = "load" => o \/ er = "load"
      /\ d.view.home \/ (~s /\ ~u)
      /\ u => x # 0
      /\ but \ less \subseteq {"busy"}
      /\ \/ "busy" \in less \/ ~s \/ Updates(d, Open(d, heard))
         \/ "busy" \notin but /\ (s => d.view.saving) /\ u = d.view.unknown /\ x = d.creation
  BY DEF BannersFit
<1>1. /\ d \in Desks /\ c \in RoomCores /\ KnownOf(d, c, f) /\ AsideOf(d)
      /\ "busy" \in but \/ BusyOf(d, Open(d, heard))
  BY DeskParts
<1>2. x \in Ids \union {0} /\ d.refreshing \in WorkOfDesk
  BY <1>0, <1>1, DeskTypes DEF WorkOfDesk
<1>3. /\ v \in Views /\ v.catalog = d.view.catalog /\ v.home = d.view.home /\ v.epoch = d.view.epoch
      /\ v.selection = d.view.selection /\ v.channel = d.view.channel /\ v.shown = d.view.shown
      /\ v.saving = s /\ v.unknown = u /\ v.error = er
  <2>1. d.view \in Views
    BY <1>1, DeskTypes
  <2> QED
    BY <1>0, <2>1 DEF Views
<1> HIDE DEF v
<1>4. /\ e \in Desks /\ e.view = v /\ e.overlooked = o /\ e.creation = x
      /\ e.refreshing = d.refreshing /\ e.savers = d.savers /\ e.calls = d.calls
  BY <1>0, <1>1, <1>2, <1>3, ShownIs
<1> HIDE DEF e
<1>5. Says(d) => Says(e)
  BY <1>0, <1>3, <1>4 DEF Says
<1>6. Stays(d, e)
  BY <1>3, <1>4, <1>5 DEF Stays
<1>7. AsideOf(e)
  BY <1>0, <1>1, <1>3, <1>4 DEF AsideOf
<1>8. "busy" \in less \/ BusyOf(e, Open(d, heard))
  <2>1. Updates(d, Open(d, heard)) <=> Updates(e, Open(d, heard))
    BY <1>3, <1>4 DEF Updates
  <2>2. u = d.view.unknown /\ x = d.creation /\ Creates(d, Open(d, heard)) => Creates(e, Open(d, heard))
    BY <1>3, <1>4 DEF Creates
  <2> QED
    BY <1>0, <1>1, <1>3, <1>4, <2>1, <2>2 DEF BusyOf
<1>9. /\ e.view.catalog.ids \subseteq c.ids /\ d.view.catalog.revision <= e.view.catalog.revision
      /\ e.view.catalog.revision <= c.revision
  BY <1>1, <1>3, <1>4, DeskTypes DEF KnownOf
<1>10. d.view.channel # 0 => d.view.shown <= e.view.shown /\ e.view.shown <= c.rooms[d.view.channel]
  BY <1>1, <1>3, <1>4, DeskTypes DEF KnownOf
<1>11. "catalog" \notin but \ less /\ "channel" \notin but \ less
  BY <1>0
<1>12. DeskInv(e, heard, c, f, admitted, k, less)
  BY <1>0, <1>3, <1>4, <1>5, <1>7, <1>8, <1>9, <1>10, <1>11, ViewChanges
<1>13. Banners(d, s, er, u, o, x) = e
  BY DEF Banners, e, v
<1> QED
  BY <1>3, <1>4, <1>6, <1>12, <1>13

\* updateMembers() is busy until a refresh has read what it saved.
LEMMA SavesKeep ==
  ASSUME NEW d, NEW heard, NEW c, NEW f, NEW admitted, NEW but,
         DeskInv(d, heard, c, f, admitted, 0, but), d.view.home
  PROVE  DeskInv(Saves(d), heard, c, f, admitted, 0, {})
<1> DEFINE g == Refreshed(d)
           saver == [n |-> g.refreshing.n, epoch |-> g.view.epoch]
           many == g.savers \union {saver}
           e == [g EXCEPT !.savers = many]
<1>1. DeskInv(g, heard, c, f, admitted, 0, {"busy"}) /\ g.view.home /\ g.refreshing.n # 0
  <2>1. "busy" \in {"busy"}
    OBVIOUS
  <2> QED
    BY <2>1, RefreshedKeep
<1> HIDE DEF g
<1>2. /\ g \in Desks /\ heard \subseteq AnswersOf /\ c \in RoomCores /\ f \in [Ids -> Fates]
      /\ KnownOf(g, c, f)
      /\ \A i \in 1..Len(g.calls) : CallOf(g.calls[i], c, f)
      /\ \A a \in heard : AnswerOf(a, c, f)
      /\ AgesOf(g, Open(g, heard), f) /\ WorkOf(g, Open(g, heard), 0) /\ AsideOf(g)
      /\ CatalogOf(g, heard, c, admitted) /\ ChannelOf(g, heard, c, admitted)
  <2>1. "catalog" \notin {"busy"} /\ "channel" \notin {"busy"}
    OBVIOUS
  <2> QED
    BY <1>1, <2>1, DeskParts
<1>3. many \subseteq [n : Nat, epoch : Nat]
  BY <1>2, DeskTypes
<1>4. saver \in many /\ saver.n = g.refreshing.n /\ saver.epoch = g.view.epoch
  OBVIOUS
<1>5. \A s \in many : s \in g.savers \/ s = saver
  OBVIOUS
<1> HIDE DEF many, saver
<1>6. /\ e \in Desks /\ e.view = g.view /\ e.creation = g.creation /\ e.refreshing = g.refreshing
      /\ e.calls = g.calls /\ e.overlooked = g.overlooked /\ e.savers = many
  <2> HIDE DEF Views, Requests
  <2> QED
    BY <1>2, <1>3 DEF Desks
<1>7. Saves(d) = e
  BY DEF Saves, g, e, many, saver
<1> HIDE DEF e
<1>8. Unread(e) = Unread(g) /\ Open(e, heard) = Open(g, heard)
  BY <1>6 DEF Unread, Open
<1>9. KnownOf(e, c, f) /\ AsideOf(e)
  BY <1>2, <1>6 DEF KnownOf, AsideOf
<1>10. AgesOf(e, Open(e, heard), f)
  BY <1>2, <1>6, <1>8 DEF AgesOf, Aged, CurrentFor, SameEpoch
<1>11. WorkOf(e, Open(e, heard), 0)
  BY <1>1, <1>2, <1>4, <1>5, <1>6, <1>8 DEF WorkOf
<1>12. BusyOf(e, Open(e, heard))
  BY <1>4, <1>6 DEF BusyOf, Updates
<1>13. CatalogOf(e, heard, c, admitted) /\ ChannelOf(e, heard, c, admitted)
  BY <1>2, <1>6, <1>8 DEF CatalogOf, ChannelOf, Admits, Says, CurrentFor, SameEpoch
<1>14. DeskInv(e, heard, c, f, admitted, 0, {})
  BY <1>2, <1>6, <1>8, <1>9, <1>10, <1>11, <1>12, <1>13 DEF DeskInv
<1> QED
  BY <1>7, <1>14

\* updateMembers() after its await.
LEMMA UpdateAnsweredKeep ==
  ASSUME NEW d, NEW heard, NEW rest, NEW c, NEW f, NEW admitted, NEW a \in heard,
         DeskInv(d, heard, c, f, admitted, 0, {}), rest \subseteq heard, heard \subseteq rest \union {a},
         a.call.kind = "update"
  PROVE  DeskInv(UpdateAnswered(d, a.call, a), rest, c, f, admitted, 0, {})
<1> DEFINE rpc == a.call
           but == IF SameEpoch(d, rpc) THEN {"busy"} ELSE {}
           e == IF a.result = "ok" THEN WithCatalog(d, a.value) ELSE d
<1>1. ("busy" \in but <=> SameEpoch(d, rpc)) /\ but \subseteq {"busy"}
  OBVIOUS
<1>2. /\ DeskInv(d, rest, c, f, admitted, rpc.n, but)
      /\ a \in AnswersOf /\ rpc \in Requests /\ AnswerOf(a, c, f) /\ Aged(d, rpc, f)
  <2> HIDE DEF but
  <2> QED
    BY <1>1, TakesKeep
<1>3. rpc.n = 0
  BY <1>2 DEF Aged
<1>4. CASE ~SameEpoch(d, rpc)
  <2>1. UpdateAnswered(d, rpc, a) = d /\ but = {}
    BY <1>4 DEF UpdateAnswered
  <2> QED
    BY <1>2, <1>3, <2>1
<1>5. CASE SameEpoch(d, rpc)
  <2>1. d.view.home /\ but = {"busy"} /\ d \in Desks
    BY <1>2, <1>5, DeskParts DEF Aged, SameEpoch
  <2>2. a.value \in Values
    <3> HIDE DEF Values, Requests
    <3> QED
      BY <1>2 DEF AnswersOf
  <2> HIDE DEF but, e
  <2>3. DeskInv(e, rest, c, f, admitted, 0, {"busy"}) /\ Stays(d, e)
    <3>1. CASE a.result = "ok"
      <4>1. a.value.ids \subseteq c.ids /\ a.value.revision <= c.revision
        BY <1>2 DEF AnswerOf
      <4>2. {"busy"} \ {"busy"} \subseteq {"catalog"} /\ "catalog" \notin {"busy"} \ {"busy"}
        OBVIOUS
      <4>3. e = WithCatalog(d, a.value)
        BY <3>1 DEF e
      <4> QED
        BY <1>2, <1>3, <2>1, <2>2, <4>1, <4>2, <4>3, WithCatalogKeep
    <3>2. CASE a.result # "ok"
      <4>1. e = d
        BY <3>2 DEF e
      <4> QED
        BY <1>2, <1>3, <2>1, <4>1 DEF Stays
    <3> QED
      BY <3>1, <3>2
  <2>4. e.view.home /\ e \in Desks /\ AsideOf(e)
    BY <2>1, <2>3, DeskParts DEF Stays
  <2>5. PICK no : no \in BOOLEAN /\ no \in {FALSE}
    OBVIOUS
  <2> DEFINE busy == {"busy"}
             none == {}
  <2>6. busy \ none \subseteq {"busy"} /\ DeskInv(e, rest, c, f, admitted, 0, busy)
    BY <2>3
  <2> HIDE DEF busy, none
  <2>7. /\ e.view.error \in {"none", "load", "unknown", "refused"} /\ e.view.unknown \in BOOLEAN
        /\ e.overlooked \in BOOLEAN
    BY <2>4, DeskTypes
  <2>8. CASE ~CurrentFor(d, rpc)
    <3>1. UpdateAnswered(d, rpc, a) = [e EXCEPT !.view.saving = no]
      BY <1>5, <2>5, <2>8 DEF UpdateAnswered, e
    <3>2. [e EXCEPT !.view.saving = no] = Banners(e, no, e.view.error, e.view.unknown, e.overlooked, e.creation)
      BY <2>4 DEF Banners, DeskWith, Desks, Views
    <3>3. ~no /\ (e.view.unknown => e.creation # 0)
      BY <2>4, <2>5 DEF AsideOf
    <3>4. e.overlooked \/ e.view.error = "load" => e.overlooked \/ e.view.error = "load"
      OBVIOUS
    <3>5. BannersFit(e, rest, f, no, e.view.error, e.view.unknown, e.overlooked, e.creation, busy, none)
      BY <2>4, <2>5, <2>6, <2>7, <3>3, <3>4 DEF BannersFit
    <3>6. DeskInv(Banners(e, no, e.view.error, e.view.unknown, e.overlooked, e.creation), rest, c, f, admitted, 0, none)
      BY <2>6, <3>5, BannersKeep
    <3> QED
      BY <3>1, <3>2, <3>6 DEF none
  <2>9. CASE CurrentFor(d, rpc) /\ a.result = "ok"
    <3>1. UpdateAnswered(d, rpc, a) = Saves(Leaves(e))
      BY <1>5, <2>9 DEF UpdateAnswered, e
    <3> DEFINE g == Leaves(e)
               less == {"busy", "catalog", "channel"}
    <3>2. /\ g \in Desks /\ g.refreshing.n = 0 /\ g.refreshing.last = e.refreshing.last
          /\ g.view = [e.view EXCEPT !.selection = e.view.selection + 1]
          /\ g.creation = e.creation /\ g.savers = e.savers /\ g.calls = e.calls
      BY <2>4, LeavesIs
    <3> HIDE DEF g
    <3>3. /\ g.view.home = e.view.home /\ g.view.epoch = e.view.epoch
          /\ g.view.selection = e.view.selection + 1 /\ g.view.catalog = e.view.catalog
          /\ g.view.saving = e.view.saving /\ g.view.unknown = e.view.unknown
          /\ g.view.channel = e.view.channel /\ g.view.shown = e.view.shown
      <4>1. e.view \in Views
        BY <2>4, DeskTypes
      <4> QED
        BY <3>2, <4>1 DEF Views
    <3>4. busy \subseteq less /\ "catalog" \in less /\ "channel" \in less /\ DeskInv(e, rest, c, f, admitted, 0, busy)
      BY <2>6 DEF busy
    <3> HIDE DEF less
    <3>5. DeskInv(g, rest, c, f, admitted, 0, less)
      BY <3>2, <3>3, <3>4, MovesKeep
    <3>6. DeskInv(Saves(g), rest, c, f, admitted, 0, {})
      BY <2>4, <3>3, <3>5, SavesKeep
    <3> QED
      BY <3>1, <3>6 DEF g
  <2>10. CASE CurrentFor(d, rpc) /\ a.result # "ok"
    <3>1. e = d
      BY <2>10 DEF e
    <3>2. PICK o :
            /\ o \in BOOLEAN
            /\ (d.overlooked \/ d.view.error = "load" => o)
            /\ UpdateAnswered(d, rpc, a) = Saves([d EXCEPT !.view.saving = no, !.view.error = "refused", !.overlooked = o])
      <4>1. PICK o : o = (d.overlooked \/ d.view.error = "load")
        OBVIOUS
      <4>2. o \in BOOLEAN
        BY <4>1, Zenon
      <4>3. UpdateAnswered(d, rpc, a) = Saves([d EXCEPT !.view.saving = FALSE, !.view.error = "refused", !.overlooked = o])
        BY <1>5, <2>10, <3>1, <4>1, Zenon DEF UpdateAnswered, e
      <4>4. no = FALSE
        BY <2>5
      <4> QED
        BY <4>1, <4>2, <4>3, <4>4, Zenon
    <3>3. [d EXCEPT !.view.saving = no, !.view.error = "refused", !.overlooked = o] =
            Banners(d, no, "refused", d.view.unknown, o, d.creation)
      BY <2>1 DEF Banners, DeskWith, Desks, Views
    <3>4. ~no /\ (d.view.unknown => d.creation # 0) /\ d.view.unknown \in BOOLEAN
      BY <2>4, <2>5, <2>7, <3>1 DEF AsideOf
    <3> DEFINE g == Banners(d, no, "refused", d.view.unknown, o, d.creation)
    <3>5. DeskInv(g, rest, c, f, admitted, 0, none) /\ Stays(d, g)
      <4>1. d.overlooked \/ d.view.error = "load" => o \/ "refused" = "load"
        BY <3>2
      <4>2. BannersFit(d, rest, f, no, "refused", d.view.unknown, o, d.creation, busy, none)
        BY <2>1, <2>5, <2>6, <3>1, <3>2, <3>4, <4>1 DEF BannersFit
      <4> QED
        BY <2>6, <3>1, <4>2, BannersKeep
    <3> HIDE DEF g
    <3>6. DeskInv(Saves(g), rest, c, f, admitted, 0, {})
      BY <2>1, <3>5, SavesKeep DEF Stays
    <3> QED
      BY <3>2, <3>3, <3>6 DEF g
  <2> QED
    BY <2>8, <2>9, <2>10
<1> QED
  BY <1>4, <1>5

\* verifyCreation() after its await.
LEMMA VerifyAnsweredKeep ==
  ASSUME NEW d, NEW heard, NEW rest, NEW c, NEW f, NEW admitted, NEW a \in heard,
         DeskInv(d, heard, c, f, admitted, 0, {}), rest \subseteq heard, heard \subseteq rest \union {a},
         a.call.kind = "verify"
  PROVE  DeskInv(VerifyAnswered(d, a.call, a), rest, c, f, admitted, 0, {})
<1> DEFINE rpc == a.call
           none == {}
           e == Listed(d, rpc, a)
<1>1. "busy" \notin none \ none /\ none \ none \subseteq {"busy"} /\ none \ none \subseteq {"catalog"}
      /\ "catalog" \notin none /\ "channel" \notin none /\ "busy" \notin none
  OBVIOUS
<1> HIDE DEF none, e
<1>2. /\ DeskInv(d, rest, c, f, admitted, rpc.n, none)
      /\ a \in AnswersOf /\ rpc \in Requests /\ AnswerOf(a, c, f) /\ Aged(d, rpc, f)
      /\ rpc.channel = d.creation /\ d.view.saving /\ SameEpoch(d, rpc) => Updates(d, Open(d, rest))
  BY TakesKeep
<1>3. DeskInv(e, rest, c, f, admitted, rpc.n, none) /\ Stays(d, e) /\ e.view.saving = d.view.saving
      /\ e.creation = d.creation
  BY <1>1, <1>2, ListedKeep DEF e
<1>4. /\ rpc.n = 0 /\ e \in Desks /\ (CurrentFor(e, rpc) <=> CurrentFor(d, rpc)) /\ (SameEpoch(e, rpc) <=> SameEpoch(d, rpc))
      /\ (SameEpoch(d, rpc) => e.view.home) /\ c \in RoomCores /\ KnownOf(e, c, f) /\ AsideOf(e)
  BY <1>2, <1>3, DeskParts DEF Aged, Stays, CurrentFor, SameEpoch
<1>5. CASE ~SameEpoch(e, rpc) \/ e.creation # rpc.channel
  <2>1. VerifyAnswered(d, rpc, a) = e
    BY <1>5 DEF VerifyAnswered, e
  <2> QED
    BY <1>3, <1>4, <2>1 DEF none
<1>6. CASE SameEpoch(e, rpc) /\ e.creation = rpc.channel
  <2>1. /\ e.view.saving \in BOOLEAN /\ e.view.unknown \in BOOLEAN /\ e.overlooked \in BOOLEAN
        /\ e.view.error \in {"none", "load", "unknown", "refused"} /\ e.view.home
    BY <1>4, <1>6, DeskTypes
  <2>2. PICK o : /\ o \in BOOLEAN
                 /\ o = (e.overlooked \/ e.view.error = "load")
    BY Zenon
  <2>3. CASE rpc.channel \notin e.view.catalog.ids
    <3>1. VerifyAnswered(d, rpc, a) = FailsAs([e EXCEPT !.overlooked = o], "unknown")
      <4>1. VerifyAnswered(d, rpc, a) = FailsAs([e EXCEPT !.overlooked = @ \/ e.view.error = "load"], "unknown")
        BY <1>6, <2>3 DEF VerifyAnswered, e
      <4> QED
        BY <2>2, <4>1, Zenon
    <3> DEFINE g == Banners(e, e.view.saving, "unknown", e.view.unknown, o, e.creation)
    <3>2. FailsAs([e EXCEPT !.overlooked = o], "unknown") = g
      BY <1>4 DEF FailsAs, Banners, DeskWith, Desks, Views
    <3>3. BannersFit(e, rest, f, e.view.saving, "unknown", e.view.unknown, o, e.creation, none, none)
      <4>1. e.view.unknown => e.creation # 0
        BY <1>4 DEF AsideOf
      <4> QED
        BY <1>1, <2>1, <2>2, <4>1 DEF BannersFit
    <3>4. DeskInv(g, rest, c, f, admitted, 0, none)
      BY <1>3, <1>4, <3>3, BannersKeep
    <3> QED
      BY <3>1, <3>2, <3>4 DEF none
  <2>4. CASE rpc.channel \in e.view.catalog.ids
    <3>1. PICK no : no \in BOOLEAN /\ no \in {FALSE}
      OBVIOUS
    <3> DEFINE h == [e EXCEPT !.creation = 0, !.view.unknown = no, !.view.error = "none", !.overlooked = o]
               g == Banners(e, e.view.saving, "none", no, o, 0)
    <3>2. VerifyAnswered(d, rpc, a) = IF CurrentFor(d, rpc) THEN Selected(h, rpc.channel) ELSE h
      <4>1. VerifyAnswered(d, rpc, a) =
              IF CurrentFor(d, rpc)
              THEN Selected([e EXCEPT !.creation = 0, !.view.unknown = FALSE, !.view.error = "none",
                                      !.overlooked = @ \/ e.view.error = "load"], rpc.channel)
              ELSE [e EXCEPT !.creation = 0, !.view.unknown = FALSE, !.view.error = "none",
                             !.overlooked = @ \/ e.view.error = "load"]
        BY <1>6, <2>4, Zenon DEF VerifyAnswered, e
      <4>2. no = FALSE
        BY <3>1
      <4> QED
        BY <2>2, <4>1, <4>2, Zenon
    <3>3. h = g
      BY ZenonT(40), <1>4 DEF Banners, DeskWith, Desks, Views
    <3>4. BannersFit(e, rest, f, e.view.saving, "none", no, o, 0, none, none)
      <4>1. f[e.creation] # "open"
        <5>1. e.creation \in c.ids /\ e.creation # 0 /\ e.creation # Room
          BY <1>4, <1>6, <2>4, LocalNumbers DEF KnownOf, RoomCores
        <5> QED
          BY <1>4, <5>1 DEF KnownOf
      <4>2. e.view.saving => Updates(e, Open(e, rest))
        <5>1. d.view.saving => Updates(d, Open(d, rest))
          BY <1>2, <1>3, <1>4, <1>6
        <5>2. Open(e, rest) = Open(d, rest)
          BY <1>3 DEF Stays, Open, Unread
        <5> QED
          BY <1>3, <5>1, <5>2 DEF Updates, Stays
      <4>3. ~no
        BY <3>1
      <4> QED
        BY <1>1, <2>1, <2>2, <3>1, <4>1, <4>2, <4>3 DEF BannersFit
    <3>5. DeskInv(g, rest, c, f, admitted, 0, none) /\ Stays(e, g)
      BY <1>3, <1>4, <3>4, BannersKeep
    <3>6. g.view.home
      BY <2>1, <3>5 DEF Stays
    <3> HIDE DEF g, h
    <3>7. DeskInv(Selected(g, rpc.channel), rest, c, f, admitted, 0, {})
      BY <3>5, <3>6, SelectedKeep DEF none
    <3> QED
      BY <3>2, <3>3, <3>5, <3>7 DEF none
  <2> QED
    BY <2>3, <2>4
<1> QED
  BY <1>5, <1>6

\* create() after its await.
LEMMA CreateAnsweredKeep ==
  ASSUME NEW d, NEW heard, NEW rest, NEW c, NEW f, NEW admitted, NEW a \in heard,
         DeskInv(d, heard, c, f, admitted, 0, {}), rest \subseteq heard, heard \subseteq rest \union {a},
         a.call.kind = "create"
  PROVE  DeskInv(CreateAnswered(d, a.call, a), rest, c, f, admitted, 0, {})
<1> DEFINE rpc == a.call
           none == {}
           but == IF SameEpoch(d, rpc) /\ rpc.channel = d.creation THEN {"busy"} ELSE {}
           less == but
<1>1. /\ "busy" \in but <=> SameEpoch(d, rpc) /\ rpc.channel = d.creation
      /\ but \ none \subseteq {"busy"} /\ but \ less \subseteq {"busy"} /\ but \ less \subseteq {"catalog"}
      /\ "catalog" \notin but \ less /\ less = but
      /\ ~(SameEpoch(d, rpc) /\ rpc.channel = d.creation) => but = none
  OBVIOUS
<1> HIDE DEF but, less
<1>2. /\ DeskInv(d, rest, c, f, admitted, rpc.n, but)
      /\ a \in AnswersOf /\ rpc \in Requests /\ AnswerOf(a, c, f) /\ Aged(d, rpc, f)
      /\ rpc.channel = d.creation /\ d.view.saving /\ ~SameEpoch(d, rpc) => Updates(d, Open(d, rest))
  BY <1>1, TakesKeep
<1> HIDE DEF none
<1>3. rpc.n = 0 /\ d \in Desks /\ AsideOf(d) /\ (SameEpoch(d, rpc) => d.view.home)
  BY <1>2, DeskParts DEF Aged, SameEpoch
<1>4. /\ a.value \in Values /\ a.value.ids \subseteq c.ids /\ a.value.revision <= c.revision
      /\ a.result \in {"ok", "refused", "unknown"} /\ (a.result # "unknown" => f[rpc.channel] # "open")
  <2>1. a.value \in Values /\ a.result \in {"ok", "refused", "unknown"}
    <3> HIDE DEF Values, Requests
    <3> QED
      BY <1>2 DEF AnswersOf
  <2> QED
    BY <1>2, <2>1 DEF AnswerOf
<1>5. /\ d.view.saving \in BOOLEAN /\ d.view.unknown \in BOOLEAN /\ d.overlooked \in BOOLEAN
      /\ d.view.error \in {"none", "load", "unknown", "refused"} /\ d.creation \in Ids \union {0}
  BY <1>3, DeskTypes
<1>6. PICK no : no \in BOOLEAN /\ no \in {FALSE}
  OBVIOUS
<1>7. CASE d.creation # rpc.channel
  <2>1. CreateAnswered(d, rpc, a) = d /\ but = none
    BY <1>1, <1>7 DEF CreateAnswered
  <2> QED
    BY <1>2, <1>3, <2>1 DEF none
<1>8. ASSUME a.result # "unknown", ~d.view.home, d.creation = rpc.channel
      PROVE  DeskInv([d EXCEPT !.creation = 0], rest, c, f, admitted, 0, {})
  <2> DEFINE g == Banners(d, d.view.saving, d.view.error, d.view.unknown, d.overlooked, 0)
  <2>1. [d EXCEPT !.creation = 0] = g
    BY ZenonT(40), <1>3 DEF Banners, DeskWith, Desks, Views
  <2>2. BannersFit(d, rest, f, d.view.saving, d.view.error, d.view.unknown, d.overlooked, 0, but, none)
    <3>1. ~d.view.saving /\ ~d.view.unknown
      BY <1>3, <1>8 DEF AsideOf
    <3> QED
      BY <1>1, <1>4, <1>5, <1>8, <3>1 DEF BannersFit
  <2>3. DeskInv(g, rest, c, f, admitted, 0, none)
    BY <1>2, <1>3, <2>2, BannersKeep
  <2> QED
    BY <2>1, <2>3 DEF none
<1>9. CASE d.creation = rpc.channel /\ a.result = "ok"
  <2>1. CASE ~d.view.home
    <3>1. CreateAnswered(d, rpc, a) = [d EXCEPT !.creation = 0]
      BY <1>9, <2>1 DEF CreateAnswered
    <3> QED
      BY <1>8, <1>9, <2>1, <3>1
  <2>2. CASE d.view.home
    <3> DEFINE g == Banners(d, d.view.saving, d.view.error, no, d.overlooked, 0)
               e == WithCatalog(g, a.value)
    <3>1. [[d EXCEPT !.creation = 0] EXCEPT !.view.unknown = no] = g
      BY ZenonT(40), <1>3 DEF Banners, DeskWith, Desks, Views
    <3>2. BannersFit(d, rest, f, d.view.saving, d.view.error, no, d.overlooked, 0, but, but)
      <4>1. "busy" \in but \/ ~d.view.saving \/ Updates(d, Open(d, rest))
        BY <1>1, <1>2, <1>9
      <4>2. ~no
        BY <1>6
      <4> QED
        BY <1>1, <1>4, <1>5, <1>6, <1>9, <2>2, <4>1, <4>2 DEF BannersFit
    <3>3. DeskInv(g, rest, c, f, admitted, 0, but) /\ Stays(d, g) /\ g.view.unknown = no
      BY <1>2, <1>3, <3>2, BannersKeep
    <3>4. g.view.home
      BY <2>2, <3>3 DEF Stays
    <3>5. [[d EXCEPT !.creation = 0] EXCEPT !.view.unknown = FALSE] = g
      <4>1. no = FALSE
        BY <1>6
      <4> HIDE DEF g
      <4> QED
        BY <3>1, <4>1, Zenon
    <3> HIDE DEF g
    <3>6. DeskInv(e, rest, c, f, admitted, 0, but) /\ Stays(g, e) /\ e.view.unknown = no
      <4>1. DeskInv(e, rest, c, f, admitted, 0, less) /\ Stays(g, e) /\ e.view.unknown = g.view.unknown
        <5> DEFINE value == a.value
        <5>1. /\ value \in Values /\ value.ids \subseteq c.ids /\ value.revision <= c.revision
              /\ but \ less \subseteq {"catalog"} /\ "catalog" \notin but \ less
              /\ DeskInv(g, rest, c, f, admitted, 0, but) /\ g.view.home
          BY <1>1, <1>4, <3>3, <3>4
        <5>2. e = WithCatalog(g, value)
          OBVIOUS
        <5> HIDE DEF value, e
        <5> QED
          BY SMTT(30), <5>1, <5>2, WithCatalogKeep
      <4> QED
        BY <1>1, <3>3, <4>1
    <3>7. e \in Desks /\ e.view.home
      BY <3>4, <3>6 DEF Stays
    <3>8. PICK o : o \in BOOLEAN /\ o = (e.overlooked \/ e.view.error = "load")
      BY Zenon
    <3> DEFINE h == [e EXCEPT !.view.saving = no, !.view.error = "none", !.overlooked = o]
               j == IF SameEpoch(d, rpc) THEN h ELSE e
    <3>9. CreateAnswered(d, rpc, a) = IF CurrentFor(d, rpc) THEN Selected(j, rpc.channel) ELSE j
      <4>1. CreateAnswered(d, rpc, a) =
              IF CurrentFor(d, rpc)
              THEN Selected(IF SameEpoch(d, rpc)
                            THEN [e EXCEPT !.view.saving = FALSE, !.view.error = "none",
                                           !.overlooked = @ \/ e.view.error = "load"] ELSE e, rpc.channel)
              ELSE IF SameEpoch(d, rpc)
                   THEN [e EXCEPT !.view.saving = FALSE, !.view.error = "none",
                                  !.overlooked = @ \/ e.view.error = "load"] ELSE e
        <5>1. CreateAnswered(d, rpc, a) =
                IF CurrentFor(d, rpc)
                THEN Selected(IF SameEpoch(d, rpc)
                              THEN [WithCatalog([[d EXCEPT !.creation = 0] EXCEPT !.view.unknown = FALSE], a.value)
                                      EXCEPT !.view.saving = FALSE, !.view.error = "none",
                                             !.overlooked = @ \/ WithCatalog([[d EXCEPT !.creation = 0]
                                               EXCEPT !.view.unknown = FALSE], a.value).view.error = "load"]
                              ELSE WithCatalog([[d EXCEPT !.creation = 0] EXCEPT !.view.unknown = FALSE], a.value),
                              rpc.channel)
                ELSE IF SameEpoch(d, rpc)
                     THEN [WithCatalog([[d EXCEPT !.creation = 0] EXCEPT !.view.unknown = FALSE], a.value)
                             EXCEPT !.view.saving = FALSE, !.view.error = "none",
                                    !.overlooked = @ \/ WithCatalog([[d EXCEPT !.creation = 0]
                                      EXCEPT !.view.unknown = FALSE], a.value).view.error = "load"]
                     ELSE WithCatalog([[d EXCEPT !.creation = 0] EXCEPT !.view.unknown = FALSE], a.value)
          BY <1>9, <2>2, Zenon DEF CreateAnswered
        <5> QED
          BY <3>5, <5>1, Zenon
      <4>2. no = FALSE
        BY <1>6
      <4> HIDE DEF e
      <4> QED
        BY <3>8, <4>1, <4>2, Zenon
    <3> HIDE DEF e
    <3>10. DeskInv(j, rest, c, f, admitted, 0, none) /\ j.view.home
      <4>1. CASE SameEpoch(d, rpc)
        <5> DEFINE i == Banners(e, no, "none", e.view.unknown, o, e.creation)
        <5>1. h = i
          BY ZenonT(40), <3>7 DEF Banners, DeskWith, Desks, Views
        <5>2. BannersFit(e, rest, f, no, "none", e.view.unknown, o, e.creation, but, none)
          <6>1. ~no
            BY <1>6
          <6> QED
            BY <1>1, <1>6, <3>6, <3>7, <3>8, <6>1 DEF BannersFit
        <5>3. DeskInv(i, rest, c, f, admitted, 0, none) /\ Stays(e, i)
          BY <3>6, <5>2, BannersKeep
        <5>4. i.view.home
          BY <3>7, <5>3 DEF Stays
        <5> HIDE DEF i, h
        <5> QED
          BY <4>1, <5>1, <5>3, <5>4
      <4>2. CASE ~SameEpoch(d, rpc)
        BY <1>1, <3>6, <3>7, <4>2
      <4> QED
        BY <4>1, <4>2
    <3> HIDE DEF j
    <3>11. DeskInv(Selected(j, rpc.channel), rest, c, f, admitted, 0, {})
      BY <3>10, SelectedKeep DEF none
    <3> QED
      BY <3>9, <3>10, <3>11 DEF none
  <2> QED
    BY <2>1, <2>2
<1>10. CASE d.creation = rpc.channel /\ a.result # "ok"
  <2> DEFINE g == IF a.result = "refused" THEN [d EXCEPT !.creation = 0] ELSE d
             x == IF a.result = "refused" THEN 0 ELSE d.creation
  <2>1. x = d.creation \/ (x = 0 /\ f[d.creation] # "open")
    BY <1>4, <1>10
  <2>2. PICK u : u \in BOOLEAN /\ u = (g.creation # 0)
    BY Zenon
  <2>3. g = [d EXCEPT !.creation = x] /\ g.creation = x
    <3>1. CASE a.result = "refused"
      BY <1>3, <3>1 DEF Desks
    <3>2. CASE a.result # "refused"
      <4>1. d = [d EXCEPT !.creation = d.creation]
        BY <1>3 DEF Desks
      <4> QED
        BY <3>2, <4>1
    <3> QED
      BY <3>1, <3>2
  <2>4. u => x # 0
    BY <2>2, <2>3
  <2>5. CASE ~d.view.home
    <3>1. CreateAnswered(d, rpc, a) = g
      BY <1>10, <2>5 DEF CreateAnswered
    <3>2. CASE a.result = "refused"
      BY <1>8, <1>10, <2>5, <3>1, <3>2
    <3>3. CASE a.result # "refused"
      <4>1. but = none
        BY <1>1, <1>3, <2>5
      <4> QED
        BY <1>2, <1>3, <3>1, <3>3, <4>1 DEF none
    <3> QED
      BY <3>2, <3>3
  <2>6. CASE d.view.home /\ SameEpoch(d, rpc)
    <3>1. PICK o : o \in BOOLEAN /\ o = (d.overlooked \/ d.view.error = "load")
      BY Zenon
    <3>2. CreateAnswered(d, rpc, a) =
            FailsAs([[g EXCEPT !.view.unknown = u] EXCEPT !.view.saving = no, !.overlooked = o], a.result)
      <4>1. CreateAnswered(d, rpc, a) =
              FailsAs([[g EXCEPT !.view.unknown = g.creation # 0]
                       EXCEPT !.view.saving = FALSE, !.overlooked = @ \/ d.view.error = "load"], a.result)
        BY <1>10, <2>6, Zenon DEF CreateAnswered
      <4>2. [[g EXCEPT !.view.unknown = u] EXCEPT !.view.saving = no, !.overlooked = @ \/ d.view.error = "load"] =
            [[g EXCEPT !.view.unknown = u] EXCEPT !.view.saving = no, !.overlooked = o]
        <5>1. [g EXCEPT !.view.unknown = u].overlooked = d.overlooked
          BY <1>3, <2>3 DEF Desks
        <5> HIDE DEF g
        <5> QED
          BY <3>1, <5>1, Zenon
      <4>3. no = FALSE
        BY <1>6
      <4> HIDE DEF g
      <4> QED
        BY <2>2, <4>1, <4>2, <4>3, Zenon
    <3> DEFINE i == Banners(d, no, a.result, u, o, x)
    <3> HIDE DEF x
    <3>3. FailsAs([[g EXCEPT !.view.unknown = u] EXCEPT !.view.saving = no, !.overlooked = o], a.result) = i
      <4> DEFINE result == a.result
      <4> HIDE DEF g, result
      <4>1. FailsAs([[[d EXCEPT !.creation = x] EXCEPT !.view.unknown = u] EXCEPT !.view.saving = no, !.overlooked = o],
                  result) = Banners(d, no, result, u, o, x)
        BY ZenonT(40), <1>3 DEF FailsAs, Banners, DeskWith, Desks, Views
      <4> USE DEF result
      <4> QED
        BY <2>3, <4>1, Zenon
    <3>4. BannersFit(d, rest, f, no, a.result, u, o, x, but, none)
      <4>1. ~no /\ a.result \in {"none", "load", "unknown", "refused"}
        BY <1>4, <1>6, <1>10
      <4> QED
        BY <1>1, <1>6, <2>1, <2>2, <2>4, <2>6, <3>1, <4>1 DEF BannersFit
    <3>5. DeskInv(i, rest, c, f, admitted, 0, none)
      BY <1>2, <1>3, <3>4, BannersKeep
    <3> QED
      BY <3>2, <3>3, <3>5 DEF none
  <2>7. CASE d.view.home /\ ~SameEpoch(d, rpc)
    <3>1. CreateAnswered(d, rpc, a) = [g EXCEPT !.view.unknown = u]
      <4>1. CreateAnswered(d, rpc, a) = [g EXCEPT !.view.unknown = g.creation # 0]
        BY <1>10, <2>7, Zenon DEF CreateAnswered
      <4> HIDE DEF g
      <4> QED
        BY <2>2, <4>1, Zenon
    <3> DEFINE i == Banners(d, d.view.saving, d.view.error, u, d.overlooked, x)
    <3> HIDE DEF x
    <3>2. [g EXCEPT !.view.unknown = u] = i
      <4> HIDE DEF g
      <4> QED
        BY ZenonT(40), <1>3, <2>3 DEF Banners, DeskWith, Desks, Views
    <3>3. BannersFit(d, rest, f, d.view.saving, d.view.error, u, d.overlooked, x, but, none)
      <4>1. ~d.view.saving \/ Updates(d, Open(d, rest))
        BY <1>2, <1>10, <2>7
      <4> QED
        BY <1>1, <1>5, <2>1, <2>2, <2>4, <2>7, <4>1 DEF BannersFit
    <3>4. DeskInv(i, rest, c, f, admitted, 0, none)
      BY <1>2, <1>3, <3>3, BannersKeep
    <3> QED
      BY <3>1, <3>2, <3>4 DEF none
  <2> QED
    BY <2>5, <2>6, <2>7
<1> QED
  BY <1>7, <1>9, <1>10

\* An answer or an announcement.
LEMMA WiresAre ==
  /\ \A x \in Wires : x \in AnswersOf \/ x = Changed
  /\ \A x \in AnswersOf : x \in Wires /\ x.call.kind # "changed"
  /\ Changed \in Wires /\ Changed.call.kind = "changed"
<1>1. Changed.call.kind = "changed"
  BY DEF Changed
<1>2. ASSUME NEW x \in AnswersOf PROVE x.call.kind # "changed"
  <2>1. x.call \in Requests
    <3> HIDE DEF Requests, Values
    <3> QED
      BY DEF AnswersOf
  <2> QED
    BY <2>1 DEF Requests, RequestKinds
<1> QED
  BY <1>1, <1>2 DEF Wires

LEMMA HeardIs ==
  ASSUME NEW w \in Seq(Wires)
  PROVE  HeardIn(w) \subseteq AnswersOf /\ \A i \in 1..Len(w) : w[i] \in Wires
<1>1. \A i \in 1..Len(w) : w[i] \in Wires
  OBVIOUS
<1> QED
  BY <1>1, WiresAre DEF HeardIn

LEMMA WireGrows ==
  ASSUME NEW w \in Seq(Wires), NEW x \in Wires
  PROVE  /\ Append(w, x) \in Seq(Wires)
         /\ x.call.kind # "changed" => HeardIn(Append(w, x)) = HeardIn(w) \union {x} /\ (ToldIn(Append(w, x)) <=> ToldIn(w))
         /\ x.call.kind = "changed" => HeardIn(Append(w, x)) = HeardIn(w) /\ ToldIn(Append(w, x))
<1> DEFINE v == Append(w, x)
<1>1. /\ v \in Seq(Wires) /\ Len(v) = Len(w) + 1 /\ Len(w) \in Nat /\ v[Len(w) + 1] = x
      /\ \A i \in 1..Len(w) : v[i] = w[i] /\ i \in 1..Len(v)
      /\ Len(w) + 1 \in 1..Len(v)
  OBVIOUS
<1>2. \A i \in 1..Len(v) : i = Len(w) + 1 \/ i \in 1..Len(w)
  BY <1>1
<1> HIDE DEF v
<1>3. ASSUME NEW y \in HeardIn(v) PROVE y \in HeardIn(w) \/ (y = x /\ x.call.kind # "changed")
  <2>1. PICK i \in 1..Len(v) : v[i].call.kind # "changed" /\ y = v[i]
    BY <1>3 DEF HeardIn
  <2> QED
    BY <1>1, <1>2, <2>1 DEF HeardIn
<1>4. ASSUME NEW y \in HeardIn(w) PROVE y \in HeardIn(v)
  <2>1. PICK i \in 1..Len(w) : w[i].call.kind # "changed" /\ y = w[i]
    BY <1>4 DEF HeardIn
  <2> QED
    BY <1>1, <2>1 DEF HeardIn
<1>5. x.call.kind # "changed" => x \in HeardIn(v)
  BY <1>1 DEF HeardIn
<1>6. ToldIn(v) <=> ToldIn(w) \/ x.call.kind = "changed"
  BY <1>1, <1>2 DEF ToldIn
<1> QED
  BY <1>1, <1>3, <1>4, <1>5, <1>6 DEF v

LEMMA WireShrinks ==
  ASSUME NEW w \in Seq(Wires), NEW i \in 1..Len(w)
  PROVE  LET v == SubSeq(w, 1, i - 1) \o SubSeq(w, i + 1, Len(w))
         IN /\ v \in Seq(Wires) /\ HeardIn(v) \subseteq HeardIn(w)
            /\ w[i].call.kind # "changed" =>
                 HeardIn(w) \subseteq HeardIn(v) \union {w[i]} /\ w[i] \in HeardIn(w) /\ (ToldIn(v) <=> ToldIn(w))
            /\ w[i].call.kind = "changed" => HeardIn(v) = HeardIn(w)
<1> DEFINE h == SubSeq(w, 1, i - 1)
           t == SubSeq(w, i + 1, Len(w))
           v == h \o t
<1>1. Len(w) \in Nat /\ i \in Nat /\ 1 <= i /\ i <= Len(w)
  OBVIOUS
<1>2. h \in Seq(Wires) /\ Len(h) = i - 1 /\ \A j \in 1..i - 1 : h[j] = w[j]
  BY <1>1, SubSeqProperties
<1>3. t \in Seq(Wires) /\ Len(t) = Len(w) - i /\ \A j \in 1..Len(w) - i : t[j] = w[i + j]
  <2>1. t \in Seq(Wires) /\ Len(t) = Len(w) - i
    BY <1>1, SubSeqProperties
  <2>2. \A j \in 1..Len(w) - i : t[j] = w[i + 1 + j - 1] /\ i + 1 + j - 1 = i + j
    <3> TAKE j \in 1..Len(w) - i
    <3>1. i + 1 \in Int /\ Len(w) \in Int /\ j \in 1..Len(t) /\ i + 1 + j - 1 = i + j
      BY <1>1, <2>1
    <3>2. t[j] = w[i + 1 + j - 1]
      BY <1>1, <2>1, <3>1
    <3> QED
      BY <3>1, <3>2
  <2> QED
    BY <2>1, <2>2
<1> HIDE DEF h, t
<1>4. /\ v \in Seq(Wires) /\ Len(v) = Len(w) - 1
      /\ \A j \in 1..i - 1 : v[j] = w[j] /\ j \in 1..Len(v)
      /\ \A j \in i..Len(w) - 1 : v[j] = w[j + 1] /\ j \in 1..Len(v)
  <2>0. v \in Seq(Wires) /\ Len(v) = Len(h) + Len(t)
    BY <1>2, <1>3, ConcatProperties
  <2>1. v \in Seq(Wires) /\ Len(v) = Len(w) - 1
    <3> HIDE DEF v
    <3> QED
      BY <1>1, <1>2, <1>3, <2>0
  <2>2. ASSUME NEW j \in 1..i - 1 PROVE v[j] = w[j] /\ j \in 1..Len(v)
    <3>1. v[j] = h[j]
      BY <1>1, <1>2, <1>3, <2>2, ConcatProperties
    <3> QED
      BY <1>1, <1>2, <2>1, <3>1
  <2>3. ASSUME NEW j \in i..Len(w) - 1 PROVE v[j] = w[j + 1] /\ j \in 1..Len(v)
    <3>1. v[j] = t[j - (i - 1)]
      BY <1>1, <1>2, <1>3, <2>3, ConcatProperties
    <3>2. j - (i - 1) \in 1..Len(w) - i /\ i + (j - (i - 1)) = j + 1
      BY <1>1
    <3>3. t[j - (i - 1)] = w[j + 1]
      BY <1>3, <3>2
    <3>4. j \in 1..Len(v)
      <4> HIDE DEF v
      <4> QED
        BY <1>1, <2>1
    <3> QED
      BY <3>1, <3>3, <3>4
  <2> QED
    BY <2>1, <2>2, <2>3
<1> HIDE DEF v
<1>5. ASSUME NEW j \in 1..Len(v) PROVE \E k \in 1..Len(w) : v[j] = w[k]
  <2>1. j \in 1..i - 1 \/ j \in i..Len(w) - 1
    BY <1>1, <1>4
  <2>2. j \in 1..Len(w) /\ (j \in i..Len(w) - 1 => j + 1 \in 1..Len(w))
    BY <1>1, <1>4
  <2> QED
    BY <1>4, <2>1, <2>2
<1>6. ASSUME NEW k \in 1..Len(w), k # i PROVE \E j \in 1..Len(v) : v[j] = w[k]
  <2>1. CASE k < i
    <3>1. k \in 1..i - 1
      BY <1>1, <2>1
    <3> QED
      BY <1>4, <3>1
  <2>2. CASE k > i
    <3>1. k - 1 \in i..Len(w) - 1 /\ (k - 1) + 1 = k
      BY <1>1, <2>2
    <3> QED
      BY <1>4, <3>1
  <2> QED
    BY <1>1, <1>6, <2>1, <2>2
<1>7. HeardIn(v) \subseteq HeardIn(w)
  BY <1>5 DEF HeardIn
<1>8. \A y \in HeardIn(w) : y \in HeardIn(v) \/ y = w[i]
  BY <1>6 DEF HeardIn
<1>9. w[i].call.kind = "changed" => w[i] \notin HeardIn(w)
  BY DEF HeardIn
<1>10. w[i].call.kind # "changed" => w[i] \in HeardIn(w) /\ (ToldIn(v) <=> ToldIn(w))
  <2>1. w[i].call.kind # "changed" => w[i] \in HeardIn(w)
    BY DEF HeardIn
  <2>2. ToldIn(v) => ToldIn(w)
    <3>1. SUFFICES ASSUME NEW j \in 1..Len(v), v[j].call.kind = "changed"
                   PROVE  ToldIn(w)
      BY DEF ToldIn
    <3> QED
      BY <1>5, <3>1 DEF ToldIn
  <2>3. w[i].call.kind # "changed" /\ ToldIn(w) => ToldIn(v)
    <3>1. SUFFICES ASSUME w[i].call.kind # "changed", NEW k \in 1..Len(w), w[k].call.kind = "changed"
                   PROVE  ToldIn(v)
      BY DEF ToldIn
    <3>2. k # i
      BY <3>1
    <3>3. PICK j \in 1..Len(v) : v[j] = w[k]
      BY <1>6, <3>2
    <3> QED
      BY <3>1, <3>3 DEF ToldIn
  <2> QED
    BY <2>1, <2>2, <2>3
<1> QED
  BY <1>4, <1>7, <1>8, <1>9, <1>10 DEF v, h, t

\* The Core reads the first request.
LEMMA TailIs ==
  ASSUME NEW d \in Desks, NEW e \in Desks, d.calls # <<>>, NEW late \in Requests, late.late,
         e.calls \in {Tail(d.calls), Append(Tail(d.calls), late)}
  PROVE  /\ Head(d.calls) \in Requests /\ Head(d.calls) = d.calls[1] /\ 1 \in 1..Len(d.calls)
         /\ Unread(e) \subseteq Unread(d) /\ Unread(d) \subseteq Unread(e) \union {Head(d.calls)}
         /\ Head(d.calls).late => Unread(e) = Unread(d)
         /\ ~Head(d.calls).late => Head(d.calls) \in Unread(d)
         /\ \A i \in 1..Len(e.calls) : e.calls[i] = late \/ \E j \in 1..Len(d.calls) : e.calls[i] = d.calls[j]
<1> DEFINE s == d.calls
           t == Tail(s)
<1> HIDE DEF Requests
<1>1. s \in Seq(Requests) /\ Len(s) \in Nat /\ Len(s) > 0 /\ s # <<>>
  <2>1. s \in Seq(Requests)
    BY DeskTypes
  <2> QED
    BY <2>1
<1>2. /\ Head(s) = s[1] /\ s[1] \in Requests /\ t \in Seq(Requests) /\ Len(t) = Len(s) - 1
      /\ \A j \in 1..Len(s) - 1 : t[j] = s[j + 1]
  <2> HIDE DEF s
  <2> QED
    BY <1>1
<1> HIDE DEF t
<1>3. e.calls = t \/ e.calls = Append(t, late)
  BY DEF t
<1>4. /\ \A j \in 1..Len(t) : e.calls[j] = t[j] /\ j \in 1..Len(e.calls)
      /\ \A i \in 1..Len(e.calls) : i \in 1..Len(t) \/ e.calls[i] = late
  <2>1. CASE e.calls = t
    BY <2>1
  <2>2. CASE e.calls = Append(t, late)
    BY <1>2, <2>2
  <2> QED
    BY <1>3, <2>1, <2>2
<1>5. ASSUME NEW i \in 1..Len(e.calls) PROVE e.calls[i] = late \/ \E j \in 1..Len(s) : e.calls[i] = s[j]
  <2>1. i \in 1..Len(t) => e.calls[i] = s[i + 1] /\ i + 1 \in 1..Len(s)
    BY <1>1, <1>2, <1>4
  <2> QED
    BY <1>4, <2>1
<1>6. ASSUME NEW j \in 1..Len(s), j # 1 PROVE \E i \in 1..Len(e.calls) : e.calls[i] = s[j]
  <2>1. j - 1 \in 1..Len(t) /\ (j - 1) + 1 = j /\ j - 1 \in 1..Len(s) - 1
    BY <1>1, <1>2, <1>6
  <2>2. e.calls[j - 1] = s[j] /\ j - 1 \in 1..Len(e.calls)
    BY <1>2, <1>4, <2>1
  <2> QED
    BY <2>2
<1>7. 1 \in 1..Len(s)
  BY <1>1
<1>8. Unread(e) \subseteq Unread(d)
  BY <1>5 DEF Unread
<1>9. \A x \in Unread(d) : x \in Unread(e) \/ (x = s[1] /\ ~s[1].late)
  <2>1. SUFFICES ASSUME NEW x \in Unread(d) PROVE x \in Unread(e) \/ (x = s[1] /\ ~s[1].late)
    OBVIOUS
  <2>2. PICK j \in 1..Len(s) : ~s[j].late /\ x = s[j]
    BY DEF Unread
  <2> QED
    BY <1>6, <2>2 DEF Unread
<1>10. ~s[1].late => s[1] \in Unread(d)
  BY <1>7 DEF Unread
<1> QED
  BY <1>2, <1>5, <1>7, <1>8, <1>9, <1>10

\* The Core reads a request, or others change what it has.
LEMMA ReadsKeep ==
  ASSUME NEW d, NEW e \in Desks, NEW heard, NEW more, NEW c, NEW c2, NEW f, NEW f2, NEW admitted, NEW told2, NEW a,
         DeskInv(d, heard, c, f, admitted, 0, {}), Grows(c, c2, f, f2),
         e.view = d.view, e.refreshing = d.refreshing, e.creation = d.creation, e.savers = d.savers,
         e.overlooked = d.overlooked,
         \A i \in 1..Len(e.calls) : CallOf(e.calls[i], c, f),
         \/ more = heard /\ Unread(e) = Unread(d)
         \/ /\ more = heard \union {a} /\ AnsweredNow(a, d, c2, f2)
            /\ Unread(e) \subseteq Unread(d) /\ Unread(d) \subseteq Unread(e) \union {a.call},
         admitted \/ c2 # c => told2
  PROVE  DeskInv(e, more, c2, f2, told2, 0, {})
<1>1. /\ d \in Desks /\ heard \subseteq AnswersOf /\ c \in RoomCores /\ f \in [Ids -> Fates]
      /\ KnownOf(d, c, f)
      /\ \A b \in heard : AnswerOf(b, c, f)
      /\ AgesOf(d, Open(d, heard), f) /\ WorkOf(d, Open(d, heard), 0) /\ AsideOf(d)
      /\ BusyOf(d, Open(d, heard)) /\ CatalogOf(d, heard, c, admitted) /\ ChannelOf(d, heard, c, admitted)
  BY DeskParts
<1>2. /\ c2 \in RoomCores /\ f2 \in [Ids -> Fates] /\ c.revision <= c2.revision /\ c.ids \subseteq c2.ids
      /\ \A x \in Ids : c.rooms[x] <= c2.rooms[x]
      /\ \A x \in c2.ids \ {Room} : f2[x] \notin {"none", "open"}
      /\ \A x \in Ids : (f2[x] = "open" => f[x] = "open") /\ (f[x] # "none" => f2[x] # "none")
  BY DEF Grows
<1>3. /\ c.revision \in Int /\ c2.revision \in Int /\ c.ids \subseteq Ids /\ c2.ids \subseteq Ids
      /\ \A x \in Ids : c.rooms[x] \in Int /\ c2.rooms[x] \in Int
  BY <1>1, <1>2 DEF RoomCores
<1>4. /\ heard \subseteq more /\ more \subseteq AnswersOf /\ Open(e, more) = Open(d, heard)
      /\ Unread(e) \subseteq Unread(d)
      /\ \A x \in Unread(d) : x \in Unread(e) \/ (x = a.call /\ a \in more /\ AnsweredNow(a, d, c2, f2))
      /\ \A b \in more : b \in heard \/ (b = a /\ AnswerOf(a, c2, f2))
  BY <1>1 DEF Open, AnsweredNow
<1>5. KnownOf(e, c2, f2)
  <2>1. /\ d.creation \in Ids \union {0} /\ d.view.channel \in Ids \union {0} /\ d.view.catalog.revision \in Int
        /\ d.view.shown \in Int
    BY <1>1, DeskTypes
  <2>2. \A x \in Ids \ {Room} : f2[x] = "open" => e.creation = x
    BY <1>1, <1>2 DEF KnownOf
  <2>3. e.creation # 0 => e.creation # Room /\ f2[e.creation] # "none"
    BY <1>1, <1>2, <2>1 DEF KnownOf
  <2>4. e.view.catalog.ids \subseteq c2.ids /\ e.view.channel \in c2.ids \union {0}
    BY <1>1, <1>2 DEF KnownOf
  <2>5. e.view.catalog.revision <= c2.revision
    BY <1>1, <1>2, <1>3, <2>1 DEF KnownOf
  <2>6. e.view.channel # 0 => e.view.shown <= c2.rooms[e.view.channel]
    BY <1>1, <1>2, <1>3, <2>1 DEF KnownOf
  <2> QED
    BY <1>2, <2>2, <2>3, <2>4, <2>5, <2>6 DEF KnownOf
<1>6. ASSUME NEW rpc, CallOf(rpc, c, f) PROVE CallOf(rpc, c2, f2)
  BY <1>2, <1>6 DEF CallOf
<1>7. \A b \in more : AnswerOf(b, c2, f2)
  <2>1. SUFFICES ASSUME NEW b \in heard PROVE AnswerOf(b, c2, f2)
    BY <1>4
  <2>2. AnswerOf(b, c, f) /\ b.call \in Requests /\ b.value \in Values
    <3>1. b \in AnswersOf
      BY <1>1
    <3> HIDE DEF Requests, Values
    <3> QED
      BY <1>1, <3>1 DEF AnswersOf
  <2>3. b.call.channel \in Ids \union {0} /\ b.value.room \in Int /\ b.value.revision \in Int
    BY <2>2 DEF Requests, Values
  <2>4. b.value.ids \subseteq c2.ids /\ b.value.revision <= c2.revision
    BY <1>2, <1>3, <2>2, <2>3 DEF AnswerOf
  <2>5. b.call.channel # 0 => b.value.room <= c2.rooms[b.call.channel]
    <3>1. SUFFICES ASSUME b.call.channel # 0 PROVE b.value.room <= c2.rooms[b.call.channel]
      OBVIOUS
    <3>2. b.value.room <= c.rooms[b.call.channel] /\ b.call.channel \in Ids
      BY <2>2, <2>3, <3>1 DEF AnswerOf
    <3> QED
      BY <1>2, <1>3, <2>3, <3>2
  <2>6. CallOf(b.call, c2, f2)
    BY <1>6, <2>2 DEF AnswerOf
  <2>7. b.call.kind = "create" /\ b.result # "unknown" => f2[b.call.channel] # "open"
    BY <1>2, <2>2, <2>6 DEF AnswerOf, CallOf
  <2> QED
    BY <2>4, <2>5, <2>6, <2>7 DEF AnswerOf
<1>8. AgesOf(e, Open(e, more), f2)
  <2>1. ASSUME NEW x \in Open(d, heard) PROVE Aged(e, x, f2)
    BY <1>1, <1>2 DEF AgesOf, Aged, CurrentFor, SameEpoch
  <2> QED
    BY <1>1, <1>4, <2>1 DEF AgesOf
<1>9. WorkOf(e, Open(e, more), 0) /\ AsideOf(e) /\ BusyOf(e, Open(e, more))
  BY <1>1, <1>4 DEF WorkOf, AsideOf, BusyOf, Creates, Updates
<1>10. Admits(d, admitted) \/ c2 # c => Admits(e, told2)
  BY DEF Admits, Says
<1>11. CatalogOf(e, more, c2, told2)
  <2>1. CASE c2 # c
    BY <1>10, <2>1 DEF CatalogOf
  <2>2. CASE c2 = c
    <3>1. ASSUME NEW x \in Unread(d), x.kind = "list", x.epoch = d.view.epoch
          PROVE  \/ x \in Unread(e)
                 \/ a \in more /\ a.call.kind = "list" /\ a.call.epoch = e.view.epoch
                    /\ (a.result # "ok" \/ a.value.revision = c2.revision)
      BY <1>4, <3>1 DEF AnsweredNow
    <3> QED
      BY <1>1, <1>4, <1>10, <2>2, <3>1 DEF CatalogOf
  <2> QED
    BY <2>1, <2>2
<1>12. ChannelOf(e, more, c2, told2)
  <2>1. CASE c2 # c
    BY <1>10, <2>1 DEF ChannelOf
  <2>2. CASE c2 = c
    <3>1. ASSUME NEW x \in Unread(d), x.kind \in {"select", "snapshot"}, CurrentFor(d, x), d.view.channel # 0
          PROVE  \/ x \in Unread(e)
                 \/ a \in more /\ a.call.kind \in {"select", "snapshot"} /\ CurrentFor(e, a.call)
                    /\ (a.result # "ok" \/ a.value.room = c2.rooms[e.view.channel])
      <4>1. x.channel = d.view.channel
        BY <1>1, <3>1 DEF AgesOf, Aged, Open
      <4> QED
        BY <1>4, <3>1, <4>1 DEF AnsweredNow, CurrentFor, SameEpoch
    <3>2. \A x : CurrentFor(e, x) <=> CurrentFor(d, x)
      BY DEF CurrentFor, SameEpoch
    <3> QED
      BY <1>1, <1>4, <1>10, <2>2, <3>1, <3>2 DEF ChannelOf
  <2> QED
    BY <2>1, <2>2
<1>13. \A i \in 1..Len(e.calls) : CallOf(e.calls[i], c2, f2)
  BY <1>6
<1> QED
  BY <1>2, <1>4, <1>5, <1>7, <1>8, <1>9, <1>11, <1>12, <1>13 DEF DeskInv

\* The answer of the Core, and the announcement of a change.
LEMMA AnswersAre ==
  ASSUME wire \in Seq(Wires), NEW rpc, NEW result, NEW c, NEW changes \in BOOLEAN, NEW slow,
         AnswerTo(rpc, result, c, slow) \in AnswersOf, Answers(rpc, result, c, changes, slow)
  PROVE  /\ wire' \in Seq(Wires)
         /\ rpc.late => HeardIn(wire') = HeardIn(wire)
         /\ ~rpc.late => HeardIn(wire') = HeardIn(wire) \union {AnswerTo(rpc, result, c, slow)}
         /\ ToldIn(wire) \/ changes => ToldIn(wire')
<1> DEFINE a == AnswerTo(rpc, result, c, slow)
           admitted == IF rpc.late THEN <<>> ELSE <<a>>
           ends == IF changes THEN <<Changed>> ELSE <<>>
           mid == IF rpc.late THEN wire ELSE Append(wire, a)
           end == IF changes THEN Append(mid, Changed) ELSE mid
<1>1. a \in Wires /\ a.call.kind # "changed" /\ Changed \in Wires /\ Changed.call.kind = "changed"
  BY WiresAre
<1>2. wire' = wire \o admitted \o ends
  BY DEF Answers, AnswerTo
<1> HIDE DEF a
<1>3. mid \in Seq(Wires)
  BY <1>1, WireGrows
<1>4. wire \o admitted = mid
  BY <1>1
<1> HIDE DEF mid, admitted
<1>5. mid \o ends = end
  BY <1>1, <1>3
<1>6. wire' = end
  BY <1>2, <1>4, <1>5
<1>7. end \in Seq(Wires) /\ HeardIn(end) = HeardIn(mid) /\ (ToldIn(mid) \/ changes => ToldIn(end))
  <2>1. CASE changes
    <3>1. end = Append(mid, Changed)
      BY <2>1
    <3> HIDE DEF end
    <3> QED
      BY <1>1, <1>3, <3>1, WireGrows
  <2>2. CASE ~changes
    BY <1>3, <2>2
  <2> QED
    BY <2>1, <2>2
<1>8. /\ rpc.late => HeardIn(mid) = HeardIn(wire)
      /\ ~rpc.late => HeardIn(mid) = HeardIn(wire) \union {a}
      /\ ToldIn(wire) => ToldIn(mid)
  <2>1. CASE rpc.late
    BY <2>1 DEF mid
  <2>2. CASE ~rpc.late
    <3>1. mid = Append(wire, a)
      BY <2>2 DEF mid
    <3> QED
      BY <1>1, <2>2, <3>1, WireGrows
  <2> QED
    BY <2>1, <2>2
<1> HIDE DEF end
<1> QED
  BY <1>6, <1>7, <1>8 DEF a

LEMMA DeskIs ==
  /\ Desk.view = view /\ Desk.refreshing = refreshing /\ Desk.creation = creation /\ Desk.savers = savers
  /\ Desk.calls = calls /\ Desk.overlooked = overlooked
BY DEF Desk

\* A change of one channel.
LEMMA CoreGrows ==
  ASSUME NEW c \in RoomCores, NEW x \in Ids, NEW ids \in SUBSET Ids
  PROVE  LET e == ChangedCore(c, x, ids)
         IN /\ e \in RoomCores /\ e.revision = c.revision + 1 /\ e.ids = ids /\ e # c
            /\ \A y \in Ids : c.rooms[y] <= e.rooms[y]
            /\ e.revision \in Nat /\ c.revision \in Nat
<1> DEFINE rooms == [c.rooms EXCEPT ![x] = c.rooms[x] + 1]
           e == ChangedCore(c, x, ids)
<1>1. c.rooms \in [Ids -> Nat] /\ c.revision \in Nat
  BY DEF RoomCores
<1>2. rooms \in [Ids -> Nat] /\ \A y \in Ids : rooms[y] = IF y = x THEN c.rooms[x] + 1 ELSE c.rooms[y]
  BY <1>1
<1>3. \A y \in Ids : c.rooms[y] <= rooms[y]
  <2> HIDE DEF rooms
  <2> QED
    BY <1>1, <1>2
<1>4. e = [c EXCEPT !.revision = c.revision + 1, !.ids = ids, !.rooms = rooms]
  BY DEF RoomCores, ChangedCore
<1> HIDE DEF rooms, e
<1>5. e \in RoomCores /\ e.revision = c.revision + 1 /\ e.ids = ids /\ e.rooms = rooms
  <2>1. rooms \in [Ids -> Nat] /\ c.revision + 1 \in Nat
    BY <1>1, <1>2
  <2> QED
    BY <1>4, <2>1 DEF RoomCores
<1>6. e # c
  BY <1>1, <1>5
<1> QED
  BY <1>1, <1>3, <1>5, <1>6 DEF e

\* What the Core does for a request.
LEMMA DoesGrows ==
  ASSUME NEW d, localCore \in RoomCores, fates \in [Ids -> Fates], KnownOf(d, localCore, fates),
         NEW rpc \in Requests, CallOf(rpc, localCore, fates), NEW answered, NEW slow, Does(rpc, answered, slow)
  PROVE  /\ Grows(localCore, localCore', fates, fates')
         /\ rpc.kind = "create" => fates'[rpc.channel] # "open"
<1> DEFINE fate == IF Good(rpc) THEN "created" ELSE "refused"
<1>1. /\ localCore' = IF Good(rpc) /\ Writing(rpc) THEN Written(rpc) ELSE localCore
      /\ fates' = Decide(rpc, fate)
  BY DEF Does
<1>2. fate \in Fates \ {"none", "open"}
  BY DEF Fates
<1> HIDE DEF fate
<1>3. localCore.ids \subseteq Ids /\ localCore.revision \in Nat /\ localCore.rooms \in [Ids -> Nat]
  BY DEF RoomCores
<1>4. /\ rpc.kind = "create" => rpc.channel \in Ids \ {Room} /\ fates' = [fates EXCEPT ![rpc.channel] = fate]
      /\ rpc.kind # "create" => fates' = fates
  BY <1>1 DEF Decide, CallOf
<1>5. fates' \in [Ids -> Fates] /\ (rpc.kind = "create" => fates'[rpc.channel] = fate)
      /\ \A x \in Ids : fates'[x] = fates[x] \/ (rpc.kind = "create" /\ fates'[x] = fate)
  <2>1. CASE rpc.kind = "create"
    BY <1>2, <1>4, <2>1
  <2>2. CASE rpc.kind # "create"
    BY <1>4, <2>2
  <2> QED
    BY <2>1, <2>2
<1>6. \A x \in localCore.ids \ {Room} : fates'[x] \notin {"none", "open"}
  BY <1>2, <1>3, <1>5 DEF KnownOf
<1>7. \A x \in Ids : (fates'[x] = "open" => fates[x] = "open") /\ (fates[x] # "none" => fates'[x] # "none")
  BY <1>2, <1>5
<1>8. CASE Good(rpc) /\ Writing(rpc)
  <2>1. rpc.channel \in Ids /\ (rpc.kind # "create" => rpc.channel \in localCore.ids)
    BY <1>3, <1>8 DEF Writing, CallOf
  <2> DEFINE ids == localCore.ids \union {rpc.channel}
  <2>2. localCore' = ChangedCore(localCore, rpc.channel, ids)
    BY <1>1, <1>8 DEF Written, ChangedCore
  <2>3. ids \in SUBSET Ids
    BY <1>3, <2>1
  <2>4. localCore.ids \subseteq ids /\ \A x \in ids \ {Room} : x \in localCore.ids \ {Room} \/ x = rpc.channel
    OBVIOUS
  <2> HIDE DEF ids
  <2>5. /\ localCore' \in RoomCores /\ localCore'.revision = localCore.revision + 1 /\ localCore'.ids = ids
        /\ \A y \in Ids : localCore.rooms[y] <= localCore'.rooms[y]
    BY <2>1, <2>2, <2>3, CoreGrows
  <2>6. \A x \in localCore'.ids \ {Room} : fates'[x] \notin {"none", "open"}
    <3>1. rpc.kind = "create" => fates'[rpc.channel] \notin {"none", "open"}
      BY <1>2, <1>5
    <3>2. rpc.kind # "create" => rpc.channel \in localCore.ids
      BY <2>1
    <3> QED
      BY <1>6, <2>4, <2>5, <3>1, <3>2
  <2>7. localCore.revision <= localCore'.revision
    BY <1>3, <2>5
  <2> QED
    BY <1>2, <1>5, <1>7, <2>4, <2>5, <2>6, <2>7 DEF Grows
<1>9. CASE ~(Good(rpc) /\ Writing(rpc))
  <2>1. localCore' = localCore
    BY <1>1, <1>9
  <2>2. localCore.revision <= localCore.revision /\ \A x \in Ids : localCore.rooms[x] <= localCore.rooms[x]
    BY <1>3
  <2> QED
    BY <1>2, <1>5, <1>6, <1>7, <2>1, <2>2 DEF Grows
<1> QED
  BY <1>8, <1>9

\* An answer of the Core says what the Core has.
LEMMA AnswerIs ==
  ASSUME NEW d, NEW rpc \in Requests, NEW result \in {"ok", "refused", "unknown"}, NEW slow \in BOOLEAN,
         NEW c \in RoomCores, NEW f, CallOf(rpc, c, f), rpc.kind = "create" /\ result # "unknown" => f[rpc.channel] # "open",
         rpc \in Unread(d)
  PROVE  /\ AnswerTo(rpc, result, c, slow) \in AnswersOf /\ AnswerTo(rpc, result, c, slow).call = rpc
         /\ AnsweredNow(AnswerTo(rpc, result, c, slow), d, c, f)
<1> DEFINE v == Value(c, rpc.channel)
           a == AnswerTo(rpc, result, c, slow)
<1>1. rpc.channel \in Ids \union {0} /\ c.revision \in Nat /\ c.ids \in SUBSET Ids /\ c.rooms \in [Ids -> Nat]
  BY DEF Requests, RoomCores
<1>2. /\ v \in Values /\ v.revision = c.revision /\ v.ids = c.ids
      /\ (rpc.channel # 0 => v.room = c.rooms[rpc.channel])
  BY <1>1 DEF Value, Values
<1> HIDE DEF v
<1>3. a \in AnswersOf /\ a.call = rpc /\ a.result = result /\ a.value = v
  <2>1. a = [call |-> rpc, result |-> result, value |-> v, slow |-> slow]
    BY DEF AnswerTo, v
  <2> HIDE DEF a, Requests, Values
  <2> QED
    BY <1>2, <2>1 DEF AnswersOf
<1> HIDE DEF a
<1>4. c.revision <= c.revision /\ (rpc.channel # 0 => c.rooms[rpc.channel] <= c.rooms[rpc.channel])
  BY <1>1
<1>5. AnswerOf(a, c, f)
  BY <1>2, <1>3, <1>4 DEF AnswerOf
<1> QED
  BY <1>2, <1>3, <1>5 DEF AnsweredNow, a

LEMMA CoreReadsKeep == LocalInv /\ CoreReads => LocalInv'
<1> SUFFICES ASSUME LocalInv, CoreReads PROVE LocalInv'
  OBVIOUS
<1> DEFINE rpc == Head(calls)
           admitted == ToldIn(wire)
           heard == HeardIn(wire)
<1>1. wire \in Seq(Wires) /\ DeskInv(Desk, heard, localCore, fates, admitted, 0, {})
  BY DEF LocalInv
<1>2. /\ Desk \in Desks /\ localCore \in RoomCores /\ fates \in [Ids -> Fates]
      /\ KnownOf(Desk, localCore, fates)
      /\ \A i \in 1..Len(calls) : CallOf(calls[i], localCore, fates)
      /\ calls # <<>>
      /\ view' = view /\ refreshing' = refreshing /\ creation' = creation /\ savers' = savers /\ overlooked' = overlooked
  BY <1>1, DeskParts, DeskIs DEF CoreReads
<1>3. /\ Desk'.view = Desk.view /\ Desk'.refreshing = Desk.refreshing /\ Desk'.creation = Desk.creation
      /\ Desk'.savers = Desk.savers /\ Desk'.overlooked = Desk.overlooked /\ Desk'.calls = calls'
  BY <1>2 DEF Desk
<1>4. calls \in Seq(Requests) /\ rpc = calls[1] /\ rpc \in Requests /\ 1 \in 1..Len(calls) /\ Tail(calls) \in Seq(Requests)
  <2>1. calls \in Seq(Requests)
    BY <1>2, DeskTypes, DeskIs
  <2> HIDE DEF Requests
  <2> QED
    BY <1>2, <2>1
<1>5. CallOf(rpc, localCore, fates)
  BY <1>2, <1>4
<1>6. PICK late : late \in Requests /\ late.late /\ late = [rpc EXCEPT !.late = TRUE] /\ CallOf(late, localCore, fates)
  <2>1. PICK yes \in {TRUE} : [rpc EXCEPT !.late = TRUE] = [rpc EXCEPT !.late = yes]
    OBVIOUS
  <2> DEFINE late == [rpc EXCEPT !.late = yes]
  <2>2. late \in Requests /\ late.late /\ late.kind = rpc.kind /\ late.channel = rpc.channel
    BY <1>4, <2>1 DEF Requests
  <2>3. CallOf(late, localCore, fates)
    BY <1>5, <2>2 DEF CallOf
  <2> QED
    BY <2>1, <2>2, <2>3
<1>7. ASSUME calls' \in {Tail(calls), Append(Tail(calls), late)}
      PROVE  /\ Desk' \in Desks
             /\ \A i \in 1..Len(Desk'.calls) : CallOf(Desk'.calls[i], localCore, fates)
             /\ rpc.late => Unread(Desk') = Unread(Desk)
             /\ ~rpc.late => /\ rpc \in Unread(Desk) /\ Unread(Desk') \subseteq Unread(Desk)
                             /\ Unread(Desk) \subseteq Unread(Desk') \union {rpc}
  <2>1. calls' \in Seq(Requests)
    <3> HIDE DEF Requests
    <3> QED
      BY <1>4, <1>6, <1>7
  <2>2. Desk' \in Desks
    <3>1. Desk' = [view |-> view, refreshing |-> refreshing, creation |-> creation, savers |-> savers,
                   calls |-> calls', overlooked |-> overlooked]
      BY <1>2 DEF Desk
    <3>2. /\ view \in Views /\ refreshing \in [n : Nat, dirty : BOOLEAN, last : Nat] /\ creation \in Ids \union {0}
          /\ savers \subseteq [n : Nat, epoch : Nat] /\ overlooked \in BOOLEAN
      BY <1>2, DeskTypes, DeskIs
    <3> HIDE DEF Views, Requests
    <3> QED
      BY <2>1, <3>1, <3>2 DEF Desks
  <2> DEFINE e == Desk'
  <2>3. e \in Desks /\ e.calls \in {Tail(Desk.calls), Append(Tail(Desk.calls), late)} /\ Desk.calls = calls
        /\ Desk.calls # <<>> /\ Desk \in Desks
    BY <1>2, <1>3, <1>7, <2>2, DeskIs
  <2> HIDE DEF e
  <2>4. /\ Unread(e) \subseteq Unread(Desk) /\ Unread(Desk) \subseteq Unread(e) \union {rpc}
        /\ rpc.late => Unread(e) = Unread(Desk)
        /\ ~rpc.late => rpc \in Unread(Desk)
        /\ \A i \in 1..Len(e.calls) : e.calls[i] = late \/ \E j \in 1..Len(calls) : e.calls[i] = calls[j]
    <3>1. /\ Unread(e) \subseteq Unread(Desk) /\ Unread(Desk) \subseteq Unread(e) \union {Head(Desk.calls)}
          /\ Head(Desk.calls).late => Unread(e) = Unread(Desk)
          /\ ~Head(Desk.calls).late => Head(Desk.calls) \in Unread(Desk)
          /\ \A i \in 1..Len(e.calls) : e.calls[i] = late \/ \E j \in 1..Len(Desk.calls) : e.calls[i] = Desk.calls[j]
      <4>1. late \in Requests /\ late.late
        BY <1>6
      <4> DEFINE d == Desk
      <4>2. d \in Desks /\ d.calls # <<>> /\ e \in Desks /\ e.calls \in {Tail(d.calls), Append(Tail(d.calls), late)}
        BY <2>3
      <4> HIDE DEF d
      <4>3. /\ Unread(e) \subseteq Unread(d) /\ Unread(d) \subseteq Unread(e) \union {Head(d.calls)}
            /\ Head(d.calls).late => Unread(e) = Unread(d)
            /\ ~Head(d.calls).late => Head(d.calls) \in Unread(d)
            /\ \A i \in 1..Len(e.calls) : e.calls[i] = late \/ \E j \in 1..Len(d.calls) : e.calls[i] = d.calls[j]
        BY <4>1, <4>2, TailIs
      <4> QED
        BY <4>3 DEF d
    <3> QED
      BY <2>3, <3>1, Zenon
  <2>5. \A i \in 1..Len(e.calls) : CallOf(e.calls[i], localCore, fates)
    BY <1>2, <1>6, <2>4
  <2> QED
    BY <2>2, <2>4, <2>5 DEF e
<1>8. ASSUME NEW answered \in BOOLEAN, NEW slow \in BOOLEAN, Does(rpc, answered, slow), calls' = Tail(calls)
      PROVE  LocalInv'
  <2>1. Grows(localCore, localCore', fates, fates') /\ (rpc.kind = "create" => fates'[rpc.channel] # "open")
    BY <1>2, <1>4, <1>5, <1>8, DoesGrows
  <2> DEFINE result == IF ~answered THEN "unknown" ELSE IF Good(rpc) THEN "ok" ELSE "refused"
  <2>2. PICK changes \in BOOLEAN : changes = (localCore' # localCore)
    BY Zenon
  <2>3. Answers(rpc, result, localCore', changes, slow)
    <3>1. Answers(rpc, result, localCore', localCore' # localCore, slow)
      BY <1>8 DEF Does
    <3> QED
      BY <2>2, <3>1, Zenon
  <2>4. result \in {"ok", "refused", "unknown"}
    OBVIOUS
  <2> HIDE DEF result
  <2> DEFINE a == AnswerTo(rpc, result, localCore', slow)
             e == Desk'
             c2 == localCore'
             f2 == fates'
  <2>5. /\ e \in Desks /\ \A i \in 1..Len(e.calls) : CallOf(e.calls[i], localCore, fates)
        /\ rpc.late => Unread(e) = Unread(Desk)
        /\ ~rpc.late => /\ rpc \in Unread(Desk) /\ Unread(e) \subseteq Unread(Desk)
                        /\ Unread(Desk) \subseteq Unread(e) \union {rpc}
    BY <1>7, <1>8
  <2>6. CallOf(rpc, c2, f2) /\ c2 \in RoomCores
    BY <1>5, <2>1 DEF Grows, CallOf
  <2>7. /\ e.view = Desk.view /\ e.refreshing = Desk.refreshing /\ e.creation = Desk.creation
        /\ e.savers = Desk.savers /\ e.overlooked = Desk.overlooked
    BY <1>3
  <2>8. a \in AnswersOf
    <3> DEFINE v == Value(localCore', rpc.channel)
    <3>1. v \in Values
      BY <1>4, <2>6 DEF Value, Values, RoomCores, Requests
    <3>2. a = [call |-> rpc, result |-> result, value |-> v, slow |-> slow]
      BY DEF AnswerTo
    <3> HIDE DEF v, a, Requests, Values
    <3> QED
      BY <1>4, <1>8, <2>4, <3>1, <3>2 DEF AnswersOf
  <2>9. /\ wire' \in Seq(Wires)
        /\ rpc.late => HeardIn(wire') = heard
        /\ ~rpc.late => HeardIn(wire') = heard \union {a}
        /\ admitted \/ changes => ToldIn(wire')
    BY <1>1, <2>3, <2>8, AnswersAre
  <2>10. admitted \/ c2 # localCore => ToldIn(wire')
    BY <2>2, <2>9
  <2>11. ~rpc.late => AnsweredNow(a, Desk, c2, f2) /\ a.call = rpc
    BY <1>4, <1>8, <2>1, <2>4, <2>5, <2>6, AnswerIs
  <2> DEFINE more == HeardIn(wire')
             told2 == ToldIn(wire')
  <2>12. Grows(localCore, c2, fates, f2)
    BY <2>1
  <2>13. \/ more = heard /\ Unread(e) = Unread(Desk)
         \/ /\ more = heard \union {a} /\ AnsweredNow(a, Desk, c2, f2)
            /\ Unread(e) \subseteq Unread(Desk) /\ Unread(Desk) \subseteq Unread(e) \union {a.call}
    BY <2>5, <2>9, <2>11
  <2>14. admitted \/ c2 # localCore => told2
    BY <2>10
  <2>15. DeskInv(Desk, heard, localCore, fates, admitted, 0, {})
    BY <1>1
  <2> HIDE DEF a, e, c2, f2, more, told2, admitted, heard
  <2>16. DeskInv(e, more, c2, f2, told2, 0, {})
    BY <2>5, <2>7, <2>12, <2>13, <2>14, <2>15, ReadsKeep
  <2> QED
    BY <2>9, <2>16 DEF LocalInv, e, c2, f2, more, told2
<1>9. ASSUME ~rpc.late, Answers(rpc, "unknown", localCore, FALSE, FALSE), calls' = Append(Tail(calls), late),
             localCore' = localCore, fates' = fates
      PROVE  LocalInv'
  <2>1. PICK no \in BOOLEAN : no = FALSE
    BY Zenon
  <2> DEFINE a == AnswerTo(rpc, "unknown", localCore, no)
             e == Desk'
  <2>2. Answers(rpc, "unknown", localCore, no, no)
    BY <1>9, <2>1, Zenon
  <2>3. /\ e \in Desks /\ \A i \in 1..Len(e.calls) : CallOf(e.calls[i], localCore, fates)
        /\ rpc \in Unread(Desk) /\ Unread(e) \subseteq Unread(Desk)
        /\ Unread(Desk) \subseteq Unread(e) \union {rpc}
    BY <1>7, <1>9
  <2>4. /\ e.view = Desk.view /\ e.refreshing = Desk.refreshing /\ e.creation = Desk.creation
        /\ e.savers = Desk.savers /\ e.overlooked = Desk.overlooked
    BY <1>3
  <2>5. a \in AnswersOf /\ a.call = rpc /\ AnsweredNow(a, Desk, localCore, fates)
    <3>1. "unknown" \in {"ok", "refused", "unknown"}
      OBVIOUS
    <3> QED
      BY <1>2, <1>4, <1>5, <2>3, <3>1, AnswerIs
  <2>6. /\ wire' \in Seq(Wires) /\ HeardIn(wire') = heard \union {a} /\ (admitted => ToldIn(wire'))
    BY <1>1, <1>9, <2>2, <2>5, AnswersAre
  <2>7. Grows(localCore, localCore, fates, fates)
    BY <1>2 DEF Grows, RoomCores, KnownOf
  <2> DEFINE more == HeardIn(wire')
             told2 == ToldIn(wire')
  <2>8. \/ more = heard /\ Unread(e) = Unread(Desk)
        \/ /\ more = heard \union {a} /\ AnsweredNow(a, Desk, localCore, fates)
           /\ Unread(e) \subseteq Unread(Desk) /\ Unread(Desk) \subseteq Unread(e) \union {a.call}
    BY <2>3, <2>5, <2>6
  <2>9. admitted \/ localCore # localCore => told2
    BY <2>6
  <2>10. DeskInv(Desk, heard, localCore, fates, admitted, 0, {})
    BY <1>1
  <2> HIDE DEF a, e, more, told2, admitted, heard
  <2>11. DeskInv(e, more, localCore, fates, told2, 0, {})
    BY <2>3, <2>4, <2>7, <2>8, <2>9, <2>10, ReadsKeep
  <2> QED
    BY <1>9, <2>6, <2>11 DEF LocalInv, e, more, told2
<1>10. \/ \E answered \in BOOLEAN, slow \in BOOLEAN : Does(rpc, answered, slow) /\ calls' = Tail(calls)
       \/ /\ ~rpc.late /\ Answers(rpc, "unknown", localCore, FALSE, FALSE)
          /\ calls' = Append(Tail(calls), [rpc EXCEPT !.late = TRUE]) /\ localCore' = localCore /\ fates' = fates
  BY Zenon DEF CoreReads
<1> QED
  BY <1>6, <1>8, <1>9, <1>10, Zenon

LEMMA OthersChangeKeep == LocalInv /\ OthersChange => LocalInv'
<1> SUFFICES ASSUME LocalInv, OthersChange PROVE LocalInv'
  OBVIOUS
<1> DEFINE admitted == ToldIn(wire)
           heard == HeardIn(wire)
           more == HeardIn(wire')
           told2 == ToldIn(wire')
           c2 == localCore'
<1>1. wire \in Seq(Wires) /\ DeskInv(Desk, heard, localCore, fates, admitted, 0, {})
  BY DEF LocalInv
<1>2. /\ Desk \in Desks /\ localCore \in RoomCores /\ fates \in [Ids -> Fates] /\ KnownOf(Desk, localCore, fates)
      /\ \A i \in 1..Len(calls) : CallOf(calls[i], localCore, fates)
      /\ wire' = Append(wire, Changed) /\ fates' = fates
      /\ view' = view /\ refreshing' = refreshing /\ creation' = creation /\ savers' = savers
      /\ overlooked' = overlooked /\ calls' = calls
  BY <1>1, DeskParts, DeskIs DEF OthersChange
<1>3. Desk' = Desk
  BY <1>2 DEF Desk
<1>4. wire' \in Seq(Wires) /\ more = heard /\ told2
  BY <1>1, <1>2, WiresAre, WireGrows
<1>5. Grows(localCore, localCore', fates, fates)
  <2>1. PICK c \in localCore.ids : localCore' = [localCore EXCEPT !.revision = @ + 1, !.rooms[c] = @ + 1]
    BY DEF OthersChange
  <2>2. localCore.ids \in SUBSET Ids /\ c \in Ids
    BY <1>2 DEF RoomCores
  <2>3. localCore' = ChangedCore(localCore, c, localCore.ids)
    BY <1>2, <2>1 DEF ChangedCore, RoomCores
  <2>4. /\ localCore' \in RoomCores /\ localCore'.revision = localCore.revision + 1 /\ localCore'.ids = localCore.ids
        /\ \A y \in Ids : localCore.rooms[y] <= localCore'.rooms[y]
    BY <1>2, <2>2, <2>3, CoreGrows
  <2>5. localCore.revision <= localCore'.revision
    BY <1>2, <2>4 DEF RoomCores
  <2> QED
    BY <1>2, <2>4, <2>5 DEF Grows, KnownOf
<1> DEFINE d == Desk
<1>6. /\ DeskInv(d, heard, localCore, fates, admitted, 0, {}) /\ d \in Desks
      /\ \A i \in 1..Len(d.calls) : CallOf(d.calls[i], localCore, fates)
      /\ \/ more = heard /\ Unread(d) = Unread(d)
         \/ /\ more = heard \union {0} /\ AnsweredNow(0, d, c2, fates)
            /\ Unread(d) \subseteq Unread(d) /\ Unread(d) \subseteq Unread(d) \union {0.call}
      /\ (admitted \/ c2 # localCore => told2)
      /\ Grows(localCore, c2, fates, fates)
  BY <1>1, <1>2, <1>4, <1>5, DeskIs
<1> HIDE DEF admitted, heard, more, told2, c2, d
<1>7. DeskInv(d, more, c2, fates, told2, 0, {})
  BY <1>6, ReadsKeep
<1> QED
  BY <1>2, <1>3, <1>4, <1>7 DEF LocalInv, more, told2, c2, d

\* The renderer becomes d.
LEMMA BecomesIs ==
  ASSUME NEW d, Becomes(d), d \in Desks
  PROVE  Desk' = d
BY DEF Becomes, Desk, Desks

LEMMA ReceiveKeep == LocalInv /\ Receive => LocalInv'
<1> SUFFICES ASSUME LocalInv, Receive PROVE LocalInv'
  OBVIOUS
<1>1. PICK i \in 1..Len(wire) :
        /\ wire' = SubSeq(wire, 1, i - 1) \o SubSeq(wire, i + 1, Len(wire))
        /\ LET answer == wire[i]
               rpc == answer.call
               d == CASE rpc.kind = "list" -> ListAnswered(Desk, rpc, answer)
                      [] rpc.kind \in {"select", "snapshot"} -> ChannelAnswered(Desk, rpc, answer)
                      [] rpc.kind = "create" -> CreateAnswered(Desk, rpc, answer)
                      [] rpc.kind = "verify" -> VerifyAnswered(Desk, rpc, answer)
                      [] rpc.kind = "update" -> UpdateAnswered(Desk, rpc, answer)
                      [] rpc.kind = "changed" -> Refreshed(Desk)
           IN Becomes(d)
  BY DEF Receive
<1>2. localCore' = localCore /\ fates' = fates
  BY DEF Receive
<1> DEFINE a == wire[i]
           rpc == a.call
           admitted == ToldIn(wire)
           heard == HeardIn(wire)
           rest == HeardIn(wire')
           told2 == ToldIn(wire')
<1>3. wire \in Seq(Wires) /\ DeskInv(Desk, heard, localCore, fates, admitted, 0, {}) /\ a \in Wires
  BY DEF LocalInv
<1>4. /\ wire' \in Seq(Wires) /\ rest \subseteq heard
      /\ rpc.kind # "changed" => heard \subseteq rest \union {a} /\ a \in heard /\ (told2 <=> admitted)
      /\ rpc.kind = "changed" => rest = heard
  BY <1>1, <1>3, WireShrinks
<1>5. ASSUME NEW d, Becomes(d), DeskInv(d, rest, localCore, fates, told2, 0, {})
      PROVE  LocalInv'
  <2>1. d \in Desks
    BY <1>5, DeskParts
  <2>2. Desk' = d
    BY <1>5, <2>1, BecomesIs
  <2> QED
    BY <1>2, <1>4, <1>5, <2>2 DEF LocalInv
<1>6. rpc.kind \in RequestKinds \union {"changed"}
  <2>1. CASE a \in AnswersOf
    <3>1. rpc \in Requests
      <4> HIDE DEF Requests, Values
      <4> QED
        BY <2>1 DEF AnswersOf
    <3> QED
      BY <3>1 DEF Requests
  <2>2. CASE a = Changed
    BY <2>2, WiresAre
  <2> QED
    BY <1>3, <2>1, <2>2, WiresAre
<1>7. CASE rpc.kind = "changed"
  <2>1. Becomes(Refreshed(Desk))
    BY <1>1, <1>7
  <2>2. DeskInv(Refreshed(Desk), heard, localCore, fates, told2, 0, {})
    <3> HIDE DEF heard, admitted, told2
    <3> QED
      BY <1>3, RefreshedKeep
  <2>3. rest = heard
    BY <1>4, <1>7
  <2> QED
    BY <1>5, <2>1, <2>2, <2>3
<1>8. ASSUME NEW d, Becomes(d), rpc.kind # "changed", DeskInv(d, rest, localCore, fates, admitted, 0, {})
      PROVE  LocalInv'
  <2>1. told2 <=> admitted
    BY <1>4, <1>8
  <2>2. DeskInv(d, rest, localCore, fates, told2, 0, {})
    BY <1>8, <2>1 DEF DeskInv, CatalogOf, ChannelOf, Admits
  <2> QED
    BY <1>5, <1>8, <2>2
<1>9. rpc.kind # "changed" => a \in heard /\ rest \subseteq heard /\ heard \subseteq rest \union {a}
  BY <1>4
<1>10. /\ rpc.kind = "list" => Becomes(ListAnswered(Desk, rpc, a))
       /\ rpc.kind \in {"select", "snapshot"} => Becomes(ChannelAnswered(Desk, rpc, a))
       /\ rpc.kind = "create" => Becomes(CreateAnswered(Desk, rpc, a))
       /\ rpc.kind = "verify" => Becomes(VerifyAnswered(Desk, rpc, a))
       /\ rpc.kind = "update" => Becomes(UpdateAnswered(Desk, rpc, a))
  BY <1>1
<1> HIDE DEF a, admitted, heard, rest, told2
<1>11. CASE rpc.kind = "list"
  <2>1. DeskInv(ListAnswered(Desk, rpc, a), rest, localCore, fates, admitted, 0, {})
    BY <1>3, <1>9, <1>11, ListAnsweredKeep
  <2> QED
    BY <1>8, <1>10, <1>11, <2>1
<1>12. CASE rpc.kind \in {"select", "snapshot"}
  <2>1. DeskInv(ChannelAnswered(Desk, rpc, a), rest, localCore, fates, admitted, 0, {})
    BY <1>3, <1>9, <1>12, ChannelAnsweredKeep
  <2> QED
    BY <1>8, <1>10, <1>12, <2>1
<1>13. CASE rpc.kind = "create"
  <2>1. DeskInv(CreateAnswered(Desk, rpc, a), rest, localCore, fates, admitted, 0, {})
    BY <1>3, <1>9, <1>13, CreateAnsweredKeep
  <2> QED
    BY <1>8, <1>10, <1>13, <2>1
<1>14. CASE rpc.kind = "verify"
  <2>1. DeskInv(VerifyAnswered(Desk, rpc, a), rest, localCore, fates, admitted, 0, {})
    BY <1>3, <1>9, <1>14, VerifyAnsweredKeep
  <2> QED
    BY <1>8, <1>10, <1>14, <2>1
<1>15. CASE rpc.kind = "update"
  <2>1. DeskInv(UpdateAnswered(Desk, rpc, a), rest, localCore, fates, admitted, 0, {})
    BY <1>3, <1>9, <1>15, UpdateAnsweredKeep
  <2> QED
    BY <1>8, <1>10, <1>15, <2>1
<1> QED
  BY <1>6, <1>7, <1>11, <1>12, <1>13, <1>14, <1>15 DEF RequestKinds

\* What the user and the Workspace do.
LEMMA BindKeep == LocalInv /\ Bind => LocalInv'
<1> SUFFICES ASSUME LocalInv, Bind PROVE LocalInv'
  OBVIOUS
<1> DEFINE admitted == ToldIn(wire)
           heard == HeardIn(wire)
<1>1. /\ wire \in Seq(Wires) /\ DeskInv(Desk, heard, localCore, fates, admitted, 0, {})
      /\ Becomes(Refreshed(Asks(Bound(Desk, TRUE), "list", 0, 0)))
      /\ wire' = wire /\ localCore' = localCore /\ fates' = fates
  BY DEF LocalInv, Bind, Unchanged
<1> HIDE DEF admitted, heard
<1>2. PICK home \in BOOLEAN : home = TRUE
  BY Zenon
<1> DEFINE some == {"catalog"}
           none == {}
           d == Bound(Desk, home)
           e == Asks(d, "list", 0, 0)
           g == Refreshed(e)
<1>3. /\ "catalog" \in some /\ "busy" \notin some \ none /\ "channel" \notin some \ none
      /\ "busy" \notin none /\ "list" \in RequestKinds /\ 0 \in Nat /\ 0 \in Ids \union {0}
  BY DEF RequestKinds
<1> HIDE DEF some, none, d
<1>4. DeskInv(d, heard, localCore, fates, admitted, 0, some) /\ d.view.home
  BY <1>1, <1>2, <1>3, BoundKeep DEF d
<1>5. 0 <= d.refreshing.last
  BY <1>4, DeskParts, DeskTypes
<1>6. DeskInv(e, heard, localCore, fates, admitted, 0, none)
  BY <1>3, <1>4, <1>5, AsksKeep
<1> HIDE DEF e
<1>7. DeskInv(g, heard, localCore, fates, admitted, 0, none)
  BY <1>3, <1>6, RefreshedKeep
<1>8. Becomes(g)
  BY <1>1, <1>2, Zenon DEF d, e
<1> HIDE DEF g
<1>9. Desk' = g
  BY <1>7, <1>8, DeskParts, BecomesIs
<1> QED
  BY <1>1, <1>7, <1>9 DEF LocalInv, admitted, heard, none

\* A move of the view that keeps the invariant of the desk.
LEMMA MoveKeeps ==
  ASSUME LocalInv, NEW d, Becomes(d), Unchanged,
         DeskInv(d, HeardIn(wire), localCore, fates, ToldIn(wire), 0, {})
  PROVE  LocalInv'
<1>1. d \in Desks
  BY DeskParts
<1>2. Desk' = d
  BY <1>1, BecomesIs
<1> QED
  BY <1>2 DEF LocalInv, Unchanged

LEMMA MovesOfView ==
  LocalInv /\ (Leave \/ Select \/ ClearSelection \/ VerifyCreation \/ Update) => LocalInv'
<1> SUFFICES ASSUME LocalInv, Leave \/ Select \/ ClearSelection \/ VerifyCreation \/ Update
             PROVE  LocalInv'
  OBVIOUS
<1> DEFINE admitted == ToldIn(wire)
           heard == HeardIn(wire)
           none == {}
<1>1. DeskInv(Desk, heard, localCore, fates, admitted, 0, {}) /\ DeskInv(Desk, heard, localCore, fates, admitted, 0, none)
  BY DEF LocalInv
<1>2. /\ Desk \in Desks /\ localCore \in RoomCores /\ KnownOf(Desk, localCore, fates) /\ AsideOf(Desk)
  BY <1>1, DeskParts
<1>3. "busy" \notin none \ none /\ "catalog" \notin none \ none /\ "channel" \notin none \ none
  OBVIOUS
<1> HIDE DEF none
<1>4. ASSUME Leave PROVE LocalInv'
  <2>1. PICK home \in BOOLEAN : home = FALSE
    BY Zenon
  <2>2. Becomes(Bound(Desk, home)) /\ Unchanged
    <3>1. Becomes(Bound(Desk, FALSE)) /\ Unchanged
      BY <1>4 DEF Leave, Moves
    <3> QED
      BY <2>1, <3>1, Zenon
  <2>3. DeskInv(Bound(Desk, home), heard, localCore, fates, admitted, 0, {})
    <3> HIDE DEF heard, admitted
    <3> QED
      BY <1>1, <2>1, BoundKeep
  <2> QED
    BY <2>2, <2>3, MoveKeeps
<1>5. ASSUME Select PROVE LocalInv'
  <2>1. PICK c \in view.catalog.ids : view.home /\ Becomes(Selected(Desk, c)) /\ Unchanged
    BY <1>5 DEF Select, Moves
  <2>2. DeskInv(Selected(Desk, c), heard, localCore, fates, admitted, 0, {})
    <3>1. Desk.view.home
      BY <2>1, DeskIs
    <3> HIDE DEF heard, admitted
    <3> QED
      BY <1>1, <3>1, SelectedKeep
  <2> QED
    BY <2>1, <2>2, MoveKeeps
<1>6. ASSUME ClearSelection PROVE LocalInv'
  <2>1. Becomes(Chooses(Desk, 0)) /\ Unchanged
    BY <1>6 DEF ClearSelection, Moves, Chooses
  <2>2. 0 \in localCore.ids \union {0}
    OBVIOUS
  <2>3. DeskInv(Chooses(Desk, 0), heard, localCore, fates, admitted, 0, {})
    <3> HIDE DEF heard, admitted
    <3> QED
      BY <1>1, <2>2, ChoosesKeep
  <2> QED
    BY <2>1, <2>3, MoveKeeps
<1>7. ASSUME VerifyCreation PROVE LocalInv'
  <2>1. Becomes(Asks(Desk, "verify", 0, creation)) /\ Unchanged /\ view.unknown /\ creation # 0
    BY <1>7 DEF VerifyCreation, Moves
  <2>2. /\ Desk.view.unknown /\ creation = Desk.creation /\ creation \in Ids /\ fates[creation] # "none"
        /\ Desk.view.home /\ 0 <= Desk.refreshing.last
    BY <1>2, <2>1, DeskTypes, DeskIs DEF KnownOf, AsideOf
  <2>3. "verify" \in RequestKinds /\ 0 \in Nat /\ creation \in Ids \union {0}
    BY <2>2 DEF RequestKinds
  <2>4. DeskInv(Asks(Desk, "verify", 0, creation), heard, localCore, fates, admitted, 0, none)
    <3> HIDE DEF heard, admitted
    <3> QED
      BY <1>1, <1>3, <2>2, <2>3, AsksKeep
  <2> QED
    BY <2>1, <2>4, MoveKeeps DEF none
<1>8. ASSUME Update PROVE LocalInv'
  <2>1. PICK yes : yes \in BOOLEAN /\ yes \in {TRUE}
    OBVIOUS
  <2>2. PICK o : o \in BOOLEAN /\ o = (overlooked \/ view.error = "load")
    BY Zenon
  <2> DEFINE d == Banners(Desk, yes, "none", view.unknown, o, creation)
             e == Asks(d, "update", 0, view.channel)
             busy == {"busy"}
  <2>3. [Desk EXCEPT !.view.saving = yes, !.view.error = "none", !.overlooked = o] = d
    BY ZenonT(40), <1>2, DeskIs DEF Banners, DeskWith, Desks, Views
  <2>4. Becomes(e) /\ Unchanged
    <3>1. /\ Becomes(Asks([Desk EXCEPT !.view.saving = TRUE, !.view.error = "none",
                                       !.overlooked = @ \/ view.error = "load"], "update", 0, view.channel))
          /\ Unchanged
      BY <1>8 DEF Update
    <3>2. yes = TRUE
      BY <2>1
    <3> HIDE DEF d
    <3> QED
      BY <2>2, <2>3, <3>1, <3>2, DeskIs, Zenon
  <2>5. "busy" \in busy /\ none \ busy \subseteq {"busy"} /\ busy \ none \subseteq {"busy"}
    BY DEF none
  <2> HIDE DEF busy
  <2>6. view.catalog # NoCatalog /\ view.channel # 0
    BY <1>8 DEF Update
  <2>7. Desk.view.home /\ view.channel \in localCore.ids /\ view.channel \in Ids \union {0}
    BY <1>2, <2>6, DeskIs DEF AsideOf, KnownOf, RoomCores
  <2>8. BannersFit(Desk, heard, fates, yes, "none", view.unknown, o, creation, none, busy)
    <3>1. view.unknown => creation # 0
      BY <1>2, DeskIs DEF AsideOf
    <3>2. Desk.overlooked \/ Desk.view.error = "load" => o
      BY <2>2, DeskIs
    <3>3. view.unknown \in BOOLEAN
      BY <1>2, DeskTypes, DeskIs
    <3> QED
      BY <2>1, <2>2, <2>5, <2>7, <3>1, <3>2, <3>3, DeskIs DEF BannersFit
  <2>9. DeskInv(d, heard, localCore, fates, admitted, 0, busy) /\ Stays(Desk, d)
    <3> HIDE DEF heard, admitted
    <3> QED
      BY <1>1, <2>8, BannersKeep
  <2>10. d.view.home /\ 0 <= d.refreshing.last /\ view.channel = d.view.channel
    <3>1. d \in Desks
      BY <2>9, DeskParts
    <3> HIDE DEF d
    <3>2. d.refreshing.last \in Nat
      BY <3>1, DeskTypes
    <3> QED
      BY <2>7, <2>9, <3>2, DeskIs DEF Stays
  <2>11. "update" \in RequestKinds /\ 0 \in Nat /\ "catalog" \notin busy \ none /\ "channel" \notin busy \ none
    BY <2>5 DEF RequestKinds
  <2> HIDE DEF d
  <2>12. DeskInv(e, heard, localCore, fates, admitted, 0, none)
    <3> HIDE DEF heard, admitted
    <3> QED
      BY <2>7, <2>9, <2>10, <2>11, AsksKeep
  <2> QED
    BY <2>4, <2>12, MoveKeeps DEF none
<1> QED
  BY <1>4, <1>5, <1>6, <1>7, <1>8

\* A creation, under an id that nothing has named.
LEMMA CreateKeep == LocalInv /\ Create => LocalInv'
<1> SUFFICES ASSUME LocalInv, Create PROVE LocalInv'
  OBVIOUS
<1>1. PICK c \in Ids \ {Room} :
        /\ fates[c] = "none" /\ fates' = [fates EXCEPT ![c] = "open"]
        /\ Becomes(Asks([Desk EXCEPT !.creation = c, !.view.saving = TRUE, !.view.error = "none",
                                     !.overlooked = @ \/ view.error = "load"], "create", 0, c))
  BY DEF Create
<1>2. view.catalog # NoCatalog /\ creation = 0 /\ wire' = wire /\ localCore' = localCore
  BY DEF Create
<1> DEFINE admitted == ToldIn(wire)
           heard == HeardIn(wire)
<1>3. wire \in Seq(Wires) /\ DeskInv(Desk, heard, localCore, fates, admitted, 0, {})
  BY DEF LocalInv
<1> HIDE DEF admitted, heard
<1>4. /\ Desk \in Desks /\ heard \subseteq AnswersOf /\ localCore \in RoomCores /\ fates \in [Ids -> Fates]
      /\ KnownOf(Desk, localCore, fates)
      /\ \A i \in 1..Len(Desk.calls) : CallOf(Desk.calls[i], localCore, fates)
      /\ \A a \in heard : AnswerOf(a, localCore, fates)
      /\ AgesOf(Desk, Open(Desk, heard), fates) /\ WorkOf(Desk, Open(Desk, heard), 0) /\ AsideOf(Desk)
      /\ BusyOf(Desk, Open(Desk, heard))
      /\ CatalogOf(Desk, heard, localCore, admitted) /\ ChannelOf(Desk, heard, localCore, admitted)
  BY <1>3, DeskParts
<1>5. PICK yes : yes \in BOOLEAN /\ yes \in {TRUE}
  OBVIOUS
<1>6. PICK o : o \in BOOLEAN /\ o = (overlooked \/ view.error = "load")
  BY Zenon
<1> DEFINE v == [view EXCEPT !.saving = yes, !.error = "none"]
           d == DeskWith(Desk, v, o, c, refreshing)
           e == Asks(d, "create", 0, c)
           rpc == NewCall(d, "create", 0, c)
           f == [fates EXCEPT ![c] = "open"]
<1>7. /\ v \in Views /\ v.catalog = view.catalog /\ v.home = view.home /\ v.epoch = view.epoch
      /\ v.selection = view.selection /\ v.channel = view.channel /\ v.shown = view.shown
      /\ v.unknown = view.unknown /\ v.error = "none"
  <2>1. view \in Views
    BY <1>4, DeskTypes, DeskIs
  <2> QED
    BY <1>5, <2>1 DEF Views
<1>8. [Desk EXCEPT !.creation = c, !.view.saving = yes, !.view.error = "none", !.overlooked = o] = d
  BY <1>4, DeskIs DEF DeskWith, Desks, Views
<1>9. Becomes(e)
  <2>1. yes = TRUE
    BY <1>5
  <2> HIDE DEF d
  <2> QED
    BY <1>1, <1>6, <1>8, <2>1, DeskIs, Zenon
<1> HIDE DEF v
<1>10. c \in Ids \union {0} /\ refreshing \in WorkOfDesk /\ "create" \in RequestKinds /\ 0 \in Nat
  BY <1>4, DeskTypes, DeskIs DEF WorkOfDesk, RequestKinds
<1>11. /\ d \in Desks /\ d.view = v /\ d.overlooked = o /\ d.creation = c /\ d.refreshing = Desk.refreshing
       /\ d.savers = Desk.savers /\ d.calls = Desk.calls
  <2> HIDE DEF d, v
  <2>1. o \in BOOLEAN /\ v \in Views /\ c \in Ids \union {0} /\ refreshing \in WorkOfDesk /\ Desk \in Desks
    BY <1>4, <1>6, <1>7, <1>10
  <2>2. /\ DeskWith(Desk, v, o, c, refreshing) \in Desks /\ DeskWith(Desk, v, o, c, refreshing).view = v
        /\ DeskWith(Desk, v, o, c, refreshing).overlooked = o /\ DeskWith(Desk, v, o, c, refreshing).creation = c
        /\ DeskWith(Desk, v, o, c, refreshing).refreshing = refreshing
        /\ DeskWith(Desk, v, o, c, refreshing).savers = Desk.savers
        /\ DeskWith(Desk, v, o, c, refreshing).calls = Desk.calls
    BY <2>1, ShownIs
  <2> QED
    BY <2>2, DeskIs DEF d
<1> HIDE DEF d
<1>12. /\ e \in Desks /\ e.view = d.view /\ e.refreshing = d.refreshing /\ e.creation = d.creation
       /\ e.savers = d.savers /\ e.overlooked = d.overlooked
       /\ Unread(e) = Unread(d) \union {rpc}
       /\ Len(e.calls) = Len(d.calls) + 1 /\ e.calls[Len(d.calls) + 1] = rpc
       /\ \A i \in 1..Len(d.calls) : e.calls[i] = d.calls[i]
  BY SMTT(30), <1>10, <1>11, AsksIs
<1>13. /\ rpc \in Requests /\ rpc.kind = "create" /\ rpc.n = 0 /\ rpc.channel = c
       /\ rpc.epoch = d.view.epoch /\ rpc.selection = d.view.selection
  BY <1>10, <1>11, NewCallIs
<1> HIDE DEF e, rpc
<1>14. Open(e, heard) = Open(Desk, heard) \union {rpc} /\ Unread(e) = Unread(Desk) \union {rpc}
  <2>1. Unread(d) = Unread(Desk)
    BY <1>11 DEF Unread
  <2> QED
    BY <1>12, <2>1 DEF Open
<1>15. /\ e.view.catalog = view.catalog /\ e.view.home = view.home /\ e.view.epoch = view.epoch
       /\ e.view.selection = view.selection /\ e.view.channel = view.channel /\ e.view.shown = view.shown
       /\ e.view.unknown = view.unknown /\ e.creation = c /\ e.overlooked = o
       /\ e.refreshing = refreshing /\ e.savers = savers
  BY <1>7, <1>11, <1>12, DeskIs
<1>16. Says(Desk) => Says(e)
  BY <1>6, <1>15, DeskIs DEF Says
<1>17. /\ f \in [Ids -> Fates] /\ f[c] = "open" /\ \A x \in Ids : x # c => f[x] = fates[x]
       /\ fates[c] = "none" /\ c \in Ids /\ c # Room /\ c # 0
  BY <1>1, <1>4, LocalNumbers DEF Fates
<1>18. fates' = f
  BY <1>1
<1> HIDE DEF f
<1>19. view.home /\ ~view.unknown /\ view.home \in BOOLEAN /\ view.epoch \in Nat /\ view.selection \in Nat
  BY <1>2, <1>4, DeskIs, DeskTypes DEF AsideOf
<1>20. KnownOf(e, localCore, f)
  <2>1. \A x \in Ids \ {Room} : f[x] = "open" => c = x
    BY <1>2, <1>4, <1>17, LocalNumbers, DeskIs DEF KnownOf
  <2>2. \A x \in localCore.ids \ {Room} : f[x] \notin {"none", "open"}
    <3>1. localCore.ids \subseteq Ids
      BY <1>4 DEF RoomCores
    <3> QED
      BY <1>4, <1>17, <3>1 DEF KnownOf
  <2> QED
    BY <1>4, <1>15, <1>17, <2>1, <2>2, DeskIs DEF KnownOf
<1>21. ASSUME NEW x, CallOf(x, localCore, fates) PROVE CallOf(x, localCore, f)
  BY <1>17, <1>21 DEF CallOf
<1>22. \A i \in 1..Len(e.calls) : CallOf(e.calls[i], localCore, f)
  <2> TAKE i \in 1..Len(e.calls)
  <2>1. i = Len(d.calls) + 1 \/ i \in 1..Len(d.calls)
    BY <1>11, <1>12, DeskTypes
  <2>2. CallOf(rpc, localCore, f)
    BY <1>13, <1>17 DEF CallOf
  <2> QED
    BY <1>4, <1>11, <1>12, <1>21, <2>1, <2>2
<1>23. \A x \in Open(Desk, heard) : CallOf(x, localCore, fates)
  BY <1>4 DEF Open, Unread, AnswerOf
<1>24. \A a \in heard : AnswerOf(a, localCore, f)
  BY <1>4, <1>17 DEF AnswerOf, CallOf
<1>25. /\ \A x : CurrentFor(e, x) <=> CurrentFor(Desk, x)
       /\ \A x : SameEpoch(e, x) <=> SameEpoch(Desk, x)
  BY <1>15, DeskIs DEF CurrentFor, SameEpoch
<1>26. AgesOf(e, Open(e, heard), f)
  <2>1. Aged(e, rpc, f)
    BY <1>4, <1>7, <1>11, <1>13, <1>15, <1>19, DeskTypes, DeskIs DEF Aged
  <2>2. ASSUME NEW x \in Open(Desk, heard) PROVE Aged(e, x, f)
    BY <1>4, <1>15, <1>17, <1>25, DeskIs DEF AgesOf, Aged
  <2>3. ASSUME NEW x \in Open(Desk, heard), x.kind = "create" PROVE x.channel # c
    BY <1>17, <1>23, <2>3 DEF CallOf
  <2>4. \A a, b \in Open(e, heard) : a.kind = "create" /\ b.kind = "create" /\ a.channel = b.channel => a.epoch = b.epoch
    BY <1>4, <1>13, <1>14, <2>3 DEF AgesOf
  <2> QED
    BY <1>14, <2>1, <2>2, <2>4 DEF AgesOf
<1>27. WorkOf(e, Open(e, heard), 0)
  BY <1>4, <1>13, <1>14, <1>15, DeskIs DEF WorkOf
<1>28. AsideOf(e)
  BY <1>15, <1>19 DEF AsideOf
<1>29. BusyOf(e, Open(e, heard))
  <2>1. ASSUME NEW x \in Open(e, heard), x.kind = "verify" PROVE x.channel # c
    <3>1. x \in Open(Desk, heard)
      BY <1>13, <1>14, <2>1
    <3> QED
      BY <1>4, <1>17, <2>1, <3>1 DEF AgesOf, Aged
  <2>2. rpc \in Open(e, heard)
    BY <1>14
  <2> QED
    BY <1>7, <1>11, <1>13, <1>15, <1>19, <2>1, <2>2 DEF BusyOf, Creates
<1>30. CatalogOf(e, heard, localCore, admitted)
  BY <1>4, <1>14, <1>15, <1>16, DeskIs DEF CatalogOf, Admits
<1>31. ChannelOf(e, heard, localCore, admitted)
  BY <1>4, <1>14, <1>15, <1>16, <1>25, DeskIs DEF ChannelOf, Admits
<1>32. DeskInv(e, heard, localCore, f, admitted, 0, {})
  BY <1>4, <1>12, <1>17, <1>20, <1>22, <1>24, <1>26, <1>27, <1>28, <1>29, <1>30, <1>31 DEF DeskInv
<1>33. Desk' = e
  BY <1>9, <1>12, BecomesIs DEF e
<1> QED
  BY <1>2, <1>3, <1>18, <1>32, <1>33 DEF LocalInv, admitted, heard

\* A blank view, with requests that nobody waits for.
LEMMA ReloadKeep == LocalInv /\ Reload => LocalInv'
<1> SUFFICES ASSUME LocalInv, Reload PROVE LocalInv'
  OBVIOUS
<1>1. PICK yes : yes \in BOOLEAN /\ yes \in {TRUE}
  OBVIOUS
<1>2. PICK no : no \in BOOLEAN /\ no \in {FALSE}
  OBVIOUS
<1> DEFINE late(x) == [x EXCEPT !.late = yes]
           w == calls'
<1>3. /\ view' = Blank /\ refreshing' = NoWork /\ savers' = {} /\ wire' = <<>> /\ overlooked' = no
      /\ w = [i \in 1..Len(calls) |-> late(calls[i])]
      /\ creation' = creation /\ localCore' = localCore /\ fates' = fates
  <2>1. /\ view' = Blank /\ refreshing' = NoWork /\ savers' = {} /\ wire' = <<>> /\ overlooked' = FALSE
        /\ calls' = [i \in 1..Len(calls) |-> [calls[i] EXCEPT !.late = TRUE]]
        /\ creation' = creation /\ localCore' = localCore /\ fates' = fates
    BY DEF Reload
  <2>2. yes = TRUE /\ no = FALSE
    BY <1>1, <1>2
  <2> QED
    BY <2>1, <2>2, Zenon
<1>4. /\ Desk \in Desks /\ localCore \in RoomCores /\ fates \in [Ids -> Fates] /\ KnownOf(Desk, localCore, fates)
      /\ \A i \in 1..Len(Desk.calls) : CallOf(Desk.calls[i], localCore, fates)
  BY DeskParts DEF LocalInv
<1>5. Len(calls) \in Nat /\ \A i \in 1..Len(calls) : calls[i] \in Requests
  BY <1>4, DeskTypes, DeskIs
<1>6. ASSUME NEW x \in Requests
      PROVE  late(x) \in Requests /\ late(x).late /\ late(x).kind = x.kind /\ late(x).channel = x.channel
  BY <1>1 DEF Requests
<1> HIDE DEF late, w
<1>7. w \in Seq(Requests) /\ Len(w) = Len(calls) /\ \A i \in 1..Len(w) : w[i] = late(calls[i])
  <2>1. \A i \in 1..Len(calls) : late(calls[i]) \in Requests
    BY <1>5, <1>6
  <2> HIDE DEF Requests
  <2> QED
    BY <1>3, <1>5, <2>1
<1>8. \A i \in 1..Len(w) : w[i].late /\ CallOf(w[i], localCore, fates)
  <2> TAKE i \in 1..Len(w)
  <2>1. i \in 1..Len(calls) /\ calls[i] \in Requests /\ w[i] = late(calls[i])
    BY <1>5, <1>7
  <2>2. CallOf(calls[i], localCore, fates)
    BY <1>4, <2>1, DeskIs
  <2> QED
    BY <1>6, <2>1, <2>2 DEF CallOf
<1>9. PICK v : v = Blank /\ v = [home |-> no, epoch |-> 0, selection |-> 0, catalog |-> NoCatalog, channel |-> 0,
                                 shown |-> Never, error |-> "none", saving |-> no, unknown |-> no]
  BY <1>2, Zenon DEF Blank
<1>10. /\ v \in Views /\ v.home = no /\ v.epoch = 0 /\ v.selection = 0 /\ v.catalog = NoCatalog
       /\ v.channel = 0 /\ v.saving = no /\ v.unknown = no
  <2>1. NoCatalog \in [revision : Int, ids : SUBSET Ids] /\ Never \in Int
    BY LocalNumbers DEF NoCatalog
  <2> HIDE DEF NoCatalog
  <2> QED
    BY <1>2, <1>9, <2>1, LocalNumbers DEF Views
<1>11. PICK r : r = NoWork /\ r = [n |-> 0, dirty |-> no, last |-> 0]
  BY <1>2, Zenon DEF NoWork
<1>12. r \in [n : Nat, dirty : BOOLEAN, last : Nat] /\ r.n = 0 /\ r.last = 0
  BY <1>2, <1>11
<1> DEFINE e == Desk'
<1>13. e = [view |-> v, refreshing |-> r, creation |-> creation, savers |-> {}, calls |-> w, overlooked |-> no]
  BY <1>3, <1>9, <1>11 DEF Desk, w
<1>14. creation \in Ids \union {0}
  BY <1>4, DeskTypes, DeskIs
<1>15. e \in Desks
  <2> HIDE DEF Requests, Views, e
  <2> QED
    BY <1>2, <1>7, <1>10, <1>12, <1>13, <1>14 DEF Desks
<1>16. /\ e.view = v /\ e.refreshing = r /\ e.creation = creation /\ e.savers = {} /\ e.calls = w
       /\ e.overlooked = no
  BY <1>13
<1>17. Unread(e) = {} /\ HeardIn(<<>>) = {} /\ ~ToldIn(<<>>) /\ <<>> \in Seq(Wires)
  <2>1. Unread(e) = {}
    BY <1>8, <1>16 DEF Unread
  <2>2. Len(<<>>) = 0
    OBVIOUS
  <2>3. 1..Len(<<>>) = {}
    BY <2>2
  <2> QED
    BY <2>1, <2>3 DEF HeardIn, ToldIn
<1>18. Open(e, {}) = {}
  BY <1>17 DEF Open
<1>19. KnownOf(e, localCore, fates)
  <2>1. v.catalog.ids = {} /\ v.catalog.revision = -1 /\ localCore.revision \in Nat
    BY <1>4, <1>10, LocalNumbers DEF NoCatalog, RoomCores
  <2> QED
    BY <1>4, <1>10, <1>16, <2>1, DeskIs DEF KnownOf
<1>20. AgesOf(e, {}, fates) /\ WorkOf(e, {}, 0) /\ AsideOf(e)
  <2>1. AgesOf(e, {}, fates)
    BY DEF AgesOf
  <2>2. WorkOf(e, {}, 0)
    BY <1>12, <1>16 DEF WorkOf
  <2>3. AsideOf(e)
    BY <1>2, <1>10, <1>16 DEF AsideOf
  <2> QED
    BY <2>1, <2>2, <2>3
<1>21. BusyOf(e, {}) /\ CatalogOf(e, {}, localCore, FALSE) /\ ChannelOf(e, {}, localCore, FALSE)
  BY <1>2, <1>10, <1>16 DEF BusyOf, CatalogOf, ChannelOf
<1>22. CatalogOf(e, {}, localCore, ToldIn(<<>>)) /\ ChannelOf(e, {}, localCore, ToldIn(<<>>))
  BY <1>2, <1>10, <1>16 DEF CatalogOf, ChannelOf
<1> HIDE DEF e
<1>23. DeskInv(e, HeardIn(<<>>), localCore, fates, ToldIn(<<>>), 0, {})
  BY <1>4, <1>8, <1>15, <1>16, <1>17, <1>18, <1>19, <1>20, <1>21, <1>22 DEF DeskInv
<1> QED
  BY <1>3, <1>17, <1>23 DEF LocalInv, e

\* Nothing is bound, asked or known at first.
LEMMA LocalInvStarts == InitLocal => LocalInv
<1> SUFFICES ASSUME InitLocal PROVE LocalInv
  OBVIOUS
<1>1. PICK no : no \in BOOLEAN /\ no \in {FALSE}
  OBVIOUS
<1>2. /\ view = Blank /\ refreshing = NoWork /\ creation = 0 /\ savers = {} /\ calls = <<>> /\ wire = <<>>
      /\ localCore = [revision |-> 0, ids |-> {Room}, rooms |-> [c \in Ids |-> 0]]
      /\ fates = [c \in Ids |-> "none"] /\ overlooked = no
  BY <1>1, Zenon DEF InitLocal
<1>3. PICK v : v = Blank /\ v = [home |-> no, epoch |-> 0, selection |-> 0, catalog |-> NoCatalog, channel |-> 0,
                                 shown |-> Never, error |-> "none", saving |-> no, unknown |-> no]
  BY <1>1, Zenon DEF Blank
<1>4. /\ v \in Views /\ v.home = no /\ v.epoch = 0 /\ v.selection = 0 /\ v.catalog = NoCatalog
      /\ v.channel = 0 /\ v.saving = no /\ v.unknown = no
  <2>1. NoCatalog \in [revision : Int, ids : SUBSET Ids] /\ Never \in Int
    BY LocalNumbers DEF NoCatalog
  <2> HIDE DEF NoCatalog
  <2> QED
    BY <1>1, <1>3, <2>1, LocalNumbers DEF Views
<1>5. PICK r : r = NoWork /\ r = [n |-> 0, dirty |-> no, last |-> 0]
  BY <1>1, Zenon DEF NoWork
<1>6. r \in [n : Nat, dirty : BOOLEAN, last : Nat] /\ r.n = 0 /\ r.last = 0
  BY <1>1, <1>5
<1> DEFINE e == Desk
<1>7. e = [view |-> v, refreshing |-> r, creation |-> 0, savers |-> {}, calls |-> <<>>, overlooked |-> no]
  BY <1>2, <1>3, <1>5 DEF Desk
<1>8. e \in Desks
  <2>1. <<>> \in Seq(Requests)
    OBVIOUS
  <2> HIDE DEF Requests, Views, e
  <2> QED
    BY <1>1, <1>4, <1>6, <1>7, <2>1 DEF Desks
<1>9. /\ e.view = v /\ e.refreshing = r /\ e.creation = 0 /\ e.savers = {} /\ e.calls = <<>>
      /\ e.overlooked = no
  BY <1>7
<1>10. 1..Len(<<>>) = {} /\ <<>> \in Seq(Wires)
  <2>1. Len(<<>>) = 0
    OBVIOUS
  <2> QED
    BY <2>1
<1>11. Unread(e) = {} /\ HeardIn(<<>>) = {} /\ ~ToldIn(<<>>)
  BY <1>9, <1>10 DEF Unread, HeardIn, ToldIn
<1>12. Open(e, {}) = {}
  BY <1>11 DEF Open
<1>13. /\ localCore \in RoomCores /\ localCore.revision = 0 /\ localCore.ids = {Room} /\ fates \in [Ids -> Fates]
       /\ \A x \in Ids : fates[x] = "none"
  BY <1>2, LocalNumbers DEF RoomCores, Fates
<1>14. KnownOf(e, localCore, fates)
  <2>1. v.catalog.ids = {} /\ v.catalog.revision = -1
    BY <1>4, LocalNumbers DEF NoCatalog
  <2>2. \A x \in Ids \ {Room} : fates[x] # "open"
    BY <1>13
  <2> QED
    BY <1>4, <1>9, <1>13, <2>1, <2>2 DEF KnownOf
<1>15. AgesOf(e, {}, fates) /\ WorkOf(e, {}, 0) /\ AsideOf(e)
  <2>1. AgesOf(e, {}, fates)
    BY DEF AgesOf
  <2>2. WorkOf(e, {}, 0)
    BY <1>6, <1>9 DEF WorkOf
  <2>3. AsideOf(e)
    BY <1>1, <1>4, <1>9 DEF AsideOf
  <2> QED
    BY <2>1, <2>2, <2>3
<1>16. BusyOf(e, {}) /\ CatalogOf(e, {}, localCore, ToldIn(<<>>)) /\ ChannelOf(e, {}, localCore, ToldIn(<<>>))
  BY <1>1, <1>4, <1>9 DEF BusyOf, CatalogOf, ChannelOf
<1> HIDE DEF e
<1>17. DeskInv(e, HeardIn(<<>>), localCore, fates, ToldIn(<<>>), 0, {})
  BY <1>8, <1>9, <1>10, <1>11, <1>12, <1>13, <1>14, <1>15, <1>16 DEF DeskInv
<1> QED
  BY <1>2, <1>10, <1>17 DEF LocalInv, e

\* Every step keeps it.
LEMMA LocalInvKept == LocalInv /\ [NextLocal]_localVars => LocalInv'
<1>1. LocalInv /\ UNCHANGED localVars => LocalInv'
  BY DEF LocalInv, localVars, Desk
<1> QED
  BY <1>1, CoreReadsKeep, OthersChangeKeep, ReceiveKeep, BindKeep, MovesOfView, CreateKeep, ReloadKeep
  DEF NextLocal

\* In every state the renderer's desk, what it waits for and the Core fit each other.
THEOREM LocalAlways == SpecLocal => []LocalInv
BY LocalInvStarts, LocalInvKept, PTL DEF SpecLocal

\* What the user creates once is not created twice: a creation is forgotten only when it is
\* known what became of it, whatever answers are lost, late or out of order
\* (workspace-local-channels.ts create, verifyCreation).
THEOREM CreationsAreKnown == SpecLocal => []CreationIsKnown
<1>1. LocalInv => CreationIsKnown
  BY DeskParts, DeskIs DEF LocalInv, KnownOf, CreationIsKnown
<1> QED
  BY <1>1, LocalAlways, PTL

\* When nothing is under way the channels that are shown are the Core's, or an error says that
\* they may not be, and nobody is left busy (refresh, its dirty rounds, and bind).
THEOREM LocalChannelsAreFresh == SpecLocal => []LocalIsFresh
<1>1. LocalInv => LocalIsFresh
  <2> SUFFICES ASSUME LocalInv, Quiet, view.home PROVE LocalIsFresh
    BY DEF LocalIsFresh
  <2>1. calls = <<>> /\ wire = <<>>
    BY DEF Quiet
  <2>2. 1..Len(<<>>) = {}
    <3>1. Len(<<>>) = 0
      OBVIOUS
    <3> QED
      BY <3>1
  <2>3. HeardIn(wire) = {} /\ ~ToldIn(wire) /\ Unread(Desk) = {}
    BY <2>1, <2>2, DeskIs DEF HeardIn, ToldIn, Unread
  <2>4. Open(Desk, HeardIn(wire)) = {}
    BY <2>3 DEF Open
  <2>5. /\ WorkOf(Desk, {}, 0) /\ BusyOf(Desk, {}) /\ CatalogOf(Desk, {}, localCore, ToldIn(wire))
        /\ ChannelOf(Desk, {}, localCore, ToldIn(wire)) /\ Desk \in Desks
    BY <2>3, <2>4, DeskParts DEF LocalInv
  <2>6. refreshing.n = 0 /\ savers = {}
    <3>1. Desk.refreshing.n \in Nat /\ \A s \in Desk.savers : s.n \in Nat
      BY <2>5, DeskTypes
    <3> QED
      BY <2>5, <3>1, DeskIs DEF WorkOf
  <2>7. ~view.saving
    BY <2>5, <2>6, DeskIs DEF BusyOf, Creates, Updates
  <2>8. view.catalog.revision = localCore.revision \/ view.error # "none" \/ overlooked
    <3>1. view.catalog.revision = localCore.revision \/ Admits(Desk, ToldIn(wire))
      BY <2>3, <2>5, DeskIs DEF CatalogOf
    <3> QED
      BY <2>3, <2>6, <3>1, DeskIs DEF Admits, Says
  <2>9. view.channel # 0 => view.shown = localCore.rooms[view.channel] \/ view.error # "none" \/ overlooked
    <3>1. view.channel # 0 => view.shown = localCore.rooms[view.channel] \/ Admits(Desk, ToldIn(wire))
      BY <2>3, <2>4, <2>5, DeskIs DEF ChannelOf
    <3> QED
      BY <2>3, <2>6, <3>1, DeskIs DEF Admits, Says
  <2> QED
    BY <2>6, <2>7, <2>8, <2>9 DEF LocalIsFresh
<1> QED
  BY <1>1, LocalAlways, PTL

\* A personal Workspace's channels are what they say they are: what is shown, what is
\* created, and what is sent (workspace-local-channels.ts).
THEOREM ChannelsAlwaysTrue == SpecChannels => []ChannelsAreTrue
BY CreationsAreKnown, LocalChannelsAreFresh, TextsAreTypedOnce, TextsAreNotDropped,
   OpenMessagesAreSaved, PTL DEF SpecChannels, ChannelsAreTrue
================================================================================
