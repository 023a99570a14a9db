------------------------------ MODULE WorkspaceView ------------------------------
(* How the Workspace view follows the Core (workspace-dev-state.ts: select, agent,  *)
(* refresh, workspaceChanged, apply).                                               *)
(*                                                                                  *)
(* The view is a snapshot the Core sent. The Core announces a change without its    *)
(* contents; the view then reads a new snapshot. One refresh runs per epoch, and a  *)
(* change announced meanwhile makes it dirty, so that it is followed by another.    *)
(* Selecting a Workspace or a colleague, and a snapshot of another resource         *)
(* generation, begin a new epoch, in which the answers of earlier ones count for    *)
(* nothing. A snapshot is a version of the Core's state here.                       *)
EXTENDS Naturals, Sequences

CONSTANTS
  Agents,       \* the colleagues of the Workspace
  Nobody,       \* no colleague, no snapshot, no epoch
  MaxViewReads, \* bound on the requests of the view
  MaxVersions   \* bound on the changes of the Core

ASSUME ViewAssumption ==
  /\ MaxViewReads \in Nat /\ MaxVersions \in Nat
  /\ Nobody \notin Agents /\ Nobody \notin Nat
  /\ Nobody \notin [agent : Agents, version : 0..MaxVersions, generation : 0..MaxVersions]

VARIABLES
  viewEpoch,     \* this.epoch
  agent,         \* view.agentId
  shown,         \* view.workspace
  notice,        \* view.error or view.syncNotice is not empty
  refreshing,    \* refreshEpoch
  dirty,         \* refreshDirty
  viewReads,     \* the requests made: what they ask, and the epoch they belong to
  awaited,       \* the requests that have neither been answered nor timed out
  queue,         \* the requests the Core has not read, in order
  reading,       \* the snapshot the Core has read for the first of them
  wire,          \* what the socket carries to Desktop: answers and announcements
  core,          \* the version and the resource generation of the Core
  overlooked     \* history: no request follows a change that was announced when refresh()
                 \* returns at once, or during a refresh that brought another generation

viewVars == <<viewEpoch, agent, shown, notice, refreshing, dirty, viewReads, awaited, queue, reading, wire,
              core, overlooked>>

Snapshot == [agent : Agents, version : 0..MaxVersions, generation : 0..MaxVersions]
Read == [kind : {"select", "agent", "snapshot"}, agent : Agents \union {Nobody}, epoch : Nat]
Refused == 0
Announcement == 0

ViewTypeOK ==
  /\ viewEpoch \in Nat
  /\ agent \in Agents \union {Nobody}
  /\ shown \in Snapshot \union {Nobody}
  /\ notice \in BOOLEAN /\ dirty \in BOOLEAN /\ overlooked \in BOOLEAN
  /\ refreshing \in Nat \union {Nobody}
  /\ viewReads \in Seq(Read) /\ Len(viewReads) <= MaxViewReads
  /\ awaited \subseteq 1..MaxViewReads
  /\ queue \in Seq(1..MaxViewReads)
  /\ reading \in Snapshot \union {Nobody}
  /\ wire \in Seq([read : 0..MaxViewReads, value : Snapshot \union {Nobody}])
  /\ core \in [version : 0..MaxVersions, generation : 0..MaxVersions]

InitView ==
  /\ viewEpoch = 0 /\ agent = Nobody /\ shown = Nobody /\ notice = FALSE
  /\ refreshing = Nobody /\ dirty = FALSE
  /\ viewReads = <<>> /\ awaited = {} /\ queue = <<>> /\ reading = Nobody /\ wire = <<>>
  /\ core = [version |-> 0, generation |-> 0]
  /\ overlooked = FALSE

--------------------------------------------------------------------------------
(* The view. *)

\* rpc.request()
Request(kind, who, epoch) ==
  /\ Len(viewReads) < MaxViewReads
  /\ viewReads' = Append(viewReads, [kind |-> kind, agent |-> who, epoch |-> epoch])
  /\ awaited' = awaited \union {Len(viewReads) + 1}
  /\ queue' = Append(queue, Len(viewReads) + 1)
  /\ overlooked' = FALSE

\* selectWorkspace(): the Core chooses the colleague.
ShowWorkspace ==
  /\ viewEpoch' = viewEpoch + 1
  /\ agent' = Nobody /\ shown' = Nobody /\ notice' = FALSE
  /\ Request("select", Nobody, viewEpoch + 1)
  /\ UNCHANGED <<refreshing, dirty, reading, wire, core>>

SelectAgent(a) ==
  /\ shown # Nobody
  /\ viewEpoch' = viewEpoch + 1
  /\ agent' = a /\ shown' = Nobody /\ notice' = FALSE
  /\ Request("agent", a, viewEpoch + 1)
  /\ UNCHANGED <<refreshing, dirty, reading, wire, core>>

\* refresh(), when somebody is selected.
Refreshing ==
  IF refreshing = viewEpoch
  THEN dirty' = TRUE /\ UNCHANGED <<refreshing, viewReads, awaited, queue, overlooked>>
  ELSE refreshing' = viewEpoch /\ Request("snapshot", agent, viewEpoch) /\ UNCHANGED dirty

\* The trailing refresh of an operation.
Refresh ==
  /\ agent # Nobody
  /\ Refreshing
  /\ UNCHANGED <<viewEpoch, agent, shown, notice, reading, wire, core>>

\* workspaceChanged()
Announced ==
  /\ wire # <<>> /\ Head(wire).read = Announcement
  /\ wire' = Tail(wire)
  /\ IF agent = Nobody THEN overlooked' = TRUE /\ UNCHANGED <<refreshing, dirty, viewReads, awaited, queue>>
                       ELSE Refreshing
  /\ UNCHANGED <<viewEpoch, agent, shown, notice, reading, core>>

\* apply(): a snapshot of another generation begins an epoch.
Renewed(value) == shown # Nobody /\ shown.generation # value.generation
Apply(value) ==
  /\ viewEpoch' = IF Renewed(value) THEN viewEpoch + 1 ELSE viewEpoch
  /\ shown' = value /\ agent' = value.agent /\ notice' = FALSE

\* A finally that forgets the changes announced during the refresh.
RefreshDone(r, renewed) ==
  IF refreshing # viewReads[r].epoch
  THEN awaited' = awaited \ {r} /\ UNCHANGED <<refreshing, dirty, viewReads, queue, overlooked>>
  ELSE /\ refreshing' = Nobody /\ dirty' = FALSE
       /\ awaited' = awaited \ {r} /\ UNCHANGED <<viewReads, queue, overlooked>>
\* The finally of a refresh: it is repeated when it was dirty and its epoch lasts.
RefreshEnds(r, renewed) ==
  LET epoch == viewReads[r].epoch IN
  IF refreshing # epoch
  THEN awaited' = awaited \ {r} /\ UNCHANGED <<refreshing, dirty, viewReads, queue, overlooked>>
  ELSE /\ dirty' = FALSE
       /\ IF dirty /\ epoch = viewEpoch /\ ~renewed
          THEN /\ Len(viewReads) < MaxViewReads
               /\ viewReads' = Append(viewReads, viewReads[r])
               /\ awaited' = (awaited \ {r}) \union {Len(viewReads) + 1}
               /\ queue' = Append(queue, Len(viewReads) + 1)
               /\ overlooked' = FALSE /\ UNCHANGED refreshing
          ELSE /\ refreshing' = Nobody /\ awaited' = awaited \ {r}
               /\ overlooked' = (overlooked \/ (dirty /\ renewed)) /\ UNCHANGED <<viewReads, queue>>

Ends(r, renewed) ==
  IF viewReads[r].kind = "snapshot" THEN RefreshEnds(r, renewed)
  ELSE awaited' = awaited \ {r} /\ UNCHANGED <<refreshing, dirty, viewReads, queue, overlooked>>

\* An answer that is still awaited counts in its own epoch only.
Answered ==
  /\ wire # <<>> /\ Head(wire).read \in awaited
  /\ wire' = Tail(wire)
  /\ LET r == Head(wire).read
         value == Head(wire).value
         counts == viewReads[r].epoch = viewEpoch
     IN  /\ IF counts /\ value # Nobody THEN Apply(value)
            ELSE /\ notice' = (notice \/ counts)
                 /\ UNCHANGED <<viewEpoch, agent, shown>>
         /\ Ends(r, counts /\ value # Nobody /\ Renewed(value))
  /\ UNCHANGED <<reading, core>>

\* No answer came for fifteen seconds, the oldest request first; one that still comes
\* is not read.
TimesOut(r) ==
  /\ r \in awaited /\ \A q \in awaited : r <= q
  /\ notice' = (notice \/ viewReads[r].epoch = viewEpoch)
  /\ Ends(r, FALSE)
  /\ UNCHANGED <<viewEpoch, agent, shown, reading, wire, core>>
TooLate ==
  /\ wire # <<>> /\ Head(wire).read \notin awaited \union {Announcement}
  /\ wire' = Tail(wire)
  /\ UNCHANGED <<viewEpoch, agent, shown, notice, refreshing, dirty, viewReads, awaited, queue, reading, core,
                 overlooked>>

--------------------------------------------------------------------------------
(* The Core, as src/ relies on it: it reads and answers one request after the other,  *)
(* and announces each change; a change may come between a read and its answer.        *)

CoreReads ==
  /\ queue # <<>> /\ reading = Nobody
  /\ \E a \in Agents :
       /\ viewReads[Head(queue)].agent \in {a, Nobody}
       /\ reading' = [agent |-> a, version |-> core.version, generation |-> core.generation]
  /\ UNCHANGED <<viewEpoch, agent, shown, notice, refreshing, dirty, viewReads, awaited, queue, wire, core,
                 overlooked>>

CoreAnswers ==
  /\ reading # Nobody
  /\ \E value \in {reading, Nobody} : wire' = Append(wire, [read |-> Head(queue), value |-> value])
  /\ queue' = Tail(queue) /\ reading' = Nobody
  /\ UNCHANGED <<viewEpoch, agent, shown, notice, refreshing, dirty, viewReads, awaited, core, overlooked>>

CoreChanges ==
  /\ core.version < MaxVersions
  /\ \E g \in {core.generation, core.generation + 1} :
       core' = [version |-> core.version + 1, generation |-> g]
  /\ wire' = Append(wire, [read |-> Announcement, value |-> Nobody])
  /\ UNCHANGED <<viewEpoch, agent, shown, notice, refreshing, dirty, viewReads, awaited, queue, reading,
                 overlooked>>

NextView ==
  \/ ShowWorkspace \/ Refresh \/ Announced \/ Answered \/ TooLate
  \/ \E a \in Agents : SelectAgent(a)
  \/ \E r \in 1..MaxViewReads : TimesOut(r)
  \/ CoreReads \/ CoreAnswers \/ CoreChanges

SpecView == InitView /\ [][NextView]_viewVars

--------------------------------------------------------------------------------
\* When nothing is under way any more, the view shows the Core's state, or says that it
\* may not, however refreshes, selections, late answers and changes overlap: the change
\* that overtakes a refresh is read by the next one. The two announcements the code does
\* not act on are left out: see overlooked.
ViewIsFresh ==
  awaited = {} /\ wire = <<>> /\ shown # Nobody =>
    shown.version = core.version \/ notice \/ overlooked
================================================================================
