-------------------------------- MODULE GroupsDesk --------------------------------
(* The organizations' Desks as the window shows them (groups-state.ts: groupsReducer; *)
(* App.tsx: refreshGroupsDirectory, selectGroupsOrganization, readGroupsBoard,        *)
(* openGroupsTask and the calls that change a task; Groups.tsx: the automatic read,   *)
(* TaskComposer and TaskDossier).                                                     *)
(*                                                                                    *)
(* Of a board and of a task only their age is kept: the number of changes the Desk of *)
(* the organization had seen when it was read. The revision of an organization is the *)
(* age of the binding it was listed with. The Desk answers calls in any order, and    *)
(* the answers come in any order. A call keeps whether its number is still the one its *)
(* slot, or the directory, waits for; numbers are used once.                          *)
EXTENDS Integers, FiniteSets

CONSTANTS
  Organizations, NoOrganization, DeskTasks,
  MaxDeskVisits,  \* bound on what the user does
  MaxChanges      \* bound on what others do: changes, bindings, refusals and closes

ASSUME GroupsAssumption ==
  /\ IsFiniteSet(Organizations \union DeskTasks) /\ Organizations # {}
  /\ NoOrganization \notin Organizations /\ "header" \notin Organizations \union {NoOrganization}
  /\ "no task" \notin DeskTasks
  /\ {MaxDeskVisits, MaxChanges} \subseteq Nat

VARIABLES
  groups,        \* GroupsState
  page,          \* the connection, the directory, the switch, and the dossier
  desks,         \* each organization's Desk: its changes, and its binding
  deskCalls,     \* the calls that are awaited
  deskConfirmed, \* history: of each task, the age of the newest change the user was told of
  budget

groupsVars == <<groups, page, desks, deskCalls, deskConfirmed, budget>>

Unknown == -1
NoTask == <<NoOrganization, "no task">>
TaskKeys == Organizations \X DeskTasks       \* groupsTaskKey
Slot == [phase : {"idle", "loading", "ready", "error"}, data : Int]
IdleSlot == [phase |-> "idle", data |-> Unknown]

GroupsTypeOK ==
  /\ groups.selected \in Organizations \union {NoOrganization}
  /\ groups.revisions \in [Organizations -> Nat \union {Unknown}]
  /\ groups.boards \in [Organizations -> Slot] /\ groups.tasks \in [TaskKeys -> Slot]
  /\ groups.open \in TaskKeys \union {NoTask}
  /\ page.directory \in {"idle", "loading", "ready", "error"}
  /\ page.choosing \in Organizations \union {NoOrganization}
  /\ page.switching \in Organizations \union {NoOrganization, "header"}
  /\ \A c \in deskCalls : c.kind \in {"directory", "board", "task", "change"}

\* initialGroupsState()
InitialGroups ==
  [selected |-> NoOrganization, revisions |-> [o \in Organizations |-> Unknown],
   boards |-> [o \in Organizations |-> IdleSlot], tasks |-> [k \in TaskKeys |-> IdleSlot], open |-> NoTask]

\* A call: what it asks of whom, and what Serve has answered
DeskCall == [kind |-> "board", key |-> NoTask, newest |-> TRUE, then |-> NoOrganization, mine |-> FALSE,
             data |-> Unknown, bindings |-> [o \in Organizations |-> Unknown]]

\* The page has just been opened.
InitGroups ==
  /\ groups = InitialGroups
  /\ page = [connected |-> TRUE, directory |-> "loading", listed |-> FALSE, space |-> NoOrganization, choosing |-> NoOrganization, switching |-> NoOrganization,
             saving |-> FALSE]
  /\ desks = [o \in Organizations |-> [age |-> 0, binding |-> 0]]
  /\ deskCalls = {[DeskCall EXCEPT !.kind = "directory"]}
  /\ deskConfirmed = [k \in TaskKeys |-> 0]
  /\ budget = [user |-> MaxDeskVisits, others |-> MaxChanges]

--------------------------------------------------------------------------------
(* groupsReducer, and what follows an answer, as functions of the window `w`. *)

Window == [groups |-> groups, page |-> page, calls |-> deskCalls]
\* A task whose page is left, or whose organization is no longer listed, takes what it was
\* saving with it; the call goes on.
Shows(w) ==
  LET stays == w.groups.open # NoTask /\ w.page.listed
      own(c) == c.kind = "change" /\ ~stays
  IN /\ groups' = w.groups
     /\ page' = [w.page EXCEPT !.saving = @ /\ stays]
     /\ deskCalls' = {IF own(c) THEN [c EXCEPT !.mine = FALSE] ELSE c : c \in w.calls}

Awaits(w, c) == [w EXCEPT !.calls = @ \union {c}]
\* The calls of these kinds, about these organizations, are no longer the newest.
Outdates(w, kinds, keys) ==
  [w EXCEPT !.calls = {IF c.kind \in kinds /\ c.key \in keys THEN [c EXCEPT !.newest = FALSE] ELSE c : c \in @}]
BoardKey(o) == <<o, "no task">>
Reads == {"board", "task"}

Started(slot) == [slot EXCEPT !.phase = "loading"]
\* mutant of Succeeded: whatever comes is shown
SucceededLate(slot, c) == [phase |-> "ready", data |-> c.data]
\* snapshotSucceeded and taskSucceeded; snapshotFailed and taskFailed
Succeeded(slot, c) == IF ~c.newest THEN slot ELSE [phase |-> "ready", data |-> c.data]
FailedRead(slot, c) == IF ~c.newest THEN slot ELSE [phase |-> "error", data |-> Unknown]

\* mutant of SameBinding: an organization that is known stays, whatever it is bound to
SameOrganization(g, bindings) == {o \in Organizations : g.revisions[o] # Unknown}
SameBinding(g, bindings) == {o \in Organizations : g.revisions[o] # Unknown /\ g.revisions[o] = bindings[o]}
\* directorySynced: what was read under another binding, or none that is known, goes.
DirectorySynced(g, bindings, preferred) ==
  LET same == SameBinding(g, bindings) IN
  [selected |-> CASE g.selected # NoOrganization -> g.selected
                  [] preferred # NoOrganization -> preferred
                  [] OTHER -> CHOOSE o \in Organizations : TRUE,
   revisions |-> bindings,
   boards |-> [o \in Organizations |-> IF o \in same THEN g.boards[o] ELSE IdleSlot],
   tasks |-> [k \in TaskKeys |-> IF k[1] \in same THEN g.tasks[k] ELSE IdleSlot],
   open |-> IF g.open[1] \in same THEN g.open ELSE NoTask]
\* readGroupsBoard() and openGroupsTask(), which do nothing without a client
ReadsBoard(w, o) ==
  IF ~w.page.connected THEN w
  ELSE Awaits([Outdates(w, {"board"}, {BoardKey(o)}) EXCEPT !.groups.boards[o] = Started(@)],
              [DeskCall EXCEPT !.kind = "board", !.key = BoardKey(o)])
OpensTask(w, k) ==
  IF ~w.page.connected THEN w
  ELSE Awaits([Outdates(w, {"task"}, {k}) EXCEPT !.groups.open = k, !.groups.tasks[k] = Started(@)],
              [DeskCall EXCEPT !.kind = "task", !.key = k])

\* refreshGroupsDirectory(); `then` is the organization that is selected after it.
RefreshesDirectory(w, then) ==
  IF ~w.page.connected THEN w
  ELSE Awaits([Outdates(w, {"directory"}, {NoTask}) EXCEPT !.page.directory = "loading"],
              [DeskCall EXCEPT !.kind = "directory", !.then = then])
SyncsDirectory(w, c) ==
  LET gone == Organizations \ SameBinding(w.groups, c.bindings) IN
  [Outdates(w, Reads, {k \in TaskKeys \union {BoardKey(o) : o \in Organizations} : k[1] \in gone}) EXCEPT
     !.page.directory = "ready", !.page.listed = TRUE, !.groups = DirectorySynced(@, c.bindings, w.page.space)]

\* What switchSpace(), runProviderRouteMutation() and a new connection begin with
Resets(w) ==
  [Outdates(w, Reads \union {"directory"}, {c.key : c \in w.calls}) EXCEPT
     !.groups = InitialGroups, !.page.directory = "idle", !.page.listed = FALSE]

--------------------------------------------------------------------------------
(* The user. *)

UserMoves == budget.user > 0 /\ page.connected /\ budget' = [budget EXCEPT !.user = @ - 1]
DirectoryReady == page.directory = "ready"

\* The page is entered, its directory read again, or the settings opened.
RefreshDirectory ==
  /\ UserMoves
  /\ Shows(RefreshesDirectory(Window, NoOrganization))
  /\ UNCHANGED <<desks, deskConfirmed>>

\* selectGroupsOrganization()
SelectOrganization(o) ==
  /\ UserMoves
  /\ page.listed /\ groups.selected # NoOrganization
  /\ page.choosing = NoOrganization
  /\ IF o = page.space THEN Shows([Window EXCEPT !.groups.selected = o])
     ELSE /\ page.switching = NoOrganization
          /\ Shows([Resets(Window) EXCEPT !.page.choosing = o, !.page.switching = o])
  /\ UNCHANGED <<desks, deskConfirmed>>

\* Another way to another Space: the header, or a change of the provider route
SwitchSpace ==
  /\ UserMoves
  /\ page.switching = NoOrganization
  /\ Shows([Resets(Window) EXCEPT !.page.switching = "header"])
  /\ UNCHANGED <<desks, deskConfirmed>>

\* The board is read on demand, or with other tasks than before.
ReadBoard ==
  /\ UserMoves
  /\ DirectoryReady /\ groups.selected # NoOrganization /\ groups.open = NoTask
  /\ Shows(ReadsBoard(Window, groups.selected))
  /\ UNCHANGED <<desks, deskConfirmed>>

\* openGroupsTask(), from the board, or again from the page of a task that was not read
OpenTask(k) ==
  /\ UserMoves
  /\ IF groups.open = NoTask THEN DirectoryReady /\ k[1] = groups.selected /\ groups.boards[k[1]].data # Unknown
     ELSE page.listed /\ k = groups.open /\ groups.tasks[k].phase = "error"
  /\ Shows(OpensTask(Window, k))
  /\ UNCHANGED <<desks, deskConfirmed>>

CloseTask ==
  /\ budget.user > 0 /\ groups.open # NoTask /\ page.listed
  /\ budget' = [budget EXCEPT !.user = @ - 1]
  /\ Shows([Window EXCEPT !.groups.open = NoTask])
  /\ UNCHANGED <<desks, deskConfirmed>>

\* TaskDossier.runMutation(): claim, acknowledge, move, complete, cancel or comment
ChangeTask ==
  /\ UserMoves
  /\ groups.open # NoTask /\ page.listed /\ ~page.saving
  /\ groups.tasks[groups.open].phase = "ready"
  /\ Shows(Awaits([Window EXCEPT !.page.saving = TRUE],
                  [DeskCall EXCEPT !.kind = "change", !.key = groups.open, !.mine = TRUE]))
  /\ UNCHANGED <<desks, deskConfirmed>>

\* TaskComposer.submit(): the new task is one of DeskTasks.
CreateTask(k) ==
  /\ UserMoves
  /\ page.listed /\ groups.open = NoTask /\ k[1] = groups.selected
  /\ Shows(Awaits(Window, [DeskCall EXCEPT !.kind = "change", !.key = k]))
  /\ UNCHANGED <<desks, deskConfirmed>>

--------------------------------------------------------------------------------
(* The window by itself, Serve and the Desks. *)

\* shouldAutoReadDeskBoard(): a board that nobody has read yet
AutoReadBoard ==
  /\ DirectoryReady /\ groups.selected # NoOrganization /\ groups.boards[groups.selected].phase = "idle"
  /\ Shows(ReadsBoard(Window, groups.selected))
  /\ UNCHANGED <<desks, deskConfirmed, budget>>

\* The end of switchSpace(), which reads the directory, and of the selection that began it,
\* which reads it once more
SwitchEnds ==
  /\ page.switching # NoOrganization
  /\ LET w == [Window EXCEPT !.page.switching = NoOrganization]
         read == RefreshesDirectory(w, NoOrganization)
     IN \/ /\ page.switching # "header"
           /\ Shows(RefreshesDirectory([read EXCEPT !.page.space = page.switching], page.choosing))
           /\ UNCHANGED budget
        \/ /\ page.switching = "header"
           /\ \E o \in Organizations \union {NoOrganization} : Shows([read EXCEPT !.page.space = o])
           /\ UNCHANGED budget
        \/ /\ budget.others > 0 /\ budget' = [budget EXCEPT !.others = @ - 1]
           /\ Shows([w EXCEPT !.page.choosing = IF page.switching = "header" THEN @ ELSE NoOrganization])
  /\ UNCHANGED <<desks, deskConfirmed>>

\* Serve reads, or makes the change, whatever becomes of the answer.
DeskAnswers(c) ==
  /\ c.data = Unknown
  /\ LET o == c.key[1]
         changed == IF c.kind = "change" THEN [desks EXCEPT ![o].age = @ + 1] ELSE desks
     IN /\ desks' = changed
        /\ deskCalls' = (deskCalls \ {c}) \union
             {IF c.kind = "directory"
              THEN [c EXCEPT !.data = 0, !.bindings = [p \in Organizations |-> desks[p].binding]]
              ELSE [c EXCEPT !.data = changed[o].age]}
  /\ UNCHANGED <<groups, page, deskConfirmed, budget>>

\* refreshGroupsDirectory() goes on; a switch that waited for it selects its organization.
DirectoryArrives(c) ==
  /\ c.kind = "directory" /\ c.data # Unknown
  /\ LET w == [Window EXCEPT !.calls = @ \ {c}]
         read == IF c.newest THEN SyncsDirectory(w, c) ELSE w
     IN Shows(IF c.then = NoOrganization THEN read
              ELSE [read EXCEPT !.groups.selected = c.then, !.page.choosing = NoOrganization])
  /\ UNCHANGED <<desks, deskConfirmed, budget>>

ReadArrives(c) ==
  /\ c.kind \in {"board", "task"} /\ c.data # Unknown
  /\ LET w == [Window EXCEPT !.calls = @ \ {c}] IN
     Shows(IF c.kind = "board" THEN [w EXCEPT !.groups.boards[c.key[1]] = Succeeded(@, c)]
           ELSE [w EXCEPT !.groups.tasks[c.key] = Succeeded(@, c)])
  /\ UNCHANGED <<desks, deskConfirmed, budget>>

\* mutant of AfterChange: the task alone is read again
AfterChangeTask(w, k) == OpensTask(w, k)
\* The change is confirmed: whatever is shown by now, its task is opened and its board read.
AfterChange(w, k) == ReadsBoard(OpensTask(w, k), k[1])

ChangeArrives(c) ==
  /\ c.kind = "change" /\ c.data # Unknown
  /\ LET w == [Window EXCEPT !.calls = @ \ {c}, !.page.saving = @ /\ ~c.mine]
     IN Shows(AfterChange(w, c.key))
  /\ deskConfirmed' = [deskConfirmed EXCEPT ![c.key] = IF c.data > @ THEN c.data ELSE @]
  /\ UNCHANGED <<desks, budget>>

\* A call is refused, or its answer is an error: a change may have been made all the same.
CallFails(c) ==
  /\ budget.others > 0 /\ budget' = [budget EXCEPT !.others = @ - 1]
  /\ LET w == [Window EXCEPT !.calls = @ \ {c}] IN
     Shows(CASE c.kind = "board" -> [w EXCEPT !.groups.boards[c.key[1]] = FailedRead(@, c)]
             [] c.kind = "task" -> [w EXCEPT !.groups.tasks[c.key] = FailedRead(@, c)]
             [] c.kind = "change" -> [w EXCEPT !.page.saving = @ /\ ~c.mine]
             [] c.kind = "directory" ->
                  LET read == IF ~c.newest THEN w ELSE [w EXCEPT !.page.directory = "error", !.page.listed = FALSE]
                  IN IF c.then = NoOrganization THEN read
                     ELSE [read EXCEPT !.groups.selected = c.then, !.page.choosing = NoOrganization])
  /\ UNCHANGED <<desks, deskConfirmed>>

\* The organization is bound to another Desk. What others change at the Desk would make
\* an answer newer than it has to be, and is left out.
DeskIsBound ==
  /\ budget.others > 0 /\ budget' = [budget EXCEPT !.others = @ - 1]
  /\ \E o \in Organizations :
       desks' = [desks EXCEPT ![o] = [age |-> @.age + 1, binding |-> @.age + 1]]
  /\ UNCHANGED <<groups, page, deskCalls, deskConfirmed>>

\* The connection closes: every call is rejected after the reset. A new one follows.
DeskDisconnects ==
  /\ page.connected /\ budget.others > 0 /\ budget' = [budget EXCEPT !.others = @ - 1]
  /\ Shows([Resets(Window) EXCEPT !.page.connected = FALSE, !.page.choosing = NoOrganization,
                                  !.page.switching = NoOrganization, !.calls = {}])
  /\ UNCHANGED <<desks, deskConfirmed>>
DeskReconnects ==
  /\ ~page.connected
  /\ Shows(RefreshesDirectory([Resets(Window) EXCEPT !.page.connected = TRUE], NoOrganization))
  /\ UNCHANGED <<desks, deskConfirmed, budget>>

NextGroups ==
  \/ RefreshDirectory \/ SwitchSpace \/ ReadBoard \/ CloseTask \/ ChangeTask
  \/ \E o \in Organizations : SelectOrganization(o)
  \/ \E k \in TaskKeys : OpenTask(k) \/ CreateTask(k)
  \/ AutoReadBoard \/ SwitchEnds
  \/ \E c \in deskCalls :
       DeskAnswers(c) \/ DirectoryArrives(c) \/ ReadArrives(c) \/ ChangeArrives(c) \/ CallFails(c)
  \/ DeskIsBound \/ DeskDisconnects \/ DeskReconnects

SpecGroups == InitGroups /\ [][NextGroups]_groupsVars

--------------------------------------------------------------------------------
(* Properties *)

\* What is shown of an organization was never read from a Desk it was bound to before the
\* binding the directory names ("a reused organization id cannot inherit an old Desk
\* snapshot", App.tsx:556), whatever reads overlap the refresh.
OfItsBinding ==
  /\ \A o \in Organizations : groups.boards[o].phase = "ready" => groups.boards[o].data >= groups.revisions[o]
  /\ \A k \in TaskKeys : groups.tasks[k].phase = "ready" => groups.tasks[k].data >= groups.revisions[k[1]]

\* A task, and the board of its organization, that are shown as read are as new as the
\* newest change of the task the user was told of, although older reads are answered later
\* and the page of the task is left, or another opened, while the change is saved.
ShowsOwnChanges ==
  \A k \in TaskKeys :
    /\ groups.boards[k[1]].phase = "ready" => groups.boards[k[1]].data >= deskConfirmed[k]
    /\ groups.tasks[k].phase = "ready" => groups.tasks[k].data >= deskConfirmed[k]

\* A switch that is shown as under way is: it ends whatever overtakes it
\* (the finally of selectGroupsOrganization).
ChoosingEnds ==
  page.choosing # NoOrganization =>
    page.switching = page.choosing \/ \E c \in deskCalls : c.kind = "directory" /\ c.then = page.choosing

================================================================================
