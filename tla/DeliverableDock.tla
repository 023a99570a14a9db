---------------------------- MODULE DeliverableDock ----------------------------
(* The presentations beside a conversation, and in Office (src/src/App.tsx,      *)
(* src/src/extension-dock-state.ts, src/src/PresentationWorkbench.tsx): the tabs *)
(* of the dock, the one presentation that the window holds, its editor, and the  *)
(* calls that open, check, export and save it, each with a request number.       *)
(*                                                                               *)
(* The user works in the personal Space with one conversation of each place; the *)
(* deliverables are native presentations, and the tabs of tools, previews and    *)
(* panels are left out. A step is a handler with the effects of the render that  *)
(* follows it. Where the window asks before it discards, a user who refuses      *)
(* takes no step.                                                                *)
EXTENDS Integers, SequencesExt

CONSTANTS
  Conversations,
  Artifacts,
  TabLimit,      \* EXTENSION_DOCK_TAB_LIMIT
  MaxRevisions,  \* bound: revisions of an artifact
  MaxCalls       \* bound: calls that are started

ASSUME DockAssumption ==
  TabLimit \in Nat \ {0} /\ MaxRevisions \in Nat \ {0} /\ MaxCalls \in Nat

VARIABLES
  front,        \* the conversation in front, Office or Away
  tabs,         \* extensionDockState.tabs
  activeTab,    \* extensionDockState.activeId
  hidden,       \* hiddenExtensionContexts
  surface,      \* activeArtifact and activePresentation
  unsaved,      \* the editor's own dirty
  report,       \* artifactValidationReport: the revision that it is about
  exported,     \* artifactExportReceipt, likewise
  busy,         \* artifactBusy
  dockCalls,    \* those under way; newest says that artifactOpenRequestRef has their number
  dockStarted,  \* how many were started
  latest,       \* Serve: the current revision of each artifact, 0 where there is none
  listed        \* sessionsRef

shownVars == <<front, tabs, activeTab, surface, unsaved>>
proofVars == <<report, exported>>
callVars == <<busy, dockCalls, dockStarted>>
dockVars == <<shownVars, hidden, proofVars, callVars, latest, listed>>

Office == "office"
Away == "away"
Contexts == Conversations \union {Office}
Absent == <<>>   \* no tab, no revision

--------------------------------------------------------------------------------
(* extension-dock-state.ts *)

\* artifactExtensionTabId
Id(tab) == <<tab.owner, tab.artifact>>
TabFor(context, doc) == [owner |-> context, artifact |-> doc[1], revision |-> doc[2], dirty |-> FALSE]
IdsOf(dock) == {Id(dock[i]) : i \in DOMAIN dock}
TabAt(dock, id) == dock[CHOOSE i \in DOMAIN dock : Id(dock[i]) = id]
DocOf(tab) == <<tab.artifact, tab.revision>>

\* extensionTabsForContext, by their places
TabsOf(dock, context) == {i \in DOMAIN dock : dock[i].owner = context}
OwnIds(dock, context) == {Id(dock[i]) : i \in TabsOf(dock, context)}
Newest(dock, context) == dock[Max(TabsOf(dock, context))]

\* activeExtensionTabForContext
Visible(dock, active, context) ==
  IF active \in OwnIds(dock, context) THEN active
  ELSE IF TabsOf(dock, context) = {} THEN Absent ELSE Id(Newest(dock, context))

\* updateExtensionTab
Put(dock, tab) == [i \in DOMAIN dock |-> IF Id(dock[i]) = Id(tab) THEN tab ELSE dock[i]]
Flag(dock, id, value) ==
  [i \in DOMAIN dock |-> [dock[i] EXCEPT !.dirty = IF Id(dock[i]) = id THEN value ELSE @]]
Dirty(dock, id) == id \in IdsOf(dock) /\ TabAt(dock, id).dirty

\* Mutant of Upsert: a dirty tab goes as well.
UpsertEvicting(dock, tab) ==
  LET next == IF Id(tab) \in IdsOf(dock) THEN Put(dock, tab) ELSE Append(dock, tab)
      evictable == {i \in DOMAIN next : Id(next[i]) # Id(tab)}
  IN  IF Len(next) <= TabLimit \/ evictable = {} THEN next
      ELSE RemoveAt(next, CHOOSE i \in evictable : \A j \in evictable : i <= j)

\* upsertExtensionTab
Upsert(dock, tab) ==
  LET next == IF Id(tab) \in IdsOf(dock) THEN Put(dock, tab) ELSE Append(dock, tab)
      evictable == {i \in DOMAIN next : Id(next[i]) # Id(tab) /\ ~next[i].dirty}
  IN  IF Len(next) <= TabLimit \/ evictable = {} THEN next
      ELSE RemoveAt(next, CHOOSE i \in evictable : \A j \in evictable : i <= j)

--------------------------------------------------------------------------------
(* The editor, PresentationWorkbench *)

\* What it edits. A conversation shows the presentation only under a tab of the same
\* artifact, Office under any tab; the two are different places of the page.
Editor(context, dock, active, doc) ==
  LET id == Visible(dock, active, context)
  IN  IF doc = Absent \/ id = Absent \/ (context # Office /\ id[2] # doc[1]) THEN Absent
      ELSE <<context = Office>> \o doc

Editing == Editor(front, tabs, activeTab, surface)

\* presentationEditorTabId
EditedTab(context, dock, active, doc) ==
  LET id == Visible(dock, active, context)
  IN  IF id # Absent /\ doc # Absent /\ id[2] = doc[1] THEN id ELSE Absent

\* What the window shows next. An editor of another revision starts clean; where it was
\* not there before, or had edits, it says so to its tab.
Render(context, dock, active, doc) ==
  LET next == Editor(context, dock, active, doc)
      says == next # Editing /\ (unsaved \/ Editing = Absent \/ (next # Absent /\ next[1] # Editing[1]))
  IN  /\ front' = context /\ activeTab' = active /\ surface' = doc
      /\ unsaved' = (unsaved /\ next = Editing)
      /\ tabs' = IF says /\ next # Absent
                 THEN Flag(dock, EditedTab(context, dock, active, doc), FALSE) ELSE dock

\* The user edits the presentation, unless the dock is hidden or covered while it loads.
Type ==
  /\ Editing # Absent /\ ~unsaved /\ busy # "open" /\ front \notin hidden
  /\ unsaved' = TRUE
  /\ tabs' = Flag(tabs, EditedTab(front, tabs, activeTab, surface), TRUE)
  /\ UNCHANGED <<front, activeTab, surface, hidden, proofVars, callVars, latest, listed>>

--------------------------------------------------------------------------------
(* Calls *)

Older(all) == {[call EXCEPT !.newest = FALSE] : call \in all}

\* A new call takes the next number, and makes the dock busy.
Start(kind, word, context, doc, tab, at) ==
  /\ dockStarted < MaxCalls /\ dockStarted' = dockStarted + 1
  /\ dockCalls' = Older(dockCalls) \union
       {[kind |-> kind, context |-> context, doc |-> doc, tab |-> tab, at |-> at, newest |-> TRUE]}
  /\ busy' = word

\* clearArtifactSurface, but for the surface
Forget ==
  /\ dockCalls' = Older(dockCalls) /\ busy' = "" /\ dockStarted' = dockStarted
  /\ report' = Absent /\ exported' = Absent

\* The finally of a call
CallEnds(call) ==
  /\ dockCalls' = dockCalls \ {call} /\ dockStarted' = dockStarted
  /\ busy' = IF call.newest THEN "" ELSE busy

\* personalLocalSurfaceScopeIsCurrent
InScope(call) == call.context \in listed

\* The finally of the load that event.surface starts
EventEnds(call) ==
  /\ dockCalls' = dockCalls \ {call} /\ dockStarted' = dockStarted
  /\ busy' = IF call.newest /\ InScope(call) THEN "" ELSE busy

--------------------------------------------------------------------------------
(* Where the user goes *)

InFront == Visible(tabs, activeTab, front)

\* discardCurrentExtensionDraft, confirmed where it asks
TabsLeft == Flag(tabs, InFront, FALSE)

InitDock ==
  /\ front \in Conversations /\ tabs = <<>> /\ activeTab = Absent /\ hidden = {}
  /\ surface = Absent /\ unsaved = FALSE /\ report = Absent /\ exported = Absent
  /\ busy = "" /\ dockCalls = {} /\ dockStarted = 0
  /\ latest = [a \in Artifacts |-> 0] /\ listed = Conversations

\* setZone: the other place of the Workbench with its conversation, or a place without one.
\* (No rail leads to Office.)
SetZone(context) ==
  /\ context \in listed \union {Away} /\ context # front
  /\ Render(context, TabsLeft, activeTab, surface)
  /\ UNCHANGED <<hidden, proofVars, callVars, latest, listed>>

\* setZone("settings"): the settings cover the place, which stays.
OpenSettings ==
  /\ Dirty(tabs, InFront)
  /\ Render(front, TabsLeft, activeTab, surface)
  /\ UNCHANGED <<hidden, proofVars, callVars, latest, listed>>

\* openSession, which asks only for another conversation than the one in front
OpenSession(c) ==
  /\ c \in listed
  /\ Render(c, IF c = front THEN tabs ELSE TabsLeft, activeTab, Absent)
  /\ Forget
  /\ UNCHANGED <<hidden, latest, listed>>

\* archiveIt and deleteIt
RemoveSession(c) ==
  /\ c \in listed /\ listed' = listed \ {c}
  /\ Render(IF front = c THEN Away ELSE front, tabs, activeTab, surface)
  /\ UNCHANGED <<hidden, proofVars, callVars, latest>>

\* connect, onClose, and with it clearEngineBoundSurfaces and clearExtensionDock
Reconnect ==
  /\ tabs # <<>> \/ surface # Absent
  /\ Render(IF front = Office THEN Office ELSE Away, <<>>, Absent, Absent)
  /\ Forget /\ hidden' = {}
  /\ UNCHANGED <<latest, listed>>

\* toggleCurrentExtensionScreen
ToggleDock ==
  /\ InFront # Absent
  /\ hidden' = IF front \in hidden THEN hidden \ {front} ELSE hidden \union {front}
  /\ UNCHANGED <<shownVars, proofVars, callVars, latest, listed>>

\* loadArtifactExtension, up to its first await
Load(tab) == Start("load", "open", tab.owner, DocOf(tab), Id(tab), "asked")

\* selectExtensionTab. It asks where another tab is in front, and is not asked for.
SelectTab(id) ==
  /\ id \in OwnIds(tabs, front)
  /\ Render(front, TabsLeft, id, surface)
  /\ hidden' = hidden \ {front}
  /\ Load(TabAt(tabs, id))
  /\ UNCHANGED <<proofVars, latest, listed>>

\* closeDockTab
CloseTab(id) ==
  LET rest == RemoveAt(tabs, CHOOSE i \in DOMAIN tabs : Id(tabs[i]) = id)
      next == Newest(rest, front)
      emptied == TabsOf(rest, front) = {}
  IN  /\ id \in OwnIds(tabs, front)
      /\ hidden' = IF emptied THEN hidden \ {front} ELSE hidden
      /\ IF id # InFront
         THEN Render(front, rest, activeTab, surface) /\ UNCHANGED <<proofVars, callVars>>
         ELSE IF ~emptied
         THEN Render(front, rest, Id(next), surface) /\ Load(next) /\ UNCHANGED proofVars
         ELSE Render(front, rest, Absent, Absent) /\ Forget
      /\ UNCHANGED <<latest, listed>>

--------------------------------------------------------------------------------
(* What is opened, checked, exported and saved *)

\* openDeliverableInWorkbench from the inbox, openArtifact from Office
OpenArtifact(a) ==
  /\ front \in Contexts /\ latest[a] > 0
  /\ Start("open", "open", front, <<a, latest[a]>>, Absent, "asked")
  /\ UNCHANGED <<shownVars, hidden, proofVars, latest, listed>>

\* Serve names what is imported itself.
Fresh(a) == latest[a] = 0 /\ \A call \in dockCalls : call.kind = "import" => call.doc[1] # a

\* importArtifactFile, for the conversation in front or ("import another") for Office
ImportArtifact(a, context) ==
  /\ Fresh(a)
  /\ IF context = Office THEN Editing # Absent /\ ~unsaved /\ busy \notin {"open", "export"}
     ELSE context = front /\ context \in listed /\ busy = ""
  /\ Start("import", "import", context, <<a, 1>>, Absent, "asked")
  /\ UNCHANGED <<shownVars, hidden, proofVars, latest, listed>>

\* verifyActiveArtifact; the editor's button is off while there are edits
VerifyActive ==
  /\ Editing # Absent /\ ~unsaved /\ busy \notin {"open", "verify", "export"}
  /\ Start("verify", "verify", front, surface, Absent, "asked")
  /\ UNCHANGED <<shownVars, hidden, proofVars, latest, listed>>

\* exportActiveArtifact: a report of this revision is used again
Export ==
  /\ Editing # Absent /\ ~unsaved /\ busy \notin {"open", "export"}
  /\ Start("export", "export", front, surface, Absent, IF report = surface THEN "checked" ELSE "asked")
  /\ UNCHANGED <<shownVars, hidden, proofVars, latest, listed>>

\* saveActivePresentation
Save ==
  /\ Editing # Absent /\ unsaved /\ busy \notin {"open", "save"}
  /\ Start("save", "save", front, surface, EditedTab(front, tabs, activeTab, surface), "asked")
  /\ UNCHANGED <<shownVars, hidden, proofVars, latest, listed>>

\* An Agent writes a revision, and event.surface announces it.
AgentWrites(c, a) ==
  LET id == <<c, a>>
      behind == Visible(tabs, activeTab, c)
      revision == latest[a] + 1
      next == Upsert(tabs, TabFor(c, <<a, revision>>))
  IN  /\ c \in listed /\ latest[a] < MaxRevisions /\ (latest[a] > 0 \/ Fresh(a))
      /\ latest' = [latest EXCEPT ![a] = revision]
      /\ IF Dirty(tabs, behind) /\ behind = id THEN UNCHANGED <<shownVars, callVars>>
         ELSE IF front = c /\ c \notin hidden /\ ~Dirty(tabs, behind)
         THEN Render(front, next, id, surface) /\ Start("event", "open", c, <<a, revision>>, Absent, "asked")
         ELSE Render(front, next, activeTab, surface) /\ UNCHANGED callVars
      /\ UNCHANGED <<hidden, proofVars, listed>>

--------------------------------------------------------------------------------
(* Answers *)

\* getPresentation answers with the revision that was asked for, or with the current one
\* (loadPresentationSurface).
DocAnswers(call) == {<<call.doc[1], r>> : r \in {call.doc[2]} \union ({latest[call.doc[1]]} \ {0})}

\* The call is rejected, or its answer cannot be used.
CallFails(call) ==
  /\ IF call.kind = "event" THEN EventEnds(call) ELSE CallEnds(call)
  /\ UNCHANGED <<shownVars, hidden, proofVars, latest, listed>>

\* The early return of a load: a later call, or another place.
Passed(call) ==
  \/ ~call.newest
  \/ front # call.context /\ ~(call.context = Office /\ call.kind \in {"open", "import"})

Dropped(call) ==
  /\ call.kind \in {"open", "event", "load"} /\ Passed(call)
  /\ CallFails(call)

\* The presentation is shown under the tab that asked for it.
Loaded(call, doc) ==
  /\ call.kind = "load" /\ ~Passed(call)
  /\ Render(front,
            IF call.tab \notin IdsOf(tabs) THEN tabs
            ELSE Put(tabs, [TabAt(tabs, call.tab) EXCEPT !.revision = doc[2]]),
            activeTab, doc)
  /\ report' = Absent /\ exported' = Absent
  /\ CallEnds(call)
  /\ UNCHANGED <<hidden, latest, listed>>

Imported(call) == IF call.kind = "import" THEN [latest EXCEPT ![call.doc[1]] = 1] ELSE latest

\* The presentation comes with a tab of its own. What is opened for Office leaves the
\* conversation in front: openArtifact only closes it, importArtifactFile goes to Office,
\* if the user lets go of the draft.
Opened(call, doc) ==
  LET tab == TabFor(call.context, doc)
      refused == call.kind = "import" /\ Dirty(tabs, InFront)
      places == CASE call.context # Office -> {front}
                  [] call.kind = "import" -> {Office} \union IF refused THEN {Away} ELSE {}
                  [] OTHER -> {IF front = Office THEN Office ELSE Away}
  IN  /\ call.kind \in {"open", "event", "import"} /\ ~Passed(call)
      /\ latest' = Imported(call)
      /\ \E place \in places :
           Render(place, Upsert(IF place = Office THEN TabsLeft ELSE tabs, tab), Id(tab), doc)
      /\ hidden' = hidden \ {call.context}
      /\ report' = Absent /\ exported' = Absent
      /\ IF call.kind = "event" THEN EventEnds(call) ELSE CallEnds(call)
      /\ UNCHANGED listed

\* The import succeeds and is not shown: a later call, or another place.
ImportedUnseen(call) ==
  /\ call.kind = "import" /\ Passed(call)
  /\ latest' = Imported(call)
  /\ CallEnds(call)
  /\ UNCHANGED <<shownVars, hidden, proofVars, listed>>

\* Mutant of Verified: whatever was started since.
VerifiedLate(call) ==
  /\ call.kind \in {"verify", "export"} /\ call.at = "asked"
  /\ report' = call.doc
  /\ CallEnds(call)
  /\ UNCHANGED <<shownVars, hidden, exported, latest, listed>>

\* The report arrives; an export with a passing one goes on to its destination.
Verified(call) ==
  /\ call.kind \in {"verify", "export"} /\ call.at = "asked"
  /\ report' = IF call.newest THEN call.doc ELSE report
  /\ \/ CallEnds(call)
     \/ /\ call.kind = "export" /\ call.newest
        /\ dockCalls' = (dockCalls \ {call}) \union {[call EXCEPT !.at = "checked"]}
        /\ UNCHANGED <<busy, dockStarted>>
  /\ UNCHANGED <<shownVars, hidden, exported, latest, listed>>

\* The receipt of the export arrives.
Exported(call) ==
  /\ call.kind = "export" /\ call.at = "checked"
  /\ exported' = IF call.newest THEN call.doc ELSE exported
  /\ CallEnds(call)
  /\ UNCHANGED <<shownVars, hidden, report, latest, listed>>

\* Serve accepts a save on its current revision.
ServeSaves(call) ==
  LET a == call.doc[1]
  IN  /\ call.kind = "save" /\ call.at = "asked" /\ call.doc[2] = latest[a] /\ latest[a] < MaxRevisions
      /\ latest' = [latest EXCEPT ![a] = @ + 1]
      /\ dockCalls' = (dockCalls \ {call}) \union {[call EXCEPT !.at = "accepted", !.doc = <<a, latest[a] + 1>>]}
      /\ UNCHANGED <<shownVars, hidden, proofVars, busy, dockStarted, listed>>

\* The saved revision is read back.
Saved(call, doc) ==
  /\ call.kind = "save" /\ call.at = "accepted"
  /\ IF call.newest
     THEN LET next == IF call.tab \notin IdsOf(tabs) THEN tabs
                      ELSE Put(tabs, [TabAt(tabs, call.tab) EXCEPT !.revision = doc[2], !.dirty = FALSE])
          IN  Render(front, next, activeTab, doc) /\ report' = Absent /\ exported' = Absent
     ELSE UNCHANGED <<shownVars, proofVars>>
  /\ CallEnds(call)
  /\ UNCHANGED <<hidden, latest, listed>>

CallAnswered(call) ==
  \/ CallFails(call) \/ Dropped(call)
  \/ \E doc \in DocAnswers(call) : Loaded(call, doc) \/ Opened(call, doc) \/ Saved(call, doc)
  \/ ImportedUnseen(call) \/ Verified(call) \/ Exported(call) \/ ServeSaves(call)

NextDock ==
  \/ Type \/ OpenSettings \/ ToggleDock \/ Reconnect \/ VerifyActive \/ Export \/ Save
  \/ \E context \in Conversations \union {Away} : SetZone(context)
  \/ \E c \in Conversations : OpenSession(c) \/ RemoveSession(c)
  \/ \E id \in IdsOf(tabs) : SelectTab(id) \/ CloseTab(id)
  \/ \E a \in Artifacts :
       \/ OpenArtifact(a)
       \/ \E context \in Contexts : ImportArtifact(a, context)
       \/ \E c \in Conversations : AgentWrites(c, a)
  \/ \E call \in dockCalls : CallAnswered(call)

DockSpec == InitDock /\ [][NextDock]_dockVars

--------------------------------------------------------------------------------
(* Properties *)

Docs == {Absent} \union (Artifacts \X Nat)
TabIds == {Absent} \union (Contexts \X Artifacts)
Words == {"", "open", "import", "verify", "export", "save"}

\* Every variable has its type, and the tabs have an id each.
DockTypeOK ==
  /\ front \in Contexts \union {Away} /\ hidden \subseteq Contexts /\ listed \subseteq Conversations
  /\ tabs \in Seq([owner : Contexts, artifact : Artifacts, revision : Nat, dirty : BOOLEAN])
  /\ Cardinality(IdsOf(tabs)) = Len(tabs)
  /\ activeTab \in TabIds /\ {surface, report, exported} \subseteq Docs /\ unsaved \in BOOLEAN
  /\ busy \in Words /\ dockStarted \in 0..MaxCalls /\ latest \in [Artifacts -> 0..MaxRevisions]
  /\ dockCalls \subseteq [kind : {"open", "import", "event", "load", "verify", "export", "save"},
                      context : Contexts \union {Away}, doc : Docs, tab : TabIds,
                      at : {"asked", "checked", "accepted"}, newest : BOOLEAN]

\* "Revision proof": a report or a receipt that the window holds is about the revision that
\* it shows, whichever calls overtook one another.
ProofIsOfTheShown == report \in {Absent, surface} /\ exported \in {Absent, surface}

\* The dock is busy for exactly as long as its newest call is under way, unless the
\* conversation that the call was for is gone.
BusyEnds ==
  /\ \A call \in dockCalls : call.newest => busy # ""
  /\ busy # "" => (\E call \in dockCalls : call.newest) \/ listed # Conversations

\* "Hara kept your draft": neither what an Agent writes, in whichever conversation, nor the
\* answer of the load that it causes takes the place of edits that their tab marks as
\* unsaved, as long as that tab is the one the user has selected. (Where it is only the
\* newest of its conversation, a tab that is added behind it comes to the front.)
Marked == unsaved /\ Dirty(tabs, EditedTab(front, tabs, activeTab, surface))
Displaced == Marked /\ activeTab = InFront /\ ~(Marked' /\ Editing' = Editing)
ByAgent ==
  \/ \E c \in Conversations, a \in Artifacts : AgentWrites(c, a)
  \/ \E call \in dockCalls : call.kind = "event" /\ CallAnswered(call)
AgentKeepsDrafts == [][Displaced => ~ByAgent]_dockVars

\* All of it: a report or a receipt is about the revision shown, the dock is busy for as
\* long as its newest call is under way, and an Agent does not replace a draft.
DockIsTrue == []ProofIsOfTheShown /\ []BusyEnds /\ AgentKeepsDrafts

================================================================================
