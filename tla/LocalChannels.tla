------------------------------ MODULE LocalChannels ------------------------------
(* The personal channels of a Workspace (workspace-local-channels.ts: bind, select,   *)
(* refresh, create, verifyCreation, updateMembers).                                   *)
(*                                                                                    *)
(* The Core keeps the catalog and the channels, each under a revision, and every      *)
(* change makes the view refresh. A refresh reads the catalog and then the channel    *)
(* that is selected; a change announced meanwhile makes it dirty, and a selection or  *)
(* another Workspace leaves it behind. A channel is created under an id of the        *)
(* renderer; when the answer does not come, the creation is unknown until the catalog *)
(* has the channel.                                                                   *)
EXTENDS Integers, Sequences

CONSTANTS
  MaxCreations,  \* bound on the channels the user creates
  MaxUpdates,    \* bound on the members the user saves
  MaxMoves,      \* bound on the selections and on the visits of another Workspace
  MaxChanges,    \* bound on the changes of others
  MaxLosses      \* bound on the requests the Core fails, or answers too late or out of order

VARIABLES
  view,        \* the Workspace, epoch, selection and what is shown
  refreshing,  \* the work under way, and whether it is dirty
  creation,    \* the id being created; 0 is none
  savers,      \* updateMembers() calls that await the work of a refresh
  calls,       \* what the Core has not read
  wire,        \* answers and announcements
  localCore,   \* the catalog and the channels of the Core
  left,        \* what is left of the bounds
  fates,       \* history: what became of each creation at the Core
  overlooked   \* history: the catalog is known to be old, and nothing says so

localVars == <<view, refreshing, creation, savers, calls, wire, localCore, left, fates, overlooked>>

Ids == 1..MaxCreations + 1   \* channel 1 is there from the start
Room == 1
Never == -1
NoCatalog == [revision |-> Never, ids |-> {}]
Fates == {"none", "open", "created", "refused"}

LocalTypeOK ==
  /\ view.home \in BOOLEAN /\ view.saving \in BOOLEAN /\ view.unknown \in BOOLEAN
  /\ {view.epoch, view.selection} \subseteq Nat
  /\ view.catalog.revision \in Never..localCore.revision /\ view.catalog.ids \subseteq localCore.ids
  /\ view.channel \in Ids \union {0} /\ view.shown \in Int
  /\ view.error \in {"none", "load", "unknown", "refused"}
  /\ refreshing.n \in Nat /\ refreshing.dirty \in BOOLEAN
  /\ creation \in Ids \union {0} /\ savers \subseteq [n : Nat, epoch : Nat]
  /\ localCore.ids \subseteq Ids
  /\ fates \in [Ids -> Fates]
  /\ overlooked \in BOOLEAN

Blank == [home |-> FALSE, epoch |-> 0, selection |-> 0, catalog |-> NoCatalog, channel |-> 0,
          shown |-> Never, error |-> "none", saving |-> FALSE, unknown |-> FALSE]
NoWork == [n |-> 0, dirty |-> FALSE, last |-> 0]

\* Nothing is bound yet.
InitLocal ==
  /\ view = Blank /\ refreshing = NoWork /\ creation = 0 /\ savers = {}
  /\ calls = <<>> /\ wire = <<>>
  /\ localCore = [revision |-> 0, ids |-> {Room}, rooms |-> [c \in Ids |-> 0]]
  /\ left = [moves |-> MaxMoves, updates |-> MaxUpdates, changes |-> MaxChanges, losses |-> MaxLosses]
  /\ fates = [c \in Ids |-> "none"]
  /\ overlooked = FALSE

--------------------------------------------------------------------------------
(* The renderer. `d` is its state, so that what follows an answer is a function.    *)

Desk == [view |-> view, refreshing |-> refreshing, creation |-> creation, savers |-> savers, calls |-> calls,
         overlooked |-> overlooked]
Becomes(d) ==
  /\ view' = d.view /\ refreshing' = d.refreshing /\ creation' = d.creation
  /\ savers' = d.savers /\ calls' = d.calls /\ overlooked' = d.overlooked

\* A request remembers the epoch, the selection and the work it belongs to.
Asks(d, kind, n, channel) ==
  [d EXCEPT !.calls = Append(@, [kind |-> kind, n |-> n, channel |-> channel, epoch |-> d.view.epoch,
                                 selection |-> d.view.selection, expected |-> d.view.catalog.revision,
                                 late |-> FALSE])]
SameEpoch(d, call) == d.view.epoch = call.epoch
CurrentFor(d, call) == SameEpoch(d, call) /\ d.view.selection = call.selection
FailsAs(d, error) == [d EXCEPT !.view.error = error]

\* refresh()
Refreshed(d) ==
  IF ~d.view.home THEN d
  ELSE IF d.refreshing.n # 0 THEN [d EXCEPT !.refreshing.dirty = TRUE]
  ELSE LET n == d.refreshing.last + 1
       IN Asks([d EXCEPT !.refreshing = [n |-> n, dirty |-> FALSE, last |-> n], !.overlooked = FALSE],
               "list", n, d.view.channel)

\* A selection leaves the work behind, with the changes it was to read again.
Idles(d) == [d EXCEPT !.refreshing.n = 0, !.refreshing.dirty = FALSE]
Leaves(d) == [Idles(d) EXCEPT !.view.selection = @ + 1]
ForgetsWork(d) == [d EXCEPT !.overlooked = @ \/ d.refreshing.dirty \/ d.view.error = "load"]

\* applyCatalog()
WithCatalog(d, value) ==
  IF value.revision < d.view.catalog.revision THEN d
  ELSE [d EXCEPT !.view.catalog = [revision |-> value.revision, ids |-> value.ids],
                 !.view.error = IF @ = "load" THEN "none" ELSE @,
                 !.overlooked = @ \/ d.view.error = "load"]

\* apply(): a snapshot is not replaced by an older one.
WithChannel(d, channel, value) ==
  IF value.room < d.view.shown THEN d
  ELSE [d EXCEPT !.view.shown = value.room, !.view.error = IF @ = "load" THEN "none" ELSE @,
                 !.overlooked = @ \/ d.view.error = "load"]

\* select()
Selected(d, channel) ==
  IF channel \notin d.view.catalog.ids THEN d
  ELSE LET e == Leaves(ForgetsWork(d))
       IN Asks([e EXCEPT !.view.channel = channel, !.view.shown = Never, !.view.error = "none"],
               "select", 0, channel)

\* The end of the work of refresh(), and of whoever awaits it.
WorkEnds(d, n) ==
  LET ended == {s \in d.savers : s.n = n}
  IN [IF d.refreshing.n = n THEN Idles(d) ELSE d
        EXCEPT !.savers = @ \ ended,
               !.view.saving = @ /\ \A s \in ended : s.epoch # d.view.epoch]

\* Mutant of RoundEnds: a change announced during a refresh is not read.
RoundEndsOnce(d, call) == WorkEnds(d, call.n)

\* The end of a round of refresh(): a dirty one is followed by another.
RoundEnds(d, call) ==
  IF d.refreshing.n = call.n /\ d.refreshing.dirty /\ CurrentFor(d, call)
  THEN Asks([d EXCEPT !.refreshing.dirty = FALSE, !.overlooked = FALSE], "list", call.n, call.channel)
  ELSE WorkEnds(d, call.n)

\* loadCatalog()
Listed(d, call, answer) ==
  IF ~SameEpoch(d, call) THEN d
  ELSE IF answer.result = "ok" THEN WithCatalog(d, answer.value) ELSE FailsAs(d, "load")

\* The catalog of a refresh, of bind() (work 0), or of verifyCreation().
ListAnswered(d, call, answer) ==
  LET e == Listed(d, call, answer)
  IN IF call.n = 0 THEN e
     ELSE IF ~CurrentFor(e, call) THEN WorkEnds(e, call.n)
     ELSE IF call.channel # 0 THEN Asks(e, "snapshot", call.n, call.channel)
     ELSE RoundEnds(e, call)

ChannelAnswered(d, call, answer) ==
  LET e == IF ~CurrentFor(d, call) THEN d
           ELSE IF answer.result = "ok" THEN WithChannel(d, call.channel, answer.value) ELSE FailsAs(d, "load")
  IN IF call.kind = "select" THEN e ELSE RoundEnds(e, call)

\* create() after its await: the view may have left and come back.
CreateAnswered(d, call, answer) ==
  LET again == SameEpoch(d, call)
      known == [d EXCEPT !.creation = 0]
      e == WithCatalog([known EXCEPT !.view.unknown = FALSE], answer.value)
      f == IF again THEN [e EXCEPT !.view.saving = FALSE, !.view.error = "none",
                                   !.overlooked = @ \/ e.view.error = "load"] ELSE e
      g == IF answer.result = "refused" THEN known ELSE d
  IN IF d.creation # call.channel THEN d
     ELSE IF answer.result = "ok"
     THEN IF ~d.view.home THEN known
          ELSE IF CurrentFor(d, call) THEN Selected(f, call.channel) ELSE f
     ELSE IF ~d.view.home THEN g
     ELSE LET h == [g EXCEPT !.view.unknown = g.creation # 0]
          IN IF again THEN FailsAs([h EXCEPT !.view.saving = FALSE, !.overlooked = @ \/ d.view.error = "load"],
                                 answer.result)
             ELSE h

\* verifyCreation() after its await.
VerifyAnswered(d, call, answer) ==
  LET e == Listed(d, call, answer)
      f == [e EXCEPT !.creation = 0, !.view.unknown = FALSE, !.view.error = "none",
                     !.overlooked = @ \/ e.view.error = "load"]
  IN IF ~SameEpoch(e, call) \/ e.creation # call.channel THEN e
     ELSE IF call.channel \notin e.view.catalog.ids
     THEN FailsAs([e EXCEPT !.overlooked = @ \/ e.view.error = "load"], "unknown")
     ELSE IF CurrentFor(d, call) THEN Selected(f, call.channel) ELSE f

\* updateMembers() after its await: snapshots that are older than the saved members are
\* left behind before the channel is read back, and its finally follows that.
Saves(d) ==
  LET e == Refreshed(d)
  IN [e EXCEPT !.savers = @ \union {[n |-> e.refreshing.n, epoch |-> e.view.epoch]}]

UpdateAnswered(d, call, answer) ==
  LET e == IF answer.result = "ok" THEN WithCatalog(d, answer.value) ELSE d
  IN IF ~SameEpoch(d, call) THEN d
     ELSE IF ~CurrentFor(d, call) THEN [e EXCEPT !.view.saving = FALSE]
     ELSE IF answer.result = "ok" THEN Saves(Leaves(e))
     ELSE Saves([e EXCEPT !.view.saving = FALSE, !.view.error = "refused",
                          !.overlooked = @ \/ d.view.error = "load"])

\* Answers come in order, except for a slow one, which others overtake.
Receive ==
  /\ \E i \in 1..Len(wire) :
       /\ wire' = SubSeq(wire, 1, i - 1) \o SubSeq(wire, i + 1, Len(wire))
       /\ wire[i].slow \/ \A j \in 1..i - 1 : wire[j].slow
       /\ LET answer == wire[i]
              call == answer.call
              d == CASE call.kind = "list" -> ListAnswered(Desk, call, answer)
                     [] call.kind \in {"select", "snapshot"} -> ChannelAnswered(Desk, call, answer)
                     [] call.kind = "create" -> CreateAnswered(Desk, call, answer)
                     [] call.kind = "verify" -> VerifyAnswered(Desk, call, answer)
                     [] call.kind = "update" -> UpdateAnswered(Desk, call, answer)
                     [] call.kind = "changed" -> Refreshed(Desk)
          IN Becomes(d)
  /\ UNCHANGED <<localCore, left, fates>>

Unchanged == UNCHANGED <<wire, localCore, fates>>

\* bind(): nothing of another Workspace is kept, except what is being created.
Bound(d, home) ==
  [Leaves(d) EXCEPT !.view = [Blank EXCEPT !.home = home, !.epoch = d.view.epoch + 1,
                                           !.selection = d.view.selection + 1,
                                           !.unknown = home /\ d.creation # 0]]

\* The Workspace is shown: its channels are bound, and refreshed as after any change.
Bind ==
  /\ ~view.home /\ Becomes(Refreshed(Asks(Bound(Desk, TRUE), "list", 0, 0)))
  /\ Unchanged /\ UNCHANGED left

Moves(d) == left.moves > 0 /\ left' = [left EXCEPT !.moves = @ - 1] /\ Becomes(d) /\ Unchanged

\* bind() with another Workspace, whose channels are not followed.
Leave == view.home /\ Moves(Bound(Desk, FALSE))

\* The window is loaded again: what is being created is saved, and no answer arrives.
Reload ==
  /\ left.moves > 0 /\ left' = [left EXCEPT !.moves = @ - 1]
  /\ view' = Blank /\ refreshing' = NoWork /\ savers' = {} /\ wire' = <<>> /\ overlooked' = FALSE
  /\ calls' = [i \in 1..Len(calls) |-> [calls[i] EXCEPT !.late = TRUE]]
  /\ UNCHANGED <<creation, localCore, fates>>

Select == \E c \in view.catalog.ids : view.home /\ Moves(Selected(Desk, c))
ClearSelection ==
  /\ view.channel # 0
  /\ Moves([Leaves(ForgetsWork(Desk)) EXCEPT !.view.channel = 0, !.view.shown = Never, !.view.error = "none"])

\* create()
Create ==
  /\ view.catalog # NoCatalog /\ ~view.saving /\ creation = 0
  /\ \E c \in Ids \ {Room} :
       /\ fates[c] = "none" /\ \A e \in 2..c - 1 : fates[e] # "none"
       /\ fates' = [fates EXCEPT ![c] = "open"]
       /\ Becomes(Asks([Desk EXCEPT !.creation = c, !.view.saving = TRUE, !.view.error = "none",
                                    !.overlooked = @ \/ view.error = "load"], "create", 0, c))
  /\ UNCHANGED <<wire, localCore, left>>

\* verifyCreation(): what the dialog offers when the creation is unknown.
VerifyCreation ==
  /\ view.unknown /\ creation # 0 /\ Moves(Asks(Desk, "verify", 0, creation))

\* updateMembers()
Update ==
  /\ view.catalog # NoCatalog /\ view.channel # 0 /\ ~view.saving
  /\ left.updates > 0 /\ left' = [left EXCEPT !.updates = @ - 1]
  /\ Becomes(Asks([Desk EXCEPT !.view.saving = TRUE, !.view.error = "none",
                               !.overlooked = @ \/ view.error = "load"], "update", 0, view.channel))
  /\ Unchanged

--------------------------------------------------------------------------------
(* The Core, as src/ relies on it: one request after the other, a revision for each  *)
(* change, and an announcement that makes the Workspace view, and so the channels,   *)
(* read again. A change that expects another revision is refused.                    *)

Value(c, channel) ==
  [revision |-> c.revision, ids |-> c.ids, room |-> IF channel = 0 THEN 0 ELSE c.rooms[channel]]
Changed == [call |-> [kind |-> "changed"], slow |-> FALSE]

Written(call) ==
  [localCore EXCEPT !.revision = @ + 1, !.ids = @ \union {call.channel}, !.rooms[call.channel] = @ + 1]
Writing(call) == call.kind \in {"create", "update"}
Good(call) == Writing(call) => call.expected = localCore.revision
Decide(call, fate) == IF call.kind = "create" THEN [fates EXCEPT ![call.channel] = fate] ELSE fates

\* An answer may be slow, and a request whose time is up has none.
Answers(call, result, c, changes, slow) ==
  LET answer == [call |-> call, result |-> result, value |-> Value(c, call.channel), slow |-> slow]
      told == IF call.late THEN <<>> ELSE <<answer>>
  IN wire' = wire \o told \o IF changes THEN <<Changed>> ELSE <<>>

\* What the Core does for a request; an answer that it does not give is a timeout.
Does(call, answered, slow) ==
  LET c == IF Good(call) /\ Writing(call) THEN Written(call) ELSE localCore
      result == IF ~answered THEN "unknown" ELSE IF Good(call) THEN "ok" ELSE "refused"
  IN /\ localCore' = c /\ Answers(call, result, c, c # localCore, slow)
     /\ fates' = Decide(call, IF Good(call) THEN "created" ELSE "refused")

Loses == left.losses > 0 /\ left' = [left EXCEPT !.losses = @ - 1]

CoreReads ==
  /\ calls # <<>>
  /\ LET call == Head(calls)
     IN \/ Does(call, TRUE, FALSE) /\ calls' = Tail(calls) /\ UNCHANGED left
        \/ Loses /\ calls' = Tail(calls) /\ \E answered \in BOOLEAN : Does(call, answered, answered)
        \* The request times out before the Core reads it.
        \/ /\ Loses /\ ~call.late /\ Answers(call, "unknown", localCore, FALSE, FALSE)
           /\ calls' = Append(Tail(calls), [call EXCEPT !.late = TRUE]) /\ UNCHANGED <<localCore, fates>>
  /\ UNCHANGED <<view, refreshing, creation, savers, overlooked>>

OthersChange ==
  /\ left.changes > 0 /\ left' = [left EXCEPT !.changes = @ - 1]
  /\ \E c \in localCore.ids : localCore' = [localCore EXCEPT !.revision = @ + 1, !.rooms[c] = @ + 1]
  /\ wire' = Append(wire, Changed)
  /\ UNCHANGED <<view, refreshing, creation, savers, calls, fates, overlooked>>

NextLocal ==
  \/ Bind \/ Leave \/ Reload \/ Select \/ ClearSelection \/ Create \/ VerifyCreation \/ Update \/ Receive
  \/ CoreReads \/ OthersChange

SpecLocal == InitLocal /\ [][NextLocal]_localVars

--------------------------------------------------------------------------------
Quiet == calls = <<>> /\ wire = <<>>

\* When nothing is under way, what is shown of a Workspace is what the Core has, or an
\* error says that it may not be, and no operation is left busy.
LocalIsFresh ==
  Quiet /\ view.home =>
    /\ view.catalog.revision = localCore.revision \/ view.error # "none" \/ overlooked
    /\ view.channel # 0 => view.shown = localCore.rooms[view.channel] \/ view.error # "none" \/ overlooked
    /\ ~view.saving /\ refreshing.n = 0

\* A creation is forgotten only when it is known whether the channel was created: what
\* the user creates once is not created twice.
CreationIsKnown == \A c \in Ids \ {Room} : fates[c] = "open" => creation = c
================================================================================
