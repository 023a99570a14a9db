------------------------------ MODULE SpaceSessions ------------------------------
(* Which Space the window shows, and which conversation is open in it (App.tsx:       *)
(* refreshSpaceDirectory, rememberSession, activateSession, setZone, refreshSessions, *)
(* newSession, startOrganizationSession, openSession, switchSpace,                    *)
(* runProviderRouteMutation, and the two effects on the conversation that is open).   *)
(*                                                                                    *)
(* Each of these awaits answers of Serve while the user goes on. Three request        *)
(* counters tell an answer that is still wanted: of the conversation to open, of the  *)
(* directory of Spaces, and of the switch. A call keeps whether its counter is still  *)
(* its own. Serve handles calls in their order, and the answers come in any order.    *)
EXTENDS Integers, SequencesExt

CONSTANTS
  Spaces, HomeSpace,      \* HomeSpace is "personal"
  Sessions, NoSession,
  Owner, Place,           \* the Space and the place of each session
  Listed,                 \* the sessions Serve has at the start
  MaxSteps,               \* bound on what the user does, copies left aside
  MaxOthers               \* bound on copies, closes, refusals, events and switches of others

NoSpace == "no Space"

VARIABLES
  shell,       \* what the window keeps
  painted,     \* what the effects of React have seen last
  asked,       \* the calls that are awaited
  home,        \* Serve: its active Space, how often that changed, and its sessions
  rest,        \* what is left of the bounds
  past         \* history: an old call opened a session; the Space shown may be an old one;
               \* others have switched

spaceVars == <<shell, painted, asked, home, rest, past>>

Places == {"chat", "projects"}
Zones == Places \union {"elsewhere"}
Kinds == {"directory", "list", "preflight", "resume", "replay", "create", "fork",
          "use", "snapshot", "restore", "resnapshot", "mutate", "reread"}
NothingRead == [s \in Sessions |-> "none"]
NoneRemembered == [p \in Places |-> NoSession]

SpacesTypeOK ==
  /\ shell.directory \in Spaces \union {NoSpace} /\ shell.shown \subseteq Sessions
  /\ shell.active \in Sessions \union {NoSession} /\ shell.zone \in Zones
  /\ shell.remembered \in [Spaces -> [Places -> Sessions \union {NoSession}]]
  /\ shell.attached \subseteq Sessions /\ shell.transcript \in [Sessions -> {"none", "partial", "whole"}]
  /\ {shell.inFlight, shell.creating, shell.copying, shell.linked} \subseteq BOOLEAN
  /\ \A i \in DOMAIN asked : asked[i].kind \in Kinds
  /\ home.space \in Spaces /\ home.sessions \subseteq Sessions

Unanswered == [fate |-> "none", space |-> NoSpace, version |-> 0, sessions |-> {}]
NoCall == [kind |-> "list", session |-> NoSession, place |-> "chat", space |-> NoSpace, from |-> NoSpace,
           newest |-> FALSE, flight |-> FALSE, mutation |-> FALSE, then |-> "nothing", recent |-> FALSE,
           answer |-> Unanswered]

InitSpaces ==
  /\ shell = [directory |-> HomeSpace, shown |-> Listed, active |-> NoSession, zone |-> "chat",
              remembered |-> [s \in Spaces |-> NoneRemembered], attached |-> {}, transcript |-> NothingRead,
              inFlight |-> FALSE, creating |-> FALSE, copying |-> FALSE, linked |-> TRUE]
  /\ painted = [active |-> NoSession, directory |-> HomeSpace, linked |-> TRUE]
  /\ asked = <<>>
  /\ home = [space |-> HomeSpace, version |-> 0, sessions |-> Listed, copies |-> {}]
  /\ rest = [steps |-> MaxSteps, others |-> MaxOthers]
  /\ past = [late |-> FALSE, blind |-> FALSE, others |-> FALSE]

--------------------------------------------------------------------------------
(* `d` is the window, so that what follows an answer is a function of it. *)

Window == [shell |-> shell, asked |-> asked, past |-> past]
Shows(d) == shell' = d.shell /\ asked' = d.asked /\ past' = d.past
Asks(d, call) == [d EXCEPT !.asked = Append(@, call)]
Each(d, Changed(_)) == [d EXCEPT !.asked = [i \in DOMAIN @ |-> Changed(@[i])]]

\* ++sessionOpenRequestRef.current, ++spaceDirectoryRequestRef.current and
\* ++spaceSwitchRequestRef.current: what was under way is no longer the newest.
OpensAgain(d) ==
  Each(d, LAMBDA c : IF c.kind = "directory" THEN c ELSE [c EXCEPT !.newest = FALSE])
ReadsAgain(d) ==
  Each(d, LAMBDA c : IF c.kind = "directory" THEN [c EXCEPT !.newest = FALSE] ELSE c)
SwitchesAgain(d) == Each(d, LAMBDA c : [c EXCEPT !.flight = FALSE])

\* refreshSpaceDirectory()
RefreshesDirectory(d) ==
  IF ~d.shell.linked THEN d
  ELSE Asks(ReadsAgain(d), [NoCall EXCEPT !.kind = "directory", !.newest = TRUE])

ActiveSpace(d) == IF d.shell.directory = NoSpace THEN HomeSpace ELSE d.shell.directory

\* rememberSession(): a session that is not listed is taken for one of the Space shown.
Remembers(d, s) ==
  LET space == IF s \in d.shell.shown THEN Owner[s] ELSE ActiveSpace(d)
  IN [d EXCEPT !.shell.remembered[space][Place[s]] = s]
RemembersActive(d) ==
  IF d.shell.active \in d.shell.shown THEN Remembers(d, d.shell.active) ELSE d

\* activateSession(), for a call that may not be the user's last step
Activates(d, s, recent) ==
  [Remembers(d, s) EXCEPT !.shell.active = s, !.past.late = @ \/ ~recent]
\* The place alone, whatever has been opened since.
MayActivateInPlace(d, call) == d.shell.zone = Place[call.session]
\* sessionActivationAllowed()
MayActivate(d, call) == call.newest /\ d.shell.zone = Place[call.session]
ActivatesIfAllowed(d, call) ==
  IF MayActivate(d, call) THEN Activates(d, call.session, call.recent) ELSE d

\* Sessions that stay attached when their transcripts go.
ClearsTranscripts(d) ==
  [OpensAgain(d) EXCEPT !.shell.active = NoSession, !.shell.shown = {}, !.shell.transcript = NothingRead]
\* clearEngineBoundSurfaces()
Clears(d) ==
  [OpensAgain(d) EXCEPT !.shell.attached = {}, !.shell.active = NoSession, !.shell.shown = {},
                        !.shell.transcript = NothingRead]

\* The end of switchSpace(), and of the runProviderRouteMutation() that called it.
Ends(d, call, reconciled) ==
  IF call.flight \/ (call.mutation /\ ~reconciled) THEN [d EXCEPT !.shell.inFlight = FALSE] ELSE d

\* openSession() from where the session is known to belong to the Space shown
Opened(d, call) ==
  IF d.shell.transcript[call.session] # "none" /\ call.session \in d.shell.attached
  THEN Ends(ActivatesIfAllowed(d, call), call, TRUE)
  ELSE Asks(d, [call EXCEPT !.kind = "resume", !.answer = Unanswered])

\* wrongSpace()
Elsewhere(d, s) == s \in d.shell.shown /\ Owner[s] # ActiveSpace(d)

\* openSession(): a session that is not listed is read before anything else.
OpensSession(d, call) ==
  LET s == call.session
      own == [call EXCEPT !.newest = TRUE, !.recent = TRUE, !.space = ActiveSpace(d)]
  IN IF Elsewhere(d, s) THEN Ends(d, call, TRUE)
     ELSE IF s \in d.shell.shown THEN Opened(OpensAgain(d), own)
     ELSE Asks(OpensAgain(d), [own EXCEPT !.kind = "preflight", !.answer = Unanswered])

\* switchSpace(), up to its first await
Switches(d, space, mutation) ==
  LET e == RemembersActive(SwitchesAgain(d))
  IN Asks([Clears(e) EXCEPT !.shell.inFlight = TRUE],
          [NoCall EXCEPT !.kind = IF mutation THEN "snapshot" ELSE "use", !.space = space,
                         !.from = d.shell.directory, !.flight = TRUE, !.mutation = mutation])

\* commitSnapshot()
Commits(d, call) ==
  [d EXCEPT !.shell.directory = call.space, !.shell.shown = call.answer.sessions,
            !.past.blind = call.answer.version < home.version]

Stale(d, call) == ~d.shell.linked \/ ~call.flight
Loaded(call) == call.answer.fate = "ok" /\ call.answer.space = call.space
\* Neither the new Space nor the earlier one can be shown.
ShowsNoSpace(d) == [d EXCEPT !.shell.directory = NoSpace, !.shell.shown = {}]

\* The conversations a switch may open: the remembered one, or the newest of its place.
Preferred(d, call) ==
  LET place == IF d.shell.zone = "projects" THEN "projects" ELSE "chat"
      candidates == {s \in call.answer.sessions : Owner[s] = call.space}
      local == {s \in candidates : Place[s] = place}
      remembered == d.shell.remembered[call.space][place]
  IN IF remembered \in local THEN {remembered}
     ELSE IF local # {} THEN local ELSE IF candidates # {} THEN candidates ELSE {NoSession}

--------------------------------------------------------------------------------
(* What follows an answer, or the rejection of a call. *)

Answered(call) == call.answer.fate = "ok"

\* Every answer taken for the newest.
AnyDirectoryRead(d, call) ==
  IF Answered(call) THEN [d EXCEPT !.shell.directory = call.answer.space] ELSE d
\* An answer of before the last change of the Space leaves the window blind.
DirectoryRead(d, call) ==
  IF Answered(call) /\ call.newest
  THEN [d EXCEPT !.shell.directory = call.answer.space,
                 !.past.blind = call.newest /\ call.answer.version < home.version]
  ELSE d

\* refreshSessions(), and what awaits it
SessionsRead(d, call) ==
  LET read == IF Answered(call) THEN [d EXCEPT !.shell.shown = call.answer.sessions] ELSE d
  IN CASE call.then = "nothing" -> read
       [] call.then = "copied" -> [read EXCEPT !.shell.copying = FALSE]
       [] call.then = "created" ->
            LET kept == [read EXCEPT !.shell.shown = @ \union {call.session}]
            IN ActivatesIfAllowed(Remembers(kept, call.session), call)

PreflightRead(d, call) ==
  IF Answered(call) /\ Owner[call.session] = call.space THEN Opened(d, call) ELSE d

\* A session that cannot be resumed is shown read-only.
SessionResumed(d, call) ==
  IF Answered(call)
  THEN LET held == [d EXCEPT !.shell.attached = @ \union {call.session},
                             !.shell.transcript[call.session] = "whole"]
       IN Ends(ActivatesIfAllowed(held, call), call, TRUE)
  ELSE IF d.shell.linked THEN Asks(d, [call EXCEPT !.kind = "replay", !.answer = Unanswered])
  ELSE Ends(d, call, TRUE)
SessionReplayed(d, call) ==
  IF Answered(call)
  THEN LET held == [d EXCEPT !.shell.attached = @ \ {call.session},
                             !.shell.transcript[call.session] = "whole"]
       IN Ends(ActivatesIfAllowed(held, call), call, TRUE)
  ELSE Ends(d, call, TRUE)

\* A company that refuses the session makes the directory be read again.
SessionCreated(d, call) ==
  LET idle == [d EXCEPT !.shell.creating = FALSE]
  IN CASE Answered(call) ->
            Asks([idle EXCEPT !.shell.attached = @ \union {call.session},
                              !.shell.transcript[call.session] = "whole"],
                 [call EXCEPT !.kind = "list", !.then = "created", !.answer = Unanswered])
       [] call.answer.fate = "access" -> RefreshesDirectory(idle)
       [] OTHER -> idle

\* The copy becomes active whatever the user has done since.
SessionCopied(d, call) ==
  IF ~Answered(call) THEN [d EXCEPT !.shell.copying = FALSE]
  ELSE Asks([Remembers(d, call.session) EXCEPT
               !.shell.attached = @ \union {call.session},
               !.shell.transcript[call.session] = "whole", !.shell.active = call.session],
            [call EXCEPT !.kind = "list", !.then = "copied", !.answer = Unanswered])

SwitchFailed(d, call) ==
  IF Stale(d, call) THEN Ends(d, call, FALSE)
  ELSE IF call.from = NoSpace THEN Ends(ShowsNoSpace(d), call, FALSE)
  ELSE Asks(d, [call EXCEPT !.kind = "restore", !.space = call.from, !.answer = Unanswered])
SpaceUsed(d, call) ==
  IF Loaded(call) THEN Asks(d, [call EXCEPT !.kind = "snapshot", !.answer = Unanswered])
  ELSE SwitchFailed(d, call)
SnapshotRead(d, call, preferred) ==
  IF ~Loaded(call) THEN SwitchFailed(d, call)
  ELSE IF Stale(d, call) THEN Ends(d, call, FALSE)
  ELSE IF preferred = NoSession
       THEN Ends([OpensAgain(Commits(d, call)) EXCEPT !.shell.active = NoSession], call, TRUE)
       ELSE OpensSession(Commits(d, call), [call EXCEPT !.session = preferred])

NotRestored(d, call) == Ends(IF Stale(d, call) THEN d ELSE ShowsNoSpace(d), call, FALSE)
SpaceRestored(d, call) ==
  IF Answered(call) THEN Asks(d, [call EXCEPT !.kind = "resnapshot", !.answer = Unanswered])
  ELSE NotRestored(d, call)
RestoredRead(d, call) ==
  IF Loaded(call) THEN Ends(IF Stale(d, call) THEN d ELSE Commits(d, call), call, FALSE)
  ELSE NotRestored(d, call)

\* runProviderRouteMutation(): the shield is handed to the switch that reads everything again.
RouteMutated(d, call) ==
  LET idle == [d EXCEPT !.shell.inFlight = FALSE]
  IN IF d.shell.linked THEN Asks(idle, [NoCall EXCEPT !.kind = "reread"]) ELSE idle
RouteReconciled(d, call) ==
  IF ~Answered(call) THEN [d EXCEPT !.shell.inFlight = FALSE, !.past.blind = TRUE]
  ELSE IF d.shell.inFlight THEN [d EXCEPT !.shell.inFlight = FALSE]
  ELSE Switches(d, call.answer.space, TRUE)

Continues(d, call, preferred) ==
  CASE call.kind = "directory" -> DirectoryRead(d, call)
    [] call.kind = "list" -> SessionsRead(d, call)
    [] call.kind = "preflight" -> PreflightRead(d, call)
    [] call.kind = "resume" -> SessionResumed(d, call)
    [] call.kind = "replay" -> SessionReplayed(d, call)
    [] call.kind = "create" -> SessionCreated(d, call)
    [] call.kind = "fork" -> SessionCopied(d, call)
    [] call.kind = "use" -> SpaceUsed(d, call)
    [] call.kind = "snapshot" -> SnapshotRead(d, call, preferred)
    [] call.kind = "restore" -> SpaceRestored(d, call)
    [] call.kind = "resnapshot" -> RestoredRead(d, call)
    [] call.kind = "mutate" -> RouteMutated(d, call)
    [] call.kind = "reread" -> RouteReconciled(d, call)

--------------------------------------------------------------------------------
(* The user. *)

Spend(what) == rest[what] > 0 /\ rest' = [rest EXCEPT ![what] = @ - 1]
\* A step of the user's makes everything asked before a thing of the past.
Steps(d) ==
  Shows([d EXCEPT !.asked = [i \in DOMAIN @ |-> [@[i] EXCEPT !.recent = i > Len(asked) /\ @]]])
UserStep == Spend("steps") /\ UNCHANGED <<painted, home>>

Opening(s) == [NoCall EXCEPT !.session = s]

\* openSession(): a conversation of the list, or one that a notification names
Open(s) ==
  /\ UserStep /\ shell.linked /\ s \in home.sessions
  /\ IF Elsewhere(Window, s) THEN Shows(Window) ELSE Steps(OpensSession(Window, Opening(s)))

\* newSession()
Create(place) ==
  /\ UserStep /\ shell.linked /\ ~shell.creating
  /\ Steps(Asks([OpensAgain(Window) EXCEPT !.shell.creating = TRUE],
                [NoCall EXCEPT !.kind = "create", !.place = place, !.newest = TRUE, !.recent = TRUE]))

\* startOrganizationSession(), and its twin for personal connections
Copy ==
  /\ Spend("others") /\ UNCHANGED <<painted, home>>
  /\ shell.linked /\ shell.active \in shell.shown /\ ~shell.copying
  /\ Shows(Asks([Window EXCEPT !.shell.copying = TRUE],
                [NoCall EXCEPT !.kind = "fork", !.session = shell.active]))

\* setZone()
Zoned(d, zone) ==
  LET leaving == shell.active \in shell.shown /\ Place[shell.active] = shell.zone
      left == OpensAgain(IF leaving THEN Remembers(d, shell.active) ELSE d)
      candidate == left.shell.remembered[ActiveSpace(d)][zone]
      allowed == candidate \in d.shell.shown /\ Owner[candidate] = ActiveSpace(d)
  IN [left EXCEPT !.shell.zone = zone,
                  !.shell.active = IF zone \in Places /\ allowed THEN candidate ELSE NoSession]
Move(zone) == UserStep /\ Steps(Zoned(Window, zone))

\* switchSpace(), from the menu of Spaces
Switch(space) ==
  /\ UserStep /\ shell.linked /\ ~shell.inFlight /\ shell.directory # space
  /\ Steps(Switches(Window, space, FALSE))

\* runProviderRouteMutation()
Mutate ==
  /\ UserStep /\ shell.linked /\ ~shell.inFlight
  /\ Steps(Asks([Clears(RemembersActive(Window)) EXCEPT !.shell.inFlight = TRUE],
                [NoCall EXCEPT !.kind = "mutate"]))

--------------------------------------------------------------------------------
(* The window. *)

Deliver ==
  /\ \E i \in DOMAIN asked : LET call == asked[i] IN
       /\ call.answer.fate # "none"
       /\ \E preferred \in IF call.kind = "snapshot" THEN Preferred(Window, call) ELSE {NoSession} :
            Shows(Continues([Window EXCEPT !.asked = RemoveAt(@, i)], call, preferred))
  /\ UNCHANGED <<painted, home, rest>>

\* The effects of React: on the conversation that is open (App.tsx:3820), which leaves
\* the directory it read behind, and on one that is not of the Space shown (3837).
Reads(d) ==
  IF painted.active = d.shell.active /\ painted.linked = d.shell.linked THEN d
  ELSE LET left == IF painted.linked /\ painted.active # NoSession THEN ReadsAgain(d) ELSE d
       IN IF d.shell.active = NoSession THEN left ELSE RefreshesDirectory(left)
Belongs(d) == d.shell.active \in d.shell.shown /\ Owner[d.shell.active] = d.shell.directory
Leaves(d) ==
  IF \/ painted.active = d.shell.active /\ painted.directory = d.shell.directory
     \/ d.shell.active = NoSession \/ d.shell.directory = NoSpace \/ Belongs(d)
  THEN d
  ELSE [OpensAgain(d) EXCEPT !.shell.active = NoSession]
Painting == [active |-> shell.active, directory |-> shell.directory, linked |-> shell.linked]
Paint ==
  /\ painted # Painting /\ painted' = Painting
  /\ Shows(Leaves(Reads(Window))) /\ UNCHANGED <<home, rest>>

\* The socket closes: onClose clears, and every call is rejected after it.
Lost(d) ==
  LET cleared == ReadsAgain(Clears([d EXCEPT !.shell.linked = FALSE, !.shell.directory = NoSpace]))
      Rejected(e, call) == Continues(e, call, NoSession)
  IN FoldLeft(Rejected, [cleared EXCEPT !.asked = <<>>],
              [i \in DOMAIN cleared.asked |-> [cleared.asked[i] EXCEPT !.answer = Unanswered]])
Break ==
  /\ Spend("others") /\ shell.linked
  /\ Shows(Lost(Window)) /\ UNCHANGED <<painted, home>>

\* connect(), up to the phase "ready"; React has caught up with the close long before.
Connect ==
  /\ ~shell.linked /\ painted = Painting
  /\ Shows(RefreshesDirectory([Clears(Window) EXCEPT !.shell.linked = TRUE,
                                                     !.shell.shown = home.sessions]))
  /\ UNCHANGED <<painted, home, rest>>

\* The late events of a turn make a conversation that is not there a partial one.
Stream(s) ==
  /\ Spend("others") /\ shell.linked /\ s \in home.sessions
  \* A history is answered in order with the events of its session.
  /\ \A i \in DOMAIN asked : asked[i].session = s => asked[i].answer.fate = "none"
  /\ shell' = [shell EXCEPT !.transcript[s] = IF @ = "none" THEN "partial" ELSE @]
  /\ UNCHANGED <<painted, asked, home, past>>

\* event.session_changed
Announce ==
  /\ Spend("others") /\ shell.linked
  /\ Shows(Asks(Window, NoCall)) /\ UNCHANGED <<painted, home>>

--------------------------------------------------------------------------------
(* Serve. *)

\* The sessions Serve may make for a call
Fresh(call) ==
  CASE call.kind = "create" -> {s \in Sessions \ home.sessions : Owner[s] = home.space /\ Place[s] = call.place}
    [] call.kind = "fork" -> {s \in Sessions \ home.sessions :
                                Owner[s] = Owner[call.session] /\ Place[s] = Place[call.session]}
    [] OTHER -> {call.session}

\* The calls are handled in their order, and React has caught up by then.
Handled(call, fate, made, space) ==
  /\ home' = [home EXCEPT !.space = space, !.version = IF space = home.space THEN @ ELSE @ + 1,
                          !.sessions = @ \union ({made} \ {NoSession}),
                          !.copies = IF call.kind = "fork" /\ fate = "ok" THEN @ \union {made} ELSE @]
  /\ asked' = LET i == CHOOSE j \in DOMAIN asked : asked[j] = call
              IN [asked EXCEPT ![i].session = made,
                               ![i].answer = [fate |-> fate, space |-> space, version |-> home'.version,
                                              sessions |-> home'.sessions]]
First == SelectSeq(asked, LAMBDA c : c.answer.fate = "none")[1]
Waiting == painted = Painting /\ \E i \in DOMAIN asked : asked[i].answer.fate = "none"
Serves ==
  /\ Waiting
  /\ \E made \in Fresh(First), space \in Spaces :
       /\ CASE First.kind \in {"use", "restore"} -> space = First.space
            [] First.kind = "mutate" -> TRUE
            [] OTHER -> space = home.space
       /\ Handled(First, "ok", made, space)
  /\ UNCHANGED <<shell, painted, rest, past>>
Refuse ==
  /\ Spend("others") /\ Waiting
  /\ \E fate \in IF First.kind = "create" THEN {"refused", "access"} ELSE {"refused"} :
       Handled(First, fate, First.session, home.space)
  /\ UNCHANGED <<shell, painted, past>>

\* Another window, or the command line, switches the Space.
OtherSwitch(space) ==
  /\ Spend("others") /\ space # home.space
  /\ home' = [home EXCEPT !.space = space, !.version = @ + 1]
  /\ past' = [past EXCEPT !.others = TRUE]
  /\ UNCHANGED <<shell, painted, asked>>

NextSpaces ==
  \/ \E s \in Sessions : Open(s) \/ Stream(s)
  \/ \E place \in Places : Create(place)
  \/ \E zone \in Zones : Move(zone)
  \/ \E space \in Spaces : Switch(space) \/ OtherSwitch(space)
  \/ Copy \/ Mutate \/ Deliver \/ Paint \/ Break \/ Connect \/ Announce \/ Serves \/ Refuse
SpecSpaces == InitSpaces /\ [][NextSpaces]_spaceVars

--------------------------------------------------------------------------------
(* What the window owes. *)

\* A conversation is opened by what the user did last, and never by the late answer to
\* something before it (sessionOpenRequestRef). A switch opens a conversation of its own
\* once its Space is shown, which counts as new; a copy is the exception, see SessionCopied.
OpensTheNewest == ~past.late

\* The conversation that is open is one of the place that is shown, whatever was
\* answered late; only a copy may open elsewhere.
InItsPlace == shell.active \in {NoSession} \union home.copies \/ Place[shell.active] = shell.zone

\* Once React has caught up, the conversation that is open belongs to the Space in the
\* header, whoever has switched; a copy that is opened between two renders is the exception.
InItsSpace ==
  painted = Painting /\ shell.active \notin {NoSession} \union home.copies /\ shell.directory # NoSpace
    => Owner[shell.active] = shell.directory

\* A conversation held as attached is shown from its whole history, never from the late
\* events of a turn alone: openSession() does not read its history again.
TrustedIsWhole == \A s \in shell.attached : shell.transcript[s] # "partial"

\* When nothing is awaited, the header shows the Space Serve is in, and the shield is
\* lifted; unless somebody else switched, reading it again after a change of the route
\* failed, or an answer of before the last switch came after it (past.blind).
HeaderIsServes ==
  painted = Painting /\ asked = <<>> /\ shell.linked =>
    /\ ~shell.inFlight /\ ~shell.creating /\ ~shell.copying
    /\ shell.directory = NoSpace \/ past.blind \/ past.others \/ shell.directory = home.space
================================================================================
