-------------------------------- MODULE MCWindow --------------------------------
(* The parts of the window that keep state of their own, on small instances.      *)
(*                                                                                *)
(* They share no variable and call each other only through the client, so a       *)
(* behaviour follows one of them, the part chosen at the start, and the others    *)
(* stay as they are.                                                              *)
EXTENDS WorkspaceStartup, WindowViews, WindowSends

CONSTANTS
  Sessions, Grants, NoGrant, None, RevokeRequests, StateLimit, MaxEvents, MaxConnects, MaxSwitches,
  Requests, Turn, Limit, MaxFeed, MaxDrops,
  MaxFlying,  \* bound on the calls for hosted messages that are in flight together
  Messages, MaxChoices, BusyDelays, SendRetries, MaxTurns, MaxFaults,
  MaxKeys, MaxStreams, MaxUpdates, MaxHandoffs, Overlapping, MaxBreaks,
  Spaces, HomeSpace, HomeChats, HomeProjects, OtherChats, NoSession, Listed, MaxSteps, MaxOthers

ASSUME ApprovalsAssumption ==
  /\ StateLimit \in Nat \ {0} /\ {MaxEvents, MaxConnects, MaxSwitches} \subseteq Nat
  /\ IsFiniteSet(Sessions) /\ NoGrant \notin Grants
  /\ None \notin Grants \union {NoGrant} /\ None \notin [Sessions -> Grants \union {NoGrant}]
ASSUME InteractionsAssumption ==
  /\ IsFiniteSet(Requests) /\ Turn \subseteq Requests
  /\ Limit \in Nat \ {0} /\ {MaxFeed, MaxDrops} \subseteq Nat
ASSUME FlyingAssumption == MaxFlying \in Nat
ASSUME ModelsAssumption ==
  /\ IsFiniteSet(Messages)
  /\ {MaxChoices, BusyDelays, SendRetries, MaxTurns, MaxFaults} \subseteq Nat
ASSUME TerminalAssumption ==
  {MaxKeys, MaxStreams, MaxUpdates, MaxHandoffs, MaxBreaks} \subseteq Nat /\ Overlapping \in BOOLEAN
ASSUME SpacesAssumption ==
  /\ HomeSpace \in Spaces /\ "no Space" \notin Spaces /\ Spaces \ {HomeSpace} # {}
  /\ HomeChats \intersect (HomeProjects \union OtherChats) = {} /\ HomeProjects \intersect OtherChats = {}
  /\ NoSession \notin HomeChats \union HomeProjects \union OtherChats
  /\ Listed \subseteq HomeChats \union HomeProjects \union OtherChats
  /\ {MaxSteps, MaxOthers} \subseteq Nat

VARIABLES
  part,
  \* TaskApprovals
  serial, order, revisionOf, grantShown, requests, granted, grantWire, snapshot, grantPhase, grantClient,
  emitted, switches,
  \* ExternalInteractions
  cards, settled, expired, attempts, decision, linked, feed, replies, confirmed, open, asked, accepted,
  sent, crowded, drops,
  \* StagedModels
  atomic, chosen, staged, flush, senders, held, busy, live, calls, modelWire, engine, fate, modelMeant,
  ran, refused,
  \* TerminalInput
  surface, lines, jobs, terminalCalls, terminalWire, terminalHost, pressed, applied,
  \* SpaceSessions
  shell, painted, calling, home, rest, past

approvalVars == <<serial, order, revisionOf, grantShown, requests, granted, grantWire, snapshot,
                  grantPhase, grantClient, emitted, switches>>
interactionVars == <<cards, settled, expired, attempts, decision, linked, feed, replies, confirmed, open,
                     asked, accepted, sent, crowded, drops>>
stagedVars == <<atomic, chosen, staged, flush, senders, held, busy, live, calls, modelWire, engine, fate,
                modelMeant, ran, refused>>
terminalVars == <<surface, lines, jobs, terminalCalls, terminalWire, terminalHost, pressed, applied>>
spaceVars == <<shell, painted, calling, home, rest, past>>

Approvals == INSTANCE TaskApprovals WITH
  Requests <- RevokeRequests, shown <- grantShown, wire <- grantWire, phase <- grantPhase,
  client <- grantClient
Interactions == INSTANCE ExternalInteractions
Models == INSTANCE StagedModels WITH
  sends <- senders, queue <- held, wire <- modelWire, serve <- engine, meant <- modelMeant
Keyboard == INSTANCE TerminalInput WITH
  calls <- terminalCalls, wire <- terminalWire, host <- terminalHost, typed <- pressed
Conversations == HomeChats \union HomeProjects \union OtherChats
SpacesShown == INSTANCE SpaceSessions WITH
  Sessions <- Conversations, asked <- calling,
  Owner <- [s \in Conversations |-> IF s \in OtherChats THEN CHOOSE o \in Spaces : o # HomeSpace ELSE HomeSpace],
  Place <- [s \in Conversations |-> IF s \in HomeProjects THEN "projects" ELSE "chat"]
Parts == {"approvals", "commands", "interactions", "startup", "view", "tasks", "feed", "sends", "models",
          "terminal", "spaces", "groups"}

Init ==
  /\ part \in Parts
  /\ Approvals!Init /\ InitCommands /\ Interactions!InitInteractions /\ InitStartup
  /\ InitView
  \* The composer and the channel shown first do not matter.
  /\ InitTasks /\ key = CHOOSE k \in Keys : TRUE
  /\ InitCollaboration
  /\ InitSends /\ place = CHOOSE c \in Channels : TRUE
  /\ Models!InitStaged /\ (part # "models" => atomic)
  /\ Keyboard!InitTerminal /\ (part # "terminal" => terminalHost.controller = 0)
  /\ SpacesShown!InitSpaces /\ InitGroups

\* The parts that are not followed stay as they are.
Others ==
  /\ part' = part
  /\ IF part = "approvals" THEN TRUE ELSE UNCHANGED approvalVars
  /\ IF part = "commands" THEN TRUE ELSE UNCHANGED commandVars
  /\ IF part = "interactions" THEN TRUE ELSE UNCHANGED interactionVars
  /\ IF part = "startup" THEN TRUE ELSE UNCHANGED startupVars
  /\ IF part = "view" THEN TRUE ELSE UNCHANGED viewVars
  /\ IF part = "tasks" THEN TRUE ELSE UNCHANGED taskVars
  /\ IF part = "feed" THEN TRUE ELSE UNCHANGED collaborationVars
  /\ IF part = "sends" THEN TRUE ELSE UNCHANGED sendVars
  /\ IF part = "models" THEN TRUE ELSE UNCHANGED stagedVars
  /\ IF part = "terminal" THEN TRUE ELSE UNCHANGED terminalVars
  /\ IF part = "spaces" THEN TRUE ELSE UNCHANGED spaceVars
  /\ IF part = "groups" THEN TRUE ELSE UNCHANGED groupsVars

ApprovalsStep == part = "approvals" /\ Approvals!Next /\ Others
\* Intentions are interchangeable: the first attempt has one of them.
CommandsStep ==
  /\ part = "commands" /\ NextCommands /\ Others
  /\ tries'[1].intent \in {"none", CHOOSE i \in Intents : TRUE}
InteractionsStep == part = "interactions" /\ Interactions!NextInteractions /\ Others
StartupStep == part = "startup" /\ NextStartup /\ Others
ViewStep == part = "view" /\ NextView /\ Others
TasksStep == part = "tasks" /\ NextTasks /\ Others
\* Channels are interchangeable: the first that is selected is one of them.
FeedStep ==
  /\ part = "feed" /\ NextCollaboration /\ Others
  /\ Cardinality(flying') <= MaxFlying
  /\ reads = 0 /\ reads' = 1 => channel' = CHOOSE c \in FeedChannels : TRUE
SendsStep == part = "sends" /\ NextSends /\ Others
ModelsStep == part = "models" /\ Models!NextStaged /\ Others
TerminalStep == part = "terminal" /\ Keyboard!NextTerminal /\ Others
SpacesStep == part = "spaces" /\ SpacesShown!NextSpaces /\ Others
GroupsStep == part = "groups" /\ NextGroups /\ Others

Next == \/ ApprovalsStep \/ CommandsStep \/ InteractionsStep \/ StartupStep
        \/ ViewStep \/ TasksStep \/ FeedStep \/ SendsStep
        \/ ModelsStep \/ TerminalStep \/ SpacesStep \/ GroupsStep

windowVars == <<part, approvalVars, commandVars, interactionVars, startupVars, viewVars, taskVars,
                collaborationVars, sendVars, stagedVars, terminalVars, spaceVars, groupsVars>>
Spec == Init /\ [][Next]_windowVars

--------------------------------------------------------------------------------
(* What a part keeps is looked at while that part is followed. *)

\* Every part keeps values of its types.
WindowTypeOK ==
  CASE part = "approvals" -> Approvals!TypeOK
    [] part = "commands" -> CommandsTypeOK
    [] part = "interactions" -> Interactions!InteractionsTypeOK
    [] part = "startup" -> StartupTypeOK
    [] part = "view" -> ViewTypeOK
    [] part = "tasks" -> TasksTypeOK
    [] part = "feed" -> CollaborationTypeOK
    [] part = "sends" -> SendsTypeOK
    [] part = "models" -> Models!StagedTypeOK
    [] part = "terminal" -> Keyboard!TerminalTypeOK
    [] part = "spaces" -> SpacesShown!SpacesTypeOK
    [] part = "groups" -> GroupsTypeOK

\* Only what Serve still waits for can be answered, what it waits for is shown or was
\* crowded out, and one decision is sent for it, however often it is submitted
\* (ExternalInteractions).
DecidedOnce ==
  part = "interactions" => Interactions!ShownIsWaitedFor /\ Interactions!OneDecision

\* The conversation that is open is the one the user asked for last, of the place and the
\* Space that are shown, and read as a whole; the Space in the header is the one Serve is
\* in once nothing is awaited (SpaceSessions).
SpacesAreTrue ==
  part = "spaces" =>
    /\ SpacesShown!OpensTheNewest /\ SpacesShown!InItsPlace /\ SpacesShown!InItsSpace
    /\ SpacesShown!TrustedIsWhole /\ SpacesShown!HeaderIsServes

\* A message starts no turn on a model older than the newest choice at its dispatch, and
\* a choice is forgotten only once it is answered (StagedModels).
NewestChoiceIsUsed ==
  part = "models" => Models!NewestChoiceIsUsed /\ Models!ChoiceIsAnswered

\* Control of a terminal goes to another window only when every key the surface took has
\* reached the terminal, in order (TerminalInput).
HandoffIsExact == part = "terminal" => Keyboard!HandoffIsExact

\* With room for every session nothing that is valid gets lost: a receipt nothing
\* overtook is projected, and every live grant is shown once the events of its session
\* have arrived (TaskApprovals).
PermissionsAreTrue == part = "approvals" => Approvals!PermissionsAreTrue
================================================================================
