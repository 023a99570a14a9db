--------------------------------- MODULE MCHost ---------------------------------
(* The native host, the processes it starts, the channels that the Workspace Core *)
(* keeps for a window, and the dock of a window, on small instances.              *)
(*                                                                                *)
(* The Engine, the command-line Hara, the markers of the launches and the         *)
(* Workspace Core have files of their own, and a channel's messages and the       *)
(* deliverables of the dock are of their own too, so a behaviour follows one of   *)
(* them, the part chosen at the start, and the others stay as they are.           *)
EXTENDS NativeHost, PersonalChannels, DeliverableDock

\* The dock is looked at with something in it.
ASSUME DockIsUsed == Conversations # {} /\ Artifacts # {}

CONSTANT MaxFlows      \* bound on the flows of the Engine that are under way together
ASSUME MaxFlows \in Nat

VARIABLE part

Parts == {"engine", "markers", "cli", "core", "local", "rooms", "dock"}

Init ==
  /\ part \in Parts
  /\ InitHandoff /\ InitMarkers /\ InitManagedCli /\ InitCore
  /\ InitLocal /\ InitSends /\ InitDock
  \* What the parts start with matters only where they are followed.
  /\ part # "engine" => ~old
  /\ part # "cli" => cli = None /\ receipt = None
  /\ part # "dock" => front = CHOOSE c \in Conversations : TRUE

\* The parts that are not followed stay as they are.
Others ==
  /\ part' = part
  /\ IF part = "engine" THEN TRUE ELSE UNCHANGED handoffVars
  /\ IF part = "markers" THEN TRUE ELSE UNCHANGED markerVars
  /\ IF part = "cli" THEN TRUE ELSE UNCHANGED cliVars
  /\ IF part = "core" THEN TRUE ELSE UNCHANGED coreVars
  /\ IF part = "local" THEN TRUE ELSE UNCHANGED localVars
  /\ IF part = "rooms" THEN TRUE ELSE UNCHANGED sendVars
  /\ IF part = "dock" THEN TRUE ELSE UNCHANGED dockVars

EngineStep ==
  /\ part = "engine" /\ NextHandoff /\ Others
  /\ Cardinality({f \in Flows : pc'[f] # "off"}) <= MaxFlows
MarkersStep == part = "markers" /\ NextMarkers /\ Others
CliStep == part = "cli" /\ NextManagedCli /\ Others
CoreStep == part = "core" /\ NextCore /\ Others
LocalStep == part = "local" /\ NextLocal /\ Others
\* The user types in one room, and answers the cards of any.
RoomsStep ==
  /\ part = "rooms" /\ NextSends /\ Others
  /\ \A c \in Channels : drafts'[c] = 0 \/ c = CHOOSE r \in Channels : TRUE
\* Only one of the deliverables is revised, and of the conversations one stays, which is
\* the one whose dock the user hides.
DockStep ==
  /\ part = "dock" /\ NextDock /\ Others
  /\ \A a \in Artifacts : latest'[a] <= 1 \/ a = CHOOSE b \in Artifacts : TRUE
  /\ hidden' \subseteq {CHOOSE c \in Conversations : TRUE}
  /\ (CHOOSE c \in Conversations : TRUE) \in listed'

Next == EngineStep \/ MarkersStep \/ CliStep \/ CoreStep \/ LocalStep \/ RoomsStep \/ DockStep

hostVars == <<part, handoffVars, markerVars, cliVars, coreVars, localVars, sendVars,
              dockVars>>
Spec == Init /\ [][Next]_hostVars

--------------------------------------------------------------------------------
(* What a part keeps is looked at while that part is followed. *)

\* Every part keeps values of its types.
HostTypeOK ==
  CASE part = "engine" -> HandoffTypeOK
    [] part = "markers" -> MarkersTypeOK
    [] part = "cli" -> ManagedCliTypeOK
    [] part = "core" -> CoreTypeOK
    [] part = "local" -> LocalTypeOK
    [] part = "rooms" -> SendsTypeOK
    [] part = "dock" -> DockTypeOK
================================================================================
