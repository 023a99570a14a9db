------------------------------- MODULE NativeHost -------------------------------
(* The processes that the native host starts and hands over: the Engine and its    *)
(* restarts (EngineHandoff), Desktop itself with the markers by which one run      *)
(* speaks to the next (LaunchMarkers), and the Workspace Core (WorkspaceCore);     *)
(* and the command-line Hara that it keeps for the user (ManagedCli). They have    *)
(* no state in common: the host does a step of any of them at any time.            *)
EXTENDS EngineHandoff, LaunchMarkers, WorkspaceCore, ManagedCli

HostSpec == SpecHandoff /\ SpecMarkers /\ SpecCore /\ SpecManagedCli

\* Discovery records are removed only of Engines that are gone, or that wrote theirs after
\* the comparison; an update is installed at most once and only behind a retired Engine;
\* and the host does not start a second Core while one of its own is at work.
ProcessesAreHandedOver == RecordsAreCompared /\ InstalledOnceRetired /\ OneCore
================================================================================
