------------------------------ MODULE WindowViews ------------------------------
(* What a window reads and shows: the team and the agents of the Workspace Core     *)
(* (WorkspaceView), the messages of a channel (Collaboration), and the Desks of the *)
(* organizations (GroupsDesk). They have no state in common.                        *)
EXTENDS WorkspaceView, Collaboration, GroupsDesk

SpecWindowViews == SpecView /\ SpecCollaboration /\ SpecGroups

\* What is read is shown as it is: an idle view shows what the Core has; the messages shown
\* of a channel have no gap from the oldest that was read up to the cursor, and what is
\* older can be loaded; a board or a task is of the Desk its organization is bound to, with
\* the user's own changes, and a switch to it is not shown for ever.
ViewsAreComplete == ViewIsFresh /\ NoGap /\ OfItsBinding /\ ShowsOwnChanges /\ ChoosingEnds
================================================================================
