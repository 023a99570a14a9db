------------------------------ MODULE WindowSends ------------------------------
(* What a window sends for the user and may have to send again: commands to        *)
(* external sessions (RemoteCommands), messages to a colleague (WorkspaceTasks) and *)
(* to a channel (CollaborationSends). They have no state in common.                *)
EXTENDS RemoteCommands, WorkspaceTasks, CollaborationSends

SpecWindowSends == SpecCommands /\ SpecTasks /\ SpecSends

\* What the user sends once is acted on once: a command to an external session, a
\* message to a colleague, a message to a channel, whatever is lost and repeated.
SentOnce == OneIdPerIntention /\ TaskSentOnce /\ PostedOnce
================================================================================
