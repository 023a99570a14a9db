---------------------------- MODULE PersonalChannels ----------------------------
(* The channels of a personal Workspace: which of them there are and what is shown   *)
(* of one (LocalChannels), and the messages that are sent to them                    *)
(* (LocalChannelSends). The two parts of WorkspaceLocalChannelsModel share no state  *)
(* that either depends on, so they take their steps apart.                           *)
EXTENDS LocalChannels, LocalChannelSends

ASSUME LocalAssumption == {MaxCreations, MaxUpdates, MaxMoves, MaxChanges, MaxLosses} \subseteq Nat
ASSUME LocalSendsAssumption ==
  {MaxTexts, MaxItems, MaxVisits, MaxChecks, MaxLost} \subseteq Nat /\ NoChannel \notin Channels

SpecChannels == SpecLocal /\ SpecSends

\* What the window shows of its channels, once idle, is what the Core has, or it says
\* that it may not be, and what the user creates once is created once (LocalChannels). A
\* text is accepted once, leaves its composer only for that, and stays known to be pending
\* across a reload (LocalChannelSends).
ChannelsAreTrue ==
  /\ LocalIsFresh /\ CreationIsKnown
  /\ TypedOnce /\ NothingDropped /\ OpenIsSaved
================================================================================
