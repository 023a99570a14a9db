------------------------------ MODULE Collaboration ------------------------------
(* The hosted messages a Workspace window shows (workspace-collaboration-state.ts:  *)
(* selectWorkspace, selectChannel, loadHistory, sync, send, failure).               *)
(*                                                                                  *)
(* The window keeps the messages of one channel. It reads the newest page of their  *)
(* history, then older pages, and moves a cursor through the events of the whole    *)
(* Workspace with sync, dropping the messages of other channels. A visit of the     *)
(* Workspace has an epoch and a read of the history a number, so that the answers   *)
(* of an earlier visit, channel or read count for nothing. Messages are numbered by *)
(* their sequence, which is also the position of their event.                       *)
(*                                                                                  *)
(* A message of the window's own is sent under a key, and sent again under the same *)
(* one when its outcome is not known. The service accepts a key once, and answers   *)
(* with the message it accepted then, however old it is by now: the window shows it *)
(* among newer ones. What becomes of the texts and drafts is in CollaborationSends. *)
EXTENDS Naturals, FiniteSets, Sequences, FiniteSetsExt

CONSTANTS
  FeedChannels,
  NoChannel,
  HistoryPage,  \* messages of a page of the history
  SyncPage,     \* events of an answer to sync
  MaxShown,     \* the 500 messages the view keeps
  MaxMessages,  \* bound on the messages posted
  MaxKeyed,     \* bound on the messages the window sends
  MaxReads      \* bound on the selections of the Workspace and the reads of the history

ASSUME CollaborationAssumption ==
  /\ NoChannel \notin FeedChannels
  /\ {HistoryPage, SyncPage, MaxShown} \subseteq Nat \ {0}
  /\ {MaxMessages, MaxKeyed, MaxReads} \subseteq Nat

VARIABLES
  posted,     \* the server: the channel of each message
  visit,      \* this.epoch
  ready,      \* phase = "ready"
  channel,    \* channelId
  cursor,     \* bootstrap.cursor
  messages,   \* the messages shown
  history,    \* history: its phase, and nextBefore (0 is null)
  reads,      \* historyRequest
  syncing,    \* syncEpoch; 0 is null
  flying,     \* requests in flight, with their replies once the server has read them
  keyed,      \* the messages sent under each key: their channel, and 0 or what they were posted as
  outbox,     \* pending, of each channel: the key (0 is none), and state = "sending"
  echoed      \* history: messages shown that only the answer to a send has brought

collaborationVars == <<posted, visit, ready, channel, cursor, messages, history, reads, syncing,
                       flying, keyed, outbox, echoed>>

MessageNumbers == 1..MaxMessages
NoPosts == [c \in FeedChannels |-> [key |-> 0, sending |-> FALSE]]
NoReply == [read |-> FALSE, messages |-> {}, mark |-> 0]
Call(kind, request, who, mark, reply) ==
  [kind |-> kind, visit |-> visit, request |-> request, channel |-> who, mark |-> mark, reply |-> reply]

CollaborationTypeOK ==
  /\ posted \in Seq(FeedChannels) /\ Len(posted) <= MaxMessages
  /\ visit \in 0..MaxReads /\ syncing \in 0..MaxReads /\ reads \in 0..MaxReads
  /\ ready \in BOOLEAN
  /\ channel \in FeedChannels \union {NoChannel}
  /\ cursor \in 0..MaxMessages
  /\ messages \subseteq MessageNumbers /\ Cardinality(messages) <= MaxShown
  /\ history \in [phase : {"idle", "loading", "ready", "error"}, before : 0..MaxMessages]
  /\ \A c \in flying : /\ c.kind \in {"bootstrap", "history", "sync"}
                       /\ c.visit \in 1..MaxReads /\ c.reply.messages \subseteq MessageNumbers
  /\ keyed \in Seq([channel : FeedChannels, message : 0..MaxMessages]) /\ Len(keyed) <= MaxKeyed
  /\ outbox \in [FeedChannels -> [key : 0..MaxKeyed, sending : BOOLEAN]]
  /\ echoed \subseteq MessageNumbers

InitCollaboration ==
  /\ posted = <<>> /\ visit = 0 /\ ready = FALSE /\ channel = NoChannel /\ cursor = 0
  /\ messages = {} /\ history = [phase |-> "idle", before |-> 0]
  /\ reads = 0 /\ syncing = 0 /\ flying = {}
  /\ keyed = <<>> /\ outbox = NoPosts /\ echoed = {}

--------------------------------------------------------------------------------
(* The window. *)

\* mergeCollaborationMessages(): by sequence, the newest of them.
Kept(some) == {m \in some : Cardinality({n \in some : n > m}) < MaxShown}

\* Nothing of the Workspace is shown any more.
Leaves ==
  /\ visit + reads < MaxReads
  /\ visit' = visit + 1
  /\ ready' = FALSE /\ channel' = NoChannel /\ cursor' = 0 /\ messages' = {} /\ echoed' = {}

\* What is being sent is unknown from here on, and can be sent again.
SelectWorkspace ==
  /\ Leaves
  /\ syncing' = 0
  /\ flying' = flying \union {[Call("bootstrap", 0, NoChannel, 0, NoReply) EXCEPT !.visit = visit + 1]}
  /\ outbox' = [c \in FeedChannels |-> [outbox[c] EXCEPT !.sending = FALSE]]
  /\ UNCHANGED <<posted, history, reads, keyed>>

\* failure() with a code that revokes the access: messages to be sent are forgotten, too.
Revoked ==
  /\ Leaves
  /\ history' = [phase |-> "idle", before |-> 0] /\ outbox' = NoPosts
  /\ UNCHANGED <<posted, reads, keyed>>

\* loadHistory(), with the nextBefore of the view and what is in flight otherwise.
Loading(c, mark, before, others) ==
  /\ visit + reads < MaxReads
  /\ reads' = reads + 1
  /\ history' = [phase |-> "loading", before |-> before]
  /\ flying' = others \union {Call("history", reads + 1, c, mark, NoReply)}

\* selectChannel(): the first channel of a bootstrap, or one the user chooses.
SelectChannel(c) ==
  /\ ready /\ c # channel
  /\ channel' = c /\ messages' = {} /\ echoed' = {}
  /\ Loading(c, 0, 0, flying)
  /\ UNCHANGED <<posted, visit, ready, cursor, syncing, keyed, outbox>>

\* The bootstrap is answered: the first channel is selected, and its history is loaded.
\* Another membership than before forgets what was to be sent under the earlier one.
Bootstrapped(c) ==
  /\ c \in flying /\ c.kind = "bootstrap" /\ c.reply.read
  /\ IF c.visit = visit
     THEN \E first \in FeedChannels :
            /\ ready' = TRUE /\ cursor' = c.reply.mark /\ channel' = first
            /\ messages' = {} /\ echoed' = {} /\ outbox' \in {outbox, NoPosts}
            /\ Loading(first, 0, 0, flying \ {c})
     ELSE /\ flying' = flying \ {c}
          /\ UNCHANGED <<ready, cursor, channel, messages, history, reads, outbox, echoed>>
  /\ UNCHANGED <<posted, visit, syncing, keyed>>

\* The user asks for the newest page again, or for older messages.
LoadHistory(older) ==
  /\ channel # NoChannel /\ history.phase \in {"ready", "error"}
  /\ older => history.before # 0 /\ Cardinality(messages) < MaxShown
  /\ Loading(channel, IF older THEN history.before ELSE 0, history.before, flying)
  /\ UNCHANGED <<posted, visit, ready, channel, cursor, messages, syncing, keyed, outbox, echoed>>

\* A page of the history, which counts if it is the last one asked for in this visit.
HistoryRead(c) ==
  /\ c \in flying /\ c.kind = "history" /\ c.reply.read
  /\ flying' = flying \ {c}
  /\ IF c.visit = visit /\ c.request = reads
     THEN /\ messages' = Kept(messages \union c.reply.messages)
          /\ echoed' = echoed \ c.reply.messages
          /\ history' = [phase |-> "ready", before |-> c.reply.mark]
     ELSE UNCHANGED <<messages, echoed, history>>
  /\ UNCHANGED <<posted, visit, ready, channel, cursor, reads, syncing, keyed, outbox>>

\* It is refused: an older page because what precedes it is gone ("HISTORY_STALE").
HistoryFailed(c) ==
  /\ c \in flying /\ c.kind = "history"
  /\ flying' = flying \ {c}
  /\ IF c.visit = visit /\ c.request = reads
     THEN \/ history' = [history EXCEPT !.phase = "error"] /\ UNCHANGED <<messages, echoed>>
          \/ history' = [phase |-> "error", before |-> 0] /\ messages' = {} /\ echoed' = {}
     ELSE UNCHANGED <<messages, echoed, history>>
  /\ UNCHANGED <<posted, visit, ready, channel, cursor, reads, syncing, keyed, outbox>>

\* sync(): one at a time in a visit.
MaySync == ready /\ syncing # visit
StartsSync ==
  /\ syncing' = visit
  /\ flying' = flying \union {Call("sync", 0, channel, cursor, NoReply)}
Sync ==
  /\ MaySync /\ StartsSync
  /\ UNCHANGED <<posted, visit, ready, channel, cursor, messages, history, reads, keyed, outbox, echoed>>

Of(c, some) == {m \in some : posted[m] = c}
\* The messages of a sync that belong to the channel it was started in.
ForItsChannel(c) == Of(c.channel, c.reply.messages)
\* The messages of a sync that belong to the channel that is shown now.
ForChannel(c) == Of(channel, c.reply.messages)

\* The end of a sync, however it ends.
SyncOver(c) == syncing' = IF c.kind = "sync" /\ syncing = c.visit THEN 0 ELSE syncing
Synced(c) ==
  /\ c \in flying /\ c.kind = "sync" /\ c.reply.read
  /\ flying' = flying \ {c} /\ SyncOver(c)
  /\ IF c.visit = visit
     THEN /\ cursor' = c.reply.mark /\ messages' = Kept(messages \union ForChannel(c))
          /\ echoed' = echoed \ ForChannel(c)
     ELSE UNCHANGED <<cursor, messages, echoed>>
  /\ UNCHANGED <<posted, visit, ready, channel, history, reads, keyed, outbox>>

\* A sync or a bootstrap fails: the cursor stays.
CallFailed(c) ==
  /\ c \in flying /\ c.kind \in {"sync", "bootstrap"}
  /\ flying' = flying \ {c} /\ SyncOver(c)
  /\ UNCHANGED <<posted, visit, ready, channel, cursor, messages, history, reads, keyed, outbox, echoed>>

\* A call that still counts is refused because the access is gone.
CallRevoked(c) ==
  /\ c \in flying /\ c.visit = visit /\ (c.kind = "history" => c.request = reads)
  /\ flying' = flying \ {c} /\ SyncOver(c)
  /\ Revoked

\* send(): a new message under a new key, or the one that failed under its own.
SendMessage(again) ==
  /\ ready /\ channel # NoChannel /\ ~outbox[channel].sending
  /\ IF again
     THEN /\ outbox[channel].key # 0
          /\ outbox' = [outbox EXCEPT ![channel].sending = TRUE]
          /\ UNCHANGED keyed
     ELSE /\ outbox[channel].key = 0 /\ Len(keyed) < MaxKeyed
          /\ outbox' = [outbox EXCEPT ![channel] = [key |-> Len(keyed) + 1, sending |-> TRUE]]
          /\ keyed' = Append(keyed, [channel |-> channel, message |-> 0])
  /\ UNCHANGED <<posted, visit, ready, channel, cursor, messages, history, reads, syncing, flying, echoed>>

\* The message of channel c that is answered, m, is shown in its channel.
\* Mutant of Echoed: it is shown in the channel that is selected by now.
EchoedAnywhere(c, m) == Kept(messages \union {m})
Echoed(c, m) == IF c = channel THEN Kept(messages \union {m}) ELSE messages

\* The message is answered, for itself or for an earlier request under its key, and a sync
\* follows. Answers to what is not being sent any more count for nothing.
MessageSent(c) ==
  LET m == keyed[outbox[c].key].message
  IN  /\ outbox[c].sending /\ m # 0
      /\ outbox' = [outbox EXCEPT ![c] = [key |-> 0, sending |-> FALSE]]
      /\ messages' = Echoed(c, m)
      /\ echoed' = IF c = channel THEN echoed \union ({m} \ messages) ELSE echoed
      /\ IF MaySync THEN StartsSync ELSE UNCHANGED <<syncing, flying>>
      /\ UNCHANGED <<posted, visit, ready, channel, cursor, history, reads, keyed>>

\* It is refused, or its outcome is not known: it can be sent again.
SendingFails(c) ==
  /\ outbox[c].sending
  /\ \/ /\ outbox' = [outbox EXCEPT ![c].sending = FALSE]
        /\ UNCHANGED <<posted, visit, ready, channel, cursor, messages, history, reads, keyed, echoed>>
     \/ Revoked
  /\ UNCHANGED <<syncing, flying>>

--------------------------------------------------------------------------------
(* The server, as src/ relies on it. *)

Post(c) ==
  /\ Len(posted) < MaxMessages
  /\ posted' = Append(posted, c)
  /\ UNCHANGED <<visit, ready, channel, cursor, messages, history, reads, syncing, flying, keyed,
                 outbox, echoed>>

\* A key is accepted once, perhaps when nobody waits for it any more.
Accepts(k) ==
  /\ keyed[k].message = 0 /\ Len(posted) < MaxMessages
  /\ posted' = Append(posted, keyed[k].channel)
  /\ keyed' = [keyed EXCEPT ![k].message = Len(posted) + 1]
  /\ UNCHANGED <<visit, ready, channel, cursor, messages, history, reads, syncing, flying, outbox, echoed>>

Reply(some, mark) == [read |-> TRUE, messages |-> some, mark |-> mark]
Newest(some) == {m \in some : Cardinality({n \in some : n > m}) < HistoryPage}
Page(c) ==
  LET all  == {m \in 1..Len(posted) : posted[m] = c.channel /\ (c.mark # 0 => m < c.mark)}
      page == Newest(all)
  IN  Reply(page, IF page = all THEN 0 ELSE Min(page))
Events(c) ==
  LET last == Min({Len(posted), c.mark + SyncPage}) IN Reply(c.mark + 1..last, last)

ServerReads(c) ==
  /\ c \in flying /\ ~c.reply.read
  /\ flying' = (flying \ {c}) \union
       {[c EXCEPT !.reply = CASE c.kind = "bootstrap" -> Reply({}, Len(posted))
                              [] c.kind = "history" -> Page(c)
                              [] c.kind = "sync" -> Events(c)]}
  /\ UNCHANGED <<posted, visit, ready, channel, cursor, messages, history, reads, syncing, keyed, outbox,
                 echoed>>

NextCollaboration ==
  \/ SelectWorkspace \/ Sync
  \/ \E any \in BOOLEAN : LoadHistory(any) \/ SendMessage(any)
  \/ \E c \in FeedChannels : SelectChannel(c) \/ MessageSent(c) \/ SendingFails(c) \/ Post(c)
  \/ \E k \in 1..Len(keyed) : Accepts(k)
  \/ \E c \in flying : \/ Bootstrapped(c) \/ HistoryRead(c) \/ HistoryFailed(c) \/ Synced(c)
                       \/ CallFailed(c) \/ CallRevoked(c) \/ ServerReads(c)

SpecCollaboration == InitCollaboration /\ [][NextCollaboration]_collaborationVars

--------------------------------------------------------------------------------
\* The messages of the channel up to the cursor that are not shown
Missing == {m \in 1..cursor : posted[m] = channel} \ messages
\* The messages shown are those of the channel, without a gap from the first that was read
\* up to the cursor, and what is before can still be loaded unless the view is full: no
\* answer is applied to another channel or visit, what a sync drops for one channel is in
\* the history of the next, and an old message that is sent again does not hide what is
\* between it and the others.
NoGap ==
  /\ \A m \in messages : posted[m] = channel
  /\ channel # NoChannel /\ history.phase = "ready" =>
       \A m \in Missing :
         /\ \A n \in messages \ echoed : m < n
         /\ m < history.before \/ Cardinality(messages) = MaxShown
================================================================================
