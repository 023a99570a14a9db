---------------------------- MODULE LocalChannelSends ----------------------------
(* The messages of a personal Workspace's channels (workspace-local-channels.ts:      *)
(* setDraft, submitDraft, answer, send, settle, verifyPending, pauseQuestion, and     *)
(* what bind and select do to them).                                                  *)
(*                                                                                    *)
(* Each channel has a draft and at most one pending message. Its id is saved before   *)
(* it is sent, so that a window that is loaded again still knows that it does not     *)
(* know: the message is then unknown, without its text, and nothing more is sent to   *)
(* the channel until the Core has a receipt for it.                                   *)
EXTENDS Integers, Sequences

CONSTANTS
  Channels, NoChannel,
  MaxTexts,    \* bound on the texts typed
  MaxItems,    \* bound on the messages sent
  MaxVisits,   \* bound on the visits of another Workspace, and on the reloads
  MaxChecks,   \* bound on the receipts asked for
  MaxLost      \* bound on the requests that are lost, and on those read too late

VARIABLES
  place,       \* the channel shown; NoChannel also while another Workspace is shown
  bound,       \* the Workspace is the one shown
  epoch,       \* this.epoch
  drafts,      \* the text of each channel's composer; 0 is empty
  roomPending, \* the message of each channel that is not settled
  saved,       \* localStorage: the id of the pending message of each channel
  pausing,     \* the channels whose question is being paused
  roomCalls,   \* what the Core has not read
  replies,     \* what it has answered
  accepted,    \* the ids it has accepted
  items,       \* history: channel and text of each message
  written,     \* the texts typed so far
  gone,        \* history: what became of a text that has left its draft
  roomLeft     \* what is left of the bounds

sendVars == <<place, bound, epoch, drafts, roomPending, saved, pausing, roomCalls, replies, accepted, items,
              written, gone, roomLeft>>

Numbers == 1..MaxItems
Nothing == [id |-> 0, text |-> 0, state |-> "none", kind |-> "none"]
\* A message of the composer, an answer from the composer, an answer from a card.
Kinds == {"message", "answer", "card"}
Gone == {"no", "settled", "replaced", "lost"}

SendsTypeOK ==
  /\ place \in Channels \union {NoChannel} /\ bound \in BOOLEAN /\ epoch \in Nat
  /\ drafts \in [Channels -> 0..MaxTexts]
  /\ roomPending \in [Channels -> [id : 0..MaxItems, text : 0..MaxTexts, kind : Kinds \union {"none"},
                               state : {"none", "sending", "unknown"}]]
  /\ saved \in [Channels -> 0..MaxItems] /\ pausing \subseteq Channels
  /\ accepted \subseteq Numbers /\ written \in 0..MaxTexts
  /\ gone \in [1..MaxTexts -> Gone]

InitSends ==
  /\ place = NoChannel /\ bound = FALSE /\ epoch = 0
  /\ drafts = [c \in Channels |-> 0] /\ roomPending = [c \in Channels |-> Nothing]
  /\ saved = [c \in Channels |-> 0] /\ pausing = {}
  /\ roomCalls = {} /\ replies = {} /\ accepted = {} /\ items = <<>> /\ written = 0
  /\ gone = [t \in 1..MaxTexts |-> "no"]
  /\ roomLeft = [visits |-> MaxVisits, checks |-> MaxChecks, losses |-> MaxLost, pauses |-> 1]

--------------------------------------------------------------------------------
Spends(what) == roomLeft[what] > 0 /\ roomLeft' = [roomLeft EXCEPT ![what] = @ - 1]
Core == <<roomCalls, accepted>>

\* verifyPending()
ReceiptAsks(c) ==
  [kind |-> "receipt", channel |-> c, item |-> roomPending[c], epoch |-> epoch, late |-> FALSE]

\* bind(): what was saved is loaded once, and then what the model keeps counts.
BindRooms ==
  /\ ~bound /\ bound' = TRUE /\ epoch' = epoch + 1
  /\ roomPending' = [c \in Channels |->
                   IF roomPending[c] = Nothing /\ saved[c] # 0
                   THEN [Nothing EXCEPT !.id = saved[c], !.state = "unknown"] ELSE roomPending[c]]
  /\ UNCHANGED <<place, drafts, saved, pausing, roomCalls, replies, accepted, items, written, gone, roomLeft>>

\* Another Workspace is shown.
LeaveRooms ==
  /\ bound /\ Spends("visits") /\ bound' = FALSE /\ place' = NoChannel /\ epoch' = epoch + 1
  /\ UNCHANGED <<drafts, roomPending, saved, pausing, roomCalls, replies, accepted, items, written, gone>>

\* The window is loaded again: only what is saved remains, and no answer arrives.
ReloadRooms ==
  /\ Spends("visits") /\ bound' = FALSE /\ place' = NoChannel /\ epoch' = 0
  /\ drafts' = [c \in Channels |-> 0] /\ roomPending' = [c \in Channels |-> Nothing]
  /\ pausing' = {} /\ replies' = {}
  /\ roomCalls' = {[call EXCEPT !.late = TRUE] : call \in {d \in roomCalls : d.kind # "receipt"}}
  /\ gone' = [t \in 1..MaxTexts |-> IF \E c \in Channels : drafts[c] = t THEN "lost" ELSE gone[t]]
  /\ UNCHANGED <<saved, accepted, items, written>>

\* select(), whose snapshot is read before what is unknown is verified.
SelectRoom ==
  /\ bound
  /\ \E c \in Channels \ {place} :
       /\ place' = c
       /\ IF roomPending[c].state = "unknown" /\ roomLeft.checks > 0
          THEN Spends("checks") /\ roomCalls' = roomCalls \union {ReceiptAsks(c)}
          ELSE UNCHANGED <<roomLeft, roomCalls>>
  /\ UNCHANGED <<bound, epoch, drafts, roomPending, saved, pausing, replies, accepted, items, written, gone>>

VerifyPending ==
  /\ place # NoChannel /\ roomPending[place].state = "unknown" /\ Spends("checks")
  /\ roomCalls' = roomCalls \union {ReceiptAsks(place)}
  /\ UNCHANGED <<place, bound, epoch, drafts, roomPending, saved, pausing, replies, accepted, items, written,
                 gone>>

\* setDraft(): also while a message is pending.
Write ==
  /\ place # NoChannel /\ written < MaxTexts /\ written' = written + 1
  /\ drafts' = [drafts EXCEPT ![place] = written + 1]
  /\ gone' = [t \in 1..MaxTexts |-> IF drafts[place] = t THEN "replaced" ELSE gone[t]]
  /\ UNCHANGED <<place, bound, epoch, roomPending, saved, pausing, roomCalls, replies, accepted, items,
                 roomLeft>>

\* send(), from the composer or from the card of a question. The words of a card may be
\* those of the draft.
Send ==
  /\ place # NoChannel /\ place \notin pausing /\ roomPending[place] = Nothing
  /\ Len(items) < MaxItems
  /\ \E kind \in Kinds :
       LET item == [id |-> Len(items) + 1, text |-> drafts[place], state |-> "sending", kind |-> kind]
       IN /\ kind # "card" => drafts[place] # 0
          /\ items' = Append(items, [channel |-> place, text |-> IF kind = "card" THEN 0 ELSE item.text])
          /\ roomPending' = [roomPending EXCEPT ![place] = item]
          /\ saved' = [saved EXCEPT ![place] = item.id]
          /\ roomCalls' = roomCalls \union {[kind |-> "send", channel |-> place, item |-> item, epoch |-> 0,
                                     late |-> FALSE]}
  /\ UNCHANGED <<place, bound, epoch, drafts, pausing, replies, accepted, written, gone, roomLeft>>

\* pauseQuestion(): nothing is sent to the channel until it is answered.
Pause ==
  /\ place # NoChannel /\ place \notin pausing /\ roomPending[place] = Nothing
  /\ Spends("pauses") /\ pausing' = pausing \union {place}
  /\ UNCHANGED <<place, bound, epoch, drafts, roomPending, saved, roomCalls, replies, accepted, items, written,
                 gone>>
PauseEnds ==
  /\ \E c \in pausing : pausing' = pausing \ {c}
  /\ UNCHANGED <<place, bound, epoch, drafts, roomPending, saved, roomCalls, replies, accepted, items, written,
                 gone, roomLeft>>

\* Mutant of Settled: the composer is emptied of whatever it holds.
SettledWhole(c, item) ==
  LET text == drafts[c]
  IN /\ roomPending' = [roomPending EXCEPT ![c] = Nothing] /\ saved' = [saved EXCEPT ![c] = 0]
     /\ drafts' = [drafts EXCEPT ![c] = 0]
     /\ gone' = IF text = 0 THEN gone ELSE [gone EXCEPT ![text] = "settled"]

\* settle(): the draft goes with the message it was, and not with the words of a card.
Settled(c, item) ==
  LET clears == item.kind # "card" /\ item.text # 0 /\ drafts[c] = item.text
  IN /\ roomPending' = [roomPending EXCEPT ![c] = Nothing] /\ saved' = [saved EXCEPT ![c] = 0]
     /\ drafts' = IF clears THEN [drafts EXCEPT ![c] = 0] ELSE drafts
     /\ gone' = IF clears THEN [gone EXCEPT ![item.text] = "settled"] ELSE gone

\* What send() does after its await: the answer counts whatever is shown meanwhile.
SendAnswered(call, result) ==
  CASE result = "ok" -> Settled(call.channel, call.item)
    [] result = "refused" ->
         /\ roomPending' = [roomPending EXCEPT ![call.channel] = Nothing]
         /\ saved' = [saved EXCEPT ![call.channel] = 0] /\ UNCHANGED <<drafts, gone>>
    [] result = "unknown" ->
         /\ roomPending' = [roomPending EXCEPT ![call.channel] = [call.item EXCEPT !.state = "unknown"]]
         /\ UNCHANGED <<saved, drafts, gone>>

\* What verifyPending() does after its await: only for the message it asked about.
ReceiptAnswered(call, result) ==
  IF result = "ok" /\ call.epoch = epoch /\ roomPending[call.channel] = call.item
  THEN Settled(call.channel, call.item)
  ELSE UNCHANGED <<roomPending, saved, drafts, gone>>

Answered ==
  /\ \E reply \in replies :
       /\ replies' = replies \ {reply}
       /\ IF reply.call.kind = "send" THEN SendAnswered(reply.call, reply.result)
          ELSE ReceiptAnswered(reply.call, reply.result)
  /\ UNCHANGED <<place, bound, epoch, pausing, roomCalls, accepted, items, written, roomLeft>>

--------------------------------------------------------------------------------
(* The Core, as src/ relies on it: it accepts a message or refuses it, and has a      *)
(* receipt for the ids it has accepted.                                               *)

Replies(call, result) ==
  replies' = IF call.late THEN replies ELSE replies \union {[call |-> call, result |-> result]}
Receipt(call) == IF call.item.id \in accepted THEN "ok" ELSE "unknown"

CoreReadsRoom ==
  /\ \E call \in roomCalls :
       \/ /\ roomCalls' = roomCalls \ {call} /\ UNCHANGED roomLeft
          /\ \/ call.kind = "receipt" /\ Replies(call, Receipt(call)) /\ UNCHANGED accepted
             \/ /\ call.kind = "send"
                /\ \/ Replies(call, "ok") /\ accepted' = accepted \union {call.item.id}
                   \/ Replies(call, "refused") /\ UNCHANGED accepted
       \* The answer is lost, or the request is.
       \/ /\ Spends("losses") /\ roomCalls' = roomCalls \ {call} /\ Replies(call, "unknown")
          /\ \/ UNCHANGED accepted
             \/ call.kind = "send" /\ accepted' = accepted \union {call.item.id}
       \* The request times out, and is read after that.
       \/ /\ Spends("losses") /\ ~call.late /\ Replies(call, "unknown")
          /\ roomCalls' = (roomCalls \ {call}) \union {[call EXCEPT !.late = TRUE]} /\ UNCHANGED accepted
  /\ UNCHANGED <<place, bound, epoch, drafts, roomPending, saved, pausing, items, written, gone>>

NextSends ==
  \/ BindRooms \/ LeaveRooms \/ ReloadRooms \/ SelectRoom \/ VerifyPending \/ Write \/ Send
  \/ Pause \/ PauseEnds \/ Answered \/ CoreReadsRoom

SpecSends == InitSends /\ [][NextSends]_sendVars

--------------------------------------------------------------------------------
\* What the user types once is accepted once, also when its answer is lost, the window
\* is loaded again, or another Workspace is shown.
TypedOnce ==
  \A a, b \in accepted : a # b /\ items[a].text # 0 => items[a].text # items[b].text

\* A composer is emptied only of what the Core has accepted.
NothingDropped ==
  \A t \in 1..MaxTexts : gone[t] = "settled" => \E a \in accepted : items[a].text = t

\* What the Core may still accept, or has accepted without an answer, is known to be
\* pending, and still is when the window is loaded again.
OpenIsSaved ==
  /\ \A call \in roomCalls : call.kind = "send" => saved[call.channel] = call.item.id
  /\ \A c \in Channels : roomPending[c] # Nothing => saved[c] = roomPending[c].id
================================================================================
