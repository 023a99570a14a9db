---------------------------- MODULE CollaborationSends ----------------------------
(* The hosted messages a Workspace window sends (workspace-collaboration-state.ts:   *)
(* send, setDraft, returnMentionToDraft, and what selectWorkspace and failure do to  *)
(* them).                                                                            *)
(*                                                                                   *)
(* Each channel has a draft and at most one pending message, with the key under      *)
(* which the service tells its repetitions. An answer counts only if the pending     *)
(* message is still the one it answers: leaving the Workspace and sending again make *)
(* another one of it, with the same key. Texts, keys and items are numbered.         *)
EXTENDS Naturals, FiniteSets

CONSTANTS
  Channels,
  MaxWritten,     \* bound on the texts typed
  MaxItems,       \* bound on the messages sent and sent again
  MaxVisits,      \* bound on the selections of the Workspace
  MaxIdentities   \* bound on the changes of the membership

ASSUME SendsAssumption == {MaxWritten, MaxItems, MaxVisits, MaxIdentities} \subseteq Nat

VARIABLES
  place,       \* the channel shown
  visits,      \* this.epoch
  identity,    \* identities, of the Workspace
  notes,       \* drafts; 0 is empty
  written,     \* the texts typed so far
  posts,       \* the pending message of each channel
  items,       \* the items sent so far: number, channel, text, key and identity
  waiting,     \* the items whose answer is awaited
  outcomes,    \* what the service has answered each item
  taken,       \* the keys the service has accepted
  given        \* history: texts the user replaced, or that went with the membership

sendVars == <<place, visits, identity, notes, written, posts, items, waiting, outcomes, taken,
              given>>

Numbers == 1..MaxItems
States == {"none", "sending", "unknown", "failed"}
\* What the service can answer: accepted, a mention that is refused, another refusal,
\* an outcome it does not know, and an access that is gone.
Answers == {"ok", "mention", "refused", "unknown", "revoked"}
NoPost == [item |-> 0, key |-> 0, text |-> 0, state |-> "none", code |-> "none", uncertain |-> FALSE]

SendsTypeOK ==
  /\ place \in Channels /\ visits \in 0..MaxVisits /\ identity \in 0..MaxIdentities
  /\ notes \in [Channels -> 0..MaxWritten] /\ written \in 0..MaxWritten
  /\ posts \in [Channels -> [item : 0..MaxItems, key : 0..MaxItems, text : 0..MaxWritten,
                             state : States, code : Answers \union {"none"},
                             uncertain : BOOLEAN]]
  /\ items \subseteq [item : Numbers, channel : Channels, text : 1..MaxWritten, key : Numbers,
                      identity : 0..MaxIdentities]
  /\ waiting \subseteq items
  /\ outcomes \in [Numbers -> Answers \union {"none"}]
  /\ taken \subseteq Numbers /\ given \subseteq 1..MaxWritten

InitSends ==
  /\ place \in Channels /\ visits = 0 /\ identity = 0
  /\ notes = [c \in Channels |-> 0] /\ written = 0
  /\ posts = [c \in Channels |-> NoPost]
  /\ items = {} /\ waiting = {} /\ taken = {} /\ given = {}
  /\ outcomes = [n \in Numbers |-> "none"]

--------------------------------------------------------------------------------
ShowChannel(c) ==
  /\ c # place
  /\ place' = c
  /\ UNCHANGED <<visits, identity, notes, written, posts, items, waiting, outcomes, taken, given>>

\* setDraft(): not while the message is being sent.
Write ==
  /\ posts[place].state # "sending"
  /\ written < MaxWritten
  /\ written' = written + 1
  /\ notes' = [notes EXCEPT ![place] = written + 1]
  /\ given' = given \union ({notes[place]} \ {0})
  /\ UNCHANGED <<place, visits, identity, posts, items, waiting, outcomes, taken>>

\* send(): a new message gets a key, a retry keeps the key, and what is known of it.
Send(retry) ==
  LET old  == posts[place]
      n    == Cardinality(items) + 1
      key  == IF retry THEN old.key ELSE n
      text == IF retry THEN old.text ELSE notes[place]
  IN  /\ n \in Numbers
      /\ IF retry THEN old.state \in {"unknown", "failed"} ELSE old = NoPost /\ notes[place] # 0
      /\ posts' = [posts EXCEPT ![place] = [item |-> n, key |-> key, text |-> text, state |-> "sending",
                                            code |-> "none", uncertain |-> old.uncertain]]
      /\ LET item == [item |-> n, channel |-> place, text |-> text, key |-> key, identity |-> identity]
         IN  items' = items \union {item} /\ waiting' = waiting \union {item}
      /\ UNCHANGED <<place, visits, identity, notes, written, outcomes, taken, given>>

Pending(i) == posts[i.channel].item = i.item /\ posts[i.channel].state = "sending"
Known(i) == Pending(i) /\ i.identity = identity

\* What an error makes of the message, were each answer taken for itself.
Judged(post, answer) ==
  [post EXCEPT !.state = IF answer = "unknown" THEN "unknown" ELSE "failed", !.code = answer,
               !.uncertain = (answer = "unknown")]
\* What an error makes of the message: an outcome that was unknown once stays unknown.
Failing(post, answer) ==
  LET uncertain == answer = "unknown" \/ post.uncertain
  IN  [post EXCEPT !.state = IF uncertain THEN "unknown" ELSE "failed",
                   !.code = IF uncertain THEN "unknown" ELSE answer, !.uncertain = uncertain]

\* failure() with a code that revokes the access: drafts and messages are forgotten.
Forget ==
  /\ notes' = [c \in Channels |-> 0]
  /\ posts' = [c \in Channels |-> NoPost]
  /\ given' = given \union ({notes[c] : c \in Channels} \ {0})

\* An answer to send().
PostAnswered(i, answer) ==
  /\ i \in waiting /\ outcomes[i.item] = answer
  /\ waiting' = waiting \ {i}
  /\ CASE ~Known(i) -> UNCHANGED <<notes, posts, given>>
       [] Known(i) /\ answer = "ok" ->
            /\ posts' = [posts EXCEPT ![i.channel] = NoPost]
            /\ notes' = IF notes[i.channel] = i.text THEN [notes EXCEPT ![i.channel] = 0] ELSE notes
            /\ UNCHANGED given
       [] Known(i) /\ answer = "revoked" -> Forget
       [] OTHER -> /\ posts' = [posts EXCEPT ![i.channel] = Failing(@, answer)]
                   /\ UNCHANGED <<notes, given>>
  /\ UNCHANGED <<place, visits, identity, written, items, outcomes, taken>>

\* The call is rejected: its outcome is unknown.
PostRejected(i) ==
  /\ i \in waiting
  /\ waiting' = waiting \ {i}
  /\ posts' = IF Pending(i) THEN [posts EXCEPT ![i.channel] = Failing(@, "unknown")] ELSE posts
  /\ UNCHANGED <<place, visits, identity, notes, written, items, outcomes, taken, given>>

\* The service decides about a message, perhaps long after Desktop has stopped waiting;
\* it accepts a key once, may refuse its repetition, and may not know what it did.
ServiceReads(i, answer) ==
  /\ i \in items /\ outcomes[i.item] = "none"
  /\ outcomes' = [outcomes EXCEPT ![i.item] = answer]
  /\ CASE answer = "ok" -> taken' = taken \union {i.key}
       [] answer = "unknown" -> taken' \in {taken, taken \union {i.key}}
       [] OTHER -> UNCHANGED taken
  /\ UNCHANGED <<place, visits, identity, notes, written, posts, items, waiting, given>>

\* returnMentionToDraft(): a definite refusal gives the message back to the draft.
ReturnToDraft ==
  /\ posts[place].state = "failed" /\ posts[place].code = "mention" /\ ~posts[place].uncertain
  /\ posts' = [posts EXCEPT ![place] = NoPost]
  /\ UNCHANGED <<place, visits, identity, notes, written, items, waiting, outcomes, taken, given>>

\* selectWorkspace(), this one again: what is being sent becomes unknown; a bootstrap
\* with another membership forgets what the earlier one wrote.
Select ==
  /\ visits < MaxVisits
  /\ visits' = visits + 1
  /\ \/ /\ posts' = [c \in Channels |-> IF posts[c].state # "sending" THEN posts[c]
                                        ELSE [Failing(posts[c], "unknown") EXCEPT !.item = 0]]
        /\ UNCHANGED <<identity, notes, given>>
     \/ identity < MaxIdentities /\ identity' = identity + 1 /\ Forget
  /\ place' \in Channels
  /\ UNCHANGED <<written, items, waiting, outcomes, taken>>

NextSends ==
  \/ Write \/ ReturnToDraft \/ Select
  \/ \E c \in Channels : ShowChannel(c)
  \/ \E retry \in BOOLEAN : Send(retry)
  \/ \E i \in waiting : PostRejected(i) \/ \E answer \in Answers : PostAnswered(i, answer)
  \/ \E i \in items, answer \in Answers : ServiceReads(i, answer)

SpecSends == InitSends /\ [][NextSends]_sendVars

--------------------------------------------------------------------------------
KeysTaken(t) == {i.key : i \in {j \in items : j.text = t /\ j.key \in taken}}
\* A text the user typed once is accepted under at most one key, and leaves the composer
\* only when it has been accepted, or has been replaced or forgotten with the membership.
PostedOnce ==
  \A t \in 1..written : /\ Cardinality(KeysTaken(t)) <= 1
                        /\ KeysTaken(t) = {} /\ t \notin given => \E c \in Channels : notes[c] = t
================================================================================
