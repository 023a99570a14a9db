------------------------------ MODULE WorkspaceTasks ------------------------------
(* The messages of the Workspace composer (workspace-dev-state.ts: send, receipts,   *)
(* drafts).                                                                          *)
(*                                                                                   *)
(* Each colleague of each resource generation has a draft and at most one pending    *)
(* message, whether it is shown or not. A message whose answer did not come is       *)
(* unknown: it is never sent again, its receipt is read until the Core says what     *)
(* became of it. The draft stays until the message is accepted. Texts are numbered   *)
(* as they are typed, and request ids as they are made.                              *)
EXTENDS Naturals, FiniteSets

CONSTANTS
  Keys,       \* Workspace, generation and colleague
  MaxTexts,   \* bound on the texts typed
  MaxSends,   \* bound on the messages sent
  MaxChecks   \* bound on the receipts asked for at a time

ASSUME TasksAssumption ==
  Keys # {} /\ {MaxTexts, MaxSends} \subseteq Nat /\ MaxChecks \in Nat \ {0}

VARIABLES
  key,        \* key() of the view: the composer shown
  drafts,     \* drafts; 0 is empty
  composed,   \* the pending message of each key: its id, 0 for none, and its state
  typed,      \* the texts typed so far
  texts,      \* each id: the key and the text it was sent with
  sends,      \* session.send calls that are awaited
  checks,     \* how many session.receipt calls of an id are awaited
  decided,    \* what the Core decided of an id
  discarded   \* history: texts the user replaced

taskVars == <<key, drafts, composed, typed, texts, sends, checks, decided, discarded>>

MessageIds == 1..MaxSends
NoMessage == [id |-> 0, state |-> "none"]
Unused == [key |-> CHOOSE k \in Keys : TRUE, text |-> 0]

TasksTypeOK ==
  /\ key \in Keys
  /\ drafts \in [Keys -> 0..MaxTexts] /\ typed \in 0..MaxTexts
  /\ composed \in [Keys -> [id : 0..MaxSends, state : {"none", "sending", "unknown"}]]
  /\ texts \in [MessageIds -> [key : Keys, text : 0..MaxTexts]]
  /\ sends \subseteq MessageIds
  /\ checks \in [MessageIds -> 0..MaxChecks]
  /\ decided \in [MessageIds -> {"unread", "accepted", "rejected"}]
  /\ discarded \subseteq 1..MaxTexts

InitTasks ==
  /\ key \in Keys
  /\ drafts = [k \in Keys |-> 0] /\ typed = 0
  /\ composed = [k \in Keys |-> NoMessage]
  /\ texts = [i \in MessageIds |-> Unused]
  /\ sends = {} /\ checks = [i \in MessageIds |-> 0]
  /\ decided = [i \in MessageIds |-> "unread"]
  /\ discarded = {}

--------------------------------------------------------------------------------
\* Another colleague is shown, with the draft and the pending message of that one.
ShowKey(k) ==
  /\ k # key
  /\ key' = k
  /\ UNCHANGED <<drafts, composed, typed, texts, sends, checks, decided, discarded>>

SetDraft ==
  /\ typed < MaxTexts
  /\ typed' = typed + 1
  /\ drafts' = [drafts EXCEPT ![key] = typed + 1]
  /\ discarded' = discarded \union ({drafts[key]} \ {0})
  /\ UNCHANGED <<key, composed, texts, sends, checks, decided>>

\* send(): nothing is sent while a message of the key is pending, whatever its state.
SendTask(i) ==
  /\ drafts[key] # 0 /\ composed[key] = NoMessage
  /\ texts[i] = Unused /\ \A j \in MessageIds : j < i => texts[j] # Unused
  /\ composed' = [composed EXCEPT ![key] = [id |-> i, state |-> "sending"]]
  /\ texts' = [texts EXCEPT ![i] = [key |-> key, text |-> drafts[key]]]
  /\ sends' = sends \union {i}
  /\ UNCHANGED <<key, drafts, typed, checks, decided, discarded>>

Holds(i, state) == composed[texts[i].key] = [id |-> i, state |-> state]
Dropped(i) == [composed EXCEPT ![texts[i].key] = NoMessage]
\* The draft goes with the message it holds, unless it has been edited.
Accepted(i) ==
  LET k == texts[i].key
  IN  drafts' = IF drafts[k] = texts[i].text THEN [drafts EXCEPT ![k] = 0] ELSE drafts

\* The answer of the Core: a result, or an error that carries a code.
SendAnswered(i) ==
  /\ i \in sends /\ decided[i] # "unread"
  /\ sends' = sends \ {i}
  /\ IF Holds(i, "sending") THEN /\ composed' = Dropped(i)
                                 /\ IF decided[i] = "accepted" THEN Accepted(i) ELSE UNCHANGED drafts
                            ELSE UNCHANGED <<composed, drafts>>
  /\ UNCHANGED <<key, typed, texts, checks, decided, discarded>>

\* No answer: the message is unknown from then on, and a timeout asks for its receipt.
SendUnanswered(i) ==
  /\ i \in sends
  /\ sends' = sends \ {i}
  /\ IF Holds(i, "sending")
     THEN /\ composed' = [composed EXCEPT ![texts[i].key].state = "unknown"]
          /\ checks' \in {checks, [checks EXCEPT ![i] = 1]}
     ELSE UNCHANGED <<composed, checks>>
  /\ UNCHANGED <<key, drafts, typed, texts, decided, discarded>>

\* verifyPending(), of the key that is shown.
VerifyTask(i) ==
  /\ i = composed[key].id /\ composed[key].state = "unknown"
  /\ checks[i] < MaxChecks
  /\ checks' = [checks EXCEPT ![i] = @ + 1]
  /\ UNCHANGED <<key, drafts, composed, typed, texts, sends, decided, discarded>>

\* A receipt, unless another one or the answer came first; reading any receipt as final.
ReadsAsFinal(i, state) ==
  IF Holds(i, "unknown")
  THEN composed' = Dropped(i) /\ IF state = "accepted" THEN Accepted(i) ELSE UNCHANGED drafts
  ELSE UNCHANGED <<composed, drafts>>
\* What checkReceipt() does: a receipt that does not know the outcome settles nothing.
ReadsReceipt(i, state) ==
  IF Holds(i, "unknown") /\ state # "unread"
  THEN composed' = Dropped(i) /\ IF state = "accepted" THEN Accepted(i) ELSE UNCHANGED drafts
  ELSE UNCHANGED <<composed, drafts>>

\* The Core answers what it decided, or that it does not know, or does not answer.
Receipt(i) ==
  /\ checks[i] > 0
  /\ checks' = [checks EXCEPT ![i] = @ - 1]
  /\ \/ \E state \in {"unread", decided[i]} : ReadsReceipt(i, state)
     \/ UNCHANGED <<composed, drafts>>
  /\ UNCHANGED <<key, typed, texts, sends, decided, discarded>>

\* The Core decides about a message that reaches it; it may come after Desktop has
\* stopped waiting.
CoreDecides(i) ==
  /\ texts[i] # Unused /\ decided[i] = "unread"
  /\ \E verdict \in {"accepted", "rejected"} : decided' = [decided EXCEPT ![i] = verdict]
  /\ UNCHANGED <<key, drafts, composed, typed, texts, sends, checks, discarded>>

NextTasks ==
  \/ SetDraft
  \/ \E k \in Keys : ShowKey(k)
  \/ \E i \in MessageIds :
       \/ SendTask(i) \/ SendAnswered(i) \/ SendUnanswered(i)
       \/ VerifyTask(i) \/ Receipt(i) \/ CoreDecides(i)

SpecTasks == InitTasks /\ [][NextTasks]_taskVars

--------------------------------------------------------------------------------
AcceptedAs(t) == {i \in MessageIds : texts[i].text = t /\ decided[i] = "accepted"}
\* A text the user typed once is accepted at most once, and leaves the composer only when
\* it has been accepted or the user has replaced it, whatever timeouts, receipts and
\* changes of the view come between.
TaskSentOnce ==
  \A t \in 1..typed : /\ Cardinality(AcceptedAs(t)) <= 1
                      /\ AcceptedAs(t) = {} /\ t \notin discarded => \E k \in Keys : drafts[k] = t
================================================================================
