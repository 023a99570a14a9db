------------------------------ MODULE WindowProofs ------------------------------
(* What a window sends, proved: that a message to a colleague (WorkspaceTasks), a  *)
(* message to a channel (CollaborationSends) and a command to an external session  *)
(* (RemoteCommands) are each acted on once, whatever is lost and repeated, each    *)
(* from an invariant of its own. The three share no state, so their invariants     *)
(* hold of the window (WindowSends) as they stand. That one decision is sent for   *)
(* an approval (ExternalInteractions). And of the acknowledgements (EventAcks): a  *)
(* closed client keeps nothing running (ws.onclose and scheduleEventAck in         *)
(* src/client.ts), what was applied stays scheduled or in flight (flushEventAcks), *)
(* and shutdownServer goes on only behind an acknowledgement, for any batch size   *)
(* and any number of events and of faults.                                         *)
EXTENDS WindowSends, ExternalInteractions, EventAcks, SequenceTheorems, FiniteSetTheorems,
        WellFoundedInduction, TLAPS

\* A set whose elements are all the same has one at most.
LEMMA AtMostOne ==
  ASSUME NEW S, \A x, y \in S : x = y
  PROVE  Cardinality(S) <= 1
<1>1. CASE S = {}
  <2> QED
    BY <1>1, FS_EmptySet
<1>2. CASE S # {}
  <2>1. PICK x : S = {x}
    BY <1>2
  <2> QED
    BY <2>1, FS_Singleton
<1> QED
  BY <1>1, <1>2

--------------------------------------------------------------------------------
(* Messages to a colleague. *)

\* A text is told from all others by its number, and belongs to the key it was typed for.
TextsTold ==
  /\ \A k \in Keys : drafts[k] <= typed
  /\ \A i \in MessageIds : texts[i].text <= typed
  /\ \A k, l \in Keys : drafts[k] # 0 /\ drafts[l] = drafts[k] => k = l
  /\ \A i \in MessageIds, k \in Keys :
       drafts[k] # 0 /\ texts[i].text = drafts[k] => texts[i].key = k

\* What a key holds has been sent for it.
PendingIsSent == \A k \in Keys : composed[k].id # 0 =>
  texts[composed[k].id].key = k /\ texts[composed[k].id].text # 0

\* A message that its key no longer holds is decided, and one that was accepted has left
\* the composer.
LeftIsDecided == \A i \in MessageIds :
  texts[i].text # 0 /\ composed[texts[i].key].id # i =>
    /\ decided[i] # "unread"
    /\ decided[i] = "accepted" => drafts[texts[i].key] # texts[i].text

\* Of the messages with one text all but one have been rejected.
OneIsOpen == \A i, j \in MessageIds :
  texts[i].text # 0 /\ texts[j].text = texts[i].text /\ i # j =>
    decided[i] = "rejected" \/ decided[j] = "rejected"

\* A text that has left the composer was accepted, or replaced by the user.
DraftStays == \A t \in 1..typed :
  AcceptedAs(t) = {} /\ t \notin discarded => \E k \in Keys : drafts[k] = t

TasksInv ==
  TasksTypeOK /\ TextsTold /\ PendingIsSent /\ LeftIsDecided /\ OneIsOpen /\ DraftStays

LEMMA TasksStart == InitTasks => TasksInv
<1> SUFFICES ASSUME InitTasks PROVE TasksInv
  OBVIOUS
<1>1. TasksTypeOK
  <2>1. /\ 0 \in 0..MaxTexts /\ 0 \in 0..MaxSends /\ 0 \in 0..MaxChecks
        /\ (CHOOSE k \in Keys : TRUE) \in Keys
    BY TasksAssumption
  <2>2. Unused \in [key : Keys, text : 0..MaxTexts]
    BY <2>1 DEF Unused
  <2>3. NoMessage \in [id : 0..MaxSends, state : {"none", "sending", "unknown"}]
    BY <2>1 DEF NoMessage
  <2>4. /\ drafts \in [Keys -> 0..MaxTexts]
        /\ composed \in [Keys -> [id : 0..MaxSends, state : {"none", "sending", "unknown"}]]
        /\ texts \in [MessageIds -> [key : Keys, text : 0..MaxTexts]]
    BY <2>1, <2>2, <2>3 DEF InitTasks
  <2>5. /\ checks \in [MessageIds -> 0..MaxChecks]
        /\ decided \in [MessageIds -> {"unread", "accepted", "rejected"}]
    BY <2>1 DEF InitTasks
  <2> QED
    BY <2>1, <2>4, <2>5 DEF InitTasks, TasksTypeOK
<1>2. /\ typed = 0
      /\ \A k \in Keys : drafts[k] = 0 /\ composed[k].id = 0
      /\ \A i \in MessageIds : texts[i].text = 0
  BY DEF InitTasks, NoMessage, Unused
<1>3. TextsTold /\ PendingIsSent /\ LeftIsDecided /\ OneIsOpen /\ DraftStays
  BY <1>2 DEF TextsTold, PendingIsSent, LeftIsDecided, OneIsOpen, DraftStays
<1> QED
  BY <1>1, <1>3 DEF TasksInv

\* The types a step reads.
LEMMA TasksTypes ==
  ASSUME TasksTypeOK
  PROVE  /\ typed \in Nat /\ MaxTexts \in Nat /\ key \in Keys
         /\ \A k \in Keys : /\ drafts[k] \in Nat
                            /\ composed[k].id \in 0..MaxSends
         /\ \A i \in MessageIds : /\ texts[i].key \in Keys /\ texts[i].text \in Nat
                                  /\ i \in Nat /\ i # 0
                                  /\ decided[i] \in {"unread", "accepted", "rejected"}
  BY TasksAssumption DEF TasksTypeOK, MessageIds

\* A pending message is settled as the Core has decided it: the key lets go of it, and of
\* its text if that was accepted.
LEMMA MessageSettles ==
  ASSUME TasksInv, NEW i \in MessageIds, composed[texts[i].key].id = i, decided[i] # "unread",
         composed' = Dropped(i),
         IF decided[i] = "accepted" THEN Accepted(i) ELSE UNCHANGED drafts,
         UNCHANGED <<typed, texts, decided, discarded>>
  PROVE  /\ drafts' \in [Keys -> 0..MaxTexts]
         /\ composed' \in [Keys -> [id : 0..MaxSends, state : {"none", "sending", "unknown"}]]
         /\ TextsTold' /\ PendingIsSent' /\ LeftIsDecided' /\ OneIsOpen' /\ DraftStays'
<1> DEFINE home == texts[i].key
<1>1. /\ TasksTypeOK /\ TextsTold /\ PendingIsSent /\ LeftIsDecided /\ OneIsOpen /\ DraftStays
      /\ home \in Keys
  BY TasksTypes DEF TasksInv
<1>2. /\ composed'[home] = NoMessage
      /\ \A k \in Keys : k # home => composed'[k] = composed[k]
  BY <1>1 DEF Dropped, TasksTypeOK
<1>3. \A k \in Keys : /\ drafts'[k] \in {0, drafts[k]}
                      /\ drafts'[k] # drafts[k] => decided[i] = "accepted" /\ drafts[k] = texts[i].text
  BY <1>1 DEF Accepted, TasksTypeOK
<1>4. decided[i] = "accepted" => drafts'[home] # texts[i].text
  <2>1. texts[i].text # 0
    BY <1>1 DEF PendingIsSent, MessageIds
  <2> QED
    BY <1>1, <2>1 DEF Accepted, TasksTypeOK
<1>5. drafts' \in [Keys -> 0..MaxTexts]
  BY <1>1, TasksAssumption DEF Accepted, TasksTypeOK
<1>6. composed' \in [Keys -> [id : 0..MaxSends, state : {"none", "sending", "unknown"}]]
  <2>1. NoMessage \in [id : 0..MaxSends, state : {"none", "sending", "unknown"}]
    BY TasksAssumption DEF NoMessage
  <2> QED
    BY <1>1, <2>1 DEF Dropped, TasksTypeOK
<1>7. TextsTold'
  BY <1>1, <1>3, TasksTypes DEF TextsTold
<1>8. PendingIsSent'
  BY <1>1, <1>2 DEF PendingIsSent, NoMessage
<1>9. LeftIsDecided'
  <2> SUFFICES ASSUME NEW j \in MessageIds, texts[j].text # 0, composed'[texts[j].key].id # j
               PROVE  /\ decided[j] # "unread"
                      /\ decided[j] = "accepted" => drafts'[texts[j].key] # texts[j].text
    BY DEF LeftIsDecided
  <2>1. CASE j = i
    BY <2>1, <1>4
  <2>2. CASE j # i
    <3>1. composed[texts[j].key].id # j
      BY <2>2, <1>1, <1>2, TasksTypes
    <3>2. drafts'[texts[j].key] \in {0, drafts[texts[j].key]}
      BY <1>1, <1>3, TasksTypes
    <3> QED
      BY <3>1, <3>2, <1>1 DEF LeftIsDecided
  <2> QED
    BY <2>1, <2>2
<1>10. OneIsOpen'
  BY <1>1 DEF OneIsOpen
<1>11. DraftStays'
  <2> SUFFICES ASSUME NEW t \in 1..typed, AcceptedAs(t) = {}, t \notin discarded
               PROVE  \E k \in Keys : drafts'[k] = t
    BY DEF DraftStays, AcceptedAs
  <2>1. PICK k \in Keys : drafts[k] = t
    BY <1>1 DEF DraftStays
  <2>2. ~(decided[i] = "accepted" /\ texts[i].text = t)
    BY DEF AcceptedAs
  <2> QED
    BY <2>1, <2>2, <1>3
<1> QED
  BY <1>5, <1>6, <1>7, <1>8, <1>9, <1>10, <1>11

\* The other parts of the invariant do not depend on which composer is shown, nor on the
\* calls under way.
LEMMA TasksFrame ==
  ASSUME TasksInv, UNCHANGED <<drafts, composed, typed, texts, decided, discarded>>
  PROVE  TextsTold' /\ PendingIsSent' /\ LeftIsDecided' /\ OneIsOpen' /\ DraftStays'
<1>1. TextsTold' /\ PendingIsSent'
  BY DEF TasksInv, TextsTold, PendingIsSent
<1>2. LeftIsDecided' /\ OneIsOpen'
  BY DEF TasksInv, LeftIsDecided, OneIsOpen
<1>3. DraftStays'
  BY DEF TasksInv, DraftStays, AcceptedAs
<1> QED
  BY <1>1, <1>2, <1>3

LEMMA SetDraftKeeps == TasksInv /\ SetDraft => TasksInv'
<1> SUFFICES ASSUME TasksInv, SetDraft PROVE TasksInv'
  OBVIOUS
<1>1. /\ TasksTypeOK /\ TextsTold /\ PendingIsSent /\ LeftIsDecided /\ OneIsOpen /\ DraftStays
      /\ key \in Keys /\ typed \in Nat
  BY TasksTypes DEF TasksInv
<1>2. /\ typed' = typed + 1 /\ typed < MaxTexts
      /\ discarded' = discarded \union ({drafts[key]} \ {0})
      /\ UNCHANGED <<key, composed, texts, sends, checks, decided>>
  BY DEF SetDraft
<1>3. drafts' = [drafts EXCEPT ![key] = typed + 1]
  BY DEF SetDraft
<1>4. drafts'[key] = typed + 1 /\ \A k \in Keys : k # key => drafts'[k] = drafts[k]
  BY <1>1, <1>3 DEF TasksTypeOK
<1>5. TasksTypeOK'
  <2>1. typed + 1 \in 0..MaxTexts
    BY <1>1, <1>2, TasksTypes
  <2>2. drafts' \in [Keys -> 0..MaxTexts]
    BY <2>1, <1>1, <1>3 DEF TasksTypeOK
  <2>3. discarded' \subseteq 1..MaxTexts
    <3>1. drafts[key] \in 0..MaxTexts
      BY <1>1 DEF TasksTypeOK
    <3>2. {drafts[key]} \ {0} \subseteq 1..MaxTexts
      BY <3>1, TasksAssumption
    <3> QED
      BY <3>2, <1>1, <1>2 DEF TasksTypeOK
  <2> QED
    BY <2>1, <2>2, <2>3, <1>1, <1>2 DEF TasksTypeOK
<1>6. TextsTold'
  BY <1>1, <1>2, <1>4, TasksTypes DEF TextsTold
<1>7. PendingIsSent' /\ OneIsOpen'
  BY <1>1, <1>2 DEF PendingIsSent, OneIsOpen
<1>8. LeftIsDecided'
  <2>1. \A i \in MessageIds : texts[i].text # typed + 1
    BY <1>1, TasksTypes DEF TextsTold
  <2> QED
    BY <2>1, <1>1, <1>2, <1>4, TasksTypes DEF LeftIsDecided
<1>9. DraftStays'
  <2> SUFFICES ASSUME NEW t \in 1..(typed + 1), AcceptedAs(t) = {}, t \notin discarded'
               PROVE  \E k \in Keys : drafts'[k] = t
    BY <1>2 DEF DraftStays, AcceptedAs
  <2>1. CASE t = typed + 1
    BY <2>1, <1>1, <1>4
  <2>2. CASE t # typed + 1
    <3>1. t \in 1..typed /\ t \notin discarded
      BY <2>2, <1>1, <1>2
    <3>2. PICK k \in Keys : drafts[k] = t
      BY <3>1, <1>1 DEF DraftStays
    <3>3. k # key
      BY <3>1, <3>2, <1>2
    <3> QED
      BY <3>2, <3>3, <1>4
  <2> QED
    BY <2>1, <2>2
<1> QED
  BY <1>5, <1>6, <1>7, <1>8, <1>9 DEF TasksInv

LEMMA SendTaskKeeps ==
  ASSUME TasksInv, NEW i \in MessageIds, SendTask(i)
  PROVE  TasksInv'
<1>1. /\ TasksTypeOK /\ TextsTold /\ PendingIsSent /\ LeftIsDecided /\ OneIsOpen /\ DraftStays
      /\ key \in Keys
  BY TasksTypes DEF TasksInv
<1>2. /\ drafts[key] # 0 /\ composed[key].id = 0 /\ texts[i].text = 0
      /\ sends' = sends \union {i}
      /\ UNCHANGED <<key, drafts, typed, checks, decided, discarded>>
  BY DEF SendTask, NoMessage, Unused
<1>3. composed' = [composed EXCEPT ![key] = [id |-> i, state |-> "sending"]]
  BY DEF SendTask
<1>4. texts' = [texts EXCEPT ![i] = [key |-> key, text |-> drafts[key]]]
  BY DEF SendTask
<1>5. composed'[key].id = i /\ \A k \in Keys : k # key => composed'[k] = composed[k]
  BY <1>1, <1>3 DEF TasksTypeOK
<1>6. /\ texts'[i].key = key /\ texts'[i].text = drafts[key]
      /\ \A j \in MessageIds : j # i => texts'[j] = texts[j]
  BY <1>1, <1>4 DEF TasksTypeOK
<1>7. TasksTypeOK'
  <2>1. composed' \in [Keys -> [id : 0..MaxSends, state : {"none", "sending", "unknown"}]]
    <3>1. i \in 0..MaxSends
      BY TasksAssumption DEF MessageIds
    <3> QED
      BY <3>1, <1>1, <1>3 DEF TasksTypeOK
  <2>2. texts' \in [MessageIds -> [key : Keys, text : 0..MaxTexts]]
    BY <1>1, <1>4 DEF TasksTypeOK
  <2> QED
    BY <2>1, <2>2, <1>1, <1>2 DEF TasksTypeOK
<1>8. TextsTold'
  <2>1. drafts[key] <= typed
    BY <1>1 DEF TextsTold
  <2>2. \A j \in MessageIds : texts'[j].text <= typed
    BY <2>1, <1>1, <1>6 DEF TextsTold
  <2>3. \A j \in MessageIds, k \in Keys :
          drafts[k] # 0 /\ texts'[j].text = drafts[k] => texts'[j].key = k
    BY <1>1, <1>2, <1>6 DEF TextsTold
  <2> QED
    BY <2>2, <2>3, <1>1, <1>2 DEF TextsTold
<1>9. PendingIsSent'
  <2> SUFFICES ASSUME NEW k \in Keys, composed'[k].id # 0
               PROVE  /\ texts'[composed'[k].id].key = k
                      /\ texts'[composed'[k].id].text # 0
    BY DEF PendingIsSent
  <2>1. CASE k = key
    BY <2>1, <1>2, <1>5, <1>6
  <2>2. CASE k # key
    <3>1. composed'[k].id = composed[k].id /\ composed[k].id \in MessageIds
      BY <2>2, <1>1, <1>5, TasksTypes, TasksAssumption DEF MessageIds
    <3>2. texts[composed[k].id].key = k /\ texts[composed[k].id].text # 0
      BY <3>1, <1>1 DEF PendingIsSent
    <3> QED
      BY <3>1, <3>2, <1>2, <1>6
  <2> QED
    BY <2>1, <2>2
<1>10. LeftIsDecided'
  <2> SUFFICES ASSUME NEW j \in MessageIds, texts'[j].text # 0, composed'[texts'[j].key].id # j
               PROVE  /\ decided[j] # "unread"
                      /\ decided[j] = "accepted" => drafts[texts'[j].key] # texts'[j].text
    BY <1>2 DEF LeftIsDecided
  <2>1. j # i
    BY <1>5, <1>6
  <2>2. texts'[j] = texts[j] /\ texts[j].key \in Keys
    BY <2>1, <1>1, <1>6, TasksTypes
  <2>3. composed[texts[j].key].id # j
    BY <2>2, <1>2, <1>5, <1>1, TasksTypes
  <2> QED
    BY <2>2, <2>3, <1>1 DEF LeftIsDecided
<1>11. OneIsOpen'
  \* The earlier messages with this text are no longer pending, and were not accepted.
  <2>1. ASSUME NEW j \in MessageIds, j # i, texts[j].text = drafts[key]
        PROVE  decided[j] = "rejected"
    <3>1. texts[j].key = key
      BY <2>1, <1>1, <1>2 DEF TextsTold
    <3>2. composed[texts[j].key].id # j /\ texts[j].text # 0
      BY <3>1, <2>1, <1>1, <1>2, TasksTypes
    <3>3. decided[j] # "unread" /\ decided[j] # "accepted"
      BY <3>1, <3>2, <2>1, <1>1 DEF LeftIsDecided
    <3> QED
      BY <3>3, <1>1, TasksTypes
  <2> SUFFICES ASSUME NEW j \in MessageIds, NEW l \in MessageIds,
                      texts'[j].text # 0, texts'[l].text = texts'[j].text, j # l
               PROVE  decided[j] = "rejected" \/ decided[l] = "rejected"
    BY <1>2 DEF OneIsOpen
  <2>2. CASE j = i
    BY <2>1, <2>2, <1>6
  <2>3. CASE l = i
    BY <2>1, <2>3, <1>6
  <2>4. CASE j # i /\ l # i
    BY <2>4, <1>1, <1>6 DEF OneIsOpen
  <2> QED
    BY <2>2, <2>3, <2>4
<1>12. DraftStays'
  <2> SUFFICES ASSUME NEW t \in 1..typed, AcceptedAs(t)' = {}, t \notin discarded
               PROVE  \E k \in Keys : drafts[k] = t
    BY <1>2 DEF DraftStays
  <2>1. AcceptedAs(t) \subseteq AcceptedAs(t)'
    BY <1>1, <1>2, <1>6, TasksTypes DEF AcceptedAs
  <2> QED
    BY <2>1, <1>1 DEF DraftStays
<1> QED
  BY <1>7, <1>8, <1>9, <1>10, <1>11, <1>12 DEF TasksInv

LEMMA SendAnsweredKeeps ==
  ASSUME TasksInv, NEW i \in MessageIds, SendAnswered(i)
  PROVE  TasksInv'
<1>1. /\ decided[i] # "unread" /\ sends' = sends \ {i}
      /\ UNCHANGED <<key, typed, texts, checks, decided, discarded>>
  BY DEF SendAnswered
<1>2. CASE Holds(i, "sending")
  <2>1. /\ composed' = Dropped(i)
        /\ IF decided[i] = "accepted" THEN Accepted(i) ELSE UNCHANGED drafts
    BY <1>2 DEF SendAnswered
  <2>2. composed[texts[i].key].id = i
    BY <1>2 DEF Holds
  <2>3. /\ drafts' \in [Keys -> 0..MaxTexts]
        /\ composed' \in [Keys -> [id : 0..MaxSends, state : {"none", "sending", "unknown"}]]
        /\ TextsTold' /\ PendingIsSent' /\ LeftIsDecided' /\ OneIsOpen' /\ DraftStays'
    BY <2>1, <2>2, <1>1, MessageSettles
  <2> QED
    BY <2>3, <1>1 DEF TasksInv, TasksTypeOK
<1>3. CASE ~Holds(i, "sending")
  <2>1. UNCHANGED <<composed, drafts>>
    BY <1>3 DEF SendAnswered
  <2> QED
    BY <2>1, <1>1, TasksFrame DEF TasksInv, TasksTypeOK
<1> QED
  BY <1>2, <1>3

LEMMA SendUnansweredKeeps ==
  ASSUME TasksInv, NEW i \in MessageIds, SendUnanswered(i)
  PROVE  TasksInv'
<1>1. /\ sends' = sends \ {i}
      /\ UNCHANGED <<key, drafts, typed, texts, decided, discarded>>
  BY DEF SendUnanswered
<1>2. TasksTypeOK /\ texts[i].key \in Keys
  BY TasksTypes DEF TasksInv
<1>3. \/ composed' = [composed EXCEPT ![texts[i].key].state = "unknown"]
      \/ composed' = composed
  BY DEF SendUnanswered
<1>4. checks' = checks \/ checks' = [checks EXCEPT ![i] = 1]
  BY DEF SendUnanswered
<1>5. \A k \in Keys : composed'[k].id = composed[k].id
  BY <1>2, <1>3 DEF TasksTypeOK
<1>6. composed' \in [Keys -> [id : 0..MaxSends, state : {"none", "sending", "unknown"}]]
  BY <1>2, <1>3 DEF TasksTypeOK
<1>7. checks' \in [MessageIds -> 0..MaxChecks]
  BY <1>2, <1>4, TasksAssumption DEF TasksTypeOK
<1>8. TasksTypeOK'
  BY <1>1, <1>2, <1>6, <1>7 DEF TasksTypeOK
<1>9. PendingIsSent'
  BY <1>1, <1>5 DEF TasksInv, PendingIsSent
<1>10. LeftIsDecided'
  BY <1>1, <1>2, <1>5, TasksTypes DEF TasksInv, LeftIsDecided
<1>11. TextsTold' /\ OneIsOpen' /\ DraftStays'
  BY <1>1 DEF TasksInv, TextsTold, OneIsOpen, DraftStays, AcceptedAs
<1> QED
  BY <1>8, <1>9, <1>10, <1>11 DEF TasksInv

LEMMA ReceiptKeeps ==
  ASSUME TasksInv, NEW i \in MessageIds, Receipt(i)
  PROVE  TasksInv'
<1>1. /\ checks[i] > 0 /\ checks' = [checks EXCEPT ![i] = @ - 1]
      /\ UNCHANGED <<key, typed, texts, sends, decided, discarded>>
  BY DEF Receipt
<1>2. checks' \in [MessageIds -> 0..MaxChecks]
  <2>1. checks \in [MessageIds -> 0..MaxChecks] /\ checks[i] - 1 \in 0..MaxChecks
    BY <1>1, TasksAssumption DEF TasksInv, TasksTypeOK
  <2> QED
    BY <2>1, <1>1
<1>3. CASE UNCHANGED <<composed, drafts>>
  BY <1>1, <1>2, <1>3, TasksFrame DEF TasksInv, TasksTypeOK
<1>4. CASE ~UNCHANGED <<composed, drafts>>
  <2>1. PICK state \in {"unread", decided[i]} : ReadsReceipt(i, state)
    BY <1>4 DEF Receipt
  <2>2. Holds(i, "unknown") /\ state # "unread"
    BY <2>1, <1>4 DEF ReadsReceipt
  <2>3. /\ decided[i] # "unread" /\ composed' = Dropped(i)
        /\ IF decided[i] = "accepted" THEN Accepted(i) ELSE UNCHANGED drafts
    BY <2>1, <2>2 DEF ReadsReceipt
  <2>4. composed[texts[i].key].id = i
    BY <2>2 DEF Holds
  <2>5. /\ drafts' \in [Keys -> 0..MaxTexts]
        /\ composed' \in [Keys -> [id : 0..MaxSends, state : {"none", "sending", "unknown"}]]
        /\ TextsTold' /\ PendingIsSent' /\ LeftIsDecided' /\ OneIsOpen' /\ DraftStays'
    BY <2>3, <2>4, <1>1, MessageSettles
  <2> QED
    BY <2>5, <1>1, <1>2 DEF TasksInv, TasksTypeOK
<1> QED
  BY <1>3, <1>4

LEMMA CoreDecidesKeeps ==
  ASSUME TasksInv, NEW i \in MessageIds, CoreDecides(i)
  PROVE  TasksInv'
<1>1. /\ TasksTypeOK /\ TextsTold /\ PendingIsSent /\ LeftIsDecided /\ OneIsOpen /\ DraftStays
      /\ decided[i] = "unread"
      /\ UNCHANGED <<key, drafts, composed, typed, texts, sends, checks, discarded>>
  BY DEF TasksInv, CoreDecides
<1>2. PICK verdict \in {"accepted", "rejected"} : decided' = [decided EXCEPT ![i] = verdict]
  BY DEF CoreDecides
<1>3. decided' \in [MessageIds -> {"unread", "accepted", "rejected"}]
  BY <1>1, <1>2 DEF TasksTypeOK
<1>4. /\ decided'[i] = verdict
      /\ \A j \in MessageIds : j # i => decided'[j] = decided[j]
  BY <1>1, <1>2 DEF TasksTypeOK
<1>5. TasksTypeOK' /\ TextsTold' /\ PendingIsSent'
  BY <1>1, <1>3 DEF TasksTypeOK, TextsTold, PendingIsSent
<1>6. LeftIsDecided'
  BY <1>1, <1>4 DEF LeftIsDecided
<1>7. OneIsOpen'
  BY <1>1, <1>4 DEF OneIsOpen
<1>8. DraftStays'
  <2> SUFFICES ASSUME NEW t \in 1..typed, AcceptedAs(t)' = {}, t \notin discarded
               PROVE  \E k \in Keys : drafts[k] = t
    BY <1>1 DEF DraftStays
  <2>1. AcceptedAs(t) \subseteq AcceptedAs(t)'
    BY <1>1, <1>4 DEF AcceptedAs
  <2> QED
    BY <2>1, <1>1 DEF DraftStays
<1> QED
  BY <1>5, <1>6, <1>7, <1>8 DEF TasksInv

LEMMA TasksStep == TasksInv /\ [NextTasks]_taskVars => TasksInv'
<1> SUFFICES ASSUME TasksInv, [NextTasks]_taskVars PROVE TasksInv'
  OBVIOUS
<1>1. ASSUME NEW k \in Keys, ShowKey(k) PROVE TasksInv'
  BY <1>1, TasksFrame DEF ShowKey, TasksInv, TasksTypeOK
<1>2. ASSUME NEW i \in MessageIds, VerifyTask(i) PROVE TasksInv'
  <2>1. /\ checks[i] < MaxChecks /\ checks' = [checks EXCEPT ![i] = @ + 1]
        /\ UNCHANGED <<key, drafts, composed, typed, texts, sends, decided, discarded>>
    BY <1>2 DEF VerifyTask
  <2>2. checks \in [MessageIds -> 0..MaxChecks] /\ checks[i] + 1 \in 0..MaxChecks
    BY <2>1, TasksAssumption DEF TasksInv, TasksTypeOK
  <2>3. checks' \in [MessageIds -> 0..MaxChecks]
    BY <2>1, <2>2
  <2> QED
    BY <2>1, <2>3, TasksFrame DEF TasksInv, TasksTypeOK
<1>3. CASE UNCHANGED taskVars
  BY <1>3, TasksFrame DEF taskVars, TasksInv, TasksTypeOK
<1> QED
  BY <1>1, <1>2, <1>3, SetDraftKeeps, SendTaskKeeps, SendAnsweredKeeps, SendUnansweredKeeps,
     ReceiptKeeps, CoreDecidesKeeps DEF NextTasks

THEOREM TasksTypeCorrect == SpecTasks => []TasksTypeOK
<1>1. SpecTasks => []TasksInv
  BY TasksStart, TasksStep, PTL DEF SpecTasks
<1>2. TasksInv => TasksTypeOK
  BY DEF TasksInv
<1> QED
  BY <1>1, <1>2, PTL

\* What the user writes to a colleague is accepted once at most, and leaves the composer
\* only when it has been accepted or the user has replaced it, whatever is answered late,
\* not answered, or asked for again.
THEOREM TaskIsSentOnce == SpecTasks => []TaskSentOnce
<1>1. SpecTasks => []TasksInv
  BY TasksStart, TasksStep, PTL DEF SpecTasks
<1>2. TasksInv => TaskSentOnce
  <2> SUFFICES ASSUME TasksInv, NEW t \in 1..typed
               PROVE  /\ Cardinality(AcceptedAs(t)) <= 1
                      /\ AcceptedAs(t) = {} /\ t \notin discarded => \E k \in Keys : drafts[k] = t
    BY DEF TaskSentOnce
  <2>1. \A i, j \in AcceptedAs(t) : i = j
    <3>1. t # 0
      BY TasksTypes DEF TasksInv
    <3> QED
      BY <3>1 DEF TasksInv, OneIsOpen, AcceptedAs
  <2> QED
    BY <2>1, AtMostOne DEF TasksInv, DraftStays
<1> QED
  BY <1>1, <1>2, PTL

--------------------------------------------------------------------------------
(* Messages to a channel. *)

\* The service has refused this message, and says so.
IsRefused(i) == outcomes[i.item] \in {"mention", "refused"}

\* Items are numbered as they are sent; their keys are numbers of the first ones, and an
\* answer is one of an item that was sent.
ItemsNumbered ==
  /\ IsFiniteSet(items)
  /\ \A i \in items : i.item <= Cardinality(items) /\ i.key <= i.item
  /\ \A i, j \in items : i.item = j.item => i = j
  /\ \A n \in Numbers : outcomes[n] # "none" => \E i \in items : i.item = n

\* A key stands for one text, and a text belongs to one channel.
KeysTold == \A i, j \in items :
  /\ i.key = j.key => i.text = j.text
  /\ i.text = j.text => i.channel = j.channel
NotesTold ==
  /\ \A c \in Channels : notes[c] <= written
  /\ \A i \in items : i.text <= written
  /\ \A c, d \in Channels : notes[c] # 0 /\ notes[d] = notes[c] => c = d
  /\ \A i \in items, c \in Channels : notes[c] = i.text => i.channel = c

\* The pending message p of a channel is the newest with its text; if it is definitely
\* refused then so were all that carried its key, and if it is sent again with no
\* uncertainty then so were all before it.
PostIsOf(c, p) ==
  /\ p.state # "none" /\ p.key # 0
  /\ \E i \in items : i.key = p.key /\ i.channel = c /\ i.text = p.text
  /\ p.item # 0 => \E i \in items : i.item = p.item /\ i.key = p.key
  /\ \A i \in items : i.text = p.text => i.key <= p.key
  /\ p.state = "unknown" => p.uncertain
  /\ p.state = "failed" => \A i \in items : i.key = p.key => IsRefused(i)
  /\ p.state = "sending" /\ ~p.uncertain =>
       \A i \in items : i.key = p.key /\ i.item # p.item => IsRefused(i)
PostsHold == \A c \in Channels : posts[c] = NoPost \/ PostIsOf(c, posts[c])

\* A message whose key is no longer pending was refused, or its text has left the composer.
LeftIsRefused == \A i \in items :
  posts[i.channel].key = i.key \/ IsRefused(i) \/ notes[i.channel] # i.text

\* A text gets another key only when all that carried an earlier one have been refused.
OneKeyIsOpen == \A i, j \in items : i.text = j.text /\ i.key < j.key => IsRefused(i)

\* A key that is taken was taken by a message whose answer does not say that it was refused.
TakenIsAnswered ==
  /\ \A k \in taken : \E i \in items : i.key = k /\ outcomes[i.item] \in {"ok", "unknown"}
  /\ \A i \in items : outcomes[i.item] = "ok" => i.key \in taken

\* A text that has left the composer was accepted, replaced or forgotten.
NotesStay == \A t \in 1..written :
  KeysTaken(t) = {} /\ t \notin given => \E c \in Channels : notes[c] = t

SendsInv ==
  /\ SendsTypeOK /\ ItemsNumbered /\ KeysTold /\ NotesTold /\ PostsHold
  /\ LeftIsRefused /\ OneKeyIsOpen /\ TakenIsAnswered /\ NotesStay

Post == [item : 0..MaxItems, key : 0..MaxItems, text : 0..MaxWritten, state : States,
         code : Answers \union {"none"}, uncertain : BOOLEAN]

\* The types a step reads.
LEMMA SendsTypes ==
  ASSUME SendsTypeOK
  PROVE  /\ written \in Nat /\ MaxWritten \in Nat /\ MaxItems \in Nat /\ place \in Channels
         /\ \A c \in Channels : notes[c] \in Nat /\ posts[c] \in Post
         /\ \A i \in items : /\ i.item \in Numbers /\ i.item \in Nat
                             /\ i.key \in Numbers /\ i.key \in Nat /\ i.key # 0
                             /\ i.channel \in Channels
                             /\ i.text \in Nat /\ i.text # 0
<1>1. /\ written \in Nat /\ MaxWritten \in Nat /\ MaxItems \in Nat /\ place \in Channels
  BY SendsAssumption DEF SendsTypeOK
<1>2. \A c \in Channels : notes[c] \in Nat /\ posts[c] \in Post
  BY SendsAssumption DEF SendsTypeOK, Post
<1>3. ASSUME NEW i \in items
      PROVE  /\ i.item \in Numbers /\ i.key \in Numbers
             /\ i.channel \in Channels /\ i.text \in 1..MaxWritten
  BY DEF SendsTypeOK
<1>4. \A n \in Numbers \union 1..MaxWritten : n \in Nat /\ n # 0
  BY SendsAssumption DEF Numbers
<1> QED
  BY <1>1, <1>2, <1>3, <1>4

LEMMA NoPostType == NoPost \in Post
  BY SendsAssumption DEF NoPost, Post, States

LEMMA SendsStart == InitSends => SendsInv
<1> SUFFICES ASSUME InitSends PROVE SendsInv
  OBVIOUS
<1>1. SendsTypeOK
  <2>1. /\ 0 \in 0..MaxWritten /\ 0 \in 0..MaxVisits /\ 0 \in 0..MaxIdentities
    BY SendsAssumption
  <2>2. posts \in [Channels -> Post]
    BY NoPostType DEF InitSends
  <2>3. /\ notes \in [Channels -> 0..MaxWritten]
        /\ outcomes \in [Numbers -> Answers \union {"none"}]
    BY <2>1 DEF InitSends
  <2> QED
    BY <2>1, <2>2, <2>3 DEF InitSends, SendsTypeOK, Post
<1>2. /\ items = {} /\ taken = {} /\ written = 0
      /\ \A c \in Channels : notes[c] = 0 /\ posts[c] = NoPost
      /\ \A n \in Numbers : outcomes[n] = "none"
  BY DEF InitSends
<1>3. ItemsNumbered
  BY <1>2, FS_EmptySet DEF ItemsNumbered
<1>4. KeysTold /\ NotesTold /\ PostsHold
  BY <1>2 DEF KeysTold, NotesTold, PostsHold
<1>5. LeftIsRefused /\ OneKeyIsOpen /\ TakenIsAnswered /\ NotesStay
  BY <1>2 DEF LeftIsRefused, OneKeyIsOpen, TakenIsAnswered, NotesStay
<1> QED
  BY <1>1, <1>3, <1>4, <1>5 DEF SendsInv

\* What is known of the items stays as it is while none is sent or answered.
LEMMA ItemsFrame ==
  ASSUME SendsInv, UNCHANGED <<items, outcomes, taken>>
  PROVE  ItemsNumbered' /\ KeysTold' /\ OneKeyIsOpen' /\ TakenIsAnswered'
<1>1. ItemsNumbered' /\ KeysTold'
  BY DEF SendsInv, ItemsNumbered, KeysTold
<1>2. OneKeyIsOpen' /\ TakenIsAnswered'
  BY DEF SendsInv, OneKeyIsOpen, TakenIsAnswered, IsRefused
<1> QED
  BY <1>1, <1>2

\* The rest does not depend on what is shown, on the calls under way and on the counts.
LEMMA SendsFrame ==
  ASSUME SendsInv, UNCHANGED <<notes, written, posts, items, outcomes, taken, given>>
  PROVE  /\ ItemsNumbered' /\ KeysTold' /\ NotesTold' /\ PostsHold'
         /\ LeftIsRefused' /\ OneKeyIsOpen' /\ TakenIsAnswered' /\ NotesStay'
<1>1. NotesTold' /\ LeftIsRefused'
  BY DEF SendsInv, NotesTold, LeftIsRefused, IsRefused
<1>2. PostsHold'
  BY DEF SendsInv, PostsHold, PostIsOf, IsRefused
<1>3. NotesStay'
  BY DEF SendsInv, NotesStay, KeysTaken
<1> QED
  BY <1>1, <1>2, <1>3, ItemsFrame

\* A message is sent from the place: with a number of its own, under a key k that is new
\* or that of the pending message, all whose messages have been refused unless it is
\* uncertain.
LEMMA ItemIsSent ==
  ASSUME SendsInv, NEW k \in Numbers, NEW t \in 1..MaxWritten, NEW u \in BOOLEAN,
         Cardinality(items) + 1 \in Numbers, k <= Cardinality(items) + 1, t <= written,
         \A i \in items : i.key = k => i.text = t,
         \A i \in items : i.text = t => i.channel = place /\ i.key <= k,
         \A i \in items : i.text = t /\ i.key < k => IsRefused(i),
         \A i \in items : i.key = k /\ ~u => IsRefused(i),
         \A c \in Channels : notes[c] = t => c = place,
         posts[place].key = 0 \/ posts[place].key = k,
         NEW item, item = [item |-> Cardinality(items) + 1, channel |-> place, text |-> t, key |-> k,
                           identity |-> identity],
         posts' = [posts EXCEPT ![place] = [item |-> Cardinality(items) + 1, key |-> k, text |-> t,
                     state |-> "sending", code |-> "none", uncertain |-> u]],
         items' = items \union {item}, waiting' = waiting \union {item},
         UNCHANGED <<place, visits, identity, notes, written, outcomes, taken, given>>
  PROVE  SendsInv'
<1> DEFINE n == Cardinality(items) + 1
           post == [item |-> n, key |-> k, text |-> t, state |-> "sending", code |-> "none",
                    uncertain |-> u]
<1>1. /\ SendsTypeOK /\ ItemsNumbered /\ KeysTold /\ NotesTold /\ PostsHold
      /\ LeftIsRefused /\ OneKeyIsOpen /\ TakenIsAnswered /\ NotesStay
      /\ place \in Channels
  BY SendsTypes DEF SendsInv
<1>2. Cardinality(items) \in Nat /\ k \in Nat /\ k # 0 /\ t \in Nat /\ t # 0 /\ n \in Nat /\ n # 0
  BY <1>1, FS_CardinalityType, SendsAssumption DEF ItemsNumbered, Numbers
<1>3. /\ posts'[place] = post
      /\ \A c \in Channels : c # place => posts'[c] = posts[c]
  BY <1>1 DEF SendsTypeOK
<1>4. /\ item.item = n /\ item.channel = place /\ item.text = t /\ item.key = k
  OBVIOUS
<1>5. \A i \in items : i.item # n /\ i.item < n /\ i # item
  BY <1>1, <1>2, <1>4, SendsTypes DEF ItemsNumbered
<1>6. outcomes[n] = "none"
  BY <1>1, <1>5 DEF ItemsNumbered
<1>7. post.item = n /\ post.key = k /\ post.text = t /\ post.state = "sending" /\ post.uncertain = u
  OBVIOUS
<1>8. SendsTypeOK'
  <2>1. post \in Post
    <3>1. n \in 0..MaxItems /\ k \in 0..MaxItems /\ t \in 0..MaxWritten
      BY SendsAssumption DEF Numbers
    <3> QED
      BY <3>1 DEF Post, States
  <2>2. posts' \in [Channels -> Post]
    BY <2>1, <1>1 DEF SendsTypeOK, Post
  <2>3. item \in [item : Numbers, channel : Channels, text : 1..MaxWritten, key : Numbers,
                  identity : 0..MaxIdentities]
    BY <1>1 DEF SendsTypeOK
  <2> HIDE DEF post
  <2> QED
    BY <2>2, <2>3, <1>1 DEF SendsTypeOK, Post
<1>9. ItemsNumbered'
  <2>1. IsFiniteSet(items') /\ Cardinality(items') = n
    BY <1>1, <1>5, FS_AddElement DEF ItemsNumbered
  <2>2. \A i \in items' : i.item <= n /\ i.key <= i.item
    BY <1>1, <1>2, <1>4, SendsTypes DEF ItemsNumbered
  <2>3. \A i, j \in items' : i.item = j.item => i = j
    BY <1>1, <1>4, <1>5 DEF ItemsNumbered
  <2>4. \A m \in Numbers : outcomes[m] # "none" => \E i \in items' : i.item = m
    BY <1>1 DEF ItemsNumbered
  <2> HIDE DEF n
  <2> QED
    BY <2>1, <2>2, <2>3, <2>4 DEF ItemsNumbered
<1> HIDE DEF n, post
<1>10. KeysTold'
  <2> SUFFICES ASSUME NEW i \in items', NEW j \in items'
               PROVE  /\ i.key = j.key => i.text = j.text
                      /\ i.text = j.text => i.channel = j.channel
    BY DEF KeysTold
  <2>1. CASE i \in items /\ j \in items
    BY <2>1, <1>1 DEF KeysTold
  <2>2. CASE i = item /\ j \in items
    BY <2>2, <1>4
  <2>3. CASE i \in items /\ j = item
    BY <2>3, <1>4
  <2> QED
    BY <2>1, <2>2, <2>3
<1>11. NotesTold'
  <2>1. \A i \in items' : i.text <= written
    BY <1>1, <1>4 DEF NotesTold
  <2>2. \A i \in items', c \in Channels : notes[c] = i.text => i.channel = c
    BY <1>1, <1>4 DEF NotesTold
  <2> QED
    BY <2>1, <2>2, <1>1 DEF NotesTold
<1>12. PostsHold'
  <2>1. PostIsOf(place, posts[place])'
    <3>1. \E i \in items' : i.key = k /\ i.channel = place /\ i.text = t
      BY <1>4
    <3>2. \E i \in items' : i.item = n /\ i.key = k
      BY <1>4
    <3>3. \A i \in items' : i.text = t => i.key <= k
      BY <1>2, <1>4
    <3>4. ~u => \A i \in items' : i.key = k /\ i.item # n => IsRefused(i)'
      BY <1>4 DEF IsRefused
    <3> QED
      BY <3>1, <3>2, <3>3, <3>4, <1>2, <1>3, <1>7, <1>1 DEF PostIsOf
  <2>2. ASSUME NEW c \in Channels, c # place, posts[c] # NoPost
        PROVE  PostIsOf(c, posts[c])'
    <3>1. PostIsOf(c, posts[c])
      BY <2>2, <1>1 DEF PostsHold
    <3>2. item.key # posts[c].key /\ item.text # posts[c].text
      <4>1. PICK i \in items : i.key = posts[c].key /\ i.channel = c /\ i.text = posts[c].text
        BY <3>1 DEF PostIsOf
      <4> QED
        BY <4>1, <2>2, <1>4
    <3>3. /\ \E i \in items' : i.key = posts[c].key /\ i.channel = c /\ i.text = posts[c].text
          /\ posts[c].item # 0 => \E i \in items' : i.item = posts[c].item /\ i.key = posts[c].key
          /\ \A i \in items' : i.text = posts[c].text => i.key <= posts[c].key
      BY <3>1, <3>2 DEF PostIsOf
    <3>4. /\ posts[c].state = "failed" => \A i \in items' : i.key = posts[c].key => IsRefused(i)'
          /\ posts[c].state = "sending" /\ ~posts[c].uncertain =>
               \A i \in items' : i.key = posts[c].key /\ i.item # posts[c].item => IsRefused(i)'
      BY <3>1, <3>2 DEF PostIsOf, IsRefused
    <3> QED
      BY <3>1, <3>3, <3>4, <2>2, <1>3 DEF PostIsOf
  <2>3. ASSUME NEW c \in Channels
        PROVE  posts'[c] = NoPost \/ PostIsOf(c, posts[c])'
    <3>1. CASE c = place
      BY <2>1, <3>1
    <3>2. CASE c # place
      BY <2>2, <3>2, <1>3
    <3> QED
      BY <3>1, <3>2
  <2> QED
    BY <2>3 DEF PostsHold
<1>13. LeftIsRefused'
  <2> SUFFICES ASSUME NEW i \in items'
               PROVE  posts'[i.channel].key = i.key \/ IsRefused(i)' \/ notes[i.channel] # i.text
    BY DEF LeftIsRefused
  <2>1. CASE i = item
    BY <2>1, <1>3, <1>4, <1>7
  <2>2. CASE i \in items
    <3>1. i.channel \in Channels /\ i.key # 0
      BY <2>2, <1>1, SendsTypes
    <3>2. CASE i.channel = place
      BY <3>1, <3>2, <2>2, <1>1, <1>3, <1>7 DEF LeftIsRefused, IsRefused
    <3>3. CASE i.channel # place
      BY <3>1, <3>3, <2>2, <1>1, <1>3 DEF LeftIsRefused, IsRefused
    <3> QED
      BY <3>2, <3>3
  <2> QED
    BY <2>1, <2>2
<1>14. OneKeyIsOpen'
  <2> SUFFICES ASSUME NEW i \in items', NEW j \in items', i.text = j.text, i.key < j.key
               PROVE  IsRefused(i)'
    BY DEF OneKeyIsOpen
  <2>1. CASE i \in items /\ j \in items
    BY <2>1, <1>1 DEF OneKeyIsOpen, IsRefused
  <2>2. CASE i = item
    <3>1. k < j.key /\ j \in items /\ j.text = t
      BY <2>2, <1>2, <1>4
    <3> QED
      BY <3>1, <1>1, <1>2, SendsTypes
  <2>3. CASE i \in items /\ j = item
    BY <2>3, <1>4 DEF IsRefused
  <2> QED
    BY <2>1, <2>2, <2>3
<1>15. TakenIsAnswered'
  <2>1. \A i \in items' : outcomes[i.item] = "ok" => i.key \in taken
    BY <1>1, <1>4, <1>6 DEF TakenIsAnswered
  <2> QED
    BY <2>1, <1>1 DEF TakenIsAnswered
<1>16. NotesStay'
  <2> SUFFICES ASSUME NEW s \in 1..written, KeysTaken(s)' = {}, s \notin given
               PROVE  \E c \in Channels : notes[c] = s
    BY DEF NotesStay
  <2>1. KeysTaken(s) \subseteq KeysTaken(s)'
    BY DEF KeysTaken
  <2> QED
    BY <2>1, <1>1 DEF NotesStay
<1> QED
  BY <1>8, <1>9, <1>10, <1>11, <1>12, <1>13, <1>14, <1>15, <1>16 DEF SendsInv

LEMMA SendKeeps ==
  ASSUME SendsInv, NEW retry \in BOOLEAN, Send(retry)
  PROVE  SendsInv'
<1> DEFINE n == Cardinality(items) + 1
           old == posts[place]
           k == IF retry THEN old.key ELSE n
           t == IF retry THEN old.text ELSE notes[place]
           item == [item |-> n, channel |-> place, text |-> t, key |-> k, identity |-> identity]
<1>1. /\ SendsTypeOK /\ ItemsNumbered /\ KeysTold /\ NotesTold /\ PostsHold
      /\ LeftIsRefused /\ OneKeyIsOpen
      /\ place \in Channels /\ old \in Post /\ MaxItems \in Nat /\ MaxWritten \in Nat
  BY SendsTypes DEF SendsInv
<1>2. /\ n \in Numbers /\ n \in Nat /\ Cardinality(items) \in Nat /\ written \in Nat
  BY <1>1, FS_CardinalityType, SendsTypes DEF Send, ItemsNumbered
<1>3. PICK u \in BOOLEAN : u = old.uncertain
  BY <1>1 DEF Post
<1>4. /\ items' = items \union {item} /\ waiting' = waiting \union {item}
      /\ UNCHANGED <<place, visits, identity, notes, written, outcomes, taken, given>>
  BY DEF Send
<1>5. posts' = [posts EXCEPT ![place] = [item |-> n, key |-> k, text |-> t, state |-> "sending",
                                         code |-> "none", uncertain |-> u]]
  BY <1>3 DEF Send
<1>6. CASE retry
  <2>1. old.state \in {"unknown", "failed"}
    BY <1>6 DEF Send
  <2>2. PostIsOf(place, old)
    BY <2>1, <1>1 DEF PostsHold, NoPost
  <2>3. PICK first \in items : first.key = old.key /\ first.channel = place /\ first.text = old.text
    BY <2>2 DEF PostIsOf
  <2>4. k = old.key /\ t = old.text
    BY <1>6
  <2>5. k \in Numbers /\ t \in 1..MaxWritten /\ t <= written /\ k <= n
    <3>1. first.key \in Numbers /\ first.text \in 1..MaxWritten
      BY <1>1 DEF SendsTypeOK
    <3>2. first.text <= written /\ first.key <= Cardinality(items)
      BY <1>1, <1>2, SendsTypes DEF NotesTold, ItemsNumbered
    <3> HIDE DEF k, t
    <3> QED
      BY <3>1, <3>2, <2>3, <2>4, <1>2 DEF Numbers
  <2>6. \A i \in items : i.key = k => i.text = t
    BY <2>3, <2>4, <1>1 DEF KeysTold
  <2>7. \A i \in items : i.text = t => i.channel = place /\ i.key <= k
    BY <2>2, <2>3, <2>4, <1>1 DEF KeysTold, PostIsOf
  <2>8. \A i \in items : i.text = t /\ i.key < k => IsRefused(i)
    BY <2>3, <2>4, <1>1 DEF OneKeyIsOpen
  <2>9. \A i \in items : i.key = k /\ ~u => IsRefused(i)
    BY <2>1, <2>2, <2>4, <1>3 DEF PostIsOf
  <2>10. \A c \in Channels : notes[c] = t => c = place
    BY <2>3, <2>4, <1>1 DEF NotesTold
  <2>11. old.key = 0 \/ old.key = k
    BY <2>4
  <2> HIDE DEF k, t
  <2> QED
    BY <2>5, <2>6, <2>7, <2>8, <2>9, <2>10, <2>11, <1>2, <1>4, <1>5, ItemIsSent
<1>7. CASE ~retry
  <2>1. old = NoPost /\ notes[place] # 0 /\ k = n /\ t = notes[place]
    BY <1>7 DEF Send
  <2>2. old.key = 0
    BY <2>1 DEF NoPost
  <2>3. t \in 1..MaxWritten /\ t <= written /\ k \in Numbers
    <3>1. notes[place] \in 0..MaxWritten /\ notes[place] <= written
      BY <1>1 DEF SendsTypeOK, NotesTold
    <3> HIDE DEF k, t, n
    <3> QED
      BY <3>1, <2>1, <1>1, <1>2
  <2>4. \A i \in items : i.key < n
    <3>1. \A i \in items : i.key <= Cardinality(items)
      BY <1>1, <1>2, SendsTypes DEF ItemsNumbered
    <3> QED
      BY <3>1, <1>1, <1>2, SendsTypes
  \* The text is still in the composer, so what carried it before was refused.
  <2>5. \A i \in items : i.text = t => i.channel = place /\ IsRefused(i)
    <3> SUFFICES ASSUME NEW i \in items, i.text = notes[place]
                 PROVE  i.channel = place /\ IsRefused(i)
      BY <2>1
    <3>1. i.channel = place
      BY <1>1 DEF NotesTold
    <3>2. posts[i.channel].key # i.key
      BY <3>1, <2>2, <1>1, SendsTypes
    <3> QED
      BY <3>1, <3>2, <1>1 DEF LeftIsRefused
  <2>6. \A i \in items : i.key # k
    <3> HIDE DEF k, n
    <3> QED
      BY <2>1, <2>4, <1>1, <1>2, SendsTypes
  <2>7. \A i \in items : i.text = t => i.channel = place /\ i.key <= k
    <3> HIDE DEF k, t, n
    <3> QED
      BY <2>1, <2>4, <2>5, <1>1, <1>2, SendsTypes
  <2>8. \A c \in Channels : notes[c] = t => c = place
    BY <2>1, <1>1 DEF NotesTold
  <2>9. k <= n
    <3> HIDE DEF k, n
    <3> QED
      BY <2>1, <1>2, SendsAssumption DEF Numbers
  <2> HIDE DEF k, t
  <2> QED
    BY <2>2, <2>3, <2>5, <2>6, <2>7, <2>8, <2>9, <1>2, <1>4, <1>5, ItemIsSent
<1> QED
  BY <1>6, <1>7

\* What an error makes of a message that is being sent.
LEMMA PostFails ==
  ASSUME SendsInv, NEW c \in Channels, posts[c].state = "sending",
         NEW answer \in {"unknown", "mention", "refused"},
         \A i \in items : i.item = posts[c].item /\ answer # "unknown" => IsRefused(i)
  PROVE  /\ Failing(posts[c], answer) \in Post
         /\ PostIsOf(c, Failing(posts[c], answer))
         /\ Failing(posts[c], answer).key = posts[c].key
<1> DEFINE p == posts[c]
           q == Failing(p, answer)
<1>1. p \in Post /\ PostIsOf(c, p)
  BY SendsTypes DEF SendsInv, PostsHold, NoPost
<1>2. /\ q.item = p.item /\ q.key = p.key /\ q.text = p.text
      /\ q.uncertain = (answer = "unknown" \/ p.uncertain)
      /\ q.state = IF answer = "unknown" \/ p.uncertain THEN "unknown" ELSE "failed"
  BY <1>1 DEF Failing, Post
<1>3. q \in Post
  BY <1>1 DEF Failing, Post, States, Answers
<1>4. PostIsOf(c, q)
  <2>1. q.state # "none" /\ q.key # 0 /\ q.state # "sending"
    BY <1>1, <1>2 DEF PostIsOf
  <2>2. q.state = "unknown" => q.uncertain
    BY <1>2
  <2>3. q.state = "failed" => \A i \in items : i.key = q.key => IsRefused(i)
    BY <1>1, <1>2 DEF PostIsOf
  <2> HIDE DEF q
  <2> QED
    BY <2>1, <2>2, <2>3, <1>1, <1>2 DEF PostIsOf
<1> QED
  BY <1>2, <1>3, <1>4

LEMMA ForgetKeeps ==
  ASSUME SendsInv, Forget, UNCHANGED <<written, items, outcomes, taken>>
  PROVE  /\ posts' \in [Channels -> Post] /\ notes' \in [Channels -> 0..MaxWritten]
         /\ given' \subseteq 1..MaxWritten
         /\ ItemsNumbered' /\ KeysTold' /\ NotesTold' /\ PostsHold'
         /\ LeftIsRefused' /\ OneKeyIsOpen' /\ TakenIsAnswered' /\ NotesStay'
<1>1. SendsTypeOK /\ NotesTold /\ NotesStay /\ written \in Nat
  BY SendsTypes DEF SendsInv
<1>2. /\ notes' = [c \in Channels |-> 0] /\ posts' = [c \in Channels |-> NoPost]
      /\ given' = given \union ({notes[c] : c \in Channels} \ {0})
  BY DEF Forget
<1>3. posts' \in [Channels -> Post] /\ notes' \in [Channels -> 0..MaxWritten]
  BY <1>2, NoPostType, SendsAssumption
<1>4. given' \subseteq 1..MaxWritten
  <2>1. \A c \in Channels : notes[c] \in 0..MaxWritten
    BY <1>1 DEF SendsTypeOK
  <2>2. {notes[c] : c \in Channels} \ {0} \subseteq 1..MaxWritten
    BY <2>1, SendsAssumption
  <2> QED
    BY <2>2, <1>1, <1>2 DEF SendsTypeOK
<1>5. PostsHold' /\ NotesTold' /\ LeftIsRefused'
  <2>1. \A c \in Channels : posts'[c] = NoPost /\ notes'[c] = 0
    BY <1>2
  <2>2. \A i \in items : i.text # 0 /\ i.channel \in Channels
    BY <1>1, SendsTypes
  <2> QED
    BY <2>1, <2>2, <1>1 DEF PostsHold, NotesTold, LeftIsRefused
<1>6. NotesStay'
  <2> SUFFICES ASSUME NEW t \in 1..written, KeysTaken(t) = {} PROVE t \in given'
    BY DEF NotesStay, KeysTaken
  <2>1. t # 0
    BY <1>1
  <2> QED
    BY <2>1, <1>1, <1>2 DEF NotesStay
<1> QED
  BY <1>3, <1>4, <1>5, <1>6, ItemsFrame

LEMMA WriteKeeps == SendsInv /\ Write => SendsInv'
<1> SUFFICES ASSUME SendsInv, Write PROVE SendsInv'
  OBVIOUS
<1>1. /\ SendsTypeOK /\ NotesTold /\ PostsHold /\ LeftIsRefused /\ NotesStay
      /\ place \in Channels /\ written \in Nat /\ MaxWritten \in Nat
  BY SendsTypes DEF SendsInv
<1>2. /\ written < MaxWritten /\ written' = written + 1
      /\ notes' = [notes EXCEPT ![place] = written + 1]
      /\ given' = given \union ({notes[place]} \ {0})
      /\ UNCHANGED <<place, visits, identity, posts, items, waiting, outcomes, taken>>
  BY DEF Write
<1>3. notes'[place] = written + 1 /\ \A c \in Channels : c # place => notes'[c] = notes[c]
  BY <1>1, <1>2 DEF SendsTypeOK
<1>4. SendsTypeOK'
  <2>1. written + 1 \in 0..MaxWritten
    BY <1>1, <1>2
  <2>2. notes' \in [Channels -> 0..MaxWritten]
    BY <2>1, <1>1, <1>2 DEF SendsTypeOK
  <2>3. notes[place] \in 0..MaxWritten
    BY <1>1 DEF SendsTypeOK
  <2>4. {notes[place]} \ {0} \subseteq 1..MaxWritten
    BY <2>3, <1>1
  <2> QED
    BY <2>1, <2>2, <2>4, <1>1, <1>2 DEF SendsTypeOK
<1>5. \A i \in items : i.text # written + 1
  BY <1>1, SendsTypes DEF NotesTold
<1>6. NotesTold'
  BY <1>1, <1>2, <1>3, <1>5, SendsTypes DEF NotesTold
<1>7. PostsHold'
  BY <1>1, <1>2 DEF PostsHold, PostIsOf, IsRefused
<1>8. LeftIsRefused'
  BY <1>1, <1>2, <1>3, <1>5, SendsTypes DEF LeftIsRefused, IsRefused
<1>9. NotesStay'
  <2> SUFFICES ASSUME NEW t \in 1..(written + 1), KeysTaken(t) = {}, t \notin given'
               PROVE  \E c \in Channels : notes'[c] = t
    BY <1>2 DEF NotesStay, KeysTaken
  <2>1. CASE t = written + 1
    BY <2>1, <1>1, <1>3
  <2>2. CASE t # written + 1
    <3>1. t \in 1..written /\ t \notin given /\ t # 0
      BY <2>2, <1>1, <1>2
    <3>2. PICK c \in Channels : notes[c] = t
      BY <3>1, <1>1 DEF NotesStay
    <3>3. c # place
      BY <3>1, <3>2, <1>2
    <3> QED
      BY <3>2, <3>3, <1>3
  <2> QED
    BY <2>1, <2>2
<1> QED
  BY <1>2, <1>4, <1>6, <1>7, <1>8, <1>9, ItemsFrame DEF SendsInv

\* Pending messages fail or turn uncertain: what they are stays known.
LEMMA PostsMove ==
  ASSUME SendsInv, posts' \in [Channels -> Post],
         \A c \in Channels : \/ posts'[c] = posts[c]
                             \/ PostIsOf(c, posts'[c]) /\ posts'[c].key = posts[c].key,
         UNCHANGED <<notes, written, items, outcomes, taken, given>>
  PROVE  /\ ItemsNumbered' /\ KeysTold' /\ NotesTold' /\ PostsHold'
         /\ LeftIsRefused' /\ OneKeyIsOpen' /\ TakenIsAnswered' /\ NotesStay'
<1>1. SendsTypeOK /\ NotesTold /\ PostsHold /\ LeftIsRefused /\ NotesStay
  BY DEF SendsInv
<1>2. PostsHold'
  <2> SUFFICES ASSUME NEW c \in Channels PROVE posts'[c] = NoPost \/ PostIsOf(c, posts[c])'
    BY DEF PostsHold
  <2>1. posts'[c] = NoPost \/ PostIsOf(c, posts'[c])
    BY <1>1 DEF PostsHold
  <2> QED
    BY <2>1 DEF PostIsOf, IsRefused
<1>3. LeftIsRefused'
  BY <1>1, SendsTypes DEF LeftIsRefused, IsRefused
<1>4. NotesTold' /\ NotesStay'
  BY <1>1 DEF NotesTold, NotesStay, KeysTaken
<1> QED
  BY <1>2, <1>3, <1>4, ItemsFrame

\* An error has come for the message that is being sent.
LEMMA PostFailsKeeps ==
  ASSUME SendsInv, NEW c \in Channels, posts[c].state = "sending",
         NEW answer \in {"unknown", "mention", "refused"},
         \A i \in items : i.item = posts[c].item /\ answer # "unknown" => IsRefused(i),
         posts' = [posts EXCEPT ![c] = Failing(posts[c], answer)],
         UNCHANGED <<notes, written, items, outcomes, taken, given>>
  PROVE  /\ posts' \in [Channels -> Post]
         /\ ItemsNumbered' /\ KeysTold' /\ NotesTold' /\ PostsHold'
         /\ LeftIsRefused' /\ OneKeyIsOpen' /\ TakenIsAnswered' /\ NotesStay'
<1> DEFINE p == Failing(posts[c], answer)
<1>1. p \in Post /\ PostIsOf(c, p) /\ p.key = posts[c].key
  BY PostFails
<1>2. posts \in [Channels -> Post] /\ posts' = [posts EXCEPT ![c] = p]
  BY DEF SendsInv, SendsTypeOK, Post
<1> HIDE DEF p
<1>3. posts' \in [Channels -> Post]
  BY <1>1, <1>2
<1>4. \A d \in Channels : \/ posts'[d] = posts[d]
                          \/ PostIsOf(d, posts'[d]) /\ posts'[d].key = posts[d].key
  BY <1>1, <1>2
<1> QED
  BY <1>3, <1>4, PostsMove

LEMMA PostRejectedKeeps ==
  ASSUME SendsInv, NEW i \in waiting, PostRejected(i)
  PROVE  SendsInv'
<1>1. /\ SendsTypeOK /\ i \in items /\ i.channel \in Channels
  <2>1. SendsTypeOK /\ i \in items
    BY DEF SendsInv, SendsTypeOK
  <2> QED
    BY <2>1, SendsTypes
<1>2. /\ waiting' = waiting \ {i}
      /\ UNCHANGED <<place, visits, identity, notes, written, items, outcomes, taken, given>>
  BY DEF PostRejected
<1>3. CASE Pending(i)
  <2>1. /\ posts' = [posts EXCEPT ![i.channel] = Failing(posts[i.channel], "unknown")]
        /\ posts[i.channel].state = "sending"
    BY <1>1, <1>3 DEF PostRejected, Pending, SendsTypeOK
  <2>2. /\ posts' \in [Channels -> Post]
        /\ ItemsNumbered' /\ KeysTold' /\ NotesTold' /\ PostsHold'
        /\ LeftIsRefused' /\ OneKeyIsOpen' /\ TakenIsAnswered' /\ NotesStay'
    BY <2>1, <1>1, <1>2, PostFailsKeeps
  <2> QED
    BY <2>2, <1>1, <1>2 DEF SendsInv, SendsTypeOK, Post
<1>4. CASE ~Pending(i)
  <2>1. posts' = posts
    BY <1>4 DEF PostRejected
  <2> QED
    BY <2>1, <1>1, <1>2, SendsFrame DEF SendsInv, SendsTypeOK
<1> QED
  BY <1>3, <1>4

\* A pending message is let go of: it was accepted, and has left the composer, or all that
\* carried its key have been refused.
LEMMA PostEnds ==
  ASSUME SendsInv, NEW c \in Channels, posts' = [posts EXCEPT ![c] = NoPost],
         \A d \in Channels : notes'[d] = notes[d] \/ notes'[d] = 0,
         \A d \in Channels : notes'[d] # notes[d] => KeysTaken(notes[d]) # {},
         \A i \in items : i.key = posts[c].key => IsRefused(i) \/ notes'[i.channel] # i.text,
         UNCHANGED <<written, items, outcomes, taken, given>>
  PROVE  /\ posts' \in [Channels -> Post]
         /\ ItemsNumbered' /\ KeysTold' /\ NotesTold' /\ PostsHold'
         /\ LeftIsRefused' /\ OneKeyIsOpen' /\ TakenIsAnswered' /\ NotesStay'
<1>1. SendsTypeOK /\ NotesTold /\ PostsHold /\ LeftIsRefused /\ NotesStay
  BY DEF SendsInv
<1>2. posts \in [Channels -> Post]
  BY <1>1 DEF SendsTypeOK, Post
<1>3. posts' \in [Channels -> Post]
  BY <1>2, NoPostType
<1>4. posts'[c] = NoPost /\ \A d \in Channels : d # c => posts'[d] = posts[d]
  BY <1>2
<1>5. PostsHold'
  <2> SUFFICES ASSUME NEW d \in Channels PROVE posts'[d] = NoPost \/ PostIsOf(d, posts[d])'
    BY DEF PostsHold
  <2>1. posts'[d] = NoPost \/ PostIsOf(d, posts'[d])
    BY <1>1, <1>4 DEF PostsHold
  <2> QED
    BY <2>1 DEF PostIsOf, IsRefused
<1>6. LeftIsRefused'
  <2> SUFFICES ASSUME NEW i \in items
               PROVE  \/ posts'[i.channel].key = i.key
                      \/ IsRefused(i) \/ notes'[i.channel] # i.text
    BY DEF LeftIsRefused, IsRefused
  <2>1. i.channel \in Channels /\ i.text # 0
    BY <1>1, SendsTypes
  <2>2. posts[i.channel].key = i.key \/ IsRefused(i) \/ notes'[i.channel] # i.text
    BY <2>1, <1>1 DEF LeftIsRefused
  <2> QED
    BY <2>1, <2>2, <1>4
<1>7. NotesTold'
  <2>1. \A i \in items : i.text # 0
    BY <1>1, SendsTypes
  <2> QED
    BY <2>1, <1>1, SendsTypes DEF NotesTold
<1>8. NotesStay'
  <2> SUFFICES ASSUME NEW t \in 1..written, KeysTaken(t) = {}, t \notin given
               PROVE  \E d \in Channels : notes'[d] = t
    BY DEF NotesStay, KeysTaken
  <2> QED
    BY <1>1 DEF NotesStay
<1> QED
  BY <1>3, <1>5, <1>6, <1>7, <1>8, ItemsFrame

LEMMA PostAnsweredKeeps ==
  ASSUME SendsInv, NEW i \in waiting, NEW answer \in Answers, PostAnswered(i, answer)
  PROVE  SendsInv'
<1>1. SendsTypeOK /\ i \in items /\ i.channel \in Channels /\ i.text # 0
  <2>1. SendsTypeOK /\ i \in items
    BY DEF SendsInv, SendsTypeOK
  <2> QED
    BY <2>1, SendsTypes
<1>2. /\ outcomes[i.item] = answer /\ waiting' = waiting \ {i}
      /\ UNCHANGED <<place, visits, identity, written, items, outcomes, taken>>
  BY DEF PostAnswered
<1>3. CASE ~Known(i)
  <2>1. UNCHANGED <<notes, posts, given>>
    BY <1>3 DEF PostAnswered
  <2> QED
    BY <2>1, <1>1, <1>2, SendsFrame DEF SendsInv, SendsTypeOK
<1>4. CASE Known(i) /\ answer = "ok"
  <2>1. /\ posts' = [posts EXCEPT ![i.channel] = NoPost]
        /\ notes' = IF notes[i.channel] = i.text THEN [notes EXCEPT ![i.channel] = 0] ELSE notes
        /\ given' = given
    BY <1>4 DEF PostAnswered
  <2>2. /\ \A c \in Channels : notes'[c] = notes[c] \/ notes'[c] = 0
        /\ \A c \in Channels : notes'[c] # notes[c] => c = i.channel /\ notes[c] = i.text
        /\ notes'[i.channel] # i.text
        /\ notes' \in [Channels -> 0..MaxWritten]
    BY <2>1, <1>1, SendsAssumption DEF SendsTypeOK
  <2>3. i.key = posts[i.channel].key
    <3>1. PostIsOf(i.channel, posts[i.channel]) /\ posts[i.channel].item = i.item /\ i.item # 0
      BY <1>1, <1>4 DEF SendsInv, PostsHold, NoPost, Known, Pending, SendsTypeOK, Numbers
    <3>2. PICK j \in items : j.item = i.item /\ j.key = posts[i.channel].key
      BY <3>1 DEF PostIsOf
    <3> QED
      BY <3>2, <1>1 DEF SendsInv, ItemsNumbered
  <2>4. \A j \in items : j.key = posts[i.channel].key => notes'[j.channel] # j.text
    BY <2>2, <2>3, <1>1 DEF SendsInv, KeysTold
  <2>5. \A c \in Channels : notes'[c] # notes[c] => KeysTaken(notes[c]) # {}
    <3>1. i.key \in taken
      BY <1>1, <1>2, <1>4 DEF SendsInv, TakenIsAnswered
    <3>2. KeysTaken(i.text) # {}
      BY <3>1, <1>1 DEF KeysTaken
    <3> QED
      BY <3>2, <2>2
  <2>6. /\ posts' \in [Channels -> Post]
        /\ ItemsNumbered' /\ KeysTold' /\ NotesTold' /\ PostsHold'
        /\ LeftIsRefused' /\ OneKeyIsOpen' /\ TakenIsAnswered' /\ NotesStay'
    BY <2>1, <2>2, <2>4, <2>5, <1>1, <1>2, PostEnds
  <2> QED
    BY <2>1, <2>2, <2>6, <1>1, <1>2 DEF SendsInv, SendsTypeOK, Post
<1>5. CASE Known(i) /\ answer = "revoked"
  <2>1. Forget
    BY <1>5 DEF PostAnswered
  <2>2. /\ posts' \in [Channels -> Post] /\ notes' \in [Channels -> 0..MaxWritten]
        /\ given' \subseteq 1..MaxWritten
        /\ ItemsNumbered' /\ KeysTold' /\ NotesTold' /\ PostsHold'
        /\ LeftIsRefused' /\ OneKeyIsOpen' /\ TakenIsAnswered' /\ NotesStay'
    BY <2>1, <1>2, ForgetKeeps
  <2> QED
    BY <2>2, <1>1, <1>2 DEF SendsInv, SendsTypeOK, Post
<1>6. CASE Known(i) /\ answer \in {"unknown", "mention", "refused"}
  <2>1. /\ posts' = [posts EXCEPT ![i.channel] = Failing(posts[i.channel], answer)]
        /\ UNCHANGED <<notes, given>>
    BY <1>1, <1>6 DEF PostAnswered, SendsTypeOK
  <2>2. posts[i.channel].state = "sending" /\ posts[i.channel].item = i.item
    BY <1>6 DEF Known, Pending
  <2>3. \A j \in items : j.item = posts[i.channel].item /\ answer # "unknown" => IsRefused(j)
    BY <2>2, <1>2, <1>6 DEF IsRefused
  <2>4. /\ posts' \in [Channels -> Post]
        /\ ItemsNumbered' /\ KeysTold' /\ NotesTold' /\ PostsHold'
        /\ LeftIsRefused' /\ OneKeyIsOpen' /\ TakenIsAnswered' /\ NotesStay'
    BY <2>1, <2>2, <2>3, <1>1, <1>2, <1>6, PostFailsKeeps
  <2> QED
    BY <2>1, <2>4, <1>1, <1>2 DEF SendsInv, SendsTypeOK, Post
<1> QED
  BY <1>3, <1>4, <1>5, <1>6 DEF Answers

LEMMA ServiceReadsKeeps ==
  ASSUME SendsInv, NEW i \in items, NEW answer \in Answers, ServiceReads(i, answer)
  PROVE  SendsInv'
<1>1. /\ SendsTypeOK /\ ItemsNumbered /\ KeysTold /\ NotesTold /\ PostsHold
      /\ LeftIsRefused /\ OneKeyIsOpen /\ TakenIsAnswered /\ NotesStay
      /\ i.item \in Numbers /\ i.key \in Numbers
  BY SendsTypes DEF SendsInv
<1>2. /\ outcomes[i.item] = "none" /\ outcomes' = [outcomes EXCEPT ![i.item] = answer]
      /\ UNCHANGED <<place, visits, identity, notes, written, posts, items, waiting, given>>
  BY DEF ServiceReads
<1>3. /\ taken' = taken \/ (answer \in {"ok", "unknown"} /\ taken' = taken \union {i.key})
      /\ answer = "ok" => i.key \in taken'
  BY DEF ServiceReads, Answers
<1>4. /\ outcomes'[i.item] = answer
      /\ \A n \in Numbers : n # i.item => outcomes'[n] = outcomes[n]
  BY <1>1, <1>2 DEF SendsTypeOK
<1>5. \A j \in items : IsRefused(j) => IsRefused(j)'
  <2> SUFFICES ASSUME NEW j \in items, IsRefused(j) PROVE IsRefused(j)'
    OBVIOUS
  <2>1. j.item # i.item /\ j.item \in Numbers
    BY <1>1, <1>2, SendsTypes DEF IsRefused
  <2> QED
    BY <2>1, <1>4 DEF IsRefused
<1>6. SendsTypeOK'
  <2>1. outcomes' \in [Numbers -> Answers \union {"none"}]
    BY <1>1, <1>2 DEF SendsTypeOK
  <2>2. taken' \subseteq Numbers
    BY <1>1, <1>3 DEF SendsTypeOK
  <2> QED
    BY <2>1, <2>2, <1>1, <1>2 DEF SendsTypeOK
<1>7. ItemsNumbered'
  BY <1>1, <1>2, <1>4 DEF ItemsNumbered
<1>8. KeysTold' /\ NotesTold'
  BY <1>1, <1>2 DEF KeysTold, NotesTold
<1>9. PostsHold'
  <2> SUFFICES ASSUME NEW c \in Channels, posts[c] # NoPost PROVE PostIsOf(c, posts[c])'
    BY <1>2 DEF PostsHold
  <2>1. PostIsOf(c, posts[c])
    BY <1>1 DEF PostsHold
  <2> QED
    BY <2>1, <1>2, <1>5 DEF PostIsOf
<1>10. LeftIsRefused' /\ OneKeyIsOpen'
  BY <1>1, <1>2, <1>5 DEF LeftIsRefused, OneKeyIsOpen
<1>11. TakenIsAnswered'
  <2>1. ASSUME NEW k \in taken'
        PROVE  \E j \in items : j.key = k /\ outcomes'[j.item] \in {"ok", "unknown"}
    <3>1. CASE k \in taken
      <4>1. PICK j \in items : j.key = k /\ outcomes[j.item] \in {"ok", "unknown"}
        BY <3>1, <1>1 DEF TakenIsAnswered
      <4>2. j.item # i.item /\ j.item \in Numbers
        BY <4>1, <1>1, <1>2, SendsTypes
      <4> QED
        BY <4>1, <4>2, <1>4
    <3>2. CASE k \notin taken
      BY <3>2, <2>1, <1>3, <1>4
    <3> QED
      BY <3>1, <3>2
  <2>2. ASSUME NEW j \in items, outcomes'[j.item] = "ok" PROVE j.key \in taken'
    <3>1. CASE j.item = i.item
      BY <3>1, <2>2, <1>1, <1>3, <1>4 DEF ItemsNumbered
    <3>2. CASE j.item # i.item
      BY <3>2, <2>2, <1>1, <1>3, <1>4, SendsTypes DEF TakenIsAnswered
    <3> QED
      BY <3>1, <3>2
  <2> QED
    BY <2>1, <2>2, <1>2 DEF TakenIsAnswered
<1>12. NotesStay'
  <2> SUFFICES ASSUME NEW t \in 1..written, KeysTaken(t)' = {}, t \notin given
               PROVE  \E c \in Channels : notes[c] = t
    BY <1>2 DEF NotesStay
  <2>1. KeysTaken(t) \subseteq KeysTaken(t)'
    BY <1>2, <1>3 DEF KeysTaken
  <2> QED
    BY <2>1, <1>1 DEF NotesStay
<1> QED
  BY <1>6, <1>7, <1>8, <1>9, <1>10, <1>11, <1>12 DEF SendsInv

LEMMA ReturnToDraftKeeps == SendsInv /\ ReturnToDraft => SendsInv'
<1> SUFFICES ASSUME SendsInv, ReturnToDraft PROVE SendsInv'
  OBVIOUS
<1>1. SendsTypeOK /\ place \in Channels
  BY SendsTypes DEF SendsInv
<1>2. /\ posts[place].state = "failed" /\ posts' = [posts EXCEPT ![place] = NoPost]
      /\ UNCHANGED <<place, visits, identity, notes, written, items, waiting, outcomes, taken, given>>
  BY DEF ReturnToDraft
<1>3. \A i \in items : i.key = posts[place].key => IsRefused(i)
  BY <1>1, <1>2 DEF SendsInv, PostsHold, PostIsOf, NoPost
<1>4. /\ posts' \in [Channels -> Post]
      /\ ItemsNumbered' /\ KeysTold' /\ NotesTold' /\ PostsHold'
      /\ LeftIsRefused' /\ OneKeyIsOpen' /\ TakenIsAnswered' /\ NotesStay'
  BY <1>1, <1>2, <1>3, PostEnds
<1> QED
  BY <1>1, <1>2, <1>4 DEF SendsInv, SendsTypeOK, Post

LEMMA SelectKeeps == SendsInv /\ Select => SendsInv'
<1> SUFFICES ASSUME SendsInv, Select PROVE SendsInv'
  OBVIOUS
<1>1. SendsTypeOK /\ posts \in [Channels -> Post]
  BY DEF SendsInv, SendsTypeOK, Post
<1>2. /\ visits' \in 0..MaxVisits /\ place' \in Channels
      /\ UNCHANGED <<written, items, waiting, outcomes, taken>>
  <2>1. visits < MaxVisits /\ visits' = visits + 1 /\ visits \in 0..MaxVisits
    BY <1>1 DEF Select, SendsTypeOK
  <2>2. visits' \in 0..MaxVisits
    BY <2>1, SendsAssumption
  <2> QED
    BY <2>2 DEF Select
<1>3. CASE identity < MaxIdentities /\ identity' = identity + 1 /\ Forget
  <2>1. /\ posts' \in [Channels -> Post] /\ notes' \in [Channels -> 0..MaxWritten]
        /\ given' \subseteq 1..MaxWritten
        /\ ItemsNumbered' /\ KeysTold' /\ NotesTold' /\ PostsHold'
        /\ LeftIsRefused' /\ OneKeyIsOpen' /\ TakenIsAnswered' /\ NotesStay'
    BY <1>2, <1>3, ForgetKeeps
  <2>2. identity' \in 0..MaxIdentities
    BY <1>1, <1>3, SendsAssumption DEF SendsTypeOK
  <2> QED
    BY <2>1, <2>2, <1>1, <1>2 DEF SendsInv, SendsTypeOK, Post
<1>4. CASE /\ posts' = [c \in Channels |-> IF posts[c].state # "sending" THEN posts[c]
                                           ELSE [Failing(posts[c], "unknown") EXCEPT !.item = 0]]
           /\ UNCHANGED <<identity, notes, given>>
  <2>1. ASSUME NEW c \in Channels
        PROVE  /\ posts'[c] \in Post
               /\ \/ posts'[c] = posts[c]
                  \/ PostIsOf(c, posts'[c]) /\ posts'[c].key = posts[c].key
    <3>1. CASE posts[c].state # "sending"
      BY <3>1, <1>1, <1>4
    <3>2. CASE posts[c].state = "sending"
      <4> DEFINE p == Failing(posts[c], "unknown")
                 q == [p EXCEPT !.item = 0]
      <4>1. p \in Post /\ PostIsOf(c, p) /\ p.key = posts[c].key
        BY <3>2, PostFails
      <4>2. posts'[c] = q
        BY <3>2, <1>4
      <4> HIDE DEF p
      <4>3. /\ q \in Post /\ q.item = 0 /\ q.key = p.key /\ q.text = p.text
            /\ q.state = p.state /\ q.uncertain = p.uncertain
        BY <4>1, SendsAssumption DEF Post
      <4>4. p.state # "sending"
        BY <3>2, <1>1 DEF p, Failing, Post
      <4> HIDE DEF q
      <4>5. PostIsOf(c, q)
        BY <4>1, <4>3, <4>4 DEF PostIsOf
      <4> QED
        BY <4>1, <4>2, <4>3, <4>5
    <3> QED
      BY <3>1, <3>2
  <2>2. posts' \in [Channels -> Post]
    <3>1. DOMAIN posts' = Channels /\ posts' = [c \in Channels |-> posts'[c]]
      BY <1>4
    <3> QED
      BY <3>1, <2>1
  <2>3. /\ ItemsNumbered' /\ KeysTold' /\ NotesTold' /\ PostsHold'
        /\ LeftIsRefused' /\ OneKeyIsOpen' /\ TakenIsAnswered' /\ NotesStay'
    BY <2>1, <2>2, <1>2, <1>4, PostsMove
  <2> QED
    BY <2>2, <2>3, <1>1, <1>2, <1>4 DEF SendsInv, SendsTypeOK, Post
<1> QED
  BY <1>3, <1>4 DEF Select

LEMMA SendsStep == SendsInv /\ [NextSends]_sendVars => SendsInv'
<1> SUFFICES ASSUME SendsInv, [NextSends]_sendVars PROVE SendsInv'
  OBVIOUS
<1>1. ASSUME NEW c \in Channels, ShowChannel(c) PROVE SendsInv'
  BY <1>1, SendsFrame DEF ShowChannel, SendsInv, SendsTypeOK
<1>2. CASE UNCHANGED sendVars
  BY <1>2, SendsFrame DEF sendVars, SendsInv, SendsTypeOK
<1> QED
  BY <1>1, <1>2, WriteKeeps, ReturnToDraftKeeps, SelectKeeps, SendKeeps, PostRejectedKeeps,
     PostAnsweredKeeps, ServiceReadsKeeps DEF NextSends

THEOREM SendsTypeCorrect == SpecSends => []SendsTypeOK
<1>1. SpecSends => []SendsInv
  BY SendsStart, SendsStep, PTL DEF SpecSends
<1>2. SendsInv => SendsTypeOK
  BY DEF SendsInv
<1> QED
  BY <1>1, <1>2, PTL

\* What the user writes to a channel is accepted under one key at most, so that the service
\* can tell its repetitions, and leaves the composer only when it has been accepted,
\* replaced, or forgotten with the membership: whatever is answered late or not at all,
\* sent again, returned to the draft, or left for another Workspace.
THEOREM PostIsSentOnce == SpecSends => []PostedOnce
<1>1. SpecSends => []SendsInv
  BY SendsStart, SendsStep, PTL DEF SpecSends
<1>2. SendsInv => PostedOnce
  <2> SUFFICES ASSUME SendsInv, NEW t \in 1..written
               PROVE  /\ Cardinality(KeysTaken(t)) <= 1
                      /\ KeysTaken(t) = {} /\ t \notin given => \E c \in Channels : notes[c] = t
    BY DEF PostedOnce
  <2>1. ASSUME NEW k \in KeysTaken(t), NEW l \in KeysTaken(t), k < l PROVE FALSE
    <3>1. PICK i \in items : i.key = k /\ i.text = t
      BY DEF KeysTaken
    <3>2. PICK j \in items : j.key = l /\ j.text = t
      BY DEF KeysTaken
    <3>3. k \in taken
      BY DEF KeysTaken
    <3>4. PICK m \in items : m.key = k /\ outcomes[m.item] \in {"ok", "unknown"}
      BY <3>3 DEF SendsInv, TakenIsAnswered
    <3>5. m.text = t
      BY <3>1, <3>4 DEF SendsInv, KeysTold
    <3>6. IsRefused(m)
      BY <2>1, <3>2, <3>4, <3>5 DEF SendsInv, OneKeyIsOpen
    <3> QED
      BY <3>4, <3>6 DEF IsRefused
  <2>2. \A k \in KeysTaken(t) : k \in Nat
    BY SendsTypes DEF SendsInv, KeysTaken
  <2>3. \A k, l \in KeysTaken(t) : k = l
    BY <2>1, <2>2
  <2> QED
    BY <2>3, AtMostOne DEF SendsInv, NotesStay
<1> QED
  BY <1>1, <1>2, PTL

--------------------------------------------------------------------------------
(* Commands to external sessions. *)

\* An id is the number of the attempt that made it, and stays with that one.
Own(n) == tries[n].id = n

\* The attempts that are sent have an id, made for their intent.
AttemptsNamed ==
  /\ \A a \in Attempts : /\ meant[a] = 0 <=> tries[a].id = 0
                         /\ tries[a].phase \in {"idle", "hashing"} => tries[a].id = 0
                         /\ tries[a].phase = "hashing" => tries[a].intent \in Intents
                         /\ tries[a].phase \in {"sent", "unknown"} => tries[a].id # 0
                         /\ tries[a].id # 0 => /\ Own(tries[a].id)
                                               /\ tries[tries[a].id].intent = tries[a].intent
  /\ \A n \in known \union pruned \union notices : Own(n)
  /\ \A a \in inbox : tries[a].id # 0
  /\ \A a \in answers : tries[a].phase = "sent"

\* The commands kept, in memory and in localStorage: one for an intent and for an id, of
\* the attempt that made it, whose outcome is not known there before it is known here.
CommandsKept ==
  /\ commands \subseteq stored
  /\ \A c, d \in stored : c.intent = d.intent \/ c.id = d.id => c = d
  /\ \A c \in stored : /\ Own(c.id) /\ tries[c.id].intent = c.intent
                       /\ c.id \notin known => tries[c.id].phase \in {"sent", "unknown"}

\* What memory holds is neither forgotten nor known, unless it has come back.
HeldAreOpen == \A c \in commands : c.id \notin pruned /\ (c.id \in known => c.id \in revived)

\* What is uncertain, and is not forgotten, is held in memory.
OpenAreHeld == \A a \in Attempts :
  tries[a].phase \in {"sent", "unknown"} => tries[a].id \in known \union pruned \union Ids(commands)

\* An id names what was meant with it first.
NamesMean == \A a \in Attempts :
  meant[a] # 0 => tries[a].id \in revived \/ meant[a] = tries[a].id

CommandsInv ==
  /\ CommandsTypeOK /\ AttemptsNamed /\ CommandsKept /\ HeldAreOpen /\ OpenAreHeld /\ NamesMean

LEMMA PruneKeeps ==
  ASSUME NEW cs, NEW now
  PROVE  Prune(cs, now) \subseteq cs
  BY DEF Prune

\* The types a step reads.
Try == [intent : Intents \union {"none"}, phase : Phases, id : 0..MaxAttempts]
LEMMA CommandsTypes ==
  ASSUME CommandsTypeOK
  PROVE  /\ tries \in [Attempts -> Try] /\ clock \in 0..MaxClock
         /\ \A a \in Attempts : /\ a \in 1..MaxAttempts /\ a # 0 /\ a \in 0..MaxAttempts
                                /\ tries[a].id # 0 => tries[a].id \in Attempts
         /\ \A c \in stored : c.id \in Attempts /\ c.intent \in Intents
<1>1. tries \in [Attempts -> Try] /\ clock \in 0..MaxClock
  BY DEF CommandsTypeOK, Try
<1>2. \A a \in Attempts : a \in 1..MaxAttempts /\ a # 0 /\ a \in 0..MaxAttempts
  BY CommandsAssumption DEF Attempts
<1>3. \A a \in Attempts : tries[a].id # 0 => tries[a].id \in Attempts
  BY <1>1, CommandsAssumption DEF Try, Attempts
<1>4. \A c \in stored : c.id \in Attempts /\ c.intent \in Intents
  BY DEF CommandsTypeOK, Command
<1> QED
  BY <1>1, <1>2, <1>3, <1>4

LEMMA CommandsStart == InitCommands => CommandsInv
<1> SUFFICES ASSUME InitCommands PROVE CommandsInv
  OBVIOUS
<1>1. CommandsTypeOK
  <2>1. 0 \in 0..MaxClock /\ 0 \in 0..MaxAttempts /\ MaxLosses \in 0..MaxLosses
    BY CommandsAssumption
  <2>2. [intent |-> "none", phase |-> "idle", id |-> 0] \in Try
    BY <2>1 DEF Try, Phases
  <2>3. /\ tries \in [Attempts -> Try] /\ receipts \in [Attempts -> Receipts]
        /\ meant \in [Attempts -> 0..MaxAttempts]
    BY <2>1, <2>2 DEF InitCommands, Receipts
  <2>4. commands = {} /\ stored = {} /\ inbox = {} /\ answers = {} /\ notices = {}
    BY DEF InitCommands
  <2>5. known = {} /\ pruned = {} /\ revived = {} /\ online = TRUE /\ clock = 0 /\ left = MaxLosses
    BY DEF InitCommands
  <2> QED
    BY <2>1, <2>3, <2>4, <2>5 DEF CommandsTypeOK, Try
<1>2. /\ commands = {} /\ stored = {} /\ known = {} /\ pruned = {} /\ notices = {}
      /\ inbox = {} /\ answers = {}
      /\ \A a \in Attempts : tries[a].phase = "idle" /\ tries[a].id = 0 /\ meant[a] = 0
  BY DEF InitCommands
<1>3. AttemptsNamed /\ CommandsKept
  BY <1>2 DEF AttemptsNamed, CommandsKept
<1>4. HeldAreOpen /\ OpenAreHeld /\ NamesMean
  BY <1>2 DEF HeldAreOpen, OpenAreHeld, NamesMean
<1> QED
  BY <1>1, <1>3, <1>4 DEF CommandsInv

LEMMA BeginKeeps ==
  ASSUME CommandsInv, NEW a \in Attempts, NEW intent \in Intents, Begin(a, intent)
  PROVE  CommandsInv'
<1>1. /\ CommandsTypeOK /\ AttemptsNamed /\ CommandsKept /\ HeldAreOpen /\ OpenAreHeld /\ NamesMean
      /\ tries \in [Attempts -> Try]
  BY CommandsTypes DEF CommandsInv
<1>2. /\ tries[a].phase = "idle" /\ tries[a].id = 0
      /\ UNCHANGED <<clock, commands, stored, online, inbox, receipts, answers, notices, known,
                     meant, pruned, revived, left>>
  BY <1>1 DEF Begin, AttemptsNamed
<1>3. tries' = [tries EXCEPT ![a] = [@ EXCEPT !.intent = intent, !.phase = "hashing"]]
  BY DEF Begin
<1>4. /\ \A b \in Attempts : tries'[b].id = tries[b].id
      /\ \A b \in Attempts : b # a => tries'[b] = tries[b]
      /\ tries'[a].phase = "hashing" /\ tries'[a].intent = intent
  BY <1>1, <1>3 DEF Try
<1>5. \A n \in Attempts : Own(n) => n # a
  BY <1>2, CommandsTypes, <1>1 DEF Own
<1>6. CommandsTypeOK'
  <2>1. tries' \in [Attempts -> Try]
    BY <1>1, <1>3 DEF Try, Phases
  <2> QED
    BY <2>1, <1>1, <1>2 DEF CommandsTypeOK, Try, Command
<1>7. AttemptsNamed'
  <2>1. ASSUME NEW b \in Attempts
        PROVE  /\ meant[b] = 0 <=> tries'[b].id = 0
               /\ tries'[b].phase \in {"idle", "hashing"} => tries'[b].id = 0
               /\ tries'[b].phase = "hashing" => tries'[b].intent \in Intents
               /\ tries'[b].phase \in {"sent", "unknown"} => tries'[b].id # 0
               /\ tries'[b].id # 0 => /\ tries'[tries'[b].id].id = tries'[b].id
                                      /\ tries'[tries'[b].id].intent = tries'[b].intent
    <3>1. CASE b = a
      BY <3>1, <1>1, <1>2, <1>4 DEF AttemptsNamed
    <3>2. CASE b # a
      BY <3>2, <1>1, <1>4, <1>5, CommandsTypes DEF AttemptsNamed, Own
    <3> QED
      BY <3>1, <3>2
  <2>2. \A n \in known \union pruned \union notices : tries'[n].id = n
    BY <1>1, <1>4 DEF AttemptsNamed, Own, CommandsTypeOK
  <2>3. \A b \in inbox : tries'[b].id # 0
    BY <1>1, <1>4 DEF AttemptsNamed, CommandsTypeOK
  <2>4. \A b \in answers : tries'[b].phase = "sent"
    BY <1>1, <1>2, <1>4 DEF AttemptsNamed, CommandsTypeOK
  <2> QED
    BY <2>1, <2>2, <2>3, <2>4, <1>2 DEF AttemptsNamed, Own
<1>8. CommandsKept'
  BY <1>1, <1>2, <1>4, <1>5, CommandsTypes DEF CommandsKept, Own
<1>9. HeldAreOpen' /\ NamesMean'
  BY <1>1, <1>2, <1>4 DEF HeldAreOpen, NamesMean
<1>10. OpenAreHeld'
  BY <1>1, <1>2, <1>4 DEF OpenAreHeld, Ids
<1> QED
  BY <1>6, <1>7, <1>8, <1>9, <1>10 DEF CommandsInv

\* Attempts keep their ids while they turn uncertain, are given up before they have one,
\* or end with their outcome known; commands are only dropped.
LEMMA AttemptsMove ==
  ASSUME CommandsInv, tries' \in [Attempts -> Try],
         \A a \in Attempts : tries'[a].id = tries[a].id /\ tries'[a].intent = tries[a].intent,
         \A a \in Attempts : \/ tries'[a].phase = tries[a].phase
                             \/ tries[a].phase = "hashing" /\ tries'[a].phase = "done"
                             \/ tries[a].phase = "sent" /\ tries'[a].phase = "unknown"
                             \/ tries[a].phase = "sent" /\ tries[a].id \in known',
         known \subseteq known',
         \A n \in known' \union pruned' \union notices' : n \in Attempts /\ Own(n),
         \A a \in answers' : a \in Attempts /\ tries'[a].phase = "sent",
         inbox' \subseteq inbox, commands' \subseteq stored', stored' \subseteq stored,
         \A a \in Attempts : tries'[a].phase \in {"sent", "unknown"} =>
                               tries[a].phase \in {"sent", "unknown"},
         \A a \in Attempts : tries'[a].phase \in {"idle", "hashing"} =>
                               tries[a].phase \in {"idle", "hashing"},
         meant' = meant, revived \subseteq revived'
  PROVE  AttemptsNamed' /\ CommandsKept' /\ NamesMean'
<1>1. /\ CommandsTypeOK /\ AttemptsNamed /\ CommandsKept /\ NamesMean
  BY DEF CommandsInv
<1>2. \A n \in Attempts : Own(n)' <=> Own(n)
  BY DEF Own
<1>3. AttemptsNamed'
  <2>1. ASSUME NEW a \in Attempts
        PROVE  /\ meant[a] = 0 <=> tries'[a].id = 0
               /\ tries'[a].phase \in {"idle", "hashing"} => tries'[a].id = 0
               /\ tries'[a].phase = "hashing" => tries'[a].intent \in Intents
               /\ tries'[a].phase \in {"sent", "unknown"} => tries'[a].id # 0
               /\ tries'[a].id # 0 => /\ Own(tries[a].id)'
                                      /\ tries'[tries'[a].id].intent = tries'[a].intent
    <3>1. tries[a].id # 0 => tries[a].id \in Attempts
      BY <1>1, CommandsTypes
    <3> QED
      BY <3>1, <1>1 DEF AttemptsNamed, Own
  <2>2. \A n \in known' \union pruned' \union notices' : Own(n)'
    BY <1>2
  <2>3. \A a \in inbox' : tries'[a].id # 0
    BY <1>1 DEF AttemptsNamed, CommandsTypeOK
  <2> QED
    BY <2>1, <2>2, <2>3 DEF AttemptsNamed
<1>4. CommandsKept'
  <2>1. \A c, d \in stored' : c.intent = d.intent \/ c.id = d.id => c = d
    BY <1>1 DEF CommandsKept
  <2>2. ASSUME NEW c \in stored'
        PROVE  /\ Own(c.id)' /\ tries'[c.id].intent = c.intent
               /\ c.id \notin known' => tries'[c.id].phase \in {"sent", "unknown"}
    <3>1. c \in stored /\ c.id \in Attempts
      BY <1>1, CommandsTypes
    <3>2. /\ Own(c.id) /\ tries[c.id].intent = c.intent
          /\ c.id \notin known => tries[c.id].phase \in {"sent", "unknown"}
      BY <3>1, <1>1 DEF CommandsKept
    <3>3. tries[c.id].id = c.id
      BY <3>2 DEF Own
    <3> QED
      BY <3>1, <3>2, <3>3, <1>2
  <2> QED
    BY <2>1, <2>2 DEF CommandsKept
<1>5. NamesMean'
  BY <1>1 DEF NamesMean
<1> QED
  BY <1>3, <1>4, <1>5

\* The outcome of an id is read: by the attempt a that carries it, or by a notice.
LEMMA OutcomeRead ==
  ASSUME CommandsInv, NEW n \in Attempts, Own(n), Settle(n), UNCHANGED <<pruned, revived>>,
         \A a \in Attempts : tries'[a].id = tries[a].id,
         \A a \in Attempts : tries'[a].phase \in {"sent", "unknown"} =>
                               tries[a].phase \in {"sent", "unknown"}
  PROVE  /\ commands' \subseteq stored' /\ stored' \subseteq stored
         /\ commands' \subseteq commands /\ known' = known \union {n}
         /\ HeldAreOpen' /\ OpenAreHeld'
<1>1. CommandsTypeOK /\ CommandsKept /\ HeldAreOpen /\ OpenAreHeld
  BY DEF CommandsInv
<1>2. /\ commands' = Settled(commands, n) /\ known' = known \union {n}
      /\ stored' = Settled(commands, n) \/ stored' = stored
  BY DEF Settle
<1>3. commands' = {c \in commands : c.id # n}
  BY <1>2 DEF Settled
<1>4. commands' \subseteq stored' /\ stored' \subseteq stored
  BY <1>1, <1>2 DEF Settled, CommandsKept
<1>5. HeldAreOpen'
  BY <1>1, <1>2, <1>3 DEF HeldAreOpen
<1>6. OpenAreHeld'
  <2> SUFFICES ASSUME NEW a \in Attempts, tries'[a].phase \in {"sent", "unknown"},
                      tries[a].id \notin known' \union pruned
               PROVE  tries[a].id \in Ids(commands')
    BY DEF OpenAreHeld, Ids
  <2>1. tries[a].id \in Ids(commands)
    BY <1>1, <1>2 DEF OpenAreHeld
  <2> QED
    BY <2>1, <1>2, <1>3 DEF Ids
<1> QED
  BY <1>2, <1>3, <1>4, <1>5, <1>6

LEMMA ReadAnswerKeeps ==
  ASSUME CommandsInv, NEW a \in Attempts, ReadAnswer(a)
  PROVE  CommandsInv'
<1> DEFINE n == tries[a].id
           kind == receipts[n]
           phase == IF kind = "settled" THEN "done" ELSE "unknown"
<1>1. /\ CommandsTypeOK /\ AttemptsNamed /\ HeldAreOpen /\ OpenAreHeld /\ CommandsKept
      /\ tries \in [Attempts -> Try]
  BY CommandsTypes DEF CommandsInv
<1>2. /\ a \in answers /\ answers' = answers \ {a}
      /\ tries' = [tries EXCEPT ![a].phase = phase]
      /\ IF kind = "unsure" THEN UNCHANGED <<commands, stored, known>> ELSE Settle(n)
      /\ UNCHANGED <<clock, online, inbox, receipts, notices, meant, pruned, revived, left>>
  BY DEF ReadAnswer
<1>3. tries[a].phase = "sent" /\ n \in Attempts /\ Own(n)
  BY <1>1, <1>2, CommandsTypes DEF AttemptsNamed
<1>4. phase \in {"done", "unknown"} /\ (phase = "done" => kind # "unsure")
  OBVIOUS
<1> HIDE DEF phase, kind
<1>5. /\ tries'[a].phase = phase /\ tries'[a].id = n /\ tries'[a].intent = tries[a].intent
      /\ \A b \in Attempts : b # a => tries'[b] = tries[b]
  BY <1>1, <1>2 DEF Try
<1>6. tries' \in [Attempts -> Try]
  BY <1>1, <1>2, <1>4 DEF Try, Phases
<1>7. /\ commands' \subseteq stored' /\ stored' \subseteq stored /\ commands' \subseteq commands
      /\ known \subseteq known' /\ known' \subseteq known \union {n}
      /\ kind # "unsure" => n \in known'
      /\ HeldAreOpen' /\ OpenAreHeld'
  <2>1. CASE kind = "unsure"
    <3>1. UNCHANGED <<commands, stored, known>>
      BY <2>1, <1>2
    <3>2. HeldAreOpen'
      BY <3>1, <1>1, <1>2 DEF HeldAreOpen
    <3>3. OpenAreHeld'
      BY <3>1, <1>1, <1>2, <1>3, <1>5 DEF OpenAreHeld, Ids
    <3> QED
      BY <2>1, <3>1, <3>2, <3>3, <1>1 DEF CommandsKept
  <2>2. CASE kind # "unsure"
    <3>1. Settle(n)
      BY <2>2, <1>2
    <3>2. \A b \in Attempts : /\ tries'[b].id = tries[b].id
                              /\ tries'[b].phase \in {"sent", "unknown"} =>
                                   tries[b].phase \in {"sent", "unknown"}
      BY <1>3, <1>5
    <3> HIDE DEF n
    <3> QED
      BY <3>1, <3>2, <1>2, <1>3, OutcomeRead
  <2> QED
    BY <2>1, <2>2
<1>8. CommandsTypeOK'
  <2>1. commands' \subseteq Command /\ stored' \subseteq Command /\ known' \subseteq Attempts
    BY <1>1, <1>3, <1>7 DEF CommandsTypeOK
  <2> QED
    BY <2>1, <1>1, <1>2, <1>6, <1>7 DEF CommandsTypeOK, Try, Command
<1>9. AttemptsNamed' /\ CommandsKept' /\ NamesMean'
  <2>1. \A b \in Attempts : \/ tries'[b].phase = tries[b].phase
                            \/ tries[b].phase = "sent" /\ tries'[b].phase = "unknown"
                            \/ tries[b].phase = "sent" /\ tries[b].id \in known'
    BY <1>3, <1>4, <1>5, <1>7
  <2>2. \A m \in known' \union pruned' \union notices' : m \in Attempts /\ Own(m)
    BY <1>1, <1>2, <1>3, <1>7 DEF AttemptsNamed, CommandsTypeOK
  <2>3. \A b \in answers' : b \in Attempts /\ tries'[b].phase = "sent"
    BY <1>1, <1>2, <1>5 DEF AttemptsNamed, CommandsTypeOK
  <2>4. \A b \in Attempts :
          /\ tries'[b].id = tries[b].id /\ tries'[b].intent = tries[b].intent
          /\ tries'[b].phase \in {"sent", "unknown"} => tries[b].phase \in {"sent", "unknown"}
          /\ tries'[b].phase \in {"idle", "hashing"} => tries[b].phase \in {"idle", "hashing"}
    BY <1>3, <1>4, <1>5
  <2> QED
    BY <2>1, <2>2, <2>3, <2>4, <1>2, <1>6, <1>7, AttemptsMove
<1> QED
  BY <1>7, <1>8, <1>9 DEF CommandsInv

LEMMA ReadNoticeKeeps ==
  ASSUME CommandsInv, NEW n \in Attempts, ReadNotice(n)
  PROVE  CommandsInv'
<1>1. /\ CommandsTypeOK /\ AttemptsNamed /\ tries \in [Attempts -> Try]
  BY CommandsTypes DEF CommandsInv
<1>2. /\ n \in notices /\ notices' = notices \ {n} /\ Settle(n)
      /\ UNCHANGED <<clock, tries, online, inbox, receipts, answers, meant, pruned, revived, left>>
  BY DEF ReadNotice
<1>3. Own(n)
  BY <1>1, <1>2 DEF AttemptsNamed
<1>4. /\ commands' \subseteq stored' /\ stored' \subseteq stored
      /\ commands' \subseteq commands /\ known' = known \union {n}
      /\ HeldAreOpen' /\ OpenAreHeld'
  BY <1>2, <1>3, OutcomeRead
<1>5. AttemptsNamed' /\ CommandsKept' /\ NamesMean'
  <2>1. \A m \in known' \union pruned' \union notices' : m \in Attempts /\ Own(m)
    BY <1>1, <1>2, <1>3, <1>4 DEF AttemptsNamed, CommandsTypeOK
  <2>2. \A b \in answers' : b \in Attempts /\ tries'[b].phase = "sent"
    BY <1>1, <1>2 DEF AttemptsNamed, CommandsTypeOK
  <2> QED
    BY <2>1, <2>2, <1>1, <1>2, <1>4, AttemptsMove
<1>6. CommandsTypeOK'
  BY <1>1, <1>2, <1>4 DEF CommandsTypeOK
<1> QED
  BY <1>4, <1>5, <1>6 DEF CommandsInv

LEMMA CloseKeeps == CommandsInv /\ Close => CommandsInv'
<1> SUFFICES ASSUME CommandsInv, Close PROVE CommandsInv'
  OBVIOUS
<1>1. /\ CommandsTypeOK /\ AttemptsNamed /\ HeldAreOpen /\ OpenAreHeld /\ CommandsKept
      /\ tries \in [Attempts -> Try]
  BY CommandsTypes DEF CommandsInv
<1>2. /\ left > 0 /\ left' = left - 1 /\ online' = FALSE /\ answers' = {} /\ inbox' \subseteq inbox
      /\ UNCHANGED <<clock, commands, stored, receipts, notices, known, meant, pruned, revived>>
  BY DEF Close
<1>3. tries' = [a \in Attempts |->
                  IF tries[a].phase = "sent" THEN [tries[a] EXCEPT !.phase = "unknown"] ELSE tries[a]]
  BY DEF Close
<1>4. ASSUME NEW a \in Attempts
      PROVE  /\ tries'[a] \in Try
             /\ tries'[a].id = tries[a].id /\ tries'[a].intent = tries[a].intent
             /\ tries'[a].phase = IF tries[a].phase = "sent" THEN "unknown" ELSE tries[a].phase
  BY <1>1, <1>3 DEF Try, Phases
<1>5. tries' \in [Attempts -> Try]
  BY <1>3, <1>4
<1>6. CommandsTypeOK'
  <2>1. left' \in 0..MaxLosses
    BY <1>1, <1>2, CommandsAssumption DEF CommandsTypeOK
  <2> QED
    BY <2>1, <1>1, <1>2, <1>5 DEF CommandsTypeOK, Try, Command
<1>7. AttemptsNamed' /\ CommandsKept' /\ NamesMean'
  <2>1. \A n \in known' \union pruned' \union notices' : n \in Attempts /\ Own(n)
    BY <1>1, <1>2 DEF AttemptsNamed, CommandsTypeOK
  <2>2. commands' \subseteq stored' /\ stored' \subseteq stored
    BY <1>1, <1>2 DEF CommandsKept
  <2> QED
    BY <2>1, <2>2, <1>2, <1>4, <1>5, AttemptsMove
<1>8. HeldAreOpen'
  BY <1>1, <1>2 DEF HeldAreOpen
<1>9. OpenAreHeld'
  BY <1>1, <1>2, <1>4 DEF OpenAreHeld, Ids
<1> QED
  BY <1>6, <1>7, <1>8, <1>9 DEF CommandsInv

LEMMA ReloadKeeps == CommandsInv /\ Reload => CommandsInv'
<1> SUFFICES ASSUME CommandsInv, Reload PROVE CommandsInv'
  OBVIOUS
<1>1. /\ CommandsTypeOK /\ AttemptsNamed /\ HeldAreOpen /\ OpenAreHeld /\ CommandsKept
      /\ tries \in [Attempts -> Try]
  BY CommandsTypes DEF CommandsInv
<1>2. /\ left > 0 /\ left' = left - 1 /\ online' = FALSE /\ answers' = {}
      /\ UNCHANGED <<clock, stored, inbox, receipts, notices, known, meant>>
  BY DEF Reload
<1>3. /\ commands' = Prune(stored, clock)
      /\ pruned' = (pruned \union Ids(stored)) \ Ids(commands')
      /\ revived' = revived \union (known \intersect Ids(commands'))
  BY DEF Reload, Ids
<1>4. tries' = [a \in Attempts |->
                  CASE tries[a].phase = "hashing" -> [tries[a] EXCEPT !.phase = "done"]
                    [] tries[a].phase = "sent" -> [tries[a] EXCEPT !.phase = "unknown"]
                    [] OTHER -> tries[a]]
  BY DEF Reload
<1>5. ASSUME NEW a \in Attempts
      PROVE  /\ tries'[a] \in Try
             /\ tries'[a].id = tries[a].id /\ tries'[a].intent = tries[a].intent
             /\ \/ tries'[a].phase = tries[a].phase
                \/ tries[a].phase = "hashing" /\ tries'[a].phase = "done"
                \/ tries[a].phase = "sent" /\ tries'[a].phase = "unknown"
  <2>1. CASE tries[a].phase = "hashing"
    BY <2>1, <1>1, <1>4 DEF Try, Phases
  <2>2. CASE tries[a].phase = "sent"
    BY <2>2, <1>1, <1>4 DEF Try, Phases
  <2>3. CASE tries[a].phase \notin {"hashing", "sent"}
    BY <2>3, <1>1, <1>4
  <2> QED
    BY <2>1, <2>2, <2>3
<1>6. tries' \in [Attempts -> Try]
  BY <1>4, <1>5
<1>7. commands' \subseteq stored
  BY <1>3, PruneKeeps
<1>8. \A n \in Ids(stored) : n \in Attempts /\ Own(n)
  BY <1>1, CommandsTypes DEF Ids, CommandsKept
<1>9. CommandsTypeOK'
  <2>1. left' \in 0..MaxLosses
    BY <1>1, <1>2, CommandsAssumption DEF CommandsTypeOK
  <2>2. pruned' \subseteq Attempts /\ revived' \subseteq known
    BY <1>1, <1>3, <1>8 DEF CommandsTypeOK
  <2> QED
    BY <2>1, <2>2, <1>1, <1>2, <1>6, <1>7 DEF CommandsTypeOK, Try, Command
<1>10. AttemptsNamed' /\ CommandsKept' /\ NamesMean'
  <2>1. \A n \in known' \union pruned' \union notices' : n \in Attempts /\ Own(n)
    BY <1>1, <1>2, <1>3, <1>8 DEF AttemptsNamed, CommandsTypeOK
  <2>2. revived \subseteq revived'
    BY <1>3
  <2> QED
    BY <2>1, <2>2, <1>2, <1>5, <1>6, <1>7, AttemptsMove
<1>11. HeldAreOpen'
  BY <1>2, <1>3 DEF HeldAreOpen, Ids
<1>12. OpenAreHeld'
  <2> SUFFICES ASSUME NEW a \in Attempts, tries'[a].phase \in {"sent", "unknown"},
                      tries[a].id \notin known, tries[a].id \notin Ids(commands')
               PROVE  tries[a].id \in pruned'
    BY <1>2, <1>5 DEF OpenAreHeld, Ids
  <2>1. tries[a].phase \in {"sent", "unknown"}
    BY <1>5
  <2>2. tries[a].id \in pruned \union Ids(commands)
    BY <2>1, <1>1 DEF OpenAreHeld
  <2>3. Ids(commands) \subseteq Ids(stored)
    BY <1>1 DEF Ids, CommandsKept
  <2> QED
    BY <2>2, <2>3, <1>3
<1> QED
  BY <1>9, <1>10, <1>11, <1>12 DEF CommandsInv

LEMMA ServeReadsKeeps ==
  ASSUME CommandsInv, NEW a \in Attempts, ServeReads(a)
  PROVE  CommandsInv'
<1> DEFINE n == tries[a].id
<1>1. /\ CommandsTypeOK /\ AttemptsNamed /\ HeldAreOpen /\ OpenAreHeld /\ CommandsKept
      /\ tries \in [Attempts -> Try]
  BY CommandsTypes DEF CommandsInv
<1>2. /\ a \in inbox /\ inbox' = inbox \ {a}
      /\ answers' = IF tries[a].phase = "sent" THEN answers \union {a} ELSE answers
      /\ UNCHANGED <<clock, commands, stored, tries, online, known, meant, pruned, revived, left>>
  BY DEF ServeReads
<1>3. n \in Attempts /\ Own(n)
  BY <1>1, <1>2, CommandsTypes DEF AttemptsNamed
<1>4. /\ notices' \subseteq notices \union {n}
      /\ \E kind \in Receipts : receipts' = [receipts EXCEPT ![n] = kind]
  BY DEF ServeReads
<1>5. CommandsTypeOK'
  <2>1. receipts' \in [Attempts -> Receipts]
    BY <1>1, <1>4 DEF CommandsTypeOK
  <2>2. notices' \subseteq Attempts /\ answers' \subseteq Attempts /\ inbox' \subseteq Attempts
    BY <1>1, <1>2, <1>3, <1>4 DEF CommandsTypeOK
  <2> QED
    BY <2>1, <2>2, <1>1, <1>2 DEF CommandsTypeOK, Command
<1>6. AttemptsNamed' /\ CommandsKept' /\ NamesMean'
  <2>1. \A m \in known' \union pruned' \union notices' : m \in Attempts /\ Own(m)
    BY <1>1, <1>2, <1>3, <1>4 DEF AttemptsNamed, CommandsTypeOK
  <2>2. \A b \in answers' : b \in Attempts /\ tries'[b].phase = "sent"
    BY <1>1, <1>2 DEF AttemptsNamed, CommandsTypeOK
  <2>3. commands' \subseteq stored' /\ stored' \subseteq stored
    BY <1>1, <1>2 DEF CommandsKept
  <2> QED
    BY <2>1, <2>2, <2>3, <1>1, <1>2, AttemptsMove
<1>7. HeldAreOpen' /\ OpenAreHeld'
  BY <1>1, <1>2 DEF HeldAreOpen, OpenAreHeld, Ids
<1> QED
  BY <1>5, <1>6, <1>7 DEF CommandsInv

\* The attempt a is given the id n: its own, or one that is held for its intent.
LEMMA IdIsGiven ==
  ASSUME CommandsInv, NEW a \in Attempts, tries[a].phase = "hashing",
         NEW n \in Attempts, n = a \/ (Own(n) /\ tries[n].intent = tries[a].intent),
         NEW fresh, fresh = [intent |-> tries[a].intent, id |-> a, at |-> clock],
         tries' = [tries EXCEPT ![a] = [@ EXCEPT !.id = n,
                                                 !.phase = IF online THEN "sent" ELSE "unknown"]],
         commands' \subseteq stored', commands' \subseteq commands \union {fresh},
         stored' \subseteq stored \union {fresh},
         fresh \in stored' => n = a /\ \A c \in stored' : c.intent = tries[a].intent => c = fresh,
         pruned' = pruned \union ((Ids(commands) \union {n}) \ Ids(commands')),
         inbox' = IF online THEN inbox \union {a} ELSE inbox,
         NEW m \in Attempts, meant' = [meant EXCEPT ![a] = m], n \in revived \/ m = n,
         UNCHANGED <<clock, online, receipts, answers, notices, known, revived, left>>
  PROVE  CommandsInv'
<1>1. /\ CommandsTypeOK /\ AttemptsNamed /\ CommandsKept /\ HeldAreOpen /\ OpenAreHeld /\ NamesMean
      /\ tries \in [Attempts -> Try]
      /\ tries[a].id = 0 /\ tries[a].intent \in Intents
  <2>1. tries[a].id = 0 /\ tries[a].intent \in Intents
    BY DEF CommandsInv, AttemptsNamed
  <2> QED
    BY <2>1, CommandsTypes DEF CommandsInv
<1>2. /\ tries'[a].id = n /\ tries'[a].intent = tries[a].intent
      /\ tries'[a].phase \in {"sent", "unknown"}
      /\ \A b \in Attempts : b # a => tries'[b] = tries[b]
  BY <1>1 DEF Try
<1>3. \A b \in Attempts : Own(b) => b # a /\ Own(b)'
  BY <1>1, <1>2, CommandsTypes DEF Own
<1>4. Own(n)' /\ tries'[n].intent = tries[a].intent /\ n # 0
  BY <1>1, <1>2, <1>3, CommandsTypes DEF Own
<1>5. meant'[a] = m /\ m # 0 /\ \A b \in Attempts : b # a => meant'[b] = meant[b]
  BY <1>1, CommandsTypes DEF CommandsTypeOK
<1>6. fresh.id = a /\ fresh.intent = tries[a].intent
  OBVIOUS
<1>7. \A c \in stored : c.id \in Attempts /\ Own(c.id) /\ c.id # a
  BY <1>1, <1>3, CommandsTypes DEF CommandsKept
<1>8. \A i \in Ids(commands) : i \in Attempts /\ Own(i)
  BY <1>1, <1>7 DEF Ids, CommandsKept
<1>9. CommandsTypeOK'
  <2>1. tries' \in [Attempts -> Try]
    <3>1. n \in 0..MaxAttempts
      BY <1>1, CommandsTypes
    <3>2. [tries[a] EXCEPT !.id = n, !.phase = IF online THEN "sent" ELSE "unknown"] \in Try
      BY <3>1, <1>1 DEF Try, Phases
    <3> QED
      BY <3>2, <1>1
  <2>2. commands' \subseteq Command /\ stored' \subseteq Command
    <3>1. fresh \in Command
      BY <1>1, CommandsTypes DEF Command
    <3> QED
      BY <3>1, <1>1 DEF CommandsTypeOK
  <2>3. meant' \in [Attempts -> 0..MaxAttempts]
    BY <1>1, CommandsTypes DEF CommandsTypeOK
  <2>4. pruned' \subseteq Attempts /\ inbox' \subseteq Attempts
    BY <1>1, <1>8 DEF CommandsTypeOK
  <2> QED
    BY <2>1, <2>2, <2>3, <2>4, <1>1 DEF CommandsTypeOK, Try, Command
<1>10. AttemptsNamed'
  <2>1. ASSUME NEW b \in Attempts
        PROVE  /\ meant'[b] = 0 <=> tries'[b].id = 0
               /\ tries'[b].phase \in {"idle", "hashing"} => tries'[b].id = 0
               /\ tries'[b].phase = "hashing" => tries'[b].intent \in Intents
               /\ tries'[b].phase \in {"sent", "unknown"} => tries'[b].id # 0
               /\ tries'[b].id # 0 => /\ tries'[tries'[b].id].id = tries'[b].id
                                      /\ tries'[tries'[b].id].intent = tries'[b].intent
    <3>1. CASE b = a
      BY <3>1, <1>2, <1>4, <1>5 DEF Own
    <3>2. CASE b # a
      <4>1. tries'[b] = tries[b] /\ meant'[b] = meant[b]
        BY <3>2, <1>2, <1>5
      <4>2. tries[b].id # 0 => /\ tries[b].id \in Attempts /\ tries[b].id # a
                               /\ Own(tries[b].id)
                               /\ tries[tries[b].id].intent = tries[b].intent
        BY <1>1, <1>3, CommandsTypes DEF AttemptsNamed
      <4>3. tries[b].id # 0 => tries'[tries[b].id] = tries[tries[b].id]
        BY <4>2, <1>2
      <4>4. tries[b].id # 0 => tries'[tries[b].id].id = tries[b].id
        BY <4>2, <4>3 DEF Own
      <4> QED
        BY <4>1, <4>2, <4>3, <4>4, <1>1 DEF AttemptsNamed
    <3> QED
      BY <3>1, <3>2
  <2>2. \A i \in known \union pruned' \union notices : Own(i)'
    BY <1>1, <1>3, <1>4, <1>8 DEF AttemptsNamed, CommandsTypeOK
  <2>3. \A b \in inbox' : tries'[b].id # 0
    BY <1>1, <1>2, <1>4 DEF AttemptsNamed, CommandsTypeOK
  <2>4. \A b \in answers : tries'[b].phase = "sent"
    BY <1>1, <1>2 DEF AttemptsNamed, CommandsTypeOK
  <2> QED
    BY <2>1, <2>2, <2>3, <2>4 DEF AttemptsNamed, Own
<1>11. CommandsKept'
  <2>1. \A c, d \in stored' : c.intent = d.intent \/ c.id = d.id => c = d
    BY <1>1, <1>6, <1>7 DEF CommandsKept
  <2>2. ASSUME NEW c \in stored'
        PROVE  /\ Own(c.id)' /\ tries'[c.id].intent = c.intent
               /\ c.id \notin known => tries'[c.id].phase \in {"sent", "unknown"}
    <3>1. CASE c \in stored
      BY <3>1, <1>1, <1>2, <1>3, <1>7 DEF CommandsKept
    <3>2. CASE c = fresh
      BY <3>2, <1>2, <1>4, <1>6
    <3> QED
      BY <3>1, <3>2
  <2> QED
    BY <2>1, <2>2 DEF CommandsKept
<1>12. HeldAreOpen'
  <2> SUFFICES ASSUME NEW c \in commands'
               PROVE  c.id \notin pruned' /\ (c.id \in known => c.id \in revived)
    BY DEF HeldAreOpen
  <2>1. c.id \in Ids(commands')
    BY DEF Ids
  <2>2. CASE c \in commands
    BY <2>1, <2>2, <1>1 DEF HeldAreOpen
  <2>3. CASE c = fresh
    BY <2>1, <2>3, <1>1, <1>3, <1>6 DEF AttemptsNamed, CommandsTypeOK
  <2> QED
    BY <2>2, <2>3
<1>13. OpenAreHeld'
  <2> SUFFICES ASSUME NEW b \in Attempts, tries'[b].phase \in {"sent", "unknown"}
               PROVE  tries'[b].id \in known \union pruned' \union Ids(commands')
    BY DEF OpenAreHeld, Ids
  <2>1. CASE b = a
    BY <2>1, <1>2
  <2>2. CASE b # a
    BY <2>2, <1>1, <1>2 DEF OpenAreHeld
  <2> QED
    BY <2>1, <2>2
<1>14. NamesMean'
  BY <1>1, <1>2, <1>5 DEF NamesMean
<1> QED
  BY <1>9, <1>10, <1>11, <1>12, <1>13, <1>14 DEF CommandsInv

LEMMA FingerprintedKeeps ==
  ASSUME CommandsInv, NEW a \in Attempts, Fingerprinted(a)
  PROVE  CommandsInv'
<1> DEFINE kept == Prune(commands, clock)
           fresh == [intent |-> tries[a].intent, id |-> a, at |-> clock]
           new == Prune(kept \union {fresh}, clock)
           prior == Matching(kept, tries[a].intent)
           t == Tracked(a)
           still == Uncertain(a, pruned')
<1>1. /\ CommandsTypeOK /\ AttemptsNamed /\ CommandsKept /\ HeldAreOpen /\ OpenAreHeld /\ NamesMean
  BY DEF CommandsInv
<1>2. /\ tries[a].phase = "hashing" /\ tries[a].id = 0
      /\ inbox' = IF online THEN inbox \union {a} ELSE inbox
      /\ meant' = [meant EXCEPT ![a] = Same(a, pruned')]
      /\ UNCHANGED <<clock, online, receipts, answers, notices, known, revived, left>>
  BY <1>1 DEF Fingerprinted, AttemptsNamed
<1>3. /\ commands' = t.commands /\ stored' = t.stored
      /\ tries' = [tries EXCEPT ![a] = [@ EXCEPT !.id = t.id,
                                                 !.phase = IF online THEN "sent" ELSE "unknown"]]
      /\ pruned' = pruned \union ((Ids(commands) \union {t.id}) \ Ids(t.commands))
  BY DEF Fingerprinted
<1>4. /\ kept \subseteq commands /\ commands \subseteq stored /\ new \subseteq kept \union {fresh}
      /\ \A c \in prior : c \in kept /\ c.intent = tries[a].intent
      /\ \A c \in kept : c.intent = tries[a].intent => c \in prior
  BY <1>1, PruneKeeps DEF CommandsKept, Matching
<1>5. \A c \in stored : /\ c.id \in Attempts /\ Own(c.id) /\ c.id # a
                        /\ tries[c.id].intent = c.intent
  BY <1>1, <1>2, CommandsTypes DEF CommandsKept, Own
\* What is still uncertain with this intent has its command in memory.
<1>6. ASSUME commands' \subseteq kept \union {fresh}, NEW b \in still
      PROVE  \E c \in prior : c.id = tries[b].id
  <2>1. /\ b \in Attempts /\ tries[b].intent = tries[a].intent
        /\ tries[b].phase \in {"sent", "unknown"} /\ tries[b].id \notin known \union pruned'
    BY <1>6 DEF Uncertain
  <2>2. tries[b].id \in Ids(commands)
    BY <2>1, <1>1, <1>3 DEF OpenAreHeld
  <2>3. tries[b].id \in Ids(commands')
    BY <2>1, <2>2, <1>3
  <2>4. PICK c \in commands' : c.id = tries[b].id
    BY <2>3 DEF Ids
  <2>5. tries[b].id # a /\ tries[tries[b].id].intent = tries[b].intent
    <3>1. tries[b].id # 0 /\ Own(tries[b].id)
      BY <2>1, <1>1 DEF AttemptsNamed
    <3> QED
      BY <3>1, <2>1, <1>1, <1>2 DEF AttemptsNamed, Own
  <2>6. c \in kept
    BY <2>4, <2>5, <1>6
  <2>7. c.intent = tries[a].intent
    BY <2>1, <2>4, <2>5, <2>6, <1>4, <1>5
  <2> QED
    BY <2>4, <2>6, <2>7, <1>4
<1>7. CASE prior # {}
  <2> DEFINE c == CHOOSE d \in prior : TRUE
  <2>1. t = [id |-> c.id, commands |-> kept, stored |-> stored]
    BY <1>7 DEF Tracked
  <2>2. c \in prior
    BY <1>7
  <2>3. t.id = c.id /\ t.commands = kept /\ t.stored = stored
    BY <2>1
  <2> HIDE DEF c, t, kept, prior
  <2>4. /\ c \in kept /\ c \in stored /\ c.id \in Attempts /\ Own(c.id)
        /\ tries[c.id].intent = tries[a].intent /\ c.id # a
    BY <2>2, <1>4, <1>5
  <2>5. \A b \in still : tries[b].id = c.id /\ meant[b] \in Attempts
                        /\ (meant[b] = c.id \/ c.id \in revived)
    <3> SUFFICES ASSUME NEW b \in still
                 PROVE  /\ tries[b].id = c.id /\ meant[b] \in Attempts
                        /\ meant[b] = c.id \/ c.id \in revived
      OBVIOUS
    <3>1. b \in Attempts /\ tries[b].phase \in {"sent", "unknown"}
      BY DEF Uncertain
    <3>2. PICK d \in prior : d.id = tries[b].id
      BY <1>3, <1>6, <2>3
    <3>3. d = c
      BY <2>2, <1>1, <1>4 DEF CommandsKept
    <3>4. meant[b] # 0 /\ meant[b] \in 0..MaxAttempts
      BY <3>1, <1>1, CommandsTypes DEF AttemptsNamed, CommandsTypeOK
    <3>5. meant[b] \in Attempts
      BY <3>4, CommandsAssumption DEF Attempts
    <3> QED
      BY <3>1, <3>2, <3>3, <3>4, <3>5, <1>1 DEF NamesMean
  <2>6. c.id \in revived \/ c.id \in still
    <3> SUFFICES ASSUME c.id \notin revived PROVE c.id \in still
      OBVIOUS
    <3>1. c.id \notin known /\ c.id \notin pruned
      BY <2>4, <1>1, <1>4 DEF HeldAreOpen
    <3>2. c.id \notin pruned'
      BY <2>3, <2>4, <3>1, <1>3 DEF Ids
    <3>3. tries[c.id].phase \in {"sent", "unknown"} /\ tries[c.id].id = c.id
      BY <2>4, <3>1, <1>1 DEF CommandsKept, Own
    <3> QED
      BY <2>4, <3>1, <3>2, <3>3 DEF Uncertain
  <2>7. Same(a, pruned') \in Attempts /\ (c.id \in revived \/ Same(a, pruned') = c.id)
    <3>1. CASE still = {}
      BY <3>1, <2>6 DEF Same
    <3>2. CASE still # {}
      <4>1. PICK b \in still : Same(a, pruned') = meant[b]
        BY <3>2 DEF Same
      <4> QED
        BY <4>1, <2>5
    <3> QED
      BY <3>1, <3>2
  <2>8. /\ commands' \subseteq stored' /\ commands' \subseteq commands \union {fresh}
        /\ stored' \subseteq stored \union {fresh}
    BY <2>3, <1>3, <1>4
  <2>9. fresh \notin stored'
    BY <2>3, <1>3, <1>5
  <2>10. /\ tries' = [tries EXCEPT ![a] = [@ EXCEPT !.id = c.id,
                                                    !.phase = IF online THEN "sent" ELSE "unknown"]]
         /\ pruned' = pruned \union ((Ids(commands) \union {c.id}) \ Ids(commands'))
    BY <2>3, <1>3
  <2> HIDE DEF fresh, still
  <2>11. fresh = [intent |-> tries[a].intent, id |-> a, at |-> clock]
    BY DEF fresh
  <2> QED
    BY <2>4, <2>7, <2>8, <2>9, <2>10, <2>11, <1>2, IdIsGiven
<1>8. CASE prior = {}
  <2>1. t = [id |-> a, commands |-> new, stored |-> new]
    BY <1>8 DEF Tracked
  <2>2. t.id = a /\ t.commands = new /\ t.stored = new
    BY <2>1
  <2> HIDE DEF t, kept, prior, new
  <2>3. still = {}
    BY <2>2, <1>3, <1>4, <1>6, <1>8
  <2>4. meant' = [meant EXCEPT ![a] = a]
    <3>1. Same(a, pruned') = a
      BY <2>3 DEF Same
    <3> QED
      BY <3>1, <1>2
  <2>5. /\ commands' \subseteq stored' /\ commands' \subseteq commands \union {fresh}
        /\ stored' \subseteq stored \union {fresh}
    BY <2>2, <1>3, <1>4
  <2>6. \A c \in stored' : c.intent = tries[a].intent => c = fresh
    BY <2>2, <1>3, <1>4, <1>8
  <2>7. /\ tries' = [tries EXCEPT ![a] = [@ EXCEPT !.id = a,
                                                   !.phase = IF online THEN "sent" ELSE "unknown"]]
        /\ pruned' = pruned \union ((Ids(commands) \union {a}) \ Ids(commands'))
    BY <2>2, <1>3
  <2> HIDE DEF fresh, still
  <2>8. fresh = [intent |-> tries[a].intent, id |-> a, at |-> clock]
    BY DEF fresh
  <2>9. PICK n \in Attempts : n = a
    OBVIOUS
  <2>10. fresh \in stored' => n = a /\ \A c \in stored' : c.intent = tries[a].intent => c = fresh
    BY <2>6, <2>9
  <2>11. /\ tries' = [tries EXCEPT ![a] = [@ EXCEPT !.id = n,
                                                    !.phase = IF online THEN "sent" ELSE "unknown"]]
         /\ pruned' = pruned \union ((Ids(commands) \union {n}) \ Ids(commands'))
         /\ meant' = [meant EXCEPT ![a] = n]
    BY <2>4, <2>7, <2>9
  <2>12. /\ tries[a].phase = "hashing"
         /\ inbox' = IF online THEN inbox \union {a} ELSE inbox
         /\ UNCHANGED <<clock, online, receipts, answers, notices, known, revived, left>>
    BY <1>2
  <2> QED
    BY <2>5, <2>8, <2>9, <2>10, <2>11, <2>12, IdIsGiven
<1> QED
  BY <1>7, <1>8

LEMMA CommandsStep == CommandsInv /\ [NextCommands]_commandVars => CommandsInv'
<1> SUFFICES ASSUME CommandsInv, [NextCommands]_commandVars PROVE CommandsInv'
  OBVIOUS
<1>1. CommandsTypeOK
  BY DEF CommandsInv
<1>2. ASSUME UNCHANGED <<commands, stored, tries, inbox, answers, notices, known, meant, pruned, revived>>
      PROVE  AttemptsNamed' /\ CommandsKept' /\ HeldAreOpen' /\ OpenAreHeld' /\ NamesMean'
  <2>1. AttemptsNamed' /\ CommandsKept'
    BY <1>2 DEF CommandsInv, AttemptsNamed, CommandsKept, Own
  <2>2. HeldAreOpen' /\ OpenAreHeld' /\ NamesMean'
    BY <1>2 DEF CommandsInv, HeldAreOpen, OpenAreHeld, NamesMean, Ids
  <2> QED
    BY <2>1, <2>2
<1>3. CASE Reconnect
  <2>1. /\ online' = TRUE
        /\ UNCHANGED <<clock, commands, stored, tries, inbox, receipts, answers, notices, known,
                       meant, pruned, revived, left>>
    BY <1>3 DEF Reconnect
  <2> QED
    BY <2>1, <1>1, <1>2 DEF CommandsInv, CommandsTypeOK, Command
<1>4. CASE ClockMoves
  <2>1. /\ clock' \in 0..MaxClock
        /\ UNCHANGED <<commands, stored, tries, online, inbox, receipts, answers, notices, known,
                       meant, pruned, revived, left>>
    BY <1>4 DEF ClockMoves
  <2> QED
    BY <2>1, <1>1, <1>2 DEF CommandsInv, CommandsTypeOK, Command
<1>5. CASE UNCHANGED commandVars
  BY <1>5, <1>1, <1>2 DEF commandVars, CommandsInv, CommandsTypeOK, Command
<1> QED
  BY <1>3, <1>4, <1>5, CloseKeeps, ReloadKeeps, BeginKeeps, FingerprintedKeeps, ReadAnswerKeeps,
     ReadNoticeKeeps, ServeReadsKeeps DEF NextCommands

THEOREM CommandsTypeCorrect == SpecCommands => []CommandsTypeOK
<1>1. SpecCommands => []CommandsInv
  BY CommandsStart, CommandsStep, PTL DEF SpecCommands
<1>2. CommandsInv => CommandsTypeOK
  BY DEF CommandsInv
<1> QED
  BY <1>1, <1>2, PTL

\* The attempts of one intention carry one id, and another intention another one, however
\* the attempts overlap, whichever answers and events are lost, however the tracker drops
\* commands, the wall clock moves and the window is replaced; but for the ids that came back.
THEOREM IntentionsAreTold == SpecCommands => []OneIdPerIntention
<1>1. SpecCommands => []CommandsInv
  BY CommandsStart, CommandsStep, PTL DEF SpecCommands
<1>2. CommandsInv => OneIdPerIntention
  BY DEF CommandsInv, NamesMean, OneIdPerIntention
<1> QED
  BY <1>1, <1>2, PTL

--------------------------------------------------------------------------------
(* Decisions about approvals. *)

DecisionPhases == {"none", "flight", "unsure", "settled"}
DecisionsTyped ==
  /\ decision \in [Requests -> [allow : BOOLEAN, command : Nat, phase : DecisionPhases]]
  /\ sent \in [Requests -> SUBSET (BOOLEAN \X Nat)]
  /\ accepted \in [Requests -> Nat]

\* Serve waits for what it has asked for; what was sent to it, and what it accepted, is of
\* a request it has asked for, and one it has accepted an answer to is never open again.
AskedFirst ==
  /\ open \subseteq asked
  /\ \A q \in Requests : sent[q] # {} => q \in asked
  /\ \A q \in Requests : accepted[q] # 0 => q \in asked /\ q \notin open

\* An attempt has a command, so that it is taken for settled only when Serve has accepted
\* that command, and its answer is awaited as long as its call is.
AttemptsTold ==
  /\ \A q \in Requests : decision[q].phase # "none" => decision[q].command # 0
  /\ \A q \in Requests : decision[q].phase = "settled" => accepted[q] # 0
  /\ \A q \in Requests : q \in confirmed => decision[q].phase = "flight"

\* What was sent of a request that Serve waits for is what its attempt remembers.
Meant(q) == <<decision[q].allow, decision[q].command>>
SentIsRemembered ==
  \A q \in Requests : q \in open /\ sent[q] # {} =>
    decision[q].phase \in {"flight", "unsure"} /\ sent[q] = {Meant(q)}
SentOneAtMost == \A q \in Requests : sent[q] = {} \/ \E x \in sent[q] : sent[q] = {x}

DecisionInv == DecisionsTyped /\ AskedFirst /\ AttemptsTold /\ SentIsRemembered /\ SentOneAtMost

\* An attempt makes room for another only once it is settled.
LEMMA GoneIsSettled ==
  ASSUME NEW q
  PROVE  \A p \in Admitted(q).gone : decision[p].phase = "settled"
BY DEF Admitted, Oldest

\* Nothing is decided before the first request.
LEMMA DecisionStart == InitInteractions => DecisionInv
BY DEF InitInteractions, DecisionInv, DecisionsTyped, AskedFirst, AttemptsTold, SentIsRemembered,
       SentOneAtMost, NoDecision, DecisionPhases

\* What has been sent of a request can be counted.
LEMMA SentIsCounted ==
  ASSUME DecisionInv, NEW q \in Requests
  PROVE  Cardinality(sent[q]) \in {0, 1}
<1>1. CASE sent[q] = {}
  BY <1>1, FS_EmptySet
<1>2. ASSUME NEW x, sent[q] = {x} PROVE Cardinality(sent[q]) = 1
  BY <1>2, FS_Singleton
<1> QED
  BY <1>1, <1>2 DEF DecisionInv, SentOneAtMost

\* What the attempt is after a decision, and what is sent of it.
Attempt(q, allow) ==
  [allow |-> allow, phase |-> "flight",
   command |-> IF decision[q].phase = "none" THEN Cardinality(sent[q]) + 1 ELSE decision[q].command]

\* A decision is sent of a request Serve waits for only as a first one or as the same again.
LEMMA DecisionIsAnswered ==
  ASSUME DecisionInv, NEW q \in Requests, NEW allow \in BOOLEAN, AnswerDelegatedApproval(q, allow)
  PROVE  DecisionInv'
<1> DEFINE d == Attempt(q, allow)
<1>1. /\ Remembers(q, allow)
      /\ decision' = [p \in Requests |-> IF p = q THEN d
                        ELSE IF decision[q].phase = "none" /\ p \in Admitted(q).gone THEN NoDecision ELSE decision[p]]
      /\ sent' = [sent EXCEPT ![q] = IF q \in open THEN @ \union {<<d.allow, d.command>>} ELSE @]
      /\ UNCHANGED <<confirmed, open, asked, accepted>>
  BY DEF AnswerDelegatedApproval, Attempt
<1>2. /\ DecisionsTyped /\ AskedFirst /\ AttemptsTold /\ SentIsRemembered /\ SentOneAtMost
  BY DEF DecisionInv
<1>3. /\ d.allow = allow /\ d.phase = "flight" /\ d.command \in Nat \ {0}
      /\ d \in [allow : BOOLEAN, command : Nat, phase : DecisionPhases]
  <2>1. d.command \in Nat \ {0}
    BY <1>2, SentIsCounted, SMT DEF Attempt, DecisionsTyped, AttemptsTold
  <2> QED
    BY <2>1 DEF Attempt, DecisionPhases
<1> HIDE DEF d
<1>4. /\ decision'[q] = d
      /\ \A p \in Requests \ {q} : 
           \/ decision'[p] = decision[p]
           \/ decision'[p] = NoDecision /\ decision[p].phase = "settled"
  BY <1>1, GoneIsSettled
<1>5. /\ \A p \in Requests \ {q} : sent'[p] = sent[p]
      /\ sent'[q] = IF q \in open THEN sent[q] \union {<<d.allow, d.command>>} ELSE sent[q]
  BY <1>1, <1>2 DEF DecisionsTyped
<1>6. sent'[q] = IF q \in open THEN {<<d.allow, d.command>>} ELSE sent[q]
  <2>1. ASSUME q \in open, sent[q] # {} PROVE sent[q] = {<<d.allow, d.command>>}
    <3>1. decision[q].phase = "unsure" /\ decision[q].allow = allow /\ sent[q] = {Meant(q)}
      BY <1>1, <1>2, <2>1 DEF Remembers, SentIsRemembered
    <3>2. d.allow = decision[q].allow /\ d.command = decision[q].command
      BY <1>3, <3>1 DEF d, Attempt
    <3> QED
      BY <3>1, <3>2 DEF Meant
  <2> QED
    BY <1>5, <2>1
<1>7. DecisionsTyped'
  <2>1. decision' \in [Requests -> [allow : BOOLEAN, command : Nat, phase : DecisionPhases]]
    BY <1>1, <1>2, <1>3 DEF DecisionsTyped, NoDecision, DecisionPhases
  <2>2. <<d.allow, d.command>> \in BOOLEAN \X Nat
    BY <1>3
  <2>3. sent' \in [Requests -> SUBSET (BOOLEAN \X Nat)]
    BY <1>1, <1>2, <2>2 DEF DecisionsTyped
  <2> QED
    BY <1>1, <1>2, <2>1, <2>3 DEF DecisionsTyped
<1>8. AskedFirst'
  BY <1>1, <1>2, <1>5, <1>6 DEF AskedFirst
<1>9. AttemptsTold'
  <2>1. ~ (q \in confirmed) \/ decision'[q].phase = "flight"
    BY <1>3, <1>4
  <2>2. \A p \in Requests \ {q} : p \in confirmed => decision'[p] = decision[p]
    BY <1>2, <1>4 DEF AttemptsTold
  <2> QED
    BY <1>1, <1>2, <1>3, <1>4, <2>1, <2>2 DEF AttemptsTold, NoDecision
<1>10. SentIsRemembered'
  <2> SUFFICES ASSUME NEW p \in Requests, p \in open, sent'[p] # {}
               PROVE  decision'[p].phase \in {"flight", "unsure"} /\ sent'[p] = {Meant(p)'}
    BY <1>1 DEF SentIsRemembered
  <2>1. CASE p = q
    BY <1>3, <1>4, <1>6, <2>1 DEF Meant
  <2>2. CASE p # q
    <3>1. decision'[p] = decision[p]
      BY <1>2, <1>4, <2>2 DEF AttemptsTold, AskedFirst
    <3> QED
      BY <1>2, <1>5, <2>2, <3>1 DEF SentIsRemembered, Meant
  <2> QED
    BY <2>1, <2>2
<1>11. SentOneAtMost'
  BY <1>2, <1>5, <1>6 DEF SentOneAtMost
<1> QED
  BY <1>7, <1>8, <1>9, <1>10, <1>11 DEF DecisionInv

\* Serve's confirmation settles an attempt that Serve has accepted, and no other.
LEMMA DecisionIsConfirmed ==
  ASSUME DecisionInv, NEW q \in Requests, ReplyAnswered(q)
  PROVE  DecisionInv'
<1>1. /\ q \in confirmed /\ confirmed' = confirmed \ {q}
      /\ UNCHANGED <<open, asked, accepted, sent>>
      /\ \/ accepted[q] = decision[q].command /\ decision' = [decision EXCEPT ![q].phase = "settled"]
         \/ decision' = [decision EXCEPT ![q].phase = "unsure"]
  BY DEF ReplyAnswered
<1>2. /\ DecisionsTyped /\ AskedFirst /\ AttemptsTold /\ SentIsRemembered /\ SentOneAtMost
  BY DEF DecisionInv
<1>3. decision[q].phase = "flight" /\ decision[q].command # 0
  BY <1>1, <1>2 DEF AttemptsTold
<1>4. /\ \A p \in Requests : decision'[p].allow = decision[p].allow /\ decision'[p].command = decision[p].command
      /\ \A p \in Requests \ {q} : decision'[p] = decision[p]
      /\ \/ accepted[q] # 0 /\ decision'[q].phase = "settled"
         \/ decision'[q].phase = "unsure"
      /\ decision' \in [Requests -> [allow : BOOLEAN, command : Nat, phase : DecisionPhases]]
  BY <1>1, <1>2, <1>3 DEF DecisionsTyped, DecisionPhases
<1>5. DecisionsTyped' /\ AskedFirst' /\ SentOneAtMost'
  BY <1>1, <1>2, <1>4 DEF DecisionsTyped, AskedFirst, SentOneAtMost
<1>6. AttemptsTold'
  BY <1>1, <1>2, <1>3, <1>4 DEF AttemptsTold
<1>7. SentIsRemembered'
  <2> SUFFICES ASSUME NEW p \in Requests, p \in open, sent[p] # {}
               PROVE  decision'[p].phase \in {"flight", "unsure"} /\ sent[p] = {Meant(p)'}
    BY <1>1 DEF SentIsRemembered
  <2>1. Meant(p)' = Meant(p)
    BY <1>4 DEF Meant
  <2>2. accepted[p] = 0
    BY <1>2 DEF AskedFirst
  <2> QED
    BY <1>2, <1>4, <2>1, <2>2 DEF SentIsRemembered
<1> QED
  BY <1>5, <1>6, <1>7 DEF DecisionInv

\* A connection that is lost leaves the attempts, but for their calls.
LEMMA DecisionOutlives ==
  ASSUME DecisionInv, Disconnect
  PROVE  DecisionInv'
<1>1. /\ confirmed' = {} /\ UNCHANGED <<open, asked, accepted, sent>>
      /\ decision' = [q \in Requests |-> IF decision[q].phase = "flight"
                                         THEN [decision[q] EXCEPT !.phase = "unsure"] ELSE decision[q]]
  BY DEF Disconnect
<1>2. /\ DecisionsTyped /\ AskedFirst /\ AttemptsTold /\ SentIsRemembered /\ SentOneAtMost
  BY DEF DecisionInv
<1>3. /\ \A p \in Requests :
           /\ decision'[p].allow = decision[p].allow /\ decision'[p].command = decision[p].command
           /\ \/ decision'[p].phase = decision[p].phase
              \/ decision[p].phase = "flight" /\ decision'[p].phase = "unsure"
      /\ decision' \in [Requests -> [allow : BOOLEAN, command : Nat, phase : DecisionPhases]]
  BY <1>1, <1>2 DEF DecisionsTyped, DecisionPhases
<1>4. DecisionsTyped' /\ AskedFirst' /\ SentOneAtMost'
  BY <1>1, <1>2, <1>3 DEF DecisionsTyped, AskedFirst, SentOneAtMost
<1>5. AttemptsTold'
  BY <1>1, <1>2, <1>3 DEF AttemptsTold
<1>6. SentIsRemembered'
  <2> SUFFICES ASSUME NEW p \in Requests, p \in open, sent[p] # {}
               PROVE  decision'[p].phase \in {"flight", "unsure"} /\ sent[p] = {Meant(p)'}
    BY <1>1 DEF SentIsRemembered
  <2>1. Meant(p)' = Meant(p)
    BY <1>3 DEF Meant
  <2> QED
    BY <1>2, <1>3, <2>1 DEF SentIsRemembered
<1> QED
  BY <1>4, <1>5, <1>6 DEF DecisionInv

\* Serve asks for a request once, so that nothing has been sent of a new one.
LEMMA RequestIsNew ==
  ASSUME DecisionInv, NEW q \in Requests, ServeAsks(q)
  PROVE  DecisionInv'
BY DEF ServeAsks, DecisionInv, DecisionsTyped, AskedFirst, AttemptsTold, SentIsRemembered,
       SentOneAtMost, Meant

\* Serve accepts the command of the first reply to a request it waits for.
LEMMA DecisionIsAccepted ==
  ASSUME DecisionInv, NEW q \in Requests, ServeReplies(q)
  PROVE  DecisionInv'
<1>1. /\ UNCHANGED <<decision, asked, sent>>
      /\ \/ q \in open /\ open' = open \ {q} /\ accepted' = [accepted EXCEPT ![q] = decision[q].command]
         \/ UNCHANGED <<open, accepted>>
      /\ \/ confirmed' = confirmed
         \/ decision[q].phase = "flight" /\ confirmed' = confirmed \union {q}
  BY DEF ServeReplies
<1>2. /\ DecisionsTyped /\ AskedFirst /\ AttemptsTold /\ SentIsRemembered /\ SentOneAtMost
  BY DEF DecisionInv
<1>3. DecisionsTyped' /\ SentOneAtMost' /\ SentIsRemembered'
  BY <1>1, <1>2 DEF DecisionsTyped, SentOneAtMost, SentIsRemembered, Meant
<1>4. \A p \in Requests : accepted'[p] = accepted[p] \/ (p = q /\ q \in open /\ q \notin open')
  BY <1>1, <1>2, SMT DEF DecisionsTyped
<1>5. AskedFirst'
  BY <1>1, <1>2, <1>4 DEF AskedFirst
<1>6. AttemptsTold'
  BY <1>1, <1>2, <1>4 DEF AttemptsTold, AskedFirst
<1> QED
  BY <1>3, <1>5, <1>6 DEF DecisionInv

\* A step that closes requests at most.
LEMMA RequestsClose ==
  ASSUME DecisionInv, open' \subseteq open, asked \subseteq asked',
         UNCHANGED <<decision, confirmed, accepted, sent>>
  PROVE  DecisionInv'
BY DEF DecisionInv, DecisionsTyped, AskedFirst, AttemptsTold, SentIsRemembered, SentOneAtMost, Meant

\* Every step keeps what is known of the decisions.
LEMMA DecisionStep == DecisionInv /\ [NextInteractions]_interactionVars => DecisionInv'
<1> SUFFICES ASSUME DecisionInv, [NextInteractions]_interactionVars PROVE DecisionInv'
  OBVIOUS
<1>1. ASSUME NEW q \in Requests, NEW allow \in BOOLEAN, AnswerDelegatedApproval(q, allow) PROVE DecisionInv'
  BY <1>1, DecisionIsAnswered
<1>2. ASSUME NEW q \in Requests, ReplyAnswered(q) PROVE DecisionInv'
  BY <1>2, DecisionIsConfirmed
<1>3. CASE Disconnect
  BY <1>3, DecisionOutlives
<1>4. ASSUME NEW q \in Requests, ServeAsks(q) PROVE DecisionInv'
  BY <1>4, RequestIsNew
<1>5. ASSUME NEW q \in Requests, ServeReplies(q) PROVE DecisionInv'
  BY <1>5, DecisionIsAccepted
<1>6. ASSUME NEW q \in Requests, ServeResolves(q) PROVE DecisionInv'
  BY <1>6, RequestsClose DEF ServeResolves
<1>7. CASE ServeEndsTurn
  BY <1>7, RequestsClose DEF ServeEndsTurn
<1>8. ASSUME NEW q \in Requests, Expire(q) PROVE DecisionInv'
  BY <1>8, RequestsClose DEF Expire
<1>9. CASE HandleEvent
  BY <1>9, RequestsClose DEF HandleEvent
<1>10. CASE Connected
  BY <1>10, RequestsClose DEF Connected
<1>11. CASE UNCHANGED interactionVars
  BY <1>11, RequestsClose DEF interactionVars
<1> QED
  BY <1>1, <1>2, <1>3, <1>4, <1>5, <1>6, <1>7, <1>8, <1>9, <1>10, <1>11 DEF NextInteractions

\* While Serve waits for a request it is sent one decision under one command, whatever is
\* lost, submitted again, expired or evicted, for any set of requests and any limit of the
\* attempts that are remembered (createDelegatedApprovalSubmission).
THEOREM OneIsDecided == SpecInteractions => []OneDecision
<1>1. SpecInteractions => []DecisionInv
  BY DecisionStart, DecisionStep, PTL DEF SpecInteractions
<1>2. DecisionInv => OneDecision
  <2> SUFFICES ASSUME DecisionInv, NEW q \in Requests PROVE Cardinality(sent[q]) <= 1
    BY DEF OneDecision
  <2> QED
    BY SentIsCounted
<1> QED
  BY <1>1, <1>2, PTL

--------------------------------------------------------------------------------
(* The window. *)

\* The window sends each thing once: IntentionsAreTold, TaskIsSentOnce and PostIsSentOnce.
THEOREM WindowSendsOnce == SpecWindowSends => []SentOnce
<1>1. SpecWindowSends => SpecCommands /\ SpecTasks /\ SpecSends
  BY DEF SpecWindowSends
<1>2. OneIdPerIntention /\ TaskSentOnce /\ PostedOnce => SentOnce
  BY DEF SentOnce
<1> QED
  BY <1>1, <1>2, IntentionsAreTold, TaskIsSentOnce, PostIsSentOnce, PTL

--------------------------------------------------------------------------------
(* The acknowledgements. *)

\* A client between two halves of a handler: the records have their types, pending calls
\* have a greatest id, the call in flight is pending, no more was delivered than applied.
Sound(c) ==
  /\ c \in Client
  /\ \E b \in Nat : \A call \in c.calls : call.id <= b
  /\ c.inFlight # None => \E call \in c.calls : call.id = c.inFlight
  /\ c.delivered <= c.cursor

\* A closed client has no call either, so that nothing but a delivery can touch it again.
Quiet(c) == ~c.open => ~c.timer /\ c.inFlight = None /\ c.calls = {}

\* What has been applied is on its way to Serve; AckIsComing for a client that may not
\* have been told yet that something was delivered.
Covered(c) == c.open /\ c.cursor > c.lastAcked => c.timer \/ c.inFlight # None

\* A call of shutdownServer acknowledges what was applied when it was made.
Reaches(c, m) == \A call \in c.calls : call.by = "shutdown" => m <= call.upTo

\* While nobody shuts Serve down no flush of shutdownServer exists; afterwards each of
\* its calls reaches the cursor of then, and while it flushes one of them is there.
ShutdownHolds ==
  /\ shutdown = "idle" => ~Flushing(client)
  /\ shutdown # "idle" => through <= client.cursor /\ Reaches(client, through)
  /\ shutdown = "flushing" => Flushing(client)

AcksInv ==
  /\ AcksTypeOK
  /\ Sound(client)
  /\ Quiet(client)
  /\ client.lastAcked <= acked
  /\ AckIsComing
  /\ ShutdownHolds

\* What a flush leaves alone.
SameBut(c, d) ==
  /\ d.open = c.open /\ d.synced = c.synced
  /\ d.cursor = c.cursor /\ d.lastAcked = c.lastAcked /\ d.delivered = c.delivered

\* What every flush and every scheduling of one does to a sound client.
Advances(c, d) ==
  /\ Sound(d)
  /\ SameBut(c, d)
  /\ Quiet(c) => Quiet(d)
  /\ Covered(c) => Covered(d)
  /\ Flushing(c) => Flushing(d)
  /\ \A m \in Nat : m <= c.cursor /\ Reaches(c, m) => Reaches(d, m)

\* Nobody flushes for shutdownServer who did not do so before.
NoNewShutdown(c, d) == ~Flushing(c) => ~Flushing(d)

\* Less-than on the natural numbers, as a relation.
Below == {pair \in Nat \X Nat : pair[1] < pair[2]}

\* It is well-founded.
LEMMA BelowIsWellFounded == IsWellFoundedOn(Below, Nat)
  BY NatLessThanWellFounded DEF OpToRel, Below

\* Max finds the greatest of numbers that have a bound.
LEMMA Largest ==
  ASSUME NEW S \in SUBSET Nat, S # {}, NEW b \in Nat, \A x \in S : x <= b
  PROVE  Max(S) \in S /\ \A x \in S : x <= Max(S)
<1> DEFINE U == {n \in Nat : \A x \in S : x <= n}
<1>1. b \in U /\ U \subseteq Nat
  OBVIOUS
<1>2. \E m \in U : \A n \in U : ~(<<n, m>> \in Below)
  <2> HIDE DEF U
  <2>1. QED
    BY <1>1, BelowIsWellFounded, WFMin, Zenon
<1>3. PICK m \in U : \A n \in U : <<n, m>> \notin Below
  BY <1>2
<1>4. \A n \in U : m <= n
  <2>1. SUFFICES ASSUME NEW n \in U, n < m PROVE FALSE
    OBVIOUS
  <2>2. <<n, m>> \in Nat \X Nat /\ <<n, m>>[1] < <<n, m>>[2]
    BY <2>1
  <2>3. <<n, m>> \in Below
    BY <2>2, Zenon DEF Below
  <2>4. QED BY <1>3, <2>3
<1>5. m \in S
  <2>1. SUFFICES ASSUME m \notin S PROVE FALSE
    OBVIOUS
  <2>2. \A x \in S : x \in Nat /\ x <= m /\ x # m
    BY <2>1
  <2>3. m - 1 \in Nat
    <3>1. PICK x \in S : TRUE
      OBVIOUS
    <3>2. QED BY <2>2, <3>1
  <2>4. m - 1 \in U
    BY <2>2, <2>3
  <2>5. QED BY <1>4, <2>4, <2>3
<1>6. QED
  BY <1>5 DEF Max

\* The greater of two numbers.
LEMMA LargerOfTwo ==
  ASSUME NEW a \in Nat, NEW b \in Nat
  PROVE  Max({a, b}) = IF a >= b THEN a ELSE b
  BY DEF Max

--------------------------------------------------------------------------------
(* The halves of flushEventAcks and the timer's scheduling *)

\* What SendAck does: pending calls stay, new ones acknowledge the cursor for the flushes
\* that made them, and somebody acknowledges it unless Serve has done so already.
LEMMA SendProperties ==
  ASSUME NEW c, Sound(c), NEW flushes \in Seq(Makers)
  PROVE  LET d == SendAck(c, flushes) IN
         /\ Sound(d) /\ SameBut(c, d) /\ d.timer = c.timer
         /\ c.calls \subseteq d.calls
         /\ \A call \in d.calls \ c.calls :
              call.upTo = c.cursor /\ call.by \in Range(flushes) /\ call.waiting = <<>>
         /\ c.inFlight # None => d.inFlight # None
         /\ c.open /\ c.cursor > c.lastAcked /\ flushes # <<>> =>
              /\ d.inFlight # None
              /\ \A by \in Range(flushes) : \E call \in d.calls : call.by = by
         /\ ~c.open => d = c
<1> DEFINE ids == {0} \cup {call.id : call \in c.calls}
           last == Max(ids)
           made(i) == [id |-> last + i, upTo |-> c.cursor, by |-> flushes[i], waiting |-> <<>>]
           new == {made(i) : i \in DOMAIN flushes}
           underWay == [c EXCEPT !.calls = @ \cup new, !.inFlight = last + Len(flushes)]
<1>1. last \in Nat /\ \A call \in c.calls : call.id <= last
  <2>1. PICK b \in Nat : \A call \in c.calls : call.id <= b
    BY DEF Sound
  <2>2. ids \in SUBSET Nat /\ ids # {} /\ \A x \in ids : x <= b
    BY <2>1 DEF Sound, Client, Call
  <2> HIDE DEF ids
  <2>3. last \in ids /\ \A x \in ids : x <= last
    BY <2>1, <2>2, Largest
  <2>4. QED BY <2>2, <2>3 DEF ids
<1>2. CASE ~c.open \/ c.cursor <= c.lastAcked \/ flushes = <<>>
  <2>1. SendAck(c, flushes) = c
    BY <1>2 DEF SendAck
  <2>2. ~(c.open /\ c.cursor > c.lastAcked /\ flushes # <<>>)
    BY <1>2 DEF Sound, Client
  <2>3. QED BY <2>1, <2>2 DEF SameBut
<1>3. CASE ~(~c.open \/ c.cursor <= c.lastAcked \/ flushes = <<>>)
  <2>1. SendAck(c, flushes) = underWay
    BY <1>3 DEF SendAck
  <2>2. Len(flushes) \in Nat \ {0} /\ DOMAIN flushes = 1..Len(flushes) /\ \A i \in DOMAIN flushes : flushes[i] \in Makers
    BY <1>3, EmptySeq, LenProperties, ElementOfSeq
  <2> HIDE DEF last
  <2>3. \A i \in DOMAIN flushes :
          /\ made(i) \in Call
          /\ made(i).id = last + i /\ made(i).upTo = c.cursor
          /\ made(i).by = flushes[i] /\ made(i).waiting = <<>>
    <3>1. TAKE i \in DOMAIN flushes
    <3>2. <<>> \in Seq(Makers)
      OBVIOUS
    <3>3. last + i \in Nat \ {None} /\ c.cursor \in 0..MaxEvents /\ flushes[i] \in Makers
      BY <1>1, <2>2 DEF Sound, Client, None
    <3>4. QED BY <3>2, <3>3 DEF Call
  <2>4. /\ underWay.calls = c.calls \cup new /\ underWay.inFlight = last + Len(flushes)
        /\ underWay.timer = c.timer /\ SameBut(c, underWay)
    BY DEF Sound, Client, SameBut
  <2>5. \A call \in new : \E i \in DOMAIN flushes : call = made(i)
    OBVIOUS
  <2>6. \A i \in DOMAIN flushes : made(i) \in new
    OBVIOUS
  <2> HIDE DEF made, new
  <2>7. new \subseteq Call
    BY <2>3, <2>5
  <2>8. \A call \in new : call.id <= last + Len(flushes) /\ call.upTo = c.cursor /\ call.by \in Range(flushes) /\ call.waiting = <<>>
    BY <1>1, <2>2, <2>3, <2>5 DEF Range
  <2>9. made(Len(flushes)) \in new /\ made(Len(flushes)).id = last + Len(flushes)
    BY <2>2, <2>3, <2>6
  <2>10. \A by \in Range(flushes) : \E call \in new : call.by = by
    BY <2>3, <2>6 DEF Range
  <2>11. underWay \in Client
    <3>1. c.calls \cup new \in SUBSET Call /\ last + Len(flushes) \in Nat
      BY <1>1, <2>2, <2>7 DEF Sound, Client
    <3>2. QED BY <3>1 DEF Sound, Client
  <2> HIDE DEF underWay
  <2>12. Sound(underWay)
    <3>1. last + Len(flushes) \in Nat
      BY <1>1, <2>2
    <3>2. \A call \in underWay.calls : call.id <= last + Len(flushes)
      BY <1>1, <2>2, <2>4, <2>8 DEF Sound, Client, Call
    <3>3. underWay.delivered <= underWay.cursor
      BY <2>4 DEF Sound, SameBut
    <3>4. QED BY <2>4, <2>9, <2>11, <3>1, <3>2, <3>3 DEF Sound
  <2>13. underWay.inFlight # None
    BY <1>1, <2>2, <2>4 DEF None
  <2>14. QED
    BY <1>3, <2>1, <2>4, <2>8, <2>10, <2>12, <2>13
<1>4. QED BY <1>2, <1>3

\* So sending advances a client.
LEMMA SendAdvances ==
  ASSUME NEW c, Sound(c), NEW flushes \in Seq(Makers)
  PROVE  Advances(c, SendAck(c, flushes))
<1> DEFINE d == SendAck(c, flushes)
<1>1. /\ Sound(d) /\ SameBut(c, d) /\ d.timer = c.timer
      /\ c.calls \subseteq d.calls
      /\ \A call \in d.calls \ c.calls : call.upTo = c.cursor
      /\ c.inFlight # None => d.inFlight # None
      /\ ~c.open => d = c
  BY SendProperties
<1> HIDE DEF d
<1>2. Quiet(c) => Quiet(d)
  BY <1>1 DEF Quiet, SameBut
<1>3. Covered(c) => Covered(d)
  BY <1>1 DEF Covered, SameBut
<1>4. Flushing(c) => Flushing(d)
  BY <1>1 DEF Flushing
<1>5. ASSUME NEW m \in Nat, m <= c.cursor, Reaches(c, m) PROVE Reaches(d, m)
  BY <1>1, <1>5 DEF Reaches
<1>6. QED
  BY <1>1, <1>2, <1>3, <1>4, <1>5 DEF Advances, d

\* Advancing twice is advancing.
LEMMA AdvancesTwice ==
  ASSUME NEW c, NEW d, NEW e, Advances(c, d), Advances(d, e)
  PROVE  Advances(c, e)
<1>1. SameBut(c, e) /\ d.cursor = c.cursor
  BY DEF Advances, SameBut
<1>2. ASSUME NEW m \in Nat, m <= c.cursor, Reaches(c, m) PROVE Reaches(e, m)
  BY <1>1, <1>2 DEF Advances
<1>3. QED
  BY <1>1, <1>2 DEF Advances

\* Stopping or starting the timer of a client whose socket is open leaves it sound.
LEMMA TimerAdvances ==
  ASSUME NEW c, Sound(c), NEW on \in BOOLEAN, on => c.open
  PROVE  LET d == [c EXCEPT !.timer = on] IN
         /\ Sound(d) /\ SameBut(c, d) /\ d.timer = on
         /\ d.calls = c.calls /\ d.inFlight = c.inFlight
         /\ Quiet(c) => Quiet(d)
<1> DEFINE d == [c EXCEPT !.timer = on]
<1>1. /\ d \in Client /\ SameBut(c, d) /\ d.timer = on
      /\ d.calls = c.calls /\ d.inFlight = c.inFlight
  BY DEF Sound, Client, SameBut
<1>2. Sound(d) /\ (Quiet(c) => Quiet(d))
  <2> HIDE DEF d
  <2>1. QED BY <1>1 DEF Sound, SameBut, Quiet
<1>3. QED BY <1>1, <1>2

\* Waiting for the call in flight, and what is then known of the client.
LEMMA AwaitProperties ==
  ASSUME NEW c, Sound(c), c.inFlight # None, NEW by \in Makers
  PROVE  LET d == [c EXCEPT !.calls = {IF call.id = c.inFlight THEN Awaits(call, by) ELSE call : call \in @}] IN
         /\ Sound(d) /\ SameBut(c, d) /\ d.timer = c.timer /\ d.inFlight = c.inFlight
         /\ c.open = d.open
         /\ Quiet(c) => Quiet(d)
         /\ \A m \in Nat : Reaches(c, m) => Reaches(d, m)
         /\ Flushing(d) <=> Flushing(c) \/ by = "shutdown"
<1> DEFINE become(call) == IF call.id = c.inFlight THEN Awaits(call, by) ELSE call
           calls == {become(call) : call \in c.calls}
           d == [c EXCEPT !.calls = {IF call.id = c.inFlight THEN Awaits(call, by) ELSE call : call \in @}]
<1>1. /\ d.calls = calls /\ d.inFlight = c.inFlight /\ d.timer = c.timer /\ SameBut(c, d)
      /\ d.open = c.open
  BY DEF Sound, Client, SameBut
<1>2. \A call \in c.calls :
        /\ become(call) \in Call /\ become(call) \in calls
        /\ become(call).id = call.id /\ become(call).upTo = call.upTo /\ become(call).by = call.by
        /\ "shutdown" \in Range(become(call).waiting)
             <=> "shutdown" \in Range(call.waiting) \/ (call.id = c.inFlight /\ by = "shutdown")
  <2>1. TAKE call \in c.calls
  <2>2. call \in Call /\ call.waiting \in Seq(Makers)
    BY DEF Sound, Client, Call
  <2>3. CASE call.id = c.inFlight
    <3>1. /\ Awaits(call, by).id = call.id /\ Awaits(call, by).upTo = call.upTo /\ Awaits(call, by).by = call.by
          /\ Awaits(call, by).waiting = Append(call.waiting, by)
      BY <2>2 DEF Awaits, Call
    <3>2. Append(call.waiting, by) \in Seq(Makers)
      BY <2>2, AppendProperties
    <3>3. Awaits(call, by) \in Call
      BY <2>2, <3>2 DEF Awaits, Call
    <3>4. Range(Append(call.waiting, by)) = Range(call.waiting) \cup {by}
      <4>1. /\ Len(Append(call.waiting, by)) = Len(call.waiting) + 1
            /\ \A i \in 1..Len(call.waiting) : Append(call.waiting, by)[i] = call.waiting[i]
            /\ Append(call.waiting, by)[Len(call.waiting) + 1] = by
        BY <2>2, AppendProperties
      <4>2. /\ DOMAIN call.waiting = 1..Len(call.waiting) /\ Len(call.waiting) \in Nat
            /\ DOMAIN Append(call.waiting, by) = 1..(Len(call.waiting) + 1)
        BY <2>2, <3>2, <4>1, LenProperties
      <4>3. QED BY <4>1, <4>2 DEF Range
    <3>5. QED BY <2>3, <3>1, <3>3, <3>4
  <2>4. CASE call.id # c.inFlight
    BY <2>2, <2>4
  <2>5. QED BY <2>3, <2>4
<1>3. \A e \in calls : \E call \in c.calls : e = become(call)
  OBVIOUS
<1> HIDE DEF become, calls
<1>4. calls \in SUBSET Call
  BY <1>2, <1>3
<1>5. d \in Client
  BY <1>4, <1>1 DEF Sound, Client, SameBut
<1> HIDE DEF d
<1>6. Sound(d)
  <2>1. PICK b \in Nat : \A call \in c.calls : call.id <= b
    BY DEF Sound
  <2>2. \A e \in d.calls : e.id <= b
    BY <1>1, <1>2, <1>3, <2>1
  <2>3. \E e \in d.calls : e.id = d.inFlight
    BY <1>1, <1>2 DEF Sound
  <2>4. d.delivered <= d.cursor
    BY <1>1 DEF Sound, SameBut
  <2>5. QED BY <1>5, <2>2, <2>3, <2>4 DEF Sound
<1>7. Quiet(c) => Quiet(d)
  <2>1. c.open \/ ~Quiet(c)
    BY DEF Quiet
  <2>2. QED BY <1>1, <2>1 DEF Quiet
<1>8. ASSUME NEW m \in Nat, Reaches(c, m) PROVE Reaches(d, m)
  BY <1>1, <1>2, <1>3, <1>8 DEF Reaches
<1>9. Flushing(d) <=> Flushing(c) \/ by = "shutdown"
  <2>1. Flushing(d) => Flushing(c) \/ by = "shutdown"
    BY <1>1, <1>2, <1>3 DEF Flushing
  <2>2. Flushing(c) => Flushing(d)
    BY <1>1, <1>2 DEF Flushing
  <2>3. by = "shutdown" => Flushing(d)
    BY <1>1, <1>2 DEF Flushing, Sound
  <2>4. QED BY <2>1, <2>2, <2>3
<1>10. QED
  BY <1>1, <1>6, <1>7, <1>8, <1>9 DEF d

\* A flush advances the client, leaves what is applied on its way, and is known to
\* Flushing exactly as long as it waits: one of shutdownServer that has nothing to wait
\* for finds everything acknowledged.
LEMMA FlushProperties ==
  ASSUME NEW c, Sound(c), NEW by \in Makers
  PROVE  LET d == Flush(c, by) IN
         /\ Advances(c, d)
         /\ Covered(d)
         /\ by = "background" => NoNewShutdown(c, d)
         /\ by = "shutdown" /\ c.open /\ ~Flushing(d) => c.cursor <= c.lastAcked
<1> DEFINE quiet == [c EXCEPT !.timer = FALSE]
           d == Flush(c, by)
<1>1. /\ Sound(quiet) /\ SameBut(c, quiet) /\ quiet.timer = FALSE
      /\ quiet.calls = c.calls /\ quiet.inFlight = c.inFlight
      /\ Quiet(c) => Quiet(quiet)
  BY TimerAdvances
<1>2. /\ \A m \in Nat : Reaches(c, m) => Reaches(quiet, m)
      /\ Flushing(quiet) <=> Flushing(c)
      /\ quiet.cursor = c.cursor /\ quiet.lastAcked = c.lastAcked /\ quiet.open = c.open
  BY <1>1 DEF Reaches, Flushing, SameBut
<1>3. c.cursor \in Nat /\ c.lastAcked \in Nat
  BY DEF Sound, Client
<1>4. CASE c.inFlight = None
  <2>1. d = SendAck(quiet, <<by>>)
    BY <1>4 DEF Flush
  <2>2. <<by>> \in Seq(Makers) /\ <<by>> # <<>> /\ Range(<<by>>) = {by}
    BY DEF Range
  <2> HIDE DEF quiet, d
  <2>3. Advances(quiet, d)
    BY <1>1, <2>1, <2>2, SendAdvances
  <2>4. /\ \A call \in d.calls \ quiet.calls : call.by \in {by} /\ call.waiting = <<>>
        /\ quiet.open /\ quiet.cursor > quiet.lastAcked =>
              d.inFlight # None /\ \E call \in d.calls : call.by = by
    <3> DEFINE flushes == <<by>>
    <3>1. flushes \in Seq(Makers) /\ flushes # <<>> /\ Range(flushes) = {by} /\ d = SendAck(quiet, flushes)
      BY <2>1, <2>2
    <3> HIDE DEF flushes
    <3>2. /\ \A call \in d.calls \ quiet.calls : call.by \in Range(flushes) /\ call.waiting = <<>>
          /\ quiet.open /\ quiet.cursor > quiet.lastAcked /\ flushes # <<>> =>
               /\ d.inFlight # None
               /\ \A b \in Range(flushes) : \E call \in d.calls : call.by = b
      BY <1>1, <3>1, SendProperties
    <3>3. QED BY <3>1, <3>2
  <2>5. /\ Sound(d) /\ SameBut(quiet, d) /\ (Quiet(quiet) => Quiet(d)) /\ (Flushing(quiet) => Flushing(d))
        /\ \A m \in Nat : m <= quiet.cursor /\ Reaches(quiet, m) => Reaches(d, m)
    BY <2>3 DEF Advances
  <2>6. SameBut(c, d) /\ d.open = c.open /\ d.cursor = c.cursor /\ d.lastAcked = c.lastAcked
    BY <1>1, <2>5 DEF SameBut
  <2>7. Covered(d)
    BY <1>2, <2>4, <2>6 DEF Covered
  <2>8. Advances(c, d)
    BY <1>1, <1>2, <2>5, <2>6, <2>7 DEF Advances
  <2>9. by = "background" => NoNewShutdown(c, d)
    <3>1. "shutdown" \notin Range(<<>>)
      BY DEF Range
    <3>2. QED BY <1>1, <2>4, <3>1 DEF NoNewShutdown, Flushing
  <2>10. by = "shutdown" /\ c.open /\ ~Flushing(d) => c.cursor <= c.lastAcked
    BY <1>2, <1>3, <2>4 DEF Flushing
  <2>11. QED BY <2>7, <2>8, <2>9, <2>10 DEF d
<1>5. CASE c.inFlight # None
  <2>1. d = [quiet EXCEPT !.calls = {IF call.id = quiet.inFlight THEN Awaits(call, by) ELSE call : call \in @}]
    BY <1>1, <1>5 DEF Flush
  <2> HIDE DEF quiet, d
  <2>2. /\ Sound(d) /\ SameBut(quiet, d) /\ d.inFlight = quiet.inFlight
        /\ Quiet(quiet) => Quiet(d)
        /\ \A m \in Nat : Reaches(quiet, m) => Reaches(d, m)
        /\ Flushing(d) <=> Flushing(quiet) \/ by = "shutdown"
    BY <1>1, <1>5, <2>1, AwaitProperties
  <2>3. SameBut(c, d)
    BY <1>1, <2>2 DEF SameBut
  <2>4. Covered(d)
    BY <1>1, <1>5, <2>2 DEF Covered
  <2>5. Advances(c, d)
    BY <1>1, <1>2, <2>2, <2>3, <2>4 DEF Advances
  <2>6. QED
    BY <1>2, <2>2, <2>4, <2>5 DEF NoNewShutdown, d
<1>6. QED BY <1>4, <1>5

\* Scheduling advances the client, and leaves what is applied on its way.
LEMMA ScheduleProperties ==
  ASSUME NEW c, Sound(c)
  PROVE  LET d == Schedule(c) IN Advances(c, d) /\ Covered(d) /\ NoNewShutdown(c, d)
<1> DEFINE d == Schedule(c)
<1>1. CASE ~c.open
  <2>1. d = c
    BY <1>1 DEF Schedule
  <2>2. QED BY <1>1, <2>1 DEF Advances, Covered, NoNewShutdown, SameBut
<1>2. CASE c.open /\ c.delivered >= BatchSize
  <2>1. d = Flush(c, "background")
    BY <1>2 DEF Schedule
  <2>2. "background" \in Makers
    BY DEF Makers
  <2>3. QED BY <2>1, <2>2, FlushProperties
<1>3. CASE c.open /\ ~(c.delivered >= BatchSize)
  <2>1. d = [c EXCEPT !.timer = TRUE]
    BY <1>3 DEF Schedule
  <2> HIDE DEF d
  <2>2. /\ Sound(d) /\ SameBut(c, d) /\ d.timer = TRUE
        /\ d.calls = c.calls /\ d.inFlight = c.inFlight
        /\ Quiet(c) => Quiet(d)
    BY <1>3, <2>1, TimerAdvances
  <2>3. QED BY <2>2 DEF Advances, Covered, NoNewShutdown, Flushing, Reaches, d
<1>4. QED BY <1>1, <1>2, <1>3

\* The finally of a call that is over: what else is pending stays, and an event that is
\* not acknowledged is scheduled again.
LEMMA FinallyProperties ==
  ASSUME NEW c, Sound(c), c.open, NEW call \in c.calls
  PROVE  LET d == Finally(c, call) IN
         /\ Sound(d) /\ SameBut(c, d) /\ Covered(d)
         /\ NoNewShutdown(c, d)
         /\ \A m \in Nat : m <= c.cursor /\ Reaches(c, m) => Reaches(d, m)
         /\ Flushing(c) => \/ Flushing(d)
                           \/ call.by = "shutdown"
                           \/ "shutdown" \in Range(call.waiting)
<1> DEFINE over == [c EXCEPT !.calls = @ \ {call}, !.inFlight = IF @ = call.id THEN None ELSE @]
           d == Finally(c, call)
<1>1. /\ over \in Client /\ SameBut(c, over) /\ over.open = c.open /\ over.calls = c.calls \ {call}
      /\ over.inFlight = IF c.inFlight = call.id THEN None ELSE c.inFlight
  BY DEF Sound, Client, SameBut, None
<1>2. d = IF over.cursor > over.lastAcked THEN Schedule(over) ELSE over
  BY DEF Finally
<1> HIDE DEF over, d
<1>3. Sound(over)
  <2>1. over.delivered <= over.cursor
    BY <1>1 DEF Sound, SameBut
  <2>2. over.inFlight # None => \E other \in over.calls : other.id = over.inFlight
    BY <1>1 DEF Sound
  <2>3. \E b \in Nat : \A other \in over.calls : other.id <= b
    BY <1>1 DEF Sound
  <2>4. QED BY <1>1, <2>1, <2>2, <2>3 DEF Sound
<1>4. /\ NoNewShutdown(c, over)
      /\ \A m \in Nat : Reaches(c, m) => Reaches(over, m)
      /\ Flushing(c) => Flushing(over) \/ call.by = "shutdown" \/ "shutdown" \in Range(call.waiting)
      /\ over.cursor = c.cursor
  BY <1>1 DEF NoNewShutdown, Flushing, Reaches, SameBut
<1>5. CASE over.cursor > over.lastAcked
  <2>1. Advances(over, d) /\ Covered(d) /\ NoNewShutdown(over, d)
    BY <1>2, <1>3, <1>5, ScheduleProperties
  <2>2. /\ Sound(d) /\ SameBut(over, d) /\ (Flushing(over) => Flushing(d))
        /\ \A m \in Nat : m <= over.cursor /\ Reaches(over, m) => Reaches(d, m)
    BY <2>1 DEF Advances
  <2>3. SameBut(c, d)
    BY <1>1, <2>2 DEF SameBut
  <2>4. NoNewShutdown(c, d)
    BY <1>4, <2>1 DEF NoNewShutdown
  <2>5. QED BY <1>4, <2>1, <2>2, <2>3, <2>4 DEF d
<1>6. CASE ~(over.cursor > over.lastAcked)
  <2>1. d = over
    BY <1>2, <1>6
  <2>2. Covered(d)
    BY <1>6, <2>1 DEF Covered
  <2>3. QED BY <1>1, <1>3, <1>4, <2>1, <2>2 DEF d
<1>7. QED BY <1>5, <1>6

\* An answered or failed call: if it ends the flush of shutdownServer, the call was its
\* own or everything applied has been acknowledged.
LEMMA SettledProperties ==
  ASSUME NEW c, Sound(c), c.open, NEW call \in c.calls
  PROVE  LET d == AckSettles(c, call) IN
         /\ Sound(d) /\ SameBut(c, d) /\ Covered(d)
         /\ NoNewShutdown(c, d)
         /\ \A m \in Nat : m <= c.cursor /\ Reaches(c, m) => Reaches(d, m)
         /\ Flushing(c) /\ ~Flushing(d) => call.by = "shutdown" \/ c.cursor <= c.lastAcked
<1> DEFINE over == Finally(c, call)
           d == AckSettles(c, call)
<1>1. /\ Sound(over) /\ SameBut(c, over) /\ Covered(over)
      /\ NoNewShutdown(c, over)
      /\ \A m \in Nat : m <= c.cursor /\ Reaches(c, m) => Reaches(over, m)
      /\ Flushing(c) => \/ Flushing(over)
                        \/ call.by = "shutdown"
                        \/ "shutdown" \in Range(call.waiting)
  BY FinallyProperties
<1>2. d = SendAck(over, call.waiting)
  BY DEF AckSettles, Resumed
<1> HIDE DEF over, d
<1>3. call.waiting \in Seq(Makers) /\ c.cursor \in Nat /\ c.lastAcked \in Nat
  BY DEF Sound, Client, Call
<1>4. Advances(over, d)
  BY <1>1, <1>2, <1>3, SendAdvances
<1>5. /\ over.calls \subseteq d.calls
      /\ \A new \in d.calls \ over.calls : new.by \in Range(call.waiting) /\ new.waiting = <<>>
      /\ over.open /\ over.cursor > over.lastAcked /\ call.waiting # <<>> =>
           \A by \in Range(call.waiting) : \E new \in d.calls : new.by = by
  BY <1>1, <1>2, <1>3, SendProperties
<1>6. /\ over.open = c.open /\ over.cursor = c.cursor /\ over.lastAcked = c.lastAcked
      /\ Sound(d) /\ SameBut(over, d) /\ Covered(d) /\ (Flushing(over) => Flushing(d))
      /\ \A m \in Nat : m <= over.cursor /\ Reaches(over, m) => Reaches(d, m)
  BY <1>1, <1>4 DEF SameBut, Advances
<1>7. SameBut(c, d)
  BY <1>1, <1>6 DEF SameBut
<1>8. NoNewShutdown(c, d)
  <2>1. "shutdown" \notin Range(<<>>)
    BY DEF Range
  <2>2. ~Flushing(c) => "shutdown" \notin Range(call.waiting)
    BY DEF Flushing
  <2>3. QED BY <1>1, <1>5, <2>1, <2>2 DEF NoNewShutdown, Flushing
<1>9. ASSUME Flushing(c), ~Flushing(d), call.by # "shutdown" PROVE c.cursor <= c.lastAcked
  <2>1. "shutdown" \in Range(call.waiting)
    BY <1>1, <1>6, <1>9
  <2>2. call.waiting # <<>>
    BY <2>1 DEF Range
  <2>3. ~(\E new \in d.calls : new.by = "shutdown")
    BY <1>9 DEF Flushing
  <2>4. QED BY <1>3, <1>5, <1>6, <2>1, <2>2, <2>3
<1>10. QED
  BY <1>1, <1>6, <1>7, <1>8, <1>9 DEF d

--------------------------------------------------------------------------------
(* The invariant *)

\* A new client has nothing under way.
LEMMA AcksInit == Init => AcksInv
<1> SUFFICES ASSUME Init PROVE AcksInv
  OBVIOUS
<1>1. PICK cursor \in 0..1 :
        client = [open |-> TRUE, synced |-> FALSE, cursor |-> cursor, lastAcked |-> 0, delivered |-> 0,
                  timer |-> FALSE, calls |-> {}, inFlight |-> None]
  BY DEF Init
<1>2. client \in Client /\ client.calls = {} /\ client.inFlight = None /\ client.delivered = 0 /\ client.lastAcked = 0
  BY <1>1, AcksAssumption DEF Client, None
<1>3. Sound(client) /\ Quiet(client)
  BY <1>1, <1>2 DEF Sound, Quiet
<1>4. AcksTypeOK
  BY <1>2, AcksAssumption DEF AcksTypeOK, Init, Shutdowns
<1>5. AckIsComing /\ ShutdownHolds /\ client.lastAcked <= acked
  BY <1>2, AcksAssumption DEF AckIsComing, ShutdownHolds, Flushing, Init
<1>6. QED BY <1>3, <1>4, <1>5 DEF AcksInv

\* What AcksInv says of the client, for the next one.
LEMMA AcksParts ==
  ASSUME Sound(client)', Quiet(client)', Covered(client)', (client.lastAcked <= acked)', ShutdownHolds',
         shutdown' \in Shutdowns, through' \in 0..MaxEvents, acked' \in 0..MaxEvents, faults' \in 0..MaxFaults
  PROVE  AcksInv'
  BY DEF AcksInv, AcksTypeOK, Sound, Covered, AckIsComing

\* A step that advances what some cursor that only grew has become keeps the invariant.
LEMMA AdvanceStep ==
  ASSUME AcksInv, NEW c, Sound(c), Quiet(c),
         c.open = client.open, c.cursor >= client.cursor, c.lastAcked = client.lastAcked, c.calls = client.calls,
         Advances(c, client'), Covered(client'), NoNewShutdown(c, client'),
         UNCHANGED <<shutdown, through, acked, faults>>
  PROVE  AcksInv'
<1>1. /\ client.cursor \in Nat /\ c.cursor \in Nat /\ through \in Nat
      /\ client'.cursor = c.cursor /\ client'.lastAcked = c.lastAcked
      /\ Sound(client') /\ Quiet(client')
      /\ Flushing(c) => Flushing(client')
      /\ \A m \in Nat : m <= c.cursor /\ Reaches(c, m) => Reaches(client', m)
  BY DEF Advances, SameBut, AcksInv, AcksTypeOK, Sound, Client
<1>2. (Flushing(c) <=> Flushing(client)) /\ (\A m \in Nat : Reaches(c, m) <=> Reaches(client, m))
  BY DEF Flushing, Reaches
<1>3. ShutdownHolds'
  <2>1. shutdown = "idle" => ~Flushing(client')
    BY <1>2 DEF AcksInv, ShutdownHolds, NoNewShutdown
  <2>2. shutdown # "idle" => through <= client'.cursor /\ Reaches(client', through)
    BY <1>1, <1>2 DEF AcksInv, ShutdownHolds
  <2>3. shutdown = "flushing" => Flushing(client')
    BY <1>1, <1>2 DEF AcksInv, ShutdownHolds
  <2>4. QED BY <2>1, <2>2, <2>3 DEF ShutdownHolds, Flushing, Reaches
<1>4. /\ shutdown' \in Shutdowns /\ through' \in 0..MaxEvents /\ acked' \in 0..MaxEvents /\ faults' \in 0..MaxFaults
      /\ client'.lastAcked <= acked'
  BY <1>1 DEF AcksInv, AcksTypeOK
<1>5. QED
  BY <1>1, <1>3, <1>4, AcksParts DEF Sound, Quiet, Covered

\* An acknowledgement that is answered, or fails, is a step of what it was told.
LEMMA SettledStep ==
  ASSUME AcksInv, NEW c, Sound(c), Quiet(c), c.open,
         c.open = client.open, c.cursor = client.cursor,
         c.calls = client.calls, NEW call \in c.calls,
         client' = AckSettles(c, call), c.lastAcked <= acked', acked' \in 0..MaxEvents,
         AskWhenFlushed, through' = through, faults' \in 0..MaxFaults
  PROVE  AcksInv'
<1>1. /\ Sound(client') /\ SameBut(c, client') /\ Covered(client')
      /\ NoNewShutdown(c, client')
      /\ \A m \in Nat : m <= c.cursor /\ Reaches(c, m) => Reaches(client', m)
  BY SettledProperties
<1>2. (Flushing(c) <=> Flushing(client)) /\ (\A m \in Nat : Reaches(c, m) <=> Reaches(client, m))
  BY DEF Flushing, Reaches
<1>3. through \in Nat /\ client'.cursor = c.cursor /\ client'.lastAcked = c.lastAcked /\ client'.open
  BY <1>1 DEF AcksInv, AcksTypeOK, SameBut
<1>4. shutdown' \in Shutdowns /\ (shutdown = "idle" <=> shutdown' = "idle") /\ (shutdown' = "flushing" => Flushing(client'))
  BY DEF AskWhenFlushed, AcksInv, AcksTypeOK, Shutdowns
<1>5. ShutdownHolds'
  <2>1. shutdown' = "idle" => ~Flushing(client')
    BY <1>1, <1>2, <1>4 DEF AcksInv, ShutdownHolds, NoNewShutdown
  <2>2. shutdown' # "idle" => through' <= client'.cursor /\ Reaches(client', through')
    BY <1>1, <1>2, <1>3, <1>4 DEF AcksInv, ShutdownHolds
  <2>3. QED BY <1>4, <2>1, <2>2 DEF ShutdownHolds, Flushing, Reaches
<1>6. through' \in 0..MaxEvents
  BY DEF AcksInv, AcksTypeOK
<1>7. QED
  BY <1>1, <1>3, <1>4, <1>5, <1>6, AcksParts DEF Sound, Quiet, Covered

\* What an acknowledgement tells the client leaves it sound.
LEMMA AcknowledgedProperties ==
  ASSUME NEW c, Sound(c), NEW n \in 0..MaxEvents, c.lastAcked <= n
  PROVE  LET d == Acknowledged(c, n) IN
         /\ Sound(d) /\ (Quiet(c) => Quiet(d)) /\ d.open = c.open /\ d.cursor = c.cursor /\ d.calls = c.calls
         /\ d.lastAcked = n
<1> DEFINE d == Acknowledged(c, n)
<1>1. c.lastAcked \in Nat /\ n \in Nat /\ c.cursor \in 0..MaxEvents /\ MaxEvents \in Nat
  BY AcksAssumption DEF Sound, Client
<1>2. Max({c.lastAcked, n}) = n
  BY <1>1, LargerOfTwo
<1>3. PICK k \in 0..MaxEvents : Max({0, c.cursor - n}) = k /\ k <= c.cursor
  <2>1. CASE c.cursor >= n
    BY <1>1, <2>1, LargerOfTwo
  <2>2. CASE c.cursor < n
    <3>1. \A x \in {0, c.cursor - n} : 0 >= x
      BY <1>1, <2>2
    <3>2. Max({0, c.cursor - n}) = 0
      BY <1>1, <2>2, <3>1 DEF Max
    <3>3. QED BY <1>1, <3>2
  <2>3. QED BY <1>1, <2>1, <2>2
<1>4. d = [c EXCEPT !.lastAcked = n, !.delivered = k]
  BY <1>2, <1>3 DEF Acknowledged
<1>5. d \in Client /\ d.lastAcked = n /\ d.open = c.open /\ d.cursor = c.cursor /\ d.calls = c.calls
      /\ d.delivered = k /\ d.timer = c.timer /\ d.inFlight = c.inFlight
  BY <1>4 DEF Sound, Client
<1> HIDE DEF d
<1>6. QED
  BY <1>3, <1>5 DEF Sound, Quiet, d

\* Every step keeps the invariant.
LEMMA AcksNext == AcksInv /\ [Next]_vars => AcksInv'
<1> SUFFICES ASSUME AcksInv, [Next]_vars PROVE AcksInv'
  OBVIOUS
<1>1. /\ Sound(client) /\ Quiet(client) /\ client.lastAcked <= acked /\ acked \in 0..MaxEvents
      /\ client.cursor \in 0..MaxEvents /\ client.delivered \in 0..MaxEvents /\ client.lastAcked \in 0..MaxEvents
      /\ client.delivered <= client.cursor /\ MaxEvents \in Nat
  BY AcksAssumption DEF AcksInv, AcksTypeOK, Sound, Client
<1>2. CASE Deliver
  <2> DEFINE c == [client EXCEPT !.cursor = @ + 1, !.delivered = @ + 1]
  <2>1. client' = Schedule(c) /\ client.cursor < MaxEvents /\ UNCHANGED <<shutdown, through, acked, faults>>
    BY <1>2 DEF Deliver
  <2>2. /\ c \in Client /\ c.open = client.open /\ c.cursor = client.cursor + 1 /\ c.delivered = client.delivered + 1
        /\ c.lastAcked = client.lastAcked /\ c.calls = client.calls /\ c.timer = client.timer
        /\ c.inFlight = client.inFlight
    <3>1. client.cursor + 1 \in 0..MaxEvents /\ client.delivered + 1 \in 0..MaxEvents
      BY <1>1, <2>1
    <3>2. QED BY <1>1, <3>1 DEF Sound, Client
  <2> HIDE DEF c
  <2>3. Sound(c) /\ Quiet(c) /\ c.cursor >= client.cursor
    BY <1>1, <2>2 DEF Sound, Quiet
  <2>4. Advances(c, client') /\ Covered(client') /\ NoNewShutdown(c, client')
    BY <2>1, <2>3, ScheduleProperties
  <2>5. QED BY <2>1, <2>2, <2>3, <2>4, AdvanceStep
<1>3. CASE ApplySnapshot
  <2>1. PICK sequence \in client.cursor .. MaxEvents :
          client' = Schedule([client EXCEPT !.synced = TRUE, !.cursor = sequence,
                                            !.delivered = @ + (sequence - client.cursor)])
    BY <1>3 DEF ApplySnapshot
  <2> DEFINE c == [client EXCEPT !.synced = TRUE, !.cursor = sequence,
                                 !.delivered = @ + (sequence - client.cursor)]
  <2>2. /\ c \in Client /\ c.open = client.open /\ c.cursor = sequence
        /\ c.delivered = client.delivered + (sequence - client.cursor)
        /\ c.lastAcked = client.lastAcked /\ c.calls = client.calls /\ c.timer = client.timer
        /\ c.inFlight = client.inFlight
    <3>1. sequence \in 0..MaxEvents /\ client.delivered + (sequence - client.cursor) \in 0..MaxEvents
      BY <1>1, <2>1
    <3>2. QED BY <1>1, <3>1 DEF Sound, Client
  <2>3. client' = Schedule(c)
    BY <2>1
  <2> HIDE DEF c
  <2>4. Sound(c) /\ Quiet(c) /\ c.cursor >= client.cursor
    BY <1>1, <2>1, <2>2 DEF Sound, Quiet
  <2>5. Advances(c, client') /\ Covered(client') /\ NoNewShutdown(c, client')
    BY <2>3, <2>4, ScheduleProperties
  <2>6. UNCHANGED <<shutdown, through, acked, faults>>
    BY <1>3 DEF ApplySnapshot
  <2>7. QED BY <2>2, <2>4, <2>5, <2>6, AdvanceStep
<1>4. CASE TimerFires
  <2>1. client' = Flush(client, "background") /\ UNCHANGED <<shutdown, through, acked, faults>>
    BY <1>4 DEF TimerFires
  <2>2. Advances(client, client') /\ Covered(client') /\ NoNewShutdown(client, client')
    BY <1>1, <2>1, FlushProperties DEF Makers
  <2>3. QED BY <1>1, <2>1, <2>2, AdvanceStep
<1>5. CASE AckAnswered
  <2>1. PICK call \in client.calls :
          acked' = Max({acked, call.upTo}) /\ client' = AckSettles(Acknowledged(client, acked'), call)
    BY <1>5 DEF AckAnswered
  <2>2. AskWhenFlushed /\ through' = through /\ faults' = faults /\ faults \in 0..MaxFaults
    BY <1>5 DEF AckAnswered, AcksInv, AcksTypeOK
  <2>3. call.upTo \in 0..MaxEvents
    BY <1>1 DEF Sound, Client, Call
  <2>4. acked' \in 0..MaxEvents /\ acked' >= acked
    BY <1>1, <2>1, <2>3, LargerOfTwo
  <2> DEFINE c == Acknowledged(client, acked')
  <2>5. client.lastAcked <= acked'
    BY <1>1, <2>4
  <2>6. /\ Sound(c) /\ Quiet(c) /\ c.open = client.open /\ c.cursor = client.cursor /\ c.calls = client.calls
        /\ c.lastAcked = acked'
    BY <1>1, <2>4, <2>5, AcknowledgedProperties
  <2>7. client' = AckSettles(c, call) /\ call \in c.calls /\ c.open
    BY <1>1, <2>1, <2>6 DEF Quiet
  <2> HIDE DEF c
  <2>8. c.lastAcked <= acked'
    BY <2>4, <2>6
  <2>9. QED BY <2>2, <2>4, <2>6, <2>7, <2>8, SettledStep
<1>6. CASE AckFails
  <2>1. PICK call \in client.calls : client' = AckSettles(client, call)
    BY <1>6 DEF AckFails
  <2>2. AskWhenFlushed /\ through' = through /\ acked' = acked /\ faults' \in 0..MaxFaults
    BY <1>6, AcksAssumption DEF AckFails, AcksInv, AcksTypeOK
  <2>3. client.open /\ SameBut(client, client)
    BY <1>1, <2>1 DEF Quiet, SameBut
  <2>4. QED BY <1>1, <2>1, <2>2, <2>3, SettledStep
<1>7. CASE ShutdownServer
  <2>1. /\ client' = Flush(client, "shutdown") /\ client.open /\ through' = client.cursor
        /\ shutdown = "idle" /\ UNCHANGED <<acked, faults>>
        /\ shutdown' \in {"flushing", "asked"} /\ (shutdown' = "flushing" => Flushing(client'))
    BY <1>7 DEF ShutdownServer
  <2>2. Advances(client, client') /\ Covered(client')
    BY <1>1, <2>1, FlushProperties DEF Makers
  <2>3. Reaches(client, client.cursor) /\ client.cursor \in Nat
    BY <1>1, <2>1 DEF AcksInv, ShutdownHolds, Flushing, Reaches
  <2>4. /\ Sound(client') /\ Quiet(client') /\ Reaches(client', client.cursor)
        /\ client'.cursor = client.cursor /\ client'.lastAcked = client.lastAcked
    BY <1>1, <2>2, <2>3 DEF Advances, SameBut
  <2>5. ShutdownHolds'
    <3>1. shutdown' # "idle" => through' <= client'.cursor /\ Reaches(client', through')
      BY <2>1, <2>3, <2>4
    <3>2. QED BY <2>1, <3>1 DEF ShutdownHolds, Flushing, Reaches
  <2>6. /\ shutdown' \in Shutdowns /\ through' \in 0..MaxEvents /\ acked' \in 0..MaxEvents
        /\ faults' \in 0..MaxFaults /\ client'.lastAcked <= acked'
    BY <1>1, <2>1, <2>4 DEF AcksInv, AcksTypeOK, Shutdowns
  <2>7. QED BY <2>2, <2>4, <2>5, <2>6, AcksParts DEF Sound, Quiet, Covered
<1>8. CASE ShutdownAnswered \/ CloseTimesOut
  <2>1. /\ UNCHANGED <<client, through, acked>> /\ faults' \in 0..MaxFaults
        /\ shutdown \in {"asked", "closing"} /\ shutdown' \in {"closing", "failed"}
    BY <1>8, AcksAssumption DEF ShutdownAnswered, CloseTimesOut, AcksInv, AcksTypeOK
  <2>2. ShutdownHolds'
    BY <2>1 DEF AcksInv, ShutdownHolds, Flushing, Reaches
  <2>3. QED
    BY <2>1, <2>2 DEF AcksInv, AcksTypeOK, Shutdowns, AckIsComing
<1>9. CASE SocketCloses
  <2>1. /\ client' = [client EXCEPT !.open = FALSE, !.timer = FALSE, !.calls = {}, !.inFlight = None]
        /\ UNCHANGED <<through, acked, faults>>
    BY <1>9 DEF SocketCloses
  <2>2. /\ client' \in Client /\ ~client'.open /\ ~client'.timer /\ client'.calls = {} /\ client'.inFlight = None
        /\ client'.cursor = client.cursor /\ client'.delivered = client.delivered /\ client'.lastAcked = client.lastAcked
    BY <1>1, <2>1 DEF Sound, Client, None
  <2>3. Sound(client') /\ Quiet(client') /\ Covered(client')
    BY <1>1, <2>2 DEF Sound, Quiet, Covered
  <2>4. shutdown' \in Shutdowns /\ shutdown' # "flushing" /\ (shutdown' = "idle" <=> shutdown = "idle")
    BY <1>9 DEF SocketCloses, AcksInv, AcksTypeOK, Shutdowns
  <2>5. ShutdownHolds'
    BY <2>1, <2>2, <2>4 DEF AcksInv, ShutdownHolds, Flushing, Reaches
  <2>6. QED
    BY <1>1, <2>1, <2>2, <2>3, <2>4, <2>5, AcksParts DEF Sound, Quiet, Covered, AcksInv, AcksTypeOK
<1>10. CASE UNCHANGED vars
  BY <1>10 DEF vars, AcksInv, AcksTypeOK, Sound, Quiet, AckIsComing, ShutdownHolds, Flushing, Reaches
<1>11. QED
  BY <1>2, <1>3, <1>4, <1>5, <1>6, <1>7, <1>8, <1>9, <1>10 DEF Next

--------------------------------------------------------------------------------
(* The theorems *)

\* AcksInv holds of every reachable state.
LEMMA AcksAlways == Spec => []AcksInv
  BY AcksInit, AcksNext, PTL DEF Spec

\* Every reachable state of the acknowledgements has its types, among them that the count
\* of events that are not acknowledged is a natural number (flushEventAcks).
THEOREM AcksTypeCorrect == Spec => []AcksTypeOK
<1>1. AcksInv => AcksTypeOK
  BY DEF AcksInv
<1>2. QED BY <1>1, AcksAlways, PTL

\* Once its socket has closed a client keeps no timer, no call in flight and no flush of
\* a shutdown, whatever is delivered afterwards (ws.onclose).
THEOREM ClosedStaysQuiet == Spec => []ClosedIsQuiet
<1>1. AcksInv => ClosedIsQuiet
  BY DEF AcksInv, Quiet, ClosedIsQuiet, Flushing
<1>2. QED BY <1>1, AcksAlways, PTL

\* An applied event is never forgotten while the connection stands: a timer runs or a call
\* is in flight, however many flushes overlap and whichever call is refused
\* (scheduleEventAck, and the finally of flushEventAcks).
THEOREM AckKeepsComing == Spec => []AckIsComing
<1>1. AcksInv => AckIsComing
  BY DEF AcksInv
<1>2. QED BY <1>1, AcksAlways, PTL

\* shutdownServer asks Serve to exit only behind an acknowledgement of everything that was
\* applied when it was called, unless its flush failed.
THEOREM ShutdownWaits == Spec => ShutdownIsAcked
<1> DEFINE Told == shutdown # "asked" /\ shutdown' = "asked" /\ faults' = faults => acked' >= through'
<1>1. AcksInv /\ [Next]_vars => [Told]_vars
  <2>1. SUFFICES ASSUME AcksInv, Next, shutdown # "asked", shutdown' = "asked", faults' = faults
                 PROVE  acked' >= through'
    OBVIOUS
  <2>2. /\ Sound(client) /\ Quiet(client) /\ client.lastAcked <= acked /\ acked \in 0..MaxEvents
        /\ client.cursor \in Nat /\ client.lastAcked \in Nat /\ through \in Nat /\ faults \in Nat
    BY <2>1, AcksAssumption DEF AcksInv, AcksTypeOK, Sound, Client
  <2>3. CASE ShutdownServer
    <3>1. /\ client' = Flush(client, "shutdown") /\ client.open /\ through' = client.cursor /\ acked' = acked
          /\ ~Flushing(client')
      BY <2>1, <2>3 DEF ShutdownServer
    <3>2. client.cursor <= client.lastAcked
      BY <2>2, <3>1, FlushProperties DEF Makers
    <3>3. QED BY <2>2, <3>1, <3>2
  <2>4. CASE AckAnswered
    <3>1. PICK call \in client.calls :
            acked' = Max({acked, call.upTo}) /\ client' = AckSettles(Acknowledged(client, acked'), call)
      BY <2>4 DEF AckAnswered
    <3>2. shutdown = "flushing" /\ ~Flushing(client') /\ through' = through
      BY <2>1, <2>4 DEF AckAnswered, AskWhenFlushed
    <3>3. call.upTo \in 0..MaxEvents
      BY <2>2 DEF Sound, Client, Call
    <3>4. acked' \in 0..MaxEvents /\ acked' >= acked /\ acked' >= call.upTo
      BY <2>2, <3>1, <3>3, LargerOfTwo
    <3> DEFINE c == Acknowledged(client, acked')
    <3>5. client.lastAcked <= acked'
      BY <2>2, <3>4
    <3>6. /\ Sound(c) /\ Quiet(c) /\ c.open = client.open /\ c.cursor = client.cursor /\ c.calls = client.calls
          /\ c.lastAcked = acked'
      BY <2>2, <3>4, <3>5, AcknowledgedProperties
    <3>7. client' = AckSettles(c, call) /\ call \in c.calls /\ c.open
      BY <2>2, <3>1, <3>6 DEF Quiet
    <3> HIDE DEF c
    <3>8. Flushing(c) => call.by = "shutdown" \/ c.cursor <= c.lastAcked
      BY <3>2, <3>6, <3>7, SettledProperties
    <3>9. Flushing(c) /\ through <= client.cursor /\ Reaches(client, through)
      BY <2>1, <3>2, <3>6 DEF AcksInv, ShutdownHolds, Flushing
    <3>10. CASE call.by = "shutdown"
      <4>1. through <= call.upTo
        BY <3>1, <3>9, <3>10 DEF Reaches
      <4>2. QED BY <2>2, <3>2, <3>3, <3>4, <4>1
    <3>11. CASE c.cursor <= c.lastAcked
      BY <2>2, <3>2, <3>4, <3>6, <3>9, <3>11
    <3>12. QED BY <3>8, <3>9, <3>10, <3>11
  <2>5. CASE AckFails
    BY <2>1, <2>2, <2>5 DEF AckFails
  <2>6. CASE Deliver \/ ApplySnapshot \/ TimerFires \/ ShutdownAnswered \/ CloseTimesOut \/ SocketCloses
    BY <2>1, <2>6 DEF Deliver, ApplySnapshot, TimerFires, ShutdownAnswered, CloseTimesOut, SocketCloses, AcksInv, AcksTypeOK, Shutdowns
  <2>7. QED BY <2>1, <2>3, <2>4, <2>5, <2>6 DEF Next
<1>2. QED
  BY <1>1, AcksAlways, PTL DEF Spec, ShutdownIsAcked

================================================================================
