--------------------------- MODULE ExternalInteractions ---------------------------
(* Questions and approvals that work outside the conversation asks the user for. *)
(*                                                                               *)
(* external-question-state.ts and external-interaction-state.ts keep them in a   *)
(* bounded record, with the same reducers: a request is shown, a resolution      *)
(* closes it (or leaves a tombstone when it is not there), the end of its turn   *)
(* interrupts it, and a snapshot of Serve replaces what is open. Only closed     *)
(* entries are evicted. App.tsx answers an open entry, and for an approval keeps *)
(* the decision until Serve has confirmed it, across reconnections.              *)
(*                                                                               *)
(* The events arrive as EventStream says: in order, and after a reconnection the *)
(* missed ones (if Serve still has them) in front of a snapshot.                 *)
EXTENDS Naturals, FiniteSets, SequencesExt

CONSTANTS
  Requests,    \* ids of questions and approvals
  Turn,        \* those that belong to one turn
  Limit,       \* QUESTION_LIMIT, and the 128 of the approvals and of their attempts
  MaxFeed,     \* bound on the events under way
  MaxDrops     \* bound on the losses of the connection

VARIABLES
  cards,      \* the record's ids, in the order they were inserted
  settled,    \* those with an outcome
  expired,    \* requests whose expiresAt has passed
  attempts,   \* approvals with a decision, oldest first
  decision,   \* what is remembered of the decision for each of them
  linked,     \* the client is connected and has applied its snapshot, or will
  feed,       \* events and snapshots under way to the renderer
  replies,    \* decisions under way to Serve
  confirmed,  \* approvals whose answer is under way to the renderer
  open,       \* what Serve waits for
  asked,      \* what Serve has asked for so far
  accepted,   \* Serve's receipts: the command that answered a request
  sent,       \* history: the decisions sent for a request Serve waited for
  crowded,    \* history: more requests were open at Serve than the record holds
  drops       \* connections lost so far

interactionVars == <<cards, settled, expired, attempts, decision, linked, feed, replies, confirmed,
                     open, asked, accepted, sent, crowded, drops>>

NoDecision == [allow |-> FALSE, command |-> 0, phase |-> "none"]
Decisions == [allow: BOOLEAN, command: 0..(MaxDrops + 2), phase: {"none", "flight", "unsure", "settled"}]
Events == [kind: {"request", "resolved", "turn_end", "snapshot"}, ids: SUBSET Requests]

InteractionsTypeOK ==
  /\ cards \in Seq(Requests) /\ IsInjective(cards) /\ Len(cards) <= Limit
  /\ settled \subseteq ToSet(cards) /\ expired \subseteq Requests
  /\ attempts \in Seq(Requests) /\ IsInjective(attempts) /\ Len(attempts) <= Limit
  /\ decision \in [Requests -> Decisions]
  /\ linked \in BOOLEAN /\ crowded \in BOOLEAN /\ drops \in 0..MaxDrops
  /\ feed \in Seq(Events)
  /\ replies \subseteq Requests /\ confirmed \subseteq Requests
  /\ open \subseteq asked /\ asked \subseteq Requests
  /\ accepted \in [Requests -> Nat]

--------------------------------------------------------------------------------
(* The reducers, on a record of cards and the outcomes among them. *)

PendingIn(r) == {q \in ToSet(r.cards) : q \notin r.settled \union expired}
Before(s, i) == {s[j] : j \in 1..(i - 1)}
\* The n oldest members of S in the sequence s.
Oldest(s, S, n) == {s[i] : i \in {i \in DOMAIN s : s[i] \in S /\ Cardinality(Before(s, i) \intersect S) < n}}
Without(r, S) == [cards |-> SelectSeq(r.cards, LAMBDA q : q \notin S), settled |-> r.settled \ S]

\* An appendEntry that makes room among all entries.
AppendEntryAnyway(r, q, closed) ==
  LET excess == IF Len(r.cards) >= Limit THEN Len(r.cards) - Limit + 1 ELSE 0
      next   == Without(r, Oldest(r.cards, ToSet(r.cards), excess))
  IN  [cards |-> Append(next.cards, q), settled |-> IF closed THEN next.settled \union {q} ELSE next.settled]

\* An appendEntry that appends also when no room could be made.
AppendEntryFull(r, q, closed) ==
  LET excess == IF Len(r.cards) >= Limit THEN Len(r.cards) - Limit + 1 ELSE 0
      next   == Without(r, Oldest(r.cards, ToSet(r.cards) \ PendingIn(r), excess))
  IN  [cards |-> Append(next.cards, q), settled |-> IF closed THEN next.settled \union {q} ELSE next.settled]

\* appendEntry: room is made among the closed entries only; without it the entry is dropped.
AppendEntry(r, q, closed) ==
  LET excess == IF Len(r.cards) >= Limit THEN Len(r.cards) - Limit + 1 ELSE 0
      next   == Without(r, Oldest(r.cards, ToSet(r.cards) \ PendingIn(r), excess))
  IN  IF Len(next.cards) >= Limit THEN r
      ELSE [cards |-> Append(next.cards, q), settled |-> IF closed THEN next.settled \union {q} ELSE next.settled]

Receive(r, q) == IF q \in ToSet(r.cards) THEN r ELSE AppendEntry(r, q, FALSE)
Resolve(r, q) == IF q \notin ToSet(r.cards) THEN AppendEntry(r, q, TRUE)
                 ELSE [r EXCEPT !.settled = @ \union {q}]
\* interrupt*: the entries of the turn that are there; no tombstone is left.
Interrupt(r, ids) == [r EXCEPT !.settled = @ \union (ids \intersect ToSet(r.cards))]
\* restore*: open entries Serve does not list are interrupted, the listed ones received.
Restore(r, ids) ==
  FoldLeft(Receive, [r EXCEPT !.settled = @ \union (ToSet(r.cards) \ ids)], SetToSeq(ids))

Record == [cards |-> cards, settled |-> settled]
SetRecord(r) == cards' = r.cards /\ settled' = r.settled
Handled(r, e) ==
  CASE e.kind = "request"  -> FoldLeft(Receive, r, SetToSeq(e.ids))
    [] e.kind = "resolved" -> FoldLeft(Resolve, r, SetToSeq(e.ids))
    [] e.kind = "turn_end" -> Interrupt(r, e.ids)
    [] e.kind = "snapshot" -> Restore(r, e.ids)

InitInteractions ==
  /\ cards = <<>> /\ settled = {} /\ expired = {}
  /\ attempts = <<>> /\ decision = [q \in Requests |-> NoDecision]
  /\ linked = TRUE /\ feed = <<>> /\ replies = {} /\ confirmed = {}
  /\ open = {} /\ asked = {} /\ accepted = [q \in Requests |-> 0]
  /\ sent = [q \in Requests |-> {}] /\ crowded = FALSE /\ drops = 0

--------------------------------------------------------------------------------
(* App *)

HandleEvent ==
  /\ linked
  /\ feed # <<>>
  /\ SetRecord(Handled(Record, Head(feed)))
  /\ feed' = Tail(feed)
  /\ UNCHANGED <<expired, attempts, decision, linked, replies, confirmed, open, asked, accepted, sent,
                 crowded, drops>>

Expire(q) ==
  /\ q \in asked \ expired
  /\ expired' = expired \union {q}
  /\ UNCHANGED <<cards, settled, attempts, decision, linked, feed, replies, confirmed, open, asked,
                 accepted, sent, crowded, drops>>

\* The attempts after a new one is admitted: closed decisions make room, uncertain ones stay.
Admitted(q) ==
  LET excess == IF Len(attempts) >= Limit THEN Len(attempts) - Limit + 1 ELSE 0
      gone   == Oldest(attempts, {p \in ToSet(attempts) : decision[p].phase = "settled"}, excess)
  IN  [gone |-> gone, attempts |-> Append(SelectSeq(attempts, LAMBDA p : p \notin gone), q)]

\* An attempt the map forgets when the user changes the decision.
RemembersEither(q, allow) == decision[q].phase \in {"none", "unsure"}
\* createDelegatedApprovalSubmission: a first decision, or the same one again.
Remembers(q, allow) ==
  \/ decision[q].phase = "none" /\ Len(Admitted(q).attempts) <= Limit
  \/ decision[q].phase = "unsure" /\ decision[q].allow = allow

AnswerDelegatedApproval(q, allow) ==
  /\ linked
  /\ q \in PendingIn(Record)
  /\ Remembers(q, allow)
  /\ LET first == decision[q].phase = "none"
         d == [allow |-> allow, phase |-> "flight",
               command |-> IF first THEN Cardinality(sent[q]) + 1 ELSE decision[q].command]
     IN /\ decision' = [p \in Requests |-> IF p = q THEN d
                          ELSE IF first /\ p \in Admitted(q).gone THEN NoDecision ELSE decision[p]]
        /\ attempts' = IF first THEN Admitted(q).attempts ELSE attempts
        /\ sent' = [sent EXCEPT ![q] = IF q \in open THEN @ \union {<<d.allow, d.command>>} ELSE @]
  /\ replies' = replies \union {q}
  /\ UNCHANGED <<cards, settled, expired, linked, feed, confirmed, open, asked, accepted, crowded, drops>>

\* Serve has confirmed the decision: the attempt is settled and the entry closed. Or it
\* refuses, for the request is no longer open: the attempt stays.
ReplyAnswered(q) ==
  /\ q \in confirmed
  /\ confirmed' = confirmed \ {q}
  /\ IF accepted[q] = decision[q].command
     THEN /\ decision' = [decision EXCEPT ![q].phase = "settled"]
          /\ SetRecord(Resolve(Record, q))
     ELSE decision' = [decision EXCEPT ![q].phase = "unsure"] /\ UNCHANGED <<cards, settled>>
  /\ UNCHANGED <<expired, attempts, linked, feed, replies, open, asked, accepted, sent, crowded, drops>>

\* onClose: the surfaces are cleared, the attempts are not; the calls are rejected.
Disconnect ==
  /\ linked
  /\ drops < MaxDrops
  /\ drops' = drops + 1
  /\ linked' = FALSE
  /\ cards' = <<>> /\ settled' = {}
  /\ decision' = [q \in Requests |-> IF decision[q].phase = "flight"
                                     THEN [decision[q] EXCEPT !.phase = "unsure"] ELSE decision[q]]
  /\ confirmed' = {}
  /\ \E lost \in SUBSET replies : replies' = replies \ lost
  /\ UNCHANGED <<expired, attempts, feed, open, asked, accepted, sent, crowded>>

\* connect: what Serve still has of the missed events, and the snapshot.
Connected ==
  /\ ~linked
  /\ linked' = TRUE
  /\ \E missed \in {feed, <<>>} : feed' = Append(missed, [kind |-> "snapshot", ids |-> open])
  /\ UNCHANGED <<cards, settled, expired, attempts, decision, replies, confirmed, open, asked, accepted,
                 sent, crowded, drops>>

--------------------------------------------------------------------------------
(* Serve, as src/ relies on it. *)

Publish(kind, ids) == Len(feed) < MaxFeed /\ feed' = Append(feed, [kind |-> kind, ids |-> ids])

ServeAsks(q) ==
  /\ q \notin asked
  /\ asked' = asked \union {q} /\ open' = open \union {q}
  /\ crowded' = (crowded \/ Cardinality(open') > Limit)
  /\ Publish("request", {q})
  /\ UNCHANGED <<cards, settled, expired, attempts, decision, linked, replies, confirmed, accepted, sent,
                 drops>>

\* A time limit, a cancellation, or an answer from another device.
ServeResolves(q) ==
  /\ q \in open
  /\ open' = open \ {q}
  /\ Publish("resolved", {q})
  /\ UNCHANGED <<cards, settled, expired, attempts, decision, linked, replies, confirmed, asked, accepted,
                 sent, crowded, drops>>

ServeEndsTurn ==
  /\ ~ Turn \subseteq asked \/ Turn \intersect open # {}
  /\ asked' = asked \union Turn /\ open' = open \ Turn
  /\ Publish("turn_end", Turn)
  /\ UNCHANGED <<cards, settled, expired, attempts, decision, linked, replies, confirmed, accepted, sent,
                 crowded, drops>>

\* The first reply to an open request resolves it; the same command again is confirmed.
ServeReplies(q) ==
  /\ q \in replies
  /\ replies' = replies \ {q}
  /\ IF q \in open
     THEN /\ open' = open \ {q} /\ accepted' = [accepted EXCEPT ![q] = decision[q].command]
          /\ Publish("resolved", {q})
     ELSE UNCHANGED <<open, accepted, feed>>
  /\ confirmed' = IF linked /\ decision[q].phase = "flight" THEN confirmed \union {q} ELSE confirmed
  /\ UNCHANGED <<cards, settled, expired, attempts, decision, linked, asked, sent, crowded, drops>>

NextInteractions ==
  \/ \E q \in Requests : \/ Expire(q) \/ ReplyAnswered(q) \/ ServeAsks(q) \/ ServeResolves(q) \/ ServeReplies(q)
                         \/ \E allow \in BOOLEAN : AnswerDelegatedApproval(q, allow)
  \/ HandleEvent \/ Disconnect \/ Connected \/ ServeEndsTurn

SpecInteractions == InitInteractions /\ [][NextInteractions]_interactionVars

--------------------------------------------------------------------------------
\* Once the events under way are applied, the requests the user can answer are those
\* Serve waits for: none is lost to an eviction, a tombstone, a turn's end or a snapshot
\* (below the limit), and none that is resolved stays.
ShownIsWaitedFor ==
  LET then == FoldLeft(Handled, Record, feed) IN
    linked => /\ PendingIn(then) \subseteq open
              /\ ~crowded => open \ expired \subseteq PendingIn(then)

\* While Serve waits for a request, all replies to it carry one decision under one
\* command, whatever is lost, reconnected or evicted in between: Serve is never told
\* both yes and no.
OneDecision == \A q \in Requests : Cardinality(sent[q]) <= 1
================================================================================
