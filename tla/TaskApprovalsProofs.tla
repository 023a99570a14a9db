-------------------------- MODULE TaskApprovalsProofs --------------------------
(***************************************************************************)
(* Proofs about TaskApprovals, for any number of sessions, calls, grants   *)
(* and any limit: a revision that has passed never comes back, so that a   *)
(* receipt an event or a reset overtook is never projected, and what the   *)
(* renderer shows is what the Engine grants.                               *)
(***************************************************************************)
EXTENDS TaskApprovals, SequenceTheorems, FiniteSetTheorems, TLAPS

(* The clock with the calls that have captured a revision from it. *)
ClockType ==
  /\ serial \in Nat
  /\ order \in Seq(Sessions)
  /\ revisionOf \in [Sessions -> Nat]
  /\ requests \in [Requests -> Calls \cup {None}]

RevisionsBounded == \A s \in Sessions : Remembered(s) => revisionOf[s] <= serial

(* A captured revision has not been reached by the future, and an overtaken *)
(* one is behind: ReceiptsExpire follows.                                   *)
CapturedBefore ==
  \A r \in Requests, s \in Sessions :
    requests[r] # None /\ requests[r].session = s =>
      /\ requests[r].revision <= Current(s)
      /\ requests[r].overtaken => requests[r].revision # Current(s)

(* Serve and the connection. *)
EngineType ==
  /\ granted \in [Sessions -> States]
  /\ wire \in Seq(Events)
  /\ snapshot \in [Sessions -> States] \cup {None}
  /\ phase \in {"closed", "connecting", "ready"}
  /\ client \in Nat /\ emitted \in Nat /\ switches \in Nat

ClockInv == ClockType /\ RevisionsBounded /\ CapturedBefore

-------------------------------------------------------------------------------
(* Removing the element at a place keeps the others, in their order.        *)
LEMMA RemoveAtFact ==
  ASSUME NEW S, NEW q \in Seq(S), NEW i \in 1..Len(q)
  PROVE  /\ RemoveAt(q, i) \in Seq(S)
         /\ Len(RemoveAt(q, i)) = Len(q) - 1
         /\ \A j \in 1..(Len(q) - 1) :
              RemoveAt(q, i)[j] = q[IF j < i THEN j ELSE j + 1]
<1> DEFINE b == SubSeq(q, 1, i - 1)
           c == SubSeq(q, i + 1, Len(q))
<1>1. /\ b \in Seq(S) /\ Len(b) = i - 1 /\ \A j \in 1..(i - 1) : b[j] = q[j]
  OBVIOUS
<1>2. /\ c \in Seq(S) /\ Len(c) = Len(q) - i
      /\ \A j \in 1..(Len(q) - i) : c[j] = q[j + i]
  OBVIOUS
<1>3. RemoveAt(q, i) = b \o c
  BY DEF RemoveAt
<1> HIDE DEF b, c
<1>4. /\ b \o c \in Seq(S) /\ Len(b \o c) = Len(b) + Len(c)
      /\ \A j \in 1..(Len(b) + Len(c)) :
           (b \o c)[j] = IF j <= Len(b) THEN b[j] ELSE c[j - Len(b)]
  <2>1. b \in Seq(S) /\ c \in Seq(S)
    BY <1>1, <1>2
  <2> QED
    BY <2>1, ConcatProperties
<1>5. ASSUME NEW j \in 1..(Len(q) - 1)
      PROVE  (b \o c)[j] = q[IF j < i THEN j ELSE j + 1]
  <2>1. CASE j < i
    BY <1>1, <1>2, <1>4, <2>1
  <2>2. CASE ~(j < i)
    <3>1. j - (i - 1) \in 1..(Len(q) - i) /\ (j - (i - 1)) + i = j + 1
      BY <2>2
    <3>2. c[j - (i - 1)] = q[j + 1]
      BY <1>2, <3>1
    <3> QED
      BY <1>1, <1>2, <1>4, <2>2, <3>2
  <2> QED
    BY <2>1, <2>2
<1> QED
  BY <1>1, <1>2, <1>3, <1>4, <1>5

(* Bounding a session's revision leaves those still remembered alone.       *)
LEMMA BoundFact ==
  ASSUME order \in Seq(Sessions), revisionOf \in [Sessions -> Nat],
         NEW s \in Sessions, NEW v \in Nat, Bound(s, v)
  PROVE  /\ order' \in Seq(Sessions)
         /\ revisionOf' \in [Sessions -> Nat]
         /\ Remembered(s)' /\ revisionOf'[s] = v
         /\ \A t \in Sessions \ {s} :
              revisionOf'[t] = revisionOf[t] /\ (Remembered(t)' => Remembered(t))
<1> DEFINE w == Without(order, s)
           a == Append(w, s)
<1>1. /\ w \in Seq(Sessions)
      /\ \A j \in 1..Len(w) : \E i \in 1..Len(order) : w[j] = order[i]
  <2>1. CASE \E j \in 1..Len(order) : order[j] = s
    <3> DEFINE i == CHOOSE j \in 1..Len(order) : order[j] = s
    <3>1. i \in 1..Len(order)
      BY <2>1
    <3>2. w = RemoveAt(order, i)
      BY <2>1 DEF Without
    <3> HIDE DEF i, w
    <3>3. /\ w \in Seq(Sessions) /\ Len(w) = Len(order) - 1
          /\ \A j \in 1..(Len(order) - 1) : w[j] = order[IF j < i THEN j ELSE j + 1]
      BY <3>1, <3>2, RemoveAtFact
    <3> QED
      <4>1. ASSUME NEW j \in 1..Len(w)
            PROVE  \E k \in 1..Len(order) : w[j] = order[k]
        <5> DEFINE k == IF j < i THEN j ELSE j + 1
        <5>1. Len(order) \in Nat /\ j \in 1..(Len(order) - 1)
          BY <3>3
        <5>2. k \in 1..Len(order)
          BY <3>1, <5>1
        <5>3. w[j] = order[k]
          BY <3>3, <5>1
        <5> QED
          BY <5>2, <5>3
      <4> QED
        BY <3>3, <4>1
  <2>2. CASE ~\E j \in 1..Len(order) : order[j] = s
    BY <2>2 DEF Without
  <2> QED
    BY <2>1, <2>2
<1>2. order' = Newest(a) /\ revisionOf' = [revisionOf EXCEPT ![s] = v]
  BY DEF Bound
<1> HIDE DEF w
<1>3. /\ a \in Seq(Sessions) /\ Len(a) = Len(w) + 1 /\ a[Len(a)] = s
      /\ \A j \in 1..Len(w) : a[j] = w[j]
  BY <1>1
<1> HIDE DEF a
<1>4. /\ order' \in Seq(Sessions) /\ Len(order') \in 1..Len(a)
      /\ \A j \in 1..Len(order') : \E i \in 1..Len(a) : order'[j] = a[i]
      /\ order'[Len(order')] = s
  <2>1. Len(w) \in Nat /\ Len(a) \in Nat \ {0}
    BY <1>1, <1>3
  <2>2. CASE order' = a
    BY <1>3, <2>1, <2>2
  <2>3. CASE Len(a) > StateLimit /\ order' = Tail(a)
    <3>1. Len(a) > 1
      BY <2>1, <2>3, StateLimitAssumption
    <3>2. /\ order' \in Seq(Sessions) /\ Len(order') = Len(a) - 1
          /\ \A j \in 1..Len(order') : order'[j] = a[j + 1]
      BY <1>3, <2>3, <3>1
    <3>3. \A j \in 1..Len(order') : j + 1 \in 1..Len(a)
      BY <2>1, <3>2
    <3>4. \A j \in 1..Len(order') : \E i \in 1..Len(a) : order'[j] = a[i]
      BY <3>2, <3>3
    <3>5. Len(order') \in 1..Len(a) /\ Len(order') + 1 = Len(a)
          /\ Len(order') \in 1..Len(order')
      BY <2>1, <3>1, <3>2
    <3>6. order'[Len(order')] = s
      BY <1>3, <3>2, <3>5
    <3> QED
      BY <3>2, <3>4, <3>5, <3>6
  <2> QED
    BY <1>2, <2>2, <2>3 DEF Newest
<1>5. Remembered(s)'
  BY <1>4 DEF Remembered
<1>6. ASSUME NEW t \in Sessions \ {s}, Remembered(t)'
      PROVE  Remembered(t)
  <2>1. PICK j \in 1..Len(order') : order'[j] = t
    BY <1>6 DEF Remembered
  <2>2. PICK i \in 1..Len(a) : a[i] = t
    BY <2>1, <1>4
  <2>3. i \in 1..Len(w)
    BY <2>2, <1>3, <1>1
  <2> QED
    BY <2>2, <2>3, <1>1, <1>3 DEF Remembered
<1> QED
  BY <1>2, <1>4, <1>5, <1>6

(* The clock only moves forward when a session's revision is bounded anew.  *)
LEMMA BoundAdvances ==
  ASSUME ClockType, RevisionsBounded, serial' \in Nat, serial <= serial',
         NEW s \in Sessions, NEW v \in Nat, Bound(s, v), Current(s) <= v, v <= serial'
  PROVE  /\ order' \in Seq(Sessions) /\ revisionOf' \in [Sessions -> Nat]
         /\ RevisionsBounded'
         /\ Current(s)' = v
         /\ \A t \in Sessions : Current(t) \in Nat /\ Current(t)' \in Nat
                                /\ Current(t) <= Current(t)'
<1>1. /\ serial \in Nat /\ order \in Seq(Sessions) /\ revisionOf \in [Sessions -> Nat]
  BY DEF ClockType
<1>2. /\ order' \in Seq(Sessions)
      /\ revisionOf' \in [Sessions -> Nat]
      /\ Remembered(s)' /\ revisionOf'[s] = v
      /\ \A t \in Sessions \ {s} :
           revisionOf'[t] = revisionOf[t] /\ (Remembered(t)' => Remembered(t))
  BY <1>1, BoundFact
<1>3. RevisionsBounded'
  <2>1. ASSUME NEW t \in Sessions, Remembered(t)'
        PROVE  revisionOf'[t] <= serial'
    <3>1. CASE t = s
      BY <1>2, <3>1
    <3>2. CASE t # s
      BY <1>1, <1>2, <2>1, <3>2 DEF RevisionsBounded
    <3> QED
      BY <3>1, <3>2
  <2> QED
    BY <2>1 DEF RevisionsBounded
<1>4. Current(s)' = v
  BY <1>2 DEF Current
<1>5. ASSUME NEW t \in Sessions
      PROVE  Current(t) \in Nat /\ Current(t)' \in Nat /\ Current(t) <= Current(t)'
  <2>1. CASE t = s
    BY <1>1, <1>2, <1>4, <2>1 DEF Current, RevisionsBounded
  <2>2. CASE t # s
    <3>1. /\ revisionOf'[t] = revisionOf[t] /\ (Remembered(t)' => Remembered(t))
          /\ revisionOf[t] \in Nat
      BY <1>1, <1>2, <2>2
    <3>2. Remembered(t) => revisionOf[t] <= serial
      BY DEF RevisionsBounded
    <3> QED
      BY <1>1, <3>1, <3>2 DEF Current, Remembered
  <2> QED
    BY <2>1, <2>2
<1> QED
  BY <1>2, <1>3, <1>4, <1>5

-------------------------------------------------------------------------------
(* What a step may do to the calls: forget them, answer them, or mark them. *)

(* An event or a reset marks calls whose sessions get a newer revision.     *)
LEMMA OvertakeKeeps ==
  ASSUME ClockInv, NEW S, Overtake(S),
         \A t \in Sessions : Current(t) \in Nat /\ Current(t)' \in Nat
                             /\ Current(t) <= Current(t)',
         \A t \in Sessions \cap S : Current(t) < Current(t)'
  PROVE  requests' \in [Requests -> Calls \cup {None}] /\ CapturedBefore'
<1>1. requests \in [Requests -> Calls \cup {None}]
  BY DEF ClockInv, ClockType
<1>2. \A r \in Requests :
        requests'[r] = IF requests[r] # None /\ requests[r].session \in S
                       THEN [requests[r] EXCEPT !.overtaken = TRUE] ELSE requests[r]
  BY DEF Overtake, InFlight
<1>3. requests' \in [Requests -> Calls \cup {None}]
  <2>1. DOMAIN requests' = Requests /\ requests' = [r \in Requests |-> requests'[r]]
    BY DEF Overtake
  <2>2. ASSUME NEW r \in Requests
        PROVE  requests'[r] \in Calls \cup {None}
    <3>1. CASE requests[r] # None /\ requests[r].session \in S
      <4>1. requests[r] \in Calls
        BY <1>1, <3>1
      <4> QED
        BY <1>2, <3>1, <4>1 DEF Calls
    <3>2. CASE ~(requests[r] # None /\ requests[r].session \in S)
      BY <1>1, <1>2, <3>2
    <3> QED
      BY <3>1, <3>2
  <2> QED
    BY <2>1, <2>2
<1>4. ASSUME NEW r \in Requests, NEW s \in Sessions,
             requests'[r] # None, requests'[r].session = s
      PROVE  /\ requests'[r].revision <= Current(s)'
             /\ requests'[r].overtaken => requests'[r].revision # Current(s)'
  <2>1. requests[r] # None /\ requests[r] \in Calls
    BY <1>1, <1>2, <1>4
  <2> DEFINE v == requests[r].revision
  <2>2. v \in Nat
    BY <2>1 DEF Calls
  <2>3. /\ requests[r].session = s /\ requests'[r].revision = v
        /\ requests'[r].overtaken => requests[r].overtaken \/ s \in S
    BY <1>2, <1>4, <2>1 DEF Calls
  <2>4. v <= Current(s) /\ (requests[r].overtaken => v # Current(s))
    BY <2>1, <2>3 DEF ClockInv, CapturedBefore
  <2> HIDE DEF v
  <2>5. /\ Current(s) \in Nat /\ Current(s)' \in Nat /\ Current(s) <= Current(s)'
        /\ s \in S => Current(s) < Current(s)'
    OBVIOUS
  <2>6. requests'[r].overtaken => v # Current(s)'
    <3>1. CASE s \in S
      BY <2>2, <2>4, <2>5, <3>1
    <3>2. CASE s \notin S
      BY <2>2, <2>3, <2>4, <2>5, <3>2
    <3> QED
      BY <3>1, <3>2
  <2>7. v <= Current(s)'
    BY <2>2, <2>4, <2>5
  <2> QED
    BY <2>3, <2>6, <2>7
<1> QED
  BY <1>3, <1>4 DEF CapturedBefore

(* advance(session). *)
LEMMA AdvanceKeeps ==
  ASSUME ClockInv, NEW s \in Sessions, Advance(s)
  PROVE  ClockInv' /\ \A t \in Sessions : Current(t) <= Current(t)'
<1>1. serial \in Nat /\ serial' = serial + 1 /\ Bound(s, serial + 1) /\ Overtake({s})
  BY DEF Advance, ClockInv, ClockType
<1>2. Current(s) \in Nat /\ Current(s) <= serial
  BY DEF ClockInv, ClockType, RevisionsBounded, Current, Remembered
<1>3. /\ order' \in Seq(Sessions) /\ revisionOf' \in [Sessions -> Nat]
      /\ RevisionsBounded'
      /\ Current(s)' = serial + 1
      /\ \A t \in Sessions : Current(t) \in Nat /\ Current(t)' \in Nat
                             /\ Current(t) <= Current(t)'
  BY <1>1, <1>2, BoundAdvances DEF ClockInv
<1>4. \A t \in Sessions \cap {s} : Current(t) < Current(t)'
  BY <1>1, <1>2, <1>3
<1>5. requests' \in [Requests -> Calls \cup {None}] /\ CapturedBefore'
  BY <1>1, <1>3, <1>4, OvertakeKeeps
<1> QED
  BY <1>1, <1>3, <1>5 DEF ClockInv, ClockType

(* advance() without a session. *)
LEMMA AdvanceAllKeeps ==
  ASSUME ClockInv, AdvanceAll
  PROVE  ClockInv' /\ \A t \in Sessions : Current(t) <= Current(t)'
<1>1. /\ serial \in Nat /\ serial' = serial + 1 /\ order' = <<>>
      /\ revisionOf' = revisionOf /\ Overtake(Sessions)
  BY DEF AdvanceAll, ClockInv, ClockType
<1>2. ASSUME NEW t \in Sessions
      PROVE  /\ Current(t) \in Nat /\ Current(t) <= serial
             /\ Current(t)' = serial + 1
  <2>1. Current(t) \in Nat /\ Current(t) <= serial
    BY DEF ClockInv, ClockType, RevisionsBounded, Current, Remembered
  <2>2. Current(t)' = serial + 1
    BY <1>1 DEF Current, Remembered
  <2> QED
    BY <2>1, <2>2
<1>3. \A t \in Sessions : /\ Current(t) \in Nat /\ Current(t)' \in Nat
                          /\ Current(t) <= Current(t)' /\ Current(t) < Current(t)'
  BY <1>1, <1>2
<1>4. requests' \in [Requests -> Calls \cup {None}] /\ CapturedBefore'
  BY <1>1, <1>3, OvertakeKeeps
<1>5. RevisionsBounded'
  BY <1>1 DEF RevisionsBounded, Remembered
<1> QED
  BY <1>1, <1>3, <1>4, <1>5 DEF ClockInv, ClockType

(* A step that leaves the clock alone and only ends or answers calls.       *)
LEMMA ClockQuiet ==
  ASSUME ClockInv, UNCHANGED clock, requests' \in [Requests -> Calls \cup {None}],
         \A r \in Requests : requests'[r] # None =>
           /\ requests[r] # None
           /\ requests'[r].session = requests[r].session
           /\ requests'[r].revision = requests[r].revision
           /\ requests'[r].overtaken = requests[r].overtaken
  PROVE  ClockInv' /\ \A t \in Sessions : Current(t) <= Current(t)'
<1>1. /\ serial' = serial /\ order' = order /\ revisionOf' = revisionOf
  BY DEF clock
<1>2. \A t : Current(t)' = Current(t)
  BY <1>1 DEF Current, Remembered
<1>3. \A t \in Sessions : Current(t) \in Nat
  BY DEF ClockInv, ClockType, Current
<1>4. ClockType' /\ RevisionsBounded'
  BY <1>1 DEF ClockInv, ClockType, RevisionsBounded, Remembered
<1>5. CapturedBefore'
  BY <1>2 DEF ClockInv, CapturedBefore
<1> QED
  BY <1>2, <1>3, <1>4, <1>5 DEF ClockInv

(* capture(session). *)
LEMMA SubmitKeeps ==
  ASSUME ClockInv, client \in Nat,
         NEW r \in Requests, NEW s \in Sessions, NEW kind \in Kinds, Submit(r, s, kind)
  PROVE  ClockInv' /\ \A t \in Sessions : Current(t) <= Current(t)'
<1> DEFINE call == [session |-> s, kind |-> kind, client |-> client,
                    revision |-> Current(s), answer |-> None, overtaken |-> FALSE]
<1>1. serial' = serial /\ Bound(s, Current(s)) /\ requests' = [requests EXCEPT ![r] = call]
  BY DEF Submit
<1>2. serial \in Nat /\ Current(s) \in Nat /\ Current(s) <= serial
  BY DEF ClockInv, ClockType, RevisionsBounded, Current, Remembered
<1>3. call \in Calls
  BY <1>2 DEF Calls
<1>4. /\ call.session = s /\ call.revision = Current(s) /\ call.overtaken = FALSE
  OBVIOUS
<1>5. /\ order' \in Seq(Sessions) /\ revisionOf' \in [Sessions -> Nat]
      /\ RevisionsBounded'
      /\ Current(s)' = Current(s)
      /\ \A t \in Sessions : Current(t) \in Nat /\ Current(t)' \in Nat
                             /\ Current(t) <= Current(t)'
  <2>1. Current(s) <= Current(s) /\ serial' \in Nat /\ serial <= serial' /\ Current(s) <= serial'
    BY <1>1, <1>2
  <2> QED
    BY <1>1, <1>2, <2>1, BoundAdvances DEF ClockInv
<1> HIDE DEF call
<1>6. requests' \in [Requests -> Calls \cup {None}]
  BY <1>1, <1>3 DEF ClockInv, ClockType
<1>7. ASSUME NEW q \in Requests, NEW t \in Sessions,
             requests'[q] # None, requests'[q].session = t
      PROVE  /\ requests'[q].revision <= Current(t)'
             /\ requests'[q].overtaken => requests'[q].revision # Current(t)'
  <2>1. CASE q = r
    <3>1. requests'[q] = call
      BY <1>1, <2>1 DEF ClockInv, ClockType
    <3> QED
      BY <1>2, <1>4, <1>5, <1>7, <3>1
  <2>2. CASE q # r
    <3>1. requests'[q] = requests[q] /\ requests[q] \in Calls \cup {None}
      BY <1>1, <2>2 DEF ClockInv, ClockType
    <3>2. requests[q] # None /\ requests[q].session = t /\ requests[q].revision \in Nat
      BY <1>7, <3>1 DEF Calls
    <3>3. /\ requests[q].revision <= Current(t)
          /\ requests[q].overtaken => requests[q].revision # Current(t)
      BY <3>2 DEF ClockInv, CapturedBefore
    <3>4. Current(t) \in Nat /\ Current(t)' \in Nat /\ Current(t) <= Current(t)'
      BY <1>5
    <3> QED
      BY <3>1, <3>2, <3>3, <3>4
  <2> QED
    BY <2>1, <2>2
<1>8. CapturedBefore'
  BY <1>7 DEF CapturedBefore
<1> QED
  BY <1>1, <1>2, <1>5, <1>6, <1>8 DEF ClockInv, ClockType

-------------------------------------------------------------------------------
(* What every step does to the clock and to the calls that captured it.     *)
LEMMA ClockStep ==
  ASSUME EngineType, ClockInv, [Next]_vars
  PROVE  ClockInv' /\ \A t \in Sessions : Current(t) <= Current(t)'
<1>1. requests \in [Requests -> Calls \cup {None}]
  BY DEF ClockInv, ClockType
<1>2. ASSUME UNCHANGED clock, UNCHANGED requests
      PROVE  ClockInv' /\ \A t \in Sessions : Current(t) <= Current(t)'
  BY <1>1, <1>2, ClockQuiet
<1>3. ASSUME NEW r \in Requests, UNCHANGED clock, requests' = [requests EXCEPT ![r] = None]
      PROVE  ClockInv' /\ \A t \in Sessions : Current(t) <= Current(t)'
  <2>1. requests' \in [Requests -> Calls \cup {None}]
    BY <1>1, <1>3
  <2>2. \A q \in Requests : requests'[q] # None =>
          requests[q] # None /\ requests'[q] = requests[q]
    BY <1>1, <1>3
  <2> QED
    BY <1>3, <2>1, <2>2, ClockQuiet
<1>4. CASE \E s \in Sessions, g \in States : GrantChanges(s, g)
  BY <1>2, <1>4 DEF GrantChanges
<1>5. CASE \E r \in Requests, s \in Sessions, kind \in Kinds : Submit(r, s, kind)
  BY <1>5, SubmitKeeps DEF EngineType
<1>6. ASSUME NEW r \in Requests, ServeCall(r)
      PROVE  ClockInv' /\ \A t \in Sessions : Current(t) <= Current(t)'
  <2>1. PICK g \in Requested(r) : requests' = [requests EXCEPT ![r].answer = g]
    BY <1>6 DEF ServeCall
  <2>2. requests[r] # None /\ requests[r] \in Calls /\ UNCHANGED clock
    BY <1>1, <1>6 DEF ServeCall
  <2>3. g \in States
    BY <1>6, <2>1, <2>2 DEF Requested, States, Calls, EngineType
  <2>4. requests' \in [Requests -> Calls \cup {None}]
    BY <1>1, <2>1, <2>2, <2>3 DEF Calls
  <2>5. \A q \in Requests : requests'[q] # None =>
          /\ requests[q] # None
          /\ requests'[q].session = requests[q].session
          /\ requests'[q].revision = requests[q].revision
          /\ requests'[q].overtaken = requests[q].overtaken
    BY <1>1, <2>1, <2>2 DEF Calls
  <2> QED
    BY <2>2, <2>4, <2>5, ClockQuiet
<1>7. CASE \E r \in Requests : Answered(r)
  BY <1>3, <1>7 DEF Answered
<1>8. CASE \E r \in Requests : CallFails(r)
  BY <1>3, <1>8 DEF CallFails
<1>9. CASE EventArrives
  <2>1. Head(wire) \in Events /\ Advance(Head(wire).session)
    BY <1>9 DEF EventArrives, EngineType
  <2> QED
    BY <2>1, AdvanceKeeps DEF Events
<1>10. CASE Connect \/ Disconnected \/ SnapshotApplied \/ SwitchSpace
  BY <1>10, AdvanceAllKeeps
     DEF Connect, Disconnected, SnapshotApplied, SwitchSpace, ClearSurfaces
<1>11. CASE SnapshotTaken
  BY <1>2, <1>11 DEF SnapshotTaken
<1>12. CASE UNCHANGED vars
  BY <1>2, <1>12 DEF vars
<1> QED
  BY <1>4, <1>5, <1>6, <1>7, <1>8, <1>9, <1>10, <1>11, <1>12 DEF Next

(* Serve and the connection keep their types. *)
LEMMA EngineStep ==
  ASSUME EngineType, ClockType, [Next]_vars
  PROVE  EngineType'
<1> USE DEF EngineType
<1>1. ASSUME NEW s \in Sessions, NEW g \in States, Change(s, g),
             UNCHANGED <<snapshot, phase, client, switches>>
      PROVE  EngineType'
  <2> DEFINE e == [session |-> s, grant |-> g]
  <2>1. /\ emitted' = emitted + 1 /\ granted' = [granted EXCEPT ![s] = g]
        /\ wire' = wire \/ wire' = Append(wire, e)
    BY <1>1 DEF Change
  <2>2. e \in Events
    BY DEF Events
  <2> HIDE DEF e
  <2>3. granted' \in [Sessions -> States] /\ emitted' \in Nat
    BY <2>1
  <2>4. wire' \in Seq(Events)
    BY <2>1, <2>2
  <2> QED
    BY <1>1, <2>3, <2>4
<1>2. CASE \E s \in Sessions, g \in States : GrantChanges(s, g)
  BY <1>1, <1>2 DEF GrantChanges
<1>3. ASSUME NEW r \in Requests, ServeCall(r)
      PROVE  EngineType'
  <2>1. /\ requests[r] \in Calls
        /\ UNCHANGED <<snapshot, phase, client, switches>>
    BY <1>3 DEF ServeCall, ClockType
  <2>2. PICK g \in Requested(r) :
          IF g = granted[requests[r].session] THEN UNCHANGED <<serve, wire>>
          ELSE Change(requests[r].session, g)
    BY <1>3 DEF ServeCall
  <2>3. requests[r].session \in Sessions /\ g \in States
    BY <2>1, <2>2 DEF Requested, States, Calls
  <2>4. CASE UNCHANGED <<serve, wire>>
    BY <2>1, <2>4 DEF serve
  <2>5. CASE Change(requests[r].session, g)
    BY <1>1, <2>1, <2>3, <2>5
  <2> QED
    BY <2>2, <2>4, <2>5
<1>4. CASE \E r \in Requests, s \in Sessions, kind \in Kinds : Submit(r, s, kind)
  BY <1>4 DEF Submit, serve
<1>5. CASE \E r \in Requests : Answered(r) \/ CallFails(r)
  BY <1>5 DEF Answered, CallFails, serve
<1>6. CASE EventArrives
  BY <1>6 DEF EventArrives, serve
<1>7. CASE Connect \/ Disconnected \/ SnapshotTaken \/ SnapshotApplied \/ SwitchSpace
  <2>1. CASE Connect
    BY <2>1 DEF Connect, serve
  <2>2. CASE Disconnected
    BY <2>2 DEF Disconnected, serve
  <2>3. CASE SnapshotTaken
    BY <2>3 DEF SnapshotTaken, serve
  <2>4. CASE SnapshotApplied
    BY <2>4 DEF SnapshotApplied, serve
  <2>5. CASE SwitchSpace
    BY <2>5 DEF SwitchSpace, serve
  <2> QED
    BY <1>7, <2>1, <2>2, <2>3, <2>4, <2>5
<1>8. CASE UNCHANGED vars
  BY <1>8 DEF vars, serve
<1> QED
  BY <1>2, <1>3, <1>4, <1>5, <1>6, <1>7, <1>8 DEF Next

(* The clock starts with no revision and no call.                            *)
LEMMA ClockInit ==
  ASSUME Init
  PROVE  EngineType /\ ClockInv
  BY DEF Init, EngineType, ClockInv, ClockType, RevisionsBounded, CapturedBefore,
         Remembered, States

(* A receipt that an event of its session or a reset overtook is never      *)
(* projected: projectTaskApprovalReceipt compares its revision with         *)
(* taskApprovalRevisionClock.current, and no eviction makes them equal.     *)
THEOREM ReceiptsStayExpired == Spec => []ReceiptsExpire
<1>1. Init => EngineType /\ ClockInv
  BY ClockInit
<1>2. EngineType /\ ClockInv /\ [Next]_vars => (EngineType /\ ClockInv)'
  BY ClockStep, EngineStep DEF ClockInv
<1>3. ClockInv => ReceiptsExpire
  <2>1. ASSUME ClockInv, NEW r \in InFlight
        PROVE  requests[r].overtaken =>
                 requests[r].revision # Current(requests[r].session)
    <3>1. requests[r] # None /\ requests[r].session \in Sessions /\ r \in Requests
      BY <2>1 DEF ClockInv, ClockType, InFlight, Calls
    <3> QED
      BY <2>1, <3>1 DEF ClockInv, CapturedBefore
  <2> QED
    BY <2>1 DEF ReceiptsExpire
<1> QED
  BY <1>1, <1>2, <1>3, PTL DEF Spec

(* taskApprovalRevisionClock.current never runs backwards for any session,  *)
(* also when the session has been forgotten.                                *)
THEOREM RevisionsOnlyAdvance == Spec => RevisionsAdvance
<1>1. Init => EngineType /\ ClockInv
  BY ClockInit
<1>2. EngineType /\ ClockInv /\ [Next]_vars =>
        /\ (EngineType /\ ClockInv)'
        /\ [\A s \in Sessions : Current(s) <= Current(s)']_vars
  BY ClockStep, EngineStep DEF ClockInv
<1> QED
  BY <1>1, <1>2, PTL DEF Spec, RevisionsAdvance

-------------------------------------------------------------------------------
(* What is shown against what is granted. *)

Unique(q) == \A i, j \in 1..Len(q) : q[i].session = q[j].session => i = j

ShownType == shown \in Seq(Entries) /\ Len(shown) <= StateLimit /\ Unique(shown)

(* The last event on its way for a session names its grant. *)
WireEnds ==
  \A s \in Sessions, i \in 1..Len(wire) :
    /\ wire[i].session = s
    /\ \A j \in 1..Len(wire) : j > i => wire[j].session # s
    => wire[i].grant = granted[s]

SnapshotIsGranted ==
  snapshot # None => \A s \in Sessions : Silent(s) => snapshot[s] = granted[s]

(* An answer nothing overtook is still true once the session's events have  *)
(* arrived.                                                                 *)
AnswersAreGranted ==
  phase # "closed" /\ snapshot = None =>
    \A r \in Requests, s \in Sessions :
      /\ requests[r] # None /\ requests[r].session = s
      /\ requests[r].answer # None /\ ~requests[r].overtaken
      /\ Silent(s)
      => requests[r].answer = granted[s]

EntriesAreGranted ==
  phase = "ready" =>
    \A s \in Sessions, i \in 1..Len(shown) :
      Silent(s) /\ shown[i].session = s => shown[i].grant = granted[s]

ConnectionInv ==
  /\ phase = "closed" => wire = <<>> /\ snapshot = None
  /\ phase = "ready" => snapshot = None

GrantInv ==
  /\ ShownType /\ WireEnds /\ SnapshotIsGranted
  /\ AnswersAreGranted /\ EntriesAreGranted /\ ConnectionInv

(* projectTaskApprovalState changes the entry of its session only, and      *)
(* leaves the projection bounded.                                           *)
LEMMA ProjectFact ==
  ASSUME ShownType, NEW s \in Sessions, NEW g \in States, NEW q, q = Project(s, g)
  PROVE  /\ q \in Seq(Entries) /\ Len(q) <= StateLimit /\ Unique(q)
         /\ \A i \in 1..Len(q) :
              \/ q[i].session = s /\ q[i].grant = g
              \/ q[i].session # s /\ \E j \in 1..Len(shown) : q[i] = shown[j]
<1> DEFINE n == Len(shown)
           e == Entry(s, g)
           k == Place(s)
<1>1. shown \in Seq(Entries) /\ n \in Nat /\ n <= StateLimit /\ Unique(shown)
  BY DEF ShownType
<1>2. g # NoGrant => e \in Entries
  BY DEF States, Entry, Entries
<1>3. e.session = s /\ e.grant = g
  BY DEF Entry
<1>4. CASE Places(s) = {}
  <2>1. \A i \in 1..n : shown[i].session # s
    BY <1>4 DEF Places
  <2>2. CASE g = NoGrant
    <3>1. q = shown
      BY <1>4, <2>2 DEF Project
    <3> QED
      BY <1>1, <2>1, <3>1
  <2>3. CASE g # NoGrant
    <3> DEFINE a == Append(shown, e)
    <3>1. q = Newest(a)
      BY <1>4, <2>3 DEF Project
    <3> HIDE DEF e
    <3>2. /\ a \in Seq(Entries) /\ Len(a) = n + 1 /\ a[n + 1] = e
          /\ \A i \in 1..n : a[i] = shown[i]
      BY <1>1, <1>2, <2>3
    <3>3. Unique(a)
      <4> SUFFICES ASSUME NEW i \in 1..(n + 1), NEW j \in 1..(n + 1),
                          a[i].session = a[j].session
                   PROVE  i = j
        BY <3>2 DEF Unique
      <4> QED
        BY <1>1, <1>3, <2>1, <3>2 DEF Unique
    <3>4. \A i \in 1..(n + 1) :
            \/ a[i].session = s /\ a[i].grant = g
            \/ a[i].session # s /\ \E j \in 1..n : a[i] = shown[j]
      BY <1>1, <1>3, <2>1, <3>2
    <3> HIDE DEF a
    <3>5. CASE n + 1 > StateLimit
      <4>1. q = Tail(a)
        BY <3>1, <3>2, <3>5 DEF Newest
      <4>2. /\ q \in Seq(Entries) /\ Len(q) = n
            /\ \A i \in 1..n : q[i] = a[i + 1]
        BY <1>1, <3>2, <4>1
      <4>3. \A i \in 1..n : i + 1 \in 1..(n + 1)
        BY <1>1
      <4>4. Unique(q)
        <5> SUFFICES ASSUME NEW i \in 1..n, NEW j \in 1..n, q[i].session = q[j].session
                     PROVE  i = j
          BY <4>2 DEF Unique
        <5>1. a[i + 1].session = a[j + 1].session
          BY <4>2
        <5>2. i + 1 \in 1..Len(a) /\ j + 1 \in 1..Len(a)
          BY <3>2, <4>3
        <5>3. i + 1 = j + 1
          BY <3>3, <5>1, <5>2 DEF Unique
        <5> QED
          BY <5>3
      <4> QED
        <5>1. ASSUME NEW i \in 1..n
              PROVE  \/ q[i].session = s /\ q[i].grant = g
                     \/ q[i].session # s /\ \E j \in 1..n : q[i] = shown[j]
          BY <3>4, <4>2, <4>3
        <5> QED
          BY <1>1, <4>2, <4>4, <5>1
    <3>6. CASE ~(n + 1 > StateLimit)
      <4>1. q = a
        BY <3>1, <3>2, <3>6 DEF Newest
      <4> QED
        BY <1>1, <3>2, <3>3, <3>4, <3>6, <4>1, StateLimitAssumption
    <3> QED
      BY <3>5, <3>6
  <2> QED
    BY <2>2, <2>3
<1>5. CASE Places(s) # {}
  <2>1. k \in 1..n /\ shown[k].session = s
    BY <1>5 DEF Place, Places
  <2>2. \A i \in 1..n : i # k => shown[i].session # s
    BY <1>1, <2>1 DEF Unique
  <2>3. CASE g = NoGrant
    <3>1. q = RemoveAt(shown, k)
      BY <1>5, <2>3 DEF Project
    <3> HIDE DEF k
    <3>2. /\ q \in Seq(Entries) /\ Len(q) = n - 1
          /\ \A i \in 1..(n - 1) : q[i] = shown[IF i < k THEN i ELSE i + 1]
      BY <1>1, <2>1, <3>1, RemoveAtFact
    <3> DEFINE f(i) == IF i < k THEN i ELSE i + 1
    <3>3. \A i \in 1..(n - 1) : f(i) \in 1..n /\ f(i) # k /\ q[i] = shown[f(i)]
      BY <1>1, <2>1, <3>2
    <3>4. \A i, j \in 1..(n - 1) : f(i) = f(j) => i = j
      BY <1>1, <2>1
    <3> HIDE DEF f, n
    <3>5. Unique(q)
      BY <1>1, <3>2, <3>3, <3>4 DEF Unique, n
    <3>6. \A i \in 1..(n - 1) :
            q[i].session # s /\ \E j \in 1..n : q[i] = shown[j]
      BY <2>2, <3>3
    <3> QED
      <4>1. n - 1 <= StateLimit
        BY <1>1, StateLimitAssumption DEF n
      <4>2. \A i \in 1..Len(q) :
              q[i].session # s /\ \E j \in 1..Len(shown) : q[i] = shown[j]
        BY <3>2, <3>6 DEF n
      <4> QED
        BY <3>2, <3>5, <4>1, <4>2
  <2>4. CASE g # NoGrant
    <3>1. q = [shown EXCEPT ![k] = e]
      BY <1>5, <2>4 DEF Project
    <3> HIDE DEF k, e
    <3>2. /\ q \in Seq(Entries) /\ Len(q) = n /\ q[k] = e
          /\ \A i \in 1..n : i # k => q[i] = shown[i]
      BY <1>1, <1>2, <2>1, <2>4, <3>1
    <3>3. \A i \in 1..n : q[i].session = shown[i].session
      BY <1>3, <2>1, <3>2
    <3>4. Unique(q)
      BY <1>1, <3>2, <3>3 DEF Unique
    <3>5. \A i \in 1..n :
            \/ q[i].session = s /\ q[i].grant = g
            \/ q[i].session # s /\ \E j \in 1..n : q[i] = shown[j]
      BY <1>3, <2>2, <3>2
    <3> QED
      BY <1>1, <3>2, <3>4, <3>5
  <2> QED
    BY <2>3, <2>4
<1> QED
  BY <1>4, <1>5

(* restoreTaskApprovalStates keeps grants of the snapshot only.             *)
LEMMA RestorableFact ==
  ASSUME NEW grants \in [Sessions -> States], NEW q \in Restorable(grants)
  PROVE  /\ q \in Seq(Entries) /\ Len(q) <= StateLimit /\ Unique(q)
         /\ \A i \in 1..Len(q) : grants[q[i].session] = q[i].grant
<1> DEFINE kept == {e \in Entries : grants[e.session] = e.grant}
           N == Cardinality(kept)
           m == Cap(kept)
<1>1. N \in Nat
  <2> DEFINE f == [e \in kept |-> e.session]
  <2>1. f \in [kept -> Sessions]
    BY DEF Entries
  <2>2. ASSUME NEW d \in kept, NEW e \in kept, f[d] = f[e]
        PROVE  d = e
    BY <2>2 DEF Entries
  <2> HIDE DEF kept
  <2>3. f \in Injection(kept, Sessions)
    <3> HIDE DEF f
    <3> QED
      BY <2>1, <2>2 DEF Injection, IsInjective
  <2>4. IsFiniteSet(kept)
    BY <2>3, SessionsAssumption, FS_Injection
  <2> QED
    BY <2>4, FS_CardinalityType
<1>2. m \in 0..N /\ m <= StateLimit
  BY <1>1, StateLimitAssumption DEF Cap
<1>3. PICK p \in SetToSeqs(kept) : q = SubSeq(p, 1 + N - m, N)
  BY DEF Restorable
<1> HIDE DEF kept
<1>4. /\ p \in [1..N -> kept]
      /\ \A i, j \in 1..N : i # j => p[i] # p[j]
  BY DEF SetToSeqs
<1> HIDE DEF N, m
<1>5. /\ Len(q) = m /\ q \in Seq(kept)
      /\ \A i \in 1..m : q[i] = p[i + (N - m)] /\ i + (N - m) \in 1..N
  <2>1. p \in Seq(kept) /\ Len(p) = N
    BY <1>1, <1>4
  <2>2. 1 + N - m \in 1..(N + 1) /\ N - (1 + N - m) + 1 = m
    BY <1>1, <1>2
  <2> QED
    BY <1>1, <1>2, <1>3, <2>1, <2>2
<1>6. \A e \in kept : e \in Entries /\ grants[e.session] = e.grant
  BY DEF kept
<1>7. q \in Seq(Entries)
  BY <1>5, <1>6
<1>8. \A i \in 1..m : q[i] \in kept
  BY <1>4, <1>5
<1>9. Unique(q)
  <2> SUFFICES ASSUME NEW i \in 1..m, NEW j \in 1..m, q[i].session = q[j].session
               PROVE  i = j
    BY <1>5 DEF Unique
  <2>1. q[i] = q[j]
    BY <1>6, <1>8 DEF Entries
  <2>2. i + (N - m) = j + (N - m)
    BY <1>4, <1>5, <2>1
  <2> QED
    BY <1>1, <1>2, <2>2
<1> QED
  BY <1>2, <1>5, <1>6, <1>7, <1>8, <1>9

(* Serve announces the grant it changes; the others' announcements stand.   *)
LEMMA ChangeAnnounced ==
  ASSUME EngineType, GrantInv, phase # "closed",
         NEW s \in Sessions, NEW g \in States, Change(s, g)
  PROVE  /\ WireEnds' /\ ~Silent(s)'
         /\ \A t \in Sessions \ {s} : granted'[t] = granted[t] /\ (Silent(t)' => Silent(t))
<1> DEFINE n == Len(wire)
           e == [session |-> s, grant |-> g]
<1>1. /\ wire \in Seq(Events) /\ n \in Nat /\ granted \in [Sessions -> States]
      /\ wire' = Append(wire, e) /\ granted' = [granted EXCEPT ![s] = g]
  BY DEF EngineType, Change
<1>2. e.session = s /\ e.grant = g /\ e \in Events
  BY DEF Events
<1> HIDE DEF e
<1>3. /\ Len(wire') = n + 1 /\ wire'[n + 1] = e
      /\ \A i \in 1..n : wire'[i] = wire[i]
  BY <1>1, <1>2
<1>4. /\ granted'[s] = g
      /\ \A t \in Sessions \ {s} : granted'[t] = granted[t]
  BY <1>1
<1>5. ~Silent(s)'
  BY <1>1, <1>2, <1>3 DEF Silent
<1>6. ASSUME NEW t \in Sessions \ {s}, Silent(t)'
      PROVE  Silent(t)
  BY <1>1, <1>3, <1>6 DEF Silent
<1>7. WireEnds'
  <2> SUFFICES ASSUME NEW t \in Sessions, NEW i \in 1..(n + 1), wire'[i].session = t,
                      \A j \in 1..(n + 1) : j > i => wire'[j].session # t
               PROVE  wire'[i].grant = granted'[t]
    BY <1>3 DEF WireEnds
  <2>1. CASE i = n + 1
    BY <1>2, <1>3, <1>4, <2>1
  <2>2. CASE i # n + 1
    <3>1. i \in 1..n /\ wire[i].session = t
      BY <1>1, <1>3, <2>2
    <3>2. t # s
      BY SMTT(60), <1>1, <1>2, <1>3, <3>1
    <3>3. \A j \in 1..n : j > i => wire[j].session # t
      BY <1>1, <1>3
    <3>4. wire[i].grant = granted[t]
      BY <3>1, <3>3 DEF GrantInv, WireEnds
    <3> QED
      BY <1>3, <1>4, <3>1, <3>2, <3>4
  <2> QED
    BY <2>1, <2>2
<1> QED
  BY <1>4, <1>5, <1>6, <1>7

(* Serve changes a grant, answers a call, or neither.                       *)
LEMMA GrantServe ==
  ASSUME EngineType, ClockInv, GrantInv, NEW s \in Sessions, NEW g \in States,
         Change(s, g), requests' \in [Requests -> Calls \cup {None}],
         UNCHANGED <<shown, snapshot, phase>>,
         \A r \in Requests : requests'[r] # None =>
           /\ requests[r] # None
           /\ requests'[r].session = requests[r].session
           /\ requests'[r].overtaken = requests[r].overtaken
           /\ requests'[r].answer = requests[r].answer \/ requests[r].session = s
  PROVE  GrantInv'
<1>1. CASE phase = "closed"
  <2>1. /\ wire = <<>> /\ snapshot = None /\ wire' = wire
        /\ shown' = shown /\ snapshot' = snapshot /\ phase' = phase
    BY <1>1 DEF GrantInv, ConnectionInv, Change
  <2>2. ShownType' /\ ConnectionInv'
    BY <2>1 DEF GrantInv, ConnectionInv, ShownType, Unique
  <2>3. WireEnds'
    BY <2>1 DEF WireEnds
  <2>4. SnapshotIsGranted' /\ AnswersAreGranted' /\ EntriesAreGranted'
    BY <1>1, <2>1 DEF SnapshotIsGranted, AnswersAreGranted, EntriesAreGranted
  <2> QED
    BY <2>2, <2>3, <2>4 DEF GrantInv
<1>2. CASE phase # "closed"
  <2>1. /\ WireEnds' /\ ~Silent(s)'
        /\ \A t \in Sessions \ {s} : granted'[t] = granted[t] /\ (Silent(t)' => Silent(t))
    BY <1>2, ChangeAnnounced
  <2>2. shown' = shown /\ snapshot' = snapshot /\ phase' = phase
    OBVIOUS
  <2>3. ShownType' /\ ConnectionInv'
    BY <1>2, <2>2 DEF GrantInv, ConnectionInv, ShownType, Unique
  <2>4. SnapshotIsGranted'
    BY <2>1, <2>2 DEF GrantInv, SnapshotIsGranted
  <2>5. EntriesAreGranted'
    BY <2>1, <2>2 DEF GrantInv, EntriesAreGranted
  <2>6. AnswersAreGranted'
    <3> SUFFICES ASSUME snapshot = None, NEW r \in Requests, NEW t \in Sessions,
                        requests'[r] # None, requests'[r].session = t,
                        requests'[r].answer # None, ~requests'[r].overtaken, Silent(t)'
                 PROVE  requests'[r].answer = granted'[t]
      BY <2>2 DEF AnswersAreGranted
    <3>1. t # s
      BY <2>1
    <3>2. /\ requests[r] # None /\ requests[r].session = t
          /\ requests'[r].answer = requests[r].answer /\ ~requests[r].overtaken
      BY <3>1
    <3>3. Silent(t) /\ granted'[t] = granted[t]
      BY <2>1, <3>1
    <3> QED
      BY <1>2, <3>2, <3>3 DEF GrantInv, AnswersAreGranted
  <2> QED
    BY <2>1, <2>3, <2>4, <2>5, <2>6 DEF GrantInv
<1> QED
  BY <1>1, <1>2

(* Serve, the connection and the projection stand still.                    *)
LEMMA GrantQuiet ==
  ASSUME GrantInv, UNCHANGED <<granted, wire, snapshot, phase>>, UNCHANGED shown,
         \A r \in Requests : requests'[r] # None =>
           \/ requests'[r].answer = None
           \/ requests'[r].answer = granted[requests'[r].session]
           \/ /\ requests[r] # None
              /\ requests'[r].session = requests[r].session
              /\ requests'[r].answer = requests[r].answer
              /\ requests'[r].overtaken = requests[r].overtaken
  PROVE  GrantInv'
<1>1. /\ granted' = granted /\ wire' = wire /\ snapshot' = snapshot /\ phase' = phase
      /\ shown' = shown
  OBVIOUS
<1>2. ShownType' /\ ConnectionInv' /\ WireEnds'
  BY <1>1 DEF GrantInv, ConnectionInv, ShownType, Unique, WireEnds
<1>3. \A t \in Sessions : Silent(t)' <=> Silent(t)
  BY <1>1 DEF Silent
<1>4. SnapshotIsGranted' /\ EntriesAreGranted'
  BY <1>1, <1>3 DEF GrantInv, SnapshotIsGranted, EntriesAreGranted
<1>5. AnswersAreGranted'
  <2> SUFFICES ASSUME phase # "closed", snapshot = None,
                      NEW r \in Requests, NEW t \in Sessions,
                      requests'[r] # None, requests'[r].session = t,
                      requests'[r].answer # None, ~requests'[r].overtaken, Silent(t)
               PROVE  requests'[r].answer = granted[t]
    BY <1>1, <1>3 DEF AnswersAreGranted
  <2> QED
    BY DEF GrantInv, AnswersAreGranted
<1> QED
  BY <1>2, <1>4, <1>5 DEF GrantInv

(* A receipt is projected only if nothing overtook it.                      *)
LEMMA GrantAnswered ==
  ASSUME EngineType, ClockInv, GrantInv, NEW r \in Requests, Answered(r)
  PROVE  GrantInv'
<1> DEFINE call == requests[r]
<1>1. /\ call # None /\ call \in Calls /\ call.answer # None
      /\ shown' = Receipt(call)
      /\ requests' = [requests EXCEPT ![r] = None]
      /\ granted' = granted /\ wire' = wire /\ snapshot' = snapshot /\ phase' = phase
  BY DEF Answered, serve, ClockInv, ClockType
<1>2. PICK s \in Sessions : call.session = s
  BY <1>1 DEF Calls
<1>3. call.answer \in States
  BY <1>1 DEF Calls
<1>4. requests \in [Requests -> Calls \cup {None}]
  BY DEF ClockInv, ClockType
<1>5. \A q \in Requests : requests'[q] # None =>
        requests[q] # None /\ requests'[q] = requests[q]
  BY <1>1, <1>4
<1>6. CASE shown' = shown
  BY <1>1, <1>5, <1>6, GrantQuiet
<1>7. CASE shown' # shown
  <2>1. call.revision = Current(s) /\ shown' = Project(s, call.answer)
    BY <1>1, <1>2, <1>7 DEF Receipt
  <2>2. ~call.overtaken
    BY <1>1, <1>2, <2>1 DEF ClockInv, CapturedBefore
  <2>3. /\ shown' \in Seq(Entries) /\ Len(shown') <= StateLimit /\ Unique(shown')
        /\ \A i \in 1..Len(shown') :
             \/ shown'[i].session = s /\ shown'[i].grant = call.answer
             \/ shown'[i].session # s /\ \E j \in 1..Len(shown) : shown'[i] = shown[j]
    BY <1>3, <2>1, ProjectFact DEF GrantInv
  <2>4. \A t \in Sessions : Silent(t)' <=> Silent(t)
    BY <1>1 DEF Silent
  <2>5. phase = "ready" /\ Silent(s) => call.answer = granted[s]
    BY <1>1, <1>2, <2>2 DEF GrantInv, AnswersAreGranted, ConnectionInv
  <2> HIDE DEF call
  <2>6. EntriesAreGranted'
    BY <1>1, <2>3, <2>4, <2>5 DEF GrantInv, EntriesAreGranted
  <2>7. ShownType' /\ ConnectionInv' /\ WireEnds'
    BY <1>1, <2>3 DEF GrantInv, ConnectionInv, ShownType, Unique, WireEnds
  <2>8. SnapshotIsGranted'
    BY <1>1, <2>4 DEF GrantInv, SnapshotIsGranted
  <2>9. AnswersAreGranted'
    BY <1>1, <1>5, <2>4 DEF GrantInv, AnswersAreGranted
  <2> QED
    BY <2>6, <2>7, <2>8, <2>9 DEF GrantInv
<1> QED
  BY <1>6, <1>7

(* A reset overtakes every call, so no answer is left to be trusted.        *)
LEMMA OvertakenAll ==
  ASSUME ClockInv, AdvanceAll
  PROVE  \A r \in Requests : requests'[r] # None => requests'[r].overtaken
<1>1. ASSUME NEW r \in Requests, requests'[r] # None
      PROVE  requests'[r].overtaken
  <2>1. requests[r] \in Calls \cup {None}
    BY DEF ClockInv, ClockType
  <2>2. requests'[r] = IF requests[r] # None /\ requests[r].session \in Sessions
                       THEN [requests[r] EXCEPT !.overtaken = TRUE] ELSE requests[r]
    BY DEF AdvanceAll, Overtake, InFlight
  <2>3. requests[r] # None /\ requests[r] \in Calls /\ requests[r].session \in Sessions
    BY <1>1, <2>1, <2>2 DEF Calls
  <2>4. requests'[r] = [requests[r] EXCEPT !.overtaken = TRUE]
    BY <2>2, <2>3
  <2> QED
    BY <2>3, <2>4 DEF Calls
<1> QED
  BY <1>1

(* The surfaces are cleared, on a connection that closes, opens or stays.   *)
LEMMA GrantCleared ==
  ASSUME EngineType, ClockInv, GrantInv, ClearSurfaces, granted' = granted,
         snapshot' = None,
         wire' = <<>> \/ (wire' = wire /\ phase' = phase)
  PROVE  GrantInv'
<1>1. shown' = <<>> /\ \A r \in Requests : requests'[r] # None => requests'[r].overtaken
  BY OvertakenAll DEF ClearSurfaces
<1>2. ShownType'
  BY <1>1, StateLimitAssumption DEF ShownType, Unique
<1>3. WireEnds'
  <2>1. CASE wire' = <<>>
    BY <2>1 DEF WireEnds
  <2>2. CASE wire' = wire
    BY <2>2 DEF GrantInv, WireEnds
  <2> QED
    BY <2>1, <2>2
<1>4. SnapshotIsGranted' /\ AnswersAreGranted' /\ EntriesAreGranted'
  BY <1>1 DEF SnapshotIsGranted, AnswersAreGranted, EntriesAreGranted
<1>5. ConnectionInv'
  BY DEF GrantInv, ConnectionInv
<1> QED
  BY <1>2, <1>3, <1>4, <1>5 DEF GrantInv

(* An event is projected; the session's last one brings its grant.          *)
LEMMA GrantEvent ==
  ASSUME EngineType, ClockInv, GrantInv, EventArrives
  PROVE  GrantInv'
<1> DEFINE n == Len(wire)
<1>1. /\ phase # "closed" /\ snapshot = None /\ wire # <<>>
      /\ wire' = Tail(wire) /\ granted' = granted
      /\ phase' = phase /\ snapshot' = snapshot
  BY DEF EventArrives, serve
<1>2. wire \in Seq(Events) /\ n \in Nat \ {0} /\ wire[1] \in Events /\ Head(wire) = wire[1]
  BY <1>1 DEF EngineType
<1>3. Len(wire') = n - 1 /\ \A i \in 1..(n - 1) : wire'[i] = wire[i + 1]
  BY <1>1, <1>2
<1>4. PICK s \in Sessions, g \in States : wire[1].session = s /\ wire[1].grant = g
  BY <1>2 DEF Events
<1>5. shown' = Project(s, g) /\ Overtake({s})
  BY <1>2, <1>4 DEF EventArrives, Advance
<1>6. /\ shown' \in Seq(Entries) /\ Len(shown') <= StateLimit /\ Unique(shown')
      /\ \A i \in 1..Len(shown') :
           \/ shown'[i].session = s /\ shown'[i].grant = g
           \/ shown'[i].session # s /\ \E j \in 1..Len(shown) : shown'[i] = shown[j]
  BY <1>5, ProjectFact DEF GrantInv
<1>7. ASSUME NEW t \in Sessions, Silent(t)'
      PROVE  IF t = s THEN g = granted[s] ELSE Silent(t)
  <2>1. \A i \in 1..n : i > 1 => wire[i].session # t
    <3> SUFFICES ASSUME NEW i \in 1..n, i > 1
                 PROVE  wire[i].session # t
      OBVIOUS
    <3>1. i - 1 \in 1..(n - 1) /\ (i - 1) + 1 = i
      BY <1>2
    <3>2. wire'[i - 1] = wire[i]
      BY <1>3, <3>1
    <3> QED
      BY <1>3, <1>7, <3>1, <3>2 DEF Silent
  <2>2. CASE t = s
    BY <1>2, <1>4, <2>1, <2>2 DEF GrantInv, WireEnds
  <2>3. CASE t # s
    BY <1>2, <1>4, <2>1, <2>3 DEF Silent
  <2> QED
    BY <2>2, <2>3
<1>8. ShownType' /\ ConnectionInv'
  BY <1>1, <1>6 DEF GrantInv, ConnectionInv, ShownType, Unique
<1>9. WireEnds'
  <2> SUFFICES ASSUME NEW t \in Sessions, NEW i \in 1..(n - 1), wire'[i].session = t,
                      \A j \in 1..(n - 1) : j > i => wire'[j].session # t
               PROVE  wire'[i].grant = granted[t]
    BY <1>1, <1>3 DEF WireEnds
  <2>1. i + 1 \in 1..n /\ wire[i + 1] = wire'[i]
    BY <1>2, <1>3
  <2>2. ASSUME NEW j \in 1..n, j > i + 1
        PROVE  wire[j].session # t
    <3>1. j - 1 \in 1..(n - 1) /\ j - 1 > i /\ (j - 1) + 1 = j
      BY <1>2, <2>2
    <3>2. wire'[j - 1] = wire[j]
      BY <1>3, <3>1
    <3> QED
      BY <3>1, <3>2
  <2> QED
    BY <2>1, <2>2 DEF GrantInv, WireEnds
<1>10. SnapshotIsGranted'
  BY <1>1 DEF SnapshotIsGranted
<1>11. EntriesAreGranted'
  <2> SUFFICES ASSUME phase = "ready", NEW t \in Sessions, NEW i \in 1..Len(shown'),
                      Silent(t)', shown'[i].session = t
               PROVE  shown'[i].grant = granted[t]
    BY <1>1 DEF EntriesAreGranted
  <2>1. CASE t = s
    BY <1>6, <1>7, <2>1
  <2>2. CASE t # s
    BY <1>6, <1>7, <2>2 DEF GrantInv, EntriesAreGranted
  <2> QED
    BY <2>1, <2>2
<1>12. AnswersAreGranted'
  <2> SUFFICES ASSUME NEW r \in Requests, NEW t \in Sessions,
                      requests'[r] # None, requests'[r].session = t,
                      requests'[r].answer # None, ~requests'[r].overtaken, Silent(t)'
               PROVE  requests'[r].answer = granted[t]
    BY <1>1 DEF AnswersAreGranted
  <2>1. requests[r] \in Calls \cup {None}
    BY DEF ClockInv, ClockType
  <2>2. requests'[r] = IF requests[r] # None /\ requests[r].session \in {s}
                       THEN [requests[r] EXCEPT !.overtaken = TRUE] ELSE requests[r]
    BY <1>5 DEF Overtake, InFlight
  <2>3. ~(requests[r] # None /\ requests[r].session \in {s})
    BY <2>1, <2>2 DEF Calls
  <2>4. requests'[r] = requests[r] /\ t # s
    BY <2>2, <2>3
  <2> QED
    BY <1>1, <1>7, <2>4 DEF GrantInv, AnswersAreGranted
<1> QED
  BY <1>8, <1>9, <1>10, <1>11, <1>12 DEF GrantInv

(* The snapshot covers the events so far, and is what the surfaces show     *)
(* before the events after it.                                              *)
LEMMA GrantSnapshot ==
  ASSUME EngineType, ClockInv, GrantInv, SnapshotTaken \/ SnapshotApplied
  PROVE  GrantInv'
<1>1. CASE SnapshotTaken
  <2>1. /\ phase = "connecting" /\ phase' = phase /\ snapshot' = granted /\ wire' = <<>>
        /\ granted' = granted /\ shown' = shown
    BY <1>1 DEF SnapshotTaken, serve
  <2>2. ShownType' /\ WireEnds'
    BY <2>1 DEF GrantInv, ShownType, Unique, WireEnds
  <2>3. snapshot' # None
    BY <2>1, NoneAssumption DEF EngineType, States
  <2>4. SnapshotIsGranted' /\ EntriesAreGranted' /\ ConnectionInv'
    BY <2>1 DEF SnapshotIsGranted, EntriesAreGranted, ConnectionInv
  <2>5. AnswersAreGranted'
    BY <2>3 DEF AnswersAreGranted
  <2> QED
    BY <2>2, <2>4, <2>5 DEF GrantInv
<1>2. CASE SnapshotApplied
  <2>1. /\ snapshot # None /\ snapshot \in [Sessions -> States]
        /\ shown' \in Restorable(snapshot) /\ snapshot' = None /\ phase' = "ready"
        /\ granted' = granted /\ wire' = wire /\ AdvanceAll
    BY <1>2 DEF SnapshotApplied, serve, EngineType
  <2>2. \A r \in Requests : requests'[r] # None => requests'[r].overtaken
    BY <2>1, OvertakenAll
  <2>3. /\ shown' \in Seq(Entries) /\ Len(shown') <= StateLimit /\ Unique(shown')
        /\ \A i \in 1..Len(shown') : snapshot[shown'[i].session] = shown'[i].grant
    BY <2>1, RestorableFact
  <2>4. ShownType' /\ ConnectionInv' /\ WireEnds'
    BY <2>1, <2>3 DEF GrantInv, ConnectionInv, ShownType, Unique, WireEnds
  <2>5. SnapshotIsGranted' /\ AnswersAreGranted'
    BY <2>1, <2>2 DEF SnapshotIsGranted, AnswersAreGranted
  <2>6. EntriesAreGranted'
    <3>1. \A s \in Sessions : Silent(s)' <=> Silent(s)
      BY <2>1 DEF Silent
    <3> QED
      BY <2>1, <2>3, <3>1 DEF GrantInv, SnapshotIsGranted, EntriesAreGranted
  <2> QED
    BY <2>4, <2>5, <2>6 DEF GrantInv
<1> QED
  BY <1>1, <1>2

(* Every step keeps what is shown, answered and restored a grant.            *)
LEMMA GrantStep ==
  ASSUME EngineType, ClockInv, GrantInv, [Next]_vars
  PROVE  GrantInv'
<1>1. requests \in [Requests -> Calls \cup {None}]
  BY DEF ClockInv, ClockType
<1>2. CASE \E s \in Sessions, g \in States : GrantChanges(s, g)
  <2>1. PICK s \in Sessions, g \in States : GrantChanges(s, g)
    BY <1>2
  <2>2. Change(s, g) /\ UNCHANGED <<shown, snapshot, phase>> /\ requests' = requests
    BY <2>1 DEF GrantChanges
  <2> QED
    BY <1>1, <2>2, GrantServe
<1>3. CASE \E r \in Requests, s \in Sessions, kind \in Kinds : Submit(r, s, kind)
  <2>1. PICK r \in Requests, s \in Sessions, kind \in Kinds : Submit(r, s, kind)
    BY <1>3
  <2> DEFINE call == [session |-> s, kind |-> kind, client |-> client,
                      revision |-> Current(s), answer |-> None, overtaken |-> FALSE]
  <2>2. /\ requests' = [requests EXCEPT ![r] = call]
        /\ UNCHANGED <<granted, wire, snapshot, phase>> /\ UNCHANGED shown
    BY <2>1 DEF Submit, serve
  <2>3. call.answer = None
    OBVIOUS
  <2> HIDE DEF call
  <2>4. \A q \in Requests : requests'[q].answer = None \/ requests'[q] = requests[q]
    BY <1>1, <2>2, <2>3
  <2> QED
    BY <2>2, <2>4, GrantQuiet
<1>4. ASSUME NEW r \in Requests, ServeCall(r)
      PROVE  GrantInv'
  <2>1. PICK g \in Requested(r) :
          /\ requests' = [requests EXCEPT ![r].answer = g]
          /\ IF g = granted[requests[r].session] THEN UNCHANGED <<serve, wire>>
             ELSE Change(requests[r].session, g)
    BY <1>4 DEF ServeCall
  <2>2. /\ requests[r] # None /\ requests[r] \in Calls
        /\ UNCHANGED <<shown, snapshot, phase>>
    BY <1>1, <1>4 DEF ServeCall
  <2>3. PICK s \in Sessions : requests[r].session = s
    BY <2>2 DEF Calls
  <2>4. g \in States
    BY <2>1, <2>2 DEF Requested, States, Calls, EngineType
  <2>5. /\ requests'[r] = [requests[r] EXCEPT !.answer = g]
        /\ \A q \in Requests : q # r => requests'[q] = requests[q]
    BY <1>1, <2>1
  <2>6. /\ requests'[r] \in Calls /\ requests'[r].session = s /\ requests'[r].answer = g
        /\ requests'[r].overtaken = requests[r].overtaken
    BY <2>2, <2>3, <2>4, <2>5 DEF Calls
  <2>7. CASE g = granted[s]
    <3>1. UNCHANGED <<granted, wire, snapshot, phase>> /\ UNCHANGED shown
      BY <2>1, <2>2, <2>3, <2>7 DEF serve
    <3>2. requests'[r].answer = granted[requests'[r].session]
      BY <2>6, <2>7
    <3> QED
      BY <2>5, <3>1, <3>2, GrantQuiet
  <2>8. CASE g # granted[s]
    <3>1. Change(s, g)
      BY <2>1, <2>3, <2>8
    <3>2. requests' \in [Requests -> Calls \cup {None}]
      BY <1>1, <2>1, <2>5, <2>6
    <3> QED
      BY ZenonT(60), <2>2, <2>3, <2>4, <2>5, <2>6, <3>1, <3>2, GrantServe
  <2> QED
    BY <2>7, <2>8
<1>5. CASE \E r \in Requests : Answered(r)
  BY <1>5, GrantAnswered
<1>6. CASE \E r \in Requests : CallFails(r)
  <2>1. PICK r \in Requests : CallFails(r)
    BY <1>6
  <2>2. /\ requests' = [requests EXCEPT ![r] = None]
        /\ UNCHANGED <<granted, wire, snapshot, phase>> /\ UNCHANGED shown
    BY <2>1 DEF CallFails, serve
  <2>3. \A q \in Requests : requests'[q] # None => requests'[q] = requests[q]
    BY <1>1, <2>2
  <2> QED
    BY <2>2, <2>3, GrantQuiet
<1>7. CASE EventArrives
  BY <1>7, GrantEvent
<1>8. CASE Connect \/ Disconnected
  BY <1>8, GrantCleared DEF Connect, Disconnected, serve
<1>9. CASE SwitchSpace
  BY <1>9, GrantCleared DEF SwitchSpace, serve, GrantInv, ConnectionInv
<1>10. CASE SnapshotTaken \/ SnapshotApplied
  BY <1>10, GrantSnapshot
<1>11. CASE UNCHANGED vars
  BY <1>11, GrantQuiet DEF vars, serve
<1> QED
  BY <1>2, <1>3, <1>4, <1>5, <1>6, <1>7, <1>8, <1>9, <1>10, <1>11 DEF Next

(* What the renderer shows of a session's permission is what the Engine     *)
(* grants, once the events of the session have arrived: receipts that       *)
(* arrive late, evictions, reconnects and transitions only ever hide it.    *)
THEOREM ShownIsAlwaysGranted == Spec => []ShownIsGranted
<1>1. Init => EngineType /\ ClockInv /\ GrantInv
  <2>1. Init => EngineType /\ ClockInv
    BY ClockInit
  <2>2. Init => GrantInv
    BY StateLimitAssumption
       DEF Init, GrantInv, ShownType, Unique, WireEnds, SnapshotIsGranted,
           AnswersAreGranted, EntriesAreGranted, ConnectionInv
  <2> QED
    BY <2>1, <2>2
<1>2. EngineType /\ ClockInv /\ GrantInv /\ [Next]_vars => (EngineType /\ ClockInv /\ GrantInv)'
  BY ClockStep, EngineStep, GrantStep DEF ClockInv
<1>3. GrantInv => ShownIsGranted
  <2> SUFFICES ASSUME GrantInv, phase = "ready", NEW s \in Sessions, Silent(s)
               PROVE  Grant(s) \in {granted[s], NoGrant}
    BY DEF ShownIsGranted
  <2>1. CASE Places(s) = {}
    BY <2>1 DEF Grant
  <2>2. CASE Places(s) # {}
    <3>1. Place(s) \in 1..Len(shown) /\ shown[Place(s)].session = s
      BY <2>2 DEF Place, Places
    <3> QED
      BY <2>2, <3>1 DEF Grant, GrantInv, EntriesAreGranted
  <2> QED
    BY <2>1, <2>2
<1> QED
  BY <1>1, <1>2, <1>3, PTL DEF Spec

-------------------------------------------------------------------------------
(* The clock and the projection with their limits. *)

Distinct(q) == \A i, j \in 1..Len(q) : q[i] = q[j] => i = j

OrderType == Distinct(order) /\ Len(order) <= StateLimit

CountType == client \in 0..MaxConnects /\ emitted \in 0..MaxEvents /\ switches \in 0..MaxSwitches

(* Every session has room in the clock and in the projection.               *)
Roomy == Cardinality(Sessions) <= StateLimit

(* Then the clock still knows the revision of a call nothing overtook.      *)
CapturedStays ==
  \A r \in Requests, s \in Sessions :
    requests[r] # None /\ requests[r].session = s /\ ~requests[r].overtaken =>
      Remembered(s) /\ requests[r].revision = revisionOf[s]

Shows(q, s) == \E i \in 1..Len(q) : q[i].session = s

(* And every live grant has its entry, once its events have arrived.        *)
GrantsAreShown ==
  phase = "ready" =>
    \A s \in Sessions : Silent(s) /\ granted[s] # NoGrant => Shows(shown, s)

(* Sessions that differ are no more than there are.                         *)
LEMMA DistinctFits ==
  ASSUME NEW n \in Nat, NEW f \in [1..n -> Sessions],
         \A i, j \in 1..n : f[i] = f[j] => i = j
  PROVE  n <= Cardinality(Sessions)
<1>1. f \in Injection(1..n, Sessions)
  BY DEF Injection, IsInjective
<1>2. Cardinality(1..n) <= Cardinality(Sessions)
  BY <1>1, SessionsAssumption, FS_Injection
<1>3. Cardinality(1..n) = n
  BY FS_Interval
<1> QED
  BY <1>2, <1>3

(* Bounding a session's revision keeps the order within its limit, and      *)
(* forgets nobody if there is room.                                         *)
LEMMA OrderFact ==
  ASSUME order \in Seq(Sessions), OrderType, NEW s \in Sessions, NEW v, Bound(s, v)
  PROVE  OrderType' /\ (Roomy => \A t \in Sessions : Remembered(t) => Remembered(t)')
<1> DEFINE n == Len(order)
           w == Without(order, s)
           a == Append(w, s)
<1>1. /\ n \in Nat /\ Distinct(order) /\ n <= StateLimit
      /\ order' = Newest(a)
  BY DEF OrderType, Bound
<1>2. /\ w \in Seq(Sessions) /\ Distinct(w) /\ Len(w) <= StateLimit
      /\ \A i \in 1..Len(w) : w[i] # s
      /\ \A t \in Sessions \ {s} : Remembered(t) => \E i \in 1..Len(w) : w[i] = t
  <2>1. CASE \E j \in 1..n : order[j] = s
    <3> DEFINE k == CHOOSE j \in 1..n : order[j] = s
               f(i) == IF i < k THEN i ELSE i + 1
    <3>1. k \in 1..n /\ order[k] = s
      BY <2>1
    <3>2. w = RemoveAt(order, k)
      BY <2>1 DEF Without
    <3> HIDE DEF k, w
    <3>3. /\ w \in Seq(Sessions) /\ Len(w) = n - 1
          /\ \A i \in 1..(n - 1) : w[i] = order[IF i < k THEN i ELSE i + 1]
      BY <3>1, <3>2, RemoveAtFact
    <3>4. \A i \in 1..(n - 1) : f(i) \in 1..n /\ f(i) # k /\ w[i] = order[f(i)]
      BY <1>1, <3>1, <3>3
    <3>5. \A i, j \in 1..(n - 1) : f(i) = f(j) => i = j
      BY <1>1, <3>1
    <3>6. ASSUME NEW t \in Sessions \ {s}, Remembered(t)
          PROVE  \E i \in 1..(n - 1) : w[i] = t
      <4>1. PICK j \in 1..n : order[j] = t
        BY <3>6 DEF Remembered
      <4>2. j # k
        BY <3>1, <4>1
      <4>3. CASE j < k
        <5>1. j \in 1..(n - 1) /\ f(j) = j
          BY <1>1, <3>1, <4>3
        <5> QED
          BY <3>4, <4>1, <5>1
      <4>4. CASE j > k
        <5>1. j - 1 \in 1..(n - 1) /\ f(j - 1) = j
          BY <1>1, <3>1, <4>4
        <5> QED
          BY <3>4, <4>1, <5>1
      <4> QED
        BY <3>1, <4>2, <4>3, <4>4
    <3> HIDE DEF f
    <3>7. Distinct(w)
      BY <1>1, <3>3, <3>4, <3>5 DEF Distinct
    <3>8. \A i \in 1..(n - 1) : w[i] # s
      BY <1>1, <3>1, <3>4 DEF Distinct
    <3> QED
      BY <1>1, <3>3, <3>6, <3>7, <3>8, StateLimitAssumption
  <2>2. CASE ~\E j \in 1..n : order[j] = s
    BY <1>1, <2>2 DEF Without, Remembered
  <2> QED
    BY <2>1, <2>2
<1> HIDE DEF w
<1>3. /\ a \in Seq(Sessions) /\ Len(a) = Len(w) + 1 /\ a[Len(w) + 1] = s /\ Len(w) \in Nat
      /\ \A i \in 1..Len(w) : a[i] = w[i]
  BY <1>2
<1> HIDE DEF a
<1>4. Distinct(a)
  <2> SUFFICES ASSUME NEW i \in 1..Len(a), NEW j \in 1..Len(a), a[i] = a[j]
               PROVE  i = j
    BY DEF Distinct
  <2>1. i \in 1..Len(w) \/ i = Len(w) + 1
    BY <1>3
  <2>2. j \in 1..Len(w) \/ j = Len(w) + 1
    BY <1>3
  <2>3. /\ \A k, l \in 1..Len(w) : w[k] = w[l] => k = l
        /\ \A k \in 1..Len(w) : w[k] # s
    BY <1>2 DEF Distinct
  <2>4. \A k \in 1..Len(w) : a[k] = w[k]
    BY <1>3
  <2>5. CASE i \in 1..Len(w) /\ j \in 1..Len(w)
    BY <2>5, <2>3, <2>4
  <2>6. CASE i \in 1..Len(w) /\ j = Len(w) + 1
    BY <1>3, <2>6, <2>3, <2>4
  <2>7. CASE i = Len(w) + 1 /\ j \in 1..Len(w)
    BY <1>3, <2>7, <2>3, <2>4
  <2> QED
    BY <2>1, <2>2, <2>5, <2>6, <2>7
<1>5. CASE Len(a) > StateLimit
  <2>1. order' = Tail(a)
    BY <1>1, <1>5 DEF Newest
  <2>2. Len(order') = Len(w) /\ \A i \in 1..Len(w) : order'[i] = a[i + 1]
    BY <1>3, <2>1
  <2>3. \A i \in 1..Len(w) : i + 1 \in 1..Len(a)
    BY <1>3
  <2>4. Distinct(order')
    <3> SUFFICES ASSUME NEW i \in 1..Len(w), NEW j \in 1..Len(w), order'[i] = order'[j]
                 PROVE  i = j
      BY <2>2 DEF Distinct
    <3>1. a[i + 1] = a[j + 1]
      BY <2>2
    <3>2. i + 1 = j + 1
      BY <1>4, <2>3, <3>1 DEF Distinct
    <3> QED
      BY <3>2
  <2>5. ~Roomy
    <3>1. Len(a) \in Nat /\ a \in [1..Len(a) -> Sessions]
      BY <1>3
    <3>2. Len(a) <= Cardinality(Sessions)
      BY <1>4, <3>1, DistinctFits DEF Distinct
    <3>3. Cardinality(Sessions) \in Nat
      BY SessionsAssumption, FS_CardinalityType
    <3> QED
      BY <1>5, <3>1, <3>2, <3>3, StateLimitAssumption DEF Roomy
  <2> QED
    BY <1>2, <2>2, <2>4, <2>5 DEF OrderType, Distinct
<1>6. CASE ~(Len(a) > StateLimit)
  <2>1. order' = a
    BY <1>1, <1>6 DEF Newest
  <2>2. OrderType'
    BY <1>3, <1>4, <1>6, <2>1, StateLimitAssumption DEF OrderType, Distinct
  <2>3. ASSUME NEW t \in Sessions, Remembered(t)
        PROVE  \E i \in 1..Len(a) : a[i] = t
    <3>1. CASE t = s
      BY <1>3, <3>1
    <3>2. CASE t # s
      <4>1. PICK i \in 1..Len(w) : w[i] = t
        BY <1>2, <2>3, <3>2
      <4> QED
        BY <1>3, <4>1
    <3> QED
      BY <3>1, <3>2
  <2> QED
    BY <2>1, <2>2, <2>3 DEF Remembered
<1> QED
  BY <1>5, <1>6

(* Only capture, advance and a reset touch the clock's order; only Serve,   *)
(* connect and a transition count.                                          *)
LEMMA LimitsStep ==
  ASSUME EngineType, ClockInv, OrderType, CountType, [Next]_vars
  PROVE  OrderType' /\ CountType'
<1>1. order \in Seq(Sessions) /\ client \in Nat /\ emitted \in Nat /\ switches \in Nat
  BY DEF ClockInv, ClockType, EngineType
<1>2. /\ MaxEvents \in Nat /\ MaxConnects \in Nat /\ MaxSwitches \in Nat
  BY BoundsAssumption
<1>3. ASSUME order' = <<>>
      PROVE  OrderType'
  BY <1>3, StateLimitAssumption DEF OrderType, Distinct
<1>4. ASSUME UNCHANGED order
      PROVE  OrderType'
  BY <1>4 DEF OrderType, Distinct
<1>5. ASSUME UNCHANGED client, UNCHANGED emitted, UNCHANGED switches
      PROVE  CountType'
  BY <1>5 DEF CountType
<1>6. ASSUME NEW s, NEW g, Change(s, g), UNCHANGED <<client, switches>>
      PROVE  CountType'
  BY <1>1, <1>2, <1>6 DEF Change, CountType
<1>7. CASE \E s \in Sessions, g \in States : GrantChanges(s, g)
  BY <1>4, <1>6, <1>7 DEF GrantChanges, clock
<1>8. CASE \E r \in Requests, s \in Sessions, kind \in Kinds : Submit(r, s, kind)
  <2>1. PICK r \in Requests, s \in Sessions, kind \in Kinds : Submit(r, s, kind)
    BY <1>8
  <2>2. Bound(s, Current(s)) /\ UNCHANGED <<client, emitted, switches>>
    BY <2>1 DEF Submit, serve
  <2> QED
    BY <1>1, <1>5, <2>2, OrderFact
<1>9. CASE \E r \in Requests : ServeCall(r)
  <2>1. PICK r \in Requests : ServeCall(r)
    BY <1>9
  <2>2. UNCHANGED order /\ UNCHANGED <<client, switches>>
    BY <2>1 DEF ServeCall, clock
  <2>3. emitted' = emitted \/ \E s, g : Change(s, g)
    BY <2>1 DEF ServeCall, serve
  <2> QED
    BY <1>4, <1>5, <1>6, <2>2, <2>3
<1>10. CASE \E r \in Requests : Answered(r) \/ CallFails(r)
  BY <1>4, <1>5, <1>10 DEF Answered, CallFails, clock, serve
<1>11. CASE EventArrives
  <2>1. Head(wire) \in Events
    BY <1>11 DEF EventArrives, EngineType
  <2>2. /\ Bound(Head(wire).session, serial + 1)
        /\ UNCHANGED <<client, emitted, switches>>
    BY <1>11 DEF EventArrives, Advance, serve
  <2>3. Head(wire).session \in Sessions
    BY <2>1 DEF Events
  <2> QED
    BY <1>1, <1>5, <2>2, <2>3, OrderFact
<1>12. CASE Connect
  <2>1. /\ order' = <<>> /\ client < MaxConnects /\ client' = client + 1
        /\ UNCHANGED <<emitted, switches>>
    BY <1>12 DEF Connect, ClearSurfaces, AdvanceAll, serve
  <2> QED
    BY <1>1, <1>2, <1>3, <2>1 DEF CountType
<1>13. CASE Disconnected \/ SnapshotApplied
  <2>1. order' = <<>> /\ UNCHANGED <<client, emitted, switches>>
    BY <1>13 DEF Disconnected, SnapshotApplied, ClearSurfaces, AdvanceAll, serve
  <2> QED
    BY <1>3, <1>5, <2>1
<1>14. CASE SnapshotTaken
  BY <1>4, <1>5, <1>14 DEF SnapshotTaken, clock, serve
<1>15. CASE SwitchSpace
  <2>1. /\ order' = <<>> /\ switches < MaxSwitches /\ switches' = switches + 1
        /\ UNCHANGED <<client, emitted>>
    BY <1>15 DEF SwitchSpace, ClearSurfaces, AdvanceAll, serve
  <2> QED
    BY <1>1, <1>2, <1>3, <2>1 DEF CountType
<1>16. CASE UNCHANGED vars
  BY <1>4, <1>5, <1>16 DEF vars, clock, serve
<1> QED
  BY <1>7, <1>8, <1>9, <1>10, <1>11, <1>12, <1>13, <1>14, <1>15, <1>16 DEF Next

(* What holds in every state, whatever the limit. *)
BaseInv == EngineType /\ ClockInv /\ GrantInv /\ OrderType /\ CountType

LEMMA BaseInit ==
  ASSUME Init
  PROVE  BaseInv
<1>1. EngineType /\ ClockInv
  BY ClockInit
<1>2. GrantInv
  BY StateLimitAssumption
     DEF Init, GrantInv, ShownType, Unique, WireEnds, SnapshotIsGranted,
         AnswersAreGranted, EntriesAreGranted, ConnectionInv
<1>3. OrderType /\ CountType
  BY StateLimitAssumption, BoundsAssumption DEF Init, OrderType, Distinct, CountType
<1> QED
  BY <1>1, <1>2, <1>3 DEF BaseInv

LEMMA BaseStep ==
  ASSUME BaseInv, [Next]_vars
  PROVE  BaseInv'
  BY ClockStep, EngineStep, GrantStep, LimitsStep DEF BaseInv, ClockInv

(* The clock and the projection keep to TASK_APPROVAL_STATE_LIMIT sessions, *)
(* each once, and every variable has its type.                              *)
THEOREM TypeCorrect == Spec => []TypeOK
<1>1. Init => BaseInv
  BY BaseInit
<1>2. BaseInv /\ [Next]_vars => BaseInv'
  BY BaseStep
<1>3. BaseInv => TypeOK
  <2> SUFFICES ASSUME BaseInv
               PROVE  TypeOK
    OBVIOUS
  <2>1. /\ serial \in Nat /\ order \in Seq(Sessions)
        /\ revisionOf \in [Sessions -> Nat]
        /\ requests \in [Requests -> Calls \cup {None}]
    BY DEF BaseInv, ClockInv, ClockType
  <2>2. IsInjective(order) /\ Len(order) <= StateLimit
    <3>1. DOMAIN order = 1..Len(order)
      BY <2>1
    <3> QED
      BY <3>1 DEF BaseInv, OrderType, Distinct, IsInjective
  <2>3. /\ shown \in Seq(Entries) /\ Len(shown) <= StateLimit
        /\ \A i, j \in 1..Len(shown) : shown[i].session = shown[j].session => i = j
    BY DEF BaseInv, GrantInv, ShownType, Unique
  <2>4. /\ granted \in [Sessions -> States] /\ wire \in Seq(Events)
        /\ snapshot \in [Sessions -> States] \cup {None}
        /\ phase \in {"closed", "connecting", "ready"}
    BY DEF BaseInv, EngineType
  <2> QED
    BY <2>1, <2>2, <2>3, <2>4 DEF BaseInv, CountType, TypeOK
<1> QED
  BY <1>1, <1>2, <1>3, PTL DEF Spec

-------------------------------------------------------------------------------
(* With room for every session nothing that is valid gets lost. *)

(* No step takes the clock's knowledge of a valid call.                     *)
LEMMA CapturedStep ==
  ASSUME Roomy, BaseInv, CapturedStays, [Next]_vars
  PROVE  CapturedStays'
<1>1. /\ requests \in [Requests -> Calls \cup {None}] /\ order \in Seq(Sessions)
      /\ revisionOf \in [Sessions -> Nat] /\ serial \in Nat
      /\ OrderType /\ ClockInv
  BY DEF BaseInv, ClockInv, ClockType
<1>2. ASSUME UNCHANGED clock,
             \A r \in Requests : requests'[r] # None =>
               /\ requests[r] # None
               /\ requests'[r].session = requests[r].session
               /\ requests'[r].revision = requests[r].revision
               /\ requests'[r].overtaken = requests[r].overtaken
      PROVE  CapturedStays'
  <2>1. order' = order /\ revisionOf' = revisionOf
    BY <1>2 DEF clock
  <2> QED
    BY <1>2, <2>1 DEF CapturedStays, Remembered
<1>3. ASSUME AdvanceAll
      PROVE  CapturedStays'
  BY <1>1, <1>3, OvertakenAll DEF CapturedStays
<1>4. ASSUME NEW r \in Requests, UNCHANGED clock, requests' = [requests EXCEPT ![r] = None]
      PROVE  CapturedStays'
  <2>1. \A q \in Requests : requests'[q] # None =>
          requests[q] # None /\ requests'[q] = requests[q]
    BY <1>1, <1>4
  <2> QED
    BY <1>2, <1>4, <2>1
<1>5. CASE \E s \in Sessions, g \in States : GrantChanges(s, g)
  BY <1>2, <1>5 DEF GrantChanges
<1>6. CASE \E r \in Requests, s \in Sessions, kind \in Kinds : Submit(r, s, kind)
  <2>1. PICK r \in Requests, s \in Sessions, kind \in Kinds : Submit(r, s, kind)
    BY <1>6
  <2> DEFINE call == [session |-> s, kind |-> kind, client |-> client,
                      revision |-> Current(s), answer |-> None, overtaken |-> FALSE]
  <2>2. Bound(s, Current(s)) /\ requests' = [requests EXCEPT ![r] = call]
    BY <2>1 DEF Submit
  <2>3. Current(s) \in Nat
    BY <1>1 DEF Current
  <2>4. /\ Remembered(s)' /\ revisionOf'[s] = Current(s)
        /\ \A t \in Sessions \ {s} : revisionOf'[t] = revisionOf[t]
        /\ \A t \in Sessions : Remembered(t) => Remembered(t)'
    BY <1>1, <2>2, <2>3, BoundFact, OrderFact
  <2>5. call.session = s /\ call.revision = Current(s)
    OBVIOUS
  <2> HIDE DEF call
  <2>6. /\ requests'[r] = call
        /\ \A q \in Requests : q # r => requests'[q] = requests[q]
    BY <1>1, <2>2
  <2> SUFFICES ASSUME NEW q \in Requests, NEW t \in Sessions, requests'[q] # None,
                      requests'[q].session = t, ~requests'[q].overtaken
               PROVE  Remembered(t)' /\ requests'[q].revision = revisionOf'[t]
    BY DEF CapturedStays
  <2>7. CASE q = r
    BY <2>4, <2>5, <2>6, <2>7
  <2>8. CASE q # r
    <3>1. Remembered(t) /\ requests'[q].revision = revisionOf[t]
      BY <2>6, <2>8 DEF CapturedStays
    <3>2. revisionOf'[t] = revisionOf[t]
      BY <2>4, <3>1 DEF Current
    <3> QED
      BY <2>4, <3>1, <3>2
  <2> QED
    BY <2>7, <2>8
<1>7. CASE \E r \in Requests : ServeCall(r)
  <2>1. PICK r \in Requests : ServeCall(r)
    BY <1>7
  <2>2. PICK g \in Requested(r) : requests' = [requests EXCEPT ![r].answer = g]
    BY <2>1 DEF ServeCall
  <2>3. requests[r] # None /\ requests[r] \in Calls /\ UNCHANGED clock
    BY <1>1, <2>1 DEF ServeCall
  <2>4. \A q \in Requests : requests'[q] # None =>
          /\ requests[q] # None
          /\ requests'[q].session = requests[q].session
          /\ requests'[q].revision = requests[q].revision
          /\ requests'[q].overtaken = requests[q].overtaken
    BY <1>1, <2>2, <2>3 DEF Calls
  <2> QED
    BY <1>2, <2>3, <2>4
<1>8. CASE \E r \in Requests : Answered(r) \/ CallFails(r)
  BY <1>4, <1>8 DEF Answered, CallFails
<1>9. CASE EventArrives
  <2>1. Head(wire) \in Events /\ Advance(Head(wire).session)
    BY <1>9 DEF EventArrives, BaseInv, EngineType
  <2> DEFINE s == Head(wire).session
  <2>2. s \in Sessions
    BY <2>1 DEF Events
  <2>3. Bound(s, serial + 1) /\ Overtake({s}) /\ serial + 1 \in Nat
    BY <1>1, <2>1 DEF Advance
  <2> HIDE DEF s
  <2>4. /\ \A t \in Sessions \ {s} : revisionOf'[t] = revisionOf[t]
        /\ \A t \in Sessions : Remembered(t) => Remembered(t)'
    BY <1>1, <2>2, <2>3, BoundFact, OrderFact
  <2> SUFFICES ASSUME NEW q \in Requests, NEW t \in Sessions, requests'[q] # None,
                      requests'[q].session = t, ~requests'[q].overtaken
               PROVE  Remembered(t)' /\ requests'[q].revision = revisionOf'[t]
    BY DEF CapturedStays
  <2>5. requests[q] \in Calls \cup {None}
    BY <1>1
  <2>6. requests'[q] = IF requests[q] # None /\ requests[q].session \in {s}
                       THEN [requests[q] EXCEPT !.overtaken = TRUE] ELSE requests[q]
    BY <2>3 DEF Overtake, InFlight
  <2>7. ~(requests[q] # None /\ requests[q].session \in {s})
    BY <2>5, <2>6 DEF Calls
  <2>8. requests'[q] = requests[q] /\ t # s
    BY <2>6, <2>7
  <2> QED
    BY <2>4, <2>8 DEF CapturedStays
<1>10. CASE Connect \/ Disconnected \/ SnapshotApplied \/ SwitchSpace
  BY <1>3, <1>10 DEF Connect, Disconnected, SnapshotApplied, SwitchSpace, ClearSurfaces
<1>11. CASE SnapshotTaken
  BY <1>2, <1>11 DEF SnapshotTaken
<1>12. CASE UNCHANGED vars
  BY <1>2, <1>12 DEF vars
<1> QED
  BY <1>5, <1>6, <1>7, <1>8, <1>9, <1>10, <1>11, <1>12 DEF Next

(* projectTaskApprovalState evicts nobody, and shows the grant it is given. *)
LEMMA ProjectKeeps ==
  ASSUME Roomy, ShownType, NEW s \in Sessions, NEW g \in States, NEW q, q = Project(s, g)
  PROVE  /\ g # NoGrant => Shows(q, s)
         /\ \A t \in Sessions \ {s} : Shows(shown, t) => Shows(q, t)
<1> DEFINE n == Len(shown)
           e == Entry(s, g)
           k == Place(s)
<1>1. shown \in Seq(Entries) /\ n \in Nat /\ Unique(shown)
  BY DEF ShownType
<1>2. e.session = s /\ (g # NoGrant => e \in Entries)
  BY DEF Entry, Entries, States
<1>3. CASE Places(s) = {} /\ g = NoGrant
  <2>1. q = shown
    BY <1>3 DEF Project
  <2> QED
    BY <1>3, <2>1
<1>4. CASE Places(s) = {} /\ g # NoGrant
  <2> DEFINE a == Append(shown, e)
  <2>1. q = Newest(a)
    BY <1>4 DEF Project
  <2>2. \A i \in 1..n : shown[i].session # s
    BY <1>4 DEF Places
  <2> HIDE DEF e
  <2>3. /\ a \in Seq(Entries) /\ Len(a) = n + 1 /\ a[n + 1] = e
        /\ \A i \in 1..n : a[i] = shown[i]
    BY <1>1, <1>2, <1>4
  <2> HIDE DEF a
  <2> DEFINE f == [i \in 1..(n + 1) |-> a[i].session]
  <2>4. \A i \in 1..(n + 1) : a[i] \in Entries
    BY <1>1, <2>3
  <2>5. f \in [1..(n + 1) -> Sessions]
    BY <2>4 DEF Entries
  <2>6. \A i \in 1..n : f[i] = shown[i].session
    BY <1>1, <2>3
  <2>7. f[n + 1] = s
    BY <1>1, <1>2, <2>3
  <2> HIDE DEF f, n
  <2>8. \A i, j \in 1..(n + 1) : f[i] = f[j] => i = j
    <3> SUFFICES ASSUME NEW i \in 1..(n + 1), NEW j \in 1..(n + 1), f[i] = f[j]
                 PROVE  i = j
      OBVIOUS
    <3>1. CASE i \in 1..n /\ j \in 1..n
      BY <1>1, <2>6, <3>1 DEF Unique, n
    <3>2. CASE i = n + 1 /\ j \in 1..n
      BY <2>2, <2>6, <2>7, <3>2
    <3>3. CASE i \in 1..n /\ j = n + 1
      BY <2>2, <2>6, <2>7, <3>3
    <3> QED
      BY <1>1, <3>1, <3>2, <3>3
  <2>9. n + 1 <= Cardinality(Sessions)
    BY <1>1, <2>5, <2>8, DistinctFits
  <2>10. q = a
    <3>1. Cardinality(Sessions) \in Nat
      BY SessionsAssumption, FS_CardinalityType
    <3> QED
      BY <1>1, <2>1, <2>3, <2>9, <3>1, StateLimitAssumption DEF Newest, Roomy
  <2>11. Shows(q, s)
    BY <1>1, <1>2, <2>3, <2>10 DEF Shows
  <2>12. ASSUME NEW t \in Sessions \ {s}, Shows(shown, t)
         PROVE  Shows(q, t)
    BY <1>1, <2>3, <2>10, <2>12 DEF Shows, n
  <2> QED
    BY <2>11, <2>12
<1>5. ASSUME Places(s) # {}
      PROVE  /\ k \in 1..n /\ shown[k].session = s
             /\ \A i \in 1..n : shown[i].session # s => i # k
  BY <1>5 DEF Place, Places
<1>6. CASE Places(s) # {} /\ g = NoGrant
  <2>1. q = RemoveAt(shown, k)
    BY <1>6 DEF Project
  <2>2. k \in 1..n /\ shown[k].session = s
    BY <1>5, <1>6
  <2> HIDE DEF k
  <2>3. /\ Len(q) = n - 1
        /\ \A i \in 1..(n - 1) : q[i] = shown[IF i < k THEN i ELSE i + 1]
    BY <1>1, <2>1, <2>2, RemoveAtFact
  <2>4. ASSUME NEW t \in Sessions \ {s}, Shows(shown, t)
        PROVE  Shows(q, t)
    <3>1. PICK j \in 1..n : shown[j].session = t
      BY <2>4 DEF Shows
    <3>2. j # k
      BY <2>2, <3>1
    <3>3. CASE j < k
      <4>1. j \in 1..(n - 1) /\ q[j] = shown[j]
        BY <1>1, <2>2, <2>3, <3>3
      <4> QED
        BY <2>3, <3>1, <4>1 DEF Shows
    <3>4. CASE j > k
      <4>1. j - 1 \in 1..(n - 1) /\ ~(j - 1 < k) /\ (j - 1) + 1 = j
        BY <1>1, <2>2, <3>4
      <4>2. q[j - 1] = shown[j]
        BY <2>3, <4>1
      <4> QED
        BY <2>3, <3>1, <4>1, <4>2 DEF Shows
    <3> QED
      BY <1>1, <2>2, <3>2, <3>3, <3>4
  <2> QED
    BY <1>6, <2>4
<1>7. CASE Places(s) # {} /\ g # NoGrant
  <2>1. q = [shown EXCEPT ![k] = e]
    BY <1>7 DEF Project
  <2>2. k \in 1..n /\ shown[k].session = s
    BY <1>5, <1>7
  <2> HIDE DEF k, e
  <2>3. Len(q) = n /\ q[k] = e /\ \A i \in 1..n : i # k => q[i] = shown[i]
    BY <1>1, <1>2, <1>7, <2>1, <2>2
  <2>4. Shows(q, s)
    BY <1>2, <2>2, <2>3 DEF Shows
  <2>5. ASSUME NEW t \in Sessions \ {s}, Shows(shown, t)
        PROVE  Shows(q, t)
    <3>1. PICK j \in 1..n : shown[j].session = t
      BY <2>5 DEF Shows
    <3>2. j # k
      BY <2>2, <3>1
    <3> QED
      BY <2>3, <3>1, <3>2 DEF Shows
  <2> QED
    BY <2>4, <2>5
<1> QED
  BY <1>3, <1>4, <1>6, <1>7

(* restoreTaskApprovalStates shows every grant of the snapshot.             *)
LEMMA RestorableKeeps ==
  ASSUME Roomy, NEW grants \in [Sessions -> States], NEW q \in Restorable(grants),
         NEW s \in Sessions, grants[s] # NoGrant
  PROVE  Shows(q, s)
<1> DEFINE kept == {e \in Entries : grants[e.session] = e.grant}
           N == Cardinality(kept)
<1>1. /\ IsFiniteSet(kept) /\ N <= Cardinality(Sessions)
      /\ N \in Nat /\ Cardinality(Sessions) \in Nat
  <2> DEFINE f == [e \in kept |-> e.session]
  <2>1. f \in [kept -> Sessions]
    BY DEF Entries
  <2>2. ASSUME NEW d \in kept, NEW e \in kept, f[d] = f[e]
        PROVE  d = e
    BY <2>2 DEF Entries
  <2> HIDE DEF kept
  <2>3. f \in Injection(kept, Sessions)
    <3> HIDE DEF f
    <3> QED
      BY <2>1, <2>2 DEF Injection, IsInjective
  <2>4. IsFiniteSet(kept) /\ N <= Cardinality(Sessions)
    BY <2>3, SessionsAssumption, FS_Injection
  <2> QED
    BY <2>4, SessionsAssumption, FS_CardinalityType
<1>2. Cap(kept) = N
  BY <1>1, StateLimitAssumption DEF Cap, Roomy
<1>3. PICK p \in SetToSeqs(kept) : q = SubSeq(p, 1 + N - Cap(kept), N)
  BY DEF Restorable
<1>4. Entry(s, grants[s]) \in kept /\ Entry(s, grants[s]).session = s
  BY DEF Entry, Entries, States
<1> HIDE DEF kept
<1>5. /\ p \in [1..N -> kept]
      /\ \A i, j \in 1..N : i # j => p[i] # p[j]
  BY DEF SetToSeqs
<1> HIDE DEF N
<1>6. p \in Seq(kept) /\ Len(p) = N
  BY <1>1, <1>5
<1>7. Len(q) = N /\ \A i \in 1..N : q[i] = p[i]
  <2>1. 1 + N - Cap(kept) = 1
    BY <1>1, <1>2
  <2> QED
    BY <1>1, <1>3, <1>6, <2>1
<1>8. \E i \in 1..N : p[i] = Entry(s, grants[s])
  <2>1. p \in Injection(1..N, kept)
    BY <1>5 DEF Injection, IsInjective
  <2>2. Cardinality(1..N) = Cardinality(kept)
    BY <1>1, FS_Interval DEF N
  <2>3. p \in Surjection(1..N, kept)
    BY <1>1, <2>1, <2>2, FS_Injection
  <2> QED
    BY <1>4, <2>3 DEF Surjection
<1> QED
  BY <1>4, <1>7, <1>8 DEF Shows

(* A grant, once its events have arrived, has its entry after every step.   *)
LEMMA ShownStep ==
  ASSUME Roomy, MaxSwitches = 0, BaseInv, GrantsAreShown, [Next]_vars
  PROVE  GrantsAreShown'
<1>1. EngineType /\ ClockInv /\ GrantInv /\ ShownType
  BY DEF BaseInv, GrantInv
<1>2. ASSUME UNCHANGED <<granted, wire, phase>>, UNCHANGED shown
      PROVE  GrantsAreShown'
  BY <1>2 DEF GrantsAreShown, Silent, Shows
<1>3. ASSUME phase' # "ready"
      PROVE  GrantsAreShown'
  BY <1>3 DEF GrantsAreShown
<1>4. ASSUME NEW s \in Sessions, NEW g \in States, Change(s, g), UNCHANGED <<shown, phase>>
      PROVE  GrantsAreShown'
  <2> SUFFICES ASSUME phase = "ready", NEW t \in Sessions, Silent(t)',
                      granted'[t] # NoGrant
               PROVE  Shows(shown, t)
    BY <1>4 DEF GrantsAreShown
  <2>1. /\ ~Silent(s)'
        /\ \A u \in Sessions \ {s} : granted'[u] = granted[u] /\ (Silent(u)' => Silent(u))
    BY <1>1, <1>4, ChangeAnnounced
  <2> QED
    BY <2>1 DEF GrantsAreShown
<1>5. CASE \E s \in Sessions, g \in States : GrantChanges(s, g)
  BY <1>4, <1>5 DEF GrantChanges
<1>6. CASE \E r \in Requests, s \in Sessions, kind \in Kinds : Submit(r, s, kind)
  BY <1>2, <1>6 DEF Submit, serve
<1>7. CASE \E r \in Requests : ServeCall(r)
  <2>1. PICK r \in Requests : ServeCall(r)
    BY <1>7
  <2>2. /\ requests[r] \in Calls /\ UNCHANGED <<shown, phase>>
    BY <1>1, <2>1 DEF ServeCall, ClockInv, ClockType
  <2>3. PICK g \in Requested(r) :
          IF g = granted[requests[r].session] THEN UNCHANGED <<serve, wire>>
          ELSE Change(requests[r].session, g)
    BY <2>1 DEF ServeCall
  <2>4. requests[r].session \in Sessions /\ g \in States
    BY <1>1, <2>2, <2>3 DEF Requested, States, Calls, EngineType
  <2>5. CASE UNCHANGED <<serve, wire>>
    BY <1>2, <2>2, <2>5 DEF serve
  <2>6. CASE Change(requests[r].session, g)
    BY <1>4, <2>2, <2>4, <2>6
  <2> QED
    BY <2>3, <2>5, <2>6
<1>8. CASE \E r \in Requests : Answered(r)
  <2>1. PICK r \in Requests : Answered(r)
    BY <1>8
  <2> DEFINE call == requests[r]
  <2>2. /\ call # None /\ call \in Calls /\ call.answer # None
        /\ shown' = Receipt(call)
        /\ granted' = granted /\ wire' = wire /\ snapshot' = snapshot /\ phase' = phase
    BY <1>1, <2>1 DEF Answered, serve, ClockInv, ClockType
  <2>3. PICK s \in Sessions : call.session = s
    BY <2>2 DEF Calls
  <2>4. call.answer \in States
    BY <2>2 DEF Calls
  <2>5. CASE shown' = shown
    BY <1>2, <2>2, <2>5
  <2>6. CASE shown' # shown
    <3>1. call.revision = Current(s) /\ shown' = Project(s, call.answer)
      BY <2>2, <2>3, <2>6 DEF Receipt
    <3>2. ~call.overtaken
      BY <1>1, <2>2, <2>3, <3>1 DEF ClockInv, CapturedBefore
    <3>3. phase = "ready" /\ Silent(s) => call.answer = granted[s]
      BY <1>1, <2>2, <2>3, <3>2 DEF GrantInv, AnswersAreGranted, ConnectionInv
    <3>4. /\ call.answer # NoGrant => Shows(shown', s)
          /\ \A t \in Sessions \ {s} : Shows(shown, t) => Shows(shown', t)
      BY <1>1, <2>4, <3>1, ProjectKeeps
    <3> HIDE DEF call
    <3> SUFFICES ASSUME phase = "ready", NEW t \in Sessions, Silent(t), granted[t] # NoGrant
                 PROVE  Shows(shown', t)
      BY <2>2 DEF GrantsAreShown, Silent
    <3> QED
      BY <3>3, <3>4 DEF GrantsAreShown
  <2> QED
    BY <2>5, <2>6
<1>9. CASE \E r \in Requests : CallFails(r)
  BY <1>2, <1>9 DEF CallFails, serve
<1>10. CASE EventArrives
  <2> DEFINE n == Len(wire)
  <2>1. /\ phase # "closed" /\ wire # <<>>
        /\ wire' = Tail(wire) /\ granted' = granted /\ phase' = phase
    BY <1>10 DEF EventArrives, serve
  <2>2. wire \in Seq(Events) /\ n \in Nat \ {0} /\ wire[1] \in Events /\ Head(wire) = wire[1]
    BY <1>1, <2>1 DEF EngineType
  <2>3. Len(wire') = n - 1 /\ \A i \in 1..(n - 1) : wire'[i] = wire[i + 1]
    BY <2>1, <2>2
  <2>4. PICK s \in Sessions, g \in States : wire[1].session = s /\ wire[1].grant = g
    BY <2>2 DEF Events
  <2>5. shown' = Project(s, g)
    BY <1>10, <2>2, <2>4 DEF EventArrives
  <2>6. /\ g # NoGrant => Shows(shown', s)
        /\ \A t \in Sessions \ {s} : Shows(shown, t) => Shows(shown', t)
    BY <1>1, <2>5, ProjectKeeps
  <2> SUFFICES ASSUME phase = "ready", NEW t \in Sessions, Silent(t)', granted[t] # NoGrant
               PROVE  Shows(shown', t)
    BY <2>1 DEF GrantsAreShown
  <2>7. ASSUME NEW i \in 1..n, i > 1
        PROVE  wire[i].session # t
    <3>1. i - 1 \in 1..(n - 1) /\ (i - 1) + 1 = i
      BY <2>2, <2>7
    <3>2. wire'[i - 1] = wire[i]
      BY <2>3, <3>1
    <3> QED
      BY <2>3, <3>1, <3>2 DEF Silent
  <2>8. CASE t = s
    <3>1. g = granted[s]
      BY <1>1, <2>2, <2>4, <2>7, <2>8 DEF GrantInv, WireEnds
    <3> QED
      BY <2>6, <2>8, <3>1
  <2>9. CASE t # s
    <3>1. Silent(t)
      BY <2>2, <2>4, <2>7, <2>9 DEF Silent
    <3> QED
      BY <2>6, <2>9, <3>1 DEF GrantsAreShown
  <2> QED
    BY <2>8, <2>9
<1>11. CASE Connect \/ Disconnected
  BY <1>3, <1>11 DEF Connect, Disconnected
<1>12. CASE SnapshotTaken
  BY <1>3, <1>12 DEF SnapshotTaken
<1>13. CASE SnapshotApplied
  <2>1. /\ snapshot # None /\ snapshot \in [Sessions -> States]
        /\ shown' \in Restorable(snapshot)
        /\ granted' = granted /\ wire' = wire
    BY <1>1, <1>13 DEF SnapshotApplied, serve, EngineType
  <2> SUFFICES ASSUME NEW t \in Sessions, Silent(t), granted[t] # NoGrant
               PROVE  Shows(shown', t)
    BY <2>1 DEF GrantsAreShown, Silent
  <2>2. snapshot[t] = granted[t]
    BY <1>1, <2>1 DEF GrantInv, SnapshotIsGranted
  <2> QED
    BY <2>1, <2>2, RestorableKeeps
<1>14. CASE SwitchSpace
  BY <1>1, <1>14 DEF SwitchSpace, EngineType
<1>15. CASE UNCHANGED vars
  BY <1>2, <1>15 DEF vars, serve
<1> QED
  BY <1>5, <1>6, <1>7, <1>8, <1>9, <1>10, <1>11, <1>12, <1>13, <1>14, <1>15 DEF Next

(* Nothing that is valid gets lost: with at most TASK_APPROVAL_STATE_LIMIT  *)
(* sessions every receipt nothing overtook is projected, and, if no         *)
(* transition clears the surfaces of an open connection, every live grant   *)
(* is shown (and can be revoked) once its events have arrived.              *)
THEOREM PermissionsStayTrue ==
  ASSUME Roomy, MaxSwitches = 0
  PROVE  Spec => []PermissionsAreTrue
<1>1. Init => BaseInv /\ CapturedStays /\ GrantsAreShown
  <2>1. Init => CapturedStays /\ GrantsAreShown
    BY DEF Init, CapturedStays, GrantsAreShown
  <2> QED
    BY <2>1, BaseInit
<1>2. /\ BaseInv /\ CapturedStays /\ GrantsAreShown
      /\ [Next]_vars
      => (BaseInv /\ CapturedStays /\ GrantsAreShown)'
  BY BaseStep, CapturedStep, ShownStep
<1>3. BaseInv /\ CapturedStays => ReceiptsCount
  <2> SUFFICES ASSUME BaseInv, CapturedStays, NEW r \in InFlight, ~requests[r].overtaken
               PROVE  requests[r].revision = Current(requests[r].session)
    BY DEF ReceiptsCount
  <2>1. requests[r] # None /\ requests[r].session \in Sessions /\ r \in Requests
    BY DEF BaseInv, ClockInv, ClockType, InFlight, Calls
  <2> QED
    BY <2>1 DEF CapturedStays, Current
<1>4. BaseInv /\ GrantsAreShown => GrantIsShown
  <2> SUFFICES ASSUME BaseInv, GrantsAreShown, phase = "ready",
                      NEW s \in Sessions, Silent(s)
               PROVE  Grant(s) = granted[s]
    BY DEF GrantIsShown
  <2>1. /\ shown \in Seq(Entries)
        /\ \A i \in 1..Len(shown) : shown[i].session = s => shown[i].grant = granted[s]
    BY DEF BaseInv, GrantInv, ShownType, EntriesAreGranted
  <2>2. CASE Places(s) = {}
    <3>1. granted[s] = NoGrant
      BY <2>2 DEF GrantsAreShown, Shows, Places
    <3> QED
      BY <2>2, <3>1 DEF Grant
  <2>3. CASE Places(s) # {}
    <3>1. Place(s) \in 1..Len(shown) /\ shown[Place(s)].session = s
      BY <2>3 DEF Place, Places
    <3> QED
      BY <2>1, <2>3, <3>1 DEF Grant
  <2> QED
    BY <2>2, <2>3
<1> QED
  BY <1>1, <1>2, <1>3, <1>4, PTL DEF Spec, PermissionsAreTrue
===============================================================================
