------------------------------ MODULE DockProofs ------------------------------
(* Proofs about DeliverableDock, for any conversations, deliverables, limit of    *)
(* the tabs and number of calls: the types, the report and the receipt are about  *)
(* the revision shown (verifyActiveArtifact and exportActiveArtifact in           *)
(* src/App.tsx), busy ends with the newest call, and what an Agent writes leaves  *)
(* a draft alone (handleEvent).                                                   *)
EXTENDS DeliverableDock, SequenceTheorems, FiniteSetTheorems, WellFoundedInduction, TLAPS

(* What the proofs assume of the bounds: an imported deliverable has a revision.   *)
DockBounds == MaxRevisions \in Nat \ {0} /\ MaxCalls \in Nat

LEMMA BoundsAre == DockBounds
BY DockAssumption DEF DockBounds

Tabs == [owner : Contexts, artifact : Artifacts, revision : Nat, dirty : BOOLEAN]
TabNames == Contexts \X Artifacts
Revised == Artifacts \X Nat

(* The tabs of a dock have an id each.                                           *)
Sheet(q) == q \in Seq(Tabs) /\ \A i, j \in DOMAIN q : Id(q[i]) = Id(q[j]) => i = j

(* No tab with the id has edits.                                                 *)
Clean(q, id) == \A i \in DOMAIN q : Id(q[i]) = id => ~q[i].dirty

LEMMA TabTyped ==
  ASSUME NEW tab \in Tabs
  PROVE  /\ tab.owner \in Contexts /\ tab.artifact \in Artifacts /\ tab.revision \in Nat
         /\ tab.dirty \in BOOLEAN /\ Id(tab) \in TabNames /\ DocOf(tab) \in Revised
         /\ Id(tab) = <<tab.owner, tab.artifact>>
BY DEF Tabs, Id, TabNames, DocOf, Revised

LEMMA TabForTyped ==
  ASSUME NEW c \in Contexts, NEW doc \in Revised
  PROVE  /\ TabFor(c, doc) \in Tabs /\ Id(TabFor(c, doc)) = <<c, doc[1]>> /\ ~TabFor(c, doc).dirty
<1>1. PICK no \in BOOLEAN : no = FALSE
  OBVIOUS
<1> DEFINE t == [owner |-> c, artifact |-> doc[1], revision |-> doc[2], dirty |-> no]
<1>2. TabFor(c, doc) = t
  BY <1>1, Zenon DEF TabFor
<1>3. doc[1] \in Artifacts /\ doc[2] \in Nat
  BY DEF Revised
<1>4. t \in Tabs /\ Id(t) = <<c, doc[1]>> /\ t.dirty = no
  BY <1>3 DEF Tabs, Id
<1>5. QED BY <1>1, <1>2, <1>4

LEMMA SheetTyped ==
  ASSUME NEW q, Sheet(q)
  PROVE  Len(q) \in Nat /\ DOMAIN q = 1..Len(q) /\ \A i \in DOMAIN q : q[i] \in Tabs
BY DEF Sheet

(* updateExtensionTab, and what only sets the edits of a tab                     *)
LEMMA ChangedIs ==
  ASSUME NEW q, Sheet(q), NEW p, DOMAIN p = DOMAIN q, p = [i \in DOMAIN p |-> p[i]],
         \A i \in DOMAIN q : p[i] \in Tabs /\ Id(p[i]) = Id(q[i])
  PROVE  Sheet(p) /\ IdsOf(p) = IdsOf(q)
<1>1. Len(q) \in Nat /\ DOMAIN q = 1..Len(q)
  BY SheetTyped
<1>2. p \in Seq(Tabs)
  BY <1>1
<1>3. \A i, j \in DOMAIN p : Id(p[i]) = Id(p[j]) => i = j
  BY DEF Sheet
<1>4. IdsOf(p) = IdsOf(q)
  BY DEF IdsOf
<1>5. QED BY <1>2, <1>3, <1>4 DEF Sheet

LEMMA FlagIs ==
  ASSUME NEW q, Sheet(q), NEW id, NEW v \in BOOLEAN
  PROVE  /\ Sheet(Flag(q, id, v)) /\ IdsOf(Flag(q, id, v)) = IdsOf(q)
         /\ ~v => \A x : Clean(q, x) => Clean(Flag(q, id, v), x)
<1> DEFINE p == Flag(q, id, v)
<1>1. DOMAIN p = DOMAIN q /\ p = [i \in DOMAIN p |-> p[i]]
  BY DEF Flag
<1>2. ASSUME NEW i \in DOMAIN q
      PROVE  p[i] \in Tabs /\ Id(p[i]) = Id(q[i]) /\ (~v => p[i].dirty = q[i].dirty \/ ~p[i].dirty)
  <2> DEFINE t == q[i]
             w == IF Id(t) = id THEN v ELSE t.dirty
             u == [t EXCEPT !.dirty = w]
  <2>1. p[i] = u
    BY DEF Flag
  <2>2. t \in Tabs
    BY SheetTyped
  <2>3. w \in BOOLEAN
    BY <2>2, TabTyped
  <2> HIDE DEF w, t
  <2>4. u \in Tabs /\ u.dirty = w /\ u.owner = t.owner /\ u.artifact = t.artifact
    BY <2>2, <2>3 DEF Tabs
  <2>5. Id(u) = Id(t)
    BY <2>4 DEF Id
  <2>6. ~v => w = t.dirty \/ ~w
    BY DEF w
  <2>7. QED BY <2>1, <2>4, <2>5, <2>6 DEF t
<1> HIDE DEF p
<1>3. Sheet(p) /\ IdsOf(p) = IdsOf(q)
  BY <1>1, <1>2, ChangedIs
<1>4. ~v => \A x : Clean(q, x) => Clean(p, x)
  BY <1>1, <1>2 DEF Clean
<1>5. QED BY <1>3, <1>4 DEF p

LEMMA PutIs ==
  ASSUME NEW q, Sheet(q), NEW tab \in Tabs
  PROVE  /\ Sheet(Put(q, tab)) /\ IdsOf(Put(q, tab)) = IdsOf(q) /\ DOMAIN Put(q, tab) = DOMAIN q
         /\ \A i \in DOMAIN q : Put(q, tab)[i] = IF Id(q[i]) = Id(tab) THEN tab ELSE q[i]
<1> DEFINE p == Put(q, tab)
<1>1. DOMAIN p = DOMAIN q /\ p = [i \in DOMAIN p |-> p[i]]
  BY DEF Put
<1>2. \A i \in DOMAIN q : p[i] = IF Id(q[i]) = Id(tab) THEN tab ELSE q[i]
  BY DEF Put
<1> HIDE DEF p
<1>3. \A i \in DOMAIN q : p[i] \in Tabs /\ Id(p[i]) = Id(q[i])
  BY <1>2, SheetTyped
<1>4. Sheet(p) /\ IdsOf(p) = IdsOf(q)
  BY <1>1, <1>3, ChangedIs
<1>5. QED BY <1>1, <1>2, <1>4 DEF p

(* Removing the element at a place keeps the others, in their order.        *)
LEMMA RemoveAtFact ==
  ASSUME NEW S, NEW q \in Seq(S), NEW i \in 1..Len(q)
  PROVE  /\ RemoveAt(q, i) \in Seq(S)
         /\ Len(RemoveAt(q, i)) = Len(q) - 1
         /\ \A j \in 1..(Len(q) - 1) :
              RemoveAt(q, i)[j] = q[IF j < i THEN j ELSE j + 1]
<1> DEFINE b == SubSeq(q, 1, i - 1)
           c == SubSeq(q, i + 1, Len(q))
<1>1. /\ b \in Seq(S) /\ Len(b) = i - 1 /\ \A j \in 1..(i - 1) : b[j] = q[j]
  OBVIOUS
<1>2. /\ c \in Seq(S) /\ Len(c) = Len(q) - i
      /\ \A j \in 1..(Len(q) - i) : c[j] = q[j + i]
  OBVIOUS
<1>3. RemoveAt(q, i) = b \o c
  BY DEF RemoveAt
<1> HIDE DEF b, c
<1>4. /\ b \o c \in Seq(S) /\ Len(b \o c) = Len(b) + Len(c)
      /\ \A j \in 1..(Len(b) + Len(c)) :
           (b \o c)[j] = IF j <= Len(b) THEN b[j] ELSE c[j - Len(b)]
  <2>1. b \in Seq(S) /\ c \in Seq(S)
    BY <1>1, <1>2
  <2> QED
    BY <2>1, ConcatProperties
<1>5. ASSUME NEW j \in 1..(Len(q) - 1)
      PROVE  (b \o c)[j] = q[IF j < i THEN j ELSE j + 1]
  <2>1. CASE j < i
    BY <1>1, <1>2, <1>4, <2>1
  <2>2. CASE ~(j < i)
    <3>1. j - (i - 1) \in 1..(Len(q) - i) /\ (j - (i - 1)) + i = j + 1
      BY <2>2
    <3>2. c[j - (i - 1)] = q[j + 1]
      BY <1>2, <3>1
    <3> QED
      BY <1>1, <1>2, <1>4, <2>2, <3>2
  <2> QED
    BY <2>1, <2>2
<1> QED
  BY <1>1, <1>2, <1>3, <1>4, <1>5

LEMMA RemovedIs ==
  ASSUME NEW q, Sheet(q), NEW k \in DOMAIN q
  PROVE  /\ Sheet(RemoveAt(q, k))
         /\ \A i \in DOMAIN q : i # k => \E j \in DOMAIN RemoveAt(q, k) : RemoveAt(q, k)[j] = q[i]
         /\ \A j \in DOMAIN RemoveAt(q, k) : \E i \in DOMAIN q : RemoveAt(q, k)[j] = q[i]
<1> DEFINE n == Len(q)
           r == RemoveAt(q, k)
<1>1. q \in Seq(Tabs) /\ n \in Nat /\ DOMAIN q = 1..n /\ k \in 1..n
  BY SheetTyped DEF Sheet
<1>2. /\ r \in Seq(Tabs) /\ Len(r) = n - 1
      /\ \A j \in 1..n - 1 : r[j] = q[IF j < k THEN j ELSE j + 1]
  BY <1>1, RemoveAtFact
<1> HIDE DEF n, r
<1>5. /\ r \in Seq(Tabs) /\ DOMAIN r = 1..n - 1
      /\ \A j \in 1..n - 1 : r[j] = IF j < k THEN q[j] ELSE q[j + 1]
  BY <1>1, <1>2
<1>6. \A i, j \in DOMAIN r : Id(r[i]) = Id(r[j]) => i = j
  <2>1. \A i, j \in 1..n : Id(q[i]) = Id(q[j]) => i = j
    BY <1>1 DEF Sheet
  <2>2. QED BY <1>1, <1>5, <2>1
<1>7. \A i \in 1..n : i # k => \E j \in 1..n - 1 : r[j] = q[i]
  <2>1. ASSUME NEW i \in 1..n, i < k PROVE i \in 1..n - 1 /\ r[i] = q[i]
    BY <1>1, <1>5, <2>1
  <2>2. ASSUME NEW i \in 1..n, i > k PROVE i - 1 \in 1..n - 1 /\ r[i - 1] = q[i]
    BY <1>1, <1>5, <2>2
  <2>3. QED BY <1>1, <2>1, <2>2
<1>8. \A j \in DOMAIN r : \E i \in 1..n : r[j] = q[i]
  BY <1>1, <1>5
<1>9. QED BY <1>1, <1>5, <1>6, <1>7, <1>8 DEF Sheet, r

(* A set of numbers has a least one, and one that is bounded a largest one.      *)
LEMMA LeastIsThere ==
  ASSUME NEW S, S \subseteq Nat, S # {}
  PROVE  \E m \in S : \A k \in S : m <= k
<1>1. PICK m \in S : \A k \in S : <<k, m>> \notin OpToRel(<, Nat)
  <2>1. \E m \in S : \A k \in S : ~(<<k, m>> \in OpToRel(<, Nat))
    BY NatLessThanWellFounded, WFMin, Zenon
  <2>2. QED BY <2>1
<1>2. ASSUME NEW k \in S PROVE m <= k
  <2>1. k \in Nat /\ m \in Nat
    OBVIOUS
  <2>2. k < m => <<k, m>> \in OpToRel(<, Nat)
    BY <2>1 DEF OpToRel
  <2>3. ~(k < m)
    BY <1>1, <2>2, Zenon
  <2>4. QED BY <2>1, <2>3
<1>3. QED BY <1>2

LEMMA LargestIsThere ==
  ASSUME NEW n \in Nat, NEW S, S \subseteq 1..n, S # {}
  PROVE  Max(S) \in S
<1> DEFINE T == {n - x : x \in S}
<1>1. T \subseteq Nat /\ T # {}
  OBVIOUS
<1>2. PICK m \in T : \A k \in T : m <= k
  BY <1>1, LeastIsThere
<1>3. PICK x \in S : m = n - x
  OBVIOUS
<1>4. ASSUME NEW y \in S PROVE x >= y
  <2>1. n - y \in T
    OBVIOUS
  <2>2. x \in Int /\ y \in Int
    <3> HIDE DEF T
    <3>1. QED OBVIOUS
  <2>3. m <= n - y
    BY <1>2, <2>1
  <2>4. QED BY <1>3, <2>2, <2>3
<1>5. \E z \in S : \A y \in S : z >= y
  BY <1>4
<1>6. QED BY <1>5 DEF Max

(* The tab that comes to the front                                               *)
LEMMA NewestIs ==
  ASSUME NEW q, Sheet(q), NEW c, TabsOf(q, c) # {}
  PROVE  Newest(q, c) \in Tabs /\ Newest(q, c).owner = c
<1>1. Len(q) \in Nat /\ TabsOf(q, c) \subseteq 1..Len(q)
  BY SheetTyped DEF TabsOf
<1>2. Max(TabsOf(q, c)) \in TabsOf(q, c)
  BY <1>1, LargestIsThere
<1>3. QED BY <1>2, SheetTyped DEF Newest, TabsOf

LEMMA VisibleIs ==
  ASSUME NEW q, Sheet(q), NEW active, NEW c
  PROVE  Visible(q, active, c) \in TabNames \union {Absent}
<1>1. CASE active \in OwnIds(q, c)
  <2>1. PICK i \in DOMAIN q : active = Id(q[i])
    BY <1>1 DEF OwnIds, TabsOf
  <2>2. active \in TabNames
    BY <2>1, SheetTyped, TabTyped
  <2>3. QED BY <1>1, <2>2 DEF Visible
<1>2. CASE active \notin OwnIds(q, c)
  <2>1. CASE TabsOf(q, c) = {}
    BY <1>2, <2>1 DEF Visible
  <2>2. CASE TabsOf(q, c) # {}
    <3>1. Id(Newest(q, c)) \in TabNames
      BY <2>2, NewestIs, TabTyped
    <3>2. QED BY <1>2, <2>2, <3>1 DEF Visible
  <2>3. QED BY <2>1, <2>2
<1>3. QED BY <1>1, <1>2

LEMMA EditedTabTyped ==
  ASSUME NEW q, Sheet(q), NEW active, NEW c, NEW doc
  PROVE  EditedTab(c, q, active, doc) \in TabNames \union {Absent}
BY VisibleIs DEF EditedTab

(* The tab with an id                                                            *)
LEMMA TabAtIs ==
  ASSUME NEW q, Sheet(q), NEW i \in DOMAIN q
  PROVE  TabAt(q, Id(q[i])) = q[i] /\ Id(q[i]) \in IdsOf(q)
<1>1. PICK j \in DOMAIN q : j = CHOOSE k \in DOMAIN q : Id(q[k]) = Id(q[i])
  OBVIOUS
<1>2. Id(q[j]) = Id(q[i])
  BY <1>1
<1>3. j = i
  BY <1>2 DEF Sheet
<1>4. QED BY <1>1, <1>3 DEF TabAt, IdsOf

LEMMA TabOfId ==
  ASSUME NEW q, Sheet(q), NEW id \in IdsOf(q)
  PROVE  /\ TabAt(q, id) \in Tabs /\ Id(TabAt(q, id)) = id
         /\ \E i \in DOMAIN q : q[i] = TabAt(q, id)
<1>1. PICK i \in DOMAIN q : Id(q[i]) = id
  BY DEF IdsOf
<1>2. TabAt(q, id) = q[i]
  BY <1>1, TabAtIs
<1>3. QED BY <1>1, <1>2, SheetTyped

(* A tab that is added                                                           *)
LEMMA AppendedIs ==
  ASSUME NEW q, Sheet(q), NEW tab \in Tabs, Id(tab) \notin IdsOf(q)
  PROVE  /\ Sheet(Append(q, tab)) /\ DOMAIN Append(q, tab) = DOMAIN q \union {Len(q) + 1}
         /\ \A i \in DOMAIN q : Append(q, tab)[i] = q[i]
         /\ Append(q, tab)[Len(q) + 1] = tab /\ Len(q) + 1 \notin DOMAIN q
<1> DEFINE p == Append(q, tab)
           n == Len(q)
<1>1. q \in Seq(Tabs) /\ n \in Nat /\ DOMAIN q = 1..n
  BY SheetTyped DEF Sheet
<1>2. /\ p \in Seq(Tabs) /\ DOMAIN p = 1..n + 1 /\ \A i \in 1..n : p[i] = q[i]
      /\ p[n + 1] = tab
  BY <1>1
<1> HIDE DEF p, n
<1>3. 1..n + 1 = 1..n \union {n + 1} /\ n + 1 \notin 1..n
  BY <1>1
<1>4. \A i \in 1..n : Id(q[i]) # Id(tab)
  BY <1>1 DEF IdsOf
<1>5. \A i, j \in 1..n : Id(q[i]) = Id(q[j]) => i = j
  BY <1>1 DEF Sheet
<1>6. \A i, j \in DOMAIN p : Id(p[i]) = Id(p[j]) => i = j
  BY <1>2, <1>3, <1>4, <1>5
<1>7. QED BY <1>1, <1>2, <1>3, <1>6 DEF Sheet, p, n

(* upsertExtensionTab lets go only of tabs without edits                         *)
LEMMA UpsertIs ==
  ASSUME NEW q, Sheet(q), NEW tab \in Tabs, ~tab.dirty
  PROVE  /\ Sheet(Upsert(q, tab)) /\ \A x : Clean(q, x) => Clean(Upsert(q, tab), x)
         /\ Clean(Upsert(q, tab), Id(tab))
         /\ \A i \in DOMAIN q : q[i].dirty /\ Id(q[i]) # Id(tab) =>
              \E j \in DOMAIN Upsert(q, tab) : Upsert(q, tab)[j] = q[i]
<1>1. PICK p : p = IF Id(tab) \in IdsOf(q) THEN Put(q, tab) ELSE Append(q, tab)
  OBVIOUS
<1>2. /\ Sheet(p) /\ DOMAIN q \subseteq DOMAIN p
      /\ \A i \in DOMAIN q : p[i] = q[i] \/ (p[i] = tab /\ Id(q[i]) = Id(tab))
      /\ \A i \in DOMAIN p : i \in DOMAIN q \/ p[i] = tab
      /\ \A i \in DOMAIN p : Id(p[i]) = Id(tab) => p[i] = tab
  <2>1. CASE Id(tab) \in IdsOf(q)
    BY <1>1, <2>1, PutIs
  <2>2. CASE Id(tab) \notin IdsOf(q)
    BY <1>1, <2>2, AppendedIs DEF IdsOf
  <2>3. QED BY <2>1, <2>2
<1>3. Clean(p, Id(tab)) /\ \A x : Clean(q, x) => Clean(p, x)
  <2>1. \A i \in DOMAIN p : Id(p[i]) = Id(tab) => p[i] = tab
    BY <1>2
  <2>2. QED BY <1>2, <2>1 DEF Clean
<1>4. \A i \in DOMAIN q : q[i].dirty /\ Id(q[i]) # Id(tab) => p[i] = q[i] /\ i \in DOMAIN p
  BY <1>2
<1> DEFINE E == {i \in DOMAIN p : Id(p[i]) # Id(tab) /\ ~p[i].dirty}
           k == CHOOSE i \in E : \A j \in E : i <= j
<1>5. Upsert(q, tab) = IF Len(p) <= TabLimit \/ E = {} THEN p ELSE RemoveAt(p, k)
  BY <1>1 DEF Upsert
<1>6. CASE Len(p) <= TabLimit \/ E = {}
  <2>1. Upsert(q, tab) = p
    BY <1>5, <1>6
  <2>2. QED BY <1>2, <1>3, <1>4, <2>1
<1>7. CASE ~(Len(p) <= TabLimit \/ E = {})
  <2>1. E \subseteq Nat /\ E # {}
    BY <1>2, <1>7, SheetTyped
  <2>2. \E i \in E : \A j \in E : i <= j
    <3> HIDE DEF E
    <3>1. QED BY <2>1, LeastIsThere
  <2>3. k \in E
    <3> HIDE DEF E
    <3>1. QED BY <2>2
  <2>4. k \in DOMAIN p /\ ~p[k].dirty
    BY <2>3
  <2> DEFINE r == RemoveAt(p, k)
  <2>5. Upsert(q, tab) = r
    BY <1>5, <1>7
  <2> HIDE DEF k
  <2>6. /\ Sheet(r) /\ \A i \in DOMAIN p : i # k => \E j \in DOMAIN r : r[j] = p[i]
        /\ \A j \in DOMAIN r : \E i \in DOMAIN p : r[j] = p[i]
    BY <1>2, <2>4, RemovedIs
  <2> HIDE DEF r, E
  <2>7. Clean(r, Id(tab)) /\ \A x : Clean(q, x) => Clean(r, x)
    BY <1>3, <2>6 DEF Clean
  <2>8. \A i \in DOMAIN q : q[i].dirty /\ Id(q[i]) # Id(tab) => \E j \in DOMAIN r : r[j] = q[i]
    BY <1>4, <2>4, <2>6
  <2>9. QED BY <2>5, <2>6, <2>7, <2>8
<1>8. QED BY <1>6, <1>7

LEMMA RenderIs ==
  ASSUME NEW context, NEW dock, Sheet(dock), NEW active, NEW doc, Render(context, dock, active, doc)
  PROVE  /\ front' = context /\ activeTab' = active /\ surface' = doc /\ unsaved' \in BOOLEAN
         /\ Sheet(tabs') /\ \A x : Clean(dock, x) => Clean(tabs', x)
<1>1. front' = context /\ activeTab' = active /\ surface' = doc /\ unsaved' \in BOOLEAN
  BY DEF Render
<1>2. \/ tabs' = dock
      \/ tabs' = Flag(dock, EditedTab(context, dock, active, doc), FALSE)
  BY DEF Render
<1>3. PICK no \in BOOLEAN : no = FALSE
  OBVIOUS
<1>4. \E id : tabs' = dock \/ tabs' = Flag(dock, id, no)
  BY <1>2, <1>3, Zenon
<1>5. PICK id : tabs' = dock \/ tabs' = Flag(dock, id, no)
  BY <1>4
<1>6. Sheet(tabs') /\ \A x : Clean(dock, x) => Clean(tabs', x)
  BY <1>3, <1>5, FlagIs
<1>7. QED BY <1>1, <1>6

-------------------------------------------------------------------------------
(* Calls                                                                         *)

DockKinds == {"open", "import", "event", "load", "verify", "export", "save"}
Opening == {"open", "import", "event", "load"}
Proving == {"verify", "export"}
Stages == {"asked", "checked"}
SomeWords == Words \ {""}

CallSet == [kind : {"open", "import", "event", "load", "verify", "export", "save"},
            context : Contexts \union {Away}, doc : Revised, tab : TabIds,
            at : {"asked", "checked", "accepted"}, newest : BOOLEAN]

(* What is opened is opened in a place with a dock, and what Serve announces is  *)
(* of a conversation.                                                            *)
CallsTyped(C) ==
  /\ C \subseteq CallSet
  /\ \A c \in C : /\ c.kind \in {"open", "import", "event", "load"} => c.context \in Contexts
                  /\ c.kind = "event" => c.context \in Conversations

(* One call is the newest, and the window is as that one left it: busy, with the *)
(* revision that it checks, and with the tab in front that it loads, which has   *)
(* no edits.                                                                     *)
Fits(C, b, doc, active, q) ==
  /\ \A c, d \in C : c.newest /\ d.newest => c = d
  /\ \A c \in C : c.newest => b # ""
  /\ \A c \in C : c.newest /\ c.kind \in {"verify", "export"} => c.doc = doc
  /\ \A c \in C : c.newest /\ c.kind = "event" =>
                    b = "open" /\ active = <<c.context, c.doc[1]>> /\ Clean(q, active)

BusyHeld(C, b, there) == b # "" => (\E c \in C : c.newest) \/ there # Conversations

LEMMA CallIs ==
  ASSUME NEW C, CallsTyped(C), NEW c \in C
  PROVE  /\ c \in CallSet /\ c.context \in Contexts \union {Away} /\ c.doc \in Revised /\ c.tab \in TabIds
         /\ c.newest \in BOOLEAN /\ c.doc[1] \in Artifacts /\ c.doc[2] \in Nat
         /\ c.kind \in {"open", "import", "event", "load"} => c.context \in Contexts
         /\ c.kind = "event" => c.context \in Conversations
<1>1. c \in CallSet
  BY DEF CallsTyped
<1>2. c.doc \in Revised /\ c.tab \in TabIds /\ c.newest \in BOOLEAN /\ c.context \in Contexts \union {Away}
  BY <1>1 DEF CallSet
<1>3. c.doc[1] \in Artifacts /\ c.doc[2] \in Nat
  BY <1>2 DEF Revised
<1>4. QED BY <1>1, <1>2, <1>3 DEF CallsTyped

LEMMA OlderIs ==
  ASSUME NEW C, CallsTyped(C)
  PROVE  CallsTyped(Older(C)) /\ \A c \in Older(C) : ~c.newest
<1>1. PICK no \in BOOLEAN : no = FALSE
  OBVIOUS
<1>2. ASSUME NEW d \in C
      PROVE  /\ [d EXCEPT !.newest = FALSE] \in CallSet /\ ~[d EXCEPT !.newest = FALSE].newest
             /\ [d EXCEPT !.newest = FALSE].kind = d.kind
             /\ [d EXCEPT !.newest = FALSE].context = d.context
  <2> DEFINE e == [d EXCEPT !.newest = no]
  <2>1. [d EXCEPT !.newest = FALSE] = e
    BY <1>1, Zenon
  <2>2. d \in CallSet
    BY DEF CallsTyped
  <2>3. e \in CallSet /\ e.newest = no /\ e.kind = d.kind /\ e.context = d.context
    BY <2>2 DEF CallSet
  <2> HIDE DEF e
  <2>4. QED BY <1>1, <2>1, <2>3
<1>3. ASSUME NEW c \in Older(C)
      PROVE  \E d \in C : c \in CallSet /\ ~c.newest /\ c.kind = d.kind /\ c.context = d.context
  <2>1. PICK d \in C : c = [d EXCEPT !.newest = FALSE]
    BY DEF Older
  <2>2. QED BY <1>2, <2>1, Zenon
<1>4. QED BY <1>3 DEF CallsTyped

LEMMA CountsOn ==
  ASSUME DockBounds, dockStarted \in 0..MaxCalls, dockStarted < MaxCalls, dockStarted' = dockStarted + 1
  PROVE  dockStarted' \in 0..MaxCalls
BY DEF DockBounds

LEMMA StartIs ==
  ASSUME DockBounds, CallsTyped(dockCalls), dockStarted \in 0..MaxCalls,
         NEW kind \in DockKinds,
         NEW word \in SomeWords, NEW context \in Contexts \union {Away}, NEW doc \in Revised,
         NEW tab \in TabIds, NEW at \in Stages,
         kind \in Opening => context \in Contexts,
         kind = "event" => context \in Conversations,
         Start(kind, word, context, doc, tab, at),
         NEW d, NEW active, NEW q,
         kind \in Proving => doc = d,
         kind = "event" => word = "open" /\ active = <<context, doc[1]>> /\ Clean(q, active)
  PROVE  /\ CallsTyped(dockCalls') /\ Fits(dockCalls', busy', d, active, q) /\ busy' \in Words
         /\ dockStarted' \in 0..MaxCalls /\ \A there : BusyHeld(dockCalls', busy', there)
<1>1. PICK yes \in BOOLEAN : yes = TRUE
  OBVIOUS
<1> DEFINE c == [kind |-> kind, context |-> context, doc |-> doc, tab |-> tab, at |-> at, newest |-> yes]
           C == Older(dockCalls)
<1>2. dockCalls' = C \union {c} /\ busy' = word
  <2>1. dockCalls' = C \union {[kind |-> kind, context |-> context, doc |-> doc, tab |-> tab, at |-> at,
                            newest |-> TRUE]}
    BY Zenon DEF Start
  <2>2. QED BY <1>1, <2>1, Zenon DEF Start
<1>3. dockStarted' \in 0..MaxCalls
  <2>1. dockStarted < MaxCalls /\ dockStarted' = dockStarted + 1
    BY Zenon DEF Start
  <2>2. QED BY <2>1, CountsOn
<1>4. c \in CallSet /\ c.kind = kind /\ c.context = context /\ c.doc = doc /\ c.newest
  BY <1>1 DEF CallSet, DockKinds, Stages
<1>5. CallsTyped(C) /\ \A e \in C : ~e.newest
  BY OlderIs
<1> HIDE DEF c, C
<1>6. CallsTyped(dockCalls')
  BY <1>2, <1>4, <1>5 DEF CallsTyped, Opening
<1>7. \A e \in dockCalls' : e.newest => e = c
  BY <1>2, <1>5
<1>8. Fits(dockCalls', busy', d, active, q)
  BY <1>2, <1>4, <1>7 DEF Fits, SomeWords, Proving
<1>9. c \in dockCalls'
  BY <1>2
<1>10. \A there : BusyHeld(dockCalls', busy', there)
  BY <1>4, <1>9 DEF BusyHeld
<1>11. QED BY <1>2, <1>3, <1>6, <1>8, <1>10 DEF SomeWords

LEMMA NoneFits ==
  ASSUME NEW C, \A c \in C : ~c.newest, NEW b, NEW d, NEW active, NEW q
  PROVE  Fits(C, b, d, active, q)
BY DEF Fits

LEMMA ForgetIs ==
  ASSUME CallsTyped(dockCalls), dockStarted \in 0..MaxCalls, Forget
  PROVE  /\ CallsTyped(dockCalls') /\ busy' = "" /\ dockStarted' \in 0..MaxCalls
         /\ \A d, active, q : Fits(dockCalls', busy', d, active, q)
         /\ \A there : BusyHeld(dockCalls', busy', there)
         /\ report' = Absent /\ exported' = Absent
<1>1. dockCalls' = Older(dockCalls) /\ busy' = "" /\ dockStarted' = dockStarted /\ report' = Absent /\ exported' = Absent
  BY DEF Forget
<1>2. CallsTyped(dockCalls') /\ \A c \in dockCalls' : ~c.newest
  BY <1>1, OlderIs
<1>3. QED BY <1>1, <1>2, NoneFits DEF BusyHeld

(* A call that ends was the newest, or leaves the newest where it is.            *)
LEMMA FewerFit ==
  ASSUME NEW C, CallsTyped(C), NEW call \in C, NEW b, NEW e, NEW d, NEW active, NEW q, NEW there,
         Fits(C, b, d, active, q), BusyHeld(C, b, there),
         e = (IF call.newest THEN "" ELSE b) \/ (e = b /\ there # Conversations)
  PROVE  /\ CallsTyped(C \ {call}) /\ Fits(C \ {call}, e, d, active, q)
         /\ BusyHeld(C \ {call}, e, there)
         /\ call.newest => \A x, y, z : Fits(C \ {call}, e, x, y, z)
<1> DEFINE D == C \ {call}
<1>1. CallsTyped(D)
  BY DEF CallsTyped
<1>2. call.newest => \A c \in D : ~c.newest
  BY DEF Fits
<1>3. call.newest => \A x, y, z : Fits(D, e, x, y, z)
  <2> HIDE DEF D
  <2>1. QED BY <1>2, NoneFits
<1>4. ~call.newest => e = b
  OBVIOUS
<1>5. ~call.newest => Fits(D, e, d, active, q)
  BY <1>4 DEF Fits
<1>6. BusyHeld(D, e, there)
  BY DEF BusyHeld
<1>7. QED BY <1>1, <1>3, <1>5, <1>6

-------------------------------------------------------------------------------
(* The inductive invariant                                                       *)

PageIs ==
  /\ front \in Contexts \union {Away} /\ hidden \subseteq Contexts /\ listed \subseteq Conversations
  /\ Sheet(tabs) /\ activeTab \in TabIds /\ surface \in Docs /\ unsaved \in BOOLEAN
  /\ latest \in [Artifacts -> 0..MaxRevisions]

CallsAre ==
  /\ CallsTyped(dockCalls) /\ busy \in Words /\ dockStarted \in 0..MaxCalls
  /\ Fits(dockCalls, busy, surface, activeTab, tabs) /\ BusyHeld(dockCalls, busy, listed)

DockInv == PageIs /\ CallsAre /\ ProofIsOfTheShown

(* What is shown stays with its proofs, or the proofs go.                        *)
LEMMA PageStays ==
  ASSUME PageIs, UNCHANGED <<tabs, front, activeTab, surface, unsaved, hidden, latest, listed>>
  PROVE  PageIs'
BY DEF PageIs

LEMMA ShownStays ==
  ASSUME UNCHANGED shownVars
  PROVE  UNCHANGED <<tabs, front, activeTab, surface, unsaved>>
BY DEF shownVars

LEMMA CallsStay ==
  ASSUME CallsAre, UNCHANGED callVars, surface' = surface, activeTab' = activeTab,
         \A x : Clean(tabs, x) => Clean(tabs', x), BusyHeld(dockCalls, busy, listed')
  PROVE  CallsAre'
BY DEF CallsAre, callVars, Fits

LEMMA BoundsHold == ASSUME DockBounds PROVE 0 \in 0..MaxRevisions /\ 0 \in 0..MaxCalls
BY DEF DockBounds

LEMMA EmptySheet == Sheet(<<>>)
BY DEF Sheet

LEMMA InitKeeps ==
  ASSUME DockBounds, InitDock
  PROVE  DockInv
<1>1. tabs = <<>> /\ activeTab = Absent /\ unsaved \in BOOLEAN /\ listed = Conversations /\ hidden = {}
      /\ front \in Conversations /\ surface = Absent /\ report = Absent /\ exported = Absent
      /\ busy = "" /\ dockCalls = {} /\ dockStarted = 0
  BY DEF InitDock
<1>2. latest \in [Artifacts -> 0..MaxRevisions]
  <2>1. latest = [a \in Artifacts |-> 0]
    BY Zenon DEF InitDock
  <2>2. 0 \in 0..MaxRevisions
    BY BoundsHold
  <2> HIDE DEF InitDock
  <2>3. QED BY <2>1, <2>2, Zenon
<1>3. Sheet(tabs)
  BY <1>1, EmptySheet
<1>4. PageIs
  BY <1>1, <1>2, <1>3 DEF PageIs, Contexts, TabIds, Docs
<1>5. CallsAre
  <2>1. CallsTyped(dockCalls)
    BY <1>1 DEF CallsTyped
  <2>2. Fits(dockCalls, busy, surface, activeTab, tabs)
    BY <1>1 DEF Fits
  <2>3. BusyHeld(dockCalls, busy, listed)
    BY <1>1 DEF BusyHeld
  <2>4. QED BY <1>1, <2>1, <2>2, <2>3, BoundsHold DEF CallsAre, Words
<1>6. ProofIsOfTheShown
  BY <1>1 DEF ProofIsOfTheShown
<1>7. QED BY <1>4, <1>5, <1>6 DEF DockInv

LEMMA LeftIs ==
  ASSUME Sheet(tabs)
  PROVE  Sheet(TabsLeft) /\ \A x : Clean(tabs, x) => Clean(TabsLeft, x)
<1>1. PICK no \in BOOLEAN : no = FALSE
  OBVIOUS
<1>2. TabsLeft = Flag(tabs, InFront, no)
  BY <1>1, Zenon DEF TabsLeft
<1>3. QED BY <1>1, <1>2, FlagIs

(* A step that goes elsewhere and leaves the presentation as it is               *)
LEMMA GoingKeeps ==
  ASSUME DockInv, NEW context \in Contexts \union {Away}, NEW dock, Sheet(dock),
         \A x : Clean(tabs, x) => Clean(dock, x),
         Render(context, dock, activeTab, surface),
         UNCHANGED <<proofVars, callVars, latest>>, hidden' \subseteq Contexts,
         listed' \subseteq listed
  PROVE  DockInv'
<1>1. /\ front' = context /\ activeTab' = activeTab /\ surface' = surface /\ unsaved' \in BOOLEAN
      /\ Sheet(tabs') /\ \A x : Clean(tabs, x) => Clean(tabs', x)
  BY RenderIs
<1>2. PageIs'
  BY <1>1 DEF DockInv, PageIs
<1>3. BusyHeld(dockCalls, busy, listed')
  BY DEF DockInv, PageIs, CallsAre, BusyHeld
<1>4. CallsAre'
  BY <1>1, <1>3, CallsStay DEF DockInv
<1>5. ProofIsOfTheShown'
  BY <1>1 DEF DockInv, ProofIsOfTheShown, proofVars
<1>6. QED BY <1>2, <1>4, <1>5 DEF DockInv

LEMMA TypeKeeps == ASSUME DockInv, Type PROVE DockInv'
<1>1. PICK yes \in BOOLEAN : yes = TRUE
  OBVIOUS
<1>2. /\ tabs' = Flag(tabs, EditedTab(front, tabs, activeTab, surface), yes) /\ busy # "open"
      /\ unsaved' \in BOOLEAN /\ UNCHANGED <<front, activeTab, surface, hidden, proofVars, callVars, latest, listed>>
  BY <1>1, Zenon DEF Type
<1>3. Sheet(tabs')
  BY <1>2, FlagIs DEF DockInv, PageIs
<1>4. PageIs'
  BY <1>2, <1>3 DEF DockInv, PageIs
<1>5. Fits(dockCalls, busy, surface, activeTab, tabs')
  BY <1>2 DEF DockInv, CallsAre, Fits
<1>6. CallsAre'
  BY <1>2, <1>5 DEF DockInv, CallsAre, callVars
<1>7. ProofIsOfTheShown'
  BY <1>2 DEF DockInv, ProofIsOfTheShown, proofVars
<1>8. QED BY <1>4, <1>6, <1>7 DEF DockInv

LEMMA UserGoes ==
  ASSUME DockInv,
         \/ OpenSettings
         \/ \E context \in Conversations \union {Away} : SetZone(context)
         \/ \E c \in Conversations : RemoveSession(c)
         \/ ToggleDock
  PROVE  DockInv'
<1>1. Sheet(tabs) /\ Sheet(TabsLeft) /\ \A x : Clean(tabs, x) => Clean(TabsLeft, x)
  BY LeftIs DEF DockInv, PageIs
<1>2. front \in Contexts \union {Away} /\ hidden \subseteq Contexts /\ Conversations \subseteq Contexts
  BY DEF DockInv, PageIs, Contexts
<1>3. CASE OpenSettings
  <2>1. Render(front, TabsLeft, activeTab, surface) /\ UNCHANGED <<hidden, proofVars, callVars, latest, listed>>
    BY <1>3 DEF OpenSettings
  <2>2. QED BY <1>1, <1>2, <2>1, GoingKeeps
<1>4. ASSUME NEW context \in Conversations \union {Away}, SetZone(context) PROVE DockInv'
  <2>1. Render(context, TabsLeft, activeTab, surface) /\ UNCHANGED <<hidden, proofVars, callVars, latest, listed>>
    BY <1>4 DEF SetZone
  <2>2. QED BY <1>1, <1>2, <2>1, GoingKeeps
<1>5. ASSUME NEW c \in Conversations, RemoveSession(c) PROVE DockInv'
  <2>1. PICK place : place = IF front = c THEN Away ELSE front
    OBVIOUS
  <2>2. Render(place, tabs, activeTab, surface) /\ UNCHANGED <<hidden, proofVars, callVars, latest>>
        /\ listed' = listed \ {c}
    BY <1>5, <2>1 DEF RemoveSession
  <2>3. place \in Contexts \union {Away}
    BY <1>2, <2>1
  <2>4. QED BY <1>1, <1>2, <2>2, <2>3, GoingKeeps
<1>6. CASE ToggleDock
  <2>1. UNCHANGED <<shownVars, proofVars, callVars, latest, listed>> /\ InFront # Absent
        /\ hidden' = IF front \in hidden THEN hidden \ {front} ELSE hidden \union {front}
    BY <1>6 DEF ToggleDock
  <2>2. UNCHANGED <<tabs, front, activeTab, surface, unsaved>>
    BY <2>1, ShownStays
  <2>3. TabsOf(tabs, front) # {}
    <3>1. Visible(tabs, activeTab, front) # Absent
      BY <2>1 DEF InFront
    <3>2. CASE activeTab \in OwnIds(tabs, front)
      BY <3>2 DEF OwnIds
    <3>3. CASE activeTab \notin OwnIds(tabs, front)
      BY <3>1, <3>3 DEF Visible
    <3>4. QED BY <3>2, <3>3
  <2>4. front \in Contexts
    <3>1. PICK i \in DOMAIN tabs : tabs[i].owner = front
      BY <2>3 DEF TabsOf
    <3>2. tabs[i] \in Tabs
      BY <1>1, SheetTyped
    <3>3. QED BY <3>1, <3>2, TabTyped
  <2>5. hidden' \subseteq Contexts
    BY <1>2, <2>1, <2>4
  <2>6. PageIs'
    BY <2>1, <2>2, <2>5 DEF DockInv, PageIs
  <2>7. CallsAre'
    BY <2>1, <2>2, CallsStay DEF DockInv, CallsAre
  <2>8. ProofIsOfTheShown'
    BY <2>1, <2>2 DEF DockInv, ProofIsOfTheShown, proofVars
  <2>9. QED BY <2>6, <2>7, <2>8 DEF DockInv
<1>7. QED BY <1>3, <1>4, <1>5, <1>6

(* A step that forgets the presentation                                          *)
LEMMA ForgettingKeeps ==
  ASSUME DockInv, NEW context \in Contexts \union {Away}, NEW dock, Sheet(dock), NEW active \in TabIds,
         Render(context, dock, active, Absent), Forget, hidden' \subseteq Contexts,
         UNCHANGED <<latest, listed>>
  PROVE  DockInv'
<1>1. /\ front' = context /\ activeTab' = active /\ surface' = Absent /\ unsaved' \in BOOLEAN /\ Sheet(tabs')
  BY RenderIs
<1>2. PageIs'
  BY <1>1 DEF DockInv, PageIs, Docs
<1>3. /\ CallsTyped(dockCalls') /\ busy' = "" /\ dockStarted' \in 0..MaxCalls
      /\ \A d, a, q : Fits(dockCalls', busy', d, a, q)
      /\ \A there : BusyHeld(dockCalls', busy', there)
      /\ report' = Absent /\ exported' = Absent
  BY ForgetIs DEF DockInv, CallsAre
<1>4. CallsAre'
  BY <1>3 DEF CallsAre, Words
<1>5. ProofIsOfTheShown'
  BY <1>3 DEF ProofIsOfTheShown
<1>6. QED BY <1>2, <1>4, <1>5 DEF DockInv

(* A step that starts a call and leaves the presentation as it is                *)
LEMMA StartingKeeps ==
  ASSUME DockInv, DockBounds,
         NEW kind \in DockKinds,
         NEW word \in SomeWords, NEW context \in Contexts \union {Away}, NEW doc \in Revised,
         NEW tab \in TabIds, NEW at \in Stages,
         kind \in Opening => context \in Contexts,
         kind = "event" => context \in Conversations,
         Start(kind, word, context, doc, tab, at),
         kind \in Proving => doc = surface,
         kind = "event" => word = "open" /\ activeTab' = <<context, doc[1]>> /\ Clean(tabs', activeTab'),
         front' \in Contexts \union {Away}, Sheet(tabs'), activeTab' \in TabIds, surface' = surface,
         unsaved' \in BOOLEAN, hidden' \subseteq Contexts, listed' = listed,
         latest' \in [Artifacts -> 0..MaxRevisions], UNCHANGED proofVars
  PROVE  DockInv'
<1>1. PageIs'
  BY DEF DockInv, PageIs
<1>2. CallsTyped(dockCalls) /\ dockStarted \in 0..MaxCalls
  BY DEF DockInv, CallsAre
<1>3. PICK d : d = surface'
  OBVIOUS
<1>4. PICK a : a = activeTab'
  OBVIOUS
<1>5. PICK q : q = tabs'
  OBVIOUS
<1>6. kind \in Proving => doc = d
  BY <1>3
<1>7. kind = "event" => word = "open" /\ a = <<context, doc[1]>> /\ Clean(q, a)
  BY <1>4, <1>5
<1>8. /\ CallsTyped(dockCalls') /\ Fits(dockCalls', busy', d, a, q) /\ busy' \in Words
      /\ dockStarted' \in 0..MaxCalls /\ \A there : BusyHeld(dockCalls', busy', there)
  BY <1>2, <1>6, <1>7, StartIs
<1>9. CallsAre'
  BY <1>3, <1>4, <1>5, <1>8 DEF CallsAre
<1>10. ProofIsOfTheShown'
  BY DEF DockInv, ProofIsOfTheShown, proofVars
<1>11. QED BY <1>1, <1>9, <1>10 DEF DockInv

(* The call whose answer is shown                                                *)
LEMMA AnsweringKeeps ==
  ASSUME DockInv, NEW call \in dockCalls, call.newest, CallEnds(call) \/ EventEnds(call),
         call.kind = "event" \/ CallEnds(call), listed' = listed, PageIs', report' = Absent, exported' = Absent
  PROVE  DockInv'
<1>1. /\ dockCalls' = dockCalls \ {call} /\ dockStarted' = dockStarted
      /\ busy' = "" \/ (busy' = busy /\ listed # Conversations)
  <2>1. CASE CallEnds(call)
    BY <2>1 DEF CallEnds
  <2>2. CASE call.kind = "event" /\ EventEnds(call)
    <3>1. call.context \in Conversations
      BY <2>2, CallIs DEF DockInv, CallsAre
    <3>2. call.context \notin listed => listed # Conversations
      BY <3>1
    <3>3. QED BY <2>2, <3>2 DEF EventEnds, InScope
  <2>3. QED BY <2>1, <2>2
<1>2. /\ CallsTyped(dockCalls) /\ busy \in Words /\ dockStarted \in 0..MaxCalls
      /\ Fits(dockCalls, busy, surface, activeTab, tabs) /\ BusyHeld(dockCalls, busy, listed)
  BY DEF DockInv, CallsAre
<1>3. PICK e : e = busy'
  OBVIOUS
<1>4. /\ CallsTyped(dockCalls \ {call}) /\ BusyHeld(dockCalls \ {call}, e, listed)
      /\ \A x, y, z : Fits(dockCalls \ {call}, e, x, y, z)
  BY <1>1, <1>2, <1>3, FewerFit
<1>5. CallsAre'
  BY <1>1, <1>2, <1>3, <1>4 DEF CallsAre, Words
<1>6. ProofIsOfTheShown'
  BY DEF ProofIsOfTheShown
<1>7. QED BY <1>5, <1>6 DEF DockInv

(* A call that ends and shows nothing but a proof                                *)
LEMMA UnshownKeeps ==
  ASSUME DockInv, NEW call \in dockCalls, CallEnds(call) \/ EventEnds(call), call.kind = "event" \/ CallEnds(call),
         UNCHANGED <<shownVars, hidden, listed>>, latest' \in [Artifacts -> 0..MaxRevisions],
         report' \in {Absent, surface}, exported' \in {Absent, surface}
  PROVE  DockInv'
<1>1. /\ dockCalls' = dockCalls \ {call} /\ dockStarted' = dockStarted
      /\ \/ busy' = IF call.newest THEN "" ELSE busy
         \/ busy' = busy /\ listed # Conversations
  <2>1. CASE CallEnds(call)
    BY <2>1 DEF CallEnds
  <2>2. CASE call.kind = "event" /\ EventEnds(call)
    <3>1. call.context \in Conversations
      BY <2>2, CallIs DEF DockInv, CallsAre
    <3>2. call.context \notin listed => listed # Conversations
      BY <3>1
    <3>3. QED BY <2>2, <3>2 DEF EventEnds, InScope
  <2>3. QED BY <2>1, <2>2
<1>2. /\ CallsTyped(dockCalls) /\ busy \in Words /\ dockStarted \in 0..MaxCalls
      /\ Fits(dockCalls, busy, surface, activeTab, tabs) /\ BusyHeld(dockCalls, busy, listed)
  BY DEF DockInv, CallsAre
<1>3. UNCHANGED <<tabs, front, activeTab, surface, unsaved>> /\ hidden' = hidden /\ listed' = listed
  BY ShownStays
<1>4. PICK e : e = busy'
  OBVIOUS
<1>5. /\ CallsTyped(dockCalls \ {call}) /\ Fits(dockCalls \ {call}, e, surface, activeTab, tabs)
      /\ BusyHeld(dockCalls \ {call}, e, listed)
  BY <1>1, <1>2, <1>4, FewerFit
<1>6. busy' \in Words
  BY <1>1, <1>2 DEF Words
<1>7. CallsAre'
  BY <1>1, <1>2, <1>3, <1>4, <1>5, <1>6 DEF CallsAre
<1>8. PageIs'
  BY <1>3 DEF DockInv, PageIs
<1>9. ProofIsOfTheShown'
  BY <1>3 DEF ProofIsOfTheShown
<1>10. QED BY <1>7, <1>8, <1>9 DEF DockInv

LEMMA TabNamesTyped == TabIds = TabNames \union {Absent} /\ Docs = Revised \union {Absent}
BY DEF TabIds, TabNames, Docs, Revised

LEMMA OpenSessionKeeps == ASSUME DockInv, NEW c \in Conversations, OpenSession(c) PROVE DockInv'
<1>1. PICK dock : dock = IF c = front THEN tabs ELSE TabsLeft
  OBVIOUS
<1>2. Render(c, dock, activeTab, Absent) /\ Forget /\ UNCHANGED <<hidden, latest, listed>>
  BY <1>1 DEF OpenSession
<1>3. Sheet(dock)
  BY <1>1, LeftIs DEF DockInv, PageIs
<1>4. c \in Contexts \union {Away} /\ hidden' \subseteq Contexts /\ activeTab \in TabIds
  BY <1>2 DEF DockInv, PageIs, Contexts
<1>5. QED BY <1>2, <1>3, <1>4, ForgettingKeeps

LEMMA ReconnectKeeps == ASSUME DockInv, Reconnect PROVE DockInv'
<1>1. PICK place : place = IF front = Office THEN Office ELSE Away
  OBVIOUS
<1>2. PICK none : none = {}
  OBVIOUS
<1>3. PICK empty : empty = <<>>
  OBVIOUS
<1>4. Render(place, empty, Absent, Absent) /\ Forget /\ hidden' = none /\ UNCHANGED <<latest, listed>>
  BY <1>1, <1>2, <1>3, Zenon DEF Reconnect
<1>5. place \in Contexts \union {Away} /\ hidden' \subseteq Contexts /\ Absent \in TabIds
  BY <1>1, <1>2, <1>4 DEF Contexts, TabIds
<1>6. Sheet(empty)
  BY <1>3, EmptySheet
<1>7. QED BY <1>4, <1>5, <1>6, ForgettingKeeps

(* A tab that the user brings to the front loads its presentation.               *)
LEMMA LoadingKeeps ==
  ASSUME DockInv, DockBounds, NEW dock, Sheet(dock), NEW tab \in Tabs, NEW id \in TabIds,
         Render(front, dock, id, surface), Load(tab), hidden' \subseteq Contexts,
         UNCHANGED <<proofVars, latest, listed>>
  PROVE  DockInv'
<1>1. /\ front' = front /\ activeTab' = id /\ surface' = surface /\ unsaved' \in BOOLEAN /\ Sheet(tabs')
  BY RenderIs
<1>2. /\ tab.owner \in Contexts \union {Away} /\ tab.owner \in Contexts /\ DocOf(tab) \in Revised
      /\ Id(tab) \in TabIds
  BY TabTyped, TabNamesTyped
<1>3. "load" \in DockKinds /\ "load" \notin Proving /\ "open" \in SomeWords /\ "asked" \in Stages /\ "load" # "event"
  BY DEF DockKinds, Proving, SomeWords, Stages, Words
<1>4. Start("load", "open", tab.owner, DocOf(tab), Id(tab), "asked")
  BY DEF Load
<1>5. front' \in Contexts \union {Away} /\ activeTab' \in TabIds /\ latest' \in [Artifacts -> 0..MaxRevisions]
  BY <1>1 DEF DockInv, PageIs
<1>6. QED BY <1>1, <1>2, <1>3, <1>4, <1>5, StartingKeeps

LEMMA SelectTabKeeps == ASSUME DockInv, DockBounds, NEW id, SelectTab(id) PROVE DockInv'
<1>1. PICK i \in DOMAIN tabs : id = Id(tabs[i])
  BY DEF SelectTab, OwnIds, TabsOf
<1>2. Sheet(tabs)
  BY DEF DockInv, PageIs
<1>3. TabAt(tabs, id) \in Tabs /\ id \in TabIds
  BY <1>1, <1>2, TabAtIs, SheetTyped, TabTyped, TabNamesTyped
<1>4. Render(front, TabsLeft, id, surface) /\ Load(TabAt(tabs, id)) /\ UNCHANGED <<proofVars, latest, listed>>
      /\ hidden' = hidden \ {front}
  BY DEF SelectTab
<1>5. hidden' \subseteq Contexts
  BY <1>4 DEF DockInv, PageIs
<1>6. Sheet(TabsLeft)
  BY <1>2, LeftIs
<1>7. QED BY <1>3, <1>4, <1>5, <1>6, LoadingKeeps

LEMMA CloseTabKeeps == ASSUME DockInv, DockBounds, NEW id, CloseTab(id) PROVE DockInv'
<1> DEFINE k == CHOOSE i \in DOMAIN tabs : Id(tabs[i]) = id
           rest == RemoveAt(tabs, k)
           next == Newest(rest, front)
           emptied == TabsOf(rest, front) = {}
<1>1. /\ id \in OwnIds(tabs, front) /\ hidden' = IF emptied THEN hidden \ {front} ELSE hidden
      /\ \/ Render(front, rest, activeTab, surface) /\ UNCHANGED <<proofVars, callVars>>
         \/ ~emptied /\ Render(front, rest, Id(next), surface) /\ Load(next) /\ UNCHANGED proofVars
         \/ Render(front, rest, Absent, Absent) /\ Forget
      /\ UNCHANGED <<latest, listed>>
  BY DEF CloseTab
<1>2. k \in DOMAIN tabs
  <2>1. \E i \in DOMAIN tabs : Id(tabs[i]) = id
    BY <1>1 DEF OwnIds, TabsOf
  <2>2. QED BY <2>1
<1> HIDE DEF k
<1>3. /\ Sheet(tabs) /\ Sheet(rest)
      /\ \A j \in DOMAIN rest : \E i \in DOMAIN tabs : rest[j] = tabs[i]
  BY <1>2, RemovedIs DEF DockInv, PageIs
<1>4. \A x : Clean(tabs, x) => Clean(rest, x)
  <2> HIDE DEF rest
  <2>1. QED BY <1>3 DEF Clean
<1>5. hidden' \subseteq Contexts /\ front \in Contexts \union {Away}
  BY <1>1 DEF DockInv, PageIs
<1>6. ~emptied => next \in Tabs /\ Id(next) \in TabIds
  BY <1>3, NewestIs, TabTyped, TabNamesTyped
<1> HIDE DEF rest, next, emptied
<1>7. CASE Render(front, rest, activeTab, surface) /\ UNCHANGED <<proofVars, callVars>>
  BY <1>1, <1>3, <1>4, <1>5, <1>7, GoingKeeps
<1>8. CASE ~emptied /\ Render(front, rest, Id(next), surface) /\ Load(next) /\ UNCHANGED proofVars
  BY <1>1, <1>3, <1>5, <1>6, <1>8, LoadingKeeps
<1>9. CASE Render(front, rest, Absent, Absent) /\ Forget
  BY <1>1, <1>3, <1>5, <1>9, ForgettingKeeps, TabNamesTyped
<1>10. QED BY <1>1, <1>7, <1>8, <1>9

(* A step of the user's that only starts a call                                  *)
LEMMA AskingKeeps ==
  ASSUME DockInv, DockBounds, NEW kind \in DockKinds, NEW word \in SomeWords, kind # "event",
         NEW context \in Contexts \union {Away}, NEW doc \in Revised, NEW tab \in TabIds, NEW at \in Stages,
         kind \in Opening => context \in Contexts, kind \in Proving => doc = surface,
         Start(kind, word, context, doc, tab, at), UNCHANGED <<shownVars, hidden, proofVars, latest, listed>>
  PROVE  DockInv'
<1>1. UNCHANGED <<tabs, front, activeTab, surface, unsaved>>
  BY ShownStays
<1>2. /\ front' \in Contexts \union {Away} /\ Sheet(tabs') /\ activeTab' \in TabIds
      /\ unsaved' \in BOOLEAN /\ hidden' \subseteq Contexts /\ latest' \in [Artifacts -> 0..MaxRevisions]
  BY <1>1 DEF DockInv, PageIs
<1>3. QED BY <1>1, <1>2, StartingKeeps

LEMMA Words5 ==
  /\ {"open", "import", "verify", "export", "save"} \subseteq DockKinds
  /\ {"open", "import", "verify", "export", "save"} \subseteq SomeWords
  /\ "open" \notin Proving /\ "import" \notin Proving /\ "save" \notin Proving
  /\ "verify" \notin Opening /\ "export" \notin Opening /\ "save" \notin Opening
  /\ "asked" \in Stages /\ "checked" \in Stages
BY DEF DockKinds, SomeWords, Words, Proving, Opening, Stages

(* What the editor shows is a revision.                                          *)
LEMMA EditingIs ==
  ASSUME DockInv, Editing # Absent
  PROVE  surface \in Revised /\ front \in Contexts \union {Away}
<1>1. surface # Absent
  BY DEF Editing, Editor
<1>2. QED BY <1>1, TabNamesTyped DEF DockInv, PageIs

LEMMA UserAsks ==
  ASSUME DockInv, DockBounds,
         \/ VerifyActive \/ Export \/ Save
         \/ \E a \in Artifacts : OpenArtifact(a) \/ \E context \in Contexts : ImportArtifact(a, context)
  PROVE  DockInv'
<1>1. Absent \in TabIds
  BY TabNamesTyped
<1>2. latest \in [Artifacts -> 0..MaxRevisions]
  BY DEF DockInv, PageIs
<1>3. CASE VerifyActive
  <2>1. Editing # Absent /\ Start("verify", "verify", front, surface, Absent, "asked")
        /\ UNCHANGED <<shownVars, hidden, proofVars, latest, listed>>
    BY <1>3, Zenon DEF VerifyActive
  <2>2. surface \in Revised /\ front \in Contexts \union {Away}
    BY <2>1, EditingIs
  <2>3. QED BY <1>1, <2>1, <2>2, Words5, AskingKeeps
<1>4. CASE Export
  <2>1. PICK at : at = IF report = surface THEN "checked" ELSE "asked"
    OBVIOUS
  <2>2. Editing # Absent /\ Start("export", "export", front, surface, Absent, at)
        /\ UNCHANGED <<shownVars, hidden, proofVars, latest, listed>>
    BY <1>4, <2>1, Zenon DEF Export
  <2>3. surface \in Revised /\ front \in Contexts \union {Away}
    BY <2>2, EditingIs
  <2>4. at \in Stages
    BY <2>1, Words5
  <2>5. QED BY <1>1, <2>2, <2>3, <2>4, Words5, AskingKeeps
<1>5. CASE Save
  <2>1. PICK tab : tab = EditedTab(front, tabs, activeTab, surface)
    OBVIOUS
  <2>2. Editing # Absent /\ Start("save", "save", front, surface, tab, "asked")
        /\ UNCHANGED <<shownVars, hidden, proofVars, latest, listed>>
    BY <1>5, <2>1, Zenon DEF Save
  <2>3. surface \in Revised /\ front \in Contexts \union {Away}
    BY <2>2, EditingIs
  <2>4. tab \in TabIds
    BY <2>1, EditedTabTyped, TabNamesTyped DEF DockInv, PageIs
  <2>5. "save" # "event"
    OBVIOUS
  <2>6. QED BY <2>2, <2>3, <2>4, <2>5, Words5, AskingKeeps
<1>6. ASSUME NEW a \in Artifacts, OpenArtifact(a) PROVE DockInv'
  <2>1. PICK doc : doc = <<a, latest[a]>>
    OBVIOUS
  <2>2. front \in Contexts /\ Start("open", "open", front, doc, Absent, "asked")
        /\ UNCHANGED <<shownVars, hidden, proofVars, latest, listed>>
    BY <1>6, <2>1, Zenon DEF OpenArtifact
  <2>3. doc \in Revised
    BY <1>2, <2>1 DEF Revised, DockBounds
  <2>4. QED BY <1>1, <2>2, <2>3, Words5, AskingKeeps
<1>7. ASSUME NEW a \in Artifacts, NEW context \in Contexts, ImportArtifact(a, context) PROVE DockInv'
  <2>1. PICK doc : doc = <<a, 1>>
    OBVIOUS
  <2>2. Start("import", "import", context, doc, Absent, "asked")
        /\ UNCHANGED <<shownVars, hidden, proofVars, latest, listed>>
    BY <1>7, <2>1, Zenon DEF ImportArtifact
  <2>3. doc \in Revised
    BY <2>1 DEF Revised
  <2>4. QED BY <1>1, <2>2, <2>3, Words5, AskingKeeps
<1>8. QED BY <1>3, <1>4, <1>5, <1>6, <1>7

LEMMA AgentKeeps ==
  ASSUME DockInv, DockBounds, NEW c \in Conversations, NEW a \in Artifacts, AgentWrites(c, a)
  PROVE  DockInv'
<1> DEFINE id == <<c, a>>
           doc == <<a, latest[a] + 1>>
           tab == TabFor(c, doc)
           next == Upsert(tabs, tab)
<1>1. /\ latest[a] < MaxRevisions /\ latest' = [latest EXCEPT ![a] = latest[a] + 1]
      /\ \/ UNCHANGED <<shownVars, callVars>>
         \/ Render(front, next, id, surface) /\ Start("event", "open", c, doc, Absent, "asked")
         \/ Render(front, next, activeTab, surface) /\ UNCHANGED callVars
      /\ UNCHANGED <<hidden, proofVars, listed>>
  BY Zenon DEF AgentWrites
<1>2. latest \in [Artifacts -> 0..MaxRevisions] /\ Sheet(tabs) /\ front \in Contexts \union {Away}
      /\ hidden' \subseteq Contexts /\ listed' = listed
  BY <1>1 DEF DockInv, PageIs
<1>3. latest[a] + 1 \in 0..MaxRevisions /\ latest[a] + 1 \in Nat
  BY <1>1, <1>2 DEF DockBounds
<1>4. latest' \in [Artifacts -> 0..MaxRevisions]
  BY <1>1, <1>2, <1>3, Zenon
<1>5. doc \in Revised /\ doc[1] = a /\ c \in Contexts /\ c \in Contexts \union {Away}
  BY <1>3 DEF Revised, Contexts
<1>6. id \in TabIds /\ Absent \in TabIds
  BY <1>5, TabNamesTyped DEF TabNames
<1> HIDE DEF doc
<1>7. tab \in Tabs /\ Id(tab) = id /\ ~tab.dirty
  BY <1>5, TabForTyped
<1> HIDE DEF tab
<1>8. Sheet(next) /\ \A x : Clean(tabs, x) => Clean(next, x)
  BY <1>2, <1>7, UpsertIs
<1>9. CASE UNCHANGED <<shownVars, callVars>>
  <2>1. UNCHANGED <<tabs, front, activeTab, surface, unsaved>>
    BY <1>9, ShownStays
  <2>2. PageIs'
    BY <1>2, <1>4, <2>1 DEF DockInv, PageIs
  <2>3. CallsAre'
    BY <1>2, <1>9, <2>1, CallsStay DEF DockInv, CallsAre
  <2>4. ProofIsOfTheShown'
    BY <1>1, <2>1 DEF DockInv, ProofIsOfTheShown, proofVars
  <2>5. QED BY <2>2, <2>3, <2>4 DEF DockInv
<1>10. CASE Render(front, next, id, surface) /\ Start("event", "open", c, doc, Absent, "asked")
  <2>1. /\ front' = front /\ activeTab' = id /\ surface' = surface /\ unsaved' \in BOOLEAN
        /\ Sheet(tabs') /\ \A x : Clean(next, x) => Clean(tabs', x)
    BY <1>8, <1>10, RenderIs
  <2>2. Clean(next, id)
    BY <1>2, <1>7, UpsertIs
  <2>3. Clean(tabs', activeTab') /\ activeTab' = <<c, doc[1]>>
    BY <1>5, <2>1, <2>2
  <2>4. "event" \in DockKinds /\ "event" \notin Proving /\ "open" \in SomeWords /\ "asked" \in Stages
    BY DEF DockKinds, Proving, SomeWords, Words, Stages
  <2>5. Start("event", "open", c, doc, Absent, "asked")
    BY <1>10
  <2>6. UNCHANGED proofVars
    BY <1>1
  <2> HIDE DEF id, next
  <2>7. QED BY <1>2, <1>4, <1>5, <1>6, <2>1, <2>3, <2>4, <2>5, <2>6, StartingKeeps
<1>11. CASE Render(front, next, activeTab, surface) /\ UNCHANGED callVars
  <2>1. /\ front' = front /\ activeTab' = activeTab /\ surface' = surface /\ unsaved' \in BOOLEAN
        /\ Sheet(tabs') /\ \A x : Clean(next, x) => Clean(tabs', x)
    BY <1>8, <1>11, RenderIs
  <2>2. PageIs'
    BY <1>2, <1>4, <2>1 DEF DockInv, PageIs
  <2>3. CallsAre'
    BY <1>2, <1>8, <1>11, <2>1, CallsStay DEF DockInv, CallsAre
  <2>4. ProofIsOfTheShown'
    BY <1>1, <2>1 DEF DockInv, ProofIsOfTheShown, proofVars
  <2>5. QED BY <2>2, <2>3, <2>4 DEF DockInv
<1>12. QED BY <1>1, <1>9, <1>10, <1>11

(* A call goes on to its next answer.                                            *)
LEMMA ReplacedFit ==
  ASSUME NEW C, CallsTyped(C), NEW call \in C, NEW e, e \in CallSet, e.newest = call.newest,
         e.kind = call.kind, e.context = call.context, e.doc = call.doc \/ call.kind = "save",
         NEW b, NEW d, NEW active, NEW q, NEW there, Fits(C, b, d, active, q), BusyHeld(C, b, there)
  PROVE  LET D == (C \ {call}) \union {e}
         IN  CallsTyped(D) /\ Fits(D, b, d, active, q) /\ BusyHeld(D, b, there)
<1> DEFINE D == (C \ {call}) \union {e}
<1>1. CallsTyped(D)
  BY DEF CallsTyped
<1>2. \A c \in D : (c \in C /\ c # call) \/ c = e
  OBVIOUS
<1>3. e \in D /\ \A c \in C : c = call \/ c \in D
  OBVIOUS
<1> HIDE DEF D
<1>4. \A c, f \in D : c.newest /\ f.newest => c = f
  BY <1>2 DEF Fits
<1>5. Fits(D, b, d, active, q)
  BY <1>2, <1>4 DEF Fits
<1>6. BusyHeld(D, b, there)
  BY <1>3 DEF BusyHeld
<1>7. QED BY <1>1, <1>5, <1>6 DEF D

LEMMA GoingOnKeeps ==
  ASSUME DockInv, NEW call \in dockCalls, NEW e, e \in CallSet, e.newest = call.newest,
         e.kind = call.kind, e.context = call.context, e.doc = call.doc \/ call.kind = "save",
         dockCalls' = (dockCalls \ {call}) \union {e}, UNCHANGED <<shownVars, hidden, busy, dockStarted, listed>>,
         latest' \in [Artifacts -> 0..MaxRevisions],
         report' \in {Absent, surface}, exported' \in {Absent, surface}
  PROVE  DockInv'
<1>1. UNCHANGED <<tabs, front, activeTab, surface, unsaved>>
  BY ShownStays
<1>2. CallsTyped(dockCalls') /\ Fits(dockCalls', busy, surface, activeTab, tabs) /\ BusyHeld(dockCalls', busy, listed)
  BY ReplacedFit DEF DockInv, CallsAre
<1>3. CallsAre'
  BY <1>1, <1>2 DEF DockInv, CallsAre
<1>4. PageIs'
  BY <1>1 DEF DockInv, PageIs
<1>5. ProofIsOfTheShown'
  BY <1>1 DEF ProofIsOfTheShown
<1>6. QED BY <1>3, <1>4, <1>5 DEF DockInv

LEMMA CallFailsKeeps == ASSUME DockInv, NEW call \in dockCalls, CallFails(call) PROVE DockInv'
<1>1. /\ CallEnds(call) \/ EventEnds(call)
      /\ call.kind = "event" \/ CallEnds(call)
      /\ UNCHANGED <<shownVars, hidden, proofVars, latest, listed>>
  BY DEF CallFails
<1>2. latest' \in [Artifacts -> 0..MaxRevisions] /\ report' \in {Absent, surface} /\ exported' \in {Absent, surface}
  BY <1>1 DEF DockInv, PageIs, ProofIsOfTheShown, proofVars
<1>3. QED BY <1>1, <1>2, UnshownKeeps

LEMMA DocAnswerIs ==
  ASSUME DockInv, DockBounds, NEW call \in dockCalls, NEW doc \in DocAnswers(call)
  PROVE  doc \in Revised /\ doc[2] \in Nat /\ doc \in Docs
<1>1. call.doc[1] \in Artifacts /\ call.doc[2] \in Nat
  BY CallIs DEF DockInv, CallsAre
<1>2. latest[call.doc[1]] \in Nat
  BY <1>1 DEF DockInv, PageIs, DockBounds
<1>3. PICK r \in {call.doc[2]} \union ({latest[call.doc[1]]} \ {0}) : doc = <<call.doc[1], r>>
  BY DEF DocAnswers
<1>4. r \in Nat
  BY <1>1, <1>2, <1>3
<1>5. QED BY <1>1, <1>3, <1>4, TabNamesTyped DEF Revised

LEMMA ImportedIs ==
  ASSUME DockInv, DockBounds, NEW call \in dockCalls
  PROVE  Imported(call) \in [Artifacts -> 0..MaxRevisions]
<1>1. 1 \in 0..MaxRevisions
  BY DEF DockBounds
<1>2. QED BY <1>1 DEF Imported, DockInv, PageIs

LEMMA LoadedKeeps ==
  ASSUME DockInv, DockBounds, NEW call \in dockCalls, NEW doc \in DocAnswers(call), Loaded(call, doc)
  PROVE  DockInv'
<1> DEFINE old == TabAt(tabs, call.tab)
           new == [old EXCEPT !.revision = doc[2]]
           dock == IF call.tab \in IdsOf(tabs) THEN Put(tabs, new) ELSE tabs
<1>1. /\ call.newest /\ Render(front, dock, activeTab, doc) /\ report' = Absent /\ exported' = Absent
      /\ CallEnds(call) /\ UNCHANGED <<hidden, latest, listed>>
  BY DEF Loaded, Passed
<1>2. Sheet(tabs)
  BY DEF DockInv, PageIs
<1>3. doc \in Docs /\ doc[2] \in Nat
  BY DocAnswerIs
<1>4. call.tab \in IdsOf(tabs) => new \in Tabs
  <2>1. SUFFICES ASSUME call.tab \in IdsOf(tabs) PROVE new \in Tabs
    OBVIOUS
  <2>2. old \in Tabs
    BY <1>2, <2>1, TabOfId
  <2> HIDE DEF old
  <2>3. QED BY <1>3, <2>2 DEF Tabs
<1> HIDE DEF new
<1>5. Sheet(dock)
  BY <1>2, <1>4, PutIs
<1> HIDE DEF dock
<1>6. /\ front' = front /\ activeTab' = activeTab /\ surface' = doc /\ unsaved' \in BOOLEAN /\ Sheet(tabs')
  BY <1>1, <1>5, RenderIs
<1>7. PageIs'
  BY <1>1, <1>3, <1>6 DEF DockInv, PageIs
<1>8. listed' = listed
  BY <1>1
<1>9. QED BY <1>1, <1>7, <1>8, AnsweringKeeps

LEMMA OpenedKeeps ==
  ASSUME DockInv, DockBounds, NEW call \in dockCalls, NEW doc \in DocAnswers(call), Opened(call, doc)
  PROVE  DockInv'
<1> DEFINE tab == TabFor(call.context, doc)
           dockAt(place) == IF place = Office THEN TabsLeft ELSE tabs
<1>1. /\ call.kind \in {"open", "event", "import"} /\ call.newest /\ latest' = Imported(call)
      /\ hidden' = hidden \ {call.context} /\ report' = Absent /\ exported' = Absent
      /\ CallEnds(call) \/ EventEnds(call)
      /\ call.kind = "event" \/ CallEnds(call)
      /\ listed' = listed
      /\ \E place : /\ place \in {front, Office, Away}
                    /\ Render(place, Upsert(dockAt(place), tab), Id(tab), doc)
  <2> DEFINE refused == call.kind = "import" /\ Dirty(tabs, InFront)
             places == CASE call.context # Office -> {front}
                         [] call.kind = "import" -> {Office} \union IF refused THEN {Away} ELSE {}
                         [] OTHER -> {IF front = Office THEN Office ELSE Away}
  <2>1. /\ call.kind \in {"open", "event", "import"} /\ call.newest /\ latest' = Imported(call)
        /\ hidden' = hidden \ {call.context} /\ report' = Absent /\ exported' = Absent
        /\ IF call.kind = "event" THEN EventEnds(call) ELSE CallEnds(call)
        /\ UNCHANGED listed
        /\ \E place \in places : Render(place, Upsert(dockAt(place), tab), Id(tab), doc)
    BY Zenon DEF Opened, Passed
  <2>2. \A place \in places : place \in {front, Office, Away}
    OBVIOUS
  <2> HIDE DEF places, tab, dockAt
  <2>3. QED BY <2>1, <2>2, Zenon
<1>2. Sheet(tabs) /\ Sheet(TabsLeft) /\ front \in Contexts \union {Away} /\ Office \in Contexts
  BY LeftIs DEF DockInv, PageIs, Contexts
<1>3. call.context \in Contexts
  BY <1>1, CallIs DEF DockInv, CallsAre
<1>4. doc \in Revised /\ doc \in Docs
  BY DocAnswerIs
<1>5. tab \in Tabs /\ ~tab.dirty /\ Id(tab) \in TabIds
  BY <1>3, <1>4, TabForTyped, TabTyped, TabNamesTyped
<1> HIDE DEF tab
<1>6. PICK place \in {front, Office, Away} : Render(place, Upsert(dockAt(place), tab), Id(tab), doc)
  BY <1>1
<1>7. Sheet(dockAt(place))
  BY <1>2
<1> HIDE DEF dockAt
<1>8. Sheet(Upsert(dockAt(place), tab))
  BY <1>5, <1>7, UpsertIs
<1>9. /\ front' = place /\ activeTab' = Id(tab) /\ surface' = doc /\ unsaved' \in BOOLEAN /\ Sheet(tabs')
  BY <1>6, <1>8, RenderIs
<1>10. latest' \in [Artifacts -> 0..MaxRevisions]
  BY <1>1, ImportedIs
<1>11. PageIs'
  <2>1. place \in Contexts \union {Away}
    BY <1>2
  <2>2. hidden' \subseteq Contexts /\ listed' \subseteq Conversations
    BY <1>1 DEF DockInv, PageIs
  <2>3. QED BY <1>4, <1>5, <1>9, <1>10, <2>1, <2>2 DEF PageIs
<1>12. QED BY <1>1, <1>11, AnsweringKeeps

LEMMA VerifiedKeeps == ASSUME DockInv, NEW call \in dockCalls, Verified(call) PROVE DockInv'
<1>1. /\ call.kind \in Proving /\ report' = (IF call.newest THEN call.doc ELSE report)
      /\ \/ CallEnds(call)
         \/ /\ dockCalls' = (dockCalls \ {call}) \union {[call EXCEPT !.at = "checked"]}
            /\ UNCHANGED <<busy, dockStarted>>
      /\ UNCHANGED <<shownVars, hidden, exported, latest, listed>>
  BY DEF Verified, Proving
<1>2. latest' \in [Artifacts -> 0..MaxRevisions] /\ report \in {Absent, surface} /\ exported' \in {Absent, surface}
  BY <1>1 DEF DockInv, PageIs, ProofIsOfTheShown
<1>3. call.newest => call.doc = surface
  BY <1>1 DEF DockInv, CallsAre, Fits, Proving
<1>4. report' \in {Absent, surface}
  BY <1>1, <1>2, <1>3
<1>5. CASE CallEnds(call)
  BY <1>1, <1>2, <1>4, <1>5, UnshownKeeps
<1>6. CASE /\ dockCalls' = (dockCalls \ {call}) \union {[call EXCEPT !.at = "checked"]}
           /\ UNCHANGED <<busy, dockStarted>>
  <2>1. PICK e : e = [call EXCEPT !.at = "checked"]
    OBVIOUS
  <2>2. call \in CallSet
    BY CallIs DEF DockInv, CallsAre
  <2>3. e \in CallSet /\ e.newest = call.newest /\ e.kind = call.kind /\ e.context = call.context /\ e.doc = call.doc
    BY <2>1, <2>2 DEF CallSet
  <2>4. dockCalls' = (dockCalls \ {call}) \union {e}
    BY <1>6, <2>1, Zenon
  <2>5. UNCHANGED <<shownVars, hidden, busy, dockStarted, listed>>
    BY <1>1, <1>6
  <2>6. QED BY <1>2, <1>4, <2>3, <2>4, <2>5, GoingOnKeeps
<1>7. QED BY <1>1, <1>5, <1>6

LEMMA ExportedKeeps == ASSUME DockInv, NEW call \in dockCalls, Exported(call) PROVE DockInv'
<1>1. /\ call.kind \in Proving /\ exported' = (IF call.newest THEN call.doc ELSE exported)
      /\ CallEnds(call) /\ UNCHANGED <<shownVars, hidden, report, latest, listed>>
  BY DEF Exported, Proving
<1>2. latest' \in [Artifacts -> 0..MaxRevisions] /\ report' \in {Absent, surface} /\ exported \in {Absent, surface}
  BY <1>1 DEF DockInv, PageIs, ProofIsOfTheShown
<1>3. call.newest => call.doc = surface
  BY <1>1 DEF DockInv, CallsAre, Fits, Proving
<1>4. exported' \in {Absent, surface}
  BY <1>1, <1>2, <1>3
<1>5. QED BY <1>1, <1>2, <1>4, UnshownKeeps

LEMMA ImportedUnseenKeeps ==
  ASSUME DockInv, DockBounds, NEW call \in dockCalls, ImportedUnseen(call) PROVE DockInv'
<1>1. /\ latest' = Imported(call) /\ CallEnds(call) /\ UNCHANGED <<shownVars, hidden, proofVars, listed>>
  BY DEF ImportedUnseen
<1>2. latest' \in [Artifacts -> 0..MaxRevisions]
  BY <1>1, ImportedIs
<1>3. report' \in {Absent, surface} /\ exported' \in {Absent, surface}
  BY <1>1 DEF DockInv, ProofIsOfTheShown, proofVars
<1>4. QED BY <1>1, <1>2, <1>3, UnshownKeeps

LEMMA ServeSavesKeeps ==
  ASSUME DockInv, DockBounds, NEW call \in dockCalls, ServeSaves(call) PROVE DockInv'
<1> DEFINE a == call.doc[1]
           n == latest[a] + 1
<1>1. /\ call.kind = "save" /\ latest[a] < MaxRevisions /\ latest' = [latest EXCEPT ![a] = n]
      /\ dockCalls' = (dockCalls \ {call}) \union {[call EXCEPT !.at = "accepted", !.doc = <<a, n>>]}
      /\ UNCHANGED <<shownVars, hidden, proofVars, busy, dockStarted, listed>>
  BY Zenon DEF ServeSaves
<1>2. call \in CallSet /\ a \in Artifacts
  BY CallIs DEF DockInv, CallsAre
<1>3. latest \in [Artifacts -> 0..MaxRevisions]
  BY DEF DockInv, PageIs
<1>4. n \in 0..MaxRevisions /\ n \in Nat
  BY <1>1, <1>2, <1>3 DEF DockBounds
<1>5. <<a, n>> \in Revised
  BY <1>2, <1>4 DEF Revised
<1> HIDE DEF a, n
<1>6. PICK doc \in Revised : doc = <<a, n>>
  BY <1>5
<1>7. PICK e : e = [call EXCEPT !.at = "accepted", !.doc = doc]
  OBVIOUS
<1>8. e \in CallSet /\ e.newest = call.newest /\ e.kind = call.kind /\ e.context = call.context
  BY <1>2, <1>7 DEF CallSet
<1>9. dockCalls' = (dockCalls \ {call}) \union {e}
  BY <1>1, <1>6, <1>7, Zenon
<1>10. latest' \in [Artifacts -> 0..MaxRevisions]
  BY <1>1, <1>3, <1>4, Zenon
<1>11. report' \in {Absent, surface} /\ exported' \in {Absent, surface}
  BY <1>1 DEF DockInv, ProofIsOfTheShown, proofVars
<1>12. QED BY <1>1, <1>8, <1>9, <1>10, <1>11, GoingOnKeeps

LEMMA SavedKeeps ==
  ASSUME DockInv, DockBounds, NEW call \in dockCalls, NEW doc \in DocAnswers(call), Saved(call, doc)
  PROVE  DockInv'
<1> DEFINE old == TabAt(tabs, call.tab)
           new == [old EXCEPT !.revision = doc[2], !.dirty = FALSE]
           dock == IF call.tab \notin IdsOf(tabs) THEN tabs ELSE Put(tabs, new)
<1>1. /\ CallEnds(call) /\ UNCHANGED <<hidden, latest, listed>>
      /\ \/ call.newest /\ Render(front, dock, activeTab, doc) /\ report' = Absent /\ exported' = Absent
         \/ ~call.newest /\ UNCHANGED <<shownVars, proofVars>>
  BY Zenon DEF Saved
<1>2. Sheet(tabs) /\ latest' \in [Artifacts -> 0..MaxRevisions]
  BY <1>1 DEF DockInv, PageIs
<1>3. doc \in Docs /\ doc[2] \in Nat
  BY DocAnswerIs
<1>4. CASE call.newest /\ Render(front, dock, activeTab, doc) /\ report' = Absent /\ exported' = Absent
  <2>1. call.tab \in IdsOf(tabs) => new \in Tabs
    <3>1. SUFFICES ASSUME call.tab \in IdsOf(tabs) PROVE new \in Tabs
      OBVIOUS
    <3>2. old \in Tabs
      BY <1>2, <3>1, TabOfId
    <3>3. PICK no \in BOOLEAN : no = FALSE
      OBVIOUS
    <3> HIDE DEF old
    <3>4. new = [old EXCEPT !.revision = doc[2], !.dirty = no]
      BY <3>3, Zenon
    <3> HIDE DEF new
    <3>5. QED BY <1>3, <3>2, <3>3, <3>4 DEF Tabs
  <2> HIDE DEF new
  <2>2. Sheet(dock)
    BY <1>2, <2>1, PutIs
  <2> HIDE DEF dock
  <2>3. /\ front' = front /\ activeTab' = activeTab /\ surface' = doc /\ unsaved' \in BOOLEAN /\ Sheet(tabs')
    BY <1>4, <2>2, RenderIs
  <2>4. PageIs'
    BY <1>1, <1>2, <1>3, <2>3 DEF DockInv, PageIs
  <2>5. listed' = listed
    BY <1>1
  <2>6. QED BY <1>1, <1>4, <2>4, <2>5, AnsweringKeeps
<1>5. CASE ~call.newest /\ UNCHANGED <<shownVars, proofVars>>
  <2>1. report' \in {Absent, surface} /\ exported' \in {Absent, surface}
    BY <1>5 DEF DockInv, ProofIsOfTheShown, proofVars
  <2>2. UNCHANGED <<shownVars, hidden, listed>>
    BY <1>1, <1>5
  <2>3. QED BY <1>1, <1>2, <2>1, <2>2, UnshownKeeps
<1>6. QED BY <1>1, <1>4, <1>5

LEMMA CallAnsweredKeeps ==
  ASSUME DockInv, DockBounds, NEW call \in dockCalls, CallAnswered(call) PROVE DockInv'
<1>1. CallFails(call) \/ Dropped(call) => DockInv'
  BY CallFailsKeeps DEF Dropped
<1>2. (\E doc \in DocAnswers(call) : Loaded(call, doc) \/ Opened(call, doc) \/ Saved(call, doc)) => DockInv'
  BY LoadedKeeps, OpenedKeeps, SavedKeeps
<1>3. ImportedUnseen(call) \/ Verified(call) \/ Exported(call) \/ ServeSaves(call) => DockInv'
  BY ImportedUnseenKeeps, VerifiedKeeps, ExportedKeeps, ServeSavesKeeps
<1>4. QED BY <1>1, <1>2, <1>3 DEF CallAnswered

LEMMA NextDockKeeps == ASSUME DockInv, DockBounds, [NextDock]_dockVars PROVE DockInv'
<1>1. CASE UNCHANGED dockVars
  <2>1. /\ UNCHANGED <<shownVars, hidden, proofVars, callVars, latest, listed>>
    BY <1>1 DEF dockVars
  <2>2. UNCHANGED <<tabs, front, activeTab, surface, unsaved>>
    BY <2>1, ShownStays
  <2>3. PageIs'
    BY <2>1, <2>2 DEF DockInv, PageIs
  <2>4. CallsAre'
    BY <2>1, <2>2, CallsStay DEF DockInv, CallsAre
  <2>5. ProofIsOfTheShown'
    BY <2>1, <2>2 DEF DockInv, ProofIsOfTheShown, proofVars
  <2>6. QED BY <2>3, <2>4, <2>5 DEF DockInv
<1>2. Type => DockInv'
  BY TypeKeeps
<1>3. OpenSettings \/ ToggleDock => DockInv'
  BY UserGoes
<1>4. (\E context \in Conversations \union {Away} : SetZone(context)) => DockInv'
  BY UserGoes
<1>5. (\E c \in Conversations : OpenSession(c) \/ RemoveSession(c)) => DockInv'
  BY UserGoes, OpenSessionKeeps
<1>6. Reconnect => DockInv'
  BY ReconnectKeeps
<1>7. VerifyActive \/ Export \/ Save => DockInv'
  BY UserAsks
<1>8. (\E id \in IdsOf(tabs) : SelectTab(id) \/ CloseTab(id)) => DockInv'
  BY SelectTabKeeps, CloseTabKeeps
<1>9. (\E a \in Artifacts : \/ OpenArtifact(a)
                            \/ \E context \in Contexts : ImportArtifact(a, context)
                            \/ \E c \in Conversations : AgentWrites(c, a)) => DockInv'
  BY UserAsks, AgentKeeps
<1>10. (\E call \in dockCalls : CallAnswered(call)) => DockInv'
  BY CallAnsweredKeeps
<1>11. QED BY <1>1, <1>2, <1>3, <1>4, <1>5, <1>6, <1>7, <1>8, <1>9, <1>10 DEF NextDock

-------------------------------------------------------------------------------
(* "Hara kept your draft"                                                        *)

LEMMA NamesAreSome == ASSUME NEW id \in TabNames PROVE id # Absent
<1>1. PICK c \in Contexts, a \in Artifacts : id = <<c, a>>
  BY DEF TabNames
<1>2. <<c, a>> # <<>>
  OBVIOUS
<1>3. QED BY <1>1, <1>2 DEF Absent

(* The draft is that of the tab that the user has selected.                      *)
LEMMA MarkedIs ==
  ASSUME DockInv, Marked, activeTab = InFront
  PROVE  /\ EditedTab(front, tabs, activeTab, surface) = activeTab /\ activeTab # Absent
         /\ \E i \in DOMAIN tabs : Id(tabs[i]) = activeTab /\ tabs[i].dirty /\ tabs[i].owner = front
<1> DEFINE e == EditedTab(front, tabs, activeTab, surface)
<1>1. Sheet(tabs)
  BY DEF DockInv, PageIs
<1>2. e \in IdsOf(tabs) /\ TabAt(tabs, e).dirty
  BY DEF Marked, Dirty
<1>3. PICK i \in DOMAIN tabs : tabs[i] = TabAt(tabs, e) /\ Id(tabs[i]) = e
  <2> HIDE DEF e
  <2>1. QED BY <1>1, <1>2, TabOfId
<1>4. tabs[i] \in Tabs /\ e \in TabNames /\ e # Absent
  BY <1>1, <1>3, SheetTyped, TabTyped, NamesAreSome
<1>5. e = activeTab
  BY <1>4 DEF EditedTab, InFront
<1>6. tabs[i].owner = front
  <2>1. PICK t \in Tabs : Id(t) = activeTab /\ t.owner = front
    <3>1. CASE activeTab \in OwnIds(tabs, front)
      BY <1>1, <3>1, SheetTyped DEF OwnIds, TabsOf
    <3>2. CASE activeTab \notin OwnIds(tabs, front)
      <4>1. TabsOf(tabs, front) # {} /\ activeTab = Id(Newest(tabs, front))
        BY <1>4, <1>5, <3>2 DEF InFront, Visible
      <4>2. QED BY <1>1, <4>1, NewestIs
    <3>3. QED BY <3>1, <3>2
  <2>2. <<t.owner, t.artifact>> = <<tabs[i].owner, tabs[i].artifact>>
    BY <1>3, <1>4, <1>5, <2>1, TabTyped
  <2>3. QED BY <2>1, <2>2
<1>7. QED BY <1>2, <1>3, <1>4, <1>5, <1>6

LEMMA ShownStaysMarked ==
  ASSUME UNCHANGED shownVars, Marked
  PROVE  Marked' /\ Editing' = Editing
<1>1. UNCHANGED <<tabs, front, activeTab, surface, unsaved>>
  BY ShownStays
<1>2. QED BY <1>1 DEF Marked, Editing

LEMMA AgentWritesKeeps ==
  ASSUME DockInv, DockBounds, NEW c \in Conversations, NEW a \in Artifacts, AgentWrites(c, a),
         Marked, activeTab = InFront
  PROVE  Marked' /\ Editing' = Editing
<1> DEFINE id == <<c, a>>
           behind == Visible(tabs, activeTab, c)
           tab == TabFor(c, <<a, latest[a] + 1>>)
           next == Upsert(tabs, tab)
<1>1. /\ EditedTab(front, tabs, activeTab, surface) = activeTab /\ activeTab # Absent /\ Sheet(tabs)
      /\ \E i \in DOMAIN tabs : Id(tabs[i]) = activeTab /\ tabs[i].dirty /\ tabs[i].owner = front
  BY MarkedIs DEF DockInv, PageIs
<1>2. PICK i \in DOMAIN tabs : Id(tabs[i]) = activeTab /\ tabs[i].dirty /\ tabs[i].owner = front
  BY <1>1
<1>3. Dirty(tabs, activeTab)
  BY <1>1, <1>2, TabAtIs DEF Dirty
<1>4. front = c => behind = activeTab
  BY DEF InFront
<1>5. CASE Dirty(tabs, behind) /\ behind = id
  <2>1. UNCHANGED shownVars
    BY <1>5, Zenon DEF AgentWrites
  <2>2. QED BY <2>1, ShownStaysMarked
<1>6. CASE ~(Dirty(tabs, behind) /\ behind = id)
  <2>1. ~(front = c /\ c \notin hidden /\ ~Dirty(tabs, behind))
    BY <1>3, <1>4
  <2>2. Render(front, next, activeTab, surface)
    BY <1>6, <2>1, Zenon DEF AgentWrites
  <2>3. id # activeTab
    <3>1. SUFFICES ASSUME id = activeTab PROVE FALSE
      OBVIOUS
    <3>2. tabs[i] \in Tabs
      BY <1>1, SheetTyped
    <3>3. <<c, a>> = <<tabs[i].owner, tabs[i].artifact>>
      BY <1>2, <3>1, <3>2, TabTyped
    <3>4. front = c
      BY <1>2, <3>3
    <3>5. QED BY <1>3, <1>4, <1>6, <3>1, <3>4
  <2>4. tab \in Tabs /\ Id(tab) = id /\ ~tab.dirty
    <3> DEFINE doc == <<a, latest[a] + 1>>
    <3>1. doc \in Revised /\ doc[1] = a
      BY DEF DockInv, PageIs, Revised, DockBounds
    <3>2. c \in Contexts
      BY DEF Contexts
    <3> HIDE DEF doc
    <3>3. QED BY <3>1, <3>2, TabForTyped DEF doc
  <2> HIDE DEF tab
  <2>5. /\ Sheet(next)
        /\ \A k \in DOMAIN tabs : tabs[k].dirty /\ Id(tabs[k]) # Id(tab) =>
             \E j \in DOMAIN next : next[j] = tabs[k]
    BY <1>1, <2>4, UpsertIs
  <2> HIDE DEF next, id
  <2>6. PICK j \in DOMAIN next : next[j] = tabs[i]
    BY <1>2, <2>3, <2>4, <2>5
  <2>7. activeTab \in OwnIds(next, front) /\ Dirty(next, activeTab)
    BY <1>2, <2>5, <2>6, TabAtIs DEF OwnIds, TabsOf, Dirty
  <2>8. activeTab \in OwnIds(tabs, front)
    BY <1>2 DEF OwnIds, TabsOf
  <2>9. Visible(next, activeTab, front) = activeTab /\ Visible(tabs, activeTab, front) = activeTab
    BY <2>7, <2>8 DEF Visible
  <2>10. Editor(front, next, activeTab, surface) = Editing
    BY <2>9, Zenon DEF Editor, Editing
  <2>11. EditedTab(front, next, activeTab, surface) = activeTab
    BY <1>1, <2>9, Zenon DEF EditedTab
  <2>12. tabs' = next /\ front' = front /\ activeTab' = activeTab /\ surface' = surface
         /\ (unsaved' <=> unsaved)
    BY <2>2, <2>10, Zenon DEF Render
  <2>13. Editing' = Editing
    BY <2>10, <2>12, Zenon DEF Editing
  <2>14. Marked'
    BY <2>7, <2>11, <2>12, Zenon DEF Marked
  <2>15. QED BY <2>13, <2>14
<1>7. QED BY <1>5, <1>6

LEMMA EventAnswerKeeps ==
  ASSUME DockInv, NEW call \in dockCalls, call.kind = "event", CallAnswered(call), Marked, activeTab = InFront
  PROVE  Marked' /\ Editing' = Editing
<1>1. CASE CallFails(call)
  BY <1>1, ShownStaysMarked DEF CallFails
<1>2. ~(CallFails(call) \/ Dropped(call)) => \E doc \in DocAnswers(call) : Opened(call, doc)
  BY DEF CallAnswered, Loaded, Saved, ImportedUnseen, Verified, Exported, ServeSaves
<1>3. CASE \E doc \in DocAnswers(call) : Opened(call, doc)
  <2>1. call.newest
    BY <1>3, Zenon DEF Opened, Passed
  <2>2. Clean(tabs, activeTab)
    BY <2>1 DEF DockInv, CallsAre, Fits
  <2>3. PICK i \in DOMAIN tabs : Id(tabs[i]) = activeTab /\ tabs[i].dirty
    BY MarkedIs
  <2>4. QED BY <2>2, <2>3 DEF Clean
<1>4. QED BY <1>1, <1>2, <1>3 DEF Dropped

-------------------------------------------------------------------------------
LEMMA DockInvHolds == DockSpec => []DockInv
<1>1. InitDock => DockInv
  BY InitKeeps, BoundsAre
<1>2. DockInv /\ [NextDock]_dockVars => DockInv'
  BY NextDockKeeps, BoundsAre
<1>3. QED BY <1>1, <1>2, PTL DEF DockSpec

(* "Revision proof": a report or a receipt that the window holds is about the    *)
(* revision that it shows, whichever calls overtook one another, for every       *)
(* number of conversations, deliverables, tabs and calls.                        *)
THEOREM ProofStaysOfTheShown == DockSpec => []ProofIsOfTheShown
<1>1. DockInv => ProofIsOfTheShown
  BY DEF DockInv
<1>2. QED BY <1>1, DockInvHolds, PTL

(* The dock is busy for exactly as long as its newest call is under way, unless  *)
(* the conversation that the call was for is gone.                               *)
THEOREM BusyAlwaysEnds == DockSpec => []BusyEnds
<1>1. DockInv => BusyEnds
  BY DEF DockInv, CallsAre, Fits, BusyHeld, BusyEnds
<1>2. QED BY <1>1, DockInvHolds, PTL

(* Neither what an Agent writes nor the answer of the load that it causes takes  *)
(* the place of unsaved edits of the tab that the user has selected.             *)
THEOREM DraftsAreKept == DockSpec => AgentKeepsDrafts
<1>1. DockInv /\ [NextDock]_dockVars => [Displaced => ~ByAgent]_dockVars
  <2>1. SUFFICES ASSUME DockInv, Displaced, ByAgent PROVE FALSE
    OBVIOUS
  <2>2. Marked /\ activeTab = InFront /\ ~(Marked' /\ Editing' = Editing)
    BY <2>1 DEF Displaced
  <2>3. QED BY <2>1, <2>2, BoundsAre, AgentWritesKeeps, EventAnswerKeeps DEF ByAgent
<1>2. QED BY <1>1, DockInvHolds, PTL DEF DockSpec, AgentKeepsDrafts

(* As many ids as tabs                                                           *)
LEMMA IdsCounted == ASSUME NEW q, Sheet(q) PROVE Cardinality(IdsOf(q)) = Len(q)
<1> DEFINE n == Len(q)
           f == [i \in 1..n |-> Id(q[i])]
<1>1. n \in Nat /\ DOMAIN q = 1..n /\ IdsOf(q) = {Id(q[i]) : i \in 1..n}
  BY SheetTyped DEF IdsOf
<1>2. f \in Bijection(1..n, IdsOf(q))
  <2>1. f \in [1..n -> IdsOf(q)]
    BY <1>1
  <2>2. \A i, j \in 1..n : f[i] = f[j] => i = j
    BY <1>1 DEF Sheet
  <2>3. \A id \in IdsOf(q) : \E i \in 1..n : f[i] = id
    BY <1>1
  <2>4. QED BY <2>1, <2>2, <2>3 DEF Bijection, Injection, Surjection, IsInjective
<1>3. IsFiniteSet(1..n) /\ Cardinality(1..n) = n
  <2>1. IsFiniteSet(1..n) /\ Cardinality(1..n) = IF 1 > n THEN 0 ELSE n - 1 + 1
    BY <1>1, FS_Interval
  <2>2. QED BY <1>1, <2>1
<1>4. ExistsBijection(1..n, IdsOf(q))
  BY <1>2 DEF ExistsBijection
<1> HIDE DEF n
<1>5. Cardinality(IdsOf(q)) = n
  BY <1>3, <1>4, FS_Bijection
<1>6. QED BY <1>5 DEF n

(* Every reachable state of the dock has its types, and its tabs have an id each. *)
THEOREM DockTypeCorrect == DockSpec => []DockTypeOK
<1>1. DockInv => DockTypeOK
  <2>1. SUFFICES ASSUME DockInv PROVE DockTypeOK
    OBVIOUS
  <2>2. tabs \in Seq(Tabs) /\ Cardinality(IdsOf(tabs)) = Len(tabs)
    BY <2>1, IdsCounted DEF DockInv, PageIs, Sheet
  <2>3. {surface, report, exported} \subseteq Docs
    BY <2>1 DEF DockInv, PageIs, ProofIsOfTheShown, Docs
  <2>4. \A call \in dockCalls : call \in [kind : {"open", "import", "event", "load", "verify", "export", "save"},
                                      context : Contexts \union {Away}, doc : Docs, tab : TabIds,
                                      at : {"asked", "checked", "accepted"}, newest : BOOLEAN]
    <3>1. \A call \in dockCalls : call \in CallSet
      BY <2>1, CallIs DEF DockInv, CallsAre
    <3>2. Revised \subseteq Docs
      BY TabNamesTyped
    <3>3. QED BY <3>1, <3>2 DEF CallSet
  <2>5. QED BY <2>1, <2>2, <2>3, <2>4 DEF DockInv, PageIs, CallsAre, DockTypeOK, Tabs
<1>2. QED BY <1>1, DockInvHolds, PTL

(* The three together, as the run of the host checks them.                        *)
THEOREM DockStaysTrue == DockSpec => DockIsTrue
<1> QED BY ProofStaysOfTheShown, BusyAlwaysEnds, DraftsAreKept, PTL DEF DockIsTrue

===============================================================================
