------------------------------- MODULE FoldFacts -------------------------------
(* What FoldLeft returns, for the operator Step that the elements are folded with *)
(* and an assertion After about the values on the way: an instance of this module *)
(* gives its facts for operators of its own.                                      *)
EXTENDS Integers, SequencesExt, WellFoundedInduction, TLAPS

CONSTANTS
  Step(_, _),       \* the operator that is folded
  After(_, _, _)    \* what holds of the value after so many elements of a sequence

(* Induction, of a set of numbers.                                                *)
LEMMA SetInduction ==
  ASSUME NEW T, 0 \in T, \A k \in Nat : k \in T => k + 1 \in T
  PROVE  Nat \subseteq T
<1> DEFINE U == Nat \ T
<1>1. SUFFICES ASSUME U # {} PROVE FALSE
  OBVIOUS
<1>2. U \subseteq Nat
  OBVIOUS
<1>3. \E m \in U : \A k \in U : ~(<<k, m>> \in OpToRel(<, Nat))
  <2> HIDE DEF U
  <2>1. QED BY <1>1, <1>2, NatLessThanWellFounded, WFMin, Zenon
<1>4. PICK m \in U : \A k \in U : <<k, m>> \notin OpToRel(<, Nat)
  BY <1>3
<1>5. m \in Nat /\ m # 0 /\ m \notin T
  OBVIOUS
<1>6. m - 1 \in Nat /\ (m - 1) + 1 = m
  BY <1>5
<1>7. m - 1 \notin T
  BY <1>5, <1>6
<1>8. m - 1 \in U
  BY <1>6, <1>7
<1>9. <<m - 1, m>> \in Nat \X Nat /\ m - 1 < m
  BY <1>5, <1>6
<1>10. <<m - 1, m>> \in OpToRel(<, Nat)
  BY <1>9 DEF OpToRel
<1>11. QED BY <1>4, <1>8, <1>10

(* A set of numbers that is bounded has a largest one.                            *)
LEMMA MaxIsMember ==
  ASSUME NEW n \in Nat, NEW s \in SUBSET (0..n), s # {}
  PROVE  Max(s) \in s /\ \A x \in s : x <= Max(s)
<1> DEFINE T == {k \in Nat : \A v \in SUBSET (0..k) : v # {} => \E m \in v : \A x \in v : m >= x}
<1>1. 0 \in T
  <2>1. ASSUME NEW v \in SUBSET (0..0), v # {} PROVE \E m \in v : \A x \in v : m >= x
    <3>1. \A x \in v : x = 0
      OBVIOUS
    <3>2. PICK y \in v : TRUE
      BY <2>1
    <3>3. \A x \in v : y >= x
      BY <3>1
    <3>4. QED BY <3>3
  <2>2. QED BY <2>1
<1>2. ASSUME NEW k \in Nat, k \in T PROVE k + 1 \in T
  <2>1. ASSUME NEW v \in SUBSET (0..k + 1), v # {} PROVE \E m \in v : \A x \in v : m >= x
    <3>1. CASE k + 1 \in v
      <4>1. \A x \in v : k + 1 >= x
        OBVIOUS
      <4>2. QED BY <3>1, <4>1
    <3>2. CASE k + 1 \notin v
      <4>1. \A x \in v : x \in 0..k
        BY <3>2
      <4>2. v \in SUBSET (0..k)
        BY <4>1
      <4>3. QED BY <1>2, <4>2, <2>1
    <3>3. QED BY <3>1, <3>2
  <2>2. QED BY <2>1
<1>3. n \in T
  <2> HIDE DEF T
  <2>1. QED BY <1>1, <1>2, SetInduction
<1>4. PICK m \in s : \A x \in s : m >= x
  BY <1>3
<1>5. Max(s) \in s /\ \A x \in s : Max(s) >= x
  BY <1>4 DEF Max
<1>6. QED
  <2>1. \A x \in s : x \in Int
    OBVIOUS
  <2>2. QED BY <1>5, <2>1

(* The recursion of FoldLeft over the sets of the first elements.                 *)
Round(base, q, f, n) ==
  [s \in SUBSET (1..n) |-> IF s = {} THEN base ELSE Step(f[s \ {Max(s)}], q[Max(s)])]

LEMMA RoundExists ==
  ASSUME NEW base, NEW q, NEW n \in Nat
  PROVE  \E f : f = Round(base, q, f, n)
<1> DEFINE T == {k \in Nat : \E f : f = Round(base, q, f, k)}
<1>1. 0 \in T
  <2> DEFINE f == [s \in SUBSET (1..0) |-> base]
  <2>1. \A s \in SUBSET (1..0) : s = {}
    OBVIOUS
  <2>2. f = Round(base, q, f, 0)
    BY <2>1 DEF Round
  <2>3. QED BY <2>2
<1>2. ASSUME NEW k \in Nat, k \in T PROVE k + 1 \in T
  <2>1. PICK f : f = Round(base, q, f, k)
    BY <1>2
  <2> DEFINE h == [s \in SUBSET (1..k + 1) |-> IF s \subseteq 1..k THEN f[s] ELSE Step(f[s \ {k + 1}], q[k + 1])]
  <2>2. 1..k + 1 = (1..k) \union {k + 1}
    OBVIOUS
  <2>3. ASSUME NEW s \in SUBSET (1..k + 1)
        PROVE  h[s] = IF s = {} THEN base ELSE Step(h[s \ {Max(s)}], q[Max(s)])
    <3>1. CASE s \subseteq 1..k
      <4>1. h[s] = f[s]
        BY <3>1
      <4>2. f[s] = IF s = {} THEN base ELSE Step(f[s \ {Max(s)}], q[Max(s)])
        BY <2>1, <3>1 DEF Round
      <4>3. h[s \ {Max(s)}] = f[s \ {Max(s)}]
        BY <3>1, <2>2
      <4>4. QED BY <4>1, <4>2, <4>3
    <3>2. CASE ~(s \subseteq 1..k)
      <4>1. k + 1 \in s /\ s # {}
        BY <2>2, <3>2
      <4>2. Max(s) = k + 1
        <5>1. Max(s) \in s /\ \A x \in s : x <= Max(s)
          <6>1. s \in SUBSET (0..k + 1) /\ k + 1 \in Nat
            OBVIOUS
          <6>2. QED BY <4>1, <6>1, MaxIsMember
        <5>2. Max(s) \in 1..k + 1 /\ k + 1 <= Max(s)
          BY <5>1, <4>1
        <5>3. QED BY <5>2
      <4>3. s \ {k + 1} \subseteq 1..k
        BY <2>2
      <4>4. h[s \ {k + 1}] = f[s \ {k + 1}]
        BY <4>3, <2>2
      <4>5. h[s] = Step(f[s \ {k + 1}], q[k + 1])
        BY <3>2
      <4>6. QED BY <4>1, <4>2, <4>4, <4>5
    <3>3. QED BY <3>1, <3>2
  <2>4. h = Round(base, q, h, k + 1)
    <3>1. h = [s \in SUBSET (1..k + 1) |-> h[s]]
      OBVIOUS
    <3> HIDE DEF h
    <3>2. QED BY <2>3, <3>1, Zenon DEF Round
  <2>5. QED BY <2>4
<1>3. QED
  <2> HIDE DEF T
  <2>1. n \in T
    BY <1>1, <1>2, SetInduction
  <2>2. QED BY <2>1 DEF T

(* What holds at the start and survives each element holds of the result.         *)
LEMMA FoldLeftKeeps ==
  ASSUME NEW S, NEW q \in Seq(S), NEW base, After(q, 0, base),
         \A k \in 0..Len(q) - 1 : \A d : After(q, k, d) => After(q, k + 1, Step(d, q[k + 1]))
  PROVE  After(q, Len(q), FoldLeft(Step, base, q))
<1> DEFINE n == Len(q)
           f == CHOOSE g : g = Round(base, q, g, n)
           T == {k \in Nat : k <= n => After(q, k, f[1..k])}
<1>1. n \in Nat /\ DOMAIN q = 1..n
  OBVIOUS
<1>2. f = Round(base, q, f, n)
  <2>1. \E g : g = Round(base, q, g, n)
    BY <1>1, RoundExists
  <2>2. QED BY <2>1, Zenon
<1>3. FoldLeft(Step, base, q) = f[1..n]
  <2> HIDE DEF n
  <2>1. FoldLeft(Step, base, q) =
          (CHOOSE g : g = [s \in SUBSET (DOMAIN q) |->
             IF s = {} THEN base ELSE Step(g[s \ {Max(s)}], q[Max(s)])])[DOMAIN q]
    BY Zenon DEF FoldLeft, MapThenFoldSet
  <2>2. QED BY <1>1, <2>1, Zenon DEF Round
<1> HIDE DEF f
<1>4. 0 \in T
  <2>1. 1..0 = {} /\ 1..0 \in SUBSET (1..n)
    OBVIOUS
  <2>2. f[1..0] = base
    BY <1>2, <2>1, Zenon DEF Round
  <2>3. QED BY <2>2
<1>5. ASSUME NEW k \in Nat, k \in T PROVE k + 1 \in T
  <2>1. SUFFICES ASSUME k + 1 <= n PROVE After(q, k + 1, f[1..k + 1])
    OBVIOUS
  <2>2. After(q, k, f[1..k]) /\ k \in 0..n - 1
    BY <1>1, <1>5, <2>1
  <2> DEFINE s == 1..k + 1
  <2>3. s \in SUBSET (1..n) /\ s # {} /\ s \ {k + 1} = 1..k
    <3>1. s \in SUBSET (1..n)
      BY <1>1, <2>1
    <3>2. s # {}
      <4>1. k + 1 \in s
        OBVIOUS
      <4>2. QED BY <4>1
    <3>3. s \ {k + 1} = 1..k
      OBVIOUS
    <3>4. QED BY <3>1, <3>2, <3>3
  <2>4. Max(s) = k + 1
    <3>1. Max(s) \in s /\ \A x \in s : x <= Max(s)
      <4>1. s \in SUBSET (0..n)
        BY <2>3
      <4> HIDE DEF s
      <4>2. QED BY <1>1, <2>3, <4>1, MaxIsMember
    <3>2. Max(s) \in 1..k + 1 /\ k + 1 <= Max(s)
      BY <3>1
    <3>3. QED BY <3>2
  <2>5. f[s] = Step(f[s \ {Max(s)}], q[Max(s)])
    <3> HIDE DEF s
    <3>1. QED BY <1>2, <2>3, Zenon DEF Round
  <2>6. QED BY <2>2, <2>3, <2>4, <2>5
<1>6. n \in T
  <2> HIDE DEF T, n
  <2>1. QED BY <1>1, <1>4, <1>5, SetInduction
<1>7. QED
  BY <1>1, <1>3, <1>6
================================================================================
