------------------------------ MODULE NatFacts -----------------------------
(***************************************************************************)
(* Facts about natural numbers and finite sets that several proofs need.   *)
(*                                                                         *)
(* The least number of a set is what induction becomes here: the theorems  *)
(* of the library that take the induction hypothesis as an operator cannot *)
(* be instantiated by the provers, but a set of counterexamples can be     *)
(* given to WFMin, and its least element refuted.                          *)
(***************************************************************************)
EXTENDS FiniteSetsExt, FiniteSetTheorems, TLAPS

NatOrder == {e \in Nat \X Nat : e[1] < e[2]}

LEMMA NatOrderWF == IsWellFoundedOn(NatOrder, Nat)
BY NatLessThanWellFounded DEF OpToRel, NatOrder

(* A set of natural numbers that is not empty has a least element.         *)
LEMMA LeastNatural ==
    ASSUME NEW T, T \subseteq Nat, T # {}
    PROVE  \E m \in T : \A k \in T : m <= k
<1>1. PICK m \in T : \A k \in T : <<k, m>> \notin NatOrder
    BY WFMin, NatOrderWF
<1>2. ASSUME NEW k \in T
      PROVE  m <= k
    <2>1. m \in Nat /\ k \in Nat
        OBVIOUS
    <2>2. ~(k < m)
        BY <1>1, <2>1 DEF NatOrder
    <2>. QED BY <2>1, <2>2
<1>. QED BY <1>2

(* A set that holds 0 and with each number below b the next holds 0 .. b.  *)
LEMMA Climb ==
    ASSUME NEW b \in Nat, NEW T, 0 \in T,
           \A n \in 0 .. b - 1 : n \in T => n + 1 \in T
    PROVE  \A n \in 0 .. b : n \in T
<1>. DEFINE Missing == {n \in 0 .. b : n \notin T}
<1>1. SUFFICES ASSUME Missing # {}
               PROVE  FALSE
    OBVIOUS
<1>2. PICK m \in Missing : \A k \in Missing : m <= k
    <2>1. Missing \subseteq Nat
        OBVIOUS
    <2>. QED BY <1>1, <2>1, LeastNatural
<1>3. m \in 0 .. b /\ m \notin T /\ m # 0
    OBVIOUS
<1>4. m - 1 \in 0 .. b - 1 /\ (m - 1) + 1 = m
    BY <1>3
<1>5. m - 1 \notin Missing
    BY <1>2, <1>3
<1>6. m - 1 \in T
    BY <1>4, <1>5
<1>. QED BY <1>3, <1>4, <1>6

----------------------------------------------------------------------------
(* A finite set of natural numbers has an upper bound.                     *)
LEMMA FiniteBounded ==
    ASSUME NEW S, S \subseteq Nat, IsFiniteSet(S)
    PROVE  \E b \in Nat : \A x \in S : x <= b
<1>. DEFINE n == Cardinality(S)
            Bounded(g) == {m \in 0 .. n : \E b \in Nat : \A i \in 1 .. m : g[i] <= b}
<1>1. n \in Nat /\ ExistsBijection(1 .. n, S)
    BY FS_CardinalityType
<1>2. PICK g \in Surjection(1 .. n, S) : TRUE
    BY <1>1 DEF ExistsBijection, Bijection
<1>3. /\ g \in [1 .. n -> S]
      /\ \A x \in S : \E i \in 1 .. n : g[i] = x
    BY <1>2 DEF Surjection
<1>4. 0 \in Bounded(g)
    BY <1>1
<1>5. ASSUME NEW m \in 0 .. n - 1, m \in Bounded(g)
      PROVE  m + 1 \in Bounded(g)
    <2>1. PICK b \in Nat : \A i \in 1 .. m : g[i] <= b
        BY <1>5
    <2>2. m + 1 \in 1 .. n
        BY <1>1
    <2>a. \A i \in 1 .. n : g[i] \in Nat
        <3>. HIDE DEF n
        <3>. QED BY <1>3
    <2>b. g[m + 1] \in Nat
        <3>. HIDE DEF n
        <3>. QED BY <2>2, <2>a
    <2>3. PICK c \in Nat : b <= c /\ g[m + 1] <= c
        <3>1. CASE b <= g[m + 1]
            BY <2>b, <3>1
        <3>2. CASE ~(b <= g[m + 1])
            BY <2>b, <3>2
        <3>. QED BY <3>1, <3>2
    <2>4. ASSUME NEW i \in 1 .. m + 1
          PROVE  g[i] <= c
        <3>1. g[i] \in Nat
            <4>1. i \in 1 .. n
                BY <1>1
            <4>. HIDE DEF n
            <4>. QED BY <2>a, <4>1
        <3>2. CASE i = m + 1
            BY <2>3, <3>2
        <3>3. CASE i # m + 1
            <4>1. i \in 1 .. m
                BY <3>3
            <4>. QED BY <2>1, <2>3, <3>1, <4>1
        <3>. QED BY <3>2, <3>3
    <2>5. m + 1 \in 0 .. n
        BY <2>2
    <2>6. \A i \in 1 .. m + 1 : g[i] <= c
        BY <2>4
    <2>. HIDE DEF n
    <2>. QED BY <2>3, <2>5, <2>6
<1>6. n \in Bounded(g)
    <2>. HIDE DEF Bounded, n
    <2>1. \A m \in 0 .. n : m \in Bounded(g)
        BY <1>1, <1>4, <1>5, Climb
    <2>. QED BY <1>1, <2>1
<1>7. PICK b \in Nat : \A i \in 1 .. n : g[i] <= b
    BY <1>6
<1>. QED BY <1>3, <1>7

(* So it has a maximum, unless it is empty.                                *)
LEMMA MaxOfFinite ==
    ASSUME NEW S, S \subseteq Nat, S # {}, IsFiniteSet(S)
    PROVE  Max(S) \in S /\ \A x \in S : x <= Max(S)
<1>. DEFINE Bounds == {b \in Nat : \A x \in S : x <= b}
<1>1. Bounds # {}
    BY FiniteBounded
<1>2. PICK b \in Bounds : \A c \in Bounds : b <= c
    <2>1. Bounds \subseteq Nat
        OBVIOUS
    <2>. QED BY <1>1, <2>1, LeastNatural
<1>3. b \in Nat /\ \A x \in S : x \in Nat /\ x <= b
    BY <1>2
<1>4. b \in S
    <2>1. SUFFICES ASSUME b \notin S
                   PROVE  FALSE
        OBVIOUS
    <2>2. ASSUME NEW x \in S
          PROVE  x \in Nat /\ x <= b - 1
        <3>1. x \in Nat /\ x <= b /\ x # b
            BY <1>3, <2>1
        <3>. QED BY <1>3, <3>1
    <2>3. b - 1 \in Nat
        <3>1. PICK x \in S : TRUE
            OBVIOUS
        <3>2. x \in Nat /\ x <= b - 1
            BY <2>2
        <3>. QED BY <1>3, <3>2
    <2>4. b - 1 \in Bounds
        BY <2>2, <2>3
    <2>. QED BY <1>2, <1>3, <2>4
<1>5. \E x \in S : \A y \in S : x >= y
    BY <1>3, <1>4
<1>6. Max(S) \in S /\ \A y \in S : Max(S) >= y
    BY <1>5 DEF Max
<1>. QED BY <1>6
============================================================================
