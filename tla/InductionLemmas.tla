--------------------------- MODULE InductionLemmas ---------------------------
(***************************************************************************)
(* Facts about numbers, sets of numbers and recursive functions that the   *)
(* proofs about the editor rest on.  They are stated for sets and          *)
(* functions, so that they can be cited without instantiating an operator: *)
(* induction is the least-element principle on Nat.                        *)
(***************************************************************************)
EXTENDS FiniteSetsExt, WellFoundedInduction, NaturalsInduction, SequenceTheorems, TLAPS

(* Every non-empty set of natural numbers has a least element.             *)
LEMMA LeastNatural ==
  ASSUME NEW S, S \subseteq Nat, S # {}
  PROVE  \E m \in S : \A k \in S : m <= k
<1> DEFINE R == {ss \in Nat \X Nat : ss[1] < ss[2]}
<1>1. IsWellFoundedOn(R, Nat)
  BY ONLY NatLessThanWellFounded DEF OpToRel
<1>2. \A x, y \in Nat : x < y => <<x, y>> \in R
  OBVIOUS
<1> HIDE DEF R
<1>3. PICK m \in S : \A k \in S : ~ (<<k, m>> \in R)
  BY <1>1, WFMin
<1>4. \A k \in S : m <= k
  <2> SUFFICES ASSUME NEW k \in S PROVE m <= k
    OBVIOUS
  <2>1. ~ (k < m)
    BY <1>2, <1>3
  <2> QED BY <2>1
<1> QED BY <1>4

(* Induction: a set that holds 0 and the successors of its numbers holds   *)
(* every natural number.                                                   *)
LEMMA SetInduction ==
  ASSUME NEW S, 0 \in S, \A n \in Nat : n \in S => n + 1 \in S
  PROVE  Nat \subseteq S
<1> SUFFICES ASSUME Nat \ S # {} PROVE FALSE
  OBVIOUS
<1>1. PICK m \in Nat \ S : \A k \in Nat \ S : m <= k
  BY LeastNatural
<1>2. m - 1 \in Nat /\ m - 1 \in S
  BY <1>1
<1>3. (m - 1) + 1 = m
  BY <1>1
<1> QED BY <1>1, <1>2, <1>3

(* Min and Max are what their names say: every scan of the cursor ends.    *)
LEMMA MinIsLeast ==
  ASSUME NEW S, S \subseteq Nat, S # {}
  PROVE  Min(S) \in S /\ \A k \in S : Min(S) <= k
BY LeastNatural DEF Min

LEMMA MaxIsGreatest ==
  ASSUME NEW S, NEW n \in Nat, S \subseteq 0 .. n, S # {}
  PROVE  Max(S) \in S /\ \A k \in S : k <= Max(S)
<1> DEFINE T == {n - k : k \in S}
<1>1. T \subseteq Nat /\ T # {}
  OBVIOUS
<1>2. PICK m \in T : \A k \in T : m <= k
  BY <1>1, LeastNatural
<1>3. PICK x \in S : m = n - x
  BY <1>2
<1>4. \A k \in S : k <= x
  <2> SUFFICES ASSUME NEW k \in S PROVE k <= x
    OBVIOUS
  <2>1. m <= n - k
    BY <1>2
  <2> QED BY <1>3, <2>1
<1>5. \E y \in S : \A k \in S : y >= k
  BY <1>4
<1> QED BY <1>5 DEF Max

(* A value and a step for each position define a function: what a loop     *)
(* over n positions computes exists.                                       *)
LEMMA LoopExists ==
  ASSUME NEW V, NEW v0 \in V, NEW n \in Nat, NEW step \in [1 .. n -> [V -> V]]
  PROVE  \E f \in [0 .. n -> V] :
           f[0] = v0 /\ \A k \in 1 .. n : f[k] = step[k][f[k - 1]]
<1> DEFINE F(m) == { f \in [0 .. m -> V] :
                       f[0] = v0 /\ \A k \in 1 .. m : f[k] = step[k][f[k - 1]] }
           S == { m \in Nat : m <= n => F(m) # {} }
<1>1. 0 \in S
  <2> DEFINE f0 == [i \in 0 .. 0 |-> v0]
  <2>1. f0 \in F(0)
    OBVIOUS
  <2> QED BY <2>1
<1>2. ASSUME NEW m \in Nat, m \in S PROVE m + 1 \in S
  <2> SUFFICES ASSUME m + 1 <= n PROVE F(m + 1) # {}
    OBVIOUS
  <2>1. PICK f \in F(m) : TRUE
    BY <1>2
  <2> DEFINE g == [i \in 0 .. m + 1 |-> IF i <= m THEN f[i] ELSE step[m + 1][f[m]]]
  <2>2. f \in [0 .. m -> V] /\ f[0] = v0 /\ \A k \in 1 .. m : f[k] = step[k][f[k - 1]]
    BY <2>1
  <2>3. step[m + 1] \in [V -> V] /\ f[m] \in V
    BY <2>2
  <2>4. step[m + 1][f[m]] \in V
    BY <2>3
  <2>5. g \in [0 .. m + 1 -> V]
    BY <2>2, <2>4
  <2>6. g[0] = v0
    BY <2>2
  <2>7. ASSUME NEW k \in 1 .. m + 1 PROVE g[k] = step[k][g[k - 1]]
    <3>1. CASE k = m + 1
      BY <3>1
    <3>2. CASE k \in 1 .. m
      BY <2>2, <3>2
    <3> QED BY <3>1, <3>2
  <2>8. g \in F(m + 1)
    BY <2>5, <2>6, <2>7
  <2> QED BY <2>8
<1> HIDE DEF S
<1>3. n \in S
  BY <1>1, <1>2, SetInduction
<1> QED BY <1>3 DEF S

(* A function on 1 .. n is a sequence of length n.                         *)
LEMMA FunctionIsSeq ==
  ASSUME NEW S, NEW n \in Nat, NEW f \in [1 .. n -> S]
  PROVE  f \in Seq(S) /\ Len(f) = n
<1>1. f \in Seq(S)
  BY SeqDef
<1>2. DOMAIN f = 1 .. Len(f) /\ Len(f) \in Nat
  BY <1>1, LenProperties
<1>3. 1 .. n = 1 .. Len(f)
  BY <1>2
<1>4. Len(f) = n
  BY <1>2, <1>3
<1> QED BY <1>1, <1>4
=============================================================================
