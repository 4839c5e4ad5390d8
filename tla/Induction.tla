------------------------------ MODULE Induction ------------------------------
(***************************************************************************)
(* Induction over data, in the form the proofs of this project use it: on  *)
(* sets of numbers, from which functions defined by recursion over the     *)
(* places of a sequence are known to exist and to be the only ones.        *)
(***************************************************************************)
EXTENDS Integers, Sequences, WellFoundedInduction, TLAPS

(* Every set of natural numbers that is not empty has a least element.     *)
LEMMA LeastNumber ==
  ASSUME NEW S \in SUBSET Nat, S # {}
  PROVE  \E m \in S : \A n \in S : m <= n
<1> DEFINE R == {ss \in Nat \X Nat : ss[1] < ss[2]}
<1>1. IsWellFoundedOn(R, Nat)
  BY NatLessThanWellFounded DEF OpToRel
<1>2. \E m \in S : \A n \in S : <<n, m>> \notin R
  <2> HIDE DEF R
  <2> QED
    BY <1>1, WFMin
<1>3. \A m, n \in S : <<n, m>> \notin R => m <= n
  OBVIOUS
<1> QED
  BY <1>2, <1>3

(* What holds of 0 and passes from each number below N to the next holds   *)
(* up to N.                                                                *)
LEMMA InductionTo ==
  ASSUME NEW N \in Nat, NEW S, 0 \in S,
         \A n \in 0 .. N - 1 : n \in S => n + 1 \in S
  PROVE  0 .. N \subseteq S
<1> SUFFICES ASSUME NEW k \in 0 .. N, k \notin S
             PROVE  FALSE
  OBVIOUS
<1> DEFINE T == {n \in 0 .. N : n \notin S}
<1>1. T \in SUBSET Nat /\ T # {}
  OBVIOUS
<1>2. PICK m \in T : \A n \in T : m <= n
  BY <1>1, LeastNumber
<1>3. m # 0 /\ m - 1 \in 0 .. N - 1 /\ m - 1 \notin T
  BY <1>2
<1> QED
  BY <1>2, <1>3

(* A function is defined by its value at 0 and the step from one value to  *)
(* the next.                                                               *)
Steps(f, N, base, step) ==
  /\ DOMAIN f = 0 .. N /\ f[0] = base
  /\ \A n \in 1 .. N : f[n] = step[<<n, f[n - 1]>>]

LEMMA StepsExist ==
  ASSUME NEW N \in Nat, NEW V, NEW base \in V, NEW step \in [(1 .. N) \X V -> V]
  PROVE  \E f \in [0 .. N -> V] : Steps(f, N, base, step)
<1> DEFINE S == {n \in 0 .. N : \E f \in [0 .. n -> V] : Steps(f, n, base, step)}
<1>1. 0 \in S
  <2> DEFINE g == [k \in 0 .. 0 |-> base]
  <2>1. g \in [0 .. 0 -> V] /\ Steps(g, 0, base, step)
    BY DEF Steps
  <2>2. 0 \in 0 .. N
    OBVIOUS
  <2> HIDE DEF g
  <2> QED
    BY <2>1, <2>2
<1>2. ASSUME NEW n \in 0 .. N - 1, n \in S
      PROVE  n + 1 \in S
  <2>1. PICK f \in [0 .. n -> V] : Steps(f, n, base, step)
    BY <1>2
  <2> DEFINE next == step[<<n + 1, f[n]>>]
             g == [k \in 0 .. n + 1 |-> IF k = n + 1 THEN next ELSE f[k]]
  <2>2. n \in Nat /\ n + 1 \in 1 .. N /\ n + 1 \in 0 .. N
    OBVIOUS
  <2>3. f[n] \in V
    BY <2>2
  <2>4. next \in V
    <3>1. <<n + 1, f[n]>> \in (1 .. N) \X V
      BY <2>2, <2>3
    <3> QED
      BY <3>1
  <2>5. \A k \in 0 .. n + 1 : k = n + 1 \/ k \in 0 .. n
    BY <2>2
  <2> HIDE DEF next
  <2>6. g \in [0 .. n + 1 -> V]
    BY <2>4, <2>5
  <2>7. Steps(g, n + 1, base, step)
    <3>1. g[0] = base /\ DOMAIN g = 0 .. n + 1
      BY <2>1, <2>2 DEF Steps
    <3>2. ASSUME NEW k \in 1 .. n + 1
          PROVE  g[k] = step[<<k, g[k - 1]>>]
      <4>1. k - 1 \in 0 .. n /\ k - 1 # n + 1 /\ g[k - 1] = f[k - 1]
        BY <2>2
      <4>2. CASE k = n + 1
        <5>1. g[k] = next /\ k - 1 = n
          BY <2>2, <4>2
        <5> QED
          BY <4>1, <4>2, <5>1 DEF next
      <4>3. CASE k # n + 1
        <5>1. k \in 1 .. n /\ g[k] = f[k]
          BY <2>2, <4>3
        <5> QED
          BY <2>1, <4>1, <5>1 DEF Steps
      <4> QED
        BY <4>2, <4>3
    <3> QED
      BY <3>1, <3>2 DEF Steps
  <2> HIDE DEF g
  <2> QED
    BY <2>2, <2>6, <2>7
<1>3. N \in S
  <2> HIDE DEF S
  <2>1. 0 .. N \subseteq S
    BY <1>1, <1>2, InductionTo
  <2> QED
    BY <2>1
<1> QED
  BY <1>3

(* There is one only, which does not depend on what comes later.           *)
StepAlike(f, g, N) ==
  f[0] = g[0] /\ \A n \in 1 .. N : f[n - 1] = g[n - 1] => f[n] = g[n]

LEMMA StepsAgree ==
  ASSUME NEW N \in Nat, NEW f, NEW g, StepAlike(f, g, N)
  PROVE  \A n \in 0 .. N : f[n] = g[n]
<1> DEFINE S == {n \in 0 .. N : f[n] = g[n]}
<1>1. 0 \in S /\ \A n \in 0 .. N - 1 : n \in S => n + 1 \in S
  BY DEF StepAlike
<1>2. 0 .. N \subseteq S
  <2> HIDE DEF S
  <2> QED
    BY <1>1, InductionTo
<1> QED
  BY <1>2
=============================================================================
