----------------------------- MODULE Induction -----------------------------
(***************************************************************************)
(* Induction over the naturals up to a bound, for the proofs about what a  *)
(* recursive function computes: that it exists, and what holds of all its  *)
(* values, both from the least element of a set of naturals.               *)
(***************************************************************************)
EXTENDS Integers, WellFoundedInduction, TLAPS

(* A set of naturals that is not empty has a least element. *)
LEMMA LeastElement ==
  ASSUME NEW T, T \subseteq Nat, T # {}
  PROVE  \E n \in T : \A m \in T : n <= m
<1>1. PICK n \in T : \A m \in T : ~(<<m, n>> \in OpToRel(<, Nat))
  BY NatLessThanWellFounded, WFMin
<1>2. \A m \in T : ~(m < n)
  BY <1>1 DEF OpToRel
<1>3. \A m \in T : n <= m
  BY <1>2
<1> QED
  BY <1>3

(* Induction up to L over a set. *)
LEMMA UpTo ==
  ASSUME NEW L \in Nat, NEW Good, 0 \in Good,
         \A k \in 1..L : k - 1 \in Good => k \in Good
  PROVE  0..L \subseteq Good
<1> DEFINE Bad == 0..L \ Good
<1>1. SUFFICES ASSUME Bad # {} PROVE FALSE
  OBVIOUS
<1>2. Bad \subseteq Nat
  OBVIOUS
<1>3. PICK k \in Bad : \A l \in Bad : k <= l
  <2> HIDE DEF Bad
  <2> QED
    BY <1>1, <1>2, LeastElement, Zenon
<1>4. k \in 1..L /\ k - 1 \in 0..L /\ ~(k <= k - 1)
  BY <1>3
<1> QED
  BY <1>3, <1>4

(* f is what step makes of d, step by step, up to L. *)
Iterates(f, L, D, d, step) ==
  /\ f \in [0..L -> D] /\ f[0] = d
  /\ \A k \in 1..L : f[k] = step[k][f[k - 1]]

(* Iteration defines a function of 0..L. *)
LEMMA Iteration ==
  ASSUME NEW L \in Nat, NEW D, NEW d \in D, NEW step,
         \A k \in 1..L : \A v \in D : step[k][v] \in D
  PROVE  \E f : Iterates(f, L, D, d, step)
<1> DEFINE With == {m \in 0..L : \E f : Iterates(f, m, D, d, step)}
<1>1. 0 \in With
  <2>1. Iterates([k \in 0..0 |-> d], 0, D, d, step)
    BY DEF Iterates
  <2> QED
    BY <2>1
<1>2. ASSUME NEW m \in 1..L, m - 1 \in With
      PROVE  m \in With
  <2>1. PICK f : Iterates(f, m - 1, D, d, step)
    BY <1>2
  <2>2. /\ f \in [0..(m - 1) -> D] /\ f[0] = d
        /\ \A k \in 1..(m - 1) : f[k] = step[k][f[k - 1]]
    BY <2>1 DEF Iterates
  <2> DEFINE v == step[m][f[m - 1]]
             g == [k \in 0..m |-> IF k = m THEN v ELSE f[k]]
  <2>3. v \in D
    BY <2>2
  <2>4. \A k \in 0..(m - 1) : g[k] = f[k]
    OBVIOUS
  <2>5. g \in [0..m -> D] /\ g[0] = d /\ g[m] = v
    BY <2>2, <2>3
  <2>6. \A k \in 1..m : g[k] = step[k][g[k - 1]]
    BY <2>2, <2>4, <2>5
  <2>7. Iterates(g, m, D, d, step)
    BY <2>5, <2>6 DEF Iterates
  <2> QED
    BY <2>7
<1>3. 0..L \subseteq With
  <2> HIDE DEF With
  <2> QED
    BY <1>1, <1>2, UpTo
<1> QED
  BY <1>3
=============================================================================
