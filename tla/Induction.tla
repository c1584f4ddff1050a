----------------------------- MODULE Induction ------------------------------
(***************************************************************************)
(* Induction over the naturals up to a bound, and the recursion it         *)
(* justifies, for sets and functions: what the proofs about the loops of   *)
(* the program rest on.                                                    *)
(***************************************************************************)
EXTENDS Integers, NaturalsInduction, WellFoundedInduction, TLAPS

\* Every set of naturals has a least element.
LEMMA Least ==
  ASSUME NEW S \in SUBSET Nat, S # {}
  PROVE  \E n \in S : \A m \in S : n <= m
<1>1. IsWellFoundedOn(OpToRel(<, Nat), Nat)
  BY NatLessThanWellFounded
<1> DEFINE R == {ss \in Nat \X Nat : ss[1] < ss[2]}
<1>2. IsWellFoundedOn(R, Nat)
  BY <1>1 DEF OpToRel
<1> HIDE DEF R
<1>3. PICK n \in S : \A m \in S : ~ (<<m, n>> \in R)
  BY <1>2, WFMin
<1>4. \A m \in S : ~ (m < n)
  BY <1>3 DEF R
<1> QED BY <1>4

\* What holds of 0, and of a number when it holds of the one before, holds of
\* all: S is the set of numbers it holds of.
LEMMA UpTo ==
  ASSUME NEW m \in Nat, NEW S, 0 \in S,
         \A n \in 1..m : n - 1 \in S => n \in S
  PROVE  \A n \in 0..m : n \in S
<1> DEFINE Rest == {n \in 0..m : n \notin S}
<1> SUFFICES Rest = {}
  OBVIOUS
<1> SUFFICES ASSUME Rest # {} PROVE FALSE
  OBVIOUS
<1>1. Rest \in SUBSET Nat
  OBVIOUS
<1> HIDE DEF Rest
<1>2. PICK n \in Rest : \A k \in Rest : n <= k
  BY <1>1, Least
<1>3. n \in 0..m /\ n \notin S
  BY <1>2 DEF Rest
<1>4. n \in 1..m /\ n - 1 \in 0..m
  BY <1>3
<1>5. n - 1 \notin Rest
  BY <1>2, <1>4
<1> QED BY <1>3, <1>4, <1>5 DEF Rest

\* A loop of m turns that starts in b and makes step[<<x, n>>] of x in turn n:
\* f[n] is its state after n turns.
IsRun(f, S, b, m, step) ==
  /\ f \in [0..m -> S]
  /\ f[0] = b
  /\ \A n \in 1..m : f[n] = step[<<f[n - 1], n>>]

\* Every loop has a run.
LEMMA Recursion ==
  ASSUME NEW S, NEW b \in S, NEW m \in Nat, NEW step \in [S \X (1..m) -> S]
  PROVE  \E f : IsRun(f, S, b, m, step)
<1> DEFINE Good == {k \in 0..m : \E f : IsRun(f, S, b, k, step)}
<1>1. 0 \in Good
  <2>1. IsRun([n \in 0..0 |-> b], S, b, 0, step)
    BY DEF IsRun
  <2> QED BY <2>1
<1>2. ASSUME NEW k \in 1..m, k - 1 \in Good PROVE k \in Good
  <2>1. PICK f : IsRun(f, S, b, k - 1, step)
    BY <1>2
  <2>2. /\ f \in [0..(k - 1) -> S]
        /\ f[0] = b
        /\ \A n \in 1..(k - 1) : f[n] = step[<<f[n - 1], n>>]
    BY <2>1 DEF IsRun
  <2> DEFINE x == step[<<f[k - 1], k>>]
             g == [n \in 0..k |-> IF n = k THEN x ELSE f[n]]
  <2>3. x \in S
    BY <2>2
  <2>4. g \in [0..k -> S] /\ g[0] = b
    BY <2>2, <2>3
  <2>5. ASSUME NEW n \in 1..k PROVE g[n] = step[<<g[n - 1], n>>]
    <3>1. CASE n = k
      <4>1. g[n] = x /\ g[n - 1] = f[k - 1]
        BY <3>1
      <4> QED BY <3>1, <4>1
    <3>2. CASE n # k
      <4>1. n \in 1..(k - 1)
        BY <3>2
      <4>2. g[n] = f[n] /\ g[n - 1] = f[n - 1]
        BY <4>1
      <4> QED BY <2>2, <4>1, <4>2
    <3> QED BY <3>1, <3>2
  <2> HIDE DEF g
  <2>6. IsRun(g, S, b, k, step)
    BY <2>4, <2>5 DEF IsRun
  <2>7. k \in 0..m
    OBVIOUS
  <2> QED BY <2>6, <2>7
<1> HIDE DEF Good
<1>3. m \in Good
  BY <1>1, <1>2, UpTo
<1> QED BY <1>3 DEF Good

=============================================================================
