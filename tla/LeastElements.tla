---------------------------- MODULE LeastElements ----------------------------
(***************************************************************************)
(* A set of natural numbers has a least element, so that what is defined   *)
(* as the first position with some property, such as the place where a     *)
(* search for a newline stops or what a converter leaves of its input, is  *)
(* one of these positions.  It follows that a function defined by what it  *)
(* makes of its value before exists, and what all of its values are.       *)
(***************************************************************************)
EXTENDS Integers, WellFoundedInduction, FiniteSetTheorems, TLAPS

(* Every set of positions has a first one.                                 *)
LEMMA LeastElement ==
  ASSUME NEW T \in SUBSET Nat, T # {}
  PROVE  \E x \in T : \A y \in T : x <= y
<1> DEFINE Smaller == StrictSubsetOrdering(Nat)
           Finite  == FiniteSubsetsOf(Nat)
           Upto    == {0 .. x : x \in T}
<1>1. IsWellFoundedOn(Smaller, Finite)
  BY FS_StrictSubsetOrderingWellFounded
<1>2. Upto \subseteq Finite /\ Upto # {}
  <2>1. \A x \in T : IsFiniteSet(0 .. x) /\ 0 .. x \subseteq Nat
    BY FS_Interval
  <2>2. QED  BY <2>1 DEF FiniteSubsetsOf
<1> HIDE DEF Smaller, Finite, Upto
<1>3. PICK u \in Upto : \A v \in Upto : ~(<<v, u>> \in Smaller)
  BY <1>1, <1>2, WFMin
<1>4. PICK x \in T : u = 0 .. x
  BY DEF Upto
<1>5. \A y \in T : x <= y
  <2> SUFFICES ASSUME NEW y \in T, y < x PROVE FALSE
    OBVIOUS
  <2>1. 0 .. y \in Upto
    BY DEF Upto
  <2>2. 0 .. y \subseteq u /\ 0 .. y # u
    BY <1>4
  <2>3. <<0 .. y, u>> \in Smaller
    BY <1>4, <2>2 DEF Smaller, StrictSubsetOrdering
  <2>4. QED  BY <2>1, <2>3, <1>3
<1>6. QED  BY <1>5

(* The functions whose every value is what next makes of the value before. *)
Iterations(N, S, init, next) ==
  {f \in [0 .. N -> S] :
     f[0] = init /\ \A n \in 1 .. N : f[n] = next[<<n, f[n - 1]>>]}

(* A recursive definition defines something: there is such a function.      *)
LEMMA Recursion ==
  ASSUME NEW N \in Nat, NEW S, NEW init \in S, NEW next \in [(1 .. N) \X S -> S]
  PROVE  Iterations(N, S, init, next) # {}
<1> DEFINE Good(m) == {g \in [0 .. m -> S] :
                         g[0] = init /\ \A n \in 1 .. m : g[n] = next[<<n, g[n - 1]>>]}
           Lacking == {m \in 0 .. N : Good(m) = {}}
<1>1. ASSUME Lacking # {} PROVE FALSE
  <2>1. Lacking \in SUBSET Nat
    OBVIOUS
  <2>2. PICK m \in Lacking : \A y \in Lacking : m <= y
    BY <1>1, <2>1, LeastElement
  <2>3. m \in 0 .. N /\ Good(m) = {}
    OBVIOUS
  <2>4. CASE m = 0
    <3>1. [n \in 0 .. 0 |-> init] \in Good(0)
      OBVIOUS
    <3>2. QED  BY <2>3, <2>4, <3>1
  <2>5. CASE m # 0
    <3>1. m - 1 \in 0 .. N /\ m - 1 \notin Lacking
      BY <2>2, <2>3, <2>5
    <3>2. PICK g \in Good(m - 1) : TRUE
      BY <3>1
    <3> DEFINE h == [n \in 0 .. m |-> IF n = m THEN next[<<m, g[m - 1]>>] ELSE g[n]]
    <3>3. /\ g \in [0 .. (m - 1) -> S] /\ g[0] = init
          /\ \A n \in 1 .. (m - 1) : g[n] = next[<<n, g[n - 1]>>]
      BY <3>2
    <3> HIDE DEF Good
    <3>4. h \in [0 .. m -> S]
      <4>1. g[m - 1] \in S /\ m \in 1 .. N
        BY <2>3, <2>5, <3>1, <3>3
      <4>2. next[<<m, g[m - 1]>>] \in S
        BY <4>1
      <4>3. \A n \in 0 .. m : n # m => g[n] \in S
        BY <2>3, <3>3
      <4>4. QED  BY <4>2, <4>3
    <3>5. h[0] = init
      BY <2>3, <2>5, <3>3
    <3>6. ASSUME NEW n \in 1 .. m PROVE h[n] = next[<<n, h[n - 1]>>]
      <4>1. h[n - 1] = g[n - 1]
        BY <2>3, <3>6
      <4>2. CASE n = m
        BY <2>3, <4>1, <4>2
      <4>3. CASE n # m
        <5>1. n \in 1 .. (m - 1) /\ n \in 0 .. m
          BY <2>3, <4>3
        <5>2. h[n] = g[n] /\ g[n] = next[<<n, g[n - 1]>>]
          BY <3>3, <4>3, <5>1
        <5>3. QED  BY <4>1, <5>2
      <4>4. QED  BY <4>2, <4>3
    <3>7. h \in Good(m)
      BY <3>4, <3>5, <3>6 DEF Good
    <3>8. QED  BY <2>3, <3>7
  <2>6. QED  BY <2>4, <2>5
<1>2. Good(N) # {}
  <2>1. N \in 0 .. N
    OBVIOUS
  <2> HIDE DEF Good
  <2>2. QED  BY <1>1, <2>1
<1>3. QED  BY <1>2 DEF Iterations

(* What every step of a recursive function keeps holds of all its values.   *)
LEMMA Iteration ==
  ASSUME NEW N \in Nat, NEW S, NEW f, f[0] \in S,
         \A n \in 1 .. N : f[n - 1] \in S => f[n] \in S
  PROVE  \A n \in 0 .. N : f[n] \in S
<1> DEFINE Outside == {n \in 0 .. N : f[n] \notin S}
<1>1. ASSUME Outside # {} PROVE FALSE
  <2>1. Outside \in SUBSET Nat
    OBVIOUS
  <2>2. PICK n \in Outside : \A y \in Outside : n <= y
    BY <1>1, <2>1, LeastElement
  <2>3. n \in 1 .. N /\ n - 1 \in 0 .. N /\ n - 1 \notin Outside
    BY <2>2
  <2>4. QED  BY <2>3
<1>2. QED  BY <1>1

(* What holds of 0, and of n if it holds of n - 1, holds of the numbers up  *)
(* to N.                                                                   *)
LEMMA UpTo ==
  ASSUME NEW N \in Nat, NEW T, 0 \in T, \A n \in 1 .. N : n - 1 \in T => n \in T
  PROVE  \A n \in 0 .. N : n \in T
<1> DEFINE f == [n \in 0 .. N |-> n]
<1>1. f[0] \in T
  OBVIOUS
<1>2. \A n \in 1 .. N : f[n - 1] \in T => f[n] \in T
  OBVIOUS
<1> HIDE DEF f
<1>3. \A n \in 0 .. N : f[n] \in T
  BY <1>1, <1>2, Iteration
<1>4. QED  BY <1>3 DEF f

=============================================================================
