------------------------------ MODULE Recursion ------------------------------
(***************************************************************************)
(* Recursive definitions are well defined, and so are folds.  A module     *)
(* that needs this of one of its operators instantiates this one with it:  *)
(* Def(c, f, x) is the value a recursive function f has at x, and          *)
(* Op(c, a, b) what a fold makes of the value a and the element b; c       *)
(* stands for all the other parameters.                                    *)
(***************************************************************************)
EXTENDS Integers, Sequences, FiniteSets, SequencesExt, FiniteSetsExt, FiniteSetTheorems,
        WellFoundedInduction, TLAPS

CONSTANTS Def(_, _, _), Op(_, _, _)

(***************************************************************************)
(* A set of natural numbers has a smallest member.                         *)
(***************************************************************************)
LEMMA SmallestMember ==
  ASSUME NEW S \in SUBSET Nat, S # {}
  PROVE  \E x \in S : \A y \in S : x <= y
PROOF
  <1>1. PICK x \in S : \A y \in S : ~(<<y, x>> \in OpToRel(<, Nat))
    BY NatLessThanWellFounded, WFMin
  <1>2. \A y \in S : ~(y < x)
    BY <1>1 DEF OpToRel
  <1> QED BY <1>2

(***************************************************************************)
(* Course-of-values induction, for a set.                                  *)
(***************************************************************************)
LEMMA NatSetInduction ==
  ASSUME NEW S, \A n \in Nat : (\A k \in Nat : k < n => k \in S) => n \in S
  PROVE  \A n \in Nat : n \in S
PROOF
  <1> DEFINE bad == {n \in Nat : n \notin S}
  <1> SUFFICES ASSUME bad # {} PROVE FALSE
    OBVIOUS
  <1>1. bad \in SUBSET Nat
    OBVIOUS
  <1>2. PICK x \in bad : \A y \in bad : x <= y
    <2> HIDE DEF bad
    <2> QED BY <1>1, SmallestMember
  <1>3. \A k \in Nat : k < x => k \in S
    BY <1>2
  <1> QED BY <1>2, <1>3

(***************************************************************************)
(* Induction along an interval, for a set.                                 *)
(***************************************************************************)
LEMMA IntervalInduction ==
  ASSUME NEW n \in Nat, NEW S, 0 \in S, \A k \in 1 .. n : k - 1 \in S => k \in S
  PROVE  \A k \in 0 .. n : k \in S
PROOF
  <1> DEFINE T == {k \in Nat : k <= n => k \in S}
  <1>1. ASSUME NEW m \in Nat, \A k \in Nat : k < m => k \in T PROVE m \in T
    <2>1. CASE m = 0
      BY <2>1
    <2>2. CASE m > 0
      <3>1. m - 1 \in Nat /\ m - 1 < m
        BY <2>2
      <3> QED BY <1>1, <3>1
    <2> QED BY <2>1, <2>2
  <1>2. \A m \in Nat : m \in T
    <2> HIDE DEF T
    <2> QED BY <1>1, NatSetInduction
  <1> QED BY <1>2

-----------------------------------------------------------------------------
(* the function that a recursive definition defines on S *)
Fix(c, S) == CHOOSE f : f = [x \in S |-> Def(c, f, x)]

(***************************************************************************)
(* A recursive definition on S defines a function when the value at x      *)
(* depends only on the values at arguments of smaller measure.             *)
(***************************************************************************)
LEMMA RecursionDefines ==
  ASSUME NEW c, NEW S, NEW m \in [S -> Nat],
         \A g, h : \A x \in S :
            (\A y \in S : m[y] < m[x] => g[y] = h[y]) => Def(c, g, x) = Def(c, h, x)
  PROVE  Fix(c, S) = [x \in S |-> Def(c, Fix(c, S), x)]
PROOF
  <1> DEFINE Good(n, g) == \A x \in S : m[x] < n => g[x] = Def(c, g, x)
             Agree(n, g, h) == \A x \in S : m[x] < n => g[x] = h[x]
             G(n) == CHOOSE g : Good(n, g)
  <1>1. ASSUME NEW n \in Nat, NEW g, NEW h, Good(n, g), Good(n, h)
        PROVE  Agree(n, g, h)
    <2> DEFINE T == {k \in Nat : \A x \in S : m[x] = k /\ k < n => g[x] = h[x]}
    <2>1. ASSUME NEW k \in Nat, \A j \in Nat : j < k => j \in T PROVE k \in T
      <3> SUFFICES ASSUME NEW x \in S, m[x] = k, k < n PROVE g[x] = h[x]
        OBVIOUS
      <3>1. ASSUME NEW y \in S, m[y] < m[x] PROVE g[y] = h[y]
        <4>1. m[y] \in Nat /\ m[y] < k /\ m[y] < n
          BY <3>1
        <4>2. m[y] \in T
          BY <2>1, <4>1
        <4> QED BY <4>1, <4>2
      <3>2. Def(c, g, x) = Def(c, h, x)
        BY <3>1
      <3> QED BY <1>1, <3>2
    <2>2. \A k \in Nat : k \in T
      <3> HIDE DEF T
      <3> QED BY <2>1, NatSetInduction
    <2>3. ASSUME NEW x \in S, m[x] < n PROVE g[x] = h[x]
      <3>1. m[x] \in T
        BY <2>2
      <3> QED BY <2>3, <3>1
    <2> QED BY <2>3
  <1>2. ASSUME NEW n \in Nat PROVE \E g : Good(n, g)
    <2> DEFINE T == {k \in Nat : \E g : Good(k, g)}
    <2>1. ASSUME NEW k \in Nat, \A j \in Nat : j < k => j \in T PROVE k \in T
      <3> DEFINE h == [x \in S |-> Def(c, G(m[x]), x)]
      <3>1. ASSUME NEW j \in Nat, j < k PROVE Good(j, G(j))
        <4>1. \E g : Good(j, g)
          BY <2>1, <3>1
        <4> HIDE DEF Good
        <4> QED BY <4>1
      <3>2. ASSUME NEW x \in S, m[x] < k PROVE h[x] = Def(c, h, x)
        <4>1. m[x] \in Nat /\ Good(m[x], G(m[x]))
          BY <3>1, <3>2
        <4>2. ASSUME NEW y \in S, m[y] < m[x] PROVE G(m[x])[y] = h[y]
          <5>1. m[y] \in Nat /\ m[y] < k
            BY <3>2, <4>1, <4>2
          <5>2. Good(m[y], G(m[y]))
            BY <3>1, <5>1
          <5>3. Good(m[y], G(m[x]))
            <6> HIDE DEF G
            <6> QED BY <4>1, <4>2, <5>1
          <5>4. Agree(m[y], G(m[x]), G(m[y]))
            <6> HIDE DEF Good, Agree, G
            <6> QED BY <1>1, <5>1, <5>2, <5>3
          <5>5. G(m[x])[y] = Def(c, G(m[x]), y)
            <6> HIDE DEF G
            <6> QED BY <4>1, <4>2
          <5>6. Def(c, G(m[x]), y) = Def(c, G(m[y]), y)
            <6> HIDE DEF G
            <6> QED BY <5>4
          <5>7. h[y] = Def(c, G(m[y]), y)
            <6> HIDE DEF G
            <6> QED OBVIOUS
          <5> HIDE DEF G, h
          <5> QED BY <5>5, <5>6, <5>7
        <4>3. Def(c, G(m[x]), x) = Def(c, h, x)
          <5> HIDE DEF G, h
          <5> QED BY <4>2
        <4>4. h[x] = Def(c, G(m[x]), x)
          <5> HIDE DEF G
          <5> QED OBVIOUS
        <4> HIDE DEF G, h
        <4> QED BY <4>3, <4>4
      <3>3. Good(k, h)
        <4> HIDE DEF h
        <4> QED BY <3>2
      <3>4. \E g : Good(k, g)
        <4> HIDE DEF Good, h
        <4> QED BY <3>3
      <3> HIDE DEF Good
      <3> QED BY <3>4
    <2>2. n \in T
      <3> HIDE DEF T
      <3> QED BY <2>1, NatSetInduction
    <2> HIDE DEF Good
    <2> QED BY <2>2
  <1>3. ASSUME NEW n \in Nat PROVE Good(n, G(n))
    <2> HIDE DEF Good
    <2> QED BY <1>2
  <1> DEFINE f == [x \in S |-> G(m[x] + 1)[x]]
  <1>4. ASSUME NEW x \in S PROVE f[x] = Def(c, f, x)
    <2>1. m[x] + 1 \in Nat /\ m[x] \in Nat
      OBVIOUS
    <2>2. ASSUME NEW y \in S, m[y] < m[x] PROVE G(m[x] + 1)[y] = f[y]
      <3>1. m[y] + 1 \in Nat /\ m[y] \in Nat
        OBVIOUS
      <3>2. Good(m[y] + 1, G(m[x] + 1))
        <4>1. Good(m[x] + 1, G(m[x] + 1))
          BY <1>3, <2>1
        <4> HIDE DEF G
        <4> QED BY <2>1, <2>2, <3>1, <4>1
      <3>3. Agree(m[y] + 1, G(m[x] + 1), G(m[y] + 1))
        <4>1. Good(m[y] + 1, G(m[y] + 1))
          BY <1>3, <3>1
        <4> HIDE DEF Good, Agree, G
        <4> QED BY <1>1, <3>1, <3>2, <4>1
      <3> HIDE DEF G
      <3> QED BY <3>1, <3>3
    <2>3. Def(c, G(m[x] + 1), x) = Def(c, f, x)
      <3> HIDE DEF G, f
      <3> QED BY <2>2
    <2>4. Good(m[x] + 1, G(m[x] + 1))
      BY <1>3, <2>1
    <2>5. f[x] = G(m[x] + 1)[x]
      <3> HIDE DEF G
      <3> QED OBVIOUS
    <2> HIDE DEF G, f
    <2> QED BY <2>1, <2>3, <2>4, <2>5
  <1>5. \E h : h = [x \in S |-> Def(c, h, x)]
    <2>1. f = [x \in S |-> Def(c, f, x)]
      <3>1. f = [x \in S |-> f[x]]
        <4> HIDE DEF G
        <4> QED OBVIOUS
      <3> HIDE DEF f
      <3> QED BY <1>4, <3>1
    <2> HIDE DEF f
    <2> QED BY <2>1
  <1> QED BY <1>5 DEF Fix

(* Def is the definition of a function on a .. n by steps *)
IsIteration(c, a, n, base) ==
  \A h : \A k \in a .. n : Def(c, h, k) = IF k = a THEN base ELSE Op(c, h[k - 1], k)

(* the function it defines *)
Iterates(c, a, n, base) ==
  /\ Fix(c, a .. n)[a] = base
  /\ \A k \in a + 1 .. n : Fix(c, a .. n)[k] = Op(c, Fix(c, a .. n)[k - 1], k)

(***************************************************************************)
(* A function defined by steps along an interval takes these steps.        *)
(***************************************************************************)
LEMMA IterationSteps ==
  ASSUME NEW c, NEW a \in Int, NEW n \in Int, a <= n, NEW base, IsIteration(c, a, n, base)
  PROVE  Iterates(c, a, n, base)
PROOF
  <1> DEFINE S == a .. n
             m == [k \in S |-> k - a]
             f == Fix(c, S)
  <1>1. m \in [S -> Nat]
    OBVIOUS
  <1>2. ASSUME NEW g, NEW h, NEW k \in S, \A j \in S : m[j] < m[k] => g[j] = h[j]
        PROVE  Def(c, g, k) = Def(c, h, k)
    <2>1. CASE k = a
      BY <2>1 DEF IsIteration
    <2>2. CASE k # a
      <3>1. k - 1 \in S
        BY <2>2
      <3>2. m[k - 1] < m[k]
        BY <3>1
      <3>3. g[k - 1] = h[k - 1]
        BY <1>2, <3>1, <3>2
      <3> QED BY <2>2, <3>3 DEF IsIteration
    <2> QED BY <2>1, <2>2
  <1>3. f = [k \in S |-> Def(c, f, k)]
    <2> HIDE DEF m, S
    <2>1. \A g, h : \A k \in S :
            (\A j \in S : m[j] < m[k] => g[j] = h[j]) => Def(c, g, k) = Def(c, h, k)
      BY <1>2
    <2> QED BY <1>1, <2>1, RecursionDefines
  <1> HIDE DEF f
  <1>4. \A k \in S : f[k] = Def(c, f, k)
    BY <1>3
  <1> QED BY <1>4 DEF f, IsIteration, Iterates

-----------------------------------------------------------------------------
(***************************************************************************)
(* A set of positions that is not empty has a last one.                    *)
(***************************************************************************)
LEMMA MaxOfPositions ==
  ASSUME NEW n \in Nat, NEW s \in SUBSET (1 .. n), s # {}
  PROVE  Max(s) \in s /\ Max(s) \in 1 .. n /\ \A y \in s : y <= Max(s)
PROOF
  <1> DEFINE D == {n - y : y \in s}
  <1>1. D \in SUBSET Nat /\ D # {}
    <2>1. \A y \in s : n - y \in Nat
      OBVIOUS
    <2> QED BY <2>1
  <1>2. PICK z \in D : \A v \in D : z <= v
    BY <1>1, SmallestMember
  <1>3. PICK x \in s : z = n - x
    BY <1>2
  <1>4. ASSUME NEW y \in s PROVE x >= y
    <2>1. n - x <= n - y
      BY <1>2, <1>3
    <2>2. x \in Int /\ y \in Int
      OBVIOUS
    <2> QED BY <2>1, <2>2
  <1>5. Max(s) \in s /\ \A y \in s : Max(s) >= y
    BY <1>4 DEF Max
  <1> QED BY <1>5

LEMMA MaxOfInterval ==
  ASSUME NEW n \in Nat, n > 0
  PROVE  Max(1 .. n) = n /\ (1 .. n) \ {n} = 1 .. n - 1
PROOF
  <1>1. Max(1 .. n) \in 1 .. n /\ \A y \in 1 .. n : y <= Max(1 .. n)
    BY MaxOfPositions
  <1> QED BY <1>1

(* Def is the definition of a FoldLeft with Op over the positions 1 .. n *)
IsFold(c, n, base) ==
  \A h : \A s \in SUBSET (1 .. n) :
     Def(c, h, s) = IF s = {} THEN base ELSE Op(c, h[s \ {Max(s)}], Max(s))

(* what a FoldLeft makes of all the n positions, and of the first k *)
Folded(c, n)     == Fix(c, SUBSET (1 .. n))[1 .. n]
Partial(c, n, k) == Fix(c, SUBSET (1 .. n))[1 .. k]

(***************************************************************************)
(* FoldLeft visits the positions of its sequence one after the other.      *)
(***************************************************************************)
LEMMA FoldSteps ==
  ASSUME NEW c, NEW n \in Nat, NEW base, IsFold(c, n, base)
  PROVE  /\ Partial(c, n, 0) = base
         /\ \A k \in 1 .. n : Partial(c, n, k) = Op(c, Partial(c, n, k - 1), k)
         /\ Folded(c, n) = Partial(c, n, n)
PROOF
  <1> DEFINE S == SUBSET (1 .. n)
             m == [s \in S |-> IF s = {} THEN 0 ELSE Max(s)]
             h == Fix(c, S)
  <1>1. m \in [S -> Nat]
    BY MaxOfPositions
  <1>2. ASSUME NEW g, NEW k, NEW s \in S, \A t \in S : m[t] < m[s] => g[t] = k[t]
        PROVE  Def(c, g, s) = Def(c, k, s)
    <2>1. CASE s = {}
      BY <2>1 DEF IsFold
    <2>2. CASE s # {}
      <3> DEFINE t == s \ {Max(s)}
      <3>1. Max(s) \in s /\ Max(s) \in 1 .. n /\ \A y \in s : y <= Max(s)
        BY <2>2, MaxOfPositions
      <3>2. t \in S
        OBVIOUS
      <3>3. m[t] < m[s]
        <4>1. CASE t = {}
          BY <2>2, <3>1, <3>2, <4>1
        <4>2. CASE t # {}
          <5>1. Max(t) \in t /\ Max(t) \in 1 .. n
            BY <3>2, <4>2, MaxOfPositions
          <5>2. Max(t) < Max(s)
            <6>1. Max(t) <= Max(s) /\ Max(t) # Max(s)
              BY <3>1, <5>1
            <6> HIDE DEF t
            <6> QED BY <3>1, <5>1, <6>1
          <5> QED BY <2>2, <3>2, <4>2, <5>2
        <4> QED BY <4>1, <4>2
      <3>4. g[t] = k[t]
        BY <1>2, <3>2, <3>3
      <3> QED BY <2>2, <3>4 DEF IsFold
    <2> QED BY <2>1, <2>2
  <1>3. h = [s \in S |-> Def(c, h, s)]
    <2> HIDE DEF m, S
    <2>1. \A g, k : \A s \in S :
            (\A t \in S : m[t] < m[s] => g[t] = k[t]) => Def(c, g, s) = Def(c, k, s)
      BY <1>2
    <2> QED BY <1>1, <2>1, RecursionDefines
  <1> HIDE DEF h
  <1>4. \A s \in S : h[s] = IF s = {} THEN base ELSE Op(c, h[s \ {Max(s)}], Max(s))
    BY <1>3 DEF IsFold
  <1>5. h[1 .. 0] = base
    <2>1. 1 .. 0 \in S /\ 1 .. 0 = {}
      OBVIOUS
    <2> QED BY <1>4, <2>1
  <1>6. ASSUME NEW k \in 1 .. n PROVE h[1 .. k] = Op(c, h[1 .. k - 1], k)
    <2>1. 1 .. k \in S /\ 1 .. k # {}
      OBVIOUS
    <2>2. Max(1 .. k) = k /\ (1 .. k) \ {k} = 1 .. k - 1
      BY MaxOfInterval
    <2>3. h[(1 .. k) \ {Max(1 .. k)}] = h[1 .. k - 1]
      BY <2>2
    <2> HIDE DEF S
    <2> QED BY <1>4, <2>1, <2>2, <2>3
  <1> QED BY <1>5, <1>6 DEF h, Partial, Folded
=============================================================================
