-------------------------- MODULE UniqueListsProofs --------------------------
(***************************************************************************)
(* Lemmas about the loops of the scrapers.  A loop is a function from the  *)
(* number of turns to what they have built; the provers can use no theorem *)
(* of induction over a predicate, so induction is done on a set of numbers *)
(* here, once, and typed solutions of the loop's equation are shown to     *)
(* exist for a body given as a function.                                   *)
(***************************************************************************)
EXTENDS UniqueLists, WellFoundedInduction, TLAPS

(* A set of natural numbers with an element has a least one.               *)
LEMMA LeastNatural ==
    ASSUME NEW T \in SUBSET Nat, T # {}
    PROVE  \E x \in T : \A y \in T : x <= y
<1>1. PICK x \in T : \A y \in T : ~(<<y, x>> \in OpToRel(<, Nat))
  BY NatLessThanWellFounded, WFMin
<1>2. \A y \in T : ~(y < x)
  BY <1>1 DEF OpToRel
<1> QED
  BY <1>2

(* A set that has 0 and with every i < n its successor has all up to n.    *)
LEMMA Climb ==
    ASSUME NEW n \in Nat, NEW T, 0 \in T,
           \A i \in 0..n : i \in T /\ i < n => i + 1 \in T
    PROVE  0..n \subseteq T
<1> DEFINE U == (0..n) \ T
<1> SUFFICES ASSUME U # {} PROVE FALSE
  OBVIOUS
<1>1. U \in SUBSET Nat
  OBVIOUS
<1>2. PICK x \in U : \A y \in U : x <= y
  <2> HIDE DEF U
  <2> QED  BY <1>1, LeastNatural
<1>3. x # 0 /\ x - 1 \in 0..n /\ x - 1 \notin U
  BY <1>2
<1>4. x - 1 \in T /\ x - 1 < n /\ (x - 1) + 1 = x
  BY <1>3
<1> QED
  BY <1>3, <1>4

(* The value of a loop after every turn has the type each turn keeps.      *)
LEMMA LoopTyped ==
    ASSUME NEW S, NEW n \in Nat, NEW h, h[0] \in S,
           \A i \in 1..n : h[i - 1] \in S => h[i] \in S
    PROVE  \A i \in 0..n : h[i] \in S
<1> DEFINE T == {i \in 0..n : h[i] \in S}
<1>1. 0 \in T
  OBVIOUS
<1>2. \A i \in 0..n : i \in T /\ i < n => i + 1 \in T
  <2> SUFFICES ASSUME NEW i \in 0..n, i \in T, i < n PROVE i + 1 \in T
    OBVIOUS
  <2>1. i + 1 \in 1..n /\ i + 1 \in 0..n /\ (i + 1) - 1 = i
    OBVIOUS
  <2>2. h[i + 1] \in S
    BY <2>1
  <2> QED
    BY <2>1, <2>2
<1>3. 0..n \subseteq T
  <2> HIDE DEF T
  <2> QED  BY <1>1, <1>2, Climb
<1> QED
  BY <1>3

\* f has what the loop with the start b and the body G has built after each turn
SolvesLoop(f, n, b, G) == f[0] = b /\ \A i \in 1..n : f[i] = G[i][f[i - 1]]

(* A loop whose body is typed has a solution.                              *)
LEMMA LoopExists ==
    ASSUME NEW S, NEW b \in S, NEW n \in Nat, NEW G \in [1..n -> [S -> S]]
    PROVE  \E f \in [0..n -> S] : SolvesLoop(f, n, b, G)
<1> DEFINE Upto(k, f) == f[0] = b /\ \A i \in 1..k : f[i] = G[i][f[i - 1]]
           T == {k \in 0..n : \E f \in [0..k -> S] : Upto(k, f)}
<1>1. 0 \in T
  <2>1. [i \in 0..0 |-> b] \in [0..0 -> S] /\ Upto(0, [i \in 0..0 |-> b])
    OBVIOUS
  <2>2. 0 \in 0..n
    OBVIOUS
  <2> HIDE DEF Upto
  <2> QED
    BY <2>1, <2>2, Zenon
<1>2. ASSUME NEW k \in 0..n, k \in T, k < n PROVE k + 1 \in T
  <2>1. PICK f \in [0..k -> S] : Upto(k, f)
    BY <1>2
  <2> DEFINE g == [i \in 0..(k + 1) |-> IF i = k + 1 THEN G[k + 1][f[k]] ELSE f[i]]
  <2>2. k + 1 \in 1..n /\ k + 1 \in 0..n /\ k \in 0..k /\ k \in Nat
    BY <1>2
  <2>3. g \in [0..(k + 1) -> S]
    BY <2>2
  <2>4. g[0] = b
    BY <2>1
  <2>5. ASSUME NEW i \in 1..(k + 1) PROVE g[i] = G[i][g[i - 1]]
    <3>1. i \in 0..(k + 1) /\ i - 1 \in 0..(k + 1) /\ i - 1 # k + 1
      OBVIOUS
    <3>2. g[i - 1] = f[i - 1]
      BY <3>1
    <3>3. CASE i = k + 1
      <4>1. g[i] = G[k + 1][f[k]]
        BY <3>3, <3>1
      <4> HIDE DEF g
      <4> QED  BY <4>1, <3>3, <3>2
    <3>4. CASE i # k + 1
      BY <3>4, <2>1, <3>2
    <3> QED
      BY <3>3, <3>4
  <2>6. Upto(k + 1, g)
    BY <2>4, <2>5
  <2> HIDE DEF Upto, g
  <2> QED
    BY <2>3, <2>6, <2>2
<1>3. 0..n \subseteq T
  <2> HIDE DEF T
  <2> QED  BY <1>1, <1>2, Climb
<1>4. n \in T
  BY <1>3
<1> QED
  BY <1>4 DEF SolvesLoop

-----------------------------------------------------------------------------
\* a list over S that has everything once
UniqueIn(list, S) == list \in Seq(S) /\ IsInjective(list)

(* appendUnique adds at most its argument, and never a text it has.        *)
LEMMA AppendUniqueKeeps ==
    ASSUME NEW S, NEW list \in Seq(S), NEW x \in S, IsInjective(list)
    PROVE  /\ AppendUnique(list, x) \in Seq(S)
           /\ IsInjective(AppendUnique(list, x))
           /\ ToSet(list) \subseteq ToSet(AppendUnique(list, x))
           /\ ToSet(AppendUnique(list, x)) \subseteq ToSet(list) \cup {x}
           /\ \E y \in ToSet(AppendUnique(list, x)) : LowerCase[y] = LowerCase[x]
<1>1. CASE \E i \in DOMAIN list : LowerCase[list[i]] = LowerCase[x]
  BY <1>1 DEF AppendUnique, ToSet
<1>2. CASE ~\E i \in DOMAIN list : LowerCase[list[i]] = LowerCase[x]
  <2> DEFINE longer == Append(list, x)
  <2>1. /\ longer \in Seq(S) /\ Len(longer) = Len(list) + 1
        /\ \A i \in 1..Len(list) : longer[i] = list[i]
        /\ longer[Len(list) + 1] = x
    OBVIOUS
  <2>2. DOMAIN longer = 1..(Len(list) + 1) /\ DOMAIN list = 1..Len(list)
    BY <2>1
  <2>3. AppendUnique(list, x) = longer
    BY <1>2 DEF AppendUnique
  <2> HIDE DEF longer
  <2>4. IsInjective(longer)
    BY <1>2, <2>1, <2>2 DEF IsInjective
  <2>5. ToSet(longer) = ToSet(list) \cup {x}
    BY <2>1, <2>2 DEF ToSet
  <2> QED
    BY <2>1, <2>3, <2>4, <2>5
<1> QED
  BY <1>1, <1>2

=============================================================================
