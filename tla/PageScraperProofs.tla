-------------------------- MODULE PageScraperProofs --------------------------
(***************************************************************************)
(* What a lead says of its page, for any page: the loops over its tokens,  *)
(* blocks and pairs build what the properties say without them, and a lead *)
(* keeps what was read of its page on the way to the store.                *)
(***************************************************************************)
EXTENDS PageScraper, UniqueListsProofs, FiniteSetTheorems

(* The first of a set of numbers is its least. *)
LEMMA FirstIsLeast ==
    ASSUME NEW S \in SUBSET Nat, S # {}
    PROVE  First(S) \in S /\ \A j \in S : First(S) <= j
<1>1. \E i \in S : \A j \in S : i <= j
  BY LeastNatural
<1> QED
  BY <1>1, Zenon DEF First

-----------------------------------------------------------------------------
(* Lists that have every text in one spelling *)

FoldUnique(list) ==
    \A i, j \in DOMAIN list : LowerCase[list[i]] = LowerCase[list[j]] => i = j

LEMMA FoldedUnion ==
    ASSUME NEW S, NEW T
    PROVE  Folded(S \cup T) = Folded(S) \cup Folded(T)
BY DEF Folded

(* Such a list is as long as there are texts in it, spelling apart.        *)
LEMMA FoldedCount ==
    ASSUME NEW S, NEW list \in Seq(S), FoldUnique(list)
    PROVE  Cardinality(Folded(ToSet(list))) = Len(list)
<1> DEFINE n == Len(list)
           T == Folded(ToSet(list))
           f == [i \in 1..n |-> LowerCase[list[i]]]
<1>1. n \in Nat /\ DOMAIN list = 1..n
  OBVIOUS
<1>2. f \in [1..n -> T]
  BY <1>1 DEF Folded, ToSet
<1>3. \A i, j \in 1..n : f[i] = f[j] => i = j
  BY <1>1 DEF FoldUnique
<1>4. \A y \in T : \E i \in 1..n : f[i] = y
  BY <1>1 DEF Folded, ToSet
<1> HIDE DEF f, T
<1>5. f \in Bijection(1..n, T)
  BY <1>2, <1>3, <1>4 DEF Bijection, Injection, Surjection, IsInjective
<1>6. IsFiniteSet(1..n) /\ Cardinality(1..n) = n
  BY <1>1, FS_Interval
<1>7. Cardinality(T) = Cardinality(1..n)
  BY <1>5, <1>6, FS_Bijection DEF ExistsBijection
<1> QED
  BY <1>6, <1>7 DEF T

LEMMA AppendUniqueFolds ==
    ASSUME NEW S, NEW list \in Seq(S), NEW x \in S, FoldUnique(list)
    PROVE  /\ AppendUnique(list, x) \in Seq(S)
           /\ FoldUnique(AppendUnique(list, x))
           /\ Folded(ToSet(AppendUnique(list, x))) = Folded(ToSet(list)) \cup {LowerCase[x]}
           /\ ToSet(AppendUnique(list, x)) \subseteq ToSet(list) \cup {x}
<1>1. CASE \E i \in DOMAIN list : LowerCase[list[i]] = LowerCase[x]
  BY <1>1 DEF AppendUnique, ToSet, Folded
<1>2. CASE ~\E i \in DOMAIN list : LowerCase[list[i]] = LowerCase[x]
  <2> DEFINE longer == Append(list, x)
  <2>1. /\ longer \in Seq(S) /\ Len(longer) = Len(list) + 1
        /\ \A i \in 1..Len(list) : longer[i] = list[i]
        /\ longer[Len(list) + 1] = x
    OBVIOUS
  <2>2. DOMAIN longer = 1..(Len(list) + 1) /\ DOMAIN list = 1..Len(list) /\ Len(list) \in Nat
    BY <2>1
  <2>3. AppendUnique(list, x) = longer
    BY <1>2 DEF AppendUnique
  <2> HIDE DEF longer
  <2>4. FoldUnique(longer)
    BY <1>2, <2>1, <2>2 DEF FoldUnique
  <2>5. ToSet(longer) = ToSet(list) \cup {x}
    BY <2>1, <2>2 DEF ToSet
  <2>6. Folded(ToSet(longer)) = Folded(ToSet(list)) \cup {LowerCase[x]}
    BY <2>5 DEF Folded
  <2> QED
    BY <2>1, <2>3, <2>4, <2>5, <2>6
<1> QED
  BY <1>1, <1>2

(* appendUnique for each of xs adds all of them, in one spelling.          *)
LEMMA AppendEachFolds ==
    ASSUME NEW S, NEW list \in Seq(S), FoldUnique(list), NEW xs \in Seq(S)
    PROVE  /\ AppendEach(list, xs) \in Seq(S)
           /\ FoldUnique(AppendEach(list, xs))
           /\ Folded(ToSet(AppendEach(list, xs))) = Folded(ToSet(list)) \cup Folded(ToSet(xs))
<1> DEFINE n == Len(xs)
           b == list
           V == {l \in Seq(S) : FoldUnique(l)}
           Body(v, i) == AppendUnique(v, xs[i])
           G == [i \in 1..n |-> [v \in V |-> Body(v, i)]]
           IsLoop(f) == f = [i \in 0..n |-> IF i = 0 THEN b ELSE Body(f[i - 1], i)]
           h == CHOOSE f : IsLoop(f)
<1>1. n \in Nat /\ b \in V
  OBVIOUS
<1>2. ASSUME NEW i \in 1..n, NEW v \in V PROVE Body(v, i) \in V
  <2>1. xs[i] \in S /\ v \in Seq(S) /\ FoldUnique(v)
    OBVIOUS
  <2> HIDE DEF n
  <2> QED
    BY <2>1, AppendUniqueFolds
<1>3. AppendEach(list, xs) = h[n]
  BY Zenon DEF AppendEach
<1> HIDE DEF n, Body, b, V
<1>4. G \in [1..n -> [V -> V]]
  BY <1>2
<1>5. PICK f \in [0..n -> V] : SolvesLoop(f, n, b, G)
  <2> HIDE DEF G, IsLoop
  <2> QED  BY <1>1, <1>4, LoopExists, Zenon
<1>6. ASSUME NEW i \in 1..n PROVE f[i] = Body(f[i - 1], i)
  <2>1. f[i - 1] \in V
    BY <1>1
  <2> QED
    BY <1>5, <2>1 DEF SolvesLoop
<1>7. IsLoop(f)
  BY <1>5, <1>6, <1>1 DEF SolvesLoop
<1>8. IsLoop(h)
  <2> HIDE DEF IsLoop
  <2> QED  BY <1>7
<1> HIDE DEF h
<1>9. h[0] = b /\ \A i \in 1..n : h[i] = Body(h[i - 1], i)
  BY <1>8, <1>1
<1> DEFINE Taken(i) == {xs[j] : j \in 1..i}
           T == {i \in 0..n : h[i] \in V /\ Folded(ToSet(h[i])) = Folded(ToSet(list)) \cup Folded(Taken(i))}
<1>10. 0 \in T
  <2>1. Folded(Taken(0)) = {}
    BY DEF Folded
  <2>2. h[0] = list /\ h[0] \in V /\ 0 \in 0..n
    BY <1>9, <1>1 DEF b
  <2> HIDE DEF Taken
  <2> QED
    BY <2>1, <2>2
<1>11. ASSUME NEW i \in 0..n, i \in T, i < n PROVE i + 1 \in T
  <2>1. i + 1 \in 1..n /\ (i + 1) - 1 = i /\ i + 1 \in 0..n
    BY <1>11, <1>1
  <2>2. h[i + 1] = AppendUnique(h[i], xs[i + 1]) /\ h[i + 1] \in V
    BY <2>1, <1>9, <1>11, <1>2 DEF Body
  <2>3. xs[i + 1] \in S
    BY <2>1 DEF n
  <2>4. h[i] \in Seq(S) /\ FoldUnique(h[i])
    BY <1>11 DEF V
  <2>5. Folded(ToSet(h[i + 1])) = Folded(ToSet(h[i])) \cup {LowerCase[xs[i + 1]]}
    <3> DEFINE v == h[i]
               x == xs[i + 1]
    <3>1. v \in Seq(S) /\ FoldUnique(v) /\ x \in S
      BY <2>3, <2>4
    <3> HIDE DEF v, x
    <3>2. Folded(ToSet(AppendUnique(v, x))) = Folded(ToSet(v)) \cup {LowerCase[x]}
      BY <3>1, AppendUniqueFolds
    <3> QED
      BY <3>2, <2>2 DEF v, x
  <2>6. Folded(Taken(i + 1)) = Folded(Taken(i)) \cup {LowerCase[xs[i + 1]]}
    <3>1. 1..(i + 1) = (1..i) \cup {i + 1}
      BY <2>1
    <3>2. Taken(i + 1) = Taken(i) \cup {xs[i + 1]}
      BY <3>1
    <3> QED
      BY <3>2 DEF Folded
  <2> HIDE DEF Taken
  <2> QED
    BY <1>11, <2>1, <2>2, <2>5, <2>6
<1>12. 0..n \subseteq T
  <2> HIDE DEF T
  <2> QED  BY <1>10, <1>11, <1>1, Climb
<1>13. n \in T
  BY <1>12, <1>1
<1>14. Taken(n) = ToSet(xs)
  BY DEF n, ToSet
<1> QED
  BY <1>3, <1>13, <1>14 DEF V

-----------------------------------------------------------------------------
(* The contacts of some tokens *)

(* What is shown by two sets of tokens is what either shows.               *)
LEMMA ShownUnion ==
    ASSUME NEW A, NEW B, NEW k
    PROVE  Shown(A \cup B, k) = Shown(A, k) \cup Shown(B, k)
BY DEF Shown

LEMMA CanonicalTyped ==
    ASSUME NEW t \in Token
    PROVE  /\ Canonical(t) \in Text
           /\ t.kind \in {"emails", "telegram"} => LowerCase[Canonical(t)] = Canonical(t)
BY LowerCaseAssumption DEF Canonical, Token, Text

(* The matches of a kind are those shown, each in one spelling.            *)
LEMMA MatchesFold ==
    ASSUME NEW tokens \in Seq(Token), NEW k
    PROVE  /\ Matches(tokens, k) \in Seq(Text)
           /\ FoldUnique(Matches(tokens, k))
           /\ Folded(ToSet(Matches(tokens, k))) = Folded(Shown(ToSet(tokens), k))
           /\ ToSet(Matches(tokens, k)) \subseteq Shown(ToSet(tokens), k)
<1> DEFINE n == Len(tokens)
           b == <<>>
           V == {l \in Seq(Text) : FoldUnique(l)}
           Body(v, i) == IF IsMatch(tokens[i], k) THEN AppendUnique(v, Canonical(tokens[i])) ELSE v
           G == [i \in 1..n |-> [v \in V |-> Body(v, i)]]
           IsLoop(f) == f = [i \in 0..n |-> IF i = 0 THEN b ELSE Body(f[i - 1], i)]
           h == CHOOSE f : IsLoop(f)
<1>1. n \in Nat /\ b \in V
  <2>1. FoldUnique(<<>>)
    BY DEF FoldUnique
  <2> QED
    BY <2>1
<1>2. ASSUME NEW i \in 1..n, NEW v \in V PROVE Body(v, i) \in V
  <2>1. Canonical(tokens[i]) \in Text
    BY CanonicalTyped
  <2>2. v \in Seq(Text) /\ FoldUnique(v)
    OBVIOUS
  <2>3. AppendUnique(v, Canonical(tokens[i])) \in V
    <3> DEFINE x == Canonical(tokens[i])
    <3> HIDE DEF x, n
    <3> QED  BY <2>1, <2>2, AppendUniqueFolds DEF x
  <2> HIDE DEF V
  <2> QED
    BY <2>3
<1>3. Matches(tokens, k) = h[n]
  BY Zenon DEF Matches
<1> HIDE DEF n, Body, b, V
<1>4. G \in [1..n -> [V -> V]]
  BY <1>2
<1>5. PICK f \in [0..n -> V] : SolvesLoop(f, n, b, G)
  <2> HIDE DEF G, IsLoop
  <2> QED  BY <1>1, <1>4, LoopExists, Zenon
<1>6. ASSUME NEW i \in 1..n PROVE f[i] = Body(f[i - 1], i)
  <2>1. f[i - 1] \in V
    BY <1>1
  <2> QED
    BY <1>5, <2>1 DEF SolvesLoop
<1>7. IsLoop(f)
  BY <1>5, <1>6, <1>1 DEF SolvesLoop
<1>8. IsLoop(h)
  <2> HIDE DEF IsLoop
  <2> QED  BY <1>7
<1> HIDE DEF h
<1>9. h[0] = b /\ \A i \in 1..n : h[i] = Body(h[i - 1], i)
  BY <1>8, <1>1
<1> DEFINE Read(i) == Shown({tokens[j] : j \in 1..i}, k)
           T == {i \in 0..n : /\ h[i] \in V
                              /\ Folded(ToSet(h[i])) = Folded(Read(i))
                              /\ ToSet(h[i]) \subseteq Read(i)}
<1>10. 0 \in T
  <2>1. Read(0) = {} /\ ToSet(<<>>) = {}
    BY DEF Shown, ToSet
  <2>2. h[0] = <<>> /\ h[0] \in V /\ 0 \in 0..n
    BY <1>9, <1>1 DEF b
  <2> HIDE DEF Read
  <2> QED
    BY <2>1, <2>2
<1>11. ASSUME NEW i \in 0..n, i \in T, i < n PROVE i + 1 \in T
  <2> DEFINE v == h[i]
             t == tokens[i + 1]
             x == Canonical(t)
  <2>1. i + 1 \in 1..n /\ (i + 1) - 1 = i /\ i + 1 \in 0..n
    BY <1>11, <1>1
  <2>2. h[i + 1] = Body(v, i + 1) /\ h[i + 1] \in V
    BY <2>1, <1>9, <1>11, <1>2
  <2>3. Read(i + 1) = Read(i) \cup Shown({t}, k)
    <3>1. 1..(i + 1) = (1..i) \cup {i + 1}
      BY <2>1
    <3> DEFINE A == {tokens[j] : j \in 1..i}
               B == {t}
    <3>2. {tokens[j] : j \in 1..(i + 1)} = A \cup B
      BY <3>1
    <3>3. Read(i) = Shown(A, k) /\ Read(i + 1) = Shown(A \cup B, k)
      BY <3>2
    <3> HIDE DEF A, B, Read
    <3>4. Shown(A \cup B, k) = Shown(A, k) \cup Shown(B, k)
      BY ShownUnion
    <3> QED
      BY <3>3, <3>4 DEF B
  <2>4. v \in Seq(Text) /\ FoldUnique(v) /\ x \in Text
    <3>1. t \in Token
      BY <2>1 DEF n
    <3> QED
      BY <1>11, <3>1, CanonicalTyped DEF V
  <2>5. Folded(ToSet(v)) = Folded(Read(i)) /\ ToSet(v) \subseteq Read(i)
    BY <1>11
  <2> HIDE DEF Read, v
  <2>6. CASE IsMatch(t, k)
    <3>1. h[i + 1] = AppendUnique(v, x)
      BY <2>2, <2>6 DEF Body
    <3>2. Shown({t}, k) = {x}
      BY <2>6 DEF Shown, IsMatch
    <3> HIDE DEF x
    <3>3. /\ Folded(ToSet(h[i + 1])) = Folded(ToSet(v)) \cup {LowerCase[x]}
          /\ ToSet(h[i + 1]) \subseteq ToSet(v) \cup {x}
      BY <3>1, <2>4, AppendUniqueFolds
    <3>4. Folded(Read(i + 1)) = Folded(Read(i)) \cup {LowerCase[x]}
      BY <2>3, <3>2 DEF Folded
    <3> QED
      BY <2>1, <2>2, <2>3, <2>5, <3>2, <3>3, <3>4
  <2>7. CASE ~IsMatch(t, k)
    <3>1. h[i + 1] = v
      BY <2>2, <2>7 DEF Body
    <3>2. Shown({t}, k) = {}
      BY <2>7 DEF Shown, IsMatch
    <3> QED
      BY <2>1, <2>2, <2>3, <2>5, <3>1, <3>2
  <2> QED
    BY <2>6, <2>7
<1>12. 0..n \subseteq T
  <2> HIDE DEF T
  <2> QED  BY <1>10, <1>11, <1>1, Climb
<1>13. n \in T
  <2> HIDE DEF T
  <2> QED  BY <1>12, <1>1
<1>14. {tokens[j] : j \in 1..n} = ToSet(tokens)
  BY DEF n, ToSet
<1> QED
  BY <1>3, <1>13, <1>14 DEF V

(* An e-mail and a handle are kept in lower case, so all shown are there.  *)
LEMMA MatchesAreShown ==
    ASSUME NEW tokens \in Seq(Token), NEW k \in {"emails", "telegram"}
    PROVE  ToSet(Matches(tokens, k)) = Shown(ToSet(tokens), k)
<1> DEFINE M == ToSet(Matches(tokens, k))
           S == Shown(ToSet(tokens), k)
<1>1. M \subseteq S /\ Folded(M) = Folded(S)
  BY MatchesFold
<1>2. \A x \in S : LowerCase[x] = x
  <2>1. \A t \in ToSet(tokens) : t \in Token
    BY DEF ToSet
  <2> QED
    BY <2>1, CanonicalTyped DEF Shown
<1> HIDE DEF M, S
<1>3. S \subseteq M
  BY <1>1, <1>2 DEF Folded
<1> QED
  BY <1>1, <1>3 DEF M, S

-----------------------------------------------------------------------------
(* The managers of a page *)

LEMMA ConcatenatedSet ==
    ASSUME NEW S, NEW a \in Seq(S), NEW b \in Seq(S)
    PROVE  ToSet(a \o b) = ToSet(a) \cup ToSet(b)
<1> DEFINE c == a \o b
<1>1. /\ Len(a) \in Nat /\ DOMAIN a = 1..Len(a)
      /\ Len(b) \in Nat /\ DOMAIN b = 1..Len(b)
      /\ DOMAIN c = 1..(Len(a) + Len(b))
  OBVIOUS
<1>2. \A i \in 1..Len(a) : c[i] = a[i]
  OBVIOUS
<1>3. \A i \in 1..Len(b) : c[Len(a) + i] = b[i] /\ Len(a) + i \in DOMAIN c
  OBVIOUS
<1>4. \A i \in DOMAIN c : i \in 1..Len(a) \/ \E j \in 1..Len(b) : i = Len(a) + j
  <2> SUFFICES ASSUME NEW i \in DOMAIN c, i \notin 1..Len(a)
               PROVE  \E j \in 1..Len(b) : i = Len(a) + j
    OBVIOUS
  <2>1. i - Len(a) \in 1..Len(b) /\ i = Len(a) + (i - Len(a))
    BY <1>1
  <2> QED
    BY <2>1
<1>5. \A i \in 1..Len(a) : i \in DOMAIN c
  BY <1>1
<1> HIDE DEF c
<1>6. ToSet(c) = ToSet(a) \cup ToSet(b)
  BY <1>1, <1>2, <1>3, <1>4, <1>5 DEF ToSet
<1> QED
  BY <1>6 DEF c

LEMMA BlocksTyped ==
    ASSUME NEW p \in HTMLPage
    PROVE  /\ Len(p.blocks) \in Nat /\ DOMAIN p.blocks = 1..Len(p.blocks)
           /\ \A j \in 1..Len(p.blocks) : p.blocks[j] \in PageBlock
           /\ \A i \in Nat \ {0} : Subtree(p, i) \subseteq 1..Len(p.blocks)
<1>1. p.blocks \in Seq(PageBlock)
  BY DEF HTMLPage
<1> QED
  BY <1>1 DEF Subtree

\* the tokens in the attributes of a block and the blocks inside it
LinksIn(p, m) == UNION {ToSet(p.blocks[j].links) : j \in Subtree(p, m)}

(* The attributes of a block are gathered from it and all blocks inside.   *)
LEMMA AttributesAre ==
    ASSUME NEW p \in HTMLPage, NEW m \in Nat \ {0}
    PROVE  /\ Attributes(p, m) \in Seq(Token)
           /\ ToSet(Attributes(p, m)) = LinksIn(p, m)
<1> DEFINE n == Len(p.blocks)
           b == <<>>
           V == Seq(Token)
           Body(v, j) == IF j \in Subtree(p, m) THEN v \o p.blocks[j].links ELSE v
           G == [j \in 1..n |-> [v \in V |-> Body(v, j)]]
           IsLoop(f) == f = [j \in 0..n |-> IF j = 0 THEN b ELSE Body(f[j - 1], j)]
           h == CHOOSE f : IsLoop(f)
<1>1. n \in Nat /\ b \in V
  BY BlocksTyped
<1>l. \A j \in 1..n : p.blocks[j].links \in V
  BY BlocksTyped DEF PageBlock
<1>2. ASSUME NEW j \in 1..n, NEW v \in V PROVE Body(v, j) \in V
  <2>1. p.blocks[j].links \in Seq(Token)
    BY <1>l
  <2> QED
    BY <2>1
<1>3. Attributes(p, m) = h[n]
  BY Zenon DEF Attributes
<1>s. Subtree(p, m) \subseteq 1..n
  BY BlocksTyped
<1> HIDE DEF n, Body, b, V
<1>4. G \in [1..n -> [V -> V]]
  BY <1>2
<1>5. PICK f \in [0..n -> V] : SolvesLoop(f, n, b, G)
  <2> HIDE DEF G, IsLoop
  <2> QED  BY <1>1, <1>4, LoopExists, Zenon
<1>6. ASSUME NEW i \in 1..n PROVE f[i] = Body(f[i - 1], i)
  <2>1. f[i - 1] \in V
    BY <1>1
  <2> QED
    BY <1>5, <2>1 DEF SolvesLoop
<1>7. IsLoop(f)
  BY <1>5, <1>6, <1>1 DEF SolvesLoop
<1>8. IsLoop(h)
  <2> HIDE DEF IsLoop
  <2> QED  BY <1>7
<1> HIDE DEF h
<1>9. h[0] = b /\ \A i \in 1..n : h[i] = Body(h[i - 1], i)
  BY <1>8, <1>1
<1> DEFINE Read(i) == UNION {ToSet(p.blocks[j].links) : j \in {k \in 1..i : k \in Subtree(p, m)}}
           T == {i \in 0..n : h[i] \in V /\ ToSet(h[i]) = Read(i)}
<1>10. 0 \in T
  <2>1. Read(0) = {} /\ ToSet(<<>>) = {}
    BY DEF ToSet
  <2>2. h[0] = <<>> /\ h[0] \in V /\ 0 \in 0..n
    BY <1>9, <1>1 DEF b
  <2> HIDE DEF Read
  <2> QED
    BY <2>1, <2>2
<1>11. ASSUME NEW i \in 0..n, i \in T, i < n PROVE i + 1 \in T
  <2> DEFINE v == h[i]
             links == p.blocks[i + 1].links
  <2>1. i + 1 \in 1..n /\ (i + 1) - 1 = i /\ i + 1 \in 0..n
    BY <1>11, <1>1
  <2>2. h[i + 1] = Body(v, i + 1) /\ h[i + 1] \in V
    BY <2>1, <1>9, <1>11, <1>2
  <2>3. v \in Seq(Token) /\ links \in Seq(Token) /\ ToSet(v) = Read(i)
    BY <1>11, <2>1, <1>l DEF V
  <2>4. 1..(i + 1) = (1..i) \cup {i + 1}
    BY <2>1
  <2>5. CASE i + 1 \in Subtree(p, m)
    <3>1. h[i + 1] = v \o links
      BY <2>2, <2>5 DEF Body
    <3>2. Read(i + 1) = Read(i) \cup ToSet(links)
      BY <2>4, <2>5
    <3> HIDE DEF Read, v, links
    <3>3. ToSet(h[i + 1]) = ToSet(v) \cup ToSet(links)
      BY <3>1, <2>3, ConcatenatedSet
    <3> QED
      BY <2>1, <2>2, <2>3, <3>2, <3>3
  <2>6. CASE i + 1 \notin Subtree(p, m)
    <3>1. h[i + 1] = v
      BY <2>2, <2>6 DEF Body
    <3>2. Read(i + 1) = Read(i)
      BY <2>4, <2>6
    <3> HIDE DEF Read
    <3> QED
      BY <2>1, <2>2, <2>3, <3>1, <3>2
  <2> QED
    BY <2>5, <2>6
<1>12. 0..n \subseteq T
  <2> HIDE DEF T
  <2> QED  BY <1>10, <1>11, <1>1, Climb
<1>13. n \in T
  BY <1>12, <1>1
<1>14. {k \in 1..n : k \in Subtree(p, m)} = Subtree(p, m)
  BY <1>s
<1>15. Read(n) = LinksIn(p, m)
  BY <1>14 DEF LinksIn
<1> HIDE DEF Read
<1> QED
  BY <1>3, <1>13, <1>15 DEF V

(* A manager's name is a text of the page, or blank.                       *)
LEMMA ManagerNameTyped ==
    ASSUME NEW p \in HTMLPage, NEW m \in 1..Len(p.blocks)
    PROVE  ManagerName(p, m) \in Text
<1> DEFINE inside   == Subtree(p, m)
           found(r) == {j \in inside : p.blocks[j].names[r] # <<>>}
           name(r)  == p.blocks[First(found(r))].names[r][1]
           filled   == {r \in Selectors : found(r) # {} /\ name(r) # Blank}
<1>1. /\ inside \subseteq 1..Len(p.blocks) /\ inside \in SUBSET Nat
      /\ \A j \in 1..Len(p.blocks) :
            p.blocks[j].names \in [Selectors -> Seq(Text)] /\ p.blocks[j].label \in Text
  <2>1. inside \subseteq 1..Len(p.blocks) /\ Len(p.blocks) \in Nat
    BY BlocksTyped
  <2>2. \A j \in 1..Len(p.blocks) : p.blocks[j] \in PageBlock
    BY BlocksTyped
  <2> HIDE DEF inside
  <2> QED  BY <2>1, <2>2 DEF PageBlock
<1> HIDE DEF inside
<1>2. ASSUME NEW r \in Selectors, found(r) # {} PROVE name(r) \in Text
  <2> DEFINE j == First(found(r))
  <2>1. j \in found(r)
    <3>1. found(r) \in SUBSET Nat
      BY <1>1
    <3> HIDE DEF found
    <3> QED  BY <1>2, <3>1, FirstIsLeast
  <2>2. p.blocks[j].names[r] \in Seq(Text) /\ p.blocks[j].names[r] # <<>>
    BY <2>1, <1>1
  <2> DEFINE texts == p.blocks[j].names[r]
  <2>3. texts[1] \in Text
    <3> HIDE DEF texts
    <3>1. texts \in Seq(Text) /\ texts # <<>>
      BY <2>2 DEF texts
    <3> QED  BY <3>1
  <2> QED  BY <2>3
<1>3. filled # {} => First(filled) \in filled
  <2>1. filled \in SUBSET Nat
    BY DEF Selectors
  <2> HIDE DEF filled
  <2> QED  BY <2>1, FirstIsLeast
<1>4. ManagerName(p, m) = IF filled # {} THEN name(First(filled)) ELSE p.blocks[m].label
  BY Zenon DEF ManagerName, inside
<1>5. CASE filled # {}
  <2>1. First(filled) \in Selectors /\ found(First(filled)) # {}
    BY <1>3, <1>5
  <2> HIDE DEF name, found, filled
  <2> QED  BY <2>1, <1>2, <1>4, <1>5
<1>6. CASE filled = {}
  BY <1>1, <1>4, <1>6
<1> QED
  BY <1>5, <1>6

\* a manager whose contacts come each in one spelling, and what he has of a kind
Managers ==
    {m \in [name : Text, contacts : [Kinds -> Seq(Text)]] : \A k \in Kinds : FoldUnique(m.contacts[k])}

Has(m, k) == Folded(ToSet(m.contacts[k]))

NamesApart(ms) ==
    \A a, b \in DOMAIN ms : LowerCase[ms[a].name] = LowerCase[ms[b].name] => a = b

LEMMA ExtractedContacts ==
    ASSUME NEW tokens \in Seq(Token)
    PROVE  /\ ExtractContacts(tokens) \in [Kinds -> Seq(Text)]
           /\ \A k \in Kinds :
                /\ ExtractContacts(tokens)[k] = Matches(tokens, k)
                /\ FoldUnique(ExtractContacts(tokens)[k])
                /\ Folded(ToSet(ExtractContacts(tokens)[k])) = Folded(Shown(ToSet(tokens), k))
<1>1. \A k \in Kinds : ExtractContacts(tokens)[k] = Matches(tokens, k)
  BY DEF ExtractContacts
<1>2. ASSUME NEW k \in Kinds
      PROVE  /\ Matches(tokens, k) \in Seq(Text) /\ FoldUnique(Matches(tokens, k))
             /\ Folded(ToSet(Matches(tokens, k))) = Folded(Shown(ToSet(tokens), k))
  BY MatchesFold
<1>3. ExtractContacts(tokens) \in [Kinds -> Seq(Text)]
  BY <1>2 DEF ExtractContacts
<1> QED
  BY <1>1, <1>2, <1>3

(* The manager a block names has what is in the block's attributes.        *)
LEMMA BlockManagerHas ==
    ASSUME NEW p \in HTMLPage, NEW i \in 1..Len(p.blocks)
    PROVE  /\ BlockManager(p, i) \in Managers
           /\ BlockManager(p, i).name = ManagerName(p, i)
           /\ \A k \in Kinds : Has(BlockManager(p, i), k) = Folded(Shown(LinksIn(p, i), k))
<1> DEFINE A == Attributes(p, i)
<1>1. A \in Seq(Token) /\ ToSet(A) = LinksIn(p, i)
  <2>1. i \in Nat \ {0}
    BY BlocksTyped
  <2> QED
    BY <2>1, AttributesAre
<1>2. ManagerName(p, i) \in Text
  BY ManagerNameTyped
<1>3. BlockManager(p, i) = [name |-> ManagerName(p, i), contacts |-> ExtractContacts(A)]
  BY DEF BlockManager
<1> HIDE DEF A
<1>4. /\ ExtractContacts(A) \in [Kinds -> Seq(Text)]
      /\ \A k \in Kinds : /\ FoldUnique(ExtractContacts(A)[k])
                          /\ Folded(ToSet(ExtractContacts(A)[k])) = Folded(Shown(ToSet(A), k))
  BY <1>1, ExtractedContacts
<1> QED
  BY <1>1, <1>2, <1>3, <1>4 DEF Managers, Has

(* A manager is added under a name of his own, or his contacts to those of *)
(* the one that has his name.                                              *)
LEMMA AppendManagerAdds ==
    ASSUME NEW ms \in Seq(Managers), NamesApart(ms), NEW m \in Managers
    PROVE  LET out == AppendManager(ms, m) IN
           /\ out \in Seq(Managers) /\ NamesApart(out)
           /\ \/ /\ Len(out) = Len(ms) + 1 /\ out[Len(ms) + 1] = m
                 /\ \A a \in 1..Len(ms) :
                       out[a] = ms[a] /\ LowerCase[ms[a].name] # LowerCase[m.name]
              \/ /\ Len(out) = Len(ms)
                 /\ \E c \in 1..Len(ms) :
                      /\ LowerCase[ms[c].name] = LowerCase[m.name] /\ out[c].name = ms[c].name
                      /\ \A k \in Kinds : Has(out[c], k) = Has(ms[c], k) \cup Has(m, k)
                      /\ \A a \in 1..Len(ms) : a # c => out[a] = ms[a]
<1> DEFINE n    == Len(ms)
           same == {i \in DOMAIN ms : LowerCase[ms[i].name] = LowerCase[m.name]}
           out  == AppendManager(ms, m)
<1>1. n \in Nat /\ DOMAIN ms = 1..n /\ \A a \in 1..n : ms[a] \in Managers
  OBVIOUS
<1>2. CASE same = {}
  <2>1. out = Append(ms, m)
    BY <1>2, Zenon DEF AppendManager
  <2>2. /\ out \in Seq(Managers) /\ Len(out) = n + 1 /\ out[n + 1] = m
        /\ \A a \in 1..n : out[a] = ms[a]
    BY <2>1
  <2>3. \A a \in 1..n : LowerCase[ms[a].name] # LowerCase[m.name]
    BY <1>1, <1>2
  <2> HIDE DEF out
  <2>4. NamesApart(out)
    <3>1. DOMAIN out = 1..(n + 1)
      BY <2>2, <1>1
    <3> QED
      BY <3>1, <2>2, <2>3, <1>1 DEF NamesApart
  <2> QED
    BY <2>2, <2>3, <2>4 DEF out
<1>3. CASE same # {}
  <2> DEFINE c == First(same)
             sum == AddContacts(ms[c].contacts, m.contacts)
  <2>1. c \in same
    <3>1. same \in SUBSET Nat
      BY <1>1
    <3> HIDE DEF same
    <3> QED  BY <3>1, <1>3, FirstIsLeast
  <2>2. c \in 1..n /\ LowerCase[ms[c].name] = LowerCase[m.name]
    BY <2>1, <1>1
  <2>3. out = [ms EXCEPT ![c].contacts = sum]
    BY <1>3, Zenon DEF AppendManager
  <2>4. ASSUME NEW k \in Kinds
        PROVE  /\ sum[k] \in Seq(Text) /\ FoldUnique(sum[k])
               /\ Folded(ToSet(sum[k])) = Has(ms[c], k) \cup Has(m, k)
    <3> DEFINE old == ms[c].contacts[k]
               new == m.contacts[k]
    <3>1. old \in Seq(Text) /\ FoldUnique(old) /\ new \in Seq(Text)
      BY <1>1, <2>2 DEF Managers
    <3>2. sum[k] = AppendEach(old, new)
      BY DEF AddContacts
    <3>3. Has(ms[c], k) = Folded(ToSet(old)) /\ Has(m, k) = Folded(ToSet(new))
      BY DEF Has
    <3> HIDE DEF old, new, sum
    <3> QED
      BY <3>1, <3>2, <3>3, AppendEachFolds
  <2>5. sum \in [Kinds -> Seq(Text)]
    BY <2>4 DEF AddContacts
  <2> HIDE DEF c, sum
  <2> DEFINE joined == [name |-> ms[c].name, contacts |-> sum]
  <2>6. joined \in Managers /\ \A k \in Kinds : Has(joined, k) = Has(ms[c], k) \cup Has(m, k)
    BY <2>2, <2>4, <2>5, <1>1 DEF Managers, Has
  <2>7. /\ out = [a \in 1..n |-> IF a = c THEN joined ELSE ms[a]]
    <3>1. [ms[c] EXCEPT !.contacts = sum] = joined
      BY <1>1, <2>2 DEF Managers
    <3> HIDE DEF joined
    <3> QED
      BY <2>3, <2>2, <1>1, <3>1
  <2> HIDE DEF joined
  <2>8. /\ out \in Seq(Managers) /\ Len(out) = n
        /\ out[c] = joined /\ \A a \in 1..n : a # c => out[a] = ms[a]
    BY <2>6, <2>7, <2>2, <1>1
  <2> HIDE DEF out
  <2>9. joined.name = ms[c].name
    BY DEF joined
  <2>10. NamesApart(out)
    <3>1. DOMAIN out = 1..n /\ \A a \in 1..n : out[a].name = ms[a].name
      BY <2>7, <2>8, <2>9
    <3> QED
      BY <3>1, <1>1 DEF NamesApart
  <2> QED
    BY <2>2, <2>6, <2>8, <2>9, <2>10 DEF out
<1> QED
  BY <1>2, <1>3

\* the first i blocks that name a manager, those of one name, and the tokens in them
IsNamed(p, j)    == IsManagerBlock(p, j) /\ ManagerName(p, j) # Blank
Rows(p, i, n)    == {j \in 1..i : IsNamed(p, j) /\ LowerCase[ManagerName(p, j)] = n}
LinksOf(p, i, n) == UNION {LinksIn(p, j) : j \in Rows(p, i, n)}

(* The managers of the first i blocks: one for every name, spelled as in   *)
(* the first block of it, with the contacts of all of them.                *)
TakenOver(p, i, m) ==
    LET n == LowerCase[m.name] IN
    /\ \E r \in Rows(p, i, n) : m.name = ManagerName(p, r) /\ \A j \in Rows(p, i, n) : r <= j
    /\ \A k \in Kinds : Has(m, k) = Folded(Shown(LinksOf(p, i, n), k))

ReadSoFar(p, i, ms) ==
    /\ ms \in Seq(Managers) /\ NamesApart(ms)
    /\ \A j \in 1..i : IsNamed(p, j) =>
          \E a \in DOMAIN ms : LowerCase[ms[a].name] = LowerCase[ManagerName(p, j)]
    /\ \A a \in DOMAIN ms : TakenOver(p, i, ms[a])

(* One block more adds a row to its name, if it has one, and to no other.  *)
LEMMA RowsGrow ==
    ASSUME NEW p, NEW i \in Nat, NEW n
    PROVE  /\ IsNamed(p, i + 1) /\ LowerCase[ManagerName(p, i + 1)] = n =>
                /\ Rows(p, i + 1, n) = Rows(p, i, n) \cup {i + 1}
                /\ LinksOf(p, i + 1, n) = LinksOf(p, i, n) \cup LinksIn(p, i + 1)
           /\ ~(IsNamed(p, i + 1) /\ LowerCase[ManagerName(p, i + 1)] = n) =>
                /\ Rows(p, i + 1, n) = Rows(p, i, n)
                /\ LinksOf(p, i + 1, n) = LinksOf(p, i, n)
<1>1. 1..(i + 1) = (1..i) \cup {i + 1}
  OBVIOUS
<1>2. ASSUME IsNamed(p, i + 1), LowerCase[ManagerName(p, i + 1)] = n
      PROVE  /\ Rows(p, i + 1, n) = Rows(p, i, n) \cup {i + 1}
             /\ LinksOf(p, i + 1, n) = LinksOf(p, i, n) \cup LinksIn(p, i + 1)
  <2>1. Rows(p, i + 1, n) = Rows(p, i, n) \cup {i + 1}
    BY <1>1, <1>2 DEF Rows
  <2> QED
    BY <2>1 DEF LinksOf
<1>3. ASSUME ~(IsNamed(p, i + 1) /\ LowerCase[ManagerName(p, i + 1)] = n)
      PROVE  Rows(p, i + 1, n) = Rows(p, i, n)
  BY <1>1, <1>3 DEF Rows
<1> QED
  BY <1>2, <1>3 DEF LinksOf

LEMMA BlockPassed ==
    ASSUME NEW p, NEW i \in Nat, NEW ms, ReadSoFar(p, i, ms), ~IsNamed(p, i + 1)
    PROVE  ReadSoFar(p, i + 1, ms)
<1>1. 1..(i + 1) = (1..i) \cup {i + 1}
  OBVIOUS
<1>2. \A n : Rows(p, i + 1, n) = Rows(p, i, n) /\ LinksOf(p, i + 1, n) = LinksOf(p, i, n)
  BY RowsGrow
<1>3. \A a \in DOMAIN ms : TakenOver(p, i + 1, ms[a])
  BY <1>2 DEF ReadSoFar, TakenOver
<1> QED
  BY <1>1, <1>3 DEF ReadSoFar

LEMMA BlockTaken ==
    ASSUME NEW p \in HTMLPage, NEW i \in Nat, NEW ms, ReadSoFar(p, i, ms), IsNamed(p, i + 1)
    PROVE  ReadSoFar(p, i + 1, AppendManager(ms, BlockManager(p, i + 1)))
<1> DEFINE m   == BlockManager(p, i + 1)
           out == AppendManager(ms, m)
           n   == LowerCase[m.name]
           len == Len(ms)
<1>1. /\ m \in Managers /\ m.name = ManagerName(p, i + 1)
      /\ \A k \in Kinds : Has(m, k) = Folded(Shown(LinksIn(p, i + 1), k))
  <2>1. Subtree(p, i + 1) # {}
    BY DEF IsNamed, IsManagerBlock
  <2>2. i + 1 \in 1..Len(p.blocks)
    BY <2>1, BlocksTyped DEF Subtree
  <2> QED
    BY <2>2, BlockManagerHas
<1>2. /\ ms \in Seq(Managers) /\ NamesApart(ms) /\ len \in Nat /\ DOMAIN ms = 1..len
      /\ \A j \in 1..i : IsNamed(p, j) =>
            \E a \in 1..len : LowerCase[ms[a].name] = LowerCase[ManagerName(p, j)]
      /\ \A a \in 1..len : TakenOver(p, i, ms[a])
  BY DEF ReadSoFar
<1>3. /\ 1..(i + 1) = (1..i) \cup {i + 1} /\ i + 1 \notin 1..i
      /\ Rows(p, i + 1, n) = Rows(p, i, n) \cup {i + 1}
      /\ LinksOf(p, i + 1, n) = LinksOf(p, i, n) \cup LinksIn(p, i + 1)
  BY <1>1, RowsGrow
<1> HIDE DEF m
<1>4. /\ out \in Seq(Managers) /\ NamesApart(out)
      /\ \/ /\ Len(out) = len + 1 /\ out[len + 1] = m
            /\ \A a \in 1..len : out[a] = ms[a] /\ LowerCase[ms[a].name] # n
         \/ /\ Len(out) = len
            /\ \E c \in 1..len :
                 /\ LowerCase[ms[c].name] = n /\ out[c].name = ms[c].name
                 /\ \A k \in Kinds : Has(out[c], k) = Has(ms[c], k) \cup Has(m, k)
                 /\ \A a \in 1..len : a # c => out[a] = ms[a]
  BY <1>1, <1>2, AppendManagerAdds
<1>5. DOMAIN out = 1..Len(out)
  BY <1>4
<1>6. ASSUME NEW a \in 1..len, LowerCase[ms[a].name] # n
      PROVE  TakenOver(p, i + 1, ms[a])
  <2> DEFINE x == LowerCase[ms[a].name]
  <2>1. Rows(p, i + 1, x) = Rows(p, i, x) /\ LinksOf(p, i + 1, x) = LinksOf(p, i, x)
    BY <1>1, <1>6, RowsGrow
  <2>2. TakenOver(p, i, ms[a])
    BY <1>2
  <2> QED
    BY <2>1, <2>2 DEF TakenOver
<1> HIDE DEF n, out, len
<1>7. CASE /\ Len(out) = len + 1 /\ out[len + 1] = m
           /\ \A a \in 1..len : out[a] = ms[a] /\ LowerCase[ms[a].name] # n
  <2>1. Rows(p, i, n) = {}
    BY <1>2, <1>7 DEF Rows
  <2>2. Rows(p, i + 1, n) = {i + 1} /\ LinksOf(p, i + 1, n) = LinksIn(p, i + 1)
    BY <1>3, <2>1 DEF LinksOf
  <2>3. TakenOver(p, i + 1, m)
    BY <2>2, <1>1 DEF TakenOver, n
  <2>4. \A a \in DOMAIN out : TakenOver(p, i + 1, out[a])
    BY <1>2, <1>5, <1>6, <1>7, <2>3
  <2>5. /\ \A a \in 1..len : a \in DOMAIN out /\ out[a].name = ms[a].name
        /\ len + 1 \in DOMAIN out /\ out[len + 1].name = ManagerName(p, i + 1)
    BY <1>1, <1>2, <1>5, <1>7
  <2>6. \A j \in 1..(i + 1) : IsNamed(p, j) =>
            \E a \in DOMAIN out : LowerCase[out[a].name] = LowerCase[ManagerName(p, j)]
    BY <1>2, <1>3, <2>5
  <2> QED
    BY <1>4, <2>4, <2>6 DEF ReadSoFar, out, m
<1>8. CASE /\ Len(out) = len
           /\ \E c \in 1..len :
                /\ LowerCase[ms[c].name] = n /\ out[c].name = ms[c].name
                /\ \A k \in Kinds : Has(out[c], k) = Has(ms[c], k) \cup Has(m, k)
                /\ \A a \in 1..len : a # c => out[a] = ms[a]
  <2>1. PICK c \in 1..len :
                /\ LowerCase[ms[c].name] = n /\ out[c].name = ms[c].name
                /\ \A k \in Kinds : Has(out[c], k) = Has(ms[c], k) \cup Has(m, k)
                /\ \A a \in 1..len : a # c => out[a] = ms[a]
    BY <1>8
  <2>2. TakenOver(p, i, ms[c])
    BY <1>2
  <2>3. PICK r \in Rows(p, i, n) :
           ms[c].name = ManagerName(p, r) /\ \A j \in Rows(p, i, n) : r <= j
    BY <2>1, <2>2 DEF TakenOver
  <2>4. r \in Rows(p, i + 1, n) /\ \A j \in Rows(p, i + 1, n) : r <= j
    <3>1. r <= i + 1
      BY DEF Rows
    <3> QED
      BY <1>3, <2>3, <3>1
  <2>5. ASSUME NEW k \in Kinds
        PROVE  Has(out[c], k) = Folded(Shown(LinksOf(p, i + 1, n), k))
    <3> DEFINE A == LinksOf(p, i, n)
               B == LinksIn(p, i + 1)
    <3>1. Has(ms[c], k) = Folded(Shown(A, k)) /\ Has(m, k) = Folded(Shown(B, k))
      BY <2>1, <2>2, <1>1 DEF TakenOver
    <3>2. LinksOf(p, i + 1, n) = A \cup B
      BY <1>3
    <3> HIDE DEF A, B
    <3>3. Folded(Shown(A \cup B, k)) = Folded(Shown(A, k)) \cup Folded(Shown(B, k))
      BY ShownUnion, FoldedUnion
    <3> QED
      BY <2>1, <3>1, <3>2, <3>3
  <2>6. TakenOver(p, i + 1, out[c])
    BY <2>1, <2>3, <2>4, <2>5 DEF TakenOver
  <2>7. \A a \in 1..len : a # c => LowerCase[ms[a].name] # n
    BY <1>2, <2>1 DEF NamesApart
  <2>8. \A a \in DOMAIN out : TakenOver(p, i + 1, out[a])
    BY <1>5, <1>6, <1>8, <2>1, <2>6, <2>7
  <2>9. \A a \in 1..len : a \in DOMAIN out /\ out[a].name = ms[a].name
    BY <1>5, <1>8, <2>1
  <2>10. \A j \in 1..(i + 1) : IsNamed(p, j) =>
            \E a \in DOMAIN out : LowerCase[out[a].name] = LowerCase[ManagerName(p, j)]
    <3>1. LowerCase[ms[c].name] = LowerCase[ManagerName(p, i + 1)]
      BY <2>1, <1>1 DEF n
    <3> QED
      BY <1>2, <1>3, <2>9, <3>1
  <2> QED
    BY <1>4, <2>8, <2>10 DEF ReadSoFar, out, m
<1> QED
  BY <1>4, <1>7, <1>8

(* The loop over the blocks.                                               *)
LEMMA ManagersRead ==
    ASSUME NEW p \in HTMLPage
    PROVE  ReadSoFar(p, Len(p.blocks), ParseManagers(p))
<1> DEFINE n == Len(p.blocks)
           b == <<>>
           V == {ms \in Seq(Managers) : NamesApart(ms)}
           Body(v, i) == IF IsManagerBlock(p, i) /\ ManagerName(p, i) # Blank
                         THEN AppendManager(v, BlockManager(p, i)) ELSE v
           G == [i \in 1..n |-> [v \in V |-> Body(v, i)]]
           IsLoop(f) == f = [i \in 0..n |-> IF i = 0 THEN b ELSE Body(f[i - 1], i)]
           h == CHOOSE f : IsLoop(f)
<1>1. n \in Nat /\ b \in V
  <2>1. NamesApart(<<>>)
    BY DEF NamesApart
  <2> QED
    BY <2>1, BlocksTyped
<1>2. ASSUME NEW i \in 1..n, NEW v \in V PROVE Body(v, i) \in V
  <2> DEFINE m == BlockManager(p, i)
  <2>1. m \in Managers /\ v \in Seq(Managers) /\ NamesApart(v)
    BY BlockManagerHas
  <2> HIDE DEF m
  <2>2. AppendManager(v, m) \in Seq(Managers) /\ NamesApart(AppendManager(v, m))
    BY <2>1, AppendManagerAdds
  <2> QED
    BY <2>1, <2>2 DEF m
<1>3. ParseManagers(p) = h[n]
  BY Zenon DEF ParseManagers
<1> HIDE DEF n, Body, b, V
<1>4. G \in [1..n -> [V -> V]]
  BY <1>2
<1>5. PICK f \in [0..n -> V] : SolvesLoop(f, n, b, G)
  <2> HIDE DEF G, IsLoop
  <2> QED  BY <1>1, <1>4, LoopExists, Zenon
<1>6. ASSUME NEW i \in 1..n PROVE f[i] = Body(f[i - 1], i)
  <2>1. f[i - 1] \in V
    BY <1>1
  <2> QED
    BY <1>5, <2>1 DEF SolvesLoop
<1>7. IsLoop(f)
  BY <1>5, <1>6, <1>1 DEF SolvesLoop
<1>8. IsLoop(h)
  <2> HIDE DEF IsLoop
  <2> QED  BY <1>7
<1> HIDE DEF h
<1>9. h[0] = b /\ \A i \in 1..n : h[i] = Body(h[i - 1], i)
  BY <1>8, <1>1
<1> DEFINE T == {i \in 0..n : ReadSoFar(p, i, h[i])}
<1>10. 0 \in T
  <2>1. ReadSoFar(p, 0, <<>>)
    BY <1>1 DEF ReadSoFar, b, V
  <2> QED
    BY <2>1, <1>9, <1>1 DEF b
<1>11. ASSUME NEW i \in 0..n, i \in T, i < n PROVE i + 1 \in T
  <2>1. i + 1 \in 1..n /\ (i + 1) - 1 = i /\ i + 1 \in 0..n /\ i \in Nat
    BY <1>11, <1>1
  <2>2. h[i + 1] = Body(h[i], i + 1) /\ ReadSoFar(p, i, h[i])
    BY <2>1, <1>9, <1>11
  <2> DEFINE v == h[i]
             w == h[i + 1]
  <2>3. w = IF IsNamed(p, i + 1) THEN AppendManager(v, BlockManager(p, i + 1)) ELSE v
    BY <2>2 DEF Body, IsNamed
  <2>4. ReadSoFar(p, i, v)
    BY <2>2
  <2> HIDE DEF v, w
  <2>5. ReadSoFar(p, i + 1, w)
    BY <2>1, <2>3, <2>4, BlockPassed, BlockTaken
  <2> QED
    BY <2>1, <2>5 DEF w
<1>12. 0..n \subseteq T
  <2> HIDE DEF T
  <2> QED  BY <1>10, <1>11, <1>1, Climb
<1>13. n \in T
  BY <1>12, <1>1
<1> QED
  BY <1>3, <1>13 DEF n

-----------------------------------------------------------------------------
(* The metadata of a page *)

Pairs(p)        == p.rows \o p.terms
Says(pairs, f)  == {i \in DOMAIN pairs : MetadataField(pairs[i].label) = f /\ pairs[i].value # Blank}

\* what the last of the first n filled pairs of a field says
LastSays(pairs, n, f, x) ==
    \/ Says(pairs, f) \cap 1..n = {} /\ x = Blank
    \/ \E i \in Says(pairs, f) \cap 1..n :
          (\A j \in Says(pairs, f) \cap 1..n : j <= i) /\ x = pairs[i].value

(* The loop over the pairs leaves in every field what the last filled pair *)
(* says of it.                                                             *)
LEMMA MetadataRead ==
    ASSUME NEW p \in HTMLPage, NEW field \in MetadataFields
    PROVE  LET x == ParseMetadata(p)[field] IN
           \/ Says(Pairs(p), field) = {} /\ x = Blank
           \/ \E i \in Says(Pairs(p), field) :
                 (\A j \in Says(Pairs(p), field) : j <= i) /\ x = Pairs(p)[i].value
<1> DEFINE pairs == Pairs(p)
           n == Len(pairs)
           b == [f \in MetadataFields |-> Blank]
           V == [MetadataFields -> {Blank} \cup {pairs[i].value : i \in 1..n}]
           Body(v, i) == ParseMetadataPair(v, pairs[i])
           G == [i \in 1..n |-> [v \in V |-> Body(v, i)]]
           IsLoop(f) == f = [i \in 0..n |-> IF i = 0 THEN b ELSE Body(f[i - 1], i)]
           h == CHOOSE f : IsLoop(f)
<1>p. pairs \in Seq(LabelledValue) /\ DOMAIN pairs = 1..n
  BY DEF Pairs, HTMLPage
<1>1. n \in Nat /\ b \in V
  <2>1. b \in V
    OBVIOUS
  <2>2. n \in Nat
    <3> HIDE DEF pairs
    <3> QED  BY <1>p
  <2> QED
    BY <2>1, <2>2
<1>2. ASSUME NEW i \in 1..n, NEW v \in V PROVE Body(v, i) \in V
  <2> DEFINE pair == pairs[i]
  <2>1. pair.value \in {pairs[j].value : j \in 1..n}
    OBVIOUS
  <2> HIDE DEF pair, pairs
  <2>2. ParseMetadataPair(v, pair) \in V
    BY <2>1 DEF ParseMetadataPair
  <2> QED
    BY <2>2 DEF pair
<1>3. ParseMetadata(p) = h[n]
  BY Zenon DEF ParseMetadata, Pairs
<1> HIDE DEF pairs, n, Body, b, V
<1>4. G \in [1..n -> [V -> V]]
  BY <1>2
<1>5. PICK f \in [0..n -> V] : SolvesLoop(f, n, b, G)
  <2> HIDE DEF G, IsLoop
  <2> QED  BY <1>1, <1>4, LoopExists, Zenon
<1>6. ASSUME NEW i \in 1..n PROVE f[i] = Body(f[i - 1], i)
  <2>1. f[i - 1] \in V
    BY <1>1
  <2> QED
    BY <1>5, <2>1 DEF SolvesLoop
<1>7. IsLoop(f)
  BY <1>5, <1>6, <1>1 DEF SolvesLoop
<1>8. IsLoop(h)
  <2> HIDE DEF IsLoop
  <2> QED  BY <1>7
<1> HIDE DEF h
<1>9. h[0] = b /\ \A i \in 1..n : h[i] = Body(h[i - 1], i)
  BY <1>8, <1>1
<1> DEFINE T == {i \in 0..n : h[i] \in V /\ LastSays(pairs, i, field, h[i][field])}
<1>10. 0 \in T
  <2>1. h[0][field] = Blank
    BY <1>9 DEF b
  <2>2. 1..0 = {} /\ 0 \in 0..n
    BY <1>1
  <2> QED
    BY <2>1, <2>2, <1>1, <1>9 DEF LastSays
<1>11. ASSUME NEW i \in 0..n, i \in T, i < n PROVE i + 1 \in T
  <2>1. /\ i + 1 \in 1..n /\ (i + 1) - 1 = i /\ i + 1 \in 0..n
        /\ 1..(i + 1) = (1..i) \cup {i + 1} /\ \A j \in 1..(i + 1) : j <= i + 1
    BY <1>11, <1>1
  <2> DEFINE v == h[i]
             w == h[i + 1]
             S == Says(pairs, field)
  <2>2. w = ParseMetadataPair(v, pairs[i + 1]) /\ w \in V /\ v \in V
    BY <2>1, <1>9, <1>11, <1>2 DEF Body
  <2>3. LastSays(pairs, i, field, v[field])
    BY <1>11
  <2>4. i + 1 \in S <=>
          MetadataField(pairs[i + 1].label) = field /\ pairs[i + 1].value # Blank
    BY <2>1, <1>p DEF Says
  <2>5. field # Blank
    BY DEF MetadataFields, Blank
  <2> HIDE DEF v, w, S
  <2>6. CASE i + 1 \in S
    <3>1. w[field] = pairs[i + 1].value
      BY <2>2, <2>4, <2>5, <2>6 DEF ParseMetadataPair, V
    <3>2. i + 1 \in S \cap 1..(i + 1) /\ \A j \in S \cap 1..(i + 1) : j <= i + 1
      BY <2>1, <2>6
    <3>3. LastSays(pairs, i + 1, field, w[field])
      BY <3>1, <3>2 DEF LastSays, S
    <3> QED
      BY <2>1, <2>2, <3>3 DEF w
  <2>7. CASE i + 1 \notin S
    <3>1. w[field] = v[field]
      BY <2>2, <2>4, <2>7 DEF ParseMetadataPair, V
    <3>2. S \cap 1..(i + 1) = S \cap 1..i
      BY <2>1, <2>7
    <3>3. LastSays(pairs, i + 1, field, w[field])
      BY <3>1, <3>2, <2>3 DEF LastSays, S
    <3> QED
      BY <2>1, <2>2, <3>3 DEF w
  <2> QED
    BY <2>6, <2>7
<1>12. 0..n \subseteq T
  <2> HIDE DEF T
  <2> QED  BY <1>10, <1>11, <1>1, Climb
<1>13. LastSays(pairs, n, field, h[n][field])
  BY <1>12, <1>1
<1>14. Says(pairs, field) \cap 1..n = Says(pairs, field)
  BY <1>p DEF Says
<1> QED
  BY <1>3, <1>13, <1>14 DEF LastSays, pairs

-----------------------------------------------------------------------------
(* The lists a manager has nothing in are filled from his name, which      *)
(* leaves what the blocks gave.                                            *)
LEMMA ManagerFilled ==
    ASSUME NEW m \in Managers, NEW k \in Kinds, NEW L,
           Has(m, k) = Folded(Shown(L, k))
    PROVE  LET c == FillManager(m).contacts[k]
               known == IF Shown(L, k) # {} THEN Shown(L, k) ELSE Shown(ToSet(TokensIn[m.name]), k)
           IN  /\ FillManager(m).name = m.name
               /\ Folded(ToSet(c)) = Folded(known)
               /\ Cardinality(Folded(known)) = Len(c)
<1> DEFINE old    == m.contacts[k]
           tokens == TokensIn[m.name]
           new    == ExtractContacts(tokens)[k]
           c      == FillManager(m).contacts[k]
           known  == IF Shown(L, k) # {} THEN Shown(L, k) ELSE Shown(ToSet(tokens), k)
<1>1. old \in Seq(Text) /\ FoldUnique(old) /\ m.name \in Text
  BY DEF Managers
<1>2. FillManager(m).name = m.name /\ c = IF old = <<>> THEN new ELSE old
  BY DEF FillManager, Managers
<1>3. new \in Seq(Text) /\ FoldUnique(new) /\ Folded(ToSet(new)) = Folded(Shown(ToSet(tokens), k))
  <2>1. tokens \in Seq(Token)
    BY <1>1, TokensInAssumption
  <2> HIDE DEF tokens
  <2> QED
    BY <2>1, ExtractedContacts
<1>4. Folded(ToSet(old)) = Folded(Shown(L, k))
  BY DEF Has
<1> HIDE DEF old, tokens, new, c
<1>5. CASE old = <<>>
  <2>1. ToSet(old) = {}
    BY <1>5 DEF ToSet
  <2>2. Folded(ToSet(old)) = {}
    BY <2>1 DEF Folded
  <2>3. Shown(L, k) = {}
    BY <2>2, <1>4 DEF Folded
  <2>4. c = new /\ known = Shown(ToSet(tokens), k)
    BY <1>2, <1>5, <2>3
  <2> QED
    BY <2>4, <1>2, <1>3, FoldedCount DEF c, tokens
<1>6. CASE old # <<>>
  <2>1. old[1] \in ToSet(old)
    BY <1>1, <1>6 DEF ToSet
  <2>2. Folded(ToSet(old)) # {}
    BY <2>1 DEF Folded
  <2>3. Shown(L, k) # {}
    BY <2>2, <1>4 DEF Folded
  <2>4. c = old /\ known = Shown(L, k)
    BY <1>2, <1>6, <2>3
  <2> QED
    BY <2>4, <1>1, <1>2, <1>4, FoldedCount DEF c, tokens
<1> QED
  BY <1>5, <1>6

(* A lead with the managers of its page filled and the page's metadata has *)
(* the profile the page shows.                                             *)
LEMMA ProfileOfPage ==
    ASSUME NEW p \in HTMLPage, NEW l,
           l.managers = [a \in DOMAIN ParseManagers(p) |-> FillManager(ParseManagers(p)[a])],
           l.metadata = ParseMetadata(p)
    PROVE  ShowsProfile(l, p)
<1> DEFINE rows(n) == {i \in DOMAIN p.blocks :
                         IsManagerBlock(p, i) /\ LowerCase[ManagerName(p, i)] = n}
           names   == Folded({ManagerName(p, i) : i \in {j \in DOMAIN p.blocks :
                         IsManagerBlock(p, j)}}) \ {Blank}
           links(n) == UNION {UNION {ToSet(p.blocks[j].links) : j \in Subtree(p, i)} : i \in rows(n)}
           known(n, k) ==
               IF Shown(links(n), k) # {} THEN Shown(links(n), k)
               ELSE Shown(ToSet(TokensIn[ManagerName(p, First(rows(n)))]), k)
           N == Len(p.blocks)
           M == ParseManagers(p)
           L == [a \in 1..Len(M) |-> M[a].name]
<1>1. N \in Nat /\ DOMAIN p.blocks = 1..N
  BY BlocksTyped
<1>2. /\ M \in Seq(Managers) /\ NamesApart(M)
      /\ \A j \in 1..N : IsNamed(p, j) =>
            \E a \in DOMAIN M : LowerCase[M[a].name] = LowerCase[ManagerName(p, j)]
      /\ \A a \in DOMAIN M : TakenOver(p, N, M[a])
  BY ManagersRead, Zenon DEF ReadSoFar
<1>3. \A j \in 1..N : ManagerName(p, j) \in Text
  BY ManagerNameTyped
<1>4. names = {LowerCase[ManagerName(p, j)] : j \in {i \in 1..N : IsNamed(p, i)}}
  BY <1>1, <1>3, BlankAssumption DEF Folded, IsNamed
<1>5. \A n : n # Blank => rows(n) = Rows(p, N, n)
  BY <1>1, <1>3, BlankAssumption DEF Rows, IsNamed
<1>6. \A n : n # Blank => links(n) = LinksOf(p, N, n)
  BY <1>5 DEF LinksOf, LinksIn
<1> HIDE DEF M, N
<1>7. Len(M) \in Nat /\ DOMAIN M = 1..Len(M) /\ \A a \in 1..Len(M) : M[a] \in Managers
  BY <1>2
<1>8. Cardinality(names) = Len(M)
  <2>1. L \in Seq(Text) /\ Len(L) = Len(M)
    BY <1>7 DEF Managers
  <2>2. FoldUnique(L)
    BY <1>2, <1>7 DEF FoldUnique, NamesApart
  <2>3. ToSet(L) = {M[a].name : a \in 1..Len(M)}
    BY <1>7 DEF ToSet
  <2>4. \A a \in 1..Len(M) : \E j \in 1..N :
           IsNamed(p, j) /\ LowerCase[ManagerName(p, j)] = LowerCase[M[a].name]
    BY <1>2, <1>7 DEF TakenOver, Rows
  <2>5. \A j \in 1..N : IsNamed(p, j) =>
           \E a \in 1..Len(M) : LowerCase[M[a].name] = LowerCase[ManagerName(p, j)]
    BY <1>2, <1>7
  <2> HIDE DEF L, names
  <2>6. \A y : y \in Folded(ToSet(L)) <=> \E a \in 1..Len(M) : y = LowerCase[M[a].name]
    BY <2>3 DEF Folded
  <2>7. \A y : y \in names <=>
              \E j \in 1..N : IsNamed(p, j) /\ y = LowerCase[ManagerName(p, j)]
    BY <1>4
  <2>8. Folded(ToSet(L)) = names
    <3>1. \A y : y \in Folded(ToSet(L)) <=> y \in names
      BY <2>4, <2>5, <2>6, <2>7
    <3> QED
      BY <3>1
  <2> QED
    BY <2>1, <2>2, <2>8, FoldedCount
<1>9. /\ Len(l.managers) = Len(M)
      /\ \A a \in 1..Len(M) : l.managers[a] = FillManager(M[a]) /\ l.managers[a] \in ToSet(l.managers)
  BY <1>7 DEF M, ToSet
<1>10. ASSUME NEW n \in names
       PROVE  \E m \in ToSet(l.managers) :
                 /\ LowerCase[m.name] = n
                 /\ \A k \in Kinds : /\ Folded(ToSet(m.contacts[k])) = Folded(known(n, k))
                                     /\ Cardinality(Folded(known(n, k))) = Len(m.contacts[k])
  <2>1. PICK a \in 1..Len(M) : LowerCase[M[a].name] = n
    <3>1. \E j \in 1..N : IsNamed(p, j) /\ LowerCase[ManagerName(p, j)] = n
      BY <1>4, <1>10
    <3> QED
      BY <3>1, <1>2, <1>7
  <2>2. n # Blank
    BY <1>10
  <2>3. rows(n) = Rows(p, N, n) /\ links(n) = LinksOf(p, N, n)
    BY <1>5, <1>6, <2>2
  <2>4. TakenOver(p, N, M[a]) /\ M[a] \in Managers
    BY <1>2, <1>7
  <2>5. PICK r \in Rows(p, N, n) :
           M[a].name = ManagerName(p, r) /\ \A j \in Rows(p, N, n) : r <= j
    BY <2>1, <2>4 DEF TakenOver
  <2>6. First(rows(n)) = r
    <3>1. Rows(p, N, n) \in SUBSET Nat
      BY DEF Rows
    <3>2. /\ First(Rows(p, N, n)) \in Rows(p, N, n)
          /\ \A j \in Rows(p, N, n) : First(Rows(p, N, n)) <= j
      BY <3>1, FirstIsLeast
    <3>3. First(Rows(p, N, n)) = r
      BY <2>5, <3>1, <3>2
    <3> HIDE DEF rows
    <3> QED
      BY <3>3, <2>3
  <2> DEFINE A == LinksOf(p, N, n)
             m == FillManager(M[a])
  <2>7. ASSUME NEW k \in Kinds
        PROVE  /\ m.name = M[a].name
               /\ Folded(ToSet(m.contacts[k])) = Folded(known(n, k))
               /\ Cardinality(Folded(known(n, k))) = Len(m.contacts[k])
    <3>1. Has(M[a], k) = Folded(Shown(A, k))
      BY <2>1, <2>4 DEF TakenOver
    <3>2. known(n, k) = IF Shown(A, k) # {} THEN Shown(A, k) ELSE Shown(ToSet(TokensIn[M[a].name]), k)
      <4> HIDE DEF rows, links
      <4> QED  BY <2>3, <2>5, <2>6
    <3> DEFINE K == IF Shown(A, k) # {} THEN Shown(A, k) ELSE Shown(ToSet(TokensIn[M[a].name]), k)
    <3> HIDE DEF A, known
    <3>3. /\ m.name = M[a].name
          /\ Folded(ToSet(m.contacts[k])) = Folded(K)
          /\ Cardinality(Folded(K)) = Len(m.contacts[k])
      BY <3>1, <2>4, ManagerFilled, Zenon
    <3>4. known(n, k) = K
      BY <3>2
    <3> HIDE DEF K, m
    <3> QED
      BY <3>3, <3>4
  <2>8. m \in ToSet(l.managers)
    BY <1>9
  <2>9. "emails" \in Kinds
    BY DEF Kinds
  <2> HIDE DEF m, known, rows, links
  <2>10. LowerCase[m.name] = n
    BY <2>1, <2>7, <2>9
  <2> QED
    BY <2>7, <2>8, <2>10
<1>11. ASSUME NEW f \in MetadataFields
       PROVE  LET pairs == p.rows \o p.terms
                  filled == {i \in DOMAIN pairs :
                                MetadataField(pairs[i].label) = f /\ pairs[i].value # Blank}
              IN  \/ filled = {} /\ l.metadata[f] = Blank
                  \/ \E i \in filled : /\ \A j \in filled : j <= i
                                       /\ l.metadata[f] = pairs[i].value
  <2> DEFINE pairs == p.rows \o p.terms
             filled == {i \in DOMAIN pairs :
                           MetadataField(pairs[i].label) = f /\ pairs[i].value # Blank}
  <2>1. pairs = Pairs(p) /\ filled = Says(pairs, f)
    BY Zenon DEF Pairs, Says
  <2>2. \/ Says(Pairs(p), f) = {} /\ ParseMetadata(p)[f] = Blank
        \/ \E i \in Says(Pairs(p), f) :
              (\A j \in Says(Pairs(p), f) : j <= i) /\ ParseMetadata(p)[f] = Pairs(p)[i].value
    BY MetadataRead, Zenon
  <2> HIDE DEF pairs, filled
  <2>3. \/ filled = {} /\ l.metadata[f] = Blank
        \/ \E i \in filled : /\ \A j \in filled : j <= i
                             /\ l.metadata[f] = pairs[i].value
    BY <2>1, <2>2
  <2> QED
    BY <2>3 DEF pairs, filled
<1> HIDE DEF rows, links
<1>12. Cardinality(names) = Len(l.managers)
  BY <1>8, <1>9
<1> QED
  BY <1>10, <1>11, <1>12, Zenon DEF ShowsProfile, rows, links

-----------------------------------------------------------------------------
(* The verdict *)

\* what a page, and the name of its lead, have of evidence, and a verdict that rests on it
Evidence(name, p) ==
    LET contacts(k) == Shown(ToSet(p.text) \cup ToSet(p.meta), k) IN
    (({name} \cup contacts("telegram")) \cap SlavicNames)
    \cup {e \in contacts("emails") : Mailbox[e].host \in CISHosts}
    \cup {e \in contacts("emails") : /\ Mailbox[e].box \notin SystemBoxes
                                     /\ Mailbox[e].box \in SlavicNames}

RestsOn(v, E) == (v.cis <=> E # {}) /\ v.reason \in (IF v.cis THEN E ELSE {Blank})

LEMMA FlagRests ==
    FlagFollowsPage <=> (phase \in {"judged", "done"} => RestsOn(verdict, Evidence(lead.name, page)))
BY Zenon DEF FlagFollowsPage, Evidence, RestsOn

(* The filter finds evidence in the contacts of the page just when there   *)
(* is any.                                                                 *)
LEMMA VerdictOfPage ==
    ASSUME NEW l, NEW p, NEW tokens \in Seq(Token),
           ToSet(tokens) = ToSet(p.text) \cup ToSet(p.meta),
           l.contacts = ExtractContacts(tokens)
    PROVE  RestsOn(IsCIS(l), Evidence(l.name, p))
<1> DEFINE emails  == l.contacts["emails"]
           handles == l.contacts["telegram"]
           evident == {i \in DOMAIN emails : Evident(emails[i])}
           slavic  == {i \in DOMAIN handles : handles[i] \in SlavicNames}
           E       == Evidence(l.name, p)
           S(k)    == Shown(ToSet(tokens), k)
           v       == IsCIS(l)
<1>1. ASSUME NEW k \in {"emails", "telegram"}
      PROVE  l.contacts[k] \in Seq(Text) /\ ToSet(l.contacts[k]) = S(k)
  <2>1. k \in Kinds
    BY DEF Kinds
  <2>2. l.contacts[k] = Matches(tokens, k)
    BY <2>1 DEF ExtractContacts
  <2> QED
    BY <2>2, MatchesFold, MatchesAreShown
<1>2. emails \in Seq(Text) /\ handles \in Seq(Text) /\ ToSet(emails) = S("emails") /\ ToSet(handles) = S("telegram")
  BY <1>1
<1>3. E = (({l.name} \cup S("telegram")) \cap SlavicNames)
          \cup {e \in S("emails") : Mailbox[e].host \in CISHosts}
          \cup {e \in S("emails") : Mailbox[e].box \notin SystemBoxes /\ Mailbox[e].box \in SlavicNames}
  BY Zenon DEF Evidence
<1>4. v = IF l.name \in SlavicNames THEN [cis |-> TRUE, reason |-> l.name]
          ELSE IF evident # {} THEN [cis |-> TRUE, reason |-> emails[First(evident)]]
          ELSE IF slavic # {} THEN [cis |-> TRUE, reason |-> handles[First(slavic)]] ELSE NoVerdict
  BY Zenon DEF IsCIS
<1> HIDE DEF emails, handles, E, S, v
<1>5. /\ DOMAIN emails \subseteq Nat /\ DOMAIN handles \subseteq Nat
      /\ \A i \in DOMAIN emails : emails[i] \in S("emails")
      /\ \A e \in S("emails") : \E i \in DOMAIN emails : emails[i] = e
      /\ \A i \in DOMAIN handles : handles[i] \in S("telegram")
      /\ \A e \in S("telegram") : \E i \in DOMAIN handles : handles[i] = e
  BY <1>2 DEF ToSet
<1>6. \A x : x \in E <=> \/ x = l.name /\ x \in SlavicNames
                         \/ x \in S("telegram") /\ x \in SlavicNames
                         \/ x \in S("emails") /\ Evident(x)
  BY <1>3 DEF Evident
<1>7. CASE l.name \in SlavicNames
  BY <1>4, <1>6, <1>7 DEF RestsOn, E, v
<1>8. CASE l.name \notin SlavicNames /\ evident # {}
  <2>1. First(evident) \in evident
    <3>1. evident \in SUBSET Nat
      BY <1>5
    <3> HIDE DEF evident
    <3> QED  BY <3>1, <1>8, FirstIsLeast
  <2>2. emails[First(evident)] \in E
    BY <2>1, <1>5, <1>6
  <2>3. v = [cis |-> TRUE, reason |-> emails[First(evident)]]
    BY <1>4, <1>8
  <2> HIDE DEF evident
  <2> QED
    BY <2>2, <2>3 DEF RestsOn, E, v
<1>9. CASE l.name \notin SlavicNames /\ evident = {} /\ slavic # {}
  <2>1. First(slavic) \in slavic
    <3>1. slavic \in SUBSET Nat
      BY <1>5
    <3> HIDE DEF slavic
    <3> QED  BY <3>1, <1>9, FirstIsLeast
  <2>2. handles[First(slavic)] \in E
    BY <2>1, <1>5, <1>6
  <2>3. v = [cis |-> TRUE, reason |-> handles[First(slavic)]]
    BY <1>4, <1>9
  <2> HIDE DEF slavic
  <2> QED
    BY <2>2, <2>3 DEF RestsOn, E, v
<1>10. CASE l.name \notin SlavicNames /\ evident = {} /\ slavic = {}
  <2>1. E = {}
    BY <1>5, <1>6, <1>10
  <2>2. v = NoVerdict
    BY <1>4, <1>10
  <2> QED
    BY <2>1, <2>2 DEF RestsOn, NoVerdict, E, v
<1> QED
  BY <1>7, <1>8, <1>9, <1>10

-----------------------------------------------------------------------------
IsLead(l) ==
    l = [name |-> l.name, contacts |-> l.contacts, managers |-> l.managers, metadata |-> l.metadata]

(* The text the extractor is given is that of the page; a lead is what was *)
(* read of the page until the scraper completes it, and has the contacts   *)
(* of the page until handles are dropped.                                  *)
ReadInv ==
    /\ html \in Seq(Token) /\ ToSet(html) = ToSet(page.text) \cup ToSet(page.meta)
    /\ phase \in {"new", "requesting"} => page = NoPage /\ html = <<>>
    /\ phase = "responded" /\ lead # NoLead =>
          lead = ParseDocument(page) /\ (engine \in Profiled => page.answered)
    /\ phase = "scraped" => lead.contacts = ExtractContacts(html)
    /\ Finished => IsLead(lead)

PageInv == PageTypeOK /\ ReadInv /\ ProfileMatchesPage /\ FlagFollowsPage

LEMMA LeadIsSome == ASSUME NEW l, IsLead(l) PROVE l # NoLead
<1>1. "name" \in DOMAIN l
  BY DEF IsLead
<1>2. "name" \notin DOMAIN NoLead
  BY DEF NoLead
<1> QED
  BY <1>1, <1>2

LEMMA HTMLOfPage ==
    ASSUME NEW p \in Pages \cup {NoPage}
    PROVE  /\ PageHTML(p) \in Seq(Token)
           /\ ToSet(PageHTML(p)) = ToSet(p.text) \cup ToSet(p.meta)
           /\ p.answered => p \in HTMLPage
<1>1. CASE p \in Pages
  <2>1. p \in HTMLPage /\ ToSet(p.meta) \subseteq ToSet(p.text)
    BY <1>1, PagesAssumption
  <2>2. p.text \in Seq(Token) /\ p.meta \in Seq(Token)
    BY <2>1 DEF HTMLPage
  <2>3. ToSet(p.text \o p.meta) = ToSet(p.text) \cup ToSet(p.meta)
    BY <2>2, ConcatenatedSet
  <2>4. p.text \o p.meta \in Seq(Token)
    BY <2>2
  <2> QED
    BY <2>1, <2>2, <2>3, <2>4 DEF PageHTML
<1>2. CASE p = NoPage
  <2>1. p.text = <<>> /\ p.meta = <<>> /\ p.answered = FALSE
    BY <1>2 DEF NoPage
  <2>2. PageHTML(p) = <<>>
    BY <2>1 DEF PageHTML
  <2>3. ToSet(<<>>) = {}
    BY DEF ToSet
  <2> QED
    BY <2>1, <2>2, <2>3
<1> QED
  BY <1>1, <1>2

(* What is said of the profile and the verdict stays true while the lead   *)
(* keeps its name, its managers and its metadata.                          *)
LEMMA ProfileKept ==
    ASSUME engine' = engine, page' = page, Finished, ProfileMatchesPage,
           lead'.managers = lead.managers, lead'.metadata = lead.metadata
    PROVE  ProfileMatchesPage'
<1>1. CASE Finished'
  <2>1. ShowsProfile(lead, page)' = ShowsProfile(lead, page)
    BY DEF ShowsProfile, IsManagerBlock, Roles
  <2> QED
    BY <1>1, <2>1 DEF ProfileMatchesPage
<1>2. CASE ~Finished'
  BY <1>2 DEF ProfileMatchesPage
<1> QED
  BY <1>1, <1>2

LEMMA NotFinished ==
    ASSUME phase' \in {"new", "requesting", "responded", "failed"}
    PROVE  ProfileMatchesPage' /\ FlagFollowsPage' /\ ~Finished'
<1>1. ~Finished' /\ phase' \notin {"judged", "done"}
  BY DEF Finished
<1>2. ProfileMatchesPage'
  BY <1>1 DEF ProfileMatchesPage
<1>3. FlagFollowsPage'
  BY <1>1, Zenon DEF FlagFollowsPage
<1> QED
  BY <1>1, <1>2, <1>3

LEMMA PageInvInit == PageInit => PageInv
<1> SUFFICES ASSUME PageInit PROVE PageInv
  OBVIOUS
<1>1. phase = "new" /\ page = NoPage /\ html = <<>> /\ lead = NoLead
  BY DEF PageInit
<1>2. PageTypeOK
  BY DEF PageInit, PageTypeOK, Finished
<1>3. ReadInv
  <2>1. html \in Seq(Token) /\ ToSet(html) = {} /\ ToSet(page.text) \cup ToSet(page.meta) = {}
    BY <1>1 DEF ToSet, NoPage
  <2> QED
    BY <1>1, <2>1 DEF ReadInv, Finished
<1>4. ProfileMatchesPage
  BY <1>1 DEF ProfileMatchesPage, Finished
<1>5. FlagFollowsPage
  BY <1>1, Zenon DEF FlagFollowsPage
<1> QED
  BY <1>2, <1>3, <1>4, <1>5 DEF PageInv

(* Until the page is read there is nothing to say of it.                   *)
LEMMA RouteStep == PageInv /\ (Refuse \/ Route \/ RequestFails \/ ParseFails) => PageInv'
<1> SUFFICES ASSUME PageInv, Refuse \/ Route \/ RequestFails \/ ParseFails PROVE PageInv'
  OBVIOUS
<1>1. PageTypeOK /\ ReadInv
  BY DEF PageInv
<1>2. /\ phase \in {"new", "requesting"} /\ lead = NoLead /\ page = NoPage /\ html = <<>>
      /\ phase' \in {"requesting", "responded", "failed"}
      /\ url' = url /\ page' = page /\ html' = html /\ interrupted' = interrupted
      /\ lead' = lead /\ verdict' = verdict
  BY <1>1 DEF Refuse, Route, RequestFails, ParseFails, PageTypeOK, ReadInv, readVars
<1>3. engine' \in Profiled \cup {"colly", Blank} /\ failed' \in BOOLEAN
  <2>1. CASE Route
    <3>1. EngineOf(Hostname) \in Profiled \cup {"colly"}
      BY DEF EngineOf, Profiled
    <3> QED
      BY <2>1, <3>1, <1>1 DEF Route, PageTypeOK
  <2>2. CASE Refuse \/ RequestFails \/ ParseFails
    BY <2>2, <1>1 DEF Refuse, RequestFails, ParseFails, PageTypeOK, readVars
  <2> QED
    BY <2>1, <2>2
<1>4. ProfileMatchesPage' /\ FlagFollowsPage' /\ ~Finished'
  BY <1>2, NotFinished
<1>5. PageTypeOK'
  BY <1>1, <1>2, <1>3, <1>4 DEF PageTypeOK
<1>6. ReadInv'
  BY <1>1, <1>2, <1>4 DEF ReadInv
<1> QED
  BY <1>4, <1>5, <1>6 DEF PageInv

LEMMA RespondStep == PageInv /\ (Respond \/ NoResponse) => PageInv'
<1> SUFFICES ASSUME PageInv, Respond \/ NoResponse PROVE PageInv'
  OBVIOUS
<1>1. PageTypeOK /\ ReadInv
  BY DEF PageInv
<1>2. /\ phase = "requesting" /\ phase' = "responded" /\ lead = NoLead
      /\ url' = url /\ engine' = engine /\ failed' = failed
      /\ interrupted' = interrupted /\ verdict' = verdict
  BY <1>1 DEF Respond, NoResponse, PageTypeOK, readVars
<1>3. ProfileMatchesPage' /\ FlagFollowsPage' /\ ~Finished'
  BY <1>2, NotFinished
<1>4. \A p : ParseDocument(p)' = ParseDocument(p)
  BY <1>2 DEF ParseDocument, CompanyName, ParseManagers, IsManagerBlock, Roles
<1>5. CASE Respond
  <2>1. PICK p \in Pages : page' = p /\ html' = PageHTML(p) /\ lead' = ParseDocument(p)
    BY <1>5 DEF Respond
  <2>2. p \in HTMLPage /\ p.answered
    BY PagesAssumption DEF HTMLPage
  <2>3. html' \in Seq(Token) /\ ToSet(html') = ToSet(page'.text) \cup ToSet(page'.meta)
    BY <2>1, HTMLOfPage
  <2>4. ParseDocument(page)' = ParseDocument(p)
    BY <1>2, <2>1 DEF ParseDocument, CompanyName, ParseManagers, IsManagerBlock, Roles
  <2>5. PageTypeOK'
    BY <1>1, <1>2, <1>3, <2>1 DEF PageTypeOK
  <2>6. ReadInv'
    BY <1>2, <1>3, <2>1, <2>2, <2>3, <2>4 DEF ReadInv
  <2> QED
    BY <1>3, <2>5, <2>6 DEF PageInv
<1>6. CASE NoResponse
  <2>1. /\ page' = page /\ html' = html /\ page = NoPage
        /\ lead' = IF engine = "colly" THEN ParseDocument(NoPage) ELSE NoLead
    BY <1>6, <1>1, <1>2 DEF NoResponse, readVars, ReadInv
  <2>2. ParseDocument(page)' = ParseDocument(NoPage)
    BY <1>2, <2>1 DEF ParseDocument, CompanyName, ParseManagers, IsManagerBlock, Roles
  <2>3. engine = "colly" => engine \notin Profiled
    BY DEF Profiled
  <2>4. PageTypeOK'
    BY <1>1, <1>2, <1>3, <2>1 DEF PageTypeOK
  <2>5. ReadInv'
    BY <1>1, <1>2, <1>3, <2>1, <2>2, <2>3 DEF ReadInv
  <2> QED
    BY <1>3, <2>4, <2>5 DEF PageInv
<1> QED
  BY <1>5, <1>6

(* The scraper completes the lead it read of the page.                     *)
LEMMA ReturnStep == PageInv /\ ScrapeReturns => PageInv'
<1> SUFFICES ASSUME PageInv, ScrapeReturns PROVE PageInv'
  OBVIOUS
<1>1. PageTypeOK /\ ReadInv
  BY DEF PageInv
<1>2. /\ phase = "responded" /\ phase' = "scraped" /\ lead # NoLead /\ lead' = CompleteLead
      /\ url' = url /\ engine' = engine /\ page' = page /\ html' = html /\ failed' = failed
      /\ interrupted' = interrupted /\ verdict' = verdict
  BY DEF ScrapeReturns, Whole, readVars
<1>3. lead = ParseDocument(page) /\ (engine \in Profiled => page.answered)
  BY <1>1, <1>2 DEF ReadInv
<1>4. /\ IsLead(lead')
      /\ lead'.contacts = ExtractContacts(html)
      /\ lead'.metadata = lead.metadata
      /\ lead'.managers = [a \in DOMAIN lead.managers |-> FillManager(lead.managers[a])]
  <2> DEFINE c == ExtractContacts(html)
  <2>1. lead = [name |-> lead.name, contacts |-> lead.contacts,
                managers |-> lead.managers, metadata |-> lead.metadata]
    BY <1>3 DEF ParseDocument
  <2>2. lead' = [lead EXCEPT !.contacts = c,
                             !.managers = [a \in DOMAIN lead.managers |-> FillManager(lead.managers[a])]]
    BY <1>2, Zenon DEF CompleteLead
  <2> HIDE DEF c
  <2>3. /\ lead'.contacts = c /\ lead'.metadata = lead.metadata
        /\ lead'.managers = [a \in DOMAIN lead.managers |-> FillManager(lead.managers[a])]
        /\ IsLead(lead')
    BY <2>1, <2>2 DEF IsLead
  <2> QED
    BY <2>3 DEF c
<1>5. Finished'
  BY <1>2 DEF Finished
<1>6. lead' # NoLead
  BY <1>4, LeadIsSome
<1>7. PageTypeOK'
  BY <1>1, <1>2, <1>3, <1>6 DEF PageTypeOK
<1>8. ReadInv'
  BY <1>1, <1>2, <1>4 DEF ReadInv
<1>9. FlagFollowsPage'
  BY <1>2, Zenon DEF FlagFollowsPage
<1>10. ProfileMatchesPage'
  <2>1. CASE engine \in Profiled
    <3>1. lead.managers = ParseManagers(page) /\ lead.metadata = ParseMetadata(page)
      BY <1>3, <2>1 DEF ParseDocument
    <3>2. page \in HTMLPage
      BY <1>1, <1>3, <2>1, HTMLOfPage DEF PageTypeOK
    <3> DEFINE l == lead'
    <3>3. l.managers = [a \in DOMAIN ParseManagers(page) |-> FillManager(ParseManagers(page)[a])]
      BY <1>4, <3>1
    <3>4. l.metadata = ParseMetadata(page)
      BY <1>4, <3>1
    <3> HIDE DEF l
    <3>5. ShowsProfile(l, page)
      BY <3>2, <3>3, <3>4, ProfileOfPage
    <3>6. ShowsProfile(lead, page)'
      <4>1. ShowsProfile(lead, page)' = ShowsProfile(lead', page)
        BY <1>2 DEF ShowsProfile, IsManagerBlock, Roles
      <4> QED
        BY <3>5, <4>1 DEF l
    <3> QED
      BY <3>6 DEF ProfileMatchesPage
  <2>2. CASE engine \notin Profiled
    BY <1>2, <2>2 DEF ProfileMatchesPage
  <2> QED
    BY <2>1, <2>2
<1> QED
  BY <1>7, <1>8, <1>9, <1>10 DEF PageInv

LEMMA ErrorStep == PageInv /\ (ScrapeReturnsError \/ Interrupt) => PageInv'
<1> SUFFICES ASSUME PageInv, ScrapeReturnsError \/ Interrupt PROVE PageInv'
  OBVIOUS
<1>1. PageTypeOK /\ ReadInv
  BY DEF PageInv
<1>2. /\ url' = url /\ engine' = engine /\ page' = page /\ html' = html /\ failed' = failed
      /\ verdict' = verdict
  BY DEF ScrapeReturnsError, Interrupt, readVars
<1>3. /\ phase' \in {"new", "requesting", "responded", "failed"} /\ interrupted' \in BOOLEAN
      /\ \/ phase' = "failed" /\ lead' = NoLead
         \/ phase' = phase /\ phase # "failed" /\ lead' = lead
  BY <1>1 DEF ScrapeReturnsError, Interrupt, PageTypeOK
<1>4. ProfileMatchesPage' /\ FlagFollowsPage' /\ ~Finished'
  BY <1>3, NotFinished
<1>5. PageTypeOK'
  BY <1>1, <1>2, <1>3, <1>4 DEF PageTypeOK
<1>6. ParseDocument(page)' = ParseDocument(page)
  BY <1>2 DEF ParseDocument, CompanyName, ParseManagers, IsManagerBlock, Roles
<1>7. ReadInv'
  BY <1>1, <1>2, <1>3, <1>4, <1>6 DEF ReadInv
<1> QED
  BY <1>4, <1>5, <1>7 DEF PageInv

LEMMA JudgeStep == PageInv /\ Judge => PageInv'
<1> SUFFICES ASSUME PageInv, Judge PROVE PageInv'
  OBVIOUS
<1>1. PageTypeOK /\ ReadInv /\ ProfileMatchesPage
  BY DEF PageInv
<1>2. /\ phase = "scraped" /\ phase' = "judged" /\ verdict' = IsCIS(lead) /\ lead' = lead
      /\ url' = url /\ engine' = engine /\ page' = page /\ html' = html /\ failed' = failed
      /\ interrupted' = interrupted
  BY DEF Judge, readVars
<1>3. Finished /\ Finished'
  BY <1>2 DEF Finished
<1>4. PageTypeOK'
  BY <1>1, <1>2, <1>3 DEF PageTypeOK
<1>5. ReadInv'
  BY <1>1, <1>2, <1>3 DEF ReadInv
<1>6. ProfileMatchesPage'
  BY <1>1, <1>2, <1>3, ProfileKept
<1>7. FlagFollowsPage'
  <2>1. RestsOn(IsCIS(lead), Evidence(lead.name, page))
    BY <1>1, <1>2, VerdictOfPage DEF ReadInv
  <2>2. RestsOn(verdict', Evidence(lead'.name, page'))
    BY <1>2, <2>1
  <2> QED
    BY <2>2, Zenon DEF FlagFollowsPage, Evidence, RestsOn
<1> QED
  BY <1>4, <1>5, <1>6, <1>7 DEF PageInv

(* What is dropped from a lead are handles.                                *)
LEMMA KeepStep == PageInv /\ KeepHandles => PageInv'
<1> SUFFICES ASSUME PageInv, KeepHandles PROVE PageInv'
  OBVIOUS
<1>1. PageTypeOK /\ ReadInv /\ ProfileMatchesPage /\ FlagFollowsPage
  BY DEF PageInv
<1>2. /\ phase = "judged" /\ phase' = "done" /\ verdict' = verdict
      /\ url' = url /\ engine' = engine /\ page' = page /\ html' = html /\ failed' = failed
      /\ interrupted' = interrupted
      /\ \E handles : lead' = [lead EXCEPT !.contacts["telegram"] = handles]
  BY DEF KeepHandles, readVars
<1>3. Finished /\ Finished'
  BY <1>2 DEF Finished
<1>4. /\ IsLead(lead') /\ lead'.name = lead.name
      /\ lead'.managers = lead.managers /\ lead'.metadata = lead.metadata
  <2>1. lead = [name |-> lead.name, contacts |-> lead.contacts,
                managers |-> lead.managers, metadata |-> lead.metadata]
    BY <1>1, <1>3 DEF ReadInv, IsLead
  <2>2. PICK handles : lead' = [lead EXCEPT !.contacts["telegram"] = handles]
    BY <1>2
  <2> DEFINE fewer == [lead.contacts EXCEPT !["telegram"] = handles]
  <2>3. lead' = [lead EXCEPT !.contacts = fewer]
    BY <2>2
  <2> HIDE DEF fewer
  <2> QED
    BY <2>1, <2>3 DEF IsLead
<1>5. lead' # NoLead
  BY <1>4, LeadIsSome
<1>6. PageTypeOK'
  BY <1>1, <1>2, <1>3, <1>5 DEF PageTypeOK
<1>7. ReadInv'
  BY <1>1, <1>2, <1>4 DEF ReadInv
<1>8. ProfileMatchesPage'
  BY <1>1, <1>2, <1>3, <1>4, ProfileKept
<1>9. FlagFollowsPage'
  <2>1. RestsOn(verdict, Evidence(lead.name, page))
    BY <1>1, <1>2, FlagRests
  <2>2. RestsOn(verdict', Evidence(lead'.name, page'))
    BY <1>2, <1>4, <2>1
  <2> QED
    BY <2>2, Zenon DEF FlagFollowsPage, Evidence, RestsOn
<1> QED
  BY <1>6, <1>7, <1>8, <1>9 DEF PageInv

LEMMA PageInvStep == PageInv /\ [PageNext]_pageVars => PageInv'
<1> SUFFICES ASSUME PageInv, [PageNext]_pageVars PROVE PageInv'
  OBVIOUS
<1>1. CASE Refuse \/ Route \/ RequestFails \/ ParseFails
  BY <1>1, RouteStep
<1>2. CASE Respond \/ NoResponse
  BY <1>2, RespondStep
<1>3. CASE ScrapeReturnsError \/ Interrupt
  BY <1>3, ErrorStep
<1>4. CASE ScrapeReturns
  BY <1>4, ReturnStep
<1>5. CASE Judge
  BY <1>5, JudgeStep
<1>6. CASE KeepHandles
  BY <1>6, KeepStep
<1>7. CASE UNCHANGED pageVars
  <2>1. /\ url' = url /\ phase' = phase /\ engine' = engine /\ page' = page /\ html' = html
        /\ failed' = failed /\ interrupted' = interrupted /\ lead' = lead /\ verdict' = verdict
    BY <1>7 DEF pageVars, readVars
  <2>2. PageTypeOK /\ ReadInv /\ ProfileMatchesPage /\ FlagFollowsPage
    BY DEF PageInv
  <2>3. Finished' = Finished
    BY <2>1 DEF Finished
  <2>4. PageTypeOK'
    BY <2>1, <2>2, <2>3 DEF PageTypeOK
  <2>5. ParseDocument(page)' = ParseDocument(page)
    BY <2>1 DEF ParseDocument, CompanyName, ParseManagers, IsManagerBlock, Roles
  <2>6. ReadInv'
    BY <2>1, <2>2, <2>3, <2>5 DEF ReadInv
  <2>7. ProfileMatchesPage'
    <3>1. CASE Finished
      BY <2>1, <2>2, <3>1, ProfileKept
    <3>2. CASE ~Finished
      BY <2>3, <3>2 DEF ProfileMatchesPage
    <3> QED
      BY <3>1, <3>2
  <2>8. FlagFollowsPage'
    BY <2>1, <2>2, Zenon DEF FlagFollowsPage
  <2> QED
    BY <2>4, <2>6, <2>7, <2>8 DEF PageInv
<1> QED
  BY <1>1, <1>2, <1>3, <1>4, <1>5, <1>6, <1>7 DEF PageNext

LEMMA PageInvAlways == PageSpec => []PageInv
  BY PageInvInit, PageInvStep, PTL DEF PageSpec

-----------------------------------------------------------------------------
(* A lead goes on only when its page was read to the end, never beside an  *)
(* error.                                                                  *)
THEOREM PageTypeCorrect == PageSpec => []PageTypeOK
<1>1. PageInv => PageTypeOK
  BY DEF PageInv
<1> QED
  BY <1>1, PageInvAlways, PTL

(* Whatever page a site answers with, however its blocks are nested and    *)
(* its names are spelled, the profile in the lead is the page's.           *)
THEOREM ProfileMatchesPageHolds == PageSpec => []ProfileMatchesPage
<1>1. PageInv => ProfileMatchesPage
  BY DEF PageInv
<1> QED
  BY <1>1, PageInvAlways, PTL

(* The mark and its reason rest on the evidence of the page, also after    *)
(* handles were dropped from the lead.                                     *)
THEOREM FlagFollowsPageHolds == PageSpec => []FlagFollowsPage
<1>1. PageInv => FlagFollowsPage
  BY DEF PageInv
<1> QED
  BY <1>1, PageInvAlways, PTL
=============================================================================
