------------------------ MODULE CategoryCrawlerProofs ------------------------
(***************************************************************************)
(* The crawlers return every card of the pages they read and no other,     *)
(* each once and in the order of the categories, whatever the site serves. *)
(***************************************************************************)
EXTENDS CategoryCrawler, UniqueListsProofs

SomeListings == Listings \cup Networks

\* what the links of a page are when they are cleaned, cards or not
LinksOn(listing, n) == {Cleaned(a) : a \in ToSet(Served(listing, n))}

(* A site serves a list of links for every page number, and past its last  *)
(* page nothing or the last page once more.                                *)
LEMMA ServedIsList ==
    ASSUME NEW listing \in SomeListings, NEW n \in Nat \ {0}
    PROVE  /\ Served(listing, n) \in Seq(Anchor)
           /\ LinksOn(listing, n) \subseteq CardURLs
           /\ Len(listing.pages) \in Nat \ {0}
<1>1. listing.pages \in Seq(Seq(Anchor)) /\ listing.pages # <<>>
  BY ListingsAssumption DEF SomeListings
<1>2. Len(listing.pages) \in Nat \ {0}
  BY <1>1
<1>3. CASE \E m \in 1..Len(listing.pages) : Served(listing, n) = listing.pages[m]
  <2>1. PICK m \in 1..Len(listing.pages) : Served(listing, n) = listing.pages[m]
    BY <1>3
  <2>2. Served(listing, n) \in Seq(Anchor) /\ Served(listing, n) \in ToSet(listing.pages)
    BY <2>1, <1>1 DEF ToSet
  <2>3. LinksOn(listing, n) \subseteq CardURLs
    BY <2>2 DEF LinksOn, CardURLs, SomeListings, Cleaned
  <2> QED
    BY <2>2, <2>3, <1>2
<1>4. CASE Served(listing, n) = <<>>
  <2>1. LinksOn(listing, n) = {}
    BY <1>4 DEF LinksOn, ToSet
  <2> QED
    BY <1>4, <2>1, <1>2
<1>5. n <= Len(listing.pages) => n \in 1..Len(listing.pages)
  BY <1>2
<1>6. Len(listing.pages) \in 1..Len(listing.pages)
  BY <1>2
<1> QED
  BY <1>3, <1>4, <1>5, <1>6 DEF Served

(* The links of a page are the cards on it, each once.                     *)
LEMMA LinksUnique ==
    ASSUME NEW kind, NEW listing \in SomeListings, NEW k \in Nat \ {0}
    PROVE  /\ Links(kind, listing, k) \in Seq(LinksOn(listing, k))
           /\ IsInjective(Links(kind, listing, k))
           /\ ToSet(Links(kind, listing, k)) = CardsOn(kind, listing, k)
           /\ CardsOn(kind, listing, k) \subseteq CardURLs
<1> DEFINE anchors == Served(listing, k)
           n == Len(anchors)
           b == <<>>
           Card(j) == Cleaned(anchors[j])
           Spelt(j) == LowerCase[Card(j)]
           links == {j \in 1..n : IsLink(kind, anchors[j])}
           V == {l \in Seq(LinksOn(listing, k)) : IsInjective(l)}
           Body(v, i) == IF i \in links THEN AppendUnique(v, Card(i)) ELSE v
           G == [i \in 1..n |-> [v \in V |-> Body(v, i)]]
           IsLoop(f) == f = [i \in 0..n |-> IF i = 0 THEN b ELSE
                                IF IsLink(kind, anchors[i])
                                THEN AppendUnique(f[i - 1], Cleaned(anchors[i])) ELSE f[i - 1]]
           h == CHOOSE f : IsLoop(f)
<1>1. n \in Nat /\ b \in V /\ DOMAIN anchors = 1..n
  <2>1. n \in Nat /\ DOMAIN anchors = 1..n
    BY ServedIsList
  <2>2. IsInjective(<<>>)
    BY DEF IsInjective
  <2> QED
    BY <2>1, <2>2
<1>2. \A i \in 1..n : Card(i) \in LinksOn(listing, k)
  BY <1>1 DEF LinksOn, ToSet
<1>3. Links(kind, listing, k) = h[n]
  BY Zenon DEF Links
<1>4. CardsOn(kind, listing, k) =
          {Card(i) : i \in {j \in links : \A m \in links : Spelt(m) = Spelt(j) => j <= m}}
  BY <1>1 DEF CardsOn
<1>5. ASSUME NEW i \in 1..n, NEW v \in V PROVE Body(v, i) \in V
  <2> HIDE DEF Card, links
  <2> QED  BY <1>2, AppendUniqueKeeps
<1>6. \A i \in 1..n : i \in links <=> IsLink(kind, anchors[i])
  OBVIOUS
<1>7. \A j \in links : j \in 1..n /\ j \in Int /\ 1 <= j /\ j <= n
  BY <1>1
<1> HIDE DEF n, Card, links, V, b
<1>8. G \in [1..n -> [V -> V]]
  BY <1>5
<1>9. PICK f \in [0..n -> V] : SolvesLoop(f, n, b, G)
  <2> HIDE DEF G, IsLoop
  <2> QED  BY <1>1, <1>8, LoopExists, Zenon
<1>10. ASSUME NEW i \in 1..n PROVE f[i] = Body(f[i - 1], i)
  <2>1. f[i - 1] \in V
    BY <1>1
  <2> QED
    BY <1>9, <2>1 DEF SolvesLoop
<1>11. IsLoop(f)
  BY <1>9, <1>10, <1>1, <1>6 DEF SolvesLoop, Card
<1>12. IsLoop(h)
  <2> HIDE DEF IsLoop
  <2> QED  BY <1>11
<1> HIDE DEF h
<1>13. h[0] = b /\ \A i \in 1..n : h[i] = Body(h[i - 1], i)
  BY <1>12, <1>1, <1>6 DEF Card
<1> HIDE DEF IsLoop, G, anchors
<1> DEFINE Upto(i) == {j \in links : j <= i}
           Firsts(i) == {j \in Upto(i) : \A m \in Upto(i) : Spelt(m) = Spelt(j) => j <= m}
           Built(v, i) == /\ v \in V
                          /\ ToSet(v) = {Card(j) : j \in Firsts(i)}
                          /\ \A j \in Upto(i) : \E y \in ToSet(v) : LowerCase[y] = Spelt(j)
           T == {i \in 0..n : Built(h[i], i)}
<1>14. 0 \in T
  <2>1. Upto(0) = {}
    BY <1>7
  <2>3. Firsts(0) = {}
    BY <2>1
  <2>2. ToSet(b) = {}
    BY DEF b, ToSet
  <2> QED
    BY <2>1, <2>2, <2>3, <1>13, <1>1
<1>15. ASSUME NEW i \in 0..n, i \in T, i < n PROVE i + 1 \in T
  <2> DEFINE v == h[i]
             x == Card(i + 1)
  <2>1. i + 1 \in 1..n /\ (i + 1) - 1 = i /\ i + 1 \in 0..n
    BY <1>15, <1>1
  <2>2. h[i + 1] = Body(v, i + 1)
    BY <2>1, <1>13
  <2>3. Built(v, i)
    BY <1>15
  <2>4. CASE i + 1 \notin links
    <3>1. h[i + 1] = v
      BY <2>2, <2>4
    <3>2. Upto(i + 1) = Upto(i)
      <4>1. \A j \in links : j <= i + 1 <=> j <= i
        BY <2>4, <2>1, <1>7
      <4> QED  BY <4>1
    <3>3. Firsts(i + 1) = Firsts(i)
      BY <3>2
    <3> HIDE DEF Upto, Firsts, v
    <3> QED
      BY <2>1, <2>3, <3>1, <3>2, <3>3
  <2>5. CASE i + 1 \in links
    <3>1. Upto(i + 1) = Upto(i) \cup {i + 1} /\ i + 1 \notin Upto(i)
      <4>1. \A j \in links : j <= i + 1 <=> (j <= i \/ j = i + 1)
        BY <2>1, <1>7
      <4>2. ~(i + 1 <= i)
        BY <2>1
      <4> QED  BY <4>1, <4>2, <2>5
    <3>2. \A j \in Upto(i) : j \in 1..n /\ j < i + 1
      BY <2>1, <1>7, <1>1
    <3>3. \A j \in Firsts(i) : j \in Upto(i)
      OBVIOUS
    <3>4. h[i + 1] = AppendUnique(v, x)
      BY <2>2, <2>5
    <3>5. v \in Seq(LinksOn(listing, k)) /\ IsInjective(v) /\ x \in LinksOn(listing, k)
      BY <2>3, <2>1, <1>2 DEF V
    <3>6. h[i + 1] \in V
      BY <3>4, <3>5, AppendUniqueKeeps DEF V
    <3>7. CASE \E y \in ToSet(v) : LowerCase[y] = LowerCase[x]
      <4>1. h[i + 1] = v
        BY <3>4, <3>7 DEF AppendUnique, ToSet
      <4>2. PICK m \in Upto(i) : Spelt(m) = Spelt(i + 1)
        BY <3>7, <2>3, <3>3
      <4>3. i + 1 \notin Firsts(i + 1)
        BY <4>2, <3>1, <3>2, <2>1
      <4>4. Firsts(i + 1) = Firsts(i)
        <5>1. \A j \in Upto(i) : j \in Firsts(i + 1) <=> j \in Firsts(i)
          <6> SUFFICES ASSUME NEW j \in Upto(i) PROVE j \in Firsts(i + 1) <=> j \in Firsts(i)
            OBVIOUS
          <6>1. j <= i + 1
            BY <3>2, <2>1
          <6> HIDE DEF Upto
          <6> QED  BY <6>1, <3>1
        <5> HIDE DEF Upto
        <5> QED  BY <5>1, <4>3, <3>1
      <4>5. \A j \in Upto(i + 1) : \E y \in ToSet(v) : LowerCase[y] = Spelt(j)
        <5> HIDE DEF Upto
        <5> QED  BY <2>3, <3>1, <3>7
      <4> HIDE DEF Upto, Firsts, v
      <4> QED
        BY <4>1, <4>4, <4>5, <2>1, <2>3
    <3>8. CASE ~\E y \in ToSet(v) : LowerCase[y] = LowerCase[x]
      <4> DEFINE w == Append(v, x)
      <4>1. h[i + 1] = w
        BY <3>4, <3>8 DEF AppendUnique, ToSet
      <4>2. ToSet(w) = ToSet(v) \cup {x}
        <5>1. /\ DOMAIN w = 1..(Len(v) + 1) /\ DOMAIN v = 1..Len(v) /\ Len(v) \in Nat
              /\ \A j \in 1..Len(v) : w[j] = v[j]
              /\ w[Len(v) + 1] = x
          <6> HIDE DEF v, x
          <6> QED  BY <3>5
        <5> HIDE DEF w, v, x
        <5> QED  BY <5>1 DEF ToSet
      <4>3. \A m \in Upto(i) : Spelt(m) # Spelt(i + 1)
        BY <2>3, <3>8
      <4>4. Firsts(i + 1) = Firsts(i) \cup {i + 1}
        <5>1. \A j \in Upto(i) : j \in Firsts(i + 1) <=> j \in Firsts(i)
          <6> SUFFICES ASSUME NEW j \in Upto(i) PROVE j \in Firsts(i + 1) <=> j \in Firsts(i)
            OBVIOUS
          <6>1. j <= i + 1
            BY <3>2, <2>1
          <6> HIDE DEF Upto
          <6> QED  BY <6>1, <3>1
        <5>2. i + 1 \in Firsts(i + 1)
          <6>1. i + 1 <= i + 1
            BY <2>1
          <6> HIDE DEF Upto
          <6> QED  BY <6>1, <3>1, <4>3
        <5> HIDE DEF Upto
        <5> QED  BY <5>1, <5>2, <3>1
      <4>5. \A j \in Upto(i + 1) : \E y \in ToSet(w) : LowerCase[y] = Spelt(j)
        <5>1. x \in ToSet(w) /\ LowerCase[x] = Spelt(i + 1)
          BY <4>2
        <5> HIDE DEF Upto, w
        <5> QED  BY <5>1, <2>3, <3>1, <4>2
      <4>6. ToSet(w) = {Card(j) : j \in Firsts(i + 1)}
        <5>1. ToSet(v) = {Card(j) : j \in Firsts(i)}
          BY <2>3
        <5> HIDE DEF w, Firsts, v
        <5> QED  BY <5>1, <4>2, <4>4
      <4> HIDE DEF Upto, Firsts, w
      <4> QED
        BY <4>1, <4>5, <4>6, <3>6, <2>1
    <3> QED
      BY <3>7, <3>8
  <2> QED
    BY <2>4, <2>5
<1>16. 0..n \subseteq T
  <2> HIDE DEF T
  <2> QED  BY <1>14, <1>15, <1>1, Climb
<1>17. Built(h[n], n)
  <2>1. n \in T
    BY <1>16, <1>1
  <2> HIDE DEF Built
  <2> QED
    BY <2>1
<1>18. Upto(n) = links
  BY <1>7
<1>19. ToSet(h[n]) = CardsOn(kind, listing, k)
  BY <1>4, <1>17, <1>18
<1>20. ToSet(h[n]) \subseteq LinksOn(listing, k)
  BY <1>17 DEF V, ToSet
<1> QED
  BY <1>3, <1>17, <1>19, <1>20, ServedIsList DEF V

(* The loop over the links of a page adds those that are new, behind what  *)
(* there was, each once.                                                   *)
LEMMA WithFreshExtends ==
    ASSUME NEW P, UniqueIn(ordered, P), ToSet(ordered) \subseteq discovered,
           NEW links, UniqueIn(links, P)
    PROVE  LET longer == WithFresh(links)
               fresh  == ToSet(links) \ (discovered \cup known)
           IN  /\ UniqueIn(longer, P)
               /\ ToSet(longer) = ToSet(ordered) \cup fresh
               /\ Len(ordered) <= Len(longer)
               /\ \A j \in 1..Len(ordered) : longer[j] = ordered[j]
               /\ \A j \in (Len(ordered) + 1)..Len(longer) : longer[j] \in fresh
<1> DEFINE n == Len(links)
           V == Seq(P)
           old == discovered \cup known
           b == ordered
           Body(v, i) == IF links[i] \in old THEN v ELSE Append(v, links[i])
           G == [i \in 1..n |-> [v \in V |-> Body(v, i)]]
           IsLoop(f) == f = [i \in 0..n |-> IF i = 0 THEN b ELSE Body(f[i - 1], i)]
           h == CHOOSE f : IsLoop(f)
<1>1. n \in Nat /\ b \in V
  BY DEF UniqueIn
<1>2. \A i \in 1..n, v \in V : Body(v, i) \in V
  BY DEF UniqueIn
<1>3. WithFresh(links) = h[n]
  BY Zenon DEF WithFresh
<1> HIDE DEF n, Body, b, V, old
<1>4. G \in [1..n -> [V -> V]]
  BY <1>2
<1>5. PICK f \in [0..n -> V] : SolvesLoop(f, n, b, G)
  <2> HIDE DEF G, IsLoop
  <2> QED  BY <1>1, <1>4, LoopExists, Zenon
<1>6. ASSUME NEW i \in 1..n PROVE f[i] = Body(f[i - 1], i)
  <2>1. f[i - 1] \in V
    BY <1>1
  <2> QED
    BY <1>5, <2>1 DEF SolvesLoop
<1>7. IsLoop(f)
  BY <1>5, <1>6, <1>1 DEF SolvesLoop
<1>8. IsLoop(h)
  <2> HIDE DEF IsLoop
  <2> QED  BY <1>7
<1> HIDE DEF h
<1>9. h[0] = b /\ \A i \in 1..n : h[i] = Body(h[i - 1], i)
  BY <1>8, <1>1
<1> DEFINE Taken(i) == {links[m] : m \in 1..i}
           Built(v, i) == /\ v \in Seq(P) /\ IsInjective(v)
                          /\ ToSet(v) = ToSet(ordered) \cup (Taken(i) \ old)
                          /\ Len(ordered) <= Len(v)
                          /\ \A j \in 1..Len(ordered) : v[j] = ordered[j]
                          /\ \A j \in (Len(ordered) + 1)..Len(v) : v[j] \in Taken(i) \ old
           T == {i \in 0..n : Built(h[i], i)}
<1>10. 0 \in T
  <2>1. Taken(0) = {}
    OBVIOUS
  <2>2. Built(ordered, 0)
    BY <2>1 DEF UniqueIn
  <2> QED
    BY <1>9, <2>2, <1>1 DEF b
<1>11. ASSUME NEW i \in 0..n, i \in T, i < n PROVE i + 1 \in T
  <2> DEFINE v == h[i]
             x == links[i + 1]
  <2>1. i + 1 \in 1..n /\ (i + 1) - 1 = i /\ i + 1 \in 0..n
    BY <1>11, <1>1
  <2>2. h[i + 1] = Body(v, i + 1)
    BY <2>1, <1>9
  <2>3. Built(v, i)
    BY <1>11
  <2>4. x \in P /\ x \notin Taken(i) /\ Taken(i + 1) = Taken(i) \cup {x}
    <3>1. i + 1 \in DOMAIN links /\ 1..i \subseteq DOMAIN links /\ 1..(i + 1) = (1..i) \cup {i + 1}
      BY <2>1, <1>1 DEF n, UniqueIn
    <3> QED
      BY <3>1 DEF IsInjective, UniqueIn
  <2> HIDE DEF v, x, Taken
  <2>5. CASE x \in old
    <3>1. h[i + 1] = v
      BY <2>2, <2>5 DEF Body, x
    <3>2. Taken(i + 1) \ old = Taken(i) \ old
      BY <2>4, <2>5
    <3> QED
      BY <2>1, <2>3, <3>1, <3>2
  <2>6. CASE x \notin old
    <3> DEFINE w == Append(v, x)
    <3>1. h[i + 1] = w
      BY <2>2, <2>6 DEF Body, x
    <3>2. /\ w \in Seq(P) /\ Len(w) = Len(v) + 1 /\ Len(v) \in Nat
          /\ \A j \in 1..Len(v) : w[j] = v[j]
          /\ w[Len(v) + 1] = x
      BY <2>3, <2>4
    <3>3. Taken(i + 1) \ old = (Taken(i) \ old) \cup {x}
      BY <2>4, <2>6
    <3>4. DOMAIN w = 1..(Len(v) + 1) /\ DOMAIN v = 1..Len(v)
      BY <3>2, <2>3
    <3> HIDE DEF w
    <3>5. ToSet(w) = ToSet(v) \cup {x}
      BY <3>2, <3>4 DEF ToSet
    <3>6. x \notin ToSet(v)
      BY <2>3, <2>4, <2>6 DEF old
    <3>7. IsInjective(w)
      <4>1. IsInjective(v) /\ \A j \in 1..Len(v) : v[j] # x
        BY <2>3, <3>4, <3>6 DEF ToSet
      <4> HIDE DEF Built
      <4> QED
        BY <4>1, <3>2, <3>4 DEF IsInjective
    <3>8. /\ Len(ordered) <= Len(w)
          /\ \A j \in 1..Len(ordered) : w[j] = ordered[j]
          /\ \A j \in (Len(ordered) + 1)..Len(w) : w[j] \in Taken(i + 1) \ old
      <4>1. /\ Len(ordered) <= Len(v) /\ Len(ordered) \in Nat
            /\ \A j \in 1..Len(ordered) : v[j] = ordered[j]
            /\ \A j \in (Len(ordered) + 1)..Len(v) : v[j] \in Taken(i) \ old
        BY <2>3 DEF UniqueIn
      <4>2. ASSUME NEW j \in (Len(ordered) + 1)..Len(w) PROVE w[j] \in Taken(i + 1) \ old
        <5>1. CASE j = Len(v) + 1
          BY <5>1, <3>2, <3>3
        <5>2. CASE j # Len(v) + 1
          <6>1. j \in (Len(ordered) + 1)..Len(v) /\ j \in 1..Len(v)
            BY <5>2, <4>1, <3>2
          <6>2. w[j] = v[j] /\ v[j] \in Taken(i) \ old
            BY <6>1, <4>1, <3>2
          <6> QED
            BY <6>2, <3>3
        <5> QED
          BY <5>1, <5>2
      <4> QED
        BY <4>1, <4>2, <3>2
    <3>9. Built(w, i + 1)
      BY <3>2, <3>3, <3>5, <3>7, <3>8, <2>3
    <3> QED
      BY <2>1, <3>1, <3>9
  <2> QED
    BY <2>5, <2>6
<1>12. 0..n \subseteq T
  <2> HIDE DEF T
  <2> QED  BY <1>10, <1>11, <1>1, Climb
<1>13. Built(h[n], n)
  <2>1. n \in T
    BY <1>12, <1>1
  <2> HIDE DEF Built
  <2> QED
    BY <2>1
<1>14. Taken(n) = ToSet(links)
  BY DEF n, ToSet, UniqueIn
<1> QED
  BY <1>3, <1>13, <1>14 DEF old, UniqueIn

-----------------------------------------------------------------------------
(* A listing is read up to its first stale page: there is one, at the      *)
(* latest the page after the last.                                         *)
LEMMA ReadIsFirstStale ==
    ASSUME NEW kind, NEW listing \in SomeListings
    PROVE  /\ Read(kind, listing) \in 1..(Len(listing.pages) + 1)
           /\ Stale(kind, listing, Read(kind, listing))
           /\ \A m \in 1..(Read(kind, listing) - 1) : ~Stale(kind, listing, m)
<1> DEFINE n == Len(listing.pages)
           T == {m \in 1..(n + 1) : Stale(kind, listing, m)}
<1>1. n \in Nat \ {0}
  BY ServedIsList
<1>2. n + 1 \in T
  <2>1. \/ Served(listing, n + 1) = Served(listing, n)
        \/ Served(listing, n + 1) = <<>>
    BY <1>1 DEF Served
  <2>2. CASE Served(listing, n + 1) = Served(listing, n)
    <3>1. CardsOn(kind, listing, n + 1) = CardsOn(kind, listing, n)
      BY <2>2, Zenon DEF CardsOn
    <3>2. n \in 1..((n + 1) - 1)
      BY <1>1
    <3> QED
      BY <3>1, <3>2, <1>1 DEF Stale, Shown
  <2>3. CASE Served(listing, n + 1) = <<>>
    <3>1. CardsOn(kind, listing, n + 1) = {}
      BY <2>3 DEF CardsOn
    <3> QED
      BY <3>1, <1>1 DEF Stale
  <2> QED
    BY <2>1, <2>2, <2>3
<1>3. T \in SUBSET Nat /\ T # {}
  BY <1>1, <1>2
<1>4. PICK r \in T : \A m \in T : r <= m
  <2> HIDE DEF T
  <2> QED  BY <1>3, LeastNatural
<1>5. /\ r \in 1..(n + 1) /\ Stale(kind, listing, r)
      /\ \A m \in 1..(r - 1) : ~Stale(kind, listing, m)
  BY <1>4, <1>1
<1> HIDE DEF n, T
<1> QED
  BY <1>5, Zenon DEF Read, n

(* The cards shown up to a page are those shown before and those on it.    *)
LEMMA ShownGrows ==
    ASSUME NEW kind, NEW listing \in SomeListings, NEW n \in Nat \ {0}
    PROVE  /\ Shown(kind, listing, n) = Shown(kind, listing, n - 1) \cup CardsOn(kind, listing, n)
           /\ Shown(kind, listing, 0) = {}
           /\ \A m \in 0..n : Shown(kind, listing, m) \subseteq Shown(kind, listing, n)
           /\ Shown(kind, listing, n) \subseteq CardURLs
<1>1. 1..n = (1..(n - 1)) \cup {n}
  OBVIOUS
<1>2. Shown(kind, listing, n) = Shown(kind, listing, n - 1) \cup CardsOn(kind, listing, n)
  BY <1>1 DEF Shown
<1>3. Shown(kind, listing, 0) = {}
  BY DEF Shown
<1>4. \A m \in 0..n : 1..m \subseteq 1..n
  OBVIOUS
<1>5. \A m \in 0..n : Shown(kind, listing, m) \subseteq Shown(kind, listing, n)
  BY <1>4 DEF Shown
<1>6. \A m \in 1..n : CardsOn(kind, listing, m) \subseteq CardURLs
  BY LinksUnique
<1>7. Shown(kind, listing, n) \subseteq CardURLs
  BY <1>6 DEF Shown
<1> QED
  BY <1>2, <1>3, <1>5, <1>7

-----------------------------------------------------------------------------
Turns == 1..Len(walk)

\* the cards of a turn's category, of the first n turns, and of the page at hand
Cards(k)  == CardsOf(crawler, site[walk[k]])
Before(n) == UNION {Cards(k) : k \in 1..n}

(* In the category at hand no page was stale so far, and what it has shown *)
(* is remembered.                                                          *)
PageInTurn ==
    /\ category \in Turns =>
        /\ page <= Read(crawler, site[walk[category]])
        /\ categorySeen = Shown(crawler, site[walk[category]], page - 1)
    /\ category \notin Turns => categorySeen = {}

(* What is discovered are the cards of the categories that are finished    *)
(* and those the one at hand has shown; all of it that the store has not   *)
(* is in the result, unless the crawl failed.                              *)
AllDiscovered ==
    /\ discovered = Before(category - 1) \cup categorySeen
    /\ outcome # "failed" => ToSet(ordered) = discovered \ known
    /\ outcome = "failed" => ordered = <<>>
    /\ outcome = "done" => category \notin Turns

CardsInTurn ==
    \A i, j \in DOMAIN ordered : i < j =>
        \A k \in Turns : ordered[j] \in Cards(k) => \E m \in 1..k : ordered[i] \in Cards(m)

CrawlInv ==
    /\ CrawlTypeOK
    /\ UniqueIn(ordered, CardURLs)
    /\ PageInTurn /\ AllDiscovered /\ CardsInTurn

LEMMA WalkTyped ==
    ASSUME CrawlTypeOK
    PROVE  /\ Len(walk) \in Nat /\ DOMAIN walk = Turns
           /\ \A k \in Turns : walk[k] \in CategorySet /\ site[walk[k]] \in SomeListings
           /\ category \in Nat \ {0} /\ page \in Nat \ {0}
<1>1. Len(walk) \in Nat /\ DOMAIN walk = Turns /\ \A k \in Turns : walk[k] \in CategorySet
  BY DEF CrawlTypeOK, Turns
<1>2. \A c \in CategorySet : site[c] \in SomeListings
  BY DEF CrawlTypeOK, SomeListings
<1>3. category \in Nat \ {0} /\ page \in Nat \ {0}
  BY <1>1 DEF CrawlTypeOK
<1> QED
  BY <1>1, <1>2, <1>3

LEMMA CrawlInvInit == CrawlInit => CrawlInv
<1> SUFFICES ASSUME CrawlInit PROVE CrawlInv
  OBVIOUS
<1>1. walk \in Seq(CategorySet)
  <2>1. CASE crawler = "affpaying" /\ walk = Categories
    BY <2>1, CategoriesAssumption DEF CategorySet
  <2>2. CASE \E c \in CategorySet : walk = <<c>>
    BY <2>2
  <2> QED
    BY <2>1, <2>2 DEF CrawlInit
<1>2. crawler \in {"affpaying", "offervault"} /\ known \in Stores \cup {{}}
  BY DEF CrawlInit
<1>3. site \in [CategorySet -> Listings \cup Networks]
  BY DEF CrawlInit
<1>4. CrawlTypeOK
  <2>1. Len(walk) \in Nat
    BY <1>1
  <2> QED
    BY <1>1, <1>2, <1>3, <2>1 DEF CrawlInit, CrawlTypeOK
<1>5. UniqueIn(ordered, CardURLs)
  BY DEF CrawlInit, UniqueIn, IsInjective
<1>6. PageInTurn
  <2>1. ASSUME category \in Turns
        PROVE  /\ 1 <= Read(crawler, site[walk[category]])
               /\ {} = Shown(crawler, site[walk[category]], 0)
    <3>1. site[walk[category]] \in SomeListings
      BY <1>4, <2>1, WalkTyped
    <3>2. Len(site[walk[category]].pages) \in Nat
      BY <3>1, 1 \in Nat \ {0}, ServedIsList
    <3> QED
      BY <3>1, <3>2, ReadIsFirstStale, ShownGrows
  <2> QED
    BY <2>1 DEF PageInTurn, CrawlInit
<1>7. AllDiscovered
  <2>1. Before(0) = {}
    BY DEF Before
  <2>2. category - 1 = 0 /\ ToSet(<<>>) = {}
    BY DEF CrawlInit, ToSet
  <2> QED
    BY <2>1, <2>2 DEF AllDiscovered, CrawlInit
<1>8. CardsInTurn
  BY DEF CardsInTurn, CrawlInit
<1> QED
  BY <1>4, <1>5, <1>6, <1>7, <1>8 DEF CrawlInv

(* What the crawlers were given stays as it is, and so do the cards of     *)
(* every turn.                                                             *)
LEMMA GivenKept ==
    ASSUME UNCHANGED givenVars
    PROVE  /\ Turns' = Turns
           /\ \A k : Cards(k)' = Cards(k)
           /\ \A n : Before(n)' = Before(n)
<1>1. crawler' = crawler /\ walk' = walk /\ site' = site
  BY DEF givenVars
<1>2. Turns' = Turns
  BY <1>1 DEF Turns
<1>3. \A k : Cards(k)' = Cards(k)
  BY <1>1 DEF Cards
<1>4. \A n : Before(n)' = Before(n)
  BY <1>3 DEF Before
<1> QED
  BY <1>2, <1>3, <1>4

(* A page that shows nothing new is the one the category is read up to;    *)
(* any other is followed by the next page, and both leave the cards shown. *)
LEMMA PageTaken ==
    ASSUME CrawlInv, ScrapePage,
           NEW listing, listing = site[walk[category]],
           NEW links, links = Links(crawler, listing, page)
    PROVE  /\ category \in Turns /\ listing \in SomeListings
           /\ UniqueIn(links, CardURLs)
           /\ ordered' = WithFresh(links)
           /\ discovered' = Before(category - 1) \cup Shown(crawler, listing, page)
           /\ Shown(crawler, listing, page) \subseteq Cards(category)
           /\ \/ /\ Shown(crawler, listing, page) = Cards(category)
                 /\ category' = category + 1 /\ page' = 1 /\ categorySeen' = {}
              \/ /\ category' = category /\ page' = page + 1
                 /\ page' <= Read(crawler, listing)
                 /\ categorySeen' = Shown(crawler, listing, page)
<1> DEFINE seen == Shown(crawler, listing, page - 1)
           now  == Shown(crawler, listing, page)
           last == Read(crawler, listing)
           len  == Len(listing.pages)
           new  == ToSet(links) \ categorySeen
<1>1. CrawlTypeOK /\ PageInTurn /\ AllDiscovered
  BY DEF CrawlInv
<1>2. category \in Turns
  BY <1>1, WalkTyped DEF ScrapePage, Turns
<1>3. listing \in SomeListings /\ page \in Nat \ {0}
  BY <1>1, <1>2, WalkTyped
<1>4. len \in Nat \ {0}
  BY <1>3, ServedIsList
<1>5. UniqueIn(links, CardURLs)
  <2>1. LinksOn(listing, page) \subseteq CardURLs
    BY <1>3, ServedIsList
  <2>2. links \in Seq(LinksOn(listing, page)) /\ IsInjective(links)
    BY <1>3, LinksUnique
  <2> QED
    BY <2>1, <2>2 DEF UniqueIn
<1>6. /\ ordered' = WithFresh(links)
      /\ discovered' = discovered \cup ToSet(links)
      /\ \/ /\ new = {}
            /\ category' = category + 1 /\ page' = 1 /\ categorySeen' = {}
         \/ /\ new # {}
            /\ page' = NextPage(listing) /\ category' = category
            /\ categorySeen' = categorySeen \cup new
  BY Zenon DEF ScrapePage, Barren
<1>7. categorySeen = seen /\ page <= last /\ discovered = Before(category - 1) \cup seen
  BY <1>1, <1>2 DEF PageInTurn, AllDiscovered
<1>8. now = seen \cup ToSet(links) /\ ToSet(links) = CardsOn(crawler, listing, page)
  <2>1. ToSet(links) = CardsOn(crawler, listing, page)
    BY <1>3, LinksUnique
  <2>2. now = seen \cup CardsOn(crawler, listing, page)
    BY <1>3, ShownGrows
  <2> HIDE DEF now, seen
  <2> QED  BY <2>1, <2>2
<1>9. /\ last \in 1..(len + 1) /\ Stale(crawler, listing, last)
      /\ \A m \in 1..(last - 1) : ~Stale(crawler, listing, m)
  BY <1>3, ReadIsFirstStale
<1>10. Cards(category) = Shown(crawler, listing, last)
  BY DEF Cards, CardsOf
<1>11. now \subseteq Cards(category)
  <2>1. page \in 0..last /\ last \in Nat \ {0}
    BY <1>3, <1>7, <1>9, <1>4
  <2>2. Shown(crawler, listing, page) \subseteq Shown(crawler, listing, last)
    <3> HIDE DEF last
    <3> QED  BY <2>1, <1>3, ShownGrows
  <2> QED
    BY <2>2, <1>10
<1>12. Stale(crawler, listing, page) <=> new = {}
  BY <1>7, <1>8 DEF Stale
<1>13. discovered' = Before(category - 1) \cup now
  BY <1>6, <1>7, <1>8
<1>14. CASE new = {}
  <2>1. page = last
    <3>1. page \notin 1..(last - 1)
      BY <1>9, <1>12, <1>14
    <3> QED
      BY <3>1, <1>3, <1>7, <1>9, <1>4
  <2> QED
    BY <2>1, <1>2, <1>3, <1>5, <1>6, <1>10, <1>11, <1>13, <1>14
<1>15. CASE new # {}
  <2>1. page # last
    BY <1>9, <1>12, <1>15
  <2>2. page <= len /\ page + 1 <= last
    BY <2>1, <1>3, <1>7, <1>9, <1>4
  <2>3. NextPage(listing) = page + 1
    BY <2>2, <1>3, <1>4 DEF NextPage
  <2>4. categorySeen' = now
    BY <1>6, <1>15, <1>7, <1>8
  <2> QED
    BY <2>2, <2>3, <2>4, <1>2, <1>3, <1>5, <1>6, <1>11, <1>13, <1>15
<1> QED
  BY <1>14, <1>15

LEMMA CrawlInvScrape == CrawlInv /\ ScrapePage => CrawlInv'
<1> SUFFICES ASSUME CrawlInv, ScrapePage PROVE CrawlInv'
  OBVIOUS
<1> DEFINE listing == site[walk[category]]
           links   == Links(crawler, listing, page)
           now     == Shown(crawler, listing, page)
           fresh   == ToSet(links) \ (discovered \cup known)
<1>1. /\ category \in Turns /\ listing \in SomeListings
      /\ UniqueIn(links, CardURLs)
      /\ ordered' = WithFresh(links)
      /\ discovered' = Before(category - 1) \cup now
      /\ now \subseteq Cards(category)
      /\ \/ now = Cards(category) /\ category' = category + 1 /\ page' = 1 /\ categorySeen' = {}
         \/ /\ category' = category /\ page' = page + 1 /\ page' <= Read(crawler, listing)
            /\ categorySeen' = now
  BY PageTaken
<1>2. /\ CrawlTypeOK /\ UniqueIn(ordered, CardURLs)
      /\ PageInTurn /\ AllDiscovered /\ CardsInTurn
  BY DEF CrawlInv
<1>3. /\ outcome = "crawling" /\ outcome' = "crawling"
      /\ UNCHANGED givenVars
      /\ discovered' = discovered \cup ToSet(links)
  BY DEF ScrapePage
<1>4. /\ crawler' = crawler /\ walk' = walk /\ site' = site /\ known' = known
      /\ Turns' = Turns
      /\ \A k : Cards(k)' = Cards(k)
      /\ \A n : Before(n)' = Before(n)
  BY <1>3, GivenKept DEF givenVars
<1>5. /\ Len(walk) \in Nat /\ category \in Nat \ {0} /\ page \in Nat \ {0}
      /\ \A k \in Turns : site[walk[k]] \in SomeListings
  BY <1>2, WalkTyped
<1>6. ToSet(ordered) = discovered \ known
  BY <1>2, <1>3 DEF AllDiscovered
<1>7. /\ UniqueIn(ordered', CardURLs)
      /\ ToSet(ordered') = ToSet(ordered) \cup fresh
      /\ Len(ordered) <= Len(ordered')
      /\ \A j \in 1..Len(ordered) : ordered'[j] = ordered[j]
      /\ \A j \in (Len(ordered) + 1)..Len(ordered') : ordered'[j] \in fresh
  <2>1. ToSet(ordered) \subseteq discovered
    BY <1>6
  <2> HIDE DEF links
  <2> QED  BY <2>1, <1>1, <1>2, WithFreshExtends
<1>8. ToSet(ordered') = discovered' \ known'
  BY <1>3, <1>4, <1>6, <1>7
<1>9. now \subseteq CardURLs /\ ToSet(links) \subseteq now
  <2>1. listing \in SomeListings
    BY <1>1
  <2> HIDE DEF listing
  <2>2. /\ now = Shown(crawler, listing, page - 1) \cup CardsOn(crawler, listing, page)
        /\ now \subseteq CardURLs
    BY <2>1, <1>5, ShownGrows
  <2>3. ToSet(links) = CardsOn(crawler, listing, page)
    BY <2>1, <1>5, LinksUnique
  <2> HIDE DEF now, links
  <2> QED
    BY <2>2, <2>3
<1> HIDE DEF listing, links, now
<1>10. CrawlTypeOK'
  <2>1. category' \in 1..(Len(walk') + 1)
    BY <1>1, <1>4, <1>5 DEF Turns
  <2>2. page' \in Nat \ {0}
    BY <1>1, <1>5
  <2>3. categorySeen' \subseteq discovered'
    BY <1>1
  <2>4. discovered' \subseteq CardURLs
    <3>1. discovered \subseteq CardURLs
      BY <1>2 DEF CrawlTypeOK
    <3> QED
      BY <3>1, <1>3, <1>9
  <2> QED
    BY <2>1, <2>2, <2>3, <2>4, <1>2, <1>3, <1>4 DEF CrawlTypeOK
<1>11. PageInTurn'
  <2>1. CASE category' = category + 1 /\ page' = 1 /\ categorySeen' = {}
    <3>1. ASSUME category' \in Turns
          PROVE  /\ 1 <= Read(crawler, site[walk[category']])
                 /\ {} = Shown(crawler, site[walk[category']], 0)
      <4>1. site[walk[category']] \in SomeListings
        BY <1>5, <3>1
      <4>2. Len(site[walk[category']].pages) \in Nat
        BY <4>1, 1 \in Nat \ {0}, ServedIsList
      <4> QED
        BY <4>1, <4>2, ReadIsFirstStale, ShownGrows
    <3> QED
      BY <3>1, <2>1, <1>4 DEF PageInTurn
  <2>2. CASE /\ category' = category /\ page' = page + 1
             /\ page' <= Read(crawler, listing) /\ categorySeen' = now
    <3>1. page' - 1 = page
      BY <2>2, <1>5
    <3> QED
      BY <3>1, <2>2, <1>1, <1>4 DEF PageInTurn, listing, now
  <2> QED
    BY <2>1, <2>2, <1>1
<1>12. AllDiscovered'
  <2>1. discovered' = Before(category' - 1) \cup categorySeen'
    <3>1. CASE now = Cards(category) /\ category' = category + 1 /\ categorySeen' = {}
      <4>1. category' - 1 = category /\ 1..category = (1..(category - 1)) \cup {category}
        BY <3>1, <1>5
      <4>2. Before(category) = Before(category - 1) \cup Cards(category)
        BY <4>1 DEF Before
      <4> QED
        BY <4>1, <4>2, <3>1, <1>1
    <3>2. CASE category' = category /\ categorySeen' = now
      BY <3>2, <1>1
    <3> QED
      BY <3>1, <3>2, <1>1
  <2>2. Before(category - 1)' = Before(category' - 1)
    BY <1>4 DEF Before, Cards
  <2> QED
    BY <2>1, <2>2, <1>3, <1>8 DEF AllDiscovered
<1>13. CardsInTurn'
  <2> SUFFICES ASSUME NEW i \in DOMAIN ordered', NEW j \in DOMAIN ordered', i < j,
                      NEW k \in Turns, ordered'[j] \in Cards(k)
               PROVE  \E m \in 1..k : ordered'[i] \in Cards(m)
    BY <1>4 DEF CardsInTurn
  <2>1. /\ DOMAIN ordered = 1..Len(ordered) /\ Len(ordered) \in Nat
        /\ DOMAIN ordered' = 1..Len(ordered') /\ Len(ordered') \in Nat
    BY <1>2, <1>7 DEF UniqueIn
  <2>2. CASE j <= Len(ordered)
    <3>1. i \in 1..Len(ordered) /\ j \in 1..Len(ordered)
      BY <2>1, <2>2
    <3>2. ordered'[i] = ordered[i] /\ ordered'[j] = ordered[j]
      BY <3>1, <1>7
    <3> QED
      BY <3>1, <3>2, <2>1, <1>2 DEF CardsInTurn
  <2>3. CASE j > Len(ordered)
    <3>1. ordered'[j] \notin discovered
      <4>1. j \in (Len(ordered) + 1)..Len(ordered')
        BY <2>1, <2>3
      <4> QED
        BY <4>1, <1>7
    <3>2. k \notin 1..(category - 1)
      BY <3>1, <1>2 DEF AllDiscovered, Before
    <3>3. category <= k /\ k \in Nat
      BY <3>2, <1>5 DEF Turns
    <3>4. ordered'[i] \in Before(category - 1) \cup Cards(category)
      <4>1. ordered'[i] \in discovered'
        BY <1>8 DEF ToSet
      <4> QED
        BY <4>1, <1>1
    <3>5. \E m \in 1..category : ordered'[i] \in Cards(m)
      BY <3>4, <1>5 DEF Before
    <3> QED
      BY <3>3, <3>5, <1>5
  <2> QED
    BY <2>2, <2>3, <2>1
<1> QED
  BY <1>7, <1>10, <1>11, <1>12, <1>13 DEF CrawlInv, UniqueIn

LEMMA CrawlInvStep == CrawlInv /\ [CrawlNext]_crawlVars => CrawlInv'
<1> SUFFICES ASSUME CrawlInv, [CrawlNext]_crawlVars PROVE CrawlInv'
  OBVIOUS
<1> USE DEF CrawlInv
<1>1. CASE ScrapePage
  BY <1>1, CrawlInvScrape
<1>2. CASE CrawlFails
  <2>1. /\ UNCHANGED givenVars /\ UNCHANGED walkVars
        /\ categorySeen' = categorySeen /\ discovered' = discovered
        /\ outcome' = "failed" /\ ordered' = <<>>
    BY <1>2 DEF CrawlFails
  <2>2. CrawlTypeOK'
    BY <2>1 DEF CrawlTypeOK, givenVars, walkVars
  <2>3. UniqueIn(ordered', CardURLs)
    BY <2>1 DEF UniqueIn, IsInjective
  <2>4. PageInTurn'
    BY <2>1 DEF PageInTurn, Turns, givenVars, walkVars
  <2>5. AllDiscovered'
    <3>1. Before(category - 1)' = Before(category - 1)
      BY <2>1, GivenKept DEF walkVars, givenVars, Before, Cards
    <3> QED
      BY <3>1, <2>1 DEF AllDiscovered
  <2>6. CardsInTurn'
    BY <2>1 DEF CardsInTurn
  <2> QED
    BY <2>2, <2>3, <2>4, <2>5, <2>6 DEF UniqueIn
<1>3. CASE CrawlReturns
  <2>1. /\ UNCHANGED givenVars /\ UNCHANGED walkVars
        /\ categorySeen' = categorySeen /\ discovered' = discovered
        /\ ordered' = ordered /\ outcome = "crawling" /\ outcome' = "done"
        /\ category > Len(walk)
    BY <1>3 DEF CrawlReturns
  <2>2. CrawlTypeOK'
    BY <2>1 DEF CrawlTypeOK, givenVars, walkVars
  <2>3. PageInTurn'
    BY <2>1 DEF PageInTurn, Turns, givenVars, walkVars
  <2>4. AllDiscovered'
    <3>1. Before(category - 1)' = Before(category - 1)
      BY <2>1, GivenKept DEF walkVars, givenVars, Before, Cards
    <3>2. category' \notin Turns'
      BY <2>1, WalkTyped DEF Turns, givenVars, walkVars
    <3> QED
      BY <3>1, <3>2, <2>1 DEF AllDiscovered, givenVars
  <2>5. CardsInTurn'
    BY <2>1, GivenKept DEF CardsInTurn
  <2> QED
    BY <2>1, <2>2, <2>3, <2>4, <2>5 DEF UniqueIn
<1>4. CASE UNCHANGED crawlVars
  <2>1. /\ UNCHANGED givenVars /\ UNCHANGED walkVars
        /\ categorySeen' = categorySeen /\ discovered' = discovered
        /\ ordered' = ordered /\ outcome' = outcome
    BY <1>4 DEF crawlVars
  <2>2. CrawlTypeOK'
    BY <2>1 DEF CrawlTypeOK, givenVars, walkVars
  <2>3. PageInTurn'
    BY <2>1 DEF PageInTurn, Turns, givenVars, walkVars
  <2>4. AllDiscovered'
    <3>1. Before(category - 1)' = Before(category - 1)
      BY <2>1, GivenKept DEF walkVars, givenVars, Before, Cards
    <3> QED
      BY <3>1, <2>1, GivenKept DEF AllDiscovered, givenVars, walkVars
  <2>5. CardsInTurn'
    BY <2>1, GivenKept DEF CardsInTurn
  <2> QED
    BY <2>1, <2>2, <2>3, <2>4, <2>5 DEF UniqueIn
<1> QED
  BY <1>1, <1>2, <1>3, <1>4 DEF CrawlNext

LEMMA CrawlInvAlways == CrawlSpec => []CrawlInv
  BY CrawlInvInit, CrawlInvStep, PTL DEF CrawlSpec

-----------------------------------------------------------------------------
(* The crawl's state is of its types in every state.                       *)
THEOREM CrawlTypeOKHolds == CrawlSpec => []CrawlTypeOK
<1>1. CrawlInv => CrawlTypeOK
  BY DEF CrawlInv
<1> QED
  BY <1>1, CrawlInvAlways, PTL

(* Whatever the site serves, a crawl that is done returns the cards of the *)
(* pages it reads in each category, up to the first that only repeats, but *)
(* for those the store holds, and nothing else.                            *)
THEOREM CrawlCompleteHolds == CrawlSpec => []CrawlComplete
<1>1. CrawlInv => CrawlComplete
  <2> SUFFICES ASSUME CrawlInv, outcome = "done"
               PROVE  ToSet(ordered) = (UNION {CardsOf(crawler, site[c]) : c \in ToSet(walk)}) \ known
    BY DEF CrawlComplete
  <2>1. /\ Len(walk) \in Nat /\ DOMAIN walk = Turns /\ category \in Nat \ {0}
        /\ category \in 1..(Len(walk) + 1)
    BY WalkTyped DEF CrawlInv, CrawlTypeOK
  <2>2. category \notin Turns /\ categorySeen = {}
    BY DEF CrawlInv, AllDiscovered, PageInTurn
  <2>3. category - 1 = Len(walk)
    BY <2>1, <2>2 DEF Turns
  <2>4. ToSet(ordered) = Before(Len(walk)) \ known
    BY <2>2, <2>3 DEF CrawlInv, AllDiscovered
  <2>5. Before(Len(walk)) = UNION {CardsOf(crawler, site[c]) : c \in ToSet(walk)}
    BY <2>1 DEF Before, Cards, ToSet, Turns
  <2> QED
    BY <2>4, <2>5
<1> QED
  BY <1>1, CrawlInvAlways, PTL

(* The result has every card once, and one category's before those that    *)
(* only a later category shows.                                            *)
THEOREM CardsInOrderHolds == CrawlSpec => []CardsInOrder
<1>1. CrawlInv => CardsInOrder
  <2> SUFFICES ASSUME CrawlInv PROVE CardsInOrder
    OBVIOUS
  <2>1. IsInjective(ordered)
    BY DEF CrawlInv, UniqueIn
  <2>2. DOMAIN walk = Turns /\ Len(walk) \in Nat
    BY WalkTyped DEF CrawlInv
  <2> DEFINE cards == [k \in DOMAIN walk |-> CardsOf(crawler, site[walk[k]])]
  <2>3. \A k \in Turns : cards[k] = Cards(k)
    BY <2>2 DEF Cards
  <2>4. \A k \in Turns : 1..k \subseteq Turns
    BY <2>2 DEF Turns
  <2> HIDE DEF cards
  <2>5. \A i, j \in DOMAIN ordered : i < j =>
            \A k \in DOMAIN walk :
                ordered[j] \in cards[k] => \E m \in 1..k : ordered[i] \in cards[m]
    BY <2>2, <2>3, <2>4 DEF CrawlInv, CardsInTurn
  <2> QED
    BY <2>1, <2>5 DEF CardsInOrder, cards
<1> QED
  BY <1>1, CrawlInvAlways, PTL

(* The first page past the last of a category ends it, whatever the site   *)
(* serves there, so a crawl asks for at most one page too many: the bound  *)
(* of NextPage is never what keeps the page number from growing.           *)
THEOREM OnePageTooMany ==
    CrawlSpec =>
        [][ScrapePage /\ page > Len(site[walk[category]].pages) => category' = category + 1]_crawlVars
<1>1. ASSUME CrawlInv, ScrapePage, page > Len(site[walk[category]].pages)
      PROVE  category' = category + 1
  <2> DEFINE listing == site[walk[category]]
             links == Links(crawler, listing, page)
  <2>1. category \in Turns /\ listing \in SomeListings /\ page \in Nat \ {0}
    BY <1>1, WalkTyped DEF CrawlInv, ScrapePage, Turns
  <2>2. Len(listing.pages) \in Nat
    BY <2>1, ServedIsList
  <2>3. /\ Read(crawler, listing) \in 1..(Len(listing.pages) + 1)
        /\ Stale(crawler, listing, Read(crawler, listing))
    BY <2>1, ReadIsFirstStale
  <2>4. /\ page <= Read(crawler, listing)
        /\ categorySeen = Shown(crawler, listing, page - 1)
    BY <1>1, <2>1 DEF CrawlInv, PageInTurn
  <2>5. page = Read(crawler, listing)
    <3> HIDE DEF listing
    <3> QED  BY <1>1, <2>1, <2>2, <2>3, <2>4 DEF listing
  <2>6. Barren(ToSet(links) \ categorySeen, links)
    BY <2>1, <2>3, <2>4, <2>5, LinksUnique DEF Stale, Barren
  <2> HIDE DEF links
  <2> QED
    BY <1>1, <2>6 DEF ScrapePage, links
<1>2. CrawlInv /\ [CrawlNext]_crawlVars =>
          [ScrapePage /\ page > Len(site[walk[category]].pages) => category' = category + 1]_crawlVars
  BY <1>1
<1> QED
  BY <1>2, CrawlInvAlways, PTL DEF CrawlSpec

\* no page but those past the last repeats only what came before
NoPageRepeats(listing) ==
    \A n \in DOMAIN listing.pages : ~Stale(crawler, listing, n)

(* Where every page shows something its category has not shown before, the *)
(* crawl does what the README says: whatever page of whatever category     *)
(* shows is returned, but for what the store holds.  AllPagesCompleted     *)
(* fails on other sites only.                                              *)
THEOREM FreshSitesAreCompleted ==
    CrawlSpec => [](
        outcome = "done" /\ (\A c \in ToSet(walk) : NoPageRepeats(site[c])) =>
            \A c \in ToSet(walk) : \A n \in DOMAIN site[c].pages :
                CardsOn(crawler, site[c], n) \subseteq ToSet(ordered) \cup known)
<1> DEFINE Completed ==
        outcome = "done" /\ (\A c \in ToSet(walk) : NoPageRepeats(site[c])) =>
            \A c \in ToSet(walk) : \A n \in DOMAIN site[c].pages :
                CardsOn(crawler, site[c], n) \subseteq ToSet(ordered) \cup known
<1>1. CrawlInv /\ CrawlComplete => Completed
  <2> SUFFICES ASSUME CrawlInv, CrawlComplete, outcome = "done",
                      NEW c \in ToSet(walk), NoPageRepeats(site[c]),
                      NEW n \in DOMAIN site[c].pages
               PROVE  CardsOn(crawler, site[c], n) \subseteq ToSet(ordered) \cup known
    OBVIOUS
  <2> DEFINE listing == site[c]
             len == Len(listing.pages)
             read == Read(crawler, listing)
  <2>1. listing \in SomeListings
    BY DEF CrawlInv, CrawlTypeOK, SomeListings, ToSet, CategorySet
  <2>2. len \in Nat \ {0} /\ DOMAIN listing.pages = 1..len
    <3>1. len \in Nat \ {0}
      BY <2>1, 1 \in Nat \ {0}, ServedIsList
    <3>2. listing.pages \in Seq(Seq(Anchor))
      BY <2>1, ListingsAssumption DEF SomeListings
    <3> QED  BY <3>1, <3>2
  <2>3. read \in 1..(len + 1) /\ Stale(crawler, listing, read)
    BY <2>1, ReadIsFirstStale
  <2>4. read \notin 1..len
    BY <2>2, <2>3 DEF NoPageRepeats
  <2>5. n \in 1..read
    <3> HIDE DEF listing, len, read
    <3>1. n \in 1..len
      BY <2>2 DEF listing
    <3> QED  BY <3>1, <2>2, <2>3, <2>4
  <2>6. CardsOn(crawler, listing, n) \subseteq CardsOf(crawler, listing)
    BY <2>5 DEF CardsOf, Shown
  <2>7. CardsOf(crawler, listing) \subseteq ToSet(ordered) \cup known
    BY DEF CrawlComplete
  <2> QED
    BY <2>6, <2>7
<1> QED
  BY <1>1, CrawlInvAlways, CrawlCompleteHolds, PTL
=============================================================================
