--------------------------- MODULE AndroidProofs ---------------------------
(***************************************************************************)
(* Proofs about two drivers of Android that share nothing: Ashmem, for     *)
(* every set of areas, every finite set of ranges and every choice of      *)
(* sizes, and Logger, for every number of writers and readers, with and    *)
(* without failing copies, and every buffer that holds two of the largest  *)
(* entries.                                                                *)
(***************************************************************************)
EXTENDS Ashmem, Logger, KListProofs, FiniteSetTheorems, TLAPS

\* A struct ashmem_range in use: it has pages, or it is the range without
\* pages that an empty request at the end of an area leaves.
RangeOk(r) == r \in RangeRec /\ r.pgstart <= r.pgend + 1

-----------------------------------------------------------------------------
(***************************************************************************)
(* lru_count.  The sum of the sizes of some ranges is the number of pairs  *)
(* of a range and a page in it, so that it needs no induction over sets.   *)
(***************************************************************************)
Pairs(rs, S) == {x \in S \X Page : ~rs[x[1]].purged /\ x[2] \in Pages(rs[x[1]])}

Weight(r) == IF r.purged THEN 0 ELSE range_size(r)

LEMMA PageFinite == IsFiniteSet(Page) /\ Page \subseteq Nat
<1>1. 0 \in Int /\ MaxSize - 1 \in Int
    BY AshmemAssumption
<1>2. IsFiniteSet(0 .. MaxSize - 1)
    BY <1>1, FS_Interval
<1> QED
    BY <1>2 DEF Page

LEMMA PairsFinite ==
    ASSUME NEW rs, NEW S, IsFiniteSet(S)
    PROVE  IsFiniteSet(Pairs(rs, S)) /\ Cardinality(Pairs(rs, S)) \in Nat
<1>1. IsFiniteSet(S \X Page)
    BY PageFinite, FS_Product
<1>2. Pairs(rs, S) \in SUBSET (S \X Page)
    BY DEF Pairs
<1>3. IsFiniteSet(Pairs(rs, S))
    BY <1>1, <1>2, FS_Subset
<1> QED
    BY <1>3, FS_CardinalityType

\* One range has as many pairs as pages.
LEMMA PairsOne ==
    ASSUME NEW rs, NEW x, RangeOk(rs[x])
    PROVE  Cardinality(Pairs(rs, {x})) = Weight(rs[x]) /\ Weight(rs[x]) \in Nat
<1> DEFINE r == rs[x]
<1>0. /\ r.pgstart \in Nat /\ r.pgend \in Nat /\ r.pgend \in Page /\ r.purged \in BOOLEAN
      /\ r.pgstart <= r.pgend + 1 /\ MaxSize \in Nat
    BY AshmemAssumption DEF RangeOk, RangeRec, Page
<1>1. CASE r.purged
    <2>1. Pairs(rs, {x}) = {}
        BY <1>1 DEF Pairs
    <2> QED
        BY <1>1, <2>1, FS_EmptySet DEF Weight
<1>2. CASE ~r.purged
    <2> DEFINE I == r.pgstart .. r.pgend
               f == [p \in I |-> <<x, p>>]
    <2>1. I \subseteq Page
        BY <1>0 DEF Page
    <2>2. Pairs(rs, {x}) = {<<x, p>> : p \in I}
        <3>1. ASSUME NEW y \in Pairs(rs, {x}) PROVE y \in {<<x, p>> : p \in I}
            BY <3>1 DEF Pairs, Pages
        <3>2. ASSUME NEW p \in I PROVE <<x, p>> \in Pairs(rs, {x})
            BY <1>2, <2>1, <3>2 DEF Pairs, Pages
        <3> QED
            BY <3>1, <3>2
    <2>3. f \in Bijection(I, Pairs(rs, {x}))
        <3>1. f \in [I -> Pairs(rs, {x})]
            BY <2>2
        <3>2. \A p, q \in I : f[p] = f[q] => p = q
            OBVIOUS
        <3>3. \A y \in Pairs(rs, {x}) : \E p \in I : f[p] = y
            BY <2>2
        <3> QED
            BY <3>1, <3>2, <3>3 DEF Bijection, Injection, IsInjective, Surjection
    <2>4. IsFiniteSet(I) /\ Cardinality(I) = IF r.pgstart > r.pgend THEN 0 ELSE r.pgend - r.pgstart + 1
        <3> DEFINE lo == r.pgstart
                   hi == r.pgend
        <3>1. lo \in Int /\ hi \in Int
            BY <1>0
        <3> HIDE DEF lo, hi
        <3>2. IsFiniteSet(lo .. hi) /\ Cardinality(lo .. hi) = IF lo > hi THEN 0 ELSE hi - lo + 1
            BY <3>1, FS_Interval
        <3> QED
            BY <3>2 DEF lo, hi
    <2>5. Cardinality(Pairs(rs, {x})) = Cardinality(I)
        <3>1. ExistsBijection(I, Pairs(rs, {x}))
            BY <2>3 DEF ExistsBijection
        <3> QED
            BY <2>4, <3>1, FS_Bijection
    <2> QED
        BY <1>0, <1>2, <2>4, <2>5 DEF Weight, range_size
<1> QED
    BY <1>1, <1>2

\* The pairs of two disjoint sets of ranges add up.
LEMMA PairsUnion ==
    ASSUME NEW rs, NEW S, NEW T, IsFiniteSet(S), IsFiniteSet(T), S \cap T = {}
    PROVE  Cardinality(Pairs(rs, S \cup T)) = Cardinality(Pairs(rs, S)) + Cardinality(Pairs(rs, T))
<1>1. Pairs(rs, S \cup T) = Pairs(rs, S) \cup Pairs(rs, T)
    BY DEF Pairs
<1>2. Pairs(rs, S) \cap Pairs(rs, T) = {}
    BY DEF Pairs
<1>3. /\ IsFiniteSet(Pairs(rs, S)) /\ IsFiniteSet(Pairs(rs, T))
      /\ Cardinality(Pairs(rs, S)) \in Nat /\ Cardinality(Pairs(rs, T)) \in Nat
    BY PairsFinite
<1>4. Cardinality(Pairs(rs, S) \cup Pairs(rs, T))
        = Cardinality(Pairs(rs, S)) + Cardinality(Pairs(rs, T))
          - Cardinality(Pairs(rs, S) \cap Pairs(rs, T))
    BY <1>3, FS_Union
<1>5. Cardinality(Pairs(rs, S) \cap Pairs(rs, T)) = 0
    BY <1>2, FS_EmptySet
<1>6. Cardinality(Pairs(rs, S \cup T)) = Cardinality(Pairs(rs, S) \cup Pairs(rs, T))
    BY <1>1
<1> DEFINE a == Cardinality(Pairs(rs, S))
           b == Cardinality(Pairs(rs, T))
           c == Cardinality(Pairs(rs, S) \cap Pairs(rs, T))
           d == Cardinality(Pairs(rs, S) \cup Pairs(rs, T))
<1>7. a \in Nat /\ b \in Nat /\ c = 0 /\ d = a + b - c
    BY <1>3, <1>4, <1>5
<1> HIDE DEF a, b, c, d
<1>8. d = a + b
    BY <1>7
<1> QED
    BY <1>6, <1>8 DEF a, b, d

\* The sum that the code keeps in lru_count, however it is added up.
LEMMA LruPagesCount ==
    ASSUME NEW rs, NEW S, IsFiniteSet(S), \A n \in S : RangeOk(rs[n])
    PROVE  LruPages(rs, S) = Cardinality(Pairs(rs, S))
<1> DEFINE ch(s) == CHOOSE x \in s : TRUE
           Body(g) == [s \in SUBSET S |->
                         IF s = {} THEN 0 ELSE Weight(rs[ch(s)]) + g[s \ {ch(s)}]]
           iter == CHOOSE g : g = Body(g)
           card == [s \in SUBSET S |-> Cardinality(Pairs(rs, s))]
<1>1. LruPages(rs, S) = iter[S]
    BY DEF LruPages, MapThenSumSet, MapThenFoldSet, Weight
<1>2. ASSUME NEW s \in SUBSET S, s # {}
      PROVE  /\ ch(s) \in s /\ IsFiniteSet(s) /\ Cardinality(s) \in Nat
             /\ Cardinality(s \ {ch(s)}) = Cardinality(s) - 1
             /\ card[s] = Weight(rs[ch(s)]) + card[s \ {ch(s)}]
    <2>1. ch(s) \in s
        BY <1>2
    <2> DEFINE x == ch(s)
               u == s \ {x}
    <2>2. x \in s
        BY <2>1
    <2> HIDE DEF x, ch
    <2>3. IsFiniteSet(s) /\ Cardinality(s) \in Nat
        BY FS_Subset, FS_CardinalityType
    <2>4. IsFiniteSet(u) /\ Cardinality(u) = Cardinality(s) - 1
        BY <2>2, <2>3, FS_RemoveElement
    <2>5. IsFiniteSet({x}) /\ {x} \cap u = {} /\ {x} \cup u = s
        BY <2>2, FS_Singleton
    <2> HIDE DEF u
    <2>6. Cardinality(Pairs(rs, {x} \cup u)) = Cardinality(Pairs(rs, {x})) + Cardinality(Pairs(rs, u))
        BY <2>4, <2>5, PairsUnion
    <2>7. Cardinality(Pairs(rs, {x})) = Weight(rs[x])
        BY <2>2, PairsOne
    <2>8. u \in SUBSET S
        BY DEF u
    <2> QED
        BY <2>1, <2>3, <2>4, <2>5, <2>6, <2>7, <2>8 DEF x, u
<1>3. card = Body(card)
    <2>1. ASSUME NEW s \in SUBSET S PROVE card[s] = Body(card)[s]
        <3>1. CASE s = {}
            <4>1. Pairs(rs, {}) = {}
                BY DEF Pairs
            <4> QED
                BY <3>1, <4>1, FS_EmptySet
        <3>2. CASE s # {}
            <4>1. card[s] = Weight(rs[ch(s)]) + card[s \ {ch(s)}]
                BY <1>2, <3>2
            <4> HIDE DEF card, ch
            <4> QED
                BY <3>2, <4>1
        <3> QED
            BY <3>1, <3>2
    <2> QED
        BY <2>1
<1>4. iter = Body(iter)
    BY <1>3
<1> HIDE DEF iter
<1>5. ASSUME NEW s \in SUBSET S PROVE iter[s] = Body(iter)[s]
    <2> HIDE DEF Body
    <2> QED
        BY <1>4
<1>6. \A s \in SUBSET S : iter[s] = card[s]
    <2> DEFINE Bad == {s \in SUBSET S : iter[s] # card[s]}
               T == {Cardinality(s) : s \in Bad}
    <2>1. SUFFICES ASSUME Bad # {} PROVE FALSE
        <3> HIDE DEF card
        <3> QED
            OBVIOUS
    <2>2. T \in SUBSET Nat
        BY FS_Subset, FS_CardinalityType
    <2>3. PICK c \in T : \A m \in T : c <= m
        <3>1. T # {}
            BY <2>1
        <3> HIDE DEF T
        <3> QED
            BY <2>2, <3>1, Least
    <2>4. PICK s \in Bad : Cardinality(s) = c
        BY <2>3
    <2>5. s # {}
        <3>1. card[{}] = 0 /\ iter[{}] = 0
            <4>1. Pairs(rs, {}) = {}
                BY DEF Pairs
            <4>2. card[{}] = 0
                BY <4>1, FS_EmptySet
            <4> QED
                BY <1>5, <4>2
        <3> QED
            BY <2>4, <3>1
    <2>6. s \in SUBSET S
        OBVIOUS
    <2>7. /\ ch(s) \in s /\ Cardinality(s) \in Nat
          /\ Cardinality(s \ {ch(s)}) = Cardinality(s) - 1
          /\ card[s] = Weight(rs[ch(s)]) + card[s \ {ch(s)}]
        BY <1>2, <2>5, <2>6
    <2> DEFINE u == s \ {ch(s)}
    <2>8. iter[s] = Weight(rs[ch(s)]) + iter[u]
        <3> HIDE DEF ch
        <3> QED
            BY <1>5, <2>5, <2>6
    <2>9. u \in SUBSET S
        BY <2>6
    <2>10. iter[u] # card[u]
        <3> HIDE DEF card, ch
        <3> QED
            BY <2>4, <2>7, <2>8
    <2>11. u \in Bad
        <3> HIDE DEF card, u
        <3> QED
            BY <2>9, <2>10
    <2>12. c <= Cardinality(u)
        <3> HIDE DEF Bad, u
        <3> QED
            BY <2>3, <2>11
    <2> QED
        BY <2>4, <2>7, <2>12
<1> QED
    BY <1>1, <1>6

-----------------------------------------------------------------------------
(***************************************************************************)
(* The lists.  ListsInv is stated of values, not of the variables, so that *)
(* an operation that deletes, cuts and adds ranges can be taken apart.     *)
(***************************************************************************)
Used(rng) == {n \in RangeId : rng[n] # NULL}

\* A list is sorted from the end of the area to its start.
Sorted(rng, s) == \A y, z : Ahead(s, y, z) => rng[y].pgstart > rng[z].pgend

ListsInv(rng, ul, lru, cnt) ==
    /\ rng \in [RangeId -> {NULL} \cup RangeRec]
    /\ \A n \in Used(rng) : RangeOk(rng[n])
    /\ ul \in [Area -> Seq(RangeId)]
    /\ \A a \in Area : NoDup(ul[a]) /\ Sorted(rng, ul[a])
    /\ \A a, b \in Area : \A n : OnList(ul[a], n) /\ OnList(ul[b], n) => a = b
    /\ \A n \in RangeId : n \in Used(rng) <=> \E a \in Area : OnList(ul[a], n)
    /\ lru \in Seq(RangeId) /\ NoDup(lru)
    /\ \A n \in RangeId : OnList(lru, n) <=> n \in Used(rng) /\ ~rng[n].purged
    /\ cnt = Cardinality(Pairs(rng, Used(rng)))

\* q is s without the members of D.
SubList(q, s, D) ==
    /\ q \in Seq(RangeId) /\ NoDup(q)
    /\ \A y : OnList(q, y) <=> OnList(s, y) /\ y \notin D
    /\ \A y, z : Ahead(q, y, z) => Ahead(s, y, z)

LEMMA DelAllSubList ==
    ASSUME NEW s \in Seq(RangeId), NoDup(s), NEW D
    PROVE  SubList(list_del_all(s, D), s, D)
BY DelAllList DEF SubList

LEMMA UsedFinite ==
    ASSUME NEW rng, NEW S, S \subseteq Used(rng)
    PROVE  IsFiniteSet(S) /\ Cardinality(Pairs(rng, S)) \in Nat
<1>1. S \in SUBSET RangeId /\ IsFiniteSet(RangeId)
    BY AshmemAssumption DEF Used
<1>2. IsFiniteSet(S)
    BY <1>1, FS_Subset
<1> QED
    BY <1>2, PairsFinite

\* The pages of the ranges that stay and of those that go.
LEMMA UsedSplit ==
    ASSUME NEW rng, NEW D, D \subseteq Used(rng)
    PROVE  /\ Cardinality(Pairs(rng, D)) \in Nat
           /\ Cardinality(Pairs(rng, Used(rng) \ D)) \in Nat
           /\ Cardinality(Pairs(rng, Used(rng)))
                = Cardinality(Pairs(rng, D)) + Cardinality(Pairs(rng, Used(rng) \ D))
<1> DEFINE E == Used(rng) \ D
<1>1. D \cup E = Used(rng) /\ D \cap E = {} /\ E \subseteq Used(rng)
    OBVIOUS
<1> HIDE DEF E
<1>2. IsFiniteSet(D) /\ IsFiniteSet(E)
    BY <1>1, UsedFinite
<1>3. Cardinality(Pairs(rng, D \cup E)) = Cardinality(Pairs(rng, D)) + Cardinality(Pairs(rng, E))
    BY <1>1, <1>2, PairsUnion
<1>4. Cardinality(Pairs(rng, D)) \in Nat /\ Cardinality(Pairs(rng, E)) \in Nat
    BY <1>1, UsedFinite
<1> QED
    BY <1>1, <1>3, <1>4 DEF E

\* range_del() of the ranges D of one area.
LEMMA DelLists ==
    ASSUME NEW rng, NEW ul, NEW lru, NEW cnt, ListsInv(rng, ul, lru, cnt),
           NEW a \in Area, NEW D, \A n \in D : OnList(ul[a], n),
           NEW q, SubList(q, ul[a], D), NEW l, SubList(l, lru, D)
    PROVE  ListsInv([n \in RangeId |-> IF n \in D THEN NULL ELSE rng[n]],
                    [ul EXCEPT ![a] = q], l, cnt - Cardinality(Pairs(rng, D)))
<1> DEFINE R == [n \in RangeId |-> IF n \in D THEN NULL ELSE rng[n]]
           U == [ul EXCEPT ![a] = q]
<1>0. /\ rng \in [RangeId -> {NULL} \cup RangeRec]
      /\ ul \in [Area -> Seq(RangeId)]
      /\ \A b, c \in Area : \A n : OnList(ul[b], n) /\ OnList(ul[c], n) => b = c
      /\ \A n \in RangeId : n \in Used(rng) <=> \E b \in Area : OnList(ul[b], n)
      /\ cnt = Cardinality(Pairs(rng, Used(rng)))
    BY DEF ListsInv
<1>1. D \subseteq RangeId /\ D \subseteq Used(rng)
    <2>1. ASSUME NEW n \in D PROVE n \in RangeId
        BY <1>0, <2>1, OnType
    <2> QED
        BY <1>0, <2>1
<1>2. /\ R \in [RangeId -> {NULL} \cup RangeRec]
      /\ Used(R) = Used(rng) \ D
      /\ \A n \in Used(R) : n \in RangeId /\ n \notin D /\ R[n] = rng[n]
    BY <1>0 DEF Used
<1>3. \A n \in Used(R) : RangeOk(R[n])
    BY <1>2 DEF ListsInv
<1>4. /\ U \in [Area -> Seq(RangeId)] /\ U[a] = q
      /\ \A b \in Area : b # a => U[b] = ul[b]
    BY <1>0 DEF SubList
<1>5. \A b \in Area : \A n : OnList(U[b], n) <=> OnList(ul[b], n) /\ n \notin D
    <2>1. ASSUME NEW b \in Area, b # a, NEW n, OnList(ul[b], n) PROVE n \notin D
        BY <1>0, <2>1
    <2> QED
        BY <1>4, <2>1 DEF SubList
<1>6. \A b \in Area : \A y, z : Ahead(U[b], y, z) => Ahead(ul[b], y, z)
    BY <1>4 DEF SubList
<1>7. ASSUME NEW b \in Area PROVE NoDup(U[b]) /\ Sorted(R, U[b])
    <2>1. NoDup(U[b])
        BY <1>4 DEF SubList, ListsInv
    <2>2. ASSUME NEW y, NEW z, Ahead(U[b], y, z) PROVE R[y].pgstart > R[z].pgend
        <3>1. OnList(U[b], y) /\ OnList(U[b], z)
            BY <2>2 DEF Ahead, OnList
        <3>2. y \in RangeId /\ z \in RangeId /\ y \notin D /\ z \notin D
            BY <1>4, <1>5, <3>1, OnType
        <3>3. Ahead(ul[b], y, z)
            BY <1>6, <2>2
        <3>4. rng[y].pgstart > rng[z].pgend
            BY <3>3 DEF ListsInv, Sorted
        <3> QED
            BY <3>2, <3>4
    <2> QED
        BY <2>1, <2>2 DEF Sorted
<1>8. \A b, c \in Area : \A n : OnList(U[b], n) /\ OnList(U[c], n) => b = c
    BY <1>0, <1>5
<1>9. \A n \in RangeId : n \in Used(R) <=> \E b \in Area : OnList(U[b], n)
    BY <1>0, <1>2, <1>5
<1>10. l \in Seq(RangeId) /\ NoDup(l)
    BY DEF SubList
<1>11. \A n \in RangeId : OnList(l, n) <=> n \in Used(R) /\ ~R[n].purged
    <2>1. \A n : OnList(l, n) <=> OnList(lru, n) /\ n \notin D
        BY DEF SubList
    <2>2. \A n \in RangeId : OnList(lru, n) <=> n \in Used(rng) /\ ~rng[n].purged
        BY DEF ListsInv
    <2> QED
        BY <1>2, <2>1, <2>2
<1>12. cnt - Cardinality(Pairs(rng, D)) = Cardinality(Pairs(R, Used(R)))
    <2>1. Pairs(R, Used(R)) = Pairs(rng, Used(rng) \ D)
        BY <1>2 DEF Pairs
    <2>2. /\ Cardinality(Pairs(rng, D)) \in Nat
          /\ Cardinality(Pairs(rng, Used(rng) \ D)) \in Nat
          /\ cnt = Cardinality(Pairs(rng, D)) + Cardinality(Pairs(rng, Used(rng) \ D))
        BY <1>0, <1>1, UsedSplit
    <2> QED
        BY <2>1, <2>2
<1> HIDE DEF R, U
<1>13. ListsInv(R, U, l, cnt - Cardinality(Pairs(rng, D)))
    BY <1>2, <1>3, <1>4, <1>7, <1>8, <1>9, <1>10, <1>11, <1>12 DEF ListsInv
<1> QED
    BY <1>13 DEF R, U

\* range_alloc() of a range that fits in its place.
Fits(rng, s, pos, r) ==
    /\ pos \in 1 .. Len(s) + 1
    /\ \A i \in 1 .. Len(s) : /\ i < pos => rng[s[i]].pgstart > r.pgend
                              /\ i >= pos => rng[s[i]].pgend < r.pgstart

LEMMA InsLists ==
    ASSUME NEW rng, NEW ul, NEW lru, NEW cnt, ListsInv(rng, ul, lru, cnt),
           NEW a \in Area, NEW new \in RangeId, rng[new] = NULL,
           NEW r, RangeOk(r), NEW pos, Fits(rng, ul[a], pos, r)
    PROVE  ListsInv([rng EXCEPT ![new] = r], [ul EXCEPT ![a] = InsertAt(ul[a], pos, new)],
                    IF r.purged THEN lru ELSE Append(lru, new), cnt + Weight(r))
<1> DEFINE R == [rng EXCEPT ![new] = r]
           q == InsertAt(ul[a], pos, new)
           U == [ul EXCEPT ![a] = q]
           l == IF r.purged THEN lru ELSE Append(lru, new)
<1>0. /\ rng \in [RangeId -> {NULL} \cup RangeRec]
      /\ ul \in [Area -> Seq(RangeId)] /\ ul[a] \in Seq(RangeId)
      /\ lru \in Seq(RangeId) /\ NoDup(lru)
      /\ \A b, c \in Area : \A n : OnList(ul[b], n) /\ OnList(ul[c], n) => b = c
      /\ \A n \in RangeId : n \in Used(rng) <=> \E b \in Area : OnList(ul[b], n)
      /\ \A n \in RangeId : OnList(lru, n) <=> n \in Used(rng) /\ ~rng[n].purged
      /\ cnt = Cardinality(Pairs(rng, Used(rng)))
    BY DEF ListsInv
<1>1. r \in RangeRec /\ r # NULL
    BY AshmemAssumption DEF RangeOk
<1>2. /\ R \in [RangeId -> {NULL} \cup RangeRec]
      /\ new \notin Used(rng) /\ Used(R) = Used(rng) \cup {new}
      /\ R[new] = r
      /\ \A n \in RangeId : n # new => R[n] = rng[n]
    BY <1>0, <1>1 DEF Used
<1>3. \A n \in Used(R) : RangeOk(R[n])
    BY <1>2 DEF ListsInv, Used
<1>4. \A b \in Area : ~OnList(ul[b], new)
    BY <1>0, <1>2
<1>5. /\ q \in Seq(RangeId)
      /\ \A y : OnList(q, y) <=> OnList(ul[a], y) \/ y = new
      /\ NoDup(q)
    <2>1. NoDup(ul[a]) /\ ~OnList(ul[a], new) /\ pos \in 1 .. Len(ul[a]) + 1
        BY <1>4 DEF ListsInv, Fits
    <2> QED
        BY <1>0, <2>1, InsertList
<1> HIDE DEF q
<1>6. /\ U \in [Area -> Seq(RangeId)] /\ U[a] = q
      /\ \A b \in Area : b # a => U[b] = ul[b]
    BY <1>0, <1>5
<1>7. \A b \in Area : \A n : OnList(U[b], n) <=> OnList(ul[b], n) \/ (b = a /\ n = new)
    BY <1>5, <1>6
<1> HIDE DEF U
<1>8. ASSUME NEW b \in Area PROVE NoDup(U[b]) /\ Sorted(R, U[b])
    <2>0. NoDup(ul[b]) /\ Sorted(rng, ul[b]) /\ ul[b] \in Seq(RangeId)
        BY DEF ListsInv
    <2>1. NoDup(U[b])
        BY <1>5, <1>6, <2>0
    <2>2. ASSUME NEW y, NEW z, Ahead(ul[b], y, z) PROVE R[y].pgstart > R[z].pgend
        <3>1. OnList(ul[b], y) /\ OnList(ul[b], z)
            BY <2>2 DEF Ahead, OnList
        <3>2. y \in RangeId /\ z \in RangeId /\ y # new /\ z # new
            BY <1>4, <2>0, <3>1, OnType
        <3> QED
            BY <1>2, <2>0, <2>2, <3>2 DEF Sorted
    <2>3. ASSUME b = a, NEW y, NEW z, Ahead(q, y, z) PROVE R[y].pgstart > R[z].pgend
        <3>1. pos \in 1 .. Len(ul[a]) + 1
            BY DEF Fits
        <3>2. \/ Ahead(ul[a], y, z)
              \/ \E i \in 1 .. Len(ul[a]) : i < pos /\ ul[a][i] = y /\ z = new
              \/ \E i \in 1 .. Len(ul[a]) : i >= pos /\ ul[a][i] = z /\ y = new
            BY <1>0, <2>3, <3>1, InsertAheadBack DEF q
        <3>3. CASE Ahead(ul[a], y, z)
            BY <2>2, <2>3, <3>3
        <3>4. ASSUME NEW i \in 1 .. Len(ul[a]), i < pos, ul[a][i] = y, z = new
              PROVE  R[y].pgstart > R[z].pgend
            <4>1. y \in RangeId /\ y # new
                BY <1>0, <1>4, <3>4 DEF OnList
            <4>2. rng[ul[a][i]].pgstart > r.pgend
                BY <3>4 DEF Fits
            <4> QED
                BY <1>2, <3>4, <4>1, <4>2
        <3>5. ASSUME NEW i \in 1 .. Len(ul[a]), i >= pos, ul[a][i] = z, y = new
              PROVE  R[y].pgstart > R[z].pgend
            <4>1. z \in RangeId /\ z # new
                BY <1>0, <1>4, <3>5 DEF OnList
            <4>2. rng[z].pgend < r.pgstart
                BY <3>5 DEF Fits
            <4>3. z \in Used(rng)
                BY <1>0, <3>5, <4>1 DEF OnList
            <4>4. rng[z].pgend \in Int /\ r.pgstart \in Int
                BY <1>1, <4>3 DEF ListsInv, RangeOk, RangeRec, Page
            <4> QED
                BY <1>2, <3>5, <4>1, <4>2, <4>4
        <3> QED
            BY <3>2, <3>3, <3>4, <3>5
    <2>4. ASSUME NEW y, NEW z, Ahead(U[b], y, z) PROVE R[y].pgstart > R[z].pgend
        BY <1>6, <2>2, <2>3, <2>4
    <2> QED
        BY <2>1, <2>4 DEF Sorted
<1>9. \A b, c \in Area : \A n : OnList(U[b], n) /\ OnList(U[c], n) => b = c
    <2>1. ASSUME NEW b \in Area, NEW c \in Area, NEW n, OnList(U[b], n), OnList(U[c], n)
          PROVE  b = c
        <3>1. CASE n = new
            BY <1>4, <1>7, <2>1, <3>1
        <3>2. CASE n # new
            BY <1>0, <1>7, <2>1, <3>2
        <3> QED
            BY <3>1, <3>2
    <2> QED
        BY <2>1
<1>10. \A n \in RangeId : n \in Used(R) <=> \E b \in Area : OnList(U[b], n)
    BY <1>0, <1>2, <1>7
<1>11. /\ l \in Seq(RangeId) /\ NoDup(l)
       /\ \A n \in RangeId : OnList(l, n) <=> n \in Used(R) /\ ~R[n].purged
    <2>1. ~OnList(lru, new)
        BY <1>0, <1>2
    <2>2. /\ Append(lru, new) \in Seq(RangeId) /\ NoDup(Append(lru, new))
          /\ \A y : OnList(Append(lru, new), y) <=> OnList(lru, y) \/ y = new
        BY <1>0, <2>1, AppendList
    <2>3. CASE r.purged
        BY <1>0, <1>2, <2>1, <2>3
    <2>4. CASE ~r.purged
        BY <1>0, <1>2, <2>2, <2>4
    <2> QED
        BY <2>3, <2>4
<1>12. cnt + Weight(r) = Cardinality(Pairs(R, Used(R)))
    <2>1. Pairs(R, Used(rng)) = Pairs(rng, Used(rng))
        BY <1>2 DEF Pairs, Used
    <2>2. Cardinality(Pairs(R, {new})) = Weight(r) /\ Weight(r) \in Nat
        BY <1>2, PairsOne
    <2>3. IsFiniteSet(Used(rng)) /\ Cardinality(Pairs(rng, Used(rng))) \in Nat
        BY UsedFinite
    <2>4. IsFiniteSet({new}) /\ Used(rng) \cap {new} = {}
        BY <1>2, FS_Singleton
    <2>5. Cardinality(Pairs(R, Used(rng) \cup {new}))
            = Cardinality(Pairs(R, Used(rng))) + Cardinality(Pairs(R, {new}))
        <3> HIDE DEF R
        <3> QED
            BY <2>3, <2>4, PairsUnion
    <2> HIDE DEF R
    <2> QED
        BY <1>0, <1>2, <2>1, <2>2, <2>3, <2>5
<1> HIDE DEF R, l
<1>13. ListsInv(R, U, l, cnt + Weight(r))
    BY <1>2, <1>3, <1>6, <1>8, <1>9, <1>10, <1>11, <1>12 DEF ListsInv
<1> QED
    BY <1>13 DEF R, U, l, q

\* range_shrink() of the ranges C, which stay where they are.
Cut(rng, R, C) ==
    /\ C \subseteq Used(rng)
    /\ R \in [RangeId -> {NULL} \cup RangeRec]
    /\ \A n \in C : /\ RangeOk(R[n]) /\ R[n].purged = rng[n].purged
                    /\ R[n].pgstart >= rng[n].pgstart /\ R[n].pgend <= rng[n].pgend
    /\ \A n \in RangeId : n \notin C => R[n] = rng[n]

LEMMA CutLists ==
    ASSUME NEW rng, NEW ul, NEW lru, NEW cnt, ListsInv(rng, ul, lru, cnt),
           NEW R, NEW C, Cut(rng, R, C)
    PROVE  ListsInv(R, ul, lru, cnt - Cardinality(Pairs(rng, C)) + Cardinality(Pairs(R, C)))
<1>0. /\ C \subseteq Used(rng) /\ C \subseteq RangeId /\ Used(rng) \subseteq RangeId
      /\ cnt = Cardinality(Pairs(rng, Used(rng)))
    BY DEF ListsInv, Cut, Used
<1>1. Used(R) = Used(rng)
    BY <1>0, AshmemAssumption DEF Cut, Used, RangeOk
<1>2. \A n \in Used(rng) : /\ R[n].purged = rng[n].purged /\ RangeOk(R[n]) /\ RangeOk(rng[n])
                           /\ R[n].pgstart >= rng[n].pgstart /\ R[n].pgend <= rng[n].pgend
    <2>1. ASSUME NEW n \in Used(rng)
          PROVE  /\ R[n].purged = rng[n].purged /\ RangeOk(R[n]) /\ RangeOk(rng[n])
                 /\ R[n].pgstart >= rng[n].pgstart /\ R[n].pgend <= rng[n].pgend
        <3>1. RangeOk(rng[n]) /\ rng[n].pgstart \in Int /\ rng[n].pgend \in Int
            BY <2>1 DEF ListsInv, RangeOk, RangeRec, Page
        <3>2. CASE n \in C
            BY <3>1, <3>2 DEF Cut
        <3>3. CASE n \notin C
            BY <1>0, <3>1, <3>3 DEF Cut
        <3> QED
            BY <3>2, <3>3
    <2> QED
        BY <2>1
<1>3. ASSUME NEW a \in Area PROVE Sorted(R, ul[a])
    <2>1. ul[a] \in Seq(RangeId) /\ Sorted(rng, ul[a])
        BY DEF ListsInv
    <2>2. ASSUME NEW y, NEW z, Ahead(ul[a], y, z) PROVE R[y].pgstart > R[z].pgend
        <3>1. OnList(ul[a], y) /\ OnList(ul[a], z)
            BY <2>2 DEF Ahead, OnList
        <3>2. y \in Used(rng) /\ z \in Used(rng)
            BY <2>1, <3>1, OnType DEF ListsInv
        <3>3. rng[y].pgstart > rng[z].pgend
            BY <2>1, <2>2 DEF Sorted
        <3>4. /\ rng[y].pgstart \in Int /\ R[y].pgstart \in Int
              /\ rng[z].pgend \in Int /\ R[z].pgend \in Int
            BY <1>2, <3>2 DEF RangeOk, RangeRec, Page
        <3>5. R[y].pgstart >= rng[y].pgstart /\ R[z].pgend <= rng[z].pgend
            BY <1>2, <3>2
        <3> QED
            BY <3>3, <3>4, <3>5
    <2> QED
        BY <2>2 DEF Sorted
<1>4. \A n \in RangeId : OnList(lru, n) <=> n \in Used(R) /\ ~R[n].purged
    <2>1. \A n \in RangeId : OnList(lru, n) <=> n \in Used(rng) /\ ~rng[n].purged
        BY DEF ListsInv
    <2> QED
        BY <1>1, <1>2, <2>1
<1>5. cnt - Cardinality(Pairs(rng, C)) + Cardinality(Pairs(R, C)) = Cardinality(Pairs(R, Used(R)))
    <2>1. /\ Cardinality(Pairs(rng, C)) \in Nat
          /\ Cardinality(Pairs(rng, Used(rng) \ C)) \in Nat
          /\ cnt = Cardinality(Pairs(rng, C)) + Cardinality(Pairs(rng, Used(rng) \ C))
        BY <1>0, UsedSplit
    <2>2. /\ Cardinality(Pairs(R, C)) \in Nat
          /\ Cardinality(Pairs(R, Used(R))) = Cardinality(Pairs(R, C)) + Cardinality(Pairs(R, Used(R) \ C))
        BY <1>0, <1>1, UsedSplit
    <2>3. Pairs(R, Used(R) \ C) = Pairs(rng, Used(rng) \ C)
        BY <1>0, <1>1 DEF Cut, Pairs
    <2> QED
        BY <2>1, <2>2, <2>3
<1>6. R \in [RangeId -> {NULL} \cup RangeRec]
    BY DEF Cut
<1>7. /\ ul \in [Area -> Seq(RangeId)]
      /\ \A a \in Area : NoDup(ul[a])
      /\ \A a, b \in Area : \A n : OnList(ul[a], n) /\ OnList(ul[b], n) => a = b
      /\ \A n \in RangeId : n \in Used(R) <=> \E a \in Area : OnList(ul[a], n)
      /\ lru \in Seq(RangeId) /\ NoDup(lru)
    BY <1>1 DEF ListsInv
<1> QED
    BY <1>1, <1>2, <1>3, <1>4, <1>5, <1>6, <1>7 DEF ListsInv

\* The shrinker purges the ranges S of the LRU list.
LEMMA PurgeLists ==
    ASSUME NEW rng, NEW ul, NEW lru, NEW cnt, ListsInv(rng, ul, lru, cnt),
           NEW S, \A n \in S : OnList(lru, n), NEW l, SubList(l, lru, S)
    PROVE  ListsInv([n \in RangeId |-> IF n \in S THEN [rng[n] EXCEPT !.purged = TRUE] ELSE rng[n]],
                    ul, l, cnt - Cardinality(Pairs(rng, S)))
<1> DEFINE R == [n \in RangeId |-> IF n \in S THEN [rng[n] EXCEPT !.purged = TRUE] ELSE rng[n]]
<1>0. /\ rng \in [RangeId -> {NULL} \cup RangeRec]
      /\ lru \in Seq(RangeId)
      /\ \A n \in RangeId : OnList(lru, n) <=> n \in Used(rng) /\ ~rng[n].purged
      /\ cnt = Cardinality(Pairs(rng, Used(rng)))
      /\ \A n \in Used(rng) : RangeOk(rng[n])
      /\ \A n : OnList(l, n) <=> OnList(lru, n) /\ n \notin S
    BY DEF ListsInv, SubList
<1>1. S \subseteq RangeId /\ S \subseteq Used(rng)
    <2>1. ASSUME NEW n \in S PROVE n \in RangeId
        BY <1>0, <2>1, OnType
    <2> QED
        BY <1>0, <2>1
<1>2. ASSUME NEW n \in S
      PROVE  /\ R[n] \in RangeRec /\ R[n].purged
             /\ R[n].pgstart = rng[n].pgstart /\ R[n].pgend = rng[n].pgend
    <2>1. rng[n] \in RangeRec /\ R[n] = [rng[n] EXCEPT !.purged = TRUE]
        BY <1>0, <1>1, <1>2 DEF RangeOk
    <2> HIDE DEF R
    <2> QED
        BY <2>1 DEF RangeRec
<1>3. \A n \in RangeId : n \notin S => R[n] = rng[n]
    OBVIOUS
<1>4. DOMAIN R = RangeId /\ R = [n \in RangeId |-> R[n]]
    OBVIOUS
<1> HIDE DEF R
<1>5. R \in [RangeId -> {NULL} \cup RangeRec]
    BY <1>0, <1>2, <1>3, <1>4
<1>6. Used(R) = Used(rng)
    BY <1>1, <1>2, <1>3, AshmemAssumption DEF Used
<1>7. \A n \in Used(R) : /\ RangeOk(R[n])
                         /\ R[n].pgstart = rng[n].pgstart /\ R[n].pgend = rng[n].pgend
    <2>1. ASSUME NEW n \in Used(rng)
          PROVE  /\ RangeOk(R[n])
                 /\ R[n].pgstart = rng[n].pgstart /\ R[n].pgend = rng[n].pgend
        <3>1. CASE n \in S
            BY <1>0, <1>2, <3>1 DEF RangeOk
        <3>2. CASE n \notin S
            <4>1. n \in RangeId
                BY DEF Used
            <4> QED
                BY <1>0, <1>3, <3>2, <4>1
        <3> QED
            BY <3>1, <3>2
    <2> QED
        BY <1>6, <2>1
<1>8. ASSUME NEW a \in Area PROVE Sorted(R, ul[a])
    <2>1. ul[a] \in Seq(RangeId) /\ Sorted(rng, ul[a])
        BY DEF ListsInv
    <2>2. ASSUME NEW y, NEW z, Ahead(ul[a], y, z) PROVE R[y].pgstart > R[z].pgend
        <3>1. OnList(ul[a], y) /\ OnList(ul[a], z)
            BY <2>2 DEF Ahead, OnList
        <3>2. y \in Used(R) /\ z \in Used(R)
            BY <1>6, <2>1, <3>1, OnType DEF ListsInv
        <3> QED
            BY <1>7, <2>1, <2>2, <3>2 DEF Sorted
    <2> QED
        BY <2>2 DEF Sorted
<1>9. \A n \in RangeId : OnList(l, n) <=> n \in Used(R) /\ ~R[n].purged
    BY <1>0, <1>2, <1>3, <1>6
<1>10. cnt - Cardinality(Pairs(rng, S)) = Cardinality(Pairs(R, Used(R)))
    <2>1. /\ Cardinality(Pairs(rng, S)) \in Nat
          /\ Cardinality(Pairs(rng, Used(rng) \ S)) \in Nat
          /\ cnt = Cardinality(Pairs(rng, S)) + Cardinality(Pairs(rng, Used(rng) \ S))
        BY <1>0, <1>1, UsedSplit
    <2>2. Pairs(R, Used(R)) = Pairs(rng, Used(rng) \ S)
        <3>1. \A n \in Used(rng) : n \in RangeId
            BY DEF Used
        <3> QED
            BY <1>2, <1>3, <1>6, <3>1 DEF Pairs
    <2> QED
        BY <2>1, <2>2
<1>11. /\ ul \in [Area -> Seq(RangeId)]
       /\ \A a \in Area : NoDup(ul[a])
       /\ \A a, b \in Area : \A n : OnList(ul[a], n) /\ OnList(ul[b], n) => a = b
       /\ \A n \in RangeId : n \in Used(R) <=> \E a \in Area : OnList(ul[a], n)
       /\ l \in Seq(RangeId) /\ NoDup(l)
    BY <1>6 DEF ListsInv, SubList
<1>12. ListsInv(R, ul, l, cnt - Cardinality(Pairs(rng, S)))
    BY <1>5, <1>7, <1>8, <1>9, <1>10, <1>11 DEF ListsInv
<1> QED
    BY <1>12 DEF R

-----------------------------------------------------------------------------
(***************************************************************************)
(* The walks.  On a sorted list the walk that stops at the first range     *)
(* before the request misses nothing, and the ranges that it finds are     *)
(* those that share a page with the request or, without pages, lie in it.  *)
(***************************************************************************)
Request(s, e) == s \in 0 .. MaxSize /\ e \in Page /\ s <= e + 1

\* A request for one range that the walk reaches.
Meets(r, s, e) == r.pgend >= s /\ page_range_in_range(r, s, e)

LEMMA RangeInts ==
    ASSUME NEW r, RangeOk(r)
    PROVE  /\ r.pgstart \in Int /\ r.pgend \in Int /\ r.pgstart >= 0 /\ r.pgend >= 0
           /\ r.pgstart <= MaxSize /\ r.pgend < MaxSize /\ MaxSize \in Int
           /\ r.pgstart <= r.pgend + 1 /\ r.purged \in BOOLEAN
BY AshmemAssumption DEF RangeOk, RangeRec, Page

LEMMA RequestInts ==
    ASSUME NEW s, NEW e, Request(s, e)
    PROVE  /\ s \in Int /\ e \in Int /\ s >= 0 /\ e >= 0 /\ s <= e + 1
           /\ s <= MaxSize /\ e < MaxSize /\ MaxSize \in Int
BY AshmemAssumption DEF Request, Page

\* What a request and a range have in common.
LEMMA MeetsPages ==
    ASSUME NEW r, RangeOk(r), NEW s, NEW e, Request(s, e)
    PROVE  /\ \A p \in Pages(r) : p \in s .. e => Meets(r, s, e)
           /\ Meets(r, s, e) => r.pgend >= s /\ r.pgstart <= e + 1
           /\ ~Meets(r, s, e) => r.pgend < s \/ (r.pgend >= s /\ r.pgstart > e)
<1> DEFINE lo == r.pgstart
           hi == r.pgend
<1>1. /\ lo \in Int /\ hi \in Int /\ lo <= hi + 1
      /\ s \in Int /\ e \in Int /\ s <= e + 1
    BY RangeInts, RequestInts
<1>2. Meets(r, s, e) <=> /\ hi >= s
                         /\ \/ lo <= s /\ hi >= s
                            \/ lo <= e /\ hi >= e
                            \/ lo >= s /\ hi <= e
    BY DEF Meets, page_range_in_range, page_in_range, page_range_subsumes_range
<1>3. Pages(r) = lo .. hi
    BY DEF Pages
<1> HIDE DEF lo, hi
<1>4. \A p \in Pages(r) : p \in s .. e => Meets(r, s, e)
    BY <1>1, <1>2, <1>3
<1>5. Meets(r, s, e) => hi >= s /\ lo <= e + 1
    BY <1>1, <1>2
<1>6. ~Meets(r, s, e) => hi < s \/ (hi >= s /\ lo > e)
    BY <1>1, <1>2
<1> QED
    BY <1>4, <1>5, <1>6 DEF lo, hi

\* What a walk reaches is a first part of the list.
LEMMA ReachedPrefix ==
    ASSUME NEW rs, NEW s \in Seq(RangeId), NEW page
    PROVE  \E k \in 0 .. Len(s) : /\ Reached(rs, s, page) = 1 .. k
                                  /\ Cardinality(Reached(rs, s, page)) = k
<1> DEFINE Z == Reached(rs, s, page)
           T == {i \in 1 .. Len(s) + 1 : i \notin Z}
<1>1. Z \subseteq 1 .. Len(s) /\ Len(s) \in Nat
    BY DEF Reached
<1>2. \A i \in Z : \A j \in 1 .. i : j \in Z
    <2>1. ASSUME NEW i \in Z, NEW j \in 1 .. i PROVE j \in Z
        <3>1. i \in 1 .. Len(s) /\ j \in DOMAIN s
            BY <1>1, <2>1
        <3>2. \A k \in 1 .. j : k \in 1 .. i
            BY <3>1
        <3> QED
            BY <2>1, <3>1, <3>2 DEF Reached
    <2> QED
        BY <2>1
<1> HIDE DEF Z
<1>3. PICK m \in T : \A y \in T : m <= y
    <2>1. T \in SUBSET Nat /\ Len(s) + 1 \in T
        BY <1>1
    <2> HIDE DEF T
    <2> QED
        BY <2>1, Least
<1>4. Z = 1 .. m - 1
    <2>1. ASSUME NEW i \in Z PROVE i \in 1 .. m - 1
        <3>1. i \in 1 .. Len(s) /\ m \in 1 .. Len(s) + 1 /\ m \notin Z
            BY <1>1, <1>3
        <3>2. ~(m <= i)
            BY <1>2, <3>1
        <3> QED
            BY <3>1, <3>2
    <2>2. ASSUME NEW i \in 1 .. m - 1 PROVE i \in Z
        <3>1. i \in 1 .. Len(s) + 1 /\ ~(m <= i)
            BY <1>1, <1>3
        <3> QED
            BY <1>3, <3>1
    <2> QED
        BY <2>1, <2>2
<1>5. m - 1 \in 0 .. Len(s)
    BY <1>1, <1>3
<1>6. Cardinality(1 .. m - 1) = m - 1
    BY <1>5, FS_Interval
<1> QED
    BY <1>4, <1>5, <1>6 DEF Z

LEMMA ReachedIs ==
    ASSUME NEW rs, NEW s \in Seq(RangeId), Sorted(rs, s), NEW page \in Int,
           \A n : OnList(s, n) => RangeOk(rs[n])
    PROVE  Reached(rs, s, page) = {i \in DOMAIN s : rs[s[i]].pgend >= page}
<1>1. ASSUME NEW i \in DOMAIN s
      PROVE  /\ rs[s[i]].pgstart \in Int /\ rs[s[i]].pgend \in Int
             /\ rs[s[i]].pgstart <= rs[s[i]].pgend + 1
    BY <1>1, RangeInts DEF OnList
<1>2. ASSUME NEW i \in DOMAIN s, rs[s[i]].pgend >= page, NEW j \in 1 .. i
      PROVE  ~range_before_page(rs[s[j]], page)
    <2>1. j \in DOMAIN s /\ (j = i \/ j < i)
        BY <1>2
    <2>2. CASE j = i
        BY <1>1, <1>2, <2>2 DEF range_before_page
    <2>3. CASE j < i
        <3>1. rs[s[j]].pgstart > rs[s[i]].pgend
            BY <2>1, <2>3 DEF Sorted, Ahead
        <3>2. /\ rs[s[j]].pgstart \in Int /\ rs[s[j]].pgend \in Int
              /\ rs[s[j]].pgstart <= rs[s[j]].pgend + 1 /\ rs[s[i]].pgend \in Int
            BY <1>1, <2>1
        <3>3. rs[s[j]].pgend >= page
            BY <1>2, <3>1, <3>2
        <3> QED
            BY <3>2, <3>3 DEF range_before_page
    <2> QED
        BY <2>1, <2>2, <2>3
<1>3. ASSUME NEW i \in Reached(rs, s, page) PROVE i \in DOMAIN s /\ rs[s[i]].pgend >= page
    <2>1. i \in DOMAIN s /\ i \in 1 .. i
        BY DEF Reached
    <2>2. ~range_before_page(rs[s[i]], page)
        BY <2>1 DEF Reached
    <2> QED
        BY <1>1, <2>1, <2>2 DEF range_before_page
<1> QED
    BY <1>2, <1>3 DEF Reached

-----------------------------------------------------------------------------
(***************************************************************************)
(* ashmem_pin().                                                           *)
(***************************************************************************)
Lists == ListsInv(range, unpinned_list, ashmem_lru_list, lru_count)

LEMMA OnRange ==
    ASSUME Lists, NEW a \in Area, NEW n, OnList(unpinned_list[a], n)
    PROVE  n \in RangeId /\ n \in Used(range) /\ RangeOk(range[n]) /\ range[n] # NULL
<1>1. unpinned_list[a] \in Seq(RangeId)
    BY DEF Lists, ListsInv
<1>2. n \in RangeId
    BY <1>1, OnType
<1>3. n \in Used(range)
    BY <1>2 DEF Lists, ListsInv
<1> QED
    BY <1>2, <1>3 DEF Lists, ListsInv, Used

\* Two ranges of an area do not overlap.
LEMMA Apart ==
    ASSUME Lists, NEW a \in Area, NEW m, NEW n, m # n,
           OnList(unpinned_list[a], m), OnList(unpinned_list[a], n)
    PROVE  range[m].pgstart > range[n].pgend \/ range[n].pgstart > range[m].pgend
<1>1. unpinned_list[a] \in Seq(RangeId) /\ Sorted(range, unpinned_list[a])
    BY DEF Lists, ListsInv
<1>2. PICK i \in DOMAIN unpinned_list[a] : unpinned_list[a][i] = m
    BY DEF OnList
<1>3. PICK j \in DOMAIN unpinned_list[a] : unpinned_list[a][j] = n
    BY DEF OnList
<1>4. i < j \/ j < i
    BY <1>1, <1>2, <1>3
<1>5. Ahead(unpinned_list[a], m, n) \/ Ahead(unpinned_list[a], n, m)
    BY <1>2, <1>3, <1>4 DEF Ahead
<1> QED
    BY <1>1, <1>5 DEF Sorted

\* The walk of the pin finds every range that meets the request.
LEMMA PinHitIs ==
    ASSUME Lists, NEW a \in Area, NEW s, NEW e, Request(s, e)
    PROVE  \A n : n \in PinHit(a, s, e) <=> OnList(unpinned_list[a], n) /\ Meets(range[n], s, e)
<1> DEFINE seq == unpinned_list[a]
           Hit(i) == page_range_in_range(range[seq[i]], s, e)
           Hole(i) == Hit(i) /\ range[seq[i]].pgstart < s /\ range[seq[i]].pgend > e
<1>0. s \in Int /\ e \in Int /\ s <= e + 1
    BY RequestInts
<1>1. seq \in Seq(RangeId) /\ Sorted(range, seq) /\ Len(seq) \in Nat /\ DOMAIN seq = 1 .. Len(seq)
    BY DEF Lists, ListsInv
<1>2. \A n : OnList(seq, n) => RangeOk(range[n])
    BY OnRange
<1>3. PinHit(a, s, e) = {seq[i] : i \in {i \in Reached(range, seq, s) :
                                         Hit(i) /\ \A j \in 1 .. i - 1 : ~Hole(j)}}
    BY DEF PinHit
<1> HIDE DEF seq
<1>4. Reached(range, seq, s) = {i \in DOMAIN seq : range[seq[i]].pgend >= s}
    BY <1>0, <1>1, <1>2, ReachedIs
<1>5. ASSUME NEW i \in Reached(range, seq, s), NEW j \in 1 .. i - 1 PROVE ~Hole(j)
    <2>1. i \in DOMAIN seq /\ j \in DOMAIN seq /\ j < i /\ range[seq[i]].pgend >= s
        BY <1>1, <1>4
    <2>2. range[seq[j]].pgstart > range[seq[i]].pgend
        BY <1>1, <2>1 DEF Sorted, Ahead
    <2>3. range[seq[j]].pgstart \in Int /\ range[seq[i]].pgend \in Int
        BY <1>2, <2>1, RangeInts DEF OnList
    <2>4. ~(range[seq[j]].pgstart < s)
        BY <1>0, <2>1, <2>2, <2>3
    <2> QED
        BY <2>4
<1>6. ASSUME NEW n PROVE n \in PinHit(a, s, e) <=> OnList(seq, n) /\ Meets(range[n], s, e)
    BY <1>3, <1>4, <1>5 DEF OnList, Meets
<1> QED
    BY <1>6 DEF seq

\* Cases 2 to 4 on one range.
LEMMA PinShrinkIs ==
    ASSUME NEW r, RangeOk(r), NEW s, NEW e, Request(s, e), Meets(r, s, e),
           ~page_range_subsumes_range(r, s, e)
    PROVE  LET c == PinShrink(r, s, e)
           IN  /\ RangeOk(c) /\ c.purged = r.purged
               /\ c.pgstart >= r.pgstart /\ c.pgend <= r.pgend
               /\ ~(r.pgstart < s /\ r.pgend > e) => Pages(c) = Pages(r) \ (s .. e)
               /\ r.pgstart < s => c.pgstart = r.pgstart /\ c.pgend = s - 1
<1> DEFINE lo == r.pgstart
           hi == r.pgend
           c == PinShrink(r, s, e)
<1>1. /\ lo \in Int /\ hi \in Int /\ lo >= 0 /\ hi >= 0
      /\ lo <= MaxSize /\ hi < MaxSize /\ MaxSize \in Int
      /\ lo <= hi + 1
    BY RangeInts
<1>2. /\ s \in Int /\ e \in Int /\ s >= 0 /\ e >= 0 /\ s <= e + 1 /\ s <= MaxSize /\ e < MaxSize
    BY RequestInts
<1>3. hi >= s /\ lo <= e + 1 /\ (lo >= s => hi > e)
    BY <1>1, <1>2, MeetsPages DEF page_range_subsumes_range
<1>4. r \in RangeRec
    BY DEF RangeOk
<1>5. CASE lo >= s
    <2>1. c = [r EXCEPT !.pgstart = e + 1]
        BY <1>5 DEF PinShrink
    <2>2. e + 1 \in 0 .. MaxSize
        BY <1>1, <1>2
    <2>3. c \in RangeRec /\ c.pgstart = e + 1 /\ c.pgend = r.pgend /\ c.purged = r.purged
        BY <1>4, <2>1, <2>2 DEF RangeRec
    <2> HIDE DEF c
    <2>4. c.pgend = hi /\ c.pgstart >= lo /\ c.pgend <= hi /\ c.pgstart <= c.pgend + 1
        BY <1>1, <1>2, <1>3, <1>5, <2>3
    <2>5. (e + 1) .. hi = (lo .. hi) \ (s .. e)
        <3> HIDE DEF lo, hi
        <3> QED
            BY <1>1, <1>2, <1>3, <1>5
    <2>6. ~(lo < s)
        BY <1>1, <1>2, <1>5
    <2>7. Pages(c) = Pages(r) \ (s .. e)
        BY <2>3, <2>5 DEF Pages
    <2>8. RangeOk(c)
        BY <2>3, <2>4 DEF RangeOk
    <2> QED
        BY <2>3, <2>4, <2>6, <2>7, <2>8 DEF c
<1>6. CASE lo < s
    <2>1. c = [r EXCEPT !.pgend = s - 1]
        BY <1>1, <1>2, <1>6 DEF PinShrink
    <2>2. s - 1 \in Page
        BY <1>1, <1>2, <1>6 DEF Page
    <2>3. c \in RangeRec /\ c.pgstart = r.pgstart /\ c.pgend = s - 1 /\ c.purged = r.purged
        BY <1>4, <2>1, <2>2 DEF RangeRec
    <2> HIDE DEF c
    <2>4. c.pgstart = lo /\ c.pgstart >= lo /\ c.pgend <= hi /\ c.pgstart <= c.pgend + 1
        BY <1>1, <1>2, <1>3, <1>6, <2>3
    <2>5. ~(hi > e) => lo .. s - 1 = (lo .. hi) \ (s .. e)
        <3> HIDE DEF lo, hi
        <3> QED
            BY <1>1, <1>2, <1>3, <1>6
    <2>6. ~(lo < s /\ hi > e) => Pages(c) = Pages(r) \ (s .. e)
        BY <1>6, <2>3, <2>5 DEF Pages
    <2>7. RangeOk(c)
        BY <2>3, <2>4 DEF RangeOk
    <2> QED
        BY <2>3, <2>4, <2>6, <2>7 DEF c
<1> QED
    BY <1>1, <1>2, <1>5, <1>6

\* The pin without what range_alloc() adds.
PinGone(a, s, e) == {n \in PinHit(a, s, e) : page_range_subsumes_range(range[n], s, e)}

PinLeft(a, s, e) ==
    [n \in PinHit(a, s, e) \ PinGone(a, s, e) |-> PinShrink(range[n], s, e)]

PinRange(a, s, e) ==
    [n \in RangeId |-> IF n \in PinGone(a, s, e) THEN NULL
                       ELSE IF n \in PinHit(a, s, e) THEN PinShrink(range[n], s, e)
                       ELSE range[n]]

PinList(a, s, e) ==
    [unpinned_list EXCEPT ![a] = list_del_all(unpinned_list[a], PinGone(a, s, e))]

PinLru(a, s, e) == list_del_all(ashmem_lru_list, PinGone(a, s, e))

PinCount(a, s, e) ==
    lru_count - LruPages(range, PinHit(a, s, e))
              + LruPages(PinLeft(a, s, e), PinHit(a, s, e) \ PinGone(a, s, e))

LEMMA PinCutLists ==
    ASSUME Lists, NEW a \in Area, NEW s, NEW e, Request(s, e)
    PROVE  /\ ListsInv(PinRange(a, s, e), PinList(a, s, e), PinLru(a, s, e), PinCount(a, s, e))
           /\ PinCount(a, s, e) \in Int
           /\ \A n : OnList(PinList(a, s, e)[a], n)
                       <=> OnList(unpinned_list[a], n) /\ n \notin PinGone(a, s, e)
           /\ \A x, y : Ahead(PinList(a, s, e)[a], x, y) => Ahead(unpinned_list[a], x, y)
<1> DEFINE hit == PinHit(a, s, e)
           gone == PinGone(a, s, e)
           left == PinLeft(a, s, e)
           q == list_del_all(unpinned_list[a], gone)
           l == list_del_all(ashmem_lru_list, gone)
           R1 == [n \in RangeId |-> IF n \in gone THEN NULL ELSE range[n]]
           R2 == PinRange(a, s, e)
           U == [unpinned_list EXCEPT ![a] = q]
           C == hit \ gone
<1>0. /\ range \in [RangeId -> {NULL} \cup RangeRec]
      /\ unpinned_list \in [Area -> Seq(RangeId)]
      /\ unpinned_list[a] \in Seq(RangeId) /\ NoDup(unpinned_list[a])
      /\ ashmem_lru_list \in Seq(RangeId) /\ NoDup(ashmem_lru_list)
      /\ lru_count = Cardinality(Pairs(range, Used(range)))
    BY DEF Lists, ListsInv
<1>1. /\ gone \subseteq hit
      /\ \A n \in hit : /\ OnList(unpinned_list[a], n) /\ Meets(range[n], s, e)
                        /\ n \in RangeId /\ n \in Used(range) /\ RangeOk(range[n])
                        /\ n \notin gone => ~page_range_subsumes_range(range[n], s, e)
    <2>1. gone \subseteq hit /\ \A n \in hit : n \notin gone => ~page_range_subsumes_range(range[n], s, e)
        BY DEF PinGone
    <2>2. ASSUME NEW n \in hit PROVE OnList(unpinned_list[a], n) /\ Meets(range[n], s, e)
        BY <2>2, PinHitIs
    <2>3. ASSUME NEW n \in hit PROVE n \in RangeId /\ n \in Used(range) /\ RangeOk(range[n])
        BY <2>2, <2>3, OnRange
    <2> QED
        BY <2>1, <2>2, <2>3
<1>2. R2 = [n \in RangeId |-> IF n \in gone THEN NULL
                             ELSE IF n \in hit THEN PinShrink(range[n], s, e) ELSE range[n]]
    BY DEF PinRange
<1>3. \A n \in C : left[n] = PinShrink(range[n], s, e)
    BY DEF PinLeft
<1>4. PinList(a, s, e) = U /\ PinLru(a, s, e) = l
    BY DEF PinList, PinLru
<1>5. PinCount(a, s, e) = lru_count - LruPages(range, hit) + LruPages(left, C)
    BY DEF PinCount
<1> HIDE DEF hit, gone, left, R2
<1>6. SubList(q, unpinned_list[a], gone) /\ SubList(l, ashmem_lru_list, gone)
    BY <1>0, DelAllSubList
<1> HIDE DEF q, l
<1>7. ListsInv(R1, U, l, lru_count - Cardinality(Pairs(range, gone)))
    <2>1. ListsInv(range, unpinned_list, ashmem_lru_list, lru_count)
        BY DEF Lists
    <2>2. \A n \in gone : OnList(unpinned_list[a], n)
        BY <1>1
    <2> QED
        BY <1>6, <2>1, <2>2, DelLists
<1>8. ASSUME NEW n \in C
      PROVE  /\ R2[n] = PinShrink(range[n], s, e) /\ R1[n] = range[n]
             /\ RangeOk(R2[n]) /\ R2[n].purged = range[n].purged
             /\ R2[n].pgstart >= range[n].pgstart /\ R2[n].pgend <= range[n].pgend
    <2>1. /\ R2[n] = PinShrink(range[n], s, e) /\ R1[n] = range[n]
        BY <1>1, <1>2, <1>8
    <2>2. /\ RangeOk(range[n]) /\ Meets(range[n], s, e)
          /\ ~page_range_subsumes_range(range[n], s, e)
        BY <1>1, <1>8
    <2> QED
        BY <2>1, <2>2, PinShrinkIs
<1>9. Cut(R1, R2, C)
    <2>1. C \subseteq Used(R1)
        BY <1>1 DEF Used
    <2>2. \A n \in RangeId : n \notin C => R2[n] = R1[n]
        BY <1>1, <1>2
    <2>3. ASSUME NEW n \in RangeId PROVE R2[n] \in {NULL} \cup RangeRec
        <3>1. CASE n \in C
            BY <1>8, <3>1 DEF RangeOk
        <3>2. CASE n \notin C
            BY <1>0, <2>2, <3>2
        <3> QED
            BY <3>1, <3>2
    <2>4. R2 \in [RangeId -> {NULL} \cup RangeRec]
        BY <1>2, <2>3
    <2> HIDE DEF R1, C
    <2> QED
        BY <1>8, <2>1, <2>2, <2>4 DEF Cut
<1>10. ListsInv(R2, U, l, lru_count - Cardinality(Pairs(range, gone))
                            - Cardinality(Pairs(R1, C)) + Cardinality(Pairs(R2, C)))
    <2> HIDE DEF R1, C, U
    <2> QED
        BY <1>7, <1>9, CutLists
<1>11. PinCount(a, s, e) = lru_count - Cardinality(Pairs(range, gone))
                            - Cardinality(Pairs(R1, C)) + Cardinality(Pairs(R2, C))
       /\ PinCount(a, s, e) \in Int
    <2>1. Pairs(R1, C) = Pairs(range, C)
        BY <1>8 DEF Pairs
    <2>2. Pairs(left, C) = Pairs(R2, C)
        BY <1>3, <1>8 DEF Pairs
    <2>3. IsFiniteSet(hit) /\ IsFiniteSet(gone) /\ IsFiniteSet(C)
        BY <1>1, UsedFinite
    <2>4. LruPages(range, hit) = Cardinality(Pairs(range, hit))
        BY <1>1, <2>3, LruPagesCount
    <2>5. LruPages(left, C) = Cardinality(Pairs(left, C))
        <3>1. \A n \in C : RangeOk(left[n])
            BY <1>3, <1>8
        <3> HIDE DEF C
        <3> QED
            BY <2>3, <3>1, LruPagesCount
    <2>6. hit = gone \cup C /\ gone \cap C = {}
        BY <1>1
    <2> HIDE DEF C
    <2>7. Cardinality(Pairs(range, gone \cup C)) = Cardinality(Pairs(range, gone)) + Cardinality(Pairs(range, C))
        BY <2>3, <2>6, PairsUnion
    <2>8. /\ Cardinality(Pairs(range, gone)) \in Nat /\ Cardinality(Pairs(range, C)) \in Nat
          /\ Cardinality(Pairs(R2, C)) \in Nat /\ lru_count \in Nat
        <3>1. Cardinality(Pairs(range, gone)) \in Nat /\ Cardinality(Pairs(range, C)) \in Nat
            BY <2>3, PairsFinite
        <3>2. Cardinality(Pairs(R2, C)) \in Nat
            BY <2>3, PairsFinite
        <3>3. lru_count \in Nat
            BY <1>0, UsedFinite
        <3> QED
            BY <3>1, <3>2, <3>3
    <2> DEFINE g == Cardinality(Pairs(range, gone))
               c == Cardinality(Pairs(range, C))
               d == Cardinality(Pairs(R2, C))
    <2>9. PinCount(a, s, e) = lru_count - (g + c) + d /\ Cardinality(Pairs(R1, C)) = c
        BY <1>5, <2>1, <2>2, <2>4, <2>5, <2>6, <2>7
    <2>10. g \in Nat /\ c \in Nat /\ d \in Nat /\ lru_count \in Nat
        BY <2>8
    <2> HIDE DEF g, c, d
    <2>11. lru_count - (g + c) + d = lru_count - g - c + d /\ lru_count - g - c + d \in Int
        BY <2>10
    <2> QED
        BY <2>9, <2>11 DEF g, c, d
<1>12. U[a] = q
    BY <1>0
<1>13. ListsInv(R2, U, l, PinCount(a, s, e))
    BY <1>10, <1>11
<1> QED
    BY <1>4, <1>6, <1>11, <1>12, <1>13 DEF SubList, R2, gone

\* A pin that adds no range.
LEMMA PinPlain ==
    ASSUME Lists, NEW a \in Area, NEW s, NEW e, Request(s, e),
           PinLists(a, s, e, NULL, NULL)
    PROVE  /\ Lists'
           /\ range' = PinRange(a, s, e)
           /\ unpinned_list' = PinList(a, s, e)
           /\ told' = \E n \in PinHit(a, s, e) : range[n].purged
<1>1. NULL \notin RangeId
    BY AshmemAssumption
<1>2. range' = PinRange(a, s, e)
    BY <1>1 DEF PinLists, PinRange, PinGone
<1>3. unpinned_list' = PinList(a, s, e)
    BY DEF PinLists, PinList, PinGone
<1>4. ashmem_lru_list' = PinLru(a, s, e)
    BY DEF PinLists, PinLru, PinGone
<1>5. PinCount(a, s, e) \in Int
    BY PinCutLists
<1>6. lru_count' = PinCount(a, s, e) + 0
    BY DEF PinLists, PinCount, PinGone, PinLeft
<1>7. lru_count' = PinCount(a, s, e)
    BY <1>5, <1>6
<1>8. told' = \E n \in PinHit(a, s, e) : range[n].purged
    BY DEF PinLists
<1>9. ListsInv(PinRange(a, s, e), PinList(a, s, e), PinLru(a, s, e), PinCount(a, s, e))
    BY PinCutLists
<1> QED
    BY <1>2, <1>3, <1>4, <1>7, <1>8, <1>9 DEF Lists

\* A range that the pin punches a hole into is the only one that it meets.
LEMMA HoleAlone ==
    ASSUME Lists, NEW a \in Area, NEW s, NEW e, Request(s, e),
           NEW cut \in PinHit(a, s, e), range[cut].pgstart < s, range[cut].pgend > e
    PROVE  PinHit(a, s, e) = {cut} /\ PinGone(a, s, e) = {}
<1>1. OnList(unpinned_list[a], cut) /\ RangeOk(range[cut])
    BY PinHitIs, OnRange
<1>2. s \in Int /\ e \in Int /\ s <= e + 1
    BY RequestInts
<1>3. range[cut].pgstart \in Int /\ range[cut].pgend \in Int
    BY <1>1, RangeInts
<1>4. ASSUME NEW n \in PinHit(a, s, e) PROVE n = cut
    <2>1. OnList(unpinned_list[a], n) /\ RangeOk(range[n]) /\ Meets(range[n], s, e)
        BY PinHitIs, OnRange
    <2>2. range[n].pgend >= s /\ range[n].pgstart <= e + 1
        BY <2>1, MeetsPages
    <2>3. range[n].pgend \in Int /\ range[n].pgstart \in Int
        BY <2>1, RangeInts
    <2>4. SUFFICES ASSUME n # cut PROVE FALSE
        OBVIOUS
    <2>5. range[n].pgstart > range[cut].pgend \/ range[cut].pgstart > range[n].pgend
        BY <1>1, <2>1, <2>4, Apart
    <2> QED
        BY <1>2, <1>3, <2>2, <2>3, <2>5
<1>5. ~page_range_subsumes_range(range[cut], s, e)
    BY <1>2, <1>3 DEF page_range_subsumes_range
<1> QED
    BY <1>4, <1>5 DEF PinGone

\* The upper part of a range that the pin punches a hole into.
Upper(cut, e) == [range[cut] EXCEPT !.pgstart = e + 1]

LEMMA UpperIs ==
    ASSUME NEW cut, RangeOk(range[cut]), NEW s, NEW e, Request(s, e), range[cut].pgend > e
    PROVE  /\ RangeOk(Upper(cut, e)) /\ Upper(cut, e).pgstart = e + 1
           /\ Upper(cut, e).pgend = range[cut].pgend
           /\ Upper(cut, e).purged = range[cut].purged
<1>1. /\ e \in Int /\ e >= 0 /\ e < MaxSize /\ MaxSize \in Int
      /\ range[cut].pgend \in Int /\ range[cut] \in RangeRec
    BY RequestInts, RangeInts DEF RangeOk
<1>2. e + 1 \in 0 .. MaxSize
    BY <1>1
<1>3. Upper(cut, e) \in RangeRec /\ Upper(cut, e).pgstart = e + 1
      /\ Upper(cut, e).pgend = range[cut].pgend /\ Upper(cut, e).purged = range[cut].purged
    BY <1>1, <1>2 DEF Upper, RangeRec
<1> QED
    BY <1>1, <1>3 DEF RangeOk

\* A pin that punches a hole, with memory for the range above it.
HoleStep(a, s, e, cut, new) ==
    /\ Lists'
    /\ range' = [PinRange(a, s, e) EXCEPT ![new] = Upper(cut, e)]
    /\ \A n : OnList(unpinned_list'[a], n) <=> OnList(unpinned_list[a], n) \/ n = new
    /\ \A b \in Area : b # a => unpinned_list'[b] = unpinned_list[b]
    /\ told' = \E n \in PinHit(a, s, e) : range[n].purged

LEMMA PinHole ==
    ASSUME Lists, NEW a \in Area, NEW s, NEW e, Request(s, e),
           NEW cut \in PinHit(a, s, e), range[cut].pgstart < s, range[cut].pgend > e,
           NEW new \in Free, PinLists(a, s, e, new, cut)
    PROVE  HoleStep(a, s, e, cut, new)
<1> DEFINE R == PinRange(a, s, e)
           U == PinList(a, s, e)
           q == U[a]
           l == PinLru(a, s, e)
           c == PinCount(a, s, e)
           r == Upper(cut, e)
           pos == CHOOSE i \in DOMAIN q : q[i] = cut
<1>0. /\ new \in RangeId /\ range[new] = NULL /\ new # NULL
      /\ unpinned_list \in [Area -> Seq(RangeId)]
    BY AshmemAssumption DEF Free, Lists, ListsInv
<1>1. PinHit(a, s, e) = {cut} /\ PinGone(a, s, e) = {}
    BY HoleAlone
<1>2. /\ OnList(unpinned_list[a], cut) /\ RangeOk(range[cut]) /\ cut \in RangeId /\ cut # new
      /\ Meets(range[cut], s, e)
    BY <1>0, PinHitIs, OnRange
<1>3. /\ ListsInv(R, U, l, c) /\ c \in Int
      /\ \A n : OnList(q, n) <=> OnList(unpinned_list[a], n)
      /\ \A x, y : Ahead(q, x, y) => Ahead(unpinned_list[a], x, y)
    BY <1>1, PinCutLists
<1>4. RangeOk(r) /\ r.pgstart = e + 1 /\ r.pgend = range[cut].pgend /\ r.purged = range[cut].purged
    BY <1>2, UpperIs
<1>5. R = [n \in RangeId |-> IF n = cut THEN PinShrink(range[n], s, e) ELSE range[n]]
    BY <1>1 DEF PinRange
<1>6. R[new] = NULL /\ R[cut] = PinShrink(range[cut], s, e)
    BY <1>0, <1>2, <1>5
<1>7. R[cut].pgend = s - 1
    <2>1. ~page_range_subsumes_range(range[cut], s, e)
        BY <1>1 DEF PinGone
    <2> QED
        BY <1>2, <1>6, <2>1, PinShrinkIs
<1>8. U = [unpinned_list EXCEPT ![a] = list_del_all(unpinned_list[a], PinGone(a, s, e))]
      /\ q = list_del_all(unpinned_list[a], PinGone(a, s, e))
    BY <1>0 DEF PinList
<1>9. \A b \in Area : b # a => U[b] = unpinned_list[b]
    BY <1>0, <1>8
<1>10. /\ range' = [R EXCEPT ![new] = r]
       /\ unpinned_list' = [U EXCEPT ![a] = InsertAt(q, pos, new)]
       /\ ashmem_lru_list' = IF r.purged THEN l ELSE Append(l, new)
       /\ lru_count' = c + Weight(r)
       /\ told' = \E n \in PinHit(a, s, e) : range[n].purged
    <2>1. range' = [R EXCEPT ![new] = r]
        <3>1. range' = [n \in RangeId |-> CASE n \in PinGone(a, s, e) -> NULL
                               [] n \in PinHit(a, s, e) \ PinGone(a, s, e) -> PinLeft(a, s, e)[n]
                               [] n = new -> r
                               [] OTHER -> range[n]]
            BY DEF PinLists, PinGone, PinLeft, Upper
        <3>2. PinLeft(a, s, e)[cut] = PinShrink(range[cut], s, e)
            BY <1>1 DEF PinLeft
        <3> HIDE DEF r
        <3>3. range' = [n \in RangeId |-> IF n = new THEN r ELSE R[n]]
            BY <1>1, <1>2, <1>5, <3>1, <3>2
        <3>4. R = [n \in RangeId |-> R[n]]
            BY <1>5
        <3> HIDE DEF R
        <3> QED
            BY <3>3, <3>4
    <2>2. unpinned_list' = [U EXCEPT ![a] = InsertAt(q, pos, new)]
        <3>1. unpinned_list' = [unpinned_list EXCEPT ![a] =
                 InsertAt(list_del_all(unpinned_list[a], PinGone(a, s, e)),
                          CHOOSE i \in DOMAIN list_del_all(unpinned_list[a], PinGone(a, s, e)) :
                            list_del_all(unpinned_list[a], PinGone(a, s, e))[i] = cut, new)]
            BY <1>0 DEF PinLists, PinGone
        <3>2. unpinned_list' = [unpinned_list EXCEPT ![a] = InsertAt(q, pos, new)]
            BY <1>8, <3>1
        <3> DEFINE v == InsertAt(q, pos, new)
                   w == list_del_all(unpinned_list[a], PinGone(a, s, e))
        <3>3. unpinned_list' = [unpinned_list EXCEPT ![a] = v]
            BY <3>2
        <3>4. U = [unpinned_list EXCEPT ![a] = w]
            BY <1>8
        <3> HIDE DEF v, w, U
        <3>5. unpinned_list' = [U EXCEPT ![a] = v]
            BY <1>0, <3>3, <3>4
        <3> QED
            BY <3>5 DEF v
    <2>3. ashmem_lru_list' = IF r.purged THEN l ELSE Append(l, new)
        BY <1>0, <1>4 DEF PinLists, PinLru, PinGone
    <2>4. lru_count' = c + IF range[cut].purged THEN 0 ELSE range_size(r)
        BY <1>0 DEF PinLists, PinCount, PinGone, PinLeft, Upper
    <2>5. told' = \E n \in PinHit(a, s, e) : range[n].purged
        BY DEF PinLists
    <2> QED
        BY <1>4, <2>1, <2>2, <2>3, <2>4, <2>5 DEF Weight
<1> HIDE DEF R, U, l, c, r
<1>11. q \in Seq(RangeId) /\ NoDup(q) /\ Sorted(range, unpinned_list[a])
    BY <1>3 DEF ListsInv, Lists
<1>12. pos \in 1 .. Len(q) /\ q[pos] = cut
    <2>1. \E i \in DOMAIN q : q[i] = cut
        BY <1>2, <1>3 DEF OnList
    <2>2. pos \in DOMAIN q /\ q[pos] = cut
        BY <2>1
    <2> QED
        BY <1>11, <2>2
<1> HIDE DEF pos
<1>13. Fits(R, q, pos, r)
    <2>1. pos \in 1 .. Len(q) + 1 /\ Len(q) \in Nat
        BY <1>11, <1>12
    <2>2. ASSUME NEW i \in 1 .. Len(q)
          PROVE  /\ i < pos => R[q[i]].pgstart > r.pgend
                 /\ i >= pos => R[q[i]].pgend < r.pgstart
        <3>1. OnList(q, q[i]) /\ OnList(unpinned_list[a], q[i]) /\ q[i] \in RangeId
            <4>1. i \in DOMAIN q /\ q[i] \in RangeId
                BY <1>11, <2>2
            <4>2. OnList(q, q[i])
                BY <4>1 DEF OnList
            <4> QED
                BY <1>3, <4>1, <4>2
        <3>2. RangeOk(range[q[i]])
            BY <3>1, OnRange
        <3>3. /\ range[q[i]].pgstart \in Int /\ range[q[i]].pgend \in Int
              /\ range[cut].pgstart \in Int /\ range[cut].pgend \in Int
              /\ s \in Int /\ e \in Int /\ s <= e + 1
            BY <1>2, <3>2, RangeInts, RequestInts
        <3>4. q[i] # cut => R[q[i]] = range[q[i]]
            BY <1>5, <3>1
        <3>5. i # pos => q[i] # cut
            BY <1>11, <1>12, <2>2 DEF NoDup
        <3>6. CASE i < pos
            <4>1. Ahead(q, q[i], cut)
                BY <1>11, <1>12, <2>2, <3>6 DEF Ahead
            <4>2. range[q[i]].pgstart > range[cut].pgend
                BY <1>3, <1>11, <4>1 DEF Sorted
            <4> QED
                BY <1>4, <1>12, <3>4, <3>5, <3>6, <4>2
        <3>7. CASE i = pos
            BY <1>4, <1>7, <1>12, <3>3, <3>7
        <3>8. CASE i > pos
            <4>1. Ahead(q, cut, q[i])
                BY <1>11, <1>12, <2>2, <3>8 DEF Ahead
            <4>2. range[cut].pgstart > range[q[i]].pgend
                BY <1>3, <1>11, <4>1 DEF Sorted
            <4>3. range[q[i]].pgend < e + 1
                BY <3>3, <4>2
            <4> QED
                BY <1>4, <1>12, <3>4, <3>5, <3>8, <4>3
        <3> QED
            BY <2>1, <3>6, <3>7, <3>8
    <2> QED
        BY <2>1, <2>2 DEF Fits
<1>14. ListsInv([R EXCEPT ![new] = r], [U EXCEPT ![a] = InsertAt(U[a], pos, new)],
                IF r.purged THEN l ELSE Append(l, new), c + Weight(r))
    BY <1>0, <1>3, <1>4, <1>6, <1>13, InsLists
<1>15. Lists'
    BY <1>10, <1>14 DEF Lists, pos
<1>16. pos \in 1 .. Len(q) + 1
    BY <1>13 DEF Fits
<1>17. \A n : OnList(InsertAt(q, pos, new), n) <=> OnList(q, n) \/ n = new
    BY <1>0, <1>11, <1>16, InsertList
<1>18. U \in [Area -> Seq(RangeId)]
    BY <1>3 DEF ListsInv
<1>19. unpinned_list'[a] = InsertAt(q, pos, new) /\ \A b \in Area : b # a => unpinned_list'[b] = U[b]
    BY <1>10, <1>18 DEF pos
<1> QED
    BY <1>3, <1>9, <1>10, <1>15, <1>17, <1>19 DEF R, r, HoleStep

-----------------------------------------------------------------------------
(***************************************************************************)
(* The pages of the lists, which is what AshmemPages is about.             *)
(***************************************************************************)
Has(rng, s, p) == \E n : OnList(s, n) /\ p \in Pages(rng[n])

HasPurged(rng, s, p) == \E n : OnList(s, n) /\ p \in Pages(rng[n]) /\ rng[n].purged

PagesOf(rng, ul) == [a \in Area |-> UNION {Pages(rng[n]) : n \in ToSet(ul[a])}]

LEMMA PagesOn ==
    ASSUME NEW rng, NEW ul, NEW a \in Area
    PROVE  \A p : p \in PagesOf(rng, ul)[a] <=> Has(rng, ul[a], p)
<1>1. PagesOf(rng, ul)[a] = UNION {Pages(rng[n]) : n \in ToSet(ul[a])}
    BY DEF PagesOf
<1>2. \A n : n \in ToSet(ul[a]) <=> OnList(ul[a], n)
    BY DEF ToSet, OnList
<1> QED
    BY <1>1, <1>2 DEF Has

\* A lost page is a page of a purged range of its area.
LostIn(rng, ul, ls) ==
    /\ ls \in [Area -> SUBSET Page]
    /\ \A a \in Area : \A p \in ls[a] : HasPurged(rng, ul[a], p)

LEMMA LostPages ==
    ASSUME NEW rng, NEW ul, NEW ls, LostIn(rng, ul, ls), NEW a \in Area
    PROVE  ls[a] \subseteq PagesOf(rng, ul)[a]
BY PagesOn DEF LostIn, HasPurged, Has

\* A step on the ranges and the list of area a, and on new ranges.
Local(a, R, U) ==
    /\ \A n \in RangeId : ~OnList(unpinned_list[a], n) /\ range[n] # NULL => R[n] = range[n]
    /\ \A b \in Area : b # a => U[b] = unpinned_list[b]

LEMMA LocalPages ==
    ASSUME Lists, NEW a \in Area, NEW R, NEW U, Local(a, R, U), NEW b \in Area, b # a
    PROVE  /\ \A p : Has(R, U[b], p) <=> Has(range, unpinned_list[b], p)
           /\ \A p : HasPurged(R, U[b], p) <=> HasPurged(range, unpinned_list[b], p)
           /\ PagesOf(R, U)[b] = PagesOf(range, unpinned_list)[b]
<1>1. U[b] = unpinned_list[b]
    BY DEF Local
<1>2. ASSUME NEW n, OnList(unpinned_list[b], n) PROVE R[n] = range[n]
    <2>1. n \in RangeId /\ range[n] # NULL
        BY <1>2, OnRange
    <2>2. ~OnList(unpinned_list[a], n)
        BY <1>2 DEF Lists, ListsInv
    <2> QED
        BY <2>1, <2>2 DEF Local
<1>3. \A p : Has(R, U[b], p) <=> Has(range, unpinned_list[b], p)
    BY <1>1, <1>2 DEF Has
<1>4. \A p : HasPurged(R, U[b], p) <=> HasPurged(range, unpinned_list[b], p)
    BY <1>1, <1>2 DEF HasPurged
<1>5. \A p : p \in PagesOf(R, U)[b] <=> p \in PagesOf(range, unpinned_list)[b]
    BY <1>3, PagesOn
<1> QED
    BY <1>3, <1>4, <1>5

\* Such a step, when it forgets the loss of the pages K of the area.
LEMMA LocalLost ==
    ASSUME Lists, LostIn(range, unpinned_list, lost),
           NEW a \in Area, NEW R, NEW U, Local(a, R, U), NEW K,
           \A p : HasPurged(range, unpinned_list[a], p) /\ p \notin K => HasPurged(R, U[a], p)
    PROVE  LostIn(R, U, [lost EXCEPT ![a] = @ \ K])
<1> DEFINE L == [lost EXCEPT ![a] = @ \ K]
<1>1. lost \in [Area -> SUBSET Page]
    BY DEF LostIn
<1>2. L \in [Area -> SUBSET Page] /\ L[a] = lost[a] \ K
      /\ \A b \in Area : b # a => L[b] = lost[b]
    BY <1>1
<1> HIDE DEF L
<1>3. ASSUME NEW b \in Area, NEW p \in L[b] PROVE HasPurged(R, U[b], p)
    <2>1. CASE b = a
        BY <1>2, <1>3, <2>1 DEF LostIn
    <2>2. CASE b # a
        <3>1. HasPurged(range, unpinned_list[b], p)
            BY <1>2, <1>3, <2>2 DEF LostIn
        <3> QED
            BY <2>2, <3>1, LocalPages
    <2> QED
        BY <2>1, <2>2
<1>4. LostIn(R, U, L)
    BY <1>2, <1>3 DEF LostIn
<1> QED
    BY <1>4 DEF L

\* The pages that it takes from the area, or adds to it.
LEMMA LocalMinus ==
    ASSUME Lists, NEW a \in Area, NEW R, NEW U, Local(a, R, U), NEW K,
           \A p : Has(R, U[a], p) <=> Has(range, unpinned_list[a], p) /\ p \notin K
    PROVE  PagesOf(R, U) = [PagesOf(range, unpinned_list) EXCEPT ![a] = @ \ K]
<1> DEFINE F == PagesOf(range, unpinned_list)
           G == PagesOf(R, U)
<1>1. F = [b \in Area |-> F[b]] /\ G = [b \in Area |-> G[b]]
    BY DEF PagesOf
<1>2. \A b \in Area : b # a => G[b] = F[b]
    BY LocalPages
<1>3. \A p : p \in G[a] <=> p \in F[a] /\ p \notin K
    BY PagesOn
<1> HIDE DEF F, G
<1>4. G[a] = F[a] \ K
    BY <1>3
<1>5. G = [F EXCEPT ![a] = F[a] \ K]
    BY <1>1, <1>2, <1>4
<1> QED
    BY <1>5 DEF F, G

LEMMA LocalPlus ==
    ASSUME Lists, NEW a \in Area, NEW R, NEW U, Local(a, R, U), NEW K,
           \A p : Has(R, U[a], p) <=> Has(range, unpinned_list[a], p) \/ p \in K
    PROVE  PagesOf(R, U) = [PagesOf(range, unpinned_list) EXCEPT ![a] = @ \cup K]
<1> DEFINE F == PagesOf(range, unpinned_list)
           G == PagesOf(R, U)
<1>1. F = [b \in Area |-> F[b]] /\ G = [b \in Area |-> G[b]]
    BY DEF PagesOf
<1>2. \A b \in Area : b # a => G[b] = F[b]
    BY LocalPages
<1>3. \A p : p \in G[a] <=> p \in F[a] \/ p \in K
    BY PagesOn
<1> HIDE DEF F, G
<1>4. G[a] = F[a] \cup K
    BY <1>3
<1>5. G = [F EXCEPT ![a] = F[a] \cup K]
    BY <1>1, <1>2, <1>4
<1> QED
    BY <1>5 DEF F, G

\* What the pin leaves of one range.
LEMMA PinRangePages ==
    ASSUME Lists, NEW a \in Area, NEW s, NEW e, Request(s, e),
           NEW n, OnList(unpinned_list[a], n)
    PROVE  /\ n \in PinGone(a, s, e) => Pages(range[n]) \subseteq s .. e
           /\ n \in PinHit(a, s, e) /\ n \notin PinGone(a, s, e) =>
                /\ PinRange(a, s, e)[n].purged = range[n].purged
                /\ ~(range[n].pgstart < s /\ range[n].pgend > e) =>
                     Pages(PinRange(a, s, e)[n]) = Pages(range[n]) \ (s .. e)
                /\ range[n].pgstart < s =>
                     Pages(PinRange(a, s, e)[n]) = range[n].pgstart .. s - 1
           /\ n \notin PinHit(a, s, e) =>
                PinRange(a, s, e)[n] = range[n] /\ Pages(range[n]) \cap (s .. e) = {}
<1>1. n \in RangeId /\ RangeOk(range[n])
    BY OnRange
<1>2. n \in PinHit(a, s, e) <=> Meets(range[n], s, e)
    BY PinHitIs
<1>3. s \in Int /\ e \in Int /\ range[n].pgstart \in Int /\ range[n].pgend \in Int
    BY <1>1, RequestInts, RangeInts
<1>4. ASSUME n \in PinGone(a, s, e) PROVE Pages(range[n]) \subseteq s .. e
    <2>1. range[n].pgstart >= s /\ range[n].pgend <= e
        BY <1>4 DEF PinGone, page_range_subsumes_range
    <2> QED
        BY <1>3, <2>1 DEF Pages
<1>5. ASSUME n \in PinHit(a, s, e), n \notin PinGone(a, s, e)
      PROVE  /\ PinRange(a, s, e)[n].purged = range[n].purged
             /\ ~(range[n].pgstart < s /\ range[n].pgend > e) =>
                  Pages(PinRange(a, s, e)[n]) = Pages(range[n]) \ (s .. e)
             /\ range[n].pgstart < s =>
                  Pages(PinRange(a, s, e)[n]) = range[n].pgstart .. s - 1
    <2>1. PinRange(a, s, e)[n] = PinShrink(range[n], s, e)
        BY <1>1, <1>5 DEF PinRange
    <2>2. ~page_range_subsumes_range(range[n], s, e)
        BY <1>5 DEF PinGone
    <2>3. LET c == PinShrink(range[n], s, e)
          IN  /\ c.purged = range[n].purged
              /\ ~(range[n].pgstart < s /\ range[n].pgend > e) =>
                   Pages(c) = Pages(range[n]) \ (s .. e)
              /\ range[n].pgstart < s => c.pgstart = range[n].pgstart /\ c.pgend = s - 1
        BY <1>1, <1>2, <1>5, <2>2, PinShrinkIs
    <2> QED
        BY <2>1, <2>3 DEF Pages
<1>6. ASSUME n \notin PinHit(a, s, e)
      PROVE  PinRange(a, s, e)[n] = range[n] /\ Pages(range[n]) \cap (s .. e) = {}
    <2>1. n \notin PinGone(a, s, e)
        BY <1>6 DEF PinGone
    <2>2. PinRange(a, s, e)[n] = range[n]
        BY <1>1, <1>6, <2>1 DEF PinRange
    <2>3. \A p \in Pages(range[n]) : p \notin s .. e
        BY <1>1, <1>2, <1>6, MeetsPages
    <2> QED
        BY <2>2, <2>3
<1> QED
    BY <1>4, <1>5, <1>6

\* A pin that meets no range on both sides takes just its pages.
LEMMA PinPlainPages ==
    ASSUME Lists, NEW a \in Area, NEW s, NEW e, Request(s, e),
           \A n \in PinHit(a, s, e) : ~(range[n].pgstart < s /\ range[n].pgend > e)
    PROVE  LET R == PinRange(a, s, e)
               U == PinList(a, s, e)
           IN  /\ Local(a, R, U)
               /\ \A p : Has(R, U[a], p) <=> Has(range, unpinned_list[a], p) /\ p \notin s .. e
               /\ \A p : HasPurged(range, unpinned_list[a], p) /\ p \notin s .. e
                           => HasPurged(R, U[a], p)
<1> DEFINE R == PinRange(a, s, e)
           U == PinList(a, s, e)
           hit == PinHit(a, s, e)
           gone == PinGone(a, s, e)
<1>1. gone \subseteq hit /\ \A n \in hit : OnList(unpinned_list[a], n)
    BY PinHitIs DEF PinGone
<1>2. Local(a, R, U)
    <2>1. \A b \in Area : b # a => U[b] = unpinned_list[b]
        BY DEF PinList, Lists, ListsInv
    <2>2. \A n \in RangeId : ~OnList(unpinned_list[a], n) => R[n] = range[n]
        BY <1>1 DEF PinRange
    <2> HIDE DEF R, U
    <2> QED
        BY <2>1, <2>2 DEF Local
<1>3. \A n : OnList(U[a], n) <=> OnList(unpinned_list[a], n) /\ n \notin gone
    BY PinCutLists
<1>4. ASSUME NEW n, OnList(unpinned_list[a], n)
      PROVE  /\ n \in gone => Pages(range[n]) \subseteq s .. e
             /\ n \notin gone => /\ Pages(R[n]) = Pages(range[n]) \ (s .. e)
                                 /\ R[n].purged = range[n].purged
    <2> HIDE DEF R, hit, gone
    <2>1. /\ n \in gone => Pages(range[n]) \subseteq s .. e
          /\ n \in hit /\ n \notin gone => /\ R[n].purged = range[n].purged
                                           /\ Pages(R[n]) = Pages(range[n]) \ (s .. e)
          /\ n \notin hit => R[n] = range[n] /\ Pages(range[n]) \cap (s .. e) = {}
        BY <1>4, PinRangePages DEF R, hit, gone
    <2> QED
        BY <2>1
<1> HIDE DEF R, U, hit, gone
<1>5. \A p : Has(R, U[a], p) <=> Has(range, unpinned_list[a], p) /\ p \notin s .. e
    BY <1>3, <1>4 DEF Has
<1>6. \A p : HasPurged(range, unpinned_list[a], p) /\ p \notin s .. e => HasPurged(R, U[a], p)
    BY <1>3, <1>4 DEF HasPurged
<1> QED
    BY <1>2, <1>5, <1>6 DEF R, U

\* Without memory a hole takes everything from its start to the end of the
\* range that it is punched into.
LEMMA PinOomPages ==
    ASSUME Lists, NEW a \in Area, NEW s, NEW e, Request(s, e),
           NEW cut \in PinHit(a, s, e), range[cut].pgstart < s, range[cut].pgend > e
    PROVE  LET R == PinRange(a, s, e)
               U == PinList(a, s, e)
               K == s .. range[cut].pgend
           IN  /\ Local(a, R, U)
               /\ \A p : Has(R, U[a], p) <=> Has(range, unpinned_list[a], p) /\ p \notin K
               /\ \A p : HasPurged(range, unpinned_list[a], p) /\ p \notin K => HasPurged(R, U[a], p)
<1> DEFINE R == PinRange(a, s, e)
           U == PinList(a, s, e)
           K == s .. range[cut].pgend
<1>1. PinHit(a, s, e) = {cut} /\ PinGone(a, s, e) = {}
    BY HoleAlone
<1>2. OnList(unpinned_list[a], cut) /\ RangeOk(range[cut])
    BY PinHitIs, OnRange
<1>3. /\ range[cut].pgstart \in Int /\ range[cut].pgend \in Int /\ s \in Int /\ e \in Int
      /\ range[cut].pgstart <= range[cut].pgend + 1 /\ s <= e + 1
    BY <1>2, RangeInts, RequestInts
<1>4. Local(a, R, U)
    <2>1. \A b \in Area : b # a => U[b] = unpinned_list[b]
        BY DEF PinList, Lists, ListsInv
    <2>2. \A n \in RangeId : ~OnList(unpinned_list[a], n) => R[n] = range[n]
        BY <1>1, <1>2 DEF PinRange
    <2> HIDE DEF R, U
    <2> QED
        BY <2>1, <2>2 DEF Local
<1>5. \A n : OnList(U[a], n) <=> OnList(unpinned_list[a], n)
    BY <1>1, PinCutLists
<1>6. ASSUME NEW n, OnList(unpinned_list[a], n)
      PROVE  Pages(R[n]) = Pages(range[n]) \ K /\ R[n].purged = range[n].purged
    <2>1. CASE n = cut
        <3>1. R[cut].purged = range[cut].purged /\ Pages(R[cut]) = range[cut].pgstart .. s - 1
            BY <1>1, <1>2, PinRangePages
        <3>2. range[cut].pgstart .. s - 1 = (range[cut].pgstart .. range[cut].pgend) \ K
            <4> DEFINE lo == range[cut].pgstart
                       hi == range[cut].pgend
            <4>1. lo \in Int /\ hi \in Int /\ lo < s /\ hi > e
                BY <1>3
            <4> HIDE DEF lo, hi
            <4>2. lo .. s - 1 = (lo .. hi) \ (s .. hi)
                BY <1>3, <4>1
            <4> QED
                BY <4>2 DEF lo, hi
        <3> QED
            BY <2>1, <3>1, <3>2 DEF Pages
    <2>2. CASE n # cut
        <3>1. R[n] = range[n]
            BY <1>1, <1>6, <2>2, PinRangePages
        <3>2. range[n].pgstart > range[cut].pgend \/ range[cut].pgstart > range[n].pgend
            BY <1>2, <1>6, <2>2, Apart
        <3>3. range[n].pgstart \in Int /\ range[n].pgend \in Int
            BY <1>6, OnRange, RangeInts
        <3>4. \A p \in Pages(range[n]) : p \notin K
            BY <1>3, <3>2, <3>3 DEF Pages
        <3> HIDE DEF K
        <3> QED
            BY <3>1, <3>4
    <2> QED
        BY <2>1, <2>2
<1> HIDE DEF R, U, K
<1>7. \A p : Has(R, U[a], p) <=> Has(range, unpinned_list[a], p) /\ p \notin K
    BY <1>5, <1>6 DEF Has
<1>8. \A p : HasPurged(range, unpinned_list[a], p) /\ p \notin K => HasPurged(R, U[a], p)
    BY <1>5, <1>6 DEF HasPurged
<1> QED
    BY <1>4, <1>7, <1>8 DEF R, U, K

\* With memory it takes just the pages of the hole.
LEMMA PinHolePages ==
    ASSUME Lists, NEW a \in Area, NEW s, NEW e, Request(s, e),
           NEW cut \in PinHit(a, s, e), range[cut].pgstart < s, range[cut].pgend > e,
           NEW new \in Free, NEW U,
           \A n : OnList(U[a], n) <=> OnList(unpinned_list[a], n) \/ n = new,
           \A b \in Area : b # a => U[b] = unpinned_list[b]
    PROVE  LET R == [PinRange(a, s, e) EXCEPT ![new] = Upper(cut, e)]
           IN  /\ Local(a, R, U)
               /\ \A p : Has(R, U[a], p) <=> Has(range, unpinned_list[a], p) /\ p \notin s .. e
               /\ \A p : HasPurged(range, unpinned_list[a], p) /\ p \notin s .. e
                           => HasPurged(R, U[a], p)
<1> DEFINE R == [PinRange(a, s, e) EXCEPT ![new] = Upper(cut, e)]
           u == Upper(cut, e)
<1>0. new \in RangeId /\ range[new] = NULL
    BY DEF Free
<1>1. PinHit(a, s, e) = {cut} /\ PinGone(a, s, e) = {}
    BY HoleAlone
<1>2. OnList(unpinned_list[a], cut) /\ RangeOk(range[cut]) /\ cut \in RangeId /\ cut # new
    BY <1>0, PinHitIs, OnRange
<1>3. /\ range[cut].pgstart \in Int /\ range[cut].pgend \in Int /\ s \in Int /\ e \in Int
      /\ s <= e + 1
    BY <1>2, RangeInts, RequestInts
<1>4. /\ u.pgstart = e + 1 /\ u.pgend = range[cut].pgend /\ u.purged = range[cut].purged
    BY <1>2, UpperIs
<1>5. /\ R[new] = u
      /\ \A n \in RangeId : n # new => R[n] = PinRange(a, s, e)[n]
      /\ \A n \in RangeId : n # new /\ n # cut => R[n] = range[n]
    BY <1>0, <1>1 DEF PinRange
<1> HIDE DEF R, u
<1>6. Local(a, R, U)
    BY <1>0, <1>2, <1>5 DEF Local
<1>7. /\ R[cut].purged = range[cut].purged /\ Pages(R[cut]) = range[cut].pgstart .. s - 1
    BY <1>1, <1>2, <1>5, PinRangePages
<1>8. Pages(u) = e + 1 .. range[cut].pgend /\ Pages(range[cut]) = range[cut].pgstart .. range[cut].pgend
    BY <1>4 DEF Pages
<1>9. Pages(R[cut]) \cup Pages(u) = Pages(range[cut]) \ (s .. e)
    <2> DEFINE lo == range[cut].pgstart
               hi == range[cut].pgend
    <2>1. lo \in Int /\ hi \in Int /\ lo < s /\ hi > e
        BY <1>3
    <2> HIDE DEF lo, hi
    <2>2. (lo .. s - 1) \cup (e + 1 .. hi) = (lo .. hi) \ (s .. e)
        BY <1>3, <2>1
    <2> QED
        BY <1>7, <1>8, <2>2 DEF lo, hi
<1>10. ASSUME NEW n, OnList(unpinned_list[a], n), n # cut
       PROVE  R[n] = range[n] /\ n # new /\ Pages(range[n]) \cap (s .. e) = {}
    <2>1. n \in RangeId /\ n # new
        BY <1>0, <1>10, OnRange
    <2>2. Pages(range[n]) \cap (s .. e) = {}
        BY <1>1, <1>10, PinRangePages
    <2> QED
        BY <1>5, <1>10, <2>1, <2>2
<1>11. ASSUME NEW p PROVE Has(R, U[a], p) <=> Has(range, unpinned_list[a], p) /\ p \notin s .. e
    <2>1. ASSUME Has(R, U[a], p) PROVE Has(range, unpinned_list[a], p) /\ p \notin s .. e
        <3>1. PICK n : OnList(U[a], n) /\ p \in Pages(R[n])
            BY <2>1 DEF Has
        <3>2. CASE n = cut \/ n = new
            <4>1. p \in Pages(range[cut]) \ (s .. e)
                BY <1>5, <1>9, <3>1, <3>2
            <4> QED
                BY <1>2, <4>1 DEF Has
        <3>3. CASE n # cut /\ n # new
            <4>1. OnList(unpinned_list[a], n)
                BY <3>1, <3>3
            <4>2. p \in Pages(range[n]) /\ p \notin s .. e
                BY <1>10, <3>1, <3>3, <4>1
            <4> QED
                BY <4>1, <4>2 DEF Has
        <3> QED
            BY <3>2, <3>3
    <2>2. ASSUME Has(range, unpinned_list[a], p), p \notin s .. e PROVE Has(R, U[a], p)
        <3>1. PICK n : OnList(unpinned_list[a], n) /\ p \in Pages(range[n])
            BY <2>2 DEF Has
        <3>2. CASE n = cut
            <4>1. p \in Pages(R[cut]) \/ p \in Pages(R[new])
                BY <1>5, <1>9, <2>2, <3>1, <3>2
            <4>2. OnList(U[a], cut) /\ OnList(U[a], new)
                BY <1>2
            <4> QED
                BY <4>1, <4>2 DEF Has
        <3>3. CASE n # cut
            BY <1>10, <3>1, <3>3 DEF Has
        <3> QED
            BY <3>2, <3>3
    <2> QED
        BY <2>1, <2>2
<1>12. ASSUME NEW p, HasPurged(range, unpinned_list[a], p), p \notin s .. e PROVE HasPurged(R, U[a], p)
    <2>1. PICK n : OnList(unpinned_list[a], n) /\ p \in Pages(range[n]) /\ range[n].purged
        BY <1>12 DEF HasPurged
    <2>2. CASE n = cut
        <3>1. p \in Pages(R[cut]) \/ p \in Pages(R[new])
            BY <1>5, <1>9, <1>12, <2>1, <2>2
        <3>2. OnList(U[a], cut) /\ OnList(U[a], new) /\ R[cut].purged /\ R[new].purged
            BY <1>2, <1>4, <1>5, <1>7, <2>1, <2>2
        <3> QED
            BY <3>1, <3>2 DEF HasPurged
    <2>3. CASE n # cut
        BY <1>10, <2>1, <2>3 DEF HasPurged
    <2> QED
        BY <2>2, <2>3
<1> QED
    BY <1>6, <1>11, <1>12 DEF R

\* The pin of a lost page says so.
LEMMA PinTells ==
    ASSUME Lists, LostIn(range, unpinned_list, lost), NEW a \in Area,
           NEW s, NEW e, Request(s, e), NEW p \in lost[a], p \in s .. e
    PROVE  \E n \in PinHit(a, s, e) : range[n].purged
<1>1. PICK n : OnList(unpinned_list[a], n) /\ p \in Pages(range[n]) /\ range[n].purged
    BY DEF LostIn, HasPurged
<1>2. RangeOk(range[n])
    BY <1>1, OnRange
<1>3. Meets(range[n], s, e)
    BY <1>1, <1>2, MeetsPages
<1>4. n \in PinHit(a, s, e)
    BY <1>1, <1>3, PinHitIs
<1> QED
    BY <1>1, <1>4

LEMMA UnpinnedIs ==
    /\ UnpinnedPages = PagesOf(range, unpinned_list)
    /\ UnpinnedPages' = PagesOf(range', unpinned_list')
BY DEF UnpinnedPages, PagesOf

LEMMA UnpinnedFun ==
    UnpinnedPages = [a \in Area |-> UnpinnedPages[a]]
BY DEF UnpinnedPages

LostInv == LostIn(range, unpinned_list, lost)

\* A request for pages is an interval, and one for none at the very end of
\* the largest area meets no range.
LEMMA RequestInterval ==
    ASSUME NEW s, NEW e, Request(s, e), s # MaxSize
    PROVE  s .. e \in AreaPages!Interval
<1>1. s \in Page /\ e \in Page
    BY AshmemAssumption DEF Request, Page
<1> QED
    BY <1>1 DEF AreaPages!Interval

LEMMA RequestNothing ==
    ASSUME Lists, NEW a \in Area, NEW s, NEW e, Request(s, e), s = MaxSize
    PROVE  PinHit(a, s, e) = {} /\ s .. e = {}
<1>1. /\ s \in Int /\ e \in Int /\ e < MaxSize
    BY RequestInts
<1>2. ASSUME NEW n \in PinHit(a, s, e) PROVE FALSE
    <2>1. RangeOk(range[n]) /\ Meets(range[n], s, e)
        BY PinHitIs, OnRange
    <2>2. range[n].pgend >= s /\ range[n].pgend < MaxSize /\ range[n].pgend \in Int
        BY <2>1, MeetsPages, RangeInts
    <2> QED
        BY <1>1, <2>2
<1> QED
    BY <1>1, <1>2

\* A step that takes the pages s .. e from area a, as a pin of AshmemPages.
LEMMA PinMaps ==
    ASSUME Lists, LostInv, NEW a \in Area, NEW s, NEW e, Request(s, e),
           Local(a, range', unpinned_list'),
           \A p : Has(range', unpinned_list'[a], p)
                    <=> Has(range, unpinned_list[a], p) /\ p \notin s .. e,
           \A p : HasPurged(range, unpinned_list[a], p) /\ p \notin s .. e
                    => HasPurged(range', unpinned_list'[a], p),
           told' = \E n \in PinHit(a, s, e) : range[n].purged,
           lost' = [lost EXCEPT ![a] = @ \ (s .. e)], oom' = FALSE
    PROVE  LostInv' /\ AreaPages!Next
<1> DEFINE I == s .. e
<1>1. UnpinnedPages' = [UnpinnedPages EXCEPT ![a] = @ \ I]
    <2> HIDE DEF I
    <2>1. \A p : Has(range', unpinned_list'[a], p) <=> Has(range, unpinned_list[a], p) /\ p \notin I
        BY DEF I
    <2>2. PagesOf(range', unpinned_list') = [PagesOf(range, unpinned_list) EXCEPT ![a] = @ \ I]
        BY <2>1, LocalMinus
    <2> QED
        BY <2>2, UnpinnedIs
<1>2. LostInv'
    <2>1. LostIn(range, unpinned_list, lost)
        BY DEF LostInv
    <2>2. \A p : HasPurged(range, unpinned_list[a], p) /\ p \notin I
                    => HasPurged(range', unpinned_list'[a], p)
        OBVIOUS
    <2>3. lost' = [lost EXCEPT ![a] = @ \ I]
        OBVIOUS
    <2> HIDE DEF I
    <2>4. LostIn(range', unpinned_list', [lost EXCEPT ![a] = @ \ I])
        BY <2>1, <2>2, LocalLost
    <2> QED
        BY <2>3, <2>4 DEF LostInv
<1>3. lost[a] \cap I # {} => told'
    <2>1. ASSUME NEW p \in lost[a], p \in I PROVE told'
        <3>1. \E n \in PinHit(a, s, e) : range[n].purged
            BY <2>1, PinTells DEF LostInv
        <3> QED
            BY <3>1
    <2> QED
        BY <2>1
<1>4. CASE s # MaxSize
    <2>1. I \in AreaPages!Interval
        BY <1>4, RequestInterval
    <2>2. lost' = [lost EXCEPT ![a] = @ \ I] /\ ~oom'
        OBVIOUS
    <2> HIDE DEF I
    <2>3. AreaPages!Pin(a, I)
        BY <1>1, <1>3, <2>2 DEF AreaPages!Pin
    <2> QED
        BY <1>2, <2>1, <2>3 DEF AreaPages!Next
<1>5. CASE s = MaxSize
    <2>1. PinHit(a, s, e) = {} /\ I = {}
        BY <1>5, RequestNothing
    <2>2. ~told' /\ ~oom'
        BY <2>1
    <2>3. lost \in [Area -> SUBSET Page]
        BY DEF LostInv, LostIn
    <2>4. lost' = [lost EXCEPT ![a] = @ \ I]
        OBVIOUS
    <2> HIDE DEF I
    <2>5. lost' = lost
        BY <2>1, <2>3, <2>4
    <2>6. UnpinnedPages' = UnpinnedPages
        BY <1>1, <2>1, UnpinnedFun
    <2> QED
        BY <1>2, <2>2, <2>5, <2>6 DEF AreaPages!Next, AreaPages!Quiet
<1> QED
    BY <1>4, <1>5

\* A step that forgets pages of area a, for want of memory.
LEMMA ForgetMaps ==
    ASSUME Lists, LostInv, NEW a \in Area, NEW K,
           Local(a, range', unpinned_list'),
           \A p : Has(range', unpinned_list'[a], p)
                    <=> Has(range, unpinned_list[a], p) /\ p \notin K,
           \A p : HasPurged(range, unpinned_list[a], p) /\ p \notin K
                    => HasPurged(range', unpinned_list'[a], p),
           lost' = [lost EXCEPT ![a] = @ \ K]
    PROVE  /\ LostInv' /\ AreaPages!Forget(a)
           /\ UnpinnedPages' = [UnpinnedPages EXCEPT ![a] = @ \ K]
<1>1. UnpinnedPages' = [UnpinnedPages EXCEPT ![a] = @ \ K]
    <2>1. PagesOf(range', unpinned_list') = [PagesOf(range, unpinned_list) EXCEPT ![a] = @ \ K]
        BY LocalMinus
    <2> QED
        BY <2>1, UnpinnedIs
<1>2. LostInv'
    <2>1. LostIn(range', unpinned_list', [lost EXCEPT ![a] = @ \ K])
        BY LocalLost DEF LostInv
    <2> QED
        BY <2>1 DEF LostInv
<1>3. UnpinnedPages'[a] = UnpinnedPages[a] \ K /\ \A b \in Area : b # a => UnpinnedPages'[b] = UnpinnedPages[b]
    BY <1>1, UnpinnedFun
<1>4. \A b \in Area : lost[b] \subseteq UnpinnedPages[b]
    BY LostPages, UnpinnedIs DEF LostInv
<1>5. lost'[a] = lost[a] \ K /\ \A b \in Area : b # a => lost'[b] = lost[b]
    BY DEF LostInv, LostIn
<1>6. AreaPages!Forget(a)
    <2>1. UnpinnedPages'[a] \subseteq UnpinnedPages[a]
        BY <1>3
    <2>2. ASSUME NEW b \in Area PROVE lost'[b] = lost[b] \cap UnpinnedPages'[b]
        BY <1>3, <1>4, <1>5
    <2> QED
        BY <1>3, <2>1, <2>2 DEF AreaPages!Forget
<1> QED
    BY <1>1, <1>2, <1>6

LEMMA PinStep ==
    ASSUME Lists, LostInv, NEW a \in Area, NEW s, NEW e, Request(s, e), ashmem_pin(a, s, e)
    PROVE  /\ Lists' /\ LostInv' /\ AreaPages!Next
           /\ told' \in BOOLEAN /\ oom' \in BOOLEAN /\ ashmem_mutex' \in {ashmem_mutex, "dead"}
           /\ UNCHANGED areaVars
<1> DEFINE hit == PinHit(a, s, e)
           hole == {n \in hit : range[n].pgstart < s /\ range[n].pgend > e}
           P == told' = \E n \in hit : range[n].purged
<1>0. P => told' \in BOOLEAN
    OBVIOUS
<1>1. ASSUME hole = {}, PinLists(a, s, e, NULL, NULL),
             lost' = [lost EXCEPT ![a] = @ \ (s .. e)], oom' = FALSE, UNCHANGED <<areaVars, ashmem_mutex>>
      PROVE  /\ Lists' /\ LostInv' /\ AreaPages!Next
             /\ told' \in BOOLEAN /\ oom' \in BOOLEAN /\ ashmem_mutex' \in {ashmem_mutex, "dead"}
             /\ UNCHANGED areaVars
    <2>1. Lists' /\ range' = PinRange(a, s, e) /\ unpinned_list' = PinList(a, s, e) /\ P
        BY <1>1, PinPlain
    <2>2. \A n \in hit : ~(range[n].pgstart < s /\ range[n].pgend > e)
        BY <1>1
    <2>3. /\ Local(a, range', unpinned_list')
          /\ \A p : Has(range', unpinned_list'[a], p)
                      <=> Has(range, unpinned_list[a], p) /\ p \notin s .. e
          /\ \A p : HasPurged(range, unpinned_list[a], p) /\ p \notin s .. e
                      => HasPurged(range', unpinned_list'[a], p)
        BY <2>1, <2>2, PinPlainPages
    <2>4. LostInv' /\ AreaPages!Next
        BY <1>1, <2>1, <2>3, PinMaps
    <2> QED
        BY <1>0, <1>1, <2>1, <2>4
<1>2. ASSUME NEW cut \in hole, NEW new \in Free, PinLists(a, s, e, new, cut),
             lost' = [lost EXCEPT ![a] = @ \ (s .. e)], oom' = FALSE, UNCHANGED <<areaVars, ashmem_mutex>>
      PROVE  /\ Lists' /\ LostInv' /\ AreaPages!Next
             /\ told' \in BOOLEAN /\ oom' \in BOOLEAN /\ ashmem_mutex' \in {ashmem_mutex, "dead"}
             /\ UNCHANGED areaVars
    <2>0. cut \in PinHit(a, s, e) /\ range[cut].pgstart < s /\ range[cut].pgend > e
        BY <1>2
    <2>1. /\ Lists' /\ range' = [PinRange(a, s, e) EXCEPT ![new] = Upper(cut, e)]
          /\ \A n : OnList(unpinned_list'[a], n) <=> OnList(unpinned_list[a], n) \/ n = new
          /\ \A b \in Area : b # a => unpinned_list'[b] = unpinned_list[b]
          /\ P
        <3>1. HoleStep(a, s, e, cut, new)
            BY <1>2, <2>0, PinHole
        <3> QED
            BY ONLY <3>1 DEF HoleStep
    <2>2. /\ Local(a, range', unpinned_list')
          /\ \A p : Has(range', unpinned_list'[a], p)
                      <=> Has(range, unpinned_list[a], p) /\ p \notin s .. e
          /\ \A p : HasPurged(range, unpinned_list[a], p) /\ p \notin s .. e
                      => HasPurged(range', unpinned_list'[a], p)
        BY <2>0, <2>1, PinHolePages
    <2>3. LostInv' /\ AreaPages!Next
        BY <1>2, <2>1, <2>2, PinMaps
    <2> QED
        BY <1>0, <1>2, <2>1, <2>3
<1>3. ASSUME NEW cut \in hole, PinLists(a, s, e, NULL, NULL),
             lost' = [lost EXCEPT ![a] = @ \ (s .. range[cut].pgend)], oom' = TRUE,
             UNCHANGED <<areaVars, ashmem_mutex>>
      PROVE  /\ Lists' /\ LostInv' /\ AreaPages!Next
             /\ told' \in BOOLEAN /\ oom' \in BOOLEAN /\ ashmem_mutex' \in {ashmem_mutex, "dead"}
             /\ UNCHANGED areaVars
    <2> DEFINE K == s .. range[cut].pgend
    <2>0. cut \in PinHit(a, s, e) /\ range[cut].pgstart < s /\ range[cut].pgend > e
        BY <1>3
    <2>1. Lists' /\ range' = PinRange(a, s, e) /\ unpinned_list' = PinList(a, s, e) /\ P
        BY <1>3, PinPlain
    <2>2. /\ Local(a, range', unpinned_list')
          /\ \A p : Has(range', unpinned_list'[a], p)
                      <=> Has(range, unpinned_list[a], p) /\ p \notin K
          /\ \A p : HasPurged(range, unpinned_list[a], p) /\ p \notin K
                      => HasPurged(range', unpinned_list'[a], p)
        BY <2>0, <2>1, PinOomPages
    <2>3. lost' = [lost EXCEPT ![a] = @ \ K]
        BY <1>3
    <2>4. s .. e \subseteq K
        <3>1. s \in Int /\ e \in Int /\ range[cut].pgend \in Int
            BY <2>0, PinHitIs, OnRange, RangeInts, RequestInts
        <3> QED
            BY <2>0, <3>1
    <2> HIDE DEF K
    <2>5. LostInv' /\ AreaPages!Forget(a) /\ UnpinnedPages' = [UnpinnedPages EXCEPT ![a] = @ \ K]
        BY <2>2, <2>3, ForgetMaps
    <2>6. s # MaxSize
        BY <2>0, RequestNothing
    <2>7. s .. e \in AreaPages!Interval
        BY <2>6, RequestInterval
    <2>8. lost[a] \cap (s .. e) # {} => told'
        <3>1. ASSUME NEW p \in lost[a], p \in s .. e PROVE told'
            <4>1. \E n \in PinHit(a, s, e) : range[n].purged
                BY <3>1, PinTells DEF LostInv
            <4> QED
                BY <2>1, <4>1
        <3> QED
            BY <3>1
    <2>9. UnpinnedPages'[a] \cap (s .. e) = {}
        <3>1. UnpinnedPages'[a] = UnpinnedPages[a] \ K
            BY <2>5, UnpinnedFun
        <3> QED
            BY <2>4, <3>1
    <2>10. oom'
        BY <1>3
    <2>11. AreaPages!PinOom(a, s .. e)
        BY <2>5, <2>8, <2>9, <2>10 DEF AreaPages!PinOom
    <2>12. AreaPages!Next
        BY <2>7, <2>11 DEF AreaPages!Next
    <2> QED
        BY <1>0, <1>3, <2>1, <2>5, <2>12
<1>4. ASSUME ReclaimInside, told' = FALSE, UNCHANGED <<areaVars, listVars, lost>>
      PROVE  /\ Lists' /\ LostInv' /\ AreaPages!Next
             /\ told' \in BOOLEAN /\ oom' \in BOOLEAN /\ ashmem_mutex' \in {ashmem_mutex, "dead"}
             /\ UNCHANGED areaVars
    <2>1. /\ UNCHANGED <<range, unpinned_list, ashmem_lru_list, lru_count, lost>>
          /\ UNCHANGED areaVars /\ oom' = TRUE /\ ashmem_mutex' = "dead"
        BY <1>4 DEF listVars, ReclaimInside
    <2>2. Lists'
        BY <2>1 DEF Lists
    <2>3. LostInv'
        BY <2>1 DEF LostInv
    <2>4. UnpinnedPages' = UnpinnedPages
        BY <2>1 DEF UnpinnedPages
    <2>5. \A b \in Area : lost[b] \subseteq UnpinnedPages[b]
        BY LostPages, UnpinnedIs DEF LostInv
    <2>6. AreaPages!Forget(a)
        BY <2>1, <2>4, <2>5 DEF AreaPages!Forget
    <2>7. AreaPages!Next
        BY <1>4, <2>1, <2>6 DEF AreaPages!Next, AreaPages!UnpinOom
    <2> QED
        BY <1>4, <2>1, <2>2, <2>3, <2>7
<1> QED
    BY <1>1, <1>2, <1>3, <1>4 DEF ashmem_pin

-----------------------------------------------------------------------------
(***************************************************************************)
(* ashmem_unpin().  MergeOk says what the walk has done so far to a        *)
(* request for the pages s to e: the ranges that it swallowed and the      *)
(* request are one interval without a gap.                                 *)
(***************************************************************************)
MergeRec == [seq : Seq(RangeId), pgstart : 0 .. MaxSize, pgend : Page,
             purged : BOOLEAN, inside : BOOLEAN]

Swallowed(a, m) == ToSet(unpinned_list[a]) \ ToSet(m.seq)

Around(m, n) ==
    OnList(m.seq, n) /\ page_range_subsumed_by_range(range[n], m.pgstart, m.pgend)

MergeOk(a, s, e, m) ==
    /\ m \in MergeRec
    /\ SubList(m.seq, unpinned_list[a], Swallowed(a, m))
    /\ Request(m.pgstart, m.pgend)
    /\ \A p : p \in m.pgstart .. m.pgend
                <=> p \in s .. e \/ \E n \in Swallowed(a, m) : p \in Pages(range[n])
    /\ \A n \in Swallowed(a, m) : range[n].purged => m.purged
    /\ m.inside => \E n : Around(m, n)

Hits(m) == {i \in Reached(range, m.seq, m.pgstart) :
              page_range_in_range(range[m.seq[i]], m.pgstart, m.pgend)}

\* The walk is over.
Stable(m) == m.inside \/ Hits(m) = {}

LEMMA SwallowedIs ==
    ASSUME NEW a, NEW m
    PROVE  \A n : n \in Swallowed(a, m) <=> OnList(unpinned_list[a], n) /\ ~OnList(m.seq, n)
BY DEF Swallowed, ToSet, OnList

\* A request grows by a range that it meets.
LEMMA MergeInterval ==
    ASSUME NEW r, RangeOk(r), NEW s, NEW e, Request(s, e), Meets(r, s, e),
           ~page_range_subsumed_by_range(r, s, e)
    PROVE  LET lo == IF r.pgstart < s THEN r.pgstart ELSE s
               hi == IF r.pgend > e THEN r.pgend ELSE e
           IN  Request(lo, hi) /\ \A p : p \in lo .. hi <=> p \in s .. e \/ p \in Pages(r)
<1> DEFINE rl == r.pgstart
           rh == r.pgend
           lo == IF rl < s THEN rl ELSE s
           hi == IF rh > e THEN rh ELSE e
<1>1. /\ rl \in Int /\ rh \in Int /\ rl <= rh + 1 /\ s \in Int /\ e \in Int /\ s <= e + 1
      /\ rl >= 0 /\ s >= 0 /\ rl <= MaxSize /\ s <= MaxSize
      /\ MaxSize \in Int /\ rh < MaxSize /\ e < MaxSize /\ rh >= 0 /\ e >= 0
    BY RangeInts, RequestInts
<1>2. rh >= s /\ (\/ rl <= s /\ rh >= s
                  \/ rl <= e /\ rh >= e
                  \/ rl >= s /\ rh <= e)
    BY DEF Meets, page_range_in_range, page_in_range, page_range_subsumes_range
<1>3. ~(rl <= s /\ rh >= e)
    BY DEF page_range_subsumed_by_range
<1>4. Pages(r) = rl .. rh
    BY DEF Pages
<1> HIDE DEF rl, rh
<1>5. /\ lo \in Int /\ hi \in Int /\ lo >= 0 /\ hi >= 0 /\ lo <= MaxSize /\ hi < MaxSize
      /\ lo <= hi + 1
    BY <1>1, <1>2
<1>6. Request(lo, hi)
    BY <1>1, <1>5 DEF Request, Page
<1>7. ASSUME NEW p PROVE p \in lo .. hi <=> p \in s .. e \/ p \in rl .. rh
    BY <1>1, <1>2, <1>3
<1> QED
    BY <1>4, <1>6, <1>7 DEF rl, rh

\* One deletion from a list of the walk.
LEMMA DelSubList ==
    ASSUME NEW q, NEW s, NEW D, SubList(q, s, D), NEW n, OnList(q, n), NEW E,
           \A y : y \in E <=> y \in D \/ y = n
    PROVE  /\ SubList(list_del(q, n), s, E)
           /\ Len(list_del(q, n)) = Len(q) - 1
           /\ \A y : OnList(list_del(q, n), y) <=> OnList(q, y) /\ y # n
<1>0. /\ q \in Seq(RangeId) /\ NoDup(q)
      /\ \A y : OnList(q, y) <=> OnList(s, y) /\ y \notin D
      /\ \A y, z : Ahead(q, y, z) => Ahead(s, y, z)
    BY DEF SubList
<1>1. /\ list_del(q, n) \in Seq(RangeId) /\ NoDup(list_del(q, n))
      /\ \A y : OnList(list_del(q, n), y) <=> OnList(q, y) /\ y # n
    BY <1>0, DelList
<1>2. \A y, z : Ahead(list_del(q, n), y, z) => Ahead(s, y, z)
    BY <1>0, DelAheadBack
<1>3. Len(list_del(q, n)) = Len(q) - 1
    <2>1. DOMAIN list_del(q, n) = 1 .. Len(q) - 1
        BY DEF list_del
    <2>2. Len(q) \in Nat /\ Len(q) > 0
        BY <1>0 DEF OnList
    <2>3. Len(list_del(q, n)) \in Nat /\ DOMAIN list_del(q, n) = 1 .. Len(list_del(q, n))
        BY <1>1
    <2> DEFINE k == Len(list_del(q, n))
               j == Len(q) - 1
    <2>4. k \in Nat /\ j \in Nat /\ 1 .. k = 1 .. j
        BY <2>1, <2>2, <2>3
    <2> HIDE DEF k, j
    <2>5. k = j
        BY <2>4
    <2> QED
        BY <2>5 DEF k, j
<1>4. \A y : OnList(list_del(q, n), y) <=> OnList(s, y) /\ y \notin E
    BY <1>0, <1>1
<1>5. SubList(list_del(q, n), s, E)
    BY <1>1, <1>2, <1>4 DEF SubList
<1> QED
    BY <1>1, <1>3, <1>5

\* One round of the walk.
LEMMA MergeStep ==
    ASSUME Lists, NEW a \in Area, NEW s, NEW e, NEW m, MergeOk(a, s, e, m)
    PROVE  /\ MergeOk(a, s, e, Merge(m))
           /\ Stable(m) => Merge(m) = m
           /\ ~Stable(m) => Stable(Merge(m)) \/ Len(Merge(m).seq) = Len(m.seq) - 1
<1> DEFINE hits == Hits(m)
           n == m.seq[Min(hits)]
           lo == IF range[n].pgstart < m.pgstart THEN range[n].pgstart ELSE m.pgstart
           hi == IF range[n].pgend > m.pgend THEN range[n].pgend ELSE m.pgend
           w == [m EXCEPT !.inside = TRUE]
           x == [m EXCEPT !.seq = list_del(m.seq, n), !.pgstart = lo, !.pgend = hi,
                          !.purged = m.purged \/ range[n].purged]
<1>0. /\ m \in MergeRec /\ m.seq \in Seq(RangeId)
      /\ SubList(m.seq, unpinned_list[a], Swallowed(a, m))
      /\ Request(m.pgstart, m.pgend)
      /\ \A y : OnList(m.seq, y) => OnList(unpinned_list[a], y)
    BY DEF MergeOk, SubList
<1>1. Merge(m) = IF hits = {} \/ m.inside THEN m
                 ELSE IF page_range_subsumed_by_range(range[n], m.pgstart, m.pgend) THEN w ELSE x
    BY DEF Merge, Hits
<1>2. CASE Stable(m)
    <2>1. hits = {} \/ m.inside
        BY <1>2 DEF Stable
    <2>2. Merge(m) = m
        BY <1>1, <2>1
    <2> QED
        BY <1>2, <2>2
<1>3. CASE ~Stable(m)
    <2>1. hits # {} /\ ~m.inside
        BY <1>3 DEF Stable
    <2>2. Min(hits) \in hits
        <3>1. hits \in SUBSET Nat
            BY <1>0 DEF Hits, Reached
        <3> HIDE DEF hits
        <3>2. \E k \in hits : \A y \in hits : k <= y
            BY <2>1, <3>1, Least
        <3> QED
            BY <3>2 DEF Min
    <2> DEFINE k == Min(hits)
    <2>3. k \in hits
        BY <2>2
    <2> HIDE DEF k
    <2>4. /\ k \in DOMAIN m.seq /\ ~range_before_page(range[m.seq[k]], m.pgstart)
          /\ page_range_in_range(range[m.seq[k]], m.pgstart, m.pgend)
        <3>1. k \in Reached(range, m.seq, m.pgstart)
            BY <2>3 DEF Hits
        <3>2. k \in DOMAIN m.seq /\ k \in 1 .. k
            BY <1>0, <3>1 DEF Reached
        <3> QED
            BY <2>3, <3>1, <3>2 DEF Hits, Reached
    <2>5. OnList(m.seq, n) /\ ~range_before_page(range[n], m.pgstart)
          /\ page_range_in_range(range[n], m.pgstart, m.pgend)
        BY <2>4 DEF k, OnList
    <2> HIDE DEF n, hits
    <2>6. OnList(unpinned_list[a], n) /\ RangeOk(range[n]) /\ n \in RangeId
        BY <1>0, <2>5, OnRange
    <2>7. Meets(range[n], m.pgstart, m.pgend)
        <3>1. range[n].pgend \in Int /\ m.pgstart \in Int
            BY <1>0, <2>6, RangeInts, RequestInts
        <3> QED
            BY <2>5, <3>1 DEF Meets, range_before_page
    <2>8. CASE page_range_subsumed_by_range(range[n], m.pgstart, m.pgend)
        <3>1. Merge(m) = w
            BY <1>1, <2>1, <2>8
        <3>2. /\ w \in MergeRec /\ w.seq = m.seq /\ w.pgstart = m.pgstart /\ w.pgend = m.pgend
              /\ w.purged = m.purged /\ w.inside
            BY <1>0 DEF MergeRec
        <3> HIDE DEF w
        <3>3. Around(w, n)
            BY <2>5, <2>8, <3>2 DEF Around
        <3>4. Swallowed(a, w) = Swallowed(a, m)
            BY <3>2 DEF Swallowed
        <3>5. MergeOk(a, s, e, w)
            BY <3>2, <3>3, <3>4 DEF MergeOk
        <3>6. Stable(w)
            BY <3>2 DEF Stable
        <3> QED
            BY <1>3, <3>1, <3>5, <3>6
    <2>9. CASE ~page_range_subsumed_by_range(range[n], m.pgstart, m.pgend)
        <3>1. Merge(m) = x
            BY <1>1, <2>1, <2>9
        <3>2. Request(lo, hi) /\ \A p : p \in lo .. hi <=> p \in m.pgstart .. m.pgend \/ p \in Pages(range[n])
            BY <1>0, <2>6, <2>7, <2>9, MergeInterval
        <3> DEFINE q == list_del(m.seq, n)
                   E == Swallowed(a, m) \cup {n}
                   u == m.purged \/ range[n].purged
        <3>3. /\ SubList(q, unpinned_list[a], E) /\ Len(q) = Len(m.seq) - 1
              /\ \A y : OnList(q, y) <=> OnList(m.seq, y) /\ y # n
            <4>1. \A y : y \in E <=> y \in Swallowed(a, m) \/ y = n
                OBVIOUS
            <4> HIDE DEF E
            <4> QED
                BY <1>0, <2>5, <4>1, DelSubList
        <3>4. q \in Seq(RangeId) /\ u \in BOOLEAN
            <4>1. m.purged \in BOOLEAN /\ range[n].purged \in BOOLEAN
                BY <1>0, <2>6 DEF MergeRec, RangeOk, RangeRec
            <4> QED
                BY <3>3 DEF SubList
        <3>5. lo \in 0 .. MaxSize /\ hi \in Page
            BY <3>2 DEF Request
        <3>6. x = [m EXCEPT !.seq = q, !.pgstart = lo, !.pgend = hi, !.purged = u]
            OBVIOUS
        <3>7. u <=> (m.purged \/ range[n].purged)
            OBVIOUS
        <3> HIDE DEF x, q, lo, hi, u
        <3>8. /\ x \in MergeRec /\ x.seq = q /\ x.pgstart = lo /\ x.pgend = hi
              /\ x.purged = u /\ x.inside = m.inside
            BY <1>0, <3>4, <3>5, <3>6 DEF MergeRec
        <3>9. Swallowed(a, x) = E
            <4>1. \A y : y \in Swallowed(a, x) <=> OnList(unpinned_list[a], y) /\ ~OnList(q, y)
                BY <3>8, SwallowedIs
            <4>2. \A y : y \in Swallowed(a, m) <=> OnList(unpinned_list[a], y) /\ ~OnList(m.seq, y)
                BY SwallowedIs
            <4>3. \A y : y \in Swallowed(a, x) <=> y \in E
                BY <2>6, <3>3, <4>1, <4>2
            <4> QED
                BY <4>3
        <3>10. \A p : p \in x.pgstart .. x.pgend
                        <=> p \in s .. e \/ \E y \in Swallowed(a, x) : p \in Pages(range[y])
            <4>1. \A p : p \in m.pgstart .. m.pgend
                          <=> p \in s .. e \/ \E y \in Swallowed(a, m) : p \in Pages(range[y])
                BY DEF MergeOk
            <4>2. \A p : p \in x.pgstart .. x.pgend <=> p \in m.pgstart .. m.pgend \/ p \in Pages(range[n])
                BY <3>2, <3>8
            <4>3. ASSUME NEW p
                  PROVE  (\E y \in E : p \in Pages(range[y]))
                           <=> (\E y \in Swallowed(a, m) : p \in Pages(range[y])) \/ p \in Pages(range[n])
                OBVIOUS
            <4> HIDE DEF E
            <4>4. ASSUME NEW p
                  PROVE  p \in x.pgstart .. x.pgend
                           <=> p \in s .. e \/ \E y \in E : p \in Pages(range[y])
                BY <4>1, <4>2, <4>3
            <4> QED
                BY <3>9, <4>4
        <3>11. \A y \in Swallowed(a, x) : range[y].purged => x.purged
            <4>1. \A y \in Swallowed(a, m) : range[y].purged => m.purged
                BY DEF MergeOk
            <4> QED
                BY <3>7, <3>8, <3>9, <4>1
        <3>12. MergeOk(a, s, e, x)
            <4> HIDE DEF E
            <4> QED
                BY <2>1, <3>2, <3>3, <3>8, <3>9, <3>10, <3>11 DEF MergeOk
        <3> QED
            BY <1>3, <3>1, <3>3, <3>8, <3>12
    <2> QED
        BY <2>8, <2>9
<1> QED
    BY <1>2, <1>3

\* The walk ends, and what it has done is right.
LEMMA MergedIs ==
    ASSUME Lists, NEW a \in Area, NEW s, NEW e, Request(s, e)
    PROVE  MergeOk(a, s, e, Merged(a, s, e)) /\ Stable(Merged(a, s, e))
<1> DEFINE L == Len(unpinned_list[a])
           m0 == [seq |-> unpinned_list[a], pgstart |-> s, pgend |-> e,
                  purged |-> FALSE, inside |-> FALSE]
           Body(f) == [k \in 0 .. L + 1 |-> IF k = 0 THEN m0 ELSE Merge(f[k - 1])]
           M == CHOOSE f : f = Body(f)
           Walk(f, n) == /\ f = [i \in 0 .. n |-> f[i]] /\ f[0] = m0
                         /\ \A i \in 1 .. n : f[i] = Merge(f[i - 1])
<1>0. unpinned_list[a] \in Seq(RangeId) /\ NoDup(unpinned_list[a]) /\ L \in Nat
    BY DEF Lists, ListsInv
<1>1. MergeOk(a, s, e, m0)
    <2>1. /\ m0.seq = unpinned_list[a] /\ m0.pgstart = s /\ m0.pgend = e
          /\ m0.purged = FALSE /\ m0.inside = FALSE /\ m0 \in MergeRec
        BY <1>0 DEF MergeRec, Request
    <2> HIDE DEF m0
    <2>2. Swallowed(a, m0) = {}
        BY <2>1 DEF Swallowed
    <2>3. SubList(unpinned_list[a], unpinned_list[a], {})
        BY <1>0 DEF SubList
    <2> QED
        BY <2>1, <2>2, <2>3 DEF MergeOk
<1>2. \A n \in 0 .. L + 1 : \E f : Walk(f, n)
    <2> DEFINE T == {n \in 0 .. L + 1 : ~\E f : Walk(f, n)}
    <2>1. SUFFICES ASSUME T # {} PROVE FALSE
        OBVIOUS
    <2>2. PICK n \in T : \A k \in T : n <= k
        <3>1. T \in SUBSET Nat
            OBVIOUS
        <3> HIDE DEF T
        <3> QED
            BY <2>1, <3>1, Least
    <2>3. Walk([i \in 0 .. 0 |-> m0], 0)
        <3> HIDE DEF m0
        <3> QED
            OBVIOUS
    <2> HIDE DEF Walk
    <2>4. n \in 1 .. L + 1
        <3>1. n # 0
            BY <2>2, <2>3
        <3> QED
            BY <2>2, <3>1
    <2>5. PICK f : Walk(f, n - 1)
        <3>1. n - 1 \notin T
            <4> HIDE DEF T
            <4> QED
                BY <2>2, <2>4
        <3> QED
            BY <1>0, <2>4, <3>1
    <2> DEFINE g == [i \in 0 .. n |-> IF i < n THEN f[i] ELSE Merge(f[n - 1])]
    <2>6. Walk(g, n)
        <3> HIDE DEF m0
        <3>1. n \in Nat /\ n > 0
            BY <2>4
        <3>2. f[0] = m0 /\ \A i \in 1 .. n - 1 : f[i] = Merge(f[i - 1])
            BY <2>5 DEF Walk
        <3>3. g = [i \in 0 .. n |-> g[i]]
            OBVIOUS
        <3>4. g[0] = m0
            BY <3>1, <3>2
        <3>5. ASSUME NEW i \in 1 .. n PROVE g[i] = Merge(g[i - 1])
            <4>1. CASE i = n
                <5>1. g[n] = Merge(f[n - 1]) /\ g[n - 1] = f[n - 1]
                    BY <3>1
                <5> QED
                    BY <4>1, <5>1
            <4>2. CASE i < n
                <5>1. i \in 1 .. n - 1 /\ g[i] = f[i] /\ g[i - 1] = f[i - 1]
                    BY <3>1, <4>2
                <5> QED
                    BY <3>2, <5>1
            <4> QED
                BY <3>1, <4>1, <4>2
        <3> HIDE DEF g
        <3> QED
            BY <3>3, <3>4, <3>5 DEF Walk
    <2> QED
        BY <2>2, <2>6
<1>3. PICK f : Walk(f, L + 1)
    <2>1. L + 1 \in 0 .. L + 1
        BY <1>0
    <2> HIDE DEF Walk
    <2> QED
        BY <1>2, <2>1
<1> HIDE DEF m0
<1>4. f = Body(f)
    <2>1. ASSUME NEW i \in 0 .. L + 1 PROVE f[i] = Body(f)[i]
        <3>1. CASE i = 0
            BY <1>3, <3>1
        <3>2. CASE i # 0
            <4>1. i \in 1 .. L + 1
                BY <1>0, <3>2
            <4>2. f[i] = Merge(f[i - 1])
                BY <1>3, <4>1
            <4> QED
                BY <3>2, <4>2
        <3> QED
            BY <3>1, <3>2
    <2>2. f = [i \in 0 .. L + 1 |-> f[i]]
        BY <1>3
    <2>3. Body(f) = [i \in 0 .. L + 1 |-> Body(f)[i]]
        OBVIOUS
    <2> HIDE DEF Body
    <2>4. [i \in 0 .. L + 1 |-> f[i]] = [i \in 0 .. L + 1 |-> Body(f)[i]]
        BY <2>1
    <2> QED
        BY <2>2, <2>3, <2>4
<1>5. M = Body(M)
    BY <1>4
<1>6. Merged(a, s, e) = M[L + 1]
    BY DEF Merged, m0
<1> HIDE DEF M
<1>7. M[0] = m0 /\ \A i \in 1 .. L + 1 : M[i] = Merge(M[i - 1])
    <2>1. ASSUME NEW i \in 0 .. L + 1 PROVE M[i] = Body(M)[i]
        <3> HIDE DEF Body
        <3> QED
            BY <1>5
    <2>2. M[0] = m0
        <3>1. 0 \in 0 .. L + 1
            BY <1>0
        <3>2. Body(M)[0] = m0
            BY <3>1
        <3> HIDE DEF Body
        <3> QED
            BY <2>1, <3>1, <3>2
    <2>3. ASSUME NEW i \in 1 .. L + 1 PROVE M[i] = Merge(M[i - 1])
        <3>1. i \in 0 .. L + 1 /\ i # 0
            BY <1>0
        <3> QED
            BY <2>1, <3>1
    <2> QED
        BY <2>2, <2>3
<1> DEFINE Right(k) == /\ MergeOk(a, s, e, M[k])
                       /\ Stable(M[k]) \/ Len(M[k].seq) = L - k
<1>8. \A k \in 0 .. L + 1 : Right(k)
    <2> DEFINE T == {k \in 0 .. L + 1 : ~Right(k)}
    <2>1. SUFFICES ASSUME T # {} PROVE FALSE
        <3> HIDE DEF Right
        <3> QED
            OBVIOUS
    <2>2. PICK k \in T : \A j \in T : k <= j
        <3>1. T \in SUBSET Nat
            OBVIOUS
        <3> HIDE DEF T
        <3> QED
            BY <2>1, <3>1, Least
    <2>3. Right(0)
        <3>1. m0.seq = unpinned_list[a]
            BY DEF m0
        <3>2. Len(M[0].seq) = L - 0
            BY <1>0, <1>7, <3>1
        <3> QED
            BY <1>1, <1>7, <3>2
    <2> HIDE DEF Right
    <2>4. k \in 1 .. L + 1
        <3>1. k # 0
            BY <2>2, <2>3
        <3> QED
            BY <2>2, <3>1
    <2>5. Right(k - 1)
        <3>1. k - 1 \notin T
            <4> HIDE DEF T
            <4> QED
                BY <2>2, <2>4
        <3> QED
            BY <1>0, <2>4, <3>1
    <2> DEFINE m == M[k - 1]
    <2>6. M[k] = Merge(m)
        BY <1>7, <2>4
    <2>7. MergeOk(a, s, e, m) /\ (Stable(m) \/ Len(m.seq) = L - (k - 1))
        BY <2>5 DEF Right
    <2> HIDE DEF m
    <2>8. /\ MergeOk(a, s, e, Merge(m))
          /\ Stable(m) => Merge(m) = m
          /\ ~Stable(m) => Stable(Merge(m)) \/ Len(Merge(m).seq) = Len(m.seq) - 1
        BY <2>7, MergeStep
    <2>9. Stable(Merge(m)) \/ Len(Merge(m).seq) = L - k
        BY <1>0, <2>4, <2>7, <2>8
    <2>10. Right(k)
        BY <2>6, <2>8, <2>9 DEF Right
    <2> QED
        BY <2>2, <2>10
<1>9. Right(L + 1)
    <2> HIDE DEF Right
    <2> QED
        BY <1>0, <1>8
<1>10. Len(M[L + 1].seq) # L - (L + 1)
    <2>1. M[L + 1].seq \in Seq(RangeId)
        BY <1>9 DEF MergeOk, SubList
    <2>2. Len(M[L + 1].seq) \in Nat
        BY <2>1
    <2> QED
        BY <1>0, <2>2
<1> QED
    BY <1>6, <1>9, <1>10

\* Where the new range goes.
LEMMA MergedFits ==
    ASSUME Lists, NEW a \in Area, NEW s, NEW e, NEW m, MergeOk(a, s, e, m),
           Hits(m) = {}, NEW R, \A n : OnList(m.seq, n) => R[n] = range[n],
           NEW r, r.pgstart = m.pgstart, r.pgend = m.pgend
    PROVE  Fits(R, m.seq, Cardinality(Reached(range, m.seq, m.pgstart)) + 1, r)
<1> DEFINE q == m.seq
           Z == Reached(range, q, m.pgstart)
<1>0. /\ q \in Seq(RangeId) /\ Len(q) \in Nat /\ DOMAIN q = 1 .. Len(q)
      /\ \A n : OnList(q, n) => OnList(unpinned_list[a], n)
      /\ \A y, z : Ahead(q, y, z) => Ahead(unpinned_list[a], y, z)
      /\ Request(m.pgstart, m.pgend)
    BY DEF MergeOk, SubList
<1>1. Sorted(range, q)
    BY <1>0 DEF Lists, ListsInv, Sorted
<1>2. \A n : OnList(q, n) => RangeOk(range[n])
    BY <1>0, OnRange
<1>3. m.pgstart \in Int /\ m.pgend \in Int
    BY <1>0, RequestInts
<1>4. Hits(m) = {i \in Z : page_range_in_range(range[q[i]], m.pgstart, m.pgend)}
    BY DEF Hits
<1> HIDE DEF q
<1>5. Z = {i \in DOMAIN q : range[q[i]].pgend >= m.pgstart}
    BY <1>0, <1>1, <1>2, <1>3, ReachedIs
<1>6. PICK k \in 0 .. Len(q) : Z = 1 .. k /\ Cardinality(Z) = k
    BY <1>0, ReachedPrefix
<1> HIDE DEF Z
<1>7. ASSUME NEW i \in 1 .. Len(q)
      PROVE  /\ i < k + 1 => R[q[i]].pgstart > r.pgend
             /\ i >= k + 1 => R[q[i]].pgend < r.pgstart
    <2>1. OnList(q, q[i]) /\ R[q[i]] = range[q[i]] /\ RangeOk(range[q[i]])
        <3>1. OnList(q, q[i])
            BY <1>0, <1>7 DEF OnList
        <3> QED
            BY <1>2, <3>1 DEF q
    <2>2. range[q[i]].pgstart \in Int /\ range[q[i]].pgend \in Int
        BY <2>1, RangeInts
    <2>3. CASE i < k + 1
        <3>1. i \in Z
            BY <1>6, <2>3
        <3>2. range[q[i]].pgend >= m.pgstart /\ ~page_range_in_range(range[q[i]], m.pgstart, m.pgend)
            BY <1>4, <1>5, <3>1
        <3>3. ~Meets(range[q[i]], m.pgstart, m.pgend)
            BY <3>2 DEF Meets
        <3>4. range[q[i]].pgend < m.pgstart \/ range[q[i]].pgstart > m.pgend
            BY <1>0, <2>1, <3>3, MeetsPages
        <3>5. range[q[i]].pgstart > m.pgend
            BY <1>3, <2>2, <3>2, <3>4
        <3> QED
            BY <1>6, <2>1, <2>3, <3>5
    <2>4. CASE i >= k + 1
        <3>1. i \notin Z
            BY <1>6, <2>4
        <3>2. ~(range[q[i]].pgend >= m.pgstart)
            BY <1>0, <1>5, <3>1
        <3>3. range[q[i]].pgend < m.pgstart
            BY <1>3, <2>2, <3>2
        <3> QED
            BY <1>6, <2>1, <2>4, <3>3
    <2> QED
        BY <1>6, <2>3, <2>4
<1>8. k + 1 \in 1 .. Len(q) + 1
    BY <1>0, <1>6
<1>9. Fits(R, q, k + 1, r)
    BY <1>7, <1>8 DEF Fits
<1> QED
    BY <1>6, <1>9 DEF q, Z

\* range_del() in a step of its own.
LEMMA DelStep ==
    ASSUME Lists, NEW a \in Area, NEW D, \A n \in D : OnList(unpinned_list[a], n),
           range_del(a, D)
    PROVE  /\ Lists' /\ Local(a, range', unpinned_list')
           /\ \A n : OnList(unpinned_list'[a], n) <=> OnList(unpinned_list[a], n) /\ n \notin D
           /\ \A n \in RangeId : n \notin D => range'[n] = range[n]
<1> DEFINE q == list_del_all(unpinned_list[a], D)
           l == list_del_all(ashmem_lru_list, D)
           R == [n \in RangeId |-> IF n \in D THEN NULL ELSE range[n]]
           U == [unpinned_list EXCEPT ![a] = q]
<1>0. /\ unpinned_list \in [Area -> Seq(RangeId)]
      /\ unpinned_list[a] \in Seq(RangeId) /\ NoDup(unpinned_list[a])
      /\ ashmem_lru_list \in Seq(RangeId) /\ NoDup(ashmem_lru_list)
      /\ ListsInv(range, unpinned_list, ashmem_lru_list, lru_count)
    BY DEF Lists, ListsInv
<1>1. SubList(q, unpinned_list[a], D) /\ SubList(l, ashmem_lru_list, D)
    BY <1>0, DelAllSubList
<1>2. /\ range' = R /\ unpinned_list' = U /\ ashmem_lru_list' = l
      /\ lru_count' = lru_count - LruPages(range, D)
    BY DEF range_del
<1>3. D \subseteq RangeId /\ D \subseteq Used(range) /\ \A n \in D : RangeOk(range[n])
    BY OnRange
<1>4. LruPages(range, D) = Cardinality(Pairs(range, D))
    BY <1>3, UsedFinite, LruPagesCount
<1>5. U[a] = q /\ \A b \in Area : b # a => U[b] = unpinned_list[b]
    BY <1>0
<1> HIDE DEF q, l
<1>6. ListsInv(R, U, l, lru_count - Cardinality(Pairs(range, D)))
    BY <1>0, <1>1, DelLists
<1>7. \A n \in RangeId : n \notin D => R[n] = range[n]
    OBVIOUS
<1> HIDE DEF R, U
<1>8. Lists'
    BY <1>2, <1>4, <1>6 DEF Lists
<1>9. Local(a, R, U)
    BY <1>5, <1>7 DEF Local
<1> QED
    BY <1>1, <1>2, <1>5, <1>7, <1>8, <1>9 DEF SubList

\* The pages that go are those of the ranges that go.
LEMMA DelPages ==
    ASSUME Lists, NEW a \in Area, NEW D, \A n \in D : OnList(unpinned_list[a], n),
           range_del(a, D), NEW K,
           \A p : p \in K <=> \E n \in D : p \in Pages(range[n])
    PROVE  /\ Lists' /\ Local(a, range', unpinned_list')
           /\ \A p : Has(range', unpinned_list'[a], p)
                       <=> Has(range, unpinned_list[a], p) /\ p \notin K
           /\ \A p : HasPurged(range, unpinned_list[a], p) /\ p \notin K
                       => HasPurged(range', unpinned_list'[a], p)
<1>1. /\ Lists' /\ Local(a, range', unpinned_list')
      /\ \A n : OnList(unpinned_list'[a], n) <=> OnList(unpinned_list[a], n) /\ n \notin D
      /\ \A n \in RangeId : n \notin D => range'[n] = range[n]
    BY DelStep
<1>2. ASSUME NEW n, OnList(unpinned_list[a], n), n \notin D
      PROVE  range'[n] = range[n] /\ \A p \in Pages(range[n]) : p \notin K
    <2>1. n \in RangeId
        BY <1>2, OnRange
    <2>2. ASSUME NEW p \in Pages(range[n]), NEW d \in D, p \in Pages(range[d]) PROVE FALSE
        <3>1. range[n].pgstart > range[d].pgend \/ range[d].pgstart > range[n].pgend
            BY <1>2, Apart
        <3>2. /\ range[n].pgstart \in Int /\ range[n].pgend \in Int
              /\ range[d].pgstart \in Int /\ range[d].pgend \in Int
            BY <1>2, OnRange, RangeInts
        <3> QED
            BY <2>2, <3>1, <3>2 DEF Pages
    <2> QED
        BY <1>1, <1>2, <2>1, <2>2
<1>3. \A p : Has(range', unpinned_list'[a], p) <=> Has(range, unpinned_list[a], p) /\ p \notin K
    <2>1. ASSUME NEW p, Has(range', unpinned_list'[a], p)
          PROVE  Has(range, unpinned_list[a], p) /\ p \notin K
        <3>1. PICK n : OnList(unpinned_list'[a], n) /\ p \in Pages(range'[n])
            BY <2>1 DEF Has
        <3>2. OnList(unpinned_list[a], n) /\ n \notin D
            BY <1>1, <3>1
        <3>3. p \in Pages(range[n]) /\ p \notin K
            BY <1>2, <3>1, <3>2
        <3> QED
            BY <3>2, <3>3 DEF Has
    <2>2. ASSUME NEW p, Has(range, unpinned_list[a], p), p \notin K
          PROVE  Has(range', unpinned_list'[a], p)
        <3>1. PICK n : OnList(unpinned_list[a], n) /\ p \in Pages(range[n])
            BY <2>2 DEF Has
        <3>2. n \notin D
            BY <2>2, <3>1
        <3> QED
            BY <1>1, <1>2, <3>1, <3>2 DEF Has
    <2> QED
        BY <2>1, <2>2
<1>4. ASSUME NEW p, HasPurged(range, unpinned_list[a], p), p \notin K
      PROVE  HasPurged(range', unpinned_list'[a], p)
    <2>1. PICK n : OnList(unpinned_list[a], n) /\ p \in Pages(range[n]) /\ range[n].purged
        BY <1>4 DEF HasPurged
    <2>2. n \notin D
        BY <1>4, <2>1
    <2> QED
        BY <1>1, <1>2, <2>1, <2>2 DEF HasPurged
<1> QED
    BY <1>1, <1>3, <1>4

\* The ranges that a walk swallowed before it found itself inside another
\* one have no pages.
LEMMA InsideNothing ==
    ASSUME Lists, NEW a \in Area, NEW s, NEW e, NEW m, MergeOk(a, s, e, m), m.inside,
           NEW n \in Swallowed(a, m)
    PROVE  Pages(range[n]) = {}
<1>1. PICK k : Around(m, k)
    BY DEF MergeOk
<1>2. /\ OnList(m.seq, k) /\ range[k].pgstart <= m.pgstart /\ range[k].pgend >= m.pgend
      /\ OnList(unpinned_list[a], k)
    BY <1>1 DEF Around, page_range_subsumed_by_range, MergeOk, SubList
<1>3. OnList(unpinned_list[a], n) /\ n # k
    BY <1>2, SwallowedIs
<1>4. range[n].pgstart > range[k].pgend \/ range[k].pgstart > range[n].pgend
    BY <1>2, <1>3, Apart
<1>5. /\ range[n].pgstart \in Int /\ range[n].pgend \in Int
      /\ range[k].pgstart \in Int /\ range[k].pgend \in Int
      /\ m.pgstart \in Int /\ m.pgend \in Int
    BY <1>2, <1>3, OnRange, RangeInts, RequestInts DEF MergeOk
<1>6. ASSUME NEW p \in Pages(range[n]) PROVE FALSE
    <2>1. p \in m.pgstart .. m.pgend
        BY DEF MergeOk
    <2> QED
        BY <1>2, <1>4, <1>5, <2>1 DEF Pages
<1> QED
    BY <1>6

\* The new range of an unpin.
MergedRange(m) == [pgstart |-> m.pgstart, pgend |-> m.pgend, purged |-> m.purged]

LEMMA UnpinAllocStep ==
    ASSUME Lists, NEW a \in Area, NEW s, NEW e, NEW m, MergeOk(a, s, e, m), Hits(m) = {},
           NEW new \in Free, UnpinAlloc(a, m, new)
    PROVE  /\ Lists' /\ Local(a, range', unpinned_list')
           /\ range'[new] = MergedRange(m)
           /\ \A n : OnList(unpinned_list'[a], n) <=> OnList(m.seq, n) \/ n = new
           /\ \A n : OnList(m.seq, n) => range'[n] = range[n]
<1> DEFINE D == Swallowed(a, m)
           r == MergedRange(m)
           q == m.seq
           l == list_del_all(ashmem_lru_list, D)
           at == Cardinality(Reached(range, m.seq, m.pgstart)) + 1
           R1 == [n \in RangeId |-> IF n \in D THEN NULL ELSE range[n]]
           U1 == [unpinned_list EXCEPT ![a] = q]
           c1 == lru_count - Cardinality(Pairs(range, D))
           R2 == [R1 EXCEPT ![new] = r]
           U2 == [U1 EXCEPT ![a] = InsertAt(U1[a], at, new)]
<1>0. /\ unpinned_list \in [Area -> Seq(RangeId)]
      /\ ashmem_lru_list \in Seq(RangeId) /\ NoDup(ashmem_lru_list)
      /\ ListsInv(range, unpinned_list, ashmem_lru_list, lru_count)
      /\ new \in RangeId /\ range[new] = NULL
    BY DEF Lists, ListsInv, Free
<1>1. SubList(q, unpinned_list[a], D) /\ q \in Seq(RangeId)
    BY DEF MergeOk, SubList
<1>2. SubList(l, ashmem_lru_list, D)
    BY <1>0, DelAllSubList
<1>3. \A n \in D : OnList(unpinned_list[a], n)
    BY SwallowedIs
<1>4. D \subseteq RangeId /\ D \subseteq Used(range) /\ \A n \in D : RangeOk(range[n])
    BY <1>3, OnRange
<1>5. LruPages(range, D) = Cardinality(Pairs(range, D))
    <2> HIDE DEF D
    <2> QED
        BY <1>4, UsedFinite, LruPagesCount
<1>6. ListsInv(R1, U1, l, c1)
    <2> HIDE DEF D, q, l
    <2> QED
        BY <1>0, <1>1, <1>2, <1>3, DelLists
<1>7. RangeOk(r) /\ r.pgstart = m.pgstart /\ r.pgend = m.pgend /\ r.purged = m.purged
    BY DEF MergedRange, MergeOk, MergeRec, Request, RangeOk, RangeRec
<1>8. U1[a] = q /\ R1[new] = NULL
    BY <1>0
<1>9. ASSUME NEW n, OnList(q, n) PROVE n \in RangeId /\ n # new /\ R1[n] = range[n]
    <2>1. OnList(unpinned_list[a], n) /\ n \notin D
        BY <1>1, <1>9 DEF SubList
    <2>2. n \in RangeId /\ range[n] # NULL
        BY <2>1, OnRange
    <2> QED
        BY <1>0, <2>1, <2>2
<1>10. Fits(R1, q, at, r)
    <2> HIDE DEF R1, r
    <2> QED
        BY <1>7, <1>9, MergedFits
<1>11. ListsInv(R2, U2, IF r.purged THEN l ELSE Append(l, new), c1 + Weight(r))
    <2> HIDE DEF R1, U1, l, c1, r, at, q
    <2> QED
        BY <1>0, <1>6, <1>7, <1>8, <1>10, InsLists
<1>12. range' = R2
    <2>1. range' = [n \in RangeId |-> IF n = new THEN r ELSE IF n \in D THEN NULL ELSE range[n]]
        BY DEF UnpinAlloc, Swallowed, MergedRange
    <2> HIDE DEF r, D
    <2> QED
        BY <2>1
<1>13. unpinned_list' = U2
    <2>1. unpinned_list' = [unpinned_list EXCEPT ![a] = InsertAt(q, at, new)]
        BY DEF UnpinAlloc
    <2>2. U2 = [U1 EXCEPT ![a] = InsertAt(q, at, new)]
        BY <1>8
    <2> DEFINE v == InsertAt(q, at, new)
    <2>3. unpinned_list' = [unpinned_list EXCEPT ![a] = v] /\ U2 = [U1 EXCEPT ![a] = v]
        BY <2>1, <2>2
    <2>4. U1 = [unpinned_list EXCEPT ![a] = q]
        OBVIOUS
    <2> HIDE DEF v, U2, U1, q
    <2> QED
        BY <1>0, <2>3, <2>4
<1>14. ashmem_lru_list' = IF r.purged THEN l ELSE Append(l, new)
    BY DEF UnpinAlloc, Swallowed, MergedRange
<1>15. lru_count' = c1 + Weight(r)
    <2>1. lru_count' = lru_count - LruPages(range, D) + IF r.purged THEN 0 ELSE range_size(r)
        BY DEF UnpinAlloc, Swallowed, MergedRange
    <2> HIDE DEF D, r
    <2> QED
        BY <1>5, <2>1 DEF Weight
<1>16. Lists'
    <2> HIDE DEF R2, U2, l, c1, r
    <2> QED
        BY <1>11, <1>12, <1>13, <1>14, <1>15 DEF Lists
<1>17. R2[new] = r /\ \A n \in RangeId : n # new => R2[n] = R1[n]
    <2> HIDE DEF r
    <2> QED
        BY <1>0
<1>18. Local(a, R2, U2)
    <2>1. \A b \in Area : b # a => U2[b] = unpinned_list[b]
        BY <1>0
    <2>2. ASSUME NEW n \in RangeId, ~OnList(unpinned_list[a], n), range[n] # NULL
          PROVE  R2[n] = range[n]
        <3>1. n # new /\ n \notin D
            BY <1>0, <1>3, <2>2
        <3> QED
            BY <1>17, <3>1
    <2> HIDE DEF R2, U2
    <2> QED
        BY <2>1, <2>2 DEF Local
<1>19. \A n : OnList(U2[a], n) <=> OnList(q, n) \/ n = new
    <2>1. at \in 1 .. Len(q) + 1
        BY <1>10 DEF Fits
    <2>2. U2[a] = InsertAt(q, at, new)
        BY <1>0, <1>8
    <2>3. \A n : OnList(InsertAt(q, at, new), n) <=> OnList(q, n) \/ n = new
        <3> HIDE DEF at, q
        <3> QED
            BY <1>0, <1>1, <2>1, InsertList
    <2> QED
        BY <2>2, <2>3
<1>20. \A n : OnList(q, n) => R2[n] = range[n]
    BY <1>9, <1>17
<1> HIDE DEF R2, U2
<1> QED
    BY <1>12, <1>13, <1>16, <1>17, <1>18, <1>19, <1>20

\* The pages that an unpin adds are those of its request.
LEMMA UnpinAllocPages ==
    ASSUME Lists, NEW a \in Area, NEW s, NEW e, NEW m, MergeOk(a, s, e, m), Hits(m) = {},
           NEW new \in Free, UnpinAlloc(a, m, new)
    PROVE  /\ Lists' /\ Local(a, range', unpinned_list')
           /\ \A p : Has(range', unpinned_list'[a], p)
                       <=> Has(range, unpinned_list[a], p) \/ p \in s .. e
           /\ \A p : HasPurged(range, unpinned_list[a], p) => HasPurged(range', unpinned_list'[a], p)
<1> DEFINE D == Swallowed(a, m)
<1>1. /\ Lists' /\ Local(a, range', unpinned_list')
      /\ range'[new] = MergedRange(m)
      /\ \A n : OnList(unpinned_list'[a], n) <=> OnList(m.seq, n) \/ n = new
      /\ \A n : OnList(m.seq, n) => range'[n] = range[n]
    BY UnpinAllocStep
<1>2. /\ \A p : p \in m.pgstart .. m.pgend <=> p \in s .. e \/ \E n \in D : p \in Pages(range[n])
      /\ \A n \in D : range[n].purged => m.purged
    BY DEF MergeOk
<1>3. Pages(range'[new]) = m.pgstart .. m.pgend /\ range'[new].purged = m.purged
    BY <1>1 DEF MergedRange, Pages
<1>4. \A n : OnList(unpinned_list[a], n) <=> OnList(m.seq, n) \/ n \in D
    BY SwallowedIs DEF MergeOk, SubList
<1> HIDE DEF D
<1>5. ASSUME NEW p, Has(range', unpinned_list'[a], p)
      PROVE  Has(range, unpinned_list[a], p) \/ p \in s .. e
    <2>1. PICK n : OnList(unpinned_list'[a], n) /\ p \in Pages(range'[n])
        BY <1>5 DEF Has
    <2>2. CASE OnList(m.seq, n)
        BY <1>1, <1>4, <2>1, <2>2 DEF Has
    <2>3. CASE n = new
        BY <1>2, <1>3, <1>4, <2>1, <2>3 DEF Has
    <2> QED
        BY <1>1, <2>1, <2>2, <2>3
<1>6. ASSUME NEW p, Has(range, unpinned_list[a], p) \/ p \in s .. e
      PROVE  Has(range', unpinned_list'[a], p)
    <2>1. CASE p \in m.pgstart .. m.pgend
        BY <1>1, <1>3, <2>1 DEF Has
    <2>2. CASE p \notin m.pgstart .. m.pgend
        <3>1. PICK n : OnList(unpinned_list[a], n) /\ p \in Pages(range[n])
            BY <1>2, <1>6, <2>2 DEF Has
        <3>2. n \notin D
            BY <1>2, <2>2, <3>1
        <3> QED
            BY <1>1, <1>4, <3>1, <3>2 DEF Has
    <2> QED
        BY <2>1, <2>2
<1>7. ASSUME NEW p, HasPurged(range, unpinned_list[a], p)
      PROVE  HasPurged(range', unpinned_list'[a], p)
    <2>1. PICK n : OnList(unpinned_list[a], n) /\ p \in Pages(range[n]) /\ range[n].purged
        BY <1>7 DEF HasPurged
    <2>2. CASE n \in D
        <3>1. p \in Pages(range'[new]) /\ range'[new].purged
            BY <1>2, <1>3, <2>1, <2>2
        <3> QED
            BY <1>1, <3>1 DEF HasPurged
    <2>3. CASE n \notin D
        BY <1>1, <1>4, <2>1, <2>3 DEF HasPurged
    <2> QED
        BY <2>2, <2>3
<1> QED
    BY <1>1, <1>5, <1>6, <1>7

\* A step that changes no page and loses nothing.
LEMMA QuietMaps ==
    ASSUME UnpinnedPages' = UnpinnedPages, lost' = lost, told' = FALSE, oom' = FALSE
    PROVE  AreaPages!Next
BY DEF AreaPages!Next, AreaPages!Quiet

LEMMA LostSame ==
    ASSUME Lists, LostInv, NEW a \in Area, Local(a, range', unpinned_list'), lost' = lost,
           \A p : HasPurged(range, unpinned_list[a], p) => HasPurged(range', unpinned_list'[a], p)
    PROVE  LostInv'
<1>1. lost = [lost EXCEPT ![a] = @ \ {}]
    BY DEF LostInv, LostIn
<1>2. LostIn(range', unpinned_list', [lost EXCEPT ![a] = @ \ {}])
    BY LocalLost DEF LostInv
<1> QED
    BY <1>1, <1>2 DEF LostInv

LEMMA UnpinStep ==
    ASSUME Lists, LostInv, NEW a \in Area, NEW s, NEW e, Request(s, e), ashmem_unpin(a, s, e)
    PROVE  /\ Lists' /\ LostInv' /\ AreaPages!Next
           /\ told' \in BOOLEAN /\ oom' \in BOOLEAN /\ ashmem_mutex' \in {ashmem_mutex, "dead"}
           /\ UNCHANGED areaVars
<1> DEFINE m == Merged(a, s, e)
           D == Swallowed(a, m)
           K == UNION {Pages(range[n]) : n \in D}
<1>0. told' = FALSE /\ UNCHANGED areaVars
    BY DEF ashmem_unpin
<1>1. MergeOk(a, s, e, m) /\ Stable(m)
    BY MergedIs
<1>2. \A n \in D : OnList(unpinned_list[a], n)
    BY SwallowedIs
<1>3. \A p : p \in K <=> \E n \in D : p \in Pages(range[n])
    OBVIOUS
<1>4. \/ m.inside /\ range_del(a, D) /\ oom' = FALSE /\ UNCHANGED <<ashmem_mutex, lost>>
      \/ /\ ~m.inside /\ \E new \in Free : UnpinAlloc(a, m, new)
         /\ oom' = FALSE /\ UNCHANGED <<ashmem_mutex, lost>>
      \/ /\ range_del(a, D) /\ lost' = [lost EXCEPT ![a] = @ \ K]
         /\ oom' = TRUE /\ ashmem_mutex' \in {ashmem_mutex, "dead"}
    BY DEF ashmem_unpin, Swallowed, ReclaimInside
<1> HIDE DEF m, D, K
<1>5. ASSUME m.inside, range_del(a, D), oom' = FALSE, UNCHANGED <<ashmem_mutex, lost>>
      PROVE  Lists' /\ LostInv' /\ AreaPages!Next
    <2>1. \A n \in D : Pages(range[n]) = {}
        BY <1>1, <1>5, InsideNothing DEF D
    <2>2. K = {}
        BY <1>3, <2>1
    <2>3. /\ Lists' /\ Local(a, range', unpinned_list')
          /\ \A p : Has(range', unpinned_list'[a], p)
                      <=> Has(range, unpinned_list[a], p) /\ p \notin K
          /\ \A p : HasPurged(range, unpinned_list[a], p) /\ p \notin K
                      => HasPurged(range', unpinned_list'[a], p)
        BY <1>2, <1>3, <1>5, DelPages
    <2>4. LostInv'
        BY <1>5, <2>2, <2>3, LostSame
    <2>5. PagesOf(range', unpinned_list') = [PagesOf(range, unpinned_list) EXCEPT ![a] = @ \ K]
        BY <2>3, LocalMinus
    <2>6. UnpinnedPages' = UnpinnedPages
        <3>1. UnpinnedPages' = [UnpinnedPages EXCEPT ![a] = @ \ K]
            BY <2>5, UnpinnedIs
        <3> QED
            BY <2>2, <3>1, UnpinnedFun
    <2>7. AreaPages!Next
        BY <1>0, <1>5, <2>6, QuietMaps
    <2> QED
        BY <2>3, <2>4, <2>7
<1>6. ASSUME ~m.inside, NEW new \in Free, UnpinAlloc(a, m, new),
             oom' = FALSE, UNCHANGED <<ashmem_mutex, lost>>
      PROVE  Lists' /\ LostInv' /\ AreaPages!Next
    <2> DEFINE I == s .. e
    <2>0. Hits(m) = {}
        BY <1>1, <1>6 DEF Stable
    <2>1. /\ Lists' /\ Local(a, range', unpinned_list')
          /\ \A p : Has(range', unpinned_list'[a], p) <=> Has(range, unpinned_list[a], p) \/ p \in I
          /\ \A p : HasPurged(range, unpinned_list[a], p) => HasPurged(range', unpinned_list'[a], p)
        BY <1>1, <1>6, <2>0, UnpinAllocPages
    <2>2. LostInv'
        BY <1>6, <2>1, LostSame
    <2>3. CASE s # MaxSize
        <3>1. I \in AreaPages!Interval
            BY <2>3, RequestInterval
        <3> HIDE DEF I
        <3>2. PagesOf(range', unpinned_list') = [PagesOf(range, unpinned_list) EXCEPT ![a] = @ \cup I]
            BY <2>1, LocalPlus
        <3>3. UnpinnedPages' = [UnpinnedPages EXCEPT ![a] = @ \cup I]
            BY <3>2, UnpinnedIs
        <3>4. lost' = lost /\ ~oom' /\ ~told'
            BY <1>0, <1>6
        <3>5. AreaPages!Unpin(a, I)
            BY <3>3, <3>4 DEF AreaPages!Unpin
        <3> QED
            BY <2>1, <2>2, <3>1, <3>5 DEF AreaPages!Next
    <2>4. CASE s = MaxSize
        <3>1. I = {}
            BY <2>4, RequestNothing
        <3> HIDE DEF I
        <3>2. PagesOf(range', unpinned_list') = [PagesOf(range, unpinned_list) EXCEPT ![a] = @ \cup I]
            BY <2>1, LocalPlus
        <3>3. UnpinnedPages' = [UnpinnedPages EXCEPT ![a] = @ \cup I]
            BY <3>2, UnpinnedIs
        <3>4. UnpinnedPages' = UnpinnedPages
            BY <3>1, <3>3, UnpinnedFun
        <3>5. AreaPages!Next
            BY <1>0, <1>6, <3>4, QuietMaps
        <3> QED
            BY <2>1, <2>2, <3>5
    <2> QED
        BY <2>3, <2>4
<1>7. ASSUME range_del(a, D), lost' = [lost EXCEPT ![a] = @ \ K], oom' = TRUE
      PROVE  Lists' /\ LostInv' /\ AreaPages!Next
    <2>1. /\ Lists' /\ Local(a, range', unpinned_list')
          /\ \A p : Has(range', unpinned_list'[a], p)
                      <=> Has(range, unpinned_list[a], p) /\ p \notin K
          /\ \A p : HasPurged(range, unpinned_list[a], p) /\ p \notin K
                      => HasPurged(range', unpinned_list'[a], p)
        BY <1>2, <1>3, <1>7, DelPages
    <2>2. LostInv' /\ AreaPages!Forget(a)
        BY <1>7, <2>1, ForgetMaps
    <2>3. AreaPages!UnpinOom(a)
        BY <1>0, <1>7, <2>2 DEF AreaPages!UnpinOom
    <2> QED
        BY <2>1, <2>2, <2>3 DEF AreaPages!Next
<1>8. Lists' /\ LostInv' /\ AreaPages!Next
    BY <1>4, <1>5, <1>6, <1>7
<1>9. oom' \in BOOLEAN /\ ashmem_mutex' \in {ashmem_mutex, "dead"} /\ told' \in BOOLEAN
    BY <1>0, <1>4
<1> QED
    BY <1>0, <1>8, <1>9

-----------------------------------------------------------------------------
(* The shrinker and the close. *)
LEMMA ShrinkStep ==
    ASSUME Lists, LostInv, NEW nr, ashmem_shrink(nr)
    PROVE  Lists' /\ LostInv' /\ AreaPages!Next
<1> DEFINE S == {ashmem_lru_list[i] : i \in Scanned(nr)}
           l == list_del_all(ashmem_lru_list, S)
           R == [n \in RangeId |-> IF n \in S THEN [range[n] EXCEPT !.purged = TRUE] ELSE range[n]]
<1>0. /\ ashmem_lru_list \in Seq(RangeId) /\ NoDup(ashmem_lru_list)
      /\ ListsInv(range, unpinned_list, ashmem_lru_list, lru_count)
      /\ range \in [RangeId -> {NULL} \cup RangeRec]
      /\ \A n \in RangeId : OnList(ashmem_lru_list, n) <=> n \in Used(range) /\ ~range[n].purged
      /\ \A n \in Used(range) : RangeOk(range[n])
      /\ lost \in [Area -> SUBSET Page]
    BY DEF Lists, ListsInv, LostInv, LostIn
<1>1. /\ range' = R /\ unpinned_list' = unpinned_list /\ ashmem_lru_list' = l
      /\ lru_count' = lru_count - LruPages(range, S)
      /\ lost' = [a \in Area |-> lost[a] \cup
                     UNION {Pages(range[n]) : n \in S \cap ToSet(unpinned_list[a])}]
      /\ told' = FALSE /\ oom' = FALSE
    BY DEF ashmem_shrink, Quiet
<1>2. \A n \in S : OnList(ashmem_lru_list, n)
    BY DEF Scanned, OnList
<1>3. \A n \in S : n \in RangeId /\ n \in Used(range) /\ RangeOk(range[n])
    <2>1. \A n \in S : n \in RangeId
        BY <1>0, <1>2, OnType
    <2> QED
        BY <1>0, <1>2, <2>1
<1> HIDE DEF S
<1>4. LruPages(range, S) = Cardinality(Pairs(range, S))
    BY <1>3, UsedFinite, LruPagesCount
<1>5. SubList(l, ashmem_lru_list, S)
    BY <1>0, DelAllSubList
<1>6. ListsInv(R, unpinned_list, l, lru_count - Cardinality(Pairs(range, S)))
    <2> HIDE DEF l
    <2> QED
        BY <1>0, <1>2, <1>5, PurgeLists
<1>7. Lists'
    <2> HIDE DEF R, l
    <2> QED
        BY <1>1, <1>4, <1>6 DEF Lists
<1>8. ASSUME NEW n \in RangeId, range[n] # NULL
      PROVE  /\ R[n].pgstart = range[n].pgstart /\ R[n].pgend = range[n].pgend
             /\ Pages(R[n]) = Pages(range[n])
             /\ range[n].purged \/ n \in S => R[n].purged
    <2>1. range[n] \in RangeRec
        BY <1>0, <1>8
    <2>2. CASE n \in S
        <3>1. R[n] = [range[n] EXCEPT !.purged = TRUE]
            BY <2>2
        <3> HIDE DEF R
        <3>2. R[n].pgstart = range[n].pgstart /\ R[n].pgend = range[n].pgend /\ R[n].purged
            BY <2>1, <3>1 DEF RangeRec
        <3> QED
            BY <3>2 DEF Pages
    <2>3. CASE n \notin S
        <3>1. R[n] = range[n]
            BY <2>3
        <3> HIDE DEF R
        <3> QED
            BY <2>3, <3>1
    <2> QED
        BY <2>2, <2>3
<1> HIDE DEF R
<1>9. ASSUME NEW a \in Area
      PROVE  /\ \A p : Has(R, unpinned_list[a], p) <=> Has(range, unpinned_list[a], p)
             /\ \A p : HasPurged(range, unpinned_list[a], p) => HasPurged(R, unpinned_list[a], p)
             /\ \A p : p \in lost'[a] <=> \/ p \in lost[a]
                                          \/ \E n \in S : OnList(unpinned_list[a], n) /\ p \in Pages(range[n])
    <2>1. \A n : OnList(unpinned_list[a], n) => n \in RangeId /\ range[n] # NULL
        BY OnRange
    <2>2. \A p : Has(R, unpinned_list[a], p) <=> Has(range, unpinned_list[a], p)
        BY <1>8, <2>1 DEF Has
    <2>3. \A p : HasPurged(range, unpinned_list[a], p) => HasPurged(R, unpinned_list[a], p)
        BY <1>8, <2>1 DEF HasPurged
    <2>4. \A n : n \in ToSet(unpinned_list[a]) <=> OnList(unpinned_list[a], n)
        BY DEF ToSet, OnList
    <2>5. lost'[a] = lost[a] \cup UNION {Pages(range[n]) : n \in S \cap ToSet(unpinned_list[a])}
        BY <1>1
    <2> QED
        BY <2>2, <2>3, <2>4, <2>5
<1>10. ASSUME NEW a \in Area, NEW p \in lost'[a]
       PROVE  HasPurged(R, unpinned_list[a], p) /\ p \in Page
    <2>1. CASE p \in lost[a]
        <3>1. HasPurged(range, unpinned_list[a], p)
            BY <2>1 DEF LostInv, LostIn
        <3> QED
            BY <1>0, <1>9, <2>1, <3>1
    <2>2. ASSUME NEW n \in S, OnList(unpinned_list[a], n), p \in Pages(range[n])
          PROVE  HasPurged(R, unpinned_list[a], p) /\ p \in Page
        <3>1. n \in RangeId /\ range[n] # NULL /\ RangeOk(range[n])
            BY <2>2, OnRange
        <3>2. HasPurged(R, unpinned_list[a], p)
            BY <1>8, <2>2, <3>1 DEF HasPurged
        <3>3. /\ range[n].pgstart \in Int /\ range[n].pgend \in Int /\ range[n].pgstart >= 0
              /\ range[n].pgend < MaxSize /\ MaxSize \in Int
            BY <3>1, RangeInts
        <3>4. p \in Page
            BY <2>2, <3>3 DEF Pages, Page
        <3> QED
            BY <3>2, <3>4
    <2> QED
        BY <1>9, <1>10, <2>1, <2>2
<1>11. LostInv'
    <2>1. lost' \in [Area -> SUBSET Page]
        <3>1. \A a \in Area : lost'[a] \in SUBSET Page
            BY <1>10
        <3>2. lost' = [a \in Area |-> lost'[a]]
            BY <1>1
        <3> QED
            BY <3>1, <3>2
    <2>2. LostIn(R, unpinned_list, lost')
        BY <1>10, <2>1 DEF LostIn
    <2> QED
        BY <1>1, <2>2 DEF LostInv
<1>12. UnpinnedPages' = UnpinnedPages
    <2>1. ASSUME NEW a \in Area PROVE PagesOf(R, unpinned_list)[a] = PagesOf(range, unpinned_list)[a]
        <3>1. \A p : p \in PagesOf(R, unpinned_list)[a] <=> p \in PagesOf(range, unpinned_list)[a]
            BY <1>9, PagesOn
        <3> QED
            BY <3>1
    <2>2. PagesOf(R, unpinned_list) = [a \in Area |-> PagesOf(R, unpinned_list)[a]]
          /\ PagesOf(range, unpinned_list) = [a \in Area |-> PagesOf(range, unpinned_list)[a]]
        BY DEF PagesOf
    <2>3. PagesOf(R, unpinned_list) = PagesOf(range, unpinned_list)
        BY <2>1, <2>2
    <2> QED
        BY <1>1, <2>3, UnpinnedIs
<1>13. ASSUME NEW a \in Area
       PROVE  lost[a] \subseteq lost'[a] /\ lost'[a] \subseteq UnpinnedPages[a]
    <2>1. lost[a] \subseteq lost'[a]
        BY <1>9
    <2>2. ASSUME NEW p \in lost'[a] PROVE p \in UnpinnedPages[a]
        <3>1. Has(R, unpinned_list[a], p)
            BY <1>10 DEF HasPurged, Has
        <3>2. Has(range, unpinned_list[a], p)
            BY <1>9, <3>1
        <3> QED
            BY <3>2, PagesOn, UnpinnedIs
    <2> QED
        BY <2>1, <2>2
<1>14. AreaPages!Purge
    BY <1>1, <1>12, <1>13 DEF AreaPages!Purge
<1> QED
    BY <1>7, <1>11, <1>14 DEF AreaPages!Next

LEMMA ReleaseStep ==
    ASSUME Lists, LostInv, NEW a \in Area, ashmem_release(a)
    PROVE  Lists' /\ LostInv' /\ AreaPages!Next
<1> DEFINE D == ToSet(unpinned_list[a])
<1>0. /\ range_del(a, D) /\ lost' = [lost EXCEPT ![a] = {}] /\ told' = FALSE /\ oom' = FALSE
      /\ lost \in [Area -> SUBSET Page]
    BY DEF ashmem_release, Quiet, LostInv, LostIn
<1>1. \A n : n \in D <=> OnList(unpinned_list[a], n)
    BY DEF ToSet, OnList
<1> HIDE DEF D
<1>2. /\ Lists' /\ Local(a, range', unpinned_list')
      /\ \A n : OnList(unpinned_list'[a], n) <=> OnList(unpinned_list[a], n) /\ n \notin D
    BY <1>0, <1>1, DelStep
<1>3. \A n : ~OnList(unpinned_list'[a], n)
    BY <1>1, <1>2
<1> DEFINE K == UnpinnedPages[a]
<1>4. \A p : p \in K <=> Has(range, unpinned_list[a], p)
    BY PagesOn, UnpinnedIs
<1>5. \A p : HasPurged(range, unpinned_list[a], p) => p \in K
    BY <1>4 DEF HasPurged, Has
<1>6. lost[a] \subseteq K
    BY LostPages, UnpinnedIs DEF LostInv
<1> HIDE DEF K
<1>7. \A p : Has(range', unpinned_list'[a], p) <=> Has(range, unpinned_list[a], p) /\ p \notin K
    BY <1>3, <1>4 DEF Has
<1>8. lost' = [lost EXCEPT ![a] = @ \ K]
    BY <1>0, <1>6
<1>9. LostInv' /\ UnpinnedPages' = [UnpinnedPages EXCEPT ![a] = @ \ K]
    BY <1>2, <1>5, <1>7, <1>8, ForgetMaps
<1>10. UnpinnedPages' = [UnpinnedPages EXCEPT ![a] = {}]
    BY <1>9 DEF K
<1>11. AreaPages!Close(a)
    BY <1>0, <1>10 DEF AreaPages!Close
<1> QED
    BY <1>2, <1>9, <1>11 DEF AreaPages!Next

-----------------------------------------------------------------------------
(***************************************************************************)
(* The inductive invariant.  ListsConsistent alone is not inductive: that  *)
(* a cut range stays in its place needs the types of the ranges, and that  *)
(* a request is one of a walk's needs the size that an area with a backing *)
(* file has.                                                               *)
(***************************************************************************)
AreaOk ==
    /\ size \in [Area -> {NULL, 0} \cup Sizes]
    /\ file \in [Area -> {NULL} \cup Sizes]
    /\ set_size \in [Area -> {NULL} \cup Sizes]
    /\ \A a \in Area : file[a] # NULL => size[a] \in Sizes
    /\ ashmem_mutex \in {"free", "dead"}
    /\ told \in BOOLEAN /\ oom \in BOOLEAN

AshInv == AreaOk /\ Lists /\ LostInv

LEMMA AshInvType ==
    ASSUME AshInv
    PROVE  AshTypeOK
<1>1. lru_count \in Nat
    BY UsedFinite DEF AshInv, Lists, ListsInv
<1> QED
    BY <1>1 DEF AshInv, AreaOk, Lists, ListsInv, LostInv, LostIn, AshTypeOK

LEMMA AshInvLists ==
    ASSUME AshInv
    PROVE  ListsConsistent
<1>0. /\ unpinned_list \in [Area -> Seq(RangeId)]
      /\ \A a \in Area : NoDup(unpinned_list[a]) /\ Sorted(range, unpinned_list[a])
      /\ \A a, b \in Area : \A n : OnList(unpinned_list[a], n) /\ OnList(unpinned_list[b], n) => a = b
      /\ \A n \in RangeId : n \in Used(range) <=> \E a \in Area : OnList(unpinned_list[a], n)
      /\ NoDup(ashmem_lru_list)
      /\ \A n \in RangeId : OnList(ashmem_lru_list, n) <=> n \in Used(range) /\ ~range[n].purged
      /\ lru_count = Cardinality(Pairs(range, Used(range)))
      /\ \A n \in Used(range) : RangeOk(range[n])
    BY DEF AshInv, Lists, ListsInv
<1>1. \A a \in Area : \A i, j \in DOMAIN unpinned_list[a] :
         i < j => range[unpinned_list[a][i]].pgstart > range[unpinned_list[a][j]].pgend
    BY <1>0 DEF Sorted, Ahead
<1>2. RangeId \ Free = Used(range)
    BY DEF Free, Used
<1>3. lru_count = LruPages(range, RangeId \ Free)
    <2>1. LruPages(range, Used(range)) = Cardinality(Pairs(range, Used(range)))
        BY <1>0, UsedFinite, LruPagesCount
    <2> QED
        BY <1>0, <1>2, <2>1
<1>4. \A n \in RangeId : n \in Used(range) <=> range[n] # NULL
    BY DEF Used
<1> QED
    BY <1>0, <1>1, <1>3, <1>4 DEF ListsConsistent

LEMMA AshInvStatus ==
    ASSUME AshInv
    PROVE  UnpinnedFound
<1>1. ASSUME NEW a \in Area, file[a] # NULL,
             NEW s \in 0 .. size[a] - 1, NEW e \in s .. size[a] - 1, AnyUnpinned(a, s, e)
      PROVE  IsUnpinned(a, s, e)
    <2> DEFINE q == unpinned_list[a]
    <2>1. size[a] \in 1 .. MaxSize /\ MaxSize \in Nat
        BY <1>1, AshmemAssumption DEF AshInv, AreaOk
    <2>2. Request(s, e) /\ s <= e /\ s \in Int
        BY <1>1, <2>1 DEF Request, Page
    <2>3. q \in Seq(RangeId) /\ Sorted(range, q) /\ \A n : OnList(q, n) => RangeOk(range[n])
        BY OnRange DEF AshInv, Lists, ListsInv
    <2>4. IsUnpinned(a, s, e) <=> \E i \in Reached(range, q, s) : page_range_in_range(range[q[i]], s, e)
        BY DEF IsUnpinned
    <2>5. PICK p \in s .. e : Has(range, q, p)
        BY <1>1, PagesOn, UnpinnedIs DEF AnyUnpinned
    <2> HIDE DEF q
    <2>6. Reached(range, q, s) = {i \in DOMAIN q : range[q[i]].pgend >= s}
        BY <2>2, <2>3, ReachedIs
    <2>7. PICK n : OnList(q, n) /\ p \in Pages(range[n])
        BY <2>5 DEF Has
    <2>8. Meets(range[n], s, e)
        BY <2>2, <2>3, <2>5, <2>7, MeetsPages
    <2> QED
        BY <2>4, <2>6, <2>7, <2>8 DEF OnList, Meets
<1> QED
    BY <1>1 DEF UnpinnedFound

LEMMA AshStart ==
    ASSUME AshInit
    PROVE  AshInv /\ AreaPages!Init
<1>1. AreaOk
    BY DEF AshInit, AreaOk
<1>2. Used(range) = {}
    BY DEF AshInit, Used
<1>3. Lists
    <2>1. Pairs(range, {}) = {}
        BY DEF Pairs
    <2>2. Cardinality(Pairs(range, Used(range))) = 0
        BY <1>2, <2>1, FS_EmptySet
    <2>3. /\ range \in [RangeId -> {NULL} \cup RangeRec]
          /\ unpinned_list \in [Area -> Seq(RangeId)] /\ ashmem_lru_list \in Seq(RangeId)
          /\ ashmem_lru_list = <<>> /\ lru_count = 0
          /\ \A a \in Area : unpinned_list[a] = <<>>
        BY DEF AshInit
    <2>4. NoDup(<<>>) /\ (\A n : ~OnList(<<>>, n)) /\ \A y, z : ~Ahead(<<>>, y, z)
        BY DEF NoDup, OnList, Ahead
    <2> QED
        BY <1>2, <2>2, <2>3, <2>4 DEF Lists, ListsInv, Sorted
<1>4. LostInv
    BY DEF AshInit, LostInv, LostIn
<1>5. AreaPages!Init
    <2>1. \A a \in Area : ToSet(unpinned_list[a]) = {}
        BY DEF AshInit, ToSet
    <2>2. UnpinnedPages = [a \in Area |-> {}]
        BY <2>1 DEF UnpinnedPages
    <2> QED
        BY <2>2 DEF AshInit, AreaPages!Init
<1> QED
    BY <1>1, <1>3, <1>4, <1>5 DEF AshInv

LEMMA AshStep ==
    ASSUME AshInv, [AshNext]_ashVars
    PROVE  AshInv' /\ [AreaPages!Next]_(AreaPages!pageVars)
<1>0. AreaOk /\ Lists /\ LostInv
    BY DEF AshInv
<1>1. ASSUME listVars' = listVars, lost' = lost
      PROVE  Lists' /\ LostInv' /\ UnpinnedPages' = UnpinnedPages
    <2>1. /\ range' = range /\ unpinned_list' = unpinned_list
          /\ ashmem_lru_list' = ashmem_lru_list /\ lru_count' = lru_count
        BY <1>1 DEF listVars
    <2>2. Lists'
        BY <1>0, <2>1 DEF Lists
    <2>3. LostInv'
        BY <1>0, <1>1, <2>1 DEF LostInv
    <2> QED
        BY <2>1, <2>2, <2>3 DEF UnpinnedPages
<1>2. ASSUME listVars' = listVars, lost' = lost, Quiet, AreaOk' PROVE AshInv' /\ AreaPages!Next
    <2>1. Lists' /\ LostInv' /\ UnpinnedPages' = UnpinnedPages
        BY <1>1, <1>2
    <2>2. AreaPages!Next
        BY <1>2, <2>1, QuietMaps DEF Quiet
    <2> QED
        BY <1>2, <2>1, <2>2 DEF AshInv
<1>3. NULL \notin Sizes /\ 0 \notin Sizes /\ NULL # 0 /\ Sizes \subseteq 1 .. MaxSize /\ MaxSize \in Nat
    <2>1. MaxSize \in Nat /\ Sizes \subseteq 1 .. MaxSize /\ NULL \notin Nat
        BY AshmemAssumption
    <2>2. \A k \in Sizes : k \in Nat /\ k # 0
        BY <2>1
    <2>3. 0 \in Nat
        OBVIOUS
    <2> QED
        BY <2>1, <2>2, <2>3
<1>4. ASSUME NEW a \in Area, ashmem_open(a) PROVE AshInv' /\ AreaPages!Next
    <2>1. /\ size[a] = NULL /\ size' = [size EXCEPT ![a] = 0] /\ Quiet
          /\ UNCHANGED <<file, set_size, ashmem_mutex, lost>> /\ listVars' = listVars
        BY <1>4 DEF ashmem_open
    <2>2. file[a] = NULL
        BY <1>0, <1>3, <2>1 DEF AreaOk
    <2>3. AreaOk'
        BY <1>0, <2>1, <2>2 DEF AreaOk, Quiet
    <2> QED
        BY <1>2, <2>1, <2>3
<1>5. ASSUME NEW a \in Area, ashmem_release(a) PROVE AshInv' /\ AreaPages!Next
    <2>1. Lists' /\ LostInv' /\ AreaPages!Next
        BY <1>0, <1>5, ReleaseStep
    <2>2. /\ size' = [size EXCEPT ![a] = NULL] /\ file' = [file EXCEPT ![a] = NULL]
          /\ Quiet /\ UNCHANGED <<set_size, ashmem_mutex>>
        BY <1>5 DEF ashmem_release
    <2>3. AreaOk'
        BY <1>0, <2>2 DEF AreaOk, Quiet
    <2> QED
        BY <2>1, <2>3 DEF AshInv
<1>6. ASSUME NEW a \in Area, NEW n \in Sizes, set_size_test(a, n) PROVE AshInv' /\ AreaPages!Next
    <2>1. /\ set_size' = [set_size EXCEPT ![a] = n] /\ Quiet
          /\ UNCHANGED <<size, file, ashmem_mutex, lost>> /\ listVars' = listVars
        BY <1>6 DEF set_size_test
    <2>2. AreaOk'
        BY <1>0, <2>1 DEF AreaOk, Quiet
    <2> QED
        BY <1>2, <2>1, <2>2
<1>7. ASSUME NEW a \in Area, set_size_store(a) PROVE AshInv' /\ AreaPages!Next
    <2>1. /\ set_size[a] # NULL /\ size' = [size EXCEPT ![a] = set_size[a]]
          /\ set_size' = [set_size EXCEPT ![a] = NULL] /\ Quiet
          /\ UNCHANGED <<file, ashmem_mutex, lost>> /\ listVars' = listVars
        BY <1>7 DEF set_size_store
    <2>2. set_size[a] \in Sizes
        BY <1>0, <2>1 DEF AreaOk
    <2>3. AreaOk'
        BY <1>0, <2>1, <2>2 DEF AreaOk, Quiet
    <2> QED
        BY <1>2, <2>1, <2>3
<1>8. ASSUME NEW a \in Area, ashmem_mmap(a) PROVE AshInv' /\ AreaPages!Next
    <2>1. /\ size[a] # NULL /\ size[a] # 0 /\ file' = [file EXCEPT ![a] = size[a]] /\ Quiet
          /\ UNCHANGED <<size, set_size, ashmem_mutex, lost>> /\ listVars' = listVars
        BY <1>8 DEF ashmem_mmap
    <2>2. size[a] \in Sizes
        BY <1>0, <2>1 DEF AreaOk
    <2>3. AreaOk'
        BY <1>0, <2>1, <2>2 DEF AreaOk, Quiet
    <2> QED
        BY <1>2, <2>1, <2>3
<1>9. ASSUME NEW a \in Area, ashmem_pin_unpin(a) PROVE AshInv' /\ AreaPages!Next
    <2>1. PICK s \in 0 .. size[a] : \E e \in s - 1 .. size[a] - 1 :
             /\ e < s => s = size[a]
             /\ ashmem_pin(a, s, e) \/ ashmem_unpin(a, s, e)
        BY <1>9 DEF ashmem_pin_unpin
    <2>2. PICK e \in s - 1 .. size[a] - 1 :
             /\ e < s => s = size[a]
             /\ ashmem_pin(a, s, e) \/ ashmem_unpin(a, s, e)
        BY <2>1
    <2>3. size[a] \in 1 .. MaxSize
        BY <1>0, <1>3, <1>9 DEF ashmem_pin_unpin, AreaOk
    <2>4. Request(s, e)
        <3>1. s \in 0 .. MaxSize /\ s <= e + 1 /\ e \in Int /\ e < MaxSize /\ e >= 0
            BY <1>3, <2>2, <2>3
        <3> QED
            BY <1>3, <3>1 DEF Request, Page
    <2>5. /\ Lists' /\ LostInv' /\ AreaPages!Next
          /\ told' \in BOOLEAN /\ oom' \in BOOLEAN /\ ashmem_mutex' \in {ashmem_mutex, "dead"}
          /\ UNCHANGED areaVars
        BY <1>0, <2>2, <2>4, PinStep, UnpinStep
    <2>6. AreaOk'
        BY <1>0, <2>5 DEF AreaOk, areaVars
    <2> QED
        BY <2>5, <2>6 DEF AshInv
<1>10. ASSUME NEW nr, ashmem_shrink(nr) PROVE AshInv' /\ AreaPages!Next
    <2>1. Lists' /\ LostInv' /\ AreaPages!Next
        BY <1>0, <1>10, ShrinkStep
    <2>2. Quiet /\ UNCHANGED <<areaVars, ashmem_mutex>>
        BY <1>10 DEF ashmem_shrink
    <2>3. AreaOk'
        BY <1>0, <2>2 DEF AreaOk, Quiet, areaVars
    <2> QED
        BY <2>1, <2>3 DEF AshInv
<1>11. CASE UNCHANGED ashVars
    <2>1. /\ listVars' = listVars /\ lost' = lost /\ told' = told /\ oom' = oom
          /\ size' = size /\ file' = file /\ set_size' = set_size /\ ashmem_mutex' = ashmem_mutex
        BY <1>11 DEF ashVars, listVars
    <2>2. Lists' /\ LostInv' /\ UnpinnedPages' = UnpinnedPages
        BY <1>1, <2>1
    <2>3. AreaOk'
        BY <1>0, <2>1 DEF AreaOk
    <2>4. UNCHANGED AreaPages!pageVars
        BY <2>1, <2>2 DEF AreaPages!pageVars
    <2> QED
        BY <2>2, <2>3, <2>4 DEF AshInv
<1>12. CASE AshNext
    <2>1. AshInv' /\ AreaPages!Next
        BY <1>4, <1>5, <1>6, <1>7, <1>8, <1>9, <1>10, <1>12 DEF AshNext
    <2> QED
        BY <2>1
<1> QED
    BY <1>11, <1>12

(***************************************************************************)
(* The inductive invariant, from which the other theorems follow: types,   *)
(* lists, count, and a page lost only in a range marked purged.            *)
(***************************************************************************)
THEOREM AshmemInvariant == AshSpec => []AshInv
<1>1. AshInit => AshInv
    BY AshStart
<1>2. AshInv /\ [AshNext]_ashVars => AshInv'
    BY AshStep
<1> QED
    BY <1>1, <1>2, PTL DEF AshSpec

(***************************************************************************)
(* The state of every area, and of every struct ashmem_range, is one that  *)
(* the driver can interpret: no range leaves the pages an area may have,   *)
(* and lru_count never becomes negative.                                   *)
(***************************************************************************)
THEOREM AshmemTypeOK == AshSpec => []AshTypeOK
<1>1. AshInv => AshTypeOK
    BY AshInvType
<1> QED
    BY <1>1, AshmemInvariant, PTL

(***************************************************************************)
(* ashmem_pin() and ashmem_unpin() cut, split, merge, insert and delete    *)
(* ranges, the shrinker purges them, and range_alloc() may fail at each    *)
(* place; the lists stay sorted and free of overlaps, the LRU list is the  *)
(* list of the ranges that are not purged, and lru_count their pages.      *)
(***************************************************************************)
THEOREM AshmemListsConsistent == AshSpec => []ListsConsistent
<1>1. AshInv => ListsConsistent
    BY AshInvLists
<1> QED
    BY <1>1, AshmemInvariant, PTL

(***************************************************************************)
(* ashmem_get_pin_status() misses no unpinned page although its walk stops *)
(* early.                                                                  *)
(***************************************************************************)
THEOREM AshmemUnpinnedFound == AshSpec => []UnpinnedFound
<1>1. AshInv => UnpinnedFound
    BY AshInvStatus
<1> QED
    BY <1>1, AshmemInvariant, PTL

(***************************************************************************)
(* The driver keeps the promise of AshmemPages: no pinned page is lost,    *)
(* and whoever pins a lost page again is told.                             *)
(***************************************************************************)
THEOREM AshmemImplementsPages == AshSpec => ImplementsPages
<1>1. AshInit => AreaPages!Init
    BY AshStart
<1>2. AshInv /\ [AshNext]_ashVars => [AreaPages!Next]_(AreaPages!pageVars)
    BY AshStep
<1> QED
    BY <1>1, <1>2, AshmemInvariant, PTL DEF AshSpec, ImplementsPages, AreaPages!Spec

-----------------------------------------------------------------------------
(***************************************************************************)
(* The log.                                                                *)
(*                                                                         *)
(* The ring.  At(o, k) is the offset k cells after o, and Dist(o, p) the   *)
(* number of cells from o up to p.                                         *)
(***************************************************************************)
At(o, k) == IF o + k < Size THEN o + k ELSE o + k - Size

Dist(o, p) == IF p >= o THEN p - o ELSE p - o + Size

LEMMA RingInts ==
    /\ Size \in Int /\ Hdr \in Int /\ MaxPayload \in Int /\ Hdr >= 2 /\ MaxPayload >= 1
    /\ 2 * (Hdr + MaxPayload) <= Size /\ Size > 1
    /\ \A o : o \in Offset <=> o \in Int /\ o >= 0 /\ o < Size
    /\ None \notin Writer /\ None \notin Reader
    /\ MaxWrites \in Nat
<1>1. /\ Size \in Int /\ Hdr \in Int /\ MaxPayload \in Int /\ Hdr >= 2 /\ MaxPayload >= 1
      /\ 2 * (Hdr + MaxPayload) <= Size
    BY LoggerAssumption DEF LoggerConstants
<1>2. Size > 1
    BY <1>1
<1>3. \A o : o \in Offset <=> o \in Int /\ o >= 0 /\ o < Size
    BY <1>1 DEF Offset
<1> QED
    BY <1>1, <1>2, <1>3, LoggerAssumption DEF LoggerConstants

LEMMA RingMod ==
    ASSUME NEW m \in Nat \ {0}, NEW q \in Int, NEW r \in 0 .. m - 1
    PROVE  (m * q + r) % m = r
    OBVIOUS

LEMMA AtMod ==
    ASSUME NEW o \in Offset, NEW k \in 0 .. Size
    PROVE  (o + k) % Size = At(o, k)
<1>0. Size \in Nat \ {0} /\ o \in Int /\ k \in Int /\ o >= 0 /\ o < Size /\ k >= 0 /\ k <= Size
    BY RingInts
<1>1. CASE o + k < Size
    <2>1. o + k \in 0 .. Size - 1 /\ Size * 0 + (o + k) = o + k
        BY <1>0, <1>1
    <2>2. (Size * 0 + (o + k)) % Size = o + k
        BY <1>0, <2>1, RingMod
    <2> QED
        BY <1>1, <2>1, <2>2 DEF At
<1>2. CASE ~(o + k < Size)
    <2>1. o + k - Size \in 0 .. Size - 1 /\ Size * 1 + (o + k - Size) = o + k
        BY <1>0, <1>2
    <2>2. (Size * 1 + (o + k - Size)) % Size = o + k - Size
        BY <1>0, <2>1, RingMod
    <2> QED
        BY <1>2, <2>1, <2>2 DEF At
<1> QED
    BY <1>1, <1>2

LEMMA DistMod ==
    ASSUME NEW o \in Offset, NEW p \in Offset
    PROVE  (o - p + Size) % Size = Dist(p, o)
<1>0. Size \in Nat \ {0} /\ o \in Int /\ o >= 0 /\ o < Size /\ p \in Int /\ p >= 0 /\ p < Size
    BY RingInts
<1>1. CASE o >= p
    <2>1. o - p \in 0 .. Size - 1 /\ Size * 1 + (o - p) = o - p + Size
        BY <1>0, <1>1
    <2>2. (Size * 1 + (o - p)) % Size = o - p
        BY <1>0, <2>1, RingMod
    <2> QED
        BY <1>1, <2>1, <2>2 DEF Dist
<1>2. CASE ~(o >= p)
    <2>1. o - p + Size \in 0 .. Size - 1 /\ Size * 0 + (o - p + Size) = o - p + Size
        BY <1>0, <1>2
    <2>2. (Size * 0 + (o - p + Size)) % Size = o - p + Size
        BY <1>0, <2>1, RingMod
    <2> QED
        BY <1>2, <2>1, <2>2 DEF Dist
<1> QED
    BY <1>1, <1>2

LEMMA AtIs ==
    ASSUME NEW o \in Offset, NEW k \in Int, k >= 0, k <= Size
    PROVE  /\ At(o, k) \in Offset /\ At(o, 0) = o
           /\ \A j \in Int : j >= 0 /\ k + j <= Size => At(At(o, k), j) = At(o, k + j)
           /\ k < Size => Dist(o, At(o, k)) = k
           /\ \A j \in Int : j >= 0 /\ j < Size /\ k < Size /\ At(o, j) = At(o, k) => j = k
<1>0. Size \in Int /\ o \in Int /\ o >= 0 /\ o < Size
    BY RingInts
<1>1. At(o, k) \in Int /\ At(o, k) >= 0 /\ At(o, k) < Size /\ At(o, 0) = o
    BY <1>0 DEF At
<1>2. At(o, k) \in Offset
    BY <1>1, RingInts
<1>3. \A j \in Int : j >= 0 /\ k + j <= Size => At(At(o, k), j) = At(o, k + j)
    BY <1>0 DEF At
<1>4. k < Size => Dist(o, At(o, k)) = k
    BY <1>0 DEF At, Dist
<1>5. \A j \in Int : j >= 0 /\ j < Size /\ k < Size /\ At(o, j) = At(o, k) => j = k
    BY <1>0 DEF At
<1> QED
    BY <1>1, <1>2, <1>3, <1>4, <1>5

LEMMA DistIs ==
    ASSUME NEW o \in Offset, NEW p \in Offset
    PROVE  /\ Dist(o, p) \in Int /\ Dist(o, p) >= 0 /\ Dist(o, p) < Size
           /\ At(o, Dist(o, p)) = p
           /\ Dist(o, p) = 0 <=> o = p
           /\ o # p => Dist(p, o) = Size - Dist(o, p)
           /\ \A k \in Int : k >= 0 /\ k <= Dist(o, p) =>
                At(o, k) \in Offset /\ Dist(At(o, k), p) = Dist(o, p) - k
           /\ \A k \in Int : k >= 0 /\ Dist(o, p) + k < Size =>
                Dist(o, At(p, k)) = Dist(o, p) + k
<1>0. Size \in Int /\ o \in Int /\ o >= 0 /\ o < Size /\ p \in Int /\ p >= 0 /\ p < Size
    BY RingInts
<1>1. Dist(o, p) \in Int /\ Dist(o, p) >= 0 /\ Dist(o, p) < Size
    BY <1>0 DEF Dist
<1>2. At(o, Dist(o, p)) = p
    BY <1>0 DEF At, Dist
<1>3. Dist(o, p) = 0 <=> o = p
    BY <1>0 DEF Dist
<1>4. o # p => Dist(p, o) = Size - Dist(o, p)
    BY <1>0 DEF Dist
<1>5. ASSUME NEW k \in Int, k >= 0, k <= Dist(o, p)
      PROVE  At(o, k) \in Offset /\ Dist(At(o, k), p) = Dist(o, p) - k
    <2>1. At(o, k) \in Offset
        BY <1>1, <1>5, <1>0, AtIs
    <2> QED
        BY <1>0, <1>5, <2>1 DEF At, Dist
<1>6. ASSUME NEW k \in Int, k >= 0, Dist(o, p) + k < Size
      PROVE  Dist(o, At(p, k)) = Dist(o, p) + k
    BY <1>0, <1>6 DEF At, Dist
<1> QED
    BY <1>1, <1>2, <1>3, <1>4, <1>5, <1>6

-----------------------------------------------------------------------------
(***************************************************************************)
(* A stretch of the log, unrolled.  c[k] is the cell k places after the    *)
(* offset; an entry starts where the place in the entry is 0, and its      *)
(* length is in its first two cells.                                       *)
(***************************************************************************)
Cell == [id : 0 .. MaxWrites, pos : 0 .. Size, digit : 0 .. MaxPayload]

Cells == [Offset -> Cell]

Line(b, o) == [k \in 0 .. Size - 1 |-> b[At(o, k)]]

Starts(c, k) == c[k].pos = 0

EntryEnd(c, k) == k + Hdr + c[k].digit + 2 * c[k + 1].digit

\* The entry that starts at k is whole and ends before D, where another one
\* starts or the log ends; it is younger than low.
EntryOk(c, k, D, low) ==
    /\ EntryEnd(c, k) > k + Hdr /\ EntryEnd(c, k) <= D
    /\ c[k].id > low
    /\ \A j \in k .. EntryEnd(c, k) - 1 : c[j].id = c[k].id /\ c[j].pos = j - k
    /\ EntryEnd(c, k) < D => Starts(c, EntryEnd(c, k))

\* The first D cells are whole entries, each younger than the one before.
Good(c, D, low) ==
    /\ D > 0 => Starts(c, 0)
    /\ \A k \in 0 .. D - 1 : Starts(c, k) => EntryOk(c, k, D, low)
    /\ \A k, l \in 0 .. D - 1 : k < l /\ Starts(c, k) /\ Starts(c, l) => c[k].id < c[l].id

\* An offset o from which the log can be read up to w, with entries younger
\* than low.
Stands(b, o, w, low) == o \in Offset /\ Good(Line(b, o), Dist(o, w), low)

\* There is room for an entry of n cells between base and o.
Room(o, base, n) == Dist(o, base) + n < Size

\* The cell at place k of the entry e.
EntryCell(e, k) ==
    [id |-> e.id, pos |-> k,
     digit |-> CASE k = 0 -> e.len % 2 [] k = 1 -> e.len \div 2 [] OTHER -> 0]

-----------------------------------------------------------------------------
(***************************************************************************)
(* Recursive functions.  A function that is defined by steps of a function *)
(* on a set exists.                                                        *)
(***************************************************************************)
Steps(f, V, N, a, step) ==
    /\ f \in [0 .. N -> V]
    /\ f[0] = a
    /\ \A n \in 1 .. N : f[n] = step[f[n - 1]]

LEMMA StepsExist ==
    ASSUME NEW V, NEW N \in Nat, NEW a \in V, NEW step \in [V -> V]
    PROVE  \E f : Steps(f, V, N, a, step)
<1> DEFINE T == {n \in Nat : ~\E f : Steps(f, V, n, a, step)}
<1> SUFFICES T = {}
    OBVIOUS
<1> SUFFICES ASSUME T # {} PROVE FALSE
    OBVIOUS
<1>1. PICK n \in T : \A m \in T : n <= m
    BY Least
<1>2. n # 0
    <2> DEFINE g == [i \in 0 .. 0 |-> a]
    <2>1. Steps(g, V, 0, a, step)
        BY DEF Steps
    <2> QED
        BY <2>1
<1>3. n - 1 \in Nat /\ n - 1 \notin T
    BY <1>1, <1>2
<1>4. PICK f : Steps(f, V, n - 1, a, step)
    BY <1>3
<1> DEFINE g == [i \in 0 .. n |-> IF i = n THEN step[f[n - 1]] ELSE f[i]]
<1>5. f[n - 1] \in V /\ step[f[n - 1]] \in V
    BY <1>3, <1>4 DEF Steps
<1>6. g \in [0 .. n -> V]
    BY <1>3, <1>4, <1>5 DEF Steps
<1>7. g[0] = a
    BY <1>2, <1>4, <1>3 DEF Steps
<1>8. ASSUME NEW i \in 1 .. n PROVE g[i] = step[g[i - 1]]
    BY <1>8, <1>3, <1>4 DEF Steps
<1>9. Steps(g, V, n, a, step)
    BY <1>6, <1>7, <1>8 DEF Steps
<1> QED
    BY <1>9

-----------------------------------------------------------------------------
(***************************************************************************)
(* What the code's arithmetic computes.                                    *)
(***************************************************************************)
LEMMA CellInts ==
    ASSUME NEW x \in Cell
    PROVE  /\ x.id \in Int /\ x.id >= 0 /\ x.pos \in Int /\ x.pos >= 0
           /\ x.digit \in Int /\ x.digit >= 0
BY RingInts DEF Cell

LEMMA LineIs ==
    ASSUME NEW b \in Cells, NEW o \in Offset
    PROVE  /\ Line(b, o) \in [0 .. Size - 1 -> Cell]
           /\ \A k \in Int : k >= 0 /\ k < Size => Line(b, o)[k] = b[At(o, k)]
<1>1. ASSUME NEW k \in 0 .. Size - 1 PROVE b[At(o, k)] \in Cell
    <2>1. k \in Int /\ k >= 0 /\ k <= Size
        BY RingInts
    <2> QED
        BY <2>1, AtIs DEF Cells
<1>2. Line(b, o) \in [0 .. Size - 1 -> Cell]
    BY <1>1 DEF Line
<1>3. ASSUME NEW k \in Int, k >= 0, k < Size PROVE Line(b, o)[k] = b[At(o, k)]
    BY <1>3, RingInts DEF Line
<1> QED
    BY <1>2, <1>3

\* Moving the offset shifts the line.
LEMMA LineShift ==
    ASSUME NEW b \in Cells, NEW o \in Offset, NEW m \in Int, m >= 0, m < Size,
           NEW k \in Int, k >= 0, k + m < Size
    PROVE  Line(b, At(o, m))[k] = Line(b, o)[k + m]
<1>1. At(o, m) \in Offset /\ At(At(o, m), k) = At(o, k + m)
    <2>1. m <= Size /\ m + k <= Size /\ m + k = k + m
        BY RingInts
    <2> QED
        BY <2>1, AtIs
<1>2. k < Size
    BY RingInts
<1>3. Line(b, At(o, m))[k] = b[At(At(o, m), k)]
    BY <1>1, <1>2, LineIs
<1>4. Line(b, o)[k + m] = b[At(o, k + m)]
    BY LineIs
<1> QED
    BY <1>1, <1>3, <1>4

LEMMA EntryLenIs ==
    ASSUME buffer \in Cells, NEW o \in Offset
    PROVE  /\ get_entry_len(o) = EntryEnd(Line(buffer, o), 0)
           /\ get_entry_len(o) \in Nat /\ get_entry_len(o) >= 2
<1>0. Size \in Int /\ Size > 1 /\ o \in Int /\ o >= 0 /\ o < Size /\ Hdr \in Int /\ Hdr >= 2
    BY RingInts
<1>1. At(o, 0) = o /\ At(o, 1) \in Offset
    BY <1>0, AtIs
<1>2. At(o, 1) = IF Size - o = 1 THEN 0 ELSE o + 1
    BY <1>0 DEF At
<1>3. Line(buffer, o)[0] = buffer[o] /\ Line(buffer, o)[1] = buffer[At(o, 1)]
    BY <1>0, <1>1, LineIs
<1>4. buffer[o] \in Cell /\ buffer[At(o, 1)] \in Cell
    BY <1>1 DEF Cells
<1>5. /\ buffer[o].digit \in Int /\ buffer[o].digit >= 0
      /\ buffer[At(o, 1)].digit \in Int /\ buffer[At(o, 1)].digit >= 0
    BY <1>4, CellInts
<1>6. get_entry_len(o) = Hdr + buffer[o].digit + 2 * buffer[At(o, 1)].digit
    BY <1>2 DEF get_entry_len
<1>7. EntryEnd(Line(buffer, o), 0) = 0 + Hdr + buffer[o].digit + 2 * buffer[At(o, 1)].digit
    BY <1>3 DEF EntryEnd
<1> QED
    BY <1>0, <1>5, <1>6, <1>7

\* The interval of fix_up_readers(): the offsets that the next n cells will
\* overwrite, and the one behind them.
LEMMA ClockIs ==
    ASSUME NEW w \in Offset, NEW o \in Offset, NEW n \in Int, n >= 1, n < Size
    PROVE  clock_interval(w, At(w, n), o) <=> o # w /\ Dist(o, w) >= Size - n
<1>0. Size \in Int /\ o \in Int /\ o >= 0 /\ o < Size /\ w \in Int /\ w >= 0 /\ w < Size
    BY RingInts
<1> QED
    BY <1>0 DEF clock_interval, At, Dist

-----------------------------------------------------------------------------
(***************************************************************************)
(* Stretches of whole entries.                                             *)
(***************************************************************************)

\* The types of a stretch of D cells.
Stretch(c, D) == c \in [0 .. Size - 1 -> Cell] /\ D \in Int /\ D >= 0 /\ D < Size

LEMMA StretchInts ==
    ASSUME NEW c, NEW D, Stretch(c, D), NEW k \in Int, k >= 0, k < D
    PROVE  /\ c[k].id \in Int /\ c[k].id >= 0 /\ c[k].pos \in Int /\ c[k].digit \in Int
           /\ c[k + 1].digit \in Int
           /\ EntryEnd(c, k) \in Int
<1>1. k \in 0 .. Size - 1 /\ k + 1 \in 0 .. Size - 1
    BY RingInts DEF Stretch
<1>2. c[k] \in Cell /\ c[k + 1] \in Cell
    BY <1>1 DEF Stretch
<1>3. /\ c[k].id \in Int /\ c[k].id >= 0 /\ c[k].pos \in Int /\ c[k].digit \in Int
      /\ c[k + 1].digit \in Int
    BY <1>2, CellInts
<1> QED
    BY <1>3, RingInts DEF EntryEnd

\* What one entry of a good stretch gives.
LEMMA GoodEntry ==
    ASSUME NEW c, NEW D, Stretch(c, D), NEW low, Good(c, D, low),
           NEW k \in Int, k >= 0, k < D, Starts(c, k)
    PROVE  /\ EntryOk(c, k, D, low)
           /\ EntryEnd(c, k) \in Int /\ EntryEnd(c, k) > k + 2 /\ EntryEnd(c, k) <= D
           /\ c[k].id > low
           /\ EntryEnd(c, k) < D => Starts(c, EntryEnd(c, k))
<1>1. k \in 0 .. D - 1
    BY DEF Stretch
<1>2. EntryOk(c, k, D, low)
    BY <1>1 DEF Good
<1>3. EntryEnd(c, k) \in Int
    BY StretchInts
<1> QED
    BY <1>2, <1>3, RingInts DEF EntryOk

\* The rest of a stretch from the start of an entry on, which may be known
\* to be younger than before, read in another buffer.
LEMMA GoodRest ==
    ASSUME NEW c, NEW D, Stretch(c, D), NEW low, Good(c, D, low),
           NEW m \in Int, m >= 0, m <= D, m < D => Starts(c, m),
           NEW d, Stretch(d, D - m),
           \A k \in Int : k >= 0 /\ k < D - m => d[k] = c[k + m],
           NEW new, \A k \in Int : k >= m /\ k < D /\ Starts(c, k) => c[k].id > new
    PROVE  Good(d, D - m, new)
<1>0. D \in Int /\ D - m \in Int
    BY DEF Stretch
<1>1. ASSUME D - m > 0 PROVE Starts(d, 0)
    <2>1. d[0] = c[0 + m]
        BY <1>0, <1>1
    <2> QED
        BY <1>0, <1>1, <2>1 DEF Starts
<1>2. ASSUME NEW k \in 0 .. D - m - 1, Starts(d, k)
      PROVE  EntryOk(d, k, D - m, new)
    <2>0. /\ k \in Int /\ k >= 0 /\ k < D - m
          /\ k + m \in Int /\ k + m >= m /\ k + m >= 0 /\ k + m < D
        BY <1>0
    <2>1. d[k] = c[k + m]
        BY <2>0
    <2>2. Starts(c, k + m)
        BY <1>2, <2>1 DEF Starts
    <2>3. /\ EntryOk(c, k + m, D, low)
          /\ EntryEnd(c, k + m) \in Int /\ EntryEnd(c, k + m) > k + m + 2 /\ EntryEnd(c, k + m) <= D
        BY <2>0, <2>2, GoodEntry
    <2>4. k + 1 \in Int /\ k + 1 >= 0 /\ k + 1 < D - m /\ k + 1 + m = k + m + 1
        BY <1>0, <2>0, <2>3
    <2>5. d[k + 1] = c[k + m + 1]
        BY <2>4
    <2>6. c[k + m].digit \in Int /\ c[k + m + 1].digit \in Int
        BY <2>0, StretchInts
    <2>7. EntryEnd(d, k) = EntryEnd(c, k + m) - m
        BY <2>0, <2>1, <2>5, <2>6, RingInts DEF EntryEnd
    <2> DEFINE e == EntryEnd(d, k)
               f == EntryEnd(c, k + m)
    <2>8. e \in Int /\ e = f - m /\ f \in Int /\ f > k + m + Hdr /\ f <= D
        BY <2>3, <2>7 DEF EntryOk
    <2>9. e > k + Hdr /\ e <= D - m
        BY <1>0, <2>0, <2>8, RingInts
    <2>10. d[k].id > new
        BY <2>0, <2>1, <2>2
    <2>11. ASSUME NEW j \in k .. e - 1 PROVE d[j].id = d[k].id /\ d[j].pos = j - k
        <3>1. j \in Int /\ j >= 0 /\ j < D - m /\ j + m \in k + m .. f - 1
              /\ (j + m) - (k + m) = j - k
            BY <1>0, <2>0, <2>8
        <3>2. d[j] = c[j + m]
            BY <3>1
        <3>3. c[j + m].id = c[k + m].id /\ c[j + m].pos = (j + m) - (k + m)
            BY <2>3, <3>1 DEF EntryOk
        <3> QED
            BY <2>1, <3>1, <3>2, <3>3
    <2>12. ASSUME e < D - m PROVE Starts(d, e)
        <3>1. e \in Int /\ e >= 0 /\ e + m = f /\ f < D
            BY <1>0, <2>0, <2>8, <2>9, <2>12, RingInts
        <3>2. d[e] = c[f]
            BY <2>12, <3>1
        <3>3. Starts(c, f)
            BY <2>3, <3>1 DEF EntryOk
        <3> QED
            BY <3>2, <3>3 DEF Starts
    <2> QED
        BY <2>9, <2>10, <2>11, <2>12 DEF EntryOk
<1>3. ASSUME NEW k \in 0 .. D - m - 1, NEW l \in 0 .. D - m - 1, k < l, Starts(d, k), Starts(d, l)
      PROVE  d[k].id < d[l].id
    <2>0. /\ k \in Int /\ k >= 0 /\ k < D - m /\ l \in Int /\ l >= 0 /\ l < D - m
          /\ k + m \in 0 .. D - 1 /\ l + m \in 0 .. D - 1 /\ k + m < l + m
        BY <1>0, <1>3
    <2>1. d[k] = c[k + m] /\ d[l] = c[l + m]
        BY <2>0
    <2>2. Starts(c, k + m) /\ Starts(c, l + m)
        BY <1>3, <2>1 DEF Starts
    <2>3. c[k + m].id < c[l + m].id
        BY <2>0, <2>2 DEF Good
    <2> QED
        BY <2>1, <2>3
<1> QED
    BY <1>1, <1>2, <1>3 DEF Good

\* A new entry of n cells at the end.
LEMMA GoodExtend ==
    ASSUME NEW c, NEW D, Stretch(c, D), NEW low \in Int, Good(c, D, low),
           NEW n \in Int, n > Hdr, Stretch(c, D + n),
           EntryEnd(c, D) = D + n,
           NEW id \in Int, id > low,
           \A j \in Int : j >= 0 /\ j < n => c[D + j].id = id /\ c[D + j].pos = j,
           \A k \in Int : k >= 0 /\ k < D => c[k].id < id
    PROVE  Good(c, D + n, low)
<1>0. D \in Int /\ D >= 0 /\ Hdr \in Int /\ Hdr >= 2
    BY RingInts DEF Stretch
<1>1. ASSUME NEW k \in Int, k >= D, k < D + n
      PROVE  c[k].id = id /\ c[k].pos = k - D /\ (Starts(c, k) <=> k = D)
    <2>1. k - D \in Int /\ k - D >= 0 /\ k - D < n /\ D + (k - D) = k
        BY <1>0, <1>1
    <2>2. c[k].id = id /\ c[k].pos = k - D
        BY <2>1
    <2> QED
        BY <1>0, <2>1, <2>2 DEF Starts
<1>2. Starts(c, 0)
    <2>1. CASE D > 0
        BY <2>1 DEF Good
    <2>2. CASE D = 0
        BY <1>0, <1>1, <2>2
    <2> QED
        BY <1>0, <2>1, <2>2
<1>3. ASSUME NEW k \in 0 .. D + n - 1, Starts(c, k)
      PROVE  EntryOk(c, k, D + n, low)
    <2>1. CASE k < D
        <3>1. k \in Int /\ k >= 0
            BY <1>0
        <3>2. EntryOk(c, k, D, low) /\ EntryEnd(c, k) \in Int /\ EntryEnd(c, k) <= D
            BY <1>3, <2>1, <3>1, GoodEntry
        <3>3. EntryEnd(c, k) <= D + n
            BY <1>0, <3>2
        <3>4. Starts(c, EntryEnd(c, k))
            <4>1. CASE EntryEnd(c, k) < D
                BY <3>2, <4>1 DEF EntryOk
            <4>2. CASE EntryEnd(c, k) = D
                BY <1>0, <1>1, <4>2
            <4> QED
                BY <1>0, <3>2, <4>1, <4>2
        <3> QED
            BY <3>2, <3>3, <3>4 DEF EntryOk
    <2>2. CASE k >= D
        <3>1. k = D
            BY <1>0, <1>1, <1>3, <2>2
        <3>2. D + n > D + Hdr /\ D + n <= D + n /\ ~(D + n < D + n)
            BY <1>0
        <3>3. c[D].id > low
            BY <1>0, <1>1
        <3>4. ASSUME NEW j \in D .. D + n - 1 PROVE c[j].id = c[D].id /\ c[j].pos = j - D
            BY <1>0, <1>1
        <3> QED
            BY <3>1, <3>2, <3>3, <3>4 DEF EntryOk
    <2> QED
        BY <1>0, <2>1, <2>2
<1>4. ASSUME NEW k \in 0 .. D + n - 1, NEW l \in 0 .. D + n - 1, k < l, Starts(c, k), Starts(c, l)
      PROVE  c[k].id < c[l].id
    <2>1. CASE l < D
        <3>1. k \in 0 .. D - 1 /\ l \in 0 .. D - 1
            BY <1>0, <1>4, <2>1
        <3> QED
            BY <1>4, <3>1 DEF Good
    <2>2. CASE l >= D
        <3>1. l = D /\ c[l].id = id
            BY <1>0, <1>1, <1>4, <2>2
        <3>2. k \in Int /\ k >= 0 /\ k < D
            BY <1>0, <1>4, <3>1
        <3> QED
            BY <3>1, <3>2
    <2> QED
        BY <1>0, <2>1, <2>2
<1>5. \A k \in 0 .. D + n - 1 : Starts(c, k) => EntryOk(c, k, D + n, low)
    BY <1>3
<1>6. \A k, l \in 0 .. D + n - 1 : k < l /\ Starts(c, k) /\ Starts(c, l) => c[k].id < c[l].id
    BY <1>4
<1> QED
    BY <1>0, <1>2, <1>5, <1>6 DEF Good

-----------------------------------------------------------------------------
(***************************************************************************)
(* Going from entry to entry.                                              *)
(***************************************************************************)

\* Every length that is read, also of no entry, leads to an offset.
LEMMA AnyStep ==
    ASSUME buffer \in Cells, NEW o \in Offset
    PROVE  (o + get_entry_len(o)) % Size \in Offset /\ get_entry_len(o) \in Nat
<1>1. get_entry_len(o) \in Nat
    BY EntryLenIs
<1>2. o \in Int /\ Size \in Int /\ Size > 1
    BY RingInts
<1> HIDE DEF get_entry_len
<1>3. o + get_entry_len(o) \in Int
    BY <1>1, <1>2
<1>4. (o + get_entry_len(o)) % Size \in 0 .. Size - 1
    BY <1>2, <1>3
<1> QED
    BY <1>1, <1>4 DEF Offset

LEMMA EntryStep ==
    ASSUME buffer \in Cells, NEW o \in Offset,
           NEW D, Stretch(Line(buffer, o), D), NEW low, Good(Line(buffer, o), D, low),
           NEW k \in Int, k >= 0, k < D, Starts(Line(buffer, o), k)
    PROVE  LET e == EntryEnd(Line(buffer, o), k)
           IN  /\ e \in Int /\ e > k + 2 /\ e <= D /\ (e < D => Starts(Line(buffer, o), e))
               /\ At(o, k) \in Offset /\ get_entry_len(At(o, k)) = e - k
               /\ (At(o, k) + get_entry_len(At(o, k))) % Size = At(o, e)
<1> DEFINE c == Line(buffer, o)
           e == EntryEnd(c, k)
           p == At(o, k)
<1>1. D \in Int /\ D < Size /\ Size \in Int
    BY RingInts DEF Stretch
<1>2. e \in Int /\ e > k + 2 /\ e <= D /\ (e < D => Starts(c, e))
    BY GoodEntry
<1>3. p \in Offset /\ At(p, e - k) = At(o, e)
    <2>1. k <= Size /\ e - k \in Int /\ e - k >= 0 /\ k + (e - k) = e /\ e <= Size
        BY <1>1, <1>2
    <2> HIDE DEF e
    <2> QED
        BY <2>1, AtIs
<1>4. Line(buffer, p)[0] = c[k] /\ Line(buffer, p)[1] = c[k + 1]
    <2>1. k < Size /\ 0 + k = k /\ 1 + k = k + 1 /\ k + 1 < Size /\ 0 \in Int /\ 1 \in Int
        BY <1>1, <1>2
    <2>2. Line(buffer, p)[0] = Line(buffer, o)[0 + k]
        BY <2>1, LineShift
    <2>3. Line(buffer, p)[1] = Line(buffer, o)[1 + k]
        BY <2>1, LineShift
    <2> QED
        BY <2>1, <2>2, <2>3
<1>5. get_entry_len(p) = EntryEnd(Line(buffer, p), 0)
    BY <1>3, EntryLenIs
<1>6. EntryEnd(Line(buffer, p), 0) = e - k
    <2>1. c[k].digit \in Int /\ c[k + 1].digit \in Int /\ Hdr \in Int
        BY StretchInts, RingInts
    <2> HIDE DEF c, p
    <2> QED
        BY <1>4, <2>1 DEF EntryEnd
<1>7. (p + (e - k)) % Size = At(p, e - k)
    <2>1. e - k \in 0 .. Size
        BY <1>1, <1>2
    <2> HIDE DEF e, p
    <2> QED
        BY <1>3, <2>1, AtMod
<1> HIDE DEF get_entry_len
<1> QED
    BY <1>2, <1>3, <1>5, <1>6, <1>7

\* One turn of the loop of get_next_entry().
Turn(v) ==
    [off   |-> logger_offset(v.off + get_entry_len(v.off)),
     count |-> v.count + get_entry_len(v.off)]

\* The loop, turn by turn, and where it ends.
Turns(skip, o, len) ==
    /\ skip \in [0 .. len -> [off : Offset, count : Nat]]
    /\ skip[0] = [off |-> o, count |-> 0]
    /\ \A n \in 1 .. len : skip[n] = Turn(skip[n - 1])
    /\ get_next_entry(o, len) =
         skip[CHOOSE i \in 1 .. len : /\ skip[i].count >= len
                                      /\ \A j \in 1 .. i - 1 : skip[j].count < len].off

LEMMA TurnsExist ==
    ASSUME buffer \in Cells, NEW o \in Offset, NEW len \in Nat
    PROVE  \E skip : Turns(skip, o, len)
<1> DEFINE V == [off : Offset, count : Nat]
           r0 == [off |-> o, count |-> 0]
           Body(f) == [n \in 0 .. len |-> IF n = 0 THEN r0 ELSE Turn(f[n - 1])]
           skip == CHOOSE f : f = Body(f)
           step == [v \in V |-> Turn(v)]
<1>1. ASSUME NEW v \in V PROVE Turn(v) \in V
    <2>1. v.off \in Offset /\ v.count \in Nat
        OBVIOUS
    <2>2. logger_offset(v.off + get_entry_len(v.off)) \in Offset /\ get_entry_len(v.off) \in Nat
        BY <2>1, AnyStep DEF logger_offset
    <2> HIDE DEF get_entry_len, logger_offset
    <2> QED
        BY <2>1, <2>2 DEF Turn
<1>2. step \in [V -> V] /\ r0 \in V
    BY <1>1
<1>3. \A v \in V : step[v] = Turn(v)
    OBVIOUS
<1> HIDE DEF step, r0, V
<1>4. PICK f : Steps(f, V, len, r0, step)
    BY <1>2, StepsExist
<1>5. f = [n \in 0 .. len |-> f[n]] /\ f[0] = r0 /\ f \in [0 .. len -> V]
    BY <1>4 DEF Steps
<1>6. ASSUME NEW n \in 1 .. len PROVE f[n] = Turn(f[n - 1])
    <2>1. n - 1 \in 0 .. len /\ f[n - 1] \in V
        BY <1>5
    <2>2. f[n] = step[f[n - 1]]
        BY <1>4 DEF Steps
    <2> QED
        BY <1>3, <2>1, <2>2
<1>7. ASSUME NEW n \in 0 .. len PROVE f[n] = IF n = 0 THEN r0 ELSE Turn(f[n - 1])
    <2>1. n = 0 \/ n \in 1 .. len
        OBVIOUS
    <2> QED
        BY <1>5, <1>6, <2>1
<1>8. f = Body(f)
    BY <1>5, <1>7
<1>9. skip = Body(skip)
    BY <1>8
<1>10. get_next_entry(o, len) =
        skip[CHOOSE i \in 1 .. len : /\ skip[i].count >= len
                                     /\ \A j \in 1 .. i - 1 : skip[j].count < len].off
    BY DEF get_next_entry, Turn, r0
<1> HIDE DEF skip
<1>11. skip[0] = r0 /\ \A n \in 1 .. len : skip[n] = Turn(skip[n - 1])
    <2>1. 0 \in 0 .. len /\ \A n \in 1 .. len : n \in 0 .. len /\ n # 0
        OBVIOUS
    <2> QED
        BY <1>9, <2>1
<1>12. \A n \in 0 .. len : skip[n] \in V
    <2> DEFINE T == {n \in 0 .. len : skip[n] \notin V}
    <2>1. SUFFICES ASSUME T # {} PROVE FALSE
        OBVIOUS
    <2>2. PICK n \in T : \A m \in T : n <= m
        <3>1. T \in SUBSET Nat
            OBVIOUS
        <3> HIDE DEF T
        <3> QED
            BY <2>1, <3>1, Least
    <2>3. n # 0
        BY <1>2, <1>11, <2>2
    <2>4. n \in 1 .. len /\ n - 1 \in 0 .. len /\ n - 1 \notin T /\ skip[n] \notin V
        BY <2>2, <2>3
    <2>5. skip[n - 1] \in V
        BY <2>4
    <2> QED
        BY <1>1, <1>11, <2>4, <2>5
<1>13. skip \in [0 .. len -> V]
    BY <1>9, <1>12
<1> QED
    BY <1>10, <1>11, <1>13 DEF Turns, V, r0

\* get_next_entry() stays inside the buffer, whatever it reads there: every
\* turn skips a header at least.
LEMMA NextEntryOffset ==
    ASSUME buffer \in Cells, NEW o \in Offset, NEW len \in Int, len >= 1
    PROVE  get_next_entry(o, len) \in Offset
<1>0. len \in Nat
    OBVIOUS
<1>1. PICK skip : Turns(skip, o, len)
    BY <1>0, TurnsExist
<1> DEFINE Reaches(i) == skip[i].count >= len /\ \A j \in 1 .. i - 1 : skip[j].count < len
<1>2. \A n \in 0 .. len : skip[n].off \in Offset /\ skip[n].count \in Nat
    BY <1>1 DEF Turns
<1>3. \A n \in 0 .. len : skip[n].count >= n
    <2> DEFINE T == {n \in 0 .. len : ~(skip[n].count >= n)}
    <2>1. SUFFICES ASSUME T # {} PROVE FALSE
        OBVIOUS
    <2>2. PICK n \in T : \A m \in T : n <= m
        <3>1. T \in SUBSET Nat
            BY <1>0
        <3> HIDE DEF T
        <3> QED
            BY <2>1, <3>1, Least
    <2>3. n # 0
        BY <1>1, <2>2 DEF Turns
    <2>4. n \in 1 .. len /\ n - 1 \in 0 .. len /\ n - 1 \notin T /\ ~(skip[n].count >= n)
        BY <1>0, <2>2, <2>3
    <2>5. skip[n - 1].count >= n - 1 /\ skip[n - 1].count \in Nat
        BY <1>2, <2>4
    <2> DEFINE g == get_entry_len(skip[n - 1].off)
    <2>6. g \in Nat /\ g >= 2
        BY <1>2, <2>4, EntryLenIs
    <2>7. skip[n].count = skip[n - 1].count + g
        <3>1. skip[n] = Turn(skip[n - 1])
            BY <1>1, <2>4 DEF Turns
        <3> QED
            BY <3>1 DEF Turn
    <2> HIDE DEF g
    <2> QED
        BY <1>0, <2>4, <2>5, <2>6, <2>7
<1> DEFINE Out == {j \in 1 .. len : skip[j].count >= len}
<1>4. len \in Out
    BY <1>0, <1>3
<1>5. PICK i \in Out : \A j \in Out : i <= j
    <2>1. Out \in SUBSET Nat
        BY <1>0
    <2> HIDE DEF Out
    <2> QED
        BY <1>4, <2>1, Least
<1>6. i \in 1 .. len /\ Reaches(i)
    <2>1. ASSUME NEW j \in 1 .. i - 1 PROVE skip[j].count < len
        <3>1. j \in 1 .. len /\ j \notin Out /\ j \in 0 .. len
            BY <1>0, <1>5
        <3>2. skip[j].count \in Nat /\ ~(skip[j].count >= len)
            BY <1>2, <3>1
        <3> QED
            BY <1>0, <3>2
    <2> QED
        BY <1>5, <2>1
<1> DEFINE n == CHOOSE x \in 1 .. len : Reaches(x)
<1>7. n \in 1 .. len
    <2> HIDE DEF Reaches
    <2> QED
        BY <1>6
<1>8. get_next_entry(o, len) = skip[n].off
    BY <1>1 DEF Turns
<1> HIDE DEF n
<1>9. n \in 0 .. len
    BY <1>0, <1>7
<1> QED
    BY <1>2, <1>8, <1>9

\* get_next_entry() finds an entry, or the end, len or more cells further.
LEMMA NextEntryIs ==
    ASSUME buffer \in Cells, NEW o \in Offset,
           NEW D, Stretch(Line(buffer, o), D), NEW low, Good(Line(buffer, o), D, low),
           NEW len \in Int, len >= 1, len <= D
    PROVE  \E k \in Int : /\ k >= len /\ k <= D /\ (k < D => Starts(Line(buffer, o), k))
                          /\ get_next_entry(o, len) = At(o, k)
<1> DEFINE c == Line(buffer, o)
           r0 == [off |-> o, count |-> 0]
<1>0. len \in Nat /\ D \in Int /\ D < Size /\ D >= 1 /\ Size \in Int
    BY RingInts DEF Stretch
<1>1. PICK skip : Turns(skip, o, len)
    BY <1>0, TurnsExist
<1> DEFINE Is(n, k) == /\ k >= n /\ k <= D /\ (k < D => Starts(c, k))
                       /\ skip[n] = [off |-> At(o, k), count |-> k]
           Beyond(n) == \E j \in 1 .. n - 1 : ~(skip[j].count < len)
           P(n) == Beyond(n) \/ \E k \in Int : Is(n, k)
<1>3. skip[0] = r0 /\ \A n \in 1 .. len : skip[n] = Turn(skip[n - 1])
    BY <1>1 DEF Turns
<1>4. get_next_entry(o, len) =
        skip[CHOOSE i \in 1 .. len : /\ skip[i].count >= len
                                     /\ \A j \in 1 .. i - 1 : skip[j].count < len].off
    BY <1>1 DEF Turns
<1>5. \A n \in 0 .. len : P(n)
    <2> DEFINE T == {n \in 0 .. len : ~P(n)}
    <2>1. SUFFICES ASSUME T # {} PROVE FALSE
        OBVIOUS
    <2>2. PICK n \in T : \A m \in T : n <= m
        <3>1. T \in SUBSET Nat
            BY <1>0
        <3> HIDE DEF T
        <3> QED
            BY <2>1, <3>1, Least
    <2>3. n # 0
        <3>1. At(o, 0) = o
            BY <1>0, AtIs
        <3>2. Starts(c, 0)
            BY <1>0 DEF Good
        <3>3. Is(0, 0)
            BY <1>0, <1>3, <3>1, <3>2
        <3>4. P(0)
            BY <3>3
        <3> HIDE DEF P
        <3> QED
            BY <2>2, <3>4
    <2>4. n \in 1 .. len /\ n - 1 \in 0 .. len /\ P(n - 1) /\ ~P(n)
        <3>1. n \in 1 .. len /\ n - 1 \in 0 .. len /\ n - 1 < n /\ ~P(n)
            BY <1>0, <2>2, <2>3
        <3> HIDE DEF P
        <3> QED
            BY <1>0, <2>2, <3>1
    <2>5. ~Beyond(n - 1)
        BY <1>0, <2>4
    <2>6. PICK k \in Int : Is(n - 1, k)
        BY <2>4, <2>5
    <2>7. k < len
        <3>1. CASE n - 1 = 0
            <4>1. skip[0].count = k /\ skip[0].count = 0
                BY <1>3, <2>6, <3>1
            <4> QED
                BY <4>1
        <3>2. CASE n - 1 # 0
            <4>1. n - 1 \in 1 .. n - 1
                BY <1>0, <2>4, <3>2
            <4>2. skip[n - 1].count < len
                BY <2>4, <4>1
            <4> QED
                BY <2>6, <4>2
        <3> QED
            BY <3>1, <3>2
    <2>8. k \in Int /\ k >= 0 /\ k < D /\ Starts(c, k) /\ k >= n - 1
        BY <1>0, <2>4, <2>6, <2>7
    <2> DEFINE e == EntryEnd(c, k)
    <2>9. /\ e \in Int /\ e > k + 2 /\ e <= D /\ (e < D => Starts(c, e))
          /\ get_entry_len(At(o, k)) = e - k
          /\ (At(o, k) + get_entry_len(At(o, k))) % Size = At(o, e)
        BY <2>8, EntryStep
    <2>10. skip[n] = [off |-> At(o, e), count |-> e]
        <3>1. skip[n] = Turn(skip[n - 1])
            BY <1>3, <2>4
        <3>2. skip[n - 1].off = At(o, k) /\ skip[n - 1].count = k
            BY <2>6
        <3>3. k + (e - k) = e
            BY <2>8, <2>9
        <3> HIDE DEF e, get_entry_len
        <3> QED
            BY <2>9, <3>1, <3>2, <3>3 DEF logger_offset, Turn
    <2>11. Is(n, e)
        <3> HIDE DEF e
        <3>1. e >= n
            BY <1>0, <2>4, <2>8, <2>9
        <3> QED
            BY <2>9, <2>10, <3>1
    <2> HIDE DEF Is, e
    <2> QED
        BY <2>4, <2>9, <2>11
<1> DEFINE Out == {j \in 1 .. len : ~(skip[j].count < len)}
<1>6. Out # {}
    <2>1. P(len)
        BY <1>0, <1>5
    <2>2. CASE Beyond(len)
        BY <1>0, <2>2
    <2>3. ASSUME NEW k \in Int, Is(len, k) PROVE len \in Out
        <3>1. skip[len].count = k /\ k >= len
            BY <2>3
        <3> QED
            BY <1>0, <3>1
    <2> HIDE DEF Is, Out
    <2> QED
        BY <2>1, <2>2, <2>3
<1>7. PICK i \in Out : \A j \in Out : i <= j
    <2>1. Out \in SUBSET Nat
        BY <1>0
    <2> HIDE DEF Out
    <2> QED
        BY <1>6, <2>1, Least
<1>8. i \in 1 .. len /\ ~(skip[i].count < len) /\ \A j \in 1 .. i - 1 : skip[j].count < len
    BY <1>0, <1>7
<1> DEFINE Reaches(x) == skip[x].count >= len /\ \A j \in 1 .. x - 1 : skip[j].count < len
           n == CHOOSE x \in 1 .. len : Reaches(x)
<1>9. Reaches(i)
    <2>1. ~Beyond(i) /\ i \in 0 .. len
        BY <1>0, <1>8
    <2>2. PICK k \in Int : Is(i, k)
        BY <1>5, <2>1
    <2>3. skip[i].count \in Int
        BY <2>2
    <2> QED
        BY <1>0, <1>8, <2>3
<1>10. n \in 1 .. len /\ Reaches(n)
    <2>1. \E x \in 1 .. len : Reaches(x)
        BY <1>8, <1>9
    <2> HIDE DEF Reaches
    <2> QED
        BY <2>1
<1>11. get_next_entry(o, len) = skip[n].off
    BY <1>4
<1> HIDE DEF n
<1>12. ~Beyond(n) /\ n \in 0 .. len
    BY <1>0, <1>10
<1>13. PICK k \in Int : Is(n, k)
    BY <1>5, <1>12
<1>14. k >= len /\ skip[n].off = At(o, k)
    <2>1. skip[n].count = k
        BY <1>13
    <2> QED
        BY <1>10, <1>13, <2>1
<1> QED
    BY <1>11, <1>13, <1>14

LEMMA FixUpOffset ==
    ASSUME buffer \in Cells, NEW o \in Offset, NEW len \in Int, len >= 1
    PROVE  fix_up(o, len) \in Offset
BY NextEntryOffset DEF fix_up

\* fix_up_readers() leaves an offset where it can stand and has room for an
\* entry of len cells.
LEMMA FixUpIs ==
    ASSUME buffer \in Cells, w_off \in Offset, NEW o, NEW low,
           Stands(buffer, o, w_off, low),
           NEW len \in Int, len > Hdr, len <= Hdr + MaxPayload
    PROVE  Stands(buffer, fix_up(o, len), w_off, low) /\ Room(fix_up(o, len), w_off, len)
<1> DEFINE D == Dist(o, w_off)
           c == Line(buffer, o)
<1>0. /\ Size \in Int /\ len >= 1 /\ len < Size /\ Size - len >= len
      /\ len \in 0 .. Size
    BY RingInts
<1>1. o \in Offset /\ Good(c, D, low)
    BY DEF Stands
<1>2. D \in Int /\ D >= 0 /\ D < Size /\ (D = 0 <=> o = w_off)
    BY <1>1, DistIs
<1>3. Stretch(c, D)
    BY <1>1, <1>2, LineIs DEF Stretch
<1>4. logger_offset(w_off + len) = At(w_off, len)
    BY <1>0, AtMod DEF logger_offset
<1>5. clock_interval(w_off, logger_offset(w_off + len), o) <=> o # w_off /\ D >= Size - len
    BY <1>0, <1>1, <1>4, ClockIs
<1>6. CASE o # w_off /\ D >= Size - len
    <2>1. fix_up(o, len) = get_next_entry(o, len)
        BY <1>5, <1>6 DEF fix_up
    <2>2. len <= D
        BY <1>0, <1>2, <1>6
    <2>3. PICK k \in Int : /\ k >= len /\ k <= D /\ (k < D => Starts(c, k))
                           /\ get_next_entry(o, len) = At(o, k)
        BY <1>1, <1>3, <2>2, <1>0, NextEntryIs
    <2> DEFINE p == At(o, k)
               d == Line(buffer, p)
    <2>4. k >= 0 /\ k <= Size /\ k < Size
        BY <1>0, <1>2, <2>3
    <2>5. p \in Offset /\ Dist(p, w_off) = D - k
        BY <1>1, <2>3, <2>4, DistIs
    <2>6. Stretch(d, D - k)
        <3>1. D - k \in Int /\ D - k >= 0 /\ D - k < Size
            BY <1>0, <1>2, <2>3, <2>4
        <3>2. d \in [0 .. Size - 1 -> Cell]
            BY <2>5, LineIs
        <3> HIDE DEF d, D
        <3> QED
            BY <3>1, <3>2 DEF Stretch
    <2>7. ASSUME NEW i \in Int, i >= 0, i < D - k PROVE d[i] = c[i + k]
        <3>1. i + k < Size
            BY <1>0, <1>2, <2>3, <2>7
        <3> QED
            BY <1>1, <2>4, <2>7, <3>1, LineShift
    <2>8. ASSUME NEW i \in Int, i >= k, i < D, Starts(c, i) PROVE c[i].id > low
        <3>1. i >= 0
            BY <2>4, <2>8
        <3> QED
            BY <1>1, <1>3, <2>8, <3>1, GoodEntry
    <2>9. Good(d, D - k, low)
        <3> HIDE DEF c, d, D
        <3> QED
            BY <1>1, <1>3, <2>3, <2>4, <2>6, <2>7, <2>8, GoodRest
    <2>10. Dist(p, w_off) + len < Size
        BY <1>0, <1>2, <2>3, <2>5
    <2> QED
        BY <2>1, <2>3, <2>5, <2>9, <2>10 DEF Stands, Room
<1>7. CASE ~(o # w_off /\ D >= Size - len)
    <2>1. fix_up(o, len) = o
        BY <1>5, <1>7 DEF fix_up
    <2>2. D + len < Size
        BY <1>0, <1>2, <1>7
    <2> QED
        BY <2>1, <2>2 DEF Room
<1> QED
    BY <1>6, <1>7

\* Who stands before whole entries can read them, and gets a younger one
\* than low.
LEMMA StandsReadable ==
    ASSUME buffer \in Cells, w_off \in Offset, NEW o, NEW low \in Nat,
           Stands(buffer, o, w_off, low)
    PROVE  Readable(o) /\ (o # w_off => buffer[o].id > low)
<1> DEFINE D == Dist(o, w_off)
           c == Line(buffer, o)
           Go(v) == IF v = w_off THEN w_off ELSE (v + get_entry_len(v)) % Size
           Body(f) == [n \in 0 .. Size |-> IF n = 0 THEN o ELSE Go(f[n - 1])]
           at == CHOOSE f : f = Body(f)
           P(n, k) == k >= 0 /\ k <= D /\ (k < D => k >= n /\ Starts(c, k)) /\ at[n] = At(o, k)
<1>0. Size \in Nat /\ Size > 1
    BY RingInts
<1>1. o \in Offset /\ Good(c, D, low)
    BY DEF Stands
<1>2. D \in Int /\ D >= 0 /\ D < Size /\ (D = 0 <=> o = w_off) /\ At(o, D) = w_off
    BY <1>1, DistIs
<1>3. Stretch(c, D)
    BY <1>1, <1>2, LineIs DEF Stretch
<1>4. \E f : f = Body(f)
    <2> DEFINE step == [v \in Offset |-> Go(v)]
    <2>1. ASSUME NEW v \in Offset PROVE Go(v) \in Offset
        BY AnyStep
    <2>2. step \in [Offset -> Offset]
        <3> HIDE DEF Go
        <3> QED
            BY <2>1
    <2> HIDE DEF step
    <2>3. PICK f : Steps(f, Offset, Size, o, step)
        BY <1>0, <1>1, <2>2, StepsExist
    <2>4. f = [n \in 0 .. Size |-> f[n]] /\ f[0] = o
        BY <2>3 DEF Steps
    <2>5. ASSUME NEW n \in 1 .. Size PROVE f[n] = Go(f[n - 1])
        <3>1. n - 1 \in 0 .. Size /\ f[n - 1] \in Offset
            BY <1>0, <2>3 DEF Steps
        <3>2. f[n] = step[f[n - 1]]
            BY <2>3 DEF Steps
        <3> HIDE DEF Go
        <3> QED
            BY <3>1, <3>2 DEF step
    <2>6. ASSUME NEW n \in 0 .. Size PROVE f[n] = IF n = 0 THEN o ELSE Go(f[n - 1])
        <3> HIDE DEF Go
        <3>1. n = 0 \/ n \in 1 .. Size
            BY <1>0
        <3> QED
            BY <2>4, <2>5, <3>1
    <2> HIDE DEF Go
    <2>7. f = Body(f)
        BY <2>4, <2>6
    <2> QED
        BY <2>7
<1>5. at = Body(at)
    BY <1>4
<1>6. at[0] = o /\ \A n \in 1 .. Size : at[n] = Go(at[n - 1])
    <2> HIDE DEF at, Go
    <2>1. 0 \in 0 .. Size /\ \A n \in 1 .. Size : n \in 0 .. Size /\ n # 0
        BY <1>0
    <2> QED
        BY <1>5, <2>1
<1>7. Readable(o) <=>
        /\ at[Size] = w_off
        /\ \A n \in 0 .. Size - 1 : at[n] # w_off =>
              /\ buffer[at[n]].id # 0
              /\ WholeEntry(at[n], get_entry_len(at[n]))
              /\ at[n + 1] # w_off => buffer[at[n]].id < buffer[at[n + 1]].id
    <2> HIDE DEF get_entry_len
    <2> QED
        BY DEF Readable
<1> HIDE DEF at
\* one step
<1>8. ASSUME NEW n \in 1 .. Size, NEW k \in Int, P(n - 1, k), k < D
      PROVE  /\ P(n, EntryEnd(c, k)) /\ EntryEnd(c, k) \in Int /\ at[n - 1] # w_off
             /\ At(o, k) \in Offset /\ get_entry_len(At(o, k)) = EntryEnd(c, k) - k
    <2> DEFINE e == EntryEnd(c, k)
    <2>1. /\ e \in Int /\ e > k + 2 /\ e <= D /\ (e < D => Starts(c, e))
          /\ At(o, k) \in Offset /\ get_entry_len(At(o, k)) = e - k
          /\ (At(o, k) + get_entry_len(At(o, k))) % Size = At(o, e)
        BY <1>1, <1>3, <1>8, EntryStep
    <2>2. At(o, k) # w_off
        <3>1. Dist(At(o, k), w_off) = D - k
            BY <1>1, <1>2, <1>8, DistIs
        <3> QED
            BY <1>2, <1>8, <2>1, <3>1, DistIs
    <2> HIDE DEF e, get_entry_len
    <2>3. at[n] = At(o, e)
        BY <1>6, <1>8, <2>1, <2>2
    <2>4. e >= n /\ e >= 0
        BY <1>0, <1>8, <2>1
    <2> QED
        BY <1>8, <2>1, <2>2, <2>3, <2>4 DEF e
<1>9. \A n \in 0 .. Size : \E k \in Int : P(n, k)
    <2> DEFINE T == {n \in 0 .. Size : ~\E k \in Int : P(n, k)}
    <2>1. SUFFICES ASSUME T # {} PROVE FALSE
        OBVIOUS
    <2>2. PICK n \in T : \A m \in T : n <= m
        <3>1. T \in SUBSET Nat
            BY <1>0
        <3> HIDE DEF T
        <3> QED
            BY <2>1, <3>1, Least
    <2>3. n # 0
        <3>1. At(o, 0) = o
            BY <1>0, <1>1, AtIs
        <3>2. P(0, 0)
            BY <1>1, <1>2, <1>6, <3>1 DEF Good
        <3> HIDE DEF P
        <3> QED
            BY <2>2, <3>2
    <2>4. n \in 1 .. Size /\ n - 1 \in 0 .. Size /\ n - 1 \notin T
        <3>1. n \in 1 .. Size /\ n - 1 \in 0 .. Size /\ n - 1 < n
            BY <1>0, <2>2, <2>3
        <3> HIDE DEF T
        <3> QED
            BY <1>0, <2>2, <3>1
    <2>5. PICK k \in Int : P(n - 1, k)
        <3> HIDE DEF P
        <3> QED
            BY <2>4
    <2>6. CASE k < D
        <3>1. P(n, EntryEnd(c, k)) /\ EntryEnd(c, k) \in Int
            BY <1>8, <2>4, <2>5, <2>6
        <3> HIDE DEF P
        <3> QED
            BY <2>2, <3>1
    <2>7. CASE k = D
        <3>1. at[n] = w_off
            BY <1>2, <1>6, <2>4, <2>5, <2>7
        <3>2. P(n, D)
            BY <1>2, <3>1
        <3> HIDE DEF P
        <3> QED
            BY <1>2, <2>2, <3>2
    <2> QED
        BY <1>2, <2>5, <2>6, <2>7
<1>10. at[Size] = w_off
    <2>1. PICK k \in Int : P(Size, k)
        BY <1>0, <1>9
    <2>2. k = D
        BY <1>0, <1>2, <2>1
    <2> QED
        BY <1>2, <2>1, <2>2
<1>11. ASSUME NEW n \in 0 .. Size - 1, at[n] # w_off
       PROVE  /\ buffer[at[n]].id # 0
              /\ WholeEntry(at[n], get_entry_len(at[n]))
              /\ at[n + 1] # w_off => buffer[at[n]].id < buffer[at[n + 1]].id
    <2>0. n \in 0 .. Size /\ n + 1 \in 1 .. Size /\ n + 1 - 1 = n
        BY <1>0
    <2>1. PICK k \in Int : P(n, k)
        BY <1>9, <2>0
    <2>2. k >= 0 /\ k < D /\ Starts(c, k)
        BY <1>2, <1>11, <2>1
    <2> DEFINE e == EntryEnd(c, k)
    <2>3. /\ P(n + 1, e) /\ e \in Int /\ At(o, k) \in Offset /\ get_entry_len(At(o, k)) = e - k
        BY <1>8, <2>0, <2>1, <2>2
    <2>4. EntryOk(c, k, D, low) /\ e > k + 2 /\ e <= D /\ c[k].id > low
        BY <1>1, <1>3, <2>2, GoodEntry
    <2>5. at[n] = At(o, k) /\ buffer[at[n]] = c[k]
        <3>1. k < Size
            BY <1>0, <1>2, <2>2
        <3>2. c[k] = buffer[At(o, k)]
            BY <1>1, <2>2, <3>1, LineIs
        <3> QED
            BY <2>1, <3>2
    <2>6. c[k].id \in Int
        BY <1>3, <2>2, StretchInts
    <2>7. ASSUME NEW i \in 0 .. (e - k) - 1
          PROVE  /\ buffer[(At(o, k) + i) % Size].id = c[k].id
                 /\ buffer[(At(o, k) + i) % Size].pos = i
        <3>0. /\ i \in Int /\ i >= 0 /\ i \in 0 .. Size /\ k + i \in k .. e - 1 /\ k + i < Size
              /\ k + i <= Size /\ k <= Size /\ k + i >= 0 /\ (k + i) - k = i
            BY <1>0, <1>2, <2>2, <2>3, <2>4
        <3>1. (At(o, k) + i) % Size = At(At(o, k), i)
            BY <2>3, <3>0, AtMod
        <3>2. At(At(o, k), i) = At(o, k + i)
            BY <1>1, <2>2, <3>0, AtIs
        <3>3. buffer[At(o, k + i)] = c[k + i]
            BY <1>1, <2>2, <3>0, LineIs
        <3>4. c[k + i].id = c[k].id /\ c[k + i].pos = (k + i) - k
            BY <2>4, <3>0 DEF EntryOk
        <3> QED
            BY <3>0, <3>1, <3>2, <3>3, <3>4
    <2>8. WholeEntry(at[n], get_entry_len(at[n]))
        <3> HIDE DEF get_entry_len, e
        <3> QED
            BY <2>3, <2>5, <2>7 DEF WholeEntry
    <2>9. ASSUME at[n + 1] # w_off PROVE buffer[at[n]].id < buffer[at[n + 1]].id
        <3>1. e < D /\ at[n + 1] = At(o, e)
            BY <1>2, <2>3, <2>9
        <3>2. Starts(c, e) /\ buffer[at[n + 1]] = c[e]
            <4>1. e >= 0 /\ e < Size
                BY <1>0, <1>2, <2>2, <2>3, <2>4
            <4>2. c[e] = buffer[At(o, e)]
                BY <1>1, <2>3, <4>1, LineIs
            <4> QED
                BY <2>3, <3>1, <4>2
        <3>3. k \in 0 .. D - 1 /\ e \in 0 .. D - 1 /\ k < e
            BY <1>2, <2>2, <2>3, <2>4, <3>1
        <3>4. c[k].id < c[e].id
            BY <1>1, <2>2, <3>2, <3>3 DEF Good
        <3> QED
            BY <2>5, <3>2, <3>4
    <2> QED
        BY <2>4, <2>5, <2>6, <2>8, <2>9
<1>12. ASSUME o # w_off PROVE buffer[o].id > low
    <2>1. D > 0 /\ 0 \in Int /\ Starts(c, 0)
        BY <1>1, <1>2, <1>12 DEF Good
    <2>2. c[0].id > low
        BY <1>1, <1>3, <2>1, GoodEntry
    <2>3. c[0] = buffer[At(o, 0)] /\ At(o, 0) = o
        BY <1>0, <1>1, LineIs, AtIs
    <2> QED
        BY <2>2, <2>3
<1> HIDE DEF get_entry_len
<1> QED
    BY <1>7, <1>10, <1>11, <1>12

-----------------------------------------------------------------------------
(***************************************************************************)
(* What changes in the buffer and who still stands well.                   *)
(***************************************************************************)
LEMMA StandsInts ==
    ASSUME NEW b \in Cells, NEW o, NEW w \in Offset, NEW low, Stands(b, o, w, low)
    PROVE  /\ o \in Offset /\ Good(Line(b, o), Dist(o, w), low)
           /\ Stretch(Line(b, o), Dist(o, w))
           /\ Dist(o, w) \in Int /\ Dist(o, w) >= 0 /\ Dist(o, w) < Size
<1>1. o \in Offset /\ Good(Line(b, o), Dist(o, w), low)
    BY DEF Stands
<1>2. Dist(o, w) \in Int /\ Dist(o, w) >= 0 /\ Dist(o, w) < Size
    BY <1>1, DistIs
<1> QED
    BY <1>1, <1>2, LineIs DEF Stretch

\* Nothing to read.
LEMMA StandsHere ==
    ASSUME NEW b, NEW w \in Offset, NEW low
    PROVE  Stands(b, w, w, low)
<1>1. Dist(w, w) = 0
    BY DistIs
<1> QED
    BY <1>1 DEF Stands, Good

\* The cells between o and base are at the far end of the ring as seen from
\* base.
LEMMA FarCells ==
    ASSUME NEW o \in Offset, NEW base \in Offset, NEW n \in Int, Room(o, base, n),
           NEW k \in Int, k >= 0, k < Dist(o, base)
    PROVE  At(o, k) \in Offset /\ Dist(base, At(o, k)) > n
<1> DEFINE D == Dist(o, base)
<1>0. D \in Int /\ D >= 0 /\ D < Size /\ Size \in Int /\ D + n < Size
    BY DistIs, RingInts DEF Room
<1>1. At(o, k) \in Offset /\ Dist(At(o, k), base) = D - k
    BY <1>0, DistIs
<1>2. At(o, k) # base
    BY <1>0, <1>1, DistIs
<1>3. Dist(base, At(o, k)) = Size - (D - k)
    BY <1>1, <1>2, DistIs
<1> QED
    BY <1>0, <1>1, <1>3

\* Cells that are overwritten behind base matter to nobody who has room.
LEMMA StandsFrame ==
    ASSUME NEW b \in Cells, NEW d \in Cells, NEW o, NEW base \in Offset, NEW low,
           Stands(b, o, base, low), NEW n \in Int, Room(o, base, n),
           \A p \in Offset : Dist(base, p) >= n => d[p] = b[p]
    PROVE  Stands(d, o, base, low)
<1> DEFINE D == Dist(o, base)
           x == Line(b, o)
           y == Line(d, o)
<1>1. /\ o \in Offset /\ Good(x, D, low) /\ Stretch(x, D)
      /\ D \in Int /\ D >= 0 /\ D < Size
    BY StandsInts
<1>2. Stretch(y, D - 0) /\ D - 0 = D
    BY <1>1, LineIs DEF Stretch
<1>3. ASSUME NEW k \in Int, k >= 0, k < D - 0 PROVE y[k] = x[k + 0]
    <2>1. k + 0 = k /\ k < D /\ k < Size
        BY <1>1, <1>3, RingInts
    <2>2. At(o, k) \in Offset /\ Dist(base, At(o, k)) > n
        BY <1>1, <1>3, <2>1, FarCells
    <2>3. Dist(base, At(o, k)) \in Int
        BY <2>2, DistIs
    <2>4. Dist(base, At(o, k)) >= n
        <3> DEFINE q == Dist(base, At(o, k))
        <3>1. q > n /\ q \in Int
            BY <2>2, <2>3
        <3> HIDE DEF q
        <3>2. q >= n
            BY <3>1
        <3> QED
            BY <3>2 DEF q
    <2>5. d[At(o, k)] = b[At(o, k)]
        BY <2>2, <2>4
    <2>6. x[k] = b[At(o, k)] /\ y[k] = d[At(o, k)]
        BY <1>1, <1>3, <2>1, LineIs
    <2> QED
        BY <2>1, <2>5, <2>6
<1>4. ASSUME NEW k \in Int, k >= 0, k < D, Starts(x, k) PROVE x[k].id > low
    BY <1>1, <1>4, GoodEntry
<1>5. 0 \in Int /\ 0 <= D /\ (0 < D => Starts(x, 0))
    BY <1>1 DEF Good
<1> HIDE DEF D, x, y
<1>6. Good(y, D - 0, low)
    BY <1>1, <1>2, <1>3, <1>4, <1>5, GoodRest
<1> QED
    BY <1>1, <1>2, <1>6 DEF Stands, D, y

LEMMA Halves ==
    ASSUME NEW l \in Nat
    PROVE  /\ l % 2 \in Nat /\ l \div 2 \in Nat /\ l % 2 <= l /\ l \div 2 <= l
           /\ (l % 2) + 2 * (l \div 2) = l
OBVIOUS

\* A whole entry behind base is read by everybody who has room.
LEMMA StandsExtend ==
    ASSUME NEW b \in Cells, NEW o, NEW base \in Offset, NEW low \in Int,
           Stands(b, o, base, low),
           NEW e, e.id \in Int, e.id > low, e.len \in Nat, e.len >= 1, e.len <= MaxPayload,
           Room(o, base, Hdr + e.len),
           \A p \in Offset : Dist(base, p) < Hdr + e.len => b[p] = EntryCell(e, Dist(base, p)),
           \A p \in Offset : Dist(base, p) >= Hdr + e.len => b[p].id < e.id
    PROVE  Stands(b, o, At(base, Hdr + e.len), low)
<1> DEFINE D == Dist(o, base)
           c == Line(b, o)
           n == Hdr + e.len
<1>0. n \in Int /\ n > Hdr /\ n >= 3 /\ n < Size /\ Hdr \in Int /\ Hdr >= 2 /\ Size \in Int
    BY RingInts
<1>1. /\ o \in Offset /\ Good(c, D, low) /\ Stretch(c, D)
      /\ D \in Int /\ D >= 0 /\ D < Size
    BY StandsInts
<1>2. D + n < Size /\ D + n >= 0
    BY <1>0, <1>1 DEF Room
<1>3. Dist(o, At(base, n)) = D + n
    <2> HIDE DEF n
    <2> QED
        BY <1>0, <1>1, <1>2, DistIs
<1>4. Stretch(c, D + n)
    <2> HIDE DEF n
    <2>1. D + n \in Int
        BY <1>0, <1>1
    <2> QED
        BY <1>1, <1>2, <2>1 DEF Stretch
<1>5. ASSUME NEW j \in Int, j >= 0, j < n PROVE c[D + j] = EntryCell(e, j)
    <2> HIDE DEF n
    <2>0. D + j \in Int /\ D + j >= 0 /\ D + j < Size /\ D + j <= Size /\ j <= Size /\ j < Size
        BY <1>0, <1>1, <1>2, <1>5
    <2>1. At(o, D) = base
        BY <1>1, DistIs
    <2>2. At(o, D + j) = At(base, j)
        <3>1. D <= Size
            BY <1>0, <1>1
        <3>2. At(At(o, D), j) = At(o, D + j)
            <4> HIDE DEF D
            <4> QED
                BY <1>1, <1>5, <2>0, <3>1, AtIs
        <3> QED
            BY <2>1, <3>2
    <2>3. At(base, j) \in Offset /\ Dist(base, At(base, j)) = j
        BY <1>5, <2>0, AtIs
    <2>4. b[At(base, j)] = EntryCell(e, j)
        BY <1>5, <2>3 DEF n
    <2>5. c[D + j] = b[At(o, D + j)]
        BY <1>1, <2>0, LineIs
    <2> QED
        BY <2>2, <2>4, <2>5
<1>6. EntryEnd(c, D) = D + n
    <2>1. c[D + 0] = EntryCell(e, 0) /\ c[D + 1] = EntryCell(e, 1) /\ D + 0 = D
        BY <1>0, <1>1, <1>5
    <2>2. EntryCell(e, 0).digit = e.len % 2 /\ EntryCell(e, 1).digit = e.len \div 2
        BY DEF EntryCell
    <2>3. c[D].digit = e.len % 2 /\ c[D + 1].digit = e.len \div 2
        BY <2>1, <2>2
    <2>4. /\ e.len % 2 \in Nat /\ e.len \div 2 \in Nat
          /\ (e.len % 2) + 2 * (e.len \div 2) = e.len
        BY Halves
    <2> HIDE DEF c, D
    <2>5. EntryEnd(c, D) = D + Hdr + (e.len % 2) + 2 * (e.len \div 2)
        BY <2>3 DEF EntryEnd
    <2> DEFINE x == e.len % 2
               y == e.len \div 2
    <2>6. EntryEnd(c, D) = D + Hdr + x + 2 * y /\ x \in Nat /\ y \in Nat /\ x + 2 * y = e.len
        BY <2>4, <2>5
    <2> HIDE DEF x, y
    <2> QED
        BY <1>0, <1>1, <2>6
<1>7. ASSUME NEW j \in Int, j >= 0, j < n PROVE c[D + j].id = e.id /\ c[D + j].pos = j
    <2>1. EntryCell(e, j).id = e.id /\ EntryCell(e, j).pos = j
        BY DEF EntryCell
    <2> HIDE DEF c, D
    <2> QED
        BY <1>5, <1>7, <2>1
<1>8. ASSUME NEW k \in Int, k >= 0, k < D PROVE c[k].id < e.id
    <2> HIDE DEF n
    <2>1. Room(o, base, n)
        BY DEF n
    <2>2. At(o, k) \in Offset /\ Dist(base, At(o, k)) > n
        BY <1>0, <1>1, <1>8, <2>1, FarCells
    <2>3. Dist(base, At(o, k)) \in Int
        BY <2>2, DistIs
    <2>4. Dist(base, At(o, k)) >= n
        <3> DEFINE q == Dist(base, At(o, k))
        <3>1. q > n /\ q \in Int
            BY <2>2, <2>3
        <3> HIDE DEF q
        <3>2. q >= n
            BY <1>0, <3>1
        <3> QED
            BY <3>2 DEF q
    <2>5. b[At(o, k)].id < e.id
        BY <2>2, <2>4 DEF n
    <2>6. c[k] = b[At(o, k)]
        BY <1>0, <1>1, <1>8, LineIs
    <2> QED
        BY <2>5, <2>6
<1> HIDE DEF c, D, n
<1>9. Good(c, D + n, low)
    BY <1>0, <1>1, <1>4, <1>6, <1>7, <1>8, GoodExtend
<1>10. Good(Line(b, o), Dist(o, At(base, n)), low)
    BY <1>3, <1>9 DEF c
<1> QED
    BY <1>1, <1>10 DEF Stands, n

\* do_read_log_to_user() moves behind the entry that it copies.
LEMMA StandsRead ==
    ASSUME buffer \in Cells, w_off \in Offset, NEW o, NEW low,
           Stands(buffer, o, w_off, low), o # w_off
    PROVE  Stands(buffer, logger_offset(o + get_entry_len(o)), w_off, buffer[o].id)
<1> DEFINE D == Dist(o, w_off)
           c == Line(buffer, o)
           k == EntryEnd(c, 0)
           p == At(o, k)
           d == Line(buffer, p)
<1>0. Size \in Int /\ Size > 1
    BY RingInts
<1>1. /\ o \in Offset /\ Good(c, D, low) /\ Stretch(c, D)
      /\ D \in Int /\ D >= 0 /\ D < Size
    BY StandsInts
<1>2. D > 0 /\ Starts(c, 0)
    <2>1. D # 0
        BY <1>1, DistIs
    <2> QED
        BY <1>1, <2>1 DEF Good
<1>3. At(o, 0) = o /\ c[0] = buffer[o]
    BY <1>0, <1>1, AtIs, LineIs
<1>4. /\ k \in Int /\ k > 0 + 2 /\ k <= D /\ (k < D => Starts(c, k))
      /\ (At(o, 0) + get_entry_len(At(o, 0))) % Size = At(o, k)
    BY <1>1, <1>2, EntryStep
<1>5. logger_offset(o + get_entry_len(o)) = p
    <2> HIDE DEF get_entry_len, k
    <2> QED
        BY <1>3, <1>4 DEF logger_offset
<1> HIDE DEF k
<1>6. k >= 0 /\ k < Size
    BY <1>0, <1>1, <1>4
<1>7. p \in Offset /\ Dist(p, w_off) = D - k
    BY <1>1, <1>4, <1>6, DistIs
<1>8. Stretch(d, D - k)
    <2>1. D - k \in Int /\ D - k >= 0 /\ D - k < Size
        BY <1>0, <1>1, <1>4, <1>6
    <2>2. d \in [0 .. Size - 1 -> Cell]
        BY <1>7, LineIs
    <2> HIDE DEF d, D
    <2> QED
        BY <2>1, <2>2 DEF Stretch
<1>9. ASSUME NEW i \in Int, i >= 0, i < D - k PROVE d[i] = c[i + k]
    <2>1. i + k < Size
        BY <1>0, <1>1, <1>4, <1>9
    <2> QED
        BY <1>1, <1>4, <1>6, <1>9, <2>1, LineShift
<1>10. ASSUME NEW i \in Int, i >= k, i < D, Starts(c, i) PROVE c[i].id > c[0].id
    <2>1. i \in 0 .. D - 1 /\ 0 \in 0 .. D - 1 /\ 0 < i
        BY <1>1, <1>2, <1>4, <1>10
    <2>2. c[0].id < c[i].id
        BY <1>1, <1>2, <1>10, <2>1 DEF Good
    <2>3. c[0].id \in Int /\ c[i].id \in Int
        <3>1. 0 \in Int /\ 0 >= 0 /\ 0 < D /\ i >= 0
            BY <2>1, <1>1, <1>2
        <3>2. c[0].id \in Int
            BY <1>1, <3>1, StretchInts
        <3>3. c[i].id \in Int
            BY <1>1, <1>10, <3>1, StretchInts
        <3> QED
            BY <3>2, <3>3
    <2> DEFINE u == c[0].id
               v == c[i].id
    <2>4. u < v /\ u \in Int /\ v \in Int
        BY <2>2, <2>3
    <2> HIDE DEF u, v
    <2>5. v > u
        BY <2>4
    <2> QED
        BY <2>5 DEF u, v
<1> HIDE DEF c, d, D
<1>11. Good(d, D - k, c[0].id)
    BY <1>1, <1>4, <1>6, <1>8, <1>9, <1>10, GoodRest
<1> QED
    BY <1>3, <1>5, <1>7, <1>11 DEF Stands, d

\* Offsets as seen from an offset and from one i cells further.
LEMMA DistFrom ==
    ASSUME NEW base \in Offset, NEW p \in Offset, NEW i \in Int, i >= 0, i < Size
    PROVE  Dist(At(base, i), p) = IF Dist(base, p) >= i THEN Dist(base, p) - i
                                  ELSE Dist(base, p) - i + Size
<1>0. /\ Size \in Int /\ base \in Int /\ base >= 0 /\ base < Size
      /\ p \in Int /\ p >= 0 /\ p < Size
    BY RingInts
<1> QED
    BY <1>0 DEF At, Dist

\* What do_write_log() and do_write_log_from_user() leave in the buffer.
LEMMA StoreIs ==
    ASSUME NEW base \in Offset, NEW w, NEW i \in Int, i >= 0, NEW n \in Int, n >= 0,
           i + n < Size, w_off = At(base, i), NEW p \in Offset
    PROVE  store(w, i, n)[p] =
             IF Dist(base, p) >= i /\ Dist(base, p) < i + n
             THEN EntryCell(entry[w], Dist(base, p)) ELSE buffer[p]
<1> DEFINE q == Dist(base, p)
           k == Dist(w_off, p)
<1>0. Size \in Int /\ i < Size /\ i <= Size
    BY RingInts
<1>1. w_off \in Offset
    BY <1>0, AtIs
<1>2. (p - w_off + Size) % Size = k
    BY <1>1, DistMod
<1>3. q \in Int /\ q >= 0 /\ q < Size
    BY DistIs
<1>4. k = IF q >= i THEN q - i ELSE q - i + Size
    BY <1>0, DistFrom
<1>5. store(w, i, n)[p] = IF k >= n THEN buffer[p] ELSE EntryCell(entry[w], i + k)
    <2> HIDE DEF k
    <2> QED
        BY <1>2 DEF store, EntryCell
<1> HIDE DEF k, q
<1>6. k >= n <=> ~(q >= i /\ q < i + n)
    BY <1>0, <1>3, <1>4
<1>7. q >= i /\ q < i + n => i + k = q
    BY <1>0, <1>3, <1>4
<1>8. store(w, i, n)[p] = IF q >= i /\ q < i + n THEN EntryCell(entry[w], q) ELSE buffer[p]
    BY <1>5, <1>6, <1>7
<1> QED
    BY <1>8 DEF q

LEMMA StoreCells ==
    ASSUME buffer \in Cells, NEW base \in Offset, NEW w,
           NEW i \in Int, i >= 0, NEW n \in Int, n >= 0,
           i + n < Size, w_off = At(base, i),
           entry[w].id \in 0 .. MaxWrites, entry[w].len \in 0 .. MaxPayload
    PROVE  store(w, i, n) \in Cells
<1>0. MaxWrites \in Nat /\ MaxPayload \in Nat /\ MaxPayload >= 1 /\ Size \in Int /\ Size > 1
    BY RingInts
<1>1. ASSUME NEW q \in Int, q >= 0, q < Size PROVE EntryCell(entry[w], q) \in Cell
    <2> DEFINE l == entry[w].len
               g == CASE q = 0 -> l % 2 [] q = 1 -> l \div 2 [] OTHER -> 0
    <2>1. l \in Nat /\ l <= MaxPayload
        BY <1>0
    <2>2. l % 2 \in 0 .. MaxPayload /\ l \div 2 \in 0 .. MaxPayload
        <3> HIDE DEF l
        <3>1. l % 2 \in Nat /\ l \div 2 \in Nat /\ l % 2 <= l /\ l \div 2 <= l
            BY <2>1, Halves
        <3> DEFINE x == l % 2
                   y == l \div 2
        <3>2. x \in Nat /\ y \in Nat /\ x <= l /\ y <= l
            BY <3>1
        <3> HIDE DEF x, y
        <3>3. x \in 0 .. MaxPayload /\ y \in 0 .. MaxPayload
            BY <1>0, <2>1, <3>2
        <3> QED
            BY <3>3 DEF x, y
    <2>3. g \in 0 .. MaxPayload
        <3> HIDE DEF l
        <3> QED
            BY <1>0, <2>2
    <2>4. EntryCell(entry[w], q) = [id |-> entry[w].id, pos |-> q, digit |-> g]
        BY DEF EntryCell
    <2>5. q \in 0 .. Size
        BY <1>0, <1>1
    <2> HIDE DEF g
    <2> QED
        BY <2>3, <2>4, <2>5 DEF Cell
<1>2. ASSUME NEW p \in Offset PROVE store(w, i, n)[p] \in Cell
    <2>1. Dist(base, p) \in Int /\ Dist(base, p) >= 0 /\ Dist(base, p) < Size
        BY DistIs
    <2>2. EntryCell(entry[w], Dist(base, p)) \in Cell /\ buffer[p] \in Cell
        BY <1>1, <2>1 DEF Cells
    <2>3. store(w, i, n)[p] =
             IF Dist(base, p) >= i /\ Dist(base, p) < i + n
             THEN EntryCell(entry[w], Dist(base, p)) ELSE buffer[p]
        BY StoreIs
    <2> HIDE DEF store
    <2> QED
        BY <2>2, <2>3
<1>3. store(w, i, n) = [p \in Offset |-> store(w, i, n)[p]]
    BY DEF store
<1> HIDE DEF store
<1> QED
    BY <1>2, <1>3 DEF Cells
-----------------------------------------------------------------------------
(***************************************************************************)
(* The invariant has two parts.  LogBase holds in every state: types, the  *)
(* list of readers, and what a writer still has to write.  LogCore says    *)
(* where everybody stands, and holds in the states that are Sound: no      *)
(* failed write has taken back more than its entry, and the reader at      *)
(* which fix_up_readers() stands has not been freed.                       *)
(***************************************************************************)
Parts(s) == IF s = <<>> THEN 0 ELSE IF Len(s) = 1 THEN s[1] ELSE s[1] + s[2]

AtWork == {"fixup", "lost", "header", "payload"}

ListInv ==
    /\ NoDup(readers)
    /\ \A r \in Reader : OnList(readers, r) <=> rpc[r] # "closed"
    /\ \A r \in Reader : rpc[r] = "closed" => last[r] = 0
    /\ \A r \in Reader : last[r] <= writes

\* What w has to write, and has written.
WriterOk(w) ==
    /\ wpc[w] \in {"idle", "wake"} => entry[w] = NoEntry
    /\ wpc[w] \notin {"idle", "wake"} => entry[w].len >= 1 /\ Len(iov[w]) <= 2
    /\ wpc[w] \in {"lock", "fixup", "lost", "header"} =>
          entry[w].done = 0 /\ Parts(iov[w]) = entry[w].len
    /\ wpc[w] = "payload" => entry[w].done + Parts(iov[w]) = Hdr + entry[w].len
    /\ wpc[w] \in AtWork => entry[w].id = writes

WriterInv ==
    /\ \A w \in Writer : mutex = w <=> wpc[w] \in AtWork
    /\ \A w \in Writer : WriterOk(w)
    /\ cursor # None => \E w \in Writer : wpc[w] \in {"fixup", "lost"}

IdInv == \A o \in Offset : buffer[o].id <= writes

LogBase == TypeOK /\ ListInv /\ WriterInv /\ IdInv

Sound == intact /\ (cursor # None => OnList(readers, cursor))

\* Nobody writes.
RestInv ==
    /\ Stands(buffer, head, w_off, 0)
    /\ \A r \in Reader : OnList(readers, r) => Stands(buffer, r_off[r], w_off, last[r])

\* w has written the cells up to done of its entry, which begins at base.
\* The old entries end there.
Written(w, base) ==
    LET e == entry[w]
    IN  /\ w_off = At(base, e.done)
        /\ \A o \in Offset : Dist(base, o) < e.done => buffer[o] = EntryCell(e, Dist(base, o))
        /\ \A o \in Offset : Dist(base, o) >= e.done => buffer[o].id < writes

\* fix_up_readers() has dealt with r.
Passed(r) == Ahead(readers, r, cursor)

BusyInv(w, base) ==
    /\ base \in Offset
    /\ Written(w, base)
    /\ Stands(buffer, head, base, 0) /\ Room(head, base, EntryLen(w))
    /\ \A r \in Reader : OnList(readers, r) =>
          /\ Stands(buffer, r_off[r], base, last[r])
          /\ last[r] < writes
          /\ cursor = None \/ Passed(r) => Room(r_off[r], base, EntryLen(w))

LogCore ==
    /\ mutex = None => RestInv
    /\ \A w \in Writer : mutex = w => \E base \in Offset : BusyInv(w, base)

LogInv == LogBase /\ (Sound => LogCore)

EntryRec == [id : 0 .. MaxWrites, len : 0 .. MaxPayload, done : 0 .. Hdr + MaxPayload]

LEMMA TypeCells ==
    ASSUME TypeOK
    PROVE  buffer \in Cells /\ entry \in [Writer -> EntryRec]
BY DEF TypeOK, Cells, Cell, EntryRec

\* A step of w leaves the other writers alone.
Others(w) ==
    \A v \in Writer : v # w =>
        entry'[v] = entry[v] /\ iov'[v] = iov[v] /\ orig'[v] = orig[v] /\ wpc'[v] = wpc[v]

-----------------------------------------------------------------------------
(***************************************************************************)
(* LogBase: the steps of the readers, and of a writer outside the mutex.   *)
(***************************************************************************)

\* A step of a writer that does not hold the mutex.
LEMMA WriterOutside ==
    ASSUME WriterInv, NEW w \in Writer, Others(w), UNCHANGED <<mutex, cursor, writes>>,
           wpc[w] \notin AtWork, wpc'[w] \notin AtWork, WriterOk(w)'
    PROVE  WriterInv'
<1>1. ASSUME NEW v \in Writer PROVE mutex' = v <=> wpc'[v] \in AtWork
    BY DEF WriterInv, Others
<1>2. ASSUME NEW v \in Writer PROVE WriterOk(v)'
    <2>1. CASE v = w
        BY <2>1
    <2>2. CASE v # w
        BY <2>2 DEF WriterInv, WriterOk, Others
    <2> QED
        BY <2>1, <2>2
<1>3. cursor' # None => \E v \in Writer : wpc'[v] \in {"fixup", "lost"}
    BY DEF WriterInv, Others, AtWork
<1> QED
    BY <1>1, <1>2, <1>3 DEF WriterInv

\* A step of a reader.
LEMMA WriterUnmoved ==
    ASSUME WriterInv, UNCHANGED writerVars
    PROVE  WriterInv'
BY DEF WriterInv, WriterOk, writerVars

LEMMA StartBase ==
    ASSUME LogBase, NEW w \in Writer, write_start(w)
    PROVE  LogBase' /\ Others(w)
<1>0. TypeOK /\ ListInv /\ WriterInv /\ IdInv
      /\ MaxPayload \in Int /\ MaxPayload >= 1 /\ Hdr \in Int /\ Hdr >= 2
    BY RingInts DEF LogBase
<1>a. PICK len \in 1 .. MaxPayload : \E first \in 1 .. len :
          /\ iov' = [iov EXCEPT ![w] = IF first = len THEN <<len>> ELSE <<first, len - first>>]
          /\ entry' = [entry EXCEPT ![w].len = len]
    BY DEF write_start
<1>1. PICK first \in 1 .. len :
          /\ iov' = [iov EXCEPT ![w] = IF first = len THEN <<len>> ELSE <<first, len - first>>]
          /\ entry' = [entry EXCEPT ![w].len = len]
    BY <1>a
<1>2. /\ wpc[w] = "idle" /\ orig' = [orig EXCEPT ![w] = w_off]
      /\ wpc' = [wpc EXCEPT ![w] = "lock"]
      /\ UNCHANGED <<buffer, w_off, head, readers, r_off, last, writes, cursor, mutex, rpc, asleep,
                     intact>>
    BY DEF write_start, logVars, readerVars
<1> DEFINE s == IF first = len THEN <<len>> ELSE <<first, len - first>>
<1>3. len \in Int /\ len >= 1 /\ len <= MaxPayload /\ first \in Int /\ first >= 1 /\ first <= len
    BY <1>0
<1>4. s \in Seq(1 .. MaxPayload) /\ Len(s) <= 2 /\ Parts(s) = len
    <2>1. CASE first = len
        <3>1. s = <<len>> /\ <<len>> # <<>> /\ Len(<<len>>) = 1 /\ <<len>>[1] = len
            BY <2>1
        <3>2. Parts(<<len>>) = len
            BY <3>1 DEF Parts
        <3>3. <<len>> \in Seq(1 .. MaxPayload)
            OBVIOUS
        <3> HIDE DEF s
        <3> QED
            BY <3>1, <3>2, <3>3
    <2>2. CASE first # len
        <3> DEFINE u == len - first
        <3>1. u \in 1 .. MaxPayload /\ first \in 1 .. MaxPayload /\ first + u = len
            BY <1>3, <2>2, <1>0
        <3> HIDE DEF u
        <3>2. <<first, u>> # <<>> /\ Len(<<first, u>>) = 2 /\ <<first, u>>[1] = first /\ <<first, u>>[2] = u
            OBVIOUS
        <3>3. s = <<first, u>>
            BY <2>2 DEF u
        <3>4. <<first, u>> \in Seq(1 .. MaxPayload)
            BY <3>1
        <3>5. Parts(<<first, u>>) = len
            BY <3>1, <3>2 DEF Parts
        <3> HIDE DEF s
        <3> QED
            BY <3>2, <3>3, <3>4, <3>5
    <2> QED
        BY <2>1, <2>2
<1> HIDE DEF s
<1>5. iov' = [iov EXCEPT ![w] = s]
    BY <1>1 DEF s
<1>6. entry'[w].len = len /\ entry'[w].done = 0 /\ entry'[w] \in EntryRec
    <2>1. entry[w] = NoEntry
        BY <1>0, <1>2 DEF WriterInv, WriterOk
    <2>2. entry'[w] = [id |-> 0, len |-> len, done |-> 0]
        <3>1. entry'[w] = [entry[w] EXCEPT !.len = len]
            BY <1>0, <1>1 DEF TypeOK
        <3> QED
            BY <2>1, <3>1 DEF NoEntry
    <2>3. 0 \in 0 .. MaxWrites /\ len \in 0 .. MaxPayload /\ 0 \in 0 .. Hdr + MaxPayload
        BY <1>0, <1>3, RingInts
    <2> QED
        BY <2>2, <2>3 DEF EntryRec
<1>7. /\ \A v \in Writer : v # w => entry'[v] = entry[v] /\ iov'[v] = iov[v] /\ orig'[v] = orig[v]
                                    /\ wpc'[v] = wpc[v]
      /\ iov'[w] = s /\ orig'[w] = w_off /\ wpc'[w] = "lock"
    BY <1>0, <1>1, <1>2, <1>5 DEF TypeOK
<1>8. TypeOK'
    <2>1. entry' \in [Writer -> EntryRec]
        BY <1>0, <1>1, <1>6, <1>7, TypeCells
    <2>2. /\ iov' \in [Writer -> Seq(1 .. MaxPayload)] /\ orig' \in [Writer -> Offset]
          /\ wpc' \in [Writer -> WPCs]
        BY <1>0, <1>2, <1>4, <1>5 DEF TypeOK, WPCs
    <2> QED
        BY <1>0, <1>2, <2>1, <2>2 DEF TypeOK, EntryRec
<1>9. WriterOk(w)'
    BY <1>3, <1>4, <1>6, <1>7 DEF WriterOk, AtWork
<1>10. WriterInv'
    BY <1>0, <1>2, <1>7, <1>9, WriterOutside DEF AtWork, Others
<1>11. ListInv' /\ IdInv'
    BY <1>0, <1>2 DEF ListInv, IdInv
<1> QED
    BY <1>7, <1>8, <1>10, <1>11 DEF LogBase, Others

LEMMA WakeBase ==
    ASSUME LogBase, NEW w \in Writer, wake_up_interruptible(w)
    PROVE  LogBase' /\ Others(w)
<1>0. TypeOK /\ ListInv /\ WriterInv /\ IdInv
    BY DEF LogBase
<1>1. /\ wpc[w] = "wake" /\ asleep' = [r \in Reader |-> FALSE]
      /\ wpc' = [wpc EXCEPT ![w] = "idle"]
      /\ UNCHANGED <<buffer, w_off, head, readers, r_off, last, writes, cursor, mutex, rpc,
                     orig, iov, entry, intact>>
    BY DEF wake_up_interruptible, logVars
<1>2. TypeOK'
    BY <1>0, <1>1 DEF TypeOK, WPCs
<1>3. (\A v \in Writer : v # w => wpc'[v] = wpc[v]) /\ wpc'[w] = "idle"
    BY <1>0, <1>1 DEF TypeOK
<1>4. WriterOk(w)'
    BY <1>0, <1>1, <1>3 DEF WriterInv, WriterOk, AtWork
<1>5. Others(w)
    BY <1>1, <1>3 DEF Others
<1>6. WriterInv'
    BY <1>0, <1>1, <1>3, <1>4, <1>5, WriterOutside DEF AtWork
<1>7. ListInv' /\ IdInv'
    BY <1>0, <1>1 DEF ListInv, IdInv
<1> QED
    BY <1>2, <1>5, <1>6, <1>7 DEF LogBase

\* What the readers do to their own state only.
LEMMA ReaderQuietBase ==
    ASSUME LogBase, UNCHANGED <<logVars, writerVars, readers, r_off, last>>,
           rpc' \in [Reader -> RPCs], asleep' \in [Reader -> BOOLEAN],
           \A r \in Reader : rpc'[r] = "closed" <=> rpc[r] = "closed"
    PROVE  LogBase'
<1>0. TypeOK /\ ListInv /\ WriterInv /\ IdInv
    BY DEF LogBase
<1>1. UNCHANGED <<buffer, w_off, head, readers, r_off, last, writes, cursor, mutex, wpc,
                  orig, iov, entry, intact>>
    BY DEF logVars, writerVars
<1>2. TypeOK'
    BY <1>0, <1>1 DEF TypeOK
<1>3. WriterInv'
    BY <1>0, WriterUnmoved
<1>4. ListInv' /\ IdInv'
    BY <1>0, <1>1 DEF ListInv, IdInv
<1> QED
    BY <1>2, <1>3, <1>4 DEF LogBase

LEMMA ReaderQuiet ==
    ASSUME LogBase, NEW r \in Reader,
           prepare_to_wait(r) \/ read_test(r) \/ read_schedule(r) \/ signal(r)
    PROVE  LogBase' /\ UNCHANGED <<logVars, writerVars, readers, r_off, last>>
<1>0. rpc \in [Reader -> RPCs] /\ asleep \in [Reader -> BOOLEAN]
    BY DEF LogBase, TypeOK
<1>1. rpc[r] # "closed" /\ UNCHANGED <<logVars, writerVars, readers, r_off, last>>
    BY DEF prepare_to_wait, read_test, read_schedule, signal
<1>2. /\ asleep' = asleep \/ \E x \in BOOLEAN : asleep' = [asleep EXCEPT ![r] = x]
      /\ rpc' = rpc \/ \E x \in RPCs \ {"closed"} : rpc' = [rpc EXCEPT ![r] = x]
    BY DEF prepare_to_wait, read_test, read_schedule, signal, RPCs
<1>3. asleep' \in [Reader -> BOOLEAN]
    BY <1>0, <1>2
<1>4. rpc' \in [Reader -> RPCs] /\ \A q \in Reader : rpc'[q] = "closed" <=> rpc[q] = "closed"
    BY <1>0, <1>1, <1>2
<1> QED
    BY <1>1, <1>3, <1>4, ReaderQuietBase

LEMMA OpenBase ==
    ASSUME LogBase, NEW r \in Reader, logger_open(r)
    PROVE  /\ LogBase' /\ last[r] = 0 /\ r_off'[r] = head
           /\ \A q : OnList(readers', q) <=> OnList(readers, q) \/ q = r
           /\ \A q \in Reader : q # r => r_off'[q] = r_off[q]
<1>0. TypeOK /\ ListInv /\ WriterInv /\ IdInv
    BY DEF LogBase
<1>1. /\ rpc[r] = "closed" /\ r_off' = [r_off EXCEPT ![r] = head]
      /\ readers' = Append(readers, r) /\ rpc' = [rpc EXCEPT ![r] = "idle"]
      /\ UNCHANGED <<buffer, w_off, head, writerVars, asleep, last>>
      /\ UNCHANGED <<mutex, wpc, orig, iov, entry, cursor, writes, intact>>
    BY DEF logger_open, logVars, writerVars
<1>2. readers \in Seq(Reader) /\ ~OnList(readers, r) /\ NoDup(readers) /\ last[r] = 0
    BY <1>0, <1>1 DEF TypeOK, ListInv
<1>3. /\ readers' \in Seq(Reader) /\ NoDup(readers')
      /\ \A q : OnList(readers', q) <=> OnList(readers, q) \/ q = r
    BY <1>1, <1>2, AppendList
<1>4. /\ rpc'[r] = "idle" /\ r_off'[r] = head
      /\ \A q \in Reader : q # r => rpc'[q] = rpc[q] /\ r_off'[q] = r_off[q]
    BY <1>0, <1>1 DEF TypeOK
<1>5. TypeOK'
    <2>1. rpc' \in [Reader -> RPCs] /\ r_off' \in [Reader -> Offset]
        BY <1>0, <1>1 DEF TypeOK, RPCs
    <2> QED
        BY <1>0, <1>1, <1>3, <2>1 DEF TypeOK
<1>6. ListInv' /\ IdInv'
    BY <1>0, <1>1, <1>3, <1>4 DEF ListInv, IdInv
<1>7. WriterInv'
    BY <1>0, <1>1, WriterUnmoved
<1> QED
    BY <1>2, <1>3, <1>4, <1>5, <1>6, <1>7 DEF LogBase

LEMMA CloseBase ==
    ASSUME LogBase, NEW r \in Reader, logger_release(r)
    PROVE  /\ LogBase' /\ OnList(readers, r)
           /\ \A q : OnList(readers', q) <=> OnList(readers, q) /\ q # r
           /\ \A q \in Reader : q # r => r_off'[q] = r_off[q] /\ last'[q] = last[q]
<1>0. TypeOK /\ ListInv /\ WriterInv /\ IdInv
    BY DEF LogBase
<1>1. /\ rpc[r] = "idle" /\ r_off' = [r_off EXCEPT ![r] = 0]
      /\ readers' = list_del(readers, r) /\ rpc' = [rpc EXCEPT ![r] = "closed"]
      /\ last' = [last EXCEPT ![r] = 0]
      /\ UNCHANGED <<buffer, w_off, head, writerVars, asleep>>
      /\ UNCHANGED <<mutex, wpc, orig, iov, entry, cursor, writes, intact>>
    BY DEF logger_release, logVars, writerVars
<1>2. readers \in Seq(Reader) /\ OnList(readers, r) /\ NoDup(readers)
    BY <1>0, <1>1 DEF TypeOK, ListInv
<1>3. /\ readers' \in Seq(Reader) /\ NoDup(readers')
      /\ \A q : OnList(readers', q) <=> OnList(readers, q) /\ q # r
    BY <1>1, <1>2, DelList
<1>4. /\ rpc'[r] = "closed" /\ last'[r] = 0
      /\ \A q \in Reader : q # r => rpc'[q] = rpc[q] /\ r_off'[q] = r_off[q] /\ last'[q] = last[q]
    BY <1>0, <1>1 DEF TypeOK
<1>5. 0 \in Offset /\ 0 \in 0 .. MaxWrites /\ 0 <= writes
    <2>1. MaxWrites \in Nat /\ writes \in 0 .. MaxWrites
        BY <1>0, RingInts DEF TypeOK
    <2>2. 0 \in Int /\ 0 >= 0 /\ 0 < Size
        BY RingInts
    <2>3. 0 \in Offset
        BY <2>2, RingInts
    <2> QED
        BY <2>1, <2>3
<1>6. TypeOK'
    <2>1. /\ rpc' \in [Reader -> RPCs] /\ r_off' \in [Reader -> Offset]
          /\ last' \in [Reader -> 0 .. MaxWrites]
        BY <1>0, <1>1, <1>5 DEF TypeOK, RPCs
    <2> QED
        BY <1>0, <1>1, <1>3, <2>1 DEF TypeOK
<1>7. ListInv' /\ IdInv'
    BY <1>0, <1>1, <1>3, <1>4, <1>5 DEF ListInv, IdInv
<1>8. WriterInv'
    BY <1>0, <1>1, WriterUnmoved
<1> QED
    BY <1>2, <1>3, <1>4, <1>6, <1>7, <1>8 DEF LogBase

LEMMA FlushBase ==
    ASSUME LogBase, NEW w \in Writer, logger_flush(w)
    PROVE  LogBase'
<1>0. TypeOK /\ ListInv /\ WriterInv /\ IdInv /\ w_off \in Offset
    BY DEF LogBase, TypeOK
<1>1. /\ r_off' = [r \in Reader |-> IF r \in ToSet(readers) THEN w_off ELSE r_off[r]]
      /\ head' = w_off
      /\ UNCHANGED <<buffer, w_off, readers, rpc, asleep, last, writerVars>>
      /\ UNCHANGED <<mutex, wpc, orig, iov, entry, cursor, writes, intact>>
    BY DEF logger_flush, writerVars
<1>2. TypeOK'
    <2>1. r_off' \in [Reader -> Offset]
        BY <1>0, <1>1 DEF TypeOK
    <2> QED
        BY <1>0, <1>1, <2>1 DEF TypeOK
<1>3. ListInv' /\ IdInv'
    BY <1>0, <1>1 DEF ListInv, IdInv
<1>4. WriterInv'
    BY <1>0, <1>1, WriterUnmoved
<1> QED
    BY <1>2, <1>3, <1>4 DEF LogBase

LEMMA ReadBase ==
    ASSUME LogBase, NEW r \in Reader, read_entry(r)
    PROVE  /\ LogBase' /\ OnList(readers, r)
           /\ \/ UNCHANGED <<r_off, last>>
              \/ /\ w_off # r_off[r] /\ r_off'[r] = do_read_log_to_user(r)
                 /\ last'[r] = buffer[r_off[r]].id
                 /\ \A q \in Reader : q # r => r_off'[q] = r_off[q] /\ last'[q] = last[q]
<1>0. TypeOK /\ ListInv /\ WriterInv /\ IdInv /\ rpc[r] = "read"
      /\ UNCHANGED <<logVars, writerVars, readers>>
      /\ rpc \in [Reader -> RPCs] /\ asleep \in [Reader -> BOOLEAN]
    BY DEF LogBase, read_entry, TypeOK
<1>a. OnList(readers, r)
    BY <1>0 DEF ListInv
<1>1. CASE w_off = r_off[r] /\ asleep' = [asleep EXCEPT ![r] = TRUE]
           /\ rpc' = [rpc EXCEPT ![r] = "wait"] /\ UNCHANGED <<r_off, last>>
    BY <1>0, <1>a, <1>1, ReaderQuietBase DEF RPCs
<1>2. CASE rpc' = [rpc EXCEPT ![r] = "idle"] /\ UNCHANGED <<r_off, last, asleep>>
    BY <1>0, <1>a, <1>2, ReaderQuietBase DEF RPCs
<1>3. CASE w_off # r_off[r] /\ r_off' = [r_off EXCEPT ![r] = do_read_log_to_user(r)]
           /\ last' = [last EXCEPT ![r] = buffer[r_off[r]].id]
           /\ rpc' = [rpc EXCEPT ![r] = "idle"] /\ UNCHANGED asleep
    <2> DEFINE o == r_off[r]
               p == do_read_log_to_user(r)
    <2>1. /\ UNCHANGED <<buffer, w_off, head, mutex, wpc, orig, iov, entry, cursor, writes, intact>>
          /\ UNCHANGED <<readers, writerVars>>
        BY <1>0 DEF logVars, writerVars
    <2>2. o \in Offset /\ buffer \in Cells
        BY <1>0, TypeCells DEF TypeOK
    <2>3. p \in Offset
        BY <2>2, AnyStep DEF do_read_log_to_user, logger_offset
    <2>4. buffer[o].id \in 0 .. MaxWrites /\ buffer[o].id <= writes
        BY <1>0, <2>2 DEF IdInv, Cells, Cell
    <2> HIDE DEF p, do_read_log_to_user
    <2>5. /\ rpc'[r] = "idle" /\ r_off'[r] = p /\ last'[r] = buffer[o].id
          /\ \A q \in Reader : q # r => rpc'[q] = rpc[q] /\ r_off'[q] = r_off[q] /\ last'[q] = last[q]
        BY <1>0, <1>3 DEF TypeOK, p
    <2>6. TypeOK'
        <3>1. /\ rpc' \in [Reader -> RPCs] /\ r_off' \in [Reader -> Offset]
              /\ last' \in [Reader -> 0 .. MaxWrites]
            BY <1>0, <1>3, <2>3, <2>4 DEF TypeOK, RPCs, p
        <3> QED
            BY <1>0, <1>3, <2>1, <3>1 DEF TypeOK
    <2>7. ListInv' /\ IdInv'
        BY <1>0, <1>a, <2>1, <2>4, <2>5 DEF ListInv, IdInv
    <2>8. WriterInv'
        BY <1>0, <2>1, WriterUnmoved
    <2> QED
        BY <1>a, <1>3, <2>5, <2>6, <2>7, <2>8 DEF LogBase, p
<1> QED
    BY <1>1, <1>2, <1>3 DEF read_entry

-----------------------------------------------------------------------------
(***************************************************************************)
(* LogBase: the writer that holds the mutex, or takes it.                  *)
(***************************************************************************)
LEMMA WriterStays ==
    ASSUME WriterInv, NEW w \in Writer, Others(w),
           mutex \in {w, None}, mutex' \in {w, None},
           mutex' = w <=> wpc'[w] \in AtWork,
           WriterOk(w)',
           cursor' # None => wpc'[w] \in {"fixup", "lost"}
    PROVE  WriterInv'
<1>0. None \notin Writer
    BY RingInts
<1>1. ASSUME NEW v \in Writer, v # w
      PROVE  (mutex' = v <=> wpc'[v] \in AtWork) /\ WriterOk(v)'
    <2>1. mutex # v /\ mutex' # v /\ wpc'[v] = wpc[v] /\ entry'[v] = entry[v] /\ iov'[v] = iov[v]
        BY <1>0, <1>1 DEF Others
    <2>2. wpc[v] \notin AtWork /\ WriterOk(v)
        BY <2>1 DEF WriterInv
    <2> QED
        BY <2>1, <2>2 DEF WriterOk
<1> QED
    BY <1>1 DEF WriterInv

\* The numbers of an entry that is being written.
LEMMA BusyInts ==
    ASSUME TypeOK, NEW w \in Writer, entry[w].len >= 1
    PROVE  /\ entry[w].len \in Nat /\ entry[w].len <= MaxPayload
           /\ entry[w].done \in Int /\ entry[w].done >= 0
           /\ EntryLen(w) = Hdr + entry[w].len /\ EntryLen(w) \in Int
           /\ EntryLen(w) > Hdr /\ EntryLen(w) <= Hdr + MaxPayload /\ EntryLen(w) < Size
           /\ writes \in Int /\ writes >= 0
<1>0. /\ Size \in Int /\ Hdr \in Int /\ MaxPayload \in Int /\ Hdr >= 2 /\ MaxPayload >= 1
      /\ 2 * (Hdr + MaxPayload) <= Size /\ MaxWrites \in Nat
    BY RingInts
<1>1. /\ entry[w].len \in 0 .. MaxPayload /\ entry[w].done \in 0 .. Hdr + MaxPayload
      /\ writes \in 0 .. MaxWrites
    BY DEF TypeOK
<1> QED
    BY <1>0, <1>1 DEF EntryLen

LEMMA LockBase ==
    ASSUME LogBase, NEW w \in Writer, write_lock(w)
    PROVE  /\ LogBase' /\ entry'[w].len = entry[w].len /\ entry'[w].done = 0
           /\ entry[w].len >= 1
           /\ cursor' # None => readers # <<>> /\ cursor' = readers[1]
           /\ cursor' = None => readers = <<>>
<1>0. TypeOK /\ ListInv /\ WriterInv /\ IdInv /\ mutex = None /\ wpc[w] = "lock"
      /\ writes < MaxWrites
    BY DEF LogBase, write_lock
<1>1. /\ mutex' = w /\ writes' = writes + 1 /\ entry' = [entry EXCEPT ![w].id = writes + 1]
      /\ head' = fix_up(head, EntryLen(w)) /\ cursor' = First(readers)
      /\ wpc' = [wpc EXCEPT ![w] = "fixup"]
      /\ UNCHANGED <<buffer, w_off, readers, r_off, rpc, asleep, last, orig, iov, intact>>
    BY DEF write_lock, readerVars
<1> DEFINE e == entry[w]
           n == EntryLen(w)
<1>2. e.len >= 1 /\ e.done = 0 /\ Len(iov[w]) <= 2 /\ Parts(iov[w]) = e.len
    BY <1>0 DEF WriterInv, WriterOk
<1>3. e.len \in Nat /\ n \in Int /\ n >= 1 /\ writes \in Int /\ writes >= 0
    BY <1>0, <1>2, BusyInts, RingInts
<1>4. buffer \in Cells /\ w_off \in Offset /\ head \in Offset
    BY <1>0, TypeCells DEF TypeOK
<1>5. /\ entry'[w].id = writes' /\ entry'[w].len = e.len /\ entry'[w].done = 0
      /\ entry' \in [Writer -> EntryRec]
      /\ wpc'[w] = "fixup" /\ wpc' \in [Writer -> WPCs]
      /\ Others(w)
    <2>1. writes + 1 \in 0 .. MaxWrites
        BY <1>0, <1>3, RingInts
    <2>2. entry'[w] = [e EXCEPT !.id = writes + 1]
        BY <1>0, <1>1 DEF TypeOK
    <2>3. /\ entry' \in [Writer -> EntryRec]
          /\ \A v \in Writer : v # w => entry'[v] = entry[v]
        BY <1>0, <1>1, <2>1 DEF TypeOK, EntryRec
    <2>4. wpc'[w] = "fixup" /\ wpc' \in [Writer -> WPCs] /\ \A v \in Writer : v # w => wpc'[v] = wpc[v]
        BY <1>0, <1>1 DEF TypeOK, WPCs
    <2>5. entry'[w].id = writes' /\ entry'[w].len = e.len /\ entry'[w].done = 0
        <3>1. e \in EntryRec
            BY <1>0, TypeCells
        <3> HIDE DEF e
        <3> QED
            BY <1>1, <1>2, <2>2, <3>1 DEF EntryRec
    <2> QED
        BY <1>1, <2>3, <2>4, <2>5 DEF Others
<1>6. head' \in Offset
    <2> HIDE DEF n
    <2>1. head' = fix_up(head, n)
        BY <1>1 DEF n
    <2> QED
        BY <1>3, <1>4, <2>1, FixUpOffset
<1>7. readers \in Seq(Reader) /\ None \notin Reader
    BY <1>0, RingInts DEF TypeOK
<1>8. /\ cursor' \in Reader \cup {None}
      /\ cursor' # None => readers # <<>> /\ cursor' = readers[1]
      /\ cursor' = None => readers = <<>>
    <2>1. CASE readers = <<>>
        BY <1>1, <2>1 DEF First
    <2>2. CASE readers # <<>>
        <3>1. Head(readers) \in Reader /\ Head(readers) = readers[1]
            BY <1>7, <2>2, HeadOn
        <3>2. cursor' = Head(readers)
            BY <1>1, <2>2 DEF First
        <3> QED
            BY <1>7, <2>2, <3>1, <3>2
    <2> QED
        BY <2>1, <2>2
<1>9. TypeOK'
    <2>1. writes' \in 0 .. MaxWrites
        BY <1>0, <1>1, <1>3, RingInts
    <2> QED
        BY <1>0, <1>1, <1>5, <1>6, <1>8, <2>1 DEF TypeOK, EntryRec
<1>10. ASSUME NEW x \in Int, x <= writes PROVE x <= writes'
    BY <1>1, <1>3, <1>10
<1>11. ListInv'
    <2>1. ASSUME NEW r \in Reader PROVE last[r] <= writes'
        <3>1. last[r] \in 0 .. MaxWrites /\ last[r] <= writes
            BY <1>0 DEF TypeOK, ListInv
        <3> QED
            BY <1>10, <3>1, RingInts
    <2> QED
        BY <1>0, <1>1, <2>1 DEF ListInv
<1>12. IdInv'
    <2>1. ASSUME NEW o \in Offset PROVE buffer[o].id <= writes'
        BY <1>0, <1>4, <1>10, CellInts DEF IdInv, Cells
    <2> QED
        BY <1>1, <2>1 DEF IdInv
<1>13. WriterOk(w)'
    BY <1>1, <1>2, <1>5 DEF WriterOk, AtWork
<1>14. WriterInv'
    BY <1>0, <1>1, <1>5, <1>13, WriterStays DEF AtWork
<1> QED
    BY <1>2, <1>5, <1>8, <1>9, <1>11, <1>12, <1>14 DEF LogBase

\* The reader after c, with c at place m.
LEMMA NextReaderIs ==
    ASSUME readers \in Seq(Reader), NoDup(readers), None \notin Reader,
           NEW m \in DOMAIN readers, NEW c, c = readers[m]
    PROVE  \/ m = Len(readers) /\ NextReader(c) = None
           \/ m + 1 \in DOMAIN readers /\ NextReader(c) = readers[m + 1]
<1> DEFINE later == {i \in DOMAIN readers : i > 1 /\ readers[i - 1] = c}
<1>0. DOMAIN readers = 1 .. Len(readers) /\ Len(readers) \in Nat /\ m \in Int /\ m >= 1
    OBVIOUS
<1>1. ASSUME NEW i \in later PROVE i = m + 1
    <2>1. i - 1 \in DOMAIN readers /\ readers[i - 1] = readers[m]
        BY <1>0
    <2>2. i - 1 = m
        BY <2>1 DEF NoDup
    <2> QED
        BY <1>0, <2>2
<1>2. NextReader(c) = IF later = {} THEN None ELSE readers[CHOOSE i \in later : TRUE]
    BY DEF NextReader
<1>3. CASE m + 1 \in DOMAIN readers
    <2>1. m + 1 \in later
        BY <1>0, <1>3
    <2> HIDE DEF later
    <2> QED
        BY <1>1, <1>2, <1>3, <2>1
<1>4. CASE m + 1 \notin DOMAIN readers
    <2>1. m = Len(readers) /\ later = {}
        BY <1>0, <1>1, <1>4
    <2> HIDE DEF later
    <2> QED
        BY <1>2, <2>1
<1> QED
    BY <1>3, <1>4

LEMMA FixUpBase ==
    ASSUME LogBase, NEW w \in Writer, fix_up_readers(w)
    PROVE  LogBase'
<1>0. TypeOK /\ ListInv /\ WriterInv /\ IdInv /\ wpc[w] = "fixup" /\ mutex = w
    BY DEF LogBase, fix_up_readers, WriterInv, AtWork
<1>1. UNCHANGED <<buffer, w_off, head, readers, rpc, asleep, last, mutex, orig, iov, entry, writes,
                  intact>>
    BY DEF fix_up_readers, logVars
<1>2. ListInv' /\ IdInv'
    BY <1>0, <1>1 DEF ListInv, IdInv
<1>3. WriterOk(w)
    BY <1>0 DEF WriterInv
<1>4. ASSUME NEW l \in {"lost", "header"}, wpc' = [wpc EXCEPT ![w] = l],
             UNCHANGED <<r_off, cursor>>, l = "lost" \/ cursor = None
      PROVE  LogBase'
    <2>1. wpc'[w] = l /\ wpc' \in [Writer -> WPCs] /\ Others(w)
        BY <1>0, <1>1, <1>4 DEF TypeOK, WPCs, Others
    <2>2. TypeOK'
        BY <1>0, <1>1, <1>4, <2>1 DEF TypeOK
    <2>3. WriterOk(w)'
        BY <1>0, <1>1, <1>3, <1>4, <2>1 DEF WriterOk, AtWork
    <2>4. WriterInv'
        BY <1>0, <1>1, <1>4, <2>1, <2>3, WriterStays DEF AtWork
    <2> QED
        BY <1>2, <2>2, <2>4 DEF LogBase
<1>5. CASE /\ cursor # None /\ cursor \in ToSet(readers)
           /\ r_off' = [r_off EXCEPT ![cursor] = fix_up(@, EntryLen(w))]
           /\ cursor' = NextReader(cursor) /\ UNCHANGED wpc
    <2>1. PICK c : c = cursor
        OBVIOUS
    <2>2. c \in Reader /\ readers \in Seq(Reader) /\ NoDup(readers) /\ None \notin Reader
        BY <1>0, <1>5, <2>1, RingInts DEF TypeOK, ListInv
    <2>3. PICK m \in DOMAIN readers : c = readers[m]
        BY <1>5, <2>1 DEF ToSet
    <2>4. cursor' \in Reader \cup {None}
        <3>1. \/ cursor' = None
              \/ m + 1 \in DOMAIN readers /\ cursor' = readers[m + 1]
            BY <1>5, <2>1, <2>2, <2>3, NextReaderIs
        <3> QED
            BY <2>2, <3>1
    <2> DEFINE n == EntryLen(w)
    <2>5. n \in Int /\ n >= 1 /\ buffer \in Cells /\ r_off[c] \in Offset
        <3>1. entry[w].len >= 1
            BY <1>0, <1>3 DEF WriterOk
        <3>2. n \in Int /\ n > Hdr
            BY <1>0, <3>1, BusyInts
        <3>3. buffer \in Cells /\ r_off[c] \in Offset
            BY <1>0, <2>2, TypeCells DEF TypeOK
        <3> HIDE DEF n
        <3> QED
            BY <3>2, <3>3, RingInts
    <2>6. fix_up(r_off[c], n) \in Offset
        <3> HIDE DEF n
        <3> QED
            BY <2>5, FixUpOffset
    <2> DEFINE x == fix_up(r_off[c], n)
    <2>7. r_off' = [r_off EXCEPT ![c] = x] /\ x \in Offset
        BY <1>5, <2>1, <2>6
    <2> HIDE DEF x
    <2>8. r_off' \in [Reader -> Offset]
        BY <1>0, <2>7 DEF TypeOK
    <2>9. TypeOK'
        BY <1>0, <1>1, <1>5, <2>4, <2>8 DEF TypeOK
    <2>10. WriterOk(w)' /\ Others(w) /\ wpc'[w] = "fixup"
        BY <1>0, <1>1, <1>3, <1>5 DEF WriterOk, Others
    <2>11. WriterInv'
        BY <1>0, <1>1, <2>10, WriterStays DEF AtWork
    <2> QED
        BY <1>2, <2>9, <2>11 DEF LogBase
<1> QED
    BY <1>4, <1>5 DEF fix_up_readers

\* A segment less.
LEMMA PartsTail ==
    ASSUME NEW s \in Seq(1 .. MaxPayload), s # <<>>, Len(s) <= 2, MaxPayload \in Int
    PROVE  /\ Tail(s) \in Seq(1 .. MaxPayload) /\ Len(Tail(s)) <= 2
           /\ Head(s) \in Int /\ Head(s) >= 1
           /\ Parts(Tail(s)) \in Int /\ Parts(Tail(s)) >= 0
           /\ Parts(s) = Head(s) + Parts(Tail(s))
<1> DEFINE S == 1 .. MaxPayload
           t == Tail(s)
<1>0. S \subseteq Int /\ \A x \in S : x >= 1
    OBVIOUS
<1>1. /\ Len(s) \in Nat /\ Len(s) >= 1 /\ Len(t) = Len(s) - 1 /\ t \in Seq(S)
      /\ \A i \in 1 .. Len(s) : s[i] \in S
      /\ \A i \in 1 .. Len(t) : t[i] = s[i + 1]
      /\ Head(s) = s[1] /\ (t = <<>> <=> Len(t) = 0)
    <2> HIDE DEF S
    <2>1. s \in Seq(S)
        BY DEF S
    <2>2. Len(s) \in Nat /\ Len(s) # 0 /\ Head(s) = s[1]
        BY <2>1
    <2>3. Len(s) >= 1
        BY <2>2
    <2>4. t \in Seq(S) /\ Len(t) = Len(s) - 1
        BY <2>1
    <2>5. \A i \in 1 .. Len(s) : s[i] \in S
        BY <2>1
    <2>6. \A i \in 1 .. Len(t) : t[i] = s[i + 1]
        BY <2>1, <2>2
    <2> HIDE DEF t
    <2>7. t = <<>> <=> Len(t) = 0
        BY <2>4
    <2> QED
        BY <2>2, <2>3, <2>4, <2>5, <2>6, <2>7
<1> HIDE DEF t
<1>2. s[1] \in Int /\ s[1] >= 1
    <2>1. 1 \in 1 .. Len(s)
        BY <1>1
    <2> QED
        BY <1>0, <1>1, <2>1
<1>3. CASE Len(s) = 1
    <2>1. t = <<>> /\ Len(t) = 0
        BY <1>1, <1>3
    <2>2. Parts(t) = 0 /\ Parts(s) = s[1]
        BY <1>3, <2>1 DEF Parts
    <2> QED
        BY <1>1, <1>2, <2>1, <2>2 DEF t
<1>4. CASE Len(s) = 2
    <2>1. Len(t) = 1 /\ t # <<>>
        BY <1>1, <1>4
    <2>2. 1 \in 1 .. Len(t) /\ 2 \in 1 .. Len(s) /\ 1 + 1 = 2
        BY <1>4, <2>1
    <2>3. t[1] = s[2] /\ s[2] \in Int /\ s[2] >= 1
        BY <1>0, <1>1, <2>2
    <2>4. Parts(t) = s[2]
        BY <2>1, <2>3 DEF Parts
    <2>5. Parts(s) = s[1] + s[2]
        BY <1>4 DEF Parts
    <2> QED
        BY <1>1, <1>2, <2>1, <2>3, <2>4, <2>5 DEF t
<1>5. Len(s) = 1 \/ Len(s) = 2
    <2> DEFINE l == Len(s)
    <2>1. l \in Nat /\ l >= 1 /\ l <= 2
        BY <1>1
    <2> HIDE DEF l
    <2>2. l = 1 \/ l = 2
        BY <2>1
    <2> QED
        BY <2>2 DEF l
<1> QED
    BY <1>3, <1>4, <1>5

\* Cells of an entry are stored wherever w_off is.
LEMMA StoreBase ==
    ASSUME TypeOK, IdInv, NEW w \in Writer, entry[w].len >= 1, entry[w].id = writes,
           NEW n \in Int, n >= 0, entry[w].done + n <= EntryLen(w)
    PROVE  /\ store(w, entry[w].done, n) \in Cells
           /\ \A p \in Offset : store(w, entry[w].done, n)[p].id <= writes
           /\ logger_offset(w_off + n) \in Offset
<1> DEFINE i == entry[w].done
           L == EntryLen(w)
           base == At(w_off, Size - i)
<1>1. /\ i \in Int /\ i >= 0 /\ L \in Int /\ L < Size /\ Size \in Int /\ Size > 1
      /\ writes \in Int /\ writes >= 0
    BY BusyInts, RingInts
<1>2. i + n < Size /\ i < Size /\ Size - i \in Int /\ Size - i >= 0 /\ Size - i <= Size
      /\ n \in 0 .. Size
    BY <1>1
<1>3. buffer \in Cells /\ w_off \in Offset /\ w_off \in Int /\ w_off >= 0 /\ w_off < Size
    BY TypeCells, RingInts DEF TypeOK
<1>4. base \in Offset /\ At(base, i) = w_off
    <2> HIDE DEF i
    <2>1. (Size - i) + i = Size /\ At(w_off, Size) = w_off
        BY <1>1, <1>3 DEF At
    <2> QED
        BY <1>1, <1>2, <1>3, <2>1, AtIs
<1>5. entry[w].id \in 0 .. MaxWrites /\ entry[w].len \in 0 .. MaxPayload
    BY DEF TypeOK
<1> HIDE DEF base
<1>6. store(w, entry[w].done, n) \in Cells
    BY <1>1, <1>2, <1>3, <1>4, <1>5, StoreCells
<1>7. ASSUME NEW p \in Offset PROVE store(w, entry[w].done, n)[p].id <= writes
    <2> HIDE DEF i
    <2>1. store(w, i, n)[p] = IF Dist(base, p) >= i /\ Dist(base, p) < i + n
                              THEN EntryCell(entry[w], Dist(base, p)) ELSE buffer[p]
        <3>1. w_off = At(base, i)
            BY <1>4
        <3> QED
            BY <1>1, <1>2, <1>4, <3>1, StoreIs
    <2>2. EntryCell(entry[w], Dist(base, p)).id = writes /\ buffer[p].id <= writes
        BY DEF EntryCell, IdInv
    <2> HIDE DEF store
    <2>3. store(w, i, n)[p].id <= writes
        BY <1>1, <2>1, <2>2
    <2> QED
        BY <2>3 DEF i
<1>8. logger_offset(w_off + n) = At(w_off, n)
    BY <1>2, <1>3, AtMod DEF logger_offset
<1>9. At(w_off, n) \in Offset
    BY <1>1, <1>2, <1>3, AtIs
<1> QED
    BY <1>6, <1>7, <1>8, <1>9

\* One step of do_write_log() or do_write_log_from_user().
LEMMA WriteBase ==
    ASSUME LogBase, NEW w \in Writer, wpc[w] \in {"header", "payload"},
           NEW n \in Int, n >= 0, entry[w].done + n <= EntryLen(w),
           buffer' = store(w, entry[w].done, n),
           w_off' = logger_offset(w_off + n),
           entry' = [entry EXCEPT ![w].done = entry[w].done + n],
           wpc' = [wpc EXCEPT ![w] = "payload"],
           iov' \in [Writer -> Seq(1 .. MaxPayload)],
           \A v \in Writer : v # w => iov'[v] = iov[v],
           Len(iov'[w]) <= 2, entry[w].done + n + Parts(iov'[w]) = EntryLen(w),
           UNCHANGED <<head, readerVars, mutex, orig, cursor, writes, intact>>
    PROVE  /\ LogBase' /\ entry'[w].id = entry[w].id /\ entry'[w].len = entry[w].len
           /\ entry'[w].done = entry[w].done + n
<1>0. TypeOK /\ ListInv /\ WriterInv /\ IdInv /\ mutex = w /\ WriterOk(w)
    BY DEF LogBase, WriterInv, AtWork
<1>1. UNCHANGED <<head, readers, r_off, rpc, asleep, last, mutex, orig, cursor, writes, intact>>
    BY DEF readerVars
<1>2. entry[w].id = writes /\ entry[w].len >= 1
    BY <1>0 DEF WriterOk, AtWork
<1> DEFINE i == entry[w].done
           L == EntryLen(w)
           e == entry[w]
<1>3. /\ buffer' \in Cells /\ w_off' \in Offset
      /\ \A p \in Offset : buffer'[p].id <= writes
    BY <1>0, <1>2, StoreBase
<1>4. L = Hdr + e.len /\ L \in Int /\ L <= Hdr + MaxPayload /\ i \in Int /\ i >= 0
      /\ Hdr \in Int /\ MaxPayload \in Int
    BY <1>0, <1>2, BusyInts, RingInts
<1>5. i + n \in 0 .. Hdr + MaxPayload
    <2> HIDE DEF i, L
    <2>1. i + n <= L
        BY DEF i, L
    <2> QED
        BY <1>4, <2>1
<1>6. /\ entry'[w].id = e.id /\ entry'[w].len = e.len /\ entry'[w].done = i + n
      /\ entry' \in [Writer -> EntryRec]
      /\ \A v \in Writer : v # w => entry'[v] = entry[v]
    <2> DEFINE d == i + n
    <2>1. d \in 0 .. Hdr + MaxPayload /\ entry' = [entry EXCEPT ![w].done = d]
        BY <1>5
    <2> HIDE DEF d
    <2>2. entry \in [Writer -> EntryRec]
        BY <1>0, TypeCells
    <2>3. entry'[w].done = d /\ entry'[w].id = e.id /\ entry'[w].len = e.len
        BY <2>1, <2>2 DEF EntryRec
    <2> QED
        BY <2>1, <2>2, <2>3 DEF d, EntryRec
<1>7. wpc'[w] = "payload" /\ wpc' \in [Writer -> WPCs] /\ Others(w)
    BY <1>0, <1>1, <1>6 DEF TypeOK, WPCs, Others
<1>8. TypeOK'
    <2>1. buffer' \in [Offset -> [id : 0 .. MaxWrites, pos : 0 .. Size, digit : 0 .. MaxPayload]]
        BY <1>3 DEF Cells, Cell
    <2> QED
        BY <1>0, <1>1, <1>3, <1>6, <1>7, <2>1 DEF TypeOK, EntryRec
<1>9. ListInv'
    BY <1>0, <1>1 DEF ListInv
<1>10. IdInv'
    BY <1>1, <1>3 DEF IdInv
<1>11. WriterOk(w)'
    <2>1. entry'[w].done + Parts(iov'[w]) = Hdr + entry'[w].len
        BY <1>4, <1>6
    <2> QED
        BY <1>1, <1>2, <1>6, <1>7, <2>1 DEF WriterOk
<1>12. cursor' = None
    BY <1>0, <1>1 DEF WriterInv, AtWork
<1>13. WriterInv'
    BY <1>0, <1>1, <1>7, <1>11, <1>12, WriterStays DEF AtWork
<1> QED
    BY <1>6, <1>8, <1>9, <1>10, <1>13 DEF LogBase

\* Both are such steps.
Stored(w, n) ==
    /\ wpc[w] \in {"header", "payload"}
    /\ n \in Int /\ n >= 0 /\ entry[w].done + n <= EntryLen(w)
    /\ buffer' = store(w, entry[w].done, n)
    /\ w_off' = logger_offset(w_off + n)
    /\ wpc' = [wpc EXCEPT ![w] = "payload"]
    /\ entry'[w].id = entry[w].id /\ entry'[w].len = entry[w].len
    /\ entry'[w].done = entry[w].done + n
    /\ UNCHANGED <<head, readerVars, mutex, orig, cursor, writes, intact>>

LEMMA HeaderBase ==
    ASSUME LogBase, NEW w \in Writer, do_write_log(w)
    PROVE  LogBase' /\ Stored(w, Hdr)
<1>0. TypeOK /\ WriterInv /\ mutex = w /\ wpc[w] = "header" /\ WriterOk(w)
    BY DEF LogBase, WriterInv, AtWork, do_write_log
<1>2. entry[w].done = 0 /\ Parts(iov[w]) = entry[w].len /\ entry[w].len >= 1 /\ Len(iov[w]) <= 2
    BY <1>0 DEF WriterOk
<1>3. EntryLen(w) = Hdr + entry[w].len /\ entry[w].len \in Nat /\ Hdr \in Int /\ Hdr >= 2
    BY <1>0, <1>2, BusyInts, RingInts
<1>4. entry[w].done + Hdr = Hdr /\ entry[w].done + Hdr <= EntryLen(w)
      /\ entry[w].done + Hdr + Parts(iov[w]) = EntryLen(w) /\ Hdr >= 0
    BY <1>2, <1>3
<1>5. /\ buffer' = store(w, entry[w].done, Hdr) /\ w_off' = logger_offset(w_off + Hdr)
      /\ entry' = [entry EXCEPT ![w].done = entry[w].done + Hdr]
      /\ wpc' = [wpc EXCEPT ![w] = "payload"] /\ iov' = iov
      /\ UNCHANGED <<head, readerVars, mutex, orig, cursor, writes, intact>>
    BY <1>2, <1>4 DEF do_write_log
<1>6. iov' \in [Writer -> Seq(1 .. MaxPayload)]
    BY <1>0, <1>5 DEF TypeOK
<1>7. /\ LogBase' /\ entry'[w].id = entry[w].id /\ entry'[w].len = entry[w].len
      /\ entry'[w].done = entry[w].done + Hdr
    BY <1>0, <1>2, <1>3, <1>4, <1>5, <1>6, WriteBase
<1> QED
    BY <1>0, <1>3, <1>4, <1>5, <1>7 DEF Stored

\* A segment that is left fits into the entry.
LEMMA SegmentFits ==
    ASSUME TypeOK, NEW w \in Writer, WriterOk(w), wpc[w] = "payload", iov[w] # <<>>
    PROVE  LET n == Head(iov[w])
               t == Parts(Tail(iov[w]))
           IN  /\ Tail(iov[w]) \in Seq(1 .. MaxPayload) /\ Len(Tail(iov[w])) <= 2
               /\ n \in Int /\ n >= 0 /\ entry[w].done + n <= EntryLen(w)
               /\ entry[w].done + n + t = EntryLen(w)
<1>1. entry[w].done + Parts(iov[w]) = Hdr + entry[w].len /\ entry[w].len >= 1 /\ Len(iov[w]) <= 2
    BY DEF WriterOk
<1>2. EntryLen(w) = Hdr + entry[w].len /\ entry[w].len \in Nat /\ entry[w].done \in Int
      /\ MaxPayload \in Int
    BY <1>1, BusyInts, RingInts
<1>3. iov[w] \in Seq(1 .. MaxPayload)
    BY DEF TypeOK
<1> DEFINE n == Head(iov[w])
           t == Parts(Tail(iov[w]))
           d == entry[w].done
           L == EntryLen(w)
           q == Parts(iov[w])
<1>4. /\ Tail(iov[w]) \in Seq(1 .. MaxPayload) /\ Len(Tail(iov[w])) <= 2
      /\ n \in Int /\ n >= 1 /\ t \in Int /\ t >= 0 /\ q = n + t
    BY <1>1, <1>2, <1>3, PartsTail
<1>5. d + q = L /\ d \in Int
    BY <1>1, <1>2
<1> HIDE DEF n, t, d, L, q
<1>6. n >= 0 /\ d + n <= L /\ d + n + t = L
    BY <1>4, <1>5
<1> QED
    BY <1>4, <1>6 DEF n, t, d, L

LEMMA PayloadBase ==
    ASSUME LogBase, NEW w \in Writer, do_write_log_from_user(w)
    PROVE  LogBase' /\ Stored(w, Head(iov[w]))
<1>0. TypeOK /\ WriterInv /\ mutex = w /\ wpc[w] = "payload" /\ iov[w] # <<>> /\ WriterOk(w)
    BY DEF LogBase, WriterInv, AtWork, do_write_log_from_user
<1> DEFINE n == Head(iov[w])
           t == Parts(Tail(iov[w]))
<1>1. /\ Tail(iov[w]) \in Seq(1 .. MaxPayload) /\ Len(Tail(iov[w])) <= 2
      /\ n \in Int /\ n >= 0 /\ entry[w].done + n <= EntryLen(w)
      /\ entry[w].done + n + t = EntryLen(w)
    BY <1>0, SegmentFits
<1>2. /\ buffer' = store(w, entry[w].done, n) /\ w_off' = logger_offset(w_off + n)
      /\ entry' = [entry EXCEPT ![w].done = entry[w].done + n]
      /\ iov' = [iov EXCEPT ![w] = Tail(iov[w])]
      /\ UNCHANGED <<head, readerVars, mutex, wpc, orig, cursor, writes, intact>>
    BY DEF do_write_log_from_user
<1>3. /\ iov' \in [Writer -> Seq(1 .. MaxPayload)] /\ iov'[w] = Tail(iov[w])
      /\ \A v \in Writer : v # w => iov'[v] = iov[v]
    BY <1>0, <1>1, <1>2 DEF TypeOK
<1>4. wpc' = [wpc EXCEPT ![w] = "payload"]
    BY <1>0, <1>2 DEF TypeOK
<1> HIDE DEF n
<1>5. Len(iov'[w]) <= 2 /\ entry[w].done + n + Parts(iov'[w]) = EntryLen(w)
    BY <1>1, <1>3 DEF t
<1>6. /\ LogBase' /\ entry'[w].id = entry[w].id /\ entry'[w].len = entry[w].len
      /\ entry'[w].done = entry[w].done + n
    BY <1>0, <1>1, <1>2, <1>3, <1>4, <1>5, WriteBase
<1> QED
    BY <1>0, <1>1, <1>2, <1>4, <1>6 DEF Stored, n

\* The writer gives the mutex back.
LEMMA EndBase ==
    ASSUME LogBase, NEW w \in Writer, wpc[w] = "payload", NEW l \in {"idle", "wake"},
           idle_writer(w, l), UNCHANGED <<head, readerVars, cursor, writes>>,
           intact' \in BOOLEAN, buffer' \in Cells, w_off' \in Offset,
           \A p \in Offset : buffer'[p].id <= writes
    PROVE  LogBase'
<1>0. TypeOK /\ ListInv /\ WriterInv /\ mutex = w
    BY DEF LogBase, WriterInv, AtWork
<1>1. UNCHANGED <<head, readers, r_off, rpc, asleep, last, cursor, writes>>
    BY DEF readerVars
<1>2. /\ wpc' = [wpc EXCEPT ![w] = l] /\ mutex' = None /\ orig' = [orig EXCEPT ![w] = 0]
      /\ iov' = [iov EXCEPT ![w] = <<>>] /\ entry' = [entry EXCEPT ![w] = NoEntry]
    BY DEF idle_writer
<1>3. wpc'[w] = l /\ wpc' \in [Writer -> WPCs] /\ entry'[w] = NoEntry /\ Others(w)
    BY <1>0, <1>2 DEF TypeOK, WPCs, Others
<1>4. None \notin Writer /\ 0 \in Offset
    BY RingInts
<1>5. /\ orig' \in [Writer -> Offset] /\ iov' \in [Writer -> Seq(1 .. MaxPayload)]
      /\ entry' \in [Writer -> EntryRec]
    <2>1. NoEntry \in EntryRec
        <3>1. 0 \in 0 .. MaxWrites /\ 0 \in 0 .. MaxPayload /\ 0 \in 0 .. Hdr + MaxPayload
            BY RingInts
        <3> QED
            BY <3>1 DEF NoEntry, EntryRec
    <2>2. <<>> \in Seq(1 .. MaxPayload)
        OBVIOUS
    <2> HIDE DEF NoEntry
    <2> QED
        BY <1>0, <1>2, <1>4, <2>1, <2>2, TypeCells DEF TypeOK
<1>6. TypeOK'
    BY <1>0, <1>1, <1>2, <1>3, <1>5 DEF TypeOK, Cells, Cell, EntryRec
<1>7. ListInv' /\ IdInv'
    BY <1>0, <1>1 DEF ListInv, IdInv
<1>8. cursor' = None
    BY <1>0, <1>1 DEF WriterInv, AtWork
<1>9. WriterOk(w)'
    BY <1>3 DEF WriterOk, AtWork
<1>10. WriterInv'
    BY <1>0, <1>2, <1>3, <1>4, <1>8, <1>9, WriterStays DEF AtWork
<1> QED
    BY <1>6, <1>7, <1>10 DEF LogBase

LEMMA FaultBase ==
    ASSUME LogBase, NEW w \in Writer, write_fault(w)
    PROVE  LogBase'
<1>0. TypeOK /\ WriterInv /\ IdInv /\ wpc[w] = "payload" /\ iov[w] # <<>> /\ WriterOk(w)
    BY DEF LogBase, WriterInv, write_fault
<1> DEFINE n == Head(iov[w])
<1>1. n \in Int /\ n >= 0 /\ entry[w].done + n <= EntryLen(w)
    BY <1>0, SegmentFits
<1>2. entry[w].len >= 1 /\ entry[w].id = writes
    BY <1>0 DEF WriterOk, AtWork
<1>3. /\ buffer' = store(w, entry[w].done, n) /\ w_off' = orig[w] /\ idle_writer(w, "idle")
      /\ intact' = (intact /\ w_off = logger_offset(orig[w] + entry[w].done))
      /\ UNCHANGED <<head, readerVars, cursor, writes>>
    BY DEF write_fault
<1>4. w_off' \in Offset /\ intact' \in BOOLEAN
    BY <1>0, <1>3 DEF TypeOK
<1>5. buffer' \in Cells /\ \A p \in Offset : buffer'[p].id <= writes
    <2> HIDE DEF n
    <2> QED
        BY <1>0, <1>1, <1>2, <1>3, StoreBase
<1> QED
    BY <1>0, <1>3, <1>4, <1>5, EndBase

LEMMA DoneBase ==
    ASSUME LogBase, NEW w \in Writer, write_done(w)
    PROVE  LogBase'
<1>1. buffer' = buffer /\ w_off' = w_off /\ idle_writer(w, "wake") /\ wpc[w] = "payload"
      /\ UNCHANGED <<head, readerVars, cursor, writes, intact>>
    BY DEF write_done, logVars
<1>2. buffer' \in Cells /\ w_off' \in Offset /\ intact' \in BOOLEAN
      /\ \A p \in Offset : buffer'[p].id <= writes
    BY <1>1, TypeCells DEF LogBase, TypeOK, IdInv
<1> QED
    BY <1>1, <1>2, EndBase

-----------------------------------------------------------------------------
(***************************************************************************)
(* LogCore: the steps of the readers, and of a writer outside the mutex.   *)
(***************************************************************************)
LEMMA BusyStays ==
    ASSUME UNCHANGED <<buffer, w_off, head, readers, r_off, last, writes, cursor>>,
           NEW w, NEW base, BusyInv(w, base), entry'[w] = entry[w]
    PROVE  BusyInv(w, base)'
<1>1. Written(w, base)'
    BY DEF BusyInv, Written
<1>2. \A r : Passed(r)' <=> Passed(r)
    BY DEF Passed
<1>3. EntryLen(w)' = EntryLen(w)
    BY DEF EntryLen
<1> QED
    BY <1>1, <1>2, <1>3 DEF BusyInv, Stands

\* A step that leaves the log and the readers' offsets alone, and what the
\* writer at work has.
LEMMA QuietCore ==
    ASSUME LogBase, LogCore,
           UNCHANGED <<buffer, w_off, head, readers, r_off, last, writes, cursor, mutex>>,
           \A w \in Writer : wpc[w] \in AtWork => entry'[w] = entry[w]
    PROVE  LogCore'
<1>1. ASSUME mutex' = None PROVE RestInv'
    BY <1>1 DEF LogCore, RestInv, Stands
<1>2. ASSUME NEW w \in Writer, mutex' = w PROVE \E base \in Offset : BusyInv(w, base)'
    <2>1. mutex = w /\ wpc[w] \in AtWork
        BY <1>2 DEF LogBase, WriterInv
    <2>2. PICK base \in Offset : BusyInv(w, base)
        BY <2>1 DEF LogCore
    <2>3. BusyInv(w, base)'
        BY <2>1, <2>2, BusyStays
    <2> QED
        BY <2>3
<1> QED
    BY <1>1, <1>2 DEF LogCore

LEMMA OutsideCore ==
    ASSUME LogBase, LogCore, NEW w \in Writer, write_start(w) \/ wake_up_interruptible(w)
    PROVE  LogCore'
<1>1. Others(w)
    BY StartBase, WakeBase
<1>2. /\ UNCHANGED <<buffer, w_off, head, readers, r_off, last, writes, cursor, mutex>>
      /\ wpc[w] \notin AtWork
    BY DEF write_start, wake_up_interruptible, logVars, readerVars, AtWork
<1> QED
    BY <1>1, <1>2, QuietCore DEF Others

\* What the readers do to their own state only.
LEMMA ReaderQuietCore ==
    ASSUME LogBase, LogCore, UNCHANGED <<logVars, writerVars, readers, r_off, last>>
    PROVE  LogCore'
BY QuietCore DEF logVars, writerVars

\* A step while nobody writes.
LEMMA RestCore ==
    ASSUME mutex = None, UNCHANGED <<buffer, w_off, mutex>>,
           Stands(buffer, head', w_off, 0),
           \A r \in Reader : OnList(readers', r) => Stands(buffer, r_off'[r], w_off, last'[r])
    PROVE  LogCore'
<1>1. RestInv'
    BY DEF RestInv, Stands
<1>2. ASSUME NEW w \in Writer, mutex' = w PROVE FALSE
    BY <1>2, RingInts
<1> QED
    BY <1>1, <1>2 DEF LogCore

LEMMA OpenCore ==
    ASSUME LogBase, LogCore, NEW r \in Reader, logger_open(r)
    PROVE  LogCore'
<1>1. RestInv /\ mutex = None /\ UNCHANGED <<buffer, w_off, head, mutex, last>>
    BY DEF LogCore, logger_open, logVars, writerVars
<1>2. /\ last[r] = 0 /\ r_off'[r] = head
      /\ \A q : OnList(readers', q) <=> OnList(readers, q) \/ q = r
      /\ \A q \in Reader : q # r => r_off'[q] = r_off[q]
    BY OpenBase
<1>3. ASSUME NEW q \in Reader, OnList(readers', q)
      PROVE  Stands(buffer, r_off'[q], w_off, last'[q])
    BY <1>1, <1>2, <1>3 DEF RestInv
<1>4. Stands(buffer, head', w_off, 0)
    BY <1>1 DEF RestInv
<1> QED
    BY <1>1, <1>3, <1>4, RestCore

\* logger_release() does not wait for the mutex: a writer may be at work, but
\* if the reader is not the one at which it stands, nobody else is disturbed.
LEMMA CloseCore ==
    ASSUME LogBase, LogCore, NEW r \in Reader, logger_release(r), Sound'
    PROVE  LogCore'
<1>1. /\ readers' = list_del(readers, r)
      /\ UNCHANGED <<buffer, w_off, head, mutex, wpc, entry, cursor, writes>>
    BY DEF logger_release, logVars, writerVars
<1>2. /\ OnList(readers, r)
      /\ \A q : OnList(readers', q) <=> OnList(readers, q) /\ q # r
      /\ \A q \in Reader : q # r => r_off'[q] = r_off[q] /\ last'[q] = last[q]
    BY CloseBase
<1>3. CASE mutex = None
    <2>1. RestInv
        BY <1>3 DEF LogCore
    <2>2. ASSUME NEW q \in Reader, OnList(readers', q)
          PROVE  Stands(buffer, r_off'[q], w_off, last'[q])
        BY <1>2, <2>1, <2>2 DEF RestInv
    <2>3. Stands(buffer, head', w_off, 0)
        BY <1>1, <2>1 DEF RestInv
    <2> QED
        BY <1>1, <1>3, <2>2, <2>3, RestCore
<1>4. CASE mutex # None
    <2>1. SUFFICES ASSUME NEW w \in Writer, mutex' = w
                   PROVE  \E base \in Offset : BusyInv(w, base)'
        BY <1>1, <1>4 DEF LogCore
    <2>2. mutex = w
        BY <1>1, <2>1
    <2>3. PICK base \in Offset : BusyInv(w, base)
        BY <2>2 DEF LogCore
    <2>4. readers \in Seq(Reader)
        BY DEF LogBase, TypeOK
    <2>5. ASSUME NEW q, Passed(q)' PROVE Passed(q)
        <3>1. Ahead(list_del(readers, r), q, cursor)
            BY <1>1, <2>5 DEF Passed
        <3> QED
            BY <1>2, <2>4, <3>1, DelAheadBack DEF Passed
    <2>6. Written(w, base)'
        BY <1>1, <2>3 DEF BusyInv, Written
    <2>7. EntryLen(w)' = EntryLen(w)
        BY <1>1 DEF EntryLen
    <2>8. Stands(buffer, head, base, 0)' /\ Room(head, base, EntryLen(w))'
        BY <1>1, <2>3, <2>7 DEF BusyInv, Stands
    <2>9. ASSUME NEW q \in Reader, OnList(readers', q)
          PROVE  /\ Stands(buffer, r_off[q], base, last[q])'
                 /\ last'[q] < writes'
                 /\ (cursor' = None \/ Passed(q)') => Room(r_off[q], base, EntryLen(w))'
        <3>1. OnList(readers, q) /\ r_off'[q] = r_off[q] /\ last'[q] = last[q]
            BY <1>2, <2>9
        <3>2. /\ Stands(buffer, r_off[q], base, last[q]) /\ last[q] < writes
              /\ cursor = None \/ Passed(q) => Room(r_off[q], base, EntryLen(w))
            BY <2>3, <3>1 DEF BusyInv
        <3> QED
            BY <1>1, <2>5, <2>7, <3>1, <3>2 DEF Stands
    <2>10. BusyInv(w, base)'
        BY <2>3, <2>6, <2>8, <2>9 DEF BusyInv
    <2> QED
        BY <2>10
<1> QED
    BY <1>3, <1>4

LEMMA FlushCore ==
    ASSUME LogBase, NEW w \in Writer, logger_flush(w)
    PROVE  LogCore'
<1>1. /\ mutex = None /\ w_off \in Offset /\ buffer \in Cells
      /\ r_off' = [r \in Reader |-> IF r \in ToSet(readers) THEN w_off ELSE r_off[r]]
      /\ head' = w_off
      /\ UNCHANGED <<buffer, w_off, readers, last, mutex>>
    BY TypeCells DEF LogBase, TypeOK, logger_flush, writerVars
<1>2. ASSUME NEW q \in Reader, OnList(readers', q)
      PROVE  Stands(buffer, r_off'[q], w_off, last'[q])
    <2>1. q \in ToSet(readers)
        BY <1>1, <1>2 DEF OnList, ToSet
    <2>2. r_off'[q] = w_off
        BY <1>1, <2>1
    <2> QED
        BY <1>1, <2>2, StandsHere
<1>3. Stands(buffer, head', w_off, 0)
    BY <1>1, StandsHere
<1> QED
    BY <1>1, <1>2, <1>3, RestCore

LEMMA ReadCore ==
    ASSUME LogBase, LogCore, NEW r \in Reader, read_entry(r)
    PROVE  LogCore'
<1>1. /\ RestInv /\ mutex = None /\ OnList(readers, r)
      /\ UNCHANGED <<buffer, w_off, head, mutex, readers>> /\ UNCHANGED <<logVars, writerVars>>
    BY ReadBase DEF LogCore, read_entry, logVars, writerVars
<1>2. CASE UNCHANGED <<r_off, last>>
    BY <1>1, <1>2, ReaderQuietCore
<1>3. CASE /\ w_off # r_off[r] /\ r_off'[r] = do_read_log_to_user(r)
           /\ last'[r] = buffer[r_off[r]].id
           /\ \A q \in Reader : q # r => r_off'[q] = r_off[q] /\ last'[q] = last[q]
    <2>1. Stands(buffer, r_off[r], w_off, last[r]) /\ buffer \in Cells /\ w_off \in Offset
        BY <1>1, TypeCells DEF RestInv, LogBase, TypeOK
    <2>2. Stands(buffer, do_read_log_to_user(r), w_off, buffer[r_off[r]].id)
        BY <1>3, <2>1, StandsRead DEF do_read_log_to_user
    <2> HIDE DEF do_read_log_to_user
    <2>3. ASSUME NEW q \in Reader, OnList(readers', q)
          PROVE  Stands(buffer, r_off'[q], w_off, last'[q])
        <3>1. CASE q = r
            BY <1>3, <2>2, <3>1
        <3>2. CASE q # r
            BY <1>1, <1>3, <2>3, <3>2 DEF RestInv
        <3> QED
            BY <3>1, <3>2
    <2>4. Stands(buffer, head', w_off, 0)
        BY <1>1 DEF RestInv
    <2> QED
        BY <1>1, <2>3, <2>4, RestCore
<1> QED
    BY <1>2, <1>3, ReadBase

-----------------------------------------------------------------------------
(***************************************************************************)
(* LogCore: the writer that holds the mutex, or takes it.                  *)
(***************************************************************************)
LEMMA BusyCore ==
    ASSUME NEW w \in Writer, mutex' = w, NEW base \in Offset, BusyInv(w, base)'
    PROVE  LogCore'
BY RingInts DEF LogCore

LEMMA LockCore ==
    ASSUME LogBase, LogCore, NEW w \in Writer, write_lock(w)
    PROVE  LogCore'
<1>0. TypeOK /\ ListInv /\ IdInv /\ RestInv /\ mutex = None
    BY DEF LogBase, LogCore, write_lock
<1>1. /\ mutex' = w /\ writes' = writes + 1
      /\ head' = fix_up(head, EntryLen(w))
      /\ UNCHANGED <<buffer, w_off, readers, r_off, last>>
    BY DEF write_lock, readerVars
<1>2. /\ entry'[w].len = entry[w].len /\ entry'[w].done = 0 /\ entry[w].len >= 1
      /\ cursor' # None => readers # <<>> /\ cursor' = readers[1]
      /\ cursor' = None => readers = <<>>
    BY LockBase
<1> DEFINE n == EntryLen(w)
<1>3. /\ n = Hdr + entry[w].len /\ n \in Int
      /\ n > Hdr /\ n <= Hdr + MaxPayload /\ writes \in Int /\ writes >= 0
    BY <1>0, <1>2, BusyInts
<1>4. buffer \in Cells /\ w_off \in Offset /\ readers \in Seq(Reader)
    BY <1>0, TypeCells DEF TypeOK
<1>5. PICK base : base = w_off
    OBVIOUS
<1>6. Stands(buffer, head', base, 0) /\ Room(head', base, n)
    <2>1. Stands(buffer, head, w_off, 0)
        BY <1>0 DEF RestInv
    <2> HIDE DEF n
    <2>2. head' = fix_up(head, n)
        BY <1>1 DEF n
    <2> QED
        BY <1>3, <1>4, <1>5, <2>1, <2>2, FixUpIs
<1>7. ASSUME NEW x \in Int, x <= writes PROVE x < writes'
    BY <1>1, <1>3, <1>7
<1>8. Written(w, base)'
    <2>1. base = At(base, 0)
        BY <1>4, <1>5, AtIs, RingInts
    <2>2. ASSUME NEW o \in Offset PROVE ~(Dist(base, o) < 0) /\ buffer[o].id < writes'
        <3>1. Dist(base, o) \in Int /\ Dist(base, o) >= 0
            BY <1>4, <1>5, DistIs
        <3>2. buffer[o].id <= writes /\ buffer[o].id \in Int
            BY <1>0, <1>4, CellInts DEF IdInv, Cells
        <3>3. ~(Dist(base, o) < 0)
            <4> DEFINE q == Dist(base, o)
            <4>1. q \in Int /\ q >= 0
                BY <3>1
            <4> HIDE DEF q
            <4>2. ~(q < 0)
                BY <4>1
            <4> QED
                BY <4>2 DEF q
        <3> QED
            BY <1>7, <3>2, <3>3
    <2>3. /\ w_off' = At(base, entry'[w].done)
          /\ \A o \in Offset : Dist(base, o) < entry'[w].done =>
                buffer'[o] = EntryCell(entry'[w], Dist(base, o))
          /\ \A o \in Offset : Dist(base, o) >= entry'[w].done => buffer'[o].id < writes'
        BY <1>1, <1>2, <1>5, <2>1, <2>2
    <2> QED
        BY <2>3 DEF Written
<1>9. ASSUME NEW r \in Reader, OnList(readers, r)
      PROVE  /\ Stands(buffer, r_off[r], base, last[r]) /\ last[r] < writes'
             /\ cursor' # None /\ ~(Passed(r)')
    <2>1. Stands(buffer, r_off[r], base, last[r])
        BY <1>0, <1>5, <1>9 DEF RestInv
    <2>2. last[r] < writes'
        <3>1. last[r] \in 0 .. MaxWrites /\ last[r] <= writes
            BY <1>0 DEF TypeOK, ListInv
        <3> QED
            BY <1>7, <3>1, RingInts
    <2>3. readers # <<>>
        BY <1>9 DEF OnList
    <2>4. cursor' # None /\ cursor' = readers[1]
        BY <1>2, <2>3
    <2>5. ASSUME NEW i \in DOMAIN readers, NEW j \in DOMAIN readers,
                 readers[j] = cursor', i < j
          PROVE  FALSE
        <3>1. 1 \in DOMAIN readers /\ i \in Int /\ i >= 1
            BY <1>4, <2>3
        <3>2. j = 1
            BY <1>0, <2>4, <2>5, <3>1 DEF ListInv, NoDup
        <3> QED
            BY <2>5, <3>1, <3>2
    <2>6. ~(Passed(r)')
        BY <1>1, <2>5 DEF Passed, Ahead
    <2> QED
        BY <2>1, <2>2, <2>4, <2>6
<1>10. BusyInv(w, base)'
    <2>1. EntryLen(w)' = n
        BY <1>2 DEF EntryLen
    <2>2. Stands(buffer, head, base, 0)' /\ Room(head, base, EntryLen(w))'
        BY <1>1, <1>6, <2>1 DEF Stands
    <2>3. ASSUME NEW r \in Reader, OnList(readers', r)
          PROVE  /\ Stands(buffer, r_off[r], base, last[r])'
                 /\ last'[r] < writes'
                 /\ (cursor' = None \/ Passed(r)') => Room(r_off[r], base, EntryLen(w))'
        BY <1>1, <1>9, <2>3 DEF Stands
    <2> QED
        BY <1>4, <1>5, <1>8, <2>2, <2>3 DEF BusyInv
<1> QED
    BY <1>1, <1>4, <1>5, <1>10, BusyCore

LEMMA FixUpCore ==
    ASSUME LogBase, LogCore, Sound, NEW w \in Writer, fix_up_readers(w)
    PROVE  LogCore'
<1>0. TypeOK /\ ListInv /\ WriterOk(w) /\ wpc[w] = "fixup" /\ mutex = w
    BY DEF LogBase, fix_up_readers, WriterInv, AtWork
<1>1. UNCHANGED <<buffer, w_off, head, readers, last, mutex, entry, writes>>
    BY DEF fix_up_readers, logVars
<1>2. PICK base \in Offset : BusyInv(w, base)
    BY <1>0 DEF LogCore
<1>3. /\ Written(w, base) /\ Stands(buffer, head, base, 0) /\ Room(head, base, EntryLen(w))
      /\ \A r \in Reader : OnList(readers, r) =>
           /\ Stands(buffer, r_off[r], base, last[r]) /\ last[r] < writes
           /\ cursor = None \/ Passed(r) => Room(r_off[r], base, EntryLen(w))
    BY <1>2 DEF BusyInv
<1>4. entry[w].len >= 1 /\ w_off = base
    <2>1. entry[w].done = 0 /\ entry[w].len >= 1 /\ w_off = At(base, entry[w].done)
        BY <1>0, <1>3 DEF Written, WriterOk
    <2> QED
        BY <2>1, AtIs, RingInts
<1> DEFINE n == EntryLen(w)
<1>5. n \in Int /\ n > Hdr /\ n <= Hdr + MaxPayload
    BY <1>0, <1>4, BusyInts
<1>6. buffer \in Cells /\ w_off \in Offset /\ None \notin Reader
    BY <1>0, TypeCells, RingInts DEF TypeOK
<1>7. CASE cursor = None /\ UNCHANGED <<r_off, cursor>>
    <2>1. BusyInv(w, base)'
        BY <1>1, <1>2, <1>7, BusyStays
    <2> QED
        BY <1>0, <1>1, <2>1, BusyCore
<1>8. CASE /\ cursor # None /\ r_off' = [r_off EXCEPT ![cursor] = fix_up(@, EntryLen(w))]
           /\ cursor' = NextReader(cursor)
    <2>1. PICK c : c = cursor
        OBVIOUS
    <2>2. c \in Reader /\ OnList(readers, c) /\ c # None
        BY <1>0, <1>8, <2>1 DEF TypeOK, Sound
    <2>3. PICK m \in DOMAIN readers : c = readers[m]
        BY <2>2 DEF OnList
    <2>4. readers \in Seq(Reader) /\ NoDup(readers)
        BY <1>0 DEF TypeOK, ListInv
    <2>5. m \in Int /\ m >= 1 /\ m <= Len(readers) /\ Len(readers) \in Nat
          /\ DOMAIN readers = 1 .. Len(readers)
        BY <2>4
    <2>6. \/ m = Len(readers) /\ cursor' = None
          \/ m + 1 \in DOMAIN readers /\ cursor' = readers[m + 1]
        BY <1>6, <1>8, <2>1, <2>3, <2>4, NextReaderIs
    <2>8. Stands(buffer, fix_up(r_off[c], n), base, last[c]) /\ Room(fix_up(r_off[c], n), base, n)
        <3>1. Stands(buffer, r_off[c], w_off, last[c])
            BY <1>3, <1>4, <2>2
        <3>2. Stands(buffer, fix_up(r_off[c], n), w_off, last[c]) /\ Room(fix_up(r_off[c], n), w_off, n)
            <4> HIDE DEF n
            <4> QED
                BY <1>5, <1>6, <3>1, FixUpIs
        <3> QED
            BY <1>4, <3>2
    <2> DEFINE x == fix_up(r_off[c], n)
    <2>10. r_off' = [r_off EXCEPT ![c] = x]
        BY <1>8, <2>1
    <2>11. Stands(buffer, x, base, last[c]) /\ Room(x, base, n)
        BY <2>8
    <2> HIDE DEF x
    <2>12. r_off'[c] = x /\ (\A r \in Reader : r # c => r_off'[r] = r_off[r])
        BY <1>0, <2>2, <2>10 DEF TypeOK
    <2>15. Written(w, base)'
        BY <1>1, <1>3 DEF Written
    <2>16. ASSUME NEW r \in Reader, OnList(readers, r), cursor' = None \/ Passed(r)', r # c
           PROVE  Passed(r)
        <3>1. PICK i \in DOMAIN readers : readers[i] = r /\ i <= m
            <4>1. CASE cursor' = None
                <5>1. m = Len(readers)
                    BY <1>6, <2>4, <2>6, <4>1
                <5> QED
                    BY <2>5, <2>16, <5>1 DEF OnList
            <4>2. CASE cursor' # None
                <5>1. m + 1 \in DOMAIN readers /\ cursor' = readers[m + 1]
                    BY <2>6, <4>2
                <5>2. PICK i \in DOMAIN readers, j \in DOMAIN readers :
                          readers[i] = r /\ readers[j] = cursor' /\ i < j
                    BY <1>1, <2>16, <4>2 DEF Passed, Ahead
                <5>3. j = m + 1
                    BY <2>4, <5>1, <5>2 DEF NoDup
                <5>4. i <= m
                    BY <2>5, <5>2, <5>3
                <5> QED
                    BY <5>2, <5>4
            <4> QED
                BY <4>1, <4>2
        <3>2. i # m
            BY <2>3, <2>16, <3>1
        <3>3. i < m
            BY <2>5, <3>1, <3>2
        <3> QED
            BY <2>1, <2>3, <3>1, <3>3 DEF Passed, Ahead
    <2>17. ASSUME NEW r \in Reader, OnList(readers, r)
           PROVE  /\ Stands(buffer, r_off'[r], base, last[r]) /\ last[r] < writes
                  /\ cursor' = None \/ Passed(r)' => Room(r_off'[r], base, n)
        <3>1. CASE r = c
            BY <1>3, <2>2, <2>11, <2>12, <3>1
        <3>2. CASE r # c
            <4>1. r_off'[r] = r_off[r]
                BY <2>12, <3>2
            <4> QED
                BY <1>3, <2>16, <2>17, <3>2, <4>1
        <3> QED
            BY <3>1, <3>2
    <2>18. BusyInv(w, base)'
        <3>1. EntryLen(w)' = n
            BY <1>1 DEF EntryLen
        <3>2. Stands(buffer, head, base, 0)' /\ Room(head, base, EntryLen(w))'
            BY <1>1, <1>3, <3>1 DEF Stands
        <3>3. ASSUME NEW r \in Reader, OnList(readers', r)
              PROVE  /\ Stands(buffer, r_off[r], base, last[r])'
                     /\ last'[r] < writes'
                     /\ (cursor' = None \/ Passed(r)') => Room(r_off[r], base, EntryLen(w))'
            BY <1>1, <2>17, <3>1, <3>3 DEF Stands
        <3> QED
            BY <2>15, <3>2, <3>3 DEF BusyInv
    <2> QED
        BY <1>0, <1>1, <2>18, BusyCore
<1>9. ~(cursor # None /\ cursor \notin ToSet(readers))
    BY DEF Sound, OnList, ToSet
<1> QED
    BY <1>7, <1>8, <1>9 DEF fix_up_readers

\* Everybody stands and has room for the whole entry.
AllRoom(b, base, n) ==
    /\ Stands(b, head, base, 0) /\ Room(head, base, n)
    /\ \A r \in Reader : OnList(readers, r) =>
          Stands(b, r_off[r], base, last[r]) /\ Room(r_off[r], base, n) /\ last[r] < writes

LEMMA BusyRoom ==
    ASSUME LogBase, LogCore, NEW w \in Writer, wpc[w] \in {"header", "payload"}
    PROVE  /\ mutex = w /\ cursor = None
           /\ \E base \in Offset : Written(w, base) /\ AllRoom(buffer, base, EntryLen(w))
<1>1. mutex = w /\ cursor = None
    BY DEF LogBase, WriterInv, AtWork
<1>2. PICK base \in Offset : BusyInv(w, base)
    BY <1>1 DEF LogCore
<1> QED
    BY <1>1, <1>2 DEF BusyInv, AllRoom

LEMMA RoomFrame ==
    ASSUME NEW b \in Cells, NEW d \in Cells, NEW base \in Offset, NEW n \in Int,
           AllRoom(b, base, n), \A p \in Offset : Dist(base, p) >= n => d[p] = b[p]
    PROVE  AllRoom(d, base, n)
<1>1. Stands(d, head, base, 0)
    BY StandsFrame DEF AllRoom
<1>2. ASSUME NEW r \in Reader, OnList(readers, r) PROVE Stands(d, r_off[r], base, last[r])
    <2>1. Stands(b, r_off[r], base, last[r]) /\ Room(r_off[r], base, n)
        BY <1>2 DEF AllRoom
    <2> QED
        BY <2>1, StandsFrame
<1> QED
    BY <1>1, <1>2 DEF AllRoom

\* n more cells of the entry in the buffer.
LEMMA StoreStep ==
    ASSUME TypeOK, NEW w \in Writer, entry[w].id = writes, entry[w].len >= 1, NEW base \in Offset, Written(w, base),
           AllRoom(buffer, base, EntryLen(w)),
           NEW n \in Int, n >= 0, entry[w].done + n <= EntryLen(w)
    PROVE  LET b == store(w, entry[w].done, n)
               i == entry[w].done
           IN  /\ b \in Cells /\ AllRoom(b, base, EntryLen(w))
               /\ logger_offset(w_off + n) = At(base, i + n) /\ At(base, i + n) \in Offset
               /\ i + n \in Int /\ i + n >= 0
               /\ \A p \in Offset : Dist(base, p) < i + n => b[p] = EntryCell(entry[w], Dist(base, p))
               /\ \A p \in Offset : Dist(base, p) >= i + n => b[p].id < writes
<1> DEFINE b == store(w, entry[w].done, n)
           i == entry[w].done
           L == EntryLen(w)
           e == entry[w]
<1>1. /\ w_off = At(base, i) /\ e.id = writes /\ e.len >= 1
      /\ \A p \in Offset : Dist(base, p) < i => buffer[p] = EntryCell(e, Dist(base, p))
      /\ \A p \in Offset : Dist(base, p) >= i => buffer[p].id < writes
    BY DEF Written
<1>2. /\ i \in Int /\ i >= 0 /\ L \in Int /\ L < Size /\ Size \in Int
      /\ writes \in Int /\ writes >= 0
    BY <1>1, BusyInts, RingInts
<1>3. i + n < Size /\ i + n <= L /\ i + n \in Int /\ i + n >= 0 /\ i < Size /\ i <= Size
    BY <1>2
<1>4. buffer \in Cells
    BY TypeCells
<1>5. b \in Cells
    <2>1. entry[w].id \in 0 .. MaxWrites /\ entry[w].len \in 0 .. MaxPayload
        BY DEF TypeOK
    <2> QED
        BY <1>1, <1>2, <1>3, <1>4, <2>1, StoreCells
<1>6. ASSUME NEW p \in Offset
      PROVE  b[p] = IF Dist(base, p) >= i /\ Dist(base, p) < i + n
                    THEN EntryCell(e, Dist(base, p)) ELSE buffer[p]
    <2> HIDE DEF i
    <2>1. store(w, i, n)[p] = IF Dist(base, p) >= i /\ Dist(base, p) < i + n
                              THEN EntryCell(entry[w], Dist(base, p)) ELSE buffer[p]
        <3>1. w_off = At(base, i) /\ i \in Int /\ i >= 0 /\ i + n < Size
            BY <1>1, <1>2, <1>3
        <3> QED
            BY <3>1, StoreIs
    <2>2. b = store(w, i, n)
        BY DEF i
    <2> QED
        BY <2>1, <2>2
<1> HIDE DEF b
<1>7. ASSUME NEW p \in Offset
      PROVE  /\ Dist(base, p) < i + n => b[p] = EntryCell(e, Dist(base, p))
             /\ Dist(base, p) >= i + n => b[p] = buffer[p] /\ b[p].id < writes
             /\ Dist(base, p) >= L => b[p] = buffer[p]
             /\ b[p].id <= writes
    <2> DEFINE q == Dist(base, p)
    <2>1. q \in Int /\ q >= 0
        BY DistIs
    <2>2. /\ b[p] = IF q >= i /\ q < i + n THEN EntryCell(e, q) ELSE buffer[p]
          /\ q < i => buffer[p] = EntryCell(e, q)
          /\ q >= i => buffer[p].id < writes
        BY <1>1, <1>6
    <2>3. EntryCell(e, q).id = writes
        BY <1>1 DEF EntryCell
    <2>4. buffer[p].id \in Int
        BY <1>4, CellInts DEF Cells
    <2> HIDE DEF q, i, L, e
    <2>5. q < i + n => b[p] = EntryCell(e, q)
        BY <1>2, <1>3, <2>1, <2>2
    <2>6. q >= i + n => b[p] = buffer[p] /\ b[p].id < writes
        BY <1>2, <1>3, <2>1, <2>2
    <2>7. q >= L => q >= i + n
        BY <1>2, <1>3, <2>1
    <2>8. b[p].id <= writes
        <3>1. CASE q < i + n
            BY <1>2, <2>3, <2>5, <3>1
        <3>2. CASE q >= i + n
            <4>1. b[p].id < writes /\ b[p].id \in Int
                BY <2>4, <2>6, <3>2
            <4> DEFINE z == b[p].id
            <4>2. z < writes /\ z \in Int
                BY <4>1
            <4> HIDE DEF z
            <4>3. z <= writes
                BY <1>2, <4>2
            <4> QED
                BY <4>3 DEF z
        <3> QED
            BY <1>2, <1>3, <2>1, <3>1, <3>2
    <2> QED
        BY <2>5, <2>6, <2>7, <2>8 DEF q
<1>8. AllRoom(b, base, L)
    <2> HIDE DEF L
    <2>1. AllRoom(buffer, base, L)
        BY DEF L
    <2> QED
        BY <1>2, <1>4, <1>5, <1>7, <2>1, RoomFrame
<1>9. logger_offset(w_off + n) = At(base, i + n) /\ At(base, i + n) \in Offset
    <2> HIDE DEF i
    <2>1. w_off \in Offset /\ At(w_off, n) = At(base, i + n) /\ At(base, i + n) \in Offset
        <3>1. i + n <= Size /\ n >= 0
            BY <1>2, <1>3
        <3> QED
            BY <1>1, <1>2, <1>3, <3>1, AtIs
    <2>2. n \in 0 .. Size
        BY <1>2, <1>3
    <2> QED
        BY <2>1, <2>2, AtMod DEF logger_offset
<1> QED
    BY <1>3, <1>5, <1>7, <1>8, <1>9 DEF b

\* More of the entry is in the buffer.
LEMMA StoredCore ==
    ASSUME LogBase, LogCore, NEW w \in Writer, NEW n, Stored(w, n)
    PROVE  LogCore'
<1>0. TypeOK /\ WriterOk(w) /\ n \in Int /\ n >= 0 /\ entry[w].done + n <= EntryLen(w)
      /\ wpc[w] \in {"header", "payload"}
    BY DEF LogBase, WriterInv, Stored
<1>1. /\ UNCHANGED <<head, readers, r_off, last, mutex, cursor, writes>>
      /\ buffer' = store(w, entry[w].done, n) /\ w_off' = logger_offset(w_off + n)
      /\ entry'[w].id = entry[w].id /\ entry'[w].len = entry[w].len
      /\ entry'[w].done = entry[w].done + n
    BY DEF Stored, readerVars
<1>2. mutex = w /\ cursor = None
    BY <1>0, BusyRoom
<1>3. PICK base \in Offset : Written(w, base) /\ AllRoom(buffer, base, EntryLen(w))
    BY <1>0, BusyRoom
<1>4. entry[w].id = writes /\ entry[w].len >= 1
    BY <1>0 DEF WriterOk, AtWork
<1> DEFINE b == store(w, entry[w].done, n)
           i == entry[w].done
           L == EntryLen(w)
           e == entry[w]
<1>5. /\ AllRoom(b, base, EntryLen(w))
      /\ logger_offset(w_off + n) = At(base, i + n)
      /\ \A p \in Offset : Dist(base, p) < i + n => b[p] = EntryCell(entry[w], Dist(base, p))
      /\ \A p \in Offset : Dist(base, p) >= i + n => b[p].id < writes
    BY <1>0, <1>3, <1>4, StoreStep
<1>6. EntryLen(w)' = L
    BY <1>1 DEF EntryLen
<1>7. \A k : EntryCell(entry'[w], k) = EntryCell(e, k)
    BY <1>1 DEF EntryCell
<1>8. Written(w, base)'
    <2> DEFINE d == i + n
    <2>1. w_off' = At(base, d) /\ entry'[w].done = d
        BY <1>1, <1>5
    <2>2. \A o \in Offset : Dist(base, o) < d => buffer'[o] = EntryCell(entry'[w], Dist(base, o))
        BY <1>1, <1>5, <1>7
    <2>3. \A o \in Offset : Dist(base, o) >= d => buffer'[o].id < writes'
        BY <1>1, <1>5
    <2> HIDE DEF d
    <2> QED
        BY <2>1, <2>2, <2>3 DEF Written
<1>9. BusyInv(w, base)'
    <2>1. Stands(buffer', head', base, 0) /\ Room(head', base, L)
        BY <1>1, <1>5 DEF AllRoom
    <2>2. ASSUME NEW r \in Reader, OnList(readers', r)
          PROVE  Stands(buffer', r_off'[r], base, last'[r]) /\ Room(r_off'[r], base, L)
                 /\ last'[r] < writes'
        BY <1>1, <1>5, <2>2 DEF AllRoom
    <2> HIDE DEF L
    <2> QED
        BY <1>6, <1>8, <2>1, <2>2 DEF BusyInv, Stands
<1> QED
    BY <1>1, <1>2, <1>9, BusyCore

\* The writer gives the mutex back, with everybody before whole entries.
LEMMA EndCore ==
    ASSUME UNCHANGED <<head, readerVars>>, mutex' = None,
           Stands(buffer', head, w_off', 0),
           \A r \in Reader : OnList(readers, r) => Stands(buffer', r_off[r], w_off', last[r])
    PROVE  LogCore'
<1>1. UNCHANGED <<head, readers, r_off, last>>
    BY DEF readerVars
<1>2. RestInv'
    BY <1>1 DEF RestInv, Stands
<1> QED
    BY <1>2, RingInts DEF LogCore

\* A failed copy, which puts w_off back where the entry began: that is what
\* Sound' says, as an offset is so far from one other offset only.
LEMMA FaultCore ==
    ASSUME LogBase, LogCore, NEW w \in Writer, write_fault(w), Sound'
    PROVE  LogCore'
<1>0. TypeOK /\ WriterOk(w) /\ wpc[w] = "payload" /\ iov[w] # <<>>
    BY DEF LogBase, WriterInv, write_fault
<1>1. PICK base \in Offset : Written(w, base) /\ AllRoom(buffer, base, EntryLen(w))
    BY <1>0, BusyRoom
<1> DEFINE n == Head(iov[w])
           b == store(w, entry[w].done, n)
<1>2. n \in Int /\ n >= 0 /\ entry[w].done + n <= EntryLen(w)
    BY <1>0, SegmentFits
<1>3. entry[w].id = writes /\ entry[w].len >= 1
    BY <1>0 DEF WriterOk, AtWork
<1>4. AllRoom(b, base, EntryLen(w))
    <2> HIDE DEF n
    <2> QED
        BY <1>0, <1>1, <1>2, <1>3, StoreStep
<1>5. /\ buffer' = b /\ w_off' = orig[w] /\ mutex' = None
      /\ w_off = logger_offset(orig[w] + entry[w].done)
      /\ UNCHANGED <<head, readerVars>>
    BY DEF write_fault, idle_writer, Sound
<1>6. orig[w] = base
    <2> DEFINE i == entry[w].done
               o == orig[w]
    <2>1. i \in Int /\ i >= 0 /\ i <= Size /\ o \in Offset /\ w_off = At(base, i)
        <3>1. i \in Int /\ i >= 0 /\ EntryLen(w) \in Int /\ EntryLen(w) < Size
            BY <1>0, <1>3, BusyInts
        <3>2. i <= Size
            BY <1>2, <3>1, RingInts
        <3> QED
            BY <1>0, <1>1, <3>1, <3>2 DEF TypeOK, Written
    <2>2. /\ Size \in Int /\ o \in Int /\ o >= 0 /\ o < Size /\ base \in Int /\ base >= 0 /\ base < Size
        BY <2>1, RingInts
    <2> HIDE DEF i, o
    <2>3. i \in 0 .. Size
        BY <2>1, <2>2
    <2>4. At(o, i) = At(base, i)
        BY <1>5, <2>1, <2>3, AtMod DEF logger_offset, i, o
    <2>5. o = base
        BY <2>1, <2>2, <2>4 DEF At
    <2> QED
        BY <2>5 DEF o
<1> HIDE DEF b
<1> QED
    BY <1>4, <1>5, <1>6, EndCore DEF AllRoom

LEMMA DoneCore ==
    ASSUME LogBase, LogCore, NEW w \in Writer, write_done(w)
    PROVE  LogCore'
<1>0. TypeOK /\ WriterOk(w) /\ wpc[w] = "payload" /\ iov[w] = <<>>
    BY DEF LogBase, WriterInv, write_done
<1>1. PICK base \in Offset : Written(w, base) /\ AllRoom(buffer, base, EntryLen(w))
    BY <1>0, BusyRoom
<1> DEFINE e == entry[w]
<1>2. /\ e.done + Parts(iov[w]) = Hdr + e.len /\ e.len >= 1
      /\ w_off = At(base, e.done) /\ e.id = writes
      /\ \A p \in Offset : Dist(base, p) < e.done => buffer[p] = EntryCell(e, Dist(base, p))
      /\ \A p \in Offset : Dist(base, p) >= e.done => buffer[p].id < writes
    BY <1>0, <1>1 DEF Written, WriterOk, AtWork
<1>4. EntryLen(w) = Hdr + e.len /\ e.len \in Nat /\ e.len <= MaxPayload /\ e.done \in Int
      /\ writes \in Int /\ writes >= 0
    BY <1>0, <1>2, BusyInts
<1>5. e.done = Hdr + e.len
    <2>1. Parts(iov[w]) = 0
        BY <1>0 DEF Parts
    <2> QED
        BY <1>2, <1>4, <2>1
<1>6. buffer \in Cells /\ w_off \in Offset /\ last \in [Reader -> 0 .. MaxWrites]
    BY <1>0, TypeCells DEF TypeOK
<1>7. buffer' = buffer /\ w_off' = w_off /\ mutex' = None /\ UNCHANGED <<head, readerVars>>
    BY DEF write_done, logVars, idle_writer
<1>8. ASSUME NEW o, NEW low \in Int, low < writes, Stands(buffer, o, base, low),
             Room(o, base, EntryLen(w))
      PROVE  Stands(buffer, o, w_off, low)
    <2>1. /\ e.id \in Int /\ e.id > low /\ Room(o, base, Hdr + e.len)
          /\ \A p \in Offset : Dist(base, p) < Hdr + e.len => buffer[p] = EntryCell(e, Dist(base, p))
          /\ \A p \in Offset : Dist(base, p) >= Hdr + e.len => buffer[p].id < e.id
        BY <1>2, <1>4, <1>5, <1>8
    <2>2. w_off = At(base, Hdr + e.len)
        BY <1>2, <1>5
    <2> HIDE DEF e
    <2>3. Stands(buffer, o, At(base, Hdr + e.len), low)
        BY <1>2, <1>4, <1>6, <1>8, <2>1, StandsExtend
    <2> QED
        BY <2>2, <2>3
<1>10. Stands(buffer, head, w_off, 0)
    <2>1. 0 < writes
        <3>1. Hdr + e.len >= 0 /\ Hdr + e.len < Size /\ Hdr + e.len \in Int /\ Hdr + e.len <= Size
            BY <1>4, RingInts
        <3>2. Dist(base, w_off) = e.done
            <4> HIDE DEF e
            <4> QED
                BY <1>2, <1>5, <3>1, AtIs
        <3>3. buffer[w_off].id < writes
            BY <1>2, <1>4, <1>6, <3>2
        <3>4. buffer[w_off].id \in Int /\ buffer[w_off].id >= 0
            BY <1>6, CellInts DEF Cells
        <3> DEFINE z == buffer[w_off].id
        <3>5. z < writes /\ z \in Int /\ z >= 0
            BY <3>3, <3>4
        <3> HIDE DEF z
        <3> QED
            BY <1>4, <3>5
    <2> QED
        BY <1>1, <1>8, <2>1 DEF AllRoom
<1>11. ASSUME NEW r \in Reader, OnList(readers, r) PROVE Stands(buffer, r_off[r], w_off, last[r])
    <2>1. last[r] \in Int
        BY <1>6
    <2> QED
        BY <1>1, <1>8, <1>11, <2>1 DEF AllRoom
<1> QED
    BY <1>7, <1>10, <1>11, EndCore

-----------------------------------------------------------------------------
LEMMA LogInit ==
    ASSUME Init
    PROVE  LogInv
<1>0. /\ Size \in Int /\ Size > 1 /\ MaxWrites \in Nat /\ MaxPayload \in Int /\ MaxPayload >= 1
      /\ Hdr \in Int /\ Hdr >= 2 /\ None \notin Writer /\ 0 \in Offset
    BY RingInts
<1>1. Blank \in Cell
    BY <1>0 DEF Blank, Cell
<1>2. NoEntry \in EntryRec
    BY <1>0 DEF NoEntry, EntryRec
<1>3. TypeOK
    <2>1. buffer \in [Offset -> Cell]
        BY <1>1 DEF Init
    <2>2. entry \in [Writer -> EntryRec]
        BY <1>2 DEF Init
    <2>3. 0 \in 0 .. MaxWrites
        BY <1>0
    <2>4. iov \in [Writer -> Seq(1 .. MaxPayload)] /\ readers \in Seq(Reader)
        BY DEF Init
    <2> QED
        BY <1>0, <2>1, <2>2, <2>3, <2>4 DEF Init, TypeOK, Cell, EntryRec, WPCs, RPCs
<1>4. \A r : ~OnList(readers, r)
    BY DEF Init, OnList
<1>5. ListInv
    BY <1>4 DEF Init, ListInv, NoDup
<1>6. WriterInv
    <2>1. ASSUME NEW w \in Writer PROVE WriterOk(w)
        BY DEF Init, WriterOk, AtWork
    <2> QED
        BY <1>0, <2>1 DEF Init, WriterInv, AtWork
<1>7. IdInv
    BY DEF Init, Blank, IdInv
<1>8. RestInv
    <2>1. Stands(buffer, head, w_off, 0)
        BY <1>0, StandsHere DEF Init
    <2> QED
        BY <1>4, <2>1 DEF RestInv
<1>9. LogCore
    BY <1>0, <1>8 DEF Init, LogCore
<1> QED
    BY <1>3, <1>5, <1>6, <1>7, <1>9 DEF LogInv, LogBase

LEMMA BaseStep ==
    ASSUME LogBase, [Next]_vars
    PROVE  LogBase'
<1>1. CASE UNCHANGED vars
    BY <1>1, ReaderQuietBase DEF vars, logVars, writerVars, LogBase, TypeOK
<1>2. ASSUME NEW w \in Writer,
             \/ write_start(w) \/ write_lock(w) \/ fix_up_readers(w)
             \/ do_write_log(w) \/ do_write_log_from_user(w) \/ write_fault(w)
             \/ write_done(w) \/ wake_up_interruptible(w) \/ logger_flush(w)
      PROVE  LogBase'
    BY <1>2, StartBase, LockBase, FixUpBase, HeaderBase, PayloadBase, FaultBase,
       DoneBase, WakeBase, FlushBase
<1>3. ASSUME NEW r \in Reader,
             \/ logger_open(r) \/ logger_release(r)
             \/ prepare_to_wait(r) \/ read_test(r)
             \/ signal(r) \/ read_schedule(r) \/ read_entry(r)
      PROVE  LogBase'
    BY <1>3, OpenBase, CloseBase, ReaderQuiet, ReadBase
<1> QED
    BY <1>1, <1>2, <1>3 DEF Next

\* What is lost stays lost: nobody comes back to the list while a writer holds
\* the mutex, and the writer that has met a freed reader goes no further.
LEMMA SoundBefore ==
    ASSUME LogBase, [Next]_vars, Sound'
    PROVE  Sound
<1>1. mutex = None => cursor = None
    <2> SUFFICES ASSUME mutex = None, cursor # None PROVE FALSE
        OBVIOUS
    <2>1. PICK w \in Writer : wpc[w] \in {"fixup", "lost"}
        BY DEF LogBase, WriterInv
    <2>2. mutex = w
        BY <2>1 DEF LogBase, WriterInv, AtWork
    <2> QED
        BY <2>2, RingInts
<1>2. CASE UNCHANGED vars
    BY <1>2 DEF vars, Sound
<1>3. ASSUME NEW w \in Writer, write_lock(w) PROVE Sound
    BY <1>1, <1>3 DEF write_lock, Sound
<1>4. ASSUME NEW w \in Writer, fix_up_readers(w) PROVE Sound
    <2>1. intact' = intact /\ readers' = readers
        BY <1>4 DEF fix_up_readers
    <2>2. CASE cursor' = cursor
        BY <2>1, <2>2 DEF Sound
    <2>3. CASE cursor \in ToSet(readers)
        BY <2>1, <2>3 DEF Sound, ToSet, OnList
    <2> QED
        BY <1>4, <2>2, <2>3 DEF fix_up_readers
<1>5. ASSUME NEW w \in Writer,
             \/ write_start(w)
             \/ do_write_log(w) \/ do_write_log_from_user(w) \/ write_fault(w)
             \/ write_done(w) \/ wake_up_interruptible(w) \/ logger_flush(w)
      PROVE  Sound
    <2>1. UNCHANGED <<readers, cursor>>
        BY <1>5 DEF write_start, do_write_log, do_write_log_from_user, write_fault, write_done,
                    wake_up_interruptible, logger_flush, readerVars, writerVars
    <2>2. intact
        <3>1. CASE write_fault(w)
            BY <3>1, Zenon DEF write_fault, Sound
        <3>2. CASE ~write_fault(w)
            <4>1. UNCHANGED intact
                BY <1>5, <3>2 DEF write_start, do_write_log, do_write_log_from_user, write_done,
                                  wake_up_interruptible, logger_flush, writerVars
            <4> QED
                BY <4>1 DEF Sound
        <3> QED
            BY <3>1, <3>2
    <2> QED
        BY <2>1, <2>2 DEF Sound
<1>6. ASSUME NEW r \in Reader, logger_open(r) PROVE Sound
    BY <1>1, <1>6 DEF logger_open, Sound, writerVars
<1>7. ASSUME NEW r \in Reader, logger_release(r) PROVE Sound
    <2>1. UNCHANGED <<cursor, intact>>
        BY <1>7 DEF logger_release, writerVars
    <2>2. \A q : OnList(readers', q) => OnList(readers, q)
        BY <1>7, CloseBase
    <2> QED
        BY <2>1, <2>2 DEF Sound
<1>8. ASSUME NEW r \in Reader,
             \/ prepare_to_wait(r) \/ read_test(r)
             \/ signal(r) \/ read_schedule(r) \/ read_entry(r)
      PROVE  Sound
    <2>1. UNCHANGED <<readers, cursor, intact>>
        BY <1>8 DEF prepare_to_wait, read_test, signal, read_schedule, read_entry, writerVars
    <2> QED
        BY <2>1 DEF Sound
<1> QED
    BY <1>2, <1>3, <1>4, <1>5, <1>6, <1>7, <1>8 DEF Next

LEMMA CoreStep ==
    ASSUME LogBase, LogCore, Sound, Sound', [Next]_vars
    PROVE  LogCore'
<1>1. CASE UNCHANGED vars
    BY <1>1, ReaderQuietCore DEF vars, logVars, writerVars
<1>2. ASSUME NEW w \in Writer,
             \/ write_start(w) \/ write_lock(w) \/ fix_up_readers(w)
             \/ do_write_log(w) \/ do_write_log_from_user(w) \/ write_fault(w)
             \/ write_done(w) \/ wake_up_interruptible(w) \/ logger_flush(w)
      PROVE  LogCore'
    <2>1. CASE do_write_log(w) \/ do_write_log_from_user(w)
        BY <2>1, HeaderBase, PayloadBase, StoredCore
    <2> QED
        BY <1>2, <2>1, OutsideCore, LockCore, FixUpCore, FaultCore, DoneCore, FlushCore
<1>3. ASSUME NEW r \in Reader,
             \/ logger_open(r) \/ logger_release(r)
             \/ prepare_to_wait(r) \/ read_test(r)
             \/ signal(r) \/ read_schedule(r) \/ read_entry(r)
      PROVE  LogCore'
    <2>1. CASE prepare_to_wait(r) \/ read_test(r) \/ signal(r) \/ read_schedule(r)
        BY <2>1, ReaderQuiet, ReaderQuietCore
    <2> QED
        BY <1>3, <2>1, OpenCore, CloseCore, ReadCore
<1> QED
    BY <1>1, <1>2, <1>3 DEF Next

\* With the mutex free there is no reader to stand at.
LEMMA RestIsSound ==
    ASSUME LogInv, mutex = None, intact
    PROVE  RestInv
<1>1. cursor = None
    <2> SUFFICES ASSUME cursor # None PROVE FALSE
        OBVIOUS
    <2>1. PICK w \in Writer : wpc[w] \in {"fixup", "lost"}
        BY DEF LogInv, LogBase, WriterInv
    <2>2. mutex = w
        BY <2>1 DEF LogInv, LogBase, WriterInv, AtWork
    <2> QED
        BY <2>2, RingInts
<1> QED
    BY <1>1 DEF LogInv, LogCore, Sound

\* The invariant of the log.  As long as no failed write has taken back more
\* than its entry (logger.c:328 and 367) and fix_up_readers() stands at no freed
\* reader: with the mutex free the start head and every open reader stand
\* before whole entries; while logger_aio_write() holds it, they stand before
\* the old entries and out of the way of the new one.
THEOREM LoggerInvariant == Spec => []LogInv
<1>1. Init => LogInv
    BY LogInit
<1>2. LogInv /\ [Next]_vars => LogInv'
    BY BaseStep, SoundBefore, CoreStep DEF LogInv
<1> QED
    BY <1>1, <1>2, PTL DEF Spec

\* Offsets stay inside the buffer and an entry never grows past its length,
\* for every buffer size and any number of writers and readers, whatever the
\* copies do and whenever a reader is released: get_next_entry() comes to an
\* end and inside the buffer even where it reads lengths that nobody wrote.
THEOREM LoggerTypeOK == Spec => []TypeOK
<1>1. LogInv => TypeOK
    BY DEF LogInv, LogBase
<1> QED
    BY <1>1, LoggerInvariant, PTL

\* Whenever log->mutex is free, walking the log with get_entry_len() from the
\* start head or from any open reader meets whole entries, in the order they
\* were written, and ends at w_off: fix_up_readers() moves everybody out of the
\* way of a write, also when other readers are released meanwhile, and neither
\* a flush nor a failed copy leaves anybody inside an entry, unless the copy's
\* writer was overtaken between logger.c:328 and its mutex_lock().
THEOREM LoggerEntriesReadable == Spec => []EntriesReadable
<1>1. ASSUME LogInv PROVE EntriesReadable
    <2> SUFFICES ASSUME mutex = None, intact
                 PROVE  Readable(head) /\ \A r \in ToSet(readers) : Readable(r_off[r])
        BY DEF EntriesReadable
    <2>1. TypeOK /\ RestInv /\ buffer \in Cells /\ w_off \in Offset
        BY <1>1, RestIsSound, TypeCells DEF LogInv, LogBase, TypeOK
    <2>2. Readable(head)
        BY <2>1, StandsReadable DEF RestInv
    <2>3. ASSUME NEW r \in ToSet(readers) PROVE Readable(r_off[r])
        <3>1. r \in Reader /\ OnList(readers, r)
            BY <2>1, <2>3 DEF TypeOK, ToSet, OnList
        <3>2. last[r] \in Nat
            BY <2>1, <3>1 DEF TypeOK
        <3>3. Stands(buffer, r_off[r], w_off, last[r])
            BY <2>1, <3>1 DEF RestInv
        <3> QED
            BY <2>1, <3>2, <3>3, StandsReadable
    <2> QED
        BY <2>2, <2>3
<1> QED
    BY <1>1, LoggerInvariant, PTL

\* logger_read() never returns an entry twice or out of order: the entry a
\* reader is before is younger than the last one it read, also after a writer
\* has lapped it and pulled it forward, with the exception above.
THEOREM LoggerReadInOrder == Spec => []ReadInOrder
<1>1. ASSUME LogInv PROVE ReadInOrder
    <2> SUFFICES ASSUME mutex = None, intact, NEW r \in ToSet(readers), r_off[r] # w_off
                 PROVE  buffer[r_off[r]].id > last[r]
        BY DEF ReadInOrder
    <2>1. TypeOK /\ RestInv /\ buffer \in Cells /\ w_off \in Offset
        BY <1>1, RestIsSound, TypeCells DEF LogInv, LogBase, TypeOK
    <2>2. r \in Reader /\ OnList(readers, r)
        BY <2>1 DEF TypeOK, ToSet, OnList
    <2>3. last[r] \in Nat
        BY <2>1, <2>2 DEF TypeOK
    <2>4. Stands(buffer, r_off[r], w_off, last[r])
        BY <2>1, <2>2 DEF RestInv
    <2> QED
        BY <2>1, <2>3, <2>4, StandsReadable
<1> QED
    BY <1>1, LoggerInvariant, PTL
=============================================================================
