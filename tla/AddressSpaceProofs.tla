------------------------- MODULE AddressSpaceProofs -------------------------
(***************************************************************************)
(* Proofs about AddressSpace, for any number of addresses and regions: the *)
(* list of regions stays sorted, permissions() answers for the region of   *)
(* an address, the segfault check agrees with it at each value, and loads  *)
(* stay off the integers of unmapped regions.                              *)
(***************************************************************************)
EXTENDS AddressSpace, SequenceTheorems, FiniteSetTheorems, TLAPS

MappedRegion == [addr : Addrs, length : 1 .. NumAddrs, perms : Permissions]

Sorted(list) ==
  /\ list \in Seq(MappedRegion)
  /\ \A j, k \in DOMAIN list : j < k => list[j].addr <= list[k].addr

-----------------------------------------------------------------------------
(* Sets of naturals and lists. *)

\* Min() is the least member: the one with the fewest below it.
LEMMA MinIsLeast ==
  ASSUME NEW S \in SUBSET Nat, S # {}
  PROVE  Min(S) \in S /\ \A x \in S : Min(S) <= x
<1> DEFINE Below(x) == {y \in S : y < x}
           T == {Below(x) : x \in S}
<1>1. ASSUME NEW x \in S PROVE Below(x) \in FiniteSubsetsOf(Nat)
  <2>1. IsFiniteSet(0 .. x)
    BY FS_Interval
  <2>2. Below(x) \subseteq 0 .. x
    <3>1. \A y \in S : y \in Nat /\ (y < x => y \in 0 .. x)
      OBVIOUS
    <3> QED
      BY <3>1
  <2>3. IsFiniteSet(Below(x))
    BY <2>1, <2>2, FS_Subset
  <2> QED
    BY <2>3 DEF FiniteSubsetsOf
<1>2. T \subseteq FiniteSubsetsOf(Nat) /\ T # {}
  BY <1>1
<1>3. PICK B \in T : \A C \in T : ~(<<C, B>> \in StrictSubsetOrdering(Nat))
  <2> HIDE DEF T
  <2> QED
    BY <1>2, WFMin, FS_StrictSubsetOrderingWellFounded
<1>4. PICK m \in S : B = Below(m)
  BY <1>3
<1>5. ASSUME NEW x \in S, x < m PROVE FALSE
  <2>1. Below(x) \subseteq Below(m)
    <3>1. x \in Nat /\ m \in Nat /\ \A y \in S : y \in Nat
      OBVIOUS
    <3>2. \A y \in S : y < x => y < m
      BY <1>5, <3>1
    <3> QED
      BY <3>2
  <2>2. x \in Below(m) /\ x \notin Below(x)
    BY <1>5
  <2>3. <<Below(x), Below(m)>> \in StrictSubsetOrdering(Nat)
    <3>1. Below(x) \in SUBSET Nat /\ Below(m) \in SUBSET Nat /\ Below(x) # Below(m)
      BY <2>2
    <3> HIDE DEF Below
    <3> QED
      BY <2>1, <3>1 DEF StrictSubsetOrdering
  <2> QED
    BY <1>3, <1>4, <2>3
<1>6. \A x \in S : m <= x
  BY <1>5
<1> QED
  BY <1>6 DEF Min

\* Max() is the greatest member of a bounded set.
LEMMA MaxIsGreatest ==
  ASSUME NEW N \in Nat, NEW S \in SUBSET (0 .. N), S # {}
  PROVE  Max(S) \in S /\ \A x \in S : x <= Max(S)
<1> DEFINE T == {N - x : x \in S}
<1>1. T \in SUBSET Nat /\ T # {}
  <2>1. \A x \in S : N - x \in Nat
    OBVIOUS
  <2> QED
    BY <2>1
<1>2. Min(T) \in T /\ \A y \in T : Min(T) <= y
  BY <1>1, MinIsLeast
<1>3. PICK m \in S : Min(T) = N - m
  BY <1>2
<1>4. \A x \in S : N - m <= N - x
  BY <1>2, <1>3
<1>5. \A x \in S : x <= m
  BY <1>4
<1> QED
  BY <1>5 DEF Max

\* What InsertAt() puts where.
LEMMA InsertAtFacts ==
  ASSUME NEW S, NEW s \in Seq(S), NEW e \in S, NEW i \in 1 .. Len(s) + 1
  PROVE  /\ InsertAt(s, i, e) \in Seq(S)
         /\ Len(InsertAt(s, i, e)) = Len(s) + 1
         /\ \A j \in 1 .. Len(s) + 1 : InsertAt(s, i, e)[j] =
              IF j < i THEN s[j] ELSE IF j = i THEN e ELSE s[j - 1]
<1> DEFINE a == SubSeq(s, 1, i - 1)
           b == SubSeq(s, i, Len(s))
           c == a \o <<e>>
<1>1. Len(s) \in Nat /\ i \in Int /\ i - 1 \in Int
  OBVIOUS
<1>2. /\ a \in Seq(S) /\ Len(a) = i - 1
      /\ \A j \in 1 .. i - 1 : a[j] = s[j]
  BY <1>1, SubSeqProperties
<1>3. /\ b \in Seq(S) /\ Len(b) = Len(s) - i + 1
      /\ \A j \in 1 .. Len(s) - i + 1 : b[j] = s[i + j - 1]
  BY <1>1, SubSeqProperties
<1>4. <<e>> \in Seq(S) /\ Len(<<e>>) = 1 /\ <<e>>[1] = e
  OBVIOUS
<1> HIDE DEF a, b
<1>5. /\ c \in Seq(S) /\ Len(c) = i
      /\ \A j \in 1 .. i : c[j] = IF j < i THEN s[j] ELSE e
  BY <1>1, <1>2, <1>4, ConcatProperties
<1> HIDE DEF c
<1>6. /\ c \o b \in Seq(S) /\ Len(c \o b) = Len(s) + 1
      /\ \A j \in 1 .. Len(s) + 1 : (c \o b)[j] = IF j <= i THEN c[j] ELSE b[j - i]
  <2>1. /\ c \o b \in Seq(S) /\ Len(c \o b) = Len(c) + Len(b)
        /\ \A j \in 1 .. Len(c) + Len(b) :
             (c \o b)[j] = IF j <= Len(c) THEN c[j] ELSE b[j - Len(c)]
    BY <1>3, <1>5, ConcatProperties
  <2>2. Len(c) = i /\ Len(c) + Len(b) = Len(s) + 1
    BY <1>1, <1>3, <1>5
  <2> QED
    BY <2>1, <2>2
<1>7. ASSUME NEW j \in 1 .. Len(s) + 1
      PROVE  (c \o b)[j] = IF j < i THEN s[j] ELSE IF j = i THEN e ELSE s[j - 1]
  <2>1. CASE j <= i
    BY <1>1, <1>5, <1>6, <2>1
  <2>2. CASE j > i
    <3>1. j - i \in 1 .. Len(s) - i + 1 /\ i + (j - i) - 1 = j - 1
      BY <1>1, <2>2
    <3> QED
      BY <1>3, <1>6, <2>2, <3>1
  <2>3. j <= i \/ j > i
    BY <1>1
  <2> QED
    BY <2>1, <2>2, <2>3
<1>8. InsertAt(s, i, e) = c \o b
  BY DEF InsertAt, a, b, c
<1> QED
  BY <1>6, <1>7, <1>8

\* What RemoveAt() leaves where.
LEMMA RemoveAtFacts ==
  ASSUME NEW S, NEW s \in Seq(S), NEW i \in 1 .. Len(s)
  PROVE  /\ RemoveAt(s, i) \in Seq(S)
         /\ Len(RemoveAt(s, i)) = Len(s) - 1
         /\ \A j \in 1 .. Len(s) - 1 :
              RemoveAt(s, i)[j] = IF j < i THEN s[j] ELSE s[j + 1]
<1> DEFINE a == SubSeq(s, 1, i - 1)
           b == SubSeq(s, i + 1, Len(s))
<1>1. Len(s) \in Nat /\ i \in Int /\ i - 1 \in Int /\ i + 1 \in Int
  OBVIOUS
<1>2. /\ a \in Seq(S) /\ Len(a) = i - 1
      /\ \A j \in 1 .. i - 1 : a[j] = s[j]
  BY <1>1, SubSeqProperties
<1>3. /\ b \in Seq(S) /\ Len(b) = Len(s) - i
      /\ \A j \in 1 .. Len(s) - i : b[j] = s[i + j]
  <2>1. \A j \in i + 1 .. Len(s) : s[j] \in S
    BY <1>1
  <2>2. /\ b \in Seq(S)
        /\ Len(b) = IF i + 1 <= Len(s) THEN Len(s) - (i + 1) + 1 ELSE 0
        /\ \A j \in 1 .. Len(s) - (i + 1) + 1 : b[j] = s[i + 1 + j - 1]
    BY <1>1, <2>1, SubSeqProperties
  <2>3. \A j \in 1 .. Len(s) - i : i + 1 + j - 1 = i + j
    BY <1>1
  <2> QED
    BY <1>1, <2>2, <2>3
<1> HIDE DEF a, b
<1>4. /\ a \o b \in Seq(S) /\ Len(a \o b) = Len(s) - 1
      /\ \A j \in 1 .. Len(s) - 1 : (a \o b)[j] = IF j <= i - 1 THEN a[j] ELSE b[j - (i - 1)]
  <2>1. /\ a \o b \in Seq(S) /\ Len(a \o b) = Len(a) + Len(b)
        /\ \A j \in 1 .. Len(a) + Len(b) :
             (a \o b)[j] = IF j <= Len(a) THEN a[j] ELSE b[j - Len(a)]
    BY <1>2, <1>3, ConcatProperties
  <2>2. Len(a) = i - 1 /\ Len(a) + Len(b) = Len(s) - 1
    BY <1>1, <1>2, <1>3
  <2> QED
    BY <2>1, <2>2
<1>5. ASSUME NEW j \in 1 .. Len(s) - 1
      PROVE  (a \o b)[j] = IF j < i THEN s[j] ELSE s[j + 1]
  <2>1. CASE j < i
    BY <1>1, <1>2, <1>4, <2>1
  <2>2. CASE j >= i
    <3>1. j - (i - 1) \in 1 .. Len(s) - i /\ i + (j - (i - 1)) = j + 1
      BY <1>1, <2>2
    <3> QED
      BY <1>3, <1>4, <2>2, <3>1
  <2>3. j < i \/ j >= i
    BY <1>1
  <2> QED
    BY <2>1, <2>2, <2>3
<1>6. RemoveAt(s, i) = a \o b
  BY DEF RemoveAt, a, b
<1> QED
  BY <1>4, <1>5, <1>6

-----------------------------------------------------------------------------
(* The two changes of the list. *)

\* Insert() puts the region in one place of the list, which stays sorted.
LEMMA InsertFacts ==
  ASSUME NEW list, Sorted(list), NEW r \in MappedRegion
  PROVE  /\ Sorted(Insert(list, r))
         /\ Len(Insert(list, r)) = Len(list) + 1
         /\ \E i \in 1 .. Len(list) + 1 : \A j \in 1 .. Len(list) + 1 :
              Insert(list, r)[j] =
                IF j < i THEN list[j] ELSE IF j = i THEN r ELSE list[j - 1]
<1> DEFINE later == {k \in DOMAIN list : r.addr < list[k].addr}
           i == Min(later \cup {Len(list) + 1})
           new == InsertAt(list, i, r)
<1>1. list \in Seq(MappedRegion) /\ Len(list) \in Nat /\ DOMAIN list = 1 .. Len(list)
  BY DEF Sorted
<1>2. i \in later \cup {Len(list) + 1} /\ \A x \in later \cup {Len(list) + 1} : i <= x
  <2>1. later \cup {Len(list) + 1} \in SUBSET Nat /\ later \cup {Len(list) + 1} # {}
    BY <1>1
  <2> HIDE DEF later
  <2> QED
    BY <2>1, MinIsLeast DEF i
<1> HIDE DEF i
<1>3. i \in 1 .. Len(list) + 1
  BY <1>1, <1>2
<1>4. /\ new \in Seq(MappedRegion)
      /\ Len(new) = Len(list) + 1
      /\ \A j \in 1 .. Len(list) + 1 : new[j] =
           IF j < i THEN list[j] ELSE IF j = i THEN r ELSE list[j - 1]
  BY <1>1, <1>3, InsertAtFacts
<1> HIDE DEF new
<1>5. \A k \in 1 .. Len(list) : list[k].addr \in Int /\ r.addr \in Int
  <2>1. \A x \in MappedRegion : x.addr \in Int
    BY SizesAssumption DEF MappedRegion, Addrs
  <2>2. \A k \in 1 .. Len(list) : list[k] \in MappedRegion
    BY <1>1
  <2> QED
    BY <2>1, <2>2
<1>6. \A k \in 1 .. Len(list) : k < i => list[k].addr <= r.addr
  BY <1>1, <1>2, <1>3, <1>5
<1>7. \A k \in 1 .. Len(list) : i <= k => r.addr <= list[k].addr
  <2>1. SUFFICES ASSUME NEW k \in 1 .. Len(list), i <= k
                 PROVE  r.addr <= list[k].addr
    OBVIOUS
  <2>2. i \in later
    BY <1>1, <1>2, <1>3, <2>1
  <2>3. r.addr < list[i].addr /\ i \in 1 .. Len(list)
    BY <1>1, <2>2
  <2>4. i = k \/ list[i].addr <= list[k].addr
    BY <1>1, <1>3, <2>1, <2>3 DEF Sorted
  <2> QED
    BY <1>5, <2>3, <2>4
<1>8. \A j, k \in 1 .. Len(list) : j < k => list[j].addr <= list[k].addr
  BY <1>1 DEF Sorted
<1>9. ASSUME NEW j \in 1 .. Len(list) + 1, NEW k \in 1 .. Len(list) + 1, j < k
      PROVE  new[j].addr <= new[k].addr
  <2>1. CASE k < i
    BY <1>1, <1>3, <1>4, <1>8, <1>9, <2>1
  <2>2. CASE k = i
    BY <1>1, <1>3, <1>4, <1>6, <1>9, <2>2
  <2>3. CASE k > i
    <3>1. k - 1 \in 1 .. Len(list) /\ i <= k - 1 /\ new[k] = list[k - 1]
      BY <1>1, <1>3, <1>4, <2>3
    <3>2. CASE j < i
      BY <1>1, <1>3, <1>4, <1>8, <3>1, <3>2
    <3>3. CASE j = i
      BY <1>1, <1>3, <1>4, <1>7, <3>1, <3>3
    <3>4. CASE j > i
      BY <1>1, <1>3, <1>4, <1>8, <1>9, <3>1, <3>4
    <3> QED
      BY <1>3, <3>2, <3>3, <3>4
  <2> QED
    BY <1>3, <2>1, <2>2, <2>3
<1>10. Insert(list, r) = new
  BY DEF Insert, new, i, later
<1>11. DOMAIN new = 1 .. Len(list) + 1
  BY <1>4
<1> QED
  BY <1>3, <1>4, <1>9, <1>10, <1>11 DEF Sorted

\* Without() leaves the list alone or takes one region out, that starts at a.
LEMMA WithoutFacts ==
  ASSUME NEW list, Sorted(list), NEW a
  PROVE  /\ Sorted(Without(list, a))
         /\ Len(Without(list, a)) <= Len(list)
         /\ \/ /\ Without(list, a) = list
               /\ \A k \in DOMAIN list : list[k].addr # a
            \/ \E i \in DOMAIN list :
                 /\ list[i].addr = a
                 /\ Len(Without(list, a)) = Len(list) - 1
                 /\ \A j \in 1 .. Len(list) - 1 :
                      Without(list, a)[j] = IF j < i THEN list[j] ELSE list[j + 1]
<1> DEFINE at == {k \in DOMAIN list : list[k].addr = a}
<1>1. list \in Seq(MappedRegion) /\ Len(list) \in Nat /\ DOMAIN list = 1 .. Len(list)
  BY DEF Sorted
<1>2. CASE at = {}
  <2>1. Without(list, a) = list
    BY <1>2 DEF Without
  <2>2. \A k \in DOMAIN list : list[k].addr # a
    BY <1>2
  <2>3. Len(list) <= Len(list)
    BY <1>1
  <2> HIDE DEF at
  <2> QED
    BY <2>1, <2>2, <2>3
<1>3. CASE at # {}
  <2> DEFINE i == Min(at)
             new == RemoveAt(list, i)
  <2>1. i \in at
    <3>1. at \in SUBSET Nat
      BY <1>1
    <3> HIDE DEF at
    <3> QED
      BY <1>3, <3>1, MinIsLeast
  <2> HIDE DEF i
  <2>2. /\ new \in Seq(MappedRegion)
        /\ Len(new) = Len(list) - 1
        /\ \A j \in 1 .. Len(list) - 1 : new[j] = IF j < i THEN list[j] ELSE list[j + 1]
    BY <1>1, <2>1, RemoveAtFacts
  <2>3. Without(list, a) = new
    BY <1>3 DEF Without, new, i
  <2> HIDE DEF new
  <2>4. ASSUME NEW j \in 1 .. Len(list) - 1, NEW k \in 1 .. Len(list) - 1, j < k
        PROVE  new[j].addr <= new[k].addr
    <3>1. \A x, y \in 1 .. Len(list) : x < y => list[x].addr <= list[y].addr
      BY <1>1 DEF Sorted
    <3>2. i \in 1 .. Len(list)
      BY <1>1, <2>1
    <3>3. CASE k < i
      BY <1>1, <2>2, <2>4, <3>1, <3>2, <3>3
    <3>4. CASE j < i /\ i <= k
      BY <1>1, <2>2, <2>4, <3>1, <3>2, <3>4
    <3>5. CASE i <= j
      BY <1>1, <2>2, <2>4, <3>1, <3>2, <3>5
    <3> QED
      BY <3>2, <3>3, <3>4, <3>5
  <2>5. DOMAIN new = 1 .. Len(list) - 1
    BY <2>2
  <2>6. Sorted(new)
    BY <2>2, <2>4, <2>5 DEF Sorted
  <2>7. i \in DOMAIN list /\ list[i].addr = a
    BY <2>1
  <2>8. Len(new) <= Len(list)
    BY <1>1, <2>2
  <2> HIDE DEF at
  <2> QED
    BY <2>2, <2>3, <2>6, <2>7, <2>8
<1> QED
  BY <1>2, <1>3

-----------------------------------------------------------------------------
(* The list of regions. *)

\* A list is typed as TypeOK says exactly when it is short and sorted.
LEMMA TypeIsSorted ==
  TypeOK <=> /\ stack \in Addrs \cup {NoStack}
             /\ Sorted(regions)
             /\ Len(regions) <= MaxRegions
BY DEF TypeOK, Sorted, MappedRegion

\* What may be mapped is a region.
LEMMA SpanIsRegion ==
  ASSUME NEW s \in Spans, NEW p \in Permissions
  PROVE  /\ Region(s[1], s[2], p) \in MappedRegion
         /\ s[1] \in Addrs /\ s[2] \in 1 .. NumAddrs
BY DEF Spans, Region, MappedRegion

\* A stack is mapped into a list that may have lost one region.
LEMMA UnstackedFacts ==
  ASSUME TypeOK
  PROVE  Sorted(Unstacked) /\ Len(Unstacked) \in Nat
<1>1. Sorted(regions)
  BY TypeIsSorted
<1>2. Sorted(Unstacked)
  BY <1>1, WithoutFacts DEF Unstacked
<1> QED
  BY <1>2 DEF Sorted

\* A step keeps the list sorted and within its bound.
LEMMA TypeStep == TypeOK /\ [Next]_vars => TypeOK'
<1> SUFFICES ASSUME TypeOK, [Next]_vars
             PROVE  TypeOK'
  OBVIOUS
<1> USE TypeIsSorted
<1>1. ASSUME NEW s \in Spans, NEW p \in Permissions, Map(s[1], s[2], p)
      PROVE  TypeOK'
  <2>1. regions' = Insert(regions, Region(s[1], s[2], p)) /\ Len(regions) < MaxRegions
        /\ stack' = stack
    BY <1>1 DEF Map, MapRegion
  <2>2. Sorted(regions') /\ Len(regions') = Len(regions) + 1
    BY <2>1, InsertFacts, SpanIsRegion
  <2>3. Len(regions) \in Nat
    BY DEF Sorted
  <2> QED
    BY <2>1, <2>2, <2>3, SizesAssumption DEF TypeOK, Sorted, MappedRegion
<1>2. ASSUME NEW s \in Spans, Unmap(s[1], s[2])
      PROVE  TypeOK'
  <2>1. regions' \in {regions, Without(regions, s[1])} /\ stack' = stack
    BY <1>2 DEF Unmap, UnmapRegion
  <2>2. Sorted(Without(regions, s[1])) /\ Len(Without(regions, s[1])) <= Len(regions)
    BY WithoutFacts
  <2>3. Sorted(regions') /\ Len(regions') <= Len(regions)
    BY <2>1, <2>2 DEF Sorted
  <2>4. Len(regions) \in Nat /\ Len(regions') \in Nat
    BY <2>3 DEF Sorted
  <2> QED
    BY <2>1, <2>2, <2>3, SizesAssumption DEF TypeOK, Sorted, MappedRegion
<1>3. ASSUME NEW s \in Spans, Stack(s[1], s[2])
      PROVE  TypeOK'
  <2>1. regions' = Insert(Unstacked, Region(s[1], s[2], {"r", "w"}))
        /\ Len(Unstacked) < MaxRegions /\ stack' = s[1]
    BY <1>3 DEF Stack, SetStack
  <2>2. Sorted(Unstacked) /\ Len(Unstacked) \in Nat
    BY UnstackedFacts
  <2>3. Sorted(regions') /\ Len(regions') = Len(Unstacked) + 1 /\ s[1] \in Addrs
    BY <2>1, <2>2, InsertFacts, SpanIsRegion, PermissionsAssumption
  <2> QED
    BY <2>1, <2>2, <2>3, SizesAssumption DEF TypeOK, Sorted, MappedRegion
<1>4. ASSUME UNCHANGED <<regions, stack>>
      PROVE  TypeOK'
  BY <1>4 DEF TypeOK
<1>5. UNCHANGED vars => UNCHANGED <<regions, stack>>
  BY DEF vars
<1>6. \A values \in (SUBSET Addrs) \ {{}}, n \in AccessSizes :
        (Read(values, n) \/ \E guarded \in BOOLEAN : Write(values, n, guarded))
          => UNCHANGED <<regions, stack>>
  BY DEF Read, Write
<1> QED
  BY <1>1, <1>2, <1>3, <1>4, <1>5, <1>6 DEF Next

\* The list of regions is sorted and has the shape the code gives it
\* (range_fully_symbolic_memory.py 1136-1185), for any number of regions.
THEOREM Typed == Spec => []TypeOK
<1>1. Init => TypeOK
  BY SizesAssumption DEF Init, NoMap, TypeOK
<1> QED
  BY <1>1, TypeStep, PTL DEF Spec

-----------------------------------------------------------------------------
(* The walk over the regions.  FoldLeft is a function on the sets of         *)
(* positions of the list, each of which takes the turn of its last position  *)
(* after those before it.                                                    *)

\* The numbers a region is made of.
LEMMA RegionNumbers ==
  ASSUME NEW r \in MappedRegion
  PROVE  r.addr \in Nat /\ r.length \in Nat \ {0} /\ End(r) = r.addr + r.length
BY SizesAssumption DEF MappedRegion, Addrs, End

\* The fold of the check, by the definition of the library.
LEMMA FoldIs ==
  ASSUME NEW list, NEW values, NEW access
  PROVE  LET Is(g) == g = [s \in SUBSET DOMAIN list |->
               IF s = {} THEN [covered |-> Min(values) - 1, done |-> FALSE, fault |-> FALSE]
               ELSE Visit(values, access, g[s \ {Max(s)}], list[Max(s)])]
             end == (CHOOSE g : Is(g))[DOMAIN list]
         IN  Faults(list, values, access) <=> end.fault \/ end.covered < Max(values)
BY DEF Faults, FoldLeft, MapThenFoldSet

\* A function on the sets of positions up to n that does so with the turns F.
IsFold(g, n, base, F) ==
  g = [s \in SUBSET (1 .. n) |->
         IF s = {} THEN base ELSE F[<<Max(s), g[s \ {Max(s)}]>>]]

\* The last of some positions, and what is left without it.
LEMMA MaxTaken ==
  ASSUME NEW n \in Nat, NEW s \in SUBSET (1 .. n), s # {}
  PROVE  /\ Max(s) \in s /\ Max(s) \in 1 .. n /\ n # 0
         /\ s \ {Max(s)} \in SUBSET (1 .. (n - 1))
<1>1. Max(s) \in s /\ \A x \in s : x <= Max(s)
  <2>1. s \in SUBSET (0 .. n)
    OBVIOUS
  <2> QED BY <2>1, MaxIsGreatest
<1>2. PICK m \in 1 .. n : m = Max(s)
  BY <1>1
<1>3. \A x \in s \ {m} : x \in 1 .. (n - 1)
  <2> TAKE x \in s \ {m}
  <2>1. x \in 1 .. n /\ x <= m /\ x # m
    BY <1>1, <1>2
  <2> QED BY <2>1
<1>4. n # 0
  BY <1>2
<1> QED BY <1>1, <1>2, <1>3, <1>4

\* That of all positions up to k.
LEMMA MaxOfPrefix ==
  ASSUME NEW n \in Nat, NEW k \in 1 .. n
  PROVE  /\ (1 .. k) # {} /\ Max(1 .. k) = k
         /\ (1 .. k) \ {k} = 1 .. (k - 1)
         /\ 1 .. k \in SUBSET (1 .. n) /\ 1 .. (k - 1) \in SUBSET (1 .. n)
<1>1. k \in 1 .. k /\ 1 .. k \in SUBSET (0 .. n)
  OBVIOUS
<1>2. Max(1 .. k) \in 1 .. k /\ \A x \in 1 .. k : x <= Max(1 .. k)
  BY <1>1, MaxIsGreatest
<1>3. PICK m \in 1 .. k : m = Max(1 .. k)
  BY <1>2
<1>4. k <= m /\ m <= k
  BY <1>1, <1>2, <1>3
<1>5. m = k
  BY <1>4
<1> QED BY <1>3, <1>5

\* There is such a function: at the least bound without one, a turn more would
\* make one from that of the bound before.
LEMMA FoldExists ==
  ASSUME NEW n \in Nat, NEW V, NEW base \in V, NEW F \in [(1 .. n) \X V -> V]
  PROVE  \E g \in [SUBSET (1 .. n) -> V] : IsFold(g, n, base, F)
<1> DEFINE Upto(m) == \E g \in [SUBSET (1 .. m) -> V] : IsFold(g, m, base, F)
           Bad == {m \in 0 .. n : ~Upto(m)}
<1>1. SUFFICES ASSUME Bad # {}
               PROVE  FALSE
  <2> HIDE DEF Upto
  <2>1. n \in 0 .. n
    OBVIOUS
  <2>2. Upto(n)
    BY <1>1, <2>1
  <2> QED BY <2>2 DEF Upto
<1>2. Min(Bad) \in Bad /\ \A x \in Bad : Min(Bad) <= x
  <2> HIDE DEF Upto
  <2>1. Bad \in SUBSET Nat
    OBVIOUS
  <2> QED BY <1>1, <2>1, MinIsLeast
<1>3. PICK m \in 0 .. n : ~Upto(m) /\ (m = 0 \/ Upto(m - 1))
  <2> HIDE DEF Upto
  <2>1. PICK m \in 0 .. n : ~Upto(m) /\ m = Min(Bad)
    BY <1>2
  <2>2. m # 0 => m - 1 \in 0 .. n /\ ~(m <= m - 1)
    OBVIOUS
  <2>3. m # 0 => Upto(m - 1)
    BY <1>2, <2>1, <2>2
  <2> QED BY <2>1, <2>3
<1>4. CASE m = 0
  <2> DEFINE g == [s \in SUBSET (1 .. 0) |-> base]
  <2>1. \A s \in SUBSET (1 .. 0) : s = {}
    OBVIOUS
  <2>2. g = [s \in SUBSET (1 .. 0) |->
               IF s = {} THEN base ELSE F[<<Max(s), g[s \ {Max(s)}]>>]]
    BY <2>1
  <2>3. g \in [SUBSET (1 .. 0) -> V]
    OBVIOUS
  <2>4. Upto(0)
    BY <2>2, <2>3 DEF IsFold
  <2> QED BY <1>3, <1>4, <2>4
<1>5. CASE m # 0
  <2>1. PICK g \in [SUBSET (1 .. (m - 1)) -> V] : IsFold(g, m - 1, base, F)
    BY <1>3, <1>5
  <2> DEFINE h == [s \in SUBSET (1 .. m) |->
                     IF s = {} THEN base ELSE F[<<Max(s), g[s \ {Max(s)}]>>]]
  <2>2. m \in Nat /\ m - 1 \in Nat
    BY <1>5
  <2>3. \A s \in SUBSET (1 .. m) : s # {} =>
          Max(s) \in 1 .. n /\ s \ {Max(s)} \in SUBSET (1 .. (m - 1))
    BY <2>2, MaxTaken
  <2>4. ASSUME NEW s \in SUBSET (1 .. (m - 1))
        PROVE  h[s] = g[s]
    <3>1. s \in SUBSET (1 .. m)
      BY <2>2
    <3>2. h[s] = IF s = {} THEN base ELSE F[<<Max(s), g[s \ {Max(s)}]>>]
      BY <3>1
    <3>3. g[s] = IF s = {} THEN base ELSE F[<<Max(s), g[s \ {Max(s)}]>>]
      BY <2>1 DEF IsFold
    <3> QED BY <3>2, <3>3
  <2>5. h = [s \in SUBSET (1 .. m) |->
               IF s = {} THEN base ELSE F[<<Max(s), h[s \ {Max(s)}]>>]]
    <3>1. \A s \in SUBSET (1 .. m) : s # {} => g[s \ {Max(s)}] = h[s \ {Max(s)}]
      <4> HIDE DEF h
      <4> QED BY <2>3, <2>4
    <3>2. ASSUME NEW s \in SUBSET (1 .. m)
          PROVE  h[s] = IF s = {} THEN base ELSE F[<<Max(s), h[s \ {Max(s)}]>>]
      <4>1. h[s] = IF s = {} THEN base ELSE F[<<Max(s), g[s \ {Max(s)}]>>]
        OBVIOUS
      <4> HIDE DEF h
      <4> QED BY <3>1, <4>1
    <3>3. h = [s \in SUBSET (1 .. m) |-> h[s]]
      OBVIOUS
    <3> HIDE DEF h
    <3> QED BY <3>2, <3>3
  <2>6. h \in [SUBSET (1 .. m) -> V]
    <3>1. ASSUME NEW s \in SUBSET (1 .. m), s # {}
          PROVE  F[<<Max(s), g[s \ {Max(s)}]>>] \in V
      <4>1. g[s \ {Max(s)}] \in V /\ Max(s) \in 1 .. n
        BY <2>3, <3>1
      <4> QED BY <4>1
    <3> QED BY <3>1
  <2>7. Upto(m)
    <3> HIDE DEF h
    <3> QED BY <2>5, <2>6 DEF IsFold
  <2> QED BY <1>3, <2>7
<1> QED BY <1>4, <1>5

\* The stages of the walk.
Acc == [covered : Int, done : BOOLEAN, fault : BOOLEAN]
WalkStart(values) == [covered |-> Min(values) - 1, done |-> FALSE, fault |-> FALSE]
IsWalk(W, list, values, access) ==
  /\ W \in [0 .. Len(list) -> Acc]
  /\ W[0] = WalkStart(values)
  /\ \A k \in 1 .. Len(list) : W[k] = Visit(values, access, W[k - 1], list[k])
  /\ Faults(list, values, access) <=>
       W[Len(list)].fault \/ W[Len(list)].covered < Max(values)

\* A turn keeps the shape of what is known.
LEMMA VisitTyped ==
  ASSUME NEW values \in (SUBSET Addrs) \ {{}}, NEW access, NEW acc \in Acc,
         NEW r \in MappedRegion
  PROVE  Visit(values, access, acc, r) \in Acc
<1>1. /\ values \in SUBSET Nat /\ values # {}
      /\ values \in SUBSET (0 .. NumAddrs) /\ NumAddrs \in Nat
  BY SizesAssumption DEF Addrs
<1>2. PICK hi \in Nat : hi = Max(values)
  BY <1>1, MaxIsGreatest
<1>3. PICK e \in Nat : e = End(r)
  <2>1. r.addr \in Nat /\ r.length \in Nat /\ End(r) = r.addr + r.length
    BY RegionNumbers
  <2> QED BY <2>1
<1>4. PICK upper \in Nat : upper = Min({e, hi})
  <2>1. {e, hi} \in SUBSET Nat /\ {e, hi} # {}
    OBVIOUS
  <2> QED BY <2>1, MinIsLeast
<1>5. [acc EXCEPT !.done = TRUE] \in Acc
  BY DEF Acc
<1> QED BY <1>2, <1>3, <1>4, <1>5 DEF Visit, Acc

\* The check goes through the stages of a walk.
LEMMA WalkExists ==
  ASSUME NEW list, Sorted(list), NEW values \in (SUBSET Addrs) \ {{}}, NEW access
  PROVE  \E W : IsWalk(W, list, values, access)
<1>1. Len(list) \in Nat /\ DOMAIN list = 1 .. Len(list)
      /\ \A k \in 1 .. Len(list) : list[k] \in MappedRegion
  BY DEF Sorted
<1>2. PICK n \in Nat : n = Len(list)
  BY <1>1
<1> DEFINE start == WalkStart(values)
           F == [x \in (1 .. n) \X Acc |-> Visit(values, access, x[2], list[x[1]])]
           Is(g) == g = [s \in SUBSET DOMAIN list |->
               IF s = {} THEN [covered |-> Min(values) - 1, done |-> FALSE, fault |-> FALSE]
               ELSE Visit(values, access, g[s \ {Max(s)}], list[Max(s)])]
           g == CHOOSE g : Is(g)
<1>3. start \in Acc
  <2>1. values \in SUBSET Nat /\ values # {}
    BY DEF Addrs
  <2>2. PICK lo \in Nat : lo = Min(values)
    BY <2>1, MinIsLeast
  <2>3. lo - 1 \in Int
    OBVIOUS
  <2> QED BY <2>2, <2>3 DEF WalkStart, Acc
<1>4. F \in [(1 .. n) \X Acc -> Acc]
  <2>1. ASSUME NEW x \in (1 .. n) \X Acc
        PROVE  Visit(values, access, x[2], list[x[1]]) \in Acc
    <3>1. x[2] \in Acc /\ list[x[1]] \in MappedRegion
      BY <1>1, <1>2
    <3> QED BY <3>1, VisitTyped
  <2> QED BY <2>1
<1>5. PICK f \in [SUBSET (1 .. n) -> Acc] : IsFold(f, n, start, F)
  <2> HIDE DEF F, start
  <2> QED BY <1>3, <1>4, FoldExists
<1>6. ASSUME NEW s \in SUBSET (1 .. n)
      PROVE  f[s] = IF s = {} THEN start
                    ELSE Visit(values, access, f[s \ {Max(s)}], list[Max(s)])
  <2>1. f[s] = IF s = {} THEN start ELSE F[<<Max(s), f[s \ {Max(s)}]>>]
    <3> HIDE DEF F, start
    <3> QED BY <1>5 DEF IsFold
  <2>2. ASSUME s # {}
        PROVE  F[<<Max(s), f[s \ {Max(s)}]>>]
                 = Visit(values, access, f[s \ {Max(s)}], list[Max(s)])
    <3>1. Max(s) \in 1 .. n /\ s \ {Max(s)} \in SUBSET (1 .. n)
      BY <2>2, MaxTaken
    <3>2. <<Max(s), f[s \ {Max(s)}]>> \in (1 .. n) \X Acc
      BY <1>5, <3>1
    <3> QED BY <3>2
  <2> HIDE DEF F
  <2> QED BY <2>1, <2>2
<1>7. Is(f)
  <2>1. f = [s \in SUBSET (1 .. n) |-> f[s]]
    BY <1>5
  <2>2. f = [s \in SUBSET (1 .. n) |->
               IF s = {} THEN start
               ELSE Visit(values, access, f[s \ {Max(s)}], list[Max(s)])]
    BY <1>6, <2>1
  <2> QED BY <2>2, <1>1, <1>2 DEF WalkStart
<1>8. Is(g)
  <2> HIDE DEF Is
  <2> QED BY <1>7
<1>9. ASSUME NEW s \in SUBSET (1 .. n)
      PROVE  g[s] = IF s = {} THEN start
                    ELSE Visit(values, access, g[s \ {Max(s)}], list[Max(s)])
  <2> HIDE DEF g
  <2> QED BY <1>1, <1>2, <1>8 DEF WalkStart
<1>10. Faults(list, values, access) <=>
         g[1 .. n].fault \/ g[1 .. n].covered < Max(values)
  BY <1>1, <1>2, FoldIs
<1> HIDE DEF g, start
<1> DEFINE W == [k \in 0 .. n |-> g[1 .. k]]
<1>11. W[0] = start
  <2>1. W[0] = g[1 .. 0] /\ 1 .. 0 = {} /\ {} \in SUBSET (1 .. n)
    OBVIOUS
  <2> QED BY <1>9, <2>1
<1>12. ASSUME NEW k \in 1 .. n
       PROVE  W[k] = Visit(values, access, W[k - 1], list[k])
  <2>1. /\ (1 .. k) # {} /\ Max(1 .. k) = k /\ (1 .. k) \ {k} = 1 .. (k - 1)
        /\ 1 .. k \in SUBSET (1 .. n)
    BY MaxOfPrefix
  <2>2. W[k] = g[1 .. k] /\ W[k - 1] = g[1 .. (k - 1)]
    OBVIOUS
  <2> QED BY <1>9, <2>1, <2>2
<1>13. ASSUME NEW k \in 0 .. n PROVE W[k] \in Acc
  <2> DEFINE Bad == {j \in 0 .. n : W[j] \notin Acc}
  <2> HIDE DEF W
  <2>1. SUFFICES ASSUME Bad # {} PROVE FALSE
    OBVIOUS
  <2>2. Min(Bad) \in Bad /\ \A x \in Bad : Min(Bad) <= x
    <3>1. Bad \in SUBSET Nat
      OBVIOUS
    <3> QED BY <2>1, <3>1, MinIsLeast
  <2>3. PICK j \in Bad : \A x \in Bad : j <= x
    BY <2>2
  <2>4. j # 0
    BY <1>3, <1>11
  <2>5. j - 1 \in 0 .. n /\ j \in 1 .. n /\ j - 1 \notin Bad
    BY <2>3, <2>4
  <2>6. W[j - 1] \in Acc
    BY <2>5
  <2> QED BY <1>1, <1>2, <1>12, <2>5, <2>6, VisitTyped
<1>14. W \in [0 .. n -> Acc]
  BY <1>13
<1>15. W[n] = g[1 .. n]
  OBVIOUS
<1> QED
  <2> HIDE DEF W
  <2>1. IsWalk(W, list, values, access)
    BY <1>2, <1>10, <1>11, <1>12, <1>14, <1>15 DEF IsWalk, start
  <2> QED BY <2>1

\* The lesser of two.
LEMMA MinOfTwo ==
  ASSUME NEW a \in Nat, NEW b \in Nat
  PROVE  /\ Min({a, b}) \in {a, b}
         /\ Min({a, b}) <= a /\ Min({a, b}) <= b
<1>1. {a, b} \in SUBSET Nat /\ {a, b} # {}
  OBVIOUS
<1> QED BY <1>1, MinIsLeast

\* permissions() asks the first region that has the address.
HasAddr(r, v) == r.addr <= v /\ v <= End(r)

LEMMA FirstAnswers ==
  ASSUME NEW list, Sorted(list), NEW v \in Nat
  PROVE  /\ (\A k \in DOMAIN list : ~HasAddr(list[k], v)) => PermissionsAt(list, v) = {}
         /\ \A k \in DOMAIN list :
              HasAddr(list[k], v) /\ (\A j \in 1 .. (k - 1) : ~HasAddr(list[j], v))
                => PermissionsAt(list, v) = list[k].perms
<1> DEFINE has == {k \in DOMAIN list : list[k].addr <= v /\ v <= End(list[k])}
<1>1. DOMAIN list = 1 .. Len(list) /\ Len(list) \in Nat
  BY DEF Sorted
<1>2. (\A k \in DOMAIN list : ~HasAddr(list[k], v)) => PermissionsAt(list, v) = {}
  BY DEF PermissionsAt, HasAddr
<1>3. ASSUME NEW k \in DOMAIN list, HasAddr(list[k], v),
             \A j \in 1 .. (k - 1) : ~HasAddr(list[j], v)
      PROVE  PermissionsAt(list, v) = list[k].perms
  <2>1. k \in has /\ has \in SUBSET Nat
    BY <1>1, <1>3 DEF HasAddr
  <2>2. Min(has) \in has /\ Min(has) <= k
    BY <2>1, MinIsLeast
  <2>3. PICK m \in DOMAIN list : m = Min(has) /\ HasAddr(list[m], v)
    BY <2>2 DEF HasAddr
  <2>4. m \notin 1 .. (k - 1) /\ m <= k
    BY <1>3, <2>2, <2>3
  <2>5. m = k
    BY <1>1, <2>4
  <2>6. PermissionsAt(list, v) = list[Min(has)].perms
    BY <2>1 DEF PermissionsAt
  <2> QED BY <2>3, <2>5, <2>6
<1> QED BY <1>2, <1>3

\* What the walk knows after k regions: a fault is a value that is refused; else
\* the values up to covered are allowed, and no region looked at, or after all
\* values, has more of them.
WalkInv(acc, k, list, values, access) ==
  /\ acc.covered <= Max(values)
  /\ acc.fault => \E v \in values : access \notin PermissionsAt(list, v)
  /\ ~acc.fault =>
       /\ \A v \in values : v <= acc.covered => access \in PermissionsAt(list, v)
       /\ acc.covered < Max(values) =>
            \A j \in DOMAIN list :
               (j <= k \/ acc.done) /\ list[j].addr <= Max(values)
                 => End(list[j]) <= acc.covered

\* A turn keeps that.
LEMMA WalkStep ==
  ASSUME NEW list, Sorted(list), NEW values \in (SUBSET Addrs) \ {{}}, NEW access,
         NEW k \in DOMAIN list, NEW acc \in Acc,
         WalkInv(acc, k - 1, list, values, access)
  PROVE  WalkInv(Visit(values, access, acc, list[k]), k, list, values, access)
<1> DEFINE r == list[k]
           new == Visit(values, access, acc, r)
<1>1. /\ values \in SUBSET Nat /\ values # {}
      /\ values \in SUBSET (0 .. NumAddrs) /\ NumAddrs \in Nat
  BY SizesAssumption DEF Addrs
<1>2. PICK hi \in Nat : hi = Max(values) /\ hi \in values /\ \A v \in values : v <= hi
  BY <1>1, MaxIsGreatest
<1>3. /\ DOMAIN list = 1 .. Len(list) /\ Len(list) \in Nat
      /\ \A j \in DOMAIN list :
           /\ list[j] \in MappedRegion
           /\ list[j].addr \in Nat /\ End(list[j]) \in Nat
      /\ \A i, j \in DOMAIN list : i < j => list[i].addr <= list[j].addr
  <2>1. ASSUME NEW j \in DOMAIN list
        PROVE  /\ list[j] \in MappedRegion
               /\ list[j].addr \in Nat /\ End(list[j]) \in Nat
    <3>1. list[j] \in MappedRegion
      BY DEF Sorted
    <3>2. list[j].addr \in Nat /\ list[j].length \in Nat
          /\ End(list[j]) = list[j].addr + list[j].length
      BY <3>1, RegionNumbers
    <3> QED BY <3>1, <3>2
  <2> QED BY <2>1 DEF Sorted
<1>4. PICK e \in Nat : e = End(r)
  BY <1>3
<1>5. PICK at \in Nat : at = r.addr
  BY <1>3
<1>6. PICK c \in Int : c = acc.covered
  BY DEF Acc
<1>7. PICK upper \in Nat : /\ upper = Min({e, hi}) /\ upper \in {e, hi}
                           /\ upper <= e /\ upper <= hi
  BY MinOfTwo
<1>8. /\ c <= hi
      /\ acc.fault => \E v \in values : access \notin PermissionsAt(list, v)
      /\ ~acc.fault => \A v \in values : v <= c => access \in PermissionsAt(list, v)
      /\ ~acc.fault /\ c < hi =>
           \A j \in DOMAIN list :
             (j <= k - 1 \/ acc.done) /\ list[j].addr <= hi => End(list[j]) <= c
  BY <1>2, <1>6 DEF WalkInv
<1>9. CASE acc.done \/ acc.fault \/ hi < at
  <2>1. new = [acc EXCEPT !.done = TRUE]
    BY <1>2, <1>5, <1>9 DEF Visit
  <2>2. new.covered = c /\ new.fault = acc.fault /\ new.done = TRUE
    BY <1>6, <2>1 DEF Acc
  <2>3. ASSUME ~acc.fault, c < hi, NEW j \in DOMAIN list, list[j].addr <= hi
        PROVE  End(list[j]) <= c
    <3>1. CASE acc.done \/ j <= k - 1
      BY <1>8, <2>3, <3>1
    <3>2. CASE ~acc.done /\ ~(j <= k - 1)
      <4>1. j = k \/ k < j
        BY <1>3, <3>2
      <4>2. at <= list[j].addr
        BY <1>3, <1>5, <4>1
      <4>3. hi < at
        BY <1>9, <2>3, <3>2
      <4>4. list[j].addr \in Nat
        BY <1>3
      <4> QED BY <2>3, <4>2, <4>3, <4>4
    <3> QED BY <3>1, <3>2
  <2> QED BY <1>2, <1>8, <2>2, <2>3 DEF WalkInv
<1>10. CASE ~(acc.done \/ acc.fault \/ hi < at) /\ c + 1 > e
  <2>1. new = acc
    BY <1>2, <1>4, <1>5, <1>6, <1>10 DEF Visit
  <2>2. ASSUME c < hi, NEW j \in DOMAIN list, j <= k, list[j].addr <= hi
        PROVE  End(list[j]) <= c
    <3>1. CASE j <= k - 1
      BY <1>8, <1>10, <2>2, <3>1
    <3>2. CASE ~(j <= k - 1)
      <4>1. j = k
        BY <1>3, <2>2, <3>2
      <4> QED BY <1>4, <1>10, <4>1
    <3> QED BY <3>1, <3>2
  <2> QED BY <1>2, <1>6, <1>8, <1>10, <2>1, <2>2 DEF WalkInv
<1>11. CASE ~(acc.done \/ acc.fault \/ hi < at) /\ ~(c + 1 > e)
  <2> DEFINE front == \E v \in values : c + 1 <= v /\ v < at
             refused == \E v \in values : access \notin r.perms /\ c + 1 <= v /\ v <= upper
  <2>1. /\ new.covered = upper /\ new.done = FALSE
        /\ new.fault <=> front \/ refused
    <3>1. new = [covered |-> upper, done |-> FALSE,
                 fault |-> \E v \in values :
                   \/ c + 1 <= v /\ v < at
                   \/ access \notin r.perms /\ c + 1 <= v /\ v <= upper]
      BY <1>2, <1>4, <1>5, <1>6, <1>7, <1>11 DEF Visit
    <3> QED BY <3>1
  <2>2. c <= upper /\ at <= hi /\ c + 1 <= e
    BY <1>7, <1>8, <1>11
  <2>3. ASSUME NEW v \in values, c + 1 <= v, NEW j \in 1 .. (k - 1)
        PROVE  ~HasAddr(list[j], v)
    <3>1. j \in DOMAIN list /\ v \in Nat /\ v <= hi /\ j <= k - 1
      BY <1>1, <1>2, <1>3
    <3>2. list[j].addr \in Nat /\ End(list[j]) \in Nat
      BY <1>3, <3>1
    <3>3. list[j].addr <= hi => End(list[j]) <= c
      <4>1. c < hi
        BY <2>3, <3>1
      <4> QED BY <1>8, <1>11, <3>1, <4>1
    <3>4. list[j].addr <= v /\ v <= End(list[j]) => FALSE
      BY <2>3, <3>1, <3>2, <3>3
    <3> QED BY <3>4 DEF HasAddr
  <2>4. ASSUME NEW v \in values, c + 1 <= v, v < at
        PROVE  access \notin PermissionsAt(list, v)
    <3>0. v \in Nat
      BY <1>1
    <3>1. ASSUME NEW j \in DOMAIN list PROVE ~HasAddr(list[j], v)
      <4>1. CASE j \in 1 .. (k - 1)
        BY <2>3, <2>4, <4>1
      <4>2. CASE j \notin 1 .. (k - 1)
        <5>1. j = k \/ k < j
          BY <1>3, <4>2
        <5>2. at <= list[j].addr /\ list[j].addr \in Nat
          BY <1>3, <1>5, <5>1
        <5>3. ~(list[j].addr <= v)
          BY <2>4, <3>0, <5>2
        <5> QED BY <5>3 DEF HasAddr
      <4> QED BY <4>1, <4>2
    <3> QED BY <3>0, <3>1, FirstAnswers
  <2>5. ASSUME NEW v \in values, c + 1 <= v, v <= upper, at <= v
        PROVE  PermissionsAt(list, v) = r.perms
    <3>1. v \in Nat /\ v <= e
      BY <1>1, <1>7, <2>5
    <3>2. HasAddr(list[k], v)
      BY <1>4, <1>5, <2>5, <3>1 DEF HasAddr
    <3> QED BY <2>3, <2>5, <3>1, <3>2, FirstAnswers
  <2>6. ASSUME front \/ refused
        PROVE  \E v \in values : access \notin PermissionsAt(list, v)
    <3>1. CASE front
      BY <2>4, <3>1
    <3>2. CASE ~front /\ refused
      <4>1. PICK v \in values : access \notin r.perms /\ c + 1 <= v /\ v <= upper
        BY <3>2
      <4>2. v \in Nat /\ ~(v < at)
        BY <1>1, <3>2, <4>1
      <4>3. at <= v
        BY <4>2
      <4> QED BY <2>5, <4>1, <4>3
    <3> QED BY <2>6, <3>1, <3>2
  <2>7. ASSUME ~front, ~refused, NEW v \in values, v <= upper
        PROVE  access \in PermissionsAt(list, v)
    <3>1. v \in Nat
      BY <1>1
    <3>2. CASE v <= c
      BY <1>8, <1>11, <3>2
    <3>3. CASE ~(v <= c)
      <4>1. c + 1 <= v
        BY <3>1, <3>3
      <4>2. ~(v < at)
        BY <2>7, <4>1
      <4>3. at <= v
        BY <3>1, <4>2
      <4>4. access \in r.perms
        BY <2>7, <4>1
      <4> QED BY <2>5, <2>7, <4>1, <4>3, <4>4
    <3> QED BY <3>2, <3>3
  <2>8. ASSUME upper < hi, NEW j \in DOMAIN list, j <= k, list[j].addr <= hi
        PROVE  End(list[j]) <= upper
    <3>1. CASE j <= k - 1
      <4>1. c < hi
        BY <2>2, <2>8
      <4>2. End(list[j]) <= c /\ End(list[j]) \in Nat
        BY <1>3, <1>8, <1>11, <2>8, <3>1, <4>1
      <4> QED BY <2>2, <4>2
    <3>2. CASE ~(j <= k - 1)
      <4>1. j = k
        BY <1>3, <2>8, <3>2
      <4>2. upper = e
        BY <1>7, <2>8
      <4> QED BY <1>4, <4>1, <4>2
    <3> QED BY <3>1, <3>2
  <2> HIDE DEF new, front, refused
  <2> QED BY <1>2, <1>7, <2>1, <2>6, <2>7, <2>8 DEF WalkInv, new
<1> QED BY <1>9, <1>10, <1>11

\* The walk over any sorted list refuses an address if and only if
\* permissions() refuses one of its values.
LEMMA FaultsPointwise ==
  ASSUME NEW list, Sorted(list), NEW values \in (SUBSET Addrs) \ {{}}, NEW access
  PROVE  Faults(list, values, access)
           <=> \E v \in values : access \notin PermissionsAt(list, v)
<1>1. PICK W : IsWalk(W, list, values, access)
  BY WalkExists
<1>2. PICK n \in Nat : n = Len(list) /\ DOMAIN list = 1 .. n
  BY DEF Sorted
<1>3. /\ values \in SUBSET Nat /\ values # {}
      /\ values \in SUBSET (0 .. NumAddrs) /\ NumAddrs \in Nat
  BY SizesAssumption DEF Addrs
<1>4. PICK hi \in Nat : hi = Max(values) /\ hi \in values /\ \A v \in values : v <= hi
  BY <1>3, MaxIsGreatest
<1>5. WalkInv(W[0], 0, list, values, access)
  <2>1. PICK lo \in Nat : lo = Min(values) /\ lo <= hi /\ \A v \in values : lo <= v
    BY <1>3, <1>4, MinIsLeast
  <2>2. W[0].covered = lo - 1 /\ W[0].fault = FALSE /\ W[0].done = FALSE
    BY <1>1, <2>1 DEF IsWalk, WalkStart
  <2>3. lo - 1 <= hi /\ \A v \in values : ~(v <= lo - 1)
    BY <1>3, <2>1
  <2>4. \A j \in DOMAIN list : ~(j <= 0)
    BY <1>2
  <2> QED BY <1>4, <2>2, <2>3, <2>4 DEF WalkInv
<1>6. ASSUME NEW k \in 1 .. n, WalkInv(W[k - 1], k - 1, list, values, access)
      PROVE  WalkInv(W[k], k, list, values, access)
  <2>1. W[k - 1] \in Acc /\ W[k] = Visit(values, access, W[k - 1], list[k])
    <3>1. k - 1 \in 0 .. n
      OBVIOUS
    <3> QED BY <1>1, <1>2, <3>1 DEF IsWalk
  <2> QED BY <1>2, <1>6, <2>1, WalkStep
<1>7. WalkInv(W[n], n, list, values, access)
  <2> DEFINE Bad == {k \in 0 .. n : ~WalkInv(W[k], k, list, values, access)}
  <2>1. SUFFICES ASSUME Bad # {} PROVE FALSE
    OBVIOUS
  <2>2. Min(Bad) \in Bad /\ \A x \in Bad : Min(Bad) <= x
    <3>1. Bad \in SUBSET Nat
      OBVIOUS
    <3> QED BY <2>1, <3>1, MinIsLeast
  <2>3. PICK k \in Bad : \A x \in Bad : k <= x
    BY <2>2
  <2>4. k # 0
    BY <1>5, <2>3
  <2>5. k - 1 \in 0 .. n /\ k \in 1 .. n /\ k - 1 \notin Bad
    BY <2>3, <2>4
  <2> QED BY <1>6, <2>3, <2>5
<1>8. Faults(list, values, access) <=> W[n].fault \/ W[n].covered < hi
  BY <1>1, <1>2, <1>4 DEF IsWalk
<1>9. PICK c \in Int : c = W[n].covered
  BY <1>1, <1>2 DEF IsWalk, Acc
<1>10. CASE W[n].fault
  BY <1>7, <1>8, <1>10 DEF WalkInv
<1>11. CASE ~W[n].fault /\ c < hi
  <2>1. ASSUME NEW j \in DOMAIN list PROVE ~HasAddr(list[j], hi)
    <3>1. list[j].addr <= hi => End(list[j]) <= c
      BY <1>2, <1>4, <1>7, <1>9, <1>11, <2>1 DEF WalkInv
    <3>2. End(list[j]) \in Nat
      <4>1. list[j] \in MappedRegion
        BY DEF Sorted
      <4>2. list[j].addr \in Nat /\ list[j].length \in Nat
            /\ End(list[j]) = list[j].addr + list[j].length
        BY <4>1, RegionNumbers
      <4> QED BY <4>2
    <3>3. list[j].addr <= hi => ~(hi <= End(list[j]))
      BY <1>11, <3>1, <3>2
    <3> QED BY <3>3 DEF HasAddr
  <2>2. access \notin PermissionsAt(list, hi)
    BY <2>1, FirstAnswers
  <2> QED BY <1>4, <1>8, <1>9, <1>11, <2>2
<1>12. CASE ~W[n].fault /\ ~(c < hi)
  <2>1. \A v \in values : v <= c
    BY <1>3, <1>4, <1>12
  <2> QED BY <1>7, <1>8, <1>9, <1>12, <2>1 DEF WalkInv
<1> QED BY <1>9, <1>10, <1>11, <1>12

\* So does the check of the memory's own list.
LEMMA ListPointwise == TypeOK => CheckIsPointwise
BY FaultsPointwise, TypeIsSorted DEF CheckIsPointwise

\* The walk of the segfault check agrees with permissions() at each value of the
\* address, however regions nest, touch or leave gaps
\* (range_fully_symbolic_memory.py 1218-1288).
THEOREM CheckExact == Spec => []CheckIsPointwise
BY Typed, ListPointwise, PTL

-----------------------------------------------------------------------------
(* Clients that keep regions apart. *)

\* Between any two regions of a list a byte is free.
Spaced(list) == \A j, k \in DOMAIN list : j < k => End(list[j]) < list[k].addr

\* No byte that a region of the list has, or has at its end, is an integer.
Clean(list) == \A k \in DOMAIN list : list[k].addr .. End(list[k]) \cap integers = {}

\* Regions are spaced where clients keep them apart, and clean where clients
\* follow all the rules.
IInv ==
  /\ TypeOK
  /\ "apart" \in rules => Spaced(regions)
  /\ rules = Rules => Clean(regions)

\* A region added where it has a byte free on either side leaves the list
\* spaced.
LEMMA InsertSpaced ==
  ASSUME NEW list, Sorted(list), Spaced(list),
         NEW s \in Spans, NEW p \in Permissions, Free(list, s[1], s[2])
  PROVE  Spaced(Insert(list, Region(s[1], s[2], p)))
<1> DEFINE r == Region(s[1], s[2], p)
           new == Insert(list, r)
<1>1. r \in MappedRegion /\ r.addr = s[1] /\ End(r) = s[1] + s[2]
  BY SpanIsRegion DEF Region, End
<1>2. \A k \in DOMAIN list : End(r) < list[k].addr \/ End(list[k]) < r.addr
  BY <1>1 DEF Free, Range
<1> HIDE DEF r
<1>3. Sorted(new) /\ Len(new) = Len(list) + 1
  BY <1>1, InsertFacts
<1>4. PICK i \in 1 .. Len(list) + 1 : \A j \in 1 .. Len(list) + 1 :
        new[j] = IF j < i THEN list[j] ELSE IF j = i THEN r ELSE list[j - 1]
  BY <1>1, InsertFacts
<1> HIDE DEF new
<1>5. /\ Len(list) \in Nat /\ DOMAIN list = 1 .. Len(list)
      /\ DOMAIN new = 1 .. Len(list) + 1
  BY <1>3 DEF Sorted
<1>6. \A x \in MappedRegion : x.addr \in Nat /\ End(x) \in Nat /\ x.addr < End(x)
  BY RegionNumbers
<1>7. \A k \in 1 .. Len(list) : list[k] \in MappedRegion
  BY <1>5 DEF Sorted
<1>8. \A k \in 1 .. Len(list) + 1 : new[k] \in MappedRegion
  BY <1>3, <1>5 DEF Sorted
<1>9. \A j, k \in 1 .. Len(list) : j < k => End(list[j]) < list[k].addr
  BY <1>5 DEF Spaced
<1>10. ASSUME NEW j \in 1 .. Len(list) + 1, NEW k \in 1 .. Len(list) + 1, j < k
       PROVE  End(new[j]) < new[k].addr
  <2>1. new[j].addr <= new[k].addr
    BY <1>3, <1>5, <1>10 DEF Sorted
  <2>2. CASE j # i /\ k # i
    <3>1. PICK x \in 1 .. Len(list), y \in 1 .. Len(list) :
            new[j] = list[x] /\ new[k] = list[y] /\ x < y
      <4> DEFINE At(n) == IF n < i THEN n ELSE n - 1
      <4>1. At(j) \in 1 .. Len(list) /\ At(k) \in 1 .. Len(list) /\ At(j) < At(k)
        BY <1>5, <1>10, <2>2
      <4>2. new[j] = list[At(j)] /\ new[k] = list[At(k)]
        BY <1>4, <1>10, <2>2
      <4> QED
        BY <4>1, <4>2
    <3> QED
      BY <1>9, <3>1
  <2>3. CASE j = i
    <3>1. k - 1 \in 1 .. Len(list) /\ new[k] = list[k - 1] /\ new[j] = r
      BY <1>4, <1>5, <1>10, <2>3
    <3>2. End(r) < new[k].addr \/ End(new[k]) < r.addr
      BY <1>2, <1>5, <3>1
    <3> QED
      BY <1>6, <1>8, <2>1, <3>1, <3>2
  <2>4. CASE k = i
    <3>1. j \in 1 .. Len(list) /\ new[j] = list[j] /\ new[k] = r
      BY <1>4, <1>5, <1>10, <2>4
    <3>2. End(r) < new[j].addr \/ End(new[j]) < r.addr
      BY <1>2, <1>5, <3>1
    <3> QED
      BY <1>6, <1>8, <2>1, <3>1, <3>2
  <2> QED
    BY <2>2, <2>3, <2>4
<1> QED
  BY <1>5, <1>10 DEF Spaced, new, r

\* A region taken out leaves the list spaced, with what it had before.
LEMMA WithoutSpaced ==
  ASSUME NEW list, Sorted(list), NEW a
  PROVE  /\ Spaced(list) => Spaced(Without(list, a))
         /\ \A k \in DOMAIN Without(list, a) :
              \E j \in DOMAIN list : Without(list, a)[k] = list[j]
<1> DEFINE new == Without(list, a)
<1>1. Len(list) \in Nat /\ DOMAIN list = 1 .. Len(list)
  BY DEF Sorted
<1>2. CASE new = list
  BY <1>2
<1>3. ASSUME NEW i \in DOMAIN list, Len(new) = Len(list) - 1,
             \A j \in 1 .. Len(list) - 1 : new[j] = IF j < i THEN list[j] ELSE list[j + 1]
      PROVE  /\ Spaced(list) => Spaced(new)
             /\ \A k \in DOMAIN new : \E j \in DOMAIN list : new[k] = list[j]
  <2> DEFINE At(n) == IF n < i THEN n ELSE n + 1
  <2>1. DOMAIN new = 1 .. Len(list) - 1
    BY <1>1, <1>3, WithoutFacts DEF Sorted
  <2>2. \A k \in DOMAIN new : At(k) \in DOMAIN list /\ new[k] = list[At(k)]
    BY <1>1, <1>3, <2>1
  <2>3. \A j, k \in DOMAIN new : j < k => At(j) < At(k)
    BY <1>1, <2>1
  <2> HIDE DEF At, new
  <2> QED
    BY <2>2, <2>3 DEF Spaced
<1> HIDE DEF new
<1> QED
  BY <1>2, <1>3, WithoutFacts DEF new

\* What Insert() leaves in the list was there, or is the new region.
LEMMA InsertMembers ==
  ASSUME NEW list, Sorted(list), NEW r \in MappedRegion
  PROVE  \A k \in DOMAIN Insert(list, r) :
           Insert(list, r)[k] = r \/ \E j \in DOMAIN list : Insert(list, r)[k] = list[j]
<1> DEFINE new == Insert(list, r)
<1>1. Sorted(new) /\ Len(new) = Len(list) + 1
  BY InsertFacts
<1>2. PICK i \in 1 .. Len(list) + 1 : \A j \in 1 .. Len(list) + 1 :
        new[j] = IF j < i THEN list[j] ELSE IF j = i THEN r ELSE list[j - 1]
  BY InsertFacts
<1> HIDE DEF new
<1>3. /\ Len(list) \in Nat /\ DOMAIN list = 1 .. Len(list)
      /\ DOMAIN new = 1 .. Len(list) + 1
  BY <1>1 DEF Sorted
<1>4. ASSUME NEW k \in DOMAIN new
      PROVE  new[k] = r \/ \E j \in DOMAIN list : new[k] = list[j]
  <2>1. CASE k < i
    BY <1>2, <1>3, <2>1
  <2>2. CASE k > i
    <3>1. k - 1 \in DOMAIN list /\ new[k] = list[k - 1]
      BY <1>2, <1>3, <2>2
    <3> QED
      BY <3>1
  <2> QED
    BY <1>2, <1>3, <2>1, <2>2
<1> QED
  BY <1>4 DEF new

-----------------------------------------------------------------------------
(* The steps of a client. *)

\* A region that is mapped where its client may map it leaves the list spaced,
\* and clean.
LEMMA InsertStep ==
  ASSUME NEW list, Sorted(list), NEW s \in Spans, NEW p \in Permissions,
         MayMap(list, s[1], s[2])
  PROVE  LET new == Insert(list, Region(s[1], s[2], p))
         IN  /\ "apart" \in rules /\ Spaced(list) => Spaced(new)
             /\ rules = Rules /\ Clean(list) => Clean(new)
<1> DEFINE r == Region(s[1], s[2], p)
           new == Insert(list, r)
<1>1. "apart" \in rules /\ Spaced(list) => Spaced(new)
  BY InsertSpaced DEF MayMap
<1>2. ASSUME rules = Rules, Clean(list)
      PROVE  Clean(new)
  <2>1. Bytes(s[1] - 1, s[2] + 2) \cap integers = {}
    BY <1>2 DEF MayMap, Rules
  <2>2. r \in MappedRegion /\ r.addr = s[1] /\ End(r) = s[1] + s[2]
    BY SpanIsRegion DEF Region, End
  <2>3. s[1] \in Nat /\ s[2] \in Nat
    BY SpanIsRegion, SizesAssumption DEF Addrs
  <2>4. s[1] .. s[1] + s[2] \subseteq Bytes(s[1] - 1, s[2] + 2)
    BY <2>3 DEF Bytes
  <2>5. r.addr .. End(r) \cap integers = {}
    BY <2>1, <2>2, <2>4
  <2> HIDE DEF r
  <2>6. \A k \in DOMAIN new : new[k] = r \/ \E j \in DOMAIN list : new[k] = list[j]
    BY <2>2, InsertMembers
  <2> HIDE DEF new
  <2> QED
    BY <1>2, <2>5, <2>6 DEF Clean
<1> QED
  BY <1>1, <1>2

\* A region taken out leaves the list clean.
LEMMA WithoutClean ==
  ASSUME NEW list, Sorted(list), NEW a, Clean(list)
  PROVE  Clean(Without(list, a))
BY WithoutSpaced DEF Clean

\* Where regions are spaced, unmapping a whole one leaves the others clean: the
\* bytes that become integers are those of the region that goes.
LEMMA UnmapClean ==
  ASSUME TypeOK, Spaced(regions), Clean(regions),
         NEW i \in DOMAIN regions,
         NEW a, a = regions[i].addr, NEW n, n = regions[i].length,
         integers' = integers \cup Bytes(a, n),
         regions' = Without(regions, a)
  PROVE  Clean(regions)'
<1>1. Sorted(regions) /\ Len(regions) \in Nat /\ DOMAIN regions = 1 .. Len(regions)
  BY TypeIsSorted DEF Sorted
<1>2. \A k \in 1 .. Len(regions) : /\ regions[k].addr \in Nat
                                   /\ regions[k].length \in Nat \ {0}
                                   /\ End(regions[k]) = regions[k].addr + regions[k].length
  BY <1>1, RegionNumbers DEF Sorted
<1>3. ASSUME NEW j \in DOMAIN regions, j # i
      PROVE  regions[j].addr .. End(regions[j]) \cap integers' = {} /\ regions[j].addr # a
  <2>1. End(regions[j]) < a \/ a + n < regions[j].addr
    BY <1>1, <1>2, <1>3 DEF Spaced
  <2>2. regions[j].addr .. End(regions[j]) \cap Bytes(a, n) = {}
    BY <1>1, <1>2, <1>3, <2>1 DEF Bytes
  <2>3. regions[j].addr .. End(regions[j]) \cap integers = {}
    BY <1>3 DEF Clean
  <2> QED
    BY <1>1, <1>2, <1>3, <2>1, <2>2, <2>3
<1>4. PICK o \in DOMAIN regions :
        /\ regions[o].addr = a
        /\ Len(regions') = Len(regions) - 1
        /\ \A k \in 1 .. Len(regions) - 1 :
             regions'[k] = IF k < o THEN regions[k] ELSE regions[k + 1]
  BY <1>1, WithoutFacts
<1>5. o = i
  BY <1>3, <1>4
<1>6. DOMAIN regions' = 1 .. Len(regions) - 1
  <2>1. Sorted(regions')
    BY <1>1, WithoutFacts
  <2> QED
    BY <1>4, <2>1 DEF Sorted
<1>7. \A k \in DOMAIN regions' : \E j \in DOMAIN regions : j # i /\ regions'[k] = regions[j]
  <2> DEFINE At(k) == IF k < i THEN k ELSE k + 1
  <2>1. ASSUME NEW k \in DOMAIN regions'
        PROVE  At(k) \in DOMAIN regions /\ At(k) # i /\ regions'[k] = regions[At(k)]
    <3>1. k \in 1 .. Len(regions) - 1
      BY <1>6
    <3>2. regions'[k] = regions[At(k)]
      BY <1>4, <1>5, <3>1
    <3>3. At(k) \in DOMAIN regions /\ At(k) # i
      BY <1>1, <3>1
    <3> QED
      BY <3>2, <3>3
  <2> HIDE DEF At
  <2> QED
    BY <2>1
<1> QED
  BY <1>3, <1>7 DEF Clean

\* Where regions are spaced, the one that is unmapped from end to end is the
\* only one that starts there: the assertion holds.
LEMMA UnmapsWhole ==
  ASSUME Sorted(regions), Spaced(regions),
         NEW i \in DOMAIN regions,
         NEW a, a = regions[i].addr, NEW n, n = regions[i].length,
         UnmapRegion(a, n)
  PROVE  regions' = Without(regions, a)
<1> DEFINE at == {k \in DOMAIN regions : regions[k].addr = a}
<1>1. DOMAIN regions = 1 .. Len(regions) /\ Len(regions) \in Nat
  BY DEF Sorted
<1>2. \A k \in DOMAIN regions : /\ regions[k].addr \in Nat
                                /\ regions[k].length \in Nat \ {0}
                                /\ End(regions[k]) = regions[k].addr + regions[k].length
  BY <1>1, RegionNumbers DEF Sorted
<1>3. ASSUME NEW j \in DOMAIN regions, j # i
      PROVE  regions[j].addr # a
  <2>1. End(regions[j]) < a \/ End(regions[i]) < regions[j].addr
    BY <1>1, <1>2, <1>3 DEF Spaced
  <2> QED
    BY <1>2, <1>3, <2>1
<1>4. at = {i}
  BY <1>3
<1>5. Min(at) = i
  BY <1>1, <1>4, MinIsLeast
<1> QED
  BY <1>4, <1>5 DEF UnmapRegion

\* A step keeps the regions spaced and clean.
LEMMA IInvStep == IInv /\ [Next]_vars => IInv'
<1> SUFFICES ASSUME IInv, [Next]_vars
             PROVE  IInv'
  OBVIOUS
<1>1. TypeOK /\ Sorted(regions) /\ TypeOK'
  BY TypeStep, TypeIsSorted DEF IInv
<1>2. ASSUME NEW s \in Spans, NEW p \in Permissions, Map(s[1], s[2], p)
      PROVE  IInv'
  <2>1. /\ regions' = Insert(regions, Region(s[1], s[2], p))
        /\ MayMap(regions, s[1], s[2])
        /\ rules' = rules /\ integers' = integers
    BY <1>2 DEF Map, MapRegion
  <2>2. /\ "apart" \in rules /\ Spaced(regions) => Spaced(regions')
        /\ rules = Rules /\ Clean(regions) => Clean(Insert(regions, Region(s[1], s[2], p)))
    BY <1>1, <2>1, InsertStep
  <2>3. Clean(regions)' <=> Clean(Insert(regions, Region(s[1], s[2], p)))
    BY <2>1 DEF Clean
  <2>4. Spaced(regions)' <=> Spaced(regions')
    BY DEF Spaced
  <2> QED
    BY <1>1, <2>1, <2>2, <2>3, <2>4 DEF IInv
<1>3. ASSUME NEW s \in Spans, Unmap(s[1], s[2])
      PROVE  IInv'
  <2>1. /\ regions' \in {regions, Without(regions, s[1])}
        /\ MayUnmap(s[1], s[2])
        /\ rules' = rules /\ integers' = integers \cup Bytes(s[1], s[2])
    BY <1>3 DEF Unmap, UnmapRegion
  <2>2. ASSUME "apart" \in rules
        PROVE  Spaced(regions)'
    <3>1. Spaced(regions)
      BY <2>2 DEF IInv
    <3>2. CASE regions' = regions
      BY <3>1, <3>2 DEF Spaced
    <3>3. CASE regions' = Without(regions, s[1])
      BY <1>1, <3>1, <3>3, WithoutSpaced DEF Spaced
    <3> QED
      BY <2>1, <3>2, <3>3
  <2>3. ASSUME rules = Rules
        PROVE  Clean(regions)'
    <3>1. PICK i \in DOMAIN regions : regions[i].addr = s[1] /\ regions[i].length = s[2]
      BY <2>1, <2>3 DEF MayUnmap, Rules, Range
    <3>2. Spaced(regions) /\ Clean(regions)
      BY <2>3 DEF IInv, Rules
    <3>3. regions' = Without(regions, s[1])
      BY <1>1, <1>3, <3>1, <3>2, UnmapsWhole DEF Unmap
    <3> QED
      BY <1>1, <2>1, <3>1, <3>2, <3>3, UnmapClean
  <2> QED
    BY <1>1, <2>1, <2>2, <2>3 DEF IInv
<1>4. ASSUME NEW s \in Spans, Stack(s[1], s[2])
      PROVE  IInv'
  <2> DEFINE new == Insert(Unstacked, Region(s[1], s[2], {"r", "w"}))
  <2>1. /\ regions' = new
        /\ MayMap(Unstacked, s[1], s[2])
        /\ rules' = rules /\ integers' = integers
    BY <1>4 DEF Stack, SetStack
  <2>2. Sorted(Unstacked)
    BY <1>1, UnstackedFacts
  <2>3. /\ Spaced(regions) => Spaced(Unstacked)
        /\ Clean(regions) => Clean(Unstacked)
    BY <1>1, WithoutSpaced, WithoutClean DEF Unstacked
  <2>4. /\ "apart" \in rules /\ Spaced(Unstacked) => Spaced(new)
        /\ rules = Rules /\ Clean(Unstacked) => Clean(new)
    BY <2>1, <2>2, InsertStep, PermissionsAssumption
  <2>5. (Clean(regions)' <=> Clean(new)) /\ (Spaced(regions)' <=> Spaced(new))
    BY <2>1 DEF Clean, Spaced
  <2> HIDE DEF new
  <2> QED
    BY <1>1, <2>1, <2>3, <2>4, <2>5 DEF IInv
<1>5. ASSUME NEW values \in (SUBSET Addrs) \ {{}}, NEW n \in AccessSizes,
             NEW guarded \in BOOLEAN, Write(values, n, guarded)
      PROVE  IInv'
  <2>1. /\ regions' = regions /\ rules' = rules
        /\ integers' \subseteq integers
    BY <1>5 DEF Write
  <2>2. (Spaced(regions)' <=> Spaced(regions)) /\ (Clean(regions) => Clean(regions)')
    BY <2>1 DEF Spaced, Clean
  <2> QED
    BY <1>1, <2>1, <2>2 DEF IInv
<1>6. ASSUME UNCHANGED <<regions, rules, integers>>
      PROVE  IInv'
  BY <1>1, <1>6 DEF IInv, Spaced, Clean
<1>7. UNCHANGED vars => UNCHANGED <<regions, rules, integers>>
  BY DEF vars
<1>8. \A values \in (SUBSET Addrs) \ {{}}, n \in AccessSizes :
        Read(values, n) => UNCHANGED <<regions, rules, integers>>
  BY DEF Read
<1> QED
  BY <1>2, <1>3, <1>4, <1>5, <1>6, <1>7, <1>8 DEF Next

LEMMA Invariant == Spec => []IInv
<1>1. Init => IInv
  BY SizesAssumption DEF Init, NoMap, IInv, TypeOK, Spaced, Clean
<1> QED
  BY <1>1, IInvStep, PTL DEF Spec

\* permissions() answers for the region of the address, and not for one that
\* ends there, where clients leave a byte free between regions
\* (range_fully_symbolic_memory.py 1204-1211).
THEOREM Permitted == Spec => []PermissionsOfRegion
<1>1. IInv => PermissionsOfRegion
  <2> SUFFICES ASSUME IInv, "apart" \in rules,
                      NEW r \in Range(regions), NEW a \in Bytes(r.addr, r.length)
               PROVE  PermissionsAt(regions, a) = r.perms
    BY DEF PermissionsOfRegion
  <2>1. Sorted(regions) /\ Spaced(regions)
    BY TypeIsSorted DEF IInv
  <2>2. Len(regions) \in Nat /\ DOMAIN regions = 1 .. Len(regions)
    BY <2>1 DEF Sorted
  <2>3. PICK i \in DOMAIN regions : r = regions[i]
    BY DEF Range
  <2>4. \A k \in 1 .. Len(regions) : /\ regions[k].addr \in Nat
                                     /\ regions[k].length \in Nat \ {0}
                                     /\ End(regions[k]) = regions[k].addr + regions[k].length
    BY <2>1, <2>2, RegionNumbers DEF Sorted
  <2> DEFINE has == {k \in DOMAIN regions : regions[k].addr <= a /\ a <= End(regions[k])}
  <2>5. i \in has
    BY <2>2, <2>3, <2>4 DEF Bytes
  <2>6. has \subseteq {i}
    <3>1. a \in Int
      BY <2>2, <2>3, <2>4 DEF Bytes
    <3>2. ASSUME NEW k \in has
          PROVE  k = i
      <4>1. /\ k \in 1 .. Len(regions) /\ i \in 1 .. Len(regions)
            /\ regions[k].addr <= a /\ a <= End(regions[k])
            /\ regions[i].addr <= a /\ a <= End(regions[i])
        BY <2>2, <2>5
      <4>2. /\ k < i => End(regions[k]) < regions[i].addr
            /\ i < k => End(regions[i]) < regions[k].addr
        BY <2>1, <2>2, <4>1 DEF Spaced
      <4>3. /\ regions[k].addr \in Int /\ End(regions[k]) \in Int
            /\ regions[i].addr \in Int /\ End(regions[i]) \in Int
        BY <2>4, <4>1
      <4> HIDE DEF has
      <4> QED
        BY <3>1, <4>1, <4>2, <4>3
    <3> QED
      BY <3>2
  <2>7. has = {i}
    BY <2>5, <2>6
  <2>8. has \in SUBSET Nat /\ has # {}
    BY <2>2, <2>5
  <2>9. PermissionsAt(regions, a) = IF has = {} THEN {} ELSE regions[Min(has)].perms
    BY DEF PermissionsAt
  <2> HIDE DEF has
  <2>10. Min(has) = i
    BY <2>7, <2>8, MinIsLeast
  <2> QED
    BY <2>3, <2>8, <2>9, <2>10
<1> QED
  BY <1>1, Invariant, PTL

\* Loads stay off the integers that unmap_region() leaves for clients that
\* follow all the rules, however the map has changed: the check of the first
\* byte of an access is enough for all its bytes
\* (range_fully_symbolic_memory.py 529-541 and 1174-1177).
THEOREM Avoided == Spec => []NoIntegerMet
<1>1. Init => NoIntegerMet
  BY DEF Init, NoIntegerMet
<1>2. ASSUME IInv, NoIntegerMet, rules = Rules,
             NEW values \in (SUBSET Addrs) \ {{}}, NEW n \in AccessSizes, Read(values, n)
      PROVE  met' = FALSE
  <2>1. Sorted(regions) /\ Clean(regions) /\ met = FALSE
    BY <1>2, TypeIsSorted DEF IInv, NoIntegerMet, Read
  <2>2. /\ values = Min(values) .. Max(values)
        /\ \A v \in values, r \in Range(regions) :
             r.addr <= v /\ v <= End(r) => v + n - 1 <= End(r)
        /\ ~Faults(regions, values, "r")
    BY <1>2 DEF Read, MayAccess, Passes, Rules
  <2>3. n \in Nat \ {0}
    BY AccessAssumption
  <2>4. \A v \in values : "r" \in PermissionsAt(regions, v)
    BY <2>1, <2>2, FaultsPointwise
  <2>5. ASSUME NEW v \in values
        PROVE  \E r \in Range(regions) : r.addr <= v /\ v <= End(r)
    <3>1. {k \in DOMAIN regions : regions[k].addr <= v /\ v <= End(regions[k])} # {}
      BY <2>4 DEF PermissionsAt
    <3> QED
      BY <3>1 DEF Range
  <2>6. ASSUME NEW x \in Min(values) .. Max(values) + n - 1
        PROVE  x \notin integers
    <3>1. Min(values) \in values /\ Max(values) \in values
      <4>1. values \in SUBSET Nat /\ values # {}
        BY SizesAssumption DEF Addrs
      <4>2. NumAddrs - 1 \in Nat /\ values \in SUBSET (0 .. NumAddrs - 1)
        BY SizesAssumption DEF Addrs
      <4> QED
        BY <4>1, <4>2, MinIsLeast, MaxIsGreatest
    <3>2. \A v \in values : v \in Nat
      BY SizesAssumption DEF Addrs
    <3>3. PICK v \in values : v <= x /\ x <= v + n - 1
      <4>1. CASE x <= Max(values)
        <5>1. x \in values
          BY <2>2, <3>1, <3>2, <4>1
        <5> QED
          BY <2>3, <3>2, <5>1
      <4>2. CASE x > Max(values)
        BY <2>3, <3>1, <3>2, <4>2
      <4> QED
        BY <3>1, <3>2, <4>1, <4>2
    <3>4. PICK k \in DOMAIN regions : regions[k].addr <= v /\ v <= End(regions[k])
      BY <2>5 DEF Range
    <3>5. v + n - 1 <= End(regions[k])
      BY <2>2, <3>4 DEF Range
    <3>6. regions[k].addr \in Nat /\ End(regions[k]) \in Nat
      <4>1. regions[k] \in MappedRegion
        BY <2>1 DEF Sorted
      <4> QED
        BY <4>1, RegionNumbers
    <3>7. x \in regions[k].addr .. End(regions[k])
      BY <2>3, <3>2, <3>3, <3>4, <3>5, <3>6
    <3> QED
      BY <2>1, <3>7 DEF Clean
  <2>7. (Min(values) .. Max(values) + n - 1) \cap integers = {}
    BY <2>6
  <2> QED
    BY <1>2, <2>1, <2>7 DEF Read
<1>3. ASSUME IInv, NoIntegerMet, [Next]_vars
      PROVE  NoIntegerMet'
  <2> SUFFICES ASSUME rules' = Rules
               PROVE  ~met'
    BY DEF NoIntegerMet
  <2>1. rules = Rules
    BY <1>3 DEF Next, vars, Map, Unmap, Stack, Write, Read
  <2>2. ~met
    BY <1>3, <2>1 DEF NoIntegerMet
  <2>3. ASSUME met' # met
        PROVE  \E values \in (SUBSET Addrs) \ {{}}, n \in AccessSizes : Read(values, n)
    BY <1>3, <2>3 DEF Next, vars, Map, Unmap, Stack, Write
  <2> QED
    BY <1>2, <1>3, <2>1, <2>2, <2>3
<1> QED
  BY <1>1, <1>3, Invariant, PTL DEF Spec

=============================================================================
