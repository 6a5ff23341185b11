---------------------------- MODULE PiTreeProofs ----------------------------
(***************************************************************************)
(* Proofs about PiTree: the shape of its heap, what its searches return and *)
(* what its statistics count, for any client; and, for a client that writes *)
(* one tree at a time, that sharing is invisible.                           *)
(***************************************************************************)
EXTENDS PiTree, FiniteSetTheorems, TLAPS

-----------------------------------------------------------------------------
(* There is always a name for a new object. *)

LEMMA KeysFinite == IsFiniteSet(Keys)
<1> DEFINE f == [s \in Spans |-> PageKey(s)]
<1>1. f \in Surjection(Spans, Keys)
  BY DEF Keys, Surjection
<1> QED BY <1>1, FiniteAssumption, FS_Surjection

LEMMA NamesTyped ==
  /\ Cardinality(Handles) \in Nat /\ Cardinality(Keys) \in Nat
  /\ Cardinality(Handles) * Cardinality(Keys) \in Nat
  /\ Dirs \subseteq Nat \ {0} /\ Names \subseteq Nat \ {0}
<1>1. Cardinality(Handles) \in Nat /\ Cardinality(Keys) \in Nat
  BY KeysFinite, FiniteAssumption, FS_CardinalityType
<1>2. Cardinality(Handles) * Cardinality(Keys) \in Nat
  BY <1>1
<1> QED BY <1>1, <1>2 DEF Dirs, Names

\* Whatever the live trees use at their keys, one key of one tree not counted,
\* a name is left.
LEMMA FreeName ==
  ASSUME live \subseteq Handles, NEW x \in live \X Keys, NEW f
  PROVE  \E n \in Names : \A y \in (live \X Keys) \ {x} : f[y] # n
<1> DEFINE P == live \X Keys
           S == P \ {x}
           g == [y \in S |-> f[y]]
           T == {f[y] : y \in S}
<1>1. /\ IsFiniteSet(Handles \X Keys)
      /\ Cardinality(Handles \X Keys) = Cardinality(Handles) * Cardinality(Keys)
  BY KeysFinite, FiniteAssumption, FS_Product
<1>2. P \in SUBSET (Handles \X Keys)
  OBVIOUS
<1>3. IsFiniteSet(P) /\ Cardinality(P) <= Cardinality(Handles \X Keys)
  BY <1>1, <1>2, FS_Subset
<1>4. IsFiniteSet(S) /\ Cardinality(S) = Cardinality(P) - 1
  BY <1>3, FS_RemoveElement
<1>5. g \in Surjection(S, T)
  BY DEF Surjection
<1>6. IsFiniteSet(T) /\ Cardinality(T) <= Cardinality(S)
  <2> HIDE DEF S, T, g
  <2> QED BY <1>4, <1>5, FS_Surjection
<1>7. Cardinality(T) < Cardinality(Names)
  <2>1. Cardinality(Names) = Cardinality(Handles) * Cardinality(Keys)
    BY NamesTyped, FS_Interval DEF Names
  <2>2. Cardinality(T) \in Nat /\ Cardinality(P) \in Nat /\ Cardinality(S) \in Nat
    BY <1>3, <1>4, <1>6, FS_CardinalityType
  <2> HIDE DEF P, S, T
  <2> QED BY <1>1, <1>3, <1>4, <1>6, <2>1, <2>2, NamesTyped
<1>8. ~(Names \subseteq T)
  <2> HIDE DEF P, S, T, g
  <2> SUFFICES ASSUME Names \subseteq T PROVE FALSE
    OBVIOUS
  <2>1. IsFiniteSet(Names)
    BY NamesTyped, FS_Interval DEF Names
  <2>2. Cardinality(Names) <= Cardinality(T)
    BY <1>6, FS_Subset
  <2>3. Cardinality(T) \in Nat /\ Cardinality(Names) \in Nat
    BY <2>1, <1>6, FS_CardinalityType
  <2> QED BY <1>7, <2>2, <2>3
<1> QED BY <1>8

\* A directory that two live trees share leaves another one for a third use.
LEMMA FreeDirName ==
  ASSUME live \subseteq Handles, NEW x \in live, NEW f
  PROVE  \E n \in Dirs : \A y \in live \ {x} : f[y] # n
<1> DEFINE S == live \ {x}
           g == [y \in S |-> f[y]]
           T == {f[y] : y \in S}
<1>1. IsFiniteSet(live) /\ Cardinality(live) <= Cardinality(Handles)
  BY FiniteAssumption, FS_Subset
<1>2. IsFiniteSet(S) /\ Cardinality(S) = Cardinality(live) - 1
  BY <1>1, FS_RemoveElement
<1>3. g \in Surjection(S, T)
  BY DEF Surjection
<1>4. IsFiniteSet(T) /\ Cardinality(T) <= Cardinality(S)
  <2> HIDE DEF S, T, g
  <2> QED BY <1>2, <1>3, FS_Surjection
<1>5. IsFiniteSet(Dirs) /\ Cardinality(Dirs) = Cardinality(Handles)
  BY NamesTyped, FS_Interval DEF Dirs
<1>6. ~(Dirs \subseteq T)
  <2> SUFFICES ASSUME Dirs \subseteq T PROVE FALSE
    OBVIOUS
  <2>1. Cardinality(Dirs) <= Cardinality(T)
    BY <1>4, FS_Subset
  <2>2. /\ Cardinality(T) \in Nat /\ Cardinality(S) \in Nat
        /\ Cardinality(live) \in Nat
    BY <1>1, <1>2, <1>4, FS_CardinalityType
  <2> HIDE DEF S, T
  <2> QED BY <1>1, <1>2, <1>4, <1>5, <2>1, <2>2, NamesTyped
<1> QED BY <1>6

-----------------------------------------------------------------------------
(* What an operation needs of a heap, and how it leaves one. *)

Good(m) == m \in Heaps /\ DirsPrivate(m) /\ TreesPrivate(m) /\ LookupsKeyed(m)

LEMMA PageTyped ==
  ASSUME NEW m \in Heaps, NEW h \in Handles, NEW k \in Keys
  PROVE  /\ m.handle[h].dir \in Dirs
         /\ PageOf(m, h, k) \in Pages \cup {NoPage}
         /\ PageOf(m, h, k) # NoPage => PageOf(m, h, k) \in Pages
         /\ k \in Mapped(m, h) <=> PageOf(m, h, k) # NoPage
         /\ PageOf(m, h, k) = NoPage <=> PageOf(m, h, k).tree \notin Names
         /\ PageOf(m, h, k) = NoPage <=> PageOf(m, h, k).lookup \notin Names
         /\ Contents(m, h, k) \in [Data -> Data \cup {None}]
<1>1. m.handle[h].dir \in Dirs /\ PageOf(m, h, k) \in Pages \cup {NoPage}
  BY DEF Heaps, PageOf
<1>2. None \notin Names /\ NoPage.tree = None /\ NoPage.lookup = None
  BY NamesTyped DEF NoPage, None
<1>3. \A p \in Pages : p.tree \in Names /\ p.lookup \in Names
  BY DEF Pages
<1>4. m.tree \in [Names -> [Data -> Data \cup {None}]]
  BY DEF Heaps
<1>5. Contents(m, h, k) \in [Data -> Data \cup {None}]
  BY <1>1, <1>3, <1>4 DEF Contents, Vacant
<1> QED BY <1>1, <1>2, <1>3, <1>5 DEF Mapped

LEMMA UnusedFree ==
  ASSUME NEW S, NEW used, \E n \in S : n \notin used
  PROVE  Unused(S, used) \in S \ used
BY DEF Unused

LEMMA InUse ==
  ASSUME NEW m
  PROVE  \A p : p \in PagesInUse(m) <=>
                  p # NoPage /\ \E g \in live, l \in Keys : p = PageOf(m, g, l)
BY DEF PagesInUse

\* The page of one key is missing, or its tree is in use elsewhere: there is a
\* name for a new tree.
LEMMA FreeTreeFree ==
  ASSUME live \subseteq Handles, NEW m \in Heaps, NEW h \in live, NEW k \in Keys,
         \/ PageOf(m, h, k) = NoPage
         \/ \E g \in live, l \in Keys :
              <<g, l>> # <<h, k>> /\ PageOf(m, g, l).tree = PageOf(m, h, k).tree
  PROVE  /\ FreeTree(m) \in Names
         /\ \A g \in live, l \in Keys : PageOf(m, g, l).tree # FreeTree(m)
<1> DEFINE f == [y \in live \X Keys |-> PageOf(m, y[1], y[2]).tree]
           used == {p.tree : p \in PagesInUse(m)}
<1>1. <<h, k>> \in live \X Keys
  OBVIOUS
<1>2. PICK n \in Names : \A y \in (live \X Keys) \ {<<h, k>>} : f[y] # n
  <2> HIDE DEF f
  <2> QED BY <1>1, FreeName
<1>3. \A g \in live, l \in Keys : <<g, l>> # <<h, k>> => PageOf(m, g, l).tree # n
  <2> SUFFICES ASSUME NEW g \in live, NEW l \in Keys, <<g, l>> # <<h, k>>
               PROVE  PageOf(m, g, l).tree # n
    OBVIOUS
  <2>1. <<g, l>> \in (live \X Keys) \ {<<h, k>>}
    OBVIOUS
  <2>2. f[<<g, l>>] = PageOf(m, g, l).tree
    OBVIOUS
  <2> HIDE DEF f
  <2> QED BY <1>2, <2>1, <2>2
<1>4. PageOf(m, h, k).tree # n
  <2>1. CASE PageOf(m, h, k) = NoPage
    BY <2>1, PageTyped
  <2>2. CASE PageOf(m, h, k) # NoPage
    BY <2>2, <1>3
  <2> QED BY <2>1, <2>2
<1>5. \A g \in live, l \in Keys : PageOf(m, g, l).tree # n
  BY <1>3, <1>4
<1>6. n \notin used
  BY <1>5, InUse
<1>7. \A g \in live, l \in Keys :
        PageOf(m, g, l) # NoPage => PageOf(m, g, l).tree \in used
  BY InUse
<1>8. FreeTree(m) = Unused(Names, used)
  BY DEF FreeTree
<1> HIDE DEF used
<1>9. FreeTree(m) \in Names /\ FreeTree(m) \notin used
  BY <1>6, <1>8, UnusedFree
<1> QED BY <1>7, <1>9, PageTyped

\* The same for a new lookup dict.
LEMMA FreeLookupFree ==
  ASSUME live \subseteq Handles, NEW m \in Heaps, NEW h \in live, NEW k \in Keys,
         PageOf(m, h, k) = NoPage
  PROVE  /\ FreeLookup(m) \in Names
         /\ \A g \in live, l \in Keys : PageOf(m, g, l).lookup # FreeLookup(m)
<1> DEFINE f == [y \in live \X Keys |-> PageOf(m, y[1], y[2]).lookup]
           used == {p.lookup : p \in PagesInUse(m)}
<1>1. <<h, k>> \in live \X Keys
  OBVIOUS
<1>2. PICK n \in Names : \A y \in (live \X Keys) \ {<<h, k>>} : f[y] # n
  <2> HIDE DEF f
  <2> QED BY <1>1, FreeName
<1>3. \A g \in live, l \in Keys : PageOf(m, g, l).lookup # n
  <2> SUFFICES ASSUME NEW g \in live, NEW l \in Keys
               PROVE  PageOf(m, g, l).lookup # n
    OBVIOUS
  <2>1. CASE <<g, l>> # <<h, k>>
    <3>1. <<g, l>> \in (live \X Keys) \ {<<h, k>>}
      BY <2>1
    <3>2. f[<<g, l>>] = PageOf(m, g, l).lookup
      OBVIOUS
    <3> HIDE DEF f
    <3> QED BY <1>2, <3>1, <3>2
  <2>2. CASE <<g, l>> = <<h, k>>
    BY <2>2, PageTyped
  <2> QED BY <2>1, <2>2
<1>4. n \notin used
  BY <1>3, InUse
<1>5. \A g \in live, l \in Keys :
        PageOf(m, g, l) # NoPage => PageOf(m, g, l).lookup \in used
  BY InUse
<1>6. FreeLookup(m) = Unused(Names, used)
  BY DEF FreeLookup
<1> HIDE DEF used
<1>7. FreeLookup(m) \in Names /\ FreeLookup(m) \notin used
  BY <1>4, <1>6, UnusedFree
<1> QED BY <1>5, <1>7, PageTyped

\* A directory that two trees share leaves a name for a new one.
LEMMA FreeDirFree ==
  ASSUME live \subseteq Handles, NEW m \in Heaps, NEW h \in live,
         NEW g \in live \ {h}, m.handle[g].dir = m.handle[h].dir
  PROVE  /\ FreeDir(m) \in Dirs
         /\ \A x \in live : m.handle[x].dir # FreeDir(m)
<1> DEFINE f == [x \in live |-> m.handle[x].dir]
           used == {m.handle[x].dir : x \in live}
<1>1. PICK n \in Dirs : \A x \in live \ {h} : f[x] # n
  <2> HIDE DEF f
  <2> QED BY FreeDirName
<1>2. \A x \in live : m.handle[x].dir # n
  BY <1>1
<1>3. n \notin used
  BY <1>2
<1>4. FreeDir(m) = Unused(Dirs, used)
  BY DEF FreeDir
<1>5. \A x \in live : m.handle[x].dir \in used
  OBVIOUS
<1> HIDE DEF used
<1>6. FreeDir(m) \in Dirs /\ FreeDir(m) \notin used
  BY <1>3, <1>4, UnusedFree
<1> QED BY <1>5, <1>6

-----------------------------------------------------------------------------
(* The steps of an operation, one by one.  Of each: that it leaves the heap *)
(* good, and what it leaves of the contents and of the lookup dicts.        *)

\* The contents of every page of every tree.
SameContents(m, o) ==
  \A g \in live, l \in Keys : Contents(o, g, l) = Contents(m, g, l)

LEMMA LazyCopyTyped ==
  ASSUME NEW p \in Pages \cup {NoPage}
  PROVE  /\ LazyCopy(p) \in Pages \cup {NoPage}
         /\ LazyCopy(p) = NoPage <=> p = NoPage
         /\ LazyCopy(p).tree = p.tree /\ LazyCopy(p).lookup = p.lookup
         /\ p # NoPage => LazyCopy(p).lazy
<1>1. \A q \in Pages : q # NoPage
  BY NamesTyped DEF Pages, NoPage, None
<1>2. CASE p \in Pages
  <2>1. LazyCopy(p) = [p EXCEPT !.lazy = TRUE]
    BY <1>1, <1>2 DEF LazyCopy
  <2>2. /\ LazyCopy(p) \in Pages
        /\ LazyCopy(p).tree = p.tree /\ LazyCopy(p).lookup = p.lookup
        /\ LazyCopy(p).lazy
    BY <1>2, <2>1 DEF Pages
  <2> QED BY <1>1, <1>2, <2>2
<1> QED BY <1>2 DEF LazyCopy

\* The parts of the heap after pitree._copy_on_write() has copied.
LEMMA TreeCopyParts ==
  ASSUME live \subseteq Handles, NEW h \in live, NEW m, Good(m), m.handle[h].lazy,
         NEW o, o = TreeCopyOnWrite(m, h), NEW d, d = m.handle[h].dir
  PROVE  \E n \in Dirs :
           /\ o \in Heaps
           /\ o.tree = m.tree /\ o.lookup = m.lookup
           /\ \A g \in live \ {h} : m.handle[g].dir # n
           /\ o.handle[h].dir = n /\ ~o.handle[h].lazy
           /\ o.handle[h].inter = m.handle[h].inter
           /\ o.handle[h].ones = m.handle[h].ones
           /\ \A g \in Handles \ {h} : o.handle[g] = m.handle[g]
           /\ \A k \in Keys, e \in {d, n} : o.dir[e][k] = LazyCopy(m.dir[d][k])
           /\ \A e \in Dirs \ {d, n} : o.dir[e] = m.dir[e]
<1> DEFINE shared == \E g \in live \ {h} : m.handle[g].dir = d
           n == IF shared THEN FreeDir(m) ELSE d
           copies == [k \in Keys |-> LazyCopy(m.dir[d][k])]
<1>1. m \in Heaps /\ h \in Handles
  BY DEF Good
<1>2. /\ m.handle \in [Handles -> [dir: Dirs, lazy: BOOLEAN, inter: Nat, ones: Nat]]
      /\ m.dir \in [Dirs -> [Keys -> Pages \cup {NoPage}]]
  BY <1>1 DEF Heaps
<1>3. d \in Dirs
  BY <1>1, <1>2
<1>4. n \in Dirs /\ \A g \in live \ {h} : m.handle[g].dir # n
  BY <1>1, <1>3, FreeDirFree
<1>5. copies \in [Keys -> Pages \cup {NoPage}]
  BY <1>2, <1>3, LazyCopyTyped
<1> HIDE DEF n, copies
<1>6. o = [m EXCEPT !.dir = [@ EXCEPT ![d] = copies, ![n] = copies],
                    !.handle[h].dir = n, !.handle[h].lazy = FALSE]
  BY DEF TreeCopyOnWrite, n, copies
<1>7. /\ o.dir = [m.dir EXCEPT ![d] = copies, ![n] = copies]
      /\ o.handle = [m.handle EXCEPT ![h].dir = n, ![h].lazy = FALSE]
      /\ o.tree = m.tree /\ o.lookup = m.lookup
  BY <1>1, <1>6 DEF Heaps
<1>8. /\ o.handle[h].dir = n /\ ~o.handle[h].lazy
      /\ o.handle[h].inter = m.handle[h].inter
      /\ o.handle[h].ones = m.handle[h].ones
      /\ \A g \in Handles \ {h} : o.handle[g] = m.handle[g]
  BY <1>1, <1>2, <1>7
<1>10. o.handle \in [Handles -> [dir: Dirs, lazy: BOOLEAN, inter: Nat, ones: Nat]]
  BY <1>1, <1>2, <1>4, <1>7
<1>11. o.dir \in [Dirs -> [Keys -> Pages \cup {NoPage}]]
  BY <1>2, <1>5, <1>7
<1>12. o \in Heaps
  BY <1>1, <1>6, <1>7, <1>10, <1>11 DEF Heaps
<1>13. /\ o.dir[d] = copies /\ o.dir[n] = copies
       /\ \A e \in Dirs \ {d, n} : o.dir[e] = m.dir[e]
  BY <1>2, <1>3, <1>4, <1>7
<1>14. \A k \in Keys, e \in {d, n} : o.dir[e][k] = LazyCopy(m.dir[d][k])
  BY <1>13 DEF copies
<1> QED BY <1>4, <1>7, <1>8, <1>12, <1>13, <1>14

\* What a step leaves as it is: contents and statistics, of every tree.
Keeps(m, o) ==
  /\ SameContents(m, o)
  /\ \A g \in Handles : /\ o.handle[g].inter = m.handle[g].inter
                        /\ o.handle[g].ones = m.handle[g].ones
  /\ \A g \in Handles \ live : o.handle[g] = m.handle[g]

LEMMA TreeCopyGood ==
  ASSUME live \subseteq Handles, NEW h \in live, NEW m, Good(m),
         NEW o, o = TreeCopyOnWrite(m, h)
  PROVE  /\ Good(o) /\ Keeps(m, o)
         /\ ~o.handle[h].lazy
         /\ (m.handle[h].lazy \/ LookupsOwn(m, h)) => LookupsOwn(o, h)
<1> DEFINE d == m.handle[h].dir
<1>1. CASE ~m.handle[h].lazy
  <2>1. o = m
    BY <1>1 DEF TreeCopyOnWrite
  <2> QED BY <1>1, <2>1 DEF Keeps, SameContents
<1>2. CASE m.handle[h].lazy
  <2>1. PICK n \in Dirs :
        /\ o \in Heaps
        /\ o.tree = m.tree /\ o.lookup = m.lookup
        /\ \A g \in live \ {h} : m.handle[g].dir # n
        /\ o.handle[h].dir = n /\ ~o.handle[h].lazy
        /\ o.handle[h].inter = m.handle[h].inter
        /\ o.handle[h].ones = m.handle[h].ones
        /\ \A g \in Handles \ {h} : o.handle[g] = m.handle[g]
        /\ \A k \in Keys, e \in {d, n} : o.dir[e][k] = LazyCopy(m.dir[d][k])
        /\ \A e \in Dirs \ {d, n} : o.dir[e] = m.dir[e]
    <3>1. d = m.handle[h].dir
      OBVIOUS
    <3> HIDE DEF d
    <3> QED BY <1>2, <3>1, TreeCopyParts
  <2>2. /\ m \in Heaps /\ h \in Handles
        /\ m.handle[h] \in [dir: Dirs, lazy: BOOLEAN, inter: Nat, ones: Nat]
    BY DEF Good, Heaps
  <2>4. \A k \in Keys : PageOf(o, h, k) = LazyCopy(PageOf(m, h, k))
    BY <2>1 DEF PageOf
  <2>5. \A g \in live \ {h}, k \in Keys :
          /\ m.handle[g].dir = d => PageOf(o, g, k) = LazyCopy(PageOf(m, g, k))
          /\ m.handle[g].dir # d => PageOf(o, g, k) = PageOf(m, g, k)
    <3>1. \A g \in live \ {h} : m.handle[g].dir \in Dirs \ {n}
      BY <2>1, <2>2, PageTyped DEF Heaps
    <3> QED BY <2>1, <3>1 DEF PageOf
  <2>6. \A g \in live, k \in Keys :
          \/ PageOf(o, g, k) = LazyCopy(PageOf(m, g, k))
          \/ PageOf(o, g, k) = PageOf(m, g, k) /\ g # h /\ m.handle[g].dir # d
    BY <2>4, <2>5
  <2>7. \A g \in live, k \in Keys :
          /\ PageOf(o, g, k) = NoPage <=> PageOf(m, g, k) = NoPage
          /\ PageOf(o, g, k).tree = PageOf(m, g, k).tree
          /\ PageOf(o, g, k).lookup = PageOf(m, g, k).lookup
          /\ PageOf(o, g, k) # NoPage /\ ~PageOf(o, g, k).lazy =>
               PageOf(o, g, k) = PageOf(m, g, k) /\ g # h /\ m.handle[g].dir # d
    BY <2>2, <2>6, PageTyped, LazyCopyTyped
  <2>8. \A g \in live : Mapped(o, g) = Mapped(m, g)
    BY <2>7 DEF Mapped
  <2>9. SameContents(m, o)
    BY <2>1, <2>7 DEF SameContents, Contents
  <2>10. DirsPrivate(o)
    <3> SUFFICES ASSUME NEW g \in live, NEW x \in live, ~o.handle[x].lazy,
                        o.handle[g].dir = o.handle[x].dir, g # x
                 PROVE  FALSE
      BY DEF DirsPrivate
    <3>1. \A y \in live \ {h} : o.handle[y].dir # n
      BY <2>1
    <3>2. g # h /\ x # h
      BY <2>1, <3>1
    <3>3. o.handle[g] = m.handle[g] /\ o.handle[x] = m.handle[x]
      BY <2>1, <3>2
    <3> QED BY <3>3 DEF DirsPrivate, Good
  <2>11. TreesPrivate(o)
    <3> SUFFICES ASSUME NEW g \in live, NEW x \in live, NEW l \in Keys, NEW k \in Mapped(o, x),
                        PageOf(o, g, l).tree = PageOf(o, x, k).tree
                 PROVE  /\ l = k
                        /\ ~PageOf(o, x, k).lazy => o.handle[g].dir = o.handle[x].dir
      BY DEF TreesPrivate
    <3>1. k \in Keys /\ k \in Mapped(m, x) /\ PageOf(o, x, k) # NoPage
      BY <2>8 DEF Mapped
    <3>2. PageOf(m, g, l).tree = PageOf(m, x, k).tree
      BY <2>7, <3>1
    <3>3. /\ l = k
          /\ ~PageOf(m, x, k).lazy => m.handle[g].dir = m.handle[x].dir
      BY <3>1, <3>2 DEF Good, TreesPrivate
    <3>4. ASSUME ~PageOf(o, x, k).lazy
          PROVE  o.handle[g].dir = o.handle[x].dir
      <4>1. PageOf(o, x, k) = PageOf(m, x, k) /\ x # h /\ m.handle[x].dir # d
        BY <2>7, <3>1, <3>4
      <4>2. m.handle[g].dir = m.handle[x].dir /\ g # h
        BY <3>3, <3>4, <4>1
      <4> QED BY <2>1, <4>1, <4>2
    <3> QED BY <3>3, <3>4
  <2>12. LookupsKeyed(o)
    <3> SUFFICES ASSUME NEW g \in live, NEW x \in live, NEW l \in Keys, NEW k \in Mapped(o, x),
                        PageOf(o, g, l).lookup = PageOf(o, x, k).lookup
                 PROVE  l = k
      BY DEF LookupsKeyed
    <3>1. k \in Keys /\ k \in Mapped(m, x)
      BY <2>8 DEF Mapped
    <3>2. PageOf(m, g, l).lookup = PageOf(m, x, k).lookup
      BY <2>7, <3>1
    <3> QED BY <3>1, <3>2 DEF Good, LookupsKeyed
  <2>13. LookupsOwn(o, h)
    BY <2>7 DEF LookupsOwn, Mapped
  <2>14. Keeps(m, o)
    BY <2>1, <2>9 DEF Keeps
  <2> QED BY <2>1, <2>10, <2>11, <2>12, <2>13, <2>14 DEF Good
<1> QED BY <1>1, <1>2

\* In o, tree h has the new page object p at key k, whose page tree no other
\* page uses and whose lookup dict is used under this key only.
IsPut(m, h, k, p, o) ==
  /\ p \in Pages /\ ~p.lazy
  /\ \A g \in live, l \in Keys :
       <<g, l>> # <<h, k>> => PageOf(m, g, l).tree # p.tree
  /\ \A g \in live, l \in Keys : PageOf(m, g, l).lookup = p.lookup => l = k
  /\ o \in Heaps /\ o.handle = m.handle
  /\ \A d \in Dirs, l \in Keys :
       o.dir[d][l] = IF d = m.handle[h].dir /\ l = k THEN p ELSE m.dir[d][l]

LEMMA PutPage ==
  ASSUME live \subseteq Handles, NEW h \in live, NEW k \in Keys,
         NEW m, Good(m), ~m.handle[h].lazy, NEW p, NEW o, IsPut(m, h, k, p, o)
  PROVE  /\ Good(o)
         /\ PageOf(o, h, k) = p /\ p # NoPage
         /\ \A g \in live, l \in Keys :
              <<g, l>> # <<h, k>> => PageOf(o, g, l) = PageOf(m, g, l)
<1> USE DEF IsPut
<1>1. m \in Heaps /\ m.dir \in [Dirs -> [Keys -> Pages \cup {NoPage}]]
  BY DEF Good, Heaps
<1>2. \A g \in live : m.handle[g].dir \in Dirs
  BY <1>1, PageTyped
<1>3. \A g \in live \ {h} : m.handle[g].dir # m.handle[h].dir
  BY DEF Good, DirsPrivate
<1>4. PageOf(o, h, k) = p
  BY <1>1, <1>2 DEF PageOf
<1>5. \A g \in live, l \in Keys :
        <<g, l>> # <<h, k>> => PageOf(o, g, l) = PageOf(m, g, l)
  BY <1>1, <1>2, <1>3 DEF PageOf
<1>6. p # NoPage /\ p.tree \in Names /\ p.lookup \in Names
  BY NamesTyped DEF Pages, NoPage, None
<1>7. DirsPrivate(o)
  BY DEF Good, DirsPrivate
<1>8. TreesPrivate(o)
  <2> SUFFICES ASSUME NEW g \in live, NEW x \in live, NEW l \in Keys, NEW j \in Mapped(o, x),
                      PageOf(o, g, l).tree = PageOf(o, x, j).tree
               PROVE  /\ l = j
                      /\ ~PageOf(o, x, j).lazy => o.handle[g].dir = o.handle[x].dir
    BY DEF TreesPrivate
  <2>1. j \in Keys /\ PageOf(o, x, j) # NoPage
    BY DEF Mapped
  <2>2. CASE <<g, l>> = <<h, k>> \/ <<x, j>> = <<h, k>>
    BY <1>4, <1>5, <2>1, <2>2
  <2>3. CASE <<g, l>> # <<h, k>> /\ <<x, j>> # <<h, k>>
    <3>1. PageOf(o, g, l) = PageOf(m, g, l) /\ PageOf(o, x, j) = PageOf(m, x, j)
      BY <1>5, <2>1, <2>3
    <3> QED BY <2>1, <3>1 DEF Good, TreesPrivate, Mapped
  <2> QED BY <2>2, <2>3
<1>9. LookupsKeyed(o)
  <2> SUFFICES ASSUME NEW g \in live, NEW x \in live, NEW l \in Keys, NEW j \in Mapped(o, x),
                      PageOf(o, g, l).lookup = PageOf(o, x, j).lookup
               PROVE  l = j
    BY DEF LookupsKeyed
  <2>1. j \in Keys /\ PageOf(o, x, j) # NoPage
    BY DEF Mapped
  <2>2. CASE <<g, l>> = <<h, k>> \/ <<x, j>> = <<h, k>>
    BY <1>4, <1>5, <2>1, <2>2
  <2>3. CASE <<g, l>> # <<h, k>> /\ <<x, j>> # <<h, k>>
    <3>1. PageOf(o, g, l) = PageOf(m, g, l) /\ PageOf(o, x, j) = PageOf(m, x, j)
      BY <1>5, <2>1, <2>3
    <3> QED BY <2>1, <3>1 DEF Good, LookupsKeyed, Mapped
  <2> QED BY <2>2, <2>3
<1> QED BY <1>4, <1>5, <1>6, <1>7, <1>8, <1>9 DEF Good

LEMMA EnsurePageGood ==
  ASSUME live \subseteq Handles, NEW h \in live, NEW k \in Keys,
         NEW m, Good(m), ~m.handle[h].lazy,
         NEW o, o = EnsurePage(m, h, k)
  PROVE  /\ Good(o) /\ Keeps(m, o)
         /\ o.handle = m.handle
         /\ PageOf(o, h, k) # NoPage
         /\ LookupsOwn(m, h) => LookupsOwn(o, h)
<1>1. CASE PageOf(m, h, k) # NoPage
  <2>1. o = m
    BY <1>1 DEF EnsurePage
  <2> QED BY <1>1, <2>1 DEF Keeps, SameContents
<1>2. CASE PageOf(m, h, k) = NoPage
  <2> DEFINE t == FreeTree(m)
             l == FreeLookup(m)
             p == [lazy |-> FALSE, tree |-> t, lookup |-> l]
  <2>1. m \in Heaps
    BY DEF Good
  <2>2. /\ t \in Names /\ \A g \in live, j \in Keys : PageOf(m, g, j).tree # t
        /\ l \in Names /\ \A g \in live, j \in Keys : PageOf(m, g, j).lookup # l
    BY <1>2, <2>1, FreeTreeFree, FreeLookupFree
  <2> HIDE DEF t, l
  <2>3. o = [m EXCEPT !.tree[t] = Vacant, !.lookup[l] = {},
                      !.dir[m.handle[h].dir][k] = p]
    BY <1>2 DEF EnsurePage, t, l
  <2>4. /\ p \in Pages /\ ~p.lazy /\ p.tree = t /\ p.lookup = l
        /\ Vacant \in [Data -> Data \cup {None}]
    BY <2>2 DEF Pages, Vacant
  <2> HIDE DEF p
  <2>5. /\ o.handle = m.handle
        /\ o.dir = [m.dir EXCEPT ![m.handle[h].dir][k] = p]
        /\ o.tree = [m.tree EXCEPT ![t] = Vacant]
        /\ o.lookup = [m.lookup EXCEPT ![l] = {}]
    BY <2>1, <2>3 DEF Heaps
  <2>6. o \in Heaps
    <3>1. m.handle[h].dir \in Dirs
      BY <2>1, PageTyped
    <3>2. o.dir \in [Dirs -> [Keys -> Pages \cup {NoPage}]]
      BY <2>1, <2>4, <2>5, <3>1 DEF Heaps
    <3>3. o.tree \in [Names -> [Data -> Data \cup {None}]]
      BY <2>1, <2>2, <2>4, <2>5 DEF Heaps
    <3>4. o.lookup \in [Names -> SUBSET [key: Data, obj: Names \X Data]]
      BY <2>1, <2>2, <2>5 DEF Heaps
    <3> QED BY <2>1, <2>3, <2>5, <3>2, <3>3, <3>4 DEF Heaps
  <2>7. /\ Good(o)
        /\ PageOf(o, h, k) = p /\ p # NoPage
        /\ \A g \in live, j \in Keys :
             <<g, j>> # <<h, k>> => PageOf(o, g, j) = PageOf(m, g, j)
    <3>1. IsPut(m, h, k, p, o)
      BY <2>1, <2>2, <2>4, <2>5, <2>6 DEF IsPut, Heaps
    <3> QED BY <3>1, PutPage
  <2>8. /\ o.tree[t] = Vacant /\ o.lookup[l] = {}
        /\ \A n \in Names \ {t} : o.tree[n] = m.tree[n]
        /\ \A n \in Names \ {l} : o.lookup[n] = m.lookup[n]
    BY <2>1, <2>2, <2>5 DEF Heaps
  <2>9. ASSUME NEW g \in live, NEW j \in Keys
        PROVE  Contents(o, g, j) = Contents(m, g, j)
    <3>1. CASE <<g, j>> = <<h, k>>
      BY <1>2, <2>4, <2>7, <2>8, <3>1 DEF Contents
    <3>2. CASE <<g, j>> # <<h, k>>
      BY <2>1, <2>2, <2>7, <2>8, <3>2, PageTyped DEF Contents
    <3> QED BY <3>1, <3>2
  <2>10. ASSUME LookupsOwn(m, h)
         PROVE  LookupsOwn(o, h)
    <3> SUFFICES ASSUME NEW j \in Mapped(o, h), NEW q, q = PageOf(o, h, j), ~q.lazy
                 PROVE  /\ \A e \in o.lookup[q.lookup] : e.obj[1] = q.tree
                        /\ \A s \in SlotsOf(o.tree[q.tree]) :
                             \/ o.tree[q.tree][s] \in hot
                             \/ [key |-> o.tree[q.tree][s], obj |-> <<q.tree, s>>]
                                  \in o.lookup[q.lookup]
      BY DEF LookupsOwn
    <3>1. CASE j = k
      BY <2>4, <2>7, <2>8, <3>1 DEF SlotsOf, Vacant
    <3>2. CASE j # k
      <4>1. j \in Keys /\ q = PageOf(m, h, j) /\ q # NoPage /\ j \in Mapped(m, h)
        BY <2>7, <3>2 DEF Mapped
      <4>2. q.tree \in Names \ {t} /\ q.lookup \in Names \ {l}
        BY <2>1, <2>2, <4>1, PageTyped
      <4>3. o.tree[q.tree] = m.tree[q.tree] /\ o.lookup[q.lookup] = m.lookup[q.lookup]
        BY <2>8, <4>2
      <4> QED BY <2>10, <4>1, <4>3 DEF LookupsOwn
    <3> QED BY <3>1, <3>2
  <2> QED BY <2>5, <2>7, <2>9, <2>10 DEF Keeps, SameContents
<1> QED BY <1>1, <1>2

\* What page._copy_on_write() copies goes to a tree no other page uses.
LEMMA CloneNameFree ==
  ASSUME live \subseteq Handles, NEW h \in live, NEW k \in Keys,
         NEW m, Good(m), ~m.handle[h].lazy, PageOf(m, h, k) # NoPage
  PROVE  /\ CloneName(m, h, k) \in Names
         /\ \A g \in live, l \in Keys :
              <<g, l>> # <<h, k>> => PageOf(m, g, l).tree # CloneName(m, h, k)
<1> DEFINE Other(g, l) == /\ <<m.handle[g].dir, l>> # <<m.handle[h].dir, k>>
                          /\ PageOf(m, g, l).tree = PageOf(m, h, k).tree
<1>1. m \in Heaps
  BY DEF Good
<1>2. CASE \E g \in live, l \in Keys : Other(g, l)
  <2>1. PICK g \in live, l \in Keys : Other(g, l)
    BY <1>2
  <2>2. <<g, l>> # <<h, k>>
    BY <2>1
  <2>3. CloneName(m, h, k) = FreeTree(m)
    BY <1>2 DEF CloneName
  <2> QED BY <1>1, <2>1, <2>2, <2>3, FreeTreeFree
<1>3. CASE ~ \E g \in live, l \in Keys : Other(g, l)
  <2>1. CloneName(m, h, k) = PageOf(m, h, k).tree
    BY <1>3 DEF CloneName
  <2>2. \A g \in live, l \in Keys :
          <<g, l>> # <<h, k>> => <<m.handle[g].dir, l>> # <<m.handle[h].dir, k>>
    BY DEF Good, DirsPrivate
  <2> QED BY <1>1, <1>3, <2>1, <2>2, PageTyped
<1> QED BY <1>2, <1>3

LEMMA PageCopyGood ==
  ASSUME live \subseteq Handles, NEW h \in live, NEW k \in Keys,
         NEW m, Good(m), ~m.handle[h].lazy, PageOf(m, h, k) # NoPage,
         NEW o, o = PageCopyOnWrite(m, h, k)
  PROVE  /\ Good(o) /\ Keeps(m, o)
         /\ o.handle = m.handle
         /\ PageOf(o, h, k) # NoPage /\ ~PageOf(o, h, k).lazy
         /\ LookupsOwn(m, h) => LookupsOwn(o, h)
<1> DEFINE p == PageOf(m, h, k)
<1>1. CASE ~p.lazy
  <2>1. o = m
    BY <1>1 DEF PageCopyOnWrite
  <2> QED BY <1>1, <2>1 DEF Keeps, SameContents
<1>2. CASE p.lazy
  <2> DEFINE t == m.tree[p.tree]
             n == CloneName(m, h, k)
             clones == Clones(t, n)
             q == [lazy |-> FALSE, tree |-> n, lookup |-> p.lookup]
  <2>1. /\ n \in Names
        /\ \A g \in live, l \in Keys :
             <<g, l>> # <<h, k>> => PageOf(m, g, l).tree # n
    BY CloneNameFree
  <2>2. m \in Heaps /\ h \in Handles
    BY DEF Good
  <2>3. p \in Pages /\ p.tree \in Names /\ p.lookup \in Names
    BY <2>2, PageTyped
  <2>4. t \in [Data -> Data \cup {None}]
    BY <2>2, <2>3 DEF Heaps
  <2>5. m.handle[h].dir \in Dirs
    BY <2>2, PageTyped
  <2>6. clones \in SUBSET [key: Data, obj: Names \X Data]
    BY <2>1, <2>4 DEF SlotsOf, Clones
  <2>7. q \in Pages /\ ~q.lazy /\ q.tree = n /\ q.lookup = p.lookup
    BY <2>1, <2>3 DEF Pages
  <2>8. /\ \A e \in clones : e.obj[1] = n
        /\ \A s \in SlotsOf(t) : [key |-> t[s], obj |-> <<n, s>>] \in clones
    BY DEF Clones
  <2>9. o = [m EXCEPT !.tree[n] = t, !.lookup[p.lookup] = clones,
                      !.dir[m.handle[h].dir][k] = q]
    BY <1>2 DEF PageCopyOnWrite
  <2> HIDE DEF p, t, n, clones, q
  <2>10. /\ o.handle = m.handle
         /\ o.dir = [m.dir EXCEPT ![m.handle[h].dir][k] = q]
         /\ o.tree = [m.tree EXCEPT ![n] = t]
         /\ o.lookup = [m.lookup EXCEPT ![p.lookup] = clones]
    BY <2>2, <2>9 DEF Heaps
  <2>11. o \in Heaps
    <3>1. o.dir \in [Dirs -> [Keys -> Pages \cup {NoPage}]]
      BY <2>2, <2>5, <2>7, <2>10 DEF Heaps
    <3>2. o.tree \in [Names -> [Data -> Data \cup {None}]]
      BY <2>1, <2>2, <2>4, <2>10 DEF Heaps
    <3>3. o.lookup \in [Names -> SUBSET [key: Data, obj: Names \X Data]]
      BY <2>2, <2>3, <2>6, <2>10 DEF Heaps
    <3> QED BY <2>2, <2>9, <2>10, <3>1, <3>2, <3>3 DEF Heaps
  <2>12. \A g \in live, l \in Keys : PageOf(m, g, l).lookup = p.lookup => l = k
    BY <2>2 DEF p, Good, LookupsKeyed, Mapped
  <2>13. IsPut(m, h, k, q, o)
    BY <2>1, <2>2, <2>7, <2>10, <2>11, <2>12 DEF IsPut, Heaps
  <2>14. /\ Good(o)
         /\ PageOf(o, h, k) = q /\ q # NoPage
         /\ \A g \in live, l \in Keys :
              <<g, l>> # <<h, k>> => PageOf(o, g, l) = PageOf(m, g, l)
    BY <2>13, PutPage
  <2>15. /\ o.tree[n] = t /\ o.lookup[p.lookup] = clones
         /\ \A x \in Names \ {n} : o.tree[x] = m.tree[x]
         /\ \A x \in Names \ {p.lookup} : o.lookup[x] = m.lookup[x]
    BY <2>1, <2>2, <2>3, <2>10 DEF Heaps
  <2>16. ASSUME NEW g \in live, NEW l \in Keys
         PROVE  Contents(o, g, l) = Contents(m, g, l)
    <3>1. CASE <<g, l>> = <<h, k>>
      BY <2>7, <2>14, <2>15, <3>1 DEF Contents, p, t
    <3>2. CASE <<g, l>> # <<h, k>>
      BY <2>1, <2>2, <2>14, <2>15, <3>2, PageTyped DEF Contents
    <3> QED BY <3>1, <3>2
  <2>17. ASSUME LookupsOwn(m, h)
         PROVE  LookupsOwn(o, h)
    <3> SUFFICES ASSUME NEW j \in Mapped(o, h), NEW r, r = PageOf(o, h, j), ~r.lazy
                 PROVE  /\ \A e \in o.lookup[r.lookup] : e.obj[1] = r.tree
                        /\ \A s \in SlotsOf(o.tree[r.tree]) :
                             \/ o.tree[r.tree][s] \in hot
                             \/ [key |-> o.tree[r.tree][s], obj |-> <<r.tree, s>>]
                                  \in o.lookup[r.lookup]
      BY DEF LookupsOwn
    <3>1. CASE j = k
      <4>1. r.tree = n /\ r.lookup = p.lookup
        BY <2>7, <2>14, <3>1
      <4> QED BY <2>8, <2>15, <4>1
    <3>2. CASE j # k
      <4>1. j \in Keys /\ r = PageOf(m, h, j) /\ r # NoPage /\ j \in Mapped(m, h)
        BY <2>14, <3>2 DEF Mapped
      <4>2. r.tree \in Names \ {n}
        BY <2>1, <2>2, <3>2, <4>1, PageTyped
      <4>3. r.lookup \in Names \ {p.lookup}
        BY <2>2, <2>12, <3>2, <4>1, PageTyped
      <4>4. o.tree[r.tree] = m.tree[r.tree] /\ o.lookup[r.lookup] = m.lookup[r.lookup]
        BY <2>15, <4>2, <4>3
      <4> QED BY <2>17, <4>1, <4>4 DEF LookupsOwn
    <3> QED BY <3>1, <3>2
  <2> QED BY <2>7, <2>10, <2>14, <2>16, <2>17 DEF Keeps, SameContents
<1> QED BY <1>1, <1>2

\* A page that is not lazy, of a tree that is not lazy, has its page tree to
\* itself.
LEMMA TreeAlone ==
  ASSUME NEW h \in live, NEW k \in Keys, NEW m, Good(m), ~m.handle[h].lazy,
         PageOf(m, h, k) # NoPage, ~PageOf(m, h, k).lazy
  PROVE  \A g \in live, l \in Keys :
           <<g, l>> # <<h, k>> => PageOf(m, g, l).tree # PageOf(m, h, k).tree
<1>1. k \in Mapped(m, h)
  BY DEF Mapped
<1>2. \A g \in live \ {h} : m.handle[g].dir # m.handle[h].dir
  BY DEF Good, DirsPrivate
<1> QED BY <1>1, <1>2 DEF Good, TreesPrivate

\* Two heaps with the same directories, used by the same trees, alike lazy.
SamePlaces(m, o) ==
  /\ o \in Heaps /\ o.dir = m.dir
  /\ \A g \in live : /\ o.handle[g].dir = m.handle[g].dir
                     /\ o.handle[g].lazy = m.handle[g].lazy

LEMMA GoodSame ==
  ASSUME NEW m, Good(m), NEW o, SamePlaces(m, o), live \subseteq Handles
  PROVE  Good(o) /\ \A g \in live, l \in Keys : PageOf(o, g, l) = PageOf(m, g, l)
<1>1. \A g \in live, l \in Keys : PageOf(o, g, l) = PageOf(m, g, l)
  BY DEF SamePlaces, PageOf
<1>2. DirsPrivate(o)
  BY DEF SamePlaces, Good, DirsPrivate
<1>3. TreesPrivate(o)
  BY <1>1 DEF SamePlaces, Good, TreesPrivate, Mapped
<1>4. LookupsKeyed(o)
  BY <1>1 DEF Good, LookupsKeyed, Mapped
<1> QED BY <1>1, <1>2, <1>3, <1>4 DEF SamePlaces, Good

\* What remains of add() once the tree and the page are the tree's own.
LEMMA FillPageGood ==
  ASSUME live \subseteq Handles, NEW h \in live, NEW k \in Keys, NEW s \in Spans,
         NEW d \in Data, NEW m, Good(m), ~m.handle[h].lazy,
         PageOf(m, h, k) # NoPage, ~PageOf(m, h, k).lazy,
         NEW o, o = CountItem(AddToPage(m, h, k, d), h, s)
  PROVE  /\ Good(o)
         /\ \A g \in live, l \in Keys :
              Contents(o, g, l) = IF g = h /\ l = k
                                    THEN [Contents(m, h, k) EXCEPT ![d] = d]
                                    ELSE Contents(m, g, l)
         /\ \A g \in Handles \ {h} : o.handle[g] = m.handle[g]
         /\ o.handle[h].lazy = m.handle[h].lazy
         /\ o.handle[h].inter = m.handle[h].inter + 1
         /\ o.handle[h].ones =
              m.handle[h].ones + (IF s[1] + 1 = s[2] THEN 1 ELSE 0)
         /\ LookupsOwn(m, h) => LookupsOwn(o, h)
<1> DEFINE p == PageOf(m, h, k)
           a == AddToPage(m, h, k, d)
           entry == [key |-> d, obj |-> <<p.tree, d>>]
           one == IF s[1] + 1 = s[2] THEN 1 ELSE 0
<1>1. m \in Heaps /\ h \in Handles
  BY DEF Good
<1>2. p \in Pages /\ p.tree \in Names /\ p.lookup \in Names
  BY <1>1, PageTyped
<1>3. \A g \in live, l \in Keys : <<g, l>> # <<h, k>> => PageOf(m, g, l).tree # p.tree
  BY TreeAlone
<1>4. entry \in [key: Data, obj: Names \X Data] /\ entry.obj[1] = p.tree
  BY <1>2
<1>5. entry = [key |-> d, obj |-> <<p.tree, d>>]
  OBVIOUS
<1>6. one \in {0, 1}
  OBVIOUS
<1> HIDE DEF p, entry
<1>7. a = [m EXCEPT !.tree[p.tree][d] = d, !.lookup[p.lookup] = @ \cup {entry}]
  BY DEF AddToPage, p, entry
<1>8. /\ a.handle = m.handle /\ a.dir = m.dir
      /\ a.tree = [m.tree EXCEPT ![p.tree][d] = d]
      /\ a.lookup = [m.lookup EXCEPT ![p.lookup] = @ \cup {entry}]
  BY <1>1, <1>7 DEF Heaps
<1>9. a \in Heaps
  <2>1. a.tree \in [Names -> [Data -> Data \cup {None}]]
    BY <1>1, <1>2, <1>8 DEF Heaps
  <2>2. a.lookup \in [Names -> SUBSET [key: Data, obj: Names \X Data]]
    BY <1>1, <1>2, <1>4, <1>8 DEF Heaps
  <2> QED BY <1>1, <1>7, <1>8, <2>1, <2>2 DEF Heaps
<1> HIDE DEF a
<1>10. o = [a EXCEPT !.handle[h].inter = @ + 1,
                     !.handle[h].ones = IF s[1] + 1 = s[2] THEN @ + 1 ELSE @]
  BY DEF CountItem, a
<1>11. /\ o.dir = a.dir /\ o.tree = a.tree /\ o.lookup = a.lookup
       /\ o.handle = [a.handle EXCEPT ![h].inter = @ + 1,
                        ![h].ones = IF s[1] + 1 = s[2] THEN @ + 1 ELSE @]
  BY <1>9, <1>10 DEF Heaps
<1>12. a.handle \in [Handles -> [dir: Dirs, lazy: BOOLEAN, inter: Nat, ones: Nat]]
  BY <1>9 DEF Heaps
<1>13. /\ o.handle[h].dir = a.handle[h].dir /\ o.handle[h].lazy = a.handle[h].lazy
       /\ o.handle[h].inter = a.handle[h].inter + 1
       /\ o.handle[h].ones = a.handle[h].ones + one
       /\ \A g \in Handles \ {h} : o.handle[g] = a.handle[g]
  BY <1>1, <1>11, <1>12
<1>14. o \in Heaps
  <2>1. o.handle \in [Handles -> [dir: Dirs, lazy: BOOLEAN, inter: Nat, ones: Nat]]
    BY <1>1, <1>11, <1>12
  <2> QED BY <1>9, <1>10, <1>11, <2>1 DEF Heaps
<1>15. Good(o) /\ \A g \in live, l \in Keys : PageOf(o, g, l) = PageOf(m, g, l)
  <2>1. \A g \in live : /\ o.handle[g].dir = m.handle[g].dir
                        /\ o.handle[g].lazy = m.handle[g].lazy
    BY <1>8, <1>13
  <2>2. SamePlaces(m, o)
    BY <1>8, <1>11, <1>14, <2>1 DEF SamePlaces
  <2> QED BY <2>2, GoodSame
<1>16. /\ o.tree[p.tree] = [m.tree[p.tree] EXCEPT ![d] = d]
       /\ \A n \in Names \ {p.tree} : o.tree[n] = m.tree[n]
       /\ o.lookup[p.lookup] = m.lookup[p.lookup] \cup {entry}
       /\ \A n \in Names \ {p.lookup} : o.lookup[n] = m.lookup[n]
  BY <1>1, <1>2, <1>8, <1>11 DEF Heaps
<1>17. Contents(m, h, k) = m.tree[p.tree] /\ Contents(o, h, k) = o.tree[p.tree]
  BY <1>15 DEF Contents, p
<1>18. ASSUME NEW g \in live, NEW l \in Keys, ~(g = h /\ l = k)
       PROVE  Contents(o, g, l) = Contents(m, g, l)
  <2>1. PageOf(m, g, l) # NoPage => PageOf(m, g, l).tree \in Names \ {p.tree}
    BY <1>1, <1>3, <1>18, PageTyped
  <2> QED BY <1>15, <1>16, <2>1 DEF Contents
<1>19. ASSUME LookupsOwn(m, h)
       PROVE  LookupsOwn(o, h)
  <2> SUFFICES ASSUME NEW j \in Mapped(o, h), NEW r, r = PageOf(o, h, j), ~r.lazy
               PROVE  /\ \A e \in o.lookup[r.lookup] : e.obj[1] = r.tree
                      /\ \A x \in SlotsOf(o.tree[r.tree]) :
                           \/ o.tree[r.tree][x] \in hot
                           \/ [key |-> o.tree[r.tree][x], obj |-> <<r.tree, x>>]
                                \in o.lookup[r.lookup]
    BY DEF LookupsOwn
  <2>1. j \in Keys /\ r = PageOf(m, h, j) /\ r # NoPage /\ j \in Mapped(m, h)
    BY <1>15 DEF Mapped
  <2>2. /\ \A e \in m.lookup[r.lookup] : e.obj[1] = r.tree
        /\ \A x \in SlotsOf(m.tree[r.tree]) :
             \/ m.tree[r.tree][x] \in hot
             \/ [key |-> m.tree[r.tree][x], obj |-> <<r.tree, x>>]
                  \in m.lookup[r.lookup]
    BY <1>19, <2>1 DEF LookupsOwn
  <2>3. CASE j = k
    <3>1. r = p
      BY <2>1, <2>3 DEF p
    <3>2. ASSUME NEW x \in SlotsOf(o.tree[p.tree])
          PROVE  \/ o.tree[p.tree][x] \in hot
                 \/ [key |-> o.tree[p.tree][x], obj |-> <<p.tree, x>>]
                      \in o.lookup[p.lookup]
      <4>1. m.tree[p.tree] \in [Data -> Data \cup {None}]
        BY <1>1, <1>2 DEF Heaps
      <4>2. CASE x = d
        BY <1>5, <1>16, <4>1, <4>2
      <4>3. CASE x # d
        <5>1. o.tree[p.tree][x] = m.tree[p.tree][x] /\ x \in SlotsOf(m.tree[p.tree])
          BY <1>16, <3>2, <4>1, <4>3 DEF SlotsOf
        <5> QED BY <1>16, <2>2, <3>1, <5>1
      <4> QED BY <4>2, <4>3
    <3> QED BY <1>4, <1>16, <2>2, <3>1, <3>2
  <2>4. CASE j # k
    <3>1. r.tree \in Names \ {p.tree}
      BY <1>1, <1>3, <2>1, <2>4, PageTyped
    <3>2. r.lookup \in Names \ {p.lookup}
      <4>1. k \in Mapped(m, h)
        BY DEF Mapped
      <4> QED BY <1>1, <2>1, <2>4, <4>1, PageTyped DEF p, Good, LookupsKeyed
    <3> QED BY <1>16, <2>2, <3>1, <3>2
  <2> QED BY <2>3, <2>4
<1> QED BY <1>8, <1>13, <1>15, <1>16, <1>17, <1>18, <1>19

\* What remains of update_item() once the dict has led to an Interval object,
\* slot x of page tree n: every page with that tree sees the new datum.
IsSwap(m, o, n, x, q, d) ==
  /\ Good(o) /\ o.handle = m.handle /\ o.lookup = m.lookup
  /\ \A g \in live, l \in Keys : PageOf(o, g, l) = PageOf(m, g, l)
  /\ n \in Names /\ x \in Data /\ m.tree[n][x] = q
  /\ \A j \in Names, z \in Data :
       o.tree[j][z] = IF j = n /\ z = x THEN d ELSE m.tree[j][z]
  /\ \A g \in live, l \in Keys :
       Contents(o, g, l) = IF PageOf(m, g, l).tree = n
                             THEN [Contents(m, g, l) EXCEPT ![x] = d]
                             ELSE Contents(m, g, l)

LEMMA SwapGood ==
  ASSUME live \subseteq Handles, NEW h \in live, NEW k \in Keys,
         NEW q \in Data, NEW d \in Data, NEW m, Good(m), PageOf(m, h, k) # NoPage,
         NEW e \in Found(m, h, k, q), NEW n, n = e.obj[1], NEW x, x = e.obj[2],
         NEW o, o = [m EXCEPT !.tree[n][x] = d]
  PROVE  IsSwap(m, o, n, x, q, d)
<1>1. m \in Heaps
  BY DEF Good
<1>2. PageOf(m, h, k).lookup \in Names
  BY <1>1, PageTyped
<1>3. e \in [key: Data, obj: Names \X Data]
  BY <1>1, <1>2 DEF Heaps, Found
<1>4. n \in Names /\ x \in Data
  BY <1>3
<1>5. m.tree[n][x] = q
  BY DEF Found
<1>6. /\ o.handle = m.handle /\ o.dir = m.dir /\ o.lookup = m.lookup
      /\ o.tree = [m.tree EXCEPT ![n][x] = d]
  BY <1>1 DEF Heaps
<1>7. m.tree \in [Names -> [Data -> Data \cup {None}]]
  BY <1>1 DEF Heaps
<1>8. o.tree \in [Names -> [Data -> Data \cup {None}]]
  BY <1>4, <1>6, <1>7
<1>9. o \in Heaps
  BY <1>1, <1>6, <1>8 DEF Heaps
<1>10. SamePlaces(m, o)
  BY <1>6, <1>9 DEF SamePlaces
<1>11. Good(o) /\ \A g \in live, l \in Keys : PageOf(o, g, l) = PageOf(m, g, l)
  BY <1>10, GoodSame
<1>12. /\ o.tree[n] = [m.tree[n] EXCEPT ![x] = d]
       /\ \A j \in Names \ {n} : o.tree[j] = m.tree[j]
  BY <1>4, <1>6, <1>7
<1>13. \A j \in Names, y \in Data :
         o.tree[j][y] = IF j = n /\ y = x THEN d ELSE m.tree[j][y]
  BY <1>4, <1>7, <1>12
<1>14. ASSUME NEW g \in live, NEW l \in Keys
       PROVE  Contents(o, g, l) = IF PageOf(m, g, l).tree = n
                                    THEN [Contents(m, g, l) EXCEPT ![x] = d]
                                    ELSE Contents(m, g, l)
  <2>1. PageOf(m, g, l) = NoPage <=> PageOf(m, g, l).tree \notin Names
    BY <1>1, PageTyped
  <2> QED BY <1>4, <1>11, <1>12, <2>1 DEF Contents
<1> QED BY <1>4, <1>5, <1>6, <1>11, <1>13, <1>14 DEF IsSwap

-----------------------------------------------------------------------------
(* The items of a tree, read off its pages. *)

Held(m, h) == {x \in Data : \E k \in Keys, s \in Data : Contents(m, h, k)[s] = x}

LEMMA HeldIs ==
  ASSUME NEW m \in Heaps, NEW h \in Handles
  PROVE  UNION {PageData(m, h, k) : k \in Keys} = Held(m, h)
<1>1. \A k \in Keys : Contents(m, h, k) \in [Data -> Data \cup {None}]
  BY PageTyped
<1>2. None \notin Data
  BY BoundAssumption DEF None, Data
<1>3. \A k \in Keys : PageData(m, h, k) =
        {x \in Data : \E s \in Data : Contents(m, h, k)[s] = x}
  BY <1>1, <1>2 DEF PageData, SlotsOf
<1> QED BY <1>3 DEF Held

\* Where a datum a tree holds is.
LEMMA HeldAt ==
  ASSUME live \subseteq Handles, heap \in Heaps, FiledByKey(heap),
         NEW h \in live, NEW q \in Held(heap, h)
  PROVE  /\ span[q] # <<>> /\ PageKey(span[q]) \in Keys
         /\ \E s \in Data : Contents(heap, h, PageKey(span[q]))[s] = q
<1>1. PICK k \in Keys, s \in Data : Contents(heap, h, k)[s] = q
  BY DEF Held
<1>2. q # None
  BY BoundAssumption DEF Held, Data, None
<1>3. s \in SlotsOf(Contents(heap, h, k))
  BY <1>1, <1>2 DEF SlotsOf
<1> QED BY <1>1, <1>3 DEF FiledByKey

-----------------------------------------------------------------------------
(* The operations, each as a whole. *)

\* TypeOK without the bound on the number of intervals, which is a matter of
\* what the statistics count.
Shape ==
  /\ live \subseteq Handles
  /\ heap \in Heaps
  /\ \A h \in Handles : heap.handle[h].ones <= heap.handle[h].inter
  /\ span \in [Data -> Spans \cup {<<>>}]
  /\ failed \in BOOLEAN
  /\ writer \in Handles
  /\ hot \subseteq Data

\* What add() does to the heap: datum d in a slot of its own on one page.
AddsOnPage(m, o, h, k, s, d) ==
  /\ \A g \in live, l \in Keys :
       Contents(o, g, l) = IF g = h /\ l = k
                             THEN [Contents(m, h, k) EXCEPT ![d] = d]
                             ELSE Contents(m, g, l)
  /\ \A g \in Handles \ {h} : /\ o.handle[g].inter = m.handle[g].inter
                              /\ o.handle[g].ones = m.handle[g].ones
  /\ \A g \in Handles \ live : o.handle[g] = m.handle[g]
  /\ o.handle[h].inter = m.handle[h].inter + 1
  /\ o.handle[h].ones = m.handle[h].ones + (IF s[1] + 1 = s[2] THEN 1 ELSE 0)

LEMMA AddHeap ==
  ASSUME Shape, Good(heap), NEW h \in live, NEW s \in Spans, NEW d \in Data,
         Add(h, s, d), NEW k, k = PageKey(s), NEW o, o = heap'
  PROVE  /\ Good(o)
         /\ AddsOnPage(heap, o, h, k, s, d)
         /\ ~o.handle[h].lazy
         /\ (heap.handle[h].lazy \/ LookupsOwn(heap, h)) => LookupsOwn(o, h)
<1> DEFINE m1 == TreeCopyOnWrite(heap, h)
           m2 == EnsurePage(m1, h, k)
           m3 == PageCopyOnWrite(m2, h, k)
<1>1. k \in Keys /\ live \subseteq Handles
  BY DEF Keys, Shape
<1>2. o = CountItem(AddToPage(m3, h, k, d), h, s)
  BY DEF Add
<1>3. /\ Good(m1) /\ Keeps(heap, m1) /\ ~m1.handle[h].lazy
      /\ (heap.handle[h].lazy \/ LookupsOwn(heap, h)) => LookupsOwn(m1, h)
  BY <1>1, TreeCopyGood
<1> HIDE DEF m1
<1>4. /\ Good(m2) /\ Keeps(m1, m2) /\ m2.handle = m1.handle
      /\ PageOf(m2, h, k) # NoPage
      /\ LookupsOwn(m1, h) => LookupsOwn(m2, h)
  BY <1>1, <1>3, EnsurePageGood
<1> HIDE DEF m2
<1>5. /\ Good(m3) /\ Keeps(m2, m3) /\ m3.handle = m2.handle
      /\ PageOf(m3, h, k) # NoPage /\ ~PageOf(m3, h, k).lazy
      /\ LookupsOwn(m2, h) => LookupsOwn(m3, h)
  BY <1>1, <1>3, <1>4, PageCopyGood
<1> HIDE DEF m3
<1>6. ~m3.handle[h].lazy
  BY <1>3, <1>4, <1>5
<1>7. /\ Good(o)
      /\ \A g \in live, l \in Keys :
           Contents(o, g, l) = IF g = h /\ l = k
                                 THEN [Contents(m3, h, k) EXCEPT ![d] = d]
                                 ELSE Contents(m3, g, l)
      /\ \A g \in Handles \ {h} : o.handle[g] = m3.handle[g]
      /\ o.handle[h].lazy = m3.handle[h].lazy
      /\ o.handle[h].inter = m3.handle[h].inter + 1
      /\ o.handle[h].ones =
           m3.handle[h].ones + (IF s[1] + 1 = s[2] THEN 1 ELSE 0)
      /\ LookupsOwn(m3, h) => LookupsOwn(o, h)
  BY <1>1, <1>2, <1>5, <1>6, FillPageGood
<1>8. Keeps(heap, m3)
  BY <1>3, <1>4, <1>5 DEF Keeps, SameContents
<1>9. AddsOnPage(heap, o, h, k, s, d)
  BY <1>1, <1>7, <1>8 DEF Keeps, SameContents, AddsOnPage
<1> QED BY <1>3, <1>4, <1>5, <1>6, <1>7, <1>9

\* A heap made from what IInv says of it, and back.
LEMMA GoodIs ==
  Shape /\ DirsPrivate(heap) /\ TreesPrivate(heap) /\ LookupsKeyed(heap) => Good(heap)
BY DEF Shape, Good

LEMMA AddInv ==
  ASSUME Shape, IInv, NEW h \in Handles, NEW s \in Spans, NEW d \in Data, Add(h, s, d)
  PROVE  Shape' /\ IInv'
<1> DEFINE k == PageKey(s)
<1>1. Good(heap) /\ h \in live /\ live \subseteq Handles /\ k \in Keys
  BY GoodIs DEF IInv, Add, Shape, Keys
<1>2. PICK o : o = heap'
  OBVIOUS
<1>3. /\ live' = live /\ hot' = hot /\ failed' = failed /\ writer' = h
      /\ span' = [span EXCEPT ![d] = s] /\ span[d] = <<>> /\ MayWrite(h)
  BY DEF Add, FreshDatum
<1>4. /\ Good(o) /\ AddsOnPage(heap, o, h, k, s, d)
      /\ ~o.handle[h].lazy
      /\ (heap.handle[h].lazy \/ LookupsOwn(heap, h)) => LookupsOwn(o, h)
  <2> HIDE DEF k
  <2>1. k = PageKey(s)
    BY DEF k
  <2> QED BY <1>1, <1>2, <2>1, AddHeap
<1> HIDE DEF k
<1>5. s # <<>> /\ span \in [Data -> Spans \cup {<<>>}] /\ span'[d] = s
  BY <1>3, SpansAssumption DEF Shape
<1>6. \A g \in Handles : o.handle[g].ones <= o.handle[g].inter
  <2>1. \A g \in Handles : /\ heap.handle[g].ones \in Nat
                           /\ heap.handle[g].inter \in Nat
                           /\ heap.handle[g].ones <= heap.handle[g].inter
    BY DEF Shape, Heaps
  <2> QED BY <1>1, <1>4, <2>1 DEF AddsOnPage
<1>7. Shape'
  BY <1>1, <1>2, <1>3, <1>4, <1>5, <1>6 DEF Shape, Good
<1>8. NothingYet'
  BY <1>1, <1>2, <1>3, <1>4 DEF NothingYet, AddsOnPage, IInv
<1>9. DirsPrivate(heap)' /\ TreesPrivate(heap)' /\ LookupsKeyed(heap)'
  BY <1>2, <1>3, <1>4
  DEF Good, DirsPrivate, TreesPrivate, LookupsKeyed, PageOf, Mapped
<1>10. FiledByKey(heap)'
  <2> SUFFICES ASSUME NEW g \in live, NEW l \in Keys, NEW t, t = Contents(o, g, l)
               PROVE  /\ \A x \in SlotsOf(t) :
                           /\ span'[x] # <<>> /\ span'[t[x]] # <<>>
                           /\ PageKey(span'[t[x]]) = l
                      /\ \A x, y \in SlotsOf(t) : t[x] = t[y] => x = y
    BY <1>2, <1>3 DEF FiledByKey
  <2> DEFINE u == Contents(heap, g, l)
  <2>1. u \in [Data -> Data \cup {None}]
    BY <1>1, PageTyped DEF Shape
  <2>2. /\ \A x \in SlotsOf(u) :
             /\ span[x] # <<>> /\ span[u[x]] # <<>> /\ PageKey(span[u[x]]) = l
        /\ \A x, y \in SlotsOf(u) : u[x] = u[y] => x = y
    BY DEF IInv, FiledByKey
  <2>3. \A x : span[x] # <<>> => x # d /\ (x \in Data => span'[x] = span[x])
    BY <1>3, <1>5
  <2>4. t = IF g = h /\ l = k THEN [u EXCEPT ![d] = d] ELSE u
    BY <1>4 DEF AddsOnPage
  <2>5. \A x \in SlotsOf(u) : x \in Data /\ u[x] \in Data
    BY <2>1 DEF SlotsOf
  <2> HIDE DEF u
  <2>6. CASE g = h /\ l = k
    <3>1. \A x \in SlotsOf(t) : \/ x = d /\ t[x] = d
                                \/ x # d /\ x \in SlotsOf(u) /\ t[x] = u[x]
      BY <2>1, <2>4, <2>6 DEF SlotsOf
    <3>2. PageKey(span'[d]) = l
      BY <1>5, <2>6 DEF k
    <3> QED BY <1>5, <2>2, <2>3, <2>5, <3>1, <3>2
  <2>7. CASE ~(g = h /\ l = k)
    BY <2>2, <2>3, <2>4, <2>5, <2>7
  <2> QED BY <2>6, <2>7
<1>11. ~Interleave => LookupsOwn(heap, writer)'
  <2> SUFFICES ASSUME ~Interleave PROVE LookupsOwn(heap, writer)'
    OBVIOUS
  <2>1. heap.handle[h].lazy \/ LookupsOwn(heap, h)
    BY <1>1, <1>3 DEF IInv, MayWrite
  <2>2. LookupsOwn(o, h)
    BY <1>4, <2>1
  <2> QED BY <1>2, <1>3, <2>2 DEF LookupsOwn, Mapped, PageOf
<1> QED BY <1>7, <1>8, <1>9, <1>10, <1>11 DEF IInv

\* What is left of the heap while update_item() prepares the tree and the page.
LEMMA UpdatePrepared ==
  ASSUME Shape, Good(heap), FiledByKey(heap), NEW h \in live, NEW q \in Held(heap, h),
         NEW k, k = PageKey(span[q]),
         NEW m, m = PageCopyOnWrite(TreeCopyOnWrite(heap, h), h, k)
  PROVE  /\ Good(m) /\ Keeps(heap, m) /\ ~m.handle[h].lazy
         /\ k \in Keys /\ PageOf(m, h, k) # NoPage /\ ~PageOf(m, h, k).lazy
         /\ (heap.handle[h].lazy \/ LookupsOwn(heap, h)) => LookupsOwn(m, h)
<1> DEFINE m1 == TreeCopyOnWrite(heap, h)
<1>1. live \subseteq Handles /\ heap \in Heaps
  BY DEF Shape
<1>2. k \in Keys /\ \E s \in Data : Contents(heap, h, k)[s] = q
  BY <1>1, HeldAt
<1>3. /\ Good(m1) /\ Keeps(heap, m1) /\ ~m1.handle[h].lazy
      /\ (heap.handle[h].lazy \/ LookupsOwn(heap, h)) => LookupsOwn(m1, h)
  BY <1>1, TreeCopyGood
<1>4. PageOf(m1, h, k) # NoPage
  <2>1. \E s \in Data : Contents(m1, h, k)[s] = q
    BY <1>2, <1>3 DEF Keeps, SameContents
  <2>2. q # None
    BY BoundAssumption DEF Held, Data, None
  <2> QED BY <2>1, <2>2 DEF Contents, Vacant
<1> HIDE DEF m1
<1>5. m = PageCopyOnWrite(m1, h, k)
  BY DEF m1
<1>6. /\ Good(m) /\ Keeps(m1, m) /\ m.handle = m1.handle
      /\ PageOf(m, h, k) # NoPage /\ ~PageOf(m, h, k).lazy
      /\ LookupsOwn(m1, h) => LookupsOwn(m, h)
  BY <1>1, <1>2, <1>3, <1>4, <1>5, PageCopyGood
<1>7. Keeps(heap, m)
  BY <1>3, <1>6 DEF Keeps, SameContents
<1> QED BY <1>2, <1>3, <1>6, <1>7

\* Tree h can be written: it has yet to be made its own, or has lookup dicts of
\* its own.
Served(h) == heap.handle[h].lazy \/ LookupsOwn(heap, h)

\* What update_item() does to the heap when it finds the item: in the trees G,
\* slot x of the item's page goes from q to d.
SwapsOnPages(m, o, G, k, x, q, d) ==
  /\ G \subseteq live
  /\ \A g \in G : Contents(m, g, k)[x] = q
  /\ \A g \in live, l \in Keys :
       Contents(o, g, l) = IF g \in G /\ l = k
                             THEN [Contents(m, g, l) EXCEPT ![x] = d]
                             ELSE Contents(m, g, l)

SameStatistics(m, o) ==
  /\ \A g \in Handles : /\ o.handle[g].inter = m.handle[g].inter
                        /\ o.handle[g].ones = m.handle[g].ones
  /\ \A g \in Handles \ live : o.handle[g] = m.handle[g]

UpdateFails(h, o) ==
  /\ failed' = TRUE
  /\ UNCHANGED <<span, writer, hot>>
  /\ SameContents(heap, o)
  /\ Served(h) => LookupsOwn(o, h)

UpdateSwaps(h, o, G, x, q, d) ==
  /\ x \in Data
  /\ SwapsOnPages(heap, o, G, PageKey(span[q]), x, q, d)
  /\ Served(h) => G = {h} /\ LookupsOwn(o, h)'
  /\ span' = [span EXCEPT ![d] = span[q]] /\ hot' = hot \cup {d}
  /\ writer' = h /\ failed' = failed

LEMMA UpdateHeap ==
  ASSUME Shape, IInv, NEW h \in Handles, NEW q \in Data, NEW d \in Data,
         UpdateItem(h, q, d), NEW o, o = heap'
  PROVE  /\ h \in live /\ q \in Held(heap, h) /\ live' = live
         /\ Good(o) /\ SameStatistics(heap, o) /\ ~o.handle[h].lazy
         /\ \/ UpdateFails(h, o) /\ (Served(h) => q \in hot)
            \/ \E G, x : UpdateSwaps(h, o, G, x, q, d)
<1> DEFINE k == PageKey(span[q])
           m == PageCopyOnWrite(TreeCopyOnWrite(heap, h), h, k)
<1>1. live \subseteq Handles /\ heap \in Heaps /\ FiledByKey(heap) /\ Good(heap)
  BY GoodIs DEF Shape, IInv
<1>2. h \in live /\ live' = live /\ q \in Held(heap, h)
  BY <1>1, HeldIs DEF UpdateItem, HeldData
<1>3. \/ /\ Found(m, h, k, q) = {} /\ o = m /\ failed' = TRUE
         /\ UNCHANGED <<span, writer, hot>>
      \/ /\ \E e \in Found(m, h, k, q) : o = [m EXCEPT !.tree[e.obj[1]][e.obj[2]] = d]
         /\ span' = [span EXCEPT ![d] = span[q]] /\ hot' = hot \cup {d}
         /\ writer' = h /\ failed' = failed
  BY DEF UpdateItem
<1> HIDE DEF m
<1>4. /\ Good(m) /\ Keeps(heap, m) /\ ~m.handle[h].lazy
      /\ k \in Keys /\ PageOf(m, h, k) # NoPage /\ ~PageOf(m, h, k).lazy
      /\ Served(h) => LookupsOwn(m, h)
  BY <1>1, <1>2, UpdatePrepared DEF m, Served
<1>5. \A g \in live, l \in Keys : Contents(m, g, l) = Contents(heap, g, l)
  BY <1>4 DEF Keeps, SameContents
<1>6. PICK y \in Data : Contents(m, h, k)[y] = q
  BY <1>1, <1>2, <1>4, <1>5, HeldAt
<1>7. k \in Mapped(m, h) /\ Contents(m, h, k) = m.tree[PageOf(m, h, k).tree]
  BY <1>4 DEF Mapped, Contents
<1>8. q # None
  BY BoundAssumption DEF Data, None
<1>9. CASE Found(m, h, k, q) = {} /\ o = m /\ failed' = TRUE
           /\ UNCHANGED <<span, writer, hot>>
  <2>1. ASSUME Served(h) PROVE q \in hot
    <3> DEFINE entry == [key |-> q, obj |-> <<PageOf(m, h, k).tree, y>>]
    <3>1. y \in SlotsOf(m.tree[PageOf(m, h, k).tree])
      BY <1>6, <1>7, <1>8 DEF SlotsOf
    <3>2. entry \notin m.lookup[PageOf(m, h, k).lookup]
      BY <1>6, <1>7, <1>9 DEF Found
    <3> QED BY <1>4, <1>6, <1>7, <2>1, <3>1, <3>2 DEF LookupsOwn
  <2>2. UpdateFails(h, o)
    BY <1>4, <1>9 DEF UpdateFails, Keeps
  <2> QED BY <1>2, <1>4, <1>9, <2>1, <2>2 DEF Keeps, SameStatistics
<1>10. CASE /\ \E e \in Found(m, h, k, q) :
                 o = [m EXCEPT !.tree[e.obj[1]][e.obj[2]] = d]
            /\ span' = [span EXCEPT ![d] = span[q]] /\ hot' = hot \cup {d}
            /\ writer' = h /\ failed' = failed
  <2>1. PICK e \in Found(m, h, k, q) : o = [m EXCEPT !.tree[e.obj[1]][e.obj[2]] = d]
    BY <1>10
  <2> DEFINE n == e.obj[1]
             x == e.obj[2]
             G == {g \in live : PageOf(m, g, k).tree = n}
  <2>2. n = e.obj[1] /\ x = e.obj[2] /\ o = [m EXCEPT !.tree[n][x] = d]
    BY <2>1
  <2> HIDE DEF k, n, x
  <2>3. /\ Good(o) /\ o.handle = m.handle /\ o.lookup = m.lookup
        /\ \A g \in live, l \in Keys : PageOf(o, g, l) = PageOf(m, g, l)
        /\ n \in Names /\ x \in Data /\ m.tree[n][x] = q
        /\ \A j \in Names, z \in Data :
             o.tree[j][z] = IF j = n /\ z = x THEN d ELSE m.tree[j][z]
        /\ \A g \in live, l \in Keys :
             Contents(o, g, l) = IF PageOf(m, g, l).tree = n
                                   THEN [Contents(m, g, l) EXCEPT ![x] = d]
                                   ELSE Contents(m, g, l)
    <3>1. IsSwap(m, o, n, x, q, d)
      BY <1>1, <1>2, <1>4, <2>2, SwapGood
    <3> QED BY <3>1 DEF IsSwap
  <2>4. \A g \in live, l \in Keys :
          PageOf(m, g, l).tree = n => Contents(heap, g, l)[x] = q
    <3>1. \A g \in live, l \in Keys : PageOf(m, g, l).tree = n => PageOf(m, g, l) # NoPage
      BY <1>1, <1>4, <2>3, PageTyped DEF Good
    <3> QED BY <1>5, <2>3, <3>1 DEF Contents
  <2>5. \A g \in live, l \in Keys : PageOf(m, g, l).tree = n => l = k
    <3> SUFFICES ASSUME NEW g \in live, NEW l \in Keys, PageOf(m, g, l).tree = n
                 PROVE  l = k
      OBVIOUS
    <3>1. x \in SlotsOf(Contents(heap, g, l)) /\ Contents(heap, g, l)[x] = q
      BY <1>8, <2>3, <2>4 DEF SlotsOf
    <3> QED BY <1>1, <3>1 DEF FiledByKey, k
  <2>6. SwapsOnPages(heap, o, G, k, x, q, d)
    BY <1>4, <1>5, <2>3, <2>4, <2>5 DEF SwapsOnPages
  <2>7. ASSUME Served(h) PROVE G = {h} /\ LookupsOwn(o, h)'
    <3>1. n = PageOf(m, h, k).tree
      BY <1>4, <1>7, <2>1, <2>7 DEF LookupsOwn, Found, n
    <3>2. G = {h}
      BY <1>2, <1>4, <3>1, TreeAlone
    <3>3. LookupsOwn(o, h)'
      <4> SUFFICES ASSUME NEW j \in Mapped(o, h), NEW r, r = PageOf(o, h, j), ~r.lazy
                   PROVE  /\ \A f \in o.lookup[r.lookup] : f.obj[1] = r.tree
                          /\ \A z \in SlotsOf(o.tree[r.tree]) :
                               \/ o.tree[r.tree][z] \in hot'
                               \/ [key |-> o.tree[r.tree][z], obj |-> <<r.tree, z>>]
                                    \in o.lookup[r.lookup]
        BY DEF LookupsOwn
      <4>1. j \in Keys /\ r = PageOf(m, h, j) /\ r # NoPage /\ j \in Mapped(m, h)
        BY <1>2, <2>3 DEF Mapped
      <4>2. r.tree \in Names
        BY <1>1, <1>2, <1>4, <4>1, PageTyped DEF Good
      <4>3. /\ \A f \in m.lookup[r.lookup] : f.obj[1] = r.tree
            /\ \A z \in SlotsOf(m.tree[r.tree]) :
                 \/ m.tree[r.tree][z] \in hot
                 \/ [key |-> m.tree[r.tree][z], obj |-> <<r.tree, z>>]
                      \in m.lookup[r.lookup]
        BY <1>4, <2>7, <4>1 DEF LookupsOwn
      <4>4. ASSUME NEW z \in SlotsOf(o.tree[r.tree])
            PROVE  \/ o.tree[r.tree][z] = d
                   \/ /\ z \in SlotsOf(m.tree[r.tree])
                      /\ o.tree[r.tree][z] = m.tree[r.tree][z]
        BY <2>3, <4>2, <4>4 DEF SlotsOf
      <4> QED BY <1>10, <2>3, <4>3, <4>4
    <3> QED BY <3>2, <3>3
  <2>8. UpdateSwaps(h, o, G, x, q, d)
    BY <1>10, <2>3, <2>6, <2>7 DEF UpdateSwaps, k
  <2> QED BY <1>2, <1>4, <2>3, <2>8 DEF Keeps, SameStatistics
<1> QED BY <1>3, <1>9, <1>10

LEMMA UpdateInv ==
  ASSUME Shape, IInv, NEW h \in Handles, NEW q \in Data, NEW d \in Data,
         UpdateItem(h, q, d)
  PROVE  Shape' /\ IInv'
<1> DEFINE k == PageKey(span[q])
<1>1. live \subseteq Handles /\ heap \in Heaps /\ FiledByKey(heap)
  BY DEF Shape, IInv
<1>2. PICK o : o = heap'
  OBVIOUS
<1>3. /\ h \in live /\ q \in Held(heap, h) /\ live' = live
      /\ Good(o) /\ SameStatistics(heap, o) /\ ~o.handle[h].lazy
      /\ \/ UpdateFails(h, o)
         \/ \E G, x : UpdateSwaps(h, o, G, x, q, d)
  BY <1>2, UpdateHeap
<1>4. span[d] = <<>> /\ MayWrite(h)
  BY DEF UpdateItem, FreshDatum
<1>5. /\ span \in [Data -> Spans \cup {<<>>}] /\ span[q] # <<>>
      /\ d # None /\ q # None
  BY <1>1, <1>3, HeldAt, BoundAssumption DEF Shape, None, Data
<1>6. \A g \in Handles : o.handle[g].ones <= o.handle[g].inter
  BY <1>3 DEF Shape, SameStatistics
<1>7. Shape'
  <2>1. /\ span' \in [Data -> Spans \cup {<<>>}] /\ failed' \in BOOLEAN
        /\ writer' \in Handles /\ hot' \subseteq Data
    BY <1>1, <1>3, <1>5 DEF UpdateFails, UpdateSwaps, Shape
  <2> QED BY <1>1, <1>2, <1>3, <1>6, <2>1 DEF Shape, Good
<1>8. NothingYet'
  BY <1>2, <1>3 DEF NothingYet, SameStatistics, IInv
<1>9. DirsPrivate(heap)' /\ TreesPrivate(heap)' /\ LookupsKeyed(heap)'
  BY <1>2, <1>3
  DEF Good, DirsPrivate, TreesPrivate, LookupsKeyed, PageOf, Mapped
<1>10. FiledByKey(heap)'
  <2> SUFFICES ASSUME NEW g \in live, NEW l \in Keys, NEW t, t = Contents(o, g, l)
               PROVE  /\ \A y \in SlotsOf(t) :
                           /\ span'[y] # <<>> /\ span'[t[y]] # <<>>
                           /\ PageKey(span'[t[y]]) = l
                      /\ \A y, z \in SlotsOf(t) : t[y] = t[z] => y = z
    BY <1>2, <1>3 DEF FiledByKey
  <2> DEFINE u == Contents(heap, g, l)
  <2>1. u \in [Data -> Data \cup {None}]
    BY <1>1, PageTyped
  <2>2. /\ \A y \in SlotsOf(u) :
             /\ span[y] # <<>> /\ span[u[y]] # <<>> /\ PageKey(span[u[y]]) = l
        /\ \A y, z \in SlotsOf(u) : u[y] = u[z] => y = z
    BY <1>1 DEF FiledByKey
  <2>3. \A y \in SlotsOf(u) : y \in Data /\ u[y] \in Data
    BY <2>1 DEF SlotsOf
  <2> HIDE DEF u
  <2>4. CASE UpdateFails(h, o)
    <3>1. t = u /\ span' = span
      BY <2>4 DEF UpdateFails, SameContents, u
    <3> QED BY <2>2, <3>1
  <2>5. CASE \E G, x : UpdateSwaps(h, o, G, x, q, d)
    <3>1. PICK G, x : UpdateSwaps(h, o, G, x, q, d)
      BY <2>5
    <3>2. span' = [span EXCEPT ![d] = span[q]]
      BY <3>1 DEF UpdateSwaps
    <3>3. \A y : span[y] # <<>> => y # d /\ (y \in Data => span'[y] = span[y])
      BY <1>4, <1>5, <3>2
    <3>4. span'[d] = span[q]
      BY <1>5, <3>2
    <3>5. \/ t = u
          \/ l = k /\ x \in Data /\ u[x] = q /\ t = [u EXCEPT ![x] = d]
      BY <3>1 DEF UpdateSwaps, SwapsOnPages, u
    <3>6. CASE t = u
      BY <2>2, <2>3, <3>3, <3>6
    <3>7. CASE l = k /\ x \in Data /\ u[x] = q /\ t = [u EXCEPT ![x] = d]
      <4>1. x \in SlotsOf(u)
        BY <1>5, <3>7 DEF SlotsOf
      <4>2. \A y \in SlotsOf(t) : \/ y = x /\ t[y] = d
                                  \/ y # x /\ y \in SlotsOf(u) /\ t[y] = u[y]
        BY <2>1, <3>7 DEF SlotsOf
      <4> QED BY <1>5, <2>2, <2>3, <3>3, <3>4, <3>7, <4>1, <4>2
    <3> QED BY <3>5, <3>6, <3>7
  <2> QED BY <1>3, <2>4, <2>5
<1>11. ~Interleave => LookupsOwn(heap, writer)'
  <2> SUFFICES ASSUME ~Interleave PROVE LookupsOwn(heap, writer)'
    OBVIOUS
  <2>1. Served(h) /\ writer = h
    BY <1>3, <1>4 DEF IInv, MayWrite, Served
  <2>2. LookupsOwn(o, h)' /\ writer' = h
    BY <1>3, <2>1 DEF UpdateFails, UpdateSwaps, LookupsOwn, Mapped, PageOf
  <2> QED BY <1>2, <2>2 DEF LookupsOwn, Mapped, PageOf
<1> QED BY <1>7, <1>8, <1>9, <1>10, <1>11 DEF IInv

\* What copy() does to the heap: the new tree n is another h.
LEMMA CopyHeap ==
  ASSUME Shape, NEW h \in Handles, NEW n \in Handles, Copy(h, n)
  PROVE  /\ h \in live /\ n \notin live /\ live' = live \cup {n}
         /\ heap' \in Heaps
         /\ heap'.dir = heap.dir /\ heap'.tree = heap.tree
         /\ heap'.lookup = heap.lookup
         /\ heap'.handle[h].lazy /\ heap'.handle[n].lazy
         /\ heap'.handle[h].dir = heap.handle[h].dir
         /\ heap'.handle[h].inter = heap.handle[h].inter
         /\ heap'.handle[h].ones = heap.handle[h].ones
         /\ heap'.handle[n].dir = heap.handle[h].dir
         /\ heap'.handle[n].inter = heap.handle[h].inter
         /\ heap'.handle[n].ones = heap.handle[h].ones
         /\ \A g \in Handles \ {h, n} : heap'.handle[g] = heap.handle[g]
<1> DEFINE c == [heap.handle[h] EXCEPT !.lazy = TRUE]
<1>1. /\ h \in live /\ n \notin live /\ live' = live \cup {n}
      /\ heap' = [heap EXCEPT !.handle[h].lazy = TRUE, !.handle[n] = c]
  BY DEF Copy
<1>2. heap.handle \in [Handles -> [dir: Dirs, lazy: BOOLEAN, inter: Nat, ones: Nat]]
  BY DEF Shape, Heaps
<1>3. /\ c \in [dir: Dirs, lazy: BOOLEAN, inter: Nat, ones: Nat]
      /\ c.lazy /\ c.dir = heap.handle[h].dir /\ c.inter = heap.handle[h].inter
      /\ c.ones = heap.handle[h].ones
  BY <1>2
<1> HIDE DEF c
<1>4. /\ heap'.dir = heap.dir /\ heap'.tree = heap.tree /\ heap'.lookup = heap.lookup
      /\ heap'.handle = [heap.handle EXCEPT ![h].lazy = TRUE, ![n] = c]
  BY <1>1 DEF Shape, Heaps
<1>5. heap'.handle \in [Handles -> [dir: Dirs, lazy: BOOLEAN, inter: Nat, ones: Nat]]
  BY <1>2, <1>3, <1>4
<1>6. heap' \in Heaps
  BY <1>1, <1>4, <1>5 DEF Shape, Heaps
<1>7. h # n
  BY <1>1
<1> QED BY <1>1, <1>2, <1>3, <1>4, <1>6, <1>7

LEMMA CopyInv ==
  ASSUME Shape, IInv, NEW h \in Handles, NEW n \in Handles, Copy(h, n)
  PROVE  Shape' /\ IInv'
<1> DEFINE src(g) == IF g = n THEN h ELSE g
<1>1. PICK o : o = heap'
  OBVIOUS
<1>2. /\ h \in live /\ n \notin live /\ live' = live \cup {n} /\ live \subseteq Handles
      /\ o \in Heaps /\ o.dir = heap.dir /\ o.tree = heap.tree
      /\ o.lookup = heap.lookup
      /\ o.handle[h].lazy /\ o.handle[n].lazy
      /\ \A g \in Handles : /\ o.handle[g].dir = heap.handle[src(g)].dir
                            /\ o.handle[g].ones = heap.handle[src(g)].ones
                            /\ o.handle[g].inter = heap.handle[src(g)].inter
      /\ \A g \in Handles \ {h, n} : o.handle[g] = heap.handle[g]
  BY <1>1, CopyHeap DEF Shape
<1>3. /\ span' = span /\ failed' = failed /\ hot' = {}
      /\ writer' \in {h, n}
  BY DEF Copy
<1>4. \A g \in live' : src(g) \in live /\ (g # n => src(g) = g) /\ src(n) = h
  BY <1>2
<1>5. \A g \in live', l \in Keys : PageOf(o, g, l) = PageOf(heap, src(g), l)
  BY <1>2 DEF PageOf
<1> HIDE DEF src
<1>6. \A g \in live', l \in Keys : Contents(o, g, l) = Contents(heap, src(g), l)
  BY <1>2, <1>5 DEF Contents
<1>7. \A g \in live' : Mapped(o, g) = Mapped(heap, src(g))
  BY <1>5 DEF Mapped
<1>8. Shape'
  <2>1. \A g \in Handles : o.handle[g].ones <= o.handle[g].inter
    BY <1>2, <1>4 DEF Shape, src
  <2> QED BY <1>1, <1>2, <1>3, <2>1 DEF Shape
<1>9. NothingYet'
  BY <1>1, <1>2 DEF NothingYet, IInv
<1>10. DirsPrivate(heap)'
  <2> SUFFICES ASSUME NEW f \in live', NEW g \in live', ~o.handle[g].lazy,
                      o.handle[f].dir = o.handle[g].dir
               PROVE  f = g
    BY <1>1 DEF DirsPrivate
  <2>1. g \notin {h, n} /\ src(g) = g /\ ~heap.handle[g].lazy /\ g \in live
    BY <1>2, <1>4
  <2>2. src(f) = g
    BY <1>2, <1>4, <2>1 DEF IInv, DirsPrivate
  <2> QED BY <1>4, <2>1, <2>2
<1>11. TreesPrivate(heap)'
  <2> SUFFICES ASSUME NEW f \in live', NEW g \in live', NEW l \in Keys,
                      NEW k \in Mapped(o, g), PageOf(o, f, l).tree = PageOf(o, g, k).tree
               PROVE  /\ l = k
                      /\ ~PageOf(o, g, k).lazy => o.handle[f].dir = o.handle[g].dir
    BY <1>1 DEF TreesPrivate, Mapped
  <2>1. k \in Keys /\ k \in Mapped(heap, src(g)) /\ src(f) \in live /\ src(g) \in live
    BY <1>4, <1>7 DEF Mapped
  <2>2. /\ PageOf(o, f, l) = PageOf(heap, src(f), l)
        /\ PageOf(o, g, k) = PageOf(heap, src(g), k)
    BY <1>5, <2>1
  <2>3. /\ l = k
        /\ ~PageOf(o, g, k).lazy =>
             heap.handle[src(f)].dir = heap.handle[src(g)].dir
    BY <2>1, <2>2 DEF TreesPrivate, IInv
  <2>4. f \in Handles /\ g \in Handles
    BY <1>2
  <2> QED BY <1>2, <2>3, <2>4
<1>12. LookupsKeyed(heap)'
  <2> SUFFICES ASSUME NEW f \in live', NEW g \in live', NEW l \in Keys,
                      NEW k \in Mapped(o, g),
                      PageOf(o, f, l).lookup = PageOf(o, g, k).lookup
               PROVE  l = k
    BY <1>1 DEF LookupsKeyed, Mapped
  <2>1. k \in Keys /\ k \in Mapped(heap, src(g)) /\ src(f) \in live /\ src(g) \in live
    BY <1>4, <1>7 DEF Mapped
  <2>2. /\ PageOf(o, f, l) = PageOf(heap, src(f), l)
        /\ PageOf(o, g, k) = PageOf(heap, src(g), k)
    BY <1>5, <2>1
  <2> QED BY <2>1, <2>2 DEF LookupsKeyed, IInv
<1>13. FiledByKey(heap)'
  BY <1>1, <1>3, <1>4, <1>6 DEF FiledByKey, IInv
<1> QED BY <1>1, <1>2, <1>3, <1>8, <1>9, <1>10, <1>11, <1>12, <1>13 DEF IInv

LEMMA NewInv ==
  ASSUME Shape, IInv, NEW h \in Handles, New(h)
  PROVE  Shape' /\ IInv'
<1>1. /\ live = {} /\ live' = {h} /\ writer' = h
      /\ UNCHANGED <<heap, span, failed, hot>>
  BY DEF New
<1>2. \A g \in Handles : heap.handle[g] = EmptyHandle /\ Mapped(heap, g) = {}
  BY <1>1 DEF IInv, NothingYet
<1>3. \A l \in Keys : PageOf(heap, h, l) = NoPage
  BY <1>2 DEF Mapped
<1>4. \A l \in Keys : SlotsOf(Contents(heap, h, l)) = {}
  BY <1>3 DEF Contents, Vacant, SlotsOf
<1>5. Shape'
  BY <1>1 DEF Shape
<1>6. NothingYet'
  BY <1>1, <1>2 DEF NothingYet
<1>7. DirsPrivate(heap)'
  BY <1>1 DEF DirsPrivate
<1>8. TreesPrivate(heap)' /\ LookupsKeyed(heap)' /\ LookupsOwn(heap, writer)'
  BY <1>1, <1>2 DEF TreesPrivate, LookupsKeyed, LookupsOwn
<1>9. FiledByKey(heap)'
  BY <1>1, <1>4 DEF FiledByKey
<1> QED BY <1>5, <1>6, <1>7, <1>8, <1>9 DEF IInv

LEMMA InitInv ==
  ASSUME Init
  PROVE  Shape /\ IInv
<1>1. live = {} /\ span = [d \in Data |-> <<>>] /\ failed = FALSE
      /\ writer \in Handles /\ hot = {}
      /\ heap.handle = [h \in Handles |-> EmptyHandle]
      /\ heap.dir = [d \in Dirs |-> [k \in Keys |-> NoPage]]
      /\ heap.tree = [n \in Names |-> Vacant]
      /\ heap.lookup = [n \in Names |-> {}]
  BY DEF Init
<1>2. 1 \in Dirs
  <2>1. IsFiniteSet(Handles) /\ Handles # {}
    BY <1>1, FiniteAssumption
  <2>2. Cardinality(Handles) # 0
    BY <2>1, FS_EmptySet
  <2> QED BY <2>2, NamesTyped DEF Dirs
<1>3. EmptyHandle \in [dir: Dirs, lazy: BOOLEAN, inter: Nat, ones: Nat]
  BY <1>2 DEF EmptyHandle
<1>4. heap \in Heaps
  BY <1>1, <1>3 DEF Init, Heaps, Vacant
<1>5. \A h \in Handles : Mapped(heap, h) = {}
  BY <1>1, <1>2 DEF Mapped, PageOf, EmptyHandle
<1>6. Shape
  <2>1. \A h \in Handles : heap.handle[h].ones = 0 /\ heap.handle[h].inter = 0
    BY <1>1 DEF EmptyHandle
  <2>2. \A h \in Handles : heap.handle[h].ones <= heap.handle[h].inter
    BY <2>1
  <2>3. span \in [Data -> Spans \cup {<<>>}]
    BY <1>1
  <2> QED BY <1>1, <1>4, <2>2, <2>3 DEF Shape
<1>7. NothingYet
  BY <1>1, <1>5 DEF NothingYet
<1> QED BY <1>1, <1>6, <1>7
      DEF IInv, DirsPrivate, TreesPrivate, LookupsKeyed, FiledByKey

-----------------------------------------------------------------------------
(* What an operation does to the items of each tree. *)

\* HeldData and its primed form, in terms of the pages.
LEMMA HeldDataIs ==
  ASSUME NEW h \in Handles
  PROVE  /\ Shape => HeldData(h) = Held(heap, h)
         /\ Shape' => HeldData(h)' = Held(heap', h)
BY HeldIs DEF HeldData, Shape

ItemOf(s, d) == <<s[1], s[2], d>>

LEMMA AddItems ==
  ASSUME Shape, IInv, NEW h \in Handles, NEW s \in Spans, NEW d \in Data, Add(h, s, d)
  PROVE  /\ h \in live /\ live' = live
         /\ ItemOf(s, d) \notin Items(h)
         /\ Items(h)' = Items(h) \cup {ItemOf(s, d)}
         /\ \A g \in live \ {h} : Items(g)' = Items(g)
<1> DEFINE k == PageKey(s)
<1>1. /\ Good(heap) /\ h \in live /\ live \subseteq Handles /\ heap \in Heaps
      /\ k \in Keys /\ FiledByKey(heap) /\ Shape'
  BY GoodIs, AddInv DEF IInv, Add, Shape, Keys
<1>2. PICK o : o = heap'
  OBVIOUS
<1>3. live' = live /\ span' = [span EXCEPT ![d] = s] /\ span[d] = <<>>
  BY DEF Add, FreshDatum
<1>4. AddsOnPage(heap, o, h, k, s, d)
  <2> HIDE DEF k
  <2>1. k = PageKey(s)
    BY DEF k
  <2> QED BY <1>1, <1>2, <2>1, AddHeap
<1> HIDE DEF k
<1>5. \A g \in live : \A y \in Held(heap, g) : y \in Data /\ span[y] # <<>> /\ y # d
  BY <1>1, <1>3, HeldAt DEF Held
<1>6. \A y \in Data \ {d} : span'[y] = span[y]
  BY <1>3 DEF Shape
<1>7. span'[d] = s
  BY <1>3 DEF Shape
<1>8. \A g \in live : Items(g) = {ItemOf(span[y], y) : y \in Held(heap, g)}
  BY <1>1, HeldDataIs DEF Items, ItemOf
<1>9. \A g \in live : Items(g)' = {ItemOf(span'[y], y) : y \in Held(o, g)}
  BY <1>1, <1>2, HeldDataIs DEF Items, ItemOf
<1>10. \A g \in live \ {h} : Held(o, g) = Held(heap, g)
  BY <1>4 DEF AddsOnPage, Held
<1>11. Held(o, h) = Held(heap, h) \cup {d}
  <2> DEFINE u == Contents(heap, h, k)
             t == Contents(o, h, k)
  <2>1. u \in [Data -> Data \cup {None}] /\ None \notin Data
    BY <1>1, PageTyped, BoundAssumption DEF None, Data
  <2>2. u[d] \notin Data
    BY <1>1, <1>3, <2>1 DEF FiledByKey, SlotsOf
  <2>3. t = [u EXCEPT ![d] = d]
    BY <1>1, <1>4 DEF AddsOnPage
  <2>4. \A l \in Keys \ {k} : Contents(o, h, l) = Contents(heap, h, l)
    BY <1>1, <1>4 DEF AddsOnPage
  <2>5. \A x \in Data : (\E y \in Data : t[y] = x) <=> (x = d \/ \E y \in Data : u[y] = x)
    BY <2>1, <2>2, <2>3
  <2> HIDE DEF u, t
  <2>6. \A x \in Data :
          x \in Held(o, h) <=> \/ \E y \in Data : t[y] = x
                               \/ \E l \in Keys \ {k}, y \in Data : Contents(heap, h, l)[y] = x
    BY <1>1, <2>4 DEF Held, t
  <2>7. \A x \in Data :
          x \in Held(heap, h) <=> \/ \E y \in Data : u[y] = x
                                  \/ \E l \in Keys \ {k}, y \in Data :
                                       Contents(heap, h, l)[y] = x
    BY <1>1 DEF Held, u
  <2>8. Held(o, h) \subseteq Data /\ Held(heap, h) \subseteq Data
    BY DEF Held
  <2> QED BY <2>5, <2>6, <2>7, <2>8
<1>12. ItemOf(s, d) \notin Items(h)
  BY <1>1, <1>5, <1>8 DEF ItemOf
<1>13. Items(h)' = Items(h) \cup {ItemOf(s, d)}
  BY <1>1, <1>5, <1>6, <1>7, <1>8, <1>9, <1>11
<1>14. \A g \in live \ {h} : Items(g)' = Items(g)
  <2> SUFFICES ASSUME NEW g \in live \ {h}
               PROVE  Items(g)' = Items(g)
    OBVIOUS
  <2>1. \A y \in Held(heap, g) : ItemOf(span'[y], y) = ItemOf(span[y], y)
    BY <1>5, <1>6
  <2>2. /\ Items(g) = {ItemOf(span[y], y) : y \in Held(heap, g)}
        /\ Items(g)' = {ItemOf(span'[y], y) : y \in Held(heap, g)}
    BY <1>8, <1>9, <1>10
  <2> QED BY <2>1, <2>2
<1> QED BY <1>1, <1>3, <1>12, <1>13, <1>14

\* The trees G an update reaches have the item, and get the new one for it.
Replaces(G, i, j) ==
  /\ G \subseteq live
  /\ \A g \in G : i \in Items(g) /\ j \notin Items(g) /\ Items(g)' = (Items(g) \ {i}) \cup {j}
  /\ \A g \in live \ G : Items(g)' = Items(g)

LEMMA UpdateItems ==
  ASSUME Shape, IInv, NEW h \in Handles, NEW q \in Data, NEW d \in Data,
         UpdateItem(h, q, d)
  PROVE  /\ h \in live /\ live' = live
         /\ \/ /\ failed' = TRUE /\ writer' = writer /\ (Served(h) => q \in hot)
               /\ \A g \in live : Items(g)' = Items(g)
            \/ /\ failed' = failed /\ writer' = h
               /\ \E G : /\ Replaces(G, ItemOf(span[q], q), ItemOf(span[q], d))
                         /\ Served(h) => G = {h}
<1> DEFINE k == PageKey(span[q])
<1>1. /\ live \subseteq Handles /\ heap \in Heaps /\ FiledByKey(heap) /\ Shape'
  BY UpdateInv DEF Shape, IInv
<1>2. PICK o : o = heap'
  OBVIOUS
<1>3. /\ h \in live /\ q \in Held(heap, h) /\ live' = live /\ Good(o)
      /\ \/ UpdateFails(h, o) /\ (Served(h) => q \in hot)
         \/ \E G, x : UpdateSwaps(h, o, G, x, q, d)
  BY <1>2, UpdateHeap
<1>4. span[d] = <<>> /\ span[q] # <<>> /\ k \in Keys /\ q # d
  BY <1>1, <1>3, HeldAt DEF UpdateItem, FreshDatum
<1>5. \A g \in live : \A y \in Held(heap, g) : y \in Data /\ span[y] # <<>> /\ y # d
  BY <1>1, <1>4, HeldAt DEF Held
<1>6. \A g \in live : Items(g) = {ItemOf(span[y], y) : y \in Held(heap, g)}
  BY <1>1, HeldDataIs DEF Items, ItemOf
<1>7. \A g \in live : Items(g)' = {ItemOf(span'[y], y) : y \in Held(o, g)}
  BY <1>1, <1>2, HeldDataIs DEF Items, ItemOf
<1>8. CASE UpdateFails(h, o) /\ (Served(h) => q \in hot)
  <2>1. \A g \in live : Held(o, g) = Held(heap, g)
    BY <1>8 DEF UpdateFails, SameContents, Held
  <2>2. failed' = TRUE /\ writer' = writer /\ span' = span
    BY <1>8 DEF UpdateFails
  <2>3. \A g \in live : Items(g)' = Items(g)
    BY <1>6, <1>7, <2>1, <2>2
  <2> QED BY <1>3, <1>8, <2>2, <2>3
<1>9. CASE \E G, x : UpdateSwaps(h, o, G, x, q, d)
  <2>1. PICK G, x : UpdateSwaps(h, o, G, x, q, d)
    BY <1>9
  <2>2. /\ x \in Data /\ SwapsOnPages(heap, o, G, k, x, q, d)
        /\ Served(h) => G = {h}
        /\ span' = [span EXCEPT ![d] = span[q]]
        /\ writer' = h /\ failed' = failed
    BY <2>1 DEF UpdateSwaps
  <2> HIDE DEF k
  <2>3. span'[d] = span[q] /\ \A y \in Data \ {d} : span'[y] = span[y]
    BY <2>2 DEF Shape
  <2>4. \A g \in live \ G : Held(o, g) = Held(heap, g)
    BY <2>2 DEF SwapsOnPages, Held
  <2>5. ASSUME NEW g \in G
        PROVE  /\ g \in live /\ q \in Held(heap, g)
               /\ Held(o, g) = (Held(heap, g) \ {q}) \cup {d}
    <3> DEFINE u == Contents(heap, g, k)
               t == Contents(o, g, k)
    <3>1. g \in live
      BY <2>2 DEF SwapsOnPages
    <3>2. u \in [Data -> Data \cup {None}] /\ None \notin Data
      BY <1>1, <1>4, <3>1, PageTyped, BoundAssumption DEF None, Data
    <3>3. t = [u EXCEPT ![x] = d] /\ u[x] = q
      BY <1>4, <2>2, <3>1 DEF SwapsOnPages
    <3>4. \A y \in Data : u[y] = q => y = x
      BY <1>1, <1>4, <2>2, <3>1, <3>2, <3>3 DEF FiledByKey, SlotsOf
    <3>5. \A l \in Keys \ {k} : Contents(o, g, l) = Contents(heap, g, l)
      BY <1>4, <2>2, <3>1 DEF SwapsOnPages
    <3>6. \A l \in Keys \ {k}, y \in Data : Contents(heap, g, l)[y] # q
      <4> SUFFICES ASSUME NEW l \in Keys, NEW y \in Data, Contents(heap, g, l)[y] = q
                   PROVE  l = k
        OBVIOUS
      <4>1. y \in SlotsOf(Contents(heap, g, l))
        BY <3>2 DEF SlotsOf
      <4> QED BY <1>1, <3>1, <4>1 DEF FiledByKey, k
    <3> HIDE DEF u, t
    <3>7. \A z \in Data : (\E y \in Data : t[y] = z) <=>
                            (z = d \/ (z # q /\ \E y \in Data : u[y] = z))
      BY <1>4, <2>2, <3>2, <3>3, <3>4
    <3>8. \A z \in Data :
            z \in Held(o, g) <=> \/ \E y \in Data : t[y] = z
                                 \/ \E l \in Keys \ {k}, y \in Data :
                                      Contents(heap, g, l)[y] = z
      BY <1>4, <3>5 DEF Held, t
    <3>9. \A z \in Data :
            z \in Held(heap, g) <=> \/ \E y \in Data : u[y] = z
                                    \/ \E l \in Keys \ {k}, y \in Data :
                                         Contents(heap, g, l)[y] = z
      BY <1>4 DEF Held, u
    <3>10. Held(o, g) \subseteq Data /\ Held(heap, g) \subseteq Data
      BY DEF Held
    <3>11. q \in Held(heap, g)
      BY <2>2, <3>3, <3>9
    <3>12. \A z \in Data : z \in Held(o, g) <=> z = d \/ (z # q /\ z \in Held(heap, g))
      BY <1>4, <3>6, <3>7, <3>8, <3>9
    <3> QED BY <3>1, <3>10, <3>11, <3>12
  <2>6. ASSUME NEW g \in G
        PROVE  /\ ItemOf(span[q], q) \in Items(g) /\ ItemOf(span[q], d) \notin Items(g)
               /\ Items(g)' = (Items(g) \ {ItemOf(span[q], q)}) \cup {ItemOf(span[q], d)}
    <3>1. \A y, z, s, r : ItemOf(s, y) = ItemOf(r, z) => y = z
      BY DEF ItemOf
    <3> QED BY <1>5, <1>6, <1>7, <2>3, <2>5, <3>1
  <2>7. ASSUME NEW g \in live \ G
        PROVE  Items(g)' = Items(g)
    <3>1. \A y \in Held(heap, g) : ItemOf(span'[y], y) = ItemOf(span[y], y)
      BY <1>5, <2>3
    <3>2. /\ Items(g) = {ItemOf(span[y], y) : y \in Held(heap, g)}
          /\ Items(g)' = {ItemOf(span'[y], y) : y \in Held(heap, g)}
      BY <1>6, <1>7, <2>4
    <3> QED BY <3>1, <3>2
  <2>8. G \subseteq live
    BY <2>2 DEF SwapsOnPages
  <2>9. Replaces(G, ItemOf(span[q], q), ItemOf(span[q], d))
    BY <2>6, <2>7, <2>8 DEF Replaces
  <2> QED BY <1>3, <2>2, <2>9
<1> QED BY <1>3, <1>8, <1>9

LEMMA CopyItems ==
  ASSUME Shape, IInv, NEW h \in Handles, NEW n \in Handles, Copy(h, n)
  PROVE  /\ h \in live /\ n \notin live /\ live' = live \cup {n}
         /\ \A g \in live : Items(g)' = Items(g)
         /\ Items(n)' = Items(h)
<1>1. PICK o : o = heap'
  OBVIOUS
<1>2. /\ h \in live /\ n \notin live /\ live' = live \cup {n} /\ live \subseteq Handles
      /\ o.dir = heap.dir /\ o.tree = heap.tree
      /\ o.handle[n].dir = heap.handle[h].dir
      /\ \A g \in live : o.handle[g].dir = heap.handle[g].dir
  BY <1>1, CopyHeap DEF Shape
<1>3. Shape' /\ span' = span
  BY CopyInv DEF Copy
<1>4. \A l \in Keys : /\ Contents(o, n, l) = Contents(heap, h, l)
                      /\ \A g \in live : Contents(o, g, l) = Contents(heap, g, l)
  BY <1>2 DEF Contents, PageOf
<1>5. Held(o, n) = Held(heap, h) /\ \A g \in live : Held(o, g) = Held(heap, g)
  BY <1>4 DEF Held
<1>6. \A g \in Handles : Items(g) = {ItemOf(span[y], y) : y \in Held(heap, g)}
  BY HeldDataIs DEF Items, ItemOf
<1>7. \A g \in Handles : Items(g)' = {ItemOf(span[y], y) : y \in Held(o, g)}
  BY <1>1, <1>3, HeldDataIs DEF Items, ItemOf
<1> QED BY <1>2, <1>5, <1>6, <1>7

LEMMA NewItems ==
  ASSUME Shape, IInv, NEW h \in Handles, New(h)
  PROVE  live = {} /\ live' = {h} /\ Items(h)' = {}
<1>1. live = {} /\ live' = {h} /\ heap' = heap
  BY DEF New
<1>2. \A l \in Keys : PageOf(heap, h, l) = NoPage
  BY <1>1 DEF IInv, NothingYet, Mapped
<1>3. \A l \in Keys : PageData(heap, h, l) = {}
  BY <1>2 DEF PageData, Contents, Vacant, SlotsOf
<1>4. HeldData(h)' = {}
  BY <1>1, <1>3 DEF HeldData
<1> QED BY <1>1, <1>4 DEF Items

-----------------------------------------------------------------------------
(* The statistics. *)

Lone(S) == {i \in S : i[1] + 1 = i[2]}

\* A new item counts once, and among those of length one if it is of them.
LEMMA CountAdded ==
  ASSUME NEW S, IsFiniteSet(S), NEW x, x \notin S
  PROVE  /\ Cardinality(S \cup {x}) = Cardinality(S) + 1
         /\ Cardinality(Lone(S \cup {x})) =
              Cardinality(Lone(S)) + (IF x[1] + 1 = x[2] THEN 1 ELSE 0)
<1>1. IsFiniteSet(Lone(S)) /\ Cardinality(Lone(S)) \in Nat
  BY FS_Subset, FS_CardinalityType DEF Lone
<1>2. Cardinality(S \cup {x}) = Cardinality(S) + 1
  BY FS_AddElement
<1>3. CASE x[1] + 1 = x[2]
  <2>1. Lone(S \cup {x}) = Lone(S) \cup {x} /\ x \notin Lone(S)
    BY <1>3 DEF Lone
  <2> QED BY <1>1, <1>2, <1>3, <2>1, FS_AddElement
<1>4. CASE x[1] + 1 # x[2]
  <2>1. Lone(S \cup {x}) = Lone(S)
    BY <1>4 DEF Lone
  <2> QED BY <1>1, <1>2, <1>4, <2>1
<1> QED BY <1>3, <1>4

\* An item in the place of another of the same interval changes no count.
LEMMA CountSwapped ==
  ASSUME NEW S, IsFiniteSet(S), NEW x \in S, NEW y, y \notin S,
         x[1] = y[1], x[2] = y[2]
  PROVE  /\ Cardinality((S \ {x}) \cup {y}) = Cardinality(S)
         /\ Cardinality(Lone((S \ {x}) \cup {y})) = Cardinality(Lone(S))
<1> DEFINE R == S \ {x}
<1>1. IsFiniteSet(R) /\ x \notin R /\ y \notin R /\ R \cup {x} = S
  BY FS_RemoveElement
<1>2. Cardinality(R) \in Nat /\ Cardinality(Lone(R)) \in Nat
  BY <1>1, FS_Subset, FS_CardinalityType DEF Lone
<1> HIDE DEF R
<1>3. /\ Cardinality(S) = Cardinality(R \cup {y})
      /\ Cardinality(Lone(S)) = Cardinality(Lone(R \cup {y}))
  BY <1>1, <1>2, CountAdded
<1> QED BY <1>3 DEF R

LEMMA ItemsFinite ==
  ASSUME Shape, NEW h \in Handles
  PROVE  IsFiniteSet(Items(h)) /\ Cardinality(Items(h)) <= MaxData
<1> DEFINE f == [d \in Held(heap, h) |-> ItemOf(span[d], d)]
<1>1. Items(h) = {ItemOf(span[d], d) : d \in Held(heap, h)}
  BY HeldDataIs DEF Items, ItemOf
<1>2. f \in Surjection(Held(heap, h), Items(h))
  BY <1>1 DEF Surjection
<1>3. IsFiniteSet(Data) /\ Cardinality(Data) = MaxData
  BY BoundAssumption, FS_Interval DEF Data
<1>4. IsFiniteSet(Held(heap, h)) /\ Cardinality(Held(heap, h)) <= MaxData
  BY <1>3, FS_Subset DEF Held
<1>5. /\ IsFiniteSet(Items(h))
      /\ Cardinality(Items(h)) <= Cardinality(Held(heap, h))
  <2> HIDE DEF f
  <2> QED BY <1>2, <1>4, FS_Surjection
<1>6. Cardinality(Items(h)) \in Nat /\ Cardinality(Held(heap, h)) \in Nat
  BY <1>4, <1>5, FS_CardinalityType
<1> QED BY <1>4, <1>5, <1>6, BoundAssumption

\* The count of one tree.
CountsIn(g) ==
  /\ heap.handle[g].inter = Cardinality(Items(g))
  /\ heap.handle[g].ones = Cardinality(Lone(Items(g)))

LEMMA CountsAre ==
  /\ CountsMatch <=> \A g \in live : CountsIn(g)
  /\ CountsMatch' <=> \A g \in live' : CountsIn(g)'
BY DEF CountsMatch, CountsIn, Lone

LEMMA AddCounts ==
  ASSUME Shape, IInv, CountsMatch,
         NEW h \in Handles, NEW s \in Spans, NEW d \in Data, Add(h, s, d)
  PROVE  CountsMatch'
<1>1. /\ h \in live /\ live' = live /\ live \subseteq Handles
      /\ ItemOf(s, d) \notin Items(h)
      /\ Items(h)' = Items(h) \cup {ItemOf(s, d)}
      /\ \A g \in live \ {h} : Items(g)' = Items(g)
  BY AddItems DEF Shape
<1>2. PICK o, k : o = heap' /\ k = PageKey(s)
  OBVIOUS
<1>3. AddsOnPage(heap, o, h, k, s, d)
  BY <1>1, <1>2, GoodIs, AddHeap DEF IInv
<1>4. IsFiniteSet(Items(h))
  BY ItemsFinite
<1>5. ItemOf(s, d)[1] = s[1] /\ ItemOf(s, d)[2] = s[2]
  BY DEF ItemOf
<1>6. /\ Cardinality(Items(h)') = Cardinality(Items(h)) + 1
      /\ Cardinality(Lone(Items(h)')) =
           Cardinality(Lone(Items(h))) + (IF s[1] + 1 = s[2] THEN 1 ELSE 0)
  BY <1>1, <1>4, <1>5, CountAdded
<1>7. CountsIn(h)'
  BY <1>1, <1>2, <1>3, <1>6, CountsAre DEF CountsIn, AddsOnPage
<1>8. \A g \in live \ {h} : CountsIn(g)'
  BY <1>1, <1>2, <1>3, CountsAre DEF CountsIn, AddsOnPage
<1>9. CountsMatch' <=> \A g \in live' : CountsIn(g)'
  BY CountsAre
<1> QED BY <1>1, <1>7, <1>8, <1>9

LEMMA UpdateCounts ==
  ASSUME Shape, IInv, CountsMatch,
         NEW h \in Handles, NEW q \in Data, NEW d \in Data, UpdateItem(h, q, d)
  PROVE  CountsMatch'
<1> DEFINE i == ItemOf(span[q], q)
           j == ItemOf(span[q], d)
<1>1. PICK o : o = heap'
  OBVIOUS
<1>2. SameStatistics(heap, o) /\ live' = live /\ live \subseteq Handles
  BY <1>1, UpdateHeap DEF Shape
<1>3. \/ \A g \in live : Items(g)' = Items(g)
      \/ \E G : Replaces(G, i, j)
  BY UpdateItems
<1>4. i[1] = j[1] /\ i[2] = j[2]
  BY DEF ItemOf
<1> HIDE DEF i, j
<1>5. ASSUME NEW g \in live
      PROVE  CountsIn(g)'
  <2>1. IsFiniteSet(Items(g)) /\ g \in Handles
    BY <1>2, ItemsFinite
  <2>2. \/ Items(g)' = Items(g)
        \/ i \in Items(g) /\ j \notin Items(g) /\ Items(g)' = (Items(g) \ {i}) \cup {j}
    BY <1>3 DEF Replaces
  <2>3. /\ Cardinality(Items(g)') = Cardinality(Items(g))
        /\ Cardinality(Lone(Items(g)')) = Cardinality(Lone(Items(g)))
    BY <1>4, <2>1, <2>2, CountSwapped
  <2> QED BY <1>1, <1>2, <2>1, <2>3, CountsAre DEF CountsIn, SameStatistics
<1>6. CountsMatch' <=> \A g \in live' : CountsIn(g)'
  BY CountsAre
<1> QED BY <1>2, <1>5, <1>6

LEMMA CopyCounts ==
  ASSUME Shape, IInv, CountsMatch, NEW h \in Handles, NEW n \in Handles, Copy(h, n)
  PROVE  CountsMatch'
<1>1. /\ h \in live /\ n \notin live /\ live' = live \cup {n} /\ live \subseteq Handles
      /\ \A g \in live : Items(g)' = Items(g)
      /\ Items(n)' = Items(h)
  BY CopyItems DEF Shape
<1>2. /\ heap'.handle[n].inter = heap.handle[h].inter
      /\ heap'.handle[n].ones = heap.handle[h].ones
      /\ \A g \in live : /\ heap'.handle[g].inter = heap.handle[g].inter
                         /\ heap'.handle[g].ones = heap.handle[g].ones
  BY <1>1, CopyHeap
<1>3. \A g \in live : CountsIn(g)'
  BY <1>1, <1>2, CountsAre DEF CountsIn
<1>4. CountsIn(n)'
  BY <1>1, <1>2, CountsAre DEF CountsIn
<1>5. CountsMatch' <=> \A g \in live' : CountsIn(g)'
  BY CountsAre
<1> QED BY <1>1, <1>3, <1>4, <1>5

LEMMA NewCounts ==
  ASSUME Shape, IInv, NEW h \in Handles, New(h)
  PROVE  CountsMatch'
<1>1. live' = {h} /\ Items(h)' = {} /\ heap' = heap
  BY NewItems DEF New
<1>2. heap.handle[h].inter = 0 /\ heap.handle[h].ones = 0
  BY DEF New, IInv, NothingYet, EmptyHandle
<1>3. CountsIn(h)'
  BY <1>1, <1>2, FS_EmptySet DEF CountsIn, Lone
<1>4. CountsMatch' <=> \A g \in live' : CountsIn(g)'
  BY CountsAre
<1> QED BY <1>1, <1>3, <1>4

-----------------------------------------------------------------------------
(* The theorems.  The first four hold for every client. *)

Inv == Shape /\ IInv /\ CountsMatch

LEMMA InvHolds == Spec => []Inv
<1>1. Init => Inv
  BY InitInv DEF Inv, Init, CountsMatch
<1>2. Inv /\ [Next]_vars => Inv'
  <2> SUFFICES ASSUME Inv, [Next]_vars PROVE Inv'
    OBVIOUS
  <2> USE DEF Inv
  <2>1. ASSUME NEW h \in Handles, New(h) PROVE Inv'
    BY <2>1, NewInv, NewCounts
  <2>2. ASSUME NEW h \in Handles, NEW s \in Spans, NEW d \in Data, Add(h, s, d)
        PROVE  Inv'
    BY <2>2, AddInv, AddCounts
  <2>3. ASSUME NEW h \in Handles, NEW q \in Data, NEW d \in Data, UpdateItem(h, q, d)
        PROVE  Inv'
    BY <2>3, UpdateInv, UpdateCounts
  <2>4. ASSUME NEW h \in Handles, NEW n \in Handles, Copy(h, n) PROVE Inv'
    BY <2>4, CopyInv, CopyCounts
  <2>5. CASE UNCHANGED vars
    <3>1. /\ live' = live /\ heap' = heap /\ span' = span /\ failed' = failed
          /\ writer' = writer /\ hot' = hot
      BY <2>5 DEF vars
    <3>2. Shape'
      BY <3>1 DEF Shape
    <3>3. \A g : Items(g)' = Items(g)
      BY <3>1 DEF Items, HeldData
    <3>4. CountsMatch'
      BY <3>1, <3>3 DEF CountsMatch
    <3>5. NothingYet' /\ FiledByKey(heap)'
      BY <3>1 DEF NothingYet, FiledByKey, IInv
    <3>6. DirsPrivate(heap)' /\ TreesPrivate(heap)' /\ LookupsKeyed(heap)'
      BY <3>1 DEF DirsPrivate, TreesPrivate, LookupsKeyed, IInv
    <3>7. LookupsOwn(heap, writer)' <=> LookupsOwn(heap, writer)
      BY <3>1 DEF LookupsOwn
    <3>8. IInv'
      BY <3>1, <3>5, <3>6, <3>7 DEF IInv
    <3> QED BY <3>2, <3>4, <3>8
  <2> QED BY <2>1, <2>2, <2>3, <2>4, <2>5 DEF Next
<1> QED BY <1>1, <1>2, PTL DEF Spec

\* Whatever the client does, no operation writes to an object that another
\* tree, or another page, goes on using, an item stays on the page of its key,
\* and a client that writes one tree at a time finds the lookup dicts of that
\* tree leading into its own page trees (_copy_on_write at both levels).
THEOREM Sharing == Spec => []IInv
<1>1. Inv => IInv
  BY DEF Inv
<1> QED BY <1>1, InvHolds, PTL

\* The statistics of a tree count its items, and those of length one, though
\* copies share the items and update_item() touches no count.
THEOREM Counted == Spec => []CountsMatch
<1>1. Inv => CountsMatch
  BY DEF Inv
<1> QED BY <1>1, InvHolds, PTL

\* The heap keeps its shape: there is always a name for a new object among as
\* many as there are keys and trees, and no tree counts more intervals than
\* were made.
THEOREM Typed == Spec => []TypeOK
<1>1. Inv => TypeOK
  <2> SUFFICES ASSUME Inv PROVE TypeOK
    OBVIOUS
  <2> USE DEF Inv
  <2>1. ASSUME NEW h \in Handles
        PROVE  heap.handle[h].inter <= MaxData
    <3>1. CASE h \in live
      BY <3>1, ItemsFinite DEF CountsMatch
    <3>2. CASE h \notin live
      BY <3>2, BoundAssumption DEF IInv, NothingYet, EmptyHandle
    <3> QED BY <3>1, <3>2
  <2> QED BY <2>1 DEF Shape, TypeOK
<1> QED BY <1>1, InvHolds, PTL

\* Division by the page size keeps the order of two bounds.
LEMMA DivMonotone ==
  ASSUME NEW a \in Nat, NEW b \in Nat, a <= b
  PROVE  /\ a \div PageSize \in Nat /\ b \div PageSize \in Nat
         /\ a \div PageSize <= b \div PageSize
<1> DEFINE x == a \div PageSize
           y == b \div PageSize
<1>1. PageSize \in Nat /\ PageSize > 0
  BY PageSizeAssumption
<1>2. /\ x \in Nat /\ y \in Nat
      /\ a = PageSize * x + (a % PageSize) /\ b = PageSize * y + (b % PageSize)
      /\ a % PageSize \in 0 .. PageSize - 1 /\ b % PageSize \in 0 .. PageSize - 1
  BY <1>1
<1> HIDE DEF x, y
<1>3. ASSUME x > y PROVE FALSE
  <2>1. x >= y + 1
    BY <1>2, <1>3
  <2>2. PageSize * x >= PageSize * (y + 1)
    BY <1>1, <1>2, <2>1
  <2>3. PageSize * (y + 1) = PageSize * y + PageSize
    BY <1>1, <1>2
  <2>4. PageSize * x \in Nat /\ PageSize * y \in Nat
    BY <1>1, <1>2
  <2> QED BY <1>1, <1>2, <2>2, <2>3, <2>4
<1> QED BY <1>2, <1>3 DEF x, y

\* An item and a query that overlap have pages that overlap.
LEMMA PagesOverlap ==
  ASSUME NEW s \in Nat \X Nat, s[1] < s[2], NEW r \in Nat \X Nat, r[1] < r[2],
         Overlap(s, r)
  PROVE  Overlap(PageKey(s), PageKey(r))
<1>1. s[1] \in Nat /\ s[2] \in Nat /\ r[1] \in Nat /\ r[2] \in Nat
  OBVIOUS
<1>2. s[1] <= r[2] /\ r[1] <= s[2]
  BY <1>1 DEF Overlap
<1>3. /\ s[1] \div PageSize \in Nat /\ r[2] \div PageSize \in Nat
      /\ s[1] \div PageSize <= r[2] \div PageSize
      /\ r[1] \div PageSize \in Nat /\ s[2] \div PageSize \in Nat
      /\ r[1] \div PageSize <= s[2] \div PageSize
  BY <1>1, <1>2, DivMonotone
<1> QED BY <1>3 DEF Overlap, PageKey

\* Two ways to say that intervals overlap: Interval.overlap and Untree's.
LEMMA OverlapIsIntersect ==
  ASSUME NEW s \in Nat \X Nat, s[1] < s[2], NEW r \in Nat \X Nat, r[1] < r[2]
  PROVE  Overlap(s, r) <=> Oracle!Intersect(r[1], r[2], s[1], s[2])
<1>1. s[1] \in Nat /\ s[2] \in Nat /\ r[1] \in Nat /\ r[2] \in Nat
  OBVIOUS
<1> QED BY <1>1 DEF Overlap, Oracle!Intersect

\* A search looks only at the pages that overlap the pages of its range, and
\* misses no item, nor adds one.
THEOREM Searched == Spec => []SearchIsExact
<1>1. Inv => SearchIsExact
  <2> SUFFICES ASSUME Inv, NEW h \in live, NEW r \in Queries
               PROVE  Search(h, r) = {i[3] : i \in Oracle!Hits(Items(h), r[1], r[2])}
    BY DEF SearchIsExact
  <2>1. r \in Nat \X Nat /\ r[1] < r[2]
    BY DEF Queries
  <2>2. live \subseteq Handles /\ heap \in Heaps /\ FiledByKey(heap) /\ Shape
    BY DEF Inv, IInv, Shape
  <2>3. Items(h) = {ItemOf(span[d], d) : d \in Held(heap, h)}
    BY <2>2, HeldDataIs DEF Items, ItemOf
  <2>4. ASSUME NEW d \in Held(heap, h)
        PROVE  span[d] \in Nat \X Nat /\ span[d][1] < span[d][2]
    BY <2>2, HeldAt, SpansAssumption DEF Shape, Held
  <2>5. Search(h, r) = {d \in Held(heap, h) : Overlap(span[d], r)}
    <3>1. \A k \in Keys : PageData(heap, h, k) =
            {d \in Data : \E s \in Data : Contents(heap, h, k)[s] = d}
      <4>1. \A k \in Keys : Contents(heap, h, k) \in [Data -> Data \cup {None}]
        BY <2>2, PageTyped
      <4>2. None \notin Data
        BY BoundAssumption DEF None, Data
      <4> QED BY <4>1, <4>2 DEF PageData, SlotsOf
    <3>2. ASSUME NEW d \in Search(h, r)
          PROVE  d \in Held(heap, h) /\ Overlap(span[d], r)
      BY <3>1 DEF Search, Mapped, Held
    <3>3. ASSUME NEW d \in Held(heap, h), Overlap(span[d], r)
          PROVE  d \in Search(h, r)
      <4> DEFINE k == PageKey(span[d])
      <4>1. k \in Keys /\ \E s \in Data : Contents(heap, h, k)[s] = d
        BY <2>2, HeldAt
      <4>2. d \in PageData(heap, h, k)
        BY <3>1, <4>1 DEF Held
      <4>3. d # None
        BY BoundAssumption DEF Held, Data, None
      <4>4. k \in Mapped(heap, h)
        BY <4>1, <4>3 DEF Mapped, Contents, Vacant
      <4>5. Overlap(k, PageKey(r))
        BY <2>1, <2>4, <3>3, PagesOverlap
      <4> HIDE DEF k
      <4> QED BY <3>3, <4>2, <4>4, <4>5 DEF Search
    <3> QED BY <3>2, <3>3
  <2>6. {i[3] : i \in Oracle!Hits(Items(h), r[1], r[2])}
          = {d \in Held(heap, h) : Oracle!Intersect(r[1], r[2], span[d][1], span[d][2])}
    <3> DEFINE hit(i) == Oracle!Intersect(r[1], r[2], i[1], i[2])
    <3>1. Oracle!Hits(Items(h), r[1], r[2]) = {i \in Items(h) : hit(i)}
      BY DEF Oracle!Hits
    <3>2. \A d : hit(ItemOf(span[d], d)) <=>
                  Oracle!Intersect(r[1], r[2], span[d][1], span[d][2])
      BY DEF ItemOf
    <3>3. \A d : ItemOf(span[d], d)[3] = d
      BY DEF ItemOf
    <3> HIDE DEF hit
    <3>4. {i[3] : i \in {j \in Items(h) : hit(j)}}
            = {d \in Held(heap, h) : hit(ItemOf(span[d], d))}
      BY <2>3, <3>3
    <3> QED BY <3>1, <3>2, <3>4
  <2> QED BY <2>1, <2>4, <2>5, <2>6, OverlapIsIntersect
<1> QED BY <1>1, InvHolds, PTL

-----------------------------------------------------------------------------
(* For a client that writes one tree at a time, the pages and the sharing   *)
(* are not to be seen.                                                      *)

LEMMA WriterServed ==
  ASSUME ~Interleave, IInv, NEW h \in live, MayWrite(h)
  PROVE  Served(h)
BY DEF MayWrite, IInv, Served

LEMMA ListsAre ==
  /\ Lists = [g \in Handles |-> IF g \in live THEN Items(g) ELSE {}]
  /\ Lists' = [g \in Handles |-> IF g \in live' THEN Items(g)' ELSE {}]
BY DEF Lists

LEMMA StepRefines ==
  ASSUME ~Interleave, Inv, [Next]_vars
  PROVE  Oracle!Next \/ UNCHANGED Oracle!vars
<1> USE DEF Inv
<1>1. ASSUME NEW h \in Handles, New(h) PROVE Oracle!Next
  <2>1. live = {} /\ live' = {h} /\ writer' = h /\ Items(h)' = {}
    BY <1>1, NewItems DEF New
  <2>2. Lists' = Lists
    BY <2>1, ListsAre
  <2>3. Oracle!New(h)
    BY <2>1, <2>2 DEF Oracle!New
  <2> QED BY <2>3 DEF Oracle!Next
<1>2. ASSUME NEW h \in Handles, NEW s \in Spans, NEW d \in Data, Add(h, s, d)
      PROVE  Oracle!Next
  <2>1. /\ h \in live /\ live' = live /\ writer' = h
        /\ Items(h)' = Items(h) \cup {<<s[1], s[2], d>>}
        /\ \A g \in live \ {h} : Items(g)' = Items(g)
    BY <1>2, AddItems DEF Add, ItemOf
  <2>2. Lists' = [Lists EXCEPT ![h] = @ \cup {<<s[1], s[2], d>>}]
    BY <2>1, ListsAre
  <2>3. Oracle!Add(h, s, d)
    BY <2>1, <2>2 DEF Oracle!Add
  <2> QED BY <2>3 DEF Oracle!Next
<1>3. ASSUME NEW h \in Handles, NEW q \in Data, NEW d \in Data, UpdateItem(h, q, d)
      PROVE  Oracle!Next \/ UNCHANGED Oracle!vars
  <2>1. /\ h \in live /\ live' = live
        /\ \/ /\ failed' = TRUE /\ writer' = writer /\ (Served(h) => q \in hot)
              /\ \A g \in live : Items(g)' = Items(g)
           \/ /\ failed' = failed /\ writer' = h
              /\ \E G : /\ Replaces(G, ItemOf(span[q], q), ItemOf(span[q], d))
                        /\ Served(h) => G = {h}
    BY <1>3, UpdateItems
  <2>2. Served(h)
    BY <1>3, <2>1, WriterServed DEF UpdateItem
  <2>3. CASE writer' = writer /\ \A g \in live : Items(g)' = Items(g)
    <3>1. Lists' = Lists
      BY <2>1, <2>3, ListsAre
    <3> QED BY <2>1, <2>3, <3>1 DEF Oracle!vars
  <2>4. CASE /\ writer' = h
             /\ \E G : /\ Replaces(G, ItemOf(span[q], q), ItemOf(span[q], d))
                       /\ Served(h) => G = {h}
    <3> DEFINE i == ItemOf(span[q], q)
    <3>1. Replaces({h}, i, ItemOf(span[q], d))
      BY <2>2, <2>4
    <3>2. i[1] = span[q][1] /\ i[2] = span[q][2]
      BY DEF ItemOf
    <3> HIDE DEF i
    <3>3. /\ i \in Items(h)
          /\ Items(h)' = (Items(h) \ {i}) \cup {<<i[1], i[2], d>>}
          /\ \A g \in live \ {h} : Items(g)' = Items(g)
      BY <3>1, <3>2 DEF Replaces, ItemOf
    <3>4. /\ i \in Lists[h]
          /\ Lists' = [Lists EXCEPT ![h] = (@ \ {i}) \cup {<<i[1], i[2], d>>}]
      BY <2>1, <3>3, ListsAre
    <3>5. Oracle!UpdateItem(h, i, d)
      BY <2>1, <2>4, <3>4 DEF Oracle!UpdateItem
    <3> QED BY <2>1, <3>4, <3>5 DEF Oracle!Next
  <2> QED BY <2>1, <2>3, <2>4
<1>4. ASSUME NEW h \in Handles, NEW n \in Handles, Copy(h, n) PROVE Oracle!Next
  <2>1. /\ h \in live /\ n \notin live /\ live' = live \cup {n}
        /\ \A g \in live : Items(g)' = Items(g)
        /\ Items(n)' = Items(h)
        /\ writer' \in {writer, n}
    BY <1>4, CopyItems DEF Copy
  <2>2. Lists' = [Lists EXCEPT ![n] = Lists[h]]
    BY <2>1, ListsAre
  <2>3. Oracle!Copy(h, n)
    BY <2>1, <2>2 DEF Oracle!Copy
  <2> QED BY <2>3 DEF Oracle!Next
<1>5. CASE UNCHANGED vars
  <2>1. live' = live /\ heap' = heap /\ span' = span /\ writer' = writer
    BY <1>5 DEF vars
  <2>2. \A g : Items(g)' = Items(g)
    BY <2>1 DEF Items, HeldData
  <2>3. Lists' = Lists
    BY <2>1, <2>2, ListsAre
  <2> QED BY <2>1, <2>3 DEF Oracle!vars
<1> QED BY <1>1, <1>2, <1>3, <1>4, <1>5 DEF Next

\* The paged tree behaves as the plain list (what tester.py looks for), if the
\* client writes the tree of one state at a time.  An item may even be updated
\* twice without a copy in between: where that fails, it changes no tree.
THEOREM PagesAreInvisible ==
  ASSUME ~Interleave
  PROVE  Spec => IsUntree
<1>1. Init => Oracle!Init
  <2> SUFFICES ASSUME Init PROVE Oracle!Init
    OBVIOUS
  <2>1. live = {} /\ writer \in Handles
    BY DEF Init
  <2>2. Lists = [h \in Handles |-> {}]
    BY <2>1, ListsAre
  <2> QED BY <2>1, <2>2 DEF Oracle!Init
<1>2. Inv /\ [Next]_vars => [Oracle!Next]_(Oracle!vars)
  BY StepRefines
<1> QED BY <1>1, <1>2, InvHolds, PTL DEF Spec, IsUntree, Oracle!Spec

\* An item that search() returned is found by update_item(), if the client
\* writes one tree at a time and updates no item twice between copies: the
\* hash an Interval object is filed under is then the one it has.
THEOREM Updatable ==
  ASSUME ~Interleave, ~Reupdate
  PROVE  Spec => []UpdateFindsItem
<1>1. Init => UpdateFindsItem
  BY DEF Init, UpdateFindsItem
<1>2. Inv /\ UpdateFindsItem /\ [Next]_vars => UpdateFindsItem'
  <2> SUFFICES ASSUME Inv, ~failed, [Next]_vars PROVE ~failed'
    BY DEF UpdateFindsItem
  <2>1. ASSUME NEW h \in Handles, NEW q \in Data, NEW d \in Data, UpdateItem(h, q, d)
        PROVE  ~failed'
    <3>1. h \in live /\ MayWrite(h) /\ q \notin hot
      BY <2>1 DEF UpdateItem
    <3>2. Served(h)
      BY <3>1, WriterServed DEF Inv
    <3> QED BY <2>1, <3>1, <3>2, UpdateItems DEF Inv
  <2> QED BY <2>1 DEF Next, New, Add, Copy, vars
<1> QED BY <1>1, <1>2, InvHolds, PTL DEF Spec

=============================================================================
