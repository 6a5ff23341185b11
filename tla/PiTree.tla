------------------------------ MODULE PiTree ------------------------------
(***************************************************************************)
(* memory/lib/pitree/pitree.py: the index of the symbolic memory, an       *)
(* interval tree of pages, each page holding an interval tree of items and *)
(* a dict (lookup) from an interval to the Interval object of the tree.    *)
(* copy() is lazy at both levels.                                          *)
(*                                                                         *)
(* The heap is explicit where objects are shared.  A directory is the pair *)
(* (_pages, _lookup) of a pitree, always shared and replaced together; a   *)
(* page object belongs to one directory and is named by its key there.     *)
(* Page trees and lookup dicts are shared by page copies and have names of *)
(* their own.  An Interval object is named by its page tree and by the     *)
(* datum it was added with (its slot); a tree's copy keeps the slots.      *)
(* The two interval trees are taken at their interface: search returns the *)
(* intervals that overlap.                                                 *)
(***************************************************************************)
EXTENDS Integers, FiniteSets

CONSTANTS
  Handles,    (* the pitree objects                                        *)
  Spans,      (* the intervals <<begin, end>> items are added with         *)
  PageSize,   (* page_size, 128 in the code                                *)
  MaxData,    (* bound: data made by the client, one per add or update     *)
  Interleave, (* may several trees be written in alternation?              *)
  Reupdate    (* may an item be updated twice with no copy in between?     *)

ASSUME PageSizeAssumption == PageSize \in Nat \ {0}
ASSUME SpansAssumption ==
  Spans \subseteq {s \in Nat \X Nat : s[1] < s[2]}
ASSUME BoundAssumption == MaxData \in Nat
ASSUME FiniteAssumption == IsFiniteSet(Handles) /\ IsFiniteSet(Spans)
ASSUME ClientAssumption == Interleave \in BOOLEAN /\ Reupdate \in BOOLEAN

Data == 1 .. MaxData
None == 0

\* Faulty: the end of the page range is left out.
PageKeyShort(s) == <<s[1] \div PageSize, s[2] \div PageSize>>

\* The page interval of an item: begin / page_size, end / page_size + 1.
PageKey(s) == <<s[1] \div PageSize, s[2] \div PageSize + 1>>
Keys == {PageKey(s) : s \in Spans}

\* Names for the objects, one more than can be in use at a time is never
\* needed: a tree and a lookup per page, a directory per pitree.
Dirs  == 1 .. Cardinality(Handles)
Names == 1 .. Cardinality(Handles) * Cardinality(Keys)

VARIABLES
  live,       (* trees created so far                                      *)
  heap,       (* the objects: fields handle, dir, tree and lookup          *)
  span,       (* span[d]: the interval of the item datum d was made for    *)
  failed,     (* an update raised KeyError; the program exits              *)
  writer,     (* client: the tree being written                            *)
  hot         (* client: data installed by updates since the last copy     *)

vars == <<live, heap, span, failed, writer, hot>>

NoPage == [lazy |-> FALSE, tree |-> None, lookup |-> None]
Vacant == [d \in Data |-> None]

\* Overlap of half-open intervals, Interval.overlap.
Overlap(s, r) == ~(s[1] >= r[2] \/ s[2] <= r[1])

-----------------------------------------------------------------------------
(* Reading the heap. *)

PageOf(m, h, k) == m.dir[m.handle[h].dir][k]
Mapped(m, h) == {k \in Keys : PageOf(m, h, k) # NoPage}
SlotsOf(t) == {s \in Data : t[s] # None}

\* What the slots of a page hold; a page that does not exist holds nothing.
Contents(m, h, k) ==
  IF PageOf(m, h, k) = NoPage THEN Vacant ELSE m.tree[PageOf(m, h, k).tree]
PageData(m, h, k) ==
  {Contents(m, h, k)[s] : s \in SlotsOf(Contents(m, h, k))}

HeldData(h) == UNION {PageData(heap, h, k) : k \in Keys}

\* search(begin, end): only pages that overlap the page range are searched.
Search(h, r) ==
  UNION {{d \in PageData(heap, h, k) : Overlap(span[d], r)} :
           k \in {l \in Mapped(heap, h) : Overlap(l, PageKey(r))}}

\* The page objects of directories some pitree uses, and what they use.
PagesInUse(m) == {PageOf(m, h, k) : h \in live, k \in Keys} \ {NoPage}
Unused(S, used) == CHOOSE n \in S : n \notin used
FreeTree(m) ==
  Unused(Names, {p.tree : p \in PagesInUse(m)})
FreeLookup(m) ==
  Unused(Names, {p.lookup : p \in PagesInUse(m)})
FreeDir(m) == Unused(Dirs, {m.handle[h].dir : h \in live})

-----------------------------------------------------------------------------
(* Copy on write. *)

\* Faulty: the pages are copied by reference.
TreeCopyOnWriteByReference(m, h) ==
  IF m.handle[h].lazy THEN [m EXCEPT !.handle[h].lazy = FALSE] ELSE m

\* page.copy(): the copy, and the page it is made of, are lazy from now on.
LazyCopy(p) == IF p = NoPage THEN NoPage ELSE [p EXCEPT !.lazy = TRUE]

\* pitree._copy_on_write: a new directory of page copies.  A directory no
\* other pitree uses is dropped at once, so its name serves again.
TreeCopyOnWrite(m, h) ==
  LET d == m.handle[h].dir
      shared == \E g \in live \ {h} : m.handle[g].dir = d
      n == IF shared THEN FreeDir(m) ELSE d
      copies == [k \in Keys |-> LazyCopy(m.dir[d][k])]
  IN  IF ~m.handle[h].lazy THEN m
      ELSE [m EXCEPT !.dir = [@ EXCEPT ![d] = copies, ![n] = copies],
                     !.handle[h].dir = n,
                     !.handle[h].lazy = FALSE]

\* Faulty: the lookup dict is not filled with the clones.
PageCopyOnWriteStale(m, h, k) ==
  LET p == PageOf(m, h, k)
      n == FreeTree(m)
  IN  IF ~p.lazy THEN m
      ELSE [m EXCEPT !.tree[n] = m.tree[p.tree],
                     !.lookup[p.lookup] = {},
                     !.dir[m.handle[h].dir][k] =
                        [lazy |-> FALSE, tree |-> n, lookup |-> p.lookup]]

\* The name of the clone of a page's tree.  A tree no other page uses is
\* dropped once it is cloned.
CloneName(m, h, k) ==
  LET shared == \E g \in live, l \in Keys :
                  /\ <<m.handle[g].dir, l>> # <<m.handle[h].dir, k>>
                  /\ PageOf(m, g, l).tree = PageOf(m, h, k).tree
  IN  IF shared THEN FreeTree(m) ELSE PageOf(m, h, k).tree

\* The lookup entries of tree n, whose slots are t.
Clones(t, n) == {[key |-> t[s], obj |-> <<n, s>>] : s \in SlotsOf(t)}

\* page._copy_on_write: the tree is cloned, with its Interval objects; the
\* lookup dict, which every copy of the page shares, is cleared and filled
\* with the clones.
PageCopyOnWrite(m, h, k) ==
  LET p == PageOf(m, h, k)
      n == CloneName(m, h, k)
  IN  IF ~p.lazy THEN m
      ELSE [m EXCEPT !.tree[n] = m.tree[p.tree],
                     !.lookup[p.lookup] = Clones(m.tree[p.tree], n),
                     !.dir[m.handle[h].dir][k] =
                        [lazy |-> FALSE, tree |-> n, lookup |-> p.lookup]]

\* The page of key k, made empty if the directory has none.
EnsurePage(m, h, k) ==
  LET t == FreeTree(m)
      l == FreeLookup(m)
  IN  IF PageOf(m, h, k) # NoPage THEN m
      ELSE [m EXCEPT !.tree[t] = Vacant,
                     !.lookup[l] = {},
                     !.dir[m.handle[h].dir][k] =
                        [lazy |-> FALSE, tree |-> t, lookup |-> l]]

\* IntervalTree.add and lookup[i] = i: the dict keeps the hash i has now.
AddToPage(m, h, k, d) ==
  LET p == PageOf(m, h, k)
  IN  [m EXCEPT !.tree[p.tree][d] = d,
                !.lookup[p.lookup] = @ \cup {[key |-> d, obj |-> <<p.tree, d>>]}]

\* Faulty: an interval of length one is not counted among all of them.
CountItemApart(m, h, s) ==
  IF s[1] + 1 = s[2] THEN [m EXCEPT !.handle[h].ones = @ + 1]
                     ELSE [m EXCEPT !.handle[h].inter = @ + 1]

\* The statistics kept by add.
CountItem(m, h, s) ==
  [m EXCEPT !.handle[h].inter = @ + 1,
            !.handle[h].ones = IF s[1] + 1 = s[2] THEN @ + 1 ELSE @]

\* The objects lookup[i] can return for an interval whose datum is q: the
\* hash kept with the key and the object as it is now must both match.
Found(m, h, k, q) ==
  {e \in m.lookup[PageOf(m, h, k).lookup] :
     e.key = q /\ m.tree[e.obj[1]][e.obj[2]] = q}

-----------------------------------------------------------------------------
(* The client. *)

\* A symbolic memory writes the tree of one execution state at a time, from
\* the copy that starts a step on; a state copied in the middle of the step
\* may still be written by the rest of it.
MayWrite(h) == Interleave \/ writer = h

FreshDatum(d) == span[d] = <<>> /\ \A e \in Data : span[e] = <<>> => d <= e

EmptyHandle == [dir |-> 1, lazy |-> FALSE, inter |-> 0, ones |-> 0]

Init ==
  /\ live = {}
  /\ heap = [handle |-> [h \in Handles |-> EmptyHandle],
             dir    |-> [d \in Dirs |-> [k \in Keys |-> NoPage]],
             tree   |-> [n \in Names |-> Vacant],
             lookup |-> [n \in Names |-> {}]]
  /\ span = [d \in Data |-> <<>>]
  /\ failed = FALSE
  /\ writer \in Handles
  /\ hot = {}

New(h) ==
  /\ live = {}
  /\ live' = {h}
  /\ writer' = h
  /\ UNCHANGED <<heap, span, failed, hot>>

Add(h, s, d) ==
  LET m1 == TreeCopyOnWrite(heap, h)
      m2 == EnsurePage(m1, h, PageKey(s))
      m3 == PageCopyOnWrite(m2, h, PageKey(s))
  IN  /\ h \in live
      /\ ~failed
      /\ MayWrite(h)
      /\ FreshDatum(d)
      /\ heap' = CountItem(AddToPage(m3, h, PageKey(s), d), h, s)
      /\ span' = [span EXCEPT ![d] = s]
      /\ writer' = h
      /\ UNCHANGED <<live, failed, hot>>

\* update_item(i, new_item), i just returned by search() with datum q.
UpdateItem(h, q, d) ==
  LET k == PageKey(span[q])
      m == PageCopyOnWrite(TreeCopyOnWrite(heap, h), h, k)
  IN  /\ h \in live
      /\ ~failed
      /\ MayWrite(h)
      /\ q \in HeldData(h)
      /\ Reupdate \/ q \notin hot
      /\ FreshDatum(d)
      /\ \/ /\ Found(m, h, k, q) = {}
            /\ heap' = m
            /\ failed' = TRUE
            /\ UNCHANGED <<span, writer, hot>>
         \/ /\ \E e \in Found(m, h, k, q) :
                 heap' = [m EXCEPT !.tree[e.obj[1]][e.obj[2]] = d]
            /\ span' = [span EXCEPT ![d] = span[q]]
            /\ writer' = h
            /\ hot' = hot \cup {d}
            /\ UNCHANGED failed
      /\ UNCHANGED live

\* Faulty: the copy starts its statistics anew.
CopyUncounted(h, n) ==
  /\ h \in live
  /\ n \notin live
  /\ ~failed
  /\ live' = live \cup {n}
  /\ heap' = [heap EXCEPT !.handle[h].lazy = TRUE,
                          !.handle[n] = [dir |-> heap.handle[h].dir, lazy |-> TRUE,
                                         inter |-> 0, ones |-> 0]]
  /\ writer' \in {n} \cup ({h} \cap {writer})
  /\ hot' = {}
  /\ UNCHANGED <<span, failed>>

\* copy(): both trees are lazy from now on and share one directory.
Copy(h, n) ==
  /\ h \in live
  /\ n \notin live
  /\ ~failed
  /\ live' = live \cup {n}
  /\ heap' = [heap EXCEPT !.handle[h].lazy = TRUE,
                          !.handle[n] = [heap.handle[h] EXCEPT !.lazy = TRUE]]
  /\ writer' \in {n} \cup ({h} \cap {writer})
  /\ hot' = {}
  /\ UNCHANGED <<span, failed>>

Next ==
  \/ \E h \in Handles : New(h)
  \/ \E h \in Handles, s \in Spans, d \in Data : Add(h, s, d)
  \/ \E h \in Handles, q, d \in Data : UpdateItem(h, q, d)
  \/ \E h, n \in Handles : Copy(h, n)

Spec == Init /\ [][Next]_vars

-----------------------------------------------------------------------------
(* Who may write to which object: the invariant behind the properties.  The *)
(* operators take a heap, so that they can be stated between two steps of  *)
(* an operation too.                                                       *)

\* A tree that is not lazy is alone in using its directory.
DirsPrivate(m) ==
  \A g, h \in live :
    ~m.handle[h].lazy /\ m.handle[g].dir = m.handle[h].dir => g = h

\* Pages share a page tree under one key only, and a page that is not lazy
\* shares it with no page of another directory.
TreesPrivate(m) ==
  \A g, h \in live : \A l \in Keys, k \in Mapped(m, h) :
    PageOf(m, g, l).tree = PageOf(m, h, k).tree =>
      /\ l = k
      /\ ~PageOf(m, h, k).lazy => m.handle[g].dir = m.handle[h].dir

\* Pages share a lookup dict under one key only.
LookupsKeyed(m) ==
  \A g, h \in live : \A l \in Keys, k \in Mapped(m, h) :
    PageOf(m, g, l).lookup = PageOf(m, h, k).lookup => l = k

\* An item is on the page of its key, in one slot, named by a datum in use.
FiledByKey(m) ==
  \A h \in live, k \in Keys : LET t == Contents(m, h, k) IN
    /\ \A s \in SlotsOf(t) : /\ span[s] # <<>>
                            /\ span[t[s]] # <<>> /\ PageKey(span[t[s]]) = k
    /\ \A r, s \in SlotsOf(t) : t[r] = t[s] => r = s

\* On a page that tree w may write in place, the lookup dict leads into the
\* page's own tree, and has every item not updated since the last copy.
LookupsOwn(m, w) ==
  \A k \in Mapped(m, w) :
    LET p == PageOf(m, w, k)
        t == m.tree[p.tree]
    IN  ~p.lazy =>
          /\ \A e \in m.lookup[p.lookup] : e.obj[1] = p.tree
          /\ \A s \in SlotsOf(t) : t[s] \in hot
                \/ [key |-> t[s], obj |-> <<p.tree, s>>] \in m.lookup[p.lookup]

\* Trees that are still to be made are empty, before the first there is no page.
NothingYet ==
  /\ \A h \in Handles \ live : heap.handle[h] = EmptyHandle
  /\ live = {} => \A h \in Handles : Mapped(heap, h) = {}

-----------------------------------------------------------------------------
(* Properties. *)

Pages == [lazy: BOOLEAN, tree: Names, lookup: Names]
Heaps ==
  [handle: [Handles -> [dir: Dirs, lazy: BOOLEAN, inter: Nat, ones: Nat]],
   dir:    [Dirs -> [Keys -> Pages \cup {NoPage}]],
   tree:   [Names -> [Data -> Data \cup {None}]],
   lookup: [Names -> SUBSET [key: Data, obj: Names \X Data]]]

\* The objects have the shape the code gives them, and intervals of length
\* one are counted among all intervals, of which no more are than data.
TypeOK ==
  /\ live \subseteq Handles
  /\ heap \in Heaps
  /\ \A h \in Handles : heap.handle[h].ones <= heap.handle[h].inter
  /\ \A h \in Handles : heap.handle[h].inter <= MaxData
  /\ span \in [Data -> Spans \cup {<<>>}]
  /\ failed \in BOOLEAN
  /\ writer \in Handles
  /\ hot \subseteq Data

\* The inductive invariant: what is shared is not written, for any client, and
\* where trees are written one at a time the tree being written is served by
\* lookup dicts of its own.
IInv ==
  /\ NothingYet
  /\ DirsPrivate(heap) /\ TreesPrivate(heap) /\ LookupsKeyed(heap)
  /\ FiledByKey(heap)
  /\ ~Interleave /\ writer \in live /\ ~heap.handle[writer].lazy
       => LookupsOwn(heap, writer)

\* The items of a tree.
Items(h) == {<<span[d][1], span[d][2], d>> : d \in HeldData(h)}

Lists == [h \in Handles |-> IF h \in live THEN Items(h) ELSE {}]

Oracle == INSTANCE Untree WITH items <- Lists

\* What tester.py looks for: the paged tree and the plain list stay aligned.
IsUntree == Oracle!Spec

\* Searching only the pages that overlap misses no item, and adds none.
Queries == {<<s[1], r[2]>> : s, r \in Spans} \cap {q \in Nat \X Nat : q[1] < q[2]}
SearchIsExact ==
  \A h \in live, r \in Queries :
    Search(h, r) = {i[3] : i \in Oracle!Hits(Items(h), r[1], r[2])}

\* An interval returned by search() can be updated.
UpdateFindsItem == ~failed

\* The statistics count the items of the tree, whoever shares it.
CountsMatch ==
  \A h \in live :
    /\ heap.handle[h].inter = Cardinality(Items(h))
    /\ heap.handle[h].ones = Cardinality({i \in Items(h) : i[1] + 1 = i[2]})

=============================================================================
