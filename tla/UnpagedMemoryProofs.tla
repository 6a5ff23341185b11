------------------------ MODULE UnpagedMemoryProofs ------------------------
(***************************************************************************)
(* Proofs about UnpagedMemory, for a client that builds one root: the      *)
(* cached pages are never stale, and each memory is a map of its own.      *)
(***************************************************************************)
EXTENDS UnpagedMemory, TLAPS

\* Page by page is the same map as address by address.
LEMMA AddrAt ==
  ASSUME NEW i \in Indexes, NEW o \in Offsets
  PROVE  i * PageSize + o \in Addrs
<1>1. i \in Nat /\ i + 1 <= NumPages /\ o \in Nat /\ o < PageSize /\ i * PageSize \in Nat
  BY SizesAssumption DEF Indexes, Offsets
<1>2. (i + 1) * PageSize <= NumPages * PageSize
  BY <1>1, SizesAssumption
<1>3. (i + 1) * PageSize = i * PageSize + PageSize
  BY <1>1, SizesAssumption
<1> QED BY <1>1, <1>2, <1>3, SizesAssumption DEF Addrs

LEMMA PagesTyped ==
  ASSUME TypeOK, NEW h \in live
  PROVE  PagesOf(h) \in [Indexes -> [Offsets -> Values \cup {NoValue}]]
BY AddrAt DEF TypeOK, PagesOf, GetItem

-----------------------------------------------------------------------------
(* The invariant. *)

LEMMA InitInv == Init => IInv
BY NamesAssumption
DEF Init, IInv, TypeOK, PagesUpToDate, DictsPrivate, DefaultStartsEmpty, Dicts, Empty

LEMMA NewInv ==
  ASSUME NEW h \in Handles, ~ManyRoots, IInv, New(h)
  PROVE  IInv'
<1>1. /\ live = {} /\ live' = {h} /\ entry' = entry
      /\ dict' = [dict EXCEPT ![h] = Default]
      /\ cached' = [cached EXCEPT ![h] = NotCached]
  BY DEF New
<1>2. TypeOK'
  BY <1>1 DEF IInv, TypeOK, Dicts
<1>3. PagesUpToDate'
  BY <1>1 DEF IInv, TypeOK, PagesUpToDate, PagesSeen, PagesOf, GetItem
<1>4. DictsPrivate' /\ DefaultStartsEmpty'
  BY <1>1 DEF DictsPrivate, DefaultStartsEmpty
<1> QED BY <1>2, <1>3, <1>4 DEF IInv

LEMMA SetItemInv ==
  ASSUME NEW h \in Handles, NEW a \in Addrs, NEW v \in Values, IInv, SetItem(h, a, v)
  PROVE  IInv'
<1>1. /\ h \in live /\ UNCHANGED <<live, dict>>
      /\ entry' = [entry EXCEPT ![dict[h]][a] = v]
      /\ cached' = [cached EXCEPT ![h] = NotCached]
  BY DEF SetItem
<1>2. TypeOK'
  BY <1>1 DEF IInv, TypeOK
<1>3. \A g \in live \ {h} : cached'[g] = cached[g] /\ entry'[dict[g]] = entry[dict[g]]
  BY <1>1 DEF IInv, TypeOK, DictsPrivate
<1>4. PagesUpToDate'
  <2> SUFFICES ASSUME NEW g \in live
               PROVE  (PagesSeen(g) = PagesOf(g))'
    BY <1>1 DEF PagesUpToDate
  <2>1. CASE g = h
    BY <1>1, <2>1 DEF IInv, TypeOK, PagesSeen
  <2>2. CASE g # h
    <3>1. PagesOf(g)' = PagesOf(g)
      BY <1>1, <1>3, <2>2 DEF PagesOf, GetItem
    <3>2. PagesSeen(g)' = PagesSeen(g)
      BY <1>3, <2>2, <3>1 DEF PagesSeen
    <3> QED BY <3>1, <3>2 DEF IInv, PagesUpToDate
  <2> QED BY <2>1, <2>2
<1>5. DictsPrivate' /\ DefaultStartsEmpty'
  BY <1>1 DEF IInv, DictsPrivate, DefaultStartsEmpty
<1> QED BY <1>2, <1>4, <1>5 DEF IInv

LEMMA LookInv ==
  ASSUME NEW h \in Handles, IInv, LookAtPages(h)
  PROVE  IInv'
<1>1. /\ h \in live /\ UNCHANGED <<live, dict, entry>>
      /\ cached' = [cached EXCEPT ![h] = PagesSeen(h)]
  BY DEF LookAtPages
<1>2. PagesSeen(h) = PagesOf(h)
  BY <1>1 DEF IInv, PagesUpToDate
<1>3. TypeOK'
  BY <1>1, <1>2, PagesTyped DEF IInv, TypeOK
<1>4. \A g \in live : PagesOf(g)' = PagesOf(g)
  BY <1>1 DEF PagesOf, GetItem
<1>5. \A g \in live : PagesSeen(g)' = PagesSeen(g)
  BY <1>1, <1>2, <1>4 DEF IInv, TypeOK, PagesSeen
<1>6. PagesUpToDate'
  BY <1>1, <1>4, <1>5 DEF IInv, PagesUpToDate
<1>7. DictsPrivate' /\ DefaultStartsEmpty'
  BY <1>1 DEF IInv, DictsPrivate, DefaultStartsEmpty
<1> QED BY <1>3, <1>6, <1>7 DEF IInv

LEMMA CopyInv ==
  ASSUME NEW h \in Handles, NEW n \in Handles, IInv, Copy(h, n)
  PROVE  IInv'
<1>1. /\ h \in live /\ n \in Handles \ live
      /\ live' = live \cup {n}
      /\ dict' = [dict EXCEPT ![n] = n]
      /\ entry' = [entry EXCEPT ![n] = entry[dict[h]]]
      /\ cached' = [cached EXCEPT ![n] = NotCached]
  BY DEF Copy
<1>2. TypeOK'
  BY <1>1 DEF IInv, TypeOK, Dicts
<1>3. dict'[n] = n /\ cached'[n] = NotCached
  BY <1>1 DEF IInv, TypeOK
<1>4. \A g \in live : /\ dict'[g] = dict[g] /\ dict[g] # n
                      /\ entry'[dict[g]] = entry[dict[g]]
                      /\ cached'[g] = cached[g]
  BY <1>1, NamesAssumption DEF IInv, TypeOK, Dicts
<1>5. \A g \in live : PagesOf(g)' = PagesOf(g)
  BY <1>4 DEF PagesOf, GetItem
<1>6. \A g \in live : PagesSeen(g)' = PagesSeen(g)
  BY <1>4, <1>5 DEF PagesSeen
<1>7. PagesUpToDate'
  BY <1>1, <1>3, <1>5, <1>6 DEF IInv, PagesUpToDate, PagesSeen
<1>8. DictsPrivate' /\ DefaultStartsEmpty'
  BY <1>1, <1>3, <1>4 DEF IInv, DictsPrivate, DefaultStartsEmpty
<1> QED BY <1>2, <1>7, <1>8 DEF IInv

\* One root: the pages a merge walks are never stale and dicts are private,
\* also when a memory is written after it was copied.
THEOREM PagesFresh ==
  ASSUME ~ManyRoots
  PROVE  Spec => []IInv
<1>1. IInv /\ UNCHANGED vars => IInv'
  BY DEF vars, IInv, TypeOK, PagesUpToDate, DictsPrivate, DefaultStartsEmpty,
         PagesSeen, PagesOf, GetItem
<1>2. IInv /\ [Next]_vars => IInv'
  BY <1>1, NewInv, SetItemInv, LookInv, CopyInv DEF Next
<1> QED BY InitInv, <1>2, PTL DEF Spec

-----------------------------------------------------------------------------
(* Each memory is a map of its own. *)

LEMMA InitIsStore == Init => Store!Init
<1> SUFFICES ASSUME Init PROVE Store!Init
  OBVIOUS
<1>1. live = {}
  BY DEF Init
<1> QED BY <1>1 DEF Store!Init, Store!EmptyStore, ReadableContents

\* One root: UnpagedMemory implements PrivateStores, with no condition on
\* when a memory is written.
THEOREM DictsAreInvisible ==
  ASSUME ~ManyRoots
  PROVE  Spec => IsPrivateStore
<1>1. IInv /\ [Next]_vars => [Store!Next]_(Store!vars)
  <2> SUFFICES ASSUME IInv, [Next]_vars
               PROVE  Store!Next \/ UNCHANGED Store!vars
    BY DEF Store!vars
  <2>1. ASSUME NEW h \in Handles, New(h)
        PROVE  Store!Next
    <3>1. h \notin live /\ live = {} /\ live' = live \cup {h}
      BY <2>1 DEF New
    <3>2. \A a \in Addrs : GetItem(h, a)' = NoValue
      BY <2>1, <3>1 DEF New, IInv, TypeOK, DefaultStartsEmpty, GetItem, Empty
    <3>3. ReadableContents' = [ReadableContents EXCEPT ![h] = Store!EmptyStore]
      BY <3>1, <3>2 DEF ReadableContents, Store!EmptyStore
    <3> QED BY <3>1, <3>3 DEF Store!Next, Store!New
  <2>2. ASSUME NEW h \in Handles, NEW a \in Addrs, NEW v \in Values, SetItem(h, a, v)
        PROVE  Store!Next
    <3>1. h \in live /\ UNCHANGED <<live, dict>>
      BY <2>2 DEF SetItem
    <3>2. \A b \in Addrs : GetItem(h, b)' = IF b = a THEN v ELSE GetItem(h, b)
      BY <2>2, <3>1 DEF SetItem, IInv, TypeOK, GetItem
    <3>3. \A g \in live \ {h} : entry'[dict[g]] = entry[dict[g]]
      BY <2>2, <3>1 DEF SetItem, IInv, TypeOK, DictsPrivate
    <3>4. \A g \in live \ {h}, b \in Addrs : GetItem(g, b)' = GetItem(g, b)
      BY <3>1, <3>3 DEF GetItem
    <3>5. ReadableContents' = [ReadableContents EXCEPT ![h][a] = v]
      BY <3>1, <3>2, <3>4 DEF ReadableContents
    <3> QED BY <3>1, <3>5 DEF Store!Next, Store!SetItem
  <2>3. ASSUME NEW h \in Handles, LookAtPages(h)
        PROVE  UNCHANGED Store!vars
    BY <2>3 DEF LookAtPages, Store!vars, ReadableContents, GetItem
  <2>4. ASSUME NEW h \in Handles, NEW n \in Handles, Copy(h, n)
        PROVE  Store!Next
    <3>1. h \in live /\ n \in Handles \ live /\ live' = live \cup {n}
      BY <2>4 DEF Copy
    <3>2. \A b \in Addrs : GetItem(n, b)' = GetItem(h, b)
      BY <2>4, <3>1 DEF Copy, IInv, TypeOK, Dicts, GetItem
    <3>3. \A g \in live : dict'[g] = dict[g] /\ entry'[dict[g]] = entry[dict[g]]
      BY <2>4, <3>1, NamesAssumption DEF Copy, IInv, TypeOK, Dicts
    <3>4. \A g \in live, b \in Addrs : GetItem(g, b)' = GetItem(g, b)
      BY <3>3 DEF GetItem
    <3>5. ReadableContents' = [ReadableContents EXCEPT ![n] = ReadableContents[h]]
      BY <3>1, <3>2, <3>4 DEF ReadableContents
    <3> QED BY <3>1, <3>5 DEF Store!Next, Store!Copy
  <2>5. CASE UNCHANGED vars
    BY <2>5 DEF vars, Store!vars, ReadableContents, GetItem
  <2> QED BY <2>1, <2>2, <2>3, <2>4, <2>5 DEF Next
<1> QED BY InitIsStore, PagesFresh, <1>1, PTL DEF Spec, IsPrivateStore, Store!Spec

=============================================================================
