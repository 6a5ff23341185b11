---------------------------- MODULE UnpagedMemory ----------------------------
(***************************************************************************)
(* memory/lib/unpaged_memory.py: the drop-in replacement of PagedMemory, a *)
(* flat dict.  Its users want to see pages nevertheless, so _pages builds  *)
(* them and keeps them in _cached_pages until the next write.              *)
(*                                                                         *)
(* As in PagedMemory a dict made by copy() is named after its handle, and  *)
(* the dict() that is the constructor's default argument is named Default. *)
(***************************************************************************)
EXTENDS Integers

CONSTANTS
  Handles,        (* the PagedMemory objects of this module                *)
  Values,         (* entries                                               *)
  NoValue,        (* no entry at an address                                *)
  NotCached,      (* _cached_pages is None                                 *)
  Default,        (* the dict() evaluated once, when the class is defined  *)
  PageSize,       (* 0x1000 in the code                                    *)
  NumPages,       (* bound: number of page indexes                         *)
  ManyRoots       (* may the client build several memories from scratch?   *)

ASSUME SizesAssumption == PageSize \in Nat \ {0} /\ NumPages \in Nat \ {0}
ASSUME NamesAssumption == NoValue \notin Values /\ Default \notin Handles
ASSUME ClientAssumption == ManyRoots \in BOOLEAN

Indexes == 0 .. NumPages - 1
Offsets == 0 .. PageSize - 1
Addrs   == 0 .. NumPages * PageSize - 1
Dicts   == Handles \cup {Default}

VARIABLES
  live,    (* handles created so far                                       *)
  dict,    (* dict[h]: which dict the attribute _addrs of h is             *)
  entry,   (* entry[d][a]: what dict d has at address a                    *)
  cached   (* cached[h]: the attribute _cached_pages of h                  *)

vars == <<live, dict, entry, cached>>

Empty == [a \in Addrs |-> NoValue]

\* self[addr]
GetItem(h, a) == entry[dict[h]][a]

\* The dict cut into pages.
PagesOf(h) == [i \in Indexes |-> [o \in Offsets |-> GetItem(h, i * PageSize + o)]]

\* What _pages returns.
PagesSeen(h) == IF cached[h] = NotCached THEN PagesOf(h) ELSE cached[h]

Init ==
  /\ live = {}
  /\ dict = [h \in Handles |-> Default]
  /\ entry = [d \in Dicts |-> Empty]
  /\ cached = [h \in Handles |-> NotCached]

\* PagedMemory(memory): the default argument is the dict.
New(h) ==
  /\ h \notin live
  /\ ManyRoots \/ live = {}
  /\ live' = live \cup {h}
  /\ dict' = [dict EXCEPT ![h] = Default]
  /\ cached' = [cached EXCEPT ![h] = NotCached]
  /\ UNCHANGED entry

\* Faulty: the pages built before the write are kept.
SetItemKeepingPages(h, a, v) ==
  /\ h \in live
  /\ entry' = [entry EXCEPT ![dict[h]][a] = v]
  /\ UNCHANGED <<live, dict, cached>>

\* self[addr] = value
SetItem(h, a, v) ==
  /\ h \in live
  /\ entry' = [entry EXCEPT ![dict[h]][a] = v]
  /\ cached' = [cached EXCEPT ![h] = NotCached]
  /\ UNCHANGED <<live, dict>>

\* _pages: merge() and _load_init_data() read it.
LookAtPages(h) ==
  /\ h \in live
  /\ cached' = [cached EXCEPT ![h] = PagesSeen(h)]
  /\ UNCHANGED <<live, dict, entry>>

\* Faulty: the copy is given the dict itself.
CopyShallow(h, n) ==
  /\ h \in live
  /\ n \notin live
  /\ live' = live \cup {n}
  /\ dict' = [dict EXCEPT ![n] = dict[h]]
  /\ cached' = [cached EXCEPT ![n] = NotCached]
  /\ UNCHANGED entry

\* copy(): dict(self._addrs)
Copy(h, n) ==
  /\ h \in live
  /\ n \notin live
  /\ live' = live \cup {n}
  /\ dict' = [dict EXCEPT ![n] = n]
  /\ entry' = [entry EXCEPT ![n] = entry[dict[h]]]
  /\ cached' = [cached EXCEPT ![n] = NotCached]

Next ==
  \/ \E h \in Handles : New(h)
  \/ \E h \in Handles, a \in Addrs, v \in Values : SetItem(h, a, v)
  \/ \E h \in Handles : LookAtPages(h)
  \/ \E h, n \in Handles : Copy(h, n)

Spec == Init /\ [][Next]_vars

-----------------------------------------------------------------------------
(* Properties. *)

\* Every attribute has the shape the code gives it.
TypeOK ==
  /\ live \subseteq Handles
  /\ dict \in [Handles -> Dicts]
  /\ entry \in [Dicts -> [Addrs -> Values \cup {NoValue}]]
  /\ cached \in [Handles -> [Indexes -> [Offsets -> Values \cup {NoValue}]]
                               \cup {NotCached}]
  /\ \A h \in live : dict[h] \in {h, Default}

\* The pages a merge walks are those of the dict as it is now, however long
\* ago they were built.
PagesUpToDate == \A h \in live : PagesSeen(h) = PagesOf(h)

\* No two memories use the same dict.
DictsPrivate == \A g, h \in live : dict[g] = dict[h] => g = h

\* Before the first memory is built the default dict is empty.
DefaultStartsEmpty == live = {} => entry[Default] = Empty

\* What makes the memories private stores: inductive for a client that builds
\* one root.  Unlike in PagedMemory a memory that was copied may be written.
IInv == TypeOK /\ PagesUpToDate /\ DictsPrivate /\ DefaultStartsEmpty

\* What a client can read through its handles.
ReadableContents ==
  [h \in Handles |->
    [a \in Addrs |-> IF h \in live THEN GetItem(h, a) ELSE NoValue]]

Store == INSTANCE PrivateStores WITH contents <- ReadableContents

\* Each memory behaves as a map of its own, sources of copies included.
IsPrivateStore == Store!Spec

=============================================================================
