---------------------------- MODULE PagedMemory ----------------------------
(***************************************************************************)
(* memory/lib/paged_memory.py: the concrete half of the symbolic memory,   *)
(* a two-level table (page index, then offset) whose pages are shared by   *)
(* copies and duplicated on the first write.                               *)
(*                                                                         *)
(* Object identity is what matters here, and it is structural.  A handle   *)
(* built by copy() owns a page table of its own, named after the handle; a *)
(* handle built without pages uses the one dict() that is the default      *)
(* value of the constructor's argument, named Default.  A handle creates a *)
(* page object for an index at most once (the index is in _cowed from then *)
(* on), so a page object is named by its creator and its index.            *)
(***************************************************************************)
EXTENDS Integers, FiniteSets

CONSTANTS
  Handles,        (* the PagedMemory objects                               *)
  Values,         (* entries: a memory item, or a list of guarded items    *)
  NoValue,        (* no entry at an offset                                 *)
  NoPage,         (* no page at an index                                   *)
  Default,        (* the dict() evaluated once, when the class is defined  *)
  PageSize,       (* PAGE_SIZE, 0x1000 in the code                         *)
  NumPages,       (* bound: number of page indexes                         *)
  LargeRange,     (* 1024 in find(): ranges at least this long take the    *)
                  (* page-wise path                                        *)
  ManyRoots,      (* may the client build several memories from scratch?   *)
  WriteAfterCopy  (* may the client write a memory it has already copied?  *)

ASSUME SizesAssumption ==
  PageSize \in Nat \ {0} /\ NumPages \in Nat \ {0} /\ LargeRange \in Nat
ASSUME NamesAssumption ==
  NoValue \notin Values /\ NoPage \notin Handles /\ Default \notin Handles
ASSUME ClientAssumption ==
  ManyRoots \in BOOLEAN /\ WriteAfterCopy \in BOOLEAN

Indexes == 0 .. NumPages - 1
Offsets == 0 .. PageSize - 1
Addrs   == 0 .. NumPages * PageSize - 1
Dicts   == Handles \cup {Default}

IndexOf(a)  == a \div PageSize
OffsetOf(a) == a % PageSize

VARIABLES
  live,    (* handles created so far                                       *)
  dict,    (* dict[h]: which page table the attribute _pages of h is       *)
  table,   (* table[d][i]: the creator of the page that table d has at i   *)
  page,    (* page[h][i]: entries of the page object h created at index i  *)
  cowed,   (* cowed[h]: the attribute _cowed of h                          *)
  copied   (* client: the handles that have been copied                    *)

vars == <<live, dict, table, page, cowed, copied>>

EmptyPage == [o \in Offsets |-> NoValue]

-----------------------------------------------------------------------------
(* Reading. *)

PageAt(h, i) == table[dict[h]][i]

GetItem(h, a) ==
  LET p == PageAt(h, IndexOf(a))
  IN  IF p = NoPage THEN NoValue ELSE page[p][IndexOf(a)][OffsetOf(a)]

\* The addresses in first..last that hold an entry: what find() is for.
Stored(h, first, last) ==
  {a \in first .. last : a \in Addrs /\ GetItem(h, a) # NoValue}

\* find(), short ranges: address by address, a missing page skipped whole.
\* The docstring of find() holds the same loop as its reference.
FindShort(h, first, last) ==
  LET Walk[a \in 0 .. NumPages * PageSize] ==
        IF a > last THEN {}
        ELSE IF PageAt(h, IndexOf(a)) = NoPage
               THEN Walk[a + PageSize - OffsetOf(a)]
               ELSE (IF GetItem(h, a) # NoValue THEN {a} ELSE {})
                      \cup Walk[a + 1]
  IN  Walk[first]

\* Faulty: the offset is not reset to 0 from one page to the next.
FindLongKeepingOffset(h, first, last) ==
  LET found == {i \in IndexOf(first) .. IndexOf(last) : PageAt(h, i) # NoPage}
      Visits(a) ==
        /\ IndexOf(a) \in found
        /\ OffsetOf(a) >= OffsetOf(first)
        /\ a <= last
  IN  {a \in Addrs : Visits(a) /\ GetItem(h, a) # NoValue}

\* find(), long ranges: page by page over the sorted indexes.  The offset
\* starts at that of first, whichever page comes first, and is reset to 0
\* between pages; the bound is tested after a slot has been read.
FindLong(h, first, last) ==
  LET found   == {i \in IndexOf(first) .. IndexOf(last) : PageAt(h, i) # NoPage}
      From(i) == IF \A j \in found : i <= j THEN OffsetOf(first) ELSE 0
      Visits(a) ==
        /\ IndexOf(a) \in found
        /\ OffsetOf(a) >= From(IndexOf(a))
        /\ a <= last \/ OffsetOf(a) = From(IndexOf(a))
  IN  {a \in Addrs : Visits(a) /\ GetItem(h, a) # NoValue}

Find(h, first, last) ==
  IF last - first >= LargeRange THEN FindLong(h, first, last)
                                ELSE FindShort(h, first, last)

-----------------------------------------------------------------------------
Init ==
  /\ live = {}
  /\ dict = [h \in Handles |-> Default]
  /\ table = [d \in Dicts |-> [i \in Indexes |-> NoPage]]
  /\ page = [h \in Handles |-> [i \in Indexes |-> EmptyPage]]
  /\ cowed = [h \in Handles |-> {}]
  /\ copied = {}

\* PagedMemory(memory): the default argument is the page table.
New(h) ==
  /\ h \notin live
  /\ ManyRoots \/ live = {}
  /\ live' = live \cup {h}
  /\ dict' = [dict EXCEPT ![h] = Default]
  /\ cowed' = [cowed EXCEPT ![h] = {}]
  /\ UNCHANGED <<table, page, copied>>

\* Faulty: the page is taken for our own without a duplicate.
WriteOwnPageUncopied(h, i, o, v) ==
  LET p == PageAt(h, i)
  IN  /\ p = NoPage \/ i \notin cowed[h]
      /\ IF p = NoPage
           THEN /\ page' = [page EXCEPT ![h][i] = [EmptyPage EXCEPT ![o] = v]]
                /\ table' = [table EXCEPT ![dict[h]][i] = h]
           ELSE /\ page' = [page EXCEPT ![p][i][o] = v]
                /\ UNCHANGED table
      /\ cowed' = [cowed EXCEPT ![h] = @ \cup {i}]

\* self[addr] = value, the page being absent, or present but not in _cowed:
\* the value goes to a page object of our own, empty or a duplicate.
WriteOwnPage(h, i, o, v) ==
  LET p == PageAt(h, i)
      start == IF p = NoPage THEN EmptyPage ELSE page[p][i]
  IN  /\ p = NoPage \/ i \notin cowed[h]
      /\ page' = [page EXCEPT ![h][i] = [start EXCEPT ![o] = v]]
      /\ table' = [table EXCEPT ![dict[h]][i] = h]
      /\ cowed' = [cowed EXCEPT ![h] = @ \cup {i}]

\* self[addr] = value, the page being in _cowed: it is written in place.
WriteInPlace(h, i, o, v) ==
  /\ PageAt(h, i) # NoPage
  /\ i \in cowed[h]
  /\ page' = [page EXCEPT ![PageAt(h, i)][i][o] = v]
  /\ UNCHANGED <<table, cowed>>

SetItem(h, a, v) ==
  /\ h \in live
  /\ WriteAfterCopy \/ h \notin copied
  /\ \/ WriteOwnPage(h, IndexOf(a), OffsetOf(a), v)
     \/ WriteInPlace(h, IndexOf(a), OffsetOf(a), v)
  /\ UNCHANGED <<live, dict, copied>>

\* Faulty: the copy keeps the _cowed of its source.
CopyKeepingCowed(h, n) ==
  /\ h \in live
  /\ n \notin live
  /\ live' = live \cup {n}
  /\ dict' = [dict EXCEPT ![n] = n]
  /\ table' = [table EXCEPT ![n] = table[dict[h]]]
  /\ cowed' = [cowed EXCEPT ![n] = cowed[h]]
  /\ copied' = copied \cup {h}
  /\ UNCHANGED page

\* copy(): a new table naming the same pages, and an empty _cowed; the
\* source keeps its own _cowed.
Copy(h, n) ==
  /\ h \in live
  /\ n \notin live
  /\ live' = live \cup {n}
  /\ dict' = [dict EXCEPT ![n] = n]
  /\ table' = [table EXCEPT ![n] = table[dict[h]]]
  /\ cowed' = [cowed EXCEPT ![n] = {}]
  /\ copied' = copied \cup {h}
  /\ UNCHANGED page

Next ==
  \/ \E h \in Handles : New(h)
  \/ \E h \in Handles, a \in Addrs, v \in Values : SetItem(h, a, v)
  \/ \E h, n \in Handles : Copy(h, n)

Spec == Init /\ [][Next]_vars

-----------------------------------------------------------------------------
(* Properties. *)

\* Every attribute has the shape the code gives it, and every memory reads
\* either the table made for it or the shared default one.
TypeOK ==
  /\ live \subseteq Handles
  /\ dict \in [Handles -> Dicts]
  /\ table \in [Dicts -> [Indexes -> Handles \cup {NoPage}]]
  /\ page \in [Handles -> [Indexes -> [Offsets -> Values \cup {NoValue}]]]
  /\ cowed \in [Handles -> SUBSET Indexes]
  /\ copied \subseteq live
  /\ \A h \in live : dict[h] \in {h, Default}

\* A page a memory has in _cowed is one it made itself.
OwnsCowedPages ==
  \A h \in live : \A i \in cowed[h] : table[dict[h]][i] = h

\* A page reached through another memory's table belongs to a memory that
\* has been copied, and so is written no more.
SharedOnlyIfCopied ==
  \A g \in live, h \in Handles, i \in Indexes :
    table[dict[g]][i] = h => h \in live /\ (g = h \/ h \in copied)

\* No two memories read the same page table.
TablesPrivate ==
  \A g, h \in live : dict[g] = dict[h] => g = h

\* Before the first memory is built the default table is empty.
DefaultStartsEmpty ==
  live = {} => \A i \in Indexes : table[Default][i] = NoPage

\* The invariant that makes copies private: it is inductive for a client that
\* builds one root and stops writing a memory once it has copied it.
IInv ==
  /\ TypeOK
  /\ OwnsCowedPages
  /\ SharedOnlyIfCopied
  /\ TablesPrivate
  /\ DefaultStartsEmpty

\* What a client can read through its handles.
ReadableContents ==
  [h \in Handles |->
    [a \in Addrs |-> IF h \in live THEN GetItem(h, a) ELSE NoValue]]

Store == INSTANCE PrivateStores WITH contents <- ReadableContents

\* Page sharing is invisible: each memory behaves as a map of its own.
IsPrivateStore == Store!Spec

\* find() returns exactly the stored addresses of its range whenever the range
\* is short, starts on a page boundary or starts in a page that exists.
FindExactFromPage ==
  \A h \in live, first \in Addrs : \A last \in first .. NumPages * PageSize - 1 :
    \/ Find(h, first, last) = Stored(h, first, last)
    \/ /\ last - first >= LargeRange
       /\ OffsetOf(first) # 0
       /\ PageAt(h, IndexOf(first)) = NoPage

\* The docstring's reference loop and the loop that runs agree.
FindMatchesReference ==
  \A h \in live, first \in Addrs : \A last \in first .. NumPages * PageSize - 1 :
    Find(h, first, last) = FindShort(h, first, last)

=============================================================================
