---------------------------- MODULE MappedRegions ----------------------------
(***************************************************************************)
(* The memory map of memory/range_fully_symbolic_memory.py: the sorted     *)
(* list _mapped_regions of a memory, the stack the loader sets, and the    *)
(* two readers of the list, permissions() for one address and              *)
(* check_sigsegv_and_refine() for all values a symbolic address may have.  *)
(* copy() gives the copy a list of its own: the state is that of one       *)
(* memory.  AddressSpace adds the contents and says what a client does.    *)
(***************************************************************************)
EXTENDS Integers, Sequences, FiniteSets, SequencesExt, FiniteSetsExt

CONSTANTS
  NumAddrs,    (* bound: the addresses are 0 .. NumAddrs - 1               *)
  Permissions, (* sets of "r" and "w" a region may have                    *)
  MaxRegions,  (* bound: regions of one memory                             *)
  NoStack      (* _stack_range is None                                     *)

ASSUME SizesAssumption == NumAddrs \in Nat \ {0} /\ MaxRegions \in Nat
ASSUME PermissionsAssumption ==
  Permissions \subseteq SUBSET {"r", "w"} /\ {"r", "w"} \in Permissions

Addrs == 0 .. NumAddrs - 1
Spans == {s \in Addrs \X (1 .. NumAddrs) : s[1] + s[2] <= NumAddrs}

VARIABLES
  regions,  (* the list _mapped_regions                                    *)
  stack     (* where _stack_range starts                                   *)

Region(a, n, p) == [addr |-> a, length |-> n, perms |-> p]

\* What a region is compared with: its end counts as inside.
End(r) == r.addr + r.length

-----------------------------------------------------------------------------
(* Changing the map. *)

\* Faulty: the list is not sorted again.
InsertLast(list, r) == Append(list, r)

\* append, then sorted() by address, which is stable: in a sorted list the new
\* region comes before the first one that starts later.
Insert(list, r) ==
  LET later == {k \in DOMAIN list : r.addr < list[k].addr}
  IN  InsertAt(list, Min(later \cup {Len(list) + 1}), r)

\* The list without its first region that starts at a.
Without(list, a) ==
  LET at == {k \in DOMAIN list : list[k].addr = a}
  IN  IF at = {} THEN list ELSE RemoveAt(list, Min(at))

NoMap == regions = <<>> /\ stack = NoStack

MapRegion(a, n, p) ==
  /\ Len(regions) < MaxRegions
  /\ regions' = Insert(regions, Region(a, n, p))
  /\ UNCHANGED stack

\* Faulty: the map is left as it is.
UnmapContents(a, n) == UNCHANGED <<regions, stack>>

\* The first region that starts at a goes.  That it is as long as the caller
\* says is an assertion; where it fails the region stays.
UnmapRegion(a, n) ==
  LET at == {k \in DOMAIN regions : regions[k].addr = a}
      fails == at # {} /\ regions[Min(at)].length # n
  IN  /\ regions' = IF fails THEN regions ELSE Without(regions, a)
      /\ UNCHANGED stack

\* The list without the region of the old stack.
Unstacked == IF stack = NoStack THEN regions ELSE Without(regions, stack)

\* _preapproved_stack = value: the region of the old stack goes, the new one
\* is mapped readable and writable.
SetStack(a, n) ==
  /\ Len(Unstacked) < MaxRegions
  /\ regions' = Insert(Unstacked, Region(a, n, {"r", "w"}))
  /\ stack' = a

-----------------------------------------------------------------------------
(* Reading the map. *)

\* Faulty: the first address of a region is left out.
PermissionsPast(list, a) ==
  LET has == {k \in DOMAIN list : list[k].addr < a /\ a <= End(list[k])}
  IN  IF has = {} THEN {} ELSE list[Min(has)].perms

\* permissions(a): those of the first region that has a, none if unmapped.
PermissionsAt(list, a) ==
  LET has == {k \in DOMAIN list : list[k].addr <= a /\ a <= End(list[k])}
  IN  IF has = {} THEN {} ELSE list[Min(has)].perms

\* Faulty: a gap between two regions is not looked at.
VisitSkippingGaps(values, access, acc, r) ==
  LET hi == Max(values)
      from == acc.covered + 1
      upper == Min({End(r), hi})
  IN  IF acc.done \/ from > End(r) THEN acc
      ELSE IF hi < r.addr THEN [acc EXCEPT !.done = TRUE]
      ELSE [covered |-> upper, done |-> FALSE,
            fault |-> acc.fault \/ ( /\ access \notin r.perms
                                     /\ \E v \in values : from <= v /\ v <= upper)]

\* One turn of the loop of check_sigsegv_and_refine().  It stops at a region
\* after the values and skips one before what is left of them; else there is a
\* fault if a value may lie in front of the region, or inside it when it does
\* not permit the access.
Visit(values, access, acc, r) ==
  LET hi == Max(values)
      from == acc.covered + 1
      upper == Min({End(r), hi})
  IN  IF acc.done \/ acc.fault \/ hi < r.addr THEN [acc EXCEPT !.done = TRUE]
      ELSE IF from > End(r) THEN acc
      ELSE [covered |-> upper, done |-> FALSE,
            fault |-> \E v \in values :
                        \/ from <= v /\ v < r.addr
                        \/ access \notin r.perms /\ from <= v /\ v <= upper]

\* Does an access with these values for its address raise a segfault?
Faults(list, values, access) ==
  LET start == [covered |-> Min(values) - 1, done |-> FALSE, fault |-> FALSE]
      Turn(acc, r) == Visit(values, access, acc, r)
      end == FoldLeft(Turn, start, list)
  IN  end.fault \/ end.covered < Max(values)

-----------------------------------------------------------------------------
(* Properties. *)

\* The list has the shape the code gives it, sorted by address, however
\* regions are added, removed and replaced; the readers walk it in that order.
TypeOK ==
  /\ stack \in Addrs \cup {NoStack}
  /\ regions \in Seq([addr : Addrs, length : 1 .. NumAddrs, perms : Permissions])
  /\ Len(regions) <= MaxRegions
  /\ \A j, k \in DOMAIN regions : j < k => regions[j].addr <= regions[k].addr

\* The walk over the regions and the solver queries of the segfault check
\* accept a symbolic address exactly when permissions() allows the access at
\* each of its values, however regions nest, touch or leave gaps.
CheckIsPointwise ==
  \A values \in (SUBSET Addrs) \ {{}}, access \in {"r", "w"} :
    Faults(regions, values, access)
      <=> \E v \in values : access \notin PermissionsAt(regions, v)

=============================================================================
