---------------------------- MODULE AddressSpace ----------------------------
(***************************************************************************)
(* The memory map of memory/range_fully_symbolic_memory.py together with   *)
(* the contents: accesses of several bytes at symbolic addresses, checked  *)
(* against the map, and the bytes of a region that is unmapped.            *)
(*                                                                         *)
(* Of the contents only this is kept: which bytes hold the Python integer  *)
(* 0 that unmap_region() stores, where every other writer stores a claripy *)
(* expression.  A load that gets one among the items of a byte does with   *)
(* it what only an expression can do: it joins it to other bytes, reverses *)
(* it, asks for its op; where that fails load() ends the process.          *)
(***************************************************************************)
EXTENDS MappedRegions

(***************************************************************************)
(* What a client may be relied on for:                                     *)
(*   "apart"    a region leaves a byte free on either side;                *)
(*   "fresh"    it does not lie on or next to bytes that were unmapped;    *)
(*   "whole"    what is unmapped is a region, from end to end;             *)
(*   "strict"   states have the option STRICT_PAGE_ACCESS;                 *)
(*   "inside"   an access that starts in a region, or at the end of one,   *)
(*              goes no further;                                           *)
(*   "interval" the values of a symbolic address have no gaps.             *)
(***************************************************************************)
Rules == {"apart", "fresh", "whole", "strict", "inside", "interval"}

CONSTANTS
  RuleSets,    (* the sets of rules clients follow                         *)
  AccessSizes, (* bound: sizes of accesses                                 *)
  MaxIntegers  (* bound: bytes that hold an integer, by rules              *)

ASSUME RulesAssumption == RuleSets \subseteq SUBSET Rules
ASSUME AccessAssumption ==
  AccessSizes \subseteq Nat \ {0} /\ MaxIntegers \in [RuleSets -> Nat]

VARIABLES
  rules,     (* the rules the client follows, fixed                        *)
  integers,  (* the bytes that hold an integer                             *)
  met        (* has a load come upon one?                                  *)

vars == <<regions, stack, rules, integers, met>>

Bytes(a, n) == a .. a + n - 1

Init == NoMap /\ rules \in RuleSets /\ integers = {} /\ met = FALSE

-----------------------------------------------------------------------------
(* The client. *)

\* Do the bytes from a on leave one free on either side?
Free(list, a, n) ==
  \A r \in Range(list) : a + n < r.addr \/ End(r) < a

\* May they be mapped, when the rest of the map is this list?
MayMap(list, a, n) ==
  /\ "apart" \in rules => Free(list, a, n)
  /\ "fresh" \in rules => Bytes(a - 1, n + 2) \cap integers = {}

MayUnmap(a, n) ==
  "whole" \in rules => \E r \in Range(regions) : r.addr = a /\ r.length = n

\* May n bytes be accessed at an address with these values?
MayAccess(values, n) ==
  /\ \A v \in values : v + n <= NumAddrs
  /\ "interval" \in rules => values = Min(values) .. Max(values)
  /\ "inside" \in rules => \A v \in values, r \in Range(regions) :
       r.addr <= v /\ v <= End(r) => v + n - 1 <= End(r)

-----------------------------------------------------------------------------
(* The memory. *)

Map(a, n, p) ==
  /\ MayMap(regions, a, n)
  /\ MapRegion(a, n, p)
  /\ UNCHANGED <<rules, integers, met>>

\* unmap_region() stores its zeros whether there is a region or not, and before
\* it compares the lengths.
Unmap(a, n) ==
  /\ MayUnmap(a, n)
  /\ integers' = integers \cup Bytes(a, n)
  /\ Cardinality(integers') <= MaxIntegers[rules]
  /\ UnmapRegion(a, n)
  /\ UNCHANGED <<rules, met>>

Stack(a, n) ==
  /\ MayMap(Unstacked, a, n)
  /\ SetStack(a, n)
  /\ UNCHANGED <<rules, integers, met>>

\* The check is given the values of the first byte, whatever the size.
Passes(values, access) == "strict" \in rules => ~Faults(regions, values, access)

\* store(): at an address with one value the items of its bytes are replaced;
\* with more, or under a guard, an item is added to what is there.
Write(values, n, guarded) ==
  /\ MayAccess(values, n)
  /\ Passes(values, "w")
  /\ integers' = IF Cardinality(values) = 1 /\ ~guarded
                   THEN integers \ Bytes(Min(values), n) ELSE integers
  /\ UNCHANGED <<regions, stack, rules, met>>

\* load(): the items of each byte are searched from the least to the greatest
\* value of its address.
Read(values, n) ==
  /\ MayAccess(values, n)
  /\ Passes(values, "r")
  /\ met' = (met \/ Min(values) .. Max(values) + n - 1 \cap integers # {})
  /\ UNCHANGED <<regions, stack, rules, integers>>

Next ==
  \/ \E s \in Spans, p \in Permissions : Map(s[1], s[2], p)
  \/ \E s \in Spans : Unmap(s[1], s[2]) \/ Stack(s[1], s[2])
  \/ \E values \in (SUBSET Addrs) \ {{}}, n \in AccessSizes :
       \/ \E guarded \in BOOLEAN : Write(values, n, guarded)
       \/ Read(values, n)

Spec == Init /\ [][Next]_vars

-----------------------------------------------------------------------------
(* Properties. *)

\* permissions() answers with the permissions of the region of the address,
\* the addr .. addr + length - 1 that unmap_region() clears.
PermissionsOfRegion ==
  "apart" \in rules =>
    \A r \in Range(regions) : \A a \in Bytes(r.addr, r.length) :
      PermissionsAt(regions, a) = r.perms

\* A check of the first byte, for the values the solver gives it, is enough to
\* keep loads off the integers of unmapped regions, where it is made and
\* clients follow all the rules.
NoIntegerMet == rules = Rules => ~met

=============================================================================
