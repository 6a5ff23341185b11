--------------------------- MODULE PrivateStores ---------------------------
(***************************************************************************)
(* What a concrete memory promises to the symbolic memory that owns it.    *)
(*                                                                         *)
(* A handle is one memory object; forking an execution state copies it.    *)
(* Each handle behaves as a map of its own from addresses to entries: a    *)
(* new one is empty, a copy starts with the contents of its source, and a  *)
(* write is visible through the handle it was made through and through no  *)
(* other.  Both memory/lib/paged_memory.py and memory/lib/unpaged_memory.py*)
(* are meant to offer this; PagedMemory and UnpagedMemory are checked      *)
(* against it.                                                             *)
(***************************************************************************)

CONSTANTS
  Handles,   (* the memory objects the program may create *)
  Addrs,     (* the addresses                             *)
  Values,    (* the entries an address may hold           *)
  NoValue    (* nothing is stored at the address          *)

VARIABLES
  live,      (* the handles created so far                *)
  contents   (* contents[h][a]: what h holds at address a *)

vars == <<live, contents>>

EmptyStore == [a \in Addrs |-> NoValue]

Init ==
  /\ live = {}
  /\ contents = [h \in Handles |-> EmptyStore]

New(h) ==
  /\ h \notin live
  /\ live' = live \cup {h}
  /\ contents' = [contents EXCEPT ![h] = EmptyStore]

SetItem(h, a, v) ==
  /\ h \in live
  /\ contents' = [contents EXCEPT ![h][a] = v]
  /\ UNCHANGED live

Copy(h, n) ==
  /\ h \in live
  /\ n \notin live
  /\ live' = live \cup {n}
  /\ contents' = [contents EXCEPT ![n] = contents[h]]

Next ==
  \/ \E h \in Handles : New(h)
  \/ \E h \in Handles, a \in Addrs, v \in Values : SetItem(h, a, v)
  \/ \E h, n \in Handles : Copy(h, n)

Spec == Init /\ [][Next]_vars

=============================================================================
