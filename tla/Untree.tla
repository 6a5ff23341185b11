------------------------------ MODULE Untree ------------------------------
(***************************************************************************)
(* memory/lib/pitree/untree.py: a plain list of intervals with data, which *)
(* tester.py runs next to the paged interval tree as its oracle.  A list   *)
(* item is reached by its index and carries data nobody else carries, so   *)
(* the list is modelled as a set of <<begin, end, data>>.                  *)
(*                                                                         *)
(* One tree is built from scratch, all others are copies of it or of its   *)
(* copies: that is how a symbolic memory uses its trees, and a second      *)
(* Untree() would share the default argument items=[] with the first.      *)
(***************************************************************************)
EXTENDS Integers

CONSTANTS
  Handles,   (* the trees                                                  *)
  Spans,     (* the intervals [begin, end), pairs of naturals              *)
  Data       (* what an interval may carry                                 *)

VARIABLES
  live,      (* trees created so far                                       *)
  items,     (* items[h]: the list of h                                    *)
  writer     (* the tree written last                                      *)

vars == <<live, items, writer>>

Intersect(b1, e1, b2, e2) ==
  LET Least(x, y)    == IF x <= y THEN x ELSE y
      Greatest(x, y) == IF x >= y THEN x ELSE y
  IN  Least(e1, e2) - Greatest(b1, b2) > 0

\* search(a, b) over a list of items.
Hits(list, a, b) == {i \in list : Intersect(a, b, i[1], i[2])}

Init ==
  /\ live = {}
  /\ items = [h \in Handles |-> {}]
  /\ writer \in Handles

New(h) ==
  /\ live = {}
  /\ live' = {h}
  /\ writer' = h
  /\ UNCHANGED items

Add(h, s, d) ==
  /\ h \in live
  /\ items' = [items EXCEPT ![h] = @ \cup {<<s[1], s[2], d>>}]
  /\ writer' = h
  /\ UNCHANGED live

\* The item at e.index is replaced by one with the new data.
UpdateItem(h, e, d) ==
  /\ h \in live
  /\ e \in items[h]
  /\ items' = [items EXCEPT ![h] = (@ \ {e}) \cup {<<e[1], e[2], d>>}]
  /\ writer' = h
  /\ UNCHANGED live

Copy(h, n) ==
  /\ h \in live
  /\ n \notin live
  /\ live' = live \cup {n}
  /\ items' = [items EXCEPT ![n] = items[h]]
  /\ writer' \in {writer, n}

Next ==
  \/ \E h \in Handles : New(h)
  \/ \E h \in Handles, s \in Spans, d \in Data : Add(h, s, d)
  \/ \E h \in live : \E e \in items[h], d \in Data : UpdateItem(h, e, d)
  \/ \E h, n \in Handles : Copy(h, n)

Spec == Init /\ [][Next]_vars

=============================================================================
