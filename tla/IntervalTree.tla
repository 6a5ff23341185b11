---------------------------- MODULE IntervalTree ----------------------------
(***************************************************************************)
(* memory/lib/pitree/intervaltree.py and node.py: the interval tree of     *)
(* which a pitree keeps one for its pages and one per page, a search tree  *)
(* on the begin of the intervals whose nodes know the largest end below    *)
(* them and the depths of their two sides, balanced by rotations.          *)
(*                                                                         *)
(* The heap is a function from names to nodes.  A Root object, of which    *)
(* only the left child is used, is named by its tree; a Node is named by a *)
(* number, in the order of creation, and the interval it was made for      *)
(* carries that number as its data.  The two rotations are one operator,   *)
(* as the code of each is the mirror image of the other.                   *)
(*                                                                         *)
(* Node.add and Node.rebalance call themselves for the next node down and  *)
(* up.  Each of these calls is a step, and no other operation begins       *)
(* before they end.                                                        *)
(***************************************************************************)
EXTENDS Integers, FiniteSets, FiniteSetsExt

CONSTANTS
  Handles,   (* the trees                                                  *)
  Spans,     (* the intervals that are added, pairs <<begin, end>>         *)
  MaxNodes   (* bound: nodes made, by add or by copy                       *)

ASSUME SpansAssumption == Spans \subseteq {s \in Nat \X Nat : s[1] < s[2]}
ASSUME BoundAssumption == MaxNodes \in Nat
ASSUME HandlesAssumption == Handles \cap Nat = {}   (* a root is no node *)

Names == 1 .. MaxNodes
None == 0

VARIABLES
  live,    (* trees created so far                                         *)
  node,    (* the heap                                                     *)
  count,   (* count[h]: the attribute n of h                               *)
  made,    (* nodes made so far                                            *)
  writer,  (* client: the tree written last                                *)
  call     (* the add that is under way, and the node it has come to       *)

vars == <<live, node, count, made, writer, call>>

Idle == [pc |-> "idle"]
Call(pc, h, x, i) == [pc |-> pc, tree |-> h, at |-> x, item |-> i]

Sides == {"left", "right"}
Other(side) == IF side = "left" THEN "right" ELSE "left"

\* Node(interval, interval.end, parent).
Node(i, end, p) ==
  [item |-> i, max |-> end, parent |-> p,
   child |-> [s \in Sides |-> None], depth |-> [s \in Sides |-> 0]]
Absent == Node(<<>>, 0, None)

-----------------------------------------------------------------------------
(* The nodes of a tree. *)

ChildrenOf(m, x) == {m[x].child[s] : s \in Sides} \ {None}
Height(m, x) == 1 + Max({m[x].depth[s] : s \in Sides})
\* Faulty: the ends below are forgotten.
LargestEndAlone(m, x) == m[x].item[2]

LargestEnd(m, x) == Max({m[x].item[2]} \cup {m[c].max : c \in ChildrenOf(m, x)})
SideOf(m, x) == IF m[m[x].parent].child["left"] = x THEN "left" ELSE "right"

\* The nodes of the subtree of each node.
Subtrees(m) ==
  LET below[x \in Names] == {x} \cup UNION {below[c] : c \in ChildrenOf(m, x)} IN below

Below(m, x) == IF x = None THEN {} ELSE Subtrees(m)[x]
NodesOf(h) == Below(node, node[h].child["left"])

-----------------------------------------------------------------------------
(* Rotating. *)

\* Faulty: the child that changes sides keeps its old parent.
AdoptForgetfully(m, t, x) == m

Adopt(m, t, x) == IF t = None THEN m ELSE [m EXCEPT ![t].parent = x]

\* rotationRight (s is "left") and rotationLeft (s is "right"): the child z of
\* x on side s takes the place of x, and x that of the child t of z.
Relink(m, x, s) ==
  LET o == Other(s)
      z == m[x].child[s]
      t == m[z].child[o]
      p == m[x].parent
  IN  [m EXCEPT ![p].child[SideOf(m, x)] = z,
                ![z].parent = p,
                ![z].child[o] = x,
                ![x].parent = z,
                ![x].child[s] = t,
                ![x].depth[s] = m[z].depth[o]]

TellDepth(m, z, o, x) == [m EXCEPT ![z].depth[o] = Height(m, x)]
TellEnds(m, x) == [m EXCEPT ![x].max = LargestEnd(m, x)]

Lift(m, x, s) ==
  LET o == Other(s)
      z == m[x].child[s]
      t == m[z].child[o]
  IN  TellEnds(TellEnds(TellDepth(Adopt(Relink(m, x, s), t, x), z, o, x), x), z)

\* Faulty: the child is never rotated first.
RestoreOnce(m, p, s) == Lift(m, p, s)

\* p is two deeper on side s: one rotation, or two if its child there is
\* deeper on the inside.
Restore(m, p, s) ==
  LET c == m[p].child[s]
      o == Other(s)
  IN  IF m[c].depth[o] <= m[c].depth[s] THEN Lift(m, p, s)
      ELSE Lift(Lift(m, c, o), p, s)

-----------------------------------------------------------------------------
(* Searching. *)

Overlap(b, e, i) == ~(b >= i[2] \/ e <= i[1])

\* Node.search: a side is left out when nothing there ends late enough or
\* begins early enough.
Found(b, e) ==
  LET Reaches(c) == c # None /\ node[c].max >= b
      found[x \in Names] ==
        LET here  == node[x].item
            left  == node[x].child["left"]
            right == node[x].child["right"]
        IN  {i \in {here} : Overlap(b, e, i)}
              \cup (IF Reaches(left) THEN found[left] ELSE {})
              \cup (IF Reaches(right) /\ here[1] <= e THEN found[right] ELSE {})
  IN  found

Search(h, b, e) ==
  LET root == node[h].child["left"] IN IF root = None THEN {} ELSE Found(b, e)[root]

\* containsPoint: the end is in the interval and the begin is not, the other
\* way round than in overlap().
ContainsPoint(i, p) == i[1] < p /\ i[2] >= p

\* Node.search_point: what a search for one number looks at.
FoundAt(p) ==
  LET Reaches(c) == c # None /\ node[c].max >= p
      found[x \in Names] ==
        LET here  == node[x].item
            left  == node[x].child["left"]
            right == node[x].child["right"]
        IN  {i \in {here} : ContainsPoint(i, p)}
              \cup (IF Reaches(left) THEN found[left] ELSE {})
              \cup (IF Reaches(right) /\ here[1] <= p THEN found[right] ELSE {})
  IN  found

\* search(p) of a tree that is not empty.
SearchPoint(h, p) == FoundAt(p)[node[h].child["left"]]

\* linear_search: no side is left out.
LinearSearch(h, b, e) == {i \in {node[x].item : x \in NodesOf(h)} : Overlap(b, e, i)}

-----------------------------------------------------------------------------
(* The operations. *)

Init ==
  /\ live = {}
  /\ node = [x \in Handles \cup Names |-> Absent]
  /\ count = [h \in Handles |-> 0]
  /\ made = 0
  /\ writer \in Handles
  /\ call = Idle

New(h) ==
  /\ live = {}
  /\ live' = {h}
  /\ writer' = h
  /\ UNCHANGED <<node, count, made, call>>

\* add(): the count is raised first; the first node needs no search.
Add(h, s) ==
  LET y == made + 1
      i == <<s[1], s[2], y>>
      root == node[h].child["left"]
  IN  /\ h \in live
      /\ call = Idle
      /\ made < MaxNodes
      /\ count' = [count EXCEPT ![h] = @ + 1]
      /\ \/ /\ root = None
            /\ node' = [node EXCEPT ![h].child["left"] = y, ![y] = Node(i, i[2], h)]
            /\ made' = y
            /\ writer' = h
            /\ UNCHANGED call
         \/ /\ root # None
            /\ call' = Call("descend", h, root, i)
            /\ UNCHANGED <<node, made, writer>>
      /\ UNCHANGED live

\* Node.add(): equal begins go to the right, and the node passed is told the
\* end to come.
SideFor(x, i) == IF i[1] >= node[x].item[1] THEN "right" ELSE "left"
Passed(x, i) == [node EXCEPT ![x].max = Max({@, i[2]})]

Descend ==
  LET x == call.at
      c == node[x].child[SideFor(x, call.item)]
  IN  /\ call.pc = "descend"
      /\ c # None
      /\ node' = Passed(x, call.item)
      /\ call' = [call EXCEPT !.at = c]
      /\ UNCHANGED <<live, count, made, writer>>

Attach ==
  LET x == call.at
      i == call.item
      s == SideFor(x, i)
      y == made + 1
  IN  /\ call.pc = "descend"
      /\ node[x].child[s] = None
      /\ node' = [Passed(x, i) EXCEPT ![x].child[s] = y, ![y] = Node(i, i[2], x)]
      /\ made' = y
      /\ writer' = call.tree
      /\ call' = Call("rebalance", call.tree, y, i)
      /\ UNCHANGED <<live, count>>

\* rebalance(): the parent is told the depth of x, and is rebalanced next
\* unless it is rotated now or is the root.
Rebalance ==
  LET x == call.at
      p == node[x].parent
      told == [node EXCEPT ![p].depth[SideOf(node, x)] = Height(node, x)]
      deeper == {s \in Sides : told[p].depth[s] - told[p].depth[Other(s)] >= 2}
  IN  /\ call.pc = "rebalance"
      /\ \/ /\ p \in Handles
            /\ call' = Idle
            /\ UNCHANGED node
         \/ /\ p \notin Handles
            /\ deeper = {}
            /\ node' = told
            /\ call' = [call EXCEPT !.at = p]
         \/ /\ p \notin Handles
            /\ \E s \in deeper : node' = Restore(told, p, s)
            /\ call' = Idle
      /\ UNCHANGED <<live, count, made, writer>>

\* The names of the clones of the nodes of h, and of its root, in a copy n.
CloneNames(h, n) ==
  [x \in NodesOf(h) \cup {h} |->
     IF x = h THEN n ELSE made + Cardinality({y \in NodesOf(h) : y <= x})]

\* Faulty: the right subtree is not cloned but shared.
CloneSharingRight(new, x) ==
  LET To(y) == IF y = None THEN None ELSE new[y]
  IN  [node[x] EXCEPT !.parent = To(@), !.child["left"] = To(@)]

\* The clone of node x, which has the clones of its neighbours.
Clone(new, x) ==
  LET To(y) == IF y = None THEN None ELSE new[y]
  IN  [node[x] EXCEPT !.parent = To(@), !.child = [s \in Sides |-> To(@[s])]]

\* copy(): every node is cloned, the count is not; an empty tree has no root
\* to clone, and pitree never copies one.
Copy(h, n) ==
  LET new == CloneNames(h, n)
      Origin(y) == {x \in DOMAIN new : new[x] = y}
  IN  /\ h \in live
      /\ n \in Handles \ live
      /\ call = Idle
      /\ NodesOf(h) # {}
      /\ made + Cardinality(NodesOf(h)) <= MaxNodes
      /\ live' = live \cup {n}
      /\ node' = [y \in DOMAIN node |->
           IF Origin(y) = {} THEN node[y] ELSE Clone(new, CHOOSE x \in Origin(y) : TRUE)]
      /\ count' = [count EXCEPT ![n] = 0]
      /\ made' = made + Cardinality(NodesOf(h))
      /\ UNCHANGED <<writer, call>>

Next ==
  \/ \E h \in Handles : New(h)
  \/ \E h \in Handles, s \in Spans : Add(h, s)
  \/ Descend
  \/ Attach
  \/ Rebalance
  \/ \E h, n \in Handles : Copy(h, n)

Spec == Init /\ [][Next]_vars

-----------------------------------------------------------------------------
(* Properties. *)

\* The ends that node x knows of: those below it, and that of an interval to
\* be added further down.
KnownEnds(x) ==
  {node[y].item[2] : y \in Below(node, x)} \cup
  IF call.pc = "descend" /\ call.at \in Below(node, x) \ {x} THEN {call.item[2]} ELSE {}

\* The heap has the shape the code gives it: a child knows its parent, no node
\* is in two trees, and a node knows the largest end below it.
TypeOK ==
  /\ live \subseteq Handles /\ made \in 0 .. MaxNodes /\ writer \in Handles
  /\ count \in [Handles -> 0 .. MaxNodes]
  /\ call # Idle => call.tree \in live /\ call.at \in NodesOf(call.tree)
  /\ \A g, h \in live : g # h => NodesOf(g) \cap NodesOf(h) = {}
  /\ \A h \in live : \A x \in NodesOf(h) :
       /\ node[node[x].parent].child[SideOf(node, x)] = x
       /\ node[x].parent \in NodesOf(h) \cup {h}
       /\ node[x].max = Max(KnownEnds(x))

\* However the intervals arrive, after each add the two sides of a node differ
\* in depth by one at most, and the depths the nodes keep, through single and
\* double rotations and in copies, are those of the tree.
Balanced ==
  call = Idle => \A h \in live : \A x \in NodesOf(h), s \in Sides :
    /\ node[x].depth[s] - node[x].depth[Other(s)] <= 1
    /\ LET c == node[x].child[s]
       IN  node[x].depth[s] = IF c = None THEN 0 ELSE Height(node, c)

Items(h) == {node[x].item : x \in NodesOf(h)}

Oracle == INSTANCE Untree
            WITH Data <- Names,
                 items <- [h \in Handles |-> IF h \in live THEN Items(h) ELSE {}]

\* A tree is the list of what was added to it: no rotation loses a subtree,
\* and what is added to a copy does not show in its source.
IsUntree == Oracle!Spec

\* The searches for a range and for a point leave out no subtree that has an
\* interval to be found, also where equal begins lie on both sides of a node
\* after a rotation.
Queries == {<<s[1], r[2]>> : s, r \in Spans} \cap {q \in Nat \X Nat : q[1] < q[2]}
SearchIsExact ==
  call = Idle => \A h \in live :
    /\ \A q \in Queries : /\ Search(h, q[1], q[2]) = Oracle!Hits(Items(h), q[1], q[2])
                           /\ LinearSearch(h, q[1], q[2]) = Search(h, q[1], q[2])
    /\ \A p \in UNION {{s[1], s[2]} : s \in Spans} : NodesOf(h) # {} =>
         SearchPoint(h, p) = {i \in Items(h) : ContainsPoint(i, p)}

=============================================================================
