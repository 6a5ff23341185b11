------------------------- MODULE IntervalTreeProofs -------------------------
(***************************************************************************)
(* Proofs that the trees of IntervalTree keep their shape, their order,    *)
(* their ends and their balance through rotations and copies, for every    *)
(* set of intervals and every sequence of adds and copies; that a search   *)
(* therefore finds just what overlaps; and that the trees are plain lists. *)
(***************************************************************************)
EXTENDS IntervalTree, FiniteSetTheorems, WellFoundedInduction, TLAPS

\* An interval with the number of its node, a node, and a heap.
Entries == {i \in Nat \X Nat \X Names : i[1] < i[2]}
Nodes == [item : Entries \cup {<<>>}, max : Nat, parent : Handles \cup Names \cup {None},
          child : [Sides -> Names \cup {None}], depth : [Sides -> Nat]]
Heaps == [Handles \cup Names -> Nodes]

\* B[x] are the nodes below x, in every tree of heap m.
Partition(m, B) ==
  /\ B \in [0 .. MaxNodes -> SUBSET Names]
  /\ B[None] = {}
  /\ \A x \in Names :
       LET l == m[x].child["left"]
           r == m[x].child["right"]
       IN  /\ B[x] = {x} \cup B[l] \cup B[r]
           /\ x \notin B[l] /\ x \notin B[r] /\ B[l] \cap B[r] = {}

\* What is below a node has all of its own nodes there, and its parent.
Closed(m, B) ==
  \A x \in Names : \A y \in B[x] :
    B[y] \subseteq B[x] /\ (y # x => m[y].parent \in B[x])

\* Children know their parents, parents their children, and the first n nodes
\* at most are in use.
Linked(m, n) ==
  /\ m \in Heaps
  /\ \A x \in Names, s \in Sides : m[x].child[s] # None => m[m[x].child[s]].parent = x
  /\ \A h \in Handles : m[h].child["right"] = None
  /\ \A h \in Handles : LET r == m[h].child["left"] IN r # None => m[r].parent = h
  /\ \A x \in Names : \/ m[x] = Absent
                      \/ /\ x <= n /\ m[x].parent # None /\ m[x].item \in Entries
                         /\ m[m[x].parent].child[SideOf(m, x)] = x

\* Two trees have no node in common.
Apart(m, B) ==
  \A g, h \in Handles : g # h => B[m[g].child["left"]] \cap B[m[h].child["left"]] = {}

Forest(m, B, n) == Partition(m, B) /\ Closed(m, B) /\ Linked(m, n) /\ Apart(m, B)

-----------------------------------------------------------------------------
(* Numbers and sets. *)

\* The constants.
LEMMA Basics ==
  /\ None = 0 /\ MaxNodes \in Nat /\ Names = 1 .. MaxNodes /\ None \notin Names
  /\ Handles \cap Names = {} /\ None \notin Handles
  /\ Sides = {"left", "right"} /\ Names \subseteq Nat
  /\ 0 .. MaxNodes = Names \cup {None}
  /\ Other("left") = "right" /\ Other("right") = "left"
  /\ \A s \in Sides : Other(s) \in Sides /\ Other(s) # s /\ Other(Other(s)) = s
BY BoundAssumption, HandlesAssumption DEF Names, None, Sides, Other

\* A nonempty set of naturals has a least member.
LEMMA LeastNumber ==
  ASSUME NEW S \in SUBSET Nat, S # {}
  PROVE  \E x \in S : \A y \in S : x <= y
<1> DEFINE Less == OpToRel(<, Nat)
<1>1. \A x, y \in Nat : <<y, x>> \in Less <=> y < x
  BY DEF OpToRel
<1>2. IsWellFoundedOn(Less, Nat)
  BY NatLessThanWellFounded
<1> HIDE DEF Less
<1>3. PICK x \in S : \A y \in S : <<y, x>> \notin Less
  BY <1>2, WFMin
<1>4. \A y \in S : ~(y < x)
  BY <1>1, <1>3
<1>5. x \in Nat /\ \A y \in S : y \in Nat
  OBVIOUS
<1> QED BY <1>4, <1>5

\* Sets of names are finite, and a part of one that is not all of it has fewer.
LEMMA FewerNames ==
  ASSUME NEW S \in SUBSET Names
  PROVE  /\ IsFiniteSet(S) /\ Cardinality(S) \in Nat
         /\ \A T \in SUBSET S : T # S => Cardinality(T) < Cardinality(S)
<1>1. IsFiniteSet(Names)
  BY FS_Interval, Basics
<1>2. IsFiniteSet(S) /\ Cardinality(S) \in Nat
  BY <1>1, FS_Subset, FS_CardinalityType
<1>3. ASSUME NEW T \in SUBSET S, T # S PROVE Cardinality(T) < Cardinality(S)
  <2>1. IsFiniteSet(T) /\ Cardinality(T) \in Nat /\ Cardinality(T) <= Cardinality(S)
        /\ (Cardinality(S) = Cardinality(T) => S = T)
    BY <1>2, FS_Subset, FS_CardinalityType
  <2> QED BY <1>2, <1>3, <2>1
<1> QED BY <1>2, <1>3

\* Among some nodes one has no other below it.
LEMMA Lowest ==
  ASSUME NEW m, NEW B, Partition(m, B), Closed(m, B), NEW S \in SUBSET Names, S # {}
  PROVE  \E x \in S : \A y \in S : y \in B[x] => B[y] = B[x]
<1> DEFINE Sizes == {Cardinality(B[x]) : x \in S}
<1>1. \A x \in S : B[x] \in SUBSET Names
  BY Basics DEF Partition
<1>2. Sizes \in SUBSET Nat /\ Sizes # {}
  BY <1>1, FewerNames
<1>3. PICK k \in Sizes : \A j \in Sizes : k <= j
  BY <1>2, LeastNumber
<1>4. PICK x \in S : k = Cardinality(B[x])
  BY <1>3
<1>5. ASSUME NEW y \in S, y \in B[x] PROVE B[y] = B[x]
  <2>1. B[y] \subseteq B[x]
    BY <1>5 DEF Closed
  <2>2. Cardinality(B[x]) <= Cardinality(B[y])
    BY <1>3, <1>4
  <2>3. B[y] # B[x] => Cardinality(B[y]) < Cardinality(B[x])
    BY <1>1, <2>1, FewerNames
  <2>4. Cardinality(B[x]) \in Nat /\ Cardinality(B[y]) \in Nat
    BY <1>1, FewerNames
  <2> QED BY <2>2, <2>3, <2>4
<1> QED BY <1>5

\* Below() is the partition.
LEMMA SubtreesAre ==
  ASSUME NEW m \in Heaps, NEW B, Partition(m, B), Closed(m, B), NEW x \in Names
  PROVE  Below(m, x) = B[x]
<1> DEFINE Is(f) == f = [y \in Names |-> {y} \cup UNION {f[c] : c \in ChildrenOf(m, y)}]
           G == [y \in Names |-> B[y]]
<1>1. \A y \in Names : ChildrenOf(m, y) = {m[y].child["left"], m[y].child["right"]} \ {None}
  BY Basics DEF ChildrenOf
<1>2. \A y \in Names : m[y].child["left"] \in Names \cup {None} /\ m[y].child["right"] \in Names \cup {None}
  BY Basics DEF Heaps, Nodes
<1>3. Is(G)
  <2>1. ASSUME NEW y \in Names PROVE B[y] = {y} \cup UNION {G[c] : c \in ChildrenOf(m, y)}
    <3>1. UNION {G[c] : c \in ChildrenOf(m, y)} = B[m[y].child["left"]] \cup B[m[y].child["right"]]
      <4>1. PICK l, r \in Names \cup {None} : l = m[y].child["left"] /\ r = m[y].child["right"]
        BY <1>2
      <4>2. ChildrenOf(m, y) = {l, r} \ {None}
        BY <1>1, <4>1
      <4>3. \A c \in ChildrenOf(m, y) : c \in Names /\ G[c] = B[c]
        BY <4>2
      <4>4. \A c \in {l, r} : c \notin ChildrenOf(m, y) => B[c] = {}
        BY <4>2 DEF Partition
      <4> HIDE DEF G
      <4> QED BY <4>1, <4>2, <4>3, <4>4
    <3> QED BY <3>1 DEF Partition
  <2> QED BY <2>1
<1>4. ASSUME NEW f, Is(f) PROVE f = G
  <2> DEFINE S == {y \in Names : f[y] # G[y]}
  <2>1. CASE S = {}
    BY <1>4, <2>1
  <2>2. CASE S # {}
    <3>1. PICK y \in S : \A z \in S : z \in B[y] => B[z] = B[y]
      BY <2>2, Lowest
    <3>2. ASSUME NEW c \in ChildrenOf(m, y) PROVE f[c] = G[c]
      <4>1. c \in Names /\ c \in B[y] /\ y \notin B[c]
        BY <1>1, <1>2 DEF Partition
      <4>2. y \in B[y]
        BY DEF Partition
      <4> QED BY <3>1, <4>1, <4>2
    <3>3. {f[c] : c \in ChildrenOf(m, y)} = {G[c] : c \in ChildrenOf(m, y)}
      BY <3>2
    <3>4. f[y] = {y} \cup UNION {f[c] : c \in ChildrenOf(m, y)}
      BY <1>4
    <3>5. G[y] = {y} \cup UNION {G[c] : c \in ChildrenOf(m, y)}
      BY <1>3
    <3> QED BY <3>1, <3>3, <3>4, <3>5
  <2> QED BY <2>1, <2>2
<1>5. Subtrees(m) = CHOOSE f : Is(f)
  BY DEF Subtrees
<1> HIDE DEF Is
<1>6. Subtrees(m) = G
  BY <1>3, <1>4, <1>5
<1> QED BY <1>6, Basics DEF Below

-----------------------------------------------------------------------------
(* A rotation. *)

\* Max() is the greatest member.
LEMMA MaxIs ==
  ASSUME NEW S \in SUBSET Nat, NEW k \in S, \A y \in S : y <= k
  PROVE  Max(S) = k
<1>1. k \in S /\ \A y \in S : k >= y
  OBVIOUS
<1>2. PICK j : j = Max(S)
  OBVIOUS
<1>3. j \in S /\ \A y \in S : j >= y
  BY <1>1, <1>2 DEF Max
<1>4. j \in Nat /\ k \in Nat /\ j >= k /\ k >= j
  BY <1>1, <1>3
<1> QED BY <1>2, <1>4

\* Max() of three numbers is one of them and none is above it.
LEMMA MaxOfThree ==
  ASSUME NEW a \in Nat, NEW b \in Nat, NEW c \in Nat
  PROVE  /\ Max({a, b, c}) \in {a, b, c}
         /\ \A y \in {a, b, c} : y <= Max({a, b, c})
<1>1. \E k \in {a, b, c} : \A y \in {a, b, c} : y <= k
  OBVIOUS
<1>2. PICK k \in {a, b, c} : \A y \in {a, b, c} : y <= k
  BY <1>1
<1>3. Max({a, b, c}) = k
  BY <1>2, MaxIs
<1> QED BY <1>2, <1>3

\* The ends that node x of m knows of are the largest of its own and of those
\* its children know of.
Told(m, x) ==
  /\ m[x].item[2] <= m[x].max
  /\ \A s \in Sides : m[x].child[s] # None => m[m[x].child[s]].max <= m[x].max
  /\ \/ m[x].max = m[x].item[2]
     \/ \E s \in Sides : m[x].child[s] # None /\ m[x].max = m[m[x].child[s]].max

\* LargestEnd() leaves a node told.
LEMMA LargestEndIs ==
  ASSUME NEW m \in Heaps, NEW x \in Names, m[x].item \in Entries
  PROVE  LET e == LargestEnd(m, x)
         IN  /\ e \in Nat /\ m[x].item[2] <= e
             /\ \A s \in Sides : m[x].child[s] # None => m[m[x].child[s]].max <= e
             /\ \/ e = m[x].item[2]
                \/ \E s \in Sides : m[x].child[s] # None /\ e = m[m[x].child[s]].max
<1>1. PICK l, r \in Names \cup {None} : l = m[x].child["left"] /\ r = m[x].child["right"]
  BY Basics DEF Heaps, Nodes
<1>2. PICK a \in Nat : a = m[x].item[2]
  BY DEF Entries
<1> DEFINE b == IF l = None THEN a ELSE m[l].max
           c == IF r = None THEN a ELSE m[r].max
<1>3. b \in Nat /\ c \in Nat
  BY <1>2 DEF Heaps, Nodes
<1>4. ChildrenOf(m, x) = {l, r} \ {None}
  BY <1>1, Basics DEF ChildrenOf
<1>5. {m[x].item[2]} \cup {m[y].max : y \in ChildrenOf(m, x)} = {a, b, c}
  BY <1>2, <1>4
<1>6. PICK e : e = LargestEnd(m, x)
  OBVIOUS
<1>7. e = Max({a, b, c})
  BY <1>5, <1>6 DEF LargestEnd
<1>8. e \in {a, b, c} /\ a <= e /\ b <= e /\ c <= e
  BY <1>2, <1>3, <1>7, MaxOfThree
<1>9. \A s \in Sides : m[x].child[s] # None => m[m[x].child[s]].max <= e
  BY <1>1, <1>8, Basics
<1>10. e = m[x].item[2] \/ \E s \in Sides : m[x].child[s] # None /\ e = m[m[x].child[s]].max
  BY <1>1, <1>2, <1>8, Basics
<1> QED BY <1>2, <1>3, <1>6, <1>8, <1>9, <1>10

\* The depth of a node is one more than the greater of its two.
LEMMA HeightIs ==
  ASSUME NEW m \in Heaps, NEW x \in Names
  PROVE  LET l == m[x].depth["left"]
             r == m[x].depth["right"]
         IN  l \in Nat /\ r \in Nat /\ Height(m, x) = 1 + (IF l <= r THEN r ELSE l)
<1>1. PICK l, r \in Nat : l = m[x].depth["left"] /\ r = m[x].depth["right"]
  BY Basics DEF Heaps, Nodes
<1>2. {m[x].depth[s] : s \in Sides} = {l, r, r}
  BY <1>1, Basics
<1>3. Max({l, r, r}) = IF l <= r THEN r ELSE l
  BY MaxOfThree
<1> QED BY <1>1, <1>2, <1>3 DEF Height

\* The nodes around a rotation are different ones.
LEMMA Around ==
  ASSUME NEW m, NEW B, NEW n, Partition(m, B), Closed(m, B), Linked(m, n),
         NEW x \in Names, NEW s \in Sides, m[x].child[s] # None
  PROVE  LET z == m[x].child[s]
             t == m[z].child[Other(s)]
             p == m[x].parent
         IN  /\ m[x] # Absent /\ z \in Names /\ z # x /\ m[z] # Absent /\ m[z].parent = x
             /\ t \in Names \cup {None} /\ t # x /\ t # z
             /\ p \in Handles \cup Names /\ p # x /\ p # z /\ p # t /\ p \notin B[x]
             /\ m[p].child[SideOf(m, x)] = x /\ SideOf(m, x) \in Sides
             /\ z \in B[x] /\ B[z] \subseteq B[x] /\ x \notin B[z]
             /\ B[t] \subseteq B[z] /\ z \notin B[t]
<1>1. m \in Heaps /\ \A y \in Names : y \in B[y]
  BY DEF Linked, Partition
<1>2. PICK z \in Names : z = m[x].child[s]
  BY <1>1 DEF Heaps, Nodes
<1>3. m[x] # Absent
  BY <1>2, Basics DEF Absent, Node
<1>4. PICK p \in Handles \cup Names : p = m[x].parent
  BY <1>1, <1>3 DEF Heaps, Nodes, Linked
<1>5. m[z].parent = x /\ m[z] # Absent
  BY <1>2, Basics DEF Linked, Absent, Node
<1>6. PICK t \in Names \cup {None} : t = m[z].child[Other(s)]
  BY <1>1, Basics DEF Heaps, Nodes
<1>7. z \in B[x] /\ B[z] \subseteq B[x] /\ x \notin B[z]
  BY <1>1, <1>2, Basics DEF Partition
<1>8. B[t] \subseteq B[z] /\ z \notin B[t] /\ B[z] \subseteq Names
  BY <1>6, Basics DEF Partition
<1>9. t # x /\ t # z
  BY <1>1, <1>7, <1>8, Basics
<1>10. m[p].child[SideOf(m, x)] = x /\ SideOf(m, x) \in Sides
  BY <1>3, <1>4, Basics DEF Linked, SideOf
<1>11. p \in Names => p \notin B[x]
  BY <1>10, Basics DEF Partition
<1>12. p \notin B[x]
  BY <1>11, <1>4, Basics DEF Partition
<1>13. p # x /\ p # z /\ p # t
  BY <1>1, <1>4, <1>6, <1>7, <1>8, <1>12, Basics
<1> QED BY <1>2, <1>3, <1>4, <1>5, <1>6, <1>7, <1>8, <1>9, <1>10, <1>12, <1>13

\* Node u is v with another parent, child on side r, or depth of side r.
WithParent(u, v, p) ==
  /\ u \in Nodes /\ u.parent = p /\ u.item = v.item /\ u.max = v.max
  /\ u.child = v.child /\ u.depth = v.depth

WithChild(u, v, r, c) ==
  /\ u \in Nodes /\ u.parent = v.parent /\ u.item = v.item /\ u.max = v.max
  /\ u.depth = v.depth
  /\ \A s \in Sides : u.child[s] = IF s = r THEN c ELSE v.child[s]

WithDepth(u, v, r, d) ==
  /\ u \in Nodes /\ u.parent = v.parent /\ u.item = v.item /\ u.max = v.max
  /\ u.child = v.child
  /\ \A s \in Sides : u.depth[s] = IF s = r THEN d ELSE v.depth[s]

\* An assignment to a field changes that field only.
LEMMA ParentSet ==
  ASSUME NEW v \in Nodes, NEW p \in Handles \cup Names
  PROVE  WithParent([v EXCEPT !.parent = p], v, p)
BY DEF WithParent, Nodes

\* The same of a child.
LEMMA ChildSet ==
  ASSUME NEW v \in Nodes, NEW r \in Sides, NEW c \in Names \cup {None}
  PROVE  WithChild([v EXCEPT !.child = [v.child EXCEPT ![r] = c]], v, r, c)
<1>1. v.child \in [Sides -> Names \cup {None}]
  BY DEF Nodes
<1>2. PICK k : k = [v.child EXCEPT ![r] = c]
  OBVIOUS
<1>3. k \in [Sides -> Names \cup {None}] /\ \A s \in Sides : k[s] = IF s = r THEN c ELSE v.child[s]
  BY <1>1, <1>2
<1>4. WithChild([v EXCEPT !.child = k], v, r, c)
  BY <1>3 DEF WithChild, Nodes
<1> QED BY <1>2, <1>4

\* The same of a depth.
LEMMA DepthSet ==
  ASSUME NEW v \in Nodes, NEW r \in Sides, NEW d \in Nat
  PROVE  WithDepth([v EXCEPT !.depth = [v.depth EXCEPT ![r] = d]], v, r, d)
<1>1. v.depth \in [Sides -> Nat]
  BY DEF Nodes
<1>2. PICK k : k = [v.depth EXCEPT ![r] = d]
  OBVIOUS
<1>3. k \in [Sides -> Nat] /\ \A s \in Sides : k[s] = IF s = r THEN d ELSE v.depth[s]
  BY <1>1, <1>2
<1>4. WithDepth([v EXCEPT !.depth = k], v, r, d)
  BY <1>3 DEF WithDepth, Nodes
<1> QED BY <1>2, <1>4

\* What the fields of a node are.
LEMMA FieldsAre ==
  ASSUME NEW m \in Heaps, NEW k \in Handles \cup Names, NEW r \in Sides
  PROVE  /\ m[k] \in Nodes
         /\ m[k].child[r] \in Names \cup {None} /\ m[k].child[r] \in 0 .. MaxNodes
         /\ m[k].depth[r] \in Nat /\ m[k].max \in Nat
<1>1. m[k] \in Nodes
  BY DEF Heaps
<1>2. m[k].child \in [Sides -> Names \cup {None}] /\ m[k].depth \in [Sides -> Nat]
      /\ m[k].max \in Nat
  BY <1>1 DEF Nodes
<1>3. m[k].child[r] \in Names \cup {None} /\ m[k].depth[r] \in Nat
  BY <1>2
<1> QED BY <1>1, <1>2, <1>3, Basics

\* TellDepth changes one depth of one node.
LEMMA DepthTold ==
  ASSUME NEW u \in Heaps, NEW z \in Names, NEW o \in Sides, NEW x, Height(u, x) \in Nat
  PROVE  LET w == TellDepth(u, z, o, x)
         IN  /\ w \in Heaps
             /\ WithDepth(w[z], u[z], o, Height(u, x))
             /\ \A y \in Handles \cup Names : y # z => w[y] = u[y]
<1>1. PICK d \in Nat : d = Height(u, x)
  OBVIOUS
<1>2. PICK v : v = [u[z] EXCEPT !.depth = [u[z].depth EXCEPT ![o] = d]]
  OBVIOUS
<1>3. u[z] \in Nodes
  BY DEF Heaps
<1>4. WithDepth(v, u[z], o, d)
  BY <1>2, <1>3, DepthSet
<1>5. PICK w : w = TellDepth(u, z, o, x)
  OBVIOUS
<1>6. w = [u EXCEPT ![z] = v]
  BY <1>1, <1>2, <1>5 DEF TellDepth
<1>7. w \in Heaps
  BY <1>4, <1>6 DEF Heaps, WithDepth
<1>8. w[z] = v /\ \A y \in Handles \cup Names : y # z => w[y] = u[y]
  BY <1>6 DEF Heaps
<1> QED BY <1>1, <1>4, <1>5, <1>7, <1>8

\* TellEnds changes the end that one node knows of.
LEMMA EndsTold ==
  ASSUME NEW u \in Heaps, NEW x \in Names, LargestEnd(u, x) \in Nat
  PROVE  LET w == TellEnds(u, x)
         IN  /\ w \in Heaps
             /\ \A y \in Handles \cup Names :
                  /\ w[y].parent = u[y].parent /\ w[y].item = u[y].item
                  /\ w[y].child = u[y].child /\ w[y].depth = u[y].depth
                  /\ w[y].max = IF y = x THEN LargestEnd(u, x) ELSE u[y].max
<1>1. PICK e \in Nat : e = LargestEnd(u, x)
  OBVIOUS
<1>2. PICK v : v = [u[x] EXCEPT !.max = e]
  OBVIOUS
<1>3. u[x] \in Nodes
  BY DEF Heaps
<1>4. /\ v \in Nodes /\ v.parent = u[x].parent /\ v.item = u[x].item
      /\ v.child = u[x].child /\ v.depth = u[x].depth /\ v.max = e
  BY <1>2, <1>3 DEF Nodes
<1>5. PICK w : w = TellEnds(u, x)
  OBVIOUS
<1>6. w = [u EXCEPT ![x] = v]
  BY <1>1, <1>2, <1>5 DEF TellEnds
<1>7. w \in Heaps
  BY <1>4, <1>6 DEF Heaps
<1>8. w[x] = v /\ \A y \in Handles \cup Names : y # x => w[y] = u[y]
  BY <1>6 DEF Heaps
<1> QED BY <1>1, <1>4, <1>5, <1>7, <1>8

\* What a rotation does to the nodes, field by field.
LEMMA LiftFields ==
  ASSUME NEW m, NEW B, NEW n, Partition(m, B), Closed(m, B), Linked(m, n),
         NEW x \in Names, NEW s \in Sides, m[x].child[s] # None
  PROVE  LET o == Other(s)
             z == m[x].child[s]
             t == m[z].child[o]
             p == m[x].parent
             w == Lift(m, x, s)
         IN  /\ w \in Heaps
             /\ \A y \in Handles \cup Names :
                  /\ w[y].item = m[y].item
                  /\ w[y].parent = IF y = z THEN p ELSE IF y = x THEN z
                                   ELSE IF y = t THEN x ELSE m[y].parent
                  /\ \A r \in Sides :
                       /\ w[y].child[r] = IF y = p /\ r = SideOf(m, x) THEN z
                                          ELSE IF y = z /\ r = o THEN x
                                          ELSE IF y = x /\ r = s THEN t ELSE m[y].child[r]
                       /\ w[y].depth[r] = IF y = x /\ r = s THEN m[z].depth[o]
                                          ELSE IF y = z /\ r = o THEN Height(w, x)
                                          ELSE m[y].depth[r]
                  /\ y # x /\ y # z => w[y].max = m[y].max
             /\ Told(w, x) /\ Told(w, z)
<1>1. m \in Heaps
  BY DEF Linked
<1>2. PICK o \in Sides : o = Other(s) /\ o # s
  BY Basics
<1>3. PICK z : z = m[x].child[s]
  OBVIOUS
<1>4. PICK t : t = m[z].child[o]
  OBVIOUS
<1>5. PICK p : p = m[x].parent
  OBVIOUS
<1>6. PICK q : q = SideOf(m, x)
  OBVIOUS
<1>7. /\ z \in Names /\ z # x /\ t \in Names \cup {None} /\ t # x /\ t # z
      /\ p \in Handles \cup Names /\ p # x /\ p # z /\ p # t /\ q \in Sides
  BY <1>2, <1>3, <1>4, <1>5, <1>6, Around
<1>8. m[x].item \in Entries /\ m[z].item \in Entries
  <2>1. m[x] # Absent /\ m[z] # Absent
    BY <1>3, Around
  <2> QED BY <2>1, <1>7 DEF Linked
<1> DEFINE linked == Relink(m, x, s)
           joined == Adopt(linked, t, x)
           deep   == TellDepth(joined, z, o, x)
           known  == TellEnds(deep, x)
           w      == TellEnds(known, z)
<1>9. Lift(m, x, s) = w
  BY <1>2, <1>3, <1>4 DEF Lift
<1>10. /\ linked \in Heaps
       /\ \A y \in Handles \cup Names :
            /\ linked[y].item = m[y].item /\ linked[y].max = m[y].max
            /\ linked[y].parent = IF y = z THEN p ELSE IF y = x THEN z ELSE m[y].parent
            /\ \A r \in Sides :
                 /\ linked[y].child[r] = IF y = p /\ r = q THEN z
                                         ELSE IF y = z /\ r = o THEN x
                                         ELSE IF y = x /\ r = s THEN t ELSE m[y].child[r]
                 /\ linked[y].depth[r] = IF y = x /\ r = s THEN m[z].depth[o] ELSE m[y].depth[r]
  <2>1. linked = [m EXCEPT ![p].child[q] = z,
                           ![z].parent = p,
                           ![z].child[o] = x,
                           ![x].parent = z,
                           ![x].child[s] = t,
                           ![x].depth[s] = m[z].depth[o]]
    BY <1>2, <1>3, <1>4, <1>5, <1>6 DEF Relink
  <2> HIDE DEF linked
  <2>2. PICK d \in Nat : d = m[z].depth[o]
    BY <1>1, <1>2, <1>7 DEF Heaps, Nodes
  <2>3. \A y \in Handles \cup Names :
          /\ m[y] \in Nodes
          /\ linked[y] = IF y = p THEN [m[p] EXCEPT !.child = [m[p].child EXCEPT ![q] = z]]
                         ELSE IF y = z THEN [m[z] EXCEPT !.parent = p,
                                                         !.child = [m[z].child EXCEPT ![o] = x]]
                         ELSE IF y = x THEN [m[x] EXCEPT !.parent = z,
                                                         !.child = [m[x].child EXCEPT ![s] = t],
                                                         !.depth = [m[x].depth EXCEPT ![s] = d]]
                         ELSE m[y]
    BY <2>1, <2>2, <1>1, <1>2, <1>7 DEF Heaps
  <2>4. m[p] \in Nodes /\ m[z] \in Nodes /\ m[x] \in Nodes
    BY <1>7, <2>3
  <2>5. WithChild(linked[p], m[p], q, z)
    BY <1>7, <2>3, <2>4, ChildSet
  <2>6. /\ linked[z] \in Nodes /\ linked[z].item = m[z].item /\ linked[z].max = m[z].max
        /\ linked[z].parent = p /\ linked[z].depth = m[z].depth
        /\ \A r \in Sides : linked[z].child[r] = IF r = o THEN x ELSE m[z].child[r]
    <3>1. PICK v : v = [m[z] EXCEPT !.parent = p]
      OBVIOUS
    <3>2. WithParent(v, m[z], p)
      BY <1>7, <2>4, <3>1, ParentSet
    <3>3. linked[z] = [v EXCEPT !.child = [v.child EXCEPT ![o] = x]]
      BY <1>7, <2>3, <2>4, <3>1, <3>2 DEF Nodes, WithParent
    <3>4. v \in Nodes
      BY <3>2 DEF WithParent
    <3>5. WithChild(linked[z], v, o, x)
      BY <1>2, <3>3, <3>4, ChildSet
    <3> QED BY <3>2, <3>5 DEF WithParent, WithChild
  <2>7. /\ linked[x] \in Nodes /\ linked[x].item = m[x].item /\ linked[x].max = m[x].max
        /\ linked[x].parent = z
        /\ \A r \in Sides : /\ linked[x].child[r] = IF r = s THEN t ELSE m[x].child[r]
                            /\ linked[x].depth[r] = IF r = s THEN d ELSE m[x].depth[r]
    <3>1. PICK v : v = [m[x] EXCEPT !.parent = z]
      OBVIOUS
    <3>2. WithParent(v, m[x], z)
      BY <1>7, <2>4, <3>1, ParentSet
    <3>3. PICK u : u = [v EXCEPT !.child = [v.child EXCEPT ![s] = t]]
      OBVIOUS
    <3>4. v \in Nodes
      BY <3>2 DEF WithParent
    <3>5. WithChild(u, v, s, t)
      BY <1>7, <3>3, <3>4, ChildSet
    <3>6. linked[x] = [u EXCEPT !.depth = [u.depth EXCEPT ![s] = d]]
      BY <1>7, <2>3, <2>4, <3>1, <3>2, <3>3, <3>5 DEF Nodes, WithParent, WithChild
    <3>7. u \in Nodes
      BY <3>5 DEF WithChild
    <3>8. WithDepth(linked[x], u, s, d)
      BY <2>2, <3>6, <3>7, DepthSet
    <3> QED BY <3>2, <3>5, <3>8 DEF WithParent, WithChild, WithDepth
  <2>8. \A y \in Handles \cup Names : y # p /\ y # z /\ y # x => linked[y] = m[y]
    BY <2>3
  <2>9. linked \in Heaps
    <3>1. DOMAIN linked = DOMAIN m /\ \A y \in DOMAIN m : linked[y] = linked[y]
      BY <2>1
    <3>2. \A y \in Handles \cup Names : linked[y] \in Nodes
      BY <2>3, <2>5, <2>6, <2>7, <2>8 DEF WithChild
    <3>3. linked \in [DOMAIN m -> {linked[y] : y \in DOMAIN m}]
      BY <2>1
    <3> QED BY <1>1, <3>2, <3>3 DEF Heaps
  <2> QED BY <1>7, <2>2, <2>5, <2>6, <2>7, <2>8, <2>9 DEF WithChild
<1> HIDE DEF linked
<1>11. /\ joined \in Heaps
       /\ \A y \in Handles \cup Names :
            /\ joined[y].parent = IF y = t THEN x ELSE linked[y].parent
            /\ joined[y].item = linked[y].item /\ joined[y].max = linked[y].max
            /\ joined[y].child = linked[y].child /\ joined[y].depth = linked[y].depth
  <2>1. CASE t = None
    BY <2>1, <1>10, Basics DEF Adopt
  <2>2. CASE t # None
    <3>1. joined = [linked EXCEPT ![t].parent = x]
      BY <2>2 DEF Adopt
    <3> HIDE DEF joined
    <3>2. t \in Names /\ linked \in Heaps
      BY <1>7, <1>10, <2>2
    <3> QED BY <3>1, <3>2 DEF Heaps, Nodes
  <2> QED BY <2>1, <2>2
<1> HIDE DEF joined
<1>12. Height(joined, x) \in Nat
  BY <1>11, HeightIs
<1>13. /\ deep \in Heaps
       /\ \A y \in Handles \cup Names :
            /\ deep[y].parent = joined[y].parent
            /\ deep[y].item = joined[y].item /\ deep[y].max = joined[y].max
            /\ deep[y].child = joined[y].child
            /\ \A r \in Sides :
                 deep[y].depth[r] = IF y = z /\ r = o THEN Height(joined, x) ELSE joined[y].depth[r]
  <2>1. deep \in Heaps /\ \A y \in Handles \cup Names : y # z => deep[y] = joined[y]
    BY <1>7, <1>11, <1>12, DepthTold
  <2>2. WithDepth(deep[z], joined[z], o, Height(joined, x))
    BY <1>7, <1>11, <1>12, DepthTold
  <2> HIDE DEF deep
  <2> QED BY <2>1, <2>2 DEF WithDepth
<1> HIDE DEF deep
<1>14. deep[x].item \in Entries
  BY <1>8, <1>10, <1>11, <1>13
<1>15. LargestEnd(deep, x) \in Nat
  BY <1>13, <1>14, LargestEndIs
<1>16. /\ known \in Heaps
       /\ \A y \in Handles \cup Names :
            /\ known[y].parent = deep[y].parent /\ known[y].item = deep[y].item
            /\ known[y].child = deep[y].child /\ known[y].depth = deep[y].depth
            /\ known[y].max = IF y = x THEN LargestEnd(deep, x) ELSE deep[y].max
  BY <1>13, <1>15, EndsTold
<1> HIDE DEF known
<1>17. known[z].item \in Entries
  BY <1>7, <1>8, <1>10, <1>11, <1>13, <1>16
<1>18. LargestEnd(known, z) \in Nat
  BY <1>7, <1>16, <1>17, LargestEndIs
<1>19. /\ w \in Heaps
       /\ \A y \in Handles \cup Names :
            /\ w[y].parent = known[y].parent /\ w[y].item = known[y].item
            /\ w[y].child = known[y].child /\ w[y].depth = known[y].depth
            /\ w[y].max = IF y = z THEN LargestEnd(known, z) ELSE known[y].max
  BY <1>7, <1>16, <1>18, EndsTold
<1> HIDE DEF w
<1>20. Height(w, x) = Height(joined, x)
  <2>1. \A r \in Sides : w[x].depth[r] = joined[x].depth[r]
    BY <1>7, <1>13, <1>16, <1>19
  <2>2. {w[x].depth[r] : r \in Sides} = {joined[x].depth[r] : r \in Sides}
    BY <2>1
  <2> QED BY <2>2 DEF Height
<1>21. \A r \in Sides : /\ deep[x].child[r] = IF r = s THEN t ELSE m[x].child[r]
                        /\ w[x].child[r] = deep[x].child[r]
                        /\ known[z].child[r] = IF r = o THEN x ELSE m[z].child[r]
                        /\ w[z].child[r] = known[z].child[r]
  BY <1>7, <1>10, <1>11, <1>13, <1>16, <1>19
<1>22. Told(w, x)
  <2>1. \A r \in Sides : deep[x].child[r] # None =>
          deep[x].child[r] \in Names /\ deep[x].child[r] # x /\ deep[x].child[r] # z
    <3>1. m[x].child[o] \in Names \cup {None} /\ m[x].child[o] # z /\ m[x].child[o] # x
      <4>1. m[x].child[o] # None => m[x].child[o] \in B[m[x].child[o]] /\ x \notin B[m[x].child[o]]
            /\ z \notin B[m[x].child[o]]
        BY <1>1, <1>2, <1>3, <1>7, Basics DEF Partition, Heaps, Nodes
      <4>2. m[x].child[o] \in Names \cup {None}
        BY <1>1 DEF Heaps, Nodes
      <4> QED BY <4>1, <4>2, <1>7, Basics
    <3> QED BY <3>1, <1>2, <1>7, <1>21, Basics
  <2>2. w[x].item = deep[x].item /\ w[x].max = LargestEnd(deep, x)
        /\ \A r \in Sides : deep[x].child[r] # None => w[deep[x].child[r]].max = deep[deep[x].child[r]].max
    BY <2>1, <1>7, <1>16, <1>19
  <2> QED BY <2>2, <1>13, <1>14, <1>21, LargestEndIs DEF Told
<1>23. Told(w, z)
  <2>1. \A r \in Sides : known[z].child[r] # None =>
          known[z].child[r] \in Names /\ known[z].child[r] # z
    <3>1. m[z].child[s] # None => m[z].child[s] \in Names /\ m[z].child[s] # z
      <4>1. m[z].child[s] # None => m[z].child[s] \in B[m[z].child[s]] /\ z \notin B[m[z].child[s]]
        BY <1>1, <1>7, Basics DEF Partition, Heaps, Nodes
      <4> QED BY <4>1, <1>1, <1>7, Basics DEF Heaps, Nodes
    <3> QED BY <3>1, <1>2, <1>7, <1>21, Basics
  <2>2. w[z].item = known[z].item /\ w[z].max = LargestEnd(known, z)
        /\ \A r \in Sides : known[z].child[r] # None => w[known[z].child[r]].max = known[known[z].child[r]].max
    BY <2>1, <1>7, <1>16, <1>19
  <2> QED BY <2>2, <1>7, <1>16, <1>17, <1>21, LargestEndIs DEF Told
<1>24. \A y \in Handles \cup Names :
         /\ w[y].item = m[y].item
         /\ w[y].parent = IF y = z THEN p ELSE IF y = x THEN z ELSE IF y = t THEN x ELSE m[y].parent
         /\ \A r \in Sides :
              /\ w[y].child[r] = IF y = p /\ r = q THEN z ELSE IF y = z /\ r = o THEN x
                                 ELSE IF y = x /\ r = s THEN t ELSE m[y].child[r]
              /\ w[y].depth[r] = IF y = x /\ r = s THEN m[z].depth[o]
                                 ELSE IF y = z /\ r = o THEN Height(w, x) ELSE m[y].depth[r]
         /\ y # x /\ y # z => w[y].max = m[y].max
  BY <1>7, <1>10, <1>11, <1>13, <1>16, <1>19, <1>20
<1> QED BY <1>2, <1>3, <1>4, <1>5, <1>6, <1>9, <1>19, <1>22, <1>23, <1>24

\* Heap w is m after a rotation of x with its child z on side s; o is the other
\* side, t the child that changes sides, p the parent and q the side of x.
Turned(m, B, w, x, s, o, z, t, p, q) ==
  /\ z \in Names /\ z # x /\ m[z].parent = x
  /\ t \in Names \cup {None} /\ t # x /\ t # z
  /\ p \in Handles \cup Names /\ p # x /\ p # z /\ p # t /\ p \notin B[x]
  /\ m[p].child[q] = x /\ q \in Sides
  /\ z \in B[x] /\ B[z] \subseteq B[x] /\ x \notin B[z]
  /\ w \in Heaps
  /\ \A y \in Handles \cup Names :
       /\ w[y].item = m[y].item
       /\ w[y].parent = IF y = z THEN p ELSE IF y = x THEN z
                        ELSE IF y = t THEN x ELSE m[y].parent
       /\ \A r \in Sides :
            /\ w[y].child[r] = IF y = p /\ r = q THEN z ELSE IF y = z /\ r = o THEN x
                               ELSE IF y = x /\ r = s THEN t ELSE m[y].child[r]
            /\ w[y].depth[r] = IF y = x /\ r = s THEN m[z].depth[o]
                               ELSE IF y = z /\ r = o THEN Height(w, x) ELSE m[y].depth[r]

\* A rotation turns the nodes it names and no other.
LEMMA LiftTurns ==
  ASSUME NEW m, NEW B, NEW n, Forest(m, B, n),
         NEW x \in Names, NEW s \in Sides, m[x].child[s] # None
  PROVE  Turned(m, B, Lift(m, x, s), x, s, Other(s), m[x].child[s],
                m[m[x].child[s]].child[Other(s)], m[x].parent, SideOf(m, x))
<1>1. PICK w, o, z, t, p, q : /\ w = Lift(m, x, s) /\ o = Other(s) /\ z = m[x].child[s]
                              /\ t = m[z].child[o] /\ p = m[x].parent /\ q = SideOf(m, x)
  OBVIOUS
<1>2. Partition(m, B) /\ Closed(m, B) /\ Linked(m, n)
  BY DEF Forest
<1>3. z = m[x].child[s] /\ t = m[z].child[Other(s)] /\ p = m[x].parent /\ q = SideOf(m, x)
  BY <1>1
<1>4. /\ z \in Names /\ z # x /\ m[z].parent = x
      /\ t \in Names \cup {None} /\ t # x /\ t # z
      /\ p \in Handles \cup Names /\ p # x /\ p # z /\ p # t /\ p \notin B[x]
      /\ m[p].child[q] = x /\ q \in Sides
      /\ z \in B[x] /\ B[z] \subseteq B[x] /\ x \notin B[z]
  BY <1>2, <1>3, Around
<1>5. /\ w \in Heaps
      /\ \A y \in Handles \cup Names :
           /\ w[y].item = m[y].item
           /\ w[y].parent = IF y = z THEN p ELSE IF y = x THEN z
                            ELSE IF y = t THEN x ELSE m[y].parent
           /\ \A r \in Sides :
                /\ w[y].child[r] = IF y = p /\ r = q THEN z ELSE IF y = z /\ r = o THEN x
                                   ELSE IF y = x /\ r = s THEN t ELSE m[y].child[r]
                /\ w[y].depth[r] = IF y = x /\ r = s THEN m[z].depth[o]
                                   ELSE IF y = z /\ r = o THEN Height(w, x) ELSE m[y].depth[r]
  BY <1>1, <1>2, LiftFields
<1>6. Turned(m, B, w, x, s, o, z, t, p, q)
  BY <1>4, <1>5 DEF Turned
<1> QED BY <1>1, <1>6

\* The nodes below y are y and those below its two children, seen from side s.
Splits(m, B, y, s) ==
  LET a == m[y].child[s]
      b == m[y].child[Other(s)]
  IN  /\ B[y] = {y} \cup B[a] \cup B[b]
      /\ y \notin B[a] /\ y \notin B[b] /\ B[a] \cap B[b] = {}

\* A partition splits what is below a node from either side.
LEMMA PartitionSplits ==
  ASSUME NEW m, NEW B, B \in [0 .. MaxNodes -> SUBSET Names], B[None] = {}
  PROVE  /\ Partition(m, B) => \A y \in Names, s \in Sides : Splits(m, B, y, s)
         /\ (\A y \in Names : \E s \in Sides : Splits(m, B, y, s)) => Partition(m, B)
<1>1. ASSUME Partition(m, B), NEW y \in Names, NEW s \in Sides PROVE Splits(m, B, y, s)
  BY <1>1, Basics DEF Partition, Splits
<1>2. ASSUME \A y \in Names : \E s \in Sides : Splits(m, B, y, s) PROVE Partition(m, B)
  <2>1. ASSUME NEW y \in Names
        PROVE  LET l == m[y].child["left"]
                   r == m[y].child["right"]
               IN  /\ B[y] = {y} \cup B[l] \cup B[r]
                   /\ y \notin B[l] /\ y \notin B[r] /\ B[l] \cap B[r] = {}
    <3>1. PICK s \in Sides : Splits(m, B, y, s)
      BY <1>2
    <3> QED BY <3>1, Basics DEF Splits
  <2> QED BY <2>1 DEF Partition
<1> QED BY <1>1, <1>2

\* The nodes below each node after the child z of x has been lifted to its place.
Lifted(m, B, x, s) ==
  LET z == m[x].child[s]
      t == m[z].child[Other(s)]
  IN  [B EXCEPT ![z] = B[x], ![x] = {x} \cup B[m[x].child[Other(s)]] \cup B[t]]

\* Nodes that a rotation does not move have the same below them.
LEMMA LiftedIs ==
  ASSUME NEW m, NEW B, NEW n, Forest(m, B, n),
         NEW x \in Names, NEW s \in Sides, m[x].child[s] # None
  PROVE  LET z == m[x].child[s]
             t == m[z].child[Other(s)]
             c == m[x].child[Other(s)]
             A == Lifted(m, B, x, s)
         IN  /\ A \in [0 .. MaxNodes -> SUBSET Names] /\ A[None] = {}
             /\ A[z] = B[x] /\ A[x] = {x} \cup B[c] \cup B[t]
             /\ A[x] \subseteq B[x] /\ z \notin A[x]
             /\ \A y \in 0 .. MaxNodes : y # x /\ y # z => A[y] = B[y]
             /\ c \in Names \cup {None} /\ c # x /\ c # z
             /\ B[x] = {x} \cup B[c] \cup B[z] /\ B[c] \cap B[z] = {} /\ x \notin B[c]
             /\ z \notin B[c]
             /\ Splits(m, B, z, s)
<1>1. PICK z, t, c : z = m[x].child[s] /\ t = m[z].child[Other(s)] /\ c = m[x].child[Other(s)]
  OBVIOUS
<1>2. Partition(m, B) /\ Closed(m, B) /\ Linked(m, n) /\ m \in Heaps
  BY DEF Forest, Linked
<1>3. /\ z \in Names /\ z # x /\ t \in Names \cup {None} /\ t # x /\ t # z
      /\ B[t] \subseteq B[z] /\ B[z] \subseteq B[x] /\ z \notin B[t] /\ z \in B[x]
  BY <1>1, <1>2, Around
<1>4. c \in Names \cup {None}
  BY <1>1, <1>2, Basics DEF Heaps, Nodes
<1>5. B \in [0 .. MaxNodes -> SUBSET Names] /\ B[None] = {} /\ \A y \in Names : y \in B[y]
  BY <1>2 DEF Partition
<1>6. Splits(m, B, x, s) /\ Splits(m, B, z, s)
  BY <1>2, <1>3, <1>5, PartitionSplits
<1>7. /\ B[x] = {x} \cup B[c] \cup B[z] /\ B[c] \cap B[z] = {} /\ x \notin B[c] /\ x \notin B[z]
  BY <1>1, <1>6 DEF Splits
<1>8. c # x /\ c # z /\ z \notin B[c]
  BY <1>3, <1>4, <1>5, <1>7
<1>9. Lifted(m, B, x, s) = [B EXCEPT ![z] = B[x], ![x] = {x} \cup B[c] \cup B[t]]
  BY <1>1 DEF Lifted
<1>10. PICK A : A = Lifted(m, B, x, s)
  OBVIOUS
<1>11. x \in 0 .. MaxNodes /\ z \in 0 .. MaxNodes /\ c \in 0 .. MaxNodes /\ t \in 0 .. MaxNodes
       /\ x # None /\ z # None /\ None \in 0 .. MaxNodes
  BY <1>3, <1>4, Basics
<1>12. {x} \cup B[c] \cup B[t] \in SUBSET Names /\ B[x] \in SUBSET Names
  BY <1>5, <1>11
<1>13. /\ A \in [0 .. MaxNodes -> SUBSET Names]
       /\ A[z] = B[x] /\ A[x] = {x} \cup B[c] \cup B[t]
       /\ \A y \in 0 .. MaxNodes : y # x /\ y # z => A[y] = B[y]
  BY <1>3, <1>5, <1>9, <1>10, <1>11, <1>12
<1>14. A[None] = {} /\ A[x] \subseteq B[x] /\ z \notin A[x]
  BY <1>3, <1>5, <1>7, <1>8, <1>11, <1>13
<1> QED BY <1>1, <1>4, <1>6, <1>7, <1>8, <1>10, <1>13, <1>14

\* Nodes that a rotation does not name stay as they are.
LEMMA LiftUnmoved ==
  ASSUME NEW m, NEW B, NEW n, Partition(m, B), Closed(m, B), Linked(m, n),
         NEW x \in Names, NEW s \in Sides, m[x].child[s] # None,
         NEW y \in Names, y # x, y # m[x].child[s], y # m[x].parent,
         y # m[m[x].child[s]].child[Other(s)]
  PROVE  Lift(m, x, s)[y] = m[y]
<1>1. PICK w : w = Lift(m, x, s)
  OBVIOUS
<1>2. /\ w \in Heaps /\ w[y].item = m[y].item /\ w[y].parent = m[y].parent
      /\ \A r \in Sides : w[y].child[r] = m[y].child[r] /\ w[y].depth[r] = m[y].depth[r]
      /\ w[y].max = m[y].max
  BY <1>1, LiftFields
<1>3. w[y] \in Nodes /\ m[y] \in Nodes
  BY <1>2 DEF Linked, Heaps
<1>4. w[y].child = m[y].child /\ w[y].depth = m[y].depth
  BY <1>2, <1>3 DEF Nodes
<1>5. w[y] = m[y]
  BY <1>2, <1>3, <1>4 DEF Nodes
<1> QED BY <1>1, <1>5

\* A rotation moves nodes within a tree only.
LEMMA LiftForest ==
  ASSUME NEW m, NEW B, NEW n, Forest(m, B, n),
         NEW x \in Names, NEW s \in Sides, m[x].child[s] # None
  PROVE  /\ Forest(Lift(m, x, s), Lifted(m, B, x, s), n)
         /\ \A h \in Handles : Lifted(m, B, x, s)[Lift(m, x, s)[h].child["left"]]
                                 = B[m[h].child["left"]]
<1>1. PICK o \in Sides : o = Other(s) /\ o # s /\ Other(o) = s
  BY Basics
<1>2. PICK z, t, c, p, q : /\ z = m[x].child[s] /\ t = m[z].child[o] /\ c = m[x].child[o]
                           /\ p = m[x].parent /\ q = SideOf(m, x)
  OBVIOUS
<1>3. PICK w, A : w = Lift(m, x, s) /\ A = Lifted(m, B, x, s)
  OBVIOUS
<1>4. Partition(m, B) /\ Closed(m, B) /\ Linked(m, n) /\ Apart(m, B) /\ m \in Heaps
  BY DEF Forest, Linked
<1>5. /\ z \in Names /\ z # x /\ t \in Names \cup {None} /\ t # x /\ t # z
      /\ p \in Handles \cup Names /\ p # x /\ p # z /\ p # t /\ p \notin B[x]
      /\ m[p].child[q] = x /\ q \in Sides
      /\ m[x] # Absent /\ m[z] # Absent /\ m[z].parent = x
      /\ z \in B[x] /\ B[z] \subseteq B[x] /\ x \notin B[z] /\ B[t] \subseteq B[z] /\ z \notin B[t]
  <2>1. z = m[x].child[s] /\ t = m[z].child[Other(s)] /\ p = m[x].parent
    BY <1>1, <1>2
  <2>2. /\ z \in Names /\ z # x /\ t \in Names \cup {None} /\ t # x /\ t # z
        /\ p \in Handles \cup Names /\ p # x /\ p # z /\ p # t /\ p \notin B[x]
    BY <2>1, <1>4, Around
  <2>3. m[p].child[q] = x /\ q \in Sides /\ m[x] # Absent /\ m[z] # Absent /\ m[z].parent = x
    BY <1>2, <1>4, Around
  <2>4. z \in B[x] /\ B[z] \subseteq B[x] /\ x \notin B[z] /\ B[t] \subseteq B[z] /\ z \notin B[t]
    BY <2>1, <1>4, Around
  <2> QED BY <2>2, <2>3, <2>4
<1>6. /\ w \in Heaps
      /\ \A y \in Handles \cup Names :
           /\ w[y].item = m[y].item
           /\ w[y].parent = IF y = z THEN p ELSE IF y = x THEN z ELSE IF y = t THEN x ELSE m[y].parent
           /\ \A r \in Sides :
                w[y].child[r] = IF y = p /\ r = q THEN z ELSE IF y = z /\ r = o THEN x
                                ELSE IF y = x /\ r = s THEN t ELSE m[y].child[r]
  BY <1>1, <1>2, <1>3, <1>4, LiftFields
<1>7. /\ A \in [0 .. MaxNodes -> SUBSET Names] /\ A[None] = {}
      /\ A[z] = B[x] /\ A[x] = {x} \cup B[c] \cup B[t]
      /\ A[x] \subseteq B[x] /\ z \notin A[x]
      /\ \A y \in 0 .. MaxNodes : y # x /\ y # z => A[y] = B[y]
      /\ c \in Names \cup {None} /\ c # x /\ c # z
      /\ B[x] = {x} \cup B[c] \cup B[z] /\ B[c] \cap B[z] = {} /\ x \notin B[c] /\ z \notin B[c]
      /\ Splits(m, B, z, s)
  BY <1>1, <1>2, <1>3, LiftedIs
<1>8. B \in [0 .. MaxNodes -> SUBSET Names] /\ B[None] = {} /\ \A y \in Names : y \in B[y]
  BY <1>4 DEF Partition
<1>9. PICK v \in Names \cup {None} : v = m[z].child[s]
  BY <1>4, <1>5 DEF Heaps, Nodes
<1>10. B[z] = {z} \cup B[v] \cup B[t] /\ z \notin B[v] /\ B[v] \cap B[t] = {}
  BY <1>1, <1>2, <1>7, <1>9 DEF Splits
<1>11. v # x /\ v # z
  BY <1>5, <1>8, <1>9, <1>10, Basics
<1>12. A[c] = B[c] /\ A[t] = B[t] /\ A[v] = B[v]
  BY <1>5, <1>7, <1>9, <1>11, Basics
<1>13. Partition(w, A)
  <2>1. Splits(w, A, x, s)
    <3>1. w[x].child[s] = t /\ w[x].child[o] = c
      BY <1>1, <1>2, <1>5, <1>6
    <3>2. B[c] \cap B[t] = {} /\ x \notin B[t]
      BY <1>5, <1>7
    <3> QED BY <1>1, <1>7, <1>12, <3>1, <3>2 DEF Splits
  <2>2. Splits(w, A, z, s)
    <3>1. w[z].child[s] = v /\ w[z].child[o] = x
      BY <1>1, <1>2, <1>5, <1>6, <1>9
    <3>2. A[z] = {z} \cup A[v] \cup A[x]
      BY <1>7, <1>10, <1>12
    <3>3. A[v] \cap A[x] = {}
      BY <1>5, <1>7, <1>10, <1>12
    <3> QED BY <1>1, <1>7, <1>10, <1>12, <3>1, <3>2, <3>3 DEF Splits
  <2>3. ASSUME p \in Names PROVE Splits(w, A, p, q)
    <3>1. PICK k \in Names \cup {None} : k = m[p].child[Other(q)]
      BY <1>4, <1>5, Basics, FieldsAre
    <3>2. Splits(m, B, p, q)
      BY <1>4, <1>5, <1>8, <2>3, PartitionSplits
    <3>3. B[p] = {p} \cup B[x] \cup B[k] /\ p \notin B[k] /\ B[x] \cap B[k] = {}
      BY <1>5, <3>1, <3>2 DEF Splits
    <3>4. k # x /\ k # z
      BY <1>5, <1>8, <3>1, <3>3
    <3>5. A[k] = B[k] /\ A[p] = B[p]
      BY <1>5, <1>7, <2>3, <3>1, <3>4, Basics
    <3>6. w[p].child[q] = z /\ w[p].child[Other(q)] = k
      BY <1>5, <1>6, <2>3, <3>1, Basics
    <3> QED BY <1>5, <1>7, <3>3, <3>5, <3>6 DEF Splits
  <2>4. ASSUME NEW y \in Names, y # x, y # z, y # p PROVE Splits(w, A, y, s)
    <3>1. Splits(m, B, y, s)
      BY <1>4, <1>8, PartitionSplits
    <3>2. \A r \in Sides : /\ w[y].child[r] = m[y].child[r] /\ m[y].child[r] \in 0 .. MaxNodes
                           /\ m[y].child[r] # x /\ m[y].child[r] # z
      <4>1. \A r \in Sides : w[y].child[r] = m[y].child[r]
        BY <1>6, <2>4
      <4>2. \A r \in Sides : m[y].child[r] \in 0 .. MaxNodes
        BY <1>4, FieldsAre
      <4>3. ASSUME NEW r \in Sides PROVE m[y].child[r] # x /\ m[y].child[r] # z
        <5>1. PICK d : d = m[y].child[r]
          OBVIOUS
        <5>2. d # None => m[d].parent = y
          BY <1>4, <5>1 DEF Linked
        <5>3. m[x].parent # y /\ m[z].parent # y /\ x # None /\ z # None
          BY <1>2, <1>5, <2>4, Basics
        <5> QED BY <5>1, <5>2, <5>3
      <4> QED BY <4>1, <4>2, <4>3
    <3>3. \A r \in Sides : A[w[y].child[r]] = B[m[y].child[r]]
      BY <1>7, <3>2
    <3>4. A[y] = B[y]
      BY <1>7, <2>4, Basics
    <3> QED BY <1>1, <3>1, <3>2, <3>3, <3>4 DEF Splits
  <2>5. \A y \in Names : \E r \in Sides : Splits(w, A, y, r)
    BY <2>1, <2>2, <2>3, <2>4, <1>5
  <2> QED BY <1>7, <2>5, PartitionSplits
<1>15. \A y \in Names, r \in Sides : m[y].child[r] # None => m[m[y].child[r]].parent = y
  BY <1>4 DEF Linked
<1>16. t # None => m[t].parent = z
  BY <1>1, <1>2, <1>5, <1>15
<1>14. Closed(w, A)
  <2> SUFFICES ASSUME NEW y \in Names, NEW u \in A[y]
               PROVE  A[u] \subseteq A[y] /\ (u # y => w[u].parent \in A[y])
    BY DEF Closed
  <2>1. u \in Names /\ A[u] \in SUBSET Names /\ y \in 0 .. MaxNodes /\ u \in 0 .. MaxNodes
    BY <1>7, Basics
  <2>2. \A a \in Names : \A b \in B[a] : B[b] \subseteq B[a] /\ (b # a => m[b].parent \in B[a])
    BY <1>4 DEF Closed
  <2>3. \A a \in Names : z \in B[a] /\ a # z => x \in B[a] /\ B[x] \subseteq B[a]
    BY <2>2, <1>5
  <2>4. w[u].parent = IF u = z THEN p ELSE IF u = x THEN z ELSE IF u = t THEN x ELSE m[u].parent
    BY <1>6, <2>1
  <2>5. A[u] = IF u = x THEN {x} \cup B[c] \cup B[t] ELSE IF u = z THEN B[x] ELSE B[u]
    BY <1>5, <1>7, <2>1
  <2>6. CASE y = x
    <3>1. u \in {x} \cup B[c] \cup B[t] /\ u # z
      BY <1>7, <2>6
    <3>2. CASE u = x
      BY <2>6, <3>2
    <3>3. CASE u \in B[c]
      <4>1. c \in Names
        BY <3>3, <1>7, <1>8
      <4>2. u # x /\ B[u] \subseteq B[c] /\ (u # c => m[u].parent \in B[c])
        BY <1>7, <2>2, <3>3, <4>1
      <4>3. u # t
        BY <1>5, <1>7, <1>8, <3>3, <2>1
      <4>4. u = c => m[u].parent = x
        BY <1>1, <1>2, <1>15, <4>1, Basics
      <4> QED BY <2>4, <2>5, <2>6, <3>1, <4>2, <4>3, <4>4, <1>7
    <3>4. CASE u \in B[t]
      <4>1. t \in Names
        BY <3>4, <1>5, <1>8
      <4>2. u # x /\ B[u] \subseteq B[t] /\ (u # t => m[u].parent \in B[t])
        BY <1>5, <2>2, <3>4, <4>1
      <4> QED BY <2>4, <2>5, <2>6, <3>1, <4>2, <1>7
    <3> QED BY <3>1, <3>2, <3>3, <3>4
  <2>7. CASE y = z
    <3>1. u \in B[x] /\ A[y] = B[x]
      BY <1>7, <2>7
    <3>2. B[u] \subseteq B[x] /\ (u # x => m[u].parent \in B[x])
      BY <2>2, <3>1
    <3>3. A[u] \subseteq B[x]
      BY <1>7, <2>5, <3>2
    <3>4. x \in B[x] /\ z \in B[x]
      BY <1>5, <1>8
    <3> QED BY <2>4, <2>7, <3>1, <3>2, <3>3, <3>4
  <2>8. CASE y # x /\ y # z
    <3>1. A[y] = B[y] /\ u \in B[y]
      BY <1>7, <2>1, <2>8
    <3>2. B[u] \subseteq B[y] /\ (u # y => m[u].parent \in B[y])
      BY <2>2, <3>1
    <3>3. u = z => x \in B[y] /\ B[x] \subseteq B[y] /\ p \in B[y]
      <4>1. u = z => x \in B[y] /\ B[x] \subseteq B[y]
        BY <2>3, <2>8, <3>1
      <4>2. x \in B[y] => m[x].parent \in B[y]
        BY <2>2, <2>8
      <4> QED BY <4>1, <4>2, <1>2
    <3>4. u = x => z \in B[y]
      BY <1>5, <3>2
    <3>5. u = t /\ u # y => x \in B[y]
      <4>1. u = t /\ u # y => z \in B[y]
        BY <1>16, <2>1, <3>2, Basics
      <4> QED BY <4>1, <2>3, <2>8
    <3>6. A[u] \subseteq A[y]
      BY <1>7, <2>5, <3>1, <3>2, <3>3
    <3> QED BY <2>4, <3>1, <3>2, <3>3, <3>4, <3>5, <3>6
  <2> QED BY <2>6, <2>7, <2>8
<1>17. \A y \in Names, r \in Sides :
         LET k == w[y].child[r] IN k # None => k \in Names /\ w[k].parent = y
  <2> SUFFICES ASSUME NEW y \in Names, NEW r \in Sides, w[y].child[r] # None
               PROVE  w[y].child[r] \in Names /\ w[w[y].child[r]].parent = y
    OBVIOUS
  <2>1. PICK k \in Names : k = w[y].child[r]
    BY <1>6 DEF Heaps, Nodes
  <2>2. w[k].parent = IF k = z THEN p ELSE IF k = x THEN z ELSE IF k = t THEN x ELSE m[k].parent
    BY <1>6, <2>1
  <2>3. k = IF y = p /\ r = q THEN z ELSE IF y = z /\ r = o THEN x
            ELSE IF y = x /\ r = s THEN t ELSE m[y].child[r]
    BY <1>6, <2>1
  <2>4. CASE y = p /\ r = q
    BY <2>1, <2>2, <2>3, <2>4
  <2>5. CASE y = z /\ r = o
    BY <2>1, <2>2, <2>3, <2>5, <1>5
  <2>6. CASE y = x /\ r = s
    BY <2>1, <2>2, <2>3, <2>6, <1>5
  <2>7. CASE ~(y = p /\ r = q) /\ ~(y = z /\ r = o) /\ ~(y = x /\ r = s)
    <3>1. k = m[y].child[r] /\ m[k].parent = y
      BY <2>1, <2>3, <2>7, <1>15, Basics
    <3>2. k # z
      <4>1. k = z => y = x
        BY <3>1, <1>5
      <4>2. k = z => r = o /\ m[x].child[o] = z
        BY <4>1, <3>1, <2>7, <1>1, Basics
      <4> QED BY <4>2, <1>2, <1>7
    <3>3. k # x
      <4>1. k = x => y = p
        BY <3>1, <1>2
      <4>2. k = x => m[p].child[r] = x /\ p \in Names
        BY <4>1, <3>1
      <4>3. p \in Names => m[p].child[Other(q)] # x
        <5>1. p \in Names => Splits(m, B, p, q)
          BY <1>4, <1>5, <1>8, PartitionSplits
        <5> QED BY <5>1, <1>5, <1>8 DEF Splits
      <4>4. r = q \/ r = Other(q)
        BY <1>5, Basics
      <4> QED BY <4>1, <4>2, <4>3, <4>4, <2>7
    <3>4. k # t
      <4>1. k = t => y = z
        BY <2>1, <3>1, <1>16, Basics
      <4>2. k = t => v = t
        BY <4>1, <3>1, <2>7, <1>1, <1>9, Basics
      <4> QED BY <4>2, <2>1, <1>8, <1>10
    <3> QED BY <2>1, <2>2, <3>1, <3>2, <3>3, <3>4
  <2> QED BY <2>4, <2>5, <2>6, <2>7
<1>18. \A h \in Handles :
         /\ m[h].child["right"] = None
         /\ m[h].child["left"] # None => m[m[h].child["left"]].parent = h
  BY <1>4 DEF Linked
<1>19. p \in Handles => q = "left"
  BY <1>5, <1>18, Basics
<1>20. \A h \in Handles :
         /\ w[h].child["right"] = None
         /\ LET k == w[h].child["left"]
            IN  /\ k # None => w[k].parent = h
                /\ A[k] = B[m[h].child["left"]]
  <2> TAKE h \in Handles
  <2>1. h # x /\ h # z /\ h \in Handles \cup Names /\ "left" \in Sides /\ "right" \in Sides
    BY <1>5, Basics
  <2>2. CASE h = p
    <3>1. w[h].child["right"] = None /\ w[h].child["left"] = z
      BY <2>1, <2>2, <1>6, <1>18, <1>19
    <3>2. w[z].parent = p /\ A[z] = B[x] /\ m[h].child["left"] = x
      BY <1>5, <1>6, <1>7, <1>19, <2>2
    <3> QED BY <3>1, <3>2, <2>2
  <2>3. CASE h # p
    <3>1. w[h].child["right"] = None /\ w[h].child["left"] = m[h].child["left"]
      BY <2>1, <2>3, <1>6, <1>18
    <3>2. PICK k \in Names \cup {None} : k = m[h].child["left"]
      BY <1>4, <2>1 DEF Heaps, Nodes
    <3>3. k # None => m[k].parent = h
      BY <1>18, <3>2
    <3>4. k # None => k # x /\ k # z /\ k # t
      <4>1. k = x => m[k].parent = p
        BY <1>2
      <4>2. k = z => m[k].parent = x
        BY <1>5
      <4>3. k = t /\ k # None => m[k].parent = z
        BY <1>16
      <4> QED BY <3>3, <4>1, <4>2, <4>3, <2>1, <2>3
    <3>5. k # None => w[k].parent = h
      BY <3>2, <3>3, <3>4, <1>6
    <3>6. A[k] = B[k]
      BY <3>2, <3>4, <1>7, <1>8, Basics
    <3> QED BY <3>1, <3>2, <3>5, <3>6
  <2> QED BY <2>2, <2>3
<1>21. ASSUME NEW y \in Names
       PROVE  \/ w[y] = Absent
              \/ /\ y <= n /\ w[y].parent # None /\ w[y].item \in Entries
                 /\ w[w[y].parent].child[SideOf(w, y)] = y
  <2>1. w[y].parent = IF y = z THEN p ELSE IF y = x THEN z ELSE IF y = t THEN x ELSE m[y].parent
    BY <1>6
  <2>2. CASE m[y] = Absent
    <3>1. \A r \in Sides : m[y].child[r] = None
      BY <2>2 DEF Absent, Node
    <3>2. m[y].parent = None
      BY <2>2 DEF Absent, Node
    <3>3. y # x /\ y # z /\ y # t
      BY <1>5, <1>16, <2>2, <3>2, Basics
    <3>4. y # p
      BY <1>5, <3>1, Basics
    <3>5. w[y] = m[y]
      BY <3>3, <3>4, <1>1, <1>2, <1>3, <1>4, LiftUnmoved
    <3> QED BY <3>5, <2>2
  <2>3. CASE m[y] # Absent
    <3>1. y <= n /\ m[y].parent # None /\ m[y].item \in Entries
          /\ m[m[y].parent].child[SideOf(m, y)] = y
      BY <2>3, <1>4 DEF Linked
    <3>2. w[y].item \in Entries /\ w[y].parent # None
      BY <3>1, <2>1, <1>5, <1>6, Basics
    <3>3. \E r \in Sides : w[w[y].parent].child[r] = y
      <4>1. CASE y = z
        BY <4>1, <2>1, <1>5, <1>6
      <4>2. CASE y = x
        BY <4>2, <2>1, <1>1, <1>5, <1>6
      <4>3. CASE y = t
        BY <4>3, <2>1, <1>5, <1>6
      <4>4. CASE y # z /\ y # x /\ y # t
        <5>1. PICK b \in Handles \cup Names : b = m[y].parent
          BY <3>1, <1>4 DEF Heaps, Nodes
        <5>2. PICK r \in Sides : m[b].child[r] = y
          BY <3>1, <5>1, Basics DEF SideOf
        <5>3. w[b].child[r] = y
          <6>1. ~(b = p /\ r = q) /\ ~(b = z /\ r = o) /\ ~(b = x /\ r = s)
            BY <5>2, <4>4, <1>2, <1>5
          <6> QED BY <5>2, <6>1, <1>6
        <5> QED BY <5>1, <5>3, <4>4, <2>1
      <4> QED BY <4>1, <4>2, <4>3, <4>4
    <3>4. w[w[y].parent].child[SideOf(w, y)] = y
      BY <3>3, Basics DEF SideOf
    <3> QED BY <3>1, <3>2, <3>4
  <2> QED BY <2>2, <2>3
<1>22. Linked(w, n)
  BY <1>6, <1>17, <1>20, <1>21 DEF Linked
<1>23. Apart(w, A)
  BY <1>4, <1>20 DEF Apart
<1>24. Forest(w, A, n) /\ \A h \in Handles : A[w[h].child["left"]] = B[m[h].child["left"]]
  BY <1>13, <1>14, <1>20, <1>22, <1>23 DEF Forest
<1> QED BY <1>3, <1>24
\* What a rotation leaves below the children of the nodes it does not move.
LEMMA LiftOthers ==
  ASSUME NEW m, NEW B, NEW n, Forest(m, B, n),
         NEW x \in Names, NEW s \in Sides, m[x].child[s] # None,
         NEW y \in Names, y # x, y # m[x].child[s], NEW r \in Sides
  PROVE  /\ Lifted(m, B, x, s)[Lift(m, x, s)[y].child[r]] = B[m[y].child[r]]
         /\ m[y].child[r] \in Names /\ m[y].child[r] # x =>
              Lift(m, x, s)[y].child[r] = m[y].child[r] /\ m[y].child[r] # m[x].child[s]
         /\ m[y].child[r] = x => /\ y = m[x].parent /\ r = SideOf(m, x)
                                 /\ Lift(m, x, s)[y].child[r] = m[x].child[s]
<1>1. PICK o \in Sides : o = Other(s) /\ o # s /\ Other(o) = s
  BY Basics
<1>2. PICK z, t, p, q : z = m[x].child[s] /\ t = m[z].child[o] /\ p = m[x].parent /\ q = SideOf(m, x)
  OBVIOUS
<1>3. PICK w, A : w = Lift(m, x, s) /\ A = Lifted(m, B, x, s)
  OBVIOUS
<1>4. Partition(m, B) /\ Closed(m, B) /\ Linked(m, n) /\ m \in Heaps
  BY DEF Forest, Linked
<1>5. /\ z \in Names /\ z # x /\ m[p].child[q] = x /\ q \in Sides /\ m[z].parent = x
      /\ p # x /\ p # z /\ p \in Handles \cup Names
  <2>1. z = m[x].child[s] /\ p = m[x].parent /\ q = SideOf(m, x)
    BY <1>2
  <2> QED BY <2>1, <1>4, Around
<1>6. w[y].child[r] = IF y = p /\ r = q THEN z ELSE m[y].child[r]
  BY <1>1, <1>2, <1>3, <1>4, LiftFields
<1>7. /\ A[z] = B[x] /\ \A k \in 0 .. MaxNodes : k # x /\ k # z => A[k] = B[k]
  BY <1>2, <1>3, LiftedIs
<1>8. m[y].child[r] \in 0 .. MaxNodes
  BY <1>4, Basics DEF Heaps, Nodes
<1>9. m[y].child[r] # None => m[m[y].child[r]].parent = y
  BY <1>4 DEF Linked
<1>10. m[y].child[r] # z
  BY <1>2, <1>5, <1>9, Basics
<1>11. m[y].child[r] = x => y = p /\ r = q
  <2>1. m[y].child[r] = x => y = p
    BY <1>2, <1>9, Basics
  <2>2. p \in Names => m[p].child[Other(q)] # x
    <3>1. p \in Names => Splits(m, B, p, q)
      BY <1>4, <1>5, PartitionSplits DEF Partition
    <3>2. x \in B[x]
      BY <1>4 DEF Partition
    <3> QED BY <3>1, <3>2, <1>5 DEF Splits
  <2>3. r = q \/ r = Other(q)
    BY <1>5, Basics
  <2> QED BY <2>1, <2>2, <2>3
<1>12. A[w[y].child[r]] = B[m[y].child[r]]
  BY <1>5, <1>6, <1>7, <1>8, <1>10, <1>11
<1>13. m[y].child[r] \in Names /\ m[y].child[r] # x => w[y].child[r] = m[y].child[r]
  BY <1>5, <1>6
<1>14. m[y].child[r] = x => y = p /\ r = q /\ w[y].child[r] = z
  BY <1>6, <1>11
<1> QED BY <1>2, <1>3, <1>10, <1>12, <1>13, <1>14

-----------------------------------------------------------------------------
(* Order. *)

\* a is on side s of b, or equal to it.
Beside(a, s, b) == IF s = "left" THEN a <= b ELSE b <= a

\* No node begins on the wrong side of one it is below.
Ordered(m, B) ==
  \A x \in Names : m[x] # Absent => \A s \in Sides : \A y \in B[m[x].child[s]] :
    Beside(m[y].item[1], s, m[x].item[1])

\* To be beside is an order.
LEMMA BesideIs ==
  ASSUME NEW s \in Sides, NEW a \in Nat, NEW b \in Nat
  PROVE  /\ Beside(a, s, b) => Beside(b, Other(s), a)
         /\ \A c \in Nat : Beside(a, s, b) /\ Beside(b, s, c) => Beside(a, s, c)
BY Basics DEF Beside

\* The nodes of a tree have intervals.
LEMMA BelowAreNodes ==
  ASSUME NEW m, NEW B, NEW n, Forest(m, B, n), NEW x \in Names, m[x] # Absent, NEW y \in B[x]
  PROVE  /\ y \in Names /\ m[y] # Absent /\ m[y].item \in Entries
         /\ m[y].item[1] \in Nat /\ m[y].item[2] \in Nat /\ m[y].max \in Nat
<1>1. Partition(m, B) /\ Closed(m, B) /\ Linked(m, n) /\ m \in Heaps
  BY DEF Forest, Linked
<1>2. B[x] \in SUBSET Names
  BY <1>1, Basics DEF Partition
<1>3. y \in Names
  BY <1>2
<1>4. y # x => m[y].parent \in B[x]
  BY <1>1 DEF Closed
<1>5. m[y] # Absent
  BY <1>2, <1>4, Basics DEF Absent, Node
<1>6. m[y].item \in Entries
  BY <1>1, <1>3, <1>5 DEF Linked
<1>7. m[y].max \in Nat
  BY <1>1, <1>3 DEF Heaps, Nodes
<1> QED BY <1>3, <1>5, <1>6, <1>7 DEF Entries

\* A rotation keeps the order.
LEMMA LiftOrdered ==
  ASSUME NEW m, NEW B, NEW n, Forest(m, B, n), Ordered(m, B),
         NEW x \in Names, NEW s \in Sides, m[x].child[s] # None
  PROVE  Ordered(Lift(m, x, s), Lifted(m, B, x, s))
<1>1. PICK o \in Sides : o = Other(s) /\ o # s /\ Other(o) = s
  BY Basics
<1>2. PICK z, t, c, v : /\ z = m[x].child[s] /\ t = m[z].child[o] /\ c = m[x].child[o]
                        /\ v = m[z].child[s]
  OBVIOUS
<1>3. PICK w, A : w = Lift(m, x, s) /\ A = Lifted(m, B, x, s)
  OBVIOUS
<1>4. Partition(m, B) /\ Closed(m, B) /\ Linked(m, n) /\ m \in Heaps
  BY DEF Forest, Linked
<1>5. /\ z \in Names /\ z # x /\ t \in Names \cup {None} /\ t # x /\ t # z
      /\ m[x] # Absent /\ m[z] # Absent /\ z \in B[x] /\ B[t] \subseteq B[z]
  <2>1. z = m[x].child[s] /\ t = m[z].child[Other(s)]
    BY <1>1, <1>2
  <2> QED BY <2>1, <1>4, Around
<1>6. /\ \A y \in Names : w[y].item = m[y].item
      /\ w[x].child[s] = t /\ w[x].child[o] = c /\ w[z].child[o] = x /\ w[z].child[s] = v
  <2>1. Turned(m, B, w, x, s, o, z, t, m[x].parent, SideOf(m, x))
    BY <1>1, <1>2, <1>3, LiftTurns
  <2> QED BY <2>1, <1>1, <1>2, <1>5 DEF Turned
<1>7. /\ A[x] = {x} \cup B[c] \cup B[t] /\ A[c] = B[c] /\ A[t] = B[t]
      /\ B[x] = {x} \cup B[c] \cup B[z] /\ z \notin B[z] \ {z}
  <2>1. z = m[x].child[s] /\ t = m[z].child[Other(s)] /\ c = m[x].child[Other(s)]
    BY <1>1, <1>2
  <2>2. /\ A[x] = {x} \cup B[c] \cup B[t] /\ c \in Names \cup {None} /\ c # x /\ c # z
        /\ \A y \in 0 .. MaxNodes : y # x /\ y # z => A[y] = B[y]
        /\ B[x] = {x} \cup B[c] \cup B[z]
    BY <2>1, <1>3, LiftedIs
  <2> QED BY <2>2, <1>5, Basics
<1>8. A[v] = B[v]
  <2>1. Splits(m, B, z, s) /\ x \notin B[z]
    BY <1>2, LiftedIs, Around, <1>4
  <2>2. v \in Names \cup {None}
    BY <1>2, <1>4, <1>5 DEF Heaps, Nodes
  <2>3. v # None => v \in B[v]
    BY <2>2, <1>4 DEF Partition
  <2>4. v # None => v # z /\ v # x
    BY <2>1, <2>3, <1>2 DEF Splits
  <2>5. v # z /\ v # x
    BY <2>4, <1>5, Basics
  <2>6. z = m[x].child[s]
    BY <1>2
  <2>7. \A y \in 0 .. MaxNodes : y # x /\ y # z => A[y] = B[y]
    BY <2>6, <1>3, LiftedIs
  <2> QED BY <2>2, <2>5, <2>7, Basics
<1>9. \A y \in Names : w[y] # Absent => m[y] # Absent
  <2> SUFFICES ASSUME NEW y \in Names, m[y] = Absent PROVE w[y] = Absent
    OBVIOUS
  <2>1. m[y].parent = None /\ \A r \in Sides : m[y].child[r] = None
    BY Basics DEF Absent, Node
  <2>2. y # x /\ y # z
    BY <1>5
  <2>3. y # m[x].parent
    <3>1. m[m[x].parent].child[SideOf(m, x)] = x /\ SideOf(m, x) \in Sides
      BY <1>2, <1>4, Around
    <3> QED BY <2>1, <3>1, Basics
  <2>4. y # t
    <3>1. t # None => m[t].parent = z
      BY <1>1, <1>2, <1>4, <1>5 DEF Linked
    <3> QED BY <2>1, <3>1, <1>5, Basics
  <2> QED BY <2>2, <2>3, <2>4, <1>1, <1>2, <1>3, <1>4, LiftUnmoved
<1>10. \A a \in Names : m[a] # Absent => \A r \in Sides : \A b \in B[m[a].child[r]] :
         Beside(m[b].item[1], r, m[a].item[1])
  BY DEF Ordered
<1>11. \A y \in B[x] : y \in Names /\ m[y].item[1] \in Nat
  BY <1>5, BelowAreNodes
<1>12. x \in B[x] /\ z \in B[z]
  BY <1>4, <1>5 DEF Partition
<1>13. ASSUME NEW r \in Sides, NEW y \in A[w[x].child[r]]
       PROVE  Beside(w[y].item[1], r, w[x].item[1])
  <2>1. r = s \/ r = o
    BY <1>1, Basics
  <2>2. y \in B[m[x].child[r]]
    BY <2>1, <1>2, <1>5, <1>6, <1>7, <1>13
  <2>3. y \in Names
    BY <2>1, <2>2, <1>2, <1>7, <1>11
  <2> QED BY <2>2, <2>3, <1>5, <1>6, <1>10
<1>14. Beside(m[x].item[1], o, m[z].item[1])
  <2>1. Beside(m[z].item[1], s, m[x].item[1])
    BY <1>2, <1>5, <1>10, <1>12
  <2> QED BY <2>1, <1>1, <1>5, <1>11, <1>12, BesideIs
<1>15. ASSUME NEW r \in Sides, NEW y \in A[w[z].child[r]]
       PROVE  Beside(w[y].item[1], r, w[z].item[1])
  <2>1. CASE r = s
    <3>1. y \in B[m[z].child[s]]
      BY <2>1, <1>2, <1>6, <1>8, <1>15
    <3>2. y \in B[z]
      <4>1. Splits(m, B, z, s)
        BY <1>2, LiftedIs
      <4> QED BY <3>1, <4>1 DEF Splits
    <3>3. y \in Names
      BY <3>2, <1>7, <1>11
    <3> QED BY <3>1, <3>3, <2>1, <1>5, <1>6, <1>10
  <2>2. CASE r = o
    <3>1. y = x \/ y \in B[c] \/ y \in B[t]
      BY <2>2, <1>6, <1>7, <1>15
    <3>2. y \in B[t] => Beside(m[y].item[1], o, m[z].item[1])
      BY <1>1, <1>2, <1>5, <1>10
    <3>3. y \in B[c] => Beside(m[y].item[1], o, m[x].item[1])
      BY <1>1, <1>2, <1>5, <1>10
    <3>4. y \in B[x] /\ z \in B[x]
      BY <3>1, <1>5, <1>7
    <3>5. Beside(m[y].item[1], o, m[z].item[1])
      <4>1. m[y].item[1] \in Nat /\ m[x].item[1] \in Nat /\ m[z].item[1] \in Nat
        BY <3>4, <1>11, <1>12
      <4> QED BY <4>1, <3>1, <3>2, <3>3, <1>14, BesideIs
    <3> QED BY <3>4, <3>5, <2>2, <1>5, <1>6, <1>11
  <2> QED BY <2>1, <2>2, <1>1, Basics
<1>16. ASSUME NEW y \in Names, y # x, y # z, w[y] # Absent,
              NEW r \in Sides, NEW u \in A[w[y].child[r]]
       PROVE  Beside(w[u].item[1], r, w[y].item[1])
  <2>1. u \in B[m[y].child[r]]
    BY <1>2, <1>3, <1>16, LiftOthers
  <2>2. m[y] # Absent
    BY <1>9, <1>16
  <2>3. u \in Names
    <3>1. m[y].child[r] \in 0 .. MaxNodes
      BY <1>4, Basics DEF Heaps, Nodes
    <3> QED BY <2>1, <3>1, <1>4 DEF Partition
  <2> QED BY <2>1, <2>2, <2>3, <1>6, <1>10
<1>17. Ordered(w, A)
  BY <1>5, <1>13, <1>15, <1>16 DEF Ordered
<1> QED BY <1>3, <1>17


\* A node that a rotation leaves in use was in use.
LEMMA LiftUsed ==
  ASSUME NEW m, NEW B, NEW n, Forest(m, B, n),
         NEW x \in Names, NEW s \in Sides, m[x].child[s] # None,
         NEW y \in Names, Lift(m, x, s)[y] # Absent
  PROVE  m[y] # Absent
<1>1. PICK z, t : z = m[x].child[s] /\ t = m[z].child[Other(s)]
  OBVIOUS
<1>2. Partition(m, B) /\ Closed(m, B) /\ Linked(m, n)
  BY DEF Forest
<1>3. m[x] # Absent /\ m[z] # Absent /\ z \in Names /\ t \in Names \cup {None}
  BY <1>1, <1>2, Around
<1> SUFFICES ASSUME m[y] = Absent PROVE Lift(m, x, s)[y] = Absent
  OBVIOUS
<1>4. m[y].parent = None /\ \A r \in Sides : m[y].child[r] = None
  BY Basics DEF Absent, Node
<1>5. y # m[x].parent
  <2>1. m[m[x].parent].child[SideOf(m, x)] = x /\ SideOf(m, x) \in Sides
    BY <1>1, <1>2, Around
  <2> QED BY <1>4, <2>1, Basics
<1>6. y # t
  <2>1. t # None => m[t].parent = z
    BY <1>1, <1>2, <1>3, Basics DEF Linked
  <2> QED BY <1>4, <2>1, <1>3, Basics
<1> QED BY <1>1, <1>2, <1>3, <1>5, <1>6, LiftUnmoved

\* A child tells its parent and its side.
LEMMA SideIs ==
  ASSUME NEW m, NEW B, NEW n, Forest(m, B, n),
         NEW p \in Handles \cup Names, NEW s \in Sides, NEW x \in Names, m[p].child[s] = x
  PROVE  m[x].parent = p /\ SideOf(m, x) = s /\ m[x] # Absent
<1>1. Partition(m, B) /\ Linked(m, n)
  BY DEF Forest
<1>2. m[x].parent = p
  <2>1. CASE p \in Names
    BY <1>1, <2>1, Basics DEF Linked
  <2>2. CASE p \in Handles
    BY <1>1, <2>2, Basics DEF Linked
  <2> QED BY <2>1, <2>2
<1>3. m[x] # Absent
  BY <1>2, Basics DEF Absent, Node
<1>4. x \in B[x]
  BY <1>1 DEF Partition
<1>5. s = "right" => m[p].child["left"] # x
  <2>1. CASE p \in Names
    BY <1>1, <1>4, <2>1 DEF Partition
  <2>2. CASE p \in Handles
    BY <1>1, <2>2, Basics DEF Linked
  <2> QED BY <2>1, <2>2
<1> QED BY <1>2, <1>3, <1>5, Basics DEF SideOf

\* What a heap says of depths and ends is no matter of its shape.
LEMMA SameShape ==
  ASSUME NEW m, NEW B, NEW n, Forest(m, B, n), NEW w \in Heaps,
         \A y \in Handles \cup Names :
           w[y].item = m[y].item /\ w[y].parent = m[y].parent /\ w[y].child = m[y].child,
         \A y \in Names : m[y] = Absent => w[y] = Absent
  PROVE  /\ Forest(w, B, n)
         /\ Ordered(m, B) => Ordered(w, B)
         /\ \A y \in Names : m[y].parent # None => SideOf(w, y) = SideOf(m, y)
<1>1. Partition(m, B) /\ Closed(m, B) /\ Linked(m, n) /\ Apart(m, B) /\ m \in Heaps
  BY DEF Forest, Linked
<1>2. B \in [0 .. MaxNodes -> SUBSET Names]
  BY <1>1 DEF Partition
<1>3. Partition(w, B)
  BY <1>1 DEF Partition
<1>4. Closed(w, B)
  <2>1. \A y \in Names : \A u \in B[y] : u \in Names
    BY <1>2, Basics
  <2> QED BY <1>1, <2>1 DEF Closed
<1>5. ASSUME NEW y \in Names PROVE m[y].parent # None => SideOf(w, y) = SideOf(m, y)
  <2>1. m[y].parent \in Handles \cup Names \cup {None}
    BY <1>1 DEF Heaps, Nodes
  <2> QED BY <2>1 DEF SideOf
<1>6. Linked(w, n)
  <2>1. \A x \in Names, s \in Sides : w[x].child[s] # None => w[w[x].child[s]].parent = x
    <3>1. \A x \in Names, s \in Sides : m[x].child[s] \in Names \cup {None}
      BY <1>1 DEF Heaps, Nodes
    <3> QED BY <1>1, <3>1 DEF Linked
  <2>2. \A h \in Handles : /\ w[h].child["right"] = None
                           /\ LET r == w[h].child["left"] IN r # None => w[r].parent = h
    <3>1. \A h \in Handles : m[h].child["left"] \in Names \cup {None}
      BY <1>1, Basics DEF Heaps, Nodes
    <3> QED BY <1>1, <3>1 DEF Linked
  <2>3. ASSUME NEW y \in Names
        PROVE  \/ w[y] = Absent
               \/ /\ y <= n /\ w[y].parent # None /\ w[y].item \in Entries
                  /\ w[w[y].parent].child[SideOf(w, y)] = y
    <3>1. CASE m[y] = Absent
      BY <3>1
    <3>2. CASE m[y] # Absent
      <4>1. y <= n /\ m[y].parent # None /\ m[y].item \in Entries
            /\ m[m[y].parent].child[SideOf(m, y)] = y
        BY <1>1, <3>2 DEF Linked
      <4>2. m[y].parent \in Handles \cup Names
        BY <1>1, <4>1 DEF Heaps, Nodes
      <4> QED BY <4>1, <4>2, <1>5
    <3> QED BY <3>1, <3>2
  <2> QED BY <2>1, <2>2, <2>3 DEF Linked
<1>7. Apart(w, B)
  BY <1>1 DEF Apart
<1>8. ASSUME Ordered(m, B) PROVE Ordered(w, B)
  <2>1. \A x \in Names, s \in Sides : \A y \in B[m[x].child[s]] : y \in Names
    <3>1. \A x \in Names, s \in Sides : m[x].child[s] \in 0 .. MaxNodes
      BY <1>1, Basics DEF Heaps, Nodes
    <3> QED BY <1>2, <3>1
  <2> QED BY <1>8, <2>1 DEF Ordered
<1> QED BY <1>3, <1>4, <1>5, <1>6, <1>7, <1>8 DEF Forest

-----------------------------------------------------------------------------
(* Ends. *)

\* Node x knows the largest end below it, counting end e, which is on its way
\* down to the nodes of S, as below them.
Knows(m, B, S, e, x) ==
  /\ \A y \in B[x] : m[y].item[2] <= m[x].max
  /\ x \in S => e <= m[x].max
  /\ \/ \E y \in B[x] : m[y].item[2] = m[x].max
     \/ x \in S /\ m[x].max = e

KnowsEnds(m, B, S, e) == \A x \in Names : m[x] # Absent => Knows(m, B, S, e, x)

\* A node that has been told by children who know knows.
LEMMA ToldKnows ==
  ASSUME NEW m, NEW B, NEW n, Forest(m, B, n), NEW e, NEW x \in Names, Told(m, x),
         m[x] # Absent,
         \A s \in Sides : m[x].child[s] # None => Knows(m, B, {}, e, m[x].child[s])
  PROVE  Knows(m, B, {}, e, x)
<1>1. Partition(m, B) /\ Closed(m, B) /\ Linked(m, n) /\ m \in Heaps
  BY DEF Forest, Linked
<1>2. PICK l, r \in Names \cup {None} : l = m[x].child["left"] /\ r = m[x].child["right"]
  BY <1>1, Basics DEF Heaps, Nodes
<1>3. B[x] = {x} \cup B[l] \cup B[r] /\ B[None] = {}
  BY <1>1, <1>2 DEF Partition
<1>4. \A y \in B[x] : y \in Names /\ m[y].item[2] \in Nat /\ m[y].max \in Nat
  BY BelowAreNodes
<1>5. \A c \in {l, r} : c # None => /\ Knows(m, B, {}, e, c) /\ m[c].max <= m[x].max
                                    /\ c \in Names /\ c \in B[x]
  <2>1. \A s \in Sides : m[x].child[s] # None => m[m[x].child[s]].max <= m[x].max
    BY DEF Told
  <2>2. \A c \in {l, r} : c # None => c \in B[c]
    BY <1>1, <1>2 DEF Partition
  <2> QED BY <1>2, <1>3, <2>1, <2>2, Basics
<1>6. ASSUME NEW y \in B[x] PROVE m[y].item[2] <= m[x].max
  <2>1. CASE y = x
    BY <2>1 DEF Told
  <2>2. ASSUME NEW c \in {l, r}, y \in B[c] PROVE m[y].item[2] <= m[x].max
    <3>1. c # None
      BY <2>2, <1>3
    <3>2. m[y].item[2] <= m[c].max /\ m[c].max <= m[x].max /\ c \in B[x]
      BY <2>2, <3>1, <1>5 DEF Knows
    <3>3. m[y].item[2] \in Nat /\ m[c].max \in Nat /\ m[x].max \in Nat
      <4>1. x \in B[x]
        BY <1>3
      <4> QED BY <1>4, <1>6, <3>2, <4>1
    <3> QED BY <3>2, <3>3
  <2> QED BY <1>3, <1>6, <2>1, <2>2
<1>7. \E y \in B[x] : m[y].item[2] = m[x].max
  <2>1. CASE m[x].max = m[x].item[2]
    BY <1>3, <2>1
  <2>2. ASSUME NEW c \in {l, r}, c # None, m[x].max = m[c].max PROVE \E y \in B[x] : m[y].item[2] = m[x].max
    <3>1. PICK y \in B[c] : m[y].item[2] = m[c].max
      BY <1>5, <2>2 DEF Knows
    <3> QED BY <3>1, <1>3, <2>2
  <2> QED BY <2>1, <2>2, <1>2, Basics DEF Told
<1> QED BY <1>6, <1>7 DEF Knows

\* A rotation keeps the ends known.
LEMMA LiftEnds ==
  ASSUME NEW m, NEW B, NEW n, Forest(m, B, n), NEW e, KnowsEnds(m, B, {}, e),
         NEW x \in Names, NEW s \in Sides, m[x].child[s] # None
  PROVE  KnowsEnds(Lift(m, x, s), Lifted(m, B, x, s), {}, e)
<1>1. PICK o \in Sides : o = Other(s) /\ o # s /\ Other(o) = s
  BY Basics
<1>2. PICK z : z = m[x].child[s]
  OBVIOUS
<1>3. PICK w, A : w = Lift(m, x, s) /\ A = Lifted(m, B, x, s)
  OBVIOUS
<1>4. Partition(m, B) /\ Closed(m, B) /\ Linked(m, n) /\ m \in Heaps
  BY DEF Forest, Linked
<1>5. Forest(w, A, n)
  BY <1>3, LiftForest
<1>6. /\ \A y \in Handles \cup Names : /\ w[y].item = m[y].item
                                       /\ y # x /\ y # z => w[y].max = m[y].max
      /\ Told(w, x) /\ Told(w, z) /\ w \in Heaps
  BY <1>2, <1>3, <1>4, LiftFields
<1>7. \A y \in 0 .. MaxNodes : y # x /\ y # z => A[y] = B[y]
  BY <1>2, <1>3, LiftedIs
<1>8. z \in Names /\ z # x
  BY <1>2, <1>4, Around
<1>9. ASSUME NEW y \in Names, w[y] # Absent, y # x, y # z PROVE Knows(w, A, {}, e, y)
  <2>1. m[y] # Absent
    BY <1>3, <1>9, LiftUsed
  <2>2. Knows(m, B, {}, e, y)
    BY <2>1 DEF KnowsEnds
  <2>3. A[y] = B[y] /\ w[y].max = m[y].max
    BY <1>6, <1>7, <1>9, Basics
  <2>4. \A u \in B[y] : u \in Names /\ w[u].item = m[u].item
    BY <2>1, <1>6, BelowAreNodes
  <2> QED BY <2>2, <2>3, <2>4 DEF Knows
<1>10. /\ w[x] # Absent /\ w[z] # Absent /\ w[z].child[o] = x
       /\ \A r \in Sides : w[x].child[r] # None => w[x].child[r] \in Names /\ w[x].child[r] # x /\ w[x].child[r] # z
       /\ \A r \in Sides : w[z].child[r] # None => w[z].child[r] \in Names /\ w[z].child[r] # z
  <2>1. z # m[x].parent /\ x # m[x].parent
    BY <1>2, <1>4, Around
  <2>2. w[z].child[o] = x
    BY <1>1, <1>2, <1>3, <1>4, <1>8, <2>1, LiftFields
  <2>3. w[z] # Absent
    BY <1>1, <2>2, Basics DEF Absent, Node
  <2>4. w[x].parent = z /\ w[x] # Absent
    BY <1>1, <1>5, <1>8, <2>2, SideIs
  <2>5. \A y \in Names, r \in Sides : w[y].child[r] # None =>
          w[y].child[r] \in Names /\ w[w[y].child[r]].parent = y /\ w[y].child[r] # y
    <3>1. Partition(w, A) /\ Linked(w, n)
      BY <1>5 DEF Forest
    <3>2. \A y \in Names, r \in Sides : w[y].child[r] \in Names \cup {None}
      BY <1>6 DEF Heaps, Nodes
    <3>3. \A y \in Names, r \in Sides : y \notin A[w[y].child[r]]
      BY <3>1, Basics DEF Partition
    <3>4. \A y \in Names : y \in A[y]
      BY <3>1 DEF Partition
    <3> QED BY <3>1, <3>2, <3>3, <3>4 DEF Linked
  <2>6. w[z].parent # x
    <3>1. w[z].parent = m[x].parent
      BY <1>1, <1>2, <1>3, <1>4, <1>8, LiftFields
    <3> QED BY <3>1, <2>1
  <2> QED BY <2>2, <2>3, <2>4, <2>5, <2>6, <1>8
<1>11. \A y \in Names, r \in Sides : w[y].child[r] \in Names => w[w[y].child[r]] # Absent
  BY <1>5, SideIs
<1>12. Knows(w, A, {}, e, x)
  <2>1. \A r \in Sides : w[x].child[r] # None => Knows(w, A, {}, e, w[x].child[r])
    BY <1>9, <1>10, <1>11
  <2> QED BY <2>1, <1>5, <1>6, <1>10, ToldKnows
<1>13. Knows(w, A, {}, e, z)
  <2>1. \A r \in Sides : w[z].child[r] # None => Knows(w, A, {}, e, w[z].child[r])
    BY <1>8, <1>9, <1>10, <1>11, <1>12
  <2> QED BY <2>1, <1>5, <1>6, <1>8, <1>10, ToldKnows
<1> QED BY <1>3, <1>9, <1>12, <1>13 DEF KnowsEnds

-----------------------------------------------------------------------------
(* Depths. *)

\* Node x of m knows the depth of its side s.
Measured(m, x, s) ==
  LET c == m[x].child[s] IN m[x].depth[s] = IF c = None THEN 0 ELSE Height(m, c)

MeasuredBut(m, P) ==
  \A x \in Names, s \in Sides : <<x, s>> \notin P => Measured(m, x, s)

Level(m, x) == \A s \in Sides : m[x].depth[s] - m[x].depth[Other(s)] <= 1

\* x is new, or one of its sides is deeper than the other since it has grown.
Grown(m, x) ==
  m[x].depth["left"] = m[x].depth["right"] => m[x].depth["left"] = 0

\* The parent p of x is still to be told that x has grown, if it has.
Telling(m, x) ==
  LET p == m[x].parent
      s == SideOf(m, x)
  IN  /\ MeasuredBut(m, {<<p, s>>})
      /\ p \in Names => \/ Measured(m, p, s)
                        \/ Height(m, x) = m[p].depth[s] + 1 /\ Grown(m, x)

\* The depth of a node as seen from side s.
LEMMA HeightFrom ==
  ASSUME NEW m \in Heaps, NEW x \in Names, NEW s \in Sides
  PROVE  LET a == m[x].depth[s]
             b == m[x].depth[Other(s)]
         IN  a \in Nat /\ b \in Nat /\ Height(m, x) = 1 + (IF a <= b THEN b ELSE a)
<1>1. CASE s = "left"
  BY <1>1, HeightIs, Basics
<1>2. CASE s = "right"
  BY <1>2, HeightIs, Basics
<1> QED BY <1>1, <1>2, Basics

\* The height of a node depends on its depths alone.
LEMMA SameHeight ==
  ASSUME NEW m, NEW w, NEW x, \A s \in Sides : m[x].depth[s] = w[x].depth[s]
  PROVE  Height(w, x) = Height(m, x)
<1>1. {w[x].depth[s] : s \in Sides} = {m[x].depth[s] : s \in Sides}
  OBVIOUS
<1> QED BY <1>1 DEF Height

\* After a rotation only the parent of the two nodes has to be told a depth.
LEMMA LiftDepths ==
  ASSUME NEW m, NEW B, NEW n, Forest(m, B, n), NEW P, MeasuredBut(m, P),
         NEW x \in Names, NEW s \in Sides, m[x].child[s] # None,
         <<m[x].child[s], Other(s)>> \notin P
  PROVE  MeasuredBut(Lift(m, x, s), P \cup {<<m[x].parent, SideOf(m, x)>>})
<1>1. PICK o \in Sides : o = Other(s) /\ o # s /\ Other(o) = s
  BY Basics
<1>2. PICK z, t, p, q : z = m[x].child[s] /\ t = m[z].child[o] /\ p = m[x].parent /\ q = SideOf(m, x)
  OBVIOUS
<1>3. PICK w : w = Lift(m, x, s)
  OBVIOUS
<1>4. Partition(m, B) /\ Closed(m, B) /\ Linked(m, n) /\ m \in Heaps
  BY DEF Forest, Linked
<1>5. z = m[x].child[s] /\ t = m[z].child[Other(s)] /\ p = m[x].parent /\ q = SideOf(m, x)
  BY <1>1, <1>2
<1>6. /\ z \in Names /\ z # x /\ t \in Names \cup {None} /\ t # x /\ t # z
      /\ p # x /\ p # z /\ p # t /\ q \in Sides
  BY <1>5, <1>4, Around
<1>7. /\ w \in Heaps
      /\ \A y \in Handles \cup Names :
           \A r \in Sides :
             /\ w[y].child[r] = IF y = p /\ r = q THEN z ELSE IF y = z /\ r = o THEN x
                                ELSE IF y = x /\ r = s THEN t ELSE m[y].child[r]
             /\ w[y].depth[r] = IF y = x /\ r = s THEN m[z].depth[o]
                                ELSE IF y = z /\ r = o THEN Height(w, x) ELSE m[y].depth[r]
  BY <1>1, <1>2, <1>3, <1>4, LiftFields
<1>8. \A y \in Names : y # x /\ y # z => Height(w, y) = Height(m, y)
  <2> TAKE y \in Names
  <2> HAVE y # x /\ y # z
  <2>1. \A r \in Sides : m[y].depth[r] = w[y].depth[r]
    BY <1>7
  <2> QED BY <2>1, SameHeight
<1>9. \A y \in Names, r \in Sides : m[y].child[r] \in Names \cup {None}
                                    /\ (m[y].child[r] # None => m[m[y].child[r]].parent = y)
  BY <1>4 DEF Heaps, Nodes, Linked
<1>10. m[z].parent = x
  BY <1>5, <1>4, Around
<1>11. \A y \in Names, r \in Sides : m[y].child[r] = x => y = p /\ r = q
  BY <1>2, <1>4, SideIs
<1>12. \A y \in Names, r \in Sides : m[y].child[r] = z => y = x /\ r = s
  BY <1>2, <1>6, <1>10, SideIs
<1>13. Measured(w, z, o)
  BY <1>6, <1>7, <1>1, Basics DEF Measured
<1>14. Measured(w, x, s)
  <2>1. Measured(m, z, o)
    BY <1>1, <1>2, <1>6 DEF MeasuredBut
  <2>2. w[x].child[s] = t /\ w[x].depth[s] = m[z].depth[o]
    BY <1>6, <1>7
  <2>3. t # None => Height(w, t) = Height(m, t)
    BY <1>6, <1>8, Basics
  <2> QED BY <2>1, <2>2, <2>3, <1>2 DEF Measured
<1>15. ASSUME NEW y \in Names, NEW r \in Sides, <<y, r>> \notin P \cup {<<p, q>>},
              ~(y = z /\ r = o), ~(y = x /\ r = s)
       PROVE  Measured(w, y, r)
  <2>1. Measured(m, y, r)
    BY <1>15 DEF MeasuredBut
  <2>2. w[y].child[r] = m[y].child[r] /\ w[y].depth[r] = m[y].depth[r]
    BY <1>7, <1>15
  <2>3. m[y].child[r] # x /\ m[y].child[r] # z
    BY <1>11, <1>12, <1>15
  <2>4. m[y].child[r] # None => Height(w, m[y].child[r]) = Height(m, m[y].child[r])
    BY <1>8, <1>9, <2>3
  <2> QED BY <2>1, <2>2, <2>4 DEF Measured
<1>16. MeasuredBut(w, P \cup {<<p, q>>})
  BY <1>13, <1>14, <1>15 DEF MeasuredBut
<1> QED BY <1>2, <1>3, <1>16

-----------------------------------------------------------------------------
(* Restoring the balance. *)

RootOf(m, h) == m[h].child["left"]

\* No handle has a parent, and only those of trees have a node.
Rooted(m, L) ==
  \A h \in Handles : m[h].parent = None /\ (h \notin L => RootOf(m, h) = None)

\* All but the depths, with no add under way.
Shaped(m, B, n, L) ==
  /\ Forest(m, B, n)
  /\ Rooted(m, L)
  /\ Ordered(m, B)
  /\ KnowsEnds(m, B, {}, 0)

\* Heap w holds the same items as m in each tree.
SameTrees(m, B, w, A) ==
  /\ \A h \in Handles : A[RootOf(w, h)] = B[RootOf(m, h)]
  /\ \A y \in Handles \cup Names : w[y].item = m[y].item

\* A rotation keeps the shape, and every tree keeps its items.
LEMMA LiftShaped ==
  ASSUME NEW m, NEW B, NEW n, NEW L, Shaped(m, B, n, L),
         NEW x \in Names, NEW s \in Sides, m[x].child[s] # None
  PROVE  LET w == Lift(m, x, s)
             A == Lifted(m, B, x, s)
         IN  Shaped(w, A, n, L) /\ SameTrees(m, B, w, A)
<1>1. PICK w, A : w = Lift(m, x, s) /\ A = Lifted(m, B, x, s)
  OBVIOUS
<1>2. Forest(m, B, n) /\ Partition(m, B) /\ Closed(m, B) /\ Linked(m, n)
  BY DEF Shaped, Forest
<1>3. Forest(w, A, n) /\ \A h \in Handles : A[RootOf(w, h)] = B[RootOf(m, h)]
  BY <1>1, <1>2, LiftForest DEF RootOf
<1>4. Ordered(w, A)
  BY <1>1, <1>2, LiftOrdered DEF Shaped
<1>5. KnowsEnds(w, A, {}, 0)
  BY <1>1, <1>2, LiftEnds DEF Shaped
<1>6. \A y \in Handles \cup Names : w[y].item = m[y].item
  BY <1>1, <1>2, LiftFields
<1>7. \A h \in Handles : w[h].parent = None
  <2> TAKE h \in Handles
  <2>1. PICK z, t : z = m[x].child[s] /\ t = m[z].child[Other(s)]
    OBVIOUS
  <2>2. z \in Names /\ t \in Names \cup {None}
    BY <1>2, <2>1, Around
  <2>3. h # z /\ h # x /\ h # t
    BY <2>2, Basics
  <2>4. w[h].parent = m[h].parent
    BY <1>1, <1>2, <2>1, <2>3, LiftFields
  <2> QED BY <2>4 DEF Shaped, Rooted
<1>8. \A h \in Handles : h \notin L => RootOf(w, h) = None
  <2> SUFFICES ASSUME NEW h \in Handles, h \notin L PROVE RootOf(w, h) = None
    OBVIOUS
  <2>1. A[RootOf(w, h)] = {}
    BY <1>2, <1>3 DEF Shaped, Rooted, Partition
  <2>2. RootOf(w, h) \in Names \cup {None} /\ \A y \in Names : y \in A[y]
    BY <1>3, Basics DEF Forest, Partition, Linked, Heaps, Nodes, RootOf
  <2> QED BY <2>1, <2>2
<1>9. Shaped(w, A, n, L) /\ SameTrees(m, B, w, A)
  BY <1>3, <1>4, <1>5, <1>6, <1>7, <1>8 DEF Shaped, Rooted, SameTrees
<1> QED BY <1>1, <1>9

\* Rotating p is enough when the inner side of its child on side s is not the
\* deeper one, and leaves the tree as deep as it was before it grew.
LEMMA Outer ==
  ASSUME NEW m, NEW B, NEW n, Forest(m, B, n), NEW p \in Names, NEW s \in Sides,
         NEW c, c = m[p].child[s], c # None,
         NEW pp, pp = m[p].parent, NEW q, q = SideOf(m, p),
         MeasuredBut(m, {<<pp, q>>}),
         \A y \in Names : y # p /\ y # c => Level(m, y),
         NEW e \in Nat, m[p].depth[Other(s)] = e, m[c].depth[s] = e + 1,
         m[c].depth[Other(s)] <= e, e - m[c].depth[Other(s)] <= 1,
         pp \in Names => m[pp].depth[q] = e + 2
  PROVE  LET w == Lift(m, p, s)
         IN  MeasuredBut(w, {}) /\ \A y \in Names : Level(w, y)
<1>1. PICK o \in Sides : o = Other(s) /\ o # s /\ Other(o) = s
  BY Basics
<1>2. PICK t : t = m[c].child[o]
  OBVIOUS
<1>3. PICK w : w = Lift(m, p, s)
  OBVIOUS
<1>4. Partition(m, B) /\ Closed(m, B) /\ Linked(m, n) /\ m \in Heaps
  BY DEF Forest, Linked
<1>5. /\ c \in Names /\ c # p /\ pp # p /\ pp # c /\ q \in Sides /\ m[pp].child[q] = p
      /\ t # p /\ t # c
  <2>1. Turned(m, B, w, p, s, o, c, t, pp, q)
    BY <1>1, <1>2, <1>3, LiftTurns
  <2> QED BY <2>1 DEF Turned
<1>6. PICK v \in Nat : v = m[c].depth[o]
  BY <1>4, <1>5, FieldsAre
<1>7. /\ w \in Heaps
      /\ \A y \in Handles \cup Names :
           \A r \in Sides :
             /\ w[y].child[r] = IF y = pp /\ r = q THEN c ELSE IF y = c /\ r = o THEN p
                                ELSE IF y = p /\ r = s THEN t ELSE m[y].child[r]
             /\ w[y].depth[r] = IF y = p /\ r = s THEN m[c].depth[o]
                                ELSE IF y = c /\ r = o THEN Height(w, p) ELSE m[y].depth[r]
  <2>1. Turned(m, B, w, p, s, o, c, t, pp, q)
    BY <1>1, <1>2, <1>3, LiftTurns
  <2> QED BY <2>1 DEF Turned
<1>8. MeasuredBut(w, {<<pp, q>>})
  <2>1. <<c, Other(s)>> \notin {<<pp, q>>}
    BY <1>5
  <2>2. MeasuredBut(w, {<<pp, q>>} \cup {<<pp, q>>})
    BY <1>3, <2>1, LiftDepths
  <2> QED BY <2>2
<1>9. w[p].depth[s] = v /\ w[p].depth[o] = e /\ Height(w, p) = e + 1
  <2>1. w[p].depth[s] = v /\ w[p].depth[o] = e
    BY <1>1, <1>5, <1>6, <1>7
  <2>2. Height(w, p) = 1 + (IF v <= e THEN e ELSE v)
    BY <1>1, <1>7, <2>1, HeightFrom
  <2> QED BY <1>1, <1>6, <2>1, <2>2
<1>10. w[c].depth[s] = e + 1 /\ w[c].depth[o] = e + 1 /\ Height(w, c) = e + 2
  <2>1. w[c].depth[s] = e + 1 /\ w[c].depth[o] = e + 1
    BY <1>1, <1>5, <1>7, <1>9
  <2> QED BY <1>1, <1>5, <1>7, <2>1, HeightFrom
<1>11. pp \in Names => Measured(w, pp, q)
  <2>1. pp \in Names => w[pp].child[q] = c /\ w[pp].depth[q] = e + 2
    BY <1>5, <1>7
  <2> QED BY <2>1, <1>5, <1>10, Basics DEF Measured
<1>12. MeasuredBut(w, {})
  BY <1>8, <1>11 DEF MeasuredBut
<1>13. \A r \in Sides : r = s \/ r = o
  BY <1>1, Basics
<1>14. Level(w, p)
  BY <1>1, <1>6, <1>9, <1>13 DEF Level
<1>15. Level(w, c)
  BY <1>1, <1>10, <1>13 DEF Level
<1>16. ASSUME NEW y \in Names, y # p, y # c PROVE Level(w, y)
  <2>1. \A r \in Sides : w[y].depth[r] = m[y].depth[r] /\ Other(r) \in Sides
    BY <1>7, <1>16, Basics
  <2>2. Level(m, y)
    BY <1>16
  <2> QED BY <2>1, <2>2 DEF Level
<1> QED BY <1>3, <1>12, <1>14, <1>15, <1>16

\* Node p, on side q of pp, is two deeper on side s, and its child c there is
\* deeper on the inside.
Crooked(m, p, s, o, c, pp, q, e) ==
  /\ o = Other(s) /\ c = m[p].child[s] /\ c # None
  /\ pp = m[p].parent /\ q = SideOf(m, p)
  /\ MeasuredBut(m, {<<pp, q>>})
  /\ \A y \in Names : y # p => Level(m, y)
  /\ m[p].depth[o] = e /\ m[p].depth[s] = e + 2
  /\ m[c].depth[s] = e /\ m[c].depth[o] = e + 1

\* In w, the child g of p is deeper on the outside.
Straight(m, w, p, s, o, g, pp, q, e) ==
  /\ g # None
  /\ w[p].child[s] = g /\ w[p].parent = pp /\ SideOf(w, p) = q
  /\ MeasuredBut(w, {<<pp, q>>})
  /\ \A y \in Names : y # p /\ y # g => Level(w, y)
  /\ w[p].depth[o] = e /\ w[g].depth[s] = e + 1
  /\ w[g].depth[o] <= e /\ e - w[g].depth[o] <= 1
  /\ pp \in Names => w[pp].depth[q] = m[pp].depth[q]

\* When the inner side is the deeper one, rotating the child first makes it
\* the outer side that is.
LEMMA Inner ==
  ASSUME NEW m, NEW B, NEW n, Forest(m, B, n), NEW p \in Names, NEW s \in Sides,
         NEW o, NEW c, NEW pp, NEW q, NEW e \in Nat, Crooked(m, p, s, o, c, pp, q, e)
  PROVE  Straight(m, Lift(m, c, o), p, s, o, m[c].child[o], pp, q, e)
<1> USE DEF Crooked
<1>1. o \in Sides /\ o # s /\ Other(o) = s /\ Other(s) = o
  BY Basics
<1>2. PICK g, t : g = m[c].child[o] /\ t = m[g].child[s]
  OBVIOUS
<1>3. PICK w : w = Lift(m, c, o)
  OBVIOUS
<1>4. Partition(m, B) /\ Closed(m, B) /\ Linked(m, n) /\ m \in Heaps
  BY DEF Forest, Linked
<1>5. /\ c \in Names /\ c # p /\ pp # p /\ pp # c /\ q \in Sides /\ m[pp].child[q] = p
      /\ pp \in Handles \cup Names /\ pp \notin B[p] /\ c \in B[p] /\ B[c] \subseteq B[p]
      /\ p \notin B[c]
  <2>1. c = m[p].child[s] /\ c # None /\ pp = m[p].parent /\ q = SideOf(m, p)
    OBVIOUS
  <2> HIDE DEF Crooked
  <2>2. c \in Names /\ c # p /\ c \in B[p] /\ B[c] \subseteq B[p] /\ p \notin B[c]
    BY <2>1, <1>4, Around
  <2>3. pp # p /\ pp # c /\ pp \in Handles \cup Names /\ pp \notin B[p]
    BY <2>1, <1>4, Around
  <2>4. q \in Sides /\ m[pp].child[q] = p
    BY <2>1, <1>4, Around
  <2> QED BY <2>2, <2>3, <2>4
<1>6. m[c].parent = p /\ SideOf(m, c) = s
  BY <1>5, SideIs
<1>7. g # None
  <2>1. Measured(m, c, o)
    BY <1>1, <1>5 DEF MeasuredBut
  <2> QED BY <2>1, <1>2 DEF Measured
<1>23. Turned(m, B, w, c, o, s, g, t, p, s)
  <2>1. Turned(m, B, w, c, o, Other(o), m[c].child[o], m[m[c].child[o]].child[Other(o)], m[c].parent, SideOf(m, c))
    <3>1. m[c].child[o] # None /\ o \in Sides /\ c \in Names
      BY <1>1, <1>2, <1>5, <1>7
    <3> QED BY <3>1, <1>3, LiftTurns
  <2>2. Other(o) = s /\ m[c].child[o] = g /\ m[m[c].child[o]].child[Other(o)] = t
        /\ m[c].parent = p /\ SideOf(m, c) = s
    BY <1>1, <1>2, <1>6
  <2> QED BY <2>1, <2>2
<1>8. /\ g \in Names /\ g # c /\ m[g].parent = c /\ t # c /\ t # g /\ t # p /\ g # p
      /\ g \in B[c] /\ t \in Names \cup {None}
  BY <1>23 DEF Turned
<1>9. pp # g
  BY <1>5, <1>8
<1>10. /\ w \in Heaps
       /\ \A y \in Handles \cup Names :
           /\ w[y].parent = IF y = g THEN p ELSE IF y = c THEN g
                            ELSE IF y = t THEN c ELSE m[y].parent
           /\ \A r \in Sides :
             /\ w[y].child[r] = IF y = p /\ r = s THEN g ELSE IF y = g /\ r = s THEN c
                                ELSE IF y = c /\ r = o THEN t ELSE m[y].child[r]
             /\ w[y].depth[r] = IF y = c /\ r = o THEN m[g].depth[s]
                                ELSE IF y = g /\ r = s THEN Height(w, c) ELSE m[y].depth[r]
  BY <1>23 DEF Turned
<1>11. PICK u, v \in Nat : u = m[g].depth[s] /\ v = m[g].depth[o]
  BY <1>1, <1>4, <1>8 DEF Heaps, Nodes
<1>12. /\ u <= e /\ v <= e /\ e - u <= 1 /\ e - v <= 1
  <2>1. Measured(m, c, o)
    BY <1>1, <1>5 DEF MeasuredBut
  <2>2. Height(m, g) = e + 1
    BY <2>1, <1>2, <1>7 DEF Measured
  <2>3. Height(m, g) = 1 + (IF u <= v THEN v ELSE u)
    BY <1>1, <1>4, <1>8, <1>11, HeightFrom
  <2>4. u - v <= 1 /\ v - u <= 1
    BY <1>1, <1>8, <1>11 DEF Level
  <2> QED BY <2>2, <2>3, <2>4
<1>13. w[c].depth[o] = u /\ w[c].depth[s] = e /\ Height(w, c) = e + 1
  <2>1. w[c].depth[o] = u /\ w[c].depth[s] = e
    BY <1>1, <1>5, <1>8, <1>10, <1>11
  <2>2. Height(w, c) = 1 + (IF e <= u THEN u ELSE e)
    BY <1>1, <1>5, <1>10, <2>1, HeightFrom
  <2> QED BY <1>11, <1>12, <2>1, <2>2
<1>14. w[g].depth[s] = e + 1 /\ w[g].depth[o] = v /\ Height(w, g) = e + 2
  <2>1. w[g].depth[s] = e + 1 /\ w[g].depth[o] = v
    BY <1>1, <1>8, <1>10, <1>11, <1>13
  <2>2. Height(w, g) = 1 + (IF e + 1 <= v THEN v ELSE e + 1)
    BY <1>1, <1>8, <1>10, <2>1, HeightFrom
  <2> QED BY <1>11, <1>12, <2>1, <2>2
<1>15. /\ w[p].child[s] = g /\ w[p].parent = pp /\ w[p].depth[o] = e /\ w[p].depth[s] = e + 2
       /\ w[pp].child[q] = p /\ w[pp].depth[q] = m[pp].depth[q]
  <2>1. w[p].child[s] = g /\ w[p].parent = pp
    BY <1>5, <1>8, <1>10
  <2>2. w[p].depth[o] = e /\ w[p].depth[s] = e + 2
    BY <1>1, <1>5, <1>8, <1>10
  <2>3. w[pp].child[q] = p /\ w[pp].depth[q] = m[pp].depth[q]
    BY <1>5, <1>9, <1>10
  <2> QED BY <2>1, <2>2, <2>3
<1>16. SideOf(w, p) = q
  <2>1. Forest(w, Lifted(m, B, c, o), n)
    BY <1>1, <1>2, <1>3, <1>5, <1>7, LiftForest
  <2> QED BY <2>1, <1>5, <1>15, SideIs
<1>17. MeasuredBut(w, {<<pp, q>>})
  <2>1. MeasuredBut(w, {<<pp, q>>} \cup {<<p, s>>})
    <3>1. <<m[c].child[o], Other(o)>> \notin {<<pp, q>>}
      BY <1>2, <1>9
    <3>2. MeasuredBut(w, {<<pp, q>>} \cup {<<m[c].parent, SideOf(m, c)>>})
      BY <1>1, <1>2, <1>3, <1>5, <1>7, <3>1, LiftDepths
    <3> QED BY <3>2, <1>6
  <2>2. Measured(w, p, s)
    BY <1>7, <1>14, <1>15 DEF Measured
  <2> QED BY <2>1, <2>2 DEF MeasuredBut
<1>18. \A r \in Sides : r = s \/ r = o
  BY <1>1, Basics
<1>19. Level(w, c)
  BY <1>1, <1>11, <1>12, <1>13, <1>18 DEF Level
<1>20. ASSUME NEW y \in Names, y # p, y # g, y # c PROVE Level(w, y)
  <2>1. \A r \in Sides : w[y].depth[r] = m[y].depth[r] /\ Other(r) \in Sides
    BY <1>10, <1>20, Basics
  <2>2. Level(m, y)
    BY <1>20
  <2> QED BY <2>1, <2>2 DEF Level
<1>21. \A y \in Names : y # p /\ y # g => Level(w, y)
  BY <1>19, <1>20
<1>22. w[g].depth[o] <= e /\ e - w[g].depth[o] <= 1
  BY <1>11, <1>12, <1>14
<1>24. Straight(m, w, p, s, o, g, pp, q, e)
  BY <1>7, <1>14, <1>15, <1>16, <1>17, <1>21, <1>22 DEF Straight
<1> QED BY <1>2, <1>3, <1>24

\* One rotation, or two, make a node level that has got two deeper on one side,
\* and change nothing else.
LEMMA Restored ==
  ASSUME NEW m, NEW B, NEW n, NEW L, Shaped(m, B, n, L), NEW p \in Names, NEW s \in Sides,
         MeasuredBut(m, {<<m[p].parent, SideOf(m, p)>>}),
         \A y \in Names : y # p => Level(m, y),
         NEW e \in Nat, m[p].depth[Other(s)] = e, m[p].depth[s] = e + 2,
         Grown(m, m[p].child[s]),
         m[p].parent \in Names => m[m[p].parent].depth[SideOf(m, p)] = e + 2
  PROVE  LET w == Restore(m, p, s)
         IN  /\ MeasuredBut(w, {}) /\ \A y \in Names : Level(w, y)
             /\ \E A : Shaped(w, A, n, L) /\ SameTrees(m, B, w, A)
<1>1. PICK o \in Sides : o = Other(s) /\ o # s /\ Other(o) = s
  BY Basics
<1>2. PICK c, pp, q : c = m[p].child[s] /\ pp = m[p].parent /\ q = SideOf(m, p)
  OBVIOUS
<1>3. Forest(m, B, n) /\ Partition(m, B) /\ Closed(m, B) /\ Linked(m, n) /\ m \in Heaps
  BY DEF Shaped, Forest, Linked
<1>4. c \in Names \cup {None}
  BY <1>2, <1>3 DEF Heaps, Nodes
<1>5. c \in Names => c # p /\ pp # p
  <2>1. c \in Names => m[p].child[s] # None
    BY <1>2, Basics
  <2> QED BY <2>1, <1>2, <1>3, Around
<1>6. c # None
  <2>1. CASE <<p, s>> = <<pp, q>>
    <3>1. m[p].depth[s] # 0
      OBVIOUS
    <3>2. m[p] # Absent
      BY <3>1 DEF Absent, Node
    <3>3. p \notin B[p] \/ m[pp].child[q] = p
      BY <1>2, <1>3, <3>2 DEF Linked
    <3>4. p \in B[p] /\ p \notin B[m[p].child["left"]] /\ p \notin B[m[p].child["right"]]
      BY <1>3 DEF Partition
    <3> QED BY <2>1, <3>3, <3>4, Basics
  <2>2. CASE <<p, s>> # <<pp, q>>
    <3>1. Measured(m, p, s)
      BY <2>2, <1>2 DEF MeasuredBut
    <3> QED BY <3>1, <1>2 DEF Measured
  <2> QED BY <2>1, <2>2
<1>7. c \in Names /\ c # p /\ pp # p
  BY <1>4, <1>5, <1>6
<1>8. PICK a, b \in Nat : a = m[c].depth[s] /\ b = m[c].depth[o]
  BY <1>3, <1>7 DEF Heaps, Nodes
<1>9. /\ a # b /\ a - b <= 1 /\ b - a <= 1
      /\ e + 2 = 1 + (IF a <= b THEN b ELSE a)
  <2>1. Measured(m, p, s)
    BY <1>2, <1>7 DEF MeasuredBut
  <2>2. Height(m, c) = e + 2
    BY <2>1, <1>2, <1>6 DEF Measured
  <2>3. Height(m, c) = 1 + (IF a <= b THEN b ELSE a)
    BY <1>1, <1>3, <1>7, <1>8, HeightFrom
  <2>4. a - b <= 1 /\ b - a <= 1
    <3>1. Level(m, c)
      BY <1>7
    <3> QED BY <3>1, <1>1, <1>8 DEF Level
  <2>5. a # b
    <3>1. a = b => a = 0
      BY <1>1, <1>2, <1>8, Basics DEF Grown
    <3> QED BY <3>1, <2>2, <2>3
  <2> QED BY <2>2, <2>3, <2>4, <2>5
<1>10. MeasuredBut(m, {<<pp, q>>}) /\ (pp \in Names => m[pp].depth[q] = e + 2)
  BY <1>2
<1>11. Restore(m, p, s) = IF b <= a THEN Lift(m, p, s) ELSE Lift(Lift(m, c, o), p, s)
  BY <1>1, <1>2, <1>8 DEF Restore
<1>12. CASE b <= a
  <2>1. a = e + 1 /\ b <= e /\ e - b <= 1
    BY <1>9, <1>12
  <2>2. PICK w : w = Lift(m, p, s)
    OBVIOUS
  <2>3. MeasuredBut(w, {}) /\ \A y \in Names : Level(w, y)
    <3>1. m[c].depth[s] = e + 1 /\ m[c].depth[Other(s)] <= e /\ e - m[c].depth[Other(s)] <= 1
      BY <1>1, <1>8, <2>1
    <3> QED BY <3>1, <2>2, <1>2, <1>3, <1>6, <1>10, Outer
  <2>4. PICK A : A = Lifted(m, B, p, s)
    OBVIOUS
  <2>5. Shaped(w, A, n, L) /\ SameTrees(m, B, w, A)
    BY <1>2, <1>6, <2>2, <2>4, LiftShaped
  <2> QED BY <1>11, <1>12, <2>2, <2>3, <2>5
<1>13. CASE ~(b <= a)
  <2>1. b = e + 1 /\ a = e
    BY <1>9, <1>13
  <2>2. PICK w1 : w1 = Lift(m, c, o)
    OBVIOUS
  <2>3. PICK g : g = m[c].child[o]
    OBVIOUS
  <2>4. Straight(m, w1, p, s, o, g, pp, q, e)
    <3>1. o = Other(s) /\ c = m[p].child[s] /\ c # None /\ pp = m[p].parent /\ q = SideOf(m, p)
      BY <1>1, <1>2, <1>6
    <3>2. m[p].depth[o] = e /\ m[p].depth[s] = e + 2 /\ m[c].depth[s] = e /\ m[c].depth[o] = e + 1
      BY <1>1, <1>8, <2>1
    <3>3. Crooked(m, p, s, o, c, pp, q, e)
      BY <3>1, <3>2, <1>10 DEF Crooked
    <3>4. Straight(m, Lift(m, c, o), p, s, o, m[c].child[o], pp, q, e)
      BY <3>3, <1>3, Inner
    <3> QED BY <3>4, <2>2, <2>3
  <2>5. PICK A1 : A1 = Lifted(m, B, c, o)
    OBVIOUS
  <2>6. Shaped(w1, A1, n, L) /\ SameTrees(m, B, w1, A1)
    BY <1>1, <1>7, <2>2, <2>3, <2>4, <2>5, LiftShaped DEF Straight
  <2>7. PICK w, A : w = Lift(w1, p, s) /\ A = Lifted(w1, A1, p, s)
    OBVIOUS
  <2>8. MeasuredBut(w, {}) /\ \A y \in Names : Level(w, y)
    <3>1. Forest(w1, A1, n)
      BY <2>6 DEF Shaped
    <3>2. pp \in Names => w1[pp].depth[q] = e + 2
      BY <2>4, <1>10 DEF Straight
    <3> QED BY <3>1, <3>2, <1>1, <2>4, <2>7, Outer DEF Straight
  <2>9. Shaped(w, A, n, L) /\ SameTrees(w1, A1, w, A)
    BY <2>4, <2>6, <2>7, LiftShaped DEF Straight
  <2>10. SameTrees(m, B, w, A)
    BY <2>6, <2>9 DEF SameTrees
  <2> QED BY <1>11, <1>13, <2>2, <2>7, <2>8, <2>9, <2>10
<1> QED BY <1>12, <1>13

-----------------------------------------------------------------------------
(* Adding. *)

\* The nodes of a tree are in use.
LEMMA TreeNodes ==
  ASSUME NEW m, NEW B, NEW n, Forest(m, B, n), NEW h \in Handles, NEW x \in B[RootOf(m, h)]
  PROVE  /\ RootOf(m, h) \in Names /\ RootOf(m, h) \in B[RootOf(m, h)]
         /\ m[RootOf(m, h)].parent = h
         /\ x \in Names /\ m[x] # Absent /\ x <= n /\ m[x].item \in Entries
         /\ m[x].parent \in B[RootOf(m, h)] \cup {h}
         /\ x # RootOf(m, h) => m[x].parent \in B[RootOf(m, h)]
         /\ B[x] \subseteq B[RootOf(m, h)]
<1>1. Partition(m, B) /\ Closed(m, B) /\ Linked(m, n) /\ m \in Heaps
  BY DEF Forest, Linked
<1>2. PICK r : r = RootOf(m, h)
  OBVIOUS
<1>3. r \in Names /\ m[r].parent = h /\ r \in B[r]
  <2>1. r \in Names \cup {None} /\ r = m[h].child["left"]
    BY <1>1, <1>2, Basics DEF Heaps, Nodes, RootOf
  <2>2. r # None
    BY <1>1, <1>2 DEF Partition
  <2> QED BY <2>1, <2>2, <1>1 DEF Linked, Partition
<1>4. m[r] # Absent
  BY <1>3, Basics DEF Absent, Node
<1>5. x \in Names /\ m[x] # Absent
  BY <1>2, <1>3, <1>4, BelowAreNodes
<1>6. x <= n /\ m[x].item \in Entries
  BY <1>1, <1>5 DEF Linked
<1>7. B[x] \subseteq B[r] /\ (x # r => m[x].parent \in B[r])
  BY <1>1, <1>2, <1>3 DEF Closed
<1> QED BY <1>2, <1>3, <1>5, <1>6, <1>7

\* A name beyond the first n is free.
LEMMA Fresh ==
  ASSUME NEW m, NEW B, NEW n \in Nat, Forest(m, B, n), NEW y \in Names, y > n
  PROVE  /\ m[y] = Absent /\ B[y] = {y}
         /\ \A k \in 0 .. MaxNodes : y \in B[k] => k = y
         /\ \A k \in Handles \cup Names, r \in Sides : m[k].child[r] # y
<1>1. Partition(m, B) /\ Linked(m, n) /\ m \in Heaps
  BY DEF Forest, Linked
<1>2. \A k \in Names : m[k] # Absent => k <= n
  BY <1>1 DEF Linked
<1>3. m[y] = Absent
  BY <1>2, Basics
<1>4. \A k \in Names : m[k] = Absent => B[k] = {k}
  <2> SUFFICES ASSUME NEW k \in Names, m[k] = Absent PROVE B[k] = {k}
    OBVIOUS
  <2>1. m[k].child["left"] = None /\ m[k].child["right"] = None
    BY Basics DEF Absent, Node
  <2> QED BY <1>1, <2>1 DEF Partition
<1>5. ASSUME NEW k \in 0 .. MaxNodes, y \in B[k] PROVE k = y
  <2>1. k \in Names
    BY <1>1, <1>5, Basics DEF Partition
  <2> QED BY <2>1, <1>3, <1>4, <1>5, BelowAreNodes
<1>6. \A k \in Handles \cup Names, r \in Sides : m[k].child[r] # y
  BY <1>3, SideIs
<1> QED BY <1>3, <1>4, <1>5, <1>6

\* Heap w is m with a new node y on the free side s of x.
Planted(m, w, x, s, y, i) ==
  /\ w \in Heaps
  /\ w[y] = Node(i, i[2], x)
  /\ w[x].item = m[x].item /\ w[x].parent = m[x].parent /\ w[x].depth = m[x].depth
  /\ \A r \in Sides : w[x].child[r] = IF r = s THEN y ELSE m[x].child[r]
  /\ \A k \in Handles \cup Names : k # x /\ k # y => w[k] = m[k]

\* What is below each node when y has been put below x.
PutBelow(B, x, y) ==
  [k \in 0 .. MaxNodes |-> IF k = y THEN {y} ELSE IF x \in B[k] THEN B[k] \cup {y} ELSE B[k]]

\* The tree of x has gained y, and no other tree has.
Gained(m, B, w, A, x, y) ==
  \A h \in Handles : A[RootOf(w, h)] = IF h = x \/ x \in B[RootOf(m, h)]
                                       THEN B[RootOf(m, h)] \cup {y} ELSE B[RootOf(m, h)]

\* The new heap is a forest again.
LEMMA PlantedForest ==
  ASSUME NEW m, NEW B, NEW n \in Nat, Forest(m, B, n),
         NEW x \in Handles \cup Names, x \in Handles \/ m[x] # Absent,
         NEW s \in Sides, x \in Handles => s = "left", m[x].child[s] = None,
         NEW y, y = n + 1, y \in Names, NEW i \in Entries, NEW w, Planted(m, w, x, s, y, i)
  PROVE  LET A == PutBelow(B, x, y)
         IN  /\ Forest(w, A, y)
             /\ w[y].parent = x /\ SideOf(w, y) = s
             /\ Gained(m, B, w, A, x, y)
<1>1. PICK A : A = PutBelow(B, x, y)
  OBVIOUS
<1>2. Partition(m, B) /\ Closed(m, B) /\ Linked(m, n) /\ Apart(m, B) /\ m \in Heaps
  BY DEF Forest, Linked
<1>3. /\ m[y] = Absent /\ B[y] = {y} /\ \A k \in 0 .. MaxNodes : y \in B[k] => k = y
      /\ \A k \in Handles \cup Names, r \in Sides : m[k].child[r] # y
  <2>1. y > n
    OBVIOUS
  <2> QED BY <2>1, Fresh
<1>4. x # y /\ x # None
  BY <1>3, Basics
<1>5. /\ B \in [0 .. MaxNodes -> SUBSET Names] /\ B[None] = {} /\ \A k \in Names : k \in B[k]
  BY <1>2 DEF Partition
<1>6. /\ A \in [0 .. MaxNodes -> SUBSET Names] /\ A[None] = {} /\ A[y] = {y}
      /\ \A k \in 0 .. MaxNodes : k # y => A[k] = IF x \in B[k] THEN B[k] \cup {y} ELSE B[k]
  <2>1. \A k \in 0 .. MaxNodes :
          A[k] = IF k = y THEN {y} ELSE IF x \in B[k] THEN B[k] \cup {y} ELSE B[k]
    BY <1>1 DEF PutBelow
  <2>2. y \in 0 .. MaxNodes /\ None \in 0 .. MaxNodes /\ None # y
    BY Basics
  <2>3. A \in [0 .. MaxNodes -> SUBSET Names]
    BY <1>1, <1>5 DEF PutBelow
  <2> QED BY <2>1, <2>2, <2>3, <1>5
<1>7. /\ w \in Heaps /\ w[y].parent = x /\ w[y].item = i /\ \A r \in Sides : w[y].child[r] = None
      /\ \A k \in Handles \cup Names : k # y =>
           /\ w[k].item = m[k].item /\ w[k].parent = m[k].parent
           /\ \A r \in Sides : w[k].child[r] = IF k = x /\ r = s THEN y ELSE m[k].child[r]
  BY <1>4 DEF Planted, Node
<1>8. \A k \in Handles \cup Names, r \in Sides :
        m[k].child[r] \in 0 .. MaxNodes /\ m[k].child[r] # y
  BY <1>2, <1>3, Basics DEF Heaps, Nodes
<1>9. Partition(w, A)
  <2>1. Splits(w, A, y, "left")
    BY <1>6, <1>7, Basics DEF Splits
  <2>2. ASSUME x \in Names PROVE Splits(w, A, x, s)
    <3>1. PICK c : c = m[x].child[Other(s)]
      OBVIOUS
    <3>2. B[x] = {x} \cup B[c] /\ x \notin B[c]
      <4>1. Splits(m, B, x, s)
        BY <2>2, <1>2, <1>5, PartitionSplits
      <4> QED BY <4>1, <3>1, <1>5 DEF Splits
    <3>3. c \in 0 .. MaxNodes /\ c # y
      BY <3>1, <1>8, Basics
    <3>4. A[c] = B[c] /\ A[x] = B[x] \cup {y}
      BY <1>4, <1>5, <1>6, <2>2, <3>2, <3>3, Basics
    <3>5. w[x].child[s] = y /\ w[x].child[Other(s)] = c
      BY <1>4, <1>7, <3>1, Basics
    <3>6. y \notin B[c]
      BY <1>3, <3>3
    <3> QED BY <1>4, <1>6, <3>2, <3>4, <3>5, <3>6 DEF Splits
  <2>3. ASSUME NEW k \in Names, k # x, k # y PROVE Splits(w, A, k, "left")
    <3>1. PICK a, b : a = m[k].child["left"] /\ b = m[k].child["right"]
      OBVIOUS
    <3>2. B[k] = {k} \cup B[a] \cup B[b] /\ k \notin B[a] /\ k \notin B[b] /\ B[a] \cap B[b] = {}
      BY <1>2, <3>1 DEF Partition
    <3>3. a \in 0 .. MaxNodes /\ a # y /\ b \in 0 .. MaxNodes /\ b # y
      BY <1>8, <3>1, Basics
    <3>4. w[k].child["left"] = a /\ w[k].child["right"] = b
      BY <1>7, <2>3, <3>1, Basics
    <3>5. y \notin B[a] /\ y \notin B[b]
      BY <1>3, <3>3
    <3>6. /\ A[a] = IF x \in B[a] THEN B[a] \cup {y} ELSE B[a]
          /\ A[b] = IF x \in B[b] THEN B[b] \cup {y} ELSE B[b]
          /\ A[k] = IF x \in B[k] THEN B[k] \cup {y} ELSE B[k]
      BY <1>6, <2>3, <3>3, Basics
    <3>7. A[k] = {k} \cup A[a] \cup A[b] /\ k \notin A[a] /\ k \notin A[b] /\ A[a] \cap A[b] = {}
      BY <2>3, <3>2, <3>5, <3>6
    <3> QED BY <3>4, <3>7, Basics DEF Splits
  <2>4. \A k \in Names : \E r \in Sides : Splits(w, A, k, r)
    BY <2>1, <2>2, <2>3, Basics
  <2> QED BY <2>4, <1>6, PartitionSplits
<1>10. Closed(w, A)
  <2> SUFFICES ASSUME NEW k \in Names, NEW u \in A[k]
               PROVE  A[u] \subseteq A[k] /\ (u # k => w[u].parent \in A[k])
    BY DEF Closed
  <2>1. CASE k = y
    BY <1>6, <2>1
  <2>2. CASE k # y
    <3>1. A[k] = IF x \in B[k] THEN B[k] \cup {y} ELSE B[k]
      BY <1>6, <2>2, Basics
    <3>2. CASE u = y
      <4>1. x \in B[k]
        BY <1>3, <2>2, <3>1, <3>2, Basics
      <4> QED BY <4>1, <3>1, <3>2, <1>6, <1>7
    <3>3. CASE u # y
      <4>1. u \in B[k] /\ u \in Names
        BY <3>1, <3>3, <1>5, Basics
      <4>2. B[u] \subseteq B[k] /\ (u # k => m[u].parent \in B[k])
        BY <4>1, <1>2 DEF Closed
      <4>3. A[u] = IF x \in B[u] THEN B[u] \cup {y} ELSE B[u]
        BY <1>6, <3>3, <4>1, Basics
      <4> QED BY <3>1, <3>3, <4>1, <4>2, <4>3, <1>7
    <3> QED BY <3>2, <3>3
  <2> QED BY <2>1, <2>2
<1>11. SideOf(w, y) = s
  <2>1. w[x].child[s] = y /\ \A r \in Sides : r # s => w[x].child[r] # y
    BY <1>3, <1>4, <1>7
  <2> QED BY <2>1, <1>7, Basics DEF SideOf
<1>12. Linked(w, y)
  <2>1. ASSUME NEW k \in Names, NEW r \in Sides, w[k].child[r] # None
        PROVE  w[w[k].child[r]].parent = k
    <3>1. k # y
      BY <2>1, <1>7
    <3>2. CASE k = x /\ r = s
      BY <3>1, <3>2, <1>7
    <3>3. CASE ~(k = x /\ r = s)
      <4>1. PICK c : c = m[k].child[r]
        OBVIOUS
      <4>2. w[k].child[r] = c /\ c # y /\ c # None
        BY <2>1, <3>1, <3>3, <4>1, <1>7, <1>8
      <4>3. c \in Names /\ m[c].parent = k
        BY <4>1, <4>2, <1>2, <1>8, Basics DEF Linked
      <4> QED BY <4>2, <4>3, <1>7
    <3> QED BY <3>2, <3>3
  <2>2. ASSUME NEW h \in Handles
        PROVE  /\ w[h].child["right"] = None
               /\ w[h].child["left"] # None => w[w[h].child["left"]].parent = h
    <3>1. h # y
      BY Basics
    <3>2. m[h].child["right"] = None /\ (m[h].child["left"] # None => m[m[h].child["left"]].parent = h)
      BY <1>2 DEF Linked
    <3>3. w[h].child["right"] = None
      BY <3>1, <3>2, <1>7, Basics
    <3>4. w[h].child["left"] = y \/ w[h].child["left"] = m[h].child["left"]
      BY <3>1, <1>7, Basics
    <3>5. w[h].child["left"] = y => h = x
      BY <3>1, <1>7, <1>8, Basics
    <3>6. m[h].child["left"] # None => m[h].child["left"] \in Names /\ m[h].child["left"] # y
      BY <1>8, Basics
    <3> QED BY <3>2, <3>3, <3>4, <3>5, <3>6, <1>7
  <2>3. ASSUME NEW k \in Names
        PROVE  \/ w[k] = Absent
               \/ /\ k <= y /\ w[k].parent # None /\ w[k].item \in Entries
                  /\ w[w[k].parent].child[SideOf(w, k)] = k
    <3>1. CASE k = y
      <4>1. w[x].child[s] = y
        BY <1>4, <1>7
      <4> QED BY <3>1, <4>1, <1>4, <1>7, <1>11, Basics
    <3>2. CASE k # y /\ m[k] = Absent
      <4>1. k # x
        BY <3>2, Basics
      <4> QED BY <3>2, <4>1 DEF Planted
    <3>3. CASE k # y /\ m[k] # Absent
      <4>1. k <= n /\ m[k].parent # None /\ m[k].item \in Entries
            /\ m[m[k].parent].child[SideOf(m, k)] = k
        BY <1>2, <3>3 DEF Linked
      <4>2. PICK b \in Handles \cup Names : b = m[k].parent
        BY <4>1, <1>2 DEF Heaps, Nodes
      <4>3. PICK r \in Sides : m[b].child[r] = k
        BY <4>1, <4>2, Basics DEF SideOf
      <4>4. b # y /\ ~(b = x /\ r = s)
        <5>1. m[y].child[r] = None
          BY <1>3 DEF Absent, Node
        <5> QED BY <4>3, <5>1, Basics
      <4>5. w[b].child[r] = k /\ w[k].parent = b /\ w[k].item \in Entries
        BY <3>3, <4>1, <4>2, <4>3, <4>4, <1>7
      <4>6. w[b].child[SideOf(w, k)] = k
        BY <4>5, Basics DEF SideOf
      <4>7. k <= y
        BY <4>1, Basics
      <4> QED BY <4>1, <4>2, <4>5, <4>6, <4>7
    <3> QED BY <3>1, <3>2, <3>3
  <2> QED BY <2>1, <2>2, <2>3, <1>7 DEF Linked
<1>13. ASSUME NEW h \in Handles
       PROVE  A[RootOf(w, h)] = IF h = x \/ x \in B[RootOf(m, h)]
                                THEN B[RootOf(m, h)] \cup {y} ELSE B[RootOf(m, h)]
  <2>1. h # y
    BY Basics
  <2>2. CASE h = x
    <3>1. RootOf(w, h) = y /\ RootOf(m, h) = None
      BY <2>1, <2>2, <1>7, Basics DEF RootOf
    <3> QED BY <2>2, <3>1, <1>5, <1>6
  <2>3. CASE h # x
    <3>1. RootOf(w, h) = RootOf(m, h) /\ RootOf(m, h) \in 0 .. MaxNodes /\ RootOf(m, h) # y
      BY <2>1, <2>3, <1>7, <1>8, Basics DEF RootOf
    <3> QED BY <2>3, <3>1, <1>6
  <2> QED BY <2>2, <2>3
<1>14. Apart(w, A)
  <2> SUFFICES ASSUME NEW g \in Handles, NEW h \in Handles, g # h
               PROVE  A[RootOf(w, g)] \cap A[RootOf(w, h)] = {}
    BY DEF Apart, RootOf
  <2>1. \A f \in Handles : RootOf(m, f) \in 0 .. MaxNodes /\ RootOf(m, f) # y
    BY <1>8, Basics DEF RootOf
  <2>2. y \notin B[RootOf(m, g)] /\ y \notin B[RootOf(m, h)]
    BY <2>1, <1>3
  <2>3. B[RootOf(m, g)] \cap B[RootOf(m, h)] = {}
    BY <1>2 DEF Apart, RootOf
  <2>4. x \in Handles => \A f \in Handles : x \notin B[RootOf(m, f)]
    BY <2>1, <1>5, Basics
  <2> QED BY <2>2, <2>3, <2>4, <1>13
<1>15. Gained(m, B, w, A, x, y)
  BY <1>13 DEF Gained
<1> QED BY <1>1, <1>7, <1>9, <1>10, <1>11, <1>12, <1>14, <1>15 DEF Forest

\* The new node is on the right side of all it is below, if x is on the way to
\* where its begin belongs.
LEMMA PlantedOrdered ==
  ASSUME NEW m, NEW B, NEW n \in Nat, Forest(m, B, n), Ordered(m, B),
         NEW x \in Handles \cup Names, NEW s \in Sides,
         NEW y, y = n + 1, y \in Names, NEW i \in Entries, NEW w, Planted(m, w, x, s, y, i),
         x \in Names => m[x] # Absent /\ Beside(i[1], s, m[x].item[1]),
         \A k \in Names, r \in Sides : x \in B[m[k].child[r]] => Beside(i[1], r, m[k].item[1])
  PROVE  Ordered(w, PutBelow(B, x, y))
<1>1. PICK A : A = PutBelow(B, x, y)
  OBVIOUS
<1>2. Partition(m, B) /\ Linked(m, n) /\ m \in Heaps
  BY DEF Forest, Linked
<1>3. /\ m[y] = Absent /\ B[y] = {y} /\ \A k \in 0 .. MaxNodes : y \in B[k] => k = y
      /\ \A k \in Handles \cup Names, r \in Sides : m[k].child[r] # y
  <2>1. y > n
    OBVIOUS
  <2> QED BY <2>1, Fresh
<1>4. x # y
  BY <1>3, Basics
<1>5. \A k \in 0 .. MaxNodes :
        A[k] = IF k = y THEN {y} ELSE IF x \in B[k] THEN B[k] \cup {y} ELSE B[k]
  BY <1>1 DEF PutBelow
<1>6. /\ w[y].item = i /\ \A r \in Sides : w[y].child[r] = None
      /\ \A k \in Handles \cup Names : k # y =>
           /\ w[k].item = m[k].item
           /\ \A r \in Sides : w[k].child[r] = IF k = x /\ r = s THEN y ELSE m[k].child[r]
  BY <1>4 DEF Planted, Node
<1>7. \A k \in Names, r \in Sides : m[k].child[r] \in 0 .. MaxNodes
  BY <1>2, Basics DEF Heaps, Nodes
<1>8. \A k \in Names : m[k] # Absent => \A r \in Sides : \A u \in B[m[k].child[r]] :
        u \in Names /\ Beside(m[u].item[1], r, m[k].item[1])
  BY <1>2, <1>7 DEF Ordered, Partition
<1> SUFFICES ASSUME NEW k \in Names, w[k] # Absent, NEW r \in Sides, NEW u \in A[w[k].child[r]]
             PROVE  Beside(w[u].item[1], r, w[k].item[1])
  BY <1>1 DEF Ordered
<1>9. k # y
  <2>1. A[None] = {}
    BY <1>2, <1>5, Basics DEF Partition
  <2> QED BY <2>1, <1>6
<1>10. m[k] # Absent
  <2>1. k # x => w[k] = m[k]
    BY <1>9 DEF Planted
  <2> QED BY <2>1
<1>11. CASE k = x /\ r = s
  <2>1. w[k].child[r] = y
    BY <1>6, <1>9, <1>11
  <2>2. A[y] = {y}
    BY <1>5, Basics
  <2>3. u = y
    BY <2>1, <2>2
  <2> QED BY <2>3, <1>6, <1>9, <1>11
<1>12. CASE ~(k = x /\ r = s)
  <2>1. PICK c : c = m[k].child[r]
    OBVIOUS
  <2>2. w[k].child[r] = c /\ c \in 0 .. MaxNodes /\ c # y
    BY <2>1, <1>3, <1>6, <1>7, <1>9, <1>12
  <2>3. u \in B[c] \/ (u = y /\ x \in B[c])
    BY <2>2, <1>5
  <2>4. CASE u \in B[c]
    <3>1. u \in Names /\ Beside(m[u].item[1], r, m[k].item[1])
      BY <2>1, <2>4, <1>8, <1>10
    <3>2. u # y
      BY <2>2, <2>4, <1>3
    <3> QED BY <3>1, <3>2, <1>6, <1>9
  <2>5. CASE u = y /\ x \in B[c]
    BY <2>1, <2>5, <1>6, <1>9
  <2> QED BY <2>3, <2>4, <2>5
<1> QED BY <1>11, <1>12

\* The nodes above x, which have passed on the end that comes to x.
Above(B, x) == {y \in Names : x \in B[y] /\ y # x}

\* The end has arrived.
LEMMA PlantedEnds ==
  ASSUME NEW m, NEW B, NEW n \in Nat, Forest(m, B, n),
         NEW x \in Handles \cup Names, NEW s \in Sides,
         NEW y, y = n + 1, y \in Names, NEW i \in Entries, NEW w, Planted(m, w, x, s, y, i),
         KnowsEnds(m, B, Above(B, x), i[2]),
         x \in Names => /\ m[x] # Absent /\ m[x].max <= w[x].max /\ i[2] <= w[x].max
                        /\ w[x].max \in {m[x].max, i[2]}
  PROVE  KnowsEnds(w, PutBelow(B, x, y), {}, 0)
<1>1. PICK A : A = PutBelow(B, x, y)
  OBVIOUS
<1>2. Partition(m, B) /\ Linked(m, n) /\ m \in Heaps
  BY DEF Forest, Linked
<1>3. /\ m[y] = Absent /\ B[y] = {y} /\ \A k \in 0 .. MaxNodes : y \in B[k] => k = y
  <2>1. y > n
    OBVIOUS
  <2> QED BY <2>1, Fresh
<1>4. x # y
  BY <1>3, Basics
<1>5. \A k \in Names :
        A[k] = IF k = y THEN {y} ELSE IF x \in B[k] THEN B[k] \cup {y} ELSE B[k]
  BY <1>1, Basics DEF PutBelow
<1>6. /\ w[y].item = i /\ w[y].max = i[2] /\ i[2] \in Nat
      /\ \A k \in Handles \cup Names : k # y => w[k].item = m[k].item
      /\ \A k \in Names : k # y /\ k # x => w[k] = m[k]
  BY <1>4 DEF Planted, Node, Entries
<1> SUFFICES ASSUME NEW k \in Names, w[k] # Absent PROVE Knows(w, A, {}, 0, k)
  BY <1>1 DEF KnowsEnds
<1>7. CASE k = y
  <2>1. A[k] = {y} /\ w[k].item[2] = w[k].max
    BY <1>5, <1>6, <1>7
  <2>2. w[k].item[2] <= w[k].max
    BY <1>6, <1>7
  <2> QED BY <2>1, <2>2, <1>7 DEF Knows
<1>8. CASE k # y
  <2>1. m[k] # Absent
    BY <1>6, <1>8
  <2>2. Knows(m, B, Above(B, x), i[2], k)
    BY <2>1 DEF KnowsEnds
  <2>3. \A u \in B[k] : u \in Names /\ u # y /\ w[u].item = m[u].item /\ m[u].item[2] \in Nat
    <3>1. \A u \in B[k] : u \in Names /\ m[u].item[2] \in Nat
      BY <2>1, BelowAreNodes
    <3>2. y \notin B[k]
      BY <1>3, <1>8, Basics
    <3> QED BY <3>1, <3>2, <1>6
  <2>4. k \in B[k] /\ m[k].max \in Nat
    BY <1>2, Basics DEF Partition, Heaps, Nodes
  <2>5. \A u \in B[k] : m[u].item[2] <= m[k].max
    BY <2>2 DEF Knows
  <2>6. CASE k # x /\ x \notin B[k]
    <3>1. A[k] = B[k] /\ w[k].max = m[k].max /\ k \notin Above(B, x)
      BY <2>6, <1>5, <1>6, <1>8 DEF Above
    <3>2. \E u \in B[k] : m[u].item[2] = m[k].max
      BY <2>2, <3>1 DEF Knows
    <3> QED BY <2>3, <2>5, <3>1, <3>2 DEF Knows
  <2>7. CASE k # x /\ x \in B[k]
    <3>1. A[k] = B[k] \cup {y} /\ w[k].max = m[k].max /\ k \in Above(B, x)
      BY <2>7, <1>5, <1>6, <1>8 DEF Above
    <3>2. i[2] <= m[k].max /\ (m[k].max = i[2] \/ \E u \in B[k] : m[u].item[2] = m[k].max)
      BY <2>2, <3>1 DEF Knows
    <3>3. \A u \in A[k] : w[u].item[2] <= w[k].max
      BY <2>3, <2>5, <3>1, <3>2, <1>6
    <3>4. \E u \in A[k] : w[u].item[2] = w[k].max
      BY <2>3, <3>1, <3>2, <1>6
    <3> QED BY <3>3, <3>4 DEF Knows
  <2>8. CASE k = x
    <3>1. A[k] = B[k] \cup {y} /\ k \notin Above(B, x)
      BY <2>4, <2>8, <1>5, <1>8 DEF Above
    <3>2. m[k].max <= w[k].max /\ i[2] <= w[k].max /\ w[k].max \in {m[k].max, i[2]}
      BY <2>8
    <3>3. w[k].max \in Nat
      BY <2>4, <3>2, <1>6
    <3>4. \E u \in B[k] : m[u].item[2] = m[k].max
      BY <2>2, <3>1 DEF Knows
    <3>5. \A u \in A[k] : w[u].item[2] <= w[k].max
      <4>1. ASSUME NEW u \in B[k] PROVE w[u].item[2] <= w[k].max
        <5>1. m[u].item[2] <= m[k].max /\ m[u].item[2] \in Nat /\ w[u].item = m[u].item
          BY <4>1, <2>3, <2>5
        <5> QED BY <5>1, <2>4, <3>2, <3>3
      <4> QED BY <4>1, <3>1, <3>2, <1>6
    <3>6. \E u \in A[k] : w[u].item[2] = w[k].max
      BY <2>3, <3>1, <3>2, <3>4, <1>6
    <3> QED BY <3>5, <3>6 DEF Knows
  <2> QED BY <2>6, <2>7, <2>8
<1> QED BY <1>7, <1>8

\* Only the parent of the new node has to be told a depth, and it stays level.
LEMMA PlantedDepths ==
  ASSUME NEW m, NEW B, NEW n \in Nat, Forest(m, B, n),
         MeasuredBut(m, {}), \A k \in Names : Level(m, k),
         NEW x \in Handles \cup Names, x \in Names => m[x] # Absent,
         NEW s \in Sides, m[x].child[s] = None,
         NEW y, y = n + 1, y \in Names, NEW i \in Entries, NEW w, Planted(m, w, x, s, y, i)
  PROVE  /\ MeasuredBut(w, {<<x, s>>}) /\ \A k \in Names : Level(w, k)
         /\ SideOf(w, y) = s => Telling(w, y)
<1>1. Partition(m, B) /\ Linked(m, n) /\ m \in Heaps /\ w \in Heaps
  BY DEF Forest, Linked, Planted
<1>2. /\ m[y] = Absent /\ \A k \in Handles \cup Names, r \in Sides : m[k].child[r] # y
  <2>1. y > n
    OBVIOUS
  <2> QED BY <2>1, Fresh
<1>3. x # y
  BY <1>2, Basics
<1>4. /\ \A r \in Sides : w[y].child[r] = None /\ w[y].depth[r] = 0
      /\ \A k \in Handles \cup Names : k # y =>
           \A r \in Sides : /\ w[k].child[r] = IF k = x /\ r = s THEN y ELSE m[k].child[r]
                            /\ w[k].depth[r] = m[k].depth[r]
  BY <1>3 DEF Planted, Node
<1>5. ASSUME NEW k \in Names, k # y PROVE Height(w, k) = Height(m, k)
  BY <1>4, <1>5, SameHeight
<1>6. ASSUME NEW k \in Names, NEW r \in Sides, <<k, r>> # <<x, s>> PROVE Measured(w, k, r)
  <2>1. CASE k = y
    BY <1>4, <2>1 DEF Measured
  <2>2. CASE k # y
    <3>1. PICK c : c = m[k].child[r]
      OBVIOUS
    <3>2. w[k].child[r] = c /\ w[k].depth[r] = m[k].depth[r] /\ c # y /\ c \in Names \cup {None}
      <4>1. ~(k = x /\ r = s)
        BY <1>6
      <4>2. c \in Names \cup {None}
        BY <3>1, <1>1, FieldsAre
      <4> QED BY <3>1, <4>1, <4>2, <1>2, <1>4, <2>2
    <3>3. Measured(m, k, r)
      BY DEF MeasuredBut
    <3>4. c # None => Height(w, c) = Height(m, c)
      BY <3>2, <1>5
    <3> QED BY <3>1, <3>2, <3>3, <3>4 DEF Measured
  <2> QED BY <2>1, <2>2
<1>7. ASSUME NEW k \in Names PROVE Level(w, k)
  <2>1. CASE k = y
    BY <1>4, <2>1, Basics DEF Level
  <2>2. CASE k # y
    <3>1. \A r \in Sides : w[k].depth[r] = m[k].depth[r] /\ Other(r) \in Sides
      BY <1>4, <2>2, Basics
    <3> QED BY <3>1 DEF Level
  <2> QED BY <2>1, <2>2
<1>8. Height(w, y) = 1 /\ Grown(w, y)
  <2>1. w[y].depth["left"] = 0 /\ w[y].depth["right"] = 0
    BY <1>4, Basics
  <2> QED BY <2>1, <1>1, HeightIs DEF Grown
<1>9. x \in Names => w[x].depth[s] = 0
  <2>1. x \in Names => Measured(m, x, s)
    BY DEF MeasuredBut
  <2> QED BY <2>1, <1>3, <1>4 DEF Measured
<1>10. MeasuredBut(w, {<<x, s>>})
  BY <1>6 DEF MeasuredBut
<1>11. w[y].parent = x
  BY DEF Planted, Node
<1>12. SideOf(w, y) = s => Telling(w, y)
  BY <1>8, <1>9, <1>10, <1>11 DEF Telling
<1> QED BY <1>7, <1>10, <1>12

\* Heap w is m, but that x has been told of end e.
Reminded(m, w, x, e) ==
  /\ w \in Heaps
  /\ \A k \in Handles \cup Names : /\ w[k].item = m[k].item /\ w[k].parent = m[k].parent
                                   /\ w[k].child = m[k].child /\ w[k].depth = m[k].depth
                                   /\ k # x => w[k] = m[k]
  /\ m[x].max <= w[x].max /\ e <= w[x].max /\ w[x].max \in {m[x].max, e}

\* Node.add() tells the node passed the end.
LEMMA PassedIs ==
  ASSUME node \in Heaps, NEW x \in Names, NEW i \in Entries
  PROVE  Reminded(node, Passed(x, i), x, i[2])
<1>1. PICK a, b \in Nat : a = node[x].max /\ b = i[2]
  BY DEF Heaps, Nodes, Entries
<1>2. PICK e : e = Max({a, b})
  OBVIOUS
<1>3. e \in {a, b} /\ a <= e /\ b <= e
  <2>1. {a, b} = {a, b, b}
    OBVIOUS
  <2> QED BY <2>1, <1>2, MaxOfThree
<1>4. PICK w : w = Passed(x, i)
  OBVIOUS
<1>5. w = [node EXCEPT ![x].max = e]
  BY <1>1, <1>2, <1>4 DEF Passed
<1>6. w \in Heaps
  BY <1>3, <1>5 DEF Heaps, Nodes
<1>7. \A k \in Handles \cup Names : /\ w[k].item = node[k].item /\ w[k].parent = node[k].parent
                                    /\ w[k].child = node[k].child /\ w[k].depth = node[k].depth
                                    /\ k # x => w[k] = node[k]
  BY <1>5 DEF Heaps, Nodes
<1>8. w[x].max = e
  BY <1>5 DEF Heaps, Nodes
<1> QED BY <1>1, <1>3, <1>4, <1>6, <1>7, <1>8 DEF Reminded

\* The end of an interval to be added is known to all nodes passed, which it
\* belongs below.
Going(m, B, n, x, i) ==
  /\ n < MaxNodes
  /\ \E s \in Spans : i = <<s[1], s[2], n + 1>>
  /\ \A k \in Names, r \in Sides : x \in B[m[k].child[r]] => Beside(i[1], r, m[k].item[1])
  /\ KnowsEnds(m, B, Above(B, x), i[2])
  /\ MeasuredBut(m, {})

\* An interval on its way down has a number to be.
LEMMA GoingIs ==
  ASSUME NEW m, NEW B, NEW n \in Nat, NEW x, NEW i, Going(m, B, n, x, i)
  PROVE  i \in Entries /\ n + 1 \in Names /\ n + 1 \in 0 .. MaxNodes
<1>1. n + 1 \in Names
  BY Basics DEF Going
<1>2. PICK s \in Spans : i = <<s[1], s[2], n + 1>>
  BY DEF Going
<1>3. s \in Nat \X Nat /\ s[1] < s[2]
  BY SpansAssumption
<1> QED BY <1>1, <1>2, <1>3, Basics DEF Entries

\* The interval belongs on side s of x, where the child c is.
Leads(m, x, i, s, c) ==
  /\ x \in Names /\ m[x] # Absent
  /\ s \in Sides /\ Beside(i[1], s, m[x].item[1])
  /\ c \in Names /\ c = m[x].child[s]

\* One node further down the same is true.
LEMMA GoesDown ==
  ASSUME NEW m, NEW B, NEW n \in Nat, Forest(m, B, n), Ordered(m, B),
         NEW x, NEW i, Going(m, B, n, x, i), NEW s, NEW c, Leads(m, x, i, s, c),
         NEW w, Reminded(m, w, x, i[2])
  PROVE  /\ Forest(w, B, n) /\ Ordered(w, B) /\ Going(w, B, n, c, i)
         /\ \A h \in Handles : x \in B[RootOf(m, h)] => c \in B[RootOf(w, h)]
<1> x \in Names /\ m[x] # Absent /\ s \in Sides /\ Beside(i[1], s, m[x].item[1])
    /\ c \in Names /\ c = m[x].child[s]
  BY DEF Leads
<1>1. Partition(m, B) /\ Closed(m, B) /\ Linked(m, n) /\ m \in Heaps
  BY DEF Forest, Linked
<1>2. /\ w \in Heaps
      /\ \A k \in Handles \cup Names :
           w[k].item = m[k].item /\ w[k].parent = m[k].parent /\ w[k].child = m[k].child
      /\ \A k \in Names : m[k] = Absent => w[k] = Absent
  BY DEF Reminded
<1>3. Forest(w, B, n) /\ Ordered(w, B)
  BY <1>2, SameShape
<1>4. m[c].parent = x /\ c \in B[x] /\ x \notin B[c] /\ c # x
  <2>1. m[c].parent = x
    BY SideIs
  <2>2. B \in [0 .. MaxNodes -> SUBSET Names] /\ B[None] = {} /\ c \in B[c]
    BY <1>1 DEF Partition
  <2>3. Splits(m, B, x, s)
    BY <1>1, <2>2, PartitionSplits
  <2> QED BY <2>1, <2>2, <2>3 DEF Splits
<1>5. \A k \in 0 .. MaxNodes : /\ x \in B[k] => c \in B[k] /\ c # k
                               /\ c \in B[k] /\ c # k => x \in B[k]
  <2> SUFFICES ASSUME NEW k \in Names
               PROVE  /\ x \in B[k] => c \in B[k] /\ c # k
                      /\ c \in B[k] /\ c # k => x \in B[k]
    BY <1>1, Basics DEF Partition
  <2>1. x \in B[k] => B[x] \subseteq B[k]
    BY <1>1 DEF Closed
  <2>2. c \in B[k] /\ c # k => m[c].parent \in B[k]
    BY <1>1 DEF Closed
  <2> QED BY <2>1, <2>2, <1>4
<1>6. \A k \in Handles \cup Names, r \in Sides :
        m[k].child[r] \in 0 .. MaxNodes /\ w[k].child[r] = m[k].child[r]
  BY <1>1, <1>2, FieldsAre
<1>7. \A k \in Names, r \in Sides : x \in B[m[k].child[r]] => Beside(i[1], r, m[k].item[1])
  BY DEF Going
<1>8. ASSUME NEW k \in Names, NEW r \in Sides, c \in B[w[k].child[r]]
      PROVE  Beside(i[1], r, w[k].item[1])
  <2>1. PICK d \in 0 .. MaxNodes : d = m[k].child[r]
    BY <1>6
  <2>2. c \in B[d]
    BY <2>1, <1>6, <1>8
  <2>3. CASE c = d
    <3>1. k = x
      BY <2>1, <2>3, <1>4, SideIs
    <3>2. r = s
      <4>1. SideOf(m, c) = s
        BY SideIs
      <4>2. SideOf(m, c) = r
        BY <2>1, <2>3, SideIs
      <4> QED BY <4>1, <4>2
    <3> QED BY <3>1, <3>2, <1>2
  <2>4. CASE c # d
    <3>1. x \in B[m[k].child[r]]
      BY <2>1, <2>2, <2>4, <1>5
    <3> QED BY <3>1, <1>2, <1>7
  <2> QED BY <2>3, <2>4
<1>9. KnowsEnds(w, B, Above(B, c), i[2])
  <2>1. PICK S, T : S = Above(B, x) /\ T = Above(B, c)
    OBVIOUS
  <2>2. T = S \cup {x}
    <3>1. x \in B[x]
      BY <1>1 DEF Partition
    <3> QED BY <3>1, <2>1, <1>4, <1>5, Basics DEF Above
  <2>3. x \notin S
    BY <2>1 DEF Above
  <2> SUFFICES ASSUME NEW k \in Names, w[k] # Absent PROVE Knows(w, B, T, i[2], k)
    BY <2>1 DEF KnowsEnds
  <2>4. m[k] # Absent
    BY <1>2
  <2>5. Knows(m, B, S, i[2], k)
    BY <2>1, <2>4 DEF Going, KnowsEnds
  <2>6. \A u \in B[k] : u \in Names /\ w[u].item = m[u].item /\ m[u].item[2] \in Nat
    BY <2>4, <1>2, BelowAreNodes
  <2>7. CASE k # x
    <3>1. w[k].max = m[k].max /\ (k \in T <=> k \in S)
      BY <2>2, <2>7 DEF Reminded
    <3> QED BY <3>1, <2>5, <2>6 DEF Knows
  <2>8. CASE k = x
    <3>1. m[k].max <= w[k].max /\ i[2] <= w[k].max /\ w[k].max \in {m[k].max, i[2]} /\ k \in T
      BY <2>2, <2>8 DEF Reminded
    <3>2. m[k].max \in Nat /\ w[k].max \in Nat
      BY <1>1, <1>2 DEF Heaps, Nodes
    <3>3. \A u \in B[k] : m[u].item[2] <= m[k].max
      BY <2>5 DEF Knows
    <3>4. \E u \in B[k] : m[u].item[2] = m[k].max
      BY <2>3, <2>5, <2>8 DEF Knows
    <3>5. \A u \in B[k] : w[u].item[2] <= w[k].max
      BY <2>6, <3>1, <3>2, <3>3
    <3>6. (\E u \in B[k] : w[u].item[2] = w[k].max) \/ w[k].max = i[2]
      BY <2>6, <3>1, <3>4
    <3> QED BY <3>1, <3>5, <3>6 DEF Knows
  <2> QED BY <2>7, <2>8
<1>10. MeasuredBut(w, {})
  <2>1. ASSUME NEW k \in Names PROVE Height(w, k) = Height(m, k)
    <3>1. \A r \in Sides : m[k].depth[r] = w[k].depth[r]
      BY DEF Reminded
    <3> QED BY <3>1, SameHeight
  <2>2. ASSUME NEW k \in Names, NEW r \in Sides PROVE Measured(w, k, r)
    <3>1. Measured(m, k, r)
      BY DEF Going, MeasuredBut
    <3>2. PICK d : d = m[k].child[r]
      OBVIOUS
    <3>3. w[k].child[r] = d /\ w[k].depth[r] = m[k].depth[r] /\ d \in Names \cup {None}
      BY <3>2, <1>6, Basics DEF Reminded
    <3> QED BY <3>1, <3>2, <3>3, <2>1 DEF Measured
  <2> QED BY <2>2 DEF MeasuredBut
<1>11. Going(w, B, n, c, i)
  BY <1>8, <1>9, <1>10 DEF Going
<1>12. ASSUME NEW h \in Handles, x \in B[RootOf(m, h)] PROVE c \in B[RootOf(w, h)]
  <2>1. RootOf(m, h) \in 0 .. MaxNodes /\ RootOf(w, h) = RootOf(m, h)
    BY <1>6, Basics DEF RootOf
  <2> QED BY <2>1, <1>5, <1>12
<1> QED BY <1>3, <1>11, <1>12

-----------------------------------------------------------------------------
(* The invariant. *)

\* Every tree is ordered and level, in every state.
Grove(L, m, N, n, B) ==
  /\ L \subseteq Handles /\ n \in 0 .. MaxNodes /\ N \in [Handles -> Nat]
  /\ Forest(m, B, n) /\ Rooted(m, L) /\ Ordered(m, B)
  /\ \A x \in Names : Level(m, x)

\* No add is under way.
Resting(m, N, n, c, B) ==
  /\ c = Idle
  /\ KnowsEnds(m, B, {}, 0) /\ MeasuredBut(m, {})
  /\ \A h \in Handles : N[h] <= n

\* An interval is on its way down, and counted already.
Sinking(L, m, N, n, c, B) ==
  \E h \in L : \E x \in B[RootOf(m, h)], i \in Entries :
    /\ c = Call("descend", h, x, i)
    /\ Going(m, B, n, x, i)
    /\ \A g \in Handles : N[g] <= IF g = h THEN n + 1 ELSE n

\* The depths are told upwards.
Rising(L, m, N, n, c, B) ==
  \E h \in L : \E x \in B[RootOf(m, h)], i \in Entries :
    /\ c = Call("rebalance", h, x, i)
    /\ KnowsEnds(m, B, {}, 0) /\ Telling(m, x)
    /\ \A g \in Handles : N[g] <= n

Inv(L, m, N, n, c, B) ==
  /\ Grove(L, m, N, n, B)
  /\ Resting(m, N, n, c, B) \/ Sinking(L, m, N, n, c, B) \/ Rising(L, m, N, n, c, B)

\* There is a partition of the heap for which all that is true.
IInv == writer \in Handles /\ \E B : Inv(live, node, count, made, call, B)

\* What a call says.
LEMMA CallIs ==
  /\ Idle.pc = "idle"
  /\ \A pc, h, x, i : LET c == Call(pc, h, x, i)
                      IN  /\ c.pc = pc /\ c.tree = h /\ c.at = x /\ c.item = i
                          /\ \A z : [c EXCEPT !.at = z] = Call(pc, h, z, i)
BY DEF Idle, Call

\* At first there are no trees.
LEMMA InvInit == Init => IInv
<1> SUFFICES ASSUME Init PROVE IInv
  OBVIOUS
<1> DEFINE B == [x \in 0 .. MaxNodes |-> IF x = None THEN {} ELSE {x}]
<1>1. /\ live = {} /\ node = [x \in Handles \cup Names |-> Absent] /\ made = 0
      /\ count = [h \in Handles |-> 0] /\ writer \in Handles /\ call = Idle
  BY DEF Init
<1>2. /\ Absent \in Nodes /\ Absent.parent = None
      /\ \A s \in Sides : Absent.child[s] = None /\ Absent.depth[s] = 0
  BY Basics DEF Absent, Node, Nodes
<1>3. /\ node \in Heaps /\ \A x \in Handles \cup Names : node[x] = Absent
      /\ \A x \in Handles \cup Names : \A s \in Sides : node[x].child[s] = None /\ node[x].depth[s] = 0
  BY <1>1, <1>2 DEF Heaps
<1>4. /\ B \in [0 .. MaxNodes -> SUBSET Names] /\ B[None] = {} /\ \A x \in Names : B[x] = {x}
  BY Basics
<1> HIDE DEF B
<1>5. Forest(node, B, made)
  <2>1. Partition(node, B)
    BY <1>3, <1>4, Basics DEF Partition
  <2>2. Closed(node, B)
    BY <1>4 DEF Closed
  <2>3. Linked(node, made)
    BY <1>3, Basics DEF Linked
  <2>4. Apart(node, B)
    BY <1>3, <1>4, Basics DEF Apart
  <2> QED BY <2>1, <2>2, <2>3, <2>4 DEF Forest
<1>6. Rooted(node, live)
  BY <1>2, <1>3, Basics DEF Rooted, RootOf
<1>7. Ordered(node, B) /\ KnowsEnds(node, B, {}, 0)
  BY <1>3 DEF Ordered, KnowsEnds
<1>8. MeasuredBut(node, {}) /\ \A x \in Names : Level(node, x)
  BY <1>3, Basics DEF MeasuredBut, Measured, Level
<1>9. count \in [Handles -> Nat] /\ \A h \in Handles : count[h] <= made
  BY <1>1
<1>10. live \subseteq Handles /\ made \in 0 .. MaxNodes
  BY <1>1, Basics
<1>11. Inv(live, node, count, made, call, B)
  BY <1>1, <1>5, <1>6, <1>7, <1>8, <1>9, <1>10 DEF Inv, Grove, Resting
<1> QED BY <1>1, <1>11 DEF IInv

\* The first tree has no nodes.
LEMMA InvNew == ASSUME IInv, NEW h \in Handles, New(h) PROVE IInv'
<1>1. PICK B : Inv(live, node, count, made, call, B)
  BY DEF IInv
<1>2. /\ live = {} /\ live' = {h} /\ writer' = h
      /\ node' = node /\ count' = count /\ made' = made /\ call' = call
  BY DEF New
<1>3. Grove(live, node, count, made, B) /\ Resting(node, count, made, call, B)
  BY <1>1, <1>2 DEF Inv, Sinking, Rising
<1>4. Rooted(node, live')
  BY <1>2, <1>3 DEF Grove, Rooted
<1>5. Grove(live', node', count', made', B) /\ Resting(node', count', made', call', B)
  BY <1>2, <1>3, <1>4 DEF Grove, Resting
<1> QED BY <1>2, <1>5 DEF IInv, Inv

\* The items of a tree, and what an add makes of them.
Listed(m, B, h) == {m[x].item : x \in B[RootOf(m, h)]}
Lists(m, B, w, A, h, i) ==
  \A g \in Handles : Listed(w, A, g) = IF g = h THEN Listed(m, B, g) \cup {i} ELSE Listed(m, B, g)
Stays(m, B, w, A) == \A g \in Handles : Listed(w, A, g) = Listed(m, B, g)

\* A new node is one more item of its tree, and of no other.
LEMMA GainedItems ==
  ASSUME NEW m, NEW B, NEW n \in Nat, Forest(m, B, n), NEW h \in Handles,
         NEW x, x = h \/ x \in B[RootOf(m, h)], NEW y \in Names, y = n + 1, NEW s, NEW i,
         NEW w, Planted(m, w, x, s, y, i), NEW A, Gained(m, B, w, A, x, y)
  PROVE  Lists(m, B, w, A, h, i)
<1>1. Apart(m, B)
  BY DEF Forest
<1>2. \A g \in Handles : \A k \in B[RootOf(m, g)] : k \in Names /\ k <= n
  BY TreeNodes
<1>3. \A g \in Handles : g = x \/ x \in B[RootOf(m, g)] <=> g = h
  <2> SUFFICES ASSUME NEW g \in Handles PROVE g = x \/ x \in B[RootOf(m, g)] <=> g = h
    OBVIOUS
  <2>1. CASE x = h
    BY <2>1, <1>2, Basics
  <2>2. CASE x \in B[RootOf(m, h)]
    <3>1. x \in Names /\ x # g
      BY <2>2, <1>2, Basics
    <3>2. g # h => B[RootOf(m, g)] \cap B[RootOf(m, h)] = {}
      BY <1>1 DEF Apart, RootOf
    <3> QED BY <2>2, <3>1, <3>2
  <2> QED BY <2>1, <2>2
<1>4. \A g \in Handles : A[RootOf(w, g)] = IF g = h THEN B[RootOf(m, g)] \cup {y} ELSE B[RootOf(m, g)]
  BY <1>3 DEF Gained
<1>5. w[y].item = i
  BY DEF Planted, Node
<1>6. \A g \in Handles : \A k \in B[RootOf(m, g)] : w[k].item = m[k].item
  <2> SUFFICES ASSUME NEW g \in Handles, NEW k \in B[RootOf(m, g)] PROVE w[k].item = m[k].item
    OBVIOUS
  <2>1. k \in Names /\ k <= n
    BY <1>2
  <2>2. k # y
    BY <2>1, Basics
  <2> QED BY <2>1, <2>2 DEF Planted
<1>7. ASSUME NEW g \in Handles
      PROVE  Listed(w, A, g) = IF g = h THEN Listed(m, B, g) \cup {i} ELSE Listed(m, B, g)
  <2>1. CASE g = h
    <3>1. A[RootOf(w, g)] = B[RootOf(m, g)] \cup {y}
      BY <2>1, <1>4
    <3> QED BY <2>1, <3>1, <1>5, <1>6 DEF Listed
  <2>2. CASE g # h
    <3>1. A[RootOf(w, g)] = B[RootOf(m, g)]
      BY <2>2, <1>4
    <3> QED BY <2>2, <3>1, <1>6 DEF Listed
  <2> QED BY <2>1, <2>2
<1> QED BY <1>7 DEF Lists

\* A child and a new node are assigned.
PutChild(m, x, s, y, u) == [m EXCEPT ![x].child[s] = y, ![y] = u]

\* Assigning the two plants the node.
LEMMA PlantedIs ==
  ASSUME NEW m \in Heaps, NEW x \in Handles \cup Names, NEW s \in Sides,
         NEW y \in Names, x # y, NEW i \in Entries,
         NEW w, w = PutChild(m, x, s, y, Node(i, i[2], x))
  PROVE  Planted(m, w, x, s, y, i) /\ w[x].max = m[x].max
<1>1. PICK u : w = [m EXCEPT ![x].child[s] = y, ![y] = u] /\ u = Node(i, i[2], x)
  BY DEF PutChild
<1>2. m[x] \in Nodes
  BY DEF Heaps
<1>3. PICK v : v = [m[x] EXCEPT !.child = [m[x].child EXCEPT ![s] = y]]
  OBVIOUS
<1>4. WithChild(v, m[x], s, y)
  BY <1>2, <1>3, ChildSet
<1>5. u \in Nodes
  BY <1>1, Basics DEF Node, Nodes, Entries
<1>6. \A k \in Handles \cup Names :
        w[k] = IF k = y THEN u ELSE IF k = x THEN v ELSE m[k]
  BY <1>1, <1>2, <1>3 DEF Heaps
<1>7. w \in Heaps
  <2>1. DOMAIN w = DOMAIN m /\ w = [k \in DOMAIN w |-> w[k]]
    BY <1>1
  <2>2. \A k \in Handles \cup Names : w[k] \in Nodes
    BY <1>4, <1>5, <1>6 DEF Heaps, WithChild
  <2> QED BY <2>1, <2>2 DEF Heaps
<1> QED BY <1>1, <1>4, <1>6, <1>7 DEF Planted, WithChild

\* The first node of a tree.
LEMMA FirstNode ==
  ASSUME NEW L, NEW m, NEW N, NEW n, NEW B, Grove(L, m, N, n, B), Resting(m, N, n, Idle, B),
         NEW h \in L, RootOf(m, h) = None, NEW y \in Names, y = n + 1,
         NEW i \in Entries, NEW w, Planted(m, w, h, "left", y, i)
  PROVE  LET A == PutBelow(B, h, y)
             M == [N EXCEPT ![h] = N[h] + 1]
         IN  /\ Grove(L, w, M, y, A) /\ Resting(w, M, y, Idle, A)
             /\ Gained(m, B, w, A, h, y)
<1>1. /\ L \subseteq Handles /\ h \in Handles /\ n \in Nat /\ y \in Names /\ N \in [Handles -> Nat]
      /\ Forest(m, B, n) /\ Rooted(m, L) /\ Ordered(m, B)
      /\ Partition(m, B) /\ Closed(m, B) /\ Linked(m, n) /\ m \in Heaps
      /\ h # y /\ h \notin Names
  BY Basics DEF Grove, Forest, Linked
<1>2. Planted(m, w, h, "left", y, i)
  OBVIOUS
<1>3. m[h].child["left"] = None /\ "left" \in Sides /\ h \in Handles \cup Names
  BY <1>1, Basics DEF RootOf
<1>4. PICK A : A = PutBelow(B, h, y)
  OBVIOUS
<1>5. Forest(w, A, y) /\ Gained(m, B, w, A, h, y)
  BY <1>1, <1>2, <1>3, <1>4, PlantedForest
<1>6. \A k \in 0 .. MaxNodes : h \notin B[k]
  BY <1>1 DEF Partition
<1>7. Ordered(w, A)
  <2>1. \A k \in Names, r \in Sides : h \notin B[m[k].child[r]]
    BY <1>1, <1>6, Basics DEF Heaps, Nodes
  <2> QED BY <2>1, <1>1, <1>2, <1>3, <1>4, PlantedOrdered
<1>8. KnowsEnds(w, A, {}, 0)
  <2>1. Above(B, h) = {}
    BY <1>6, Basics DEF Above
  <2>2. KnowsEnds(m, B, Above(B, h), i[2])
    BY <2>1 DEF Resting, KnowsEnds, Knows
  <2> QED BY <2>2, <1>1, <1>2, <1>3, <1>4, PlantedEnds
<1>9. MeasuredBut(w, {}) /\ \A k \in Names : Level(w, k)
  <2>1. MeasuredBut(w, {<<h, "left">>}) /\ \A k \in Names : Level(w, k)
    BY <1>1, <1>2, <1>3, PlantedDepths DEF Grove, Resting
  <2> QED BY <2>1, <1>1 DEF MeasuredBut
<1>10. Rooted(w, L)
  <2> SUFFICES ASSUME NEW g \in Handles
               PROVE  w[g].parent = None /\ (g \notin L => RootOf(w, g) = None)
    BY DEF Rooted
  <2>1. g # y
    BY <1>1, Basics
  <2>2. g = h => w[g].parent = m[g].parent
    BY <1>2 DEF Planted
  <2>3. g # h => w[g] = m[g]
    BY <2>1, <1>2 DEF Planted
  <2>4. m[g].parent = None /\ (g \notin L => RootOf(m, g) = None)
    BY <1>1 DEF Rooted
  <2> QED BY <2>2, <2>3, <2>4 DEF RootOf
<1>14. PICK M : M = [N EXCEPT ![h] = N[h] + 1]
  OBVIOUS
<1>11. M \in [Handles -> Nat] /\ \A g \in Handles : M[g] <= y
  BY <1>1, <1>14 DEF Resting
<1>12. y \in 0 .. MaxNodes
  BY <1>1, Basics
<1>13. Grove(L, w, M, y, A) /\ Resting(w, M, y, Idle, A)
  BY <1>1, <1>5, <1>7, <1>8, <1>9, <1>10, <1>11, <1>12 DEF Grove, Resting
<1> QED BY <1>4, <1>5, <1>13, <1>14

\* Add counts, and puts a first node in place or starts at the root.
LEMMA Added ==
  ASSUME NEW B, Inv(live, node, count, made, call, B), writer \in Handles,
         NEW h \in Handles, NEW s \in Spans, Add(h, s)
  PROVE  \E A : /\ Inv(live', node', count', made', call', A)
                /\ \/ /\ Lists(node, B, node', A, h, <<s[1], s[2], made + 1>>)
                      /\ made + 1 \in Names /\ writer' = h
                   \/ Stays(node, B, node', A) /\ writer' = writer
<1>1. Inv(live, node, count, made, call, B)
  OBVIOUS
<1>2. PICK y, i, root : y = made + 1 /\ i = <<s[1], s[2], y>> /\ root = RootOf(node, h)
  OBVIOUS
<1>3. /\ h \in live /\ call = Idle /\ made < MaxNodes /\ live' = live
      /\ count' = [count EXCEPT ![h] = @ + 1]
      /\ \/ /\ root = None
            /\ node' = [node EXCEPT ![h].child["left"] = y, ![y] = Node(i, i[2], h)]
            /\ made' = y /\ writer' = h /\ call' = call
         \/ /\ root # None
            /\ call' = Call("descend", h, root, i)
            /\ node' = node /\ made' = made /\ writer' = writer
  BY <1>2 DEF Add, RootOf
<1>4. Grove(live, node, count, made, B) /\ Resting(node, count, made, Idle, B)
  BY <1>1, <1>3, CallIs DEF Inv, Sinking, Rising
<1>5. writer \in Handles /\ count \in [Handles -> Nat] /\ made \in Nat /\ live \subseteq Handles
  BY <1>4, Basics DEF Grove
<1>6. i \in Entries /\ y \in Names
  <2>1. s \in Nat \X Nat /\ s[1] < s[2]
    BY SpansAssumption
  <2> QED BY <2>1, <1>2, <1>3, <1>5, Basics DEF Entries
<1>7. CASE root = None
  <2>1. PICK A : A = PutBelow(B, h, y)
    OBVIOUS
  <2>4. Planted(node, node', h, "left", y, i)
    <3>1. node' = PutChild(node, h, "left", y, Node(i, i[2], h))
      BY <1>3, <1>7 DEF PutChild
    <3>2. node \in Heaps
      BY <1>4 DEF Grove, Forest, Linked
    <3>3. h \in Handles \cup Names /\ h # y /\ "left" \in Sides
      BY <1>6, Basics
    <3> QED BY <3>1, <3>2, <3>3, <1>6, PlantedIs
  <2>2. Grove(live, node', count', y, A) /\ Resting(node', count', y, Idle, A)
        /\ Gained(node, B, node', A, h, y)
    <3>1. PICK w, M : w = node' /\ M = [count EXCEPT ![h] = count[h] + 1]
      OBVIOUS
    <3>2. RootOf(node, h) = None /\ h \in live /\ y = made + 1
      BY <1>2, <1>3, <1>7
    <3>3. Grove(live, w, M, y, A) /\ Resting(w, M, y, Idle, A) /\ Gained(node, B, w, A, h, y)
      BY <3>1, <3>2, <1>4, <1>6, <2>1, <2>4, FirstNode
    <3> QED BY <3>1, <3>3, <1>3
  <2>3. Inv(live', node', count', made', call', A)
    BY <1>3, <1>7, <2>2 DEF Inv
  <2>5. Lists(node, B, node', A, h, i)
    BY <2>2, <2>4, <1>2, <1>4, <1>5, <1>6, GainedItems DEF Grove
  <2> QED BY <1>2, <1>3, <1>6, <1>7, <2>3, <2>5
<1>8. CASE root # None
  <2>1. /\ Forest(node, B, made) /\ Partition(node, B) /\ Closed(node, B) /\ node \in Heaps
    BY <1>4 DEF Grove, Forest, Linked
  <2>2. root \in Names /\ root \in B[root] /\ node[root].parent = h /\ h \notin Names
    <3>1. root \in Names
      BY <1>2, <1>8, <2>1, Basics DEF RootOf, Heaps, Nodes
    <3>2. root \in B[RootOf(node, h)]
      BY <1>2, <2>1, <3>1 DEF Partition
    <3> QED BY <1>2, <2>1, <3>1, <3>2, TreeNodes, Basics
  <2>3. \A k \in Names : root \in B[k] => k = root
    BY <2>1, <2>2, Basics DEF Closed, Partition
  <2>4. \A k \in Names, r \in Sides : root \notin B[node[k].child[r]]
    <3> SUFFICES ASSUME NEW k \in Names, NEW r \in Sides, root \in B[node[k].child[r]] PROVE FALSE
      OBVIOUS
    <3>1. PICK d \in Names \cup {None} : d = node[k].child[r]
      BY <2>1 DEF Heaps, Nodes
    <3>2. d \in Names
      BY <2>1, <3>1 DEF Partition
    <3>3. node[d].parent = k
      BY <2>1, <3>1, <3>2, SideIs
    <3>4. d = root
      BY <2>3, <3>1, <3>2
    <3> QED BY <2>2, <3>3, <3>4
  <2>5. Above(B, root) = {}
    BY <2>3 DEF Above
  <2>6. KnowsEnds(node, B, Above(B, root), i[2])
    BY <1>4, <2>5 DEF Resting, KnowsEnds, Knows
  <2>7. Going(node, B, made, root, i)
    BY <1>2, <1>3, <1>4, <2>4, <2>6 DEF Going, Resting
  <2>8. count' \in [Handles -> Nat] /\ \A g \in Handles : count'[g] <= IF g = h THEN made + 1 ELSE made
    BY <1>3, <1>4, <1>5 DEF Resting
  <2>9. Sinking(live', node', count', made', call', B)
    BY <1>2, <1>3, <1>6, <1>8, <2>2, <2>7, <2>8 DEF Sinking
  <2>10. Grove(live', node', count', made', B)
    BY <1>3, <1>4, <1>8, <2>8 DEF Grove
  <2>11. Stays(node, B, node', B)
    BY <1>3, <1>8 DEF Stays
  <2> QED BY <1>3, <1>8, <2>9, <2>10, <2>11 DEF Inv
<1> QED BY <1>7, <1>8

\* Add keeps the invariant.
LEMMA InvAdd == ASSUME IInv, NEW h \in Handles, NEW s \in Spans, Add(h, s) PROVE IInv'
<1>1. PICK B : Inv(live, node, count, made, call, B) /\ writer \in Handles
  BY DEF IInv
<1>2. PICK A : Inv(live', node', count', made', call', A) /\ writer' \in {h, writer}
  BY <1>1, Added
<1> QED BY <1>1, <1>2 DEF IInv

\* The next node down.
LEMMA Descended ==
  ASSUME NEW B, Inv(live, node, count, made, call, B), Descend
  PROVE  Inv(live', node', count', made', call', B) /\ Stays(node, B, node', B)
<1>1. Inv(live, node, count, made, call, B)
  OBVIOUS
<1>2. Grove(live, node, count, made, B) /\ Sinking(live, node, count, made, call, B)
  <2>1. call.pc = "descend"
    BY DEF Descend
  <2> QED BY <2>1, <1>1, CallIs DEF Inv, Resting, Rising
<1>3. PICK h \in live : \E x \in B[RootOf(node, h)], i \in Entries :
        /\ call = Call("descend", h, x, i)
        /\ Going(node, B, made, x, i)
        /\ \A g \in Handles : count[g] <= IF g = h THEN made + 1 ELSE made
  BY <1>2 DEF Sinking
<1>4. PICK x \in B[RootOf(node, h)], i \in Entries :
        /\ call = Call("descend", h, x, i)
        /\ Going(node, B, made, x, i)
        /\ \A g \in Handles : count[g] <= IF g = h THEN made + 1 ELSE made
  BY <1>3
<1>5. call.at = x /\ call.item = i /\ \A z : [call EXCEPT !.at = z] = Call("descend", h, z, i)
  BY <1>4, CallIs
<1>6. PICK s, c : s = SideFor(x, i) /\ c = node[x].child[s]
  OBVIOUS
<1>7. /\ c # None /\ node' = Passed(x, i) /\ call' = Call("descend", h, c, i)
      /\ live' = live /\ count' = count /\ made' = made /\ writer' = writer
  BY <1>5, <1>6 DEF Descend
<1>8. /\ made \in Nat /\ h \in Handles /\ Forest(node, B, made) /\ Ordered(node, B)
      /\ node \in Heaps
  BY <1>2, Basics DEF Grove, Forest, Linked
<1>9. x \in Names /\ node[x] # Absent /\ node[x].item \in Entries
  BY <1>8, TreeNodes
<1>10. s \in Sides /\ Beside(i[1], s, node[x].item[1])
  BY <1>6, <1>9, Basics DEF SideFor, Beside, Entries
<1>11. c \in Names
  BY <1>6, <1>7, <1>8, <1>9, <1>10 DEF Heaps, Nodes
<1>12. PICK w : w = node' /\ Reminded(node, w, x, i[2])
  BY <1>7, <1>8, <1>9, PassedIs
<1>13. /\ Forest(w, B, made) /\ Ordered(w, B) /\ Going(w, B, made, c, i)
       /\ c \in B[RootOf(w, h)]
  <2>1. /\ made \in Nat /\ Forest(node, B, made) /\ Ordered(node, B) /\ Going(node, B, made, x, i)
        /\ Leads(node, x, i, s, c) /\ Reminded(node, w, x, i[2])
    BY <1>4, <1>6, <1>8, <1>9, <1>10, <1>11, <1>12 DEF Leads
  <2>2. /\ Forest(w, B, made) /\ Ordered(w, B) /\ Going(w, B, made, c, i)
        /\ \A g \in Handles : x \in B[RootOf(node, g)] => c \in B[RootOf(w, g)]
    BY <2>1, GoesDown
  <2> QED BY <2>2, <1>4, <1>8
<1>14. Rooted(w, live)
  <2>1. Rooted(node, live)
    BY <1>2 DEF Grove
  <2>2. \A g \in Handles : w[g] = node[g]
    BY <1>9, <1>12, Basics DEF Reminded
  <2> QED BY <2>1, <2>2 DEF Rooted, RootOf
<1>15. ASSUME NEW k \in Names PROVE Level(w, k)
  <2>1. Level(node, k) /\ w[k].depth = node[k].depth
    BY <1>2, <1>12 DEF Grove, Reminded
  <2> QED BY <2>1 DEF Level
<1>16. Grove(live', node', count', made', B)
  BY <1>2, <1>7, <1>12, <1>13, <1>14, <1>15 DEF Grove
<1>17. Sinking(live', node', count', made', call', B)
  BY <1>4, <1>7, <1>12, <1>13 DEF Sinking
<1>18. Stays(node, B, node', B)
  <2> SUFFICES ASSUME NEW g \in Handles PROVE Listed(w, B, g) = Listed(node, B, g)
    BY <1>12 DEF Stays
  <2>1. RootOf(w, g) = RootOf(node, g)
    BY <1>12 DEF Reminded, RootOf
  <2>2. \A k \in B[RootOf(node, g)] : w[k].item = node[k].item
    <3>1. \A k \in B[RootOf(node, g)] : k \in Names
      BY <1>8, TreeNodes
    <3> QED BY <3>1, <1>12 DEF Reminded
  <2> QED BY <2>1, <2>2 DEF Listed
<1> QED BY <1>16, <1>17, <1>18 DEF Inv

\* Descend keeps the invariant.
LEMMA InvDescend == ASSUME IInv, Descend PROVE IInv'
<1>1. PICK B : Inv(live, node, count, made, call, B)
  BY DEF IInv
<1>2. Inv(live', node', count', made', call', B)
  BY <1>1, Descended
<1>3. writer' = writer
  BY DEF Descend
<1> QED BY <1>2, <1>3 DEF IInv

\* The new node is put in place.
LEMMA Attached ==
  ASSUME NEW m \in Heaps, NEW x \in Names, NEW s \in Sides, NEW y \in Names, x # y,
         NEW i \in Entries, NEW v, Reminded(m, v, x, i[2]),
         NEW w, w = PutChild(v, x, s, y, Node(i, i[2], x))
  PROVE  /\ Planted(m, w, x, s, y, i)
         /\ m[x].max <= w[x].max /\ i[2] <= w[x].max /\ w[x].max \in {m[x].max, i[2]}
<1>1. v \in Heaps /\ x \in Handles \cup Names
  BY DEF Reminded
<1>2. Planted(v, w, x, s, y, i) /\ w[x].max = v[x].max
  BY <1>1, PlantedIs
<1>3. Planted(m, w, x, s, y, i)
  BY <1>1, <1>2 DEF Planted, Reminded
<1> QED BY <1>2, <1>3 DEF Reminded

\* The new leaf is in order, its end is known, its depth is still to be told.
LEMMA NewLeaf ==
  ASSUME NEW L, NEW m, NEW N, NEW n, NEW B, Grove(L, m, N, n, B),
         NEW h \in L, NEW x \in B[RootOf(m, h)], NEW i \in Entries, Going(m, B, n, x, i),
         NEW s \in Sides, Beside(i[1], s, m[x].item[1]), m[x].child[s] = None,
         NEW y, y = n + 1, NEW w, Planted(m, w, x, s, y, i),
         m[x].max <= w[x].max, i[2] <= w[x].max, w[x].max \in {m[x].max, i[2]}
  PROVE  LET A == PutBelow(B, x, y)
         IN  /\ Forest(w, A, y) /\ Ordered(w, A) /\ Rooted(w, L) /\ \A k \in Names : Level(w, k)
             /\ y \in 0 .. MaxNodes
             /\ KnowsEnds(w, A, {}, 0) /\ Telling(w, y) /\ y \in A[RootOf(w, h)]
             /\ Gained(m, B, w, A, x, y)
<1>1. /\ n \in Nat /\ h \in Handles /\ Forest(m, B, n) /\ Ordered(m, B) /\ Rooted(m, L)
      /\ m \in Heaps /\ L \subseteq Handles /\ \A k \in Names : Level(m, k)
  BY Basics DEF Grove, Forest, Linked
<1>2. x \in Names /\ m[x] # Absent /\ x <= n /\ x \in Handles \cup Names /\ x \notin Handles
  BY <1>1, TreeNodes, Basics
<1>3. y \in Names /\ y \in 0 .. MaxNodes /\ x # y
  BY <1>1, <1>2, GoingIs, Basics
<1>4. PICK A : A = PutBelow(B, x, y)
  OBVIOUS
<1>5. Forest(w, A, y) /\ w[y].parent = x /\ SideOf(w, y) = s /\ Gained(m, B, w, A, x, y)
  BY <1>1, <1>2, <1>3, <1>4, PlantedForest
<1>6. Ordered(w, A)
  <2>1. \A k \in Names, r \in Sides : x \in B[m[k].child[r]] => Beside(i[1], r, m[k].item[1])
    BY DEF Going
  <2> QED BY <2>1, <1>1, <1>2, <1>3, <1>4, PlantedOrdered
<1>7. KnowsEnds(w, A, {}, 0)
  <2>1. KnowsEnds(m, B, Above(B, x), i[2])
    BY DEF Going
  <2> QED BY <2>1, <1>1, <1>2, <1>3, <1>4, PlantedEnds
<1>8. Telling(w, y) /\ \A k \in Names : Level(w, k)
  <2>1. MeasuredBut(m, {})
    BY DEF Going
  <2> QED BY <2>1, <1>1, <1>2, <1>3, <1>5, PlantedDepths
<1>10. Rooted(w, L)
  <2>1. \A g \in Handles : w[g] = m[g]
    BY <1>2, <1>3, Basics DEF Planted
  <2> QED BY <2>1, <1>1 DEF Rooted, RootOf
<1>11. y \in A[RootOf(w, h)]
  BY <1>1, <1>5 DEF Gained
<1> QED BY <1>3, <1>4, <1>5, <1>6, <1>7, <1>8, <1>10, <1>11

\* Attach keeps the invariant, and one tree gains the item.
LEMMA Leafed ==
  ASSUME NEW B, Inv(live, node, count, made, call, B), Attach
  PROVE  \E A : \E h \in live, s \in Spans :
           /\ Inv(live', node', count', made', call', A)
           /\ Lists(node, B, node', A, h, <<s[1], s[2], made + 1>>) /\ made + 1 \in Names
           /\ writer' = h
<1>1. Inv(live, node, count, made, call, B)
  OBVIOUS
<1>2. Grove(live, node, count, made, B) /\ Sinking(live, node, count, made, call, B)
  <2>1. call.pc = "descend"
    BY DEF Attach
  <2> QED BY <2>1, <1>1, CallIs DEF Inv, Resting, Rising
<1>3. PICK h \in live : \E x \in B[RootOf(node, h)], i \in Entries :
        /\ call = Call("descend", h, x, i)
        /\ Going(node, B, made, x, i)
        /\ \A g \in Handles : count[g] <= IF g = h THEN made + 1 ELSE made
  BY <1>2 DEF Sinking
<1>4. PICK x \in B[RootOf(node, h)], i \in Entries :
        /\ call = Call("descend", h, x, i)
        /\ Going(node, B, made, x, i)
        /\ \A g \in Handles : count[g] <= IF g = h THEN made + 1 ELSE made
  BY <1>3
<1>5. call.at = x /\ call.item = i /\ call.tree = h
  BY <1>4, CallIs
<1>6. PICK s, y, v, w : s = SideFor(x, i) /\ y = made + 1 /\ v = Passed(x, i) /\ w = node'
  OBVIOUS
<1>7. /\ node[x].child[s] = None
      /\ w = PutChild(v, x, s, y, Node(i, i[2], x))
      /\ call' = Call("rebalance", h, y, i)
      /\ live' = live /\ count' = count /\ made' = y /\ writer' = h
  BY <1>5, <1>6 DEF Attach, PutChild
<1>8. /\ made \in Nat /\ live \subseteq Handles /\ h \in Handles
      /\ Forest(node, B, made) /\ node \in Heaps
  BY <1>2, Basics DEF Grove, Forest, Linked
<1>9. x \in Names /\ node[x] # Absent /\ node[x].item \in Entries /\ x <= made
  BY <1>8, TreeNodes
<1>10. s \in Sides /\ Beside(i[1], s, node[x].item[1])
  BY <1>6, <1>9, Basics DEF SideFor, Beside, Entries
<1>11. y \in Names /\ x # y
  BY <1>4, <1>6, <1>8, <1>9, GoingIs, Basics
<1>12. Reminded(node, v, x, i[2])
  BY <1>6, <1>8, <1>9, PassedIs
<1>13. /\ Planted(node, w, x, s, y, i)
       /\ node[x].max <= w[x].max /\ i[2] <= w[x].max /\ w[x].max \in {node[x].max, i[2]}
  BY <1>7, <1>8, <1>9, <1>10, <1>11, <1>12, Attached
<1>14. PICK A : A = PutBelow(B, x, y)
  OBVIOUS
<1>15. /\ Forest(w, A, y) /\ Ordered(w, A) /\ Rooted(w, live) /\ \A k \in Names : Level(w, k)
       /\ y \in 0 .. MaxNodes
       /\ KnowsEnds(w, A, {}, 0) /\ Telling(w, y) /\ y \in A[RootOf(w, h)]
       /\ Gained(node, B, w, A, x, y)
  BY <1>2, <1>4, <1>6, <1>7, <1>10, <1>13, <1>14, NewLeaf
<1>16. \A g \in Handles : count[g] <= y
  <2> SUFFICES ASSUME NEW g \in Handles PROVE count[g] <= y
    OBVIOUS
  <2>1. count[g] \in Nat /\ count[g] <= IF g = h THEN made + 1 ELSE made
    BY <1>2, <1>4 DEF Grove
  <2> QED BY <2>1, <1>6, <1>8
<1>17. Grove(live', node', count', made', A)
  BY <1>2, <1>6, <1>7, <1>15 DEF Grove
<1>18. Rising(live', node', count', made', call', A)
  BY <1>6, <1>7, <1>15, <1>16 DEF Rising
<1>19. Lists(node, B, w, A, h, i)
  BY <1>4, <1>6, <1>8, <1>11, <1>13, <1>15, GainedItems
<1>20. PICK z \in Spans : i = <<z[1], z[2], made + 1>>
  BY <1>4 DEF Going
<1>21. Inv(live', node', count', made', call', A)
  BY <1>17, <1>18 DEF Inv
<1>22. Lists(node, B, node', A, h, <<z[1], z[2], made + 1>>) /\ made + 1 \in Names /\ writer' = h
  BY <1>6, <1>7, <1>11, <1>19, <1>20
<1> QED BY <1>21, <1>22

\* Attach keeps the invariant.
LEMMA InvAttach == ASSUME IInv, Attach PROVE IInv'
<1>1. PICK B : Inv(live, node, count, made, call, B)
  BY DEF IInv
<1>2. PICK A : \E h \in live : Inv(live', node', count', made', call', A) /\ writer' = h
  BY <1>1, Leafed
<1>3. live \subseteq Handles
  BY <1>1 DEF Inv, Grove
<1> QED BY <1>2, <1>3 DEF IInv

\* Heap w is m, but that side q of p has depth d.
Deepened(m, w, p, q, d) ==
  /\ w \in Heaps
  /\ \A k \in Handles \cup Names : /\ w[k].item = m[k].item /\ w[k].parent = m[k].parent
                                   /\ w[k].child = m[k].child /\ w[k].max = m[k].max
                                   /\ k # p => w[k] = m[k]
  /\ \A r \in Sides : w[p].depth[r] = IF r = q THEN d ELSE m[p].depth[r]

\* Assigning a depth deepens the node.
LEMMA DeepenedIs ==
  ASSUME NEW m \in Heaps, NEW p \in Handles \cup Names, NEW q \in Sides, NEW d \in Nat,
         NEW w, w = [m EXCEPT ![p].depth[q] = d]
  PROVE  Deepened(m, w, p, q, d)
<1>1. m[p] \in Nodes
  BY DEF Heaps
<1>2. PICK v : v = [m[p] EXCEPT !.depth = [m[p].depth EXCEPT ![q] = d]]
  OBVIOUS
<1>3. WithDepth(v, m[p], q, d)
  BY <1>1, <1>2, DepthSet
<1>4. \A k \in Handles \cup Names : w[k] = IF k = p THEN v ELSE m[k]
  BY <1>2 DEF Heaps
<1>5. w \in Heaps
  <2>1. DOMAIN w = DOMAIN m /\ w = [k \in DOMAIN w |-> w[k]]
    OBVIOUS
  <2>2. \A k \in Handles \cup Names : w[k] \in Nodes
    BY <1>3, <1>4 DEF Heaps, WithDepth
  <2> QED BY <2>1, <2>2 DEF Heaps
<1> QED BY <1>3, <1>4, <1>5 DEF Deepened, WithDepth

\* The node p has been told the depth d of x; its own parent is told next.
Informed(L, m, n, B, h, x, p, q, d, w) ==
  /\ Forest(w, B, n) /\ Rooted(w, L) /\ Ordered(w, B) /\ KnowsEnds(w, B, {}, 0)
  /\ \A k \in Names : k # p => Level(w, k)
  /\ MeasuredBut(w, {<<w[p].parent, SideOf(w, p)>>})
  /\ SameTrees(m, B, w, B) /\ p \in B[RootOf(w, h)]
  /\ w[p].parent \in Names => w[w[p].parent].depth[SideOf(w, p)] = Height(m, p)
                              /\ w[w[p].parent].child[SideOf(w, p)] = p
  /\ d = m[p].depth[q] \/ (d = m[p].depth[q] + 1 /\ Grown(w, w[p].child[q]))

\* Telling the parent of x makes it informed.
LEMMA Informing ==
  ASSUME NEW L, NEW m, NEW N, NEW n, NEW B, Grove(L, m, N, n, B), KnowsEnds(m, B, {}, 0),
         NEW h \in L, NEW x \in B[RootOf(m, h)], Telling(m, x),
         NEW p \in Names, p = m[x].parent, NEW q \in Sides, q = SideOf(m, x),
         NEW w, Deepened(m, w, p, q, Height(m, x))
  PROVE  Informed(L, m, n, B, h, x, p, q, Height(m, x), w)
<1>1. /\ Forest(m, B, n) /\ Partition(m, B) /\ Closed(m, B) /\ Linked(m, n) /\ m \in Heaps
      /\ L \subseteq Handles /\ h \in Handles /\ Rooted(m, L) /\ Ordered(m, B)
      /\ \A k \in Names : Level(m, k)
  BY DEF Grove, Forest, Linked
<1>2. PICK d : d = Height(m, x)
  OBVIOUS
<1>3. /\ w \in Heaps
      /\ \A k \in Handles \cup Names :
           /\ w[k].item = m[k].item /\ w[k].parent = m[k].parent
           /\ w[k].child = m[k].child /\ w[k].max = m[k].max
           /\ k # p => w[k] = m[k]
      /\ \A r \in Sides : w[p].depth[r] = IF r = q THEN d ELSE m[p].depth[r]
  BY <1>2 DEF Deepened
<1>4. x \in Names /\ m[x] # Absent /\ p \in B[RootOf(m, h)] /\ m[p] # Absent
  <2>1. x \in Names /\ m[x] # Absent /\ p \in B[RootOf(m, h)] \cup {h}
    BY <1>1, TreeNodes
  <2>2. p \in B[RootOf(m, h)]
    BY <2>1, <1>1, Basics
  <2> QED BY <2>1, <2>2, <1>1, TreeNodes
<1>5. m[p].child[q] = x
  BY <1>1, <1>4 DEF Linked
<1>6. x # p
  BY <1>1, <1>5, Basics DEF Partition
<1>7. Forest(w, B, n) /\ Ordered(w, B) /\ \A y \in Names : m[y].parent # None => SideOf(w, y) = SideOf(m, y)
  <2>1. \A y \in Handles \cup Names :
          w[y].item = m[y].item /\ w[y].parent = m[y].parent /\ w[y].child = m[y].child
    BY <1>3
  <2>2. \A y \in Names : m[y] = Absent => w[y] = Absent
    BY <1>3, <1>4
  <2> QED BY <1>1, <1>3, <2>1, <2>2, SameShape
<1>8. Rooted(w, L)
  <2>1. \A g \in Handles : w[g] = m[g]
    BY <1>3, Basics
  <2> QED BY <2>1, <1>1 DEF Rooted, RootOf
<1>9. KnowsEnds(w, B, {}, 0)
  <2>1. \A y \in Names : w[y] # Absent => m[y] # Absent
    BY <1>3, <1>4
  <2>2. \A y \in Names : \A k \in B[y] : k \in Names
    BY <1>1, Basics DEF Partition
  <2>3. \A k \in Names : w[k].item = m[k].item /\ w[k].max = m[k].max
    BY <1>3
  <2> QED BY <2>1, <2>2, <2>3 DEF KnowsEnds, Knows
<1>10. ASSUME NEW k \in Names, k # p PROVE Level(w, k)
  <2>1. w[k] = m[k] /\ Level(m, k)
    BY <1>1, <1>3, <1>10
  <2> QED BY <2>1 DEF Level
<1>11. SameTrees(m, B, w, B) /\ p \in B[RootOf(w, h)]
  <2>1. \A g \in Handles : RootOf(w, g) = RootOf(m, g)
    BY <1>3 DEF RootOf
  <2> QED BY <2>1, <1>1, <1>3, <1>4 DEF SameTrees
<1>12. PICK pp, qq : pp = m[p].parent /\ qq = SideOf(m, p)
  OBVIOUS
<1>13. pp \in Handles \cup Names /\ m[pp].child[qq] = p /\ qq \in Sides /\ pp # p
  <2>1. pp # None /\ m[pp].child[qq] = p
    BY <1>1, <1>4, <1>12 DEF Linked
  <2>2. pp \in Handles \cup Names /\ qq \in Sides
    BY <2>1, <1>1, <1>12, Basics DEF Heaps, Nodes, SideOf
  <2>3. pp # p
    BY <2>1, <2>2, <1>1, Basics DEF Partition
  <2> QED BY <2>1, <2>2, <2>3
<1>14. w[p].parent = pp /\ SideOf(w, p) = qq
  BY <1>3, <1>7, <1>12, <1>13, Basics
<1>15. MeasuredBut(m, {<<p, q>>})
  BY DEF Telling
<1>16. \A k \in Names : k # p => Height(w, k) = Height(m, k)
  <2> TAKE k \in Names
  <2> HAVE k # p
  <2>1. \A r \in Sides : m[k].depth[r] = w[k].depth[r]
    BY <1>3
  <2> QED BY <2>1, SameHeight
<1>17. MeasuredBut(w, {<<pp, qq>>})
  <2> SUFFICES ASSUME NEW y \in Names, NEW r \in Sides, <<y, r>> # <<pp, qq>> PROVE Measured(w, y, r)
    BY DEF MeasuredBut
  <2>1. PICK c \in Names \cup {None} : c = m[y].child[r] /\ c = w[y].child[r]
    BY <1>1, <1>3 DEF Heaps, Nodes
  <2>2. c # p
    <3> SUFFICES ASSUME m[y].child[r] = p PROVE FALSE
      BY <2>1
    <3>1. y \in Handles \cup Names
      OBVIOUS
    <3>2. m[p].parent = y /\ SideOf(m, p) = r
      BY <3>1, <1>1, SideIs
    <3> QED BY <3>2, <1>12
  <2>3. c # None => Height(w, c) = Height(m, c)
    BY <2>2, <1>16
  <2>4. CASE y = p /\ r = q
    BY <2>1, <2>3, <2>4, <1>2, <1>3, <1>4, <1>5, Basics DEF Measured
  <2>5. CASE ~(y = p /\ r = q)
    <3>1. Measured(m, y, r)
      BY <2>5, <1>15 DEF MeasuredBut
    <3>2. w[y].depth[r] = m[y].depth[r]
      BY <2>5, <1>3
    <3> QED BY <3>1, <3>2, <2>1, <2>3 DEF Measured
  <2> QED BY <2>4, <2>5
<1>18. pp \in Names => w[pp].depth[qq] = Height(m, p) /\ w[pp].child[qq] = p
  <2> SUFFICES ASSUME pp \in Names PROVE w[pp].depth[qq] = Height(m, p) /\ w[pp].child[qq] = p
    OBVIOUS
  <2>1. Measured(m, pp, qq)
    BY <1>13, <1>15 DEF MeasuredBut
  <2>2. w[pp] = m[pp]
    BY <1>3, <1>13
  <2> QED BY <2>1, <2>2, <1>13, Basics DEF Measured
<1>19. d = m[p].depth[q] \/ (d = m[p].depth[q] + 1 /\ Grown(w, w[p].child[q]))
  <2>1. Measured(m, p, q) \/ (Height(m, x) = m[p].depth[q] + 1 /\ Grown(m, x))
    BY DEF Telling
  <2>2. w[p].child[q] = x /\ w[x] = m[x]
    BY <1>3, <1>4, <1>5, <1>6
  <2>3. Measured(m, p, q) => d = m[p].depth[q]
    BY <1>2, <1>4, <1>5, Basics DEF Measured
  <2> QED BY <2>1, <2>2, <2>3, <1>2 DEF Grown
<1> QED BY <1>2, <1>7, <1>8, <1>9, <1>10, <1>11, <1>14, <1>17, <1>18, <1>19 DEF Informed

\* A node that is level tells its own parent.
LEMMA TellsOn ==
  ASSUME NEW L, NEW m \in Heaps, NEW n, NEW B, NEW h, NEW x, NEW p \in Names, NEW q \in Sides,
         NEW d, NEW w, Informed(L, m, n, B, h, x, p, q, d, w), Deepened(m, w, p, q, d)
  PROVE  Telling(w, p)
<1>1. PICK pp, qq : pp = w[p].parent /\ qq = SideOf(w, p)
  OBVIOUS
<1>2. /\ MeasuredBut(w, {<<pp, qq>>})
      /\ pp \in Names => w[pp].depth[qq] = Height(m, p) /\ w[pp].child[qq] = p
      /\ d = m[p].depth[q] \/ d = m[p].depth[q] + 1
  BY <1>1 DEF Informed
<1>3. PICK o \in Sides : o = Other(q) /\ o # q /\ Other(o) = q /\ \A r \in Sides : r \in {o, q}
  BY Basics
<1>4. PICK a, b \in Nat : a = m[p].depth[q] /\ b = m[p].depth[o]
  BY DEF Heaps, Nodes
<1>5. w[p].depth[q] = d /\ w[p].depth[o] = b /\ w \in Heaps
  BY <1>3, <1>4 DEF Deepened
<1>6. Height(m, p) = 1 + (IF a <= b THEN b ELSE a)
  BY <1>3, <1>4, HeightFrom
<1>7. Height(w, p) = 1 + (IF d <= b THEN b ELSE d)
  BY <1>3, <1>5, HeightFrom
<1>8. Height(w, p) = Height(m, p) \/ (Height(w, p) = Height(m, p) + 1 /\ d # b)
  BY <1>2, <1>4, <1>6, <1>7
<1>9. d # b => Grown(w, p)
  BY <1>3, <1>5, Basics DEF Grown
<1>10. pp \in Names => \/ Measured(w, pp, qq)
                       \/ Height(w, p) = w[pp].depth[qq] + 1 /\ Grown(w, p)
  BY <1>2, <1>8, <1>9, Basics DEF Measured
<1> QED BY <1>1, <1>2, <1>10 DEF Telling

\* A node that is two deeper on a side is level again when that is restored.
LEMMA Restoring ==
  ASSUME NEW L, NEW m \in Heaps, NEW n, NEW B, NEW h, NEW x, NEW p \in Names, NEW q \in Sides,
         NEW d, NEW w, Informed(L, m, n, B, h, x, p, q, d, w), Deepened(m, w, p, q, d),
         Level(m, p), NEW s \in Sides, w[p].depth[s] - w[p].depth[Other(s)] >= 2,
         NEW v, v = Restore(w, p, s)
  PROVE  /\ MeasuredBut(v, {}) /\ \A y \in Names : Level(v, y)
         /\ \E A : Shaped(v, A, n, L) /\ SameTrees(m, B, v, A)
<1>1. PICK pp, qq : pp = w[p].parent /\ qq = SideOf(w, p)
  OBVIOUS
<1>2. /\ MeasuredBut(w, {<<pp, qq>>})
      /\ pp \in Names => w[pp].depth[qq] = Height(m, p)
      /\ d = m[p].depth[q] \/ (d = m[p].depth[q] + 1 /\ Grown(w, w[p].child[q]))
      /\ Shaped(w, B, n, L) /\ \A y \in Names : y # p => Level(w, y)
      /\ SameTrees(m, B, w, B)
  BY <1>1 DEF Informed, Shaped
<1>3. PICK o \in Sides : o = Other(q) /\ o # q /\ Other(o) = q /\ \A r \in Sides : r \in {o, q}
  BY Basics
<1>4. PICK a, b \in Nat : a = m[p].depth[q] /\ b = m[p].depth[o]
  BY DEF Heaps, Nodes
<1>5. w[p].depth[q] = d /\ w[p].depth[o] = b
  BY <1>3, <1>4 DEF Deepened
<1>6. a - b <= 1 /\ b - a <= 1
  BY <1>3, <1>4 DEF Level
<1>7. s = q /\ d = a + 1 /\ a = b + 1 /\ Grown(w, w[p].child[s])
  <2>1. CASE s = q
    BY <2>1, <1>2, <1>3, <1>4, <1>5, <1>6
  <2>2. CASE s = o
    BY <2>2, <1>2, <1>3, <1>4, <1>5, <1>6
  <2> QED BY <2>1, <2>2, <1>3
<1>8. Height(m, p) = b + 2
  <2>1. Height(m, p) = 1 + (IF a <= b THEN b ELSE a)
    BY <1>3, <1>4, HeightFrom
  <2> QED BY <2>1, <1>4, <1>7
<1>9. w[p].depth[Other(s)] = b /\ w[p].depth[s] = b + 2
  BY <1>3, <1>4, <1>5, <1>7
<1>10. /\ MeasuredBut(w, {<<w[p].parent, SideOf(w, p)>>})
       /\ w[p].parent \in Names => w[w[p].parent].depth[SideOf(w, p)] = b + 2
  BY <1>1, <1>2, <1>8
<1>11. /\ MeasuredBut(v, {}) /\ \A y \in Names : Level(v, y)
       /\ \E A : Shaped(v, A, n, L) /\ SameTrees(w, B, v, A)
  BY <1>2, <1>4, <1>7, <1>9, <1>10, Restored
<1>12. \A A : SameTrees(w, B, v, A) => SameTrees(m, B, v, A)
  BY <1>2 DEF SameTrees
<1> QED BY <1>11, <1>12

\* The parent is told, and rebalanced next unless it is rotated or the root;
\* every tree keeps its items.
LEMMA Rebalanced ==
  ASSUME NEW B, Inv(live, node, count, made, call, B), Rebalance
  PROVE  \E A : SameTrees(node, B, node', A) /\ Inv(live', node', count', made', call', A)
<1>1. Grove(live, node, count, made, B) /\ Rising(live, node, count, made, call, B)
  <2>1. call.pc = "rebalance"
    BY DEF Rebalance
  <2> QED BY <2>1, CallIs DEF Inv, Resting, Sinking
<1>2. PICK h \in live : \E x \in B[RootOf(node, h)], i \in Entries :
        /\ call = Call("rebalance", h, x, i)
        /\ KnowsEnds(node, B, {}, 0) /\ Telling(node, x)
        /\ \A g \in Handles : count[g] <= made
  BY <1>1 DEF Rising
<1>3. PICK x \in B[RootOf(node, h)], i \in Entries :
        /\ call = Call("rebalance", h, x, i)
        /\ KnowsEnds(node, B, {}, 0) /\ Telling(node, x)
        /\ \A g \in Handles : count[g] <= made
  BY <1>2
<1>4. PICK p, q, d, told : /\ p = node[x].parent /\ q = SideOf(node, x) /\ d = Height(node, x)
                           /\ told = [node EXCEPT ![p].depth[q] = d]
  OBVIOUS
<1>5. PICK deeper : deeper = {s \in Sides : told[p].depth[s] - told[p].depth[Other(s)] >= 2}
  OBVIOUS
<1>6. /\ call.at = x /\ \A z : [call EXCEPT !.at = z] = Call("rebalance", h, z, i)
  BY <1>3, CallIs
<1>7. /\ live' = live /\ count' = count /\ made' = made /\ writer' = writer
      /\ \/ p \in Handles /\ call' = Idle /\ node' = node
         \/ /\ p \notin Handles /\ deeper = {} /\ node' = told
            /\ call' = Call("rebalance", h, p, i)
         \/ /\ p \notin Handles /\ \E s \in deeper : node' = Restore(told, p, s)
            /\ call' = Idle
  BY <1>4, <1>5, <1>6 DEF Rebalance
<1>8. /\ Forest(node, B, made) /\ node \in Heaps /\ live \subseteq Handles /\ h \in Handles
      /\ Rooted(node, live) /\ Ordered(node, B)
      /\ made \in 0 .. MaxNodes /\ count \in [Handles -> Nat]
      /\ \A k \in Names : Level(node, k)
  BY <1>1 DEF Grove, Forest, Linked
<1>9. /\ x \in Names /\ p \in Names \cup Handles /\ q \in Sides /\ d \in Nat
      /\ p \in Names \/ p \in Handles
  <2>1. x \in Names /\ p \in B[RootOf(node, h)] \cup {h}
    BY <1>4, <1>8, TreeNodes
  <2>2. p \in B[RootOf(node, h)] => p \in Names
    BY <1>8, TreeNodes
  <2>3. d \in Nat
    BY <2>1, <1>4, <1>8, HeightIs
  <2> QED BY <2>1, <2>2, <2>3, <1>4, <1>8, Basics DEF SideOf
<1>10. CASE p \in Handles
  <2>1. node' = node /\ call' = Idle
    BY <1>7, <1>10
  <2>2. MeasuredBut(node, {})
    <3>1. MeasuredBut(node, {<<p, q>>}) /\ p \notin Names
      BY <1>3, <1>4, <1>10, Basics DEF Telling
    <3> QED BY <3>1 DEF MeasuredBut
  <2>3. Grove(live', node', count', made', B) /\ Resting(node', count', made', call', B)
    BY <2>1, <2>2, <1>1, <1>3, <1>7 DEF Grove, Resting
  <2>4. SameTrees(node, B, node', B)
    BY <2>1 DEF SameTrees
  <2> QED BY <2>3, <2>4 DEF Inv
<1>11. CASE p \in Names
  <2>1. p \notin Handles
    BY <1>11, Basics
  <2>2. Deepened(node, told, p, q, d)
    BY <1>4, <1>8, <1>9, <1>11, DeepenedIs
  <2>3. Informed(live, node, made, B, h, x, p, q, d, told)
    BY <2>2, <1>1, <1>3, <1>4, <1>9, <1>11, Informing
  <2>4. CASE deeper = {}
    <3>1. node' = told /\ call' = Call("rebalance", h, p, i)
      BY <2>1, <2>4, <1>7
    <3>2. Telling(told, p)
      BY <2>2, <2>3, <1>8, <1>9, <1>11, TellsOn
    <3>3. Level(told, p)
      <4> SUFFICES ASSUME NEW s \in Sides PROVE told[p].depth[s] - told[p].depth[Other(s)] <= 1
        BY DEF Level
      <4>1. s \notin deeper
        BY <2>4
      <4>2. ~(told[p].depth[s] - told[p].depth[Other(s)] >= 2)
        BY <4>1, <1>5
      <4>3. told[p].depth[s] \in Nat /\ told[p].depth[Other(s)] \in Nat
        BY <2>2, <1>11, Basics DEF Deepened, Heaps, Nodes
      <4> QED BY <4>2, <4>3
    <3>4. /\ Forest(told, B, made) /\ Rooted(told, live) /\ Ordered(told, B) /\ KnowsEnds(told, B, {}, 0)
          /\ \A k \in Names : Level(told, k)
          /\ SameTrees(node, B, told, B) /\ p \in B[RootOf(told, h)]
      BY <2>3, <3>3 DEF Informed
    <3>5. Grove(live', node', count', made', B)
      BY <3>1, <3>4, <1>7, <1>8 DEF Grove
    <3>6. Rising(live', node', count', made', call', B)
      BY <3>1, <3>2, <3>4, <1>3, <1>7 DEF Rising
    <3> QED BY <3>1, <3>4, <3>5, <3>6 DEF Inv
  <2>5. CASE deeper # {}
    <3>1. PICK s \in deeper : node' = Restore(told, p, s)
      BY <2>1, <2>5, <1>7
    <3>2. call' = Idle
      BY <2>1, <2>5, <1>7
    <3>3. PICK v : v = node' /\ v = Restore(told, p, s)
      BY <3>1
    <3>4. s \in Sides /\ told[p].depth[s] - told[p].depth[Other(s)] >= 2
      BY <1>5
    <3>5. /\ MeasuredBut(v, {}) /\ \A y \in Names : Level(v, y)
          /\ \E A : Shaped(v, A, made, live) /\ SameTrees(node, B, v, A)
      BY <2>2, <2>3, <3>3, <3>4, <1>8, <1>9, <1>11, Restoring
    <3>6. PICK A : Shaped(v, A, made, live) /\ SameTrees(node, B, v, A)
      BY <3>5
    <3>7. Grove(live', node', count', made', A) /\ Resting(node', count', made', call', A)
      BY <3>2, <3>3, <3>5, <3>6, <1>3, <1>7, <1>8 DEF Shaped, Grove, Resting
    <3> QED BY <3>3, <3>6, <3>7 DEF Inv
  <2> QED BY <2>4, <2>5
<1> QED BY <1>9, <1>10, <1>11

\* Rebalance keeps the invariant.
LEMMA InvRebalance == ASSUME IInv, Rebalance PROVE IInv'
<1>1. PICK B : Inv(live, node, count, made, call, B)
  BY DEF IInv
<1>2. PICK A : Inv(live', node', count', made', call', A)
  BY <1>1, Rebalanced
<1>3. writer' = writer
  BY DEF Rebalance
<1> QED BY <1>2, <1>3 DEF IInv

-----------------------------------------------------------------------------
(* Copying. *)

\* The name of a neighbour in the copy; the names of the copies.
To(f, y) == IF y = None THEN None ELSE f[y]
Copies(T, h, f) == {f[u] : u \in T \cup {h}}

\* The nodes T of tree h, and its root, have got names of their own: those
\* after the first a and within the first b, and the tree g.
Named(T, h, g, f, a, b) ==
  /\ T \subseteq Names /\ h \in Handles /\ g \in Handles /\ g # h
  /\ f[h] = g
  /\ \A x \in T : f[x] \in Names /\ a < f[x] /\ f[x] <= b
  /\ \A x, y \in T \cup {h} : f[x] = f[y] => x = y

\* Heap w is m with clones of T and h of these names.
Cloned(m, w, T, h, f) ==
  /\ w \in Heaps
  /\ \A x \in T \cup {h} :
       LET y == f[x]
       IN  /\ w[y].item = m[x].item /\ w[y].max = m[x].max /\ w[y].depth = m[x].depth
           /\ w[y].parent = To(f, m[x].parent)
           /\ \A s \in Sides : w[y].child[s] = To(f, m[x].child[s])
  /\ \A y \in Handles \cup Names : y \notin Copies(T, h, f) => w[y] = m[y]

\* What is below each node of the copy.
CopyBelow(B, T, f) ==
  [k \in 0 .. MaxNodes |->
     IF \E x \in T : f[x] = k THEN {f[u] : u \in UNION {B[x] : x \in {z \in T : f[z] = k}}}
     ELSE B[k]]

\* What is around a node that is cloned, and around one that is no clone.
Inside(m, B, w, A, T, h, f, x) ==
  /\ B[x] \in SUBSET T /\ x \in B[x] /\ m[x] # Absent /\ m[x].parent \in T \cup {h}
  /\ A[f[x]] = {f[v] : v \in B[x]}
  /\ \A s \in Sides : /\ m[x].child[s] \in T \cup {None}
                      /\ A[To(f, m[x].child[s])] = {f[v] : v \in B[m[x].child[s]]}

Old(m, B, w, A, C, y) ==
  /\ w[y] = m[y]
  /\ \A s \in Sides : /\ m[y].child[s] \notin C /\ B[m[y].child[s]] \cap C = {}
                      /\ A[m[y].child[s]] = B[m[y].child[s]]
  /\ y \in Names => A[y] = B[y] /\ B[y] \cap C = {}

Copying(m, B, w, A, T, h, f) ==
  /\ \A x \in T : Inside(m, B, w, A, T, h, f, x)
  /\ \A y \in Handles \cup Names : y \notin Copies(T, h, f) => Old(m, B, w, A, Copies(T, h, f), y)
  /\ \A y \in Copies(T, h, f), s \in Sides : m[y].child[s] = None
  /\ A \in [0 .. MaxNodes -> SUBSET Names] /\ A[None] = {}
  /\ m[h].parent = None /\ m[h].child["left"] \in T /\ m[h].child["right"] = None
  /\ B[m[h].child["left"]] = T

\* That is what a copy is like.
LEMMA CopyingIs ==
  ASSUME NEW m, NEW B, NEW a \in Nat, Forest(m, B, a), NEW L, Rooted(m, L),
         NEW h \in Handles, NEW T, T = B[RootOf(m, h)], T # {}, NEW g, g \notin L,
         NEW f, NEW b, Named(T, h, g, f, a, b), NEW w, Cloned(m, w, T, h, f),
         NEW A, A = CopyBelow(B, T, f)
  PROVE  Copying(m, B, w, A, T, h, f)
<1>1. Partition(m, B) /\ Closed(m, B) /\ Linked(m, a) /\ m \in Heaps
  BY DEF Forest, Linked
<1>2. PICK C : C = Copies(T, h, f)
  OBVIOUS
<1>3. B \in [0 .. MaxNodes -> SUBSET Names] /\ B[None] = {} /\ \A x \in Names : x \in B[x]
  BY <1>1 DEF Partition
<1>4. PICK r : r = RootOf(m, h)
  OBVIOUS
<1>5. /\ r \in Names /\ r \in T /\ r = m[h].child["left"] /\ m[h].child["right"] = None
      /\ m[h].parent = None /\ B[r] = T
  <2>1. r \in Names /\ r \in T
    BY <1>4, TreeNodes
  <2> QED BY <2>1, <1>1, <1>4 DEF RootOf, Rooted, Linked
<1>6. ASSUME NEW x \in T
      PROVE  /\ x \in Names /\ m[x] # Absent /\ B[x] \in SUBSET T /\ m[x].parent \in T \cup {h}
             /\ \A s \in Sides : m[x].child[s] \in T \cup {None}
  <2>1. x \in Names /\ m[x] # Absent /\ B[x] \subseteq T /\ m[x].parent \in T \cup {h}
    BY TreeNodes
  <2>2. ASSUME NEW s \in Sides PROVE m[x].child[s] \in T \cup {None}
    <3>1. m[x].child[s] \in Names \cup {None}
      BY <2>1, <1>1 DEF Heaps, Nodes
    <3>2. B[m[x].child[s]] \subseteq B[x]
      BY <2>1, <1>1, Basics DEF Partition
    <3> QED BY <2>1, <3>1, <3>2, <1>3
  <2> QED BY <2>1, <2>2
<1>7. /\ T \subseteq Names /\ f[h] = g /\ g \in Handles /\ \A x \in T : f[x] \in Names /\ a < f[x]
      /\ \A x, y \in T \cup {h} : f[x] = f[y] => x = y
  BY DEF Named
<1>8. \A k \in 0 .. MaxNodes :
        A[k] = IF \E x \in T : f[x] = k THEN {f[u] : u \in UNION {B[x] : x \in {z \in T : f[z] = k}}}
               ELSE B[k]
  BY DEF CopyBelow
<1>9. ASSUME NEW x \in T PROVE A[f[x]] = {f[v] : v \in B[x]}
  <2>1. f[x] \in 0 .. MaxNodes
    BY <1>7, Basics
  <2>2. {z \in T : f[z] = f[x]} = {x}
    BY <1>7
  <2>3. UNION {B[z] : z \in {x}} = B[x]
    OBVIOUS
  <2>4. UNION {B[y] : y \in {z \in T : f[z] = f[x]}} = B[x]
    BY <2>2, <2>3
  <2>5. \E y \in T : f[y] = f[x]
    OBVIOUS
  <2>6. A[f[x]] = {f[u] : u \in UNION {B[y] : y \in {z \in T : f[z] = f[x]}}}
    BY <2>1, <2>5, <1>8
  <2> QED BY <2>4, <2>6
<1>10. \A k \in 0 .. MaxNodes : k \notin C => A[k] = B[k]
  <2> SUFFICES ASSUME NEW k \in 0 .. MaxNodes, k \notin C PROVE A[k] = B[k]
    OBVIOUS
  <2>1. \A x \in T : f[x] # k
    BY <1>2 DEF Copies
  <2> QED BY <2>1, <1>8
<1>11. None \notin C /\ A[None] = {}
  <2>1. None \notin C
    BY <1>2, <1>7, Basics DEF Copies
  <2> QED BY <2>1, <1>3, <1>10, Basics
<1>12. ASSUME NEW x \in T PROVE Inside(m, B, w, A, T, h, f, x)
  <2>1. ASSUME NEW s \in Sides PROVE A[To(f, m[x].child[s])] = {f[v] : v \in B[m[x].child[s]]}
    <3>1. CASE m[x].child[s] = None
      BY <3>1, <1>3, <1>11 DEF To
    <3>2. CASE m[x].child[s] \in T
      <4>1. To(f, m[x].child[s]) = f[m[x].child[s]]
        BY <3>2, <1>7, Basics DEF To
      <4> QED BY <3>2, <4>1, <1>9
    <3> QED BY <3>1, <3>2, <1>6
  <2> QED BY <2>1, <1>3, <1>6, <1>9 DEF Inside
<1>13. \A y \in C : y \in Handles \/ (y \in Names /\ y > a)
  BY <1>2, <1>7, Basics DEF Copies
<1>14. ASSUME NEW y \in C, y \in Names
       PROVE  /\ \A k \in 0 .. MaxNodes : y \in B[k] => k = y
              /\ \A k \in Handles \cup Names, s \in Sides : m[k].child[s] # y
  <2>1. y > a
    BY <1>13, <1>14, Basics
  <2> QED BY <2>1, <1>14, Fresh
<1>15. \A k \in 0 .. MaxNodes : k \notin C => B[k] \cap C = {}
  BY <1>3, <1>14
<1>16. ASSUME NEW y \in Handles \cup Names, y \notin C PROVE Old(m, B, w, A, C, y)
  <2>1. w[y] = m[y]
    BY <1>2, <1>16 DEF Cloned
  <2>2. ASSUME NEW s \in Sides
        PROVE  /\ m[y].child[s] \notin C /\ B[m[y].child[s]] \cap C = {}
               /\ A[m[y].child[s]] = B[m[y].child[s]]
    <3>1. m[y].child[s] \in Names \cup {None}
      BY <1>1 DEF Heaps, Nodes
    <3>2. m[y].child[s] \notin C
      BY <3>1, <1>11, <1>14
    <3> QED BY <3>1, <3>2, <1>10, <1>15, Basics
  <2>3. y \in Names => A[y] = B[y] /\ B[y] \cap C = {}
    BY <1>10, <1>15, <1>16, Basics
  <2> QED BY <2>1, <2>2, <2>3 DEF Old
<1>17. A \in [0 .. MaxNodes -> SUBSET Names]
  <2>1. \A k \in 0 .. MaxNodes : A[k] \in SUBSET Names
    <3> SUFFICES ASSUME NEW k \in 0 .. MaxNodes PROVE A[k] \subseteq Names
      OBVIOUS
    <3>1. CASE \E x \in T : f[x] = k
      <4>1. PICK x \in T : f[x] = k
        BY <3>1
      <4>2. A[k] = {f[v] : v \in B[x]}
        BY <4>1, <1>9
      <4> QED BY <4>1, <4>2, <1>6, <1>7
    <3>2. CASE ~\E x \in T : f[x] = k
      BY <3>2, <1>3, <1>8
    <3> QED BY <3>1, <3>2
  <2>2. DOMAIN A = 0 .. MaxNodes /\ A = [k \in DOMAIN A |-> A[k]]
    BY DEF CopyBelow
  <2> QED BY <2>1, <2>2
<1>18. ASSUME NEW y \in C, NEW s \in Sides PROVE m[y].child[s] = None
  <2>1. CASE y \in Names
    <3>1. y > a
      BY <2>1, <1>13, Basics
    <3>2. m[y] = Absent
      BY <2>1, <3>1, Fresh
    <3> QED BY <3>2 DEF Absent, Node
  <2>2. CASE y \in Handles
    <3>1. y = g
      BY <2>2, <1>2, <1>7, Basics DEF Copies
    <3>2. m[g].child["left"] = None /\ m[g].child["right"] = None
      BY <1>1, <1>7 DEF Rooted, RootOf, Linked
    <3> QED BY <3>1, <3>2, Basics
  <2> QED BY <2>1, <2>2, <1>13
<1> QED BY <1>2, <1>5, <1>11, <1>12, <1>16, <1>17, <1>18 DEF Copying

\* Tree g is a new tree of the clones, and the others are what they were.
Forked(m, B, w, A, h, g, f) ==
  /\ A[RootOf(w, g)] = {f[u] : u \in B[RootOf(m, h)]}
  /\ \A u \in B[RootOf(m, h)] : w[f[u]].item = m[u].item
  /\ \A k \in Handles : k # g => /\ A[RootOf(w, k)] = B[RootOf(m, k)]
                                 /\ \A x \in B[RootOf(m, k)] : w[x].item = m[x].item

\* The new heap is a forest again.
LEMMA CopiedForest ==
  ASSUME NEW m, NEW B, NEW a \in Nat, Forest(m, B, a), NEW h \in Handles, NEW T, NEW g,
         NEW f, NEW b \in Nat, a <= b, Named(T, h, g, f, a, b), NEW w, Cloned(m, w, T, h, f),
         NEW A, Copying(m, B, w, A, T, h, f)
  PROVE  Forest(w, A, b) /\ \A x \in T : SideOf(w, f[x]) = SideOf(m, x)
<1>1. Partition(m, B) /\ Closed(m, B) /\ Linked(m, a) /\ Apart(m, B) /\ m \in Heaps /\ w \in Heaps
  BY DEF Forest, Linked, Cloned
<1>2. PICK C : C = Copies(T, h, f) /\ C = {f[u] : u \in T \cup {h}}
  BY DEF Copies
<1>3. /\ T \subseteq Names /\ f[h] = g /\ g \in Handles /\ g # h
      /\ \A x \in T : f[x] \in Names /\ a < f[x] /\ f[x] <= b
      /\ \A x, y \in T \cup {h} : f[x] = f[y] => x = y
      /\ h \notin Names /\ g \notin Names /\ None \notin T \cup {h} /\ None \notin Handles \cup Names
  BY Basics DEF Named
<1>4. ASSUME NEW x \in T
      PROVE  /\ B[x] \in SUBSET T /\ x \in B[x] /\ m[x] # Absent /\ m[x].parent \in T \cup {h}
             /\ A[f[x]] = {f[v] : v \in B[x]}
             /\ \A s \in Sides : /\ m[x].child[s] \in T \cup {None}
                                 /\ A[To(f, m[x].child[s])] = {f[v] : v \in B[m[x].child[s]]}
  BY DEF Copying, Inside
<1>5. \A x \in T \cup {h} :
        /\ w[f[x]].item = m[x].item /\ w[f[x]].max = m[x].max /\ w[f[x]].depth = m[x].depth
        /\ w[f[x]].parent = To(f, m[x].parent)
        /\ \A s \in Sides : w[f[x]].child[s] = To(f, m[x].child[s])
  BY DEF Cloned
<1>6. ASSUME NEW y \in Handles \cup Names, y \notin C
      PROVE  /\ w[y] = m[y]
             /\ \A s \in Sides : /\ m[y].child[s] \notin C /\ B[m[y].child[s]] \cap C = {}
                                 /\ A[m[y].child[s]] = B[m[y].child[s]]
             /\ y \in Names => A[y] = B[y] /\ B[y] \cap C = {}
  BY <1>2, <1>6 DEF Copying, Old
<1>7. /\ A \in [0 .. MaxNodes -> SUBSET Names] /\ A[None] = {}
      /\ m[h].parent = None /\ m[h].child["left"] \in T /\ m[h].child["right"] = None
      /\ B[m[h].child["left"]] = T
  BY DEF Copying
<1>8. \A x \in T \cup {h}, s \in Sides : m[x].child[s] \in T \cup {None}
  BY <1>4, <1>7, Basics
<1>9. \A x \in T \cup {None} : To(f, x) = None <=> x = None
  BY <1>3 DEF To
<1>10. \A x, y \in T \cup {None} : To(f, x) = To(f, y) => x = y
  BY <1>3 DEF To
<1>11. \A x \in Names : x \notin C \/ \E u \in T : x = f[u]
  BY <1>2, <1>3
<1>12. Partition(w, A)
  <2>1. ASSUME NEW x \in Names
        PROVE  LET l == w[x].child["left"]
                   r == w[x].child["right"]
               IN  /\ A[x] = {x} \cup A[l] \cup A[r]
                   /\ x \notin A[l] /\ x \notin A[r] /\ A[l] \cap A[r] = {}
    <3>1. CASE x \notin C
      <4>1. /\ w[x] = m[x] /\ A[x] = B[x]
            /\ A[m[x].child["left"]] = B[m[x].child["left"]]
            /\ A[m[x].child["right"]] = B[m[x].child["right"]]
        BY <3>1, <1>6, Basics
      <4> QED BY <4>1, <1>1 DEF Partition
    <3>2. ASSUME NEW u \in T, x = f[u]
          PROVE  LET l == w[x].child["left"]
                     r == w[x].child["right"]
                 IN  /\ A[x] = {x} \cup A[l] \cup A[r]
                     /\ x \notin A[l] /\ x \notin A[r] /\ A[l] \cap A[r] = {}
      <4>1. PICK l, r : l = m[u].child["left"] /\ r = m[u].child["right"]
        OBVIOUS
      <4>2. /\ l \in T \cup {None} /\ r \in T \cup {None}
            /\ A[To(f, l)] = {f[v] : v \in B[l]} /\ A[To(f, r)] = {f[v] : v \in B[r]}
            /\ A[x] = {f[v] : v \in B[u]}
            /\ w[x].child["left"] = To(f, l) /\ w[x].child["right"] = To(f, r)
        BY <3>2, <4>1, <1>4, <1>5, Basics
      <4>3. /\ B[u] = {u} \cup B[l] \cup B[r] /\ u \notin B[l] /\ u \notin B[r] /\ B[l] \cap B[r] = {}
            /\ B[u] \subseteq T
        BY <4>1, <1>1, <1>3, <1>4 DEF Partition
      <4>4. A[x] = {x} \cup A[To(f, l)] \cup A[To(f, r)]
        BY <3>2, <4>2, <4>3
      <4>5. x \notin A[To(f, l)] /\ x \notin A[To(f, r)] /\ A[To(f, l)] \cap A[To(f, r)] = {}
        BY <3>2, <4>2, <4>3, <1>3
      <4> QED BY <4>2, <4>4, <4>5
    <3> QED BY <3>1, <3>2, <1>11
  <2> QED BY <2>1, <1>7 DEF Partition
<1>13. Closed(w, A)
  <2> SUFFICES ASSUME NEW x \in Names, NEW y \in A[x]
               PROVE  A[y] \subseteq A[x] /\ (y # x => w[y].parent \in A[x])
    BY DEF Closed
  <2>1. CASE x \notin C
    <3>1. A[x] = B[x] /\ B[x] \cap C = {}
      BY <2>1, <1>6
    <3>2. y \in B[x] /\ y \in Names /\ y \notin C
      BY <3>1, <1>1, Basics DEF Partition
    <3>3. A[y] = B[y] /\ w[y] = m[y]
      BY <3>2, <1>6
    <3> QED BY <3>1, <3>2, <3>3, <1>1 DEF Closed
  <2>2. ASSUME NEW u \in T, x = f[u]
        PROVE  A[y] \subseteq A[x] /\ (y # x => w[y].parent \in A[x])
    <3>1. A[x] = {f[v] : v \in B[u]} /\ B[u] \subseteq T /\ u \in Names
      BY <2>2, <1>3, <1>4
    <3>2. PICK v \in B[u] : y = f[v]
      BY <3>1
    <3>3. A[y] = {f[k] : k \in B[v]} /\ B[v] \subseteq B[u] /\ v \in T
      BY <3>1, <3>2, <1>1, <1>4 DEF Closed
    <3>4. y # x => m[v].parent \in B[u]
      BY <3>1, <3>2, <2>2, <1>1 DEF Closed
    <3>5. m[v].parent \in B[u] => w[y].parent = f[m[v].parent]
      <4>1. w[y].parent = To(f, m[v].parent)
        BY <3>2, <3>3, <1>5
      <4> QED BY <3>1, <4>1, <1>3 DEF To
    <3> QED BY <3>1, <3>3, <3>4, <3>5
  <2> QED BY <2>1, <2>2, <1>11
<1>14. ASSUME NEW u \in T
       PROVE  /\ m[u].parent \in T \cup {h} /\ w[f[u]].parent = f[m[u].parent]
              /\ m[m[u].parent].child[SideOf(m, u)] = u /\ SideOf(w, f[u]) = SideOf(m, u)
              /\ w[w[f[u]].parent].child[SideOf(w, f[u])] = f[u]
              /\ m[u].item \in Entries
  <2>1. PICK p : p = m[u].parent
    OBVIOUS
  <2>2. /\ p \in T \cup {h} /\ m[p].child[SideOf(m, u)] = u /\ m[u].item \in Entries
        /\ SideOf(m, u) \in Sides
    BY <2>1, <1>1, <1>3, <1>4, Basics DEF Linked, SideOf
  <2>3. w[f[u]].parent = f[p]
    <3>1. w[f[u]].parent = To(f, p)
      BY <2>1, <1>5
    <3> QED BY <3>1, <2>2, <1>3 DEF To
  <2>4. \A s \in Sides : w[f[p]].child[s] = To(f, m[p].child[s]) /\ m[p].child[s] \in T \cup {None}
    BY <2>2, <1>5, <1>8
  <2>5. f[u] = To(f, u)
    BY <1>3 DEF To
  <2>6. \A s \in Sides : w[f[p]].child[s] = f[u] <=> m[p].child[s] = u
    BY <2>4, <2>5, <1>10
  <2>7. SideOf(w, f[u]) = SideOf(m, u)
    BY <2>1, <2>3, <2>6, Basics DEF SideOf
  <2> QED BY <2>1, <2>2, <2>3, <2>6, <2>7
<1>15. Linked(w, b)
  <2>1. ASSUME NEW x \in Names, NEW s \in Sides, w[x].child[s] # None
        PROVE  w[w[x].child[s]].parent = x
    <3>1. CASE x \notin C
      <4>1. PICK c : c = m[x].child[s]
        OBVIOUS
      <4>2. c = w[x].child[s] /\ c \notin C /\ c \in Names
        BY <2>1, <3>1, <4>1, <1>1, <1>6 DEF Heaps, Nodes
      <4>3. w[c] = m[c] /\ m[c].parent = x
        <5>1. w[c] = m[c]
          BY <4>2, <1>6
        <5>2. c # None
          BY <4>2, Basics
        <5> QED BY <4>1, <5>1, <5>2, <1>1 DEF Linked
      <4> QED BY <4>2, <4>3
    <3>2. ASSUME NEW u \in T, x = f[u] PROVE w[w[x].child[s]].parent = x
      <4>1. PICK c : c = m[u].child[s]
        OBVIOUS
      <4>2. c \in T /\ w[x].child[s] = f[c]
        <5>1. w[x].child[s] = To(f, c) /\ c \in T \cup {None}
          BY <3>2, <4>1, <1>4, <1>5
        <5> QED BY <5>1, <2>1 DEF To
      <4>3. m[c].parent = u
        BY <4>1, <4>2, <1>1, <1>3 DEF Linked
      <4> QED BY <4>2, <4>3, <1>14, <3>2
    <3> QED BY <3>1, <3>2, <1>11
  <2>2. ASSUME NEW k \in Handles
        PROVE  /\ w[k].child["right"] = None
               /\ LET r == w[k].child["left"] IN r # None => w[r].parent = k
    <3>1. CASE k \notin C
      <4>1. PICK c : c = m[k].child["left"]
        OBVIOUS
      <4>2. w[k] = m[k] /\ c \notin C /\ c \in Names \cup {None}
        BY <3>1, <4>1, <1>1, <1>6, Basics DEF Heaps, Nodes
      <4>3. c \in Names => w[c] = m[c]
        BY <4>2, <1>6
      <4> QED BY <4>1, <4>2, <4>3, <1>1 DEF Linked
    <3>2. CASE k \in C
      <4>1. k = f[h]
        BY <3>2, <1>2, <1>3, Basics
      <4>2. PICK r : r = m[h].child["left"]
        OBVIOUS
      <4>3. r \in T /\ w[k].child["left"] = f[r] /\ w[k].child["right"] = None
        <5>1. w[k].child["left"] = To(f, r) /\ w[k].child["right"] = To(f, None)
          BY <4>1, <4>2, <1>5, <1>7, Basics
        <5> QED BY <5>1, <4>2, <1>3, <1>7 DEF To
      <4>4. m[r].parent = h
        BY <4>2, <4>3, <1>1, <1>3 DEF Linked
      <4> QED BY <4>1, <4>3, <4>4, <1>14
    <3> QED BY <3>1, <3>2
  <2>3. ASSUME NEW x \in Names
        PROVE  \/ w[x] = Absent
               \/ /\ x <= b /\ w[x].parent # None /\ w[x].item \in Entries
                  /\ w[w[x].parent].child[SideOf(w, x)] = x
    <3>1. CASE x \notin C
      <4>1. w[x] = m[x]
        BY <3>1, <1>6
      <4>2. CASE m[x] = Absent
        BY <4>1, <4>2
      <4>3. CASE m[x] # Absent
        <5>1. PICK p : p = m[x].parent
          OBVIOUS
        <5>2. /\ x <= a /\ p # None /\ m[x].item \in Entries
              /\ m[p].child[SideOf(m, x)] = x
          BY <5>1, <4>3, <1>1 DEF Linked
        <5>3. p \in Handles \cup Names
          BY <5>1, <5>2, <1>1 DEF Heaps, Nodes
        <5>4. p \notin C
          <6>1. SideOf(m, x) \in Sides /\ x # None
            BY Basics DEF SideOf
          <6>2. \A y \in C, s \in Sides : m[y].child[s] = None
            BY <1>2 DEF Copying
          <6> QED BY <5>2, <6>1, <6>2
        <5>5. w[p] = m[p]
          BY <5>3, <5>4, <1>6
        <5>6. SideOf(w, x) = SideOf(m, x)
          BY <4>1, <5>1, <5>5 DEF SideOf
        <5>7. x <= b
          BY <5>2, Basics
        <5> QED BY <4>1, <5>1, <5>2, <5>5, <5>6, <5>7
      <4> QED BY <4>2, <4>3
    <3>2. ASSUME NEW u \in T, x = f[u]
          PROVE  /\ x <= b /\ w[x].parent # None /\ w[x].item \in Entries
                 /\ w[w[x].parent].child[SideOf(w, x)] = x
      <4>1. /\ m[u].parent \in T \cup {h} /\ w[x].parent = f[m[u].parent]
            /\ w[w[x].parent].child[SideOf(w, x)] = x /\ m[u].item \in Entries
        BY <3>2, <1>14
      <4>2. w[x].item = m[u].item /\ x <= b
        BY <3>2, <1>3, <1>5
      <4> QED BY <4>1, <4>2, <1>3
    <3> QED BY <3>1, <3>2, <1>11
  <2> QED BY <2>1, <2>2, <2>3, <1>1 DEF Linked
<1>16. \A k \in Handles : /\ k # g => k \notin C
                          /\ k # g => A[w[k].child["left"]] = B[m[k].child["left"]]
                                      /\ B[m[k].child["left"]] \cap C = {}
  <2> TAKE k \in Handles
  <2>1. k # g => k \notin C
    BY <1>2, <1>3, Basics
  <2> QED BY <2>1, <1>6, Basics
<1>17. A[w[g].child["left"]] \subseteq C
  <2>1. w[g].child["left"] = To(f, m[h].child["left"])
    BY <1>3, <1>5, Basics
  <2>2. w[g].child["left"] = f[m[h].child["left"]]
    BY <2>1, <1>3, <1>7 DEF To
  <2>3. A[w[g].child["left"]] = {f[v] : v \in T}
    BY <2>2, <1>4, <1>7
  <2> QED BY <2>3, <1>2
<1>18. Apart(w, A)
  <2> SUFFICES ASSUME NEW k \in Handles, NEW j \in Handles, k # j
               PROVE  A[w[k].child["left"]] \cap A[w[j].child["left"]] = {}
    BY DEF Apart
  <2>1. CASE k # g /\ j # g
    <3>1. B[m[k].child["left"]] \cap B[m[j].child["left"]] = {}
      BY <1>1 DEF Apart
    <3> QED BY <2>1, <3>1, <1>16
  <2>2. CASE k = g \/ j = g
    BY <2>2, <1>16, <1>17
  <2> QED BY <2>1, <2>2
<1> QED BY <1>12, <1>13, <1>14, <1>15, <1>18 DEF Forest

\* The copy has the order, the ends and the depths of its source.
LEMMA CopiedRest ==
  ASSUME NEW m, NEW B, NEW a \in Nat, Forest(m, B, a), NEW L, Rooted(m, L), Ordered(m, B),
         KnowsEnds(m, B, {}, 0), MeasuredBut(m, {}), \A k \in Names : Level(m, k),
         NEW h \in L, NEW T, NEW g,
         NEW f, NEW b \in Nat, Named(T, h, g, f, a, b), NEW w, Cloned(m, w, T, h, f),
         NEW A, Copying(m, B, w, A, T, h, f), Forest(w, A, b)
  PROVE  /\ Rooted(w, L \cup {g}) /\ Ordered(w, A) /\ KnowsEnds(w, A, {}, 0)
         /\ MeasuredBut(w, {}) /\ \A k \in Names : Level(w, k)
         /\ Forked(m, B, w, A, h, g, f)
<1>1. /\ Partition(m, B) /\ Closed(m, B) /\ Linked(m, a) /\ m \in Heaps
      /\ Partition(w, A) /\ w \in Heaps
  BY DEF Forest, Linked
<1>2. PICK C : C = Copies(T, h, f) /\ C = {f[u] : u \in T \cup {h}}
  BY DEF Copies
<1>3. /\ T \subseteq Names /\ f[h] = g /\ g \in Handles /\ h \in Handles /\ g # h
      /\ \A x \in T : f[x] \in Names
      /\ None \notin T \cup {h}
      /\ h \notin Names /\ g \notin Names
  BY Basics DEF Named
<1>4. ASSUME NEW x \in T
      PROVE  /\ B[x] \in SUBSET T /\ m[x] # Absent
             /\ A[f[x]] = {f[v] : v \in B[x]}
             /\ \A s \in Sides : /\ m[x].child[s] \in T \cup {None}
                                 /\ A[To(f, m[x].child[s])] = {f[v] : v \in B[m[x].child[s]]}
  BY DEF Copying, Inside
<1>5. \A x \in T \cup {h} :
        /\ w[f[x]].item = m[x].item /\ w[f[x]].max = m[x].max /\ w[f[x]].depth = m[x].depth
        /\ w[f[x]].parent = To(f, m[x].parent)
        /\ \A s \in Sides : w[f[x]].child[s] = To(f, m[x].child[s])
  BY DEF Cloned
<1>6. ASSUME NEW y \in Handles \cup Names, y \notin C
      PROVE  /\ w[y] = m[y]
             /\ \A s \in Sides : /\ m[y].child[s] \notin C /\ B[m[y].child[s]] \cap C = {}
                                 /\ A[m[y].child[s]] = B[m[y].child[s]]
             /\ y \in Names => A[y] = B[y] /\ B[y] \cap C = {}
  BY <1>2, <1>6 DEF Copying, Old
<1>7. /\ m[h].parent = None /\ m[h].child["left"] \in T /\ B[m[h].child["left"]] = T
  BY DEF Copying
<1>8. \A x \in Names : x \notin C \/ \E u \in T : x = f[u]
  BY <1>2, <1>3
<1>9. \A k \in Handles : k # g => k \notin C
  BY <1>2, <1>3, Basics
<1>10. \A k \in Names, s \in Sides : m[k].child[s] \in Names \cup {None} /\ w[k].child[s] \in Names \cup {None}
  BY <1>1 DEF Heaps, Nodes
<1>11. \A k \in Names \cup {None} : B[k] \in SUBSET Names
  BY <1>1, Basics DEF Partition
<1>12. Rooted(w, L \cup {g})
  <2> SUFFICES ASSUME NEW k \in Handles
               PROVE  w[k].parent = None /\ (k \notin L \cup {g} => RootOf(w, k) = None)
    BY DEF Rooted
  <2>1. CASE k = g
    BY <2>1, <1>3, <1>5, <1>7 DEF To
  <2>2. CASE k # g
    <3>1. w[k] = m[k]
      BY <2>2, <1>6, <1>9
    <3> QED BY <2>2, <3>1 DEF Rooted, RootOf
  <2> QED BY <2>1, <2>2
<1>13. Ordered(w, A)
  <2> SUFFICES ASSUME NEW x \in Names, w[x] # Absent, NEW s \in Sides, NEW y \in A[w[x].child[s]]
               PROVE  Beside(w[y].item[1], s, w[x].item[1])
    BY DEF Ordered
  <2>1. CASE x \notin C
    <3>1. PICK c : c = m[x].child[s]
      OBVIOUS
    <3>2. w[x] = m[x] /\ A[c] = B[c] /\ B[c] \cap C = {}
      BY <2>1, <3>1, <1>6
    <3>3. y \in B[c] /\ y \in Names
      BY <3>1, <3>2, <1>10, <1>11
    <3>4. w[y] = m[y]
      BY <3>2, <3>3, <1>6
    <3>5. Beside(m[y].item[1], s, m[x].item[1])
      BY <3>1, <3>2, <3>3 DEF Ordered
    <3> QED BY <3>2, <3>4, <3>5
  <2>2. ASSUME NEW u \in T, x = f[u] PROVE Beside(w[y].item[1], s, w[x].item[1])
    <3>1. PICK c : c = m[u].child[s] /\ c \in T \cup {None}
      BY <1>4
    <3>2. A[w[x].child[s]] = {f[v] : v \in B[c]}
      <4>1. w[x].child[s] = To(f, c)
        BY <2>2, <3>1, <1>5
      <4> QED BY <4>1, <3>1, <1>4
    <3>3. PICK v \in B[c] : y = f[v]
      BY <3>2
    <3>4. v \in T
      <4>1. c # None
        BY <3>3, <1>1 DEF Partition
      <4> QED BY <3>1, <3>3, <4>1, <1>4
    <3>5. Beside(m[v].item[1], s, m[u].item[1])
      BY <3>1, <3>3, <1>3, <1>4 DEF Ordered
    <3> QED BY <2>2, <3>3, <3>4, <3>5, <1>5
  <2> QED BY <2>1, <2>2, <1>8
<1>14. KnowsEnds(w, A, {}, 0)
  <2> SUFFICES ASSUME NEW x \in Names, w[x] # Absent PROVE Knows(w, A, {}, 0, x)
    BY DEF KnowsEnds
  <2>1. CASE x \notin C
    <3>1. w[x] = m[x] /\ A[x] = B[x] /\ B[x] \cap C = {}
      BY <2>1, <1>6
    <3>2. \A y \in B[x] : w[y] = m[y]
      BY <3>1, <1>6, <1>11
    <3>3. Knows(m, B, {}, 0, x)
      BY <3>1 DEF KnowsEnds
    <3> QED BY <3>1, <3>2, <3>3 DEF Knows
  <2>2. ASSUME NEW u \in T, x = f[u] PROVE Knows(w, A, {}, 0, x)
    <3>1. A[x] = {f[v] : v \in B[u]} /\ B[u] \subseteq T
      BY <2>2, <1>4
    <3>2. w[x].max = m[u].max /\ \A v \in B[u] : w[f[v]].item = m[v].item
      BY <2>2, <3>1, <1>5
    <3>3. Knows(m, B, {}, 0, u)
      BY <1>3, <1>4 DEF KnowsEnds
    <3>4. \A y \in A[x] : w[y].item[2] <= w[x].max
      <4> SUFFICES ASSUME NEW v \in B[u] PROVE w[f[v]].item[2] <= w[x].max
        BY <3>1
      <4> QED BY <3>2, <3>3 DEF Knows
    <3>5. \E y \in A[x] : w[y].item[2] = w[x].max
      <4>1. PICK v \in B[u] : m[v].item[2] = m[u].max
        BY <3>3 DEF Knows
      <4>2. f[v] \in A[x]
        BY <3>1
      <4> QED BY <3>2, <4>1, <4>2
    <3> QED BY <3>4, <3>5 DEF Knows
  <2> QED BY <2>1, <2>2, <1>8
<1>15. \A u \in T : Height(w, f[u]) = Height(m, u)
  <2> SUFFICES ASSUME NEW u \in T PROVE Height(w, f[u]) = Height(m, u)
    OBVIOUS
  <2>1. w[f[u]].depth = m[u].depth
    BY <1>5
  <2> QED BY <2>1 DEF Height
<1>16. ASSUME NEW x \in Names, NEW s \in Sides PROVE Measured(w, x, s)
  <2>1. CASE x \notin C
    <3>1. PICK c : c = m[x].child[s] /\ c \in Names \cup {None}
      BY <1>10
    <3>2. w[x] = m[x] /\ c \notin C
      BY <2>1, <3>1, <1>6
    <3>3. c # None => Height(w, c) = Height(m, c)
      <4>1. c # None => w[c] = m[c]
        BY <3>1, <3>2, <1>6
      <4> QED BY <4>1 DEF Height
    <3>4. Measured(m, x, s)
      BY DEF MeasuredBut
    <3> QED BY <3>1, <3>2, <3>3, <3>4 DEF Measured
  <2>2. ASSUME NEW u \in T, x = f[u] PROVE Measured(w, x, s)
    <3>1. PICK c : c = m[u].child[s] /\ c \in T \cup {None}
      BY <1>4
    <3>2. w[x].child[s] = To(f, c) /\ w[x].depth[s] = m[u].depth[s]
      BY <2>2, <3>1, <1>5
    <3>3. Measured(m, u, s)
      BY <1>3 DEF MeasuredBut
    <3>4. CASE c = None
      BY <3>1, <3>2, <3>3, <3>4 DEF Measured, To
    <3>5. CASE c \in T
      <4>1. To(f, c) = f[c] /\ f[c] # None /\ c # None
        BY <3>5, <1>3, Basics DEF To
      <4> QED BY <3>1, <3>2, <3>3, <3>5, <4>1, <1>15 DEF Measured
    <3> QED BY <3>1, <3>4, <3>5
  <2> QED BY <2>1, <2>2, <1>8
<1>17. ASSUME NEW x \in Names PROVE Level(w, x)
  <2>1. CASE x \notin C
    <3>1. w[x] = m[x] /\ Level(m, x)
      BY <2>1, <1>6
    <3> QED BY <3>1 DEF Level
  <2>2. ASSUME NEW u \in T, x = f[u] PROVE Level(w, x)
    <3>1. w[x].depth = m[u].depth /\ Level(m, u)
      BY <2>2, <1>3, <1>5
    <3> QED BY <3>1 DEF Level
  <2> QED BY <2>1, <2>2, <1>8
<1>18. Forked(m, B, w, A, h, g, f)
  <2>1. A[RootOf(w, g)] = {f[u] : u \in B[RootOf(m, h)]}
    <3>1. RootOf(w, g) = To(f, RootOf(m, h))
      BY <1>3, <1>5, Basics DEF RootOf
    <3>2. RootOf(w, g) = f[RootOf(m, h)]
      BY <3>1, <1>3, <1>7 DEF To, RootOf
    <3> QED BY <3>2, <1>4, <1>7 DEF RootOf
  <2>2. \A u \in B[RootOf(m, h)] : w[f[u]].item = m[u].item
    BY <1>5, <1>7 DEF RootOf
  <2>3. ASSUME NEW k \in Handles, k # g
        PROVE  A[RootOf(w, k)] = B[RootOf(m, k)] /\ \A x \in B[RootOf(m, k)] : w[x].item = m[x].item
    <3>1. PICK r : r = RootOf(m, k) /\ r = m[k].child["left"]
      BY DEF RootOf
    <3>2. w[k] = m[k] /\ A[r] = B[r] /\ B[r] \cap C = {}
      BY <2>3, <3>1, <1>6, <1>9, Basics
    <3>3. r \in Names \cup {None}
      BY <3>1, <1>1, Basics DEF Heaps, Nodes
    <3>4. \A x \in B[r] : w[x] = m[x]
      BY <3>2, <3>3, <1>6, <1>11
    <3> QED BY <3>1, <3>2, <3>4 DEF RootOf
  <2> QED BY <2>1, <2>2, <2>3 DEF Forked
<1> QED BY <1>12, <1>13, <1>14, <1>16, <1>17, <1>18 DEF MeasuredBut

\* The names of the clones are different ones, and free.
LEMMA Numbered ==
  ASSUME NEW T \in SUBSET Names, NEW a \in Nat, NEW h \in Handles, NEW g \in Handles, g # h,
         NEW f, f = [x \in T \cup {h} |-> IF x = h THEN g ELSE a + Cardinality({y \in T : y <= x})],
         NEW b, b = a + Cardinality(T), b <= MaxNodes
  PROVE  Named(T, h, g, f, a, b) /\ b \in 0 .. MaxNodes /\ a <= b
<1> DEFINE Upto(x) == {y \in T : y <= x}
<1>1. Cardinality(T) \in Nat /\ Cardinality({}) \in Nat
  BY FewerNames
<1>2. b \in 0 .. MaxNodes /\ a <= b /\ b \in Nat /\ h \notin T /\ g \notin Names /\ T \subseteq Nat
  <2>1. b \in 0 .. MaxNodes /\ a <= b /\ b \in Nat
    BY <1>1, BoundAssumption
  <2>2. h \notin T /\ g \notin Names /\ T \subseteq Nat
    BY Basics
  <2> QED BY <2>1, <2>2
<1>3. ASSUME NEW x \in T
      PROVE  Cardinality(Upto(x)) \in Nat /\ 0 < Cardinality(Upto(x))
             /\ Cardinality(Upto(x)) <= Cardinality(T)
  <2>1. Upto(x) \in SUBSET Names /\ x \in Upto(x) /\ Upto(x) \in SUBSET T
    <3>1. x \in Nat
      BY <1>2
    <3>2. x <= x
      BY <3>1
    <3>3. Upto(x) \subseteq T
      OBVIOUS
    <3> QED BY <3>2, <3>3
  <2>2. Cardinality(Upto(x)) \in Nat
    BY <2>1, FewerNames
  <2>3. Cardinality({}) < Cardinality(Upto(x))
    <3>1. {} \in SUBSET Upto(x) /\ {} # Upto(x)
      BY <2>1
    <3> HIDE DEF Upto
    <3> QED BY <2>1, <3>1, FewerNames
  <2>4. Upto(x) = T \/ Cardinality(Upto(x)) < Cardinality(T)
    BY <2>1, FewerNames
  <2> QED BY <2>2, <2>3, <2>4, <1>1
<1>4. ASSUME NEW x \in T, NEW y \in T, x < y PROVE Cardinality(Upto(x)) < Cardinality(Upto(y))
  <2>1. x \in Nat /\ y \in Nat /\ \A z \in T : z \in Nat
    BY <1>2
  <2>2. Upto(x) \in SUBSET Upto(y) /\ y \in Upto(y) /\ y \notin Upto(x) /\ Upto(y) \in SUBSET Names
    <3>1. y <= y /\ ~(y <= x)
      BY <2>1, <1>4
    <3>2. \A z \in T : z <= x => z <= y
      BY <2>1, <1>4
    <3> QED BY <3>1, <3>2
  <2> HIDE DEF Upto
  <2> QED BY <2>2, FewerNames
<1>5. f[h] = g /\ \A x \in T : f[x] = a + Cardinality(Upto(x))
  BY <1>2
<1> HIDE DEF Upto
<1>6. \A x \in T : f[x] \in Nat /\ a < f[x] /\ f[x] <= b
  BY <1>1, <1>3, <1>5
<1>7. \A x \in T : f[x] \in Names
  BY <1>2, <1>6, Basics
<1>8. ASSUME NEW x \in T, NEW y \in T, f[x] = f[y] PROVE x = y
  <2>1. Cardinality(Upto(x)) = Cardinality(Upto(y))
    BY <1>3, <1>5, <1>8
  <2>2. ~(x < y) /\ ~(y < x)
    BY <2>1, <1>3, <1>4
  <2> QED BY <2>2, <1>2
<1>9. \A x, y \in T \cup {h} : f[x] = f[y] => x = y
  BY <1>2, <1>5, <1>7, <1>8
<1> QED BY <1>2, <1>5, <1>6, <1>7, <1>9 DEF Named

\* Clone, field by field.
LEMMA CloneIs ==
  ASSUME node \in Heaps, NEW x \in Handles \cup Names, NEW f
  PROVE  LET v == Clone(f, x)
             u == node[x]
         IN  /\ v.item = u.item /\ v.max = u.max /\ v.depth = u.depth
             /\ v.parent = To(f, u.parent)
             /\ v.child = [s \in Sides |-> To(f, u.child[s])]
             /\ DOMAIN v = DOMAIN u /\ v = [k \in DOMAIN v |-> v[k]]
             /\ DOMAIN u = {"item", "max", "parent", "child", "depth"}
<1>1. node[x] \in Nodes
  BY DEF Heaps
<1>2. DOMAIN node[x] = {"item", "max", "parent", "child", "depth"}
  BY <1>1 DEF Nodes
<1> QED BY <1>1, <1>2 DEF Clone, To

\* A clone is a node.
LEMMA CloneIsNode ==
  ASSUME node \in Heaps, NEW T, NEW h, NEW g, NEW a, NEW b, NEW f, Named(T, h, g, f, a, b),
         NEW x \in T \cup {h}, node[x].parent \in T \cup {h, None},
         \A s \in Sides : node[x].child[s] \in T \cup {None}
  PROVE  Clone(f, x) \in Nodes
<1>1. x \in Handles \cup Names
  BY DEF Named
<1>2. node[x] \in Nodes
  BY <1>1 DEF Heaps
<1>3. /\ \A y \in T \cup {h, None} : To(f, y) \in Handles \cup Names \cup {None}
      /\ \A y \in T \cup {None} : To(f, y) \in Names \cup {None}
  BY DEF Named, To
<1>4. PICK v : v = Clone(f, x)
  OBVIOUS
<1>5. /\ v.item = node[x].item /\ v.max = node[x].max /\ v.depth = node[x].depth
      /\ v.parent = To(f, node[x].parent)
      /\ v.child = [s \in Sides |-> To(f, node[x].child[s])]
      /\ DOMAIN v = {"item", "max", "parent", "child", "depth"}
      /\ v = [k \in DOMAIN v |-> v[k]]
  BY <1>1, <1>4, CloneIs
<1>6. v.child \in [Sides -> Names \cup {None}]
  BY <1>3, <1>5
<1>7. /\ v.item \in Entries \cup {<<>>} /\ v.max \in Nat /\ v.depth \in [Sides -> Nat]
      /\ v.parent \in Handles \cup Names \cup {None}
  BY <1>2, <1>3, <1>5 DEF Nodes
<1>8. v = [item |-> v.item, max |-> v.max, parent |-> v.parent, child |-> v.child, depth |-> v.depth]
  BY <1>5
<1> QED BY <1>4, <1>6, <1>7, <1>8 DEF Nodes

\* Copy makes a tree of clones.
LEMMA CopyClones ==
  ASSUME NEW B, Inv(live, node, count, made, call, B), NEW h \in Handles, NEW g \in Handles,
         Copy(h, g)
  PROVE  LET T == B[RootOf(node, h)]
             f == CloneNames(h, g)
         IN  /\ h \in live /\ g \notin live /\ T # {} /\ call = Idle
             /\ T \in SUBSET Names
             /\ Named(T, h, g, f, made, made') /\ made' \in 0 .. MaxNodes /\ made <= made'
             /\ Cloned(node, node', T, h, f)
<1>1. call = Idle /\ h \in live /\ g \in Handles \ live
  BY DEF Copy
<1>2. /\ Grove(live, node, count, made, B) /\ Forest(node, B, made) /\ Rooted(node, live)
      /\ Partition(node, B) /\ Closed(node, B) /\ Linked(node, made) /\ node \in Heaps /\ made \in Nat
  BY Basics DEF Inv, Grove, Forest, Linked
<1>3. PICK T, f, b : T = B[RootOf(node, h)] /\ f = CloneNames(h, g) /\ b = made'
  OBVIOUS
<1>4. NodesOf(h) = T
  <2>1. RootOf(node, h) \in Names \cup {None}
    BY <1>2, Basics DEF RootOf, Heaps, Nodes
  <2>2. CASE RootOf(node, h) = None
    BY <2>2, <1>2, <1>3 DEF NodesOf, Below, RootOf, Partition
  <2>3. CASE RootOf(node, h) \in Names
    BY <2>3, <1>2, <1>3, SubtreesAre DEF NodesOf, RootOf
  <2> QED BY <2>1, <2>2, <2>3
<1>5. /\ T # {} /\ made + Cardinality(T) <= MaxNodes /\ b = made + Cardinality(T)
      /\ node' = [y \in DOMAIN node |->
           IF {x \in DOMAIN f : f[x] = y} = {} THEN node[y]
           ELSE Clone(f, CHOOSE x \in {x \in DOMAIN f : f[x] = y} : TRUE)]
  BY <1>3, <1>4 DEF Copy
<1>6. T \in SUBSET Names
  <2>1. \A x \in T : x \in Names
    BY <1>2, <1>3, TreeNodes
  <2> QED BY <2>1
<1>7. f = [x \in T \cup {h} |-> IF x = h THEN g ELSE made + Cardinality({y \in T : y <= x})]
  BY <1>3, <1>4 DEF CloneNames
<1>8. g # h
  BY <1>1
<1>9. Named(T, h, g, f, made, b) /\ b \in 0 .. MaxNodes /\ made <= b
  BY <1>2, <1>5, <1>6, <1>7, <1>8, Numbered
<1>10. DOMAIN f = T \cup {h} /\ DOMAIN node = Handles \cup Names
  BY <1>2, <1>7 DEF Heaps
<1>11. ASSUME NEW x \in T \cup {h}
       PROVE  /\ f[x] \in Handles \cup Names /\ node'[f[x]] = Clone(f, x)
              /\ x \in Handles \cup Names
              /\ Clone(f, x) \in Nodes
  <2>1. f[x] \in Handles \cup Names /\ {z \in T \cup {h} : f[z] = f[x]} = {x} /\ x \in Handles \cup Names
    BY <1>9 DEF Named
  <2>2. (CHOOSE z \in {x} : TRUE) = x
    OBVIOUS
  <2>3. node'[f[x]] = Clone(f, x)
    BY <2>1, <2>2, <1>5, <1>10
  <2>4. node[x].parent \in T \cup {h, None} /\ \A s \in Sides : node[x].child[s] \in T \cup {None}
    <3>1. CASE x = h
      <4>1. node[x].parent = None
        BY <3>1, <1>2 DEF Rooted
      <4>2. RootOf(node, h) \in T
        <5>1. PICK y : y \in B[RootOf(node, h)]
          BY <1>3, <1>5
        <5> QED BY <5>1, <1>2, <1>3, TreeNodes
      <4>3. node[h].child["right"] = None
        BY <1>2 DEF Linked
      <4> QED BY <3>1, <4>1, <4>2, <4>3, Basics DEF RootOf
    <3>2. CASE x \in T
      <4>1. x \in Names /\ B[x] \subseteq T /\ node[x].parent \in T \cup {h}
        BY <3>2, <1>2, <1>3, TreeNodes
      <4>2. \A s \in Sides : node[x].child[s] \in Names \cup {None} /\ B[node[x].child[s]] \subseteq B[x]
        <5>1. \A s \in Sides : node[x].child[s] \in Names \cup {None}
          BY <4>1, <1>2 DEF Heaps, Nodes
        <5>2. \A s \in Sides : B[node[x].child[s]] \subseteq B[x]
          BY <4>1, <1>2, Basics DEF Partition
        <5> QED BY <5>1, <5>2
      <4>3. \A y \in Names : y \in B[y]
        BY <1>2 DEF Partition
      <4> QED BY <4>1, <4>2, <4>3
    <3> QED BY <3>1, <3>2
  <2>5. Clone(f, x) \in Nodes
    BY <2>4, <1>2, <1>9, CloneIsNode
  <2> QED BY <2>1, <2>3, <2>5
<1>12. ASSUME NEW y \in Handles \cup Names, y \notin Copies(T, h, f) PROVE node'[y] = node[y]
  <2>1. {x \in DOMAIN f : f[x] = y} = {}
    BY <1>10, <1>12 DEF Copies
  <2> QED BY <2>1, <1>5, <1>10
<1>13. node' \in Heaps
  <2>1. \A y \in Handles \cup Names : node'[y] \in Nodes
    <3> SUFFICES ASSUME NEW y \in Handles \cup Names PROVE node'[y] \in Nodes
      OBVIOUS
    <3>1. CASE y \in Copies(T, h, f)
      <4>1. PICK x \in T \cup {h} : y = f[x]
        BY <3>1 DEF Copies
      <4> QED BY <4>1, <1>11
    <3>2. CASE y \notin Copies(T, h, f)
      BY <3>2, <1>2, <1>12 DEF Heaps
    <3> QED BY <3>1, <3>2
  <2>2. DOMAIN node' = Handles \cup Names /\ node' = [y \in DOMAIN node' |-> node'[y]]
    BY <1>5, <1>10
  <2> QED BY <2>1, <2>2 DEF Heaps
<1>14. ASSUME NEW x \in T \cup {h}
       PROVE  LET y == f[x]
              IN  /\ node'[y].item = node[x].item /\ node'[y].max = node[x].max
                  /\ node'[y].depth = node[x].depth
                  /\ node'[y].parent = To(f, node[x].parent)
                  /\ \A s \in Sides : node'[y].child[s] = To(f, node[x].child[s])
  <2>1. node'[f[x]] = Clone(f, x) /\ x \in Handles \cup Names
    BY <1>11
  <2>2. PICK v : v = Clone(f, x)
    OBVIOUS
  <2>3. /\ v.item = node[x].item /\ v.max = node[x].max /\ v.depth = node[x].depth
        /\ v.parent = To(f, node[x].parent)
        /\ v.child = [s \in Sides |-> To(f, node[x].child[s])]
    BY <2>1, <2>2, <1>2, CloneIs
  <2> QED BY <2>1, <2>2, <2>3
<1>15. Cloned(node, node', T, h, f)
  BY <1>12, <1>13, <1>14 DEF Cloned
<1> QED BY <1>1, <1>3, <1>5, <1>6, <1>9, <1>15

\* Copy keeps the invariant, and the copy has the items of its source.
LEMMA Forking ==
  ASSUME NEW B, Inv(live, node, count, made, call, B), NEW h \in Handles, NEW g \in Handles,
         Copy(h, g)
  PROVE  \E A : /\ Inv(live', node', count', made', call', A)
                /\ Forked(node, B, node', A, h, g, CloneNames(h, g))
<1>1. PICK T, f, b, w : T = B[RootOf(node, h)] /\ f = CloneNames(h, g) /\ b = made' /\ w = node'
  OBVIOUS
<1>2. /\ h \in live /\ g \notin live /\ T # {} /\ call = Idle /\ T \in SUBSET Names
      /\ Named(T, h, g, f, made, b) /\ b \in 0 .. MaxNodes /\ made <= b /\ b \in Nat
      /\ Cloned(node, w, T, h, f)
  <2>1. \A k \in 0 .. MaxNodes : k \in Nat
    OBVIOUS
  <2> QED BY <2>1, <1>1, CopyClones
<1>3. /\ live' = live \cup {g} /\ count' = [count EXCEPT ![g] = 0] /\ writer' = writer /\ call' = call
  BY DEF Copy
<1>4. Grove(live, node, count, made, B) /\ Resting(node, count, made, Idle, B)
  BY <1>2, CallIs DEF Inv, Sinking, Rising
<1>5. /\ Forest(node, B, made) /\ Rooted(node, live) /\ Ordered(node, B) /\ made \in Nat
      /\ KnowsEnds(node, B, {}, 0) /\ MeasuredBut(node, {}) /\ \A k \in Names : Level(node, k)
      /\ live \subseteq Handles /\ count \in [Handles -> Nat] /\ \A k \in Handles : count[k] <= made
  BY <1>4, Basics DEF Grove, Resting
<1>6. PICK A : A = CopyBelow(B, T, f)
  OBVIOUS
<1>7. Copying(node, B, w, A, T, h, f)
  BY <1>1, <1>2, <1>5, <1>6, CopyingIs
<1>8. Forest(w, A, b)
  BY <1>2, <1>5, <1>7, CopiedForest
<1>9. /\ Rooted(w, live \cup {g}) /\ Ordered(w, A) /\ KnowsEnds(w, A, {}, 0)
      /\ MeasuredBut(w, {}) /\ \A k \in Names : Level(w, k)
      /\ Forked(node, B, w, A, h, g, f)
  BY <1>2, <1>5, <1>7, <1>8, CopiedRest
<1>10. count' \in [Handles -> Nat] /\ \A k \in Handles : count'[k] <= b
  BY <1>2, <1>3, <1>5
<1>11. Grove(live', node', count', made', A)
  BY <1>1, <1>2, <1>3, <1>5, <1>8, <1>9, <1>10 DEF Grove
<1>12. Resting(node', count', made', call', A)
  BY <1>1, <1>2, <1>3, <1>9, <1>10 DEF Resting
<1> QED BY <1>1, <1>9, <1>11, <1>12 DEF Inv

\* Copy keeps the invariant.
LEMMA InvCopy == ASSUME IInv, NEW h \in Handles, NEW g \in Handles, Copy(h, g) PROVE IInv'
<1>1. PICK B : Inv(live, node, count, made, call, B)
  BY DEF IInv
<1>2. PICK A : Inv(live', node', count', made', call', A)
  BY <1>1, Forking
<1>3. writer' = writer
  BY DEF Copy
<1> QED BY <1>2, <1>3 DEF IInv

\* The invariant is kept by every step.
LEMMA IInvInductive == ASSUME IInv, [Next]_vars PROVE IInv'
<1>1. CASE UNCHANGED vars
  BY <1>1 DEF IInv, vars
<1>2. CASE Next
  BY <1>2, InvNew, InvAdd, InvDescend, InvAttach, InvRebalance, InvCopy DEF Next
<1> QED BY <1>1, <1>2

\* The invariant holds in every state.
LEMMA IInvHolds == Spec => []IInv
<1>1. IInv /\ [Next]_vars => IInv'
  BY IInvInductive
<1> QED BY <1>1, InvInit, PTL DEF Spec

-----------------------------------------------------------------------------
(* The shape and the balance. *)

\* The nodes of a tree.
LEMMA NodesAre ==
  ASSUME NEW B, Inv(live, node, count, made, call, B), NEW h \in Handles
  PROVE  /\ NodesOf(h) = B[RootOf(node, h)] /\ NodesOf(h) \subseteq Names
         /\ \A x \in NodesOf(h) : x \in Names /\ Below(node, x) = B[x] /\ B[x] \subseteq NodesOf(h)
<1>1. /\ Forest(node, B, made) /\ Partition(node, B) /\ Closed(node, B) /\ node \in Heaps
  BY DEF Inv, Grove, Forest, Linked
<1>2. NodesOf(h) = B[RootOf(node, h)]
  <2>1. RootOf(node, h) \in Names \cup {None}
    BY <1>1, Basics DEF RootOf, Heaps, Nodes
  <2>2. CASE RootOf(node, h) = None
    BY <2>2, <1>1 DEF NodesOf, Below, RootOf, Partition
  <2>3. CASE RootOf(node, h) \in Names
    BY <2>3, <1>1, SubtreesAre DEF NodesOf, RootOf
  <2> QED BY <2>1, <2>2, <2>3
<1>3. ASSUME NEW x \in NodesOf(h) PROVE x \in Names /\ B[x] \subseteq NodesOf(h)
  BY <1>1, <1>2, TreeNodes
<1>4. \A x \in NodesOf(h) : Below(node, x) = B[x]
  BY <1>1, <1>3, SubtreesAre
<1> QED BY <1>2, <1>3, <1>4

\* The known ends are those of the invariant.
LEMMA KnownEndsAre ==
  ASSUME NEW B, Inv(live, node, count, made, call, B), NEW h \in live, NEW x \in NodesOf(h)
  PROVE  node[x].max = Max(KnownEnds(x))
<1>1. /\ Forest(node, B, made) /\ Partition(node, B) /\ Linked(node, made) /\ node \in Heaps
      /\ h \in Handles
  BY DEF Inv, Grove, Forest, Linked
<1>2. x \in Names /\ Below(node, x) = B[x] /\ x \in B[RootOf(node, h)]
  BY <1>1, NodesAre
<1>3. node[x] # Absent
  BY <1>1, <1>2, TreeNodes
<1>4. \A y \in B[x] : y \in Names /\ node[y].item[2] \in Nat
  BY <1>1, <1>2, <1>3, BelowAreNodes
<1> DEFINE Ends == {node[y].item[2] : y \in B[x]}
<1>5. Ends \subseteq Nat
  BY <1>4
<1>6. node[x].max \in Nat
  BY <1>1, <1>2 DEF Heaps, Nodes
<1>7. CASE call.pc = "descend"
  <2>1. Sinking(live, node, count, made, call, B)
    BY <1>7, CallIs DEF Inv, Resting, Rising
  <2>2. PICK g, z, i : /\ i \in Entries
                       /\ call = Call("descend", g, z, i) /\ Going(node, B, made, z, i)
    BY <2>1 DEF Sinking
  <2>3. call.at = z /\ call.item = i /\ i[2] \in Nat
    BY <2>2, CallIs DEF Entries
  <2>4. KnowsEnds(node, B, Above(B, z), i[2])
    BY <2>2 DEF Going
  <2>5. Knows(node, B, Above(B, z), i[2], x)
    BY <2>4, <1>2, <1>3 DEF KnowsEnds
  <2>6. z \in B[x] \ {x} <=> x \in Above(B, z)
    BY <1>2 DEF Above
  <2>7. KnownEnds(x) = Ends \cup IF x \in Above(B, z) THEN {i[2]} ELSE {}
    BY <2>3, <2>6, <1>2, <1>7 DEF KnownEnds
  <2>8. /\ KnownEnds(x) \subseteq Nat /\ node[x].max \in KnownEnds(x)
        /\ \A e \in KnownEnds(x) : e <= node[x].max
    BY <2>3, <2>5, <2>7, <1>5 DEF Knows
  <2> QED BY <2>8, MaxIs
<1>8. CASE call.pc # "descend"
  <2>1. KnownEnds(x) = Ends
    BY <1>2, <1>8 DEF KnownEnds
  <2>2. KnowsEnds(node, B, {}, 0)
    BY <1>8, CallIs DEF Inv, Resting, Sinking, Rising
  <2>3. Knows(node, B, {}, 0, x)
    BY <2>2, <1>2, <1>3 DEF KnowsEnds
  <2>4. node[x].max \in Ends /\ \A e \in Ends : e <= node[x].max
    BY <2>3 DEF Knows
  <2> QED BY <2>1, <2>4, <1>5, MaxIs
<1> QED BY <1>7, <1>8

\* The heap keeps the shape the code gives it, with every add and copy.
THEOREM Typed == Spec => []TypeOK
<1>1. ASSUME IInv PROVE TypeOK
  <2>1. PICK B : Inv(live, node, count, made, call, B)
    BY <1>1 DEF IInv
  <2>2. /\ Forest(node, B, made) /\ Partition(node, B) /\ Linked(node, made) /\ Apart(node, B)
        /\ live \subseteq Handles /\ made \in 0 .. MaxNodes /\ writer \in Handles
        /\ count \in [Handles -> Nat]
    BY <1>1, <2>1 DEF IInv, Inv, Grove, Forest
  <2>3. \A h \in Handles : NodesOf(h) = B[RootOf(node, h)]
    BY <2>1, NodesAre
  <2>4. count \in [Handles -> 0 .. MaxNodes]
    <3> SUFFICES ASSUME NEW h \in Handles PROVE count[h] \in 0 .. MaxNodes
      BY <2>2
    <3>1. CASE Sinking(live, node, count, made, call, B)
      <4>1. made < MaxNodes
        BY <3>1 DEF Sinking, Going
      <4>2. count[h] <= made + 1
        BY <3>1, <2>2, BoundAssumption DEF Sinking
      <4>3. count[h] \in Nat
        BY <2>2
      <4> QED BY <4>1, <4>2, <4>3, <2>2, BoundAssumption
    <3>2. CASE ~Sinking(live, node, count, made, call, B)
      <4>1. count[h] <= made
        BY <3>2, <2>1 DEF Inv, Resting, Rising
      <4>2. count[h] \in Nat
        BY <2>2
      <4> QED BY <4>1, <4>2, <2>2, BoundAssumption
    <3> QED BY <3>1, <3>2
  <2>5. call # Idle => call.tree \in live /\ call.at \in NodesOf(call.tree)
    BY <2>1, <2>2, <2>3, CallIs DEF Inv, Resting, Sinking, Rising
  <2>6. \A g, h \in live : g # h => NodesOf(g) \cap NodesOf(h) = {}
    BY <2>2, <2>3 DEF Apart, RootOf
  <2>7. ASSUME NEW h \in live, NEW x \in NodesOf(h)
        PROVE  /\ node[node[x].parent].child[SideOf(node, x)] = x
               /\ node[x].parent \in NodesOf(h) \cup {h}
               /\ node[x].max = Max(KnownEnds(x))
    <3>1. h \in Handles /\ x \in B[RootOf(node, h)]
      BY <2>2, <2>3
    <3>2. x \in Names /\ node[x] # Absent /\ node[x].parent \in B[RootOf(node, h)] \cup {h}
      BY <3>1, <2>2, TreeNodes
    <3>3. node[node[x].parent].child[SideOf(node, x)] = x
      BY <3>2, <2>2 DEF Linked
    <3> QED BY <3>1, <3>2, <3>3, <2>1, <2>3, KnownEndsAre
  <2> QED BY <2>2, <2>4, <2>5, <2>6, <2>7 DEF TypeOK
<1> QED BY <1>1, IInvHolds, PTL

\* The trees are balanced whenever no add is under way, and know their depths.
THEOREM LevelTrees == Spec => []Balanced
<1>1. ASSUME IInv PROVE Balanced
  <2> SUFFICES ASSUME call = Idle, NEW h \in live, NEW x \in NodesOf(h), NEW s \in Sides
               PROVE  /\ node[x].depth[s] - node[x].depth[Other(s)] <= 1
                      /\ LET c == node[x].child[s]
                         IN  node[x].depth[s] = IF c = None THEN 0 ELSE Height(node, c)
    BY DEF Balanced
  <2>1. PICK B : Inv(live, node, count, made, call, B)
    BY <1>1 DEF IInv
  <2>2. h \in Handles
    BY <2>1 DEF Inv, Grove
  <2>3. x \in Names
    BY <2>1, <2>2, NodesAre
  <2>4. MeasuredBut(node, {}) /\ Level(node, x)
    BY <2>1, <2>3, CallIs DEF Inv, Grove, Resting, Sinking, Rising
  <2>5. Measured(node, x, s)
    BY <2>3, <2>4 DEF MeasuredBut
  <2> QED BY <2>4, <2>5 DEF Level, Measured
<1> QED BY <1>1, IInvHolds, PTL

-----------------------------------------------------------------------------
(* Searching. *)

\* A search for the items Q that goes from x to the nodes D[x] only.
Prunes(m, D, Q, f) ==
  f = [x \in Names |-> ({m[x].item} \cap Q) \cup UNION {f[c] : c \in D[x]}]

\* The items of Q at and below each node.
ItemsBelow(m, B, Q) == [x \in Names |-> {m[y].item : y \in B[x]} \cap Q]

\* If there is nothing to be found where it does not go, it finds what is there.
LEMMA PrunedSearch ==
  ASSUME NEW m \in Heaps, NEW B, Partition(m, B), Closed(m, B), NEW Q, NEW D,
         \A x \in Names : D[x] \subseteq ChildrenOf(m, x),
         \A x \in Names : \A c \in ChildrenOf(m, x) \ D[x] : \A y \in B[c] : m[y].item \notin Q
  PROVE  /\ Prunes(m, D, Q, ItemsBelow(m, B, Q))
         /\ \A f : Prunes(m, D, Q, f) => f = ItemsBelow(m, B, Q)
<1>1. PICK G : G = ItemsBelow(m, B, Q)
  OBVIOUS
<1>2. \A x \in Names : G[x] = {m[y].item : y \in B[x]} \cap Q
  BY <1>1 DEF ItemsBelow
<1>3. G = [x \in Names |-> G[x]]
  BY <1>1 DEF ItemsBelow
<1>4. ASSUME NEW x \in Names
      PROVE  /\ ChildrenOf(m, x) \subseteq Names
             /\ B[x] = {x} \cup UNION {B[c] : c \in ChildrenOf(m, x)}
             /\ \A c \in ChildrenOf(m, x) : c \in B[x] /\ x \notin B[c]
  <2>1. PICK l, r \in Names \cup {None} : l = m[x].child["left"] /\ r = m[x].child["right"]
    BY Basics DEF Heaps, Nodes
  <2>2. ChildrenOf(m, x) = {l, r} \ {None}
    BY <2>1, Basics DEF ChildrenOf
  <2>3. B[x] = {x} \cup B[l] \cup B[r] /\ x \notin B[l] /\ x \notin B[r] /\ B[None] = {}
        /\ \A y \in Names : y \in B[y]
    BY <2>1 DEF Partition
  <2>4. UNION {B[c] : c \in {l, r} \ {None}} = B[l] \cup B[r]
    BY <2>3
  <2> QED BY <2>2, <2>3, <2>4
<1>5. ASSUME NEW x \in Names
      PROVE  G[x] = ({m[x].item} \cap Q) \cup UNION {G[c] : c \in D[x]}
  <2>1. \A c \in ChildrenOf(m, x) : G[c] = {m[y].item : y \in B[c]} \cap Q
    BY <1>2, <1>4
  <2>2. \A c \in ChildrenOf(m, x) \ D[x] : G[c] = {}
    BY <2>1
  <2>3. G[x] \subseteq ({m[x].item} \cap Q) \cup UNION {G[c] : c \in D[x]}
    <3> SUFFICES ASSUME NEW i \in G[x], i \notin {m[x].item} \cap Q
                 PROVE  \E c \in D[x] : i \in G[c]
      OBVIOUS
    <3>1. PICK y \in B[x] : i = m[y].item /\ i \in Q
      BY <1>2
    <3>2. y # x
      BY <3>1
    <3>3. PICK c \in ChildrenOf(m, x) : y \in B[c]
      BY <3>2, <1>4
    <3>4. i \in G[c]
      BY <3>1, <3>3, <2>1
    <3> QED BY <3>3, <3>4, <2>2
  <2>4. ({m[x].item} \cap Q) \cup UNION {G[c] : c \in D[x]} \subseteq G[x]
    <3>1. {m[x].item} \cap Q \subseteq G[x]
      BY <1>2 DEF Partition
    <3>2. ASSUME NEW c \in D[x] PROVE G[c] \subseteq G[x]
      BY <2>1, <1>2, <1>4
    <3> QED BY <3>1, <3>2
  <2> QED BY <2>3, <2>4
<1>6. Prunes(m, D, Q, G)
  BY <1>3, <1>5 DEF Prunes
<1>7. ASSUME NEW f, Prunes(m, D, Q, f) PROVE f = G
  <2>1. \A x \in Names : f[x] = ({m[x].item} \cap Q) \cup UNION {f[c] : c \in D[x]}
    BY <1>7 DEF Prunes
  <2>2. f = [x \in Names |-> f[x]]
    BY <1>7 DEF Prunes
  <2> DEFINE S == {x \in Names : f[x] # G[x]}
  <2>3. CASE S = {}
    BY <2>2, <2>3, <1>3
  <2>4. CASE S # {}
    <3>1. PICK x \in S : \A z \in S : z \in B[x] => B[z] = B[x]
      BY <2>4, Lowest
    <3>2. ASSUME NEW c \in D[x] PROVE f[c] = G[c]
      <4>1. c \in Names /\ c \in B[x] /\ x \notin B[c]
        BY <1>4
      <4>2. x \in B[x]
        BY DEF Partition
      <4> QED BY <3>1, <4>1, <4>2
    <3>3. {f[c] : c \in D[x]} = {G[c] : c \in D[x]}
      BY <3>2
    <3> QED BY <3>1, <3>3, <2>1, <1>5
  <2> QED BY <2>3, <2>4
<1> QED BY <1>1, <1>6, <1>7

\* Where a search from x goes: to the children that reach b, and to the right
\* one only if x begins by e.
Entered(m, x, b, e) ==
  {c \in ChildrenOf(m, x) :
     m[c].max >= b /\ (c = m[x].child["right"] => m[x].item[1] <= e)}

\* Where it does not go is nothing that ends after b and begins before e.
LEMMA NotEntered ==
  ASSUME NEW m, NEW B, NEW n, Forest(m, B, n), Ordered(m, B), KnowsEnds(m, B, {}, 0),
         NEW b \in Nat, NEW e \in Nat,
         NEW x \in Names, NEW c \in ChildrenOf(m, x) \ Entered(m, x, b, e), NEW y \in B[c]
  PROVE  /\ m[y].item \in Entries
         /\ m[y].item[2] < b \/ e < m[y].item[1]
<1>1. Partition(m, B) /\ Linked(m, n) /\ m \in Heaps
  BY DEF Forest, Linked
<1>2. PICK s \in Sides : c = m[x].child[s] /\ c # None
  BY DEF ChildrenOf
<1>3. c \in Names
  BY <1>1, <1>2 DEF Heaps, Nodes
<1>4. m[c] # Absent /\ m[x] # Absent
  <2>1. m[c] # Absent
    BY <1>1, <1>2, <1>3, SideIs
  <2>2. m[x] # Absent
    BY <1>2, Basics DEF Absent, Node
  <2> QED BY <2>1, <2>2
<1>5. m[y].item \in Entries /\ m[y].item[1] \in Nat /\ m[y].item[2] \in Nat
  BY <1>3, <1>4, BelowAreNodes
<1>6. m[c].max \in Nat /\ m[x].item[1] \in Nat
  <2>1. m[x].item \in Entries
    BY <1>1, <1>4 DEF Linked
  <2> QED BY <2>1, <1>1, <1>3 DEF Heaps, Nodes, Entries
<1>7. CASE ~(m[c].max >= b)
  <2>1. m[y].item[2] <= m[c].max
    BY <1>3, <1>4 DEF KnowsEnds, Knows
  <2> QED BY <2>1, <1>5, <1>6, <1>7
<1>8. CASE c = m[x].child["right"] /\ ~(m[x].item[1] <= e)
  <2>1. Beside(m[y].item[1], "right", m[x].item[1])
    BY <1>4, <1>8, Basics DEF Ordered
  <2>2. m[x].item[1] <= m[y].item[1]
    BY <2>1 DEF Beside
  <2> QED BY <2>2, <1>5, <1>6, <1>8
<1> QED BY <1>7, <1>8 DEF Entered

\* What a search returns for the two sides of x.
Beneath(m, x, b, e, f) == UNION {f[c] : c \in Entered(m, x, b, e)}

BothSides(m, x, b, e, f) ==
  (IF m[x].child["left"] # None /\ m[m[x].child["left"]].max >= b
   THEN f[m[x].child["left"]] ELSE {})
  \cup (IF m[x].child["right"] # None /\ m[m[x].child["right"]].max >= b /\ m[x].item[1] <= e
        THEN f[m[x].child["right"]] ELSE {})

\* These two sides are what the search enters.
LEMMA EnteredIs ==
  ASSUME NEW m, NEW B, NEW n, Forest(m, B, n), NEW x \in Names, NEW b, NEW e, NEW f
  PROVE  Beneath(m, x, b, e, f) = BothSides(m, x, b, e, f)
<1>1. PICK l, r : l = m[x].child["left"] /\ r = m[x].child["right"]
  OBVIOUS
<1>2. ChildrenOf(m, x) = {l, r} \ {None}
  BY <1>1, Basics DEF ChildrenOf
<1>3. l # None => l # r
  <2>1. Partition(m, B) /\ Linked(m, n) /\ m \in Heaps
    BY DEF Forest, Linked
  <2>2. l \in Names \cup {None}
    BY <1>1, <2>1, Basics DEF Heaps, Nodes
  <2> QED BY <1>1, <2>1, <2>2 DEF Partition
<1>4. Entered(m, x, b, e) = {c \in {l, r} \ {None} : m[c].max >= b /\ (c = r => m[x].item[1] <= e)}
  BY <1>1, <1>2 DEF Entered
<1> DEFINE goL == l # None /\ m[l].max >= b
           goR == r # None /\ m[r].max >= b /\ m[x].item[1] <= e
<1>5. /\ \A c \in Entered(m, x, b, e) : (c = l /\ goL) \/ (c = r /\ goR)
      /\ goL => l \in Entered(m, x, b, e)
      /\ goR => r \in Entered(m, x, b, e)
  <2>1. ASSUME NEW c \in Entered(m, x, b, e) PROVE (c = l /\ goL) \/ (c = r /\ goR)
    BY <1>4
  <2>2. goL => l \in Entered(m, x, b, e)
    BY <1>3, <1>4
  <2>3. goR => r \in Entered(m, x, b, e)
    BY <1>4
  <2> QED BY <2>1, <2>2, <2>3
<1>6. UNION {f[c] : c \in Entered(m, x, b, e)}
        = (IF goL THEN f[l] ELSE {}) \cup (IF goR THEN f[r] ELSE {})
  <2>1. CASE goL /\ goR
    <3>1. Entered(m, x, b, e) = {l, r}
      BY <2>1, <1>5
    <3> QED BY <3>1, <2>1
  <2>2. CASE goL /\ ~goR
    <3>1. Entered(m, x, b, e) = {l}
      BY <2>2, <1>5
    <3> QED BY <3>1, <2>2
  <2>3. CASE ~goL /\ goR
    <3>1. Entered(m, x, b, e) = {r}
      BY <2>3, <1>5
    <3> QED BY <3>1, <2>3
  <2>4. CASE ~goL /\ ~goR
    <3>1. Entered(m, x, b, e) = {}
      BY <2>4, <1>5
    <3> QED BY <3>1, <2>4
  <2> QED BY <2>1, <2>2, <2>3, <2>4
<1> QED BY <1>1, <1>6 DEF Beneath, BothSides

\* What a search for a range, or for a point, is for.
Overlapping(b, e) == {i \in Entries \cup {<<>>} : Overlap(b, e, i)}
Containing(p) == {i \in Entries \cup {<<>>} : ContainsPoint(i, p)}

\* A heap with no add under way.
Settled(m, B, n) == Forest(m, B, n) /\ Ordered(m, B) /\ KnowsEnds(m, B, {}, 0)

\* A search for Q that goes where one from b to e does.
Asked(m, b, e, Q, f) ==
  f = [x \in Names |-> ({m[x].item} \cap Q) \cup Beneath(m, x, b, e, f)]

\* Such a search finds the items of Q below, if Q has none out of its range.
LEMMA NotSearched ==
  ASSUME NEW m, NEW B, NEW n, Settled(m, B, n), NEW b \in Nat, NEW e \in Nat, NEW Q,
         \A i \in Entries : i[2] < b \/ e < i[1] => i \notin Q,
         NEW f, Asked(m, b, e, Q, f)
  PROVE  f = ItemsBelow(m, B, Q)
<1>1. Forest(m, B, n) /\ Partition(m, B) /\ Closed(m, B) /\ m \in Heaps
  BY DEF Settled, Forest, Linked
<1>2. PICK D : D = [x \in Names |-> Entered(m, x, b, e)]
  OBVIOUS
<1>3. \A x \in Names : D[x] \subseteq ChildrenOf(m, x)
  BY <1>2 DEF Entered
<1>4. ASSUME NEW x \in Names, NEW c \in ChildrenOf(m, x) \ D[x], NEW y \in B[c]
      PROVE  m[y].item \notin Q
  <2>1. c \in ChildrenOf(m, x) \ Entered(m, x, b, e)
    BY <1>2
  <2>2. m[y].item \in Entries /\ (m[y].item[2] < b \/ e < m[y].item[1])
    BY <2>1, <1>1, NotEntered DEF Settled
  <2> QED BY <2>2
<1>5. Prunes(m, D, Q, f)
  <2>1. [x \in Names |-> ({m[x].item} \cap Q) \cup Beneath(m, x, b, e, f)]
          = [x \in Names |-> ({m[x].item} \cap Q) \cup UNION {f[c] : c \in D[x]}]
    BY <1>2 DEF Beneath
  <2> QED BY <2>1 DEF Prunes, Asked
<1> QED BY <1>1, <1>3, <1>4, <1>5, PrunedSearch

\* The items of Q below are what such a search computes.
LEMMA FindsAll ==
  ASSUME NEW m, NEW B, NEW n, Settled(m, B, n), NEW b \in Nat, NEW e \in Nat, NEW Q,
         \A i \in Entries : i[2] < b \/ e < i[1] => i \notin Q,
         NEW f, f = ItemsBelow(m, B, Q)
  PROVE  Asked(m, b, e, Q, f)
<1>1. Forest(m, B, n) /\ Partition(m, B) /\ Closed(m, B) /\ m \in Heaps
  BY DEF Settled, Forest, Linked
<1>2. PICK D : D = [x \in Names |-> Entered(m, x, b, e)]
  OBVIOUS
<1>3. \A x \in Names : D[x] \subseteq ChildrenOf(m, x)
  BY <1>2 DEF Entered
<1>4. ASSUME NEW x \in Names, NEW c \in ChildrenOf(m, x) \ D[x], NEW y \in B[c]
      PROVE  m[y].item \notin Q
  <2>1. c \in ChildrenOf(m, x) \ Entered(m, x, b, e)
    BY <1>2
  <2>2. m[y].item \in Entries /\ (m[y].item[2] < b \/ e < m[y].item[1])
    BY <2>1, <1>1, NotEntered DEF Settled
  <2> QED BY <2>2
<1>5. Prunes(m, D, Q, f)
  BY <1>1, <1>3, <1>4, PrunedSearch
<1>6. [x \in Names |-> ({m[x].item} \cap Q) \cup Beneath(m, x, b, e, f)]
        = [x \in Names |-> ({m[x].item} \cap Q) \cup UNION {f[c] : c \in D[x]}]
  BY <1>2 DEF Beneath
<1> QED BY <1>5, <1>6 DEF Prunes, Asked

\* Node.search finds what overlaps.
LEMMA FoundIs ==
  ASSUME NEW B, NEW n, Settled(node, B, n), NEW b \in Nat, NEW e \in Nat
  PROVE  Found(b, e) = ItemsBelow(node, B, Overlapping(b, e))
<1> DEFINE Reaches(c) == c # None /\ node[c].max >= b
           Is(f) == f = [x \in Names |->
                      LET here  == node[x].item
                          left  == node[x].child["left"]
                          right == node[x].child["right"]
                      IN  {i \in {here} : Overlap(b, e, i)}
                            \cup (IF Reaches(left) THEN f[left] ELSE {})
                            \cup (IF Reaches(right) /\ here[1] <= e THEN f[right] ELSE {})]
           Q == Overlapping(b, e)
<1>1. Found(b, e) = CHOOSE f : Is(f)
  BY DEF Found
<1>2. Forest(node, B, n) /\ node \in Heaps
  BY DEF Settled, Forest, Linked
<1>3. \A i \in Entries : i[2] < b \/ e < i[1] => i \notin Q
  <2> SUFFICES ASSUME NEW i \in Entries, i[2] < b \/ e < i[1] PROVE ~Overlap(b, e, i)
    BY DEF Overlapping
  <2>1. i[1] \in Nat /\ i[2] \in Nat
    BY DEF Entries
  <2> QED BY <2>1 DEF Overlap
<1>4. ASSUME NEW x \in Names PROVE {i \in {node[x].item} : Overlap(b, e, i)} = {node[x].item} \cap Q
  <2>1. node[x].item \in Entries \cup {<<>>}
    BY <1>2 DEF Heaps, Nodes
  <2> QED BY <2>1 DEF Overlapping
<1> HIDE DEF Q
<1>5. ASSUME NEW f PROVE Is(f) <=> Asked(node, b, e, Q, f)
  <2>1. ASSUME NEW x \in Names
        PROVE  LET here  == node[x].item
                   left  == node[x].child["left"]
                   right == node[x].child["right"]
               IN  {i \in {here} : Overlap(b, e, i)}
                     \cup (IF Reaches(left) THEN f[left] ELSE {})
                     \cup (IF Reaches(right) /\ here[1] <= e THEN f[right] ELSE {})
                   = ({node[x].item} \cap Q) \cup Beneath(node, x, b, e, f)
    <3>1. Beneath(node, x, b, e, f) = BothSides(node, x, b, e, f)
      BY <1>2, EnteredIs
    <3> QED BY <3>1, <1>4 DEF BothSides
  <2> QED BY <2>1 DEF Asked
<1> HIDE DEF Is
<1>6. \A f : Asked(node, b, e, Q, f) <=> f = ItemsBelow(node, B, Q)
  BY <1>3, NotSearched, FindsAll
<1>7. \A f : Is(f) <=> f = ItemsBelow(node, B, Q)
  BY <1>5, <1>6
<1>8. Found(b, e) = ItemsBelow(node, B, Q)
  BY <1>1, <1>7
<1> QED BY <1>8 DEF Q

\* Node.search_point finds what contains the point.
LEMMA FoundAtIs ==
  ASSUME NEW B, NEW n, Settled(node, B, n), NEW p \in Nat
  PROVE  FoundAt(p) = ItemsBelow(node, B, Containing(p))
<1> DEFINE Reaches(c) == c # None /\ node[c].max >= p
           Is(f) == f = [x \in Names |->
                      LET here  == node[x].item
                          left  == node[x].child["left"]
                          right == node[x].child["right"]
                      IN  {i \in {here} : ContainsPoint(i, p)}
                            \cup (IF Reaches(left) THEN f[left] ELSE {})
                            \cup (IF Reaches(right) /\ here[1] <= p THEN f[right] ELSE {})]
           Q == Containing(p)
<1>1. FoundAt(p) = CHOOSE f : Is(f)
  BY DEF FoundAt
<1>2. Forest(node, B, n) /\ node \in Heaps
  BY DEF Settled, Forest, Linked
<1>3. \A i \in Entries : i[2] < p \/ p < i[1] => i \notin Q
  <2> SUFFICES ASSUME NEW i \in Entries, i[2] < p \/ p < i[1] PROVE ~ContainsPoint(i, p)
    BY DEF Containing
  <2>1. i[1] \in Nat /\ i[2] \in Nat
    BY DEF Entries
  <2> QED BY <2>1 DEF ContainsPoint
<1>4. ASSUME NEW x \in Names PROVE {i \in {node[x].item} : ContainsPoint(i, p)} = {node[x].item} \cap Q
  <2>1. node[x].item \in Entries \cup {<<>>}
    BY <1>2 DEF Heaps, Nodes
  <2> QED BY <2>1 DEF Containing
<1> HIDE DEF Q
<1>5. ASSUME NEW f PROVE Is(f) <=> Asked(node, p, p, Q, f)
  <2>1. ASSUME NEW x \in Names
        PROVE  LET here  == node[x].item
                   left  == node[x].child["left"]
                   right == node[x].child["right"]
               IN  {i \in {here} : ContainsPoint(i, p)}
                     \cup (IF Reaches(left) THEN f[left] ELSE {})
                     \cup (IF Reaches(right) /\ here[1] <= p THEN f[right] ELSE {})
                   = ({node[x].item} \cap Q) \cup Beneath(node, x, p, p, f)
    <3>1. Beneath(node, x, p, p, f) = BothSides(node, x, p, p, f)
      BY <1>2, EnteredIs
    <3> QED BY <3>1, <1>4 DEF BothSides
  <2> QED BY <2>1 DEF Asked
<1> HIDE DEF Is
<1>6. \A f : Asked(node, p, p, Q, f) <=> f = ItemsBelow(node, B, Q)
  BY <1>3, NotSearched, FindsAll
<1>7. \A f : Is(f) <=> f = ItemsBelow(node, B, Q)
  BY <1>5, <1>6
<1>8. FoundAt(p) = ItemsBelow(node, B, Q)
  BY <1>1, <1>7
<1> QED BY <1>8 DEF Q

\* The items of a tree are those the invariant lists.
LEMMA ItemsAre ==
  ASSUME NEW m, NEW B, NEW n, Forest(m, B, n), NEW h \in Handles
  PROVE  Below(m, m[h].child["left"]) = B[RootOf(m, h)]
<1>1. Partition(m, B) /\ Closed(m, B) /\ m \in Heaps
  BY DEF Forest, Linked
<1>2. PICK r : r = m[h].child["left"]
  OBVIOUS
<1>3. r \in Names \cup {None} /\ r = RootOf(m, h)
  BY <1>1, <1>2, Basics DEF RootOf, Heaps, Nodes
<1>4. CASE r = None
  BY <1>1, <1>2, <1>3, <1>4 DEF Below, Partition
<1>5. CASE r \in Names
  BY <1>1, <1>2, <1>3, <1>5, SubtreesAre
<1> QED BY <1>3, <1>4, <1>5

\* Two intervals meet if neither begins where the other has ended.
LEMMA Meet ==
  ASSUME NEW b \in Nat, NEW e \in Nat, b < e, NEW i \in Entries
  PROVE  Oracle!Intersect(b, e, i[1], i[2]) <=> Overlap(b, e, i)
<1>1. i[1] \in Nat /\ i[2] \in Nat /\ i[1] < i[2]
  BY DEF Entries
<1> QED BY <1>1 DEF Oracle!Intersect, Overlap

\* Searches find just what a plain list would.
THEOREM Searched == Spec => []SearchIsExact
<1>1. ASSUME IInv PROVE SearchIsExact
  <2> SUFFICES ASSUME call = Idle, NEW h \in live
               PROVE  /\ \A q \in Queries :
                           /\ Search(h, q[1], q[2]) = Oracle!Hits(Items(h), q[1], q[2])
                           /\ LinearSearch(h, q[1], q[2]) = Search(h, q[1], q[2])
                      /\ \A p \in UNION {{s[1], s[2]} : s \in Spans} : NodesOf(h) # {} =>
                           SearchPoint(h, p) = {i \in Items(h) : ContainsPoint(i, p)}
    BY DEF SearchIsExact
  <2>1. PICK B : Inv(live, node, count, made, call, B)
    BY <1>1 DEF IInv
  <2>2. h \in Handles /\ Forest(node, B, made) /\ Partition(node, B) /\ node \in Heaps
        /\ Settled(node, B, made)
    BY <2>1, CallIs DEF Inv, Grove, Resting, Sinking, Rising, Settled, Forest, Linked
  <2>3. NodesOf(h) = B[RootOf(node, h)]
    BY <2>1, <2>2, NodesAre
  <2>4. Items(h) \subseteq Entries
    <3>1. \A x \in NodesOf(h) : node[x].item \in Entries
      BY <2>2, <2>3, TreeNodes
    <3> QED BY <3>1 DEF Items
  <2>5. RootOf(node, h) \in Names \cup {None} /\ RootOf(node, h) = node[h].child["left"]
    BY <2>2, Basics DEF RootOf, Heaps, Nodes
  <2>6. RootOf(node, h) = None => NodesOf(h) = {}
    BY <2>2, <2>3 DEF Partition
  <2>7. \A Q : RootOf(node, h) \in Names => ItemsBelow(node, B, Q)[RootOf(node, h)] = Items(h) \cap Q
    BY <2>3 DEF ItemsBelow, Items
  <2>8. ASSUME NEW q \in Queries
        PROVE  /\ Search(h, q[1], q[2]) = Oracle!Hits(Items(h), q[1], q[2])
               /\ LinearSearch(h, q[1], q[2]) = Search(h, q[1], q[2])
    <3>1. PICK b, e \in Nat : b = q[1] /\ e = q[2] /\ b < e
      BY DEF Queries
    <3>2. Search(h, b, e) = {i \in Items(h) : Overlap(b, e, i)}
      <4>1. CASE RootOf(node, h) = None
        <5>1. Items(h) = {}
          BY <4>1, <2>6 DEF Items
        <5>2. Search(h, b, e) = {}
          BY <4>1, <2>5 DEF Search
        <5> QED BY <5>1, <5>2
      <4>2. CASE RootOf(node, h) \in Names
        <5>1. Search(h, b, e) = Found(b, e)[RootOf(node, h)]
          BY <4>2, <2>5, Basics DEF Search
        <5>2. Found(b, e) = ItemsBelow(node, B, Overlapping(b, e))
          BY <2>2, FoundIs
        <5>3. Search(h, b, e) = Items(h) \cap Overlapping(b, e)
          BY <5>1, <5>2, <4>2, <2>7
        <5> QED BY <5>3, <2>4 DEF Overlapping
      <4> QED BY <4>1, <4>2, <2>5
    <3>3. Oracle!Hits(Items(h), b, e) = {i \in Items(h) : Overlap(b, e, i)}
      <4>1. \A i \in Items(h) : Oracle!Intersect(b, e, i[1], i[2]) <=> Overlap(b, e, i)
        BY <3>1, <2>4, Meet
      <4>2. Oracle!Hits(Items(h), b, e) = {i \in Items(h) : Oracle!Intersect(b, e, i[1], i[2])}
        BY DEF Oracle!Hits
      <4> QED BY <4>1, <4>2
    <3>4. LinearSearch(h, b, e) = {i \in Items(h) : Overlap(b, e, i)}
      BY DEF LinearSearch, Items
    <3> QED BY <3>1, <3>2, <3>3, <3>4
  <2>9. ASSUME NEW p \in UNION {{s[1], s[2]} : s \in Spans}, NodesOf(h) # {}
        PROVE  SearchPoint(h, p) = {i \in Items(h) : ContainsPoint(i, p)}
    <3>1. p \in Nat
      <4>1. \A s \in Spans : s[1] \in Nat /\ s[2] \in Nat
        BY SpansAssumption
      <4> QED BY <4>1
    <3>2. FoundAt(p) = ItemsBelow(node, B, Containing(p))
      BY <3>1, <2>2, FoundAtIs
    <3>3. SearchPoint(h, p) = FoundAt(p)[RootOf(node, h)]
      BY <2>5 DEF SearchPoint
    <3>4. SearchPoint(h, p) = Items(h) \cap Containing(p)
      BY <3>2, <3>3, <2>5, <2>6, <2>7, <2>9
    <3> QED BY <3>4, <2>4 DEF Containing
  <2> QED BY <2>8, <2>9
<1> QED BY <1>1, IInvHolds, PTL

-----------------------------------------------------------------------------
(* The trees are plain lists. *)

\* What the list of each tree is.
Shown(L, m, B) == [h \in Handles |-> IF h \in L THEN Listed(m, B, h) ELSE {}]

\* The lists that IsUntree maps the heap to.
LEMMA ItemsListed ==
  ASSUME NEW B, Forest(node, B, made)
  PROVE  [h \in Handles |-> IF h \in live THEN Items(h) ELSE {}] = Shown(live, node, B)
<1>1. \A h \in Handles : Items(h) = Listed(node, B, h)
  <2> TAKE h \in Handles
  <2>1. Below(node, node[h].child["left"]) = B[RootOf(node, h)]
    BY ItemsAre
  <2> QED BY <2>1 DEF Items, NodesOf, Listed
<1> QED BY <1>1 DEF Shown

\* The lists after a step.
LEMMA ItemsListedNext ==
  ASSUME NEW B, Forest(node', B, made')
  PROVE  [h \in Handles |-> IF h \in live THEN Items(h) ELSE {}]' = Shown(live', node', B)
<1>1. \A h \in Handles : Items(h)' = Listed(node', B, h)
  <2> TAKE h \in Handles
  <2>1. Below(node', node'[h].child["left"]) = B[RootOf(node', h)]
    BY ItemsAre
  <2> QED BY <2>1 DEF Items, NodesOf, Listed
<1> QED BY <1>1 DEF Shown

\* The first list is empty.
LEMMA UntreeInit == Init => Oracle!Init
<1> SUFFICES ASSUME Init PROVE Oracle!Init
  OBVIOUS
<1>1. live = {} /\ writer \in Handles
  BY DEF Init
<1> QED BY <1>1 DEF Oracle!Init

\* Every step is a step of the lists, or none.
LEMMA UntreeStep == ASSUME IInv, IInv', [Next]_vars PROVE [Oracle!Next]_(Oracle!vars)
<1>1. PICK B : Inv(live, node, count, made, call, B) /\ writer \in Handles
  BY DEF IInv
<1>2. Forest(node, B, made) /\ live \subseteq Handles /\ Rooted(node, live) /\ Partition(node, B)
  BY <1>1 DEF Inv, Grove, Forest
<1>3. PICK S : S = [h \in Handles |-> IF h \in live THEN Items(h) ELSE {}]
  OBVIOUS
<1>4. S = Shown(live, node, B)
  BY <1>2, <1>3, ItemsListed
<1> DEFINE T == [h \in Handles |-> IF h \in live THEN Items(h) ELSE {}]'
<1>5. \A A : Inv(live', node', count', made', call', A) => T = Shown(live', node', A)
  <2> SUFFICES ASSUME NEW A, Inv(live', node', count', made', call', A) PROVE T = Shown(live', node', A)
    OBVIOUS
  <2>1. Forest(node', A, made')
    BY DEF Inv, Grove
  <2> QED BY <2>1, ItemsListedNext
<1> HIDE DEF T
<1>6. CASE UNCHANGED vars
  <2>1. live' = live /\ node' = node /\ writer' = writer /\ made' = made
    BY <1>6 DEF vars
  <2>2. Inv(live', node', count', made', call', B)
    BY <1>1, <1>6 DEF vars
  <2>3. T = S
    BY <2>1, <2>2, <1>4, <1>5
  <2> QED BY <2>1, <2>3, <1>3 DEF T, Oracle!vars
<1>7. ASSUME NEW h \in Handles, New(h) PROVE Oracle!New(h)
  <2>1. live = {} /\ live' = {h} /\ writer' = h /\ node' = node
    BY <1>7 DEF New
  <2>2. PICK A : Inv(live', node', count', made', call', A)
    BY DEF IInv
  <2>3. T = S
    <3>1. T = Shown({h}, node, A) /\ Forest(node, A, made')
      BY <2>1, <2>2, <1>5 DEF Inv, Grove
    <3>2. RootOf(node, h) = None /\ A[None] = {}
      BY <2>1, <3>1, <1>2 DEF Rooted, Forest, Partition
    <3>3. Listed(node, A, h) = {}
      BY <3>2 DEF Listed
    <3> QED BY <3>1, <3>3, <2>1, <1>4 DEF Shown
  <2> QED BY <2>1, <2>3, <1>3 DEF T, Oracle!New
<1>8. ASSUME NEW A, Inv(live', node', count', made', call', A), live' = live, writer' = writer,
             Stays(node, B, node', A)
      PROVE  UNCHANGED Oracle!vars
  <2>1. T = Shown(live, node', A)
    BY <1>5, <1>8
  <2>2. Shown(live, node', A) = Shown(live, node, B)
    BY <1>8 DEF Stays, Shown
  <2>3. T = S
    BY <2>1, <2>2, <1>4
  <2> QED BY <2>3, <1>3, <1>8 DEF T, Oracle!vars
<1>9. ASSUME NEW A, Inv(live', node', count', made', call', A), live' = live,
             NEW h \in live, NEW s \in Spans, NEW d \in Names,
             Lists(node, B, node', A, h, <<s[1], s[2], d>>), writer' = h
      PROVE  Oracle!Add(h, s, d)
  <2>1. T = Shown(live, node', A)
    BY <1>5, <1>9
  <2>2. PICK i : i = <<s[1], s[2], d>>
    OBVIOUS
  <2>3. Shown(live, node', A) = [Shown(live, node, B) EXCEPT ![h] = @ \cup {i}]
    <3>1. Lists(node, B, node', A, h, i)
      BY <2>2, <1>9
    <3> QED BY <3>1, <1>2 DEF Lists, Shown
  <2>4. T = [S EXCEPT ![h] = @ \cup {i}]
    BY <2>1, <2>3, <1>4
  <2> QED BY <2>2, <2>4, <1>3, <1>9 DEF T, Oracle!Add
<1>10. ASSUME NEW h \in Handles, NEW s \in Spans, Add(h, s)
       PROVE  [Oracle!Next]_(Oracle!vars)
  <2>1. PICK A : /\ Inv(live', node', count', made', call', A)
                 /\ \/ /\ Lists(node, B, node', A, h, <<s[1], s[2], made + 1>>)
                       /\ made + 1 \in Names /\ writer' = h
                    \/ Stays(node, B, node', A) /\ writer' = writer
    BY <1>1, <1>10, Added
  <2>2. live' = live /\ h \in live
    BY <1>10 DEF Add
  <2>3. CASE Stays(node, B, node', A) /\ writer' = writer
    BY <2>1, <2>2, <2>3, <1>8
  <2>4. CASE /\ Lists(node, B, node', A, h, <<s[1], s[2], made + 1>>)
             /\ made + 1 \in Names /\ writer' = h
    <3>1. PICK d \in Names : d = made + 1
      BY <2>4
    <3>2. Oracle!Add(h, s, d)
      BY <2>1, <2>2, <2>4, <3>1, <1>9
    <3> QED BY <3>2 DEF Oracle!Next
  <2> QED BY <2>1, <2>3, <2>4
<1>11. ASSUME Descend PROVE UNCHANGED Oracle!vars
  <2>1. Inv(live', node', count', made', call', B) /\ Stays(node, B, node', B)
    BY <1>1, <1>11, Descended
  <2>2. live' = live /\ writer' = writer
    BY <1>11 DEF Descend
  <2> QED BY <2>1, <2>2, <1>8
<1>12. ASSUME Attach PROVE Oracle!Next
  <2>1. PICK A : \E h \in live, s \in Spans :
                   /\ Inv(live', node', count', made', call', A)
                   /\ Lists(node, B, node', A, h, <<s[1], s[2], made + 1>>) /\ made + 1 \in Names
                   /\ writer' = h
    BY <1>1, <1>12, Leafed
  <2>2. PICK h \in live, s \in Spans :
                   /\ Inv(live', node', count', made', call', A)
                   /\ Lists(node, B, node', A, h, <<s[1], s[2], made + 1>>) /\ made + 1 \in Names
                   /\ writer' = h
    BY <2>1
  <2>3. live' = live
    BY <1>12 DEF Attach
  <2>4. PICK d \in Names : d = made + 1
    BY <2>2
  <2>5. Oracle!Add(h, s, d)
    BY <2>2, <2>3, <2>4, <1>9
  <2> QED BY <2>5, <1>2 DEF Oracle!Next
<1>13. ASSUME Rebalance PROVE UNCHANGED Oracle!vars
  <2>1. PICK A : SameTrees(node, B, node', A) /\ Inv(live', node', count', made', call', A)
    BY <1>1, <1>13, Rebalanced
  <2>2. live' = live /\ writer' = writer
    BY <1>13 DEF Rebalance
  <2>3. Stays(node, B, node', A)
    <3> SUFFICES ASSUME NEW h \in Handles PROVE Listed(node', A, h) = Listed(node, B, h)
      BY DEF Stays
    <3>1. A[RootOf(node', h)] = B[RootOf(node, h)]
      BY <2>1 DEF SameTrees
    <3>2. \A x \in B[RootOf(node, h)] : x \in Names
      BY <1>2, TreeNodes
    <3>3. \A x \in B[RootOf(node, h)] : node'[x].item = node[x].item
      BY <2>1, <3>2 DEF SameTrees
    <3> QED BY <3>1, <3>3 DEF Listed
  <2> QED BY <2>1, <2>2, <2>3, <1>8
<1>14. ASSUME NEW h \in Handles, NEW g \in Handles, Copy(h, g) PROVE Oracle!Copy(h, g)
  <2>1. PICK f, A : /\ Inv(live', node', count', made', call', A)
                    /\ Forked(node, B, node', A, h, g, f)
    BY <1>1, <1>14, Forking
  <2>2. h \in live /\ g \in Handles \ live /\ live' = live \cup {g} /\ writer' = writer
    BY <1>14 DEF Copy
  <2>3. T = Shown(live \cup {g}, node', A)
    BY <2>1, <2>2, <1>5
  <2>4. Listed(node', A, g) = Listed(node, B, h)
    <3>1. /\ A[RootOf(node', g)] = {f[u] : u \in B[RootOf(node, h)]}
          /\ \A u \in B[RootOf(node, h)] : node'[f[u]].item = node[u].item
      BY <2>1 DEF Forked
    <3> QED BY <3>1 DEF Listed
  <2>5. ASSUME NEW k \in Handles, k # g PROVE Listed(node', A, k) = Listed(node, B, k)
    <3>1. /\ A[RootOf(node', k)] = B[RootOf(node, k)]
          /\ \A x \in B[RootOf(node, k)] : node'[x].item = node[x].item
      BY <2>1, <2>5 DEF Forked
    <3> QED BY <3>1 DEF Listed
  <2>6. Shown(live \cup {g}, node', A) = [S EXCEPT ![g] = S[h]]
    BY <2>2, <2>4, <2>5, <1>4 DEF Shown
  <2> QED BY <2>2, <2>3, <2>6, <1>3 DEF T, Oracle!Copy
<1> QED BY <1>6, <1>7, <1>10, <1>11, <1>12, <1>13, <1>14 DEF Next, Oracle!Next

\* A tree is the list of what was added to it, and its copies are lists of
\* their own.
THEOREM ImplementsUntree == Spec => IsUntree
<1>1. IInv /\ IInv' /\ [Next]_vars => [Oracle!Next]_(Oracle!vars)
  BY UntreeStep
<1> QED BY <1>1, UntreeInit, IInvHolds, PTL DEF Spec, IsUntree, Oracle!Spec
=============================================================================
