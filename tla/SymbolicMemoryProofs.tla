------------------------ MODULE SymbolicMemoryProofs ------------------------
(***************************************************************************)
(* Proofs about SymbolicMemory: first that timestamps tell the items of a  *)
(* state apart and that the range an item is filed under covers it, then   *)
(* that the items tell the contents and that loads are sound.              *)
(***************************************************************************)
EXTENDS SymbolicMemory, FiniteSetTheorems, SequenceTheorems, WellFoundedInduction, TLAPS

-----------------------------------------------------------------------------
(* Least and greatest values. *)

\* A nonempty set of natural numbers has a least member.
LEMMA LeastNat ==
  ASSUME NEW S \in SUBSET Nat, S # {}
  PROVE  \E x \in S : \A y \in S : x <= y
<1> DEFINE R == OpToRel(<, Nat)
<1>1. IsWellFoundedOn(R, Nat)
  BY NatLessThanWellFounded
<1>2. \A x, y \in Nat : <<y, x>> \in R <=> y < x
  BY DEF OpToRel
<1> HIDE DEF R
<1>3. PICK x \in S : \A y \in S : ~ (<<y, x>> \in R)
  BY <1>1, WFMin
<1>4. ASSUME NEW y \in S PROVE x <= y
  <2>1. x \in Nat /\ y \in Nat /\ ~(<<y, x>> \in R)
    BY <1>3
  <2>2. ~(y < x)
    BY <1>2, <2>1
  <2> QED BY <2>1, <2>2
<1> QED BY <1>4

\* Least and greatest member of a set of integers, where Min and Max find one.
IsLeast(V, x) == x \in V /\ \A y \in V : x <= y
IsGreatest(V, x) == x \in V /\ \A y \in V : y <= x

\* A nonempty set of integers bounded below has a least member, and Min is it.
LEMMA MinOfBounded ==
  ASSUME NEW V \in SUBSET Int, V # {}, NEW b \in Int, \A v \in V : b <= v
  PROVE  IsLeast(V, Min(V))
<1> DEFINE S == {n \in Nat : n + b \in V}
<1>1. PICK v \in V : TRUE
  OBVIOUS
<1>2. S # {}
  <2>1. v - b \in Nat /\ (v - b) + b = v
    OBVIOUS
  <2> QED BY <2>1, <1>1
<1>3. PICK n \in S : \A m \in S : n <= m
  BY <1>2, LeastNat
<1>4. IsLeast(V, n + b)
  <2>1. ASSUME NEW y \in V PROVE n + b <= y
    <3>1. y - b \in Nat /\ (y - b) + b = y
      OBVIOUS
    <3>2. y - b \in S
      BY <3>1
    <3> QED BY <3>1, <3>2, <1>3
  <2> QED BY <2>1, <1>3 DEF IsLeast
<1> HIDE DEF S
<1> QED BY <1>4 DEF IsLeast, Min

\* The same of Max.
LEMMA MaxOfBounded ==
  ASSUME NEW V \in SUBSET Int, V # {}, NEW b \in Int, \A v \in V : v <= b
  PROVE  IsGreatest(V, Max(V))
<1> DEFINE S == {n \in Nat : b - n \in V}
<1>1. PICK v \in V : TRUE
  OBVIOUS
<1>2. S # {}
  <2>1. b - v \in Nat /\ b - (b - v) = v
    OBVIOUS
  <2> QED BY <2>1, <1>1
<1>3. PICK n \in S : \A m \in S : n <= m
  BY <1>2, LeastNat
<1>4. IsGreatest(V, b - n)
  <2>1. ASSUME NEW y \in V PROVE y <= b - n
    <3>1. b - y \in Nat /\ b - (b - y) = y
      OBVIOUS
    <3>2. b - y \in S
      BY <3>1
    <3>3. n \in Nat /\ n <= b - y
      BY <3>2, <1>3
    <3> QED BY <3>3, y \in Int
  <2> QED BY <2>1, <1>3 DEF IsGreatest
<1> HIDE DEF S
<1>5. \A x \in V : (\A y \in V : y <= x) <=> (\A y \in V : x >= y)
  OBVIOUS
<1> QED BY <1>4, <1>5 DEF IsGreatest, Max

\* The values of a function on a finite set lie between two integers.
LEMMA ValuesBounded ==
  ASSUME NEW W, IsFiniteSet(W), NEW e \in [W -> Int]
  PROVE  \E b \in Nat : \A w \in W : -b <= e[w] /\ e[w] <= b
<1>1. PICK n \in Nat : ExistsSurjection(1 .. n, W)
  BY FS_NatSurjection
<1>f. PICK f \in Surjection(1 .. n, W) : TRUE
  BY <1>1 DEF ExistsSurjection
<1>2. f \in [1 .. n -> W] /\ \A w \in W : \E i \in 1 .. n : f[i] = w
  BY <1>f DEF Surjection
<1> DEFINE g == [i \in 1 .. n |-> e[f[i]]]
<1>g. g \in [1 .. n -> Int] /\ \A w \in W : \E i \in 1 .. n : e[w] = g[i]
  BY <1>2
<1> HIDE DEF g
<1> DEFINE Within(m, b) == \A i \in 1 .. m : -b <= g[i] /\ g[i] <= b
           Bad == {m \in 0 .. n : ~ \E b \in Nat : Within(m, b)}
<1>b. /\ \A m \in 0 .. n : m \notin Bad => \E b \in Nat : Within(m, b)
      /\ Bad \in SUBSET Nat /\ Bad \subseteq 0 .. n
      /\ \A m \in Bad, b \in Nat : ~Within(m, b)
  OBVIOUS
<1> HIDE DEF Bad
<1>3. Bad = {}
  <2> SUFFICES ASSUME Bad # {} PROVE FALSE
    OBVIOUS
  <2>1. PICK m \in Bad : \A k \in Bad : m <= k
    BY <1>b, LeastNat
  <2>2. m # 0
    <3>1. Within(0, 0)
      OBVIOUS
    <3> QED BY <3>1, <1>b
  <2>3. m - 1 \in 0 .. n /\ m - 1 \notin Bad /\ m \in 1 .. n
    <3>1. m \in 1 .. n
      BY <1>b, <2>2
    <3> QED BY <3>1, <2>1
  <2>4. PICK b \in Nat : Within(m - 1, b)
    BY <2>3, <1>b
  <2>5. PICK v \in Int : v = g[m]
    BY <1>g, <2>3
  <2>6. PICK c \in Nat : b <= c /\ -c <= v /\ v <= c
    <3>1. CASE v >= 0
      <4>1. b + v \in Nat /\ b <= b + v /\ -(b + v) <= v /\ v <= b + v
        BY <3>1
      <4> QED BY <4>1
    <3>2. CASE v < 0
      <4>1. b - v \in Nat /\ b <= b - v /\ -(b - v) <= v /\ v <= b - v
        BY <3>2
      <4> QED BY <4>1
    <3> QED BY <3>1, <3>2
  <2>7. Within(m, c)
    <3> SUFFICES ASSUME NEW i \in 1 .. m PROVE -c <= g[i] /\ g[i] <= c
      OBVIOUS
    <3>1. CASE i = m
      BY <3>1, <2>5, <2>6
    <3>2. CASE i # m
      <4>1. i \in 1 .. m - 1 /\ i \in 1 .. n
        BY <3>2, <2>3
      <4>2. -b <= g[i] /\ g[i] <= b
        BY <4>1, <2>4
      <4>3. PICK u \in Int : u = g[i]
        BY <1>g, <4>1
      <4>4. -b <= u /\ u <= b
        BY <4>2, <4>3
      <4>5. -c <= u /\ u <= c
        BY <4>4, <2>6
      <4> QED BY <4>3, <4>5
    <3> QED BY <3>1, <3>2
  <2> QED BY <2>7, <1>b
<1>4. PICK b \in Nat : Within(n, b)
  <2>1. n \in 0 .. n /\ n \notin Bad
    BY <1>3
  <2> QED BY <2>1, <1>b
<1> QED BY <1>g, <1>4

\* What Bounds finds out about an expression on a path.
IsBounds(b, e, P) ==
  /\ b.lo \in Int /\ b.hi \in Int /\ b.lo <= b.hi
  /\ b.int = (b.lo = b.hi)
  /\ b.at \in [Worlds -> Int]
  /\ b.int => b.at = Const(b.lo)
  /\ ~b.int => b.at = e
  /\ \A w \in P : b.lo <= e[w] /\ e[w] <= b.hi /\ b.at[w] = e[w]
  /\ \E w \in P : e[w] = b.lo
  /\ \E w \in P : e[w] = b.hi

\* min_int and max_int are the bounds of an expression on a path that is not
\* empty, and a concrete address has its value in all worlds of the path.
LEMMA BoundsAre ==
  ASSUME NEW P \in SUBSET Worlds, P # {}, NEW e \in [Worlds -> Int]
  PROVE  IsBounds(Bounds(e, P), e, P)
<1> DEFINE V == {e[w] : w \in P}
           lo == Min(V)
           hi == Max(V)
<1>1. PICK c \in Nat : \A w \in Worlds : -c <= e[w] /\ e[w] <= c
  BY WorldsAssumption, ValuesBounded
<1>2. V \in SUBSET Int /\ V # {} /\ -c \in Int
  OBVIOUS
<1>3. \A v \in V : -c <= v /\ v <= c
  BY <1>1
<1> HIDE DEF V
<1>4. IsLeast(V, lo)
  BY <1>2, <1>3, MinOfBounded
<1>5. IsGreatest(V, hi)
  <2>1. \A v \in V : v <= c
    BY <1>3
  <2> QED BY <1>2, <2>1, c \in Int, MaxOfBounded
<1> HIDE DEF lo, hi
<1>6. lo \in Int /\ hi \in Int /\ lo <= hi
  BY <1>2, <1>4, <1>5 DEF IsLeast, IsGreatest
<1>7. \A w \in P : lo <= e[w] /\ e[w] <= hi
  BY <1>4, <1>5 DEF V, IsLeast, IsGreatest
<1>8. (\E w \in P : e[w] = lo) /\ (\E w \in P : e[w] = hi)
  BY <1>4, <1>5 DEF V, IsLeast, IsGreatest
<1>9. Bounds(e, P) = [lo |-> lo, hi |-> hi, int |-> lo = hi,
                      at |-> IF lo = hi THEN Const(lo) ELSE e]
  BY DEF Bounds, V, lo, hi
<1>10. Const(lo) \in [Worlds -> Int] /\ \A w \in Worlds : Const(lo)[w] = lo
  BY <1>6 DEF Const
<1>11. \A w \in P : lo = hi => Const(lo)[w] = e[w]
  BY <1>6, <1>7, <1>10
<1> DEFINE b == Bounds(e, P)
<1>12. b.lo = lo /\ b.hi = hi /\ b.int = (lo = hi)
  BY <1>9
<1>13. b.at = IF lo = hi THEN Const(lo) ELSE e
  BY <1>9
<1> HIDE DEF b
<1>14. b.at \in [Worlds -> Int] /\ \A w \in P : b.at[w] = e[w]
  BY <1>10, <1>11, <1>13
<1>15. (b.int => b.at = Const(b.lo)) /\ (~b.int => b.at = e)
  BY <1>12, <1>13
<1>16. IsBounds(b, e, P)
  BY <1>6, <1>7, <1>8, <1>12, <1>14, <1>15 DEF IsBounds
<1> QED BY <1>16 DEF b


-----------------------------------------------------------------------------
(* Pages and chunks. *)

\* Pages of different numbers do not overlap.
LEMMA PagesApart ==
  ASSUME NEW p \in Int, NEW q \in Int, NEW n \in Nat \ {0}, p < q
  PROVE  p * n + n <= q * n
<1>1. PICK k \in Nat : q = p + 1 + k
  <2>1. q - p - 1 \in Nat /\ q = p + 1 + (q - p - 1)
    OBVIOUS
  <2> QED BY <2>1
<1>2. q * n = p * n + n + k * n
  BY <1>1
<1>3. k * n >= 0
  OBVIOUS
<1>4. p * n \in Int /\ k * n \in Int /\ q * n \in Int
  OBVIOUS
<1> QED BY <1>2, <1>3, <1>4

\* The page of an address.
LEMMA PageOf ==
  ASSUME NEW a \in Int
  PROVE  /\ a \div PageSize \in Int /\ a % PageSize \in 0 .. PageSize - 1
         /\ a = (a \div PageSize) * PageSize + (a % PageSize)
  BY PageSizeAssumption

\* The page of an address is the one it lies in.
LEMMA PageIs ==
  ASSUME NEW a \in Int, NEW p \in Int
  PROVE  a \div PageSize = p <=> p * PageSize <= a /\ a < p * PageSize + PageSize
<1> DEFINE q == a \div PageSize
           r == a % PageSize
<1>1. q \in Int /\ r \in 0 .. PageSize - 1 /\ a = q * PageSize + r
  BY PageOf
<1> HIDE DEF q, r
<1>2. PageSize \in Nat \ {0} /\ p * PageSize \in Int /\ q * PageSize \in Int
  BY PageSizeAssumption, <1>1
<1>3. CASE q = p
  BY <1>1, <1>2, <1>3 DEF q
<1>4. CASE q < p
  <2>1. q * PageSize + PageSize <= p * PageSize
    BY <1>1, <1>2, <1>4, PagesApart
  <2> QED BY <1>1, <1>2, <1>4, <2>1 DEF q
<1>5. CASE p < q
  <2>1. p * PageSize + PageSize <= q * PageSize
    BY <1>1, <1>2, <1>5, PagesApart
  <2> QED BY <1>1, <1>2, <1>5, <2>1 DEF q
<1> QED BY <1>1, <1>3, <1>4, <1>5

\* Min of three integers is one of them, and the least.
LEMMA MinOfThree ==
  ASSUME NEW a \in Int, NEW b \in Int, NEW c \in Int
  PROVE  /\ Min({a, b, c}) \in {a, b, c}
         /\ Min({a, b, c}) <= a /\ Min({a, b, c}) <= b /\ Min({a, b, c}) <= c
<1>1. \E x \in {a, b, c} : \A y \in {a, b, c} : x <= y
  BY SMT
<1> QED BY <1>1 DEF Min

\* The bytes of a segment.
In(g, a) == a - g.addr \in 0 .. Len(g.bytes) - 1

\* What a chunk of a segment covers: the bytes of the segment on its page.
IsChunk(c, g) ==
  /\ Start(c) \in Nat /\ c.bytes \in Seq(Nat \ {0}) /\ c.page \in Int
  /\ \A a \in Int : Covers(c, a) <=> In(g, a) /\ a \div PageSize = c.page
  /\ \A a \in Int : Covers(c, a) => c.bytes[a - Start(c) + 1] = g.bytes[a - g.addr + 1]

\* A segment is a nonempty run of bytes at natural addresses.
LEMMA SegmentType ==
  ASSUME NEW g \in Segments
  PROVE  /\ g.addr \in Nat /\ g.bytes \in Seq(Nat \ {0}) /\ Len(g.bytes) \in Nat \ {0}
         /\ \A i \in 1 .. Len(g.bytes) : g.bytes[i] \in Nat \ {0}
         /\ \A a \in Int : In(g, a) => a \in Addrs
<1>1. g.addr \in Nat /\ g.bytes \in Seq(Nat \ {0}) /\ g.bytes # <<>>
  BY SegmentsAssumption
<1>2. g.addr .. g.addr + Len(g.bytes) - 1 \subseteq Addrs
  BY SegmentsAssumption
<1>3. Len(g.bytes) \in Nat \ {0}
  BY <1>1, EmptySeq
<1>4. \A i \in 1 .. Len(g.bytes) : g.bytes[i] \in Nat \ {0}
  BY <1>1, ElementOfSeq
<1> QED BY <1>1, <1>2, <1>3, <1>4 DEF In

IsPageStart(a, size, offset, q) ==
  /\ q \in Int /\ offset \in 0 .. PageSize - 1
  /\ a <= q + offset /\ q + offset < a + size
  /\ q + offset = a \/ (offset = 0 /\ a < q)

\* Where page p of the bytes from a to a + size - 1 begins: no earlier than the
\* bytes do, and before they end.
LEMMA PageStart ==
  ASSUME NEW a \in Nat, NEW size \in Nat \ {0},
         NEW p \in a \div PageSize .. (a + size - 1) \div PageSize,
         NEW offset, offset = IF p = a \div PageSize THEN a % PageSize ELSE 0
  PROVE  IsPageStart(a, size, offset, p * PageSize)
<1> DEFINE q == p * PageSize
<1> DEFINE last == (a + size - 1) \div PageSize
<1>1. PageSize \in Nat \ {0} /\ a + size - 1 \in Nat
  BY PageSizeAssumption
<1>2. PICK first \in Int : first = a \div PageSize
  BY PageOf
<1>3. PICK r \in 0 .. PageSize - 1 : r = a % PageSize
  BY PageOf
<1>4. PICK l \in Int : l = last
  BY <1>1, PageOf
<1> HIDE DEF last
<1>5. p \in first .. l /\ offset = IF p = first THEN r ELSE 0
  BY <1>2, <1>3, <1>4 DEF last
<1>6. PICK qf \in Int : qf = first * PageSize
  BY <1>1
<1>7. PICK ql \in Int : ql = l * PageSize
  BY <1>1
<1>8. q \in Int
  BY <1>1, <1>5
<1> HIDE DEF q
<1>9. a = qf + r
  BY <1>2, <1>3, <1>6, PageOf
<1>10. ql <= a + size - 1
  BY <1>1, <1>4, <1>7, PageIs DEF last
<1>11. p = first => q = qf /\ offset = r
  BY <1>5, <1>6 DEF q
<1>12. p # first => qf + PageSize <= q /\ offset = 0
  BY <1>1, <1>5, <1>6, PagesApart DEF q
<1>13. p # l => q + PageSize <= ql
  BY <1>1, <1>5, <1>7, PagesApart DEF q
<1>14. p = l => q = ql
  BY <1>7 DEF q
<1>15. /\ offset \in 0 .. PageSize - 1
       /\ a <= q + offset /\ q + offset < a + size
       /\ q + offset = a \/ (offset = 0 /\ a < q)
  BY <1>1, <1>5, <1>8, <1>9, <1>10, <1>11, <1>12, <1>13, <1>14
<1>16. IsPageStart(a, size, offset, q)
  BY <1>8, <1>15 DEF IsPageStart
<1> QED BY <1>16 DEF q

\* _init_memory: the chunk of a page covers the bytes of the segment on it.
LEMMA ChunkCovers ==
  ASSUME NEW g \in Segments, NEW c \in Chunks(g)
  PROVE  IsChunk(c, g)
<1>1. PICK p \in g.addr \div PageSize .. (g.addr + Len(g.bytes) - 1) \div PageSize : c = Chunk(g, p)
  BY DEF Chunks
<1>2. PICK a \in Nat : a = g.addr
  BY SegmentType
<1>3. PICK size \in Nat \ {0} : size = Len(g.bytes)
  BY SegmentType
<1>4. PICK offset : offset = IF p = a \div PageSize THEN a % PageSize ELSE 0
  OBVIOUS
<1>5. PICK q : q = p * PageSize
  OBVIOUS
<1>6. /\ q \in Int /\ offset \in 0 .. PageSize - 1
      /\ a <= q + offset /\ q + offset < a + size
      /\ q + offset = a \/ (offset = 0 /\ a < q)
  <2>1. p \in a \div PageSize .. (a + size - 1) \div PageSize
    BY <1>1, <1>2, <1>3
  <2>2. IsPageStart(a, size, offset, p * PageSize)
    BY <1>4, <2>1, PageStart
  <2> QED BY <1>5, <2>2 DEF IsPageStart
<1>7. PICK data \in Nat : data = q + offset - a
  BY <1>6, PageSizeAssumption
<1>8. PICK n : n = Cut(g, p, size - data)
  OBVIOUS
<1>9. PageSize \in Nat \ {0} /\ p \in Int
  BY <1>1, <1>2, <1>3, PageOf, PageSizeAssumption
<1>10. n = Min({size - data, PageSize, q + PageSize - a})
  BY <1>2, <1>5, <1>8 DEF Cut
<1>11. /\ n \in {size - data, PageSize, q + PageSize - a}
       /\ n <= size - data /\ n <= PageSize /\ n <= q + PageSize - a
  <2>1. size - data \in Int /\ PageSize \in Int /\ q + PageSize - a \in Int
    BY <1>6, <1>9
  <2> QED BY <1>10, <2>1, MinOfThree
<1>12. n \in Nat \ {0}
  BY <1>6, <1>7, <1>9, <1>11
<1>13. Start(c) = q + offset /\ c.page = p /\ c.bytes = SubSeq(g.bytes, data + 1, data + n)
  BY <1>1, <1>2, <1>3, <1>4, <1>5, <1>7, <1>8 DEF Chunk, Start
<1>14. \A i \in data + 1 .. data + n : g.bytes[i] \in Nat \ {0}
  <2> SUFFICES ASSUME NEW i \in data + 1 .. data + n PROVE g.bytes[i] \in Nat \ {0}
    OBVIOUS
  <2>1. n <= size - data
    BY <1>11
  <2>2. i \in 1 .. size
    BY <1>12, <2>1
  <2> QED BY <1>3, <2>2, SegmentType
<1>15. /\ SubSeq(g.bytes, data + 1, data + n) \in Seq(Nat \ {0})
       /\ Len(SubSeq(g.bytes, data + 1, data + n)) =
            IF data + 1 <= data + n THEN data + n - (data + 1) + 1 ELSE 0
       /\ \A i \in 1 .. data + n - (data + 1) + 1 :
            SubSeq(g.bytes, data + 1, data + n)[i] = g.bytes[data + 1 + i - 1]
  BY <1>12, <1>14, SubSeqProperties
<1>16. c.bytes \in Seq(Nat \ {0}) /\ Len(c.bytes) = n
       /\ \A i \in 1 .. n : c.bytes[i] = g.bytes[data + i]
  <2>1. /\ data + 1 <= data + n /\ data + n - (data + 1) + 1 = n
        /\ \A i \in 1 .. n : data + 1 + i - 1 = data + i
    BY <1>7, <1>12
  <2>2. c.bytes \in Seq(Nat \ {0}) /\ Len(c.bytes) = n
    BY <1>13, <1>15, <2>1
  <2>3. ASSUME NEW i \in 1 .. n PROVE c.bytes[i] = g.bytes[data + i]
    <3>1. SubSeq(g.bytes, data + 1, data + n)[i] = g.bytes[data + 1 + i - 1]
      BY <1>15, <2>1
    <3>2. data + 1 + i - 1 = data + i
      BY <2>1
    <3> QED BY <1>13, <3>1, <3>2
  <2> QED BY <2>2, <2>3
<1>17. Start(c) \in Nat
  BY <1>6, <1>9, <1>13
<1>18. ASSUME NEW x \in Int PROVE Covers(c, x) <=> In(g, x) /\ x \div PageSize = c.page
  <2>1. Covers(c, x) <=> x - (q + offset) \in 0 .. n - 1
    BY <1>13, <1>16 DEF Covers
  <2>2. In(g, x) <=> x - a \in 0 .. size - 1
    BY <1>2, <1>3 DEF In
  <2>3. x \div PageSize = c.page <=> q <= x /\ x < q + PageSize
    BY <1>5, <1>9, <1>13, PageIs
  <2> QED BY <1>6, <1>7, <1>9, <1>11, <1>12, <2>1, <2>2, <2>3
<1>19. ASSUME NEW x \in Int, Covers(c, x)
       PROVE  c.bytes[x - Start(c) + 1] = g.bytes[x - g.addr + 1]
  <2>1. x - (q + offset) + 1 \in 1 .. n
    BY <1>6, <1>9, <1>12, <1>13, <1>16, <1>19 DEF Covers
  <2>2. data + (x - (q + offset) + 1) = x - a + 1
    BY <1>6, <1>7, <1>9
  <2>3. c.bytes[x - (q + offset) + 1] = g.bytes[data + (x - (q + offset) + 1)]
    BY <1>16, <2>1
  <2> QED BY <1>2, <1>13, <2>2, <2>3
<1> QED BY <1>9, <1>13, <1>16, <1>17, <1>18, <1>19 DEF IsChunk

\* Two chunks of the binary that cover the same address are the same.
LEMMA ChunksApart ==
  ASSUME NEW c \in EmptyMemory.pending, NEW d \in EmptyMemory.pending, NEW a \in Int,
         Covers(c, a), Covers(d, a)
  PROVE  c = d
<1>1. PICK g \in Segments : c \in Chunks(g)
  BY DEF EmptyMemory
<1>2. PICK h \in Segments : d \in Chunks(h)
  BY DEF EmptyMemory
<1>3. IsChunk(c, g) /\ IsChunk(d, h)
  BY <1>1, <1>2, ChunkCovers
<1>4. In(g, a) /\ In(h, a) /\ c.page = d.page
  BY <1>3 DEF IsChunk
<1>5. g = h
  <2>1. /\ g.addr \in Nat /\ Len(g.bytes) \in Nat
        /\ h.addr \in Nat /\ Len(h.bytes) \in Nat
    BY SegmentType
  <2>2. g = h \/ g.addr + Len(g.bytes) <= h.addr \/ h.addr + Len(h.bytes) <= g.addr
    BY SegmentsAssumption
  <2> QED BY <1>4, <2>1, <2>2 DEF In
<1>6. \A p, q : Chunk(g, p) = Chunk(g, q) \/ Chunk(g, p).page # Chunk(g, q).page
  BY DEF Chunk
<1> QED BY <1>1, <1>2, <1>4, <1>5, <1>6 DEF Chunks

-----------------------------------------------------------------------------
(* Items and memories. *)

\* A constant address expression has that value everywhere, and tells its value.
LEMMA ConstIs ==
  /\ \A a \in Int : Const(a) \in [Worlds -> Int] /\ \A w \in Worlds : Const(a)[w] = a
  /\ \A a, b \in Int : Const(a) = Const(b) => a = b
<1>1. \A a \in Int : Const(a) \in [Worlds -> Int] /\ \A w \in Worlds : Const(a)[w] = a
  BY DEF Const
<1>2. PICK w \in Worlds : TRUE
  BY WorldsAssumption
<1> QED BY <1>1, <1>2

\* Adding a constant to an expression.
LEMMA PlusIs ==
  ASSUME NEW e \in [Worlds -> Int], NEW k \in Int
  PROVE  Plus(e, k) \in [Worlds -> Int] /\ \A w \in Worlds : Plus(e, k)[w] = e[w] + k
  BY DEF Plus

IsItem(p, int, at, val, t, guard) ==
  /\ p \in Items /\ (p.int <=> int)
  /\ p.at = at /\ p.val = val /\ p.t = t /\ p.guard = guard

\* The fields of a new item.
LEMMA ItemIs ==
  ASSUME NEW int \in BOOLEAN, NEW at \in [Worlds -> Int], NEW val \in Int \cup Bytes,
         NEW t \in Int, NEW guard \in [on : BOOLEAN, of : SUBSET Worlds],
         guard.on \/ guard.of = Worlds
  PROVE  IsItem(Item(int, at, val, t, guard), int, at, val, t, guard)
  BY DEF IsItem, Item, Items

\* The fields of an item.
LEMMA ItemType ==
  ASSUME NEW p \in Items
  PROVE  /\ p.int \in BOOLEAN /\ p.at \in [Worlds -> Int] /\ p.val \in Int \cup Bytes
         /\ p.t \in Int /\ p.guard \in [on : BOOLEAN, of : SUBSET Worlds]
         /\ p.guard.on \/ p.guard.of = Worlds
  BY DEF Items

\* The fields of a memory.
LEMMA MemoryType ==
  ASSUME NEW m \in Memories
  PROVE  /\ m.conc \in [Addrs -> Seq(Items)] /\ m.sym \in SUBSET [lo : Int, hi : Int, item : Items]
         /\ m.time \in Nat /\ m.implicit \in Int /\ m.implicit <= 0 /\ m.pending \in SUBSET EmptyMemory.pending
  BY DEF Memories

\* An entry with one item.
LEMMA RangeSingle ==
  ASSUME NEW p
  PROVE  Range(<<p>>) = {p}
  BY DEF Range

\* The items of a memory are those of its two tables.
LEMMA ItemsOf ==
  ASSUME NEW m \in Memories
  PROVE  /\ AllItems(m) \subseteq Items
         /\ \A p : p \in AllItems(m) <=> \/ \E a \in Addrs : p \in Range(m.conc[a])
                                         \/ \E x \in m.sym : p = x.item
<1>1. \A p : p \in AllItems(m) <=> \/ \E a \in Addrs : p \in Range(m.conc[a])
                                   \/ \E x \in m.sym : p = x.item
  BY DEF AllItems
<1>2. ASSUME NEW a \in Addrs, NEW p \in Range(m.conc[a]) PROVE p \in Items
  <2>1. m.conc[a] \in Seq(Items)
    BY MemoryType
  <2> QED BY <2>1, <1>2, RangeOfSeq
<1>3. \A x \in m.sym : x.item \in Items
  BY MemoryType
<1> QED BY <1>1, <1>2, <1>3

\* The kinds of items: the time of one tells the table it is in.
LEMMA Kinds ==
  ASSUME NEW m \in Memories, Placed(m)
  PROVE  /\ \A p \in AllItems(m) : p.t \in m.implicit .. m.time
         /\ \A p \in AllItems(m) : p.t = 0 => p.int
         /\ \A p \in AllItems(m) : p.int /\ p.t >= 0 =>
              \E a \in Addrs : p \in Range(m.conc[a]) /\ p.at = Const(a)
         /\ \A p \in AllItems(m) : ~(p.int /\ p.t >= 0) => \E x \in m.sym : p = x.item
         /\ \A x \in m.sym : ~(x.item.int /\ x.item.t >= 0)
<1>1. /\ \A a \in Addrs : \A p \in Range(m.conc[a]) :
           p.int /\ p.at = Const(a) /\ p.t \in 0 .. m.time
      /\ \A x \in m.sym : /\ x.item.t \in (m.implicit .. m.time) \ {0}
                          /\ x.item.t > 0 => ~x.item.int
  BY DEF Placed
<1>2. m.time \in Nat /\ m.implicit \in Int /\ m.implicit <= 0
  BY MemoryType
<1>3. \A p \in Items : p.t \in Int
  BY ItemType
<1>4. \A x \in m.sym : x.item \in Items
  BY MemoryType
<1>5. ASSUME NEW p, NEW a \in Addrs, p \in Range(m.conc[a])
      PROVE  p.int /\ p.at = Const(a) /\ p.t \in 0 .. m.time
  BY <1>1, <1>5
<1>6. ASSUME NEW x \in m.sym
      PROVE  /\ x.item.t \in Int /\ x.item.t # 0 /\ ~(x.item.int /\ x.item.t >= 0)
             /\ m.implicit <= x.item.t /\ x.item.t <= m.time
  <2>1. PICK t \in Int : t = x.item.t
    BY <1>3, <1>4
  <2>2. t \in m.implicit .. m.time /\ t # 0 /\ (t > 0 => ~x.item.int)
    BY <1>1, <2>1
  <2> QED BY <1>2, <2>1, <2>2
<1>7. ASSUME NEW p \in AllItems(m)
      PROVE  \/ \E a \in Addrs : p \in Range(m.conc[a])
             \/ \E x \in m.sym : p = x.item
  BY ItemsOf
<1>8. ASSUME NEW p \in AllItems(m)
      PROVE  /\ p.t \in m.implicit .. m.time
             /\ p.t = 0 => p.int
             /\ p.int /\ p.t >= 0 => \E a \in Addrs : p \in Range(m.conc[a]) /\ p.at = Const(a)
             /\ ~(p.int /\ p.t >= 0) => \E x \in m.sym : p = x.item
  <2>1. CASE \E a \in Addrs : p \in Range(m.conc[a])
    <3>1. PICK a \in Addrs : p \in Range(m.conc[a])
      BY <2>1
    <3>2. p.int /\ p.at = Const(a) /\ p.t \in 0 .. m.time
      BY <1>5, <3>1
    <3> QED BY <1>2, <3>1, <3>2
  <2>2. CASE \E x \in m.sym : p = x.item
    BY <1>2, <1>6, <2>2
  <2> QED BY <1>7, <2>1, <2>2
<1> QED BY <1>6, <1>8

-----------------------------------------------------------------------------
(* Loading chunks of the binary. *)

\* An item that holds a byte of the binary.
IsImage(p, a) ==
  p \in Items /\ p.int /\ p.at = Const(a) /\ p.t = 0 /\ ~p.guard.on

IsLoaded(m, l) ==
  /\ l \in Memories
  /\ l.sym = m.sym /\ l.time = m.time /\ l.implicit = m.implicit
  /\ l.pending \subseteq m.pending
  /\ \A a \in Addrs : \/ l.conc[a] = m.conc[a]
                      \/ \E p : IsImage(p, a) /\ l.conc[a] = <<p>>

\* What a chunk of the binary writes to an address.
LEMMA ChunkByte ==
  ASSUME NEW c \in EmptyMemory.pending, NEW a \in Int, Covers(c, a)
  PROVE  c.bytes[a - Start(c) + 1] \in Nat \ {0}
<1>1. PICK g \in Segments : c \in Chunks(g)
  BY DEF EmptyMemory
<1>2. IsChunk(c, g)
  BY <1>1, ChunkCovers
<1>3. a - g.addr \in 0 .. Len(g.bytes) - 1
       /\ c.bytes[a - Start(c) + 1] = g.bytes[a - g.addr + 1]
  BY <1>2 DEF IsChunk, In
<1>4. PICK i \in Int : i = a - g.addr + 1
  BY <1>3
<1>5. i \in 1 .. Len(g.bytes)
  BY <1>3, <1>4, SegmentType
<1> QED BY <1>3, <1>4, <1>5, SegmentType

\* _load_init_data changes only addresses without an entry.
LEMMA LoadedAs ==
  ASSUME NEW m \in Memories, NEW touched \in SUBSET m.pending
  PROVE  IsLoaded(m, LoadChunks(m, touched))
<1> DEFINE For(a) == {c \in touched : Covers(c, a) /\ ~Stored(m, c, a)}
           Byte(c, a) == Item(TRUE, Const(a), c.bytes[a - Start(c) + 1], 0, NoGuard)
           l == LoadChunks(m, touched)
           conc == [a \in Addrs |->
                     IF For(a) = {} THEN m.conc[a] ELSE <<Byte(CHOOSE c \in For(a) : TRUE, a)>>]
<1>1. l = [m EXCEPT !.pending = @ \ touched, !.conc = conc]
  BY DEF LoadChunks
<1>2. ASSUME NEW a \in Addrs, For(a) # {} PROVE IsImage(Byte(CHOOSE c \in For(a) : TRUE, a), a)
  <2>1. PICK c : c = CHOOSE d \in For(a) : TRUE
    OBVIOUS
  <2>2. c \in For(a)
    BY <1>2, <2>1
  <2>3. c \in EmptyMemory.pending /\ Covers(c, a) /\ a \in Int
    BY <2>2, MemoryType, AddrsAssumption
  <2>4. c.bytes[a - Start(c) + 1] \in Int \cup Bytes
    BY <2>3, ChunkByte
  <2>5. NoGuard \in [on : BOOLEAN, of : SUBSET Worlds] /\ NoGuard.of = Worlds /\ ~NoGuard.on
    BY DEF NoGuard
  <2>6. Const(a) \in [Worlds -> Int]
    BY <2>3, ConstIs
  <2>7. PICK v \in Int \cup Bytes : v = c.bytes[a - Start(c) + 1]
    BY <2>4
  <2>8. IsImage(Item(TRUE, Const(a), v, 0, NoGuard), a)
    <3>1. IsItem(Item(TRUE, Const(a), v, 0, NoGuard), TRUE, Const(a), v, 0, NoGuard)
      BY <2>5, <2>6 DEF IsItem, Item, Items
    <3> QED BY <2>5, <3>1 DEF IsImage, IsItem
  <2> QED BY <2>1, <2>7, <2>8
<1>3. \A a \in Addrs : \/ conc[a] = m.conc[a]
                       \/ \E p : IsImage(p, a) /\ conc[a] = <<p>>
  BY <1>2
<1>4. conc \in [Addrs -> Seq(Items)]
  <2> SUFFICES ASSUME NEW a \in Addrs PROVE conc[a] \in Seq(Items)
    OBVIOUS
  <2>1. m.conc[a] \in Seq(Items)
    BY MemoryType
  <2>2. \A p \in Items : <<p>> \in Seq(Items)
    OBVIOUS
  <2> QED BY <1>3, <2>1, <2>2 DEF IsImage
<1> HIDE DEF conc
<1>5. /\ l.conc = conc /\ l.sym = m.sym /\ l.time = m.time /\ l.implicit = m.implicit
      /\ l.pending = m.pending \ touched
      /\ l \in Memories
  BY <1>1, <1>4 DEF Memories
<1> HIDE DEF l
<1>6. IsLoaded(m, l)
  BY <1>3, <1>5 DEF IsLoaded
<1> QED BY <1>6 DEF l

\* Every loading of the binary is such a loading.
LEMMA LoadedFrom ==
  ASSUME NEW m \in Memories
  PROVE  /\ \A a, n : IsLoaded(m, LoadInitData(m, a, n))
         /\ \A P : IsLoaded(m, LoadPages(m, P))
  BY LoadedAs DEF LoadInitData, LoadPages

\* _load_init_data files the bytes of the binary at their own addresses.
LEMMA LoadedPlaced ==
  ASSUME NEW m \in Memories, Placed(m), NEW l, IsLoaded(m, l)
  PROVE  Placed(l)
<1>1. m.time \in Nat
  BY MemoryType
<1>2. ASSUME NEW a \in Addrs, NEW p \in Range(l.conc[a])
      PROVE  p.int /\ p.at = Const(a) /\ p.t \in 0 .. l.time
  <2>1. CASE l.conc[a] = m.conc[a]
    BY <1>2, <2>1 DEF IsLoaded, Placed
  <2>2. CASE \E q : IsImage(q, a) /\ l.conc[a] = <<q>>
    <3>1. IsImage(p, a) /\ l.time = m.time
      BY <1>2, <2>2, RangeSingle DEF IsLoaded
    <3>2. 0 \in 0 .. m.time
      BY <1>1
    <3> QED BY <3>1, <3>2 DEF IsImage
  <2> QED BY <2>1, <2>2 DEF IsLoaded
<1> QED BY <1>2 DEF IsLoaded, Placed

\* A loaded memory has the items it had and items of the binary, and where it
\* has one of these it has no other item of the concrete memory.
LEMMA LoadedItems ==
  ASSUME NEW m \in Memories, Placed(m), NEW l, IsLoaded(m, l), NEW p \in AllItems(l)
  PROVE  \/ p \in AllItems(m)
         \/ \E a \in Addrs : IsImage(p, a) /\ l.conc[a] = <<p>>
<1>1. l \in Memories /\ l.sym = m.sym
  BY DEF IsLoaded
<1>2. CASE \E x \in l.sym : p = x.item
  BY <1>1, <1>2, ItemsOf
<1>3. CASE \E a \in Addrs : p \in Range(l.conc[a])
  <2>1. PICK a \in Addrs : p \in Range(l.conc[a])
    BY <1>3
  <2>2. CASE l.conc[a] = m.conc[a]
    BY <2>1, <2>2, ItemsOf
  <2>3. CASE \E q : IsImage(q, a) /\ l.conc[a] = <<q>>
    BY <2>1, <2>3, RangeSingle
  <2> QED BY <2>2, <2>3 DEF IsLoaded
<1> QED BY <1>1, <1>2, <1>3, ItemsOf

\* _load_init_data adds no second item with the timestamp of another.
LEMMA LoadedDistinct ==
  ASSUME NEW m \in Memories, Placed(m), NEW l, IsLoaded(m, l),
         NEW own, NEW a, NEW w \in Worlds, Distinct(Before(m, own, a), w)
  PROVE  Distinct(Before(l, own, a), w)
<1> SUFFICES ASSUME NEW x \in Addrs,
                    NEW p \in Hits(Before(l, own, a), w, x),
                    NEW q \in Hits(Before(l, own, a), w, x), p.t = q.t
             PROVE  p = q
  BY DEF Distinct
<1>1. l \in Memories /\ Placed(l)
  BY LoadedPlaced DEF IsLoaded
<1>2. /\ p \in AllItems(l) /\ p.at[w] = x /\ w \in p.guard.of /\ (own \/ ~Since(p, a))
      /\ q \in AllItems(l) /\ q.at[w] = x /\ w \in q.guard.of /\ (own \/ ~Since(q, a))
  BY DEF Hits, Before
<1>3. ASSUME NEW y \in Addrs, NEW i \in AllItems(l), NEW j \in AllItems(l),
             i.t = j.t, i.at[w] = j.at[w], IsImage(i, y), l.conc[y] = <<i>>
      PROVE  i = j
  <2>1. j.t = 0
    BY <1>3 DEF IsImage
  <2>2. PICK z \in Addrs : j \in Range(l.conc[z]) /\ j.at = Const(z)
    <3>1. /\ \A r \in AllItems(l) : r.t = 0 => r.int
          /\ \A r \in AllItems(l) : r.int /\ r.t >= 0 =>
               \E z \in Addrs : r \in Range(l.conc[z]) /\ r.at = Const(z)
      BY <1>1, Kinds
    <3>2. j.int /\ j.t >= 0
      BY <2>1, <3>1
    <3> QED BY <3>1, <3>2
  <2>3. z = y
    BY <1>3, <2>2, ConstIs, AddrsAssumption DEF IsImage
  <2> QED BY <1>3, <2>2, <2>3, RangeSingle
<1>4. CASE p \in AllItems(m) /\ q \in AllItems(m)
  <2>1. p \in Hits(Before(m, own, a), w, x) /\ q \in Hits(Before(m, own, a), w, x)
    BY <1>2, <1>4 DEF Hits, Before
  <2> QED BY <2>1 DEF Distinct
<1>5. CASE \E y \in Addrs : IsImage(p, y) /\ l.conc[y] = <<p>>
  <2>1. PICK y \in Addrs : IsImage(p, y) /\ l.conc[y] = <<p>>
    BY <1>5
  <2>2. p.at[w] = q.at[w]
    BY <1>2
  <2> QED BY <1>2, <1>3, <2>1, <2>2
<1>6. CASE \E y \in Addrs : IsImage(q, y) /\ l.conc[y] = <<q>>
  <2>1. PICK y \in Addrs : IsImage(q, y) /\ l.conc[y] = <<q>>
    BY <1>6
  <2>2. p.at[w] = q.at[w]
    BY <1>2
  <2> QED BY <1>2, <1>3, <2>1, <2>2
<1>7. /\ p \in AllItems(m) \/ \E y \in Addrs : IsImage(p, y) /\ l.conc[y] = <<p>>
      /\ q \in AllItems(m) \/ \E y \in Addrs : IsImage(q, y) /\ l.conc[y] = <<q>>
  BY <1>2, LoadedItems
<1> QED BY <1>4, <1>5, <1>6, <1>7

\* _load_init_data adds items of time 0, which only concrete items have.
LEMMA LoadedAgree ==
  ASSUME NEW m \in Memories, Placed(m), NEW l, IsLoaded(m, l),
         NEW own, NEW a, NEW w \in Worlds,
         NEW B, \A q \in B : q.t = 0 => q.int, Agree(Before(m, own, a), B, w)
  PROVE  Agree(Before(l, own, a), B, w)
<1> SUFFICES ASSUME NEW x \in Addrs,
                    NEW p \in Hits(Before(l, own, a), w, x), NEW q \in Hits(B, w, x), p.t = q.t
             PROVE  p.int = q.int
  BY DEF Agree
<1>1. p \in AllItems(l) /\ (own \/ ~Since(p, a))
  BY DEF Hits, Before
<1>2. CASE p \in AllItems(m)
  <2>1. p \in Hits(Before(m, own, a), w, x)
    BY <1>1, <1>2 DEF Hits, Before
  <2> QED BY <2>1 DEF Agree
<1>3. CASE \E y \in Addrs : IsImage(p, y) /\ l.conc[y] = <<p>>
  <2>1. p.int /\ p.t = 0 /\ q.int
    BY <1>3 DEF IsImage, Hits
  <2>2. p.int \in BOOLEAN
    BY <1>3, ItemType DEF IsImage
  <2> QED BY <2>1
<1> QED BY <1>1, <1>2, <1>3, LoadedItems

-----------------------------------------------------------------------------
(* Items that agree, and items that are distinct. *)

\* Fewer items keep agreeing.
LEMMA Narrower ==
  ASSUME NEW A, NEW B, NEW w
  PROVE  /\ \A C \in SUBSET A : Distinct(A, w) => Distinct(C, w)
         /\ Distinct(A, w) => Agree(A, A, w)
         /\ Agree(A, B, w) => Agree(B, A, w)
         /\ \A C \in SUBSET A : Agree(A, B, w) => Agree(C, B, w)
  BY DEF Distinct, Agree, Hits

\* An item added at a time no other item has been given yet.
IsNew(p, l) == p.t \in Int /\ (p.t > l.time \/ p.t < l.implicit)

\* An item later than all of a memory is not before an ancestor of its state.
LEMMA NewIsSince ==
  ASSUME NEW l \in Memories, NEW p, IsNew(p, l), NEW a \in [time : Int, implicit : Int],
         a.time <= l.time, a.implicit >= l.implicit
  PROVE  Since(p, a) /\ p.t # 0
<1>1. l.time \in Nat /\ l.implicit \in Int /\ l.implicit <= 0
  BY MemoryType
<1>2. a.time \in Int /\ a.implicit \in Int
  OBVIOUS
<1> QED BY <1>1, <1>2 DEF IsNew, Since

\* New items that hold for the same address in a world differ in time.
NewApart(New, w) ==
  \A p, q \in New : p.t = q.t /\ p.at[w] = q.at[w] => p = q

\* An item made before two histories parted has no time of a new item of either.
LEMMA NewIsLater ==
  ASSUME NEW l \in Memories, NEW p, IsNew(p, l), NEW a \in [time : Int, implicit : Int],
         a.time <= l.time, a.implicit >= l.implicit, a.time >= 0, a.implicit <= 0,
         NEW q \in Items, ~Since(q, a)
  PROVE  p.t # q.t
<1>1. l.time \in Nat /\ l.implicit \in Int /\ l.implicit <= 0
  BY MemoryType
<1>2. a.time \in Int /\ a.implicit \in Int
  OBVIOUS
<1>3. PICK t \in Int : t = q.t
  BY ItemType
<1>4. ~(t > 0 /\ t >= a.time) /\ ~(t < 0 /\ t <= a.implicit)
  BY <1>3 DEF Since
<1>5. PICK u \in Int : u = p.t /\ (u > l.time \/ u < l.implicit)
  BY DEF IsNew
<1> QED BY <1>1, <1>2, <1>3, <1>4, <1>5

\* Items newer than the rest, with distinct times, are told apart.
LEMMA UpdatedDistinct ==
  ASSUME NEW l \in Memories, Placed(l), NEW m, NEW New, NEW w \in Worlds,
         AllItems(m) \subseteq AllItems(l) \cup New,
         \A p \in New : IsNew(p, l), NewApart(New, w),
         NEW own \in BOOLEAN, NEW a \in [time : Int, implicit : Int],
         a.time <= l.time, a.implicit >= l.implicit,
         Distinct(Before(l, own, a), w)
  PROVE  Distinct(Before(m, own, a), w)
<1> SUFFICES ASSUME NEW x \in Addrs,
                    NEW p \in Hits(Before(m, own, a), w, x),
                    NEW q \in Hits(Before(m, own, a), w, x), p.t = q.t
             PROVE  p = q
  BY DEF Distinct
<1>1. /\ p \in AllItems(m) /\ p.at[w] = x /\ w \in p.guard.of /\ (own \/ ~Since(p, a))
      /\ q \in AllItems(m) /\ q.at[w] = x /\ w \in q.guard.of /\ (own \/ ~Since(q, a))
  BY DEF Hits, Before
<1>2. ASSUME NEW i \in AllItems(l) PROVE ~IsNew(i, l)
  <2>1. i.t \in l.implicit .. l.time /\ l.implicit \in Int /\ l.time \in Int
    BY Kinds, MemoryType
  <2> QED BY <2>1 DEF IsNew
<1>3. CASE p \in New /\ q \in New
  BY <1>1, <1>3 DEF NewApart
<1>4. CASE p \in AllItems(l) /\ q \in AllItems(l)
  <2>1. p \in Hits(Before(l, own, a), w, x) /\ q \in Hits(Before(l, own, a), w, x)
    BY <1>1, <1>4 DEF Hits, Before
  <2> QED BY <2>1 DEF Distinct
<1>5. IsNew(p, l) <=> IsNew(q, l)
  BY DEF IsNew
<1> QED BY <1>1, <1>2, <1>3, <1>4, <1>5

\* Items newer than what two states share do not come into it.
LEMMA UpdatedAgree ==
  ASSUME NEW l \in Memories, Placed(l), NEW m, NEW New, NEW w \in Worlds,
         AllItems(m) \subseteq AllItems(l) \cup New,
         \A p \in New : IsNew(p, l),
         NEW own \in BOOLEAN, NEW a \in [time : Int, implicit : Int],
         a.time <= l.time, a.implicit >= l.implicit, a.time >= 0, a.implicit <= 0,
         NEW B, B \subseteq Items, own => \A q \in B : ~Since(q, a),
         Agree(Before(l, own, a), B, w)
  PROVE  Agree(Before(m, own, a), B, w)
<1> SUFFICES ASSUME NEW x \in Addrs,
                    NEW p \in Hits(Before(m, own, a), w, x),
                    NEW q \in Hits(B, w, x), p.t = q.t
             PROVE  p.int = q.int
  BY DEF Agree
<1>1. /\ p \in AllItems(m) /\ p.at[w] = x /\ w \in p.guard.of /\ (own \/ ~Since(p, a))
      /\ q \in B
  BY DEF Hits, Before
<1>2. CASE p \in New
  <2>1. Since(p, a)
    BY <1>2, NewIsSince
  <2>2. ~Since(q, a) /\ q \in Items
    BY <1>1, <2>1
  <2> QED BY <1>2, <2>2, NewIsLater
<1>3. CASE p \in AllItems(l)
  <2>1. p \in Hits(Before(l, own, a), w, x)
    BY <1>1, <1>3 DEF Hits, Before
  <2> QED BY <2>1 DEF Agree
<1> QED BY <1>1, <1>2, <1>3

-----------------------------------------------------------------------------
(* A step that changes the memory of one state. *)

IsUpdate(s, l, New) ==
  /\ s \in States
  /\ path'[s] \in SUBSET path[s] /\ path' = [path EXCEPT ![s] = path'[s]]
  /\ mem' = [mem EXCEPT ![s] = mem'[s]]
  /\ anc' = anc
  /\ IsLoaded(mem[s], l)
  /\ AllItems(mem'[s]) \subseteq AllItems(l) \cup New
  /\ \A p \in New : IsNew(p, l)
  /\ \A w \in path'[s] : NewApart(New, w)

\* A step that adds new items to one state keeps timestamps telling.
LEMMA UpdateKeepsOne ==
  ASSUME TypeOK, Ancestry, OneAtATime, NEW s, NEW l, NEW New, IsUpdate(s, l, New)
  PROVE  OneAtATime'
<1>1. /\ s \in States /\ path' = [path EXCEPT ![s] = path'[s]]
      /\ path'[s] \in SUBSET path[s] /\ mem' = [mem EXCEPT ![s] = mem'[s]] /\ anc' = anc
      /\ IsLoaded(mem[s], l) /\ AllItems(mem'[s]) \subseteq AllItems(l) \cup New
      /\ (\A p \in New : IsNew(p, l)) /\ \A w \in path'[s] : NewApart(New, w)
  BY DEF IsUpdate
<1>2. /\ path \in [States -> SUBSET Worlds]
      /\ \A r \in States : mem[r] \in Memories /\ Placed(mem[r])
      /\ \A r, o \in States : anc[r][o] \in [time : Int, implicit : Int]
      /\ mem \in [States -> Memories]
  BY DEF TypeOK
<1>3. l \in Memories /\ Placed(l) /\ l.time = mem[s].time /\ l.implicit = mem[s].implicit
  BY <1>1, <1>2, LoadedPlaced DEF IsLoaded
<1>4. \A r \in States : path'[r] \in SUBSET path[r] /\ (r # s => mem'[r] = mem[r])
  BY <1>1, <1>2
<1>5. \A r \in Live' : r \in Live /\ r \in States
  BY <1>4 DEF Live
<1>6. ASSUME NEW o \in States
      PROVE  /\ anc[s][o] \in [time : Int, implicit : Int]
             /\ anc[s][o].time <= l.time /\ anc[s][o].implicit >= l.implicit
             /\ anc[s][o].time >= 0 /\ anc[s][o].implicit <= 0
             /\ anc[o][s] = anc[s][o]
  <2>1. /\ anc[s][o] = anc[o][s]
        /\ anc[s][o].time \in 0 .. mem[s].time /\ anc[s][o].implicit \in mem[s].implicit .. 0
    BY <1>1 DEF Ancestry
  <2>2. l.time \in Int /\ l.implicit \in Int
    BY <1>3, MemoryType
  <2> QED BY <1>1, <1>2, <1>3, <2>1, <2>2
<1>7. ASSUME NEW z \in Live', NEW w \in path'[z]
      PROVE  /\ z \in States /\ w \in path[z] /\ w \in Worlds
             /\ \A r \in Live' : Distinct(Shared(r, z), w)
             /\ \A r, o \in Live' : Agree(Shared(r, z), Shared(o, z), w)
  BY <1>2, <1>4, <1>5, <1>7 DEF OneAtATime
<1>8. ASSUME NEW z \in Live', NEW w \in path'[z], s \in Live'
      PROVE  Distinct(Before(mem'[s], s = z, anc[s][z]), w)
  <2>1. PICK own \in BOOLEAN : own <=> s = z
    OBVIOUS
  <2>2. Distinct(Before(mem[s], own, anc[s][z]), w)
    BY <1>7, <1>8, <2>1 DEF Shared, Before
  <2>3. Distinct(Before(l, own, anc[s][z]), w)
    BY <1>1, <1>2, <1>7, <2>2, LoadedDistinct
  <2>4. CASE ~own
    <3>1. Before(mem'[s], own, anc[s][z]) \subseteq Before(l, own, anc[s][z])
      BY <1>1, <1>3, <1>6, <1>7, <2>4, NewIsSince DEF Before
    <3>2. Distinct(Before(mem'[s], own, anc[s][z]), w)
      BY <2>3, <3>1, Narrower
    <3> QED BY <2>1, <3>2 DEF Before
  <2>5. CASE own
    <3>1. NewApart(New, w)
      BY <1>1, <1>8, <2>1, <2>5
    <3>2. Distinct(Before(mem'[s], own, anc[s][z]), w)
      BY <1>1, <1>3, <1>6, <1>7, <2>3, <3>1, UpdatedDistinct
    <3> QED BY <2>1, <3>2 DEF Before
  <2> QED BY <2>4, <2>5
<1>9. ASSUME NEW z \in Live', NEW w \in path'[z], s \in Live', NEW o \in Live', o # s
      PROVE  Agree(Before(mem'[s], s = z, anc[s][z]), Shared(o, z), w)
  <2>1. PICK own \in BOOLEAN : own <=> s = z
    OBVIOUS
  <2>a. PICK a : a = anc[s][IF own THEN o ELSE z]
    OBVIOUS
  <2>2. Agree(Before(mem[s], own, a), Shared(o, z), w)
    BY <1>7, <1>9, <2>1, <2>a DEF Shared, Before
  <2>3. o \in States /\ mem[o] \in Memories /\ Placed(mem[o])
    BY <1>2, <1>5
  <2>4. Shared(o, z) \subseteq AllItems(mem[o])
    BY DEF Shared, Before
  <2>5. Shared(o, z) \subseteq Items /\ \A q \in Shared(o, z) : q.t = 0 => q.int
    BY <2>3, <2>4, Kinds, ItemsOf
  <2>6. own => \A q \in Shared(o, z) : ~Since(q, a)
    <3>1. own => anc[o][z] = a
      BY <1>6, <2>1, <2>3, <2>a
    <3> QED BY <1>9, <2>1, <3>1 DEF Shared, Before
  <2>b. /\ a \in [time : Int, implicit : Int]
        /\ a.time <= l.time /\ a.implicit >= l.implicit /\ a.time >= 0 /\ a.implicit <= 0
    BY <1>6, <1>7, <2>3, <2>a
  <2>7. Agree(Before(l, own, a), Shared(o, z), w)
    BY <1>1, <1>2, <1>7, <2>2, <2>5, LoadedAgree
  <2>8. Agree(Before(mem'[s], own, a), Shared(o, z), w)
    BY <1>1, <1>3, <1>7, <2>b, <2>5, <2>6, <2>7, UpdatedAgree
  <2> QED BY <2>1, <2>8, <2>a DEF Before
<1> SUFFICES ASSUME NEW r \in Live', NEW z \in Live', NEW w \in path'[z]
             PROVE  /\ Distinct(Before(mem'[r], r = z, anc[r][z]), w)
                    /\ \A o \in Live' : Agree(Before(mem'[r], r = z, anc[r][z]),
                                              Before(mem'[o], o = z, anc[o][z]), w)
  BY <1>1 DEF OneAtATime, Shared
<1>10. \A o \in Live' : o # s => Before(mem'[o], o = z, anc[o][z]) = Shared(o, z)
  BY <1>4, <1>5 DEF Shared
<1>11. Distinct(Before(mem'[r], r = z, anc[r][z]), w)
  BY <1>7, <1>8, <1>10
<1>12. ASSUME NEW o \in Live'
       PROVE  Agree(Before(mem'[r], r = z, anc[r][z]), Before(mem'[o], o = z, anc[o][z]), w)
  <2>1. CASE r = o
    BY <1>11, <2>1, Narrower
  <2>2. CASE r = s /\ o # s
    BY <1>9, <1>10, <2>2
  <2>3. CASE r # s /\ o = s
    <3>1. Agree(Before(mem'[o], o = z, anc[o][z]), Before(mem'[r], r = z, anc[r][z]), w)
      BY <1>9, <1>10, <2>3
    <3> QED BY <3>1, Narrower
  <2>4. CASE r # s /\ o # s
    BY <1>7, <1>10, <2>4
  <2> QED BY <2>1, <2>2, <2>3, <2>4
<1> QED BY <1>11, <1>12

-----------------------------------------------------------------------------
(* What a store leaves in the tables. *)

Files == [lo : Int, hi : Int, item : Items]

\* Byte k of a store at time t, under the addresses it may stand for.
IsByte(f, b, k, t) ==
  /\ f \in Files /\ f.lo = b.lo + k /\ f.hi = b.hi + k + 1
  /\ (f.item.int <=> b.int) /\ f.item.at = Plus(b.at, k) /\ f.item.t = t

\* An address with its least and greatest value.
IsAddress(b) ==
  /\ b.lo \in Int /\ b.hi \in Int /\ b.lo <= b.hi
  /\ b.at \in [Worlds -> Int] /\ b.int \in BOOLEAN
  /\ b.int => b.at = Const(b.lo)

\* Filed and Item make byte k of a store.
LEMMA ByteIs ==
  ASSUME NEW b, IsAddress(b), NEW k \in Int, NEW val \in Int \cup Bytes, NEW t \in Int,
         NEW guard \in [on : BOOLEAN, of : SUBSET Worlds], guard.on \/ guard.of = Worlds,
         NEW f, f = Filed(b, k, Item(b.int, Plus(b.at, k), val, t, guard))
  PROVE  IsByte(f, b, k, t) /\ f.item.val = val /\ f.item.guard = guard
<1>1. Plus(b.at, k) \in [Worlds -> Int]
  BY PlusIs DEF IsAddress
<1>2. PICK item : item = Item(b.int, Plus(b.at, k), val, t, guard)
  OBVIOUS
<1>3. IsItem(item, b.int, Plus(b.at, k), val, t, guard)
  BY <1>1, <1>2, ItemIs DEF IsAddress
<1>5. f = [lo |-> b.lo + k, hi |-> b.hi + k + 1, item |-> item]
  BY <1>2 DEF Filed
<1>6. f \in Files /\ f.lo = b.lo + k /\ f.hi = b.hi + k + 1 /\ f.item = item
  BY <1>3, <1>5 DEF IsAddress, IsItem, Files
<1> QED BY <1>3, <1>6 DEF IsByte, IsItem

\* The addresses of the bytes of one store differ in every world.
LEMMA BytesApart ==
  ASSUME NEW b, IsAddress(b), NEW t, NEW new, DOMAIN new \subseteq Int,
         \A k \in DOMAIN new : IsByte(new[k], b, k, t), NEW w \in Worlds
  PROVE  NewApart({new[k].item : k \in DOMAIN new}, w)
<1>1. \A k \in DOMAIN new : new[k].item.at[w] = b.at[w] + k
  BY PlusIs DEF IsAddress, IsByte
<1>2. b.at[w] \in Int
  BY DEF IsAddress
<1>3. ASSUME NEW j \in DOMAIN new, NEW k \in DOMAIN new, new[j].item.at[w] = new[k].item.at[w]
      PROVE  j = k
  BY <1>1, <1>2, <1>3
<1> QED BY <1>3 DEF NewApart

\* What an entry holds after a store.
LEMMA PutIs ==
  ASSUME NEW old \in Seq(Items), NEW item \in Items
  PROVE  /\ Put(old, item) \in Seq(Items)
         /\ Range(Put(old, item)) \subseteq {item} \cup Range(old)
<1>1. <<item>> \in Seq(Items)
  OBVIOUS
<1>2. /\ <<item>> \o old \in Seq(Items)
      /\ Range(<<item>> \o old) = Range(<<item>>) \cup Range(old)
  BY <1>1, ConcatProperties, RangeConcatenation
<1> QED BY <1>1, <1>2, RangeSingle DEF Put

\* The items of the tree after a store: those that were there, the new ones,
\* and those that took the place of an older one.
FromStore(m, new, x) ==
  \/ x \in m.sym
  \/ \E k \in DOMAIN new : x = new[k]
  \/ \E k \in DOMAIN new : \E y \in m.sym :
       /\ ~new[k].item.guard.on /\ y.item.at = new[k].item.at
       /\ x.lo = y.lo /\ x.hi = y.hi /\ x.item = new[k].item

IsStored(m, b, new, n) ==
  /\ n \in Memories
  /\ n.time = m.time /\ n.implicit = m.implicit /\ n.pending = m.pending
  /\ AllItems(n) \subseteq AllItems(m) \cup {new[k].item : k \in DOMAIN new}
  /\ b.int => n.sym = m.sym
  /\ \A x \in n.sym : FromStore(m, new, x)

\* store(): every item was there before or is a byte of the store.
LEMMA StoredAre ==
  ASSUME NEW m \in Memories, Placed(m), m.time > 0, NEW b, IsAddress(b),
         NEW new, DOMAIN new \subseteq Int,
         \A k \in DOMAIN new : IsByte(new[k], b, k, m.time),
         NEW n \in StoreBytes(m, b, new)
  PROVE  IsStored(m, b, new, n) /\ Placed(n)
<1>1. /\ m.conc \in [Addrs -> Seq(Items)] /\ m.sym \in SUBSET Files
      /\ m.time \in Nat /\ m.implicit \in Int /\ m.implicit <= 0
  BY MemoryType DEF Files
<1>2. \A k \in DOMAIN new : new[k] \in Files /\ new[k].item \in Items
  BY DEF IsByte, Files
<1>3. CASE b.int
  <2> DEFINE conc == [a \in Addrs |->
               IF a - b.lo \in DOMAIN new THEN Put(m.conc[a], new[a - b.lo].item) ELSE m.conc[a]]
  <2>1. n = [m EXCEPT !.conc = conc]
    BY <1>3 DEF StoreBytes
  <2>2. \A a \in Addrs : conc[a] = IF a - b.lo \in DOMAIN new
                                     THEN Put(m.conc[a], new[a - b.lo].item) ELSE m.conc[a]
    OBVIOUS
  <2>3. conc \in [Addrs -> Seq(Items)]
    BY <1>1, <1>2, PutIs
  <2> HIDE DEF conc
  <2>4. n \in Memories /\ n.conc = conc /\ n.sym = m.sym /\ n.time = m.time
        /\ n.implicit = m.implicit /\ n.pending = m.pending
    BY <2>1, <2>3 DEF Memories
  <2>5. ASSUME NEW a \in Addrs, NEW p \in Range(conc[a])
        PROVE  \/ p \in Range(m.conc[a])
               \/ \E k \in DOMAIN new : a = b.lo + k /\ p = new[k].item
    <3>1. CASE a - b.lo \in DOMAIN new
      <4>1. a \in Int /\ b.lo \in Int /\ a = b.lo + (a - b.lo)
        BY AddrsAssumption DEF IsAddress
      <4>2. PICK k \in DOMAIN new : k = a - b.lo
        BY <3>1
      <4>3. Range(conc[a]) \subseteq {new[k].item} \cup Range(m.conc[a])
        BY <1>1, <1>2, <2>2, <4>2, PutIs
      <4> QED BY <4>1, <4>2, <4>3
    <3>2. CASE a - b.lo \notin DOMAIN new
      BY <2>2, <3>2
    <3> QED BY <3>1, <3>2
  <2>6. AllItems(n) \subseteq AllItems(m) \cup {new[k].item : k \in DOMAIN new}
    BY <2>4, <2>5, ItemsOf
  <2>7. IsStored(m, b, new, n)
    BY <2>4, <2>6 DEF IsStored, FromStore
  <2>8. ASSUME NEW a \in Addrs, NEW p \in Range(n.conc[a])
        PROVE  p.int /\ p.at = Const(a) /\ p.t \in 0 .. n.time
    <3>1. CASE p \in Range(m.conc[a])
      BY <2>4, <3>1 DEF Placed
    <3>2. CASE \E k \in DOMAIN new : a = b.lo + k /\ p = new[k].item
      <4>1. PICK k \in DOMAIN new : a = b.lo + k /\ p = new[k].item
        BY <3>2
      <4>2. p.int /\ p.at = Plus(Const(b.lo), k) /\ p.t = m.time
        BY <1>3, <4>1 DEF IsByte, IsAddress
      <4>3. Plus(Const(b.lo), k) = Const(a)
        BY <4>1 DEF Plus, Const
      <4> QED BY <1>1, <2>4, <4>2, <4>3
    <3> QED BY <2>4, <2>5, <3>1, <3>2
  <2>9. Placed(n)
    BY <2>4, <2>8 DEF Placed
  <2> QED BY <2>7, <2>9
<1>4. CASE ~b.int
  <2>1. PICK place \in [DOMAIN new -> m.sym \cup Range(new)] :
          /\ \A k \in DOMAIN new : place[k] \in Places(m.sym, new[k])
          /\ n = [m EXCEPT !.sym = (@ \ Range(place))
                    \cup {[place[k] EXCEPT !.item = new[k].item] : k \in DOMAIN new}]
    BY <1>4 DEF StoreBytes
  <2> DEFINE sym == (m.sym \ Range(place))
                      \cup {[place[k] EXCEPT !.item = new[k].item] : k \in DOMAIN new}
  <2>2. ASSUME NEW k \in DOMAIN new
        PROVE  /\ [place[k] EXCEPT !.item = new[k].item] \in Files
               /\ FromStore(m, new, [place[k] EXCEPT !.item = new[k].item])
               /\ [place[k] EXCEPT !.item = new[k].item].lo < [place[k] EXCEPT !.item = new[k].item].hi
               /\ [place[k] EXCEPT !.item = new[k].item].item = new[k].item
    <3>1. \/ place[k] = new[k]
          \/ /\ place[k] \in m.sym /\ ~new[k].item.guard.on
             /\ place[k].item.at = new[k].item.at
      BY <2>1 DEF Places
    <3>2. PICK f : f = place[k]
      OBVIOUS
    <3>3. PICK i \in Items : i = new[k].item
      BY <1>2
    <3>4. f \in Files
      BY <1>1, <1>2, <3>1, <3>2
    <3>5. PICK x : x = [f EXCEPT !.item = i]
      OBVIOUS
    <3>6. x \in Files /\ x.lo = f.lo /\ x.hi = f.hi /\ x.item = i
      BY <3>4, <3>5 DEF Files
    <3>7. f.lo < f.hi
      <4>1. CASE f \in m.sym
        BY <4>1 DEF Placed
      <4>2. CASE f = new[k]
        <5>1. f.lo = b.lo + k /\ f.hi = b.hi + k + 1 /\ k \in Int
          BY <4>2 DEF IsByte
        <5> QED BY <5>1 DEF IsAddress
      <4> QED BY <3>1, <3>2, <4>1, <4>2
    <3>8. FromStore(m, new, x)
      <4>1. CASE f = new[k]
        <5>1. x = f
          BY <3>3, <3>4, <3>5, <4>1 DEF Files
        <5> QED BY <4>1, <5>1 DEF FromStore
      <4>2. CASE f # new[k]
        BY <3>1, <3>2, <3>3, <3>6, <4>2 DEF FromStore
      <4> QED BY <4>1, <4>2
    <3> QED BY <3>2, <3>3, <3>5, <3>6, <3>7, <3>8
  <2>3. ASSUME NEW x \in sym
        PROVE  x \in m.sym \/ \E k \in DOMAIN new : x = [place[k] EXCEPT !.item = new[k].item]
    OBVIOUS
  <2>4. sym \in SUBSET Files
    BY <1>1, <2>2, <2>3
  <2>5. n = [m EXCEPT !.sym = sym]
    BY <2>1
  <2> HIDE DEF sym
  <2>6. n \in Memories /\ n.conc = m.conc /\ n.sym = sym /\ n.time = m.time
        /\ n.implicit = m.implicit /\ n.pending = m.pending
    BY <2>4, <2>5 DEF Memories, Files
  <2>7. \A x \in sym : FromStore(m, new, x)
    <3>1. \A x \in m.sym : FromStore(m, new, x)
      BY DEF FromStore
    <3> QED BY <2>2, <2>3, <3>1
  <2>8. \A x \in sym : x \in m.sym \/ \E k \in DOMAIN new : x.item = new[k].item /\ x.lo < x.hi
    BY <2>2, <2>3
  <2>9. AllItems(n) \subseteq AllItems(m) \cup {new[k].item : k \in DOMAIN new}
    BY <2>6, <2>8, ItemsOf
  <2>10. IsStored(m, b, new, n)
    BY <1>4, <2>6, <2>7, <2>9 DEF IsStored
  <2>11. \A k \in DOMAIN new : new[k].item.t = m.time /\ ~new[k].item.int
    BY <1>4 DEF IsByte
  <2>12. m.time \in (m.implicit .. m.time) \ {0}
    BY <1>1
  <2>13. Placed(n)
    BY <2>6, <2>8, <2>11, <2>12 DEF Placed
  <2> QED BY <2>10, <2>13
<1> QED BY <1>3, <1>4 DEF IsAddress

-----------------------------------------------------------------------------
(* A store. *)

\* min_int and max_int of an address, which becomes concrete when they coincide.
LEMMA BoundsAddress ==
  ASSUME NEW P \in SUBSET Worlds, P # {}, NEW e \in [Worlds -> Int]
  PROVE  IsAddress(Bounds(e, P)) /\ IsBounds(Bounds(e, P), e, P)
<1>1. IsBounds(Bounds(e, P), e, P)
  BY BoundsAre
<1> QED BY <1>1 DEF IsBounds, IsAddress

\* Inputs of the steps.
LEMMA Inputs ==
  /\ AddrExprs \subseteq [Worlds -> Int]
  /\ SizeExprs \subseteq [Worlds -> Int] /\ LoadSizes \subseteq [Worlds -> Int]
  /\ \A data \in Payloads : Len(data) \in Nat /\ \A k \in 0 .. Len(data) - 1 : data[k + 1] \in Bytes
  /\ \A c \in Conditions : c \in SUBSET Worlds
<1>1. AddrExprs \subseteq [Worlds -> Int]
  <2>1. AddrExprs \subseteq [Worlds -> Addrs] /\ Addrs \subseteq Int
    BY AddrsAssumption
  <2> QED BY <2>1
<1>2. SizeExprs \subseteq [Worlds -> Int] /\ LoadSizes \subseteq [Worlds -> Int]
  BY SizesAssumption
<1>3. ASSUME NEW data \in Payloads, NEW k \in 0 .. Len(data) - 1 PROVE data[k + 1] \in Bytes
  <2>1. data \in Seq(Bytes) /\ Len(data) \in Nat
    BY PayloadsAssumption
  <2>2. PICK i \in 1 .. Len(data) : i = k + 1
    BY <2>1
  <2> QED BY <2>1, <2>2, ElementOfSeq
<1>4. \A data \in Payloads : Len(data) \in Nat
  BY PayloadsAssumption
<1> QED BY <1>1, <1>2, <1>3, <1>4, ConditionsAssumption

Guards == {g \in [on : BOOLEAN, of : SUBSET Worlds] : g.on \/ g.of = Worlds}

\* The guards of a store are conditions.
LEMMA GuardsAre ==
  /\ NoGuard \in Guards /\ ~NoGuard.on /\ NoGuard.of = Worlds
  /\ \A c \in SUBSET Worlds : Guard(c) \in Guards /\ Guard(c).on /\ Guard(c).of = c
  /\ \A g \in Guards, c \in SUBSET Worlds :
       And(g, c) \in Guards /\ And(g, c).on /\ And(g, c).of = g.of \cap c
  /\ \A c \in Conditions : Guard(c) \in Guards
  BY ConditionsAssumption DEF Guards, NoGuard, Guard, And

\* The guard of a byte, with a symbolic size, is None or a condition.
LEMMA ByteGuardType ==
  ASSUME NEW cond \in Guards, NEW size \in [Worlds -> Int], NEW P, NEW k \in Int
  PROVE  ByteGuard(cond, size, P, k) \in Guards
<1>1. {w \in Worlds : size[w] > k} \in SUBSET Worlds /\ {w \in Worlds : size[w] > k + 1} \in SUBSET Worlds
  OBVIOUS
<1> QED BY <1>1, GuardsAre DEF ByteGuard

\* The bytes of a store as they are filed.
NewBytes(s, e, data, size, cond) ==
  [k \in 0 .. Len(data) - 1 |->
     Filed(Bounds(e, path[s]), k,
           Item(Bounds(e, path[s]).int, Plus(Bounds(e, path[s]).at, k), data[k + 1],
                mem[s].time + 1, ByteGuard(cond, size, path[s], k)))]

Ticked(m) == [m EXCEPT !.time = @ + 1]

\* store() takes the next timestamp.
LEMMA TickedIs ==
  ASSUME NEW m \in Memories, Placed(m)
  PROVE  /\ Ticked(m) \in Memories /\ Placed(Ticked(m)) /\ Ticked(m).time = m.time + 1
         /\ Ticked(m).time > 0 /\ Ticked(m).implicit = m.implicit /\ Ticked(m).sym = m.sym
         /\ Ticked(m).conc = m.conc /\ Ticked(m).pending = m.pending
         /\ AllItems(Ticked(m)) = AllItems(m)
<1>1. m.time \in Nat /\ m.implicit \in Int /\ m.implicit <= 0
  BY MemoryType
<1>2. /\ Ticked(m) \in Memories /\ Ticked(m).time = m.time + 1
      /\ Ticked(m).implicit = m.implicit /\ Ticked(m).sym = m.sym
      /\ Ticked(m).conc = m.conc /\ Ticked(m).pending = m.pending
  BY DEF Ticked, Memories
<1>3. 0 .. m.time \subseteq 0 .. m.time + 1
       /\ (m.implicit .. m.time) \ {0} \subseteq (m.implicit .. m.time + 1) \ {0}
  BY <1>1
<1>4. Placed(Ticked(m))
  BY <1>2, <1>3 DEF Placed
<1>5. AllItems(Ticked(m)) = AllItems(m)
  BY <1>2 DEF AllItems
<1> QED BY <1>1, <1>2, <1>4, <1>5

\* Nothing loaded is a way of loading.
LEMMA LoadedItself ==
  ASSUME NEW m \in Memories
  PROVE  IsLoaded(m, m)
  BY DEF IsLoaded

\* What a store does to its state.
LEMMA StoreIs ==
  ASSUME TypeOK, NEW s \in Live, NEW e \in AddrExprs, NEW data \in Payloads,
         NEW size \in SizeExprs,
         NEW cond \in {NoGuard} \cup {Guard(c) : c \in Conditions},
         Store(s, e, data, size, cond),
         NEW b, b = Bounds(e, path[s]), NEW new, new = NewBytes(s, e, data, size, cond)
  PROVE  /\ s \in States /\ mem[s] \in Memories /\ Placed(mem[s])
         /\ IsAddress(b) /\ IsBounds(b, e, path[s])
         /\ DOMAIN new = 0 .. Len(data) - 1 /\ DOMAIN new \subseteq Int
         /\ \A k \in DOMAIN new : IsByte(new[k], b, k, mem[s].time + 1)
         /\ \A k \in DOMAIN new : new[k].item.val = data[k + 1]
                                  /\ new[k].item.guard = ByteGuard(cond, size, path[s], k)
         /\ mem'[s] \in StoreBytes(Ticked(mem[s]), b, new)
         /\ IsStored(Ticked(mem[s]), b, new, mem'[s]) /\ Placed(mem'[s])
         /\ mem' = [mem EXCEPT ![s] = mem'[s]] /\ path' = path /\ anc' = anc
<1>1. /\ s \in States /\ path[s] \in SUBSET Worlds /\ path[s] # {}
      /\ mem \in [States -> Memories] /\ mem[s] \in Memories /\ Placed(mem[s])
  BY DEF Live, TypeOK
<1>2. e \in [Worlds -> Int] /\ size \in [Worlds -> Int] /\ cond \in Guards
  BY Inputs, GuardsAre
<1>3. IsAddress(b) /\ IsBounds(b, e, path[s])
  BY <1>1, <1>2, BoundsAddress
<1>4. DOMAIN new = 0 .. Len(data) - 1 /\ DOMAIN new \subseteq Int
  <2>1. Len(data) \in Nat
    BY Inputs
  <2> QED BY <2>1 DEF NewBytes
<1>5. ASSUME NEW k \in DOMAIN new
      PROVE  /\ IsByte(new[k], b, k, mem[s].time + 1)
             /\ new[k].item.val = data[k + 1]
             /\ new[k].item.guard = ByteGuard(cond, size, path[s], k)
  <2>1. k \in Int /\ data[k + 1] \in Int \cup Bytes /\ mem[s].time + 1 \in Int
    BY <1>1, <1>4, Inputs, MemoryType
  <2>2. PICK g : g = ByteGuard(cond, size, path[s], k)
    OBVIOUS
  <2>3. g \in [on : BOOLEAN, of : SUBSET Worlds] /\ (g.on \/ g.of = Worlds)
    BY <1>2, <2>1, <2>2, ByteGuardType DEF Guards
  <2>4. PICK v \in Int \cup Bytes : v = data[k + 1]
    BY <2>1
  <2>5. PICK t \in Int : t = mem[s].time + 1
    BY <2>1
  <2>6. PICK f : f = new[k]
    OBVIOUS
  <2>7. f = Filed(b, k, Item(b.int, Plus(b.at, k), v, t, g))
    BY <1>4, <2>2, <2>4, <2>5, <2>6 DEF NewBytes
  <2>8. IsByte(f, b, k, t) /\ f.item.val = v /\ f.item.guard = g
    BY <1>3, <2>1, <2>3, <2>7, ByteIs
  <2> QED BY <2>2, <2>4, <2>5, <2>6, <2>8
<1>6. /\ mem'[s] \in StoreBytes(Ticked(mem[s]), b, new)
      /\ mem' = [mem EXCEPT ![s] = mem'[s]] /\ path' = path /\ anc' = anc
  <2>1. PICK m \in StoreBytes(Ticked(mem[s]), b, new) : mem' = [mem EXCEPT ![s] = m]
    BY DEF Store, Ticked, NewBytes
  <2>2. mem'[s] = m
    BY <1>1, <2>1
  <2> QED BY <2>1, <2>2 DEF Store
<1>7. /\ Ticked(mem[s]) \in Memories /\ Placed(Ticked(mem[s]))
      /\ Ticked(mem[s]).time = mem[s].time + 1 /\ Ticked(mem[s]).time > 0
  BY <1>1, TickedIs
<1>8. IsStored(Ticked(mem[s]), b, new, mem'[s]) /\ Placed(mem'[s])
  BY <1>3, <1>4, <1>5, <1>6, <1>7, StoredAre
<1> QED BY <1>1, <1>3, <1>4, <1>5, <1>6, <1>8

\* store() gives its bytes a timestamp no other item has.
LEMMA StoreKeepsOne ==
  ASSUME TypeOK, Ancestry, OneAtATime,
         NEW s \in Live, NEW e \in AddrExprs, NEW data \in Payloads, NEW size \in SizeExprs,
         NEW cond \in {NoGuard} \cup {Guard(c) : c \in Conditions},
         Store(s, e, data, size, cond)
  PROVE  OneAtATime'
<1>1. PICK b : b = Bounds(e, path[s])
  OBVIOUS
<1>2. PICK new : new = NewBytes(s, e, data, size, cond)
  OBVIOUS
<1> DEFINE New == {new[k].item : k \in DOMAIN new}
<1>3. /\ s \in States /\ mem[s] \in Memories /\ Placed(mem[s])
      /\ IsAddress(b) /\ DOMAIN new \subseteq Int
      /\ \A k \in DOMAIN new : IsByte(new[k], b, k, mem[s].time + 1)
      /\ IsStored(Ticked(mem[s]), b, new, mem'[s])
      /\ mem' = [mem EXCEPT ![s] = mem'[s]] /\ path' = path /\ anc' = anc
  BY <1>1, <1>2, StoreIs
<1>4. AllItems(mem'[s]) \subseteq AllItems(mem[s]) \cup New
  BY <1>3, TickedIs DEF IsStored
<1>5. \A p \in New : IsNew(p, mem[s])
  <2>1. mem[s].time \in Nat
    BY <1>3, MemoryType
  <2>2. \A k \in DOMAIN new : new[k].item.t = mem[s].time + 1
    BY <1>3 DEF IsByte
  <2> QED BY <2>1, <2>2 DEF IsNew
<1>6. \A w \in Worlds : NewApart(New, w)
  <2>1. PICK t : t = mem[s].time + 1
    OBVIOUS
  <2>2. \A k \in DOMAIN new : IsByte(new[k], b, k, t)
    BY <1>3, <2>1
  <2> QED BY <1>3, <2>2, BytesApart
<1>7. path'[s] \in SUBSET path[s] /\ path' = [path EXCEPT ![s] = path'[s]]
      /\ path'[s] \in SUBSET Worlds
  BY <1>3 DEF TypeOK
<1> HIDE DEF New
<1>8. IsUpdate(s, mem[s], New)
  BY <1>3, <1>4, <1>5, <1>6, <1>7, LoadedItself DEF IsUpdate
<1> QED BY <1>8, UpdateKeepsOne

-----------------------------------------------------------------------------
(* A load. *)

RankIn(D, k) == Cardinality({j \in D : j <= k})

\* The new symbols of a load are numbered from one up, each with its own number.
LEMMA RanksDiffer ==
  ASSUME NEW n \in Int, NEW D \in SUBSET (0 .. n - 1)
  PROVE  /\ IsFiniteSet(D) /\ Cardinality(D) \in Nat
         /\ \A k \in D : RankIn(D, k) \in 1 .. Cardinality(D)
         /\ \A j, k \in D : RankIn(D, j) = RankIn(D, k) => j = k
<1>1. IsFiniteSet(D) /\ Cardinality(D) \in Nat
  <2>1. PICK m \in Int : m = n - 1
    OBVIOUS
  <2>2. IsFiniteSet(0 .. m)
    BY FS_Interval, 0 \in Int
  <2>3. IsFiniteSet(D)
    BY <2>1, <2>2, FS_Subset
  <2> QED BY <2>3, FS_CardinalityType
<1>2. ASSUME NEW k \in D PROVE RankIn(D, k) \in 1 .. Cardinality(D)
  <2> DEFINE S == {j \in D : j <= k}
  <2>1. S \in SUBSET D /\ k \in S
    OBVIOUS
  <2> HIDE DEF S
  <2>2. IsFiniteSet(S) /\ Cardinality(S) <= Cardinality(D) /\ Cardinality(S) \in Nat
    BY <1>1, <2>1, FS_Subset, FS_CardinalityType
  <2>3. Cardinality(S) # 0
    BY <2>1, <2>2, FS_EmptySet
  <2>4. Cardinality(S) \in 1 .. Cardinality(D)
    BY <1>1, <2>2, <2>3
  <2> QED BY <2>4 DEF S, RankIn
<1>3. ASSUME NEW j \in D, NEW k \in D, j < k PROVE RankIn(D, j) # RankIn(D, k)
  <2> DEFINE S == {i \in D : i <= j}
             T == {i \in D : i <= k}
  <2>1. S \in SUBSET T /\ k \in T /\ k \notin S /\ T \in SUBSET D
    <3>1. j \in Int /\ k \in Int /\ \A i \in D : i \in Int
      OBVIOUS
    <3>2. \A i \in D : i <= j => i <= k
      BY <1>3, <3>1
    <3>3. k <= k /\ ~(k <= j)
      BY <1>3, <3>1
    <3> QED BY <3>2, <3>3
  <2> HIDE DEF S, T
  <2>2. IsFiniteSet(T)
    BY <1>1, <2>1, FS_Subset
  <2>3. Cardinality(T) # Cardinality(S)
    BY <2>1, <2>2, FS_Subset
  <2> QED BY <2>3 DEF S, T, RankIn
<1>4. \A j, k \in D : j \in Int /\ k \in Int
  OBVIOUS
<1>5. ASSUME NEW j \in D, NEW k \in D, RankIn(D, j) = RankIn(D, k) PROVE j = k
  BY <1>3, <1>4, <1>5
<1> QED BY <1>1, <1>2, <1>5

\* The implicit store of byte k of a load from memory l.
NewSymbol(l, b, D, k) ==
  Filed(b, k, Item(b.int, Plus(b.at, k), -(made + RankIn(D, k)),
                   l.implicit - RankIn(D, k), NoGuard))

\* What a load does to its state: n bytes at b, those in D not direct.
IsLoad(s, e, n, b, l, D) ==
  /\ s \in States /\ mem[s] \in Memories /\ Placed(mem[s])
  /\ n \in Int /\ path'[s] \in SUBSET path[s] /\ path'[s] # {}
  /\ path' = [path EXCEPT ![s] = path'[s]]
  /\ e \in [Worlds -> Int] /\ IsAddress(b) /\ IsBounds(b, e, path'[s])
  /\ IsLoaded(mem[s], l) /\ \E a, i : l = LoadInitData(mem[s], a, i)
  /\ D = {k \in 0 .. n - 1 : ~IsDirect(l, b, k)}
  /\ mem' = [mem EXCEPT ![s] = mem'[s]]
  /\ mem'[s] = [l EXCEPT !.sym = @ \cup {NewSymbol(l, b, D, k) : k \in D},
                         !.implicit = @ - Cardinality(D)]
  /\ made' = made + Cardinality(D)
  /\ truth' = [truth EXCEPT ![s] = [w \in Worlds |->
       IF w \in path'[s]
         THEN [a \in Addrs |-> IF a - e[w] \in D /\ truth[s][w][a] = Unknown
                                 THEN -(made + RankIn(D, a - e[w])) ELSE truth[s][w][a]]
         ELSE NoBytes]]
  /\ anc' = anc

\* load(): what it changes, by name.
LEMMA LoadIs ==
  ASSUME TypeOK, NEW s \in Live, NEW e \in AddrExprs, NEW size \in LoadSizes,
         Load(s, e, size)
  PROVE  \E n, b, l, D : IsLoad(s, e, n, b, l, D)
<1> DEFINE P == ResolveSize(size, path[s]).worlds
<1>1. /\ s \in States /\ path[s] \in SUBSET Worlds /\ path[s] # {}
      /\ path \in [States -> SUBSET Worlds]
      /\ mem \in [States -> Memories] /\ mem[s] \in Memories /\ Placed(mem[s])
  BY DEF Live, TypeOK
<1>2. e \in [Worlds -> Int] /\ size \in [Worlds -> Int]
  BY Inputs
<1>3. PICK n \in Int : n = ResolveSize(size, path[s]).bytes
  <2>1. Bounds(size, path[s]).hi \in Int
    BY <1>1, <1>2, BoundsAre DEF IsBounds
  <2> QED BY <2>1 DEF ResolveSize
<1>4. P \in SUBSET path[s] /\ P # {}
  <2>1. \E w \in path[s] : size[w] = Bounds(size, path[s]).hi
    BY <1>1, <1>2, BoundsAre DEF IsBounds
  <2> QED BY <2>1 DEF ResolveSize
<1>5. path' = [path EXCEPT ![s] = P] /\ anc' = anc
  BY DEF Load
<1>6. path'[s] = P
  BY <1>1, <1>5
<1>7. PICK b : b = Bounds(e, P)
  OBVIOUS
<1>8. IsAddress(b) /\ IsBounds(b, e, P)
  <2>1. P \in SUBSET Worlds
    BY <1>1, <1>4
  <2> HIDE DEF P
  <2> QED BY <1>2, <1>4, <1>7, <2>1, BoundsAddress
<1>9. PICK l : l = LoadInitData(mem[s], b.lo, (b.hi - b.lo) + n)
  OBVIOUS
<1>10. IsLoaded(mem[s], l)
  BY <1>1, <1>9, LoadedFrom
<1>11. PICK D : D = {k \in 0 .. n - 1 : ~IsDirect(l, b, k)}
  OBVIOUS
<1> DEFINE m == [l EXCEPT !.sym = @ \cup {NewSymbol(l, b, D, k) : k \in D},
                          !.implicit = @ - Cardinality(D)]
<1>12. mem' = [mem EXCEPT ![s] = m]
  BY <1>3, <1>7, <1>9, <1>11 DEF Load, NewSymbol, RankIn
<1>13. made' = made + Cardinality(D)
  BY <1>3, <1>7, <1>9, <1>11 DEF Load
<1>14. truth' = [truth EXCEPT ![s] = [w \in Worlds |->
       IF w \in P
         THEN [a \in Addrs |-> IF a - e[w] \in D /\ truth[s][w][a] = Unknown
                                 THEN -(made + RankIn(D, a - e[w])) ELSE truth[s][w][a]]
         ELSE NoBytes]]
  BY <1>3, <1>7, <1>9, <1>11 DEF Load, RankIn
<1> HIDE DEF P, m
<1>15. mem'[s] = m
  BY <1>1, <1>12
<1>16. IsLoad(s, e, n, b, l, D)
  BY <1>1, <1>2, <1>3, <1>4, <1>5, <1>6, <1>8, <1>9, <1>10, <1>11, <1>12, <1>13, <1>14, <1>15
     DEF IsLoad, m
<1> QED BY <1>16

\* load(): every item was there, is of the binary or is a new symbol.
LEMMA SymbolsAre ==
  ASSUME NEW s, NEW e, NEW n, NEW b, NEW l, NEW D, IsLoad(s, e, n, b, l, D), made \in Nat
  PROVE  /\ l \in Memories /\ Placed(l) /\ l.implicit = mem[s].implicit /\ l.time = mem[s].time
         /\ IsFiniteSet(D) /\ Cardinality(D) \in Nat /\ D \subseteq 0 .. n - 1
         /\ \A k \in D : /\ RankIn(D, k) \in 1 .. Cardinality(D)
                         /\ IsByte(NewSymbol(l, b, D, k), b, k, l.implicit - RankIn(D, k))
                         /\ NewSymbol(l, b, D, k).item.val = -(made + RankIn(D, k))
                         /\ NewSymbol(l, b, D, k).item.guard = NoGuard
         /\ \A j, k \in D : RankIn(D, j) = RankIn(D, k) => j = k
<1>1. l \in Memories /\ l.implicit = mem[s].implicit /\ l.time = mem[s].time
  BY DEF IsLoad, IsLoaded
<1>2. Placed(l)
  BY LoadedPlaced DEF IsLoad
<1>3. n \in Int /\ D \in SUBSET (0 .. n - 1) /\ IsAddress(b)
  BY DEF IsLoad
<1>4. /\ IsFiniteSet(D) /\ Cardinality(D) \in Nat
      /\ \A k \in D : RankIn(D, k) \in 1 .. Cardinality(D)
      /\ \A j, k \in D : RankIn(D, j) = RankIn(D, k) => j = k
  BY <1>3, RanksDiffer
<1>5. ASSUME NEW k \in D
      PROVE  /\ IsByte(NewSymbol(l, b, D, k), b, k, l.implicit - RankIn(D, k))
             /\ NewSymbol(l, b, D, k).item.val = -(made + RankIn(D, k))
             /\ NewSymbol(l, b, D, k).item.guard = NoGuard
  <2>1. PICK r \in Nat : r = RankIn(D, k)
    BY <1>4
  <2>2. PICK v \in Int : v = -(made + r)
    OBVIOUS
  <2>3. PICK t \in Int : t = l.implicit - r
    BY <1>1, MemoryType
  <2>4. PICK f : f = NewSymbol(l, b, D, k)
    OBVIOUS
  <2>5. f = Filed(b, k, Item(b.int, Plus(b.at, k), v, t, NoGuard))
    BY <2>1, <2>2, <2>3, <2>4 DEF NewSymbol
  <2>6. k \in Int /\ v \in Int \cup Bytes
    BY <1>3
  <2>7. NoGuard \in [on : BOOLEAN, of : SUBSET Worlds] /\ (NoGuard.on \/ NoGuard.of = Worlds)
    BY GuardsAre DEF Guards
  <2>8. IsByte(f, b, k, t) /\ f.item.val = v /\ f.item.guard = NoGuard
    BY <1>3, <2>5, <2>6, <2>7, ByteIs
  <2> QED BY <2>1, <2>2, <2>3, <2>4, <2>8
<1> QED BY <1>1, <1>2, <1>3, <1>4, <1>5

\* What the memory holds after a load.
LEMMA LoadedMemory ==
  ASSUME NEW s, NEW e, NEW n, NEW b, NEW l, NEW D, IsLoad(s, e, n, b, l, D), made \in Nat
  PROVE  /\ mem'[s] \in Memories /\ Placed(mem'[s])
         /\ mem'[s].time = mem[s].time /\ mem'[s].implicit = mem[s].implicit - Cardinality(D)
         /\ mem'[s].conc = l.conc /\ mem'[s].pending = l.pending
         /\ mem'[s].sym = l.sym \cup {NewSymbol(l, b, D, k) : k \in D}
         /\ AllItems(mem'[s]) = AllItems(l) \cup {NewSymbol(l, b, D, k).item : k \in D}
<1> DEFINE m == mem'[s]
           new(k) == NewSymbol(l, b, D, k)
<1>1. /\ l \in Memories /\ Placed(l) /\ l.implicit = mem[s].implicit /\ l.time = mem[s].time
      /\ Cardinality(D) \in Nat
      /\ \A k \in D : /\ RankIn(D, k) \in 1 .. Cardinality(D)
                      /\ IsByte(new(k), b, k, l.implicit - RankIn(D, k))
  BY SymbolsAre
<1>2. m = [l EXCEPT !.sym = @ \cup {new(k) : k \in D}, !.implicit = @ - Cardinality(D)]
  BY DEF IsLoad
<1>3. /\ l.sym \in SUBSET Files /\ l.implicit \in Int /\ l.implicit <= 0 /\ l.time \in Nat
  BY <1>1, MemoryType DEF Files
<1>4. \A k \in D : new(k) \in Files /\ new(k).item \in Items
  BY <1>1 DEF IsByte, Files
<1> HIDE DEF new, m
<1>5. /\ m \in Memories
      /\ m.time = l.time /\ m.implicit = l.implicit - Cardinality(D)
      /\ m.conc = l.conc /\ m.pending = l.pending
      /\ m.sym = l.sym \cup {new(k) : k \in D}
  <2>1. PICK sym : sym = l.sym \cup {new(k) : k \in D}
    OBVIOUS
  <2>2. PICK i : i = l.implicit - Cardinality(D)
    OBVIOUS
  <2>3. i \in Int /\ i <= 0
    BY <1>1, <1>3, <2>2
  <2>4. sym \in SUBSET Files
    BY <1>3, <1>4, <2>1
  <2>5. m = [l EXCEPT !.sym = sym, !.implicit = i]
    BY <1>1, <1>2, <2>1, <2>2 DEF Memories
  <2> QED BY <1>1, <2>1, <2>2, <2>3, <2>4, <2>5 DEF Memories, Files
<1>6. AllItems(m) = AllItems(l) \cup {new(k).item : k \in D}
  BY <1>5 DEF AllItems
<1>7. ASSUME NEW k \in D
      PROVE  /\ new(k).lo < new(k).hi
             /\ new(k).item.t \in (m.implicit .. m.time) \ {0} /\ ~(new(k).item.t > 0)
  <2>1. PICK r \in 1 .. Cardinality(D) : r = RankIn(D, k)
    BY <1>1
  <2>2. /\ new(k).lo = b.lo + k /\ new(k).hi = b.hi + k + 1 /\ new(k).item.t = l.implicit - r
    BY <1>1, <2>1 DEF IsByte
  <2>3. k \in Int /\ b.lo \in Int /\ b.hi \in Int /\ b.lo <= b.hi
    BY DEF IsLoad, IsAddress
  <2>4. m.implicit = l.implicit - Cardinality(D) /\ m.time \in Nat
    BY <1>3, <1>5
  <2> QED BY <1>1, <1>3, <2>1, <2>2, <2>3, <2>4
<1>8. (l.implicit .. l.time) \ {0} \subseteq (m.implicit .. m.time) \ {0}
  BY <1>1, <1>3, <1>5
<1>9. Placed(m)
  BY <1>1, <1>5, <1>7, <1>8 DEF Placed
<1> QED BY <1>1, <1>5, <1>6, <1>9 DEF m, new

\* load() gives its new symbols timestamps no other item has.
LEMMA LoadKeepsOne ==
  ASSUME TypeOK, Ancestry, OneAtATime, NEW s \in Live, NEW e \in AddrExprs,
         NEW size \in LoadSizes, Load(s, e, size)
  PROVE  OneAtATime'
<1>1. PICK n, b, l, D : IsLoad(s, e, n, b, l, D)
  BY LoadIs
<1>2. made \in Nat
  BY DEF TypeOK
<1> DEFINE New == {NewSymbol(l, b, D, k).item : k \in D}
<1>3. AllItems(mem'[s]) \subseteq AllItems(l) \cup New
  BY <1>1, <1>2, LoadedMemory
<1>4. ASSUME NEW k \in D
      PROVE  /\ RankIn(D, k) \in Nat \ {0}
             /\ NewSymbol(l, b, D, k).item.t = l.implicit - RankIn(D, k)
             /\ IsNew(NewSymbol(l, b, D, k).item, l)
  <2>1. RankIn(D, k) \in Nat \ {0} /\ NewSymbol(l, b, D, k).item.t = l.implicit - RankIn(D, k)
    BY <1>1, <1>2, SymbolsAre DEF IsByte
  <2>2. l.implicit \in Int
    BY <1>1, <1>2, SymbolsAre, MemoryType
  <2> QED BY <2>1, <2>2 DEF IsNew
<1>5. ASSUME NEW j \in D, NEW k \in D,
             NewSymbol(l, b, D, j).item.t = NewSymbol(l, b, D, k).item.t
      PROVE  j = k
  <2>1. RankIn(D, j) = RankIn(D, k)
    <3>1. l.implicit \in Int
      BY <1>1, <1>2, SymbolsAre, MemoryType
    <3> QED BY <1>4, <1>5, <3>1
  <2> QED BY <1>1, <1>2, <2>1, SymbolsAre
<1>6. \A w : NewApart(New, w)
  BY <1>5 DEF NewApart
<1>7. IsUpdate(s, l, New)
  BY <1>1, <1>3, <1>4, <1>6 DEF IsUpdate, IsLoad
<1> HIDE DEF New
<1> QED BY <1>7, UpdateKeepsOne

\* The question whether an address has an item only loads.
LEMMA HasItemKeepsOne ==
  ASSUME TypeOK, Ancestry, OneAtATime, NEW s \in Live, NEW a \in Addrs, HasItem(s, a)
  PROVE  OneAtATime'
<1>1. /\ s \in States /\ mem \in [States -> Memories] /\ mem[s] \in Memories
      /\ path \in [States -> SUBSET Worlds]
  BY DEF Live, TypeOK
<1>2. /\ mem' = [mem EXCEPT ![s] = LoadInitData(mem[s], a, 1)]
      /\ path' = path /\ anc' = anc
  BY DEF HasItem
<1>3. mem'[s] = LoadInitData(mem[s], a, 1)
  BY <1>1, <1>2
<1>4. IsLoaded(mem[s], mem'[s])
  BY <1>1, <1>3, LoadedFrom
<1>5. IsUpdate(s, mem'[s], {})
  BY <1>1, <1>2, <1>3, <1>4 DEF IsUpdate, NewApart
<1> QED BY <1>5, UpdateKeepsOne

-----------------------------------------------------------------------------
(* A fork: both sides have what the state had. *)

\* After a fork a state has what the state old[x] had before.
Origin(s, n) == [x \in States |-> IF x = n THEN s ELSE x]
IsFork(s, n, old) ==
  /\ s \in Live /\ n \notin Live /\ s # n
  /\ \A x \in States : old[x] = IF x = n THEN s ELSE x
  /\ \A x \in States : path'[x] \in SUBSET path[old[x]] /\ mem'[x] = mem[old[x]]
  /\ \A x, z \in States : old[x] # old[z] => anc'[x][z] = anc[old[x]][old[z]]
  /\ \E ages \in Ages(s) : \A x, z \in States :
       anc'[x][z] = IF {x, z} \subseteq {s, n} THEN ages ELSE anc[old[x]][old[z]]

\* What a fork does to the states, by name.
LEMMA ForkIs ==
  ASSUME TypeOK, NEW s \in States, NEW n \in States, NEW c \in SUBSET Worlds, Fork(s, n, c)
  PROVE  IsFork(s, n, Origin(s, n))
<1>o. PICK old : old = Origin(s, n)
  OBVIOUS
<1>d. old = [x \in States |-> IF x = n THEN s ELSE x]
  BY <1>o DEF Origin
<1>1. s \in Live /\ n \notin Live /\ s # n
  BY DEF Fork
<1>2. path' = [path EXCEPT ![s] = @ \cap c, ![n] = path[s] \ c] /\ mem' = [mem EXCEPT ![n] = mem[s]]
  BY DEF Fork
<1>3. path \in [States -> SUBSET Worlds] /\ mem \in [States -> Memories]
  BY DEF TypeOK
<1>4. ASSUME NEW x \in States PROVE path'[x] \in SUBSET path[old[x]] /\ mem'[x] = mem[old[x]]
  BY <1>1, <1>2, <1>3, <1>d
<1>5. PICK ages \in Ages(s) :
        anc' = [x \in States |-> [y \in States |->
                     IF {x, y} \subseteq {s, n} THEN ages
                     ELSE IF x = n THEN anc[s][y]
                     ELSE IF y = n THEN anc[x][s] ELSE anc[x][y]]]
  BY DEF Fork
<1>6. \A x, z \in States :
        anc'[x][z] = IF {x, z} \subseteq {s, n} THEN ages ELSE anc[old[x]][old[z]]
  <2> SUFFICES ASSUME NEW x \in States, NEW z \in States
               PROVE  anc'[x][z] = IF {x, z} \subseteq {s, n} THEN ages ELSE anc[old[x]][old[z]]
    OBVIOUS
  <2>1. anc'[x][z] = IF {x, z} \subseteq {s, n} THEN ages
                     ELSE IF x = n THEN anc[s][z]
                     ELSE IF z = n THEN anc[x][s] ELSE anc[x][z]
    BY <1>5
  <2>2. x = n /\ z = n => {x, z} \subseteq {s, n}
    OBVIOUS
  <2> QED BY <2>1, <2>2, <1>d
<1>7. \A x, z \in States : {x, z} \subseteq {s, n} => old[x] = old[z]
  BY <1>d
<1>8. \A x, z \in States : old[x] # old[z] => anc'[x][z] = anc[old[x]][old[z]]
  BY <1>6, <1>7
<1>9. IsFork(s, n, old)
  <2>1. \A x \in States : old[x] = IF x = n THEN s ELSE x
    BY <1>d
  <2> HIDE <1>d
  <2> QED BY <2>1, <1>1, <1>4, <1>5, <1>6, <1>8 DEF IsFork
<1> QED BY <1>9, <1>o

\* A fork copies the items and keeps timestamps telling.
LEMMA ForkKeepsOne ==
  ASSUME TypeOK, OneAtATime, NEW s \in States, NEW n \in States, NEW c \in SUBSET Worlds,
         Fork(s, n, c)
  PROVE  OneAtATime'
<1>1. PICK old : IsFork(s, n, old)
  BY ForkIs
<1>2. /\ s \in Live /\ n \notin Live /\ s # n
      /\ \A x \in States : path'[x] \in SUBSET path[old[x]] /\ mem'[x] = mem[old[x]]
      /\ \A x, z \in States : old[x] # old[z] => anc'[x][z] = anc[old[x]][old[z]]
  BY <1>1 DEF IsFork
<1>o. \A x \in States : old[x] \in States
  BY <1>1 DEF IsFork
<1>3. \A x \in Live' : x \in States /\ old[x] \in Live
  BY <1>1, <1>2, <1>o DEF Live
<1>4. ASSUME NEW x \in Live', NEW z \in Live'
      PROVE  Shared(x, z)' \subseteq Shared(old[x], old[z])
  <2>1. x \in States /\ z \in States
    BY <1>3
  <2>2. Shared(x, z)' = Before(mem'[x], x = z, anc'[x][z])
    BY DEF Shared
  <2>3. mem'[x] = mem[old[x]]
    BY <1>2, <2>1
  <2>4. CASE old[x] = old[z]
    BY <2>2, <2>3, <2>4 DEF Shared, Before
  <2>5. CASE old[x] # old[z]
    <3>1. x # z /\ anc'[x][z] = anc[old[x]][old[z]]
      BY <1>2, <2>1, <2>5
    <3> QED BY <2>2, <2>3, <2>5, <3>1 DEF Shared, Before
  <2> QED BY <2>4, <2>5
<1>5. ASSUME NEW x \in Live', NEW z \in Live', NEW w \in path'[z]
      PROVE  /\ Distinct(Shared(x, z)', w)
             /\ \A o \in Live' : Agree(Shared(x, z)', Shared(o, z)', w)
  <2>1. old[x] \in Live /\ old[z] \in Live /\ w \in path[old[z]]
    BY <1>2, <1>3
  <2>2. Distinct(Shared(old[x], old[z]), w)
    BY <2>1 DEF OneAtATime
  <2>3. Distinct(Shared(x, z)', w)
    BY <1>4, <2>2, Narrower
  <2>4. ASSUME NEW o \in Live' PROVE Agree(Shared(x, z)', Shared(o, z)', w)
    <3>1. Agree(Shared(old[x], old[z]), Shared(old[o], old[z]), w)
      BY <1>3, <2>1 DEF OneAtATime
    <3>2. Shared(x, z)' \subseteq Shared(old[x], old[z]) /\ Shared(o, z)' \subseteq Shared(old[o], old[z])
      BY <1>4
    <3> QED BY <3>1, <3>2 DEF Agree, Hits
  <2> QED BY <2>3, <2>4
<1> QED BY <1>5 DEF OneAtATime, Distinct, Agree, Hits

-----------------------------------------------------------------------------
(* Entries and items under guards. *)

Guarded(p, c) == [p EXCEPT !.guard = And(@, c)]

\* _copy_symbolic_items_and_apply_guard changes the guard of an item only.
LEMMA GuardedIs ==
  ASSUME NEW p \in Items, NEW c \in SUBSET Worlds
  PROVE  /\ Guarded(p, c) \in Items
         /\ Guarded(p, c).int = p.int /\ Guarded(p, c).at = p.at /\ Guarded(p, c).t = p.t
         /\ Guarded(p, c).val = p.val
         /\ Guarded(p, c).guard.on /\ Guarded(p, c).guard.of = p.guard.of \cap c
<1>1. p.guard \in [on : BOOLEAN, of : SUBSET Worlds]
  BY ItemType
<1>2. PICK g : g = And(p.guard, c)
  OBVIOUS
<1>3. g \in [on : BOOLEAN, of : SUBSET Worlds] /\ g.on /\ g.of = p.guard.of \cap c
  BY <1>1, <1>2 DEF And, Guard
<1>4. PICK q : q = [p EXCEPT !.guard = g]
  OBVIOUS
<1>5. q = Guarded(p, c)
  BY <1>2, <1>4 DEF Guarded
<1>6. /\ q \in Items /\ q.int = p.int /\ q.at = p.at /\ q.t = p.t /\ q.val = p.val /\ q.guard = g
  BY <1>3, <1>4 DEF Items
<1> QED BY <1>3, <1>5, <1>6

\* The items of an entry under a guard.
LEMMA GuardAllIs ==
  ASSUME NEW entry \in Seq(Items), NEW c \in SUBSET Worlds
  PROVE  /\ GuardAll(entry, c) \in Seq(Items)
         /\ \A p \in Range(GuardAll(entry, c)) : \E q \in Range(entry) : p = Guarded(q, c)
<1>1. \A i \in 1 .. Len(entry) : entry[i] \in Items
  BY ElementOfSeq
<1>2. GuardAll(entry, c) = [i \in 1 .. Len(entry) |-> Guarded(entry[i], c)]
  BY DEF GuardAll, Guarded
<1>3. \A i \in 1 .. Len(entry) : Guarded(entry[i], c) \in Items
  BY <1>1, GuardedIs
<1>4. Len(entry) \in Nat /\ DOMAIN entry = 1 .. Len(entry)
  OBVIOUS
<1>5. GuardAll(entry, c) \in Seq(Items)
  BY <1>2, <1>3, <1>4
<1>6. \A p \in Range(GuardAll(entry, c)) : \E q \in Range(entry) : p = Guarded(q, c)
  BY <1>2, <1>4 DEF Range
<1> QED BY <1>5, <1>6

\* What an address has after a merge: what both had, a byte of the image only
\* one has, or what both had under their guards.
IsEntry(e, mine, other, c, d) ==
  /\ e \in Seq(Items)
  /\ \/ mine = other /\ e = mine
     \/ \E p : /\ p \in Range(mine) \/ p \in Range(other)
               /\ e = <<p>> /\ p.t = 0 /\ ~p.guard.on
     \/ /\ mine # other
        /\ \A p \in Range(e) : \/ \E q \in Range(mine) : p = Guarded(q, c)
                               \/ \E q \in Range(other) : p = Guarded(q, d)

\* _merge_concrete_memory: where the items of a merged entry come from.
LEMMA EntryIs ==
  ASSUME NEW mine \in Seq(Items), NEW other \in Seq(Items),
         NEW c \in SUBSET Worlds, NEW d \in SUBSET Worlds
  PROVE  IsEntry(MergeEntry(mine, other, c, d), mine, other, c, d)
<1>1. ASSUME NEW x \in Seq(Items), Len(x) = 1 PROVE x = <<x[1]>> /\ x[1] \in Range(x)
  BY <1>1 DEF Range
<1>2. PICK e : e = MergeEntry(mine, other, c, d)
  OBVIOUS
<1> SUFFICES IsEntry(e, mine, other, c, d)
  BY <1>2
<1> DEFINE FromImage(x) == Len(x) = 1 /\ x[1].t = 0 /\ ~x[1].guard.on
<1>3. e = IF mine = other \/ (other = <<>> /\ FromImage(mine)) THEN mine
          ELSE IF mine = <<>> /\ FromImage(other) THEN other
          ELSE GuardAll(mine, c) \o GuardAll(other, d)
  BY <1>2 DEF MergeEntry
<1>4. CASE mine = other
  <2>1. e = mine
    BY <1>3, <1>4
  <2> QED BY <1>4, <2>1 DEF IsEntry
<1>5. CASE mine # other /\ other = <<>> /\ FromImage(mine)
  <2>1. e = mine /\ mine = <<mine[1]>> /\ mine[1] \in Range(mine)
    BY <1>1, <1>3, <1>5
  <2> QED BY <1>5, <2>1 DEF IsEntry
<1>6. CASE mine # other /\ ~(other = <<>> /\ FromImage(mine)) /\ mine = <<>> /\ FromImage(other)
  <2>1. e = other /\ other = <<other[1]>> /\ other[1] \in Range(other)
    BY <1>1, <1>3, <1>6
  <2> QED BY <1>6, <2>1 DEF IsEntry
<1>7. CASE /\ mine # other /\ ~(other = <<>> /\ FromImage(mine))
           /\ ~(mine = <<>> /\ FromImage(other))
  <2>1. e = GuardAll(mine, c) \o GuardAll(other, d)
    BY <1>3, <1>7
  <2>2. GuardAll(mine, c) \in Seq(Items) /\ GuardAll(other, d) \in Seq(Items)
    BY GuardAllIs
  <2>3. e \in Seq(Items) /\ Range(e) = Range(GuardAll(mine, c)) \cup Range(GuardAll(other, d))
    BY <2>1, <2>2, ConcatProperties, RangeConcatenation
  <2>4. \A p \in Range(e) : \/ \E q \in Range(mine) : p = Guarded(q, c)
                            \/ \E q \in Range(other) : p = Guarded(q, d)
    BY <2>3, GuardAllIs
  <2> QED BY <1>7, <2>3, <2>4 DEF IsEntry
<1> QED BY <1>2, <1>4, <1>5, <1>6, <1>7

-----------------------------------------------------------------------------
(* The merged memory. *)

\* Memory x, made of M and O, whose histories parted at a, on paths c and d.
IsMerged(x, M, O, a, c, d) ==
  /\ M \in Memories /\ Placed(M) /\ O \in Memories /\ Placed(O)
  /\ c \in SUBSET Worlds /\ d \in SUBSET Worlds
  /\ x.conc = [y \in Addrs |-> MergeEntry(M.conc[y], O.conc[y], c, d)]
  /\ x.sym = MergeSymbolic(M.sym, O.sym, a, c, d)
  /\ x.time = MergedTime(M, O) /\ x.implicit = MergedImplicit(M, O) /\ x.pending = M.pending
  /\ x = [conc |-> x.conc, sym |-> x.sym, time |-> x.time,
          implicit |-> x.implicit, pending |-> x.pending]

\* The timestamps of a merged state bound those of both sides.
LEMMA MergedCounters ==
  ASSUME NEW M \in Memories, NEW O \in Memories
  PROVE  /\ MergedTime(M, O) \in Nat /\ MergedTime(M, O) > M.time /\ MergedTime(M, O) > O.time
         /\ MergedTime(M, O) \in {M.time + 1, O.time + 1}
         /\ MergedImplicit(M, O) \in {M.implicit, O.implicit} /\ MergedImplicit(M, O) \in Int
         /\ MergedImplicit(M, O) <= M.implicit /\ MergedImplicit(M, O) <= O.implicit
<1>1. PICK t \in Nat, u \in Nat : t = M.time /\ u = O.time
  BY MemoryType
<1>2. PICK i \in Int, j \in Int : i = M.implicit /\ j = O.implicit
  BY MemoryType
<1>3. Max({t, u}) \in {t, u} /\ Max({t, u}) >= t /\ Max({t, u}) >= u
  <2>1. \E x \in {t, u} : \A y \in {t, u} : x >= y
    OBVIOUS
  <2> QED BY <2>1 DEF Max
<1>4. Min({i, j}) \in {i, j} /\ Min({i, j}) <= i /\ Min({i, j}) <= j
  <2>1. \E x \in {i, j} : \A y \in {i, j} : x <= y
    OBVIOUS
  <2> QED BY <2>1 DEF Min
<1> QED BY <1>1, <1>2, <1>3, <1>4 DEF MergedTime, MergedImplicit

\* An item of the tree after a merge is one of the two trees, filed as it was.
FromTree(f, M, O, a, c, d) ==
  \/ f \in M.sym /\ ~Since(f.item, a)
  \/ \E g \in M.sym : /\ Since(g.item, a) /\ f.lo = g.lo /\ f.hi = g.hi
                      /\ f.item = Guarded(g.item, c) /\ f \in Files
  \/ \E g \in O.sym : /\ Since(g.item, a) /\ f.lo = g.lo /\ f.hi = g.hi
                      /\ f.item = Guarded(g.item, d) /\ f \in Files

\* _merge_symbolic_memory: where the items of a merged tree come from.
LEMMA TreeIs ==
  ASSUME NEW x, NEW M, NEW O, NEW a, NEW c, NEW d, IsMerged(x, M, O, a, c, d), NEW f \in x.sym
  PROVE  FromTree(f, M, O, a, c, d)
<1>1. M.sym \in SUBSET Files /\ O.sym \in SUBSET Files /\ c \in SUBSET Worlds /\ d \in SUBSET Worlds
  BY MemoryType DEF IsMerged, Files
<1>2. f \in GuardSince(M.sym, a, c) \cup GuardSince({y \in O.sym : Since(y.item, a)}, a, d)
  BY DEF IsMerged, MergeSymbolic
<1>3. ASSUME NEW g \in Files, NEW b \in SUBSET Worlds, NEW h, h = [g EXCEPT !.item.guard = And(@, b)]
      PROVE  /\ h \in Files /\ h.lo = g.lo /\ h.hi = g.hi /\ h.item = Guarded(g.item, b)
  <2>1. PICK i \in Items : i = g.item
    BY DEF Files
  <2>2. Guarded(i, b) \in Items /\ Guarded(i, b) = [i EXCEPT !.guard = And(i.guard, b)]
    BY GuardedIs DEF Guarded
  <2>3. h = [g EXCEPT !.item = [i EXCEPT !.guard = And(i.guard, b)]]
    BY <1>3, <2>1
  <2>4. PICK j \in Items : j = Guarded(i, b)
    BY <2>2
  <2>5. h = [g EXCEPT !.item = j]
    BY <2>2, <2>3, <2>4
  <2>6. h \in Files /\ h.lo = g.lo /\ h.hi = g.hi /\ h.item = j
    BY <2>5 DEF Files
  <2> QED BY <2>1, <2>4, <2>6
<1>4. CASE f \in GuardSince(M.sym, a, c)
  <2>1. PICK g \in M.sym : f = IF Since(g.item, a) THEN [g EXCEPT !.item.guard = And(@, c)] ELSE g
    BY <1>4 DEF GuardSince
  <2>2. CASE ~Since(g.item, a)
    BY <2>1, <2>2 DEF FromTree
  <2>3. CASE Since(g.item, a)
    <3>1. f \in Files /\ f.lo = g.lo /\ f.hi = g.hi /\ f.item = Guarded(g.item, c)
      BY <1>1, <1>3, <2>1, <2>3
    <3> QED BY <2>3, <3>1 DEF FromTree
  <2> QED BY <2>2, <2>3
<1>5. CASE f \in GuardSince({y \in O.sym : Since(y.item, a)}, a, d)
  <2>1. PICK g \in O.sym : Since(g.item, a) /\ f = [g EXCEPT !.item.guard = And(@, d)]
    BY <1>5 DEF GuardSince
  <2>2. f \in Files /\ f.lo = g.lo /\ f.hi = g.hi /\ f.item = Guarded(g.item, d)
    BY <1>1, <1>3, <2>1
  <2> QED BY <2>1, <2>2 DEF FromTree
<1> QED BY <1>2, <1>4, <1>5

\* A merged memory is again one whose items are about their own addresses.
LEMMA MergedPlaced ==
  ASSUME NEW x, NEW M, NEW O, NEW a, NEW c, NEW d, IsMerged(x, M, O, a, c, d)
  PROVE  x \in Memories /\ Placed(x)
<1>1. /\ M \in Memories /\ Placed(M) /\ O \in Memories /\ Placed(O)
      /\ c \in SUBSET Worlds /\ d \in SUBSET Worlds
      /\ x.conc = [y \in Addrs |-> MergeEntry(M.conc[y], O.conc[y], c, d)]
      /\ x.time = MergedTime(M, O) /\ x.implicit = MergedImplicit(M, O) /\ x.pending = M.pending
      /\ x = [conc |-> x.conc, sym |-> x.sym, time |-> x.time,
              implicit |-> x.implicit, pending |-> x.pending]
  BY DEF IsMerged
<1>2. /\ \A y \in Addrs : M.conc[y] \in Seq(Items) /\ O.conc[y] \in Seq(Items)
      /\ M.sym \in SUBSET Files /\ O.sym \in SUBSET Files
      /\ M.time \in Nat /\ O.time \in Nat
      /\ M.implicit \in Int /\ M.implicit <= 0 /\ O.implicit \in Int /\ O.implicit <= 0
      /\ M.pending \in SUBSET EmptyMemory.pending
  BY <1>1, MemoryType DEF Files
<1>3. ASSUME NEW y \in Addrs
      PROVE  IsEntry(x.conc[y], M.conc[y], O.conc[y], c, d)
  BY <1>1, <1>2, EntryIs
<1>4. ASSUME NEW f \in x.sym
      PROVE  FromTree(f, M, O, a, c, d)
  BY TreeIs
<1>5. /\ x.time \in Nat /\ x.time > M.time /\ x.time > O.time
      /\ x.implicit \in Int /\ x.implicit <= 0
      /\ x.implicit <= M.implicit /\ x.implicit <= O.implicit
  BY <1>1, <1>2, MergedCounters
<1>6. ASSUME NEW g, g \in M.sym \/ g \in O.sym
      PROVE  /\ g \in Files /\ g.item \in Items /\ g.lo < g.hi
             /\ g.item.t \in (x.implicit .. x.time) \ {0} /\ (g.item.t > 0 => ~g.item.int)
  <2>1. g \in Files /\ g.item \in Items
    BY <1>2, <1>6 DEF Files
  <2>2. /\ g.lo < g.hi /\ (g.item.t > 0 => ~g.item.int)
        /\ \/ g.item.t \in (M.implicit .. M.time) \ {0}
           \/ g.item.t \in (O.implicit .. O.time) \ {0}
    BY <1>1, <1>6 DEF Placed
  <2>3. PICK t \in Int : t = g.item.t
    BY <2>1, ItemType
  <2>4. t \in (x.implicit .. x.time) \ {0}
    BY <1>2, <1>5, <2>2, <2>3
  <2> QED BY <2>1, <2>2, <2>3, <2>4
<1>7. ASSUME NEW f \in x.sym
      PROVE  /\ f \in Files /\ f.lo < f.hi
             /\ f.item.t \in (x.implicit .. x.time) \ {0} /\ (f.item.t > 0 => ~f.item.int)
  <2>1. CASE f \in M.sym
    BY <1>6, <2>1
  <2>2. ASSUME NEW g, g \in M.sym \/ g \in O.sym, NEW b \in SUBSET Worlds,
               f.lo = g.lo, f.hi = g.hi, f.item = Guarded(g.item, b), f \in Files
        PROVE  /\ f \in Files /\ f.lo < f.hi
               /\ f.item.t \in (x.implicit .. x.time) \ {0} /\ (f.item.t > 0 => ~f.item.int)
    BY <1>6, <2>2, GuardedIs
  <2>3. CASE f \notin M.sym
    <3>1. PICK g \in M.sym \cup O.sym, b \in SUBSET Worlds :
                   /\ f.lo = g.lo /\ f.hi = g.hi
                   /\ f.item = Guarded(g.item, b) /\ f \in Files
      BY <1>1, <1>4, <2>3 DEF FromTree
    <3>2. g \in M.sym \/ g \in O.sym
      OBVIOUS
    <3> QED BY <2>2, <3>1, <3>2
  <2> QED BY <2>1, <2>3
<1>8. ASSUME NEW y \in Addrs, NEW q, q \in Range(M.conc[y]) \/ q \in Range(O.conc[y])
      PROVE  q \in Items /\ q.int /\ q.at = Const(y) /\ q.t \in 0 .. x.time
  <2>1. q \in Items
    BY <1>2, <1>8, RangeOfSeq
  <2>2. q.int /\ q.at = Const(y) /\ (q.t \in 0 .. M.time \/ q.t \in 0 .. O.time)
    BY <1>1, <1>8 DEF Placed
  <2>3. PICK t \in Int : t = q.t
    BY <2>1, ItemType
  <2>4. t \in 0 .. x.time
    BY <1>2, <1>5, <2>2, <2>3
  <2> QED BY <2>1, <2>2, <2>3, <2>4
<1>9. ASSUME NEW y \in Addrs, NEW p \in Range(x.conc[y])
      PROVE  p.int /\ p.at = Const(y) /\ p.t \in 0 .. x.time
  <2>1. CASE p \in Range(M.conc[y]) \/ p \in Range(O.conc[y])
    BY <1>8, <2>1
  <2>2. ASSUME NEW q, q \in Range(M.conc[y]) \/ q \in Range(O.conc[y]),
               NEW b \in SUBSET Worlds, p = Guarded(q, b)
        PROVE  p.int /\ p.at = Const(y) /\ p.t \in 0 .. x.time
    BY <1>8, <2>2, GuardedIs
  <2>3. ASSUME NEW q, x.conc[y] = <<q>> PROVE p = q
    BY <2>3, RangeSingle
  <2>4. \/ p \in Range(M.conc[y]) \/ p \in Range(O.conc[y])
        \/ \E q \in Range(M.conc[y]) : p = Guarded(q, c)
        \/ \E q \in Range(O.conc[y]) : p = Guarded(q, d)
    BY <1>3, <2>3 DEF IsEntry
  <2> QED BY <1>1, <2>1, <2>2, <2>4
<1>10. x.conc \in [Addrs -> Seq(Items)]
  BY <1>1, <1>3 DEF IsEntry
<1>11. x \in Memories
  BY <1>1, <1>2, <1>5, <1>7, <1>10 DEF Memories, Files
<1> QED BY <1>7, <1>9, <1>11 DEF Placed

-----------------------------------------------------------------------------
(* The items of a merged memory. *)

\* Is an item of the concrete memory?
IsConc(q) == q.int /\ q.t >= 0

\* Does an item come through the merge without a guard?
Kept(q, M, O, a) ==
  IF IsConc(q) THEN \E y \in Addrs : q.at = Const(y) /\ M.conc[y] = O.conc[y]
               ELSE ~Since(q, a)
Turned(q, M, O, a, c) == IF Kept(q, M, O, a) THEN q ELSE Guarded(q, c)

\* An item alone at its address, of the binary.
IsAlone(p, x) == p.t = 0 /\ p.int /\ \E y \in Addrs : p.at = Const(y) /\ x.conc[y] = <<p>>

IsFrom(p, x, M, O, a, c, d) ==
  \/ IsAlone(p, x)
  \/ \E q \in AllItems(M) : p = Turned(q, M, O, a, c)
  \/ \E q \in AllItems(O) : /\ p = Guarded(q, d) /\ ~Kept(q, M, O, a)
                            /\ p = Turned(q, M, O, a, d)

\* Every item of a merged memory is one of the two sides, guarded or kept.
LEMMA MergedItems ==
  ASSUME NEW x, NEW M, NEW O, NEW a, NEW c, NEW d, IsMerged(x, M, O, a, c, d),
         NEW p \in AllItems(x)
  PROVE  IsFrom(p, x, M, O, a, c, d)
<1>1. /\ M \in Memories /\ Placed(M) /\ O \in Memories /\ Placed(O)
      /\ c \in SUBSET Worlds /\ d \in SUBSET Worlds
      /\ x.conc = [y \in Addrs |-> MergeEntry(M.conc[y], O.conc[y], c, d)]
      /\ x \in Memories
  BY MergedPlaced DEF IsMerged
<1>2. ASSUME NEW m \in {M, O}, NEW y \in Addrs, NEW q \in Range(m.conc[y])
      PROVE  /\ q \in AllItems(m) /\ q.int /\ q.at = Const(y) /\ IsConc(q)
             /\ Kept(q, M, O, a) <=> M.conc[y] = O.conc[y]
  <2>1. m \in Memories /\ Placed(m)
    BY <1>1
  <2>2. q \in AllItems(m) /\ q.int /\ q.at = Const(y) /\ q.t \in 0 .. m.time
    BY <2>1, ItemsOf DEF Placed
  <2>3. m.time \in Nat
    BY <2>1, MemoryType
  <2>4. IsConc(q)
    BY <2>2, <2>3 DEF IsConc
  <2>5. \A z \in Addrs : q.at = Const(z) <=> z = y
    BY <2>2, ConstIs, AddrsAssumption
  <2> QED BY <2>2, <2>4, <2>5 DEF Kept
<1>3. ASSUME NEW m \in {M, O}, NEW f \in m.sym
      PROVE  /\ f.item \in AllItems(m) /\ (Kept(f.item, M, O, a) <=> ~Since(f.item, a))
  <2>1. m \in Memories /\ Placed(m)
    BY <1>1
  <2>2. f.item \in AllItems(m) /\ ~IsConc(f.item)
    BY <2>1, ItemsOf, Kinds DEF IsConc
  <2> QED BY <2>2 DEF Kept
<1>4. CASE \E y \in Addrs : p \in Range(x.conc[y])
  <2>1. PICK y \in Addrs : p \in Range(x.conc[y])
    BY <1>4
  <2>2. PICK e : e = x.conc[y]
    OBVIOUS
  <2>3. M.conc[y] \in Seq(Items) /\ O.conc[y] \in Seq(Items)
    BY <1>1, MemoryType
  <2>4. IsEntry(e, M.conc[y], O.conc[y], c, d)
    BY <1>1, <2>2, <2>3, EntryIs
  <2>5. CASE M.conc[y] = O.conc[y] /\ e = M.conc[y]
    <3>1. p \in Range(M.conc[y])
      BY <2>1, <2>2, <2>5
    <3>2. p \in AllItems(M) /\ Kept(p, M, O, a)
      BY <1>2, <2>5, <3>1
    <3> QED BY <3>2 DEF IsFrom, Turned
  <2>6. CASE \E q : /\ q \in Range(M.conc[y]) \/ q \in Range(O.conc[y])
                    /\ e = <<q>> /\ q.t = 0 /\ ~q.guard.on
    <3>1. /\ p \in Range(M.conc[y]) \/ p \in Range(O.conc[y])
          /\ e = <<p>> /\ p.t = 0
      BY <2>1, <2>2, <2>6, RangeSingle
    <3>2. p.int /\ p.at = Const(y)
      BY <1>2, <3>1
    <3> QED BY <2>2, <3>1, <3>2 DEF IsFrom, IsAlone
  <2>7. CASE /\ M.conc[y] # O.conc[y]
             /\ \/ \E q \in Range(M.conc[y]) : p = Guarded(q, c)
                \/ \E q \in Range(O.conc[y]) : p = Guarded(q, d)
    <3>1. CASE \E q \in Range(M.conc[y]) : p = Guarded(q, c)
      <4>1. PICK q \in Range(M.conc[y]) : p = Guarded(q, c)
        BY <3>1
      <4>2. q \in AllItems(M) /\ ~Kept(q, M, O, a)
        BY <1>2, <2>7
      <4> QED BY <4>1, <4>2 DEF IsFrom, Turned
    <3>2. CASE \E q \in Range(O.conc[y]) : p = Guarded(q, d)
      <4>1. PICK q \in Range(O.conc[y]) : p = Guarded(q, d)
        BY <3>2
      <4>2. q \in AllItems(O) /\ ~Kept(q, M, O, a)
        BY <1>2, <2>7
      <4> QED BY <4>1, <4>2 DEF IsFrom, Turned
    <3> QED BY <2>7, <3>1, <3>2
  <2> QED BY <2>1, <2>2, <2>4, <2>5, <2>6, <2>7 DEF IsEntry
<1>5. CASE \E f \in x.sym : p = f.item
  <2>1. PICK f \in x.sym : p = f.item
    BY <1>5
  <2>2. FromTree(f, M, O, a, c, d)
    BY TreeIs
  <2>3. CASE f \in M.sym /\ ~Since(f.item, a)
    BY <1>3, <2>1, <2>3 DEF IsFrom, Turned
  <2>4. CASE \E g \in M.sym : Since(g.item, a) /\ f.item = Guarded(g.item, c)
    BY <1>3, <2>1, <2>4 DEF IsFrom, Turned
  <2>5. CASE \E g \in O.sym : Since(g.item, a) /\ f.item = Guarded(g.item, d)
    BY <1>3, <2>1, <2>5 DEF IsFrom, Turned
  <2> QED BY <2>2, <2>3, <2>4, <2>5 DEF FromTree
<1> QED BY <1>1, <1>4, <1>5, ItemsOf

IsTurned(p, q, c, kept) ==
  /\ p \in Items /\ p.at = q.at /\ p.t = q.t /\ p.int = q.int
  /\ p.guard.of \in SUBSET q.guard.of
  /\ p = q \/ (p.guard.of \in SUBSET c /\ ~kept)

\* An item that comes through a merge keeps its address and timestamp.
LEMMA TurnedIs ==
  ASSUME NEW q \in Items, NEW M, NEW O, NEW a, NEW c \in SUBSET Worlds
  PROVE  IsTurned(Turned(q, M, O, a, c), q, c, Kept(q, M, O, a))
<1>1. CASE Kept(q, M, O, a)
  <2>1. Turned(q, M, O, a, c) = q
    BY <1>1 DEF Turned
  <2> QED BY <2>1 DEF IsTurned
<1>2. CASE ~Kept(q, M, O, a)
  <2>1. Turned(q, M, O, a, c) = Guarded(q, c)
    BY <1>2 DEF Turned
  <2>2. PICK p : p = Guarded(q, c)
    OBVIOUS
  <2>3. /\ p \in Items /\ p.at = q.at /\ p.t = q.t /\ p.int = q.int
        /\ p.guard.of = q.guard.of \cap c
    BY <2>2, GuardedIs
  <2>4. IsTurned(p, q, c, Kept(q, M, O, a))
    BY <1>2, <2>3 DEF IsTurned
  <2> QED BY <2>1, <2>2, <2>4
<1> QED BY <1>1, <1>2

\* An item of time 0 is the only one of its entry.
LEMMA AloneIs ==
  ASSUME NEW x \in Memories, Placed(x), NEW p \in AllItems(x), IsAlone(p, x),
         NEW q \in AllItems(x), NEW w \in Worlds, p.at[w] = q.at[w], p.t = q.t
  PROVE  p = q
<1>1. PICK y \in Addrs : p.at = Const(y) /\ x.conc[y] = <<p>>
  BY DEF IsAlone
<1>2. q.t = 0
  BY DEF IsAlone
<1>3. PICK z \in Addrs : q \in Range(x.conc[z]) /\ q.at = Const(z)
  <2>1. /\ \A r \in AllItems(x) : r.t = 0 => r.int
        /\ \A r \in AllItems(x) : r.int /\ r.t >= 0 =>
             \E z \in Addrs : r \in Range(x.conc[z]) /\ r.at = Const(z)
    BY Kinds
  <2>2. q.int /\ q.t >= 0
    BY <1>2, <2>1
  <2> QED BY <2>1, <2>2
<1>4. z = y
  BY <1>1, <1>3, ConstIs, AddrsAssumption
<1> QED BY <1>1, <1>3, <1>4, RangeSingle

-----------------------------------------------------------------------------
(* What holds in a world after a merge. *)

\* An item of the tree made before the histories parted.
IsOld(q, a) == ~IsConc(q) /\ ~Since(q, a)

\* A hit in a world of the first side, of the second, or of another state.
IsHitOf(p, x, M, O, a, c, d, w, y) ==
  /\ w \in c => \/ IsAlone(p, x)
                \/ \E q \in Hits(AllItems(M), w, y) : p = Turned(q, M, O, a, c)
  /\ w \in d => \/ IsAlone(p, x)
                \/ \E q \in Hits(AllItems(O), w, y) : p = Turned(q, M, O, a, d) /\ ~IsOld(q, a)
                \/ p \in Hits(AllItems(M), w, y) /\ IsOld(p, a)
  /\ w \notin c \cup d => IsAlone(p, x) \/ p \in Hits(AllItems(M), w, y)

\* An item that holds in a world of one side, after a merge, held there before.
LEMMA MergedHit ==
  ASSUME NEW x, NEW M, NEW O, NEW a, NEW c, NEW d, IsMerged(x, M, O, a, c, d), c \cap d = {},
         NEW w \in Worlds, NEW y \in Addrs, NEW p \in Hits(AllItems(x), w, y)
  PROVE  IsHitOf(p, x, M, O, a, c, d, w, y)
<1>1. /\ M \in Memories /\ Placed(M) /\ O \in Memories /\ Placed(O)
      /\ c \in SUBSET Worlds /\ d \in SUBSET Worlds
  BY DEF IsMerged
<1>2. p \in AllItems(x) /\ p.at[w] = y /\ w \in p.guard.of
  BY DEF Hits
<1>3. AllItems(M) \subseteq Items /\ AllItems(O) \subseteq Items
  BY <1>1, ItemsOf
<1>4. CASE IsAlone(p, x)
  BY <1>4 DEF IsHitOf
<1>5. CASE \E q \in AllItems(M) : p = Turned(q, M, O, a, c)
  <2>1. PICK q \in AllItems(M) : p = Turned(q, M, O, a, c)
    BY <1>5
  <2>2. /\ p.at = q.at /\ p.guard.of \in SUBSET q.guard.of
        /\ p = q \/ (p.guard.of \in SUBSET c /\ ~Kept(q, M, O, a))
    <3>1. q \in Items
      BY <1>3
    <3>2. IsTurned(p, q, c, Kept(q, M, O, a))
      BY <1>1, <2>1, <3>1, TurnedIs
    <3> QED BY <3>2 DEF IsTurned
  <2>3. q \in Hits(AllItems(M), w, y)
    BY <1>2, <2>2 DEF Hits
  <2>4. w \notin c => p = q /\ Kept(q, M, O, a)
    <3>1. ASSUME w \notin c PROVE p = q
      BY <1>2, <2>2, <3>1
    <3>2. ASSUME w \notin c, ~Kept(q, M, O, a) PROVE FALSE
      <4>1. p = Guarded(q, c)
        BY <2>1, <3>2 DEF Turned
      <4>2. p.guard.of = q.guard.of \cap c
        BY <1>1, <1>3, <4>1, GuardedIs
      <4> QED BY <1>2, <3>2, <4>2
    <3> QED BY <3>1, <3>2
  <2>5. ASSUME w \in d
        PROVE  \/ \E r \in Hits(AllItems(O), w, y) : p = Turned(r, M, O, a, d) /\ ~IsOld(r, a)
               \/ p \in Hits(AllItems(M), w, y) /\ IsOld(p, a)
    <3>1. p = q /\ Kept(q, M, O, a)
      BY <2>4, <2>5
    <3>2. CASE IsConc(q)
      <4>1. PICK z \in Addrs : q.at = Const(z) /\ M.conc[z] = O.conc[z]
        BY <3>1, <3>2 DEF Kept
      <4>2. PICK u \in Addrs : q \in Range(M.conc[u]) /\ q.at = Const(u)
        BY <1>1, <3>2, Kinds DEF IsConc
      <4>3. u = z
        <5>1. Const(u) = Const(z) /\ u \in Int /\ z \in Int
          BY <4>1, <4>2, AddrsAssumption
        <5> QED BY <5>1, ConstIs
      <4>4. q \in AllItems(O)
        BY <1>1, <4>1, <4>2, <4>3, ItemsOf
      <4>5. q \in Hits(AllItems(O), w, y) /\ p = Turned(q, M, O, a, d) /\ ~IsOld(q, a)
        BY <2>3, <3>1, <3>2, <4>4 DEF Hits, Turned, IsOld
      <4> QED BY <4>5
    <3>3. CASE ~IsConc(q)
      BY <2>3, <3>1, <3>3 DEF Kept, IsOld
    <3> QED BY <3>2, <3>3
  <2> QED BY <2>1, <2>3, <2>4, <2>5 DEF IsHitOf
<1>6. CASE \E q \in AllItems(O) : /\ p = Guarded(q, d) /\ ~Kept(q, M, O, a)
                                  /\ p = Turned(q, M, O, a, d)
  <2>1. PICK q \in AllItems(O) : /\ p = Guarded(q, d) /\ ~Kept(q, M, O, a)
                                 /\ p = Turned(q, M, O, a, d)
    BY <1>6
  <2>2. p.at = q.at /\ p.guard.of = q.guard.of \cap d
    <3>1. q \in Items
      BY <1>3
    <3>2. Guarded(q, d).at = q.at /\ Guarded(q, d).guard.of = q.guard.of \cap d
      BY <1>1, <3>1, GuardedIs
    <3> QED BY <2>1, <3>2
  <2>3. w \in d /\ w \notin c /\ q \in Hits(AllItems(O), w, y)
    BY <1>2, <2>2 DEF Hits
  <2>4. ~IsOld(q, a)
    BY <2>1 DEF Kept, IsOld
  <2> QED BY <2>1, <2>3, <2>4 DEF IsHitOf
<1> QED BY <1>2, <1>4, <1>5, <1>6, MergedItems DEF IsFrom

\* What of the two sides is left with another state, in a world of either.
AreDistinct(M, O, a, c, d, own, b, w) ==
  /\ w \in c => Distinct(AllItems(M), w)
  /\ w \in d => /\ Distinct(AllItems(O), w)
                /\ Distinct(Before(M, FALSE, a), w)
                /\ Agree(AllItems(O), Before(M, FALSE, a), w)
  /\ w \notin c \cup d => ~own /\ Distinct(Before(M, FALSE, b), w)

\* What is left of a merged memory with another state holds in a world of the
\* first side if it did there, and of the second if it did there and what the
\* two sides share does.
LEMMA MergedDistinct ==
  ASSUME NEW x, NEW M, NEW O, NEW a, NEW c, NEW d, IsMerged(x, M, O, a, c, d), c \cap d = {},
         NEW w \in Worlds, NEW own \in BOOLEAN, NEW b,
         AreDistinct(M, O, a, c, d, own, b, w)
  PROVE  Distinct(Before(x, own, b), w)
<1> SUFFICES ASSUME NEW y \in Addrs,
                    NEW p \in Hits(Before(x, own, b), w, y),
                    NEW r \in Hits(Before(x, own, b), w, y), p.t = r.t
             PROVE  p = r
  BY DEF Distinct
<1>1. /\ M \in Memories /\ O \in Memories /\ c \in SUBSET Worlds /\ d \in SUBSET Worlds
      /\ x \in Memories /\ Placed(x)
  BY MergedPlaced DEF IsMerged
<1>2. /\ p \in Hits(AllItems(x), w, y) /\ r \in Hits(AllItems(x), w, y)
      /\ p \in AllItems(x) /\ r \in AllItems(x) /\ p.at[w] = r.at[w]
      /\ own \/ (~Since(p, b) /\ ~Since(r, b))
  BY DEF Hits, Before
<1>h. /\ w \in c => Distinct(AllItems(M), w)
      /\ w \in d => /\ Distinct(AllItems(O), w)
                    /\ Distinct(Before(M, FALSE, a), w)
                    /\ Agree(AllItems(O), Before(M, FALSE, a), w)
      /\ w \notin c \cup d => ~own /\ Distinct(Before(M, FALSE, b), w)
  BY DEF AreDistinct
<1>3. IsHitOf(p, x, M, O, a, c, d, w, y) /\ IsHitOf(r, x, M, O, a, c, d, w, y)
  BY <1>2, MergedHit
<1>4. CASE IsAlone(p, x)
  BY <1>1, <1>2, <1>4, AloneIs
<1>5. CASE IsAlone(r, x)
  <2>1. r = p
    BY <1>1, <1>2, <1>5, AloneIs
  <2> QED BY <2>1
<1>6. ASSUME NEW m \in Memories, NEW g \in SUBSET Worlds, Distinct(AllItems(m), w),
             NEW i \in Hits(AllItems(m), w, y), p = Turned(i, M, O, a, g),
             NEW j \in Hits(AllItems(m), w, y), r = Turned(j, M, O, a, g)
      PROVE  p = r
  <2>1. i \in Items /\ j \in Items
    BY ItemsOf DEF Hits
  <2>2. p.t = i.t /\ r.t = j.t
    <3>1. IsTurned(Turned(i, M, O, a, g), i, g, Kept(i, M, O, a))
          /\ IsTurned(Turned(j, M, O, a, g), j, g, Kept(j, M, O, a))
      BY <2>1, TurnedIs
    <3>2. IsTurned(p, i, g, Kept(i, M, O, a)) /\ IsTurned(r, j, g, Kept(j, M, O, a))
      BY <1>6, <3>1
    <3> QED BY <3>2 DEF IsTurned
  <2>3. i = j
    BY <1>6, <2>2 DEF Distinct
  <2> QED BY <1>6, <2>3
<1>7. CASE w \in c /\ ~IsAlone(p, x) /\ ~IsAlone(r, x)
  BY <1>h, <1>1, <1>3, <1>6, <1>7 DEF IsHitOf
<1>8. ASSUME NEW u, NEW v, w \in d, u.t = v.t,
             NEW i \in Hits(AllItems(O), w, y), u = Turned(i, M, O, a, d), ~IsOld(i, a),
             v \in Hits(AllItems(M), w, y), IsOld(v, a)
      PROVE  FALSE
  <2>1. i \in Items
    BY <1>1, ItemsOf DEF Hits
  <2>2. u.t = i.t
    BY <1>1, <1>8, <2>1, TurnedIs DEF IsTurned
  <2>3. v \in Hits(Before(M, FALSE, a), w, y)
    BY <1>8 DEF Hits, Before, IsOld
  <2>4. i.int = v.int /\ i.t = v.t
    BY <1>h, <1>8, <2>2, <2>3 DEF Agree
  <2> QED BY <1>8, <2>4 DEF IsOld, IsConc, Since
<1>9. CASE w \in d /\ ~IsAlone(p, x) /\ ~IsAlone(r, x)
  <2> DEFINE New(u) == \E i \in Hits(AllItems(O), w, y) : u = Turned(i, M, O, a, d) /\ ~IsOld(i, a)
             Old(u) == u \in Hits(AllItems(M), w, y) /\ IsOld(u, a)
  <2>1. (New(p) \/ Old(p)) /\ (New(r) \/ Old(r))
    BY <1>3, <1>9 DEF IsHitOf
  <2>2. CASE New(p) /\ New(r)
    BY <1>h, <1>1, <1>6, <1>9, <2>2
  <2>3. CASE New(p) /\ Old(r)
    BY <1>8, <1>9, <2>3
  <2>4. CASE Old(p) /\ New(r)
    BY <1>8, <1>9, <2>4
  <2>5. CASE Old(p) /\ Old(r)
    <3>1. p \in Hits(Before(M, FALSE, a), w, y) /\ r \in Hits(Before(M, FALSE, a), w, y)
      BY <2>5 DEF Hits, Before, IsOld
    <3> QED BY <1>h, <1>9, <3>1 DEF Distinct
  <2> QED BY <2>1, <2>2, <2>3, <2>4, <2>5
<1>10. CASE w \notin c \cup d /\ ~IsAlone(p, x) /\ ~IsAlone(r, x)
  <2>1. p \in Hits(AllItems(M), w, y) /\ r \in Hits(AllItems(M), w, y)
    BY <1>3, <1>10 DEF IsHitOf
  <2>2. p \in Hits(Before(M, FALSE, b), w, y) /\ r \in Hits(Before(M, FALSE, b), w, y)
    BY <1>h, <1>2, <1>10, <2>1 DEF Hits, Before
  <2> QED BY <1>h, <1>10, <2>2 DEF Distinct
<1> QED BY <1>4, <1>5, <1>7, <1>9, <1>10

\* After a merge, items of the same timestamp are still of the same kind.
LEMMA MergedAgree ==
  ASSUME NEW x, NEW M, NEW O, NEW a, NEW c, NEW d, IsMerged(x, M, O, a, c, d), c \cap d = {},
         NEW w \in Worlds, NEW own \in BOOLEAN, NEW b,
         NEW B, \A r \in B : r.t = 0 => r.int,
         w \in c => Agree(AllItems(M), B, w),
         w \in d => Agree(AllItems(O), B, w) /\ Agree(Before(M, FALSE, a), B, w),
         w \notin c \cup d => ~own /\ Agree(Before(M, FALSE, b), B, w)
  PROVE  Agree(Before(x, own, b), B, w)
<1> SUFFICES ASSUME NEW y \in Addrs,
                    NEW p \in Hits(Before(x, own, b), w, y), NEW r \in Hits(B, w, y), p.t = r.t
             PROVE  p.int = r.int
  BY DEF Agree
<1>1. /\ M \in Memories /\ O \in Memories /\ c \in SUBSET Worlds /\ d \in SUBSET Worlds
      /\ x \in Memories /\ Placed(x)
  BY MergedPlaced DEF IsMerged
<1>2. /\ p \in Hits(AllItems(x), w, y) /\ p \in AllItems(x) /\ (own \/ ~Since(p, b))
  BY DEF Hits, Before
<1>3. IsHitOf(p, x, M, O, a, c, d, w, y)
  BY <1>2, MergedHit
<1>4. CASE IsAlone(p, x)
  <2>1. p.t = 0 /\ p.int
    BY <1>4 DEF IsAlone
  <2>2. r.int
    BY <2>1 DEF Hits
  <2>3. p.int \in BOOLEAN
    BY <1>1, <1>2, ItemsOf, ItemType
  <2> QED BY <2>1, <2>2, <2>3
<1>5. ASSUME NEW m \in Memories, NEW g \in SUBSET Worlds, Agree(AllItems(m), B, w),
             NEW i \in Hits(AllItems(m), w, y), p = Turned(i, M, O, a, g)
      PROVE  p.int = r.int
  <2>1. i \in Items
    BY ItemsOf DEF Hits
  <2>2. p.t = i.t /\ p.int = i.int
    <3>1. IsTurned(Turned(i, M, O, a, g), i, g, Kept(i, M, O, a))
      BY <2>1, TurnedIs
    <3>2. IsTurned(p, i, g, Kept(i, M, O, a))
      BY <1>5, <3>1
    <3> QED BY <3>2 DEF IsTurned
  <2> QED BY <1>5, <2>2 DEF Agree
<1>6. CASE w \in c /\ ~IsAlone(p, x)
  BY <1>1, <1>3, <1>5, <1>6 DEF IsHitOf
<1>7. CASE w \in d /\ ~IsAlone(p, x)
  <2>1. CASE \E i \in Hits(AllItems(O), w, y) : p = Turned(i, M, O, a, d)
    BY <1>1, <1>5, <1>7, <2>1
  <2>2. CASE p \in Hits(AllItems(M), w, y) /\ IsOld(p, a)
    <3>1. p \in Hits(Before(M, FALSE, a), w, y)
      BY <2>2 DEF Hits, Before, IsOld
    <3> QED BY <1>7, <3>1 DEF Agree
  <2> QED BY <1>3, <1>7, <2>1, <2>2 DEF IsHitOf
<1>8. CASE w \notin c \cup d /\ ~IsAlone(p, x)
  <2>1. p \in Hits(Before(M, FALSE, b), w, y)
    BY <1>2, <1>3, <1>8 DEF Hits, Before, IsHitOf
  <2> QED BY <1>8, <2>1 DEF Agree
<1> QED BY <1>4, <1>6, <1>7, <1>8

-----------------------------------------------------------------------------
(* A merge. *)

\* What a merge does to the states: M and O are the memories of the two sides
\* with the pages of the binary the other has.
IsMerge(s, o, M, O) ==
  /\ s \in States /\ o \in States /\ s # o /\ s \in Live /\ o \in Live
  /\ path \in [States -> SUBSET Worlds] /\ path[s] \cap path[o] = {}
  /\ mem[s] \in Memories /\ Placed(mem[s]) /\ mem[o] \in Memories /\ Placed(mem[o])
  /\ \A r \in Live \ {s, o} : anc[s][r] = anc[o][r]
  /\ IsLoaded(mem[s], M) /\ IsLoaded(mem[o], O)
  /\ IsMerged(mem'[s], M, O, anc[s][o], path[s], path[o])
  /\ path'[s] = path[s] \cup path[o] /\ path'[o] = {}
  /\ mem'[o] = EmptyMemory
  /\ \A r \in States \ {s, o} : path'[r] = path[r] /\ mem'[r] = mem[r]
  /\ \A r, z \in States : anc'[r][z] =
       IF o \in {r, z} THEN [time |-> 0, implicit |-> 0]
       ELSE IF r = s /\ z = s THEN [time |-> mem'[s].time, implicit |-> mem'[s].implicit]
       ELSE anc[r][z]
  /\ truth' = [truth EXCEPT
       ![o] = [w \in Worlds |-> NoBytes],
       ![s] = [w \in Worlds |-> IF w \in path[o] THEN truth[o][w] ELSE @[w]]]
  /\ made' = made

\* What merge() does to the states, by name.
LEMMA MergeIs ==
  ASSUME TypeOK, NEW s \in States, NEW o \in States, Merge(s, o)
  PROVE  \E M, O : /\ M = LoadPages(mem[s], Pending(mem[s]) \ Pending(mem[o]))
                   /\ O = LoadPages(mem[o], Pending(mem[o]) \ Pending(mem[s]))
                   /\ IsMerge(s, o, M, O)
<1>1. PICK M : M = LoadPages(mem[s], Pending(mem[s]) \ Pending(mem[o]))
  OBVIOUS
<1>2. PICK O : O = LoadPages(mem[o], Pending(mem[o]) \ Pending(mem[s]))
  OBVIOUS
<1>3. /\ path \in [States -> SUBSET Worlds] /\ mem \in [States -> Memories]
      /\ \A r \in States : mem[r] \in Memories /\ Placed(mem[r])
      /\ s # o => path[s] \cap path[o] = {}
  BY DEF TypeOK
<1>4. s # o /\ s \in Live /\ o \in Live /\ \A r \in Live \ {s, o} : anc[s][r] = anc[o][r]
  BY DEF Merge
<1>5. IsLoaded(mem[s], M) /\ IsLoaded(mem[o], O)
  BY <1>1, <1>2, <1>3, LoadedFrom
<1>6. M \in Memories /\ Placed(M) /\ O \in Memories /\ Placed(O)
  BY <1>3, <1>5, LoadedPlaced DEF IsLoaded
<1> DEFINE x == [conc |-> [a \in Addrs |-> MergeEntry(M.conc[a], O.conc[a], path[s], path[o])],
                 sym  |-> MergeSymbolic(M.sym, O.sym, anc[s][o], path[s], path[o]),
                 time |-> MergedTime(M, O),
                 implicit |-> MergedImplicit(M, O),
                 pending |-> M.pending]
<1>7. mem' = [mem EXCEPT ![o] = EmptyMemory, ![s] = x]
  BY <1>1, <1>2 DEF Merge
<1>8. path' = [path EXCEPT ![s] = @ \cup path[o], ![o] = {}]
  BY DEF Merge
<1>9. anc' = [r \in States |-> [z \in States |->
                   IF o \in {r, z} THEN [time |-> 0, implicit |-> 0]
                   ELSE IF r = s /\ z = s
                     THEN [time |-> mem'[s].time, implicit |-> mem'[s].implicit]
                     ELSE anc[r][z]]]
  BY DEF Merge
<1>10. IsMerged(x, M, O, anc[s][o], path[s], path[o])
  BY <1>3, <1>6 DEF IsMerged
<1> HIDE DEF x
<1>11. mem'[s] = x /\ mem'[o] = EmptyMemory /\ \A r \in States \ {s, o} : mem'[r] = mem[r]
  BY <1>3, <1>4, <1>7
<1>12. /\ path'[s] = path[s] \cup path[o] /\ path'[o] = {}
       /\ \A r \in States \ {s, o} : path'[r] = path[r]
  BY <1>3, <1>4, <1>8
<1>13. \A r, z \in States : anc'[r][z] =
         IF o \in {r, z} THEN [time |-> 0, implicit |-> 0]
         ELSE IF r = s /\ z = s THEN [time |-> mem'[s].time, implicit |-> mem'[s].implicit]
         ELSE anc[r][z]
  BY <1>9
<1>14. /\ truth' = [truth EXCEPT
            ![o] = [w \in Worlds |-> NoBytes],
            ![s] = [w \in Worlds |-> IF w \in path[o] THEN truth[o][w] ELSE @[w]]]
       /\ made' = made
  BY DEF Merge
<1>15. IsMerge(s, o, M, O)
  BY <1>3, <1>4, <1>5, <1>10, <1>11, <1>12, <1>13, <1>14 DEF IsMerge
<1> QED BY <1>1, <1>2, <1>15

\* Loading binary pages disturbs nothing that holds in a world.
LEMMA LoadedAll ==
  ASSUME NEW m \in Memories, Placed(m), NEW l, IsLoaded(m, l), NEW w \in Worlds
  PROVE  /\ Distinct(AllItems(m), w) => Distinct(AllItems(l), w)
         /\ \A a : Distinct(Before(m, FALSE, a), w) => Distinct(Before(l, FALSE, a), w)
         /\ \A B : (\A q \in B : q.t = 0 => q.int) =>
              /\ Agree(AllItems(m), B, w) => Agree(AllItems(l), B, w)
              /\ \A a : Agree(Before(m, FALSE, a), B, w) => Agree(Before(l, FALSE, a), B, w)
<1>1. PICK on \in BOOLEAN : on
  OBVIOUS
<1>2. PICK off \in BOOLEAN : ~off
  OBVIOUS
<1>3. \A n, a : Before(n, on, a) = AllItems(n) /\ Before(n, off, a) = Before(n, FALSE, a)
  BY <1>1, <1>2 DEF Before
<1>4. \A own \in BOOLEAN : \A a : Distinct(Before(m, own, a), w) => Distinct(Before(l, own, a), w)
  BY LoadedDistinct
<1>5. \A own \in BOOLEAN : \A a, B :
        (\A q \in B : q.t = 0 => q.int) /\ Agree(Before(m, own, a), B, w)
          => Agree(Before(l, own, a), B, w)
  BY LoadedAgree
<1>6. Distinct(AllItems(m), w) => Distinct(AllItems(l), w)
  <2>1. Distinct(Before(m, on, 0), w) => Distinct(Before(l, on, 0), w)
    BY <1>4
  <2> QED BY <1>3, <2>1
<1>7. \A a : Distinct(Before(m, FALSE, a), w) => Distinct(Before(l, FALSE, a), w)
  <2>1. \A a : Distinct(Before(m, off, a), w) => Distinct(Before(l, off, a), w)
    BY <1>4
  <2> QED BY <1>3, <2>1
<1>8. ASSUME NEW B, \A q \in B : q.t = 0 => q.int
      PROVE  /\ Agree(AllItems(m), B, w) => Agree(AllItems(l), B, w)
             /\ \A a : Agree(Before(m, FALSE, a), B, w) => Agree(Before(l, FALSE, a), B, w)
  <2>1. \A a : Agree(Before(m, off, a), B, w) => Agree(Before(l, off, a), B, w)
    BY <1>5, <1>8
  <2>2. Agree(Before(m, on, 0), B, w) => Agree(Before(l, on, 0), B, w)
    BY <1>5, <1>8
  <2> QED BY <1>3, <2>1, <2>2
<1> QED BY <1>6, <1>7, <1>8

\* What the sides of a merge have in common with the states.
IsSide(s, o, M, O, y, w) ==
  /\ y = s => /\ Distinct(AllItems(M), w)
              /\ \A r \in Live \ {s, o} : Agree(AllItems(M), Shared(r, y), w)
  /\ y # s => /\ Distinct(Before(M, FALSE, anc[s][y]), w)
              /\ \A r \in Live \ {s, o} : Agree(Before(M, FALSE, anc[s][y]), Shared(r, y), w)
  /\ y = o => /\ Distinct(AllItems(O), w)
              /\ Agree(AllItems(O), Before(M, FALSE, anc[s][o]), w)
              /\ \A r \in Live \ {s, o} : Agree(AllItems(O), Shared(r, y), w)

\* The two sides of a merge, with the pages of the binary loaded.
LEMMA MergeSides ==
  ASSUME TypeOK, OneAtATime, NEW s, NEW o, NEW M, NEW O, IsMerge(s, o, M, O),
         NEW y \in Live, NEW w \in path[y]
  PROVE  IsSide(s, o, M, O, y, w)
<1>1. /\ s # o /\ s \in Live /\ o \in Live
      /\ mem[s] \in Memories /\ Placed(mem[s]) /\ mem[o] \in Memories /\ Placed(mem[o])
      /\ IsLoaded(mem[s], M) /\ IsLoaded(mem[o], O)
      /\ M \in Memories /\ Placed(M) /\ O \in Memories /\ Placed(O)
  BY DEF IsMerge, IsMerged
<1>2. w \in Worlds
  BY DEF TypeOK, Live
<1>3. /\ \A r \in Live : Distinct(Shared(r, y), w)
      /\ \A r, z \in Live : Agree(Shared(r, y), Shared(z, y), w)
  BY DEF OneAtATime
<1>4. ASSUME NEW m \in Memories, Placed(m), NEW q \in AllItems(m), q.t = 0 PROVE q.int
  BY <1>4, Kinds
<1>5. ASSUME NEW r \in Live, NEW q \in Shared(r, y), q.t = 0 PROVE q.int
  <2>1. mem[r] \in Memories /\ Placed(mem[r]) /\ q \in AllItems(mem[r])
    BY DEF TypeOK, Live, Shared, Before
  <2> QED BY <1>4, <1>5, <2>1
<1>6. CASE y = s
  <2>1. Shared(s, y) = AllItems(mem[s])
    BY <1>6 DEF Shared, Before
  <2>2. Distinct(AllItems(M), w)
    <3>1. Distinct(AllItems(mem[s]), w)
      BY <1>1, <1>3, <2>1
    <3> QED BY <1>1, <1>2, <3>1, LoadedAll
  <2>3. ASSUME NEW r \in Live \ {s, o} PROVE Agree(AllItems(M), Shared(r, y), w)
    <3>1. Agree(AllItems(mem[s]), Shared(r, y), w)
      BY <1>1, <1>3, <2>1
    <3> QED BY <1>1, <1>2, <1>5, <3>1, LoadedAll
  <2> QED BY <1>1, <1>6, <2>2, <2>3 DEF IsSide
<1>7. CASE y # s
  <2> DEFINE b == anc[s][y]
  <2>1. Shared(s, y) = Before(mem[s], FALSE, b)
    BY <1>7 DEF Shared, Before
  <2> HIDE DEF b
  <2>2. Distinct(Before(M, FALSE, b), w)
    <3>1. Distinct(Before(mem[s], FALSE, b), w)
      BY <1>1, <1>3, <2>1
    <3> QED BY <1>1, <1>2, <3>1, LoadedAll
  <2>3. ASSUME NEW r \in Live \ {s} PROVE Agree(Before(M, FALSE, b), Shared(r, y), w)
    <3>1. Agree(Before(mem[s], FALSE, b), Shared(r, y), w)
      BY <1>1, <1>3, <2>1
    <3> QED BY <1>1, <1>2, <1>5, <3>1, LoadedAll
  <2>4. CASE y = o
    <3>1. Shared(o, y) = AllItems(mem[o])
      BY <2>4 DEF Shared, Before
    <3>2. Distinct(AllItems(O), w)
      <4>1. Distinct(AllItems(mem[o]), w)
        BY <1>1, <1>3, <3>1
      <4> QED BY <1>1, <1>2, <4>1, LoadedAll
    <3>3. ASSUME NEW r \in Live \ {s, o} PROVE Agree(AllItems(O), Shared(r, y), w)
      <4>1. Agree(AllItems(mem[o]), Shared(r, y), w)
        BY <1>1, <1>3, <3>1
      <4> QED BY <1>1, <1>2, <1>5, <4>1, LoadedAll
    <3>4. Agree(AllItems(O), Before(M, FALSE, b), w)
      <4>1. Agree(AllItems(mem[o]), Before(M, FALSE, b), w)
        BY <1>1, <2>3, <3>1, Narrower
      <4>2. \A q \in Before(M, FALSE, b) : q.t = 0 => q.int
        BY <1>1, <1>4 DEF Before
      <4> QED BY <1>1, <1>2, <4>1, <4>2, LoadedAll
    <3> QED BY <1>1, <2>2, <2>3, <2>4, <3>2, <3>3, <3>4 DEF IsSide, b
  <2> QED BY <1>7, <2>2, <2>3, <2>4 DEF IsSide, b
<1> QED BY <1>6, <1>7

\* Where the worlds of state z were before a merge: with state y.
IsSource(s, o, z, w, y) ==
  /\ y \in Live /\ w \in path[y] /\ w \in Worlds
  /\ w \in path[s] => z = s /\ y = s
  /\ w \in path[o] => z = s /\ y = o
  /\ w \notin path[s] \cup path[o] => z # s /\ y = z /\ y # o /\ anc'[s][z] = anc[s][y]
  /\ \A r \in Live' : r # s => r \in Live \ {s, o} /\ Shared(r, z)' = Shared(r, y)

\* What a merged state shares with another, either side shared with it before.
LEMMA MergeSource ==
  ASSUME TypeOK, Ancestry, NEW s, NEW o, NEW M, NEW O, IsMerge(s, o, M, O),
         NEW z \in Live', NEW w \in path'[z]
  PROVE  \E y : IsSource(s, o, z, w, y)
<1> DEFINE c == path[s]
           d == path[o]
<1>2. /\ s # o /\ s \in Live /\ o \in Live /\ s \in States /\ o \in States
      /\ c \cap d = {} /\ c \in SUBSET Worlds /\ d \in SUBSET Worlds
      /\ path'[s] = c \cup d /\ path'[o] = {}
      /\ \A r \in States \ {s, o} : path'[r] = path[r] /\ mem'[r] = mem[r]
  BY DEF IsMerge, Live
<1>4. ASSUME NEW r \in Live', r # s PROVE r \in Live \ {s, o} /\ r \in States /\ anc[s][r] = anc[o][r]
  <2>1. r \in States /\ r # o
    BY <1>2, <1>4 DEF Live
  <2>2. r \in Live \ {s, o}
    BY <1>2, <1>4, <2>1 DEF Live
  <2> QED BY <2>1, <2>2 DEF IsMerge
<1>5. ASSUME NEW r \in Live', r # s
      PROVE  /\ Shared(r, z)' = Shared(r, z)
             /\ Shared(r, s) = Shared(r, o)
  <2>1. r \in Live \ {s, o} /\ r \in States /\ anc[s][r] = anc[o][r] /\ mem'[r] = mem[r]
    BY <1>2, <1>4, <1>5
  <2>2. z \in States /\ z # o
    BY <1>2 DEF Live
  <2>3. anc'[r][z] = anc[r][z]
    BY <1>5, <2>1, <2>2 DEF IsMerge
  <2>4. anc[r][s] = anc[s][r] /\ anc[r][o] = anc[o][r]
    BY <1>2, <2>1 DEF Ancestry
  <2>5. Shared(r, z)' = Before(mem'[r], r = z, anc'[r][z])
    BY DEF Shared
  <2>6. Shared(r, z)' = Shared(r, z)
    BY <2>1, <2>3, <2>5 DEF Shared
  <2>7. Shared(r, s) = Shared(r, o)
    BY <2>1, <2>4 DEF Shared, Before
  <2> QED BY <2>6, <2>7
<1>6. CASE z = s /\ w \in c
  <2>1. IsSource(s, o, z, w, s)
    BY <1>2, <1>4, <1>5, <1>6 DEF IsSource
  <2> QED BY <2>1
<1>7. CASE z = s /\ w \in d
  <2>1. IsSource(s, o, z, w, o)
    BY <1>2, <1>4, <1>5, <1>7 DEF IsSource
  <2> QED BY <2>1
<1>8. CASE z # s
  <2>1. z \in Live /\ z \notin {s, o} /\ z \in States
    BY <1>4, <1>8
  <2>2. path'[z] = path[z]
    BY <1>2, <2>1
  <2>3. path[z] \cap c = {} /\ path[z] \cap d = {} /\ path[z] \in SUBSET Worlds
    BY <1>2, <2>1 DEF TypeOK
  <2>4. anc'[s][z] = anc[s][z]
    BY <1>2, <1>8, <2>1 DEF IsMerge
  <2>5. IsSource(s, o, z, w, z)
    BY <1>2, <1>4, <1>5, <1>8, <2>1, <2>2, <2>3, <2>4 DEF IsSource
  <2> QED BY <2>5
<1> QED BY <1>2, <1>6, <1>7, <1>8

\* merge() keeps timestamps telling.
LEMMA MergeKeepsOne ==
  ASSUME TypeOK, Ancestry, OneAtATime, NEW s \in States, NEW o \in States, Merge(s, o)
  PROVE  OneAtATime'
<1>1. PICK M, O : IsMerge(s, o, M, O)
  BY MergeIs
<1> DEFINE a == anc[s][o]
           c == path[s]
           d == path[o]
           x == mem'[s]
<1>2. IsMerged(x, M, O, a, c, d) /\ c \cap d = {}
  BY <1>1 DEF IsMerge
<1>3. ASSUME NEW z \in Live', NEW w \in path'[z], s \in Live'
      PROVE  /\ Distinct(Shared(s, z)', w)
             /\ \A r \in Live' : r # s => Agree(Shared(s, z)', Shared(r, z)', w)
  <2>1. PICK y : IsSource(s, o, z, w, y)
    BY <1>1, MergeSource
  <2>2. IsSide(s, o, M, O, y, w)
    BY <1>1, <2>1, MergeSides DEF IsSource
  <2>3. PICK own \in BOOLEAN : own <=> s = z
    OBVIOUS
  <2>4. PICK b : b = anc'[s][z]
    OBVIOUS
  <2>5. Shared(s, z)' = Before(x, own, b)
    BY <2>3, <2>4 DEF Shared, Before
  <2>6. w \in Worlds /\ s # o
    BY <1>1, <2>1 DEF IsSource, IsMerge
  <2>7. w \in c => Distinct(AllItems(M), w)
    BY <2>1, <2>2 DEF IsSource, IsSide
  <2>8. w \in d => /\ Distinct(AllItems(O), w)
                   /\ Distinct(Before(M, FALSE, a), w)
                   /\ Agree(AllItems(O), Before(M, FALSE, a), w)
    BY <2>1, <2>2, <2>6 DEF IsSource, IsSide
  <2>9. w \notin c \cup d => ~own /\ Distinct(Before(M, FALSE, b), w)
    BY <2>1, <2>2, <2>3, <2>4 DEF IsSource, IsSide
  <2>10. Distinct(Before(x, own, b), w)
    <3>1. AreDistinct(M, O, a, c, d, own, b, w)
      BY <2>7, <2>8, <2>9 DEF AreDistinct
    <3> HIDE DEF a, c, d, x
    <3> QED BY <1>2, <2>6, <3>1, MergedDistinct
  <2>11. ASSUME NEW r \in Live', r # s PROVE Agree(Before(x, own, b), Shared(r, z)', w)
    <3>1. PICK B : B = Shared(r, y)
      OBVIOUS
    <3>2. r \in Live \ {s, o} /\ Shared(r, z)' = B
      BY <2>1, <2>11, <3>1 DEF IsSource
    <3>3. \A q \in B : q.t = 0 => q.int
      <4>1. mem[r] \in Memories /\ Placed(mem[r])
        BY <3>2 DEF TypeOK, Live
      <4> QED BY <3>1, <4>1, Kinds DEF Shared, Before
    <3>4. w \in c => Agree(AllItems(M), B, w)
      BY <2>1, <2>2, <3>1, <3>2 DEF IsSource, IsSide
    <3>5. w \in d => Agree(AllItems(O), B, w) /\ Agree(Before(M, FALSE, a), B, w)
      BY <2>1, <2>2, <2>6, <3>1, <3>2 DEF IsSource, IsSide
    <3>6. w \notin c \cup d => ~own /\ Agree(Before(M, FALSE, b), B, w)
      BY <2>1, <2>2, <2>3, <2>4, <3>1, <3>2 DEF IsSource, IsSide
    <3>7. Agree(Before(x, own, b), B, w)
      <4> HIDE DEF a, c, d, x
      <4> QED BY <1>2, <2>6, <3>3, <3>4, <3>5, <3>6, MergedAgree
    <3> QED BY <3>2, <3>7
  <2> QED BY <2>5, <2>10, <2>11
<1>4. ASSUME NEW z \in Live', NEW w \in path'[z], NEW r \in Live', r # s
      PROVE  /\ Distinct(Shared(r, z)', w)
             /\ \A q \in Live' : q # s => Agree(Shared(r, z)', Shared(q, z)', w)
  <2>1. PICK y : IsSource(s, o, z, w, y)
    BY <1>1, MergeSource
  <2>2. /\ y \in Live /\ w \in path[y]
        /\ \A q \in Live' : q # s => q \in Live /\ Shared(q, z)' = Shared(q, y)
    BY <2>1 DEF IsSource
  <2>3. /\ \A q \in Live : Distinct(Shared(q, y), w)
        /\ \A q, p \in Live : Agree(Shared(q, y), Shared(p, y), w)
    BY <2>2 DEF OneAtATime
  <2> QED BY <1>4, <2>2, <2>3
<1>5. ASSUME NEW r \in Live', NEW z \in Live', NEW w \in path'[z]
      PROVE  /\ Distinct(Shared(r, z)', w)
             /\ \A q \in Live' : Agree(Shared(r, z)', Shared(q, z)', w)
  <2>1. Distinct(Shared(r, z)', w)
    BY <1>3, <1>4
  <2>2. ASSUME NEW q \in Live' PROVE Agree(Shared(r, z)', Shared(q, z)', w)
    <3>1. CASE r = q
      BY <2>1, <3>1, Narrower
    <3>2. CASE r = s /\ q # s
      BY <1>3, <3>2
    <3>3. CASE r # s /\ q = s
      <4>1. Agree(Shared(q, z)', Shared(r, z)', w)
        BY <1>3, <3>3
      <4> QED BY <4>1, Narrower
    <3>4. CASE r # s /\ q # s
      BY <1>4, <3>4
    <3> QED BY <3>1, <3>2, <3>3, <3>4
  <2> QED BY <2>1, <2>2
<1> QED BY <1>5 DEF OneAtATime, Distinct, Agree, Hits

-----------------------------------------------------------------------------
(* The initial states. *)

\* The memory of SymbolicMemory() has no items.
LEMMA EmptyIs ==
  EmptyMemory \in Memories /\ Placed(EmptyMemory) /\ AllItems(EmptyMemory) = {}
<1>1. /\ EmptyMemory.conc = [a \in Addrs |-> <<>>] /\ EmptyMemory.sym = {}
      /\ EmptyMemory.time = 0 /\ EmptyMemory.implicit = 0
      /\ EmptyMemory = [conc |-> EmptyMemory.conc, sym |-> EmptyMemory.sym,
                        time |-> EmptyMemory.time, implicit |-> EmptyMemory.implicit,
                        pending |-> EmptyMemory.pending]
  BY DEF EmptyMemory
<1>2. EmptyMemory \in Memories
  <2>1. PICK m : m = EmptyMemory
    OBVIOUS
  <2>2. /\ m.conc \in [Addrs -> Seq(Items)] /\ m.sym \in SUBSET [lo : Int, hi : Int, item : Items]
        /\ m.time \in Nat /\ m.implicit \in {t \in Int : t <= 0}
        /\ m.pending \in SUBSET EmptyMemory.pending
        /\ m = [conc |-> m.conc, sym |-> m.sym, time |-> m.time, implicit |-> m.implicit,
                pending |-> m.pending]
    <3>1. m.conc \in [Addrs -> Seq(Items)]
      <4>1. <<>> \in Seq(Items)
        OBVIOUS
      <4>2. m.conc = [a \in Addrs |-> <<>>]
        BY <1>1, <2>1
      <4> QED BY <4>1, <4>2
    <3>2. m.pending \in SUBSET EmptyMemory.pending
      BY <2>1
    <3> QED BY <1>1, <2>1, <3>1, <3>2
  <2>3. m \in Memories
    BY <2>2 DEF Memories
  <2> QED BY <2>1, <2>3
<1>3. \A a \in Addrs : Range(EmptyMemory.conc[a]) = {}
  BY <1>1 DEF Range
<1> QED BY <1>1, <1>2, <1>3 DEF Placed, AllItems

\* The byte array of the ghost starts out with the bytes of the binary.
LEMMA ImageIs == Image \in [Addrs -> Int \cup Bytes] /\ NoBytes \in [Addrs -> Int \cup Bytes]
<1>1. ASSUME NEW a \in Addrs PROVE Image[a] \in Int \cup Bytes
  <2>1. PICK at : at = {g \in Segments : a - g.addr \in 0 .. Len(g.bytes) - 1}
    OBVIOUS
  <2>2. Image[a] = IF at = {} THEN Unknown
                   ELSE LET g == CHOOSE g \in at : TRUE IN g.bytes[a - g.addr + 1]
    BY <2>1 DEF Image
  <2>3. CASE at # {}
    <3>1. PICK g \in at : Image[a] = g.bytes[a - g.addr + 1]
      BY <2>2, <2>3
    <3>2. g \in Segments /\ a - g.addr \in 0 .. Len(g.bytes) - 1
      BY <2>1, <3>1
    <3>3. PICK i \in Int : i = a - g.addr + 1
      BY <3>2
    <3>4. i \in 1 .. Len(g.bytes)
      BY <3>2, <3>3, SegmentType
    <3>5. g.bytes[i] \in Nat \ {0}
      BY <3>2, <3>4, SegmentType
    <3> QED BY <3>1, <3>3, <3>5
  <2>4. CASE at = {}
    BY <2>2, <2>4 DEF Unknown
  <2> QED BY <2>3, <2>4
<1> QED BY <1>1 DEF Image, NoBytes, Unknown

\* The invariant holds at first.
LEMMA InitIs ==
  ASSUME Init
  PROVE  IInv
<1>1. PICK s \in States : /\ path = [x \in States |-> IF x = s THEN Worlds ELSE {}]
                          /\ truth = [x \in States |-> [w \in Worlds |->
                               IF x = s THEN Image ELSE NoBytes]]
  BY DEF Init
<1>2. /\ mem = [x \in States |-> EmptyMemory]
      /\ anc = [x \in States |-> [o \in States |-> [time |-> 0, implicit |-> 0]]]
      /\ made = 0 /\ ops = 0
  BY DEF Init
<1>3. /\ path \in [States -> SUBSET Worlds]
      /\ \A x, o \in States : x # o => path[x] \cap path[o] = {}
  BY <1>1
<1>4. truth \in [States -> [Worlds -> [Addrs -> Int \cup Bytes]]]
  BY <1>1, ImageIs
<1>5. /\ EmptyMemory.time = 0 /\ EmptyMemory.implicit = 0
  BY DEF EmptyMemory
<1>6. TypeOK
  <2>1. ops \in 0 .. MaxOps /\ made \in Nat
    BY <1>2, MaxOpsAssumption
  <2>2. \A x \in States : Placed(mem[x]) /\ mem[x].time <= ops /\ -mem[x].implicit \in 0 .. made
    BY <1>2, <1>5, EmptyIs
  <2> QED BY <1>2, <1>3, <1>4, <2>1, <2>2, EmptyIs DEF TypeOK
<1>7. Ancestry
  BY <1>2, <1>5 DEF Ancestry
<1>8. OneAtATime
  <2>1. \A x, z \in Live : Shared(x, z) = {}
    BY <1>2, EmptyIs DEF Shared, Before, Live
  <2> QED BY <2>1 DEF OneAtATime, Distinct, Agree, Hits
<1>9. FiledForAll
  BY <1>2 DEF FiledForAll, Live, EmptyMemory
<1> QED BY <1>6, <1>7, <1>8, <1>9 DEF IInv

-----------------------------------------------------------------------------
(* The common ancestors stay older than the states. *)

\* The memory of each state only ages, and the ancestors stay.
LEMMA AgingKeepsAncestry ==
  ASSUME Ancestry, anc' = anc,
         \A r \in States : /\ mem[r] \in Memories /\ mem'[r] \in Memories
                           /\ mem'[r].time >= mem[r].time /\ mem'[r].implicit <= mem[r].implicit
  PROVE  Ancestry'
<1> SUFFICES ASSUME NEW s \in States, NEW o \in States
             PROVE  /\ anc[s][o] = anc[o][s]
                    /\ anc[s][o].time \in 0 .. mem'[s].time
                    /\ anc[s][o].implicit \in mem'[s].implicit .. 0
  BY DEF Ancestry
<1>1. /\ anc[s][o] = anc[o][s]
      /\ anc[s][o].time \in 0 .. mem[s].time
      /\ anc[s][o].implicit \in mem[s].implicit .. 0
  BY DEF Ancestry
<1>2. PICK t \in Int, u \in Int : t = mem[s].time /\ u = mem'[s].time /\ u >= t
  BY MemoryType
<1>3. PICK i \in Int, j \in Int : i = mem[s].implicit /\ j = mem'[s].implicit /\ j <= i
  BY MemoryType
<1> QED BY <1>1, <1>2, <1>3

\* A fork finds its common ancestor no later than the state.
LEMMA ForkKeepsAncestry ==
  ASSUME TypeOK, Ancestry, NEW s \in States, NEW n \in States, NEW c \in SUBSET Worlds,
         Fork(s, n, c)
  PROVE  Ancestry'
<1>1. PICK old : IsFork(s, n, old)
  BY ForkIs
<1>2. PICK ages \in Ages(s) : \A x, z \in States :
        anc'[x][z] = IF {x, z} \subseteq {s, n} THEN ages ELSE anc[old[x]][old[z]]
  BY <1>1 DEF IsFork
<1>3. ages.time \in 0 .. mem[s].time /\ ages.implicit \in mem[s].implicit .. 0
  <2>1. ages.time \in anc[s][s].time .. mem[s].time
        /\ ages.implicit \in mem[s].implicit .. anc[s][s].implicit
    BY DEF Ages
  <2>2. anc[s][s].time \in 0 .. mem[s].time /\ anc[s][s].implicit \in mem[s].implicit .. 0
    BY DEF Ancestry
  <2>3. mem[s].time \in Int /\ mem[s].implicit \in Int
    BY MemoryType DEF TypeOK
  <2>4. PICK t \in Int, i \in Int : t = ages.time /\ i = ages.implicit
    BY <2>1
  <2>5. PICK u \in Int, j \in Int : u = anc[s][s].time /\ j = anc[s][s].implicit
    BY <2>2
  <2> QED BY <2>1, <2>2, <2>3, <2>4, <2>5
<1> SUFFICES ASSUME NEW x \in States, NEW z \in States
             PROVE  /\ anc'[x][z] = anc'[z][x]
                    /\ anc'[x][z].time \in 0 .. mem'[x].time
                    /\ anc'[x][z].implicit \in mem'[x].implicit .. 0
  BY DEF Ancestry
<1>4. old[x] \in States /\ old[z] \in States /\ mem'[x] = mem[old[x]]
  BY <1>1 DEF IsFork
<1>5. CASE {x, z} \subseteq {s, n}
  <2>1. old[x] = s /\ anc'[x][z] = ages /\ anc'[z][x] = ages
    BY <1>1, <1>2, <1>5 DEF IsFork
  <2> QED BY <1>3, <1>4, <2>1
<1>6. CASE ~({x, z} \subseteq {s, n})
  <2>1. anc'[x][z] = anc[old[x]][old[z]] /\ anc'[z][x] = anc[old[z]][old[x]]
    BY <1>2, <1>6
  <2> QED BY <1>4, <2>1 DEF Ancestry
<1> QED BY <1>5, <1>6

\* A merged state is later than the ancestors of both sides.
LEMMA MergeKeepsAncestry ==
  ASSUME TypeOK, Ancestry, NEW s \in States, NEW o \in States, Merge(s, o)
  PROVE  Ancestry'
<1>1. PICK M, O : IsMerge(s, o, M, O)
  BY MergeIs
<1>2. /\ s # o /\ M \in Memories /\ O \in Memories
      /\ M.time = mem[s].time /\ M.implicit = mem[s].implicit
      /\ mem'[s].time = MergedTime(M, O) /\ mem'[s].implicit = MergedImplicit(M, O)
      /\ mem'[o] = EmptyMemory
      /\ \A r \in States \ {s, o} : mem'[r] = mem[r]
      /\ mem'[s] \in Memories
  <2>1. IsMerged(mem'[s], M, O, anc[s][o], path[s], path[o])
    BY <1>1 DEF IsMerge
  <2>2. mem'[s] \in Memories
    BY <2>1, MergedPlaced
  <2>3. /\ M \in Memories /\ O \in Memories
        /\ mem'[s].time = MergedTime(M, O) /\ mem'[s].implicit = MergedImplicit(M, O)
    BY <2>1 DEF IsMerged
  <2>4. /\ s # o /\ mem'[o] = EmptyMemory /\ IsLoaded(mem[s], M)
        /\ \A r \in States \ {s, o} : mem'[r] = mem[r]
    BY <1>1 DEF IsMerge
  <2>5. M.time = mem[s].time /\ M.implicit = mem[s].implicit
    BY <2>4 DEF IsLoaded
  <2> QED BY <2>2, <2>3, <2>4, <2>5
<1>3. \A x, z \in States : anc'[x][z] =
        IF o \in {x, z} THEN [time |-> 0, implicit |-> 0]
        ELSE IF x = s /\ z = s THEN [time |-> mem'[s].time, implicit |-> mem'[s].implicit]
        ELSE anc[x][z]
  BY <1>1 DEF IsMerge
<1>4. PICK t \in Nat, i \in Int : t = mem'[s].time /\ i = mem'[s].implicit /\ i <= 0
  BY <1>2, MemoryType
<1>5. PICK u \in Nat, j \in Int : u = mem[s].time /\ j = mem[s].implicit /\ u <= t /\ i <= j
  <2>1. mem[s].time \in Nat /\ mem[s].implicit \in Int
    BY <1>2, MemoryType
  <2>2. MergedTime(M, O) > M.time /\ MergedImplicit(M, O) <= M.implicit
    BY <1>2, MergedCounters
  <2> QED BY <1>2, <1>4, <2>1, <2>2
<1> SUFFICES ASSUME NEW x \in States, NEW z \in States
             PROVE  /\ anc'[x][z] = anc'[z][x]
                    /\ anc'[x][z].time \in 0 .. mem'[x].time
                    /\ anc'[x][z].implicit \in mem'[x].implicit .. 0
  BY DEF Ancestry
<1>6. mem'[x].time \in Nat /\ mem'[x].implicit \in Int /\ mem'[x].implicit <= 0
  <2>1. mem'[x] \in Memories
    BY <1>2, EmptyIs DEF TypeOK
  <2> QED BY <2>1, MemoryType
<1>7. CASE o \in {x, z}
  <2>1. anc'[x][z] = [time |-> 0, implicit |-> 0] /\ anc'[z][x] = [time |-> 0, implicit |-> 0]
    BY <1>3, <1>7
  <2> QED BY <1>6, <2>1
<1>8. CASE x = s /\ z = s
  <2>1. anc'[x][z].time = t /\ anc'[x][z].implicit = i
    BY <1>2, <1>3, <1>4, <1>8
  <2> QED BY <1>4, <1>8, <2>1
<1>9. CASE o \notin {x, z} /\ ~(x = s /\ z = s)
  <2>1. anc'[x][z] = anc[x][z] /\ anc'[z][x] = anc[z][x]
    BY <1>3, <1>9
  <2>2. /\ anc[x][z] = anc[z][x] /\ anc[x][z].time \in 0 .. mem[x].time
        /\ anc[x][z].implicit \in mem[x].implicit .. 0
    BY DEF Ancestry
  <2>3. CASE x = s
    BY <1>4, <1>5, <2>1, <2>2, <2>3
  <2>4. CASE x # s
    BY <1>2, <1>9, <2>1, <2>2, <2>4
  <2> QED BY <2>3, <2>4
<1> QED BY <1>7, <1>8, <1>9

-----------------------------------------------------------------------------
(* The steps keep the shape of the memory. *)

Truths == [States -> [Worlds -> [Addrs -> Int \cup Bytes]]]

\* An operation counts.
LEMMA TickIs ==
  ASSUME TypeOK, Tick
  PROVE  ops \in Nat /\ ops' = ops + 1 /\ ops' \in 0 .. MaxOps
  BY MaxOpsAssumption DEF TypeOK, Tick

\* A step that changes one state, whose counters stay within bounds.
LEMMA UpdateKeepsType ==
  ASSUME TypeOK, Tick, NEW s \in States, mem' = [mem EXCEPT ![s] = mem'[s]],
         mem'[s] \in Memories, Placed(mem'[s]),
         mem'[s].time <= ops', -mem'[s].implicit \in 0 .. made',
         made' \in Nat, made' >= made,
         path' = [path EXCEPT ![s] = path'[s]], path'[s] \in SUBSET path[s],
         truth' \in Truths, anc' = anc
  PROVE  TypeOK'
<1>1. /\ path \in [States -> SUBSET Worlds] /\ mem \in [States -> Memories] /\ made \in Nat
      /\ \A x, o \in States : x # o => path[x] \cap path[o] = {}
      /\ anc \in [States -> [States -> [time : Int, implicit : Int]]]
      /\ \A x \in States : Placed(mem[x]) /\ mem[x].time <= ops /\ -mem[x].implicit \in 0 .. made
  BY DEF TypeOK
<1>2. ops \in Nat /\ ops' = ops + 1 /\ ops' \in 0 .. MaxOps
  BY TickIs
<1>3. path' \in [States -> SUBSET Worlds]
      /\ \A x, o \in States : x # o => path'[x] \cap path'[o] = {}
  <2>1. path' \in [States -> SUBSET Worlds]
    BY <1>1
  <2>2. \A x \in States : path'[x] \in SUBSET path[x]
    BY <1>1
  <2> QED BY <1>1, <2>1, <2>2
<1>4. mem' \in [States -> Memories]
  BY <1>1
<1>5. ASSUME NEW x \in States
      PROVE  Placed(mem'[x]) /\ mem'[x].time <= ops' /\ -mem'[x].implicit \in 0 .. made'
  <2>1. CASE x = s
    BY <2>1
  <2>2. CASE x # s
    <3>1. mem'[x] = mem[x]
      BY <1>1, <2>2
    <3>2. PICK t \in Nat, i \in Int : t = mem[x].time /\ i = mem[x].implicit
      BY <1>1, MemoryType
    <3>3. t <= ops /\ -i \in 0 .. made
      BY <1>1, <3>2
    <3> QED BY <1>1, <1>2, <3>1, <3>2, <3>3
  <2> QED BY <2>1, <2>2
<1>6. anc' \in [States -> [States -> [time : Int, implicit : Int]]]
  BY <1>1
<1>7. truth' \in [States -> [Worlds -> [Addrs -> Int \cup Bytes]]]
  BY DEF Truths
<1> QED BY <1>2, <1>3, <1>4, <1>5, <1>6, <1>7 DEF TypeOK

\* load() keeps the shape of the memory.
LEMMA LoadKeepsType ==
  ASSUME TypeOK, Ancestry, NEW s \in Live, NEW e \in AddrExprs, NEW size \in LoadSizes,
         Load(s, e, size)
  PROVE  TypeOK' /\ Ancestry'
<1>1. PICK n, b, l, D : IsLoad(s, e, n, b, l, D)
  BY LoadIs
<1>2. made \in Nat /\ truth \in Truths /\ \A r \in States : mem[r] \in Memories
      /\ mem \in [States -> Memories]
  BY DEF TypeOK, Truths
<1>3. /\ s \in States /\ mem' = [mem EXCEPT ![s] = mem'[s]] /\ anc' = anc
      /\ path' = [path EXCEPT ![s] = path'[s]] /\ path'[s] \in SUBSET path[s]
      /\ made' = made + Cardinality(D)
  BY <1>1 DEF IsLoad
<1>4. /\ mem'[s] \in Memories /\ Placed(mem'[s])
      /\ mem'[s].time = mem[s].time /\ mem'[s].implicit = mem[s].implicit - Cardinality(D)
  BY <1>1, <1>2, LoadedMemory
<1>5. Cardinality(D) \in Nat /\ \A k \in D : RankIn(D, k) \in 1 .. Cardinality(D)
  BY <1>1, <1>2, SymbolsAre
<1>6. /\ mem[s].time \in Nat /\ mem[s].implicit \in Int /\ mem[s].implicit <= 0
      /\ mem[s].time <= ops /\ -mem[s].implicit \in 0 .. made
  BY <1>2, <1>3, MemoryType DEF TypeOK
<1>7. Tick
  BY DEF Load
<1>8. ops \in Nat /\ ops' = ops + 1
  BY <1>7, TickIs
<1>9. /\ mem'[s].time <= ops' /\ -mem'[s].implicit \in 0 .. made'
      /\ made' \in Nat /\ made' >= made
      /\ mem'[s].time >= mem[s].time /\ mem'[s].implicit <= mem[s].implicit
  BY <1>2, <1>3, <1>4, <1>5, <1>6, <1>8
<1>10. truth' \in Truths
  <2> DEFINE new == [w \in Worlds |->
       IF w \in path'[s]
         THEN [a \in Addrs |-> IF a - e[w] \in D /\ truth[s][w][a] = Unknown
                                 THEN -(made + RankIn(D, a - e[w])) ELSE truth[s][w][a]]
         ELSE NoBytes]
  <2>1. truth' = [truth EXCEPT ![s] = new]
    BY <1>1 DEF IsLoad
  <2>2. \A w \in Worlds, a \in Addrs : truth[s][w][a] \in Int \cup Bytes
    BY <1>2, <1>3 DEF Truths
  <2>3. \A k \in D : -(made + RankIn(D, k)) \in Int
    BY <1>2, <1>5
  <2>4. new \in [Worlds -> [Addrs -> Int \cup Bytes]]
    BY <2>2, <2>3, ImageIs
  <2> HIDE DEF new
  <2> QED BY <1>2, <2>1, <2>4 DEF Truths
<1>11. TypeOK'
  BY <1>3, <1>4, <1>7, <1>9, <1>10, UpdateKeepsType
<1>12. Ancestry'
  <2>1. \A r \in States : /\ mem'[r] \in Memories
                          /\ mem'[r].time >= mem[r].time /\ mem'[r].implicit <= mem[r].implicit
    <3>1. \A r \in States : mem[r].time \in Int /\ mem[r].implicit \in Int
      BY <1>2, MemoryType
    <3>2. \A r \in States : r # s => mem'[r] = mem[r]
      BY <1>2, <1>3
    <3>3. \A r \in States : r # s => /\ mem'[r].time >= mem[r].time
                                     /\ mem'[r].implicit <= mem[r].implicit
      BY <3>1, <3>2
    <3> QED BY <1>2, <1>4, <1>9, <3>2, <3>3
  <2> QED BY <1>2, <1>3, <2>1, AgingKeepsAncestry
<1> QED BY <1>11, <1>12

\* __contains__ keeps the shape of the memory.
LEMMA HasItemKeepsType ==
  ASSUME TypeOK, Ancestry, NEW s \in Live, NEW a \in Addrs, HasItem(s, a)
  PROVE  TypeOK' /\ Ancestry'
<1>1. /\ Tick /\ mem' = [mem EXCEPT ![s] = LoadInitData(mem[s], a, 1)]
      /\ path' = path /\ truth' = truth /\ anc' = anc /\ made' = made
  BY DEF HasItem
<1>2. /\ s \in States /\ mem \in [States -> Memories] /\ mem[s] \in Memories /\ Placed(mem[s])
      /\ path \in [States -> SUBSET Worlds] /\ truth \in Truths /\ made \in Nat
      /\ mem[s].time <= ops /\ -mem[s].implicit \in 0 .. made
  BY DEF TypeOK, Live, Truths
<1>3. mem'[s] = LoadInitData(mem[s], a, 1)
  BY <1>1, <1>2
<1>4. IsLoaded(mem[s], mem'[s])
  BY <1>2, <1>3, LoadedFrom
<1>5. /\ mem'[s] \in Memories /\ Placed(mem'[s])
      /\ mem'[s].time = mem[s].time /\ mem'[s].implicit = mem[s].implicit
  BY <1>2, <1>4, LoadedPlaced DEF IsLoaded
<1>6. ops \in Nat /\ ops' = ops + 1 /\ mem[s].time \in Nat /\ mem[s].implicit \in Int
  BY <1>1, <1>2, TickIs, MemoryType
<1>7. TypeOK'
  <2>1. mem'[s].time <= ops' /\ -mem'[s].implicit \in 0 .. made' /\ made' \in Nat /\ made' >= made
    BY <1>1, <1>2, <1>5, <1>6
  <2>2. mem' = [mem EXCEPT ![s] = mem'[s]] /\ path' = [path EXCEPT ![s] = path'[s]]
        /\ path'[s] \in SUBSET path[s] /\ truth' \in Truths
    BY <1>1, <1>2, <1>3
  <2> QED BY <1>1, <1>2, <1>5, <2>1, <2>2, UpdateKeepsType
<1>8. Ancestry'
  <2>1. \A r \in States : mem'[r].time = mem[r].time /\ mem'[r].implicit = mem[r].implicit
                          /\ mem[r] \in Memories /\ mem'[r] \in Memories
    BY <1>1, <1>2, <1>5
  <2>2. \A r \in States : mem[r].time \in Int /\ mem[r].implicit \in Int
    BY <2>1, MemoryType
  <2>3. \A r \in States : mem'[r].time >= mem[r].time /\ mem'[r].implicit <= mem[r].implicit
    BY <2>1, <2>2
  <2> QED BY <1>1, <2>1, <2>3, AgingKeepsAncestry
<1> QED BY <1>7, <1>8

\* store() keeps the shape of the memory.
LEMMA StoreKeepsType ==
  ASSUME TypeOK, Ancestry,
         NEW s \in Live, NEW e \in AddrExprs, NEW data \in Payloads, NEW size \in SizeExprs,
         NEW cond \in {NoGuard} \cup {Guard(c) : c \in Conditions},
         Store(s, e, data, size, cond)
  PROVE  TypeOK' /\ Ancestry'
<1>1. PICK b : b = Bounds(e, path[s])
  OBVIOUS
<1>2. PICK new : new = NewBytes(s, e, data, size, cond)
  OBVIOUS
<1>3. /\ s \in States /\ mem[s] \in Memories /\ Placed(mem[s])
      /\ IsStored(Ticked(mem[s]), b, new, mem'[s]) /\ Placed(mem'[s])
      /\ mem' = [mem EXCEPT ![s] = mem'[s]] /\ path' = path /\ anc' = anc
  BY <1>1, <1>2, StoreIs
<1>4. mem'[s] \in Memories /\ mem'[s].time = mem[s].time + 1 /\ mem'[s].implicit = mem[s].implicit
  BY <1>3, TickedIs DEF IsStored
<1>5. Tick /\ made' = made /\ SizeFits(data, size, path[s])
  BY DEF Store
<1>6. /\ mem \in [States -> Memories] /\ path \in [States -> SUBSET Worlds] /\ truth \in Truths
      /\ made \in Nat /\ mem[s].time <= ops /\ -mem[s].implicit \in 0 .. made
      /\ path[s] \in SUBSET Worlds /\ path[s] # {}
  BY <1>3 DEF TypeOK, Truths, Live
<1>7. ops \in Nat /\ ops' = ops + 1 /\ mem[s].time \in Nat /\ mem[s].implicit \in Int
  BY <1>3, <1>5, TickIs, MemoryType
<1>8. /\ mem'[s].time <= ops' /\ -mem'[s].implicit \in 0 .. made' /\ made' \in Nat /\ made' >= made
      /\ mem'[s].time >= mem[s].time /\ mem'[s].implicit <= mem[s].implicit
  BY <1>4, <1>5, <1>6, <1>7
<1>9. truth' \in Truths
  <2> DEFINE Writes(w, a) == w \in path[s] \cap cond.of /\ a - e[w] \in 0 .. size[w] - 1
             after == [w \in Worlds |-> [a \in Addrs |->
                        IF Writes(w, a) THEN data[a - e[w] + 1] ELSE truth[s][w][a]]]
  <2>1. truth' = [truth EXCEPT ![s] = after]
    BY DEF Store
  <2>2. ASSUME NEW w \in Worlds, NEW a \in Addrs, Writes(w, a) PROVE data[a - e[w] + 1] \in Bytes
    <3>1. size \in [Worlds -> Int] /\ size[w] \in Int /\ Len(data) \in Nat
      BY Inputs
    <3>2. size[w] <= Len(data)
      <4>1. IsBounds(Bounds(size, path[s]), size, path[s])
        BY <1>6, <3>1, BoundsAre
      <4> QED BY <1>5, <2>2, <4>1 DEF IsBounds, SizeFits
    <3>3. PICK k \in Int : k = a - e[w]
      BY <2>2
    <3>4. k \in 0 .. Len(data) - 1
      BY <2>2, <3>1, <3>2, <3>3
    <3> QED BY <3>3, <3>4, Inputs
  <2>3. \A w \in Worlds, a \in Addrs : truth[s][w][a] \in Int \cup Bytes
    BY <1>3, <1>6 DEF Truths
  <2>4. after \in [Worlds -> [Addrs -> Int \cup Bytes]]
    BY <2>2, <2>3
  <2> HIDE DEF after
  <2> QED BY <1>6, <2>1, <2>4 DEF Truths
<1>10. TypeOK'
  <2>1. path' = [path EXCEPT ![s] = path'[s]] /\ path'[s] \in SUBSET path[s]
    BY <1>3, <1>6
  <2> QED BY <1>3, <1>4, <1>5, <1>8, <1>9, <2>1, UpdateKeepsType
<1>11. Ancestry'
  <2>1. \A r \in States : mem[r] \in Memories /\ mem[r].time \in Int /\ mem[r].implicit \in Int
    BY <1>6, MemoryType
  <2>2. \A r \in States : r # s => mem'[r] = mem[r]
    BY <1>3, <1>6
  <2>3. \A r \in States : r # s => /\ mem'[r].time >= mem[r].time
                                   /\ mem'[r].implicit <= mem[r].implicit
    BY <2>1, <2>2
  <2>4. \A r \in States : /\ mem[r] \in Memories /\ mem'[r] \in Memories
                          /\ mem'[r].time >= mem[r].time /\ mem'[r].implicit <= mem[r].implicit
    BY <1>4, <1>8, <2>1, <2>2, <2>3
  <2> QED BY <1>3, <2>4, AgingKeepsAncestry
<1> QED BY <1>10, <1>11

\* A fork keeps the shape of the memory.
LEMMA ForkKeepsType ==
  ASSUME TypeOK, Ancestry, NEW s \in States, NEW n \in States, NEW c \in SUBSET Worlds,
         Fork(s, n, c)
  PROVE  TypeOK'
<1>1. PICK old : IsFork(s, n, old)
  BY ForkIs
<1>2. /\ path \in [States -> SUBSET Worlds] /\ mem \in [States -> Memories] /\ made \in Nat
      /\ \A x, o \in States : x # o => path[x] \cap path[o] = {}
      /\ anc \in [States -> [States -> [time : Int, implicit : Int]]]
      /\ truth \in Truths
      /\ \A x \in States : Placed(mem[x]) /\ mem[x].time <= ops /\ -mem[x].implicit \in 0 .. made
  BY DEF TypeOK, Truths
<1>3. s # n /\ n \notin Live /\ made' = made /\ Tick
  BY <1>1 DEF IsFork, Fork
<1>4. path' = [path EXCEPT ![s] = @ \cap c, ![n] = path[s] \ c] /\ mem' = [mem EXCEPT ![n] = mem[s]]
  BY DEF Fork
<1>5. path' \in [States -> SUBSET Worlds] /\ mem' \in [States -> Memories]
  BY <1>2, <1>4
<1>6. /\ path'[s] = path[s] \cap c /\ path'[n] = path[s] \ c
      /\ \A x \in States \ {s, n} : path'[x] = path[x]
  BY <1>2, <1>3, <1>4
<1>7. \A x, o \in States : x # o => path'[x] \cap path'[o] = {}
  <2> SUFFICES ASSUME NEW x \in States, NEW o \in States, x # o, NEW w \in path'[x], w \in path'[o]
               PROVE  FALSE
    OBVIOUS
  <2>1. \A z \in States, y \in States : z # y => ~(w \in path[z] /\ w \in path[y])
    BY <1>2
  <2> QED BY <1>6, <2>1
<1>8. ASSUME NEW x \in States
      PROVE  Placed(mem'[x]) /\ mem'[x].time <= ops' /\ -mem'[x].implicit \in 0 .. made'
  <2>1. PICK y \in States : mem'[x] = mem[y]
    BY <1>1 DEF IsFork
  <2>2. mem[y].time \in Nat /\ mem[y].time <= ops /\ -mem[y].implicit \in 0 .. made /\ Placed(mem[y])
    BY <1>2, MemoryType
  <2>3. ops \in Nat /\ ops' = ops + 1
    BY <1>3, TickIs
  <2> QED BY <1>3, <2>1, <2>2, <2>3
<1>9. truth' \in Truths
  <2> DEFINE Within(P) == [w \in Worlds |-> IF w \in P THEN truth[s][w] ELSE NoBytes]
  <2>1. truth' = [truth EXCEPT ![s] = Within(path[s] \cap c), ![n] = Within(path[s] \ c)]
    BY DEF Fork
  <2>2. \A P : Within(P) \in [Worlds -> [Addrs -> Int \cup Bytes]]
    <3>1. truth[s] \in [Worlds -> [Addrs -> Int \cup Bytes]]
      BY <1>2 DEF Truths
    <3> QED BY <3>1, ImageIs
  <2> HIDE DEF Within
  <2> QED BY <1>2, <2>1, <2>2 DEF Truths
<1>10. anc' \in [States -> [States -> [time : Int, implicit : Int]]]
  <2>1. PICK ages \in Ages(s) :
          anc' = [x \in States |-> [y \in States |->
                     IF {x, y} \subseteq {s, n} THEN ages
                     ELSE IF x = n THEN anc[s][y]
                     ELSE IF y = n THEN anc[x][s] ELSE anc[x][y]]]
    BY DEF Fork
  <2>2. ages \in [time : Int, implicit : Int]
    BY DEF Ages
  <2>3. \A x, y \in States : anc[x][y] \in [time : Int, implicit : Int]
    BY <1>2
  <2> QED BY <2>1, <2>2, <2>3
<1>11. ops' \in 0 .. MaxOps
  BY <1>3, TickIs
<1> QED BY <1>2, <1>3, <1>5, <1>7, <1>8, <1>9, <1>10, <1>11 DEF TypeOK, Truths

\* merge() keeps the shape of the memory.
LEMMA MergeKeepsType ==
  ASSUME TypeOK, NEW s \in States, NEW o \in States, Merge(s, o)
  PROVE  TypeOK'
<1>1. PICK M, O : IsMerge(s, o, M, O)
  BY MergeIs
<1>2. /\ path \in [States -> SUBSET Worlds] /\ mem \in [States -> Memories] /\ made \in Nat
      /\ \A x, z \in States : x # z => path[x] \cap path[z] = {}
      /\ anc \in [States -> [States -> [time : Int, implicit : Int]]]
      /\ truth \in Truths
      /\ \A x \in States : Placed(mem[x]) /\ mem[x].time <= ops /\ -mem[x].implicit \in 0 .. made
  BY DEF TypeOK, Truths
<1>3. s # o /\ s \in States /\ o \in States /\ made' = made
  BY <1>1 DEF IsMerge
<1>4. Tick
  BY DEF Merge
<1>5. ops \in Nat /\ ops' = ops + 1 /\ ops' \in 0 .. MaxOps
  BY <1>4, TickIs
<1>6. IsMerged(mem'[s], M, O, anc[s][o], path[s], path[o])
  BY <1>1 DEF IsMerge
<1>7. mem'[s] \in Memories /\ Placed(mem'[s])
  BY <1>6, MergedPlaced
<1>8. /\ path'[s] = path[s] \cup path[o] /\ path'[o] = {} /\ mem'[o] = EmptyMemory
      /\ \A r \in States \ {s, o} : path'[r] = path[r] /\ mem'[r] = mem[r]
  BY <1>1 DEF IsMerge
<1>9. \A x, z \in States : x # z => path'[x] \cap path'[z] = {}
  <2> SUFFICES ASSUME NEW x \in States, NEW z \in States, x # z, NEW w \in path'[x], w \in path'[z]
               PROVE  FALSE
    OBVIOUS
  <2>1. \A r \in States, y \in States : r # y => ~(w \in path[r] /\ w \in path[y])
    BY <1>2
  <2> QED BY <1>3, <1>8, <2>1
<1>10. path' \in [States -> SUBSET Worlds] /\ mem' \in [States -> Memories]
  <2>1. path' = [path EXCEPT ![s] = @ \cup path[o], ![o] = {}]
    BY DEF Merge
  <2>2. path' \in [States -> SUBSET Worlds]
    BY <1>2, <1>3, <2>1
  <2>3. \E x : mem' = [mem EXCEPT ![o] = EmptyMemory, ![s] = x]
    BY DEF Merge
  <2>4. DOMAIN mem' = States /\ mem' = [r \in States |-> mem'[r]]
    BY <1>2, <2>3
  <2>5. \A r \in States : mem'[r] \in Memories
    BY <1>2, <1>7, <1>8, EmptyIs
  <2> QED BY <2>2, <2>4, <2>5
<1>11. mem'[s].time <= ops' /\ -mem'[s].implicit \in 0 .. made'
  <2>1. /\ mem'[s].time = MergedTime(M, O) /\ mem'[s].implicit = MergedImplicit(M, O)
        /\ M \in Memories /\ O \in Memories
    BY <1>6 DEF IsMerged
  <2>2. /\ M.time = mem[s].time /\ M.implicit = mem[s].implicit
        /\ O.time = mem[o].time /\ O.implicit = mem[o].implicit
    BY <1>1 DEF IsMerge, IsLoaded
  <2>3. /\ M.time \in Nat /\ M.time <= ops /\ -M.implicit \in 0 .. made
        /\ O.time \in Nat /\ O.time <= ops /\ -O.implicit \in 0 .. made
    BY <1>2, <1>3, <2>1, <2>2, MemoryType
  <2>4. /\ MergedTime(M, O) \in {M.time + 1, O.time + 1}
        /\ MergedImplicit(M, O) \in {M.implicit, O.implicit}
    BY <2>1, MergedCounters
  <2> QED BY <1>3, <1>5, <2>1, <2>3, <2>4
<1>12. ASSUME NEW x \in States
      PROVE  Placed(mem'[x]) /\ mem'[x].time <= ops' /\ -mem'[x].implicit \in 0 .. made'
  <2>1. CASE x = s
    BY <1>7, <1>11, <2>1
  <2>2. CASE x = o
    <3>1. mem'[x] = EmptyMemory /\ EmptyMemory.time = 0 /\ EmptyMemory.implicit = 0
      BY <1>8, <2>2 DEF EmptyMemory
    <3> QED BY <1>2, <1>3, <1>5, <3>1, EmptyIs
  <2>3. CASE x \notin {s, o}
    <3>1. mem'[x] = mem[x]
      BY <1>8, <2>3
    <3>2. mem[x].time \in Nat /\ mem[x].time <= ops /\ -mem[x].implicit \in 0 .. made /\ Placed(mem[x])
      BY <1>2, MemoryType
    <3> QED BY <1>3, <1>5, <3>1, <3>2
  <2> QED BY <2>1, <2>2, <2>3
<1>13. truth' \in Truths
  <2> DEFINE joined == [w \in Worlds |-> IF w \in path[o] THEN truth[o][w] ELSE truth[s][w]]
             none == [w \in Worlds |-> NoBytes]
  <2>1. truth' = [truth EXCEPT ![o] = none, ![s] = joined]
    <3>1. truth' = [truth EXCEPT
            ![o] = [w \in Worlds |-> NoBytes],
            ![s] = [w \in Worlds |-> IF w \in path[o] THEN truth[o][w] ELSE @[w]]]
      BY <1>1 DEF IsMerge
    <3> QED BY <1>2, <1>3, <3>1 DEF Truths
  <2>2. /\ joined \in [Worlds -> [Addrs -> Int \cup Bytes]]
        /\ none \in [Worlds -> [Addrs -> Int \cup Bytes]]
    <3>1. truth[s] \in [Worlds -> [Addrs -> Int \cup Bytes]]
          /\ truth[o] \in [Worlds -> [Addrs -> Int \cup Bytes]]
      BY <1>2 DEF Truths
    <3> QED BY <3>1, ImageIs
  <2> HIDE DEF joined, none
  <2> QED BY <1>2, <2>1, <2>2 DEF Truths
<1>14. anc' \in [States -> [States -> [time : Int, implicit : Int]]]
  <2>1. anc' = [x \in States |-> [y \in States |->
                   IF o \in {x, y} THEN [time |-> 0, implicit |-> 0]
                   ELSE IF x = s /\ y = s
                     THEN [time |-> mem'[s].time, implicit |-> mem'[s].implicit]
                     ELSE anc[x][y]]]
    BY DEF Merge
  <2>2. mem'[s].time \in Int /\ mem'[s].implicit \in Int
    BY <1>7, MemoryType
  <2>3. \A x, y \in States : anc[x][y] \in [time : Int, implicit : Int]
    BY <1>2
  <2> QED BY <2>1, <2>2, <2>3
<1> QED BY <1>2, <1>3, <1>5, <1>9, <1>10, <1>12, <1>13, <1>14 DEF TypeOK, Truths

-----------------------------------------------------------------------------
(* The ranges of the tree cover the addresses. *)

\* Bytes are filed under a range that covers their addresses.
LEMMA ByteCovers ==
  ASSUME NEW P, NEW e, NEW b, IsBounds(b, e, P), IsAddress(b), P \in SUBSET Worlds,
         NEW k \in Int, NEW t, NEW f, IsByte(f, b, k, t), NEW w \in P
  PROVE  Covering(f, w)
<1>1. f.lo = b.lo + k /\ f.hi = b.hi + k + 1 /\ f.item.at = Plus(b.at, k)
  BY DEF IsByte
<1>2. PICK v \in Int : v = b.at[w] /\ b.lo <= v /\ v <= b.hi
  BY DEF IsBounds, IsAddress
<1>3. f.item.at[w] = v + k
  BY <1>1, <1>2, PlusIs DEF IsAddress
<1>4. b.lo \in Int /\ b.hi \in Int
  BY DEF IsAddress
<1> QED BY <1>1, <1>2, <1>3, <1>4 DEF Covering

\* A step that changes one state: what is filed anew covers the worlds of the
\* state, and is no part of what others have.
LEMMA UpdateKeepsFiled ==
  ASSUME TypeOK, Ancestry, FiledForAll, NEW s \in States, NEW l \in Memories,
         l.time = mem[s].time, l.implicit = mem[s].implicit,
         path' = [path EXCEPT ![s] = path'[s]], path'[s] \in SUBSET path[s],
         mem' = [mem EXCEPT ![s] = mem'[s]], anc' = anc,
         \A x \in mem'[s].sym : \/ x \in mem[s].sym
                                \/ IsNew(x.item, l) /\ \A w \in path'[s] : Covering(x, w)
  PROVE  FiledForAll'
<1>1. path \in [States -> SUBSET Worlds] /\ mem \in [States -> Memories]
  BY DEF TypeOK
<1>2. \A r \in States : path'[r] \in SUBSET path[r] /\ (r # s => mem'[r] = mem[r])
  BY <1>1
<1>3. \A r \in Live' : r \in Live /\ r \in States
  BY <1>2 DEF Live
<1>4. ASSUME NEW r \in Live', NEW o \in Live', NEW x \in mem'[r].sym, NEW w \in path'[o],
             x.item \in Shared(r, o)'
      PROVE  Covering(x, w)
  <2>1. /\ r \in Live /\ r \in States /\ o \in Live /\ o \in States
        /\ w \in path[o] /\ (r # s => mem'[r] = mem[r])
    BY <1>2, <1>3
  <2>2. r = o \/ ~Since(x.item, anc[r][o])
    BY <1>4 DEF Shared, Before
  <2>3. CASE x \in mem[r].sym
    <3>1. x.item \in Shared(r, o)
      BY <2>2, <2>3 DEF Shared, Before, AllItems
    <3> QED BY <2>1, <2>3, <3>1 DEF FiledForAll
  <2>4. CASE x \notin mem[r].sym
    <3>1. r = s /\ IsNew(x.item, l) /\ \A u \in path'[s] : Covering(x, u)
      BY <2>1, <2>4
    <3>2. CASE r = o
      BY <3>1, <3>2
    <3>3. CASE r # o
      <4>1. /\ anc[s][o] \in [time : Int, implicit : Int]
            /\ anc[s][o].time \in 0 .. mem[s].time
            /\ anc[s][o].implicit \in mem[s].implicit .. 0
        BY <2>1 DEF TypeOK, Ancestry
      <4>2. PICK a \in [time : Int, implicit : Int] : a = anc[s][o]
        BY <4>1
      <4>3. a.time <= l.time /\ a.implicit >= l.implicit
        <5>1. l.time \in Int /\ l.implicit \in Int
          BY MemoryType
        <5>2. a.time \in 0 .. l.time /\ a.implicit \in l.implicit .. 0
          BY <4>1, <4>2
        <5> QED BY <5>1, <5>2
      <4>4. Since(x.item, a)
        BY <3>1, <4>3, NewIsSince
      <4> QED BY <2>2, <3>1, <3>3, <4>2, <4>4
    <3> QED BY <3>2, <3>3
  <2> QED BY <2>3, <2>4
<1> QED BY <1>4 DEF FiledForAll, Covering

\* load() files its new symbols under ranges that cover them.
LEMMA LoadKeepsFiled ==
  ASSUME TypeOK, Ancestry, FiledForAll, NEW s \in Live, NEW e \in AddrExprs,
         NEW size \in LoadSizes, Load(s, e, size)
  PROVE  FiledForAll'
<1>1. PICK n, b, l, D : IsLoad(s, e, n, b, l, D)
  BY LoadIs
<1>2. made \in Nat
  BY DEF TypeOK
<1>3. /\ l \in Memories /\ l.implicit = mem[s].implicit /\ l.time = mem[s].time
      /\ D \subseteq 0 .. n - 1
      /\ \A k \in D : /\ RankIn(D, k) \in 1 .. Cardinality(D) /\ Cardinality(D) \in Nat
                      /\ IsByte(NewSymbol(l, b, D, k), b, k, l.implicit - RankIn(D, k))
  BY <1>1, <1>2, SymbolsAre
<1>4. /\ s \in States /\ path' = [path EXCEPT ![s] = path'[s]] /\ path'[s] \in SUBSET path[s]
      /\ mem' = [mem EXCEPT ![s] = mem'[s]] /\ anc' = anc
      /\ IsAddress(b) /\ IsBounds(b, e, path'[s]) /\ l.sym = mem[s].sym
  BY <1>1 DEF IsLoad, IsLoaded
<1>5. path'[s] \in SUBSET Worlds
  BY <1>4 DEF TypeOK
<1>6. mem'[s].sym = mem[s].sym \cup {NewSymbol(l, b, D, k) : k \in D}
  BY <1>1, <1>2, <1>4, LoadedMemory
<1>7. ASSUME NEW k \in D
      PROVE  /\ IsNew(NewSymbol(l, b, D, k).item, l)
             /\ \A w \in path'[s] : Covering(NewSymbol(l, b, D, k), w)
  <2>1. PICK f : f = NewSymbol(l, b, D, k)
    OBVIOUS
  <2>2. PICK t : t = l.implicit - RankIn(D, k)
    OBVIOUS
  <2>3. IsByte(f, b, k, t) /\ k \in Int
    BY <1>3, <2>1, <2>2
  <2>4. t \in Int /\ t < l.implicit
    <3>1. PICK r \in Nat \ {0} : r = RankIn(D, k)
      BY <1>3
    <3>2. l.implicit \in Int
      BY <1>3, MemoryType
    <3> QED BY <2>2, <3>1, <3>2
  <2>5. IsNew(f.item, l)
    BY <2>3, <2>4 DEF IsNew, IsByte
  <2>6. \A w \in path'[s] : Covering(f, w)
    BY <1>4, <1>5, <2>3, ByteCovers
  <2> QED BY <2>1, <2>5, <2>6
<1>8. \A x \in mem'[s].sym : \/ x \in mem[s].sym
                             \/ IsNew(x.item, l) /\ \A w \in path'[s] : Covering(x, w)
  BY <1>6, <1>7
<1> QED BY <1>3, <1>4, <1>8, UpdateKeepsFiled

\* __contains__ files nothing in the tree.
LEMMA HasItemKeepsFiled ==
  ASSUME TypeOK, Ancestry, FiledForAll, NEW s \in Live, NEW a \in Addrs, HasItem(s, a)
  PROVE  FiledForAll'
<1>1. /\ s \in States /\ mem \in [States -> Memories] /\ mem[s] \in Memories
      /\ path \in [States -> SUBSET Worlds]
  BY DEF Live, TypeOK
<1>2. /\ mem' = [mem EXCEPT ![s] = LoadInitData(mem[s], a, 1)]
      /\ path' = path /\ anc' = anc
  BY DEF HasItem
<1>3. mem'[s] = LoadInitData(mem[s], a, 1)
  BY <1>1, <1>2
<1>4. mem'[s].sym = mem[s].sym
  BY <1>1, <1>3, LoadedFrom DEF IsLoaded
<1> QED BY <1>1, <1>2, <1>3, <1>4, UpdateKeepsFiled

\* A guard that is not there does not come from a guarded store.
LEMMA ByteGuardOff ==
  ASSUME NEW cond \in Guards, NEW size, NEW P, NEW k, ~ByteGuard(cond, size, P, k).on
  PROVE  ~cond.on
  BY DEF ByteGuard, Guard, And

\* store() files its bytes under ranges that cover them, or under the range of an
\* item of the very same address, which does.
LEMMA StoreKeepsFiled ==
  ASSUME TypeOK, Ancestry, FiledForAll, ~Merging \/ ~StoreAgain,
         NEW s \in Live, NEW e \in AddrExprs, NEW data \in Payloads, NEW size \in SizeExprs,
         NEW cond \in {NoGuard} \cup {Guard(c) : c \in Conditions},
         Store(s, e, data, size, cond)
  PROVE  FiledForAll'
<1>1. PICK b : b = Bounds(e, path[s])
  OBVIOUS
<1>2. PICK new : new = NewBytes(s, e, data, size, cond)
  OBVIOUS
<1>3. /\ s \in States /\ mem[s] \in Memories /\ Placed(mem[s])
      /\ IsAddress(b) /\ IsBounds(b, e, path[s])
      /\ DOMAIN new = 0 .. Len(data) - 1 /\ DOMAIN new \subseteq Int
      /\ \A k \in DOMAIN new : /\ IsByte(new[k], b, k, mem[s].time + 1)
                               /\ new[k].item.guard = ByteGuard(cond, size, path[s], k)
      /\ IsStored(Ticked(mem[s]), b, new, mem'[s])
      /\ mem' = [mem EXCEPT ![s] = mem'[s]] /\ path' = path /\ anc' = anc
  BY <1>1, <1>2, StoreIs
<1>4. path[s] \in SUBSET Worlds /\ path \in [States -> SUBSET Worlds] /\ mem[s].time \in Nat
  BY <1>3, MemoryType DEF TypeOK
<1>5. Ticked(mem[s]).sym = mem[s].sym
  BY <1>3, TickedIs
<1>6. ASSUME NEW k \in DOMAIN new
      PROVE  /\ IsNew(new[k].item, mem[s])
             /\ \A w \in path[s] : Covering(new[k], w)
             /\ new[k].item.at = Plus(b.at, k)
  <2>1. PICK f : f = new[k]
    OBVIOUS
  <2>2. PICK t : t = mem[s].time + 1
    OBVIOUS
  <2>3. IsByte(f, b, k, t) /\ k \in Int
    BY <1>3, <2>1, <2>2
  <2>4. IsNew(f.item, mem[s])
    BY <1>4, <2>2, <2>3 DEF IsNew, IsByte
  <2>5. \A w \in path[s] : Covering(f, w)
    BY <1>3, <1>4, <2>3, ByteCovers
  <2>6. f.item \in Items /\ f.item.at = Plus(b.at, k)
    BY <2>3 DEF IsByte, Files
  <2> QED BY <2>1, <2>4, <2>5, <2>6
\* An item that takes over the range of another one stands for its address.
<1>7. ASSUME NEW k \in DOMAIN new, NEW y \in mem[s].sym, ~b.int,
             ~new[k].item.guard.on, y.item.at = new[k].item.at,
             NEW x, x.lo = y.lo, x.hi = y.hi, x.item = new[k].item, NEW w \in path[s]
      PROVE  Covering(x, w)
  <2>1. b.at = e /\ new[k].item.at = Plus(e, k)
    BY <1>3, <1>7 DEF IsBounds, IsByte
  <2>2. CASE ~Merging
    <3>1. y.item \in Shared(s, s)
      BY DEF Shared, Before, AllItems
    <3>2. Covering(y, w)
      BY <1>3, <3>1 DEF FiledForAll
    <3> QED BY <1>7, <2>2, <3>2 DEF Covering
  <2>3. CASE ~StoreAgain
    <3>1. StoreAgain \/ cond.on \/ Bounds(e, path[s]).int
           \/ \A z \in mem[s].sym, j \in 0 .. Len(data) - 1 : z.item.at # Plus(e, j)
      BY DEF Store
    <3>2. ~cond.on
      <4>1. cond \in Guards
        BY GuardsAre
      <4>2. ~ByteGuard(cond, size, path[s], k).on
        BY <1>3, <1>7
      <4> QED BY <4>1, <4>2, ByteGuardOff
    <3> QED BY <1>1, <1>3, <1>7, <2>1, <2>3, <3>1, <3>2
  <2> QED BY <2>2, <2>3
<1>8. ASSUME NEW x \in mem'[s].sym
      PROVE  \/ x \in mem[s].sym
             \/ IsNew(x.item, mem[s]) /\ \A w \in path'[s] : Covering(x, w)
  <2>1. CASE b.int
    BY <1>3, <1>5, <2>1 DEF IsStored
  <2>2. CASE ~b.int
    <3>1. FromStore(Ticked(mem[s]), new, x)
      BY <1>3 DEF IsStored
    <3> QED BY <1>3, <1>5, <1>6, <1>7, <2>2, <3>1 DEF FromStore
  <2> QED BY <2>1, <2>2
<1>9. path' = [path EXCEPT ![s] = path'[s]] /\ path'[s] \in SUBSET path[s]
  BY <1>3, <1>4
<1> QED BY <1>3, <1>8, <1>9, UpdateKeepsFiled

\* A fork copies the tree, and each side has fewer worlds.
LEMMA ForkKeepsFiled ==
  ASSUME TypeOK, FiledForAll, NEW s \in States, NEW n \in States, NEW c \in SUBSET Worlds,
         Fork(s, n, c)
  PROVE  FiledForAll'
<1>1. PICK old : IsFork(s, n, old)
  BY ForkIs
<1>2. ASSUME NEW x \in Live' PROVE x \in States /\ old[x] \in Live /\ mem'[x] = mem[old[x]]
  <2>1. x \in States /\ path'[x] \in SUBSET path[old[x]] /\ path'[x] # {} /\ old[x] \in States
        /\ mem'[x] = mem[old[x]]
    BY <1>1 DEF Live, IsFork
  <2> QED BY <2>1 DEF Live
<1>3. ASSUME NEW r \in Live', NEW z \in Live', NEW x \in mem'[r].sym, NEW w \in path'[z],
             x.item \in Shared(r, z)'
      PROVE  Covering(x, w)
  <2>1. /\ r \in States /\ old[r] \in Live /\ mem'[r] = mem[old[r]]
        /\ z \in States /\ old[z] \in Live /\ w \in path[old[z]]
    BY <1>1, <1>2 DEF IsFork
  <2>2. x.item \in Shared(old[r], old[z])
    <3>1. x.item \in AllItems(mem[old[r]])
      BY <2>1 DEF AllItems
    <3>2. CASE old[r] = old[z]
      BY <3>1, <3>2 DEF Shared, Before
    <3>3. CASE old[r] # old[z]
      <4>1. r # z /\ anc'[r][z] = anc[old[r]][old[z]]
        BY <1>1, <2>1, <3>3 DEF IsFork
      <4> QED BY <1>3, <3>1, <4>1 DEF Shared, Before
    <3> QED BY <3>2, <3>3
  <2> QED BY <2>1, <2>2 DEF FiledForAll
<1> QED BY <1>3 DEF FiledForAll, Covering

\* merge() guards what is not shared, so a range needs to cover only its own side.
LEMMA MergeKeepsFiled ==
  ASSUME TypeOK, Ancestry, FiledForAll, NEW s \in States, NEW o \in States, Merge(s, o)
  PROVE  FiledForAll'
<1>1. PICK M, O : IsMerge(s, o, M, O)
  BY MergeIs
<1> DEFINE a == anc[s][o]
           c == path[s]
           d == path[o]
<1>2. /\ s # o /\ s \in Live /\ o \in Live /\ c \in SUBSET Worlds /\ d \in SUBSET Worlds
      /\ M.sym = mem[s].sym /\ O.sym = mem[o].sym
      /\ IsMerged(mem'[s], M, O, a, c, d) /\ c \cap d = {}
      /\ mem[s] \in Memories /\ mem[o] \in Memories
      /\ \A r \in States \ {s, o} : mem'[r] = mem[r]
  BY <1>1 DEF IsMerge, IsLoaded
<1>3. Merging
  BY DEF Merge
<1>4. ASSUME NEW r \in Live, NEW y \in Live, NEW x \in mem[r].sym, NEW w \in path[y],
             r = y \/ ~Since(x.item, anc[r][y])
      PROVE  Covering(x, w)
  <2>1. x.item \in Shared(r, y)
    BY <1>4 DEF Shared, Before, AllItems
  <2> QED BY <2>1 DEF FiledForAll
<1>5. ASSUME NEW g \in Files, NEW p \in SUBSET Worlds, NEW f, f.lo = g.lo, f.hi = g.hi,
             f.item = Guarded(g.item, p), NEW w
      PROVE  /\ f.item.t = g.item.t
             /\ w \notin p \/ Covering(g, w) => Covering(f, w)
  <2>1. PICK i \in Items : i = g.item
    BY DEF Files
  <2>2. PICK j : j = f.item
    OBVIOUS
  <2>3. j.t = i.t /\ j.at = i.at /\ j.guard.of = i.guard.of \cap p
    BY <1>5, <2>1, <2>2, GuardedIs
  <2> QED BY <1>3, <1>5, <2>1, <2>2, <2>3 DEF Covering
<1>6. ASSUME NEW r \in Live', NEW z \in Live', NEW x \in mem'[r].sym, NEW w \in path'[z],
             x.item \in Shared(r, z)'
      PROVE  Covering(x, w)
  <2>1. PICK y : IsSource(s, o, z, w, y)
    BY <1>1, MergeSource
  <2>2. CASE r # s
    <3>1. r \in Live \ {s, o} /\ Shared(r, z)' = Shared(r, y) /\ y \in Live /\ w \in path[y]
      BY <2>1, <2>2 DEF IsSource
    <3>2. mem'[r] = mem[r]
      BY <1>2, <3>1 DEF Live
    <3> QED BY <1>6, <3>1, <3>2 DEF FiledForAll
  <2>3. CASE r = s
    <3>1. FromTree(x, M, O, a, c, d)
      <4>1. x \in mem'[s].sym
        BY <2>3
      <4> HIDE DEF a, c, d
      <4> QED BY <1>2, <4>1, TreeIs
    <3>2. /\ y \in Live /\ w \in path[y] /\ (w \in c => y = s) /\ (w \in d => y = o)
          /\ w \notin c \cup d => z # s /\ y # o /\ anc'[s][z] = anc[s][y]
      BY <2>1 DEF IsSource
    <3>3. z = s \/ ~Since(x.item, anc'[s][z])
      BY <1>6, <2>3 DEF Shared, Before
    <3>4. CASE x \in mem[s].sym /\ ~Since(x.item, a)
      <4>1. s = y \/ ~Since(x.item, anc[s][y])
        BY <3>2, <3>3, <3>4
      <4> QED BY <1>2, <1>4, <3>2, <3>4, <4>1
    <3>5. CASE \E g \in mem[s].sym : /\ x.lo = g.lo /\ x.hi = g.hi
                                     /\ x.item = Guarded(g.item, c)
      <4>1. PICK g \in mem[s].sym : x.lo = g.lo /\ x.hi = g.hi /\ x.item = Guarded(g.item, c)
        BY <3>5
      <4>2. g \in Files
        BY <1>2, MemoryType DEF Files
      <4>3. CASE w \in c
        <5>1. Covering(g, w)
          BY <1>2, <1>4, <4>1, <4>3
        <5> QED BY <1>2, <1>5, <4>1, <4>2, <5>1
      <4>4. CASE w \notin c
        BY <1>2, <1>5, <4>1, <4>2, <4>4
      <4> QED BY <4>3, <4>4
    <3>6. CASE \E g \in mem[o].sym : /\ x.lo = g.lo /\ x.hi = g.hi
                                     /\ x.item = Guarded(g.item, d)
      <4>1. PICK g \in mem[o].sym : x.lo = g.lo /\ x.hi = g.hi /\ x.item = Guarded(g.item, d)
        BY <3>6
      <4>2. g \in Files
        BY <1>2, MemoryType DEF Files
      <4>3. CASE w \in d
        <5>1. Covering(g, w)
          BY <1>2, <1>4, <4>1, <4>3
        <5> QED BY <1>2, <1>5, <4>1, <4>2, <5>1
      <4>4. CASE w \notin d
        BY <1>2, <1>5, <4>1, <4>2, <4>4
      <4> QED BY <4>3, <4>4
    <3> QED BY <1>2, <3>1, <3>4, <3>5, <3>6 DEF FromTree
  <2> QED BY <2>2, <2>3
<1> QED BY <1>6 DEF FiledForAll, Covering

-----------------------------------------------------------------------------
(* The invariant. *)

\* Every step keeps the invariant.
LEMMA IInvInductive ==
  ASSUME IInv, [Next]_vars
  PROVE  IInv'
<1>1. TypeOK /\ Ancestry /\ OneAtATime
  BY DEF IInv
<1> DEFINE Filing == (~Merging \/ ~StoreAgain) => FiledForAll
<1>f. Filing
  BY DEF IInv
<1>p. TypeOK' /\ Ancestry' /\ OneAtATime' /\ Filing' => IInv'
  BY DEF IInv
<1>2. ASSUME NEW s \in Live, NEW e \in AddrExprs, NEW size \in LoadSizes, Load(s, e, size)
      PROVE  IInv'
  BY <1>1, <1>f, <1>p, <1>2, LoadKeepsType, LoadKeepsOne, LoadKeepsFiled
<1>3. ASSUME NEW s \in Live, NEW a \in Addrs, HasItem(s, a)
      PROVE  IInv'
  BY <1>1, <1>f, <1>p, <1>3, HasItemKeepsType, HasItemKeepsOne, HasItemKeepsFiled
<1>4. ASSUME NEW s \in Live, NEW e \in AddrExprs, NEW data \in Payloads, NEW size \in SizeExprs,
             NEW cond \in {NoGuard} \cup {Guard(c) : c \in Conditions},
             Store(s, e, data, size, cond)
      PROVE  IInv'
  BY <1>1, <1>f, <1>p, <1>4, StoreKeepsType, StoreKeepsOne, StoreKeepsFiled
<1>5. ASSUME NEW s \in States, NEW n \in States, NEW c \in SUBSET Worlds, Fork(s, n, c)
      PROVE  IInv'
  BY <1>1, <1>f, <1>p, <1>5, ForkKeepsType, ForkKeepsAncestry, ForkKeepsOne, ForkKeepsFiled
<1>6. ASSUME NEW s \in States, NEW o \in States, Merge(s, o)
      PROVE  IInv'
  BY <1>1, <1>f, <1>p, <1>6, MergeKeepsType, MergeKeepsAncestry, MergeKeepsOne, MergeKeepsFiled
<1>7. CASE UNCHANGED vars
  BY <1>7 DEF vars, IInv, TypeOK, Ancestry, OneAtATime, FiledForAll, Covering, Live, Shared
<1> QED BY <1>2, <1>3, <1>4, <1>5, <1>6, <1>7 DEF Next

\* Whatever states load, store, fork and merge, and in whatever order: the tables
\* keep their shape, the common ancestors merge() goes back to are no later than
\* the states, no two states ever hold items that would be confused were they
\* merged, and (without merges, or with no unguarded store to the same symbolic
\* address twice) the interval tree files every item under a range that covers it.
THEOREM Invariance == Spec => []IInv
<1>1. Init => IInv
  BY InitIs
<1>2. IInv /\ [Next]_vars => IInv'
  BY IInvInductive
<1> QED BY <1>1, <1>2, PTL DEF Spec

\* In every reachable state an entry of the concrete memory is about its own
\* address, a range of the tree is not empty, and no item is outside the
\* timestamps store() and load() have given so far.
THEOREM Typed == Spec => []TypeOK
<1>1. IInv => TypeOK
  BY DEF IInv
<1> QED BY <1>1, Invariance, PTL

\* load() sorts the items by timestamp and lets the later one win: in no world of
\* any state do two items hold for the same address with the same timestamp, also
\* after a merge of two histories that count on from the same timestamp.
THEOREM LatestIsUnique == Spec => []UniqueLatest
<1>1. IInv => UniqueLatest
  <2> SUFFICES ASSUME IInv, NEW s \in Live, NEW w \in path[s]
               PROVE  Distinct(AllItems(mem[s]), w)
    BY DEF UniqueLatest, Distinct
  <2>1. Distinct(Shared(s, s), w)
    BY DEF IInv, OneAtATime
  <2>2. Shared(s, s) = AllItems(mem[s])
    BY DEF Shared, Before
  <2> QED BY <2>1, <2>2
<1> QED BY <1>1, Invariance, PTL

\* search() of the interval tree cannot miss an item: whatever range an item was
\* filed under by store(), or took over from an older item, has the address it
\* stands for in every world of the path where its guard holds.  With merges this
\* needs that no symbolic address is stored to twice unguarded (StoreAgain); run
\* memory_merge_lost shows what happens else.
THEOREM Covered ==
  ASSUME ~Merging \/ ~StoreAgain
  PROVE  Spec => []RangesCover
<1>1. IInv => RangesCover
  <2> SUFFICES ASSUME IInv, NEW s \in Live, NEW x \in mem[s].sym, NEW w \in path[s],
                      w \in x.item.guard.of
               PROVE  x.lo <= x.item.at[w] /\ x.item.at[w] < x.hi
    BY DEF RangesCover
  <2>1. x.item \in Shared(s, s)
    BY DEF Shared, Before, AllItems
  <2>2. Covering(x, w)
    BY <2>1 DEF IInv, FiledForAll
  <2> QED BY <2>2 DEF Covering
<1> QED BY <1>1, Invariance, PTL

-----------------------------------------------------------------------------
(***************************************************************************)
(* The items of a memory tell its contents.                                *)
(*                                                                         *)
(* The bytes of the binary that are still to be loaded are items in all    *)
(* but their place (Seen), so loading changes nothing.  What each step     *)
(* does to the items that hold for an address in a world decides whether   *)
(* the latest of them still has the byte that is there (Tells): a load     *)
(* adds symbols older than all others, a store bytes later than all        *)
(* others, a fork nothing, and a merge, in a world of one side, only       *)
(* guards.  For a merge that takes CInv.  A load then gives that byte: the *)
(* list it sorts the items into has them all in order of time, and of the  *)
(* runs it makes of the list the last that applies is the one of the last  *)
(* item that holds.                                                        *)
(***************************************************************************)


\* The byte of the binary at an address, as an item.
ImageItem(a) == Item(TRUE, Const(a), Image[a], 0, NoGuard)

\* The items of a memory, with those of the bytes of the binary still to come.
Seen(m) == AllItems(m) \cup {ImageItem(a) : a \in {b \in Addrs : IsPending(m, b)}}

-----------------------------------------------------------------------------
(* The bytes of the binary. *)

\* An address of a segment has the byte of that segment, as no other has it.
LEMMA ImageByte ==
  ASSUME NEW g \in Segments, NEW a \in Addrs, In(g, a)
  PROVE  Image[a] = g.bytes[a - g.addr + 1] /\ Image[a] \in Nat \ {0}
<1>1. PICK at : at = {h \in Segments : a - h.addr \in 0 .. Len(h.bytes) - 1}
  OBVIOUS
<1>2. Image[a] = IF at = {} THEN Unknown
                 ELSE LET h == CHOOSE h \in at : TRUE IN h.bytes[a - h.addr + 1]
  BY <1>1 DEF Image
<1>3. g \in at
  BY <1>1 DEF In
<1>4. PICK h \in at : Image[a] = h.bytes[a - h.addr + 1]
  BY <1>2, <1>3
<1>5. h = g
  <2>1. h \in Segments /\ In(h, a)
    BY <1>1 DEF In
  <2>2. /\ g.addr \in Nat /\ Len(g.bytes) \in Nat
        /\ h.addr \in Nat /\ Len(h.bytes) \in Nat
    BY <2>1, SegmentType
  <2>3. g = h \/ g.addr + Len(g.bytes) <= h.addr \/ h.addr + Len(h.bytes) <= g.addr
    BY <2>1, SegmentsAssumption
  <2>4. a \in Int
    BY AddrsAssumption
  <2> QED BY <2>1, <2>2, <2>3, <2>4 DEF In
<1>6. PICK i \in Int : i = a - g.addr + 1
  BY SegmentType, AddrsAssumption
<1>7. i \in 1 .. Len(g.bytes)
  BY <1>6, SegmentType, AddrsAssumption DEF In
<1> QED BY <1>4, <1>5, <1>6, <1>7, SegmentType

\* Where there is a byte of the binary a segment has it.
LEMMA ImageIn ==
  ASSUME NEW a \in Addrs, Image[a] # Unknown
  PROVE  \E g \in Segments : In(g, a)
<1>1. PICK at : at = {h \in Segments : a - h.addr \in 0 .. Len(h.bytes) - 1}
  OBVIOUS
<1>2. Image[a] = IF at = {} THEN Unknown
                 ELSE LET h == CHOOSE h \in at : TRUE IN h.bytes[a - h.addr + 1]
  BY <1>1 DEF Image
<1>3. at # {}
  BY <1>2
<1> QED BY <1>1, <1>3 DEF In

\* The chunks have the bytes of the binary, each at its address.
LEMMA ChunkIsImage ==
  ASSUME NEW c \in EmptyMemory.pending, NEW a \in Addrs, Covers(c, a)
  PROVE  /\ c.bytes[a - Start(c) + 1] = Image[a] /\ Image[a] \in Nat \ {0}
         /\ a \div PageSize = c.page
<1>1. PICK g \in Segments : c \in Chunks(g)
  BY DEF EmptyMemory
<1>2. IsChunk(c, g) /\ a \in Int
  BY <1>1, ChunkCovers, AddrsAssumption
<1>3. In(g, a) /\ a \div PageSize = c.page /\ c.bytes[a - Start(c) + 1] = g.bytes[a - g.addr + 1]
  BY <1>2 DEF IsChunk
<1> QED BY <1>3, ImageByte

\* The page of an address is no earlier than that of one before it.
LEMMA PagesInOrder ==
  ASSUME NEW a \in Int, NEW b \in Int, a <= b
  PROVE  a \div PageSize <= b \div PageSize
<1>1. PICK p \in Int, q \in Int : p = a \div PageSize /\ q = b \div PageSize
  BY PageOf
<1>2. p * PageSize <= a /\ b < q * PageSize + PageSize
  BY <1>1, PageIs
<1>3. PageSize \in Nat \ {0} /\ p * PageSize \in Int /\ q * PageSize \in Int
  BY <1>1, PageSizeAssumption
<1>4. ASSUME q < p PROVE FALSE
  <2>1. q * PageSize + PageSize <= p * PageSize
    BY <1>3, <1>4, PagesApart
  <2> QED BY <1>2, <1>3, <2>1
<1> QED BY <1>1, <1>4

\* _init_memory: every byte of the binary is in a chunk.
LEMMA ImageInChunk ==
  ASSUME NEW a \in Addrs
  PROVE  (\E c \in EmptyMemory.pending : Covers(c, a)) <=> Image[a] # Unknown
<1>1. ASSUME NEW c \in EmptyMemory.pending, Covers(c, a) PROVE Image[a] # Unknown
  BY <1>1, ChunkIsImage DEF Unknown
<1>2. ASSUME Image[a] # Unknown PROVE \E c \in EmptyMemory.pending : Covers(c, a)
  <2>1. PICK g \in Segments : In(g, a)
    BY <1>2, ImageIn
  <2>2. PICK first \in Nat, size \in Nat \ {0} : first = g.addr /\ size = Len(g.bytes)
    BY SegmentType
  <2>3. a \in Int /\ first <= a /\ a <= first + size - 1
    BY <2>1, <2>2, AddrsAssumption DEF In
  <2>4. PICK p \in Int : p = a \div PageSize
    BY <2>3, PageOf
  <2>5. first \div PageSize <= p /\ p <= (first + size - 1) \div PageSize
    BY <2>2, <2>3, <2>4, PagesInOrder
  <2>6. first \div PageSize \in Int /\ (first + size - 1) \div PageSize \in Int
    <3>1. PICK last \in Int : last = first + size - 1
      BY <2>2
    <3>2. \A i \in Int : i \div PageSize \in Int
      BY PageOf
    <3>3. first \in Int
      OBVIOUS
    <3> QED BY <3>1, <3>2, <3>3
  <2>7. p \in g.addr \div PageSize .. (g.addr + Len(g.bytes) - 1) \div PageSize
    BY <2>2, <2>5, <2>6
  <2>8. PICK c : c = Chunk(g, p)
    OBVIOUS
  <2>9. c \in Chunks(g) /\ c.page = p
    BY <2>7, <2>8 DEF Chunks, Chunk
  <2>10. Covers(c, a)
    BY <2>1, <2>3, <2>4, <2>9, ChunkCovers DEF IsChunk
  <2> QED BY <2>9, <2>10 DEF EmptyMemory
<1> QED BY <1>1, <1>2

\* The item of a byte of the binary.
LEMMA ImageItemIs ==
  ASSUME NEW a \in Addrs
  PROVE  /\ IsItem(ImageItem(a), TRUE, Const(a), Image[a], 0, NoGuard)
         /\ \A w \in Worlds : ImageItem(a).at[w] = a /\ w \in ImageItem(a).guard.of
<1>1. PICK v \in Int \cup Bytes : v = Image[a]
  BY ImageIs
<1>2. Const(a) \in [Worlds -> Int] /\ \A w \in Worlds : Const(a)[w] = a
  BY ConstIs, AddrsAssumption
<1>3. /\ NoGuard \in [on : BOOLEAN, of : SUBSET Worlds] /\ NoGuard.of = Worlds
      /\ NoGuard.on \/ NoGuard.of = Worlds
  BY GuardsAre DEF Guards
<1>4. IsItem(Item(TRUE, Const(a), v, 0, NoGuard), TRUE, Const(a), v, 0, NoGuard)
  BY <1>2, <1>3 DEF IsItem, Item, Items
<1> QED BY <1>1, <1>2, <1>3, <1>4 DEF ImageItem, IsItem

-----------------------------------------------------------------------------
(* Loading moves bytes of the binary from those still to come to the items. *)

\* What loading does to one address.
IsLoadedAt(m, l, a) ==
  /\ l.conc[a] = m.conc[a] \/ (IsPending(m, a) /\ l.conc[a] = <<ImageItem(a)>>)
  /\ IsPending(l, a) => IsPending(m, a)
  /\ IsPending(m, a) => IsPending(l, a) \/ l.conc[a] = <<ImageItem(a)>>

IsImageLoaded(m, l) ==
  /\ m \in Memories /\ IsLoaded(m, l)
  /\ \A a \in Addrs : IsLoadedAt(m, l, a)

\* _load_init_data files at its address the byte the binary has there.
LEMMA LoadedByte ==
  ASSUME NEW m \in Memories, NEW touched \in SUBSET m.pending
  PROVE  IsImageLoaded(m, LoadChunks(m, touched))
<1> DEFINE For(a) == {c \in touched : Covers(c, a) /\ ~Stored(m, c, a)}
           Byte(c, a) == <<Item(TRUE, Const(a), c.bytes[a - Start(c) + 1], 0, NoGuard)>>
<1>1. PICK l : l = LoadChunks(m, touched)
  OBVIOUS
<1>2. PICK conc : conc = [a \in Addrs |->
                     IF For(a) = {} THEN m.conc[a] ELSE Byte(CHOOSE c \in For(a) : TRUE, a)]
  OBVIOUS
<1>3. l = [m EXCEPT !.pending = @ \ touched, !.conc = conc]
  BY <1>1, <1>2 DEF LoadChunks
<1>4. l.conc = conc /\ l.pending = m.pending \ touched
  BY <1>3 DEF Memories
<1>5. m.pending \subseteq EmptyMemory.pending
  BY MemoryType
<1>6. ASSUME NEW a \in Addrs PROVE IsLoadedAt(m, l, a)
  <2>1. \A c \in m.pending : Covers(c, a) => (Stored(m, c, a) <=> m.conc[a] # <<>>)
    BY <1>5, ChunkIsImage DEF Stored
  <2>2. CASE For(a) = {}
    <3>1. l.conc[a] = m.conc[a]
      BY <1>2, <1>4, <2>2
    <3>2. m.conc[a] = <<>> => \A c \in touched : ~Covers(c, a)
      BY <2>1, <2>2
    <3> QED BY <1>4, <3>1, <3>2 DEF IsLoadedAt, IsPending
  <2>3. CASE For(a) # {}
    <3>1. PICK c : c = CHOOSE d \in For(a) : TRUE
      OBVIOUS
    <3>2. c \in touched /\ c \in EmptyMemory.pending /\ Covers(c, a) /\ ~Stored(m, c, a)
      BY <1>5, <2>3, <3>1
    <3>3. IsPending(m, a)
      BY <2>1, <3>2 DEF IsPending
    <3>4. l.conc[a] = Byte(c, a)
      BY <1>2, <1>4, <2>3, <3>1
    <3>5. c.bytes[a - Start(c) + 1] = Image[a]
      BY <3>2, ChunkIsImage
    <3>6. l.conc[a] = <<ImageItem(a)>>
      BY <3>4, <3>5 DEF ImageItem
    <3> QED BY <3>3, <3>6 DEF IsLoadedAt
  <2> QED BY <2>2, <2>3
<1>7. IsLoaded(m, l)
  BY <1>1, LoadedAs
<1> QED BY <1>1, <1>6, <1>7 DEF IsImageLoaded

\* Every loading of the binary is such a loading.
LEMMA LoadedBytes ==
  ASSUME NEW m \in Memories
  PROVE  /\ \A a, n : IsImageLoaded(m, LoadInitData(m, a, n))
         /\ \A P : IsImageLoaded(m, LoadPages(m, P))
  BY LoadedByte DEF LoadInitData, LoadPages

IsSeen(p, m) ==
  \/ \E a \in Addrs : p \in Range(m.conc[a]) \/ (IsPending(m, a) /\ p = ImageItem(a))
  \/ \E x \in m.sym : p = x.item

\* An item seen is one of the tables or a byte of the binary still to come.
LEMMA SeenIs ==
  ASSUME NEW m \in Memories
  PROVE  \A p : p \in Seen(m) <=> IsSeen(p, m)
  BY ItemsOf DEF Seen, IsSeen

\* What is seen does not change by loading.
LEMMA LoadedSeen ==
  ASSUME NEW m, NEW l, IsImageLoaded(m, l)
  PROVE  Seen(l) = Seen(m)
<1>1. /\ m \in Memories /\ l \in Memories /\ l.sym = m.sym
      /\ \A a \in Addrs : IsLoadedAt(m, l, a)
  BY DEF IsImageLoaded, IsLoaded
<1>2. ASSUME NEW a \in Addrs, IsPending(m, a) PROVE Range(m.conc[a]) = {}
  BY <1>2 DEF IsPending, Range
<1>3. ASSUME NEW a \in Addrs, NEW p
      PROVE  \/ p \in Range(l.conc[a])
             \/ IsPending(l, a) /\ p = ImageItem(a)
             <=>
             \/ p \in Range(m.conc[a])
             \/ IsPending(m, a) /\ p = ImageItem(a)
  <2>1. IsLoadedAt(m, l, a)
    BY <1>1
  <2>2. CASE l.conc[a] = m.conc[a]
    <3>1. IsPending(m, a) => IsPending(l, a)
      <4>1. IsPending(m, a) => l.conc[a] # <<ImageItem(a)>>
        BY <2>2 DEF IsPending
      <4> QED BY <2>1, <4>1 DEF IsLoadedAt
    <3> QED BY <2>1, <2>2, <3>1 DEF IsLoadedAt
  <2>3. CASE l.conc[a] # m.conc[a]
    <3>1. IsPending(m, a) /\ l.conc[a] = <<ImageItem(a)>>
      BY <2>1, <2>3 DEF IsLoadedAt
    <3>2. ~IsPending(l, a)
      BY <3>1 DEF IsPending
    <3> QED BY <1>2, <3>1, <3>2, RangeSingle
  <2> QED BY <2>2, <2>3
<1>4. ASSUME NEW p PROVE p \in Seen(l) <=> p \in Seen(m)
  <2>1. (p \in Seen(l) <=> IsSeen(p, l)) /\ (p \in Seen(m) <=> IsSeen(p, m))
    BY <1>1, SeenIs
  <2>2. (\E x \in l.sym : p = x.item) <=> (\E x \in m.sym : p = x.item)
    BY <1>1
  <2>3. (\E a \in Addrs : p \in Range(l.conc[a]) \/ (IsPending(l, a) /\ p = ImageItem(a)))
        <=> (\E a \in Addrs : p \in Range(m.conc[a]) \/ (IsPending(m, a) /\ p = ImageItem(a)))
    BY <1>3, Zenon
  <2> QED BY <2>1, <2>2, <2>3 DEF IsSeen
<1> QED BY <1>4

\* Once all pages are loaded nothing is still to come.
LEMMA AllLoaded ==
  ASSUME NEW m \in Memories
  PROVE  AllItems(LoadPages(m, Pending(m))) = Seen(m)
<1>1. PICK l : l = LoadPages(m, Pending(m))
  OBVIOUS
<1>2. IsImageLoaded(m, l)
  BY <1>1, LoadedBytes
<1>3. {c \in m.pending : \E p \in Pending(m) :
           p <= c.page /\ c.page <= (p * PageSize + 1) \div PageSize} = m.pending
  <2> SUFFICES ASSUME NEW c \in m.pending
               PROVE  /\ c.page \in Pending(m)
                      /\ c.page <= c.page /\ c.page <= (c.page * PageSize + 1) \div PageSize
    OBVIOUS
  <2>1. PICK g \in Segments : c \in Chunks(g)
    BY MemoryType DEF EmptyMemory
  <2>2. PICK p \in Int : p = c.page
    BY <2>1, ChunkCovers DEF IsChunk
  <2>3. PICK q \in Int : q = p * PageSize
    BY PageSizeAssumption
  <2>4. q \div PageSize = p
    BY <2>3, PageIs, PageSizeAssumption
  <2>5. q \div PageSize <= (q + 1) \div PageSize
    BY PagesInOrder
  <2> QED BY <2>2, <2>3, <2>4, <2>5 DEF Pending
<1>4. l = LoadChunks(m, m.pending)
  BY <1>1, <1>3 DEF LoadPages
<1>5. l.pending = {}
  <2>1. \A conc : [m EXCEPT !.pending = @ \ m.pending, !.conc = conc].pending = {}
    BY DEF Memories
  <2> QED BY <1>4, <2>1 DEF LoadChunks
<1>6. Seen(l) = AllItems(l)
  BY <1>5 DEF Seen, IsPending
<1> QED BY <1>1, <1>2, <1>6, LoadedSeen

-----------------------------------------------------------------------------
(* What the items tell of a byte. *)

\* In world w address a has byte v: the latest item that holds there has it.
TellsByte(S, w, a, v) ==
  \/ Hits(S, w, a) = {} /\ v = Unknown
  \/ /\ v # Unknown
     /\ \E p \in Hits(S, w, a) :
          /\ p.val = v
          /\ \A q \in Hits(S, w, a) : q.t < p.t \/ (q.t = p.t /\ q.val = v)

\* All that is seen of a state tells its contents.
Tells ==
  \A s \in Live : \A w \in path[s], a \in Addrs :
    TellsByte(Seen(mem[s]), w, a, truth[s][w][a])

Twins(p, q) == p.t = q.t /\ p.val = q.val

\* Items with the same times and bytes tell the same.
LEMMA TwinsTell ==
  ASSUME NEW S, NEW T, NEW w, NEW a, NEW v, TellsByte(S, w, a, v),
         \A p \in Hits(S, w, a) : \E q \in Hits(T, w, a) : Twins(p, q),
         \A q \in Hits(T, w, a) : \E p \in Hits(S, w, a) : Twins(p, q)
  PROVE  TellsByte(T, w, a, v)
<1>1. CASE Hits(S, w, a) = {} /\ v = Unknown
  BY <1>1 DEF TellsByte
<1>2. CASE /\ v # Unknown
           /\ \E p \in Hits(S, w, a) :
                /\ p.val = v
                /\ \A q \in Hits(S, w, a) : q.t < p.t \/ (q.t = p.t /\ q.val = v)
  <2>1. PICK p \in Hits(S, w, a) :
          p.val = v /\ \A q \in Hits(S, w, a) : q.t < p.t \/ (q.t = p.t /\ q.val = v)
    BY <1>2
  <2>2. PICK r \in Hits(T, w, a) : Twins(p, r)
    OBVIOUS
  <2>3. ASSUME NEW q \in Hits(T, w, a) PROVE q.t < r.t \/ (q.t = r.t /\ q.val = v)
    <3>1. PICK i \in Hits(S, w, a) : Twins(i, q)
      OBVIOUS
    <3> QED BY <2>1, <2>2, <3>1 DEF Twins
  <2> QED BY <1>2, <2>1, <2>2, <2>3 DEF TellsByte, Twins
<1> QED BY <1>1, <1>2 DEF TellsByte

\* An item later than all others tells its byte.
LEMMA LatestTells ==
  ASSUME NEW S, NEW w, NEW a, NEW p \in Hits(S, w, a), p.val # Unknown,
         \A q \in Hits(S, w, a) : q = p \/ q.t < p.t
  PROVE  TellsByte(S, w, a, p.val)
  BY DEF TellsByte

\* Items before all others change nothing where there are others.
LEMMA EarlierTells ==
  ASSUME NEW S, NEW T, NEW w, NEW a, NEW v, TellsByte(S, w, a, v), v # Unknown,
         Hits(S, w, a) \subseteq Hits(T, w, a),
         \A q \in Hits(T, w, a) \ Hits(S, w, a) : \A p \in Hits(S, w, a) : q.t < p.t
  PROVE  TellsByte(T, w, a, v)
  BY DEF TellsByte

\* The times of what is seen are within the counters of the memory.
LEMMA SeenTimes ==
  ASSUME NEW m \in Memories, Placed(m), NEW p \in Seen(m)
  PROVE  p \in Items /\ p.t \in m.implicit .. m.time
<1>1. CASE p \in AllItems(m)
  BY <1>1, Kinds, ItemsOf
<1>2. CASE \E a \in Addrs : p = ImageItem(a)
  <2>1. p \in Items /\ p.t = 0
    BY <1>2, ImageItemIs DEF IsItem
  <2> QED BY <2>1, MemoryType
<1> QED BY <1>1, <1>2 DEF Seen

-----------------------------------------------------------------------------
(* Loads. *)

\* Two memories that differ in the tree only have the same to come.
LEMMA SamePending ==
  ASSUME NEW m, NEW n, m.conc = n.conc, m.pending = n.pending
  PROVE  \A a : IsPending(m, a) <=> IsPending(n, a)
  BY DEF IsPending

\* A step that changes one state.
LEMMA UpdateTells ==
  ASSUME TypeOK, Tells, NEW s \in States,
         path' = [path EXCEPT ![s] = path'[s]], path'[s] \in SUBSET path[s],
         mem' = [mem EXCEPT ![s] = mem'[s]],
         truth' = [truth EXCEPT ![s] = truth'[s]],
         s \in Live' => \A w \in path'[s], a \in Addrs :
                          TellsByte(Seen(mem'[s]), w, a, truth'[s][w][a])
  PROVE  Tells'
<1>1. /\ path \in [States -> SUBSET Worlds] /\ mem \in [States -> Memories]
      /\ truth \in Truths
  BY DEF TypeOK, Truths
<1>2. ASSUME NEW r \in Live', r # s
      PROVE  r \in Live /\ path'[r] = path[r] /\ mem'[r] = mem[r] /\ truth'[r] = truth[r]
  BY <1>1, <1>2 DEF Live, Truths
<1>3. ASSUME NEW r \in Live', NEW w \in path'[r], NEW a \in Addrs
      PROVE  TellsByte(Seen(mem'[r]), w, a, truth'[r][w][a])
  <2>1. CASE r = s
    BY <1>3, <2>1
  <2>2. CASE r # s
    <3>1. TellsByte(Seen(mem[r]), w, a, truth[r][w][a])
      BY <1>2, <1>3, <2>2 DEF Tells
    <3> QED BY <1>2, <2>2, <3>1
  <2> QED BY <2>1, <2>2
<1>4. Seen(mem[s])' = Seen(mem'[s])
  BY DEF Seen, AllItems, IsPending, ImageItem
<1>5. \A r, w, a : TellsByte(Seen(mem[r]), w, a, truth[r][w][a])'
                     <=> TellsByte(Seen(mem'[r]), w, a, truth'[r][w][a])
  BY DEF Seen, AllItems, IsPending, ImageItem, TellsByte, Hits
<1> QED BY <1>3, <1>5 DEF Tells

\* The byte a load names in a world is the one its new symbol has there.
LEMMA LoadKeepsTells ==
  ASSUME TypeOK, Tells, NEW s \in Live, NEW e \in AddrExprs, NEW size \in LoadSizes,
         Load(s, e, size)
  PROVE  Tells'
<1>1. PICK n, b, l, D : IsLoad(s, e, n, b, l, D)
  BY LoadIs
<1>2. made \in Nat /\ path \in [States -> SUBSET Worlds] /\ truth \in Truths
  BY DEF TypeOK, Truths
<1>3. /\ s \in States /\ mem[s] \in Memories /\ Placed(mem[s])
      /\ path'[s] \in SUBSET path[s] /\ path' = [path EXCEPT ![s] = path'[s]]
      /\ e \in [Worlds -> Int] /\ IsAddress(b) /\ IsBounds(b, e, path'[s])
      /\ mem' = [mem EXCEPT ![s] = mem'[s]]
      /\ truth' = [truth EXCEPT ![s] = [w \in Worlds |->
           IF w \in path'[s]
             THEN [a \in Addrs |-> IF a - e[w] \in D /\ truth[s][w][a] = Unknown
                                     THEN -(made + RankIn(D, a - e[w])) ELSE truth[s][w][a]]
             ELSE NoBytes]]
  BY <1>1 DEF IsLoad
<1>4. IsImageLoaded(mem[s], l)
  BY <1>1, LoadedBytes DEF IsLoad
<1>5. /\ l \in Memories /\ Placed(l) /\ l.implicit = mem[s].implicit
      /\ \A k \in D : /\ RankIn(D, k) \in 1 .. Cardinality(D)
                      /\ IsByte(NewSymbol(l, b, D, k), b, k, l.implicit - RankIn(D, k))
                      /\ NewSymbol(l, b, D, k).item.val = -(made + RankIn(D, k))
                      /\ NewSymbol(l, b, D, k).item.guard = NoGuard
      /\ D \subseteq 0 .. n - 1
  BY <1>1, <1>2, SymbolsAre
<1> DEFINE New == {NewSymbol(l, b, D, k).item : k \in D}
<1>6. Seen(mem'[s]) = Seen(mem[s]) \cup New
  <2>1. /\ mem'[s].conc = l.conc /\ mem'[s].pending = l.pending
        /\ AllItems(mem'[s]) = AllItems(l) \cup New
    BY <1>1, <1>2, LoadedMemory
  <2>2. \A a : IsPending(mem'[s], a) <=> IsPending(l, a)
    BY <2>1, SamePending
  <2>3. Seen(mem'[s]) = Seen(l) \cup New
    BY <2>1, <2>2 DEF Seen
  <2> QED BY <1>4, <2>3, LoadedSeen
<1>7. ASSUME NEW k \in D, NEW w \in path'[s]
      PROVE  /\ NewSymbol(l, b, D, k).item.at[w] = e[w] + k
             /\ w \in NewSymbol(l, b, D, k).item.guard.of
             /\ NewSymbol(l, b, D, k).item.val # Unknown
             /\ NewSymbol(l, b, D, k).item.t \in Int
             /\ NewSymbol(l, b, D, k).item.t < mem[s].implicit
  <2>1. w \in Worlds /\ k \in Int
    BY <1>2, <1>3, <1>5
  <2>2. PICK f : f = NewSymbol(l, b, D, k)
    OBVIOUS
  <2>3. PICK r \in Nat : r = RankIn(D, k) /\ r > 0
    BY <1>5
  <2>4. PICK i \in Int : i = mem[s].implicit
    BY <1>3, MemoryType
  <2>5. PICK t \in Int : t = i - r
    OBVIOUS
  <2>6. IsByte(f, b, k, t) /\ f.item.val = -(made + r) /\ f.item.guard = NoGuard
    BY <1>5, <2>2, <2>3, <2>4, <2>5
  <2>7. f.item.at = Plus(b.at, k) /\ f.item.t = t
    BY <2>6 DEF IsByte
  <2>8. f.item.at[w] = b.at[w] + k
    <3>1. b.at \in [Worlds -> Int]
      BY <1>3 DEF IsAddress
    <3>2. Plus(b.at, k)[w] = b.at[w] + k
      BY <2>1, <3>1, PlusIs
    <3> QED BY <2>7, <3>2
  <2>9. b.at[w] = e[w]
    BY <1>3 DEF IsBounds
  <2>10. w \in f.item.guard.of
    BY <2>1, <2>6, GuardsAre
  <2> QED BY <1>2, <2>2, <2>3, <2>4, <2>5, <2>6, <2>7, <2>8, <2>9, <2>10 DEF Unknown
<1> HIDE DEF New
<1>8. ASSUME NEW w \in path'[s], NEW a \in Addrs
      PROVE  TellsByte(Seen(mem'[s]), w, a, truth'[s][w][a])
  <2>1. w \in Worlds /\ w \in path[s] /\ a \in Int /\ e[w] \in Int
    BY <1>2, <1>3, AddrsAssumption
  <2>2. truth'[s][w][a] = IF a - e[w] \in D /\ truth[s][w][a] = Unknown
                            THEN -(made + RankIn(D, a - e[w])) ELSE truth[s][w][a]
    BY <1>2, <1>3, <2>1 DEF Truths
  <2>3. TellsByte(Seen(mem[s]), w, a, truth[s][w][a])
    BY <2>1 DEF Tells
  <2>4. ASSUME NEW q \in Hits(New, w, a)
        PROVE  /\ a - e[w] \in D /\ q = NewSymbol(l, b, D, a - e[w]).item
               /\ q.t \in Int /\ q.t < mem[s].implicit
    <3>1. PICK k \in D : q = NewSymbol(l, b, D, k).item
      BY DEF Hits, New
    <3>2. q.at[w] = a
      BY DEF Hits
    <3>3. k \in Int /\ e[w] + k = a
      BY <1>5, <1>7, <3>1, <3>2
    <3>4. k = a - e[w]
      BY <2>1, <3>3
    <3> QED BY <1>7, <3>1, <3>4
  <2>5. Hits(Seen(mem'[s]), w, a) = Hits(Seen(mem[s]), w, a) \cup Hits(New, w, a)
    BY <1>6 DEF Hits
  <2>6. CASE truth[s][w][a] # Unknown
    <3>1. \A q \in Hits(New, w, a), p \in Hits(Seen(mem[s]), w, a) : q.t < p.t
      <4> SUFFICES ASSUME NEW q \in Hits(New, w, a), NEW p \in Hits(Seen(mem[s]), w, a)
                   PROVE  q.t < p.t
        OBVIOUS
      <4>1. p.t \in mem[s].implicit .. mem[s].time
        BY <1>3, SeenTimes DEF Hits
      <4>2. mem[s].implicit \in Int /\ mem[s].time \in Int
        BY <1>3, MemoryType
      <4> QED BY <2>4, <4>1, <4>2
    <3>2. TellsByte(Seen(mem'[s]), w, a, truth[s][w][a])
      BY <2>3, <2>5, <2>6, <3>1, EarlierTells
    <3> QED BY <2>2, <2>6, <3>2
  <2>7. CASE truth[s][w][a] = Unknown
    <3>1. Hits(Seen(mem[s]), w, a) = {}
      BY <2>3, <2>7 DEF TellsByte
    <3>2. CASE a - e[w] \in D
      <4>1. PICK k \in D : k = a - e[w]
        BY <3>2
      <4>2. PICK p : p = NewSymbol(l, b, D, k).item
        OBVIOUS
      <4>3. p.val = -(made + RankIn(D, k)) /\ p.val # Unknown
        BY <1>5, <1>7, <4>2
      <4>4. p.at[w] = a /\ w \in p.guard.of
        <5>1. e[w] + k = a
          BY <2>1, <4>1
        <5> QED BY <1>7, <4>2, <5>1
      <4>5. p \in Hits(Seen(mem'[s]), w, a)
        BY <1>6, <4>2, <4>4 DEF Hits, New
      <4>6. \A q \in Hits(Seen(mem'[s]), w, a) : q = p
        BY <2>4, <2>5, <3>1, <4>1, <4>2
      <4>7. TellsByte(Seen(mem'[s]), w, a, p.val)
        BY <4>3, <4>5, <4>6, LatestTells
      <4>8. truth'[s][w][a] = p.val
        BY <2>2, <2>7, <3>2, <4>1, <4>3
      <4> QED BY <4>7, <4>8
    <3>3. CASE a - e[w] \notin D
      <4>1. Hits(Seen(mem'[s]), w, a) = {} /\ truth'[s][w][a] = Unknown
        BY <2>2, <2>4, <2>5, <2>7, <3>1, <3>3
      <4> QED BY <4>1 DEF TellsByte
    <3> QED BY <3>2, <3>3
  <2> QED BY <2>6, <2>7
<1>9. truth' = [truth EXCEPT ![s] = truth'[s]]
  BY <1>2, <1>3 DEF Truths
<1> QED BY <1>3, <1>8, <1>9, UpdateTells

\* The question whether an address has an item only loads.
LEMMA HasItemKeepsTells ==
  ASSUME TypeOK, Tells, NEW s \in Live, NEW a \in Addrs, HasItem(s, a)
  PROVE  Tells'
<1>1. /\ s \in States /\ mem \in [States -> Memories] /\ mem[s] \in Memories
      /\ path \in [States -> SUBSET Worlds] /\ truth \in Truths
  BY DEF Live, TypeOK, Truths
<1>2. /\ mem' = [mem EXCEPT ![s] = LoadInitData(mem[s], a, 1)]
      /\ path' = path /\ truth' = truth
  BY DEF HasItem
<1>3. mem'[s] = LoadInitData(mem[s], a, 1)
  BY <1>1, <1>2
<1>4. Seen(mem'[s]) = Seen(mem[s])
  BY <1>1, <1>3, LoadedBytes, LoadedSeen
<1>5. \A w \in path'[s], x \in Addrs : TellsByte(Seen(mem'[s]), w, x, truth'[s][w][x])
  BY <1>2, <1>4 DEF Tells
<1>6. /\ path' = [path EXCEPT ![s] = path'[s]] /\ path'[s] \in SUBSET path[s]
      /\ mem' = [mem EXCEPT ![s] = mem'[s]] /\ truth' = [truth EXCEPT ![s] = truth'[s]]
  BY <1>1, <1>2, <1>3 DEF Truths
<1> QED BY <1>1, <1>5, <1>6, UpdateTells

-----------------------------------------------------------------------------
(* Stores. *)

\* With one size, or no condition, the guard of a byte is that the byte is
\* within the size and the condition holds.
LEMMA ByteGuardIs ==
  ASSUME NEW P \in SUBSET Worlds, P # {}, NEW size \in [Worlds -> Int], NEW cond \in Guards,
         NEW n \in Nat, n = Bounds(size, P).hi, ~cond.on \/ Bounds(size, P).int,
         NEW k \in 0 .. n - 1, NEW w \in P
  PROVE  /\ w \in ByteGuard(cond, size, P, k).of <=> w \in cond.of /\ k < size[w]
         /\ size[w] <= n
<1>1. PICK z : z = Bounds(size, P)
  OBVIOUS
<1>2. IsBounds(z, size, P)
  BY <1>1, BoundsAre
<1>3. z.lo \in Int /\ z.lo <= size[w] /\ size[w] <= z.hi /\ z.hi = n /\ (z.int => z.lo = z.hi)
  BY <1>1, <1>2 DEF IsBounds
<1>4. w \in Worlds /\ size[w] \in Int
  OBVIOUS
<1>5. ByteGuard(cond, size, P, k) =
        IF z.int \/ k + 1 < z.lo THEN cond
        ELSE IF ~cond.on THEN Guard({v \in Worlds : size[v] > k})
        ELSE And(cond, {v \in Worlds : size[v] > k + 1})
  BY <1>1 DEF ByteGuard
<1>6. CASE z.int \/ k + 1 < z.lo
  BY <1>3, <1>4, <1>5, <1>6
<1>7. CASE ~(z.int \/ k + 1 < z.lo)
  <2>1. ~cond.on /\ cond.of = Worlds
    BY <1>1, <1>7 DEF Guards
  <2>2. ByteGuard(cond, size, P, k) = Guard({v \in Worlds : size[v] > k})
    BY <1>5, <1>7, <2>1
  <2>3. ByteGuard(cond, size, P, k).of = {v \in Worlds : size[v] > k}
    BY <2>2, GuardsAre
  <2> QED BY <1>3, <1>4, <2>1, <2>3
<1> QED BY <1>6, <1>7

\* What a store of new at b makes of the items: those that hold after it are
\* bytes of the store, and where none of these holds what was there.
IsWritten(m, n, new, w, a) ==
  LET New == {new[k].item : k \in DOMAIN new}
  IN  /\ Hits(Seen(n), w, a) \subseteq Hits(Seen(m), w, a) \cup Hits(New, w, a)
      /\ Hits(New, w, a) \subseteq Hits(Seen(n), w, a)
      /\ Hits(New, w, a) = {} => Hits(Seen(m), w, a) \subseteq Hits(Seen(n), w, a)

\* An unguarded byte is put in the place of an entry, a guarded one before it.
LEMMA PutHas ==
  ASSUME NEW old \in Seq(Items), NEW item \in Items
  PROVE  /\ item \in Range(Put(old, item)) /\ Put(old, item) # <<>>
         /\ item.guard.on => Range(old) \subseteq Range(Put(old, item))
<1>1. <<item>> \in Seq(Items)
  OBVIOUS
<1>2. /\ <<item>> \o old \in Seq(Items)
      /\ Range(<<item>> \o old) = Range(<<item>>) \cup Range(old)
  BY <1>1, ConcatProperties, RangeConcatenation
<1>3. /\ item \in Range(Put(old, item))
      /\ item.guard.on => Range(old) \subseteq Range(Put(old, item))
  <2>1. CASE old = <<>> \/ ~item.guard.on
    <3>1. Put(old, item) = <<item>>
      BY <2>1 DEF Put
    <3>2. old = <<>> => Range(old) = {}
      BY DEF Range
    <3> QED BY <2>1, <3>1, <3>2, RangeSingle
  <2>2. CASE ~(old = <<>> \/ ~item.guard.on)
    <3>1. Put(old, item) = <<item>> \o old
      BY <2>2 DEF Put
    <3> QED BY <1>2, <3>1, RangeSingle
  <2> QED BY <2>1, <2>2
<1>4. Put(old, item) # <<>>
  <2>1. Range(<<>>) = {}
    BY DEF Range
  <2> QED BY <1>3, <2>1
<1> QED BY <1>3, <1>4

\* A store at a concrete address: guarded bytes cover no byte of the binary that
\* is still to come.
LEMMA ConcreteWritten ==
  ASSUME NEW m \in Memories, Placed(m), NEW b, IsAddress(b), b.int,
         NEW t, NEW new, DOMAIN new \subseteq Int,
         \A k \in DOMAIN new : IsByte(new[k], b, k, t),
         \A k \in DOMAIN new : new[k].item.guard.on => ~IsPending(m, b.lo + k),
         NEW n \in StoreBytes(m, b, new), n \in Memories,
         NEW w \in Worlds, NEW a \in Addrs
  PROVE  IsWritten(m, n, new, w, a)
<1> DEFINE New == {new[k].item : k \in DOMAIN new}
           conc == [x \in Addrs |->
             IF x - b.lo \in DOMAIN new THEN Put(m.conc[x], new[x - b.lo].item) ELSE m.conc[x]]
<1>1. n = [m EXCEPT !.conc = conc]
  BY DEF StoreBytes
<1>2. \A x \in Addrs : conc[x] = IF x - b.lo \in DOMAIN new
                                  THEN Put(m.conc[x], new[x - b.lo].item) ELSE m.conc[x]
  OBVIOUS
<1> HIDE DEF conc
<1>3. n.conc = conc /\ n.sym = m.sym /\ n.pending = m.pending
  BY <1>1 DEF Memories
<1>4. /\ \A x \in Addrs : m.conc[x] \in Seq(Items)
      /\ \A k \in DOMAIN new : new[k].item \in Items
      /\ b.lo \in Int /\ b.at = Const(b.lo) /\ \A x \in Addrs : x \in Int
  BY MemoryType, AddrsAssumption DEF IsAddress, IsByte, Files
<1>5. ASSUME NEW k \in DOMAIN new
      PROVE  new[k].item.at[w] = b.lo + k /\ (~new[k].item.guard.on => w \in new[k].item.guard.of)
  <2>1. new[k].item.at = Plus(b.at, k) /\ b.at \in [Worlds -> Int] /\ k \in Int
    BY DEF IsByte, IsAddress
  <2>2. new[k].item.at[w] = b.at[w] + k
    BY <2>1, PlusIs
  <2>3. b.at[w] = b.lo
    BY <1>4, ConstIs
  <2>4. new[k].item.guard.on \/ new[k].item.guard.of = Worlds
    BY <1>4, ItemType
  <2> QED BY <2>2, <2>3, <2>4
\* The entries of an address and the byte of the binary at it.
<1>6. ASSUME NEW x \in Addrs, x - b.lo \notin DOMAIN new
      PROVE  n.conc[x] = m.conc[x] /\ (IsPending(n, x) <=> IsPending(m, x))
  BY <1>2, <1>3, <1>6 DEF IsPending
<1>7. ASSUME NEW k \in DOMAIN new, b.lo + k \in Addrs
      PROVE  /\ new[k].item \in Range(n.conc[b.lo + k])
             /\ Range(n.conc[b.lo + k]) \subseteq {new[k].item} \cup Range(m.conc[b.lo + k])
             /\ new[k].item.guard.on => Range(m.conc[b.lo + k]) \subseteq Range(n.conc[b.lo + k])
             /\ ~IsPending(n, b.lo + k)
  <2>1. PICK x \in Addrs : x = b.lo + k
    BY <1>7
  <2>2. k \in Int /\ x - b.lo = k
    BY <1>4, <2>1
  <2>3. n.conc[x] = Put(m.conc[x], new[k].item)
    BY <1>2, <1>3, <2>2
  <2>4. m.conc[x] \in Seq(Items) /\ new[k].item \in Items
    BY <1>4
  <2>5. n.conc[x] # <<>>
    BY <2>3, <2>4, PutHas
  <2> QED BY <2>1, <2>3, <2>4, <2>5, PutHas, PutIs DEF IsPending
<1>8. Hits(New, w, a) \subseteq Hits(Seen(n), w, a)
  <2> SUFFICES ASSUME NEW p \in Hits(New, w, a) PROVE p \in Hits(Seen(n), w, a)
    OBVIOUS
  <2>1. PICK k \in DOMAIN new : p = new[k].item
    BY DEF Hits
  <2>2. p.at[w] = a /\ w \in p.guard.of
    BY DEF Hits
  <2>3. b.lo + k = a
    BY <1>5, <2>1, <2>2
  <2>4. p \in Range(n.conc[a])
    BY <1>7, <2>1, <2>3
  <2>5. p \in Seen(n)
    BY <2>4, SeenIs DEF IsSeen
  <2> QED BY <2>2, <2>5 DEF Hits
<1>9. ASSUME NEW p \in Seen(n) PROVE p \in Seen(m) \cup New
  <2>1. IsSeen(p, n)
    BY SeenIs
  <2>2. ASSUME NEW x \in Addrs, p \in Range(n.conc[x]) \/ (IsPending(n, x) /\ p = ImageItem(x))
        PROVE  p \in Range(m.conc[x]) \/ (IsPending(m, x) /\ p = ImageItem(x)) \/ p \in New
    <3>1. CASE x - b.lo \notin DOMAIN new
      BY <1>6, <2>2, <3>1
    <3>2. CASE x - b.lo \in DOMAIN new
      <4>1. PICK k \in DOMAIN new : k = x - b.lo
        BY <3>2
      <4>2. b.lo + k = x
        BY <1>4, <4>1
      <4> QED BY <1>7, <2>2, <4>2
    <3> QED BY <3>1, <3>2
  <2> HIDE DEF New
  <2>3. p \in New \/ IsSeen(p, m)
    BY <1>3, <2>1, <2>2 DEF IsSeen
  <2> QED BY <2>3, SeenIs
<1>10. ASSUME Hits(New, w, a) = {}, NEW p \in Hits(Seen(m), w, a)
       PROVE  p \in Hits(Seen(n), w, a)
  <2>1. IsSeen(p, m) /\ p.at[w] = a /\ w \in p.guard.of
    BY SeenIs DEF Hits
  <2>2. ASSUME NEW x \in Addrs, p \in Range(m.conc[x]) \/ (IsPending(m, x) /\ p = ImageItem(x))
        PROVE  p \in Range(n.conc[x]) \/ (IsPending(n, x) /\ p = ImageItem(x))
    <3>1. CASE x - b.lo \notin DOMAIN new
      BY <1>6, <2>2, <3>1
    <3>2. CASE x - b.lo \in DOMAIN new
      <4>1. PICK k \in DOMAIN new : k = x - b.lo
        BY <3>2
      <4>2. b.lo + k = x
        BY <1>4, <4>1
      <4>3. x = a
        <5>1. p.at[w] = x
          <6>1. CASE p \in Range(m.conc[x])
            <7>1. p.at = Const(x)
              BY <6>1 DEF Placed
            <7> QED BY <1>4, <7>1, ConstIs
          <6>2. CASE p = ImageItem(x)
            BY <6>2, ImageItemIs
          <6> QED BY <2>2, <6>1, <6>2
        <5> QED BY <2>1, <5>1
      <4>4. new[k].item.guard.on
        <5>1. new[k].item \notin Hits(New, w, a)
          BY <1>10
        <5> QED BY <1>5, <4>2, <4>3, <5>1 DEF Hits
      <4>5. ~IsPending(m, x)
        BY <4>2, <4>4
      <4> QED BY <1>7, <2>2, <4>2, <4>4, <4>5
    <3> QED BY <3>1, <3>2
  <2> HIDE DEF New
  <2>3. IsSeen(p, n)
    BY <1>3, <2>1, <2>2 DEF IsSeen
  <2> QED BY <2>1, <2>3, SeenIs DEF Hits
<1>11. Hits(Seen(n), w, a) \subseteq Hits(Seen(m), w, a) \cup Hits(New, w, a)
  BY <1>9 DEF Hits
<1> QED BY <1>8, <1>10, <1>11 DEF IsWritten

\* A store at a symbolic address takes over only items of the very same address
\* that its byte hides in all worlds.
LEMMA SymbolicWritten ==
  ASSUME NEW m \in Memories, Placed(m), NEW b, IsAddress(b), ~b.int,
         NEW t, NEW new, DOMAIN new \subseteq Int,
         \A k \in DOMAIN new : IsByte(new[k], b, k, t),
         NEW n \in StoreBytes(m, b, new), n \in Memories,
         NEW w \in Worlds, NEW a \in Addrs
  PROVE  IsWritten(m, n, new, w, a)
<1> DEFINE New == {new[k].item : k \in DOMAIN new}
<1>1. PICK place \in [DOMAIN new -> m.sym \cup Range(new)] :
          /\ \A k \in DOMAIN new : place[k] \in Places(m.sym, new[k])
          /\ n = [m EXCEPT !.sym = (@ \ Range(place))
                    \cup {[place[k] EXCEPT !.item = new[k].item] : k \in DOMAIN new}]
  BY DEF StoreBytes
<1> DEFINE taken(k) == [place[k] EXCEPT !.item = new[k].item]
<1>2. n.conc = m.conc /\ n.pending = m.pending
      /\ n.sym = (m.sym \ Range(place)) \cup {taken(k) : k \in DOMAIN new}
  BY <1>1 DEF Memories
<1>3. ASSUME NEW k \in DOMAIN new
      PROVE  /\ taken(k).item = new[k].item /\ new[k].item \in Items
             /\ place[k] = new[k] \/ (~new[k].item.guard.on /\ place[k].item.at = new[k].item.at)
  <2>1. new[k] \in Files
    BY DEF IsByte
  <2>2. place[k] = new[k] \/ (place[k] \in m.sym /\ ~new[k].item.guard.on
                              /\ place[k].item.at = new[k].item.at)
    BY <1>1 DEF Places
  <2>3. PICK f \in Files : f = place[k]
    BY <2>1, <2>2, MemoryType DEF Files
  <2>4. PICK i \in Items : i = new[k].item
    BY <2>1 DEF Files
  <2>5. [f EXCEPT !.item = i].item = i
    BY DEF Files
  <2> QED BY <2>2, <2>3, <2>4, <2>5
<1> HIDE DEF taken
<1>4. ASSUME NEW p, \E x \in n.sym : p = x.item
      PROVE  p \in New \/ \E x \in m.sym : p = x.item
  BY <1>2, <1>3, <1>4
<1>5. \A p \in New : \E x \in n.sym : p = x.item
  BY <1>2, <1>3
<1>6. ASSUME Hits(New, w, a) = {}, NEW x \in m.sym, x.item.at[w] = a, w \in x.item.guard.of
      PROVE  x \in n.sym
  <2>1. ASSUME x \in Range(place) PROVE FALSE
    <3>1. PICK k \in DOMAIN new : x = place[k]
      BY <2>1 DEF Range
    <3>2. new[k].item.at[w] = a /\ w \in new[k].item.guard.of
      BY <1>3, <1>6, <3>1, ItemType
    <3> QED BY <1>6, <3>2 DEF Hits
  <2> QED BY <1>2, <2>1
<1>7. \A x : IsPending(n, x) <=> IsPending(m, x)
  BY <1>2, SamePending
<1> HIDE DEF New
<1>8. ASSUME NEW p \in Seen(n) PROVE p \in Seen(m) \cup New
  <2>1. IsSeen(p, n)
    BY SeenIs
  <2>2. p \in New \/ IsSeen(p, m)
    BY <1>2, <1>4, <1>7, <2>1 DEF IsSeen
  <2> QED BY <2>2, SeenIs
<1>9. ASSUME NEW p \in New PROVE p \in Seen(n)
  BY <1>5, SeenIs DEF IsSeen
<1>10. ASSUME Hits(New, w, a) = {}, NEW p \in Hits(Seen(m), w, a)
       PROVE  p \in Hits(Seen(n), w, a)
  <2>1. IsSeen(p, m) /\ p.at[w] = a /\ w \in p.guard.of
    BY SeenIs DEF Hits
  <2>2. (\E x \in m.sym : p = x.item) => \E x \in n.sym : p = x.item
    BY <1>6, <1>10, <2>1
  <2>3. IsSeen(p, n)
    BY <1>2, <1>7, <2>1, <2>2 DEF IsSeen
  <2> QED BY <2>1, <2>3, SeenIs DEF Hits
<1>11. /\ Hits(Seen(n), w, a) \subseteq Hits(Seen(m), w, a) \cup Hits(New, w, a)
       /\ Hits(New, w, a) \subseteq Hits(Seen(n), w, a)
  BY <1>8, <1>9 DEF Hits
<1> QED BY <1>10, <1>11 DEF IsWritten, New

\* Bytes at the same distance are the same byte.
LEMMA SameByte ==
  ASSUME NEW i \in Int, NEW j \in Int, NEW k \in Int, i + j = i + k
  PROVE  j = k
  OBVIOUS

\* A store of bytes later than all that was seen tells them where one holds, and
\* what was told before where none does.
LEMMA WrittenTells ==
  ASSUME NEW m, NEW n, NEW new, NEW w, NEW a, NEW v, NEW u, NEW t,
         IsWritten(m, n, new, w, a), TellsByte(Seen(m), w, a, v),
         \A p \in Seen(m) : p.t < t,
         \A k \in DOMAIN new : new[k].item.t = t /\ new[k].item.val # Unknown,
         \A j, k \in DOMAIN new : new[j].item.at[w] = new[k].item.at[w] => j = k,
         \A k \in DOMAIN new :
           new[k].item \in Hits({new[i].item : i \in DOMAIN new}, w, a) => u = new[k].item.val,
         Hits({new[k].item : k \in DOMAIN new}, w, a) = {} => u = v
  PROVE  TellsByte(Seen(n), w, a, u)
<1> DEFINE New == {new[k].item : k \in DOMAIN new}
<1>1. /\ Hits(Seen(n), w, a) \subseteq Hits(Seen(m), w, a) \cup Hits(New, w, a)
      /\ Hits(New, w, a) \subseteq Hits(Seen(n), w, a)
      /\ Hits(New, w, a) = {} => Hits(Seen(m), w, a) \subseteq Hits(Seen(n), w, a)
  BY DEF IsWritten
<1>2. CASE Hits(New, w, a) = {}
  <2>1. Hits(Seen(n), w, a) = Hits(Seen(m), w, a) /\ u = v
    BY <1>1, <1>2
  <2> QED BY <2>1 DEF TellsByte
<1>3. CASE Hits(New, w, a) # {}
  <2>1. PICK k \in DOMAIN new : new[k].item \in Hits(New, w, a)
    BY <1>3 DEF Hits
  <2>2. PICK p : p = new[k].item
    OBVIOUS
  <2>3. p \in Hits(Seen(n), w, a) /\ u = p.val /\ p.val # Unknown /\ p.at[w] = a
    BY <1>1, <2>1, <2>2 DEF Hits
  <2>4. ASSUME NEW q \in Hits(Seen(n), w, a) PROVE q = p \/ q.t < p.t
    <3>1. CASE q \in Hits(Seen(m), w, a)
      BY <2>2, <3>1 DEF Hits
    <3>2. CASE q \in Hits(New, w, a)
      <4>1. PICK j \in DOMAIN new : q = new[j].item
        BY <3>2 DEF Hits
      <4>2. q.at[w] = a
        BY <3>2 DEF Hits
      <4>3. j = k
        BY <2>2, <2>3, <4>1, <4>2
      <4> QED BY <2>2, <4>1, <4>3
    <3> QED BY <1>1, <3>1, <3>2
  <2> QED BY <2>3, <2>4, LatestTells
<1> QED BY <1>2, <1>3

\* A store tells its bytes where its condition and its size let it write, and
\* leaves the rest.  A condition with a symbolic size, or over bytes of the binary
\* still to come, is left out.
LEMMA StoreKeepsTells ==
  ASSUME TypeOK, Tells, ~GuardSizes, ~GuardOnImage,
         NEW s \in Live, NEW e \in AddrExprs, NEW data \in Payloads, NEW size \in SizeExprs,
         NEW cond \in {NoGuard} \cup {Guard(c) : c \in Conditions},
         Store(s, e, data, size, cond)
  PROVE  Tells'
<1>1. PICK b : b = Bounds(e, path[s])
  OBVIOUS
<1>2. PICK new : new = NewBytes(s, e, data, size, cond)
  OBVIOUS
<1>3. /\ s \in States /\ mem[s] \in Memories /\ Placed(mem[s])
      /\ IsAddress(b) /\ IsBounds(b, e, path[s])
      /\ DOMAIN new = 0 .. Len(data) - 1 /\ DOMAIN new \subseteq Int
      /\ \A k \in DOMAIN new : /\ IsByte(new[k], b, k, mem[s].time + 1)
                               /\ new[k].item.val = data[k + 1]
                               /\ new[k].item.guard = ByteGuard(cond, size, path[s], k)
      /\ mem'[s] \in StoreBytes(Ticked(mem[s]), b, new)
      /\ IsStored(Ticked(mem[s]), b, new, mem'[s])
      /\ mem' = [mem EXCEPT ![s] = mem'[s]] /\ path' = path
  BY <1>1, <1>2, StoreIs
<1>4. /\ path \in [States -> SUBSET Worlds] /\ path[s] \in SUBSET Worlds /\ path[s] # {}
      /\ truth \in Truths
  BY <1>3 DEF TypeOK, Truths, Live
<1>5. /\ e \in [Worlds -> Int] /\ size \in [Worlds -> Int] /\ cond \in Guards
      /\ Len(data) \in Nat /\ \A k \in 0 .. Len(data) - 1 : data[k + 1] \in Bytes
  BY Inputs, GuardsAre
<1>6. /\ Len(data) = Bounds(size, path[s]).hi
      /\ ~cond.on \/ Bounds(size, path[s]).int
      /\ \A k \in DOMAIN new : b.int /\ new[k].item.guard.on => ~IsPending(mem[s], b.lo + k)
  <2>1. \A k \in 0 .. Len(data) - 1 :
          b.int /\ ByteGuard(cond, size, path[s], k).on => ~IsPending(mem[s], b.lo + k)
    BY <1>1 DEF Store
  <2>2. SizeFits(data, size, path[s]) /\ (~cond.on \/ Bounds(size, path[s]).int)
    BY DEF Store
  <2>3. Len(data) = Bounds(size, path[s]).hi
    BY <2>2 DEF SizeFits
  <2> QED BY <1>3, <2>1, <2>2, <2>3
<1> DEFINE Writes(w, a) == w \in path[s] \cap cond.of /\ a - e[w] \in 0 .. size[w] - 1
<1>7. truth' = [truth EXCEPT ![s] = [w \in Worlds |-> [a \in Addrs |->
              IF Writes(w, a) THEN data[a - e[w] + 1] ELSE truth[s][w][a]]]]
  BY DEF Store
<1>8. PICK m : m = Ticked(mem[s])
  OBVIOUS
<1>9. /\ m \in Memories /\ Placed(m) /\ mem'[s] \in Memories
      /\ Seen(m) = Seen(mem[s]) /\ \A a : IsPending(m, a) <=> IsPending(mem[s], a)
  <2>1. /\ m \in Memories /\ Placed(m) /\ AllItems(m) = AllItems(mem[s])
        /\ m.conc = mem[s].conc /\ m.pending = mem[s].pending
    BY <1>3, <1>8, TickedIs
  <2>2. \A a : IsPending(m, a) <=> IsPending(mem[s], a)
    BY <2>1, SamePending
  <2>3. mem'[s] \in Memories
    BY <1>3 DEF IsStored
  <2> QED BY <2>1, <2>2, <2>3 DEF Seen
<1>10. PICK t \in Int : t = mem[s].time + 1 /\ \A p \in Seen(m) : p.t < t
  <2>1. PICK u \in Int, i \in Int : u = mem[s].time /\ i = mem[s].implicit
    BY <1>3, MemoryType
  <2>2. ASSUME NEW p \in Seen(m) PROVE p.t < u + 1
    <3>1. p.t \in i .. u
      BY <1>3, <1>9, <2>1, SeenTimes
    <3> QED BY <2>1, <3>1
  <2> QED BY <2>1, <2>2
<1>11. ASSUME NEW k \in DOMAIN new, NEW w \in path[s]
       PROVE  /\ new[k].item.at[w] = e[w] + k /\ new[k].item.t = t /\ new[k].item.val # Unknown
              /\ new[k].item.val = data[k + 1]
              /\ w \in new[k].item.guard.of <=> w \in cond.of /\ k < size[w]
  <2>1. PICK f : f = new[k]
    OBVIOUS
  <2>2. IsByte(f, b, k, t)
    BY <1>3, <1>10, <2>1
  <2>3. k \in Int /\ w \in Worlds /\ b.at \in [Worlds -> Int] /\ k \in 0 .. Len(data) - 1
    BY <1>3, <1>4 DEF IsAddress
  <2>4. f.item.at[w] = b.at[w] + k /\ f.item.t = t
    BY <2>2, <2>3, PlusIs DEF IsByte
  <2>5. b.at[w] = e[w]
    BY <1>3 DEF IsBounds
  <2>6. new[k].item.val = data[k + 1] /\ data[k + 1] # Unknown
    BY <1>3, <1>5, <2>3, PayloadsAssumption DEF Unknown
  <2>7. w \in ByteGuard(cond, size, path[s], k).of <=> w \in cond.of /\ k < size[w]
    BY <1>4, <1>5, <1>6, <2>3, ByteGuardIs
  <2>8. w \in new[k].item.guard.of <=> w \in cond.of /\ k < size[w]
    BY <1>3, <2>7
  <2> QED BY <2>1, <2>4, <2>5, <2>6, <2>8
<1>12. ASSUME NEW w \in path[s], NEW a \in Addrs
       PROVE  IsWritten(m, mem'[s], new, w, a)
  <2>1. w \in Worlds
    BY <1>4
  <2>2. \A k \in DOMAIN new : IsByte(new[k], b, k, t)
    BY <1>3, <1>10
  <2>3. mem'[s] \in StoreBytes(m, b, new)
    BY <1>3, <1>8
  <2>4. CASE b.int
    <3>1. \A k \in DOMAIN new : new[k].item.guard.on => ~IsPending(m, b.lo + k)
      BY <1>6, <1>9, <2>4
    <3> QED BY <1>3, <1>9, <2>1, <2>2, <2>3, <2>4, <3>1, ConcreteWritten
  <2>5. CASE ~b.int
    BY <1>3, <1>9, <2>1, <2>2, <2>3, <2>5, SymbolicWritten
  <2> QED BY <2>4, <2>5
<1>13. ASSUME NEW w \in path[s], NEW a \in Addrs
       PROVE  TellsByte(Seen(mem'[s]), w, a, truth'[s][w][a])
  <2>1. w \in Worlds /\ a \in Int /\ e[w] \in Int /\ size[w] \in Int
    BY <1>4, <1>5, AddrsAssumption
  <2>2. PICK u : u = truth'[s][w][a]
    OBVIOUS
  <2>3. PICK v : v = truth[s][w][a]
    OBVIOUS
  <2>4. u = IF Writes(w, a) THEN data[a - e[w] + 1] ELSE v
    BY <1>3, <1>4, <1>7, <2>1, <2>2, <2>3 DEF Truths
  <2>5. TellsByte(Seen(m), w, a, v)
    BY <1>9, <2>3 DEF Tells
  <2>6. ASSUME NEW k \in DOMAIN new, new[k].item \in Hits({new[i].item : i \in DOMAIN new}, w, a)
        PROVE  u = new[k].item.val
    <3>1. new[k].item.at[w] = a /\ w \in new[k].item.guard.of
      BY <2>6 DEF Hits
    <3>2. e[w] + k = a /\ w \in cond.of /\ k < size[w] /\ k \in Int /\ k >= 0
      BY <1>3, <1>11, <3>1
    <3>3. k = a - e[w] /\ k \in 0 .. size[w] - 1
      BY <2>1, <3>2
    <3>4. Writes(w, a)
      BY <3>2, <3>3
    <3> QED BY <1>11, <2>4, <3>3, <3>4
  <2>7. ASSUME Hits({new[k].item : k \in DOMAIN new}, w, a) = {} PROVE u = v
    <3>1. ASSUME Writes(w, a) PROVE FALSE
      <4>1. PICK k \in Int : k = a - e[w]
        BY <2>1
      <4>2. size[w] <= Len(data)
        <5>1. CASE 0 \in 0 .. Len(data) - 1
          BY <1>4, <1>5, <1>6, <5>1, ByteGuardIs
        <5>2. CASE 0 \notin 0 .. Len(data) - 1
          <6>1. IsBounds(Bounds(size, path[s]), size, path[s])
            BY <1>4, <1>5, BoundsAre
          <6> QED BY <1>6, <6>1 DEF IsBounds
        <5> QED BY <5>1, <5>2
      <4>3. k \in 0 .. size[w] - 1 /\ k < size[w] /\ w \in cond.of /\ e[w] + k = a
        BY <2>1, <3>1, <4>1
      <4>4. k \in DOMAIN new
        BY <1>3, <1>5, <2>1, <4>2, <4>3
      <4>5. new[k].item.at[w] = a /\ w \in new[k].item.guard.of
        BY <1>11, <4>3, <4>4
      <4> QED BY <2>7, <4>4, <4>5 DEF Hits
    <3> QED BY <2>4, <3>1
  <2>8. \A j, k \in DOMAIN new : new[j].item.at[w] = new[k].item.at[w] => j = k
    <3> SUFFICES ASSUME NEW j \in DOMAIN new, NEW k \in DOMAIN new,
                        new[j].item.at[w] = new[k].item.at[w]
                 PROVE  j = k
      OBVIOUS
    <3>1. e[w] + j = e[w] + k /\ j \in Int /\ k \in Int
      BY <1>3, <1>11
    <3> QED BY <2>1, <3>1, SameByte
  <2>9. \A k \in DOMAIN new : new[k].item.t = t /\ new[k].item.val # Unknown
    BY <1>11
  <2> HIDE DEF Writes
  <2>10. PICK n : n = mem'[s]
    OBVIOUS
  <2>11. IsWritten(m, n, new, w, a)
    BY <1>12, <2>10
  <2>12. /\ \A k \in DOMAIN new :
              new[k].item \in Hits({new[i].item : i \in DOMAIN new}, w, a) => u = new[k].item.val
         /\ Hits({new[k].item : k \in DOMAIN new}, w, a) = {} => u = v
    BY <2>6, <2>7
  <2>13. \A p \in Seen(m) : p.t < t
    BY <1>10
  <2>14. TellsByte(Seen(n), w, a, u)
    BY <2>5, <2>8, <2>9, <2>11, <2>12, <2>13, WrittenTells
  <2> QED BY <2>2, <2>10, <2>14
<1>14. /\ truth' = [truth EXCEPT ![s] = truth'[s]] /\ path' = [path EXCEPT ![s] = path'[s]]
       /\ path'[s] \in SUBSET path[s]
  <2>1. PICK f : truth' = [truth EXCEPT ![s] = f]
    BY <1>7
  <2> QED BY <1>3, <1>4, <2>1 DEF Truths
<1> QED BY <1>3, <1>13, <1>14, UpdateTells

-----------------------------------------------------------------------------
(* Forks. *)

\* Both sides of a fork see what the state saw.
LEMMA ForkKeepsTells ==
  ASSUME TypeOK, Tells, NEW s \in States, NEW n \in States, NEW c \in SUBSET Worlds,
         Fork(s, n, c)
  PROVE  Tells'
<1>1. PICK old : IsFork(s, n, old)
  BY ForkIs
<1>2. /\ path \in [States -> SUBSET Worlds] /\ truth \in Truths /\ s # n
  BY DEF TypeOK, Truths, Fork
<1>3. /\ truth' = [truth EXCEPT
             ![s] = [w \in Worlds |-> IF w \in path[s] \cap c THEN truth[s][w] ELSE NoBytes],
             ![n] = [w \in Worlds |-> IF w \in path[s] \ c THEN truth[s][w] ELSE NoBytes]]
      /\ path' = [path EXCEPT ![s] = @ \cap c, ![n] = path[s] \ c]
  BY DEF Fork
<1>4. ASSUME NEW x \in Live', NEW w \in path'[x], NEW a \in Addrs
      PROVE  TellsByte(Seen(mem'[x]), w, a, truth'[x][w][a])
  <2>1. x \in States /\ path'[x] \in SUBSET path[old[x]] /\ mem'[x] = mem[old[x]]
        /\ old[x] = (IF x = n THEN s ELSE x)
    BY <1>1 DEF IsFork, Live
  <2>2. old[x] \in Live /\ w \in path[old[x]] /\ w \in Worlds
    BY <1>1, <1>2, <1>4, <2>1 DEF Live
  <2>3. truth'[x][w] = truth[old[x]][w]
    BY <1>2, <1>3, <1>4, <2>1, <2>2 DEF Truths
  <2>4. TellsByte(Seen(mem[old[x]]), w, a, truth[old[x]][w][a])
    BY <2>2 DEF Tells
  <2> QED BY <2>1, <2>3, <2>4
<1>5. \A r, w, a : TellsByte(Seen(mem[r]), w, a, truth[r][w][a])'
                     <=> TellsByte(Seen(mem'[r]), w, a, truth'[r][w][a])
  BY DEF Seen, AllItems, IsPending, ImageItem, TellsByte, Hits
<1> QED BY <1>4, <1>5 DEF Tells

-----------------------------------------------------------------------------
(* Merges. *)

\* Loading keeps track of the bytes of the binary.
LEMMA LoadedImage ==
  ASSUME NEW m, NEW l, IsImageLoaded(m, l), HasImage(m)
  PROVE  HasImage(l)
<1>1. ASSUME NEW a \in Addrs
      PROVE  /\ l.conc[a] = <<>> => (IsPending(l, a) <=> Image[a] # Unknown)
             /\ \A p \in Range(l.conc[a]) : p.t = 0 => Image[a] # Unknown
  <2>1. IsLoadedAt(m, l, a)
    BY DEF IsImageLoaded
  <2>2. CASE l.conc[a] = m.conc[a]
    <3>1. <<ImageItem(a)>> # <<>>
      OBVIOUS
    <3> QED BY <2>1, <2>2, <3>1 DEF IsLoadedAt, HasImage
  <2>3. CASE IsPending(m, a) /\ l.conc[a] = <<ImageItem(a)>>
    <3>1. Image[a] # Unknown /\ l.conc[a] # <<>>
      BY <2>3 DEF HasImage, IsPending
    <3> QED BY <3>1
  <2> QED BY <2>1, <2>2, <2>3 DEF IsLoadedAt
<1> QED BY <1>1 DEF HasImage

\* _copy_symbolic_items_and_apply_guard guards every item of an entry.
LEMMA GuardAllHas ==
  ASSUME NEW entry \in Seq(Items), NEW c
  PROVE  /\ Range(GuardAll(entry, c)) = {Guarded(q, c) : q \in Range(entry)}
         /\ Len(GuardAll(entry, c)) = Len(entry)
<1>1. GuardAll(entry, c) = [i \in 1 .. Len(entry) |-> Guarded(entry[i], c)]
  BY DEF GuardAll, Guarded
<1>2. Len(entry) \in Nat /\ DOMAIN entry = 1 .. Len(entry)
  OBVIOUS
<1> QED BY <1>1, <1>2 DEF Range

\* Sides that differ are both kept, under their guards.
HasBoth(e, mine, other, c, d) ==
  /\ e = <<>> <=> mine = <<>> /\ other = <<>>
  /\ \/ mine = other /\ e = mine
     \/ Range(e) = {Guarded(q, c) : q \in Range(mine)} \cup {Guarded(q, d) : q \in Range(other)}

\* _merge_concrete_memory, where no byte of the binary is loaded on one side only.
LEMMA EntryHasBoth ==
  ASSUME NEW mine \in Seq(Items), NEW other \in Seq(Items),
         NEW c \in SUBSET Worlds, NEW d \in SUBSET Worlds,
         other = <<>> => \A p \in Range(mine) : p.t # 0,
         mine = <<>> => \A p \in Range(other) : p.t # 0
  PROVE  HasBoth(MergeEntry(mine, other, c, d), mine, other, c, d)
<1> DEFINE FromImage(x) == Len(x) = 1 /\ x[1].t = 0 /\ ~x[1].guard.on
<1>1. PICK e : e = MergeEntry(mine, other, c, d)
  OBVIOUS
<1>2. e = IF mine = other \/ (other = <<>> /\ FromImage(mine)) THEN mine
          ELSE IF mine = <<>> /\ FromImage(other) THEN other
          ELSE GuardAll(mine, c) \o GuardAll(other, d)
  BY <1>1 DEF MergeEntry
<1>3. ASSUME NEW x \in Seq(Items), FromImage(x) PROVE \E p \in Range(x) : p.t = 0
  <2>1. x[1] \in Range(x)
    BY <1>3 DEF Range
  <2> QED BY <1>3, <2>1
<1>4. CASE mine = other
  BY <1>1, <1>2, <1>4 DEF HasBoth
<1>5. CASE mine # other
  <2>1. ~(other = <<>> /\ FromImage(mine)) /\ ~(mine = <<>> /\ FromImage(other))
    BY <1>3
  <2> HIDE DEF FromImage
  <2>2. e = GuardAll(mine, c) \o GuardAll(other, d)
    BY <1>2, <1>5, <2>1
  <2>3. GuardAll(mine, c) \in Seq(Items) /\ GuardAll(other, d) \in Seq(Items)
    BY GuardAllIs
  <2>4. PICK f \in Seq(Items), g \in Seq(Items) : f = GuardAll(mine, c) /\ g = GuardAll(other, d)
    BY <2>3
  <2>5. /\ e = f \o g /\ e \in Seq(Items)
        /\ Range(e) = Range(f) \cup Range(g) /\ Len(e) = Len(f) + Len(g)
    BY <2>2, <2>4, ConcatProperties, RangeConcatenation
  <2>6. Len(f) = Len(mine) /\ Len(g) = Len(other)
        /\ Range(f) = {Guarded(q, c) : q \in Range(mine)}
        /\ Range(g) = {Guarded(q, d) : q \in Range(other)}
    BY <2>4, GuardAllHas
  <2>7. \A x \in Seq(Items) : x = <<>> <=> Len(x) = 0
    BY EmptySeq
  <2>8. e = <<>> <=> mine = <<>> /\ other = <<>>
    <3>1. Len(e) = 0 <=> Len(mine) = 0 /\ Len(other) = 0
      BY <2>5, <2>6
    <3> QED BY <2>5, <2>7, <3>1
  <2> QED BY <1>1, <2>5, <2>6, <2>8 DEF HasBoth
<1> QED BY <1>4, <1>5

\* In world w of path g the items of x are those of N, with or without a guard.
IsSideOf(x, N, g, w) ==
  /\ \A p \in Seen(x) : w \in p.guard.of => \E q \in Seen(N) : p = q \/ p = Guarded(q, g)
  /\ \A q \in Seen(N) : q \in Seen(x) \/ Guarded(q, g) \in Seen(x)

\* What a merged memory tells in a world of one side, that side told.
LEMMA SideTells ==
  ASSUME NEW x, NEW N, Seen(N) \subseteq Items, NEW g \in SUBSET Worlds, NEW w \in g, NEW y, NEW v,
         IsSideOf(x, N, g, w), TellsByte(Seen(N), w, y, v)
  PROVE  TellsByte(Seen(x), w, y, v)
<1>1. \A q \in Items : /\ Guarded(q, g).at = q.at /\ Guarded(q, g).t = q.t
                       /\ Guarded(q, g).val = q.val
                       /\ Guarded(q, g).guard.of = q.guard.of \cap g
  BY GuardedIs
<1>2. \A p \in Hits(Seen(x), w, y) : \E q \in Hits(Seen(N), w, y) : Twins(p, q)
  <2> SUFFICES ASSUME NEW p \in Hits(Seen(x), w, y)
               PROVE  \E q \in Hits(Seen(N), w, y) : Twins(p, q)
    OBVIOUS
  <2>1. p \in Seen(x) /\ p.at[w] = y /\ w \in p.guard.of
    BY DEF Hits
  <2>2. PICK q \in Seen(N) : p = q \/ p = Guarded(q, g)
    BY <2>1 DEF IsSideOf
  <2>3. q.at = p.at /\ q.t = p.t /\ q.val = p.val /\ w \in q.guard.of
    BY <1>1, <2>1, <2>2
  <2> QED BY <2>1, <2>2, <2>3 DEF Hits, Twins
<1>3. \A q \in Hits(Seen(N), w, y) : \E p \in Hits(Seen(x), w, y) : Twins(q, p)
  <2> SUFFICES ASSUME NEW q \in Hits(Seen(N), w, y)
               PROVE  \E p \in Hits(Seen(x), w, y) : Twins(q, p)
    OBVIOUS
  <2>1. q \in Seen(N) /\ q.at[w] = y /\ w \in q.guard.of
    BY DEF Hits
  <2>2. PICK p \in Seen(x) : p = q \/ p = Guarded(q, g)
    BY <2>1 DEF IsSideOf
  <2>3. q.at = p.at /\ q.t = p.t /\ q.val = p.val /\ w \in p.guard.of
    BY <1>1, <2>1, <2>2
  <2> QED BY <2>1, <2>2, <2>3 DEF Hits, Twins
<1>4. \A p, q : Twins(p, q) <=> Twins(q, p)
  BY DEF Twins
<1> QED BY <1>2, <1>3, <1>4, TwinsTell

\* _merge_symbolic_memory loses nothing: an older item stays, and a later one
\* comes with a guard.
LEMMA TreeHas ==
  ASSUME NEW x, NEW M, NEW O, NEW a, NEW c, NEW d, IsMerged(x, M, O, a, c, d)
  PROVE  /\ Older(M, a) \subseteq x.sym
         /\ \A f \in M.sym : Since(f.item, a) => \E h \in x.sym : h.item = Guarded(f.item, c)
         /\ \A f \in O.sym : Since(f.item, a) => \E h \in x.sym : h.item = Guarded(f.item, d)
<1>1. /\ M.sym \in SUBSET Files /\ O.sym \in SUBSET Files
      /\ c \in SUBSET Worlds /\ d \in SUBSET Worlds
      /\ x.sym = GuardSince(M.sym, a, c) \cup GuardSince({y \in O.sym : Since(y.item, a)}, a, d)
  BY MemoryType DEF IsMerged, MergeSymbolic, Files
<1>2. ASSUME NEW g \in Files, NEW b \in SUBSET Worlds
      PROVE  [g EXCEPT !.item.guard = And(@, b)].item = Guarded(g.item, b)
  <2>1. PICK i \in Items : i = g.item
    BY DEF Files
  <2>2. Guarded(i, b) = [i EXCEPT !.guard = And(i.guard, b)]
    BY DEF Guarded
  <2>3. [g EXCEPT !.item.guard = And(@, b)]
          = [g EXCEPT !.item = [i EXCEPT !.guard = And(i.guard, b)]]
    BY <2>1
  <2>4. \A j : [g EXCEPT !.item = j].item = j
    BY DEF Files
  <2> QED BY <2>1, <2>2, <2>3, <2>4
<1>3. ASSUME NEW S \in SUBSET Files, NEW b \in SUBSET Worlds
      PROVE  /\ {f \in S : ~Since(f.item, a)} \subseteq GuardSince(S, a, b)
             /\ \A f \in S : Since(f.item, a) =>
                  \E h \in GuardSince(S, a, b) : h.item = Guarded(f.item, b)
  <2>1. ASSUME NEW f \in S, Since(f.item, a)
        PROVE  \E h \in GuardSince(S, a, b) : h.item = Guarded(f.item, b)
    <3>1. PICK h : h = [f EXCEPT !.item.guard = And(@, b)]
      OBVIOUS
    <3>2. h \in GuardSince(S, a, b)
      BY <2>1, <3>1 DEF GuardSince
    <3>3. h.item = Guarded(f.item, b)
      BY <1>2, <3>1
    <3> QED BY <3>2, <3>3
  <2>2. ASSUME NEW f \in S, ~Since(f.item, a) PROVE f \in GuardSince(S, a, b)
    BY <2>2 DEF GuardSince
  <2> QED BY <2>1, <2>2
<1>4. Older(M, a) \subseteq x.sym
  BY <1>1, <1>3 DEF Older
<1>5. \A f \in M.sym : Since(f.item, a) => \E h \in x.sym : h.item = Guarded(f.item, c)
  BY <1>1, <1>3
<1>6. \A f \in O.sym : Since(f.item, a) => \E h \in x.sym : h.item = Guarded(f.item, d)
  <2>1. PICK S \in SUBSET Files : S = {y \in O.sym : Since(y.item, a)}
    BY <1>1
  <2>2. \A f \in S : \E h \in GuardSince(S, a, d) : h.item = Guarded(f.item, d)
    BY <1>1, <1>3, <2>1
  <2>3. GuardSince(S, a, d) \subseteq x.sym
    BY <1>1, <2>1
  <2> QED BY <2>1, <2>2, <2>3
<1> QED BY <1>4, <1>5, <1>6

\* The side of a merge that reaches a world, and its condition.
IsPart(N, g, M, O, c, d) == (N = M /\ g = c) \/ (N = O /\ g = d)

\* Sides merged with the same older items, and the same bytes of the binary still
\* to come.
AreAlike(M, O, a) ==
  /\ HasImage(M) /\ HasImage(O) /\ Older(M, a) = Older(O, a)
  /\ \A y \in Addrs : IsPending(M, y) <=> IsPending(O, y)

\* In a world of one side the merged memory has the items of that side.
LEMMA MergedSides ==
  ASSUME NEW x, NEW M, NEW O, NEW a, NEW c, NEW d, IsMerged(x, M, O, a, c, d), c \cap d = {},
         AreAlike(M, O, a), NEW N, NEW g, IsPart(N, g, M, O, c, d), NEW w \in g
  PROVE  IsSideOf(x, N, g, w)
<1>1. /\ M \in Memories /\ O \in Memories /\ N \in Memories /\ x \in Memories
      /\ c \in SUBSET Worlds /\ d \in SUBSET Worlds
      /\ x.conc = [y \in Addrs |-> MergeEntry(M.conc[y], O.conc[y], c, d)]
      /\ x.pending = M.pending
  BY MergedPlaced DEF IsMerged, IsPart
<1>2. \A q \in Items : \A b \in SUBSET Worlds : Guarded(q, b).guard.of \subseteq b
  BY GuardedIs
<1>3. ASSUME NEW y \in Addrs PROVE HasBoth(x.conc[y], M.conc[y], O.conc[y], c, d)
  <2>1. M.conc[y] \in Seq(Items) /\ O.conc[y] \in Seq(Items)
    BY <1>1, MemoryType
  <2>2. /\ O.conc[y] = <<>> => \A p \in Range(M.conc[y]) : p.t # 0
        /\ M.conc[y] = <<>> => \A p \in Range(O.conc[y]) : p.t # 0
    <3>1. \A p : p \notin Range(<<>>)
      BY DEF Range
    <3> QED BY <3>1 DEF AreAlike, HasImage, IsPending
  <2>3. HasBoth(MergeEntry(M.conc[y], O.conc[y], c, d), M.conc[y], O.conc[y], c, d)
    BY <1>1, <2>1, <2>2, EntryHasBoth
  <2> QED BY <1>1, <2>3
<1>4. ASSUME NEW y \in Addrs
      PROVE  /\ IsPending(x, y) <=> IsPending(N, y)
             /\ \A p \in Range(x.conc[y]) : w \in p.guard.of =>
                  \E q \in Range(N.conc[y]) : p = q \/ p = Guarded(q, g)
             /\ \A q \in Range(N.conc[y]) :
                  q \in Range(x.conc[y]) \/ Guarded(q, g) \in Range(x.conc[y])
  <2>1. PICK e, m, n : e = x.conc[y] /\ m = M.conc[y] /\ n = O.conc[y]
    OBVIOUS
  <2>2. HasBoth(e, m, n, c, d)
    BY <1>3, <2>1
  <2>3. IsPending(x, y) <=> IsPending(N, y)
    <3>1. IsPending(x, y) <=> m = <<>> /\ n = <<>> /\ \E i \in M.pending : Covers(i, y)
      BY <1>1, <2>1, <2>2 DEF IsPending, HasBoth
    <3>2. IsPending(M, y) <=> m = <<>> /\ \E i \in M.pending : Covers(i, y)
      BY <2>1 DEF IsPending
    <3>3. IsPending(O, y) => n = <<>>
      BY <2>1 DEF IsPending
    <3>4. IsPending(M, y) <=> IsPending(O, y)
      BY DEF AreAlike
    <3> QED BY <3>1, <3>2, <3>3, <3>4 DEF IsPart
  <2>4. /\ Range(m) \subseteq Items /\ Range(n) \subseteq Items
    BY <1>1, <2>1, MemoryType, RangeOfSeq
  <2>5. (N.conc[y] = m /\ g = c) \/ (N.conc[y] = n /\ g = d)
    BY <2>1 DEF IsPart
  <2>6. CASE m = n /\ e = m
    BY <2>1, <2>3, <2>5, <2>6
  <2>7. CASE Range(e) = {Guarded(q, c) : q \in Range(m)} \cup {Guarded(q, d) : q \in Range(n)}
    <3>1. ASSUME NEW p \in Range(e), w \in p.guard.of
          PROVE  \E q \in Range(N.conc[y]) : p = Guarded(q, g)
      <4>1. CASE \E q \in Range(m) : p = Guarded(q, c)
        <5>1. w \in c
          BY <1>1, <1>2, <2>4, <3>1, <4>1
        <5> QED BY <2>5, <4>1, <5>1
      <4>2. CASE \E q \in Range(n) : p = Guarded(q, d)
        <5>1. w \in d
          BY <1>1, <1>2, <2>4, <3>1, <4>2
        <5> QED BY <2>5, <4>2, <5>1
      <4> QED BY <2>7, <4>1, <4>2
    <3>2. \A q \in Range(N.conc[y]) : Guarded(q, g) \in Range(e)
      BY <2>5, <2>7
    <3> QED BY <2>1, <2>3, <3>1, <3>2
  <2> QED BY <2>2, <2>6, <2>7 DEF HasBoth
<1>5. ASSUME NEW f \in x.sym, w \in f.item.guard.of
      PROVE  \E h \in N.sym : f.item = h.item \/ f.item = Guarded(h.item, g)
  <2>1. FromTree(f, M, O, a, c, d)
    BY TreeIs
  <2>2. CASE f \in M.sym /\ ~Since(f.item, a)
    <3>1. f \in O.sym
      BY <2>2 DEF AreAlike, Older
    <3> QED BY <2>2, <3>1 DEF IsPart
  <2>3. CASE \E h \in M.sym : f.item = Guarded(h.item, c)
    <3>1. w \in c
      BY <1>1, <1>2, <1>5, <2>3, MemoryType
    <3> QED BY <2>3, <3>1 DEF IsPart
  <2>4. CASE \E h \in O.sym : f.item = Guarded(h.item, d)
    <3>1. w \in d
      BY <1>1, <1>2, <1>5, <2>4, MemoryType
    <3> QED BY <2>4, <3>1 DEF IsPart
  <2> QED BY <2>1, <2>2, <2>3, <2>4 DEF FromTree
<1>6. ASSUME NEW f \in N.sym
      PROVE  \E h \in x.sym : h.item = f.item \/ h.item = Guarded(f.item, g)
  <2>1. CASE ~Since(f.item, a)
    <3>1. f \in Older(M, a)
      BY <2>1 DEF AreAlike, Older, IsPart
    <3> QED BY <3>1, TreeHas
  <2>2. CASE Since(f.item, a)
    BY <2>2, TreeHas DEF IsPart
  <2> QED BY <2>1, <2>2
<1>7. ASSUME NEW p \in Seen(x), w \in p.guard.of
      PROVE  \E q \in Seen(N) : p = q \/ p = Guarded(q, g)
  <2>1. IsSeen(p, x)
    BY <1>1, SeenIs
  <2>2. \E q : IsSeen(q, N) /\ (p = q \/ p = Guarded(q, g))
    BY <1>4, <1>5, <1>7, <2>1 DEF IsSeen
  <2> QED BY <1>1, <2>2, SeenIs
<1>8. ASSUME NEW q \in Seen(N) PROVE q \in Seen(x) \/ Guarded(q, g) \in Seen(x)
  <2>1. IsSeen(q, N)
    BY <1>1, SeenIs
  <2>2. IsSeen(q, x) \/ IsSeen(Guarded(q, g), x)
    BY <1>4, <1>6, <2>1 DEF IsSeen
  <2> QED BY <1>1, <2>2, SeenIs
<1> QED BY <1>7, <1>8 DEF IsSideOf

\* Every world that reaches a merged state sees what its side saw.
LEMMA MergeKeepsTells ==
  ASSUME TypeOK, Tells, Imaged, Alike, ~GuardOnImage, NEW s \in States, NEW o \in States,
         Merge(s, o)
  PROVE  Tells'
<1>1. PICK M, O : /\ M = LoadPages(mem[s], Pending(mem[s]) \ Pending(mem[o]))
                  /\ O = LoadPages(mem[o], Pending(mem[o]) \ Pending(mem[s]))
                  /\ IsMerge(s, o, M, O)
  BY MergeIs
<1>2. PICK a, c, d, x : a = anc[s][o] /\ c = path[s] /\ d = path[o] /\ x = mem'[s]
  OBVIOUS
<1>3. /\ s # o /\ s \in Live /\ o \in Live /\ c \cap d = {}
      /\ mem[s] \in Memories /\ Placed(mem[s]) /\ mem[o] \in Memories /\ Placed(mem[o])
      /\ IsMerged(x, M, O, a, c, d)
      /\ path'[s] = c \cup d /\ path'[o] = {}
      /\ \A r \in States \ {s, o} : path'[r] = path[r] /\ mem'[r] = mem[r]
      /\ path \in [States -> SUBSET Worlds] /\ truth \in Truths
  BY <1>1, <1>2 DEF IsMerge, TypeOK, Truths
<1>4. IsImageLoaded(mem[s], M) /\ IsImageLoaded(mem[o], O)
  BY <1>1, <1>3, LoadedBytes
<1>5. /\ Seen(M) = Seen(mem[s]) /\ Seen(O) = Seen(mem[o])
      /\ HasImage(M) /\ HasImage(O) /\ M.sym = mem[s].sym /\ O.sym = mem[o].sym
  BY <1>3, <1>4, LoadedSeen, LoadedImage DEF Imaged, IsImageLoaded, IsLoaded
<1>6. \A y \in Addrs : IsPending(M, y) <=> IsPending(O, y)
  BY <1>1 DEF Merge
<1>7. AreAlike(M, O, a)
  <2>1. Older(M, a) = Older(O, a)
    BY <1>2, <1>3, <1>5 DEF Alike, Older
  <2> QED BY <1>5, <1>6, <2>1 DEF AreAlike
<1>8. /\ \A r \in States \ {s, o} : truth'[r] = truth[r]
      /\ \A w \in Worlds : truth'[s][w] = IF w \in d THEN truth[o][w] ELSE truth[s][w]
  BY <1>1, <1>2, <1>3 DEF IsMerge, Truths
<1>9. /\ Seen(M) \subseteq Items /\ Seen(O) \subseteq Items
      /\ c \in SUBSET Worlds /\ d \in SUBSET Worlds
  BY <1>2, <1>3, <1>5, SeenTimes
<1>10. ASSUME NEW w \in c \cup d, NEW y \in Addrs
       PROVE  TellsByte(Seen(x), w, y, truth'[s][w][y])
  <2>1. CASE w \in c
    <3>1. TellsByte(Seen(M), w, y, truth[s][w][y])
      BY <1>2, <1>3, <1>5, <2>1 DEF Tells
    <3>2. IsSideOf(x, M, c, w)
      BY <1>3, <1>7, <2>1, MergedSides DEF IsPart
    <3>3. truth'[s][w] = truth[s][w]
      BY <1>3, <1>8, <1>9, <2>1
    <3> QED BY <1>9, <2>1, <3>1, <3>2, <3>3, SideTells
  <2>2. CASE w \in d
    <3>1. TellsByte(Seen(O), w, y, truth[o][w][y])
      BY <1>2, <1>3, <1>5, <2>2 DEF Tells
    <3>2. IsSideOf(x, O, d, w)
      BY <1>3, <1>7, <2>2, MergedSides DEF IsPart
    <3>3. truth'[s][w] = truth[o][w]
      BY <1>3, <1>8, <1>9, <2>2
    <3> QED BY <1>9, <2>2, <3>1, <3>2, <3>3, SideTells
  <2> QED BY <2>1, <2>2
<1>11. ASSUME NEW r \in Live', NEW w \in path'[r], NEW y \in Addrs
       PROVE  TellsByte(Seen(mem'[r]), w, y, truth'[r][w][y])
  <2>1. r \in States /\ r # o
    BY <1>3, <1>11 DEF Live
  <2>2. CASE r = s
    BY <1>2, <1>3, <1>10, <1>11, <2>2
  <2>3. CASE r # s
    BY <1>3, <1>8, <1>11, <2>1, <2>3 DEF Tells, Live
  <2> QED BY <2>2, <2>3
<1>12. \A r, w, y : TellsByte(Seen(mem[r]), w, y, truth[r][w][y])'
                      <=> TellsByte(Seen(mem'[r]), w, y, truth'[r][w][y])
  BY DEF Seen, AllItems, IsPending, ImageItem, TellsByte, Hits
<1> QED BY <1>11, <1>12 DEF Tells

-----------------------------------------------------------------------------
(* The bytes of the binary are kept track of. *)

\* Only the concrete memory and the chunks matter.
LEMMA SameImage ==
  ASSUME NEW m, NEW n, n.conc = m.conc, n.pending = m.pending, HasImage(m)
  PROVE  HasImage(n)
  BY DEF HasImage, IsPending

\* At first all bytes of the binary are to come.
LEMMA EmptyImage == HasImage(EmptyMemory)
<1>1. \A a \in Addrs : EmptyMemory.conc[a] = <<>>
  BY DEF EmptyMemory
<1>2. Range(<<>>) = {}
  BY DEF Range
<1> QED BY <1>1, <1>2, ImageInChunk DEF HasImage, IsPending

\* A step that changes one state.
LEMMA UpdateKeepsImaged ==
  ASSUME Imaged, NEW s \in States, mem' = [mem EXCEPT ![s] = mem'[s]], HasImage(mem'[s]),
         mem \in [States -> Memories]
  PROVE  Imaged'
<1>1. ASSUME NEW r \in States PROVE HasImage(mem'[r])
  BY DEF Imaged
<1>2. \A r : HasImage(mem[r])' <=> HasImage(mem'[r])
  BY DEF HasImage, IsPending
<1> QED BY <1>1, <1>2 DEF Imaged

\* The bytes of a store are not of the binary, and leave an entry.
LEMMA StoredImage ==
  ASSUME NEW m \in Memories, HasImage(m), NEW b, NEW new,
         \A k \in DOMAIN new : new[k].item \in Items /\ new[k].item.t # 0,
         NEW n \in StoreBytes(m, b, new)
  PROVE  HasImage(n)
<1>1. CASE b.int
  <2> DEFINE conc == [x \in Addrs |->
               IF x - b.lo \in DOMAIN new THEN Put(m.conc[x], new[x - b.lo].item) ELSE m.conc[x]]
  <2>1. n = [m EXCEPT !.conc = conc]
    BY <1>1 DEF StoreBytes
  <2>2. \A x \in Addrs : conc[x] = IF x - b.lo \in DOMAIN new
                                    THEN Put(m.conc[x], new[x - b.lo].item) ELSE m.conc[x]
    OBVIOUS
  <2> HIDE DEF conc
  <2>3. n.conc = conc /\ n.pending = m.pending
    BY <2>1 DEF Memories
  <2>4. ASSUME NEW x \in Addrs
        PROVE  /\ n.conc[x] = <<>> => (IsPending(n, x) <=> Image[x] # Unknown)
               /\ \A p \in Range(n.conc[x]) : p.t = 0 => Image[x] # Unknown
    <3>1. CASE x - b.lo \in DOMAIN new
      <4>1. PICK p, old : p = new[x - b.lo].item /\ old = m.conc[x]
        OBVIOUS
      <4>2. p \in Items /\ p.t # 0 /\ old \in Seq(Items)
        BY <3>1, <4>1, MemoryType
      <4>3. n.conc[x] = Put(old, p)
        BY <2>2, <2>3, <3>1, <4>1
      <4>4. Put(old, p) # <<>> /\ Range(Put(old, p)) \subseteq {p} \cup Range(old)
        BY <4>2, PutHas, PutIs
      <4> QED BY <4>1, <4>2, <4>3, <4>4 DEF HasImage
    <3>2. CASE x - b.lo \notin DOMAIN new
      BY <2>2, <2>3, <3>2 DEF HasImage, IsPending
    <3> QED BY <3>1, <3>2
  <2> QED BY <2>4 DEF HasImage
<1>2. CASE ~b.int
  <2>1. n.conc = m.conc /\ n.pending = m.pending
    <3>1. PICK sym : n = [m EXCEPT !.sym = sym]
      BY <1>2 DEF StoreBytes
    <3> QED BY <3>1 DEF Memories
  <2> QED BY <2>1, SameImage
<1> QED BY <1>1, <1>2

\* An entry made of both sides has an item of the binary only from one of them.
LEMMA MergedImage ==
  ASSUME NEW x, NEW M, NEW O, NEW a, NEW c, NEW d, IsMerged(x, M, O, a, c, d),
         HasImage(M), HasImage(O), \A y \in Addrs : IsPending(M, y) <=> IsPending(O, y)
  PROVE  HasImage(x)
<1>1. /\ M \in Memories /\ O \in Memories /\ c \in SUBSET Worlds /\ d \in SUBSET Worlds
      /\ x.conc = [y \in Addrs |-> MergeEntry(M.conc[y], O.conc[y], c, d)]
      /\ x.pending = M.pending
  BY DEF IsMerged
<1>2. ASSUME NEW y \in Addrs
      PROVE  /\ x.conc[y] = <<>> => (IsPending(x, y) <=> Image[y] # Unknown)
             /\ \A p \in Range(x.conc[y]) : p.t = 0 => Image[y] # Unknown
  <2>1. PICK e, m, n : e = x.conc[y] /\ m = M.conc[y] /\ n = O.conc[y]
    OBVIOUS
  <2>2. m \in Seq(Items) /\ n \in Seq(Items)
    BY <1>1, <2>1, MemoryType
  <2>3. /\ \A p \in Range(m) : p.t = 0 => Image[y] # Unknown
        /\ \A p \in Range(n) : p.t = 0 => Image[y] # Unknown
        /\ m = <<>> => (IsPending(M, y) <=> Image[y] # Unknown)
        /\ n = <<>> => (IsPending(O, y) <=> Image[y] # Unknown)
    BY <2>1 DEF HasImage
  <2>4. /\ n = <<>> => \A p \in Range(m) : p.t # 0
        /\ m = <<>> => \A p \in Range(n) : p.t # 0
    <3>1. \A p : p \notin Range(<<>>)
      BY DEF Range
    <3>2. (IsPending(M, y) => m = <<>>) /\ (IsPending(O, y) => n = <<>>)
      BY <2>1 DEF IsPending
    <3> QED BY <2>3, <3>1, <3>2
  <2>5. HasBoth(e, m, n, c, d)
    BY <1>1, <2>1, <2>2, <2>4, EntryHasBoth
  <2>6. \A p \in Range(e) : p.t = 0 => Image[y] # Unknown
    <3>1. Range(m) \subseteq Items /\ Range(n) \subseteq Items
      BY <2>2, RangeOfSeq
    <3>2. \A q \in Items : Guarded(q, c).t = q.t /\ Guarded(q, d).t = q.t
      BY <1>1, GuardedIs
    <3> QED BY <2>3, <2>5, <3>1, <3>2 DEF HasBoth
  <2>7. e = <<>> => (IsPending(x, y) <=> IsPending(M, y)) /\ m = <<>>
    BY <1>1, <2>1, <2>5 DEF HasBoth, IsPending
  <2> QED BY <2>1, <2>3, <2>6, <2>7
<1> QED BY <1>2 DEF HasImage

\* Loads, questions for an item, stores, forks and merges keep track of the
\* bytes of the binary.
LEMMA KeepsImaged ==
  ASSUME TypeOK, Imaged, ~GuardOnImage, Next
  PROVE  Imaged'
<1>1. mem \in [States -> Memories] /\ made \in Nat
  BY DEF TypeOK
<1>2. ASSUME NEW s \in Live, NEW e \in AddrExprs, NEW size \in LoadSizes, Load(s, e, size)
      PROVE  Imaged'
  <2>1. PICK n, b, l, D : IsLoad(s, e, n, b, l, D)
    BY <1>2, LoadIs
  <2>2. /\ s \in States /\ mem' = [mem EXCEPT ![s] = mem'[s]] /\ mem[s] \in Memories
        /\ \E a, i : l = LoadInitData(mem[s], a, i)
    BY <2>1 DEF IsLoad
  <2>3. mem'[s].conc = l.conc /\ mem'[s].pending = l.pending
    BY <1>1, <2>1, LoadedMemory
  <2>4. /\ s \in States /\ mem' = [mem EXCEPT ![s] = mem'[s]]
        /\ IsImageLoaded(mem[s], l) /\ mem'[s].conc = l.conc /\ mem'[s].pending = l.pending
    BY <2>2, <2>3, LoadedBytes
  <2>5. HasImage(mem'[s])
    BY <2>4, LoadedImage, SameImage DEF Imaged
  <2> QED BY <1>1, <2>4, <2>5, UpdateKeepsImaged
<1>3. ASSUME NEW s \in Live, NEW a \in Addrs, HasItem(s, a)
      PROVE  Imaged'
  <2>1. s \in States /\ mem' = [mem EXCEPT ![s] = LoadInitData(mem[s], a, 1)]
    BY <1>3 DEF HasItem, Live
  <2>2. mem'[s] = LoadInitData(mem[s], a, 1)
    BY <1>1, <2>1
  <2>3. HasImage(mem'[s])
    BY <1>1, <2>1, <2>2, LoadedBytes, LoadedImage DEF Imaged
  <2> QED BY <1>1, <2>1, <2>2, <2>3, UpdateKeepsImaged
<1>4. ASSUME NEW s \in Live, NEW e \in AddrExprs, NEW data \in Payloads, NEW size \in SizeExprs,
             NEW cond \in {NoGuard} \cup {Guard(c) : c \in Conditions},
             Store(s, e, data, size, cond)
      PROVE  Imaged'
  <2>1. PICK b, new, t : b = Bounds(e, path[s]) /\ new = NewBytes(s, e, data, size, cond)
                         /\ t = mem[s].time + 1
    OBVIOUS
  <2>2. /\ s \in States /\ mem[s] \in Memories /\ Placed(mem[s])
        /\ \A k \in DOMAIN new : IsByte(new[k], b, k, t)
        /\ mem'[s] \in StoreBytes(Ticked(mem[s]), b, new)
        /\ mem' = [mem EXCEPT ![s] = mem'[s]]
    BY <1>4, <2>1, StoreIs
  <2>3. /\ Ticked(mem[s]) \in Memories /\ Ticked(mem[s]).conc = mem[s].conc
        /\ Ticked(mem[s]).pending = mem[s].pending
    BY <2>2, TickedIs
  <2>4. t # 0
    BY <2>1, <2>2, MemoryType
  <2>5. \A k \in DOMAIN new : new[k].item \in Items /\ new[k].item.t # 0
    BY <2>2, <2>4 DEF IsByte, Files
  <2>6. PICK m : m = Ticked(mem[s])
    OBVIOUS
  <2>7. HasImage(m)
    BY <2>2, <2>3, <2>6, SameImage DEF Imaged
  <2>8. HasImage(mem'[s])
    BY <2>2, <2>3, <2>5, <2>6, <2>7, StoredImage
  <2> QED BY <1>1, <2>2, <2>8, UpdateKeepsImaged
<1>5. ASSUME NEW s \in States, NEW n \in States, NEW c \in SUBSET Worlds, Fork(s, n, c)
      PROVE  Imaged'
  <2>1. mem' = [mem EXCEPT ![n] = mem[s]]
    BY <1>5 DEF Fork
  <2>2. mem'[n] = mem[s]
    BY <1>1, <2>1
  <2> QED BY <1>1, <1>5, <2>1, <2>2, UpdateKeepsImaged DEF Imaged
<1>6. ASSUME NEW s \in States, NEW o \in States, Merge(s, o)
      PROVE  Imaged'
  <2>1. PICK M, O : /\ M = LoadPages(mem[s], Pending(mem[s]) \ Pending(mem[o]))
                    /\ O = LoadPages(mem[o], Pending(mem[o]) \ Pending(mem[s]))
                    /\ IsMerge(s, o, M, O)
    BY <1>6, MergeIs
  <2>2. /\ HasImage(M) /\ HasImage(O)
    BY <1>1, <2>1, LoadedBytes, LoadedImage DEF Imaged
  <2>3. \A y \in Addrs : IsPending(M, y) <=> IsPending(O, y)
    BY <1>6, <2>1 DEF Merge
  <2>4. PICK x, a, c, d : IsMerged(x, M, O, a, c, d) /\ x = mem'[s]
    BY <2>1 DEF IsMerge
  <2>5. HasImage(x)
    BY <2>2, <2>3, <2>4, MergedImage
  <2>6. \A r \in States : HasImage(mem'[r])
    <3>1. mem'[o] = EmptyMemory /\ \A r \in States \ {s, o} : mem'[r] = mem[r]
      BY <2>1 DEF IsMerge
    <3> QED BY <2>4, <2>5, <3>1, EmptyImage DEF Imaged
  <2>7. \A r : HasImage(mem[r])' <=> HasImage(mem'[r])
    BY DEF HasImage, IsPending
  <2> QED BY <2>6, <2>7 DEF Imaged
<1> QED BY <1>2, <1>3, <1>4, <1>5, <1>6 DEF Next

-----------------------------------------------------------------------------
(* How the histories part. *)

\* Ancestors of states are pairs of timestamps, in order.
LEMMA AgesAre ==
  ASSUME TypeOK
  PROVE  /\ \A x, y \in States : anc[x][y].time \in Int /\ anc[x][y].implicit \in Int
         /\ \A x, y \in States : NoLater(anc[x][y], anc[x][y])
<1>1. \A x, y \in States : anc[x][y] \in [time : Int, implicit : Int]
  BY DEF TypeOK
<1>2. \A a \in [time : Int, implicit : Int] : a.time \in Int /\ a.implicit \in Int
  OBVIOUS
<1> QED BY <1>1, <1>2 DEF NoLater

\* A fork parts from its other side no earlier than from any other state.
LEMMA ForkKeepsNested ==
  ASSUME TypeOK, Ancestry, Nested, NEW s \in States, NEW n \in States, NEW c \in SUBSET Worlds,
         Fork(s, n, c)
  PROVE  Nested'
<1>1. PICK old : IsFork(s, n, old)
  BY ForkIs
<1>2. PICK ages \in Ages(s) : \A x, z \in States :
        anc'[x][z] = IF {x, z} \subseteq {s, n} THEN ages ELSE anc[old[x]][old[z]]
  BY <1>1 DEF IsFork
<1>3. /\ s \in Live /\ \A x \in States : old[x] = IF x = n THEN s ELSE x
      /\ \A x \in Live' : x \in States /\ old[x] \in Live
  BY <1>1 DEF IsFork, Live
<1>4. ages.time \in Int /\ ages.implicit \in Int /\ NoLater(anc[s][s], ages)
  <2>1. ages.time \in anc[s][s].time .. mem[s].time
        /\ ages.implicit \in mem[s].implicit .. anc[s][s].implicit
    BY DEF Ages
  <2>2. /\ anc[s][s].time \in Int /\ anc[s][s].implicit \in Int
        /\ mem[s].time \in Int /\ mem[s].implicit \in Int
    BY AgesAre, MemoryType DEF TypeOK
  <2> QED BY <2>1, <2>2 DEF NoLater
<1>5. ASSUME NEW z \in Live PROVE NoLater(anc[s][z], ages)
  <2>1. NoLater(anc[s][z], anc[s][s])
    BY <1>3 DEF Nested
  <2>2. /\ anc[s][s].time \in Int /\ anc[s][s].implicit \in Int
        /\ anc[s][z].time \in Int /\ anc[s][z].implicit \in Int
    BY AgesAre DEF Live
  <2> QED BY <1>4, <2>1, <2>2 DEF NoLater
<1>6. ASSUME NEW x \in Live', NEW y \in Live', NEW z \in Live'
      PROVE  NoLater(anc'[x][z], anc'[x][y]) \/ NoLater(anc'[y][z], anc'[x][y])
  <2>1. /\ x \in States /\ y \in States /\ z \in States
        /\ old[x] \in Live /\ old[y] \in Live /\ old[z] \in Live
    BY <1>3
  <2>2. \A a, b \in States : anc[a][b] = anc[b][a] /\ NoLater(anc[a][b], anc[a][b])
    BY AgesAre DEF Ancestry
  <2>3. CASE {x, y} \subseteq {s, n}
    <3>1. anc'[x][y] = ages
      BY <1>2, <2>1, <2>3
    <3>2. CASE z \in {s, n}
      <4>1. anc'[x][z] = ages
        BY <1>2, <2>1, <2>3, <3>2
      <4> QED BY <1>4, <3>1, <4>1 DEF NoLater
    <3>3. CASE z \notin {s, n}
      <4>1. anc'[x][z] = anc[s][z] /\ z \in Live
        BY <1>2, <1>3, <2>1, <2>3, <3>3
      <4> QED BY <1>5, <3>1, <4>1
    <3> QED BY <3>2, <3>3
  <2>4. CASE ~({x, y} \subseteq {s, n}) /\ {x, z} \subseteq {s, n}
    <3>1. anc'[x][y] = anc[s][y] /\ anc'[y][z] = anc[y][s] /\ y \in States
      BY <1>2, <1>3, <2>1, <2>4
    <3> QED BY <2>2, <3>1
  <2>5. CASE ~({x, y} \subseteq {s, n}) /\ {y, z} \subseteq {s, n}
    <3>1. anc'[x][y] = anc[x][s] /\ anc'[x][z] = anc[x][s]
      BY <1>2, <1>3, <2>1, <2>5
    <3> QED BY <2>1, <2>2, <3>1
  <2>6. CASE /\ ~({x, y} \subseteq {s, n}) /\ ~({x, z} \subseteq {s, n})
             /\ ~({y, z} \subseteq {s, n})
    <3>1. /\ anc'[x][y] = anc[old[x]][old[y]] /\ anc'[x][z] = anc[old[x]][old[z]]
          /\ anc'[y][z] = anc[old[y]][old[z]]
      BY <1>2, <2>1, <2>6
    <3> QED BY <2>1, <3>1 DEF Nested
  <2> QED BY <2>3, <2>4, <2>5, <2>6
<1>7. \A a, b : NoLater(a, b)' <=> NoLater(a, b)
  BY DEF NoLater
<1> QED BY <1>6 DEF Nested, NoLater

\* A merged state starts anew, later than it parted from any other.
LEMMA MergeKeepsNested ==
  ASSUME TypeOK, Ancestry, Ancestry', Nested, NEW s \in States, NEW o \in States, Merge(s, o)
  PROVE  Nested'
<1>1. PICK M, O : IsMerge(s, o, M, O)
  BY MergeIs
<1>2. /\ s # o /\ \A x \in Live' : x \in Live /\ x # o /\ x \in States
      /\ \A x, z \in States : anc'[x][z] =
           IF o \in {x, z} THEN [time |-> 0, implicit |-> 0]
           ELSE IF x = s /\ z = s THEN [time |-> mem'[s].time, implicit |-> mem'[s].implicit]
           ELSE anc[x][z]
  <2>1. /\ s # o /\ s \in Live /\ path'[o] = {}
        /\ \A r \in States \ {s, o} : path'[r] = path[r]
        /\ \A r, z \in States : anc'[r][z] =
             IF o \in {r, z} THEN [time |-> 0, implicit |-> 0]
             ELSE IF r = s /\ z = s THEN [time |-> mem'[s].time, implicit |-> mem'[s].implicit]
             ELSE anc[r][z]
    BY <1>1 DEF IsMerge
  <2> QED BY <2>1 DEF Live
<1>3. ASSUME NEW x \in Live', NEW y \in Live', NEW z \in Live'
      PROVE  NoLater(anc'[x][z], anc'[x][y]) \/ NoLater(anc'[y][z], anc'[x][y])
  <2>1. /\ x \in Live /\ y \in Live /\ z \in Live
        /\ x \in States /\ y \in States /\ z \in States /\ o \notin {x, y, z}
    BY <1>2
  <2>2. \A a, b \in States : anc[a][b] = anc[b][a] /\ NoLater(anc[a][b], anc[a][b])
    BY AgesAre DEF Ancestry
  <2>3. CASE x = s /\ y = s
    <3>1. PICK t, i : t = mem'[s].time /\ i = mem'[s].implicit
      OBVIOUS
    <3>2. anc'[x][y].time = t /\ anc'[x][y].implicit = i
      BY <1>2, <2>1, <2>3, <3>1
    <3>3. anc'[x][z].time \in 0 .. t /\ anc'[x][z].implicit \in i .. 0
      BY <2>1, <2>3, <3>1 DEF Ancestry
    <3>4. t \in Int /\ i \in Int
      <4>1. anc'[s][s].time = t /\ anc'[s][s].implicit = i
        BY <2>3, <3>2
      <4>2. IsMerged(mem'[s], M, O, anc[s][o], path[s], path[o])
        BY <1>1 DEF IsMerge
      <4>3. mem'[s] \in Memories
        BY <4>2, MergedPlaced
      <4> QED BY <3>1, <4>3, MemoryType
    <3> QED BY <3>2, <3>3, <3>4 DEF NoLater
  <2>4. CASE ~(x = s /\ y = s) /\ x = s /\ z = s
    <3>1. anc'[x][y] = anc[s][y] /\ anc'[y][z] = anc[y][s]
      BY <1>2, <2>1, <2>4
    <3> QED BY <2>1, <2>2, <3>1
  <2>5. CASE ~(x = s /\ y = s) /\ y = s /\ z = s
    <3>1. anc'[x][y] = anc[x][s] /\ anc'[x][z] = anc[x][s]
      BY <1>2, <2>1, <2>5
    <3> QED BY <2>1, <2>2, <3>1
  <2>6. CASE ~(x = s /\ y = s) /\ ~(x = s /\ z = s) /\ ~(y = s /\ z = s)
    <3>1. anc'[x][y] = anc[x][y] /\ anc'[x][z] = anc[x][z] /\ anc'[y][z] = anc[y][z]
      BY <1>2, <2>1, <2>6
    <3> QED BY <2>1, <3>1 DEF Nested
  <2> QED BY <2>3, <2>4, <2>5, <2>6
<1> QED BY <1>3 DEF Nested, NoLater

\* The histories of states that go on part where they did.
LEMMA KeepsNested ==
  ASSUME TypeOK, Ancestry, Ancestry', Nested, Next
  PROVE  Nested'
<1>1. ASSUME anc' = anc, \A x \in Live' : x \in Live PROVE Nested'
  BY <1>1 DEF Nested, NoLater
<1>2. ASSUME NEW s \in Live, NEW e \in AddrExprs, NEW size \in LoadSizes, Load(s, e, size)
      PROVE  Nested'
  <2>1. PICK n, b, l, D : IsLoad(s, e, n, b, l, D)
    BY <1>2, LoadIs
  <2>2. anc' = anc /\ path' = [path EXCEPT ![s] = path'[s]] /\ path'[s] \in SUBSET path[s]
    BY <2>1 DEF IsLoad
  <2>3. \A x \in Live' : x \in Live
    BY <2>2 DEF Live, TypeOK
  <2> QED BY <1>1, <2>2, <2>3
<1>3. ASSUME NEW s \in Live, NEW a \in Addrs, HasItem(s, a)
      PROVE  Nested'
  BY <1>1, <1>3 DEF HasItem, Live
<1>4. ASSUME NEW s \in Live, NEW e \in AddrExprs, NEW data \in Payloads, NEW size \in SizeExprs,
             NEW cond \in {NoGuard} \cup {Guard(c) : c \in Conditions},
             Store(s, e, data, size, cond)
      PROVE  Nested'
  BY <1>1, <1>4 DEF Store, Live
<1> QED BY <1>2, <1>3, <1>4, ForkKeepsNested, MergeKeepsNested DEF Next

-----------------------------------------------------------------------------
(* What states have in common stays the same. *)

\* A step that adds new items to the tree of one state.
LEMMA UpdateKeepsAlike ==
  ASSUME TypeOK, Ancestry, Alike, NEW s \in States, NEW l \in Memories,
         l.time = mem[s].time, l.implicit = mem[s].implicit,
         path' = [path EXCEPT ![s] = path'[s]], path'[s] \in SUBSET path[s],
         mem' = [mem EXCEPT ![s] = mem'[s]], anc' = anc,
         NEW New, \A x \in New : IsNew(x.item, l), mem'[s].sym \ New = mem[s].sym \ New
  PROVE  Alike'
<1>1. path \in [States -> SUBSET Worlds] /\ mem \in [States -> Memories]
  BY DEF TypeOK
<1>2. \A r \in States : path'[r] \in SUBSET path[r] /\ (r # s => mem'[r] = mem[r])
  BY <1>1
<1>3. \A r \in Live' : r \in Live /\ r \in States
  BY <1>2 DEF Live
<1>4. ASSUME NEW r \in States, NEW o \in States
      PROVE  Older(mem'[r], anc[r][o]) = Older(mem[r], anc[r][o])
  <2>1. CASE r # s
    BY <1>2, <2>1
  <2>2. CASE r = s
    <3>1. PICK a \in [time : Int, implicit : Int] : a = anc[s][o]
      BY DEF TypeOK
    <3>2. a.time \in 0 .. l.time /\ a.implicit \in l.implicit .. 0
      BY <3>1 DEF Ancestry
    <3>3. l.time \in Int /\ l.implicit \in Int
      BY MemoryType
    <3>4. a.time <= l.time /\ a.implicit >= l.implicit
      BY <3>2, <3>3
    <3>5. \A x \in New : Since(x.item, a)
      BY <3>4, NewIsSince
    <3> QED BY <2>2, <3>1, <3>5 DEF Older
  <2> QED BY <2>1, <2>2
<1>5. ASSUME NEW r \in Live', NEW o \in Live'
      PROVE  Older(mem'[r], anc'[r][o]) = Older(mem'[o], anc'[r][o])
  <2>1. r \in Live /\ o \in Live /\ r \in States /\ o \in States
    BY <1>3
  <2>2. anc[r][o] = anc[o][r] /\ Older(mem[r], anc[r][o]) = Older(mem[o], anc[r][o])
    BY <2>1 DEF Alike, Ancestry
  <2> QED BY <1>4, <2>1, <2>2
<1> QED BY <1>5 DEF Alike, Older, Since

\* load() adds symbols later than all that states have in common.
LEMMA LoadKeepsAlike ==
  ASSUME TypeOK, Ancestry, Alike, NEW s \in Live, NEW e \in AddrExprs,
         NEW size \in LoadSizes, Load(s, e, size)
  PROVE  Alike'
<1>1. PICK n, b, l, D : IsLoad(s, e, n, b, l, D)
  BY LoadIs
<1>2. made \in Nat
  BY DEF TypeOK
<1>3. PICK New : New = {NewSymbol(l, b, D, k) : k \in D}
  OBVIOUS
<1>4. /\ l \in Memories /\ l.implicit = mem[s].implicit /\ l.time = mem[s].time
      /\ \A k \in D : /\ RankIn(D, k) \in 1 .. Cardinality(D) /\ Cardinality(D) \in Nat
                      /\ IsByte(NewSymbol(l, b, D, k), b, k, l.implicit - RankIn(D, k))
  BY <1>1, <1>2, SymbolsAre
<1>5. /\ s \in States /\ path' = [path EXCEPT ![s] = path'[s]] /\ path'[s] \in SUBSET path[s]
      /\ mem' = [mem EXCEPT ![s] = mem'[s]] /\ anc' = anc /\ l.sym = mem[s].sym
  BY <1>1 DEF IsLoad, IsLoaded
<1>6. mem'[s].sym = mem[s].sym \cup New
  BY <1>1, <1>2, <1>3, <1>5, LoadedMemory
<1>7. ASSUME NEW k \in D PROVE IsNew(NewSymbol(l, b, D, k).item, l)
  <2>1. PICK r \in Nat \ {0} : r = RankIn(D, k)
    BY <1>4
  <2>2. NewSymbol(l, b, D, k).item.t = l.implicit - r
    BY <1>4, <2>1 DEF IsByte
  <2>3. l.implicit \in Int
    BY <1>4, MemoryType
  <2> QED BY <2>2, <2>3 DEF IsNew
<1>8. \A x \in New : IsNew(x.item, l)
  BY <1>3, <1>7
<1>9. mem'[s].sym \ New = mem[s].sym \ New
  BY <1>6
<1> QED BY <1>4, <1>5, <1>8, <1>9, UpdateKeepsAlike

\* __contains__ files nothing in the tree.
LEMMA HasItemKeepsAlike ==
  ASSUME TypeOK, Ancestry, Alike, NEW s \in Live, NEW a \in Addrs, HasItem(s, a)
  PROVE  Alike'
<1>1. /\ s \in States /\ mem \in [States -> Memories] /\ mem[s] \in Memories
      /\ path \in [States -> SUBSET Worlds]
  BY DEF Live, TypeOK
<1>2. /\ mem' = [mem EXCEPT ![s] = LoadInitData(mem[s], a, 1)]
      /\ path' = path /\ anc' = anc
  BY DEF HasItem
<1>3. mem'[s] = LoadInitData(mem[s], a, 1)
  BY <1>1, <1>2
<1>4. mem'[s].sym = mem[s].sym
  BY <1>1, <1>3, LoadedFrom DEF IsLoaded
<1>5. PICK New : New = {}
  OBVIOUS
<1>6. /\ path' = [path EXCEPT ![s] = path'[s]] /\ path'[s] \in SUBSET path[s]
      /\ mem' = [mem EXCEPT ![s] = mem'[s]]
      /\ mem'[s].sym \ New = mem[s].sym \ New /\ \A x \in New : IsNew(x.item, mem[s])
  BY <1>1, <1>2, <1>3, <1>4, <1>5
<1> QED BY <1>1, <1>2, <1>6, UpdateKeepsAlike

\* Where no symbolic address is stored to twice unguarded, a store takes no item
\* over and adds later ones.
LEMMA StoreKeepsAlike ==
  ASSUME TypeOK, Ancestry, Alike, ~StoreAgain,
         NEW s \in Live, NEW e \in AddrExprs, NEW data \in Payloads, NEW size \in SizeExprs,
         NEW cond \in {NoGuard} \cup {Guard(c) : c \in Conditions},
         Store(s, e, data, size, cond)
  PROVE  Alike'
<1>1. PICK b, new, m, t : /\ b = Bounds(e, path[s]) /\ new = NewBytes(s, e, data, size, cond)
                          /\ m = Ticked(mem[s]) /\ t = mem[s].time + 1
  OBVIOUS
<1>2. /\ s \in States /\ mem[s] \in Memories /\ Placed(mem[s])
      /\ DOMAIN new = 0 .. Len(data) - 1
      /\ \A k \in DOMAIN new : /\ IsByte(new[k], b, k, t)
                               /\ new[k].item.guard = ByteGuard(cond, size, path[s], k)
      /\ mem'[s] \in StoreBytes(m, b, new)
      /\ IsStored(m, b, new, mem'[s])
      /\ mem' = [mem EXCEPT ![s] = mem'[s]] /\ path' = path /\ anc' = anc
  BY <1>1, StoreIs
<1>3. path \in [States -> SUBSET Worlds] /\ cond \in Guards
  BY GuardsAre DEF TypeOK
<1>4. m \in Memories /\ m.sym = mem[s].sym
  BY <1>1, <1>2, TickedIs
<1>5. PICK New : New = {new[k] : k \in DOMAIN new}
  OBVIOUS
<1>6. \A x \in New : IsNew(x.item, mem[s])
  <2>1. mem[s].time \in Int
    BY <1>2, MemoryType
  <2>2. t \in Int /\ t > mem[s].time
    BY <1>1, <2>1
  <2> QED BY <1>2, <1>5, <2>2 DEF IsNew, IsByte
<1>7. mem'[s].sym \ New = mem[s].sym \ New
  <2>1. CASE b.int
    BY <1>2, <1>4, <2>1 DEF IsStored
  <2>2. CASE ~b.int
    <3>1. PICK place \in [DOMAIN new -> m.sym \cup Range(new)] :
            /\ \A k \in DOMAIN new : place[k] \in Places(m.sym, new[k])
            /\ mem'[s] = [m EXCEPT !.sym = (@ \ Range(place))
                            \cup {[place[k] EXCEPT !.item = new[k].item] : k \in DOMAIN new}]
      BY <1>2, <2>2 DEF StoreBytes
    <3>2. b.at = e
      BY <1>1, <2>2 DEF Bounds
    <3>3. ASSUME NEW k \in DOMAIN new PROVE place[k] = new[k]
      <4>1. CASE new[k].item.guard.on
        BY <3>1, <4>1 DEF Places
      <4>2. CASE ~new[k].item.guard.on
        <5>1. ~cond.on
          BY <1>2, <1>3, <4>2, ByteGuardOff
        <5>2. \A x \in mem[s].sym : x.item.at # Plus(e, k)
          <6>1. \/ cond.on \/ Bounds(e, path[s]).int
                \/ \A x \in mem[s].sym, j \in 0 .. Len(data) - 1 : x.item.at # Plus(e, j)
            BY DEF Store
          <6> QED BY <1>1, <1>2, <2>2, <5>1, <6>1
        <5>3. new[k].item.at = Plus(e, k)
          BY <1>2, <3>2 DEF IsByte
        <5> QED BY <1>4, <3>1, <5>2, <5>3 DEF Places
      <4> QED BY <4>1, <4>2
    <3>4. ASSUME NEW k \in DOMAIN new PROVE [place[k] EXCEPT !.item = new[k].item] = new[k]
      <4>1. PICK f \in Files : f = new[k]
        BY <1>2 DEF IsByte
      <4>2. [f EXCEPT !.item = f.item] = f
        BY DEF Files
      <4> QED BY <3>3, <4>1, <4>2
    <3>5. Range(place) = New
      BY <1>5, <3>3 DEF Range
    <3>6. PICK sym : /\ sym = (m.sym \ Range(place))
                                \cup {[place[k] EXCEPT !.item = new[k].item] : k \in DOMAIN new}
                     /\ mem'[s] = [m EXCEPT !.sym = sym]
      BY <3>1
    <3>7. mem'[s].sym = sym
      BY <1>4, <3>6 DEF Memories
    <3>8. {[place[k] EXCEPT !.item = new[k].item] : k \in DOMAIN new} = New
      BY <1>5, <3>4
    <3>9. sym = (m.sym \ New) \cup New
      BY <3>5, <3>6, <3>8
    <3> QED BY <1>4, <3>7, <3>9
  <2> QED BY <2>1, <2>2
<1>8. path' = [path EXCEPT ![s] = path'[s]] /\ path'[s] \in SUBSET path[s]
  BY <1>2, <1>3
<1> QED BY <1>2, <1>6, <1>7, <1>8, UpdateKeepsAlike

\* Both sides of a fork have what the state had.
LEMMA ForkKeepsAlike ==
  ASSUME TypeOK, Alike, NEW s \in States, NEW n \in States, NEW c \in SUBSET Worlds,
         Fork(s, n, c)
  PROVE  Alike'
<1>1. PICK old : IsFork(s, n, old)
  BY ForkIs
<1>2. ASSUME NEW x \in Live' PROVE x \in States /\ old[x] \in Live /\ mem'[x] = mem[old[x]]
  <2>1. x \in States /\ path'[x] \in SUBSET path[old[x]] /\ path'[x] # {} /\ old[x] \in States
        /\ mem'[x] = mem[old[x]]
    BY <1>1 DEF Live, IsFork
  <2> QED BY <2>1 DEF Live
<1>3. ASSUME NEW x \in Live', NEW z \in Live'
      PROVE  Older(mem'[x], anc'[x][z]) = Older(mem'[z], anc'[x][z])
  <2>1. CASE old[x] = old[z]
    BY <1>2, <2>1
  <2>2. CASE old[x] # old[z]
    <3>1. anc'[x][z] = anc[old[x]][old[z]]
      BY <1>1, <1>2, <2>2 DEF IsFork
    <3> QED BY <1>2, <3>1 DEF Alike
  <2> QED BY <2>1, <2>2
<1> QED BY <1>3 DEF Alike, Older, Since

\* A merged state keeps what its sides had in common with others.
LEMMA MergeKeepsAlike ==
  ASSUME TypeOK, Ancestry, Nested, Alike, NEW s \in States, NEW o \in States, Merge(s, o)
  PROVE  Alike'
<1>1. PICK M, O : IsMerge(s, o, M, O)
  BY MergeIs
<1>2. PICK a, c, d, x : a = anc[s][o] /\ c = path[s] /\ d = path[o] /\ x = mem'[s]
  OBVIOUS
<1>3. /\ s # o /\ s \in Live /\ o \in Live
      /\ M.sym = mem[s].sym /\ O.sym = mem[o].sym
      /\ mem[s] \in Memories /\ mem[o] \in Memories
      /\ IsMerged(x, M, O, a, c, d) /\ c \in SUBSET Worlds /\ d \in SUBSET Worlds
      /\ \A r \in Live \ {s, o} : anc[s][r] = anc[o][r]
      /\ \A r \in States \ {s, o} : path'[r] = path[r] /\ mem'[r] = mem[r]
      /\ path'[o] = {}
      /\ \A r, z \in States : o \notin {r, z} /\ ~(r = s /\ z = s) => anc'[r][z] = anc[r][z]
  BY <1>1, <1>2 DEF IsMerge, IsLoaded, IsMerged
<1>4. \A r \in Live' : r \in Live /\ r \in States /\ r # o
  BY <1>3 DEF Live
<1>5. ASSUME NEW r \in Live \ {s, o} PROVE Older(x, anc[s][r]) = Older(mem[r], anc[s][r])
  <2>1. PICK v : v = anc[s][r]
    OBVIOUS
  <2>2. /\ Older(mem[s], v) = Older(mem[r], v) /\ Older(mem[o], v) = Older(mem[r], v)
        /\ Older(mem[s], a) = Older(mem[o], a)
    BY <1>2, <1>3, <2>1 DEF Alike
  <2>3. NoLater(v, a)
    BY <1>2, <1>3, <2>1 DEF Nested
  <2>4. ASSUME NEW p \in Items, Since(p, a) PROVE Since(p, v)
    <3>1. /\ a.time \in Int /\ a.implicit \in Int /\ v.time \in Int /\ v.implicit \in Int
      BY <1>2, <1>3, <2>1, AgesAre DEF Live
    <3>2. p.t \in Int
      BY ItemType
    <3> QED BY <2>3, <2>4, <3>1, <3>2 DEF Since, NoLater
  <2>5. /\ \A g \in mem[s].sym : g.item \in Items
        /\ \A g \in mem[o].sym : g.item \in Items
    BY <1>3, MemoryType
  <2>6. ASSUME NEW f \in x.sym, ~Since(f.item, v) PROVE f \in Older(mem[r], v)
    <3>1. FromTree(f, M, O, a, c, d)
      BY <1>3, TreeIs
    <3>2. CASE f \in M.sym
      BY <1>3, <2>2, <2>6, <3>2 DEF Older
    <3>3. CASE \E g \in M.sym : Since(g.item, a) /\ f.item = Guarded(g.item, c)
      <4>1. PICK g \in M.sym : Since(g.item, a) /\ f.item = Guarded(g.item, c)
        BY <3>3
      <4>2. f.item.t = g.item.t /\ Since(g.item, v)
        BY <1>3, <2>4, <2>5, <4>1, GuardedIs
      <4> QED BY <2>6, <4>2 DEF Since
    <3>4. CASE \E g \in O.sym : Since(g.item, a) /\ f.item = Guarded(g.item, d)
      <4>1. PICK g \in O.sym : Since(g.item, a) /\ f.item = Guarded(g.item, d)
        BY <3>4
      <4>2. f.item.t = g.item.t /\ Since(g.item, v)
        BY <1>3, <2>4, <2>5, <4>1, GuardedIs
      <4> QED BY <2>6, <4>2 DEF Since
    <3> QED BY <3>1, <3>2, <3>3, <3>4 DEF FromTree
  <2>7. ASSUME NEW f \in Older(mem[s], v) PROVE f \in Older(x, v)
    <3>1. f \in M.sym /\ ~Since(f.item, v) /\ f.item \in Items
      BY <1>3, <2>5 DEF Older
    <3>2. f \in Older(M, a)
      BY <2>4, <3>1 DEF Older
    <3>3. f \in x.sym
      BY <1>3, <3>2, TreeHas
    <3> QED BY <3>1, <3>3 DEF Older
  <2> QED BY <2>1, <2>2, <2>6, <2>7 DEF Older
<1>6. ASSUME NEW r \in Live', NEW z \in Live'
      PROVE  Older(mem'[r], anc'[r][z]) = Older(mem'[z], anc'[r][z])
  <2>1. r \in Live /\ z \in Live /\ r \in States /\ z \in States /\ o \notin {r, z}
    BY <1>4
  <2>2. CASE r = z
    BY <2>2
  <2>3. CASE r = s /\ z # s
    BY <1>2, <1>3, <1>5, <2>1, <2>3
  <2>4. CASE r # s /\ z = s
    <3>1. anc'[r][z] = anc[r][s] /\ anc[r][s] = anc[s][r] /\ mem'[r] = mem[r] /\ mem'[z] = x
      BY <1>2, <1>3, <2>1, <2>4 DEF Ancestry
    <3> QED BY <1>5, <2>1, <2>4, <3>1
  <2>5. CASE r # s /\ z # s
    <3>1. anc'[r][z] = anc[r][z] /\ mem'[r] = mem[r] /\ mem'[z] = mem[z]
      BY <1>3, <2>1, <2>5
    <3> QED BY <2>1, <3>1 DEF Alike
  <2> QED BY <2>2, <2>3, <2>4, <2>5
<1> QED BY <1>6 DEF Alike, Older, Since

-----------------------------------------------------------------------------
(* The invariant. *)

\* At first the contents are those of the binary.
LEMMA ContentsInit ==
  ASSUME Init
  PROVE  CInv /\ Tells
<1>1. PICK s \in States : /\ path = [x \in States |-> IF x = s THEN Worlds ELSE {}]
                          /\ truth = [x \in States |-> [w \in Worlds |->
                               IF x = s THEN Image ELSE NoBytes]]
  BY DEF Init
<1>2. /\ mem = [x \in States |-> EmptyMemory]
      /\ anc = [x \in States |-> [o \in States |-> [time |-> 0, implicit |-> 0]]]
  BY DEF Init
<1>3. Imaged
  BY <1>2, EmptyImage DEF Imaged
<1>4. Nested
  BY <1>2 DEF Nested, NoLater, Live
<1>5. Alike
  BY <1>2 DEF Alike, Live
<1>6. EmptyMemory \in Memories /\ AllItems(EmptyMemory) = {}
  BY EmptyIs
<1>7. ASSUME NEW w \in Worlds, NEW a \in Addrs PROVE TellsByte(Seen(EmptyMemory), w, a, Image[a])
  <2>1. IsPending(EmptyMemory, a) <=> Image[a] # Unknown
    BY ImageInChunk DEF IsPending, EmptyMemory
  <2>2. ASSUME NEW p \in Hits(Seen(EmptyMemory), w, a)
        PROVE  p = ImageItem(a) /\ IsPending(EmptyMemory, a)
    <3>1. PICK b \in Addrs : p = ImageItem(b) /\ IsPending(EmptyMemory, b)
      BY <1>6 DEF Hits, Seen
    <3>2. p.at[w] = a
      BY DEF Hits
    <3> QED BY <3>1, <3>2, ImageItemIs
  <2>3. CASE Image[a] = Unknown
    <3>1. Hits(Seen(EmptyMemory), w, a) = {}
      BY <2>1, <2>2, <2>3
    <3> QED BY <2>3, <3>1 DEF TellsByte
  <2>4. CASE Image[a] # Unknown
    <3>1. PICK p : p = ImageItem(a)
      OBVIOUS
    <3>2. p \in Seen(EmptyMemory) /\ p.val = Image[a] /\ p.at[w] = a /\ w \in p.guard.of
      BY <2>1, <2>4, <3>1, ImageItemIs DEF Seen, IsItem
    <3>3. p \in Hits(Seen(EmptyMemory), w, a)
      BY <3>2 DEF Hits
    <3> QED BY <2>2, <2>4, <3>1, <3>2, <3>3, LatestTells
  <2> QED BY <2>3, <2>4
<1>8. Tells
  BY <1>1, <1>2, <1>7 DEF Tells, Live
<1> QED BY <1>3, <1>4, <1>5, <1>8 DEF CInv

\* Every step keeps what the contents rest on.
LEMMA CInvInductive ==
  ASSUME IInv, IInv', CInv, ~GuardOnImage, [Next]_vars
  PROVE  CInv'
<1>1. TypeOK /\ Ancestry /\ Ancestry' /\ Imaged /\ Nested /\ (~StoreAgain => Alike)
  BY DEF IInv, CInv
<1>2. CASE Next
  <2>1. Imaged' /\ Nested'
    BY <1>1, <1>2, KeepsImaged, KeepsNested
  <2>2. ASSUME ~StoreAgain PROVE Alike'
    <3>1. Alike
      BY <1>1, <2>2
    <3>2. ASSUME NEW s \in Live, NEW e \in AddrExprs, NEW size \in LoadSizes, Load(s, e, size)
          PROVE  Alike'
      BY <1>1, <3>1, <3>2, LoadKeepsAlike
    <3>3. ASSUME NEW s \in Live, NEW a \in Addrs, HasItem(s, a)
          PROVE  Alike'
      BY <1>1, <3>1, <3>3, HasItemKeepsAlike
    <3>4. ASSUME NEW s \in Live, NEW e \in AddrExprs, NEW data \in Payloads,
                 NEW size \in SizeExprs,
                 NEW cond \in {NoGuard} \cup {Guard(c) : c \in Conditions},
                 Store(s, e, data, size, cond)
          PROVE  Alike'
      BY <1>1, <2>2, <3>1, <3>4, StoreKeepsAlike
    <3>5. ASSUME NEW s \in States, NEW n \in States, NEW c \in SUBSET Worlds, Fork(s, n, c)
          PROVE  Alike'
      BY <1>1, <3>1, <3>5, ForkKeepsAlike
    <3>6. ASSUME NEW s \in States, NEW o \in States, Merge(s, o)
          PROVE  Alike'
      BY <1>1, <3>1, <3>6, MergeKeepsAlike
    <3> QED BY <1>2, <3>2, <3>3, <3>4, <3>5, <3>6 DEF Next
  <2> QED BY <2>1, <2>2 DEF CInv
<1>3. CASE UNCHANGED vars
  <2>1. Imaged' /\ Nested' /\ (~StoreAgain => Alike')
    BY <1>1, <1>3 DEF vars, Imaged, HasImage, IsPending, Nested, NoLater, Alike, Older, Since, Live
  <2> QED BY <2>1 DEF CInv
<1> QED BY <1>2, <1>3

\* In every reachable state, also after merges, what the contents rest on holds:
\* an address without an entry has a byte in the binary just when one is still to
\* be loaded, two histories part no earlier than one of them does from a third, and,
\* if no store is repeated, the trees of two states hold the same from before they
\* forked.
THEOREM ContentsKept ==
  ASSUME ~GuardOnImage
  PROVE  Spec => []CInv
<1>1. Init => IInv /\ CInv
  BY InitIs, ContentsInit
<1>2. IInv /\ CInv /\ [Next]_vars => (IInv /\ CInv)'
  BY IInvInductive, CInvInductive
<1> QED BY <1>1, <1>2, PTL DEF Spec

\* Every step keeps what the items tell true.
LEMMA TellsInductive ==
  ASSUME IInv, CInv, Tells, ~GuardSizes, ~GuardOnImage, ~Merging \/ ~StoreAgain, [Next]_vars
  PROVE  Tells'
<1>1. TypeOK /\ Imaged /\ (~StoreAgain => Alike)
  BY DEF IInv, CInv
<1>2. ASSUME NEW s \in Live, NEW e \in AddrExprs, NEW size \in LoadSizes, Load(s, e, size)
      PROVE  Tells'
  BY <1>1, <1>2, LoadKeepsTells
<1>3. ASSUME NEW s \in Live, NEW a \in Addrs, HasItem(s, a)
      PROVE  Tells'
  BY <1>1, <1>3, HasItemKeepsTells
<1>4. ASSUME NEW s \in Live, NEW e \in AddrExprs, NEW data \in Payloads, NEW size \in SizeExprs,
             NEW cond \in {NoGuard} \cup {Guard(c) : c \in Conditions},
             Store(s, e, data, size, cond)
      PROVE  Tells'
  BY <1>1, <1>4, StoreKeepsTells
<1>5. ASSUME NEW s \in States, NEW n \in States, NEW c \in SUBSET Worlds, Fork(s, n, c)
      PROVE  Tells'
  BY <1>1, <1>5, ForkKeepsTells
<1>6. ASSUME NEW s \in States, NEW o \in States, Merge(s, o)
      PROVE  Tells'
  <2>1. Merging
    BY <1>6 DEF Merge
  <2> QED BY <1>1, <1>6, <2>1, MergeKeepsTells
<1>7. CASE UNCHANGED vars
  <2>1. path' = path /\ mem' = mem /\ truth' = truth
    BY <1>7 DEF vars
  <2>2. \A r, w, a : TellsByte(Seen(mem[r]), w, a, truth[r][w][a])'
                       <=> TellsByte(Seen(mem'[r]), w, a, truth'[r][w][a])
    BY DEF Seen, AllItems, IsPending, ImageItem, TellsByte, Hits
  <2> QED BY <2>1, <2>2 DEF Tells, Live
<1> QED BY <1>2, <1>3, <1>4, <1>5, <1>6, <1>7 DEF Next

\* What load() and store() keep in the two tables tells every byte of every state
\* in every world: once all pages of the binary are loaded, the latest item that
\* holds for an address has the byte last stored there, or the one the binary or
\* a load has named.  Three things are left out, each of which breaks it: a
\* condition with a symbolic size (GuardSizes), a condition over bytes of the
\* binary still to come (GuardOnImage), and merges after a symbolic address was
\* stored to twice unguarded (StoreAgain).
THEOREM ContentsTold ==
  ASSUME ~GuardSizes, ~GuardOnImage, ~Merging \/ ~StoreAgain
  PROVE  Spec => []ItemsTell
<1>1. Init => IInv /\ CInv /\ Tells
  BY InitIs, ContentsInit
<1>2. IInv /\ CInv /\ Tells /\ [Next]_vars => (IInv /\ CInv /\ Tells)'
  BY IInvInductive, CInvInductive, TellsInductive
<1>3. IInv /\ Tells => ItemsTell
  <2> SUFFICES ASSUME IInv, Tells, NEW s \in Live, NEW w \in path[s], NEW a \in Addrs
               PROVE  LET items == AllItems(LoadPages(mem[s], Pending(mem[s])))
                          Latest == {p \in Hits(items, w, a) :
                                       \A q \in Hits(items, w, a) : q.t <= p.t}
                      IN  {p.val : p \in Latest} = {truth[s][w][a]} \ {Unknown}
    BY DEF ItemsTell
  <2>1. s \in States /\ mem[s] \in Memories /\ Placed(mem[s])
    BY DEF IInv, TypeOK, Live
  <2>2. PICK H : H = Hits(Seen(mem[s]), w, a)
    OBVIOUS
  <2>3. AllItems(LoadPages(mem[s], Pending(mem[s]))) = Seen(mem[s])
    BY <2>1, AllLoaded
  <2>4. \A p \in H : p.t \in Int
    BY <2>1, <2>2, SeenTimes, ItemType DEF Hits
  <2>5. PICK v : v = truth[s][w][a]
    OBVIOUS
  <2>6. \/ H = {} /\ v = Unknown
        \/ /\ v # Unknown
           /\ \E p \in H : /\ p.val = v
                           /\ \A q \in H : q.t < p.t \/ (q.t = p.t /\ q.val = v)
    BY <2>2, <2>5 DEF Tells, TellsByte
  <2>7. {p.val : p \in {r \in H : \A q \in H : q.t <= r.t}} = {v} \ {Unknown}
    <3>1. CASE H = {} /\ v = Unknown
      BY <3>1
    <3>2. CASE v # Unknown /\ \E p \in H : /\ p.val = v
                                           /\ \A q \in H : q.t < p.t \/ (q.t = p.t /\ q.val = v)
      <4>1. PICK p \in H : p.val = v /\ \A q \in H : q.t < p.t \/ (q.t = p.t /\ q.val = v)
        BY <3>2
      <4>2. \A q \in H : q.t <= p.t
        BY <2>4, <4>1
      <4>3. ASSUME NEW r \in H, \A q \in H : q.t <= r.t PROVE r.val = v
        BY <2>4, <4>1, <4>3
      <4> QED BY <3>2, <4>1, <4>2, <4>3
    <3> QED BY <2>6, <3>1, <3>2
  <2> QED BY <2>2, <2>3, <2>5, <2>7
<1> QED BY <1>1, <1>2, <1>3, PTL DEF Spec

-----------------------------------------------------------------------------
(* The trees are finite. *)

\* The values a function has on a finite set are finitely many.
LEMMA FiniteImage ==
  ASSUME NEW S, IsFiniteSet(S), NEW F, NEW T, \A t \in T : \E x \in S : t = F[x]
  PROVE  IsFiniteSet(T)
<1> DEFINE R == {x \in S : F[x] \in T}
           f == [x \in R |-> F[x]]
<1>1. IsFiniteSet(R)
  BY FS_Subset
<1>2. f \in Surjection(R, T)
  <2>1. f \in [R -> T]
    OBVIOUS
  <2>2. \A t \in T : \E x \in R : f[x] = t
    OBVIOUS
  <2> HIDE DEF f, R
  <2> QED BY <2>1, <2>2 DEF Surjection
<1> HIDE DEF f, R
<1> QED BY <1>1, <1>2, FS_Surjection

FiniteTrees == \A s \in States : IsFiniteSet(mem[s].sym)

\* GuardSince() makes no more items than there are.
LEMMA GuardedFinite ==
  ASSUME NEW sym, IsFiniteSet(sym), NEW a, NEW c
  PROVE  IsFiniteSet(GuardSince(sym, a, c))
<1> DEFINE F == [x \in sym |->
             IF Since(x.item, a) THEN [x EXCEPT !.item.guard = And(@, c)] ELSE x]
<1>1. \A t \in GuardSince(sym, a, c) : \E x \in sym : t = F[x]
  BY DEF GuardSince
<1> HIDE DEF F
<1> QED BY <1>1, FiniteImage

\* store() adds one item for each byte.
LEMMA StoredFinite ==
  ASSUME NEW m \in Memories, IsFiniteSet(m.sym), NEW b, NEW new, IsFiniteSet(DOMAIN new),
         NEW n \in StoreBytes(m, b, new)
  PROVE  IsFiniteSet(n.sym)
<1>1. CASE b.int
  <2>1. \E conc : n = [m EXCEPT !.conc = conc]
    BY <1>1 DEF StoreBytes
  <2>2. n.sym = m.sym
    BY <2>1 DEF Memories
  <2> QED BY <2>2
<1>2. CASE ~b.int
  <2>1. PICK place : n = [m EXCEPT !.sym = (@ \ Range(place))
             \cup {[place[k] EXCEPT !.item = new[k].item] : k \in DOMAIN new}]
    BY <1>2 DEF StoreBytes
  <2>2. PICK put : put = {[place[k] EXCEPT !.item = new[k].item] : k \in DOMAIN new}
    OBVIOUS
  <2>3. n.sym = (m.sym \ Range(place)) \cup put
    BY <2>1, <2>2 DEF Memories
  <2>4. IsFiniteSet(put)
    <3> DEFINE F == [k \in DOMAIN new |-> [place[k] EXCEPT !.item = new[k].item]]
    <3>1. \A t \in put : \E k \in DOMAIN new : t = F[k]
      BY <2>2
    <3> HIDE DEF F
    <3> QED BY <3>1, FiniteImage
  <2>5. IsFiniteSet(m.sym \ Range(place))
    BY FS_Difference
  <2> QED BY <2>3, <2>4, <2>5, FS_Union
<1> QED BY <1>1, <1>2

\* A step adds finitely many items to a tree.
LEMMA KeepsFinite ==
  ASSUME TypeOK, FiniteTrees, Next
  PROVE  FiniteTrees'
<1>1. mem \in [States -> Memories] /\ made \in Nat
  BY DEF TypeOK
<1>2. ASSUME NEW s \in States, mem' = [mem EXCEPT ![s] = mem'[s]], IsFiniteSet(mem'[s].sym)
      PROVE  FiniteTrees'
  <2>1. \A r \in States : r # s => mem'[r] = mem[r]
    BY <1>1, <1>2
  <2>2. \A r \in States : IsFiniteSet(mem'[r].sym)
    BY <1>2, <2>1 DEF FiniteTrees
  <2> QED BY <2>2 DEF FiniteTrees
<1>3. ASSUME NEW s \in Live, NEW e \in AddrExprs, NEW size \in LoadSizes, Load(s, e, size)
      PROVE  FiniteTrees'
  <2>1. PICK n, b, l, D : IsLoad(s, e, n, b, l, D)
    BY <1>3, LoadIs
  <2>2. IsFiniteSet(D) /\ mem'[s].sym = l.sym \cup {NewSymbol(l, b, D, k) : k \in D}
    BY <1>1, <2>1, SymbolsAre, LoadedMemory
  <2>3. s \in States /\ l.sym = mem[s].sym /\ mem' = [mem EXCEPT ![s] = mem'[s]]
    BY <2>1 DEF IsLoad, IsLoaded
  <2>4. PICK named : named = {NewSymbol(l, b, D, k) : k \in D}
    OBVIOUS
  <2>5. IsFiniteSet(named)
    <3> DEFINE F == [k \in D |-> NewSymbol(l, b, D, k)]
    <3>1. \A t \in named : \E k \in D : t = F[k]
      BY <2>4
    <3> HIDE DEF F
    <3> QED BY <2>2, <3>1, FiniteImage
  <2>6. IsFiniteSet(mem'[s].sym)
    <3>1. IsFiniteSet(l.sym) /\ mem'[s].sym = l.sym \cup named
      BY <2>2, <2>3, <2>4 DEF FiniteTrees
    <3> QED BY <2>5, <3>1, FS_Union
  <2> QED BY <1>2, <2>3, <2>6
<1>4. ASSUME NEW s \in Live, NEW a \in Addrs, HasItem(s, a)
      PROVE  FiniteTrees'
  <2>1. s \in States
    BY DEF Live
  <2>2. mem' = [mem EXCEPT ![s] = LoadInitData(mem[s], a, 1)]
    BY <1>4 DEF HasItem
  <2>3. mem'[s] = LoadInitData(mem[s], a, 1)
    BY <1>1, <2>1, <2>2
  <2>4. IsLoaded(mem[s], mem'[s])
    BY <1>1, <2>1, <2>3, LoadedFrom
  <2> QED BY <1>2, <2>1, <2>2, <2>3, <2>4 DEF IsLoaded, FiniteTrees
<1>5. ASSUME NEW s \in Live, NEW e \in AddrExprs, NEW data \in Payloads, NEW size \in SizeExprs,
             NEW cond \in {NoGuard} \cup {Guard(c) : c \in Conditions},
             Store(s, e, data, size, cond)
      PROVE  FiniteTrees'
  <2>1. PICK b : b = Bounds(e, path[s])
    OBVIOUS
  <2>2. PICK new : new = NewBytes(s, e, data, size, cond)
    OBVIOUS
  <2>3. /\ s \in States /\ mem[s] \in Memories /\ Placed(mem[s])
        /\ DOMAIN new = 0 .. Len(data) - 1
        /\ mem'[s] \in StoreBytes(Ticked(mem[s]), b, new)
        /\ mem' = [mem EXCEPT ![s] = mem'[s]]
    BY <1>5, <2>1, <2>2, StoreIs
  <2>4. Ticked(mem[s]) \in Memories /\ Ticked(mem[s]).sym = mem[s].sym
    BY <2>3, TickedIs
  <2>5. IsFiniteSet(DOMAIN new)
    <3>1. Len(data) \in Nat
      BY Inputs
    <3>2. IsFiniteSet(0 .. Len(data) - 1)
      BY <3>1, FS_Interval
    <3> QED BY <2>3, <3>2
  <2>6. IsFiniteSet(mem'[s].sym)
    BY <2>3, <2>4, <2>5, StoredFinite DEF FiniteTrees
  <2> QED BY <1>2, <2>3, <2>6
<1>6. ASSUME NEW s \in States, NEW n \in States, NEW c \in SUBSET Worlds, Fork(s, n, c)
      PROVE  FiniteTrees'
  <2>1. mem' = [mem EXCEPT ![n] = mem[s]]
    BY <1>6 DEF Fork
  <2>2. mem'[n] = mem[s]
    BY <1>1, <2>1
  <2> QED BY <1>2, <2>1, <2>2 DEF FiniteTrees
<1>7. ASSUME NEW s \in States, NEW o \in States, Merge(s, o)
      PROVE  FiniteTrees'
  <2>1. PICK M, O : IsMerge(s, o, M, O)
    BY <1>7, MergeIs
  <2>2. /\ IsLoaded(mem[s], M) /\ IsLoaded(mem[o], O)
        /\ mem'[s].sym = MergeSymbolic(M.sym, O.sym, anc[s][o], path[s], path[o])
        /\ mem'[o] = EmptyMemory
        /\ \A r \in States \ {s, o} : mem'[r] = mem[r]
    BY <2>1 DEF IsMerge, IsMerged
  <2>3. IsFiniteSet(M.sym) /\ IsFiniteSet(O.sym)
    BY <2>2 DEF IsLoaded, FiniteTrees
  <2>4. IsFiniteSet({x \in O.sym : Since(x.item, anc[s][o])})
    BY <2>3, FS_Subset
  <2>5. IsFiniteSet(mem'[s].sym)
    BY <2>2, <2>3, <2>4, GuardedFinite, FS_Union DEF MergeSymbolic
  <2>6. IsFiniteSet(mem'[o].sym)
    BY <2>2, FS_EmptySet DEF EmptyMemory
  <2>7. \A r \in States : IsFiniteSet(mem'[r].sym)
    BY <2>2, <2>5, <2>6 DEF FiniteTrees
  <2> QED BY <2>7 DEF FiniteTrees
<1> QED BY <1>3, <1>4, <1>5, <1>6, <1>7 DEF Next

\* So the items a load looks at are finitely many.
LEMMA CandidatesFinite ==
  ASSUME NEW m \in Memories, IsFiniteSet(m.sym), NEW lo \in Int, NEW hi \in Int,
         lo .. hi \subseteq Addrs
  PROVE  IsFiniteSet(Candidates(m, lo, hi)) /\ Candidates(m, lo, hi) \subseteq Items
<1>1. m.conc \in [Addrs -> Seq(Items)] /\ \A x \in m.sym : x.item \in Items
  BY MemoryType
<1>2. PICK ranges : ranges = {Range(m.conc[a]) : a \in lo .. hi}
  OBVIOUS
<1>3. PICK found : found = {x.item : x \in {y \in m.sym : y.lo < hi + 1 /\ lo < y.hi}}
  OBVIOUS
<1>4. IsFiniteSet(ranges)
  <2> DEFINE F == [a \in lo .. hi |-> Range(m.conc[a])]
  <2>1. \A t \in ranges : \E a \in lo .. hi : t = F[a]
    BY <1>2
  <2> HIDE DEF F
  <2> QED BY <2>1, FS_Interval, FiniteImage
<1>5. ASSUME NEW R \in ranges PROVE IsFiniteSet(R) /\ R \subseteq Items
  <2>1. PICK a \in lo .. hi : R = Range(m.conc[a])
    BY <1>2
  <2>2. PICK seq \in Seq(Items) : seq = m.conc[a]
    BY <1>1
  <2>3. \A t \in R : \E i \in 1 .. Len(seq) : t = seq[i]
    BY <2>1, <2>2 DEF Range
  <2>4. IsFiniteSet(1 .. Len(seq))
    BY <2>2, FS_Interval
  <2> QED BY <2>1, <2>2, <2>3, <2>4, FiniteImage, RangeOfSeq
<1>6. IsFiniteSet(found)
  <2> DEFINE F == [x \in m.sym |-> x.item]
  <2>1. \A t \in found : \E x \in m.sym : t = F[x]
    BY <1>3
  <2> HIDE DEF F
  <2> QED BY <2>1, FiniteImage
<1>7. IsFiniteSet(UNION ranges)
  BY <1>4, <1>5, FS_UNION
<1>8. Candidates(m, lo, hi) = (UNION ranges) \cup found
  BY <1>2, <1>3 DEF Candidates
<1>9. IsFiniteSet((UNION ranges) \cup found)
  BY <1>6, <1>7, FS_Union
<1>10. UNION ranges \subseteq Items /\ found \subseteq Items
  BY <1>1, <1>3, <1>5
<1> QED BY <1>8, <1>9, <1>10

-----------------------------------------------------------------------------
(* Folding over a finite set. *)

\* A function on the subsets of P that takes the members out in the order C
\* picks them, with the turns F.
IsTaken(g, P, base, C, F) ==
  g = [S \in SUBSET P |-> IF S = {} THEN base ELSE F[<<C[S], g[S \ {C[S]}]>>]]

\* There is one.
LEMMA TakenExists ==
  ASSUME NEW P, IsFiniteSet(P), NEW C, \A S \in SUBSET P : S # {} => C[S] \in S,
         NEW V, NEW base \in V, NEW F \in [P \X V -> V]
  PROVE  \E g \in [SUBSET P -> V] : IsTaken(g, P, base, C, F)
<1> DEFINE Level(k) == {S \in SUBSET P : Cardinality(S) <= k}
           Turn(g, S) == IF S = {} THEN base ELSE F[<<C[S], g[S \ {C[S]}]>>]
           Has(k) == \E g \in [Level(k) -> V] : \A S \in Level(k) : g[S] = Turn(g, S)
           Bad == {k \in 0 .. Cardinality(P) : ~Has(k)}
<1>1. /\ Cardinality(P) \in Nat
      /\ \A S \in SUBSET P : Cardinality(S) \in Nat /\ Cardinality(S) <= Cardinality(P)
                             /\ (Cardinality(S) = 0 <=> S = {})
  BY FS_CardinalityType, FS_Subset, FS_EmptySet
<1>2. ASSUME NEW S \in SUBSET P, S # {}
      PROVE  /\ C[S] \in P /\ S \ {C[S]} \in SUBSET P
             /\ Cardinality(S \ {C[S]}) = Cardinality(S) - 1
  <2>1. C[S] \in S /\ IsFiniteSet(S)
    BY <1>2, FS_Subset
  <2> QED BY <2>1, FS_RemoveElement
<1>3. Has(0)
  <2>1. \A S \in Level(0) : S = {}
    BY <1>1
  <2> DEFINE g == [S \in Level(0) |-> base]
  <2>2. g \in [Level(0) -> V] /\ \A S \in Level(0) : g[S] = Turn(g, S)
    BY <2>1
  <2> QED BY <2>2
<1>4. ASSUME NEW k \in Nat, Has(k) PROVE Has(k + 1)
  <2>1. PICK g \in [Level(k) -> V] : \A S \in Level(k) : g[S] = Turn(g, S)
    BY <1>4
  <2> DEFINE h == [S \in Level(k + 1) |-> Turn(g, S)]
  <2>2. \A S \in Level(k + 1) : S # {} => C[S] \in P /\ S \ {C[S]} \in Level(k)
    BY <1>1, <1>2
  <2>3. h \in [Level(k + 1) -> V]
    <3> SUFFICES ASSUME NEW S \in Level(k + 1) PROVE Turn(g, S) \in V
      OBVIOUS
    <3>1. CASE S = {}
      BY <3>1
    <3>2. CASE S # {}
      <4>1. g[S \ {C[S]}] \in V /\ C[S] \in P
        BY <2>2, <3>2
      <4> QED BY <3>2, <4>1
    <3> QED BY <3>1, <3>2
  <2>4. \A S \in Level(k) : S \in Level(k + 1) /\ h[S] = g[S]
    <3> TAKE S \in Level(k)
    <3>1. S \in Level(k + 1)
      BY <1>1
    <3> QED BY <2>1, <3>1
  <2>5. ASSUME NEW S \in Level(k + 1) PROVE h[S] = Turn(h, S)
    <3>1. S # {} => h[S \ {C[S]}] = g[S \ {C[S]}]
      BY <2>2, <2>4
    <3>2. h[S] = Turn(g, S)
      OBVIOUS
    <3> HIDE DEF h, Level
    <3> QED BY <3>1, <3>2
  <2> HIDE DEF h, Turn, Level
  <2> QED BY <2>3, <2>5
<1>5. Has(Cardinality(P))
  <2> HIDE DEF Has
  <2> SUFFICES ASSUME Bad # {} PROVE FALSE
    BY <1>1
  <2>1. PICK k \in Bad : \A j \in Bad : k <= j
    <3>1. Bad \in SUBSET Nat
      BY <1>1
    <3> QED BY <3>1, LeastNat
  <2>2. k # 0
    BY <1>3, <2>1
  <2>3. k - 1 \in Nat /\ k - 1 \in 0 .. Cardinality(P) /\ ~(k <= k - 1) /\ (k - 1) + 1 = k
    BY <1>1, <2>1, <2>2
  <2>4. Has(k - 1)
    BY <2>1, <2>3
  <2>5. PICK j \in Nat : j = k - 1 /\ j + 1 = k
    BY <2>3
  <2>6. Has(k)
    BY <1>4, <2>4, <2>5
  <2> QED BY <2>1, <2>6
<1>6. Level(Cardinality(P)) = SUBSET P
  BY <1>1
<1>7. PICK g \in [SUBSET P -> V] : \A S \in SUBSET P : g[S] = Turn(g, S)
  <2> HIDE DEF Level, Turn
  <2> QED BY <1>5, <1>6
<1> QED BY <1>7 DEF IsTaken

-----------------------------------------------------------------------------
(* Sorting. *)

AddrOf(p) == IF p.int THEN p.at[CHOOSE w \in Worlds : TRUE] ELSE 0
Earlier(p, q) == p.t < q.t \/ (p.t = q.t /\ AddrOf(p) < AddrOf(q))
LatestOf(S) == CHOOSE p \in S : \A q \in S : ~Earlier(p, q)

\* sorted() takes the latest item out until none is left.
LEMMA SortedIs ==
  ASSUME NEW P
  PROVE  Sorted(P) = (CHOOSE g : g = [S \in SUBSET P |->
           IF S = {} THEN <<>> ELSE Append(g[S \ {LatestOf(S)}], LatestOf(S))])[P]
BY DEF Sorted, MapThenFoldSet, AddrOf, Earlier, LatestOf

\* A function has a greatest value on a finite set.
LEMMA GreatestValue ==
  ASSUME NEW S, IsFiniteSet(S), S # {}, NEW f \in [S -> Int]
  PROVE  \E p \in S : \A q \in S : f[q] <= f[p]
<1>1. PICK b \in Nat : \A p \in S : -b <= f[p] /\ f[p] <= b
  BY ValuesBounded
<1>2. PICK V : V = {f[p] : p \in S}
  OBVIOUS
<1>3. V \in SUBSET Int /\ V # {} /\ \A v \in V : v <= b
  BY <1>1, <1>2
<1>4. IsGreatest(V, Max(V))
  BY <1>3, b \in Int, MaxOfBounded
<1> QED BY <1>2, <1>4 DEF IsGreatest

\* The latest of some items is one of them.
LEMMA LatestExists ==
  ASSUME NEW S \in SUBSET Items, IsFiniteSet(S), S # {}
  PROVE  LatestOf(S) \in S /\ \A q \in S : q.t <= LatestOf(S).t
<1>1. \A p \in S : p.t \in Int /\ AddrOf(p) \in Int
  <2> TAKE p \in S
  <2>1. p.t \in Int /\ p.at \in [Worlds -> Int]
    BY ItemType
  <2>2. (CHOOSE w \in Worlds : TRUE) \in Worlds
    BY WorldsAssumption
  <2> QED BY <2>1, <2>2 DEF AddrOf
<1> DEFINE f == [p \in S |-> p.t]
<1>2. PICK p \in S : \A q \in S : f[q] <= f[p]
  <2>1. f \in [S -> Int]
    BY <1>1
  <2> HIDE DEF f
  <2> QED BY <2>1, GreatestValue
<1> DEFINE T == {q \in S : q.t = p.t}
           g == [q \in T |-> AddrOf(q)]
<1>3. PICK r \in T : \A q \in T : g[q] <= g[r]
  <2>1. g \in [T -> Int] /\ T # {} /\ IsFiniteSet(T)
    BY <1>1, FS_Subset
  <2> HIDE DEF g, T
  <2> QED BY <2>1, GreatestValue
<1>4. \A q \in S : ~Earlier(r, q)
  <2> TAKE q \in S
  <2>1. q.t <= p.t /\ r.t = p.t /\ q.t \in Int /\ r.t \in Int
    BY <1>1, <1>2
  <2>2. q.t = p.t => AddrOf(q) <= AddrOf(r) /\ AddrOf(q) \in Int /\ AddrOf(r) \in Int
    BY <1>1, <1>3
  <2> QED BY <2>1, <2>2 DEF Earlier
<1>5. PICK l : l = LatestOf(S)
  OBVIOUS
<1>6. l \in S /\ \A q \in S : ~Earlier(l, q)
  BY <1>4, <1>5 DEF LatestOf
<1>7. \A q \in S : q.t <= l.t
  BY <1>1, <1>6 DEF Earlier
<1> QED BY <1>5, <1>6, <1>7

\* A list of all of S, with times that never go down.
IsInOrder(list, S) ==
  /\ list \in Seq(S) /\ \A p \in S : \E i \in 1 .. Len(list) : list[i] = p
  /\ \A i, j \in 1 .. Len(list) : i < j => list[i].t <= list[j].t

\* One more item that is none the earlier keeps the list in order.
LEMMA AppendInOrder ==
  ASSUME NEW S, NEW p \in S, NEW list, IsInOrder(list, S \ {p}), \A q \in S : q.t <= p.t
  PROVE  IsInOrder(Append(list, p), S)
<1>1. list \in Seq(S) /\ Len(list) \in Nat
  <2>1. S \ {p} \subseteq S
    OBVIOUS
  <2> QED BY <2>1, SeqMonotonic DEF IsInOrder
<1>2. PICK n \in Nat : n = Len(list)
  BY <1>1
<1>3. PICK long : long = Append(list, p)
  OBVIOUS
<1>4. /\ long \in Seq(S) /\ Len(long) = n + 1 /\ long[n + 1] = p
      /\ \A i \in 1 .. n : long[i] = list[i]
  BY <1>1, <1>2, <1>3
<1>5. \A q \in S : \E i \in 1 .. n + 1 : long[i] = q
  <2> TAKE q \in S
  <2>1. CASE q = p
    BY <1>4, <2>1
  <2>2. CASE q # p
    <3>1. PICK i \in 1 .. n : list[i] = q
      BY <1>2, <2>2 DEF IsInOrder
    <3>2. i \in 1 .. n + 1 /\ long[i] = q
      BY <1>4, <3>1
    <3> QED BY <3>2
  <2> QED BY <2>1, <2>2
<1>6. ASSUME NEW i \in 1 .. n + 1, NEW j \in 1 .. n + 1, i < j
      PROVE  long[i].t <= long[j].t
  <2>1. i \in 1 .. n
    BY <1>6
  <2>2. CASE j = n + 1
    <3>1. long[i] \in S
      BY <1>1, <1>2, <1>4, <2>1, ElementOfSeq
    <3> QED BY <1>4, <2>2, <3>1
  <2>3. CASE j # n + 1
    <3>1. j \in 1 .. n
      BY <2>3
    <3> QED BY <1>2, <1>4, <1>6, <2>1, <3>1 DEF IsInOrder
  <2> QED BY <2>2, <2>3
<1> QED BY <1>3, <1>4, <1>5, <1>6 DEF IsInOrder

\* Sorting finitely many items gives a list of them all in order of time.
LEMMA SortedInOrder ==
  ASSUME NEW P \in SUBSET Items, IsFiniteSet(P)
  PROVE  IsInOrder(Sorted(P), P)
<1> DEFINE C == [S \in SUBSET P |-> LatestOf(S)]
           F == [x \in P \X Seq(P) |-> Append(x[2], x[1])]
<1>1. ASSUME NEW S \in SUBSET P, S # {}
      PROVE  /\ LatestOf(S) \in S /\ \A q \in S : q.t <= LatestOf(S).t
             /\ IsFiniteSet(S)
  <2>1. S \in SUBSET Items /\ IsFiniteSet(S)
    BY FS_Subset
  <2> QED BY <1>1, <2>1, LatestExists
<1>2. PICK g \in [SUBSET P -> Seq(P)] : IsTaken(g, P, <<>>, C, F)
  <2>1. \A S \in SUBSET P : S # {} => C[S] \in S
    BY <1>1
  <2>2. F \in [P \X Seq(P) -> Seq(P)] /\ <<>> \in Seq(P)
    OBVIOUS
  <2> HIDE DEF C, F
  <2> QED BY <2>1, <2>2, TakenExists
<1>3. g = [S \in SUBSET P |->
             IF S = {} THEN <<>> ELSE Append(g[S \ {LatestOf(S)}], LatestOf(S))]
  <2>1. ASSUME NEW S \in SUBSET P, S # {}
        PROVE  F[<<C[S], g[S \ {C[S]}]>>] = Append(g[S \ {LatestOf(S)}], LatestOf(S))
    <3>1. C[S] = LatestOf(S) /\ LatestOf(S) \in P
      BY <1>1, <2>1
    <3>2. g[S \ {LatestOf(S)}] \in Seq(P)
      OBVIOUS
    <3> QED BY <3>1, <3>2
  <2>2. g = [S \in SUBSET P |-> IF S = {} THEN <<>> ELSE F[<<C[S], g[S \ {C[S]}]>>]]
    BY <1>2 DEF IsTaken
  <2> HIDE DEF C, F
  <2> QED BY <2>1, <2>2
<1>4. PICK h : /\ h = [S \in SUBSET P |->
                        IF S = {} THEN <<>> ELSE Append(h[S \ {LatestOf(S)}], LatestOf(S))]
               /\ Sorted(P) = h[P]
  BY <1>3, SortedIs
<1>5. h[{}] = <<>> /\ \A S \in SUBSET P :
        S # {} => h[S] = Append(h[S \ {LatestOf(S)}], LatestOf(S))
  BY <1>4
<1> DEFINE Bad == {Cardinality(S) : S \in {U \in SUBSET P : ~IsInOrder(h[U], U)}}
<1>6. ASSUME Bad # {} PROVE FALSE
  <2>1. \A S \in SUBSET P : IsFiniteSet(S) /\ Cardinality(S) \in Nat
    BY FS_Subset, FS_CardinalityType
  <2>2. PICK k \in Bad : \A j \in Bad : k <= j
    <3>1. Bad \in SUBSET Nat
      BY <2>1
    <3> HIDE DEF Bad
    <3> QED BY <1>6, <3>1, LeastNat
  <2>3. PICK S \in SUBSET P : k = Cardinality(S) /\ ~IsInOrder(h[S], S)
    BY <2>2
  <2>4. CASE S = {}
    <3>1. IsInOrder(<<>>, {})
      BY EmptySeq DEF IsInOrder
    <3> QED BY <1>5, <2>3, <2>4, <3>1
  <2>5. CASE S # {}
    <3>1. PICK p \in S : p = LatestOf(S) /\ \A q \in S : q.t <= p.t
      BY <1>1, <2>5
    <3>2. Cardinality(S \ {p}) = k - 1 /\ k \in Nat
      BY <2>1, <2>3, FS_RemoveElement
    <3>3. IsInOrder(h[S \ {p}], S \ {p})
      <4>1. Cardinality(S \ {p}) \notin Bad
        BY <2>2, <3>2
      <4> QED BY <4>1
    <3>4. h[S] = Append(h[S \ {p}], p)
      BY <1>5, <2>5, <3>1
    <3> QED BY <2>3, <3>1, <3>3, <3>4, AppendInOrder
  <2> QED BY <2>4, <2>5
<1>7. IsInOrder(h[P], P)
  <2>1. P \in SUBSET P
    OBVIOUS
  <2> QED BY <1>6, <2>1
<1> QED BY <1>4, <1>7

-----------------------------------------------------------------------------
(* Runs of items. *)

CanFollow(run, p) ==
  /\ p.int /\ ~p.guard.on
  /\ Last(run).int /\ ~Last(run).guard.on
  /\ p.at = Plus(Last(run).at, 1)
  /\ p.val = Last(run).val
WithItem(runs, p) ==
  IF runs # <<>> /\ CanFollow(Last(runs), p)
    THEN Front(runs) \o <<Append(Last(runs), p)>>
    ELSE Append(runs, <<p>>)

\* build_merged_ite() goes through the list once.
LEMMA RunsAre ==
  ASSUME NEW items
  PROVE  Runs(items) = (CHOOSE g : g = [S \in SUBSET DOMAIN items |->
           IF S = {} THEN <<>> ELSE WithItem(g[S \ {Max(S)}], items[Max(S)])])[DOMAIN items]
BY DEF Runs, FoldLeft, MapThenFoldSet, CanFollow, WithItem

\* What a run stands for: more than one item in a row are unguarded.
IsRun(run) ==
  /\ run \in Seq(Items) /\ Len(run) \in Nat \ {0}
  /\ \A w \in Worlds : run[1].at[w] <= run[Len(run)].at[w]
  /\ Len(run) = 1 \/ run[1].guard.of = Worlds
AreRuns(runs) == runs \in Seq(Seq(Items)) /\ \A i \in 1 .. Len(runs) : IsRun(runs[i])

HoldsAt(p, e, w) == e[w] = p.at[w] /\ w \in p.guard.of

\* A run of one item.
LEMMA SingleRun ==
  ASSUME NEW p \in Items, NEW e, NEW w \in Worlds
  PROVE  /\ IsRun(<<p>>) /\ Last(<<p>>) = p
         /\ Applies(<<p>>, e, w) <=> HoldsAt(p, e, w)
<1>1. PICK run : run = <<p>>
  OBVIOUS
<1>2. run \in Seq(Items) /\ Len(run) = 1 /\ run[1] = p /\ Head(run) = p
  BY <1>1
<1>3. p.at \in [Worlds -> Int]
  BY ItemType
<1>4. IsRun(run)
  BY <1>2, <1>3 DEF IsRun
<1>5. Last(run) = p /\ (Applies(run, e, w) <=> HoldsAt(p, e, w))
  BY <1>2 DEF Last, Applies, HoldsAt
<1> QED BY <1>1, <1>4, <1>5

\* A run with one item more: it applies where it did and where that item holds.
LEMMA JoinedRun ==
  ASSUME NEW run, IsRun(run), NEW p \in Items, CanFollow(run, p),
         NEW e \in [Worlds -> Int], NEW w \in Worlds
  PROVE  /\ IsRun(Append(run, p))
         /\ Last(Append(run, p)).val = p.val /\ Last(run).val = p.val
         /\ Applies(Append(run, p), e, w) <=> Applies(run, e, w) \/ HoldsAt(p, e, w)
<1>1. PICK n \in Nat \ {0} : n = Len(run)
  BY DEF IsRun
<1>2. PICK long : long = Append(run, p)
  OBVIOUS
<1>3. run \in Seq(Items) /\ run[1] \in Items /\ run[n] \in Items
  BY <1>1 DEF IsRun
<1>4. /\ long \in Seq(Items) /\ Len(long) = n + 1 /\ long[n + 1] = p /\ long[1] = run[1]
      /\ Head(long) = run[1] /\ Last(long) = p /\ Head(run) = run[1] /\ Last(run) = run[n]
  BY <1>1, <1>2, <1>3 DEF Last
<1>5. /\ ~p.guard.on /\ ~run[n].guard.on /\ p.at = Plus(run[n].at, 1) /\ p.val = run[n].val
  BY <1>4 DEF CanFollow
<1>6. p.guard.of = Worlds /\ run[n].guard.of = Worlds
  BY <1>3, <1>5, ItemType
<1>7. run[1].guard.of = Worlds
  BY <1>1, <1>6 DEF IsRun
<1>8. /\ run[1].at \in [Worlds -> Int] /\ run[n].at \in [Worlds -> Int]
      /\ \A u \in Worlds : run[1].at[u] <= run[n].at[u]
  BY <1>1, <1>3, ItemType DEF IsRun
<1>9. \A u \in Worlds : p.at[u] = run[n].at[u] + 1
  <2>1. PICK at \in [Worlds -> Int] : at = run[n].at
    BY <1>8
  <2>2. \A u \in Worlds : Plus(at, 1)[u] = at[u] + 1
    BY PlusIs
  <2> QED BY <1>5, <2>1, <2>2
<1>10. IsRun(long)
  <2>1. \A u \in Worlds : long[1].at[u] <= long[n + 1].at[u]
    <3> TAKE u \in Worlds
    <3>1. run[1].at[u] <= run[n].at[u] /\ run[1].at[u] \in Int /\ run[n].at[u] \in Int
      BY <1>8
    <3> QED BY <1>4, <1>9, <3>1
  <2>2. n + 1 \in Nat \ {0}
    OBVIOUS
  <2> QED BY <1>4, <1>7, <2>1, <2>2 DEF IsRun
<1>11. Applies(long, e, w) <=> run[1].at[w] <= e[w] /\ e[w] <= run[n].at[w] + 1
  <2>1. Len(long) # 1
    BY <1>1, <1>4
  <2> QED BY <1>4, <1>7, <1>9, <2>1 DEF Applies
<1>12. Applies(run, e, w) <=> run[1].at[w] <= e[w] /\ e[w] <= run[n].at[w]
  <2>1. run[1].at[w] \in Int /\ e[w] \in Int
    BY <1>8
  <2>2. CASE n = 1
    BY <1>1, <1>4, <1>7, <2>1, <2>2 DEF Applies
  <2>3. CASE n # 1
    BY <1>1, <1>4, <1>7, <2>3 DEF Applies
  <2> QED BY <2>2, <2>3
<1>13. HoldsAt(p, e, w) <=> e[w] = run[n].at[w] + 1
  BY <1>6, <1>9 DEF HoldsAt
<1>14. Applies(long, e, w) <=> Applies(run, e, w) \/ HoldsAt(p, e, w)
  <2>1. PICK x \in Int, y \in Int, z \in Int :
          x = run[1].at[w] /\ y = run[n].at[w] /\ z = e[w] /\ x <= y
    BY <1>8
  <2>2. x <= z /\ z <= y + 1 <=> (x <= z /\ z <= y) \/ z = y + 1
    BY <2>1
  <2> QED BY <1>11, <1>12, <1>13, <2>1, <2>2
<1> QED BY <1>2, <1>4, <1>5, <1>10, <1>14

\* The byte of the last run that applies.
IsLastRun(runs, e, w, v) ==
  \/ v = Unknown /\ \A i \in 1 .. Len(runs) : ~Applies(runs[i], e, w)
  \/ \E i \in 1 .. Len(runs) : /\ Applies(runs[i], e, w) /\ v = Last(runs[i]).val
                               /\ \A j \in 1 .. Len(runs) : Applies(runs[j], e, w) => j <= i

\* Adding an item to the runs: its byte is the last where it holds.
IsAdded(runs, more, p, e, w) ==
  /\ AreRuns(more)
  /\ HoldsAt(p, e, w) => IsLastRun(more, e, w, p.val)
  /\ ~HoldsAt(p, e, w) => \A v : IsLastRun(runs, e, w, v) => IsLastRun(more, e, w, v)

\* As a run of its own.
LEMMA AddedAlone ==
  ASSUME NEW runs, AreRuns(runs), NEW p \in Items, NEW e \in [Worlds -> Int], NEW w \in Worlds
  PROVE  IsAdded(runs, Append(runs, <<p>>), p, e, w)
<1>1. runs \in Seq(Seq(Items)) /\ <<p>> \in Seq(Items)
  BY DEF AreRuns
<1>2. PICK n \in Nat : n = Len(runs)
  BY <1>1
<1>3. PICK run, more : run = <<p>> /\ more = Append(runs, run)
  OBVIOUS
<1>4. /\ more \in Seq(Seq(Items)) /\ Len(more) = n + 1 /\ more[n + 1] = run
      /\ \A i \in 1 .. n : more[i] = runs[i]
  BY <1>1, <1>2, <1>3
<1>5. IsRun(run) /\ Last(run).val = p.val /\ (Applies(run, e, w) <=> HoldsAt(p, e, w))
  BY <1>3, SingleRun
<1>6. AreRuns(more)
  <2>1. \A i \in 1 .. n + 1 : i = n + 1 \/ i \in 1 .. n
    OBVIOUS
  <2> QED BY <1>2, <1>4, <1>5, <2>1 DEF AreRuns
<1>7. ASSUME HoldsAt(p, e, w) PROVE IsLastRun(more, e, w, p.val)
  <2>1. n + 1 \in 1 .. n + 1 /\ \A j \in 1 .. n + 1 : j <= n + 1
    OBVIOUS
  <2> QED BY <1>4, <1>5, <1>7, <2>1 DEF IsLastRun
<1>8. ASSUME ~HoldsAt(p, e, w), NEW v, IsLastRun(runs, e, w, v) PROVE IsLastRun(more, e, w, v)
  <2>1. \A i \in 1 .. n + 1 : Applies(more[i], e, w) => i \in 1 .. n
    BY <1>4, <1>5, <1>8
  <2>2. \A i \in 1 .. n : i \in 1 .. n + 1
    OBVIOUS
  <2>3. CASE v = Unknown /\ \A i \in 1 .. n : ~Applies(runs[i], e, w)
    BY <1>4, <2>1, <2>3 DEF IsLastRun
  <2>4. CASE \E i \in 1 .. n : /\ Applies(runs[i], e, w) /\ v = Last(runs[i]).val
                               /\ \A j \in 1 .. n : Applies(runs[j], e, w) => j <= i
    <3>1. PICK i \in 1 .. n : /\ Applies(runs[i], e, w) /\ v = Last(runs[i]).val
                              /\ \A j \in 1 .. n : Applies(runs[j], e, w) => j <= i
      BY <2>4
    <3>2. \A j \in 1 .. n + 1 : Applies(more[j], e, w) => j <= i
      BY <1>4, <2>1, <3>1
    <3> QED BY <1>4, <2>2, <3>1, <3>2 DEF IsLastRun
  <2> QED BY <1>2, <1>8, <2>3, <2>4 DEF IsLastRun
<1> QED BY <1>3, <1>6, <1>7, <1>8 DEF IsAdded

\* At the end of the last run.
LEMMA AddedToLast ==
  ASSUME NEW runs, AreRuns(runs), runs # <<>>, NEW p \in Items, CanFollow(Last(runs), p),
         NEW e \in [Worlds -> Int], NEW w \in Worlds
  PROVE  IsAdded(runs, Front(runs) \o <<Append(Last(runs), p)>>, p, e, w)
<1>1. runs \in Seq(Seq(Items)) /\ \A i \in 1 .. Len(runs) : IsRun(runs[i])
  BY DEF AreRuns
<1>2. PICK n \in Nat \ {0} : n = Len(runs)
  BY <1>1, EmptySeq
<1>3. PICK run, long : run = Last(runs) /\ long = Append(run, p)
  OBVIOUS
<1>4. run = runs[n] /\ IsRun(run)
  BY <1>1, <1>2, <1>3 DEF Last
<1>5. /\ IsRun(long) /\ Last(long).val = p.val /\ Last(run).val = p.val
      /\ Applies(long, e, w) <=> Applies(run, e, w) \/ HoldsAt(p, e, w)
  BY <1>3, <1>4, JoinedRun
<1>6. PICK front : front = Front(runs)
  OBVIOUS
<1>7. /\ front \in Seq(Seq(Items)) /\ Len(front) = n - 1
      /\ \A i \in 1 .. n - 1 : front[i] = runs[i]
  <2>1. front = SubSeq(runs, 1, n - 1)
    BY <1>2, <1>6 DEF Front
  <2>2. \A i \in 1 .. n - 1 : runs[i] \in Seq(Items)
    BY <1>1, <1>2, ElementOfSeq
  <2> QED BY <1>2, <2>1, <2>2, SubSeqProperties
<1>8. PICK more : more = front \o <<long>>
  OBVIOUS
<1>9. /\ more \in Seq(Seq(Items)) /\ Len(more) = n /\ more[n] = long
      /\ \A i \in 1 .. n - 1 : more[i] = runs[i]
  <2>1. long \in Seq(Items)
    BY <1>5 DEF IsRun
  <2>2. <<long>> \in Seq(Seq(Items)) /\ Len(<<long>>) = 1 /\ <<long>>[1] = long
    BY <2>1
  <2>3. /\ more \in Seq(Seq(Items)) /\ Len(more) = (n - 1) + 1
        /\ \A i \in 1 .. (n - 1) + 1 : more[i] = IF i <= n - 1 THEN front[i] ELSE <<long>>[i - (n - 1)]
    BY <1>7, <1>8, <2>2, ConcatProperties
  <2>4. n \in 1 .. (n - 1) + 1 /\ ~(n <= n - 1) /\ n - (n - 1) = 1 /\ (n - 1) + 1 = n
    OBVIOUS
  <2>5. \A i \in 1 .. n - 1 : i \in 1 .. (n - 1) + 1 /\ i <= n - 1
    OBVIOUS
  <2> QED BY <1>7, <2>2, <2>3, <2>4, <2>5
<1>10. \A i \in 1 .. n : i = n \/ i \in 1 .. n - 1
  OBVIOUS
<1>11. \A i \in 1 .. n - 1 : i \in 1 .. n /\ ~(n <= i)
  OBVIOUS
<1>12. n \in 1 .. n /\ \A i \in 1 .. n : i <= n
  OBVIOUS
<1>13. AreRuns(more)
  BY <1>1, <1>2, <1>5, <1>9, <1>10, <1>11 DEF AreRuns
<1>14. ASSUME HoldsAt(p, e, w) PROVE IsLastRun(more, e, w, p.val)
  BY <1>5, <1>9, <1>12, <1>14 DEF IsLastRun
<1>15. ASSUME ~HoldsAt(p, e, w), NEW v, IsLastRun(runs, e, w, v) PROVE IsLastRun(more, e, w, v)
  <2>1. \A i \in 1 .. n : /\ Applies(more[i], e, w) <=> Applies(runs[i], e, w)
                          /\ Last(more[i]).val = Last(runs[i]).val
    BY <1>4, <1>5, <1>9, <1>10, <1>15
  <2> QED BY <1>2, <1>9, <1>15, <2>1 DEF IsLastRun
<1> QED BY <1>3, <1>6, <1>8, <1>13, <1>14, <1>15 DEF IsAdded

\* One step of build_merged_ite().
LEMMA AddedItem ==
  ASSUME NEW runs, AreRuns(runs), NEW p \in Items, NEW e \in [Worlds -> Int], NEW w \in Worlds
  PROVE  IsAdded(runs, WithItem(runs, p), p, e, w)
<1>1. CASE runs # <<>> /\ CanFollow(Last(runs), p)
  BY <1>1, AddedToLast DEF WithItem
<1>2. CASE ~(runs # <<>> /\ CanFollow(Last(runs), p))
  BY <1>2, AddedAlone DEF WithItem
<1> QED BY <1>1, <1>2

\* build_ite(): the last run that applies decides.
LEMMA IteIs ==
  ASSUME NEW runs \in Seq(Seq(Items)), NEW e, NEW w, NEW v, IsLastRun(runs, e, w, v)
  PROVE  Ite(runs, e, w) = v
<1>1. PICK n \in Nat : n = Len(runs)
  OBVIOUS
<1>2. PICK hits : hits = {i \in DOMAIN runs : Applies(runs[i], e, w)}
  OBVIOUS
<1>3. hits \subseteq 1 .. n /\ \A i \in 1 .. n : i \in hits <=> Applies(runs[i], e, w)
  BY <1>1, <1>2
<1>4. Ite(runs, e, w) = IF hits = {} THEN Unknown ELSE Last(runs[Max(hits)]).val
  BY <1>2 DEF Ite
<1>5. CASE hits = {}
  BY <1>1, <1>3, <1>4, <1>5 DEF IsLastRun
<1>6. CASE hits # {}
  <2>1. PICK i \in 1 .. n : /\ i \in hits /\ v = Last(runs[i]).val
                            /\ \A j \in 1 .. n : j \in hits => j <= i
    BY <1>1, <1>3, <1>6 DEF IsLastRun
  <2>2. IsGreatest(hits, Max(hits))
    <3>1. hits \in SUBSET Int /\ \A j \in hits : j <= i
      BY <1>3, <2>1
    <3> QED BY <1>6, <3>1, i \in Int, MaxOfBounded
  <2>3. Max(hits) = i
    <3>1. Max(hits) \in 1 .. n /\ Max(hits) <= i /\ i <= Max(hits)
      BY <1>3, <2>1, <2>2 DEF IsGreatest
    <3> QED BY <3>1
  <2> QED BY <1>4, <1>6, <2>1, <2>3
<1> QED BY <1>5, <1>6

\* The last of the first k items that holds.
IsNewest(items, k, e, w, v) ==
  \/ v = Unknown /\ \A i \in 1 .. k : ~HoldsAt(items[i], e, w)
  \/ \E i \in 1 .. k : /\ HoldsAt(items[i], e, w) /\ v = items[i].val
                       /\ \A j \in 1 .. k : HoldsAt(items[j], e, w) => j <= i

\* One item more.
LEMMA NewestOfMore ==
  ASSUME NEW items, NEW k \in Nat, NEW e, NEW w
  PROVE  /\ HoldsAt(items[k + 1], e, w) => IsNewest(items, k + 1, e, w, items[k + 1].val)
         /\ ~HoldsAt(items[k + 1], e, w) =>
              \A v : IsNewest(items, k, e, w, v) => IsNewest(items, k + 1, e, w, v)
<1>1. /\ k + 1 \in 1 .. k + 1
      /\ \A i \in 1 .. k + 1 : i <= k + 1 /\ (i = k + 1 \/ i \in 1 .. k)
      /\ \A i \in 1 .. k : i \in 1 .. k + 1
  OBVIOUS
<1>2. PICK n : n = k + 1
  OBVIOUS
<1> QED BY <1>1, <1>2 DEF IsNewest

\* The first k positions of a list.
LEMMA LastTaken ==
  ASSUME NEW n \in Nat
  PROVE  /\ \A S \in SUBSET (1 .. n) : S # {} => Max(S) \in S
         /\ \A k \in Nat : k + 1 <= n =>
              /\ 1 .. k + 1 \in SUBSET (1 .. n) /\ 1 .. k + 1 # {}
              /\ Max(1 .. k + 1) = k + 1 /\ (1 .. k + 1) \ {k + 1} = 1 .. k
<1>1. ASSUME NEW S \in SUBSET (1 .. n), S # {} PROVE IsGreatest(S, Max(S))
  <2>1. S \in SUBSET Int /\ n \in Int /\ \A v \in S : v <= n
    OBVIOUS
  <2> QED BY <1>1, <2>1, MaxOfBounded
<1>2. ASSUME NEW k \in Nat, k + 1 <= n
      PROVE  /\ 1 .. k + 1 \in SUBSET (1 .. n) /\ 1 .. k + 1 # {}
             /\ Max(1 .. k + 1) = k + 1 /\ (1 .. k + 1) \ {k + 1} = 1 .. k
  <2>1. PICK S : S = 1 .. k + 1
    OBVIOUS
  <2>2. S \in SUBSET (1 .. n) /\ k + 1 \in S
    BY <1>2, <2>1
  <2>3. Max(S) \in S /\ k + 1 <= Max(S)
    BY <1>1, <2>2 DEF IsGreatest
  <2>4. Max(S) = k + 1
    BY <2>1, <2>3
  <2> QED BY <2>1, <2>2, <2>4
<1> QED BY <1>1, <1>2 DEF IsGreatest

\* The nested if-then-else of the runs of a list has the byte of the last item
\* of the list that holds.
LEMMA RunsTell ==
  ASSUME NEW items \in Seq(Items), NEW e \in [Worlds -> Int], NEW w \in Worlds
  PROVE  IsNewest(items, Len(items), e, w, Ite(Runs(items), e, w))
<1> DEFINE V == {runs \in Seq(Seq(Items)) : AreRuns(runs)}
           C == [S \in SUBSET DOMAIN items |-> Max(S)]
           F == [x \in (DOMAIN items) \X V |-> WithItem(x[2], items[x[1]])]
<1>1. PICK n \in Nat : n = Len(items) /\ DOMAIN items = 1 .. n /\ \A i \in 1 .. n : items[i] \in Items
  <2>1. Len(items) \in Nat /\ DOMAIN items = 1 .. Len(items)
    OBVIOUS
  <2>2. \A i \in 1 .. Len(items) : items[i] \in Items
    BY ElementOfSeq
  <2> QED BY <2>1, <2>2
<1>2. <<>> \in V
  <2>1. <<>> \in Seq(Seq(Items)) /\ Len(<<>>) = 0
    BY EmptySeq
  <2> QED BY <2>1 DEF AreRuns
<1>3. ASSUME NEW runs \in V, NEW i \in 1 .. n
      PROVE  WithItem(runs, items[i]) \in V /\ IsAdded(runs, WithItem(runs, items[i]), items[i], e, w)
  <2>1. items[i] \in Items /\ AreRuns(runs)
    BY <1>1
  <2>2. IsAdded(runs, WithItem(runs, items[i]), items[i], e, w)
    BY <2>1, AddedItem
  <2> QED BY <2>2 DEF IsAdded, AreRuns
<1>4. PICK g \in [SUBSET DOMAIN items -> V] : IsTaken(g, DOMAIN items, <<>>, C, F)
  <2>1. \A S \in SUBSET DOMAIN items : S # {} => C[S] \in S
    BY <1>1, LastTaken
  <2>2. F \in [(DOMAIN items) \X V -> V]
    <3> HIDE DEF V
    <3> QED BY <1>1, <1>3
  <2>3. IsFiniteSet(DOMAIN items)
    BY <1>1, FS_Interval
  <2> HIDE DEF C, F, V
  <2> QED BY <1>2, <2>1, <2>2, <2>3, TakenExists
<1>5. g = [S \in SUBSET DOMAIN items |->
             IF S = {} THEN <<>> ELSE WithItem(g[S \ {Max(S)}], items[Max(S)])]
  <2>1. ASSUME NEW S \in SUBSET DOMAIN items, S # {}
        PROVE  F[<<C[S], g[S \ {C[S]}]>>] = WithItem(g[S \ {Max(S)}], items[Max(S)])
    <3> HIDE DEF V
    <3>1. C[S] = Max(S) /\ Max(S) \in DOMAIN items
      BY <1>1, <2>1, LastTaken
    <3>2. g[S \ {Max(S)}] \in V
      OBVIOUS
    <3> QED BY <3>1, <3>2
  <2>2. g = [S \in SUBSET DOMAIN items |-> IF S = {} THEN <<>> ELSE F[<<C[S], g[S \ {C[S]}]>>]]
    BY <1>4 DEF IsTaken
  <2> HIDE DEF C, F, V
  <2> QED BY <2>1, <2>2
<1>6. PICK h : /\ h = [S \in SUBSET DOMAIN items |->
                        IF S = {} THEN <<>> ELSE WithItem(h[S \ {Max(S)}], items[Max(S)])]
               /\ Runs(items) = h[DOMAIN items]
  BY <1>5, RunsAre
<1>7. /\ h[{}] = <<>>
      /\ \A S \in SUBSET (1 .. n) : S # {} => h[S] = WithItem(h[S \ {Max(S)}], items[Max(S)])
  BY <1>1, <1>6
<1> DEFINE Good(k) == /\ h[1 .. k] \in V
                      /\ \E v : IsLastRun(h[1 .. k], e, w, v) /\ IsNewest(items, k, e, w, v)
           Bad == {k \in 0 .. n : ~Good(k)}
<1> HIDE DEF V
<1>8. Good(0)
  <2>1. 1 .. 0 = {} /\ h[1 .. 0] = <<>>
    BY <1>7
  <2>2. Len(<<>>) = 0 /\ \A i \in 1 .. 0 : FALSE
    OBVIOUS
  <2>3. IsLastRun(<<>>, e, w, Unknown) /\ IsNewest(items, 0, e, w, Unknown)
    BY <2>2 DEF IsLastRun, IsNewest
  <2> QED BY <1>2, <2>1, <2>3
<1>9. ASSUME NEW k \in Nat, k + 1 <= n, Good(k) PROVE Good(k + 1)
  <2>1. h[1 .. k + 1] = WithItem(h[1 .. k], items[k + 1])
    <3>1. k + 1 <= n
      BY <1>9
    <3>2. PICK S \in SUBSET (1 .. n) :
            S = 1 .. k + 1 /\ S # {} /\ Max(S) = k + 1 /\ S \ {k + 1} = 1 .. k
      BY <3>1, LastTaken
    <3>3. h[S] = WithItem(h[S \ {Max(S)}], items[Max(S)])
      BY <1>7, <3>2
    <3> QED BY <3>2, <3>3
  <2>2. PICK runs \in V : runs = h[1 .. k]
    BY <1>9
  <2>3. PICK p : p = items[k + 1]
    OBVIOUS
  <2>4. k + 1 \in 1 .. n
    BY <1>9
  <2>5. PICK more : more = WithItem(runs, p)
    OBVIOUS
  <2>6. more \in V /\ IsAdded(runs, more, p, e, w)
    BY <1>3, <2>3, <2>4, <2>5
  <2>7. PICK v : IsLastRun(runs, e, w, v) /\ IsNewest(items, k, e, w, v)
    BY <1>9, <2>2
  <2>8. CASE HoldsAt(p, e, w)
    <3>1. IsLastRun(more, e, w, p.val)
      BY <2>6, <2>8 DEF IsAdded
    <3>2. IsNewest(items, k + 1, e, w, p.val)
      BY <2>3, <2>8, NewestOfMore
    <3> QED BY <2>1, <2>2, <2>3, <2>5, <2>6, <3>1, <3>2
  <2>9. CASE ~HoldsAt(p, e, w)
    <3>1. IsLastRun(more, e, w, v)
      BY <2>6, <2>7, <2>9 DEF IsAdded
    <3>2. IsNewest(items, k + 1, e, w, v)
      BY <2>3, <2>7, <2>9, NewestOfMore
    <3> QED BY <2>1, <2>2, <2>3, <2>5, <2>6, <3>1, <3>2
  <2> QED BY <2>8, <2>9
<1>10. Good(n)
  <2> HIDE DEF Good
  <2> SUFFICES ASSUME Bad # {} PROVE FALSE
    OBVIOUS
  <2>1. PICK k \in Bad : \A j \in Bad : k <= j
    <3>1. Bad \in SUBSET Nat
      OBVIOUS
    <3> QED BY <3>1, LeastNat
  <2>2. k # 0
    BY <1>8, <2>1
  <2>3. PICK j \in Nat : j = k - 1 /\ j + 1 = k /\ j \in 0 .. n /\ ~(k <= j) /\ k <= n
    BY <2>1, <2>2
  <2>4. Good(j)
    BY <2>1, <2>3
  <2>5. Good(k)
    BY <1>9, <2>3, <2>4
  <2> QED BY <2>1, <2>5
<1>11. PICK runs : runs = Runs(items)
  OBVIOUS
<1>12. runs \in V /\ \E v : IsLastRun(runs, e, w, v) /\ IsNewest(items, n, e, w, v)
  BY <1>1, <1>6, <1>10, <1>11
<1>13. PICK v : IsLastRun(runs, e, w, v) /\ IsNewest(items, n, e, w, v)
  BY <1>12
<1>14. runs \in Seq(Seq(Items))
  BY <1>12 DEF V
<1>15. Ite(runs, e, w) = v
  BY <1>13, <1>14, IteIs
<1> QED BY <1>1, <1>11, <1>13, <1>15

\* What load() makes of the items it finds: the byte they tell.
LEMMA ItemsGive ==
  ASSUME NEW P \in SUBSET Items, IsFiniteSet(P), NEW e \in [Worlds -> Int], NEW w \in Worlds,
         NEW v, TellsByte(P, w, e[w], v)
  PROVE  Ite(Runs(Sorted(P)), e, w) = v
<1>1. PICK items : items = Sorted(P)
  OBVIOUS
<1>2. IsInOrder(items, P)
  BY <1>1, SortedInOrder
<1>3. PICK n \in Nat : n = Len(items)
  BY <1>2 DEF IsInOrder
<1>4. /\ \A i \in 1 .. n : items[i] \in P
      /\ \A p \in P : \E i \in 1 .. n : items[i] = p
      /\ \A i, j \in 1 .. n : i < j => items[i].t <= items[j].t
  BY <1>2, <1>3, ElementOfSeq DEF IsInOrder
<1>5. PICK u : u = Ite(Runs(items), e, w)
  OBVIOUS
<1>6. IsNewest(items, n, e, w, u)
  <2>1. items \in Seq(Items)
    BY <1>2, SeqMonotonic DEF IsInOrder
  <2> QED BY <1>3, <1>5, <2>1, RunsTell
<1>7. PICK H : H = Hits(P, w, e[w])
  OBVIOUS
<1>8. \A p \in P : p \in H <=> HoldsAt(p, e, w)
  BY <1>7 DEF Hits, HoldsAt
<1>9. H \subseteq P /\ \A p \in H : p.t \in Int
  BY <1>7, ItemType DEF Hits
<1>10. \/ H = {} /\ v = Unknown
       \/ \E p \in H : p.val = v /\ \A q \in H : q.t < p.t \/ (q.t = p.t /\ q.val = v)
  BY <1>7 DEF TellsByte
<1>11. CASE u = Unknown /\ \A i \in 1 .. n : ~HoldsAt(items[i], e, w)
  <2>1. H = {}
    BY <1>4, <1>8, <1>9, <1>11
  <2> QED BY <1>1, <1>5, <1>10, <1>11, <2>1
<1>12. CASE \E i \in 1 .. n : /\ HoldsAt(items[i], e, w) /\ u = items[i].val
                              /\ \A j \in 1 .. n : HoldsAt(items[j], e, w) => j <= i
  <2>1. PICK i \in 1 .. n : /\ HoldsAt(items[i], e, w) /\ u = items[i].val
                            /\ \A j \in 1 .. n : HoldsAt(items[j], e, w) => j <= i
    BY <1>12
  <2>2. PICK q \in H : q = items[i]
    BY <1>4, <1>8, <2>1
  <2>3. PICK p \in H : p.val = v /\ \A r \in H : r.t < p.t \/ (r.t = p.t /\ r.val = v)
    BY <1>10, <2>2
  <2>4. PICK j \in 1 .. n : p = items[j]
    BY <1>4, <1>9
  <2>5. j <= i
    BY <1>8, <1>9, <2>1, <2>4
  <2>6. p.t <= q.t
    <3>1. j < i \/ j = i
      BY <2>5
    <3> QED BY <1>4, <1>9, <2>2, <2>4, <3>1
  <2>7. q.val = v
    BY <1>9, <2>3, <2>6
  <2> QED BY <1>1, <1>5, <2>1, <2>2, <2>7
<1> QED BY <1>6, <1>11, <1>12 DEF IsNewest

-----------------------------------------------------------------------------
(* What a load finds. *)

\* No byte of the binary is still to come where the image was loaded.
LEMMA NoneToCome ==
  ASSUME NEW m \in Memories, NEW lo \in Int, NEW hi \in Int, NEW a \in lo .. hi, a \in Addrs
  PROVE  ~IsPending(LoadInitData(m, lo, (hi - lo) + 1), a)
<1>1. PICK touched : touched = {c \in m.pending : /\ lo \div PageSize <= c.page
                                                  /\ c.page <= (lo + ((hi - lo) + 1)) \div PageSize}
  OBVIOUS
<1>2. PICK l : l = LoadInitData(m, lo, (hi - lo) + 1)
  OBVIOUS
<1>3. l.pending = m.pending \ touched
  <2>1. \E conc : l = [m EXCEPT !.pending = @ \ touched, !.conc = conc]
    BY <1>1, <1>2 DEF LoadInitData, LoadChunks
  <2> QED BY <2>1 DEF Memories
<1>4. ASSUME NEW c \in l.pending, Covers(c, a) PROVE FALSE
  <2>1. c \in m.pending /\ c \notin touched /\ c \in EmptyMemory.pending
    BY <1>3, MemoryType
  <2>2. a \div PageSize = c.page
    BY <1>4, <2>1, ChunkIsImage
  <2>3. PICK z \in Int : z = lo + ((hi - lo) + 1) /\ lo <= a /\ a <= z /\ a \in Int
    OBVIOUS
  <2>4. lo \div PageSize <= a \div PageSize /\ a \div PageSize <= z \div PageSize
    BY <2>3, PagesInOrder
  <2> QED BY <1>1, <2>1, <2>2, <2>3, <2>4
<1> QED BY <1>2, <1>4 DEF IsPending

\* After loading the image where an address may point, search finds every item
\* that holds there.
LEMMA FindsHits ==
  ASSUME NEW m \in Memories, Placed(m), NEW lo \in Int, NEW hi \in Int, lo .. hi \subseteq Addrs,
         NEW w \in Worlds, NEW a \in lo .. hi,
         \A x \in m.sym : w \in x.item.guard.of => x.lo <= x.item.at[w] /\ x.item.at[w] < x.hi
  PROVE  Hits(Candidates(LoadInitData(m, lo, (hi - lo) + 1), lo, hi), w, a) = Hits(Seen(m), w, a)
<1>1. PICK l : l = LoadInitData(m, lo, (hi - lo) + 1)
  OBVIOUS
<1>2. IsImageLoaded(m, l)
  BY <1>1, LoadedBytes
<1>3. l \in Memories /\ l.sym = m.sym /\ Seen(l) = Seen(m) /\ Placed(l)
  BY <1>2, LoadedSeen, LoadedPlaced DEF IsImageLoaded, IsLoaded
<1>4. ~IsPending(l, a)
  BY <1>1, NoneToCome
<1>5. l.sym \subseteq Files
  BY <1>3, MemoryType DEF Files
<1>6. PICK found : found = Candidates(l, lo, hi)
  OBVIOUS
<1>7. \A p : p \in found <=> \/ \E b \in lo .. hi : p \in Range(l.conc[b])
                             \/ \E x \in l.sym : x.lo < hi + 1 /\ lo < x.hi /\ p = x.item
  BY <1>6 DEF Candidates
<1>8. ASSUME NEW p \in found PROVE p \in Seen(l)
  BY <1>3, <1>7, <1>8, SeenIs DEF IsSeen
<1>9. ASSUME NEW p \in Seen(l), p.at[w] = a, w \in p.guard.of PROVE p \in found
  <2>1. IsSeen(p, l)
    BY <1>3, <1>9, SeenIs
  <2>2. CASE \E b \in Addrs : p \in Range(l.conc[b])
    <3>1. PICK b \in Addrs : p \in Range(l.conc[b])
      BY <2>2
    <3>2. p.at = Const(b) /\ b \in Int
      BY <1>3, <3>1, AddrsAssumption DEF Placed
    <3>3. b = a
      BY <1>9, <3>2, ConstIs
    <3> QED BY <1>7, <3>1, <3>3
  <2>3. CASE \E b \in Addrs : IsPending(l, b) /\ p = ImageItem(b)
    <3>1. PICK b \in Addrs : IsPending(l, b) /\ p = ImageItem(b)
      BY <2>3
    <3>2. b = a
      BY <1>9, <3>1, ImageItemIs
    <3> QED BY <1>4, <3>1, <3>2
  <2>4. CASE \E x \in l.sym : p = x.item
    <3>1. PICK x \in l.sym : p = x.item
      BY <2>4
    <3>2. x.lo <= a /\ a < x.hi
      BY <1>3, <1>9, <3>1
    <3>3. x.lo \in Int /\ x.hi \in Int
      BY <1>5, <3>1 DEF Files
    <3>4. x.lo < hi + 1 /\ lo < x.hi
      BY <3>2, <3>3
    <3> QED BY <1>7, <3>1, <3>4
  <2> QED BY <2>1, <2>2, <2>3, <2>4 DEF IsSeen
<1>10. Hits(found, w, a) = Hits(Seen(l), w, a)
  BY <1>8, <1>9 DEF Hits
<1> QED BY <1>1, <1>3, <1>6, <1>10

\* An address lies between its bounds, and they are addresses.
LEMMA BoundsInside ==
  ASSUME NEW P \in SUBSET Worlds, P # {}, NEW e \in [Worlds -> Addrs], NEW b, b = Bounds(e, P)
  PROVE  /\ b.lo \in Int /\ b.hi \in Int /\ b.lo .. b.hi \subseteq Addrs
         /\ \A w \in P : e[w] \in b.lo .. b.hi
<1>1. Addrs \subseteq Nat /\ \A a \in Addrs : 0 .. a \subseteq Addrs
  BY AddrsAssumption
<1>2. e \in [Worlds -> Int]
  <2>1. Addrs \subseteq Int
    BY <1>1
  <2> QED BY <2>1
<1>3. IsBounds(b, e, P)
  BY <1>2, BoundsAre
<1>4. b.lo \in Addrs /\ b.hi \in Addrs
  BY <1>3 DEF IsBounds
<1>5. b.lo .. b.hi \subseteq 0 .. b.hi
  <2>1. PICK lo \in Nat, hi \in Nat : lo = b.lo /\ hi = b.hi
    BY <1>1, <1>4
  <2>2. lo .. hi \subseteq 0 .. hi
    OBVIOUS
  <2> QED BY <2>1, <2>2
<1> QED BY <1>1, <1>2, <1>3, <1>4, <1>5 DEF IsBounds

\* The invariants make every load sound.
LEMMA LoadTells ==
  ASSUME IInv, Tells, FiniteTrees, ~Merging \/ ~StoreAgain,
         NEW s \in Live, NEW e \in [Worlds -> Addrs]
  PROVE  LoadByte(mem[s], e, path[s]) = [w \in path[s] |-> truth[s][w][e[w]]]
<1>1. /\ s \in States /\ mem[s] \in Memories /\ Placed(mem[s])
      /\ path[s] \in SUBSET Worlds /\ path[s] # {} /\ IsFiniteSet(mem[s].sym)
  BY DEF IInv, TypeOK, Live, FiniteTrees
<1>2. PICK b : b = Bounds(e, path[s])
  OBVIOUS
<1>3. /\ b.lo \in Int /\ b.hi \in Int /\ b.lo .. b.hi \subseteq Addrs
      /\ \A w \in path[s] : e[w] \in b.lo .. b.hi
  BY <1>1, <1>2, BoundsInside
<1>4. PICK l : l = LoadInitData(mem[s], b.lo, (b.hi - b.lo) + 1)
  OBVIOUS
<1>5. PICK found : found = Candidates(l, b.lo, b.hi)
  OBVIOUS
<1>6. IsFiniteSet(found) /\ found \in SUBSET Items
  <2>1. l \in Memories /\ l.sym = mem[s].sym
    BY <1>1, <1>4, LoadedBytes DEF IsImageLoaded, IsLoaded
  <2> QED BY <1>1, <1>3, <1>5, <2>1, CandidatesFinite
<1>7. ASSUME NEW w \in path[s]
      PROVE  Ite(Runs(Sorted(found)), e, w) = truth[s][w][e[w]]
  <2>1. w \in Worlds /\ e[w] \in b.lo .. b.hi /\ e[w] \in Addrs
    BY <1>1, <1>3
  <2>2. ASSUME NEW x \in mem[s].sym, w \in x.item.guard.of
        PROVE  x.lo <= x.item.at[w] /\ x.item.at[w] < x.hi
    <3>1. x.item \in Shared(s, s)
      BY DEF Shared, Before, AllItems
    <3>2. Covering(x, w)
      BY <3>1 DEF IInv, FiledForAll
    <3> QED BY <2>2, <3>2 DEF Covering
  <2>3. Hits(found, w, e[w]) = Hits(Seen(mem[s]), w, e[w])
    BY <1>1, <1>3, <1>4, <1>5, <2>1, <2>2, FindsHits
  <2>4. TellsByte(Seen(mem[s]), w, e[w], truth[s][w][e[w]])
    BY <2>1 DEF Tells
  <2>5. PICK v : v = truth[s][w][e[w]]
    OBVIOUS
  <2>6. TellsByte(found, w, e[w], v)
    BY <2>3, <2>4, <2>5 DEF TellsByte
  <2>7. e \in [Worlds -> Int]
    BY AddrsAssumption
  <2> QED BY <1>6, <2>1, <2>5, <2>6, <2>7, ItemsGive
<1>8. LoadByte(mem[s], e, path[s]) = [w \in path[s] |-> Ite(Runs(Sorted(found)), e, w)]
  BY <1>2, <1>4, <1>5 DEF LoadByte
<1> QED BY <1>7, <1>8

\* The trees are finite at first and after every step.
LEMMA FiniteInductive ==
  /\ Init => FiniteTrees
  /\ TypeOK /\ FiniteTrees /\ [Next]_vars => FiniteTrees'
<1>1. Init => FiniteTrees
  <2>1. EmptyMemory.sym = {}
    BY DEF EmptyMemory
  <2>2. Init => \A s \in States : mem[s] = EmptyMemory
    BY DEF Init
  <2> QED BY <2>1, <2>2, FS_EmptySet DEF FiniteTrees
<1>2. ASSUME FiniteTrees, UNCHANGED vars PROVE FiniteTrees'
  BY <1>2 DEF vars, FiniteTrees
<1> QED BY <1>1, <1>2, KeepsFinite

\* In every reachable state a one-byte load at any address, symbolic or not, gives
\* in every world that reaches the state the byte a byte array would have there:
\* load() looks at enough of the two tables, sorts what it finds, and the nested
\* if-then-else it builds of it, with rows of equal bytes made one case, picks the
\* byte last stored.  The assumptions are those of ContentsTold; run
\* memory_guard_on_image shows what a load gives without the second.
THEOREM LoadsAreSound ==
  ASSUME ~GuardSizes, ~GuardOnImage, ~Merging \/ ~StoreAgain
  PROVE  Spec => []LoadSound
<1> DEFINE I == IInv /\ CInv /\ Tells /\ FiniteTrees
<1>1. Init => I
  BY InitIs, ContentsInit, FiniteInductive
<1>2. I /\ [Next]_vars => I'
  <2>1. IInv => TypeOK
    BY DEF IInv
  <2> QED BY <2>1, IInvInductive, CInvInductive, TellsInductive, FiniteInductive
<1>3. I => LoadSound
  <2> SUFFICES ASSUME I, NEW s \in Live, NEW e \in AddrExprs \cup {Const(a) : a \in Addrs}
               PROVE  LoadByte(mem[s], e, path[s]) = [w \in path[s] |-> truth[s][w][e[w]]]
    BY DEF LoadSound
  <2>1. e \in [Worlds -> Addrs]
    BY AddrsAssumption DEF Const
  <2> QED BY <2>1, LoadTells
<1> QED BY <1>1, <1>2, <1>3, PTL DEF Spec

=============================================================================
