--------------------------- MODULE SymbolicMemory ---------------------------
(***************************************************************************)
(* memory/range_fully_symbolic_memory.py: the memory of an execution state *)
(* whose loads and stores may take symbolic addresses, sizes and guards.   *)
(*                                                                         *)
(* Symbolic data is modelled by its meaning.  A world is one valuation of  *)
(* the program's symbolic inputs; an expression is a function of the       *)
(* world, a condition a set of worlds, a path constraint the set of worlds *)
(* that reach the state.  The solver then is min, max and emptiness over   *)
(* the worlds of the path.  What is checked is that in every world a load  *)
(* returns what a byte array would: the ghost variable truth is that array.*)
(*                                                                         *)
(* The program stores the members of Bytes, the binary comes with positive *)
(* integers, 0 is a byte nobody has named yet and a negative integer is a  *)
(* symbol made by a load of such a byte.  Each state's tables are its    *)
(* own here; PagedMemory and PiTree say when that holds.                   *)
(***************************************************************************)
EXTENDS Integers, Sequences, FiniteSets, SequencesExt, FiniteSetsExt, Folds

CONSTANTS
  States,      (* the execution states                                     *)
  Worlds,      (* the valuations of the symbolic inputs                    *)
  Addrs,       (* bound: the addresses, an initial segment of the naturals *)
  PageSize,    (* page size of the initializable chunks, 0x1000            *)
  Segments,    (* the segments of the binary: an address and bytes         *)
  AddrExprs,   (* the address expressions                                  *)
  SizeExprs,   (* the size expressions of stores                           *)
  Bytes,       (* the bytes that are stored                                *)
  Payloads,    (* the byte strings stored                                  *)
  Conditions,  (* the conditions of guarded stores                         *)
  LoadSizes,   (* the size expressions of loads                            *)
  MaxOps,      (* bound on the operations of a run, so on time and symbols *)
  Merging,     (* are states merged?                                       *)
  Lag,         (* bound: the timestamps given between ancestor and fork    *)
  StoreAgain,  (* is a symbolic address stored to twice, unconditionally?  *)
  GuardSizes,  (* do guarded stores take symbolic sizes?                   *)
  GuardOnImage (* do guarded entries cover bytes of the image not loaded?  *)

ASSUME WorldsAssumption == Worlds # {} /\ IsFiniteSet(Worlds)
ASSUME AddrsAssumption ==
  /\ Addrs \subseteq Nat /\ \A a \in Addrs : 0 .. a \subseteq Addrs
  /\ AddrExprs \subseteq [Worlds -> Addrs]
ASSUME PageSizeAssumption == PageSize \in Nat \ {0}
ASSUME SegmentsAssumption ==
  /\ \A g \in Segments : /\ g.addr \in Nat
                         /\ g.bytes \in Seq(Nat \ {0}) \ {<<>>}
                         /\ g.addr .. g.addr + Len(g.bytes) - 1 \subseteq Addrs
  /\ \A g, h \in Segments : g = h \/ g.addr + Len(g.bytes) <= h.addr
                                  \/ h.addr + Len(h.bytes) <= g.addr
ASSUME SizesAssumption == SizeExprs \cup LoadSizes \subseteq [Worlds -> Nat]
ASSUME PayloadsAssumption == Payloads \subseteq Seq(Bytes) /\ 0 \notin Bytes
ASSUME ConditionsAssumption == Conditions \subseteq (SUBSET Worlds) \ {{}, Worlds}
ASSUME MaxOpsAssumption == MaxOps \in Nat

VARIABLES
  path,   (* path[s]: the worlds that reach s; none once s is gone         *)
  mem,    (* mem[s]: the memory plugin of s                                *)
  truth,  (* truth[s][w][a]: ghost, the byte at a in world w               *)
  anc,    (* anc[s][o]: timestamps of the common ancestor of s and o; with *)
          (* s for o, those below which no later ancestor of s goes        *)
  made,   (* symbols made so far                                           *)
  ops     (* operations so far                                             *)

vars == <<path, mem, truth, anc, made, ops>>

Unknown == 0
NoBytes == [a \in Addrs |-> Unknown]
Tick == ops < MaxOps /\ ops' = ops + 1
Live == {s \in States : path[s] # {}}

\* A guard None, or a condition.
NoGuard  == [on |-> FALSE, of |-> Worlds]
Guard(c) == [on |-> TRUE, of |-> c]
And(g, c) == Guard(g.of \cap c)

Plus(e, k) == [w \in Worlds |-> e[w] + k]
Const(a) == [w \in Worlds |-> a]

\* Faulty: an address with one value left stays symbolic.
BoundsKeepExpr(e, P) ==
  LET lo == Min({e[w] : w \in P})
      hi == Max({e[w] : w \in P})
  IN  [lo |-> lo, hi |-> hi, int |-> lo = hi, at |-> e]

\* min_int and max_int of an expression on a path, and the address made
\* concrete when they coincide.
Bounds(e, P) ==
  LET lo == Min({e[w] : w \in P})
      hi == Max({e[w] : w \in P})
  IN  [lo |-> lo, hi |-> hi, int |-> lo = hi,
       at |-> IF lo = hi THEN Const(lo) ELSE e]

\* MemoryItem(addr, obj, t, guard).
Item(int, at, val, t, guard) ==
  [int |-> int, at |-> at, val |-> val, t |-> t, guard |-> guard]

\* Faulty: the end of the range is left out.
FiledShort(b, k, item) == [lo |-> b.lo + k, hi |-> b.hi + k, item |-> item]

\* An item of the interval tree, under the addresses it may stand for.
Filed(b, k, item) == [lo |-> b.lo + k, hi |-> b.hi + k + 1, item |-> item]

-----------------------------------------------------------------------------
(* The binary. *)

\* What a byte of the binary is, or Unknown.
Image == [a \in Addrs |->
  LET at == {g \in Segments : a - g.addr \in 0 .. Len(g.bytes) - 1}
  IN  IF at = {} THEN Unknown ELSE LET g == CHOOSE g \in at : TRUE IN g.bytes[a - g.addr + 1]]

\* How many bytes of a segment the chunk of a page gets.
Cut(seg, page, left) == Min({left, PageSize, page * PageSize + PageSize - seg.addr})

\* The chunk of a page; only that of the first page may start inside it.
Chunk(seg, page) ==
  LET offset == IF page = seg.addr \div PageSize THEN seg.addr % PageSize ELSE 0
      data   == page * PageSize + offset - seg.addr
      n      == Cut(seg, page, Len(seg.bytes) - data)
  IN  [page |-> page, offset |-> offset, bytes |-> SubSeq(seg.bytes, data + 1, data + n)]

\* The chunks _init_memory() cuts a segment into, one for each of its pages.
Chunks(seg) ==
  {Chunk(seg, page) : page \in seg.addr \div PageSize
                               .. (seg.addr + Len(seg.bytes) - 1) \div PageSize}

Start(c) == c.page * PageSize + c.offset
Covers(c, a) == a - Start(c) \in 0 .. Len(c.bytes) - 1

\* What SymbolicMemory() holds: all chunks of the binary are still to be loaded.
EmptyMemory ==
  [conc    |-> [a \in Addrs |-> <<>>],
   sym     |-> {},
   time    |-> 0,
   implicit |-> 0,
   pending |-> UNION {Chunks(g) : g \in Segments}]

-----------------------------------------------------------------------------
(* Loading. *)

\* Faulty: bytes stored before the page is loaded are overwritten.
StoredBlindly(m, c, a) == FALSE

\* Does the page of a chunk have an entry where the chunk has address a?
Stored(m, c, a) == a \div PageSize = c.page /\ m.conc[a] # <<>>

\* Pending chunks are loaded: they are written at timestamp 0, except where an
\* entry exists.
LoadChunks(m, touched) ==
  LET For(a) == {c \in touched : Covers(c, a) /\ ~Stored(m, c, a)}
      Written(c, a) == <<Item(TRUE, Const(a), c.bytes[a - Start(c) + 1], 0, NoGuard)>>
  IN  [m EXCEPT !.pending = @ \ touched,
                !.conc = [a \in Addrs |->
                  IF For(a) = {} THEN m.conc[a] ELSE Written(CHOOSE c \in For(a) : TRUE, a)]]

\* _load_init_data(addr, size): the chunks of the pages touched.
LoadInitData(m, addr, size) ==
  LoadChunks(m, {c \in m.pending : /\ addr \div PageSize <= c.page
                                   /\ c.page <= (addr + size) \div PageSize})

\* The items a load of the byte between lo and hi may come from.
Candidates(m, lo, hi) ==
  (UNION {Range(m.conc[a]) : a \in lo .. hi})
    \cup {x.item : x \in {y \in m.sym : y.lo < hi + 1 /\ lo < y.hi}}

\* Oldest first, and by address among concrete items of the same time.
Sorted(P) ==
  LET some == CHOOSE w \in Worlds : TRUE
      Addr(p) == IF p.int THEN p.at[some] ELSE 0
      Before(p, q) == p.t < q.t \/ (p.t = q.t /\ Addr(p) < Addr(q))
      Latest(S) == CHOOSE p \in S : \A q \in S : ~Before(p, q)
  IN  MapThenFoldSet(LAMBDA p, items : Append(items, p), <<>>, LAMBDA p : p, Latest, P)

\* build_merged_ite: runs of unguarded concrete items with consecutive
\* addresses and the same byte become one case.
Runs(items) ==
  LET Joins(run, p) ==
        LET q == Last(run)
        IN  /\ p.int /\ ~p.guard.on
            /\ q.int /\ ~q.guard.on
            /\ p.at = Plus(q.at, 1)
            /\ p.val = q.val
      Extend(runs, p) ==
        IF runs # <<>> /\ Joins(Last(runs), p)
          THEN Front(runs) \o <<Append(Last(runs), p)>>
          ELSE Append(runs, <<p>>)
  IN  FoldLeft(Extend, <<>>, items)

\* build_ite: does the case of a run apply to address expression e in w?
Applies(run, e, w) ==
  /\ IF Len(run) = 1 THEN e[w] = Head(run).at[w]
     ELSE Head(run).at[w] <= e[w] /\ e[w] <= Last(run).at[w]
  /\ w \in Head(run).guard.of

\* The nested if-then-else in world w; the newest case is the outermost.
Ite(runs, e, w) ==
  LET hits == {i \in DOMAIN runs : Applies(runs[i], e, w)}
  IN  IF hits = {} THEN Unknown ELSE Last(runs[Max(hits)]).val

\* What a one-byte load at e from memory m returns, world by world.
LoadByte(m, e, P) ==
  LET b == Bounds(e, P)
      loaded == LoadInitData(m, b.lo, (b.hi - b.lo) + 1)
      runs == Runs(Sorted(Candidates(loaded, b.lo, b.hi)))
  IN  [w \in P |-> Ite(runs, e, w)]

\* A concrete address with one unguarded item needs no if-then-else.
IsDirect(m, b, k) ==
  LET P == Candidates(m, b.lo + k, b.hi + k)
  IN  b.int /\ Cardinality(P) = 1 /\ \A p \in P : p.int /\ ~p.guard.on

\* _resolve_size() for a load: the greatest size, and the worlds that have it.
ResolveSize(size, P) ==
  LET n == Bounds(size, P).hi
  IN  [bytes |-> n, worlds |-> {w \in P : size[w] = n}]

\* load(): a symbolic size is made its maximum by a constraint; the image is
\* loaded where the address may point, and every byte that is not direct
\* leaves an implicit store of a new symbol behind, older than all that came
\* before.
Load(s, e, size) ==
  LET n      == ResolveSize(size, path[s]).bytes
      P      == ResolveSize(size, path[s]).worlds
      b      == Bounds(e, P)
      loaded == LoadInitData(mem[s], b.lo, (b.hi - b.lo) + n)
      indirect == {k \in 0 .. n - 1 : ~IsDirect(loaded, b, k)}
      Rank(k)  == Cardinality({j \in indirect : j <= k})
      Symbol(k) == -(made + Rank(k))
      Implicit(k) == Filed(b, k, Item(b.int, Plus(b.at, k), Symbol(k),
                                      loaded.implicit - Rank(k), NoGuard))
      Named(w, a) ==
        IF a - e[w] \in indirect /\ truth[s][w][a] = Unknown
          THEN Symbol(a - e[w]) ELSE truth[s][w][a]
  IN  /\ Tick
      /\ \A w \in P : e[w] + n - 1 \in Addrs
      /\ path' = [path EXCEPT ![s] = P]
      /\ mem' = [mem EXCEPT ![s] =
           [loaded EXCEPT !.sym = @ \cup {Implicit(k) : k \in indirect},
                          !.implicit = @ - Cardinality(indirect)]]
      /\ made' = made + Cardinality(indirect)
      /\ truth' = [truth EXCEPT ![s] = [w \in Worlds |->
           IF w \in P THEN [a \in Addrs |-> Named(w, a)] ELSE NoBytes]]
      /\ UNCHANGED anc

\* __contains__(a): has a memory an item for a?  The image is loaded to tell; a
\* symbolic address is answered with False before anything is touched.  A call
\* that loads nothing changes nothing and is no operation of a run.
HasItem(s, a) ==
  /\ LoadInitData(mem[s], a, 1) # mem[s]
  /\ Tick
  /\ mem' = [mem EXCEPT ![s] = LoadInitData(@, a, 1)]
  /\ UNCHANGED <<path, truth, anc, made>>

-----------------------------------------------------------------------------
(* Storing. *)

\* Is the byte of the image at a still to be loaded, with no entry in its way?
IsPending(m, a) ==
  m.conc[a] = <<>> /\ \E c \in m.pending : Covers(c, a)

\* The entry of a concrete address after a store: an unguarded item replaces
\* it, a guarded one is put before it.
Put(old, item) == IF old = <<>> \/ ~item.guard.on THEN <<item>> ELSE <<item>> \o old

\* What the byte of a store filed as new may take the place of: an unguarded
\* symbolic address takes over an item of the very same address if search
\* finds one; else the byte gets an entry of its own.
Places(sym, new) ==
  LET same == {x \in sym : /\ x.lo < new.hi /\ new.lo < x.hi
                           /\ ~x.item.int /\ x.item.at = new.item.at}
  IN  IF new.item.guard.on \/ same = {} THEN {new} ELSE same

\* The bytes of a store at address b, byte k filed as new[k]: what the memory
\* may become.  The addresses of the bytes differ, so no byte sees another.  An
\* item taken over keeps the range it was filed under.
StoreBytes(m, b, new) ==
  IF b.int
    THEN {[m EXCEPT !.conc = [a \in Addrs |->
             IF a - b.lo \in DOMAIN new THEN Put(@[a], new[a - b.lo].item) ELSE @[a]]]}
    ELSE {[m EXCEPT !.sym = (@ \ Range(place))
             \cup {[place[k] EXCEPT !.item = new[k].item] : k \in DOMAIN new}] :
          place \in {f \in [DOMAIN new -> m.sym \cup Range(new)] :
                       \A k \in DOMAIN new : f[k] \in Places(m.sym, new[k])}}

\* Faulty: the first byte that may be past the size is stored anyway.
ByteGuardLate(cond, size, P, k) ==
  LET z == Bounds(size, P)
  IN  IF z.int \/ k <= z.lo THEN cond
      ELSE IF ~cond.on THEN Guard({w \in Worlds : size[w] > k})
      ELSE And(cond, {w \in Worlds : size[w] > k + 1})

\* The guard of byte k: with a symbolic size, a byte past the least size is
\* stored only where the size exceeds it.
ByteGuard(cond, size, P, k) ==
  LET z == Bounds(size, P)
  IN  IF z.int \/ k + 1 < z.lo THEN cond
      ELSE IF ~cond.on THEN Guard({w \in Worlds : size[w] > k})
      ELSE And(cond, {w \in Worlds : size[w] > k + 1})

\* memory_op() for a store: the size is taken from the data if there is none,
\* and a symbolic size stays one; the data has the greatest size.
SizeFits(data, size, P) == Len(data) = Bounds(size, P).hi

\* store() of the bytes in data.  A condition that is false returns at once
\* and one that is true is dropped, so cond is None or a proper condition.
Store(s, e, data, size, cond) ==
  LET b  == Bounds(e, path[s])
      P  == path[s]
      g(k) == ByteGuard(cond, size, P, k)
      new == [k \in 0 .. Len(data) - 1 |->
                Filed(b, k, Item(b.int, Plus(b.at, k), data[k + 1], mem[s].time + 1, g(k)))]
      Writes(w, a) ==
        /\ w \in P \cap cond.of
        /\ a - e[w] \in 0 .. size[w] - 1
  IN  /\ Tick
      /\ SizeFits(data, size, P)
      /\ \A w \in P : e[w] + Len(data) - 1 \in Addrs
      /\ GuardSizes \/ ~cond.on \/ Bounds(size, P).int
      /\ StoreAgain \/ cond.on \/ b.int
           \/ \A x \in mem[s].sym, k \in 0 .. Len(data) - 1 : x.item.at # Plus(e, k)
      /\ GuardOnImage \/ \A k \in 0 .. Len(data) - 1 :
           b.int /\ g(k).on => ~IsPending(mem[s], b.lo + k)
      /\ \E m \in StoreBytes([mem[s] EXCEPT !.time = @ + 1], b, new) :
           mem' = [mem EXCEPT ![s] = m]
      /\ truth' = [truth EXCEPT ![s] =
           [w \in Worlds |-> [a \in Addrs |->
              IF Writes(w, a) THEN data[a - e[w] + 1] ELSE @[w][a]]]]
      /\ UNCHANGED <<path, anc, made>>

-----------------------------------------------------------------------------
(* Forking and merging. *)

\* The timestamps merge() may find in the history of the common ancestor: they
\* may be older than the fork, as the histories of the two sides part at the
\* start of the step that forks, but no older than the last fork or merge.
Ages(s) ==
  {x \in [time : anc[s][s].time .. mem[s].time,
          implicit : mem[s].implicit .. anc[s][s].implicit] :
     (mem[s].time - x.time) + (x.implicit - mem[s].implicit) <= Lag}

\* A branch on c: the state is copied, and each copy follows one side.
Fork(s, n, c) ==
  LET Within(P) == [w \in Worlds |-> IF w \in P THEN truth[s][w] ELSE NoBytes]
  IN  /\ Tick
      /\ s \in Live
      /\ n \notin Live
      /\ path[s] \cap c # {} /\ path[s] \ c # {}
      /\ path' = [path EXCEPT ![s] = @ \cap c, ![n] = path[s] \ c]
      /\ mem' = [mem EXCEPT ![n] = mem[s]]
      /\ truth' = [truth EXCEPT ![s] = Within(path[s] \cap c),
                                ![n] = Within(path[s] \ c)]
      /\ \E ages \in Ages(s) :
           anc' = [x \in States |-> [y \in States |->
                     IF {x, y} \subseteq {s, n} THEN ages
                     ELSE IF x = n THEN anc[s][y]
                     ELSE IF y = n THEN anc[x][s] ELSE anc[x][y]]]
      /\ UNCHANGED made

\* Faulty: the guard of the store is lost.
GuardAllAnew(entry, c) ==
  [i \in DOMAIN entry |-> [entry[i] EXCEPT !.guard = Guard(c)]]

\* _copy_symbolic_items_and_apply_guard.
GuardAll(entry, c) ==
  [i \in DOMAIN entry |-> [entry[i] EXCEPT !.guard = And(@, c)]]

\* _merge_concrete_memory, one address: equal entries stay, and so does a byte
\* of the image only one side has; else both sides are kept, under guards.
MergeEntry(mine, other, c, d) ==
  LET FromImage(x) == Len(x) = 1 /\ x[1].t = 0 /\ ~x[1].guard.on
  IN  IF mine = other \/ (other = <<>> /\ FromImage(mine)) THEN mine
      ELSE IF mine = <<>> /\ FromImage(other) THEN other
      ELSE GuardAll(mine, c) \o GuardAll(other, d)

\* _merge_symbolic_memory: the items since the common ancestor are guarded,
\* and those of the other side are added.
Since(p, a) ==
  \/ p.t > 0 /\ p.t >= a.time
  \/ p.t < 0 /\ p.t <= a.implicit

\* Faulty: the common ancestor is not looked at.
GuardEvery(sym, a, c) == {[x EXCEPT !.item.guard = And(@, c)] : x \in sym}

\* Those of the items since the ancestor get a guard.
GuardSince(sym, a, c) ==
  {IF Since(x.item, a) THEN [x EXCEPT !.item.guard = And(@, c)] ELSE x : x \in sym}
MergeSymbolic(mine, other, a, c, d) ==
  GuardSince(mine, a, c) \cup GuardSince({x \in other : Since(x.item, a)}, a, d)

\* _load_init_data(index * 0x1000, 1) for pages only the other side has loaded.
Pending(m) == {c.page : c \in m.pending}
LoadPages(m, pages) ==
  LoadChunks(m, {c \in m.pending : \E p \in pages :
                   p <= c.page /\ c.page <= (p * PageSize + 1) \div PageSize})

\* Faulty: the timestamp of the other side is not looked at.
MergedTimeOwn(m, n) == m.time + 1

\* The timestamps of the merged state.
MergedTime(m, n) == Max({m.time, n.time}) + 1
MergedImplicit(m, n) == Min({m.implicit, n.implicit})

\* merge(): o is merged into s under the conditions of the two paths.
Merge(s, o) ==
  LET mine  == LoadPages(mem[s], Pending(mem[s]) \ Pending(mem[o]))
      other == LoadPages(mem[o], Pending(mem[o]) \ Pending(mem[s]))
  IN  /\ Tick
      /\ Merging
      /\ s # o /\ s \in Live /\ o \in Live
      /\ \A x \in Live \ {s, o} : anc[s][x] = anc[o][x]
      /\ GuardOnImage \/ \A a \in Addrs : IsPending(mine, a) <=> IsPending(other, a)
      /\ path' = [path EXCEPT ![s] = @ \cup path[o], ![o] = {}]
      /\ mem' = [mem EXCEPT
           ![o] = EmptyMemory,
           ![s] = [conc |-> [a \in Addrs |->
                     MergeEntry(mine.conc[a], other.conc[a], path[s], path[o])],
                   sym  |-> MergeSymbolic(mine.sym, other.sym, anc[s][o],
                                          path[s], path[o]),
                   time |-> MergedTime(mine, other),
                   implicit |-> MergedImplicit(mine, other),
                   pending |-> mine.pending]]
      /\ truth' = [truth EXCEPT
           ![o] = [w \in Worlds |-> NoBytes],
           ![s] = [w \in Worlds |-> IF w \in path[o] THEN truth[o][w] ELSE @[w]]]
      /\ anc' = [x \in States |-> [y \in States |->
                   IF o \in {x, y} THEN [time |-> 0, implicit |-> 0]
                   ELSE IF x = s /\ y = s
                     THEN [time |-> mem'[s].time, implicit |-> mem'[s].implicit]
                     ELSE anc[x][y]]]
      /\ UNCHANGED made

-----------------------------------------------------------------------------
Init ==
  /\ \E s \in States :
       /\ path = [x \in States |-> IF x = s THEN Worlds ELSE {}]
       /\ truth = [x \in States |-> [w \in Worlds |->
                     IF x = s THEN Image ELSE NoBytes]]
  /\ mem = [s \in States |-> EmptyMemory]
  /\ anc = [s \in States |-> [o \in States |-> [time |-> 0, implicit |-> 0]]]
  /\ made = 0
  /\ ops = 0

Next ==
  \/ \E s \in Live, e \in AddrExprs, size \in LoadSizes : Load(s, e, size)
  \/ \E s \in Live, a \in Addrs : HasItem(s, a)
  \/ \E s \in Live, e \in AddrExprs, data \in Payloads, size \in SizeExprs,
        cond \in {NoGuard} \cup {Guard(c) : c \in Conditions} :
          Store(s, e, data, size, cond)
  \/ \E s, n \in States, c \in SUBSET Worlds : Fork(s, n, c)
  \/ \E s, o \in States : Merge(s, o)

Spec == Init /\ [][Next]_vars

-----------------------------------------------------------------------------
(* Properties. *)

Items ==
  {p \in [int : BOOLEAN, at : [Worlds -> Int], val : Int \cup Bytes, t : Int,
          guard : [on : BOOLEAN, of : SUBSET Worlds]] : p.guard.on \/ p.guard.of = Worlds}
Memories ==
  [conc    : [Addrs -> Seq(Items)],
   sym     : SUBSET [lo : Int, hi : Int, item : Items],
   time    : Nat,
   implicit : {t \in Int : t <= 0},
   pending : SUBSET EmptyMemory.pending]

\* What the code relies on about its tables: an entry of the concrete memory is
\* about its own address, positive times are stores, negative ones implicit
\* stores, and none is outside the counters of the state.
Placed(m) ==
  /\ \A a \in Addrs : \A p \in Range(m.conc[a]) :
       p.int /\ p.at = Const(a) /\ p.t \in 0 .. m.time
  /\ \A x \in m.sym : /\ x.lo < x.hi
                      /\ x.item.t \in (m.implicit .. m.time) \ {0}
                      /\ x.item.t > 0 => ~x.item.int

\* The shape of the memory.
TypeOK ==
  /\ path \in [States -> SUBSET Worlds]
  /\ \A s, o \in States : s # o => path[s] \cap path[o] = {}
  /\ mem \in [States -> Memories]
  /\ truth \in [States -> [Worlds -> [Addrs -> Int \cup Bytes]]]
  /\ anc \in [States -> [States -> [time : Int, implicit : Int]]]
  /\ ops \in 0 .. MaxOps /\ made \in Nat
  /\ \A s \in States : Placed(mem[s]) /\ mem[s].time <= ops /\ -mem[s].implicit \in 0 .. made

\* In every world that reaches a state, a load from it returns the byte last
\* stored there, whatever the mix of symbolic addresses, sizes, guards, forks
\* and merges on the way, and nothing else.
LoadSound ==
  \A s \in Live, e \in AddrExprs \cup {Const(a) : a \in Addrs} :
    LoadByte(mem[s], e, path[s]) = [w \in path[s] |-> truth[s][w][e[w]]]

\* Every item of memory m, wherever it is filed.
AllItems(m) == (UNION {Range(m.conc[a]) : a \in Addrs}) \cup {x.item : x \in m.sym}

\* The items that hold for address a in world w.
Hits(items, w, a) == {p \in items : p.at[w] = a /\ w \in p.guard.of}

\* load sorts by timestamp and lets the later item win, so two items that hold
\* for the same address in the same world never share a timestamp, not even
\* when each comes from a different side of a merge.
UniqueLatest ==
  \A s \in Live :
    LET items == AllItems(mem[s])
    IN  \A w \in path[s], a \in Addrs : \A p, q \in Hits(items, w, a) :
          p.t = q.t => p = q

\* search returns every item whose address may be the one looked for: the
\* range an item is filed under has the address it stands for in every world
\* where it holds.
RangesCover ==
  \A s \in Live : \A x \in mem[s].sym : \A w \in path[s] \cap x.item.guard.of :
    x.lo <= x.item.at[w] /\ x.item.at[w] < x.hi

\* The items of a memory, whatever the ranges they are filed under, tell the
\* contents: the latest one that holds for an address has its byte, and where
\* there is none the address holds its byte of the image or was never named.
ItemsTell ==
  \A s \in Live :
    LET items == AllItems(LoadPages(mem[s], Pending(mem[s])))
        Latest(w, a) == {p \in Hits(items, w, a) :
                           \A q \in Hits(items, w, a) : q.t <= p.t}
    IN  \A w \in path[s], a \in Addrs :
          {p.val : p \in Latest(w, a)} = {truth[s][w][a]} \ {Unknown}

-----------------------------------------------------------------------------
(* The inductive invariant. *)

\* The items of s made before its history and that of o parted.
Before(m, own, a) == {p \in AllItems(m) : own \/ ~Since(p, a)}
Shared(s, o) == Before(mem[s], s = o, anc[s][o])

\* The common ancestors are no later than the states.
Ancestry ==
  \A s, o \in States : /\ anc[s][o] = anc[o][s]
                       /\ anc[s][o].time \in 0 .. mem[s].time
                       /\ anc[s][o].implicit \in mem[s].implicit .. 0

\* Items that hold for the same address in world w have the same timestamp
\* only if they are of the same kind, or the same.
Agree(A, B, w) ==
  \A a \in Addrs : \A p \in Hits(A, w, a), q \in Hits(B, w, a) : p.t = q.t => p.int = q.int
Distinct(A, w) ==
  \A a \in Addrs : \A p, q \in Hits(A, w, a) : p.t = q.t => p = q

\* What would still be there once s and o were merged with z.
OneAtATime ==
  \A s, z \in Live : \A w \in path[z] :
    /\ Distinct(Shared(s, z), w)
    /\ \A o \in Live : Agree(Shared(s, z), Shared(o, z), w)

\* The range an item is filed under has its address in world w.
Covering(x, w) ==
  (Merging => w \in x.item.guard.of) => x.lo <= x.item.at[w] /\ x.item.at[w] < x.hi

\* Without a merge that is so whatever the guard says: an item taken over by an
\* unguarded store keeps its range.  With merges the ranges of guarded items
\* say nothing of the worlds of the other side, so none may be taken over.
FiledForAll ==
  \A s, o \in Live : \A x \in mem[s].sym : \A w \in path[o] :
    x.item \in Shared(s, o) => Covering(x, w)

IInv ==
  /\ TypeOK
  /\ Ancestry
  /\ OneAtATime
  /\ (Merging /\ StoreAgain) \/ FiledForAll

\* Where an address has no entry the binary has a byte for it just when one is
\* still to be loaded, and an item of time 0 is a byte of the binary.
HasImage(m) ==
  \A a \in Addrs : /\ m.conc[a] = <<>> => (IsPending(m, a) <=> Image[a] # Unknown)
                   /\ \A p \in Range(m.conc[a]) : p.t = 0 => Image[a] # Unknown
Imaged == \A s \in States : HasImage(mem[s])

\* What the trees of two states hold from before their histories parted is the
\* same.  Two histories part no earlier than one of them does from a third.
Older(m, a) == {x \in m.sym : ~Since(x.item, a)}
Alike == \A s, o \in Live : Older(mem[s], anc[s][o]) = Older(mem[o], anc[s][o])
NoLater(b, a) == b.time <= a.time /\ b.implicit >= a.implicit
Nested ==
  \A s, o, r \in Live : NoLater(anc[s][r], anc[s][o]) \/ NoLater(anc[o][r], anc[s][o])

\* What it takes, beside IInv, for the items to tell the contents.
CInv ==
  /\ Imaged
  /\ Nested
  /\ StoreAgain \/ Alike

=============================================================================
