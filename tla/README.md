# Memsight in TLA+

Memsight replaces the memory of the angr symbolic executor by one in which
loads and stores at symbolic addresses are never concretised: a store files an
item under the range of addresses it may touch, stamped with a time, and a load
collects the items that may match and nests them into an if-then-else, newest
outermost. This directory models that memory and the data structures under it,
checks the models with TLC and, with TLAPS, proves for every size what the checks
show of what loads return, of object sharing, of both interval trees, of the search,
of the memory map and of the executor.

## 1. The system

| Component | Source | State | Operations |
| --- | --- | --- | --- |
| symbolic memory: contents | `memory/range_fully_symbolic_memory.py` | a concrete table, an interval tree of items, two timestamps, the chunks of the binary not loaded yet | `load`, `store`, `_load_init_data`, `copy`, `merge`, `__contains__` |
| symbolic memory: search | same file | a window of the memory, a budget of symbolic bytes | `find` |
| symbolic memory: memory map | same file | sorted list of regions, the stack range | `map_region`, `unmap_region`, `_preapproved_stack`, `permissions`, `check_sigsegv_and_refine` |
| concrete memory, paged | `memory/lib/paged_memory.py` | page table, set of pages owned, a default dict shared by the class | `__getitem__`, `__setitem__`, `find`, `copy` |
| concrete memory, flat | `memory/lib/unpaged_memory.py` | dict, cached pages | the same, `_pages` |
| paged interval tree | `memory/lib/pitree/pitree.py`, `interval.py` | a tree of pages, each a tree of items and a lookup dict; lazy flags at both levels | `add`, `search`, `update_item`, `copy` |
| inner interval tree | `memory/lib/pitree/intervaltree.py`, `node.py` | an AVL tree with subtree maxima | `add`, `search` for a range or a point, `linear_search`, `copy` |
| plain list | `memory/lib/pitree/untree.py` | a list | the interface of the paged tree; its test oracle |
| chunks of the binary | `_init_memory`, `memory/lib/sorted_collection.py` | a sorted list of page-sized chunks | `insert`, `find_ge`, `remove`, `copy` |
| executor | `executor/executor.py` | states active, found, avoided | `run`, `explore` |
| earlier memories | `memory/naive_*.py`, `memory/simple_*.py`, `range_map.py`, `range_tree.py` | superseded | |

**Interactions.** The executor steps states with angr; angr calls `load` and
`store` of the state's memory plugin and copies the plugin whenever it copies
the state; with merging on, it calls `merge` with the states to join, their
conditions and their common ancestor. The plugin owns one concrete memory and
one interval tree; copies of a plugin share the objects below these, and every
structure has its own scheme for hiding that (copy-on-write pages, lazy trees,
plain copies). A second plugin holds the registers.

**What is hard.** Nothing runs in parallel; the hard part is *sharing and
order*. (1) Copies that share objects must not be seen by one another, whatever
the order in which states are stepped. (2) What a load returns is a matter of
the order of timestamps, of guards and of the address ranges computed under the
path constraint of the moment; states that are copied, constrained differently
and merged mix items made under different constraints. (3) The bytes of the
binary are loaded lazily, so the effect of a store depends on which loads came
before it. (4) Many conditions sit on boundaries: page borders, region ends,
sizes.

**What makes each component correct.**

* Concrete memories: each object behaves as a private map (`PrivateStores`);
  `find` returns exactly the stored addresses of its range; cached pages are
  never stale.
* Paged interval tree: it behaves as the plain list; a search misses no item; an
  item that was found can be updated; the statistics count the items.
* Inner interval tree: balanced, with correct subtree maxima, and again the plain
  list to its users; the search prunes no subtree that has a match.
* Symbolic memory: in every world, that is for every value of the symbolic
  inputs, a load returns the byte a byte array would hold.
* Search: it returns in every world the first match among the candidates it may
  look at, and fails on account of no memory it has no need of.
* Memory map: the segfault check of a symbolic address agrees with the
  permissions of each of its values; the permissions of an address are those of
  its region; no load meets what `unmap_region` leaves behind.
* Executor: exploration ends after `max_rounds` rounds and reports a target only
  when a state reached it; and a state that reached one is reported.

## 2. The modules

| Module | Models | Kind |
| --- | --- | --- |
| `PrivateStores` | what a concrete memory promises | abstract specification |
| `PagedMemory` | `paged_memory.py` | implements `PrivateStores` |
| `PagedMemoryProofs` | | proofs |
| `UnpagedMemory` | `unpaged_memory.py` | implements `PrivateStores` |
| `UnpagedMemoryProofs` | | proofs |
| `Untree` | `untree.py` | abstract specification |
| `PiTree` | `pitree.py`, `interval.py` | implements `Untree` |
| `PiTreeProofs` | | proofs |
| `IntervalTree` | `intervaltree.py`, `node.py` | implements `Untree` |
| `IntervalTreeProofs` | | proofs |
| `SymbolicMemory` | contents of `range_fully_symbolic_memory.py` | checked against a byte array |
| `SymbolicMemoryProofs` | | proofs |
| `MappedRegions` | memory map of the same file | operations and readers of the list of regions |
| `AddressSpace` | the map, loads, stores and unmapped bytes, extends `MappedRegions` | composition |
| `AddressSpaceProofs` | | proofs |
| `MemorySearch` | `find` of the same file | checked against a definition, with liveness |
| `MemorySearchProofs` | | proofs |
| `Executor` | `executor.py` | loops, with liveness |
| `ExecutorProofs` | | proofs |
| `MC*` | | the small instances TLC runs |

### Correspondence with the code

**`PagedMemory`.** Objects matter, so they have names. `dict[h]` is the object
the attribute `_pages` of memory `h` refers to: its own copy or `Default`, the
`dict()` evaluated once as the constructor's default argument. A page is named
by the memory that made it and by its index; `table[d][i]` is the maker of the
page at index `i` of table `d`, and `page[h][i]` what that page holds. `cowed`
is `_cowed`. `New`, `SetItem` and `Copy` are the constructor, `__setitem__` and
`copy`; `SetItem` has the two branches of the code, `WriteOwnPage` (no page, or
a page not in `_cowed`: make one, or copy it) and `WriteInPlace`. `FindShort`
and `FindLong` are the two paths of `find`, chosen by the length of the range.

**`UnpagedMemory`.** `entry[d]` is a dict, `cached[h]` the attribute
`_cached_pages`; `LookAtPages` is the property `_pages`, which fills it.

**`PiTree`.** A heap of directories (the pair `_pages`, `_lookup` of a tree),
page trees and lookup dicts, all named so that sharing is explicit; names are
reused once nothing refers to them. `TreeCopyOnWrite` and `PageCopyOnWrite` are
the two levels of `_copy_on_write`. A lookup entry keeps the hash it was filed
under (`key`) apart from the `Interval` object it leads to (`obj`), because the
object's hash changes when `update_item` changes its data. The inner interval
trees are taken at their interface, a set with an overlap search.

**`IntervalTree`.** What `PiTree` takes at its interface: a heap of nodes, as the
rotations rewire parents and children in place. A tree's `Root` object, whose left
child alone is used, has the name of the tree. `Lift` is both rotations, each the
mirror image of the other in the code, `Restore` the choice between single and
double rotation. `Node.add` and `Node.rebalance` call themselves for the next node
down and up; each of these calls is a step, `Descend` or `Attach` and then `Rebalance`
until the first rotation or the root, and `call` is the call that is under way, which
no other operation interrupts. The searches for a range and for a point prune alike but
compare differently: the end of an interval is outside for the one, the begin for
the other. They and the nodes of a subtree are recursive functions on the names of
nodes. `Copy` clones every node and, like the code, not the
count. Both trees implement the same abstract specification; of the two operations
`Untree` has for changing a tree, the inner tree has `Add`, which takes effect at
`Attach`.

**`SymbolicMemory`.** Symbolic data is modelled by its meaning. A *world* is one
valuation of the symbolic inputs; an address expression is a function from
worlds to addresses, a condition a set of worlds, and the path constraint of a
state the set of worlds that reach it. What the code asks the solver (minimum,
maximum, satisfiability) is then min, max and emptiness over these worlds.
`mem[s]` is the plugin of state `s`: `conc` the concrete entries (a sequence,
empty for none; the code has one item or a list), `sym` the items of the tree
with the range each is filed under, `time` and `implicit` the two timestamps,
`pending` the chunks of the binary not loaded yet. The binary is given as
`Segments`; `Chunks` cuts them at page borders as `_init_memory` does, with a
partial first and last chunk and several chunks in a page, and `LoadInitData`
loads all chunks of the pages an access touches. The chunks of a segment, of a
pending page and the bytes of a store do not interfere, and the loops over them are
sets and functions here: `Chunks`, `LoadChunks` and `StoreBytes`, where byte `k` may
take the place of any of `Places`, as the tree gives its items in no order. `Load`, `Store`, `Fork` and
`Merge` are `load`, `store`, `copy` (with the two branch conditions angr then
adds) and `merge`, each with everything it does: the load of the binary's bytes,
the implicit store a load of an unknown byte leaves, the slices of a store of
several bytes with the guard of each, the replacement of an item in place, the
pages merged before the entries. `truth` is a ghost: for each world the byte
array the state would have if every address were concrete. `HasItem` is
`__contains__`, which loads the binary's bytes to answer. One copy of a `Fork`
keeps the name of the source. The timestamps `merge` asks the common ancestor for
are in its history, and the histories of two sides part where the step began that
forked: `Ages` lets them be older than the fork, by at most `Lag`.

**`MappedRegions` and `AddressSpace`.** `regions` is the list `_mapped_regions`,
kept sorted by `Insert`, which is `append` and a stable `sorted`; `SetStack` is
the setter of `_preapproved_stack`. `UnmapRegion` leaves the map as it is where the
assertion about the length fails, after `Unmap` has stored the zeros. `Visit` is one turn of the loop of
`check_sigsegv_and_refine`, whose solver queries range over the set of values
the address may have. `AddressSpace` adds `load` and `store` as the map sees them:
`Passes` is the segfault check, made with the values of the first byte and only
with the option STRICT_PAGE_ACCESS, and `integers` are the bytes whose item is the
Python integer 0 of `unmap_region`, where every other writer has an expression. A
load of several bytes finds the items of every address from its least to its
greatest value on; `met` says that one was such an integer. `rules` is what the
client can be relied on for.

**`MemorySearch`.** Offsets count from the start of the search. `Stay`, `Reload`
and `Compare` are the turns of the loop of `_find`, cut at the load of a window,
which may not return (`pc` is then "fault"); `cases` are the comparisons it has
collected, `Return` the if-then-else and the constraint made of them. What loads
return is fixed while a search runs, and is the content of memory in every world
(`LoadSound`).

**`Executor`.** `RunRound` and `ExploreRound` are one turn of the loops of `run` and
`explore`; `RunEnds` and `ExploreEnds` are what follows the loops. `explore` moves
the paths itself, and fails on one that is on its list twice (`Twice`). A stash of
angr's simulation manager is the set of addresses its paths are at. `Stepped` is
external: a step of angr gives each path some of its successors. `k` is the
loop counter, which `explore` also uses to count the instructions it prints.

## 3. The checks

| Run | Instance | Shows |
| --- | --- | --- |
| `paged_discipline` | 3 memories, 2 values, 2 pages of 2 addresses | with one root and no write after a copy, page sharing is invisible (`IsPrivateStore`) and `find` is exact for ranges that are short, aligned, or start in a page that exists; `IInv` is the invariant that is proved |
| `unpaged` | 2 memories, 2 values, 2 pages of 2 | the flat memory is private also when a copied memory is written; the cached pages are never stale |
| `pitree_bursts` | 3 trees, 3 spans, 5 data | trees written one at a time behave as the plain list; search is exact; a found item can be updated; counts match; `IInv` is the invariant that is proved |
| `intervaltree` | 2 trees, 5 spans, 6 nodes | in any order of insertions, with duplicates and with a copy in between, nodes know their parents and ends at every call of an add (`TypeOK`), and between adds the tree is balanced (`Balanced`), its three searches exact (`SearchIsExact`), and it behaves as the plain list (`IsUntree`) |
| `memory_forks` | 2 states, 3 worlds, 3 addresses, 5 operations | loads and stores of one or two bytes, of symbolic size and guarded, with forks: `LoadSound`, `ItemsTell`, `TypeOK`; `IInv` is the invariant that is proved |
| `memory_merge` | 3 states, 4 worlds, 3 addresses, 5 operations | the same with merges in any nesting and stores of one byte: `LoadSound`, `UniqueLatest`, `RangesCover`; `CInv` is what the proof of `ItemsTell` adds to `IInv`; the common ancestor may be one timestamp older than the fork |
| `executor` | all programs of 4 instructions with 2 of them free; `max_rounds` None, 0, 1, 3 | `run` ends after `max_rounds` rounds, both loops end in programs without a cycle; a path that is found came to a target, past no address to avoid, and is reported unless `explore` fails on a target that is to be avoided |
| `search` | 2 worlds, 5 bytes of 4 expressions, windows of 2 or 3, steps 1 and 2, budgets none, 0 and 2 | a search through several windows ends (`Terminates`), compares whole candidates (`InsideWindow`), returns the first match of every world and the constraint for it (`FindsFirst`, `KeepsFound`), and on bytes without symbols opens no window in vain (`FaultIsForMissing`) |
| `address_space` | 6 addresses, up to 3 regions, accesses of 1 and 2 bytes, a client with no rules and one with all | the list stays sorted, the segfault check agrees with `permissions()` at each value (`CheckIsPointwise`), `permissions()` answers for the region of the address (`PermissionsOfRegion`), and no load meets an unmapped byte (`NoIntegerMet`) |

Three runs expect a violation. Each checks one statement of a comment, a test or
the design documents that the code does not meet:

| Run | What TLC finds |
| --- | --- |
| `paged_find_large` | for long ranges that start inside a page that does not exist, `find` skips entries of later pages |
| `memory_guard_on_image` | a guarded store to a byte of the binary not loaded yet hides that byte where the guard is false |
| `memory_merge_lost` | a store that replaces an item older than the fork in place erases it for the other side of a later merge |

**Client constants.** Some constants say what the client does, and the passing
runs restrict it where the code does not meet its specification otherwise:

| Constant | FALSE means | Set to TRUE |
| --- | --- | --- |
| `ManyRoots` | one memory is built from scratch, the rest are copies | `IsPrivateStore` fails: the default dict is one object, and a second memory built from scratch starts with the contents of the first. The memory and the register plugin of a program are two such roots; they stay apart only because register offsets are no valid addresses |
| `WriteAfterCopy` | a memory that was copied is written no more. This is how angr steps a state: successors are copies, the state they were copied from stays in the history unwritten | `copy` leaves `_cowed` of the source as it is, so the source writes into pages its copies use; `IsPrivateStore` fails |
| `Interleave` | trees are written one at a time, from the copy that made the tree on, which is again how states are stepped | page copies share one lookup dict, which `_copy_on_write` of one copy refills with its own objects; an update through a sibling then changes the wrong tree; `IsUntree` fails |
| `Reupdate` | a copy lies between two updates of one item | the dict key keeps the hash of the data it was filed with, and the second update raises `KeyError`; `UpdateFindsItem` fails |
| `StoreAgain` (with merges) | no symbolic address is stored to twice without a guard | run `memory_merge_lost`; also `RangesCover` fails: the item that is replaced keeps the range of the branch that filed it, narrower than the merged path needs |
| `GuardSizes` | guarded stores have a concrete size | `LoadSound` fails: byte `k` is stored where the size exceeds `k` if the store has no condition, but where it exceeds `k + 1` if it has one, so the last byte is never stored |
| `GuardOnImage` | no guarded entry is made over a byte of the binary that is still to be loaded, by a store or by a merge | run `memory_guard_on_image`; with merges also `_merge_concrete_memory`, which loads only pages that one side has loaded and the other has not |

The client of `AddressSpace` follows a set of rules, the instance has all of them
or none. `NoIntegerMet` is checked for a client that follows all six. That each is
needed is not a question of a run: it was found with TLC by giving `RuleSets` the
set without that rule and stating `~met` for it. Each time a load comes upon an
integer, on which `load` calls the methods of an expression and ends the process.

| Rule | Without it |
| --- | --- |
| `apart`: a region leaves a byte free on either side | unmapping a region leaves integers in one that overlaps it, or at the end of one that touches it; and `permissions` answers for the first address of a region with the region before, since both count the end of a region as inside (`PermissionsOfRegion` fails) |
| `fresh`: it does not lie on or next to bytes that were unmapped | `map_region` does not touch contents, so what is mapped again still has the integers |
| `whole`: what is unmapped is a region | `unmap_region` stores its zeros whether there is a region at the address or not |
| `strict`: states have STRICT_PAGE_ACCESS | there is no check at all. The repository does not set the option, so as it ships a load of an unmapped byte meets the integer |
| `inside`: an access that starts in a region goes no further | the check is given the first byte only |
| `interval`: the values of a symbolic address have no gaps | a load searches the items of all addresses from the least to the greatest value, the check asks for the values alone |

The client with no rules unmaps nothing, to bound the states; `CheckIsPointwise`
and the sorted list need no rule.

Two runs hold where the code has a limit that the property states.
`FaultIsForMissing` is about bytes and strings without symbols: among symbolic
bytes a match does not end the search, however certain, so that a search that has
met its string in every world goes on to the next window and fails there if it
starts in unreadable memory. `load` is asked not to fail then (`ret_on_segv`), but
never reads the parameter. And `FoundIsReported` excepts a target that is also to be
avoided, which makes `explore` fail, whereas `run` leaves the decision to angr.

`MayWrite` in `PiTree` is external for this reason: it is a statement about angr.

**Bounds, and why they are enough.** *Memories and trees*: three handles allow a
copy of a copy beside its source, the longest chain of sharing the code tells
apart; two pages of two addresses give every case of a page border, an unaligned
start and a missing page. *Spans*: within a page, over a border, and longer than
a page. *Data*: `MaxData` bounds adds and updates together; five let three trees
each be written after a copy. *Worlds*: three worlds and a branch on every set of
them give three states with one world each, states with one value left for an
address that was symbolic before (which the code then treats as concrete), and
guards that hold for part of a state. The merge run has a fourth world and one
address expression that two worlds agree on, so that concrete entries at the same
address also come from two sides and from one side with two worlds. *Addresses*: pages of two; the
binary's one segment straddles a page border in `memory_forks`, with a partial first
and last chunk, and fills a page in the other runs of the memory; both leave an address
the binary has nothing at. Two segments in one page are in no run, only in the theorems,
which hold for any segments that do not overlap. *Operations*: `MaxOps` bounds the time,
the number of items and of symbols; five are two stores, a fork, a load and a
store, after which `LoadSound` looks at every address; they are also two forks, a
store and two merges, or a fork, a store on either side, the merge and a store to
what it made. *Nodes*: five insertions
are the fewest that reach a double rotation below the root; with six, both trees rotate
when a copy is made of two nodes. *Programs*: two free instructions give branches,
self-loops, a cycle of two and dead ends; the address to avoid leads to the target,
so that missing it shows. *Regions*: three regions over six addresses nest, touch,
overlap, coincide and leave gaps; with six addresses a client that keeps its regions
apart has two, and can unmap one and replace it. *Search*: windows of two and three
bytes over five that vary make up to four windows, with candidates across each
border; a budget of two is spent before, at and after a match. *Lag*: one timestamp
is enough for an item to be stored between the ancestor and the fork, and so to be
on both sides of a merge. `CHECK_DEADLOCK FALSE` is set because the
models stop at their bounds, or when all handles are in use.

**Fairness.** `Executor` has weak fairness of its next-state relation: the loops
are sequential code and go on unless a call of angr does not return, which is
outside the model. With it `Terminates` says that `run` ends within `max_rounds`.
It does not ask this of `explore`: there the counter is reset to the number of
instructions printed, one per round, so with `max_rounds` of two or more and a
program that loops it never stops, and TLC finds that behaviour when the property
is stated for both. `MemorySearch` has the same fairness for the same reason: a
search is sequential code, and a load returns or raises. No other module assumes
fairness: the other components are passive, each call returns, and nothing in them
waits.

## 4. The proofs

### Concrete memories

For every number of memories, pages, addresses and values:

* `PagedMemoryProofs!Typed`: `TypeOK` is invariant, under any client.
* `PagedMemoryProofs!Owned`: `IInv` is invariant if the client has one root and
  writes no memory it has copied (`~ManyRoots`, `~WriteAfterCopy`).
* `PagedMemoryProofs!PagesAreInvisible`: under the same assumptions
  `Spec => IsPrivateStore`.
* `PagedMemoryProofs!FoundExactly`: `FindExactFromPage` is invariant, under any
  client.
* `UnpagedMemoryProofs!PagesFresh`: `IInv` of the flat memory is invariant if the
  client has one root.
* `UnpagedMemoryProofs!DictsAreInvisible`: then `Spec => IsPrivateStore`.

*The argument for pages.* That copies cannot see one another is not inductive.
A write goes in place exactly when the index is in `_cowed`, so what is needed is
that such a page is the writer's own (`OwnsCowedPages`) and that nobody who may
still read it through another table expects it to stay: a page in a table other
than its maker's belongs to a memory that has been copied
(`SharedOnlyIfCopied`), which the client no longer writes. `TablesPrivate` keeps
the tables apart, and holds because `DefaultStartsEmpty` and one root mean that
at most one memory uses the default dict. Each action preserves the conjunction;
the refinement then needs only that a write changes what its own memory reads at
one address, and nothing for others. Dropping either assumption makes the
invariant false, as the constants above show.

*The argument for `find()`.* The loop over addresses is a recursive function, and what
it computes would take an induction over the address. Instead the proof exhibits the
function it should be, shows that it satisfies the equation of the loop, and that no
other does: at the greatest address where another differed, the next turn of both,
which the page skipped or the address after decides, is the same. The loop over pages
is no recursion and needs the arithmetic of pages only.

*The argument for the flat memory* needs only that dicts are private and that
every write resets the cache.

### The paged tree

For every number of trees, intervals, keys and page sizes:

* `PiTreeProofs!Sharing`, `Typed`, `Counted`, `Searched`: `IInv`, `TypeOK`,
  `CountsMatch` and `SearchIsExact` are invariant, under any client.
* `PiTreeProofs!PagesAreInvisible`: `Spec => IsUntree` if trees are written one at a
  time (`~Interleave`).
* `PiTreeProofs!Updatable`: then `UpdateFindsItem` is invariant if also a copy lies
  between two updates of an item (`~Reupdate`).

*The argument.* An operation first makes its tree the owner of a directory, then its
page the owner of a page tree, then writes. `DirsPrivate` and `TreesPrivate` say that
a flag `lazy` that is off means ownership: nobody else refers to the directory, and
to the page tree only the same page of the same directory. So the write is seen by
one tree, under any client, and what an operation does to the heap comes down to one
slot of one page. New objects need names nobody uses: the pages in use are at most one
for each tree and key, and a pigeonhole argument finds one left over while a page
gives up its own. `FiledByKey` keeps each item on the page of its key and in one
slot; hence a search of the pages that overlap the range is exact, and the two
counters are cardinalities. The lookup dicts are what is not owned: a copy of a page
refills the dict it shares with its source. `LookupsOwn` states what remains of it,
for the tree that is being written only, and holds for clients with `~Interleave`;
the refinement uses it where `update_item` goes through the dict. That the entry is
there at all needs the hash to be the one it was filed under, so only an item not
updated since the last copy has it: `Updatable`.

### The inner tree

For every set of intervals, number of trees and nodes, and every sequence of adds and
copies, with duplicates and equal begins:

* `IntervalTreeProofs!Typed`: `TypeOK` is invariant, also in the middle of an add.
* `IntervalTreeProofs!LevelTrees`: `Balanced` is invariant.
* `IntervalTreeProofs!Searched`: `SearchIsExact` is invariant.
* `IntervalTreeProofs!ImplementsUntree`: `Spec => IsUntree`.

*The argument.* None of the properties is inductive, as each speaks of subtrees and a
rotation changes what these are. What a subtree is cannot be proved by induction over
the heap. The invariant therefore says that *there is* a function `B` that splits the
heap as subtrees do: `B[x]` is `x` and, disjoint, the `B` of its two children
(`Partition`, `Closed`). Every step exhibits the `B` of its successor: a new leaf is
added to those it lies below, a rotation changes those of the two nodes that trade
places, a copy names the clones. That the subtrees the model computes are `B` is shown
once (`SubtreesAre`): `B` satisfies their equation, and so no other function does, as
at a lowest node where one differed its children would agree. On top of `B` stand the
links between parents and children (`Linked`), the trees apart (`Apart`), the order of
begins, the ends and the depths, and for the last three what is wrong of them while an
add is under way, for which the invariant has three cases (`Resting`, `Sinking`,
`Rising`). On the way down the nodes passed know an end that is not below them yet;
the place the item will have fits all of them. On the way up one node at most does not
know a depth of its own, because one side of it has grown by one (`Telling`). Told, it
is out of balance by two at most, and after one rotation or two its subtree is as deep
as it was before the add (`Restored`), which is why the walk may end there. The order
allows equal begins on both sides, as rotations bring them to the left.

A search is exact because what it leaves out has no match (`PrunedSearch`): on the left
nothing ends late enough, on the right nothing begins early enough. The refinement
takes the items of a tree for its list: rotations keep `B` of the root as a set, a step
`Attach` adds one item to one tree, and the clones have the items of their sources.

The invariant, with the subtrees for `B`, was found to hold on all states of the run
`intervaltree` before it was proved. No assumption about the client is needed.

### The contents of the symbolic memory

For every set of worlds (finite), every binary, page size, expressions, guards, states
and histories of loads, stores, forks and merges:

* `SymbolicMemoryProofs!Invariance`, `Typed`: `IInv` and `TypeOK` are invariant.
* `SymbolicMemoryProofs!LatestIsUnique`: `UniqueLatest` is invariant.
* `SymbolicMemoryProofs!Covered`: `RangesCover` is invariant if nothing is merged, or
  no symbolic address is stored to twice without a guard (`~Merging \/ ~StoreAgain`).
* `SymbolicMemoryProofs!ContentsKept`: `CInv`, which the next two rest on beside `IInv`,
  is invariant if no condition is over bytes of the binary still to come
  (`~GuardOnImage`), merges and repeated stores included.
* `SymbolicMemoryProofs!ContentsTold`: `ItemsTell` is invariant if that is so, no condition
  is about a symbolic size (`~GuardSizes`) and none is over bytes of the binary still
  to come (`~GuardOnImage`): in every world that reaches a state the latest item that
  holds for an address has the byte the program put there. The three assumptions are
  the client constants above, each of them needed.
* `SymbolicMemoryProofs!LoadsAreSound`: under the same assumptions `LoadSound` is invariant:
  a load at any address, symbolic or concrete, returns that byte in each of these
  worlds.

*The argument for timestamps and ranges.* That timestamps tell the items of one state apart is not inductive: a
merge puts the items of two states together, and both count on from the timestamps
they had when they parted. What each side has made since is put under the guard of its
own path, so of two items that hold in a world of `z` after the merge one side's new
ones are out. What counts is `Shared(s, z)`: the items of `s` not later than the
common ancestor of `s` and `z`, which come through unguarded and hold in the worlds of
`z` too. `OneAtATime` says of every two live states that these have distinct
timestamps in the worlds of the other (`Distinct`), and of every three that what two
of them share with the third may have a timestamp in common only if both are concrete
or both symbolic (`Agree`): the same entry of the concrete memory is then either equal
on both sides, and kept once, or put under both guards. `Ancestry` keeps the ancestors
behind the counters of the states, so that what `load` and `store` add is never
shared; a fork makes two states share what they have, up to an ancestor that may be
older than the fork (`Ages`). A merge needs the three-state form since `z` may share
different things with either side. The bytes of the binary come late and at timestamp
0; they collide with nothing, since nothing else of time 0 exists and a page is loaded
where no entry is. The items of one operation have distinct timestamps, or addresses
one apart.

`FiledForAll` says that the range of an item covers its address in all worlds of all
states that share it. An item that is new is filed with the least and greatest value
on the path, and its worlds only get fewer by forks. A merge brings the other side's
worlds in, where the guard is false: `Covering` asks nothing there. An unguarded store
that takes over an item keeps the range but drops the guard, and that is why the
property needs no merges or no such store.

*The argument for the contents.* Let `Seen(m)` be the items of `m` and, as if they were
loaded, those of the bytes of the binary still to come. Then loading a page changes
nothing, and `Tells` says of the latest item of `Seen` what `ItemsTell` says of memory
with all its pages loaded. A load adds symbols older than every item, where there was
none; a store adds items later than all and takes out only what they stand over in
every world of the path; a fork changes no memory. A merge guards what each side has
made since the ancestor, so a world of one side must find in the merged memory the
items of that side: its new ones hold, the other's do not, and what is older than the
ancestor has to be the same on both sides. For the tree that is `Alike`. For the
concrete memory it is that the two entries are equal or both kept under guards, except
for a byte of the binary that one side alone has: by `Imaged` there is no entry just
where such a byte is still to come or there never was one, so with the same bytes
pending on both sides this branch of `_merge_concrete_memory` is not taken. After the
merge `Alike` must hold of the result and each third state, and `Nested` says why it
does: two histories part no earlier than one of them does from a third, so what is
shared with the third is older than the ancestor of the merge and gets no guard. The
three are `CInv`. A store that takes over an item older than the fork breaks `Alike`,
which is what `memory_merge_lost` shows.

*The argument for loads.* Three things are between the items and what a load returns.
The search: the image is loaded where the address may point, so no byte of the binary
is still to come there (`NoneToCome`), and by `FiledForAll` every item of the tree that
holds at the address is under a range that meets the bounds; the items found and those
of `Seen` thus agree in each world at the address of that world (`FindsHits`). The
order: sorting is a fold that takes the latest item out again and again, which needs
that the trees are finite (`FiniteTrees`, kept by every step) and that a finite set of
items has a latest (`LatestExists`); the list has all items in order of time
(`SortedInOrder`, at the least set that would break it). The cases: `build_merged_ite`
is a second fold, over the positions of the list. Its invariant, at the least prefix
that would break it, is that in a world the last run that applies has the byte of the
last item that holds (`RunsTell`): an item that joins a run widens it by its own
address and has its byte (`JoinedRun`), any other is a run of its own. Both folds are
recursive functions of the library, and `TakenExists` shows once for all finite sets
that there is such a function.

### The executor, the search and the memory map

* `ExecutorProofs!FoundReached`: `FoundIsReached` is invariant, for any program,
  configuration and limit.
* `MemorySearchProofs!Typed`, `WholeCandidates`, `FirstMatch`, `NoNeedlessWindow`:
  `TypeOK`, `InsideWindow`, `FindsFirst` with `KeepsFound` (which
  `MatchesAreKept` states by itself), and `FaultIsForMissing` are invariant, for any worlds, contents, strings, sizes of
  windows, steps and budgets.
* `AddressSpaceProofs!Typed`: the list of regions is sorted (`TypeOK`).
* `AddressSpaceProofs!Permitted`: `PermissionsOfRegion` is invariant.
* `AddressSpaceProofs!CheckExact`: `CheckIsPointwise` is invariant, under any client.
* `AddressSpaceProofs!Avoided`: `NoIntegerMet` is invariant.

*The argument for the executor* is that active paths are at reached addresses and
that `Reached`, defined by all sets closed under steps, is itself closed: a round
steps only paths that the round before has left active, and these are at no target
and no address to avoid.

*The argument for the search.* `FindsFirst` speaks of the end of the loop; the
invariant says what is known in the middle of it. `Place`: the candidate is never
left of the window and at most a step past its last place there, which is why
`Steps` may be no greater than the room a window has past the string. `Budget`: what
is left is what was given less the candidates with symbols among those compared.
`Tally`: the candidates compared are exactly the ones before `i`, each had a budget
left, and none was a certain match unless the loop is over. From these `Result`
follows when the loop ends: out of candidates or out of budget there is none left to
inspect, and after a certain match every world has one.

*The argument for the address space.* Where clients keep regions apart the list is
`Spaced`: each region ends before the next begins, its end counted. Then at most one
region has an address, which gives `Permitted`. Where they follow all the rules the
list is also `Clean`: no address of a region, its end included, is an integer. `Map`
and `Stack` keep this by "fresh", `Unmap` by "whole" and by spacing, since the bytes
that become integers are those of the region that goes. A load that passes a
pointwise check has each value of its address in a region, and by "inside" and
"interval" every byte it searches is in one too. *The argument for the segfault check.* The walk is a fold, which the library defines
as a recursive function on the sets of positions of the list. The proof shows first
that such a function exists (`FoldExists`: at the least length without one, a turn more
extends that of the length before), so that the chosen one has the stages of the walk,
and then an invariant of the stages (`WalkInv`), again at the least stage that would
break it: the values up to `covered` are allowed, and no region looked at reaches
beyond, so that a value in front of the next region is in none.

The library has no fact about `Min`
of an infinite set of numbers; `MinIsLeast` derives it from the well-foundedness of
the strict subsets of finite sets.

The assumptions used are the ones named in the modules (`SizesAssumption`,
`NamesAssumption`, `ClientAssumption`, `ConfigsAssumption`, `WindowAssumption`,
`RulesAssumption` and so on) and, for the concrete memories, the two about the
client, stated in each theorem.

**Only model-checked**: the liveness properties `Terminates` of both modules and
`FoundIsReported`, since liveness under fairness is out of the prover's reach. Every
invariant and every refinement that a run checks is also a theorem. In the proofs
there is no induction over data: where a recursive function or a fold computes
something, the proof gives the function it should be and shows, at a least argument
where they would differ, that there is no other.

## 5. What is not modelled

* The copy of an empty inner tree, which fails and which `pitree` never asks for.
* `get_stats` of the paged tree, of which only the counts of intervals are modelled.
  Its `max_page_size` reads the count of each page tree, which a copy starts again at 0.
* The sorted list that holds the chunks of the binary is a set, as pages are taken out
  of it whole. With two chunks in a page its copy compares claripy expressions as if
  they were booleans, whose outcome is not in the repository; what is said of two
  segments in one page is said where that comparison does not fail.
* Of `load` the `condition` and the `fallback` it returns where the condition is false,
  which it applies to the data at the end, or does not load at all if the condition is
  certainly false; and the option CGC_ZERO_FILL_UNCONSTRAINED_MEMORY, with which it
  makes no implicit store for a byte it knows nothing of. No property speaks
  of such loads.
* Endianness, breakpoints, `SimActions`, the comparison with angr's own memory,
  registers and the conversion of register names; the static mode of `find`.
* The contents and the memory map in one model: `AddressSpace` keeps of the contents
  only where the integers are, `SymbolicMemory` assumes accesses that pass the check.
* The map of a merged state: `merge` keeps that of the first state and drops what
  the other has mapped since the fork. `AddressSpace` has one memory.
* Of the executor the setup, the printing, the callbacks of the metabinary and
  veritesting, which lets a step of angr cover more than one block.
* The entry points, and the replay drivers of the tree, whose comparison is
  `IsUntree`.
* The earlier memories and the structures `range_map.py` and `range_tree.py` under
  them: `factory.py` builds neither, nothing calls them, and no document says what
  they promise beyond what `SymbolicMemory` is checked for.
* `_compare_obj` has a branch that compares one component of an entry with itself;
  it is not reached, as `__eq__` makes an expression of its own entry first, and the
  comparison is equality of the bytes.

## 6. Plan

In this order:

1. *Memory map of a merge*, once there is a statement of what it should be.
2. *Executor*: veritesting as a step over several blocks.
