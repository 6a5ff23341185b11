------------------------- MODULE PagedMemoryProofs -------------------------
(***************************************************************************)
(* Proofs about PagedMemory: the shape of its state for any client, and,   *)
(* for a client that builds one root and stops writing a memory once it is *)
(* copied, that page sharing is invisible; and find() for any client.      *)
(***************************************************************************)
EXTENDS PagedMemory, WellFoundedInduction, TLAPS

\* Index and offset determine the address, as _get_index_offset intends.
LEMMA AddrSplit ==
  ASSUME NEW a \in Addrs
  PROVE  /\ IndexOf(a) \in Indexes
         /\ OffsetOf(a) \in Offsets
         /\ a = PageSize * IndexOf(a) + OffsetOf(a)
<1>1. a \in Nat /\ a < NumPages * PageSize
  BY SizesAssumption DEF Addrs
<1>2. /\ IndexOf(a) \in Int
      /\ OffsetOf(a) \in Offsets
      /\ a = PageSize * IndexOf(a) + OffsetOf(a)
  BY <1>1, SizesAssumption DEF IndexOf, OffsetOf, Offsets
<1>3. IndexOf(a) \in Indexes
  BY <1>1, <1>2, SizesAssumption DEF Indexes, Offsets
<1> QED BY <1>2, <1>3

\* Two addresses with the same index and offset are the same address.
LEMMA AddrInjective ==
  ASSUME NEW a \in Addrs, NEW b \in Addrs,
         IndexOf(a) = IndexOf(b), OffsetOf(a) = OffsetOf(b)
  PROVE  a = b
BY AddrSplit


-----------------------------------------------------------------------------
(* The shape of the state, for any client. *)

LEMMA InitTyped == Init => TypeOK
BY NamesAssumption DEF Init, TypeOK, Dicts, EmptyPage

LEMMA NextTyped == TypeOK /\ [Next]_vars => TypeOK'
<1> SUFFICES ASSUME TypeOK, [Next]_vars
             PROVE  TypeOK'
  OBVIOUS
<1> USE DEF TypeOK
<1>1. ASSUME NEW h \in Handles, New(h)
      PROVE  TypeOK'
  BY <1>1 DEF New, Dicts
<1>2. ASSUME NEW h \in Handles, NEW a \in Addrs, NEW v \in Values, SetItem(h, a, v)
      PROVE  TypeOK'
  <2> DEFINE i == IndexOf(a)
             o == OffsetOf(a)
  <2>1. i \in Indexes /\ o \in Offsets
    BY AddrSplit
  <2> HIDE DEF i, o
  <2>2. h \in live /\ dict[h] \in Dicts /\ UNCHANGED <<live, dict, copied>>
    BY <1>2 DEF SetItem
  <2>3. WriteOwnPage(h, i, o, v) \/ WriteInPlace(h, i, o, v)
    BY <1>2 DEF SetItem, i, o
  <2>4. CASE WriteOwnPage(h, i, o, v)
    <3> DEFINE start == IF PageAt(h, i) = NoPage THEN EmptyPage
                                                 ELSE page[PageAt(h, i)][i]
    <3>1. start \in [Offsets -> Values \cup {NoValue}]
      BY <2>1, <2>2 DEF PageAt, EmptyPage
    <3>2. page' = [page EXCEPT ![h][i] = [start EXCEPT ![o] = v]]
      BY <2>4 DEF WriteOwnPage
    <3> HIDE DEF start
    <3>3. page' \in [Handles -> [Indexes -> [Offsets -> Values \cup {NoValue}]]]
      BY <2>1, <3>1, <3>2
    <3>4. table' \in [Dicts -> [Indexes -> Handles \cup {NoPage}]]
      BY <2>1, <2>2, <2>4 DEF WriteOwnPage
    <3>5. cowed' \in [Handles -> SUBSET Indexes]
      BY <2>1, <2>4 DEF WriteOwnPage
    <3> QED BY <2>2, <3>3, <3>4, <3>5
  <2>5. CASE WriteInPlace(h, i, o, v)
    BY <2>1, <2>2, <2>5 DEF WriteInPlace, PageAt
  <2> QED BY <2>3, <2>4, <2>5
<1>3. ASSUME NEW h \in Handles, NEW n \in Handles, Copy(h, n)
      PROVE  TypeOK'
  BY <1>3 DEF Copy, Dicts
<1>4. CASE UNCHANGED vars
  BY <1>4 DEF vars
<1> QED BY <1>1, <1>2, <1>3, <1>4 DEF Next

\* TypeOK holds of every client: in particular a memory never comes to read
\* the table of another one, whatever is copied and written when.
THEOREM Typed == Spec => []TypeOK
BY InitTyped, NextTyped, PTL DEF Spec

-----------------------------------------------------------------------------
(* Page ownership, for a disciplined client. *)

LEMMA InitOwned == Init => IInv
BY InitTyped DEF Init, IInv, OwnsCowedPages, SharedOnlyIfCopied, TablesPrivate,
                 DefaultStartsEmpty, Dicts

LEMMA NewOwned ==
  ASSUME NEW h \in Handles, ~ManyRoots, IInv, New(h), TypeOK'
  PROVE  IInv'
<1>1. live = {} /\ live' = {h} /\ cowed'[h] = {} /\ dict'[h] = Default
  BY DEF New, IInv, TypeOK
<1>2. \A i \in Indexes : table'[Default][i] = NoPage
  BY <1>1 DEF New, IInv, DefaultStartsEmpty
<1>3. OwnsCowedPages'
  BY <1>1 DEF OwnsCowedPages
<1>4. SharedOnlyIfCopied'
  BY <1>1, <1>2, NamesAssumption DEF SharedOnlyIfCopied
<1>5. TablesPrivate' /\ DefaultStartsEmpty'
  BY <1>1 DEF TablesPrivate, DefaultStartsEmpty
<1> QED BY <1>3, <1>4, <1>5 DEF IInv

LEMMA SetItemOwned ==
  ASSUME NEW h \in Handles, NEW a \in Addrs, NEW v \in Values,
         ~WriteAfterCopy, IInv, SetItem(h, a, v), TypeOK'
  PROVE  IInv'
<1> DEFINE i == IndexOf(a)
           o == OffsetOf(a)
<1>1. i \in Indexes
  BY AddrSplit
<1> HIDE DEF i, o
<1>2. h \in live /\ UNCHANGED <<live, dict, copied>>
  BY DEF SetItem
<1>3. DefaultStartsEmpty'
  BY <1>2 DEF DefaultStartsEmpty
<1>4. TablesPrivate'
  BY <1>2 DEF IInv, TablesPrivate
<1>5. CASE WriteOwnPage(h, i, o, v)
  <2>1. /\ table' = [table EXCEPT ![dict[h]][i] = h]
        /\ cowed' = [cowed EXCEPT ![h] = @ \cup {i}]
    BY <1>5 DEF WriteOwnPage
  <2>2. dict[h] \in Dicts
    BY <1>2 DEF IInv, TypeOK
  <2>3. table'[dict[h]] = [table[dict[h]] EXCEPT ![i] = h]
    BY <2>1, <2>2 DEF IInv, TypeOK
  <2>4. \A g \in live \ {h} : table'[dict[g]] = table[dict[g]] /\ cowed'[g] = cowed[g]
    BY <1>2, <2>1, <2>2 DEF IInv, TypeOK, TablesPrivate
  <2>5. OwnsCowedPages'
    <3> SUFFICES ASSUME NEW g \in live, NEW j \in cowed'[g]
                 PROVE  table'[dict[g]][j] = g
      BY <1>2 DEF OwnsCowedPages
    <3>1. j \in Indexes
      BY <1>2 DEF IInv, TypeOK
    <3>2. CASE g = h
      BY <1>1, <1>2, <2>1, <2>2, <2>3, <3>1, <3>2 DEF IInv, TypeOK, OwnsCowedPages
    <3>3. CASE g # h
      BY <2>4, <3>3 DEF IInv, OwnsCowedPages
    <3> QED BY <3>2, <3>3
  <2>6. SharedOnlyIfCopied'
    <3> SUFFICES ASSUME NEW g \in live, NEW k \in Handles, NEW j \in Indexes,
                        table'[dict[g]][j] = k
                 PROVE  k \in live /\ (g = k \/ k \in copied)
      BY <1>2 DEF SharedOnlyIfCopied
    <3>1. CASE g = h /\ j = i
      BY <1>2, <1>1, <2>2, <2>3, <3>1 DEF IInv, TypeOK
    <3>2. CASE ~(g = h /\ j = i)
      <4>1. table[dict[g]][j] = k
        BY <1>1, <2>2, <2>3, <2>4, <3>2 DEF IInv, TypeOK
      <4> QED BY <4>1 DEF IInv, SharedOnlyIfCopied
    <3> QED BY <3>1, <3>2
  <2> QED BY <1>3, <1>4, <2>5, <2>6 DEF IInv
<1>6. CASE WriteInPlace(h, i, o, v)
  BY <1>2, <1>3, <1>4, <1>6
  DEF WriteInPlace, IInv, OwnsCowedPages, SharedOnlyIfCopied
<1> QED BY <1>5, <1>6 DEF SetItem, i, o

LEMMA CopyOwned ==
  ASSUME NEW h \in Handles, NEW n \in Handles, IInv, Copy(h, n), TypeOK'
  PROVE  IInv'
<1>1. /\ h \in live /\ n \in Handles \ live
      /\ live' = live \cup {n}
      /\ dict' = [dict EXCEPT ![n] = n]
      /\ table' = [table EXCEPT ![n] = table[dict[h]]]
      /\ cowed' = [cowed EXCEPT ![n] = {}]
      /\ copied' = copied \cup {h}
  BY DEF Copy
<1>2. dict'[n] = n /\ table'[n] = table[dict[h]] /\ cowed'[n] = {}
  BY <1>1 DEF IInv, TypeOK, Dicts
<1>3. \A g \in live : /\ dict'[g] = dict[g] /\ dict[g] # n
                      /\ table'[dict[g]] = table[dict[g]]
                      /\ cowed'[g] = cowed[g]
  BY <1>1, NamesAssumption DEF IInv, TypeOK, Dicts
<1>4. OwnsCowedPages'
  BY <1>1, <1>2, <1>3 DEF IInv, OwnsCowedPages
<1>5. SharedOnlyIfCopied'
  <2> SUFFICES ASSUME NEW g \in live', NEW k \in Handles, NEW j \in Indexes,
                      table'[dict'[g]][j] = k
               PROVE  k \in live' /\ (g = k \/ k \in copied')
    BY DEF SharedOnlyIfCopied
  <2>1. CASE g = n
    <3>1. table[dict[h]][j] = k
      BY <1>2, <2>1
    <3> QED BY <1>1, <3>1 DEF IInv, SharedOnlyIfCopied
  <2>2. CASE g # n
    <3>1. g \in live /\ table[dict[g]][j] = k
      BY <1>1, <1>3, <2>2
    <3> QED BY <1>1, <3>1 DEF IInv, SharedOnlyIfCopied
  <2> QED BY <2>1, <2>2
<1>6. TablesPrivate'
  BY <1>1, <1>2, <1>3 DEF IInv, TablesPrivate
<1>7. DefaultStartsEmpty'
  BY <1>1 DEF DefaultStartsEmpty
<1> QED BY <1>4, <1>5, <1>6, <1>7 DEF IInv

\* One root and no write after a copy: cowed pages are owned, a shared page
\* belongs to a memory that is written no more, tables are private.
THEOREM Owned ==
  ASSUME ~ManyRoots, ~WriteAfterCopy
  PROVE  Spec => []IInv
<1>1. IInv /\ [Next]_vars => IInv'
  <2> SUFFICES ASSUME IInv, [Next]_vars
               PROVE  IInv'
    OBVIOUS
  <2>1. TypeOK'
    BY NextTyped DEF IInv
  <2>2. ASSUME NEW h \in Handles, New(h)
        PROVE  IInv'
    BY <2>1, <2>2, NewOwned
  <2>3. ASSUME NEW h \in Handles, NEW a \in Addrs, NEW v \in Values, SetItem(h, a, v)
        PROVE  IInv'
    BY <2>1, <2>3, SetItemOwned
  <2>4. ASSUME NEW h \in Handles, NEW n \in Handles, Copy(h, n)
        PROVE  IInv'
    BY <2>1, <2>4, CopyOwned
  <2>5. CASE UNCHANGED vars
    BY <2>5 DEF vars, IInv, TypeOK, OwnsCowedPages, SharedOnlyIfCopied,
                TablesPrivate, DefaultStartsEmpty
  <2> QED BY <2>2, <2>3, <2>4, <2>5 DEF Next
<1> QED BY InitOwned, <1>1, PTL DEF Spec

-----------------------------------------------------------------------------
(* A disciplined client cannot observe the sharing. *)

LEMMA InitRefines == Init => Store!Init
<1> SUFFICES ASSUME Init PROVE Store!Init
  OBVIOUS
<1>1. live = {}
  BY DEF Init
<1> QED BY <1>1 DEF Store!Init, Store!EmptyStore, ReadableContents

LEMMA NewRefines ==
  ASSUME NEW h \in Handles, ~ManyRoots, IInv, New(h)
  PROVE  Store!New(h)
<1>1. live = {} /\ live' = {h} /\ dict'[h] = Default /\ h \notin live
  BY DEF New, IInv, TypeOK
<1>2. \A i \in Indexes : table'[Default][i] = NoPage
  BY <1>1 DEF New, IInv, DefaultStartsEmpty
<1>3. \A a \in Addrs : GetItem(h, a)' = NoValue
  BY <1>1, <1>2, AddrSplit DEF GetItem, PageAt
<1>4. ReadableContents' = [ReadableContents EXCEPT ![h] = [a \in Addrs |-> NoValue]]
  BY <1>1, <1>3 DEF ReadableContents
<1> QED BY <1>1, <1>4 DEF Store!New, Store!EmptyStore

LEMMA SetItemRefines ==
  ASSUME NEW h \in Handles, NEW a \in Addrs, NEW v \in Values,
         ~WriteAfterCopy, IInv, SetItem(h, a, v)
  PROVE  Store!SetItem(h, a, v)
<1> DEFINE i == IndexOf(a)
           o == OffsetOf(a)
<1>1. i \in Indexes /\ o \in Offsets
  BY AddrSplit
<1>2. \A b \in Addrs : IndexOf(b) = i /\ OffsetOf(b) = o => b = a
  BY AddrInjective
<1>3. \A b \in Addrs : IndexOf(b) \in Indexes /\ OffsetOf(b) \in Offsets
  BY AddrSplit
<1>4. IndexOf(a) = i /\ OffsetOf(a) = o
  OBVIOUS
<1>5. WriteOwnPage(h, i, o, v) \/ WriteInPlace(h, i, o, v)
  BY DEF SetItem
<1> HIDE DEF i, o
<1>6. h \in live /\ h \notin copied /\ UNCHANGED <<live, dict, copied>>
  BY DEF SetItem
<1>7. \A g \in live : dict[g] \in Dicts
  BY DEF IInv, TypeOK
<1>8. \A g \in live \ {h} : \A j \in Indexes :
        dict[g] # dict[h] /\ table[dict[g]][j] # h
  BY <1>6 DEF IInv, TypeOK, TablesPrivate, SharedOnlyIfCopied
<1>9. \A b \in Addrs : GetItem(h, b)' = IF b = a THEN v ELSE GetItem(h, b)
  <2> SUFFICES ASSUME NEW b \in Addrs
               PROVE  GetItem(h, b)' = IF b = a THEN v ELSE GetItem(h, b)
    OBVIOUS
  <2> DEFINE j == IndexOf(b)
             q == OffsetOf(b)
  <2>1. j \in Indexes /\ q \in Offsets /\ (b = a <=> j = i /\ q = o)
    BY <1>2, <1>3, <1>4
  <2>2. /\ GetItem(h, b) = IF table[dict[h]][j] = NoPage THEN NoValue
                           ELSE page[table[dict[h]][j]][j][q]
        /\ GetItem(h, b)' = IF table'[dict[h]][j] = NoPage THEN NoValue
                            ELSE page'[table'[dict[h]][j]][j][q]
    BY <1>6 DEF GetItem, PageAt
  <2> HIDE DEF j, q
  <2>3. CASE WriteOwnPage(h, i, o, v)
    <3> DEFINE start == IF table[dict[h]][i] = NoPage THEN EmptyPage
                        ELSE page[table[dict[h]][i]][i]
    <3>1. /\ table' = [table EXCEPT ![dict[h]][i] = h]
          /\ page' = [page EXCEPT ![h][i] = [start EXCEPT ![o] = v]]
      BY <2>3 DEF WriteOwnPage, PageAt
    <3>2. start \in [Offsets -> Values \cup {NoValue}]
      BY <1>1, <1>6, <1>7 DEF IInv, TypeOK, EmptyPage
    <3>3. start[q] = GetItem(h, b) \/ j # i
      BY <2>1, <2>2 DEF EmptyPage
    <3> HIDE DEF start
    <3>4. CASE j = i
      <4>1. table'[dict[h]][j] = h /\ h # NoPage
        BY <1>1, <1>6, <1>7, <3>1, <3>4, NamesAssumption DEF IInv, TypeOK
      <4>2. page'[h][j][q] = IF q = o THEN v ELSE start[q]
        BY <1>1, <2>1, <3>1, <3>2, <3>4 DEF IInv, TypeOK
      <4> QED BY <2>1, <2>2, <3>3, <3>4, <4>1, <4>2
    <3>5. CASE j # i
      <4>1. table'[dict[h]][j] = table[dict[h]][j]
        BY <1>1, <1>6, <1>7, <2>1, <3>1, <3>5 DEF IInv, TypeOK
      <4>2. table[dict[h]][j] # NoPage =>
              page'[table[dict[h]][j]][j] = page[table[dict[h]][j]][j]
        BY <1>1, <1>6, <1>7, <2>1, <3>1, <3>5 DEF IInv, TypeOK
      <4> QED BY <2>1, <2>2, <3>5, <4>1, <4>2
    <3> QED BY <3>4, <3>5
  <2>4. CASE WriteInPlace(h, i, o, v)
    <3>1. table[dict[h]][i] = h /\ h # NoPage
      BY <1>6, <2>4, NamesAssumption DEF WriteInPlace, IInv, OwnsCowedPages
    <3>2. table' = table /\ page' = [page EXCEPT ![h][i][o] = v]
      BY <2>4, <3>1 DEF WriteInPlace, PageAt
    <3>3. table[dict[h]][j] # NoPage => table[dict[h]][j] \in Handles
      BY <1>6, <1>7, <2>1 DEF IInv, TypeOK
    <3>4. CASE j = i
      BY <1>1, <2>1, <2>2, <3>1, <3>2, <3>4 DEF IInv, TypeOK
    <3>5. CASE j # i
      BY <1>1, <2>1, <2>2, <3>2, <3>3, <3>5 DEF IInv, TypeOK
    <3> QED BY <3>4, <3>5
  <2> QED BY <1>5, <2>3, <2>4
<1>10. \A g \in live \ {h}, b \in Addrs : GetItem(g, b)' = GetItem(g, b)
  <2> SUFFICES ASSUME NEW g \in live \ {h}, NEW b \in Addrs
               PROVE  GetItem(g, b)' = GetItem(g, b)
    OBVIOUS
  <2> DEFINE j == IndexOf(b)
             q == OffsetOf(b)
             p == table[dict[g]][j]
  <2>1. j \in Indexes /\ q \in Offsets
    BY <1>3
  <2>2. /\ GetItem(g, b) = IF p = NoPage THEN NoValue ELSE page[p][j][q]
        /\ GetItem(g, b)' = IF table'[dict[g]][j] = NoPage THEN NoValue
                            ELSE page'[table'[dict[g]][j]][j][q]
    BY <1>6 DEF GetItem, PageAt
  <2> HIDE DEF j, q
  <2>3. p # h /\ dict[g] # dict[h] /\ dict[g] \in Dicts /\ dict[h] \in Dicts
    BY <1>6, <1>7, <1>8, <2>1
  <2>4. p # NoPage => p \in Handles
    BY <2>1, <2>3 DEF IInv, TypeOK
  <2>5. table'[dict[g]] = table[dict[g]]
    BY <1>5, <2>3 DEF WriteOwnPage, WriteInPlace, IInv, TypeOK
  <2>6. p # NoPage => page'[p] = page[p]
    <3>1. CASE WriteOwnPage(h, i, o, v)
      BY <2>3, <2>4, <3>1 DEF WriteOwnPage, IInv, TypeOK
    <3>2. CASE WriteInPlace(h, i, o, v)
      <4>1. table[dict[h]][i] = h
        BY <1>6, <3>2 DEF WriteInPlace, IInv, OwnsCowedPages
      <4> QED BY <2>3, <2>4, <3>2, <4>1 DEF WriteInPlace, PageAt, IInv, TypeOK
    <3> QED BY <1>5, <3>1, <3>2
  <2> QED BY <2>2, <2>5, <2>6
<1>11. ReadableContents' = [ReadableContents EXCEPT ![h][a] = v]
  BY <1>6, <1>9, <1>10 DEF ReadableContents
<1> QED BY <1>6, <1>11 DEF Store!SetItem

LEMMA CopyRefines ==
  ASSUME NEW h \in Handles, NEW n \in Handles, IInv, Copy(h, n)
  PROVE  Store!Copy(h, n)
<1>1. /\ h \in live /\ n \in Handles \ live
      /\ live' = live \cup {n}
      /\ dict' = [dict EXCEPT ![n] = n]
      /\ table' = [table EXCEPT ![n] = table[dict[h]]]
      /\ UNCHANGED page
  BY DEF Copy
<1>2. dict'[n] = n /\ table'[n] = table[dict[h]]
  BY <1>1 DEF IInv, TypeOK, Dicts
<1>3. \A g \in live : dict'[g] = dict[g] /\ table'[dict[g]] = table[dict[g]]
  BY <1>1, NamesAssumption DEF IInv, TypeOK, Dicts
<1>4. \A b \in Addrs : GetItem(n, b)' = GetItem(h, b)
  BY <1>1, <1>2 DEF GetItem, PageAt
<1>5. \A g \in live, b \in Addrs : GetItem(g, b)' = GetItem(g, b)
  BY <1>1, <1>3 DEF GetItem, PageAt
<1>6. ReadableContents' = [ReadableContents EXCEPT ![n] = ReadableContents[h]]
  BY <1>1, <1>4, <1>5 DEF ReadableContents
<1> QED BY <1>1, <1>6 DEF Store!Copy

\* One root and no write after a copy: PagedMemory implements PrivateStores,
\* for any number of memories, pages and values.
THEOREM PagesAreInvisible ==
  ASSUME ~ManyRoots, ~WriteAfterCopy
  PROVE  Spec => IsPrivateStore
<1>1. IInv /\ [Next]_vars => [Store!Next]_(Store!vars)
  <2> SUFFICES ASSUME IInv, [Next]_vars
               PROVE  Store!Next \/ UNCHANGED Store!vars
    BY DEF Store!vars
  <2>1. ASSUME NEW h \in Handles, New(h)
        PROVE  Store!Next
    BY <2>1, NewRefines DEF Store!Next
  <2>2. ASSUME NEW h \in Handles, NEW a \in Addrs, NEW v \in Values, SetItem(h, a, v)
        PROVE  Store!Next
    BY <2>2, SetItemRefines DEF Store!Next
  <2>3. ASSUME NEW h \in Handles, NEW n \in Handles, Copy(h, n)
        PROVE  Store!Next
    BY <2>3, CopyRefines DEF Store!Next
  <2>4. CASE UNCHANGED vars
    <3>1. ReadableContents' = ReadableContents
      BY <2>4 DEF vars, ReadableContents, GetItem, PageAt
    <3> QED BY <2>4, <3>1 DEF vars, Store!vars
  <2> QED BY <2>1, <2>2, <2>3, <2>4 DEF Next
<1> QED BY InitRefines, Owned, <1>1, PTL DEF Spec, IsPrivateStore, Store!Spec

-----------------------------------------------------------------------------
(* find() is exact.  The loop over the addresses is a recursive function; the *)
(* stored addresses satisfy its equation, and no other function does, as the  *)
(* greatest address where one differed would not.                             *)

\* A nonempty set of addresses has a greatest member.
LEMMA GreatestAddr ==
  ASSUME NEW n \in Nat, NEW S \in SUBSET (0 .. n), S # {}
  PROVE  \E x \in S : \A y \in S : y <= x
<1> DEFINE R == OpToRel(<, Nat)
           T == {n - x : x \in S}
<1>1. IsWellFoundedOn(R, Nat)
  BY NatLessThanWellFounded
<1>2. \A x, y \in Nat : <<y, x>> \in R <=> y < x
  BY DEF OpToRel
<1>3. T \in SUBSET Nat /\ T # {}
  <2>1. \A x \in S : x \in Int /\ x <= n
    OBVIOUS
  <2>2. \A x \in S : n - x \in Nat
    BY <2>1
  <2>3. T \in SUBSET Nat
    BY <2>2
  <2>4. T # {}
    OBVIOUS
  <2> QED BY <2>3, <2>4
<1> HIDE DEF R
<1>4. PICK t \in T : \A y \in T : ~ (<<y, t>> \in R)
  BY <1>1, <1>3, WFMin
<1>5. PICK x \in S : t = n - x
  BY <1>4
<1>6. ASSUME NEW y \in S PROVE y <= x
  <2>1. n - y \in T /\ n - y \in Nat /\ t \in Nat
    BY <1>3, <1>4
  <2>2. ~ (n - y < t)
    BY <1>2, <1>4, <2>1
  <2> QED BY <1>5, <2>2
<1> QED BY <1>6

\* One step of the address loop of find(), where f gives the rest of it.
Turn(h, last, f, a) ==
  IF a > last THEN {}
  ELSE IF PageAt(h, IndexOf(a)) = NoPage
         THEN f[a + PageSize - OffsetOf(a)]
         ELSE (IF GetItem(h, a) # NoValue THEN {a} ELSE {}) \cup f[a + 1]
IsLoop(h, last, f) == f = [a \in 0 .. NumPages * PageSize |-> Turn(h, last, f, a)]

\* The address loop is the one function that satisfies its equation.
LEMMA WalkIs ==
  ASSUME NEW h, NEW first, NEW last, NEW g, IsLoop(h, last, g),
         \A f : IsLoop(h, last, f) => f = g
  PROVE  FindShort(h, first, last) = g[first]
<1>1. FindShort(h, first, last) = (CHOOSE f : IsLoop(h, last, f))[first]
  BY DEF FindShort, IsLoop, Turn
<1> QED BY <1>1

\* The next address, and the end of the page of a missing page.
LEMMA NextTurn ==
  ASSUME NEW a \in Addrs
  PROVE  /\ a + 1 \in 0 .. NumPages * PageSize
         /\ a + PageSize - OffsetOf(a) \in 0 .. NumPages * PageSize
         /\ a + PageSize - OffsetOf(a) > a
         /\ a + PageSize - OffsetOf(a) = PageSize * IndexOf(a) + PageSize
<1>1. PICK i \in Indexes : i = IndexOf(a)
  BY AddrSplit
<1>2. PICK o \in Offsets : o = OffsetOf(a)
  BY AddrSplit
<1>3. a = PageSize * i + o
  BY <1>1, <1>2, AddrSplit
<1>4. PICK m \in Nat : m = NumPages * PageSize
  BY SizesAssumption
<1>5. a \in 0 .. m - 1
  BY <1>4 DEF Addrs
<1>6. PageSize * i + PageSize <= m
  <2>1. i \in Nat /\ i <= NumPages - 1 /\ NumPages \in Nat /\ PageSize \in Nat
    BY <1>1, SizesAssumption DEF Indexes
  <2>2. PageSize * (i + 1) <= PageSize * NumPages
    BY <2>1
  <2>3. PageSize * (i + 1) = PageSize * i + PageSize /\ PageSize * NumPages = m
    BY <1>4, <2>1
  <2> QED BY <2>2, <2>3
<1>7. PageSize * i \in Nat /\ PageSize \in Nat \ {0} /\ o \in 0 .. PageSize - 1 /\ i \in Int
  BY <1>1, SizesAssumption DEF Indexes, Offsets
<1>8. PICK q \in Nat : q = PageSize * i
  BY <1>7
<1> QED BY <1>1, <1>2, <1>3, <1>4, <1>5, <1>6, <1>7, <1>8

\* Addresses up to the end of a page are on it.
LEMMA SamePage ==
  ASSUME NEW a \in Addrs, NEW b \in Addrs, a <= b,
         b < a + PageSize - OffsetOf(a)
  PROVE  IndexOf(a) = IndexOf(b)
<1>1. PICK i \in Indexes : i = IndexOf(a)
  BY AddrSplit
<1>2. PICK j \in Indexes : j = IndexOf(b)
  BY AddrSplit
<1>3. PICK o \in Offsets : o = OffsetOf(b)
  BY AddrSplit
<1>4. PICK p \in Offsets : p = OffsetOf(a)
  BY AddrSplit
<1>5. b = PageSize * j + o /\ a = PageSize * i + p /\ b < PageSize * i + PageSize
  BY <1>1, <1>2, <1>3, <1>4, AddrSplit, NextTurn
<1>6. i \in Nat /\ j \in Nat /\ PageSize \in Nat \ {0} /\ o \in 0 .. PageSize - 1
      /\ p \in 0 .. PageSize - 1
  BY SizesAssumption DEF Indexes, Offsets
<1>7. ~ (i < j)
  <2> SUFFICES ASSUME i < j PROVE FALSE
    OBVIOUS
  <2>1. PageSize * (i + 1) <= PageSize * j
    BY <1>6
  <2>2. PageSize * (i + 1) = PageSize * i + PageSize
    BY <1>6
  <2>3. PICK q \in Nat : q = PageSize * j
    BY <1>6
  <2>4. PICK r \in Nat : r = PageSize * i
    BY <1>6
  <2> QED BY <1>5, <1>6, <2>1, <2>2, <2>3, <2>4
<1>8. ~ (j < i)
  <2> SUFFICES ASSUME j < i PROVE FALSE
    OBVIOUS
  <2>1. PageSize * (j + 1) <= PageSize * i
    BY <1>6
  <2>2. PageSize * (j + 1) = PageSize * j + PageSize
    BY <1>6
  <2>3. PICK q \in Nat : q = PageSize * j
    BY <1>6
  <2>4. PICK r \in Nat : r = PageSize * i
    BY <1>6
  <2> QED BY <1>5, <1>6, <2>1, <2>2, <2>3, <2>4
<1> QED BY <1>1, <1>2, <1>6, <1>7, <1>8

\* The entries from a on are what is at a and the entries after it.
LEMMA StoredTurn ==
  ASSUME NEW h, NEW last \in Addrs, NEW f, NEW a \in 0 .. NumPages * PageSize,
         \A b \in 0 .. NumPages * PageSize : b > a => f[b] = Stored(h, b, last)
  PROVE  Turn(h, last, f, a) = Stored(h, a, last)
<1>1. PICK m \in Nat : m = NumPages * PageSize
  BY SizesAssumption
<1>2. CASE a > last
  <2>1. Stored(h, a, last) = {}
    BY <1>1, <1>2 DEF Stored, Addrs
  <2> QED BY <1>2, <2>1 DEF Turn
<1>3. CASE ~(a > last)
  <2>1. a \in Addrs /\ a \in Int /\ last \in Int
    BY <1>1, <1>3 DEF Addrs
  <2>2. PICK e \in 0 .. NumPages * PageSize : e = a + PageSize - OffsetOf(a)
    BY <2>1, NextTurn
  <2>3. e > a /\ f[e] = Stored(h, e, last) /\ f[a + 1] = Stored(h, a + 1, last)
    BY <1>1, <2>1, <2>2, NextTurn
  <2>4. CASE PageAt(h, IndexOf(a)) = NoPage
    <3>1. Stored(h, a, last) = Stored(h, e, last)
      <4>1. \A b \in Addrs : a <= b /\ b < e => GetItem(h, b) = NoValue
        BY <2>1, <2>2, <2>4, SamePage DEF GetItem
      <4>2. \A b \in Addrs : b \in Int
        BY <1>1 DEF Addrs
      <4> QED BY <1>1, <2>1, <2>3, <4>1, <4>2 DEF Stored
    <3> QED BY <1>3, <2>2, <2>3, <2>4, <3>1 DEF Turn
  <2>5. CASE PageAt(h, IndexOf(a)) # NoPage
    <3>1. Stored(h, a, last) = (IF GetItem(h, a) # NoValue THEN {a} ELSE {})
                                 \cup Stored(h, a + 1, last)
      BY <1>1, <1>3, <2>1 DEF Stored
    <3> QED BY <1>3, <2>3, <2>5, <3>1 DEF Turn
  <2> QED BY <2>4, <2>5
<1> QED BY <1>2, <1>3

\* Whatever its start, the address loop finds what is stored.
LEMMA ShortIsExact ==
  ASSUME NEW h, NEW first \in Addrs, NEW last \in Addrs
  PROVE  FindShort(h, first, last) = Stored(h, first, last)
<1> DEFINE D == 0 .. NumPages * PageSize
           g == [a \in D |-> Stored(h, a, last)]
<1>1. PICK m \in Nat : m = NumPages * PageSize
  BY SizesAssumption
<1>2. IsLoop(h, last, g)
  <2>1. \A a \in D : Turn(h, last, g, a) = Stored(h, a, last)
    <3> TAKE a \in D
    <3>1. \A b \in D : g[b] = Stored(h, b, last)
      OBVIOUS
    <3> HIDE DEF g
    <3> QED BY <3>1, StoredTurn
  <2>2. g = [a \in D |-> Turn(h, last, g, a)]
    BY <2>1, Zenon
  <2> QED BY <2>2 DEF IsLoop
<1>3. ASSUME NEW f, IsLoop(h, last, f) PROVE f = g
  <2>1. f = [a \in D |-> Turn(h, last, f, a)]
    BY <1>3 DEF IsLoop
  <2>2. \A a \in D : f[a] = Stored(h, a, last)
    <3> DEFINE S == {a \in D : f[a] # Stored(h, a, last)}
    <3> SUFFICES ASSUME S # {} PROVE FALSE
      OBVIOUS
    <3>1. S \in SUBSET (0 .. m)
      BY <1>1
    <3>2. PICK x \in S : \A y \in S : y <= x
      BY <3>1, GreatestAddr
    <3>3. x \in D /\ f[x] # Stored(h, x, last)
      OBVIOUS
    <3>4. \A b \in D : b > x => f[b] = Stored(h, b, last)
      <4> SUFFICES ASSUME NEW b \in D, b > x, b \in S PROVE FALSE
        OBVIOUS
      <4>1. b <= x
        BY <3>2
      <4> QED BY <1>1, <3>3, <4>1
    <3>5. Turn(h, last, f, x) = Stored(h, x, last)
      BY <3>3, <3>4, StoredTurn
    <3>6. f[x] = Turn(h, last, f, x)
      BY <2>1, <3>3
    <3> QED BY <3>3, <3>5, <3>6
  <2>3. f = [a \in D |-> f[a]]
    BY <2>1
  <2> QED BY <2>2, <2>3
<1>4. FindShort(h, first, last) = g[first]
  <2> HIDE DEF g
  <2> QED BY <1>2, <1>3, WalkIs
<1>5. first \in D
  BY <1>1 DEF Addrs
<1> QED BY <1>4, <1>5

\* The page loop finds what is stored, if it starts at a page border or in a
\* page that exists.
LEMMA LongIsExact ==
  ASSUME NEW h, NEW first \in Addrs, NEW last \in Addrs, first <= last,
         OffsetOf(first) = 0 \/ PageAt(h, IndexOf(first)) # NoPage
  PROVE  FindLong(h, first, last) = Stored(h, first, last)
<1> DEFINE found == {i \in IndexOf(first) .. IndexOf(last) : PageAt(h, i) # NoPage}
           From(i) == IF \A j \in found : i <= j THEN OffsetOf(first) ELSE 0
           Visits(a) == /\ IndexOf(a) \in found
                        /\ OffsetOf(a) >= From(IndexOf(a))
                        /\ a <= last \/ OffsetOf(a) = From(IndexOf(a))
<1>1. FindLong(h, first, last) = {a \in Addrs : Visits(a) /\ GetItem(h, a) # NoValue}
  BY DEF FindLong
<1>2. ASSUME NEW a \in Addrs, GetItem(h, a) # NoValue
      PROVE  Visits(a) <=> first <= a /\ a <= last
  <2>1. PICK i \in Indexes, p \in Offsets : i = IndexOf(first) /\ p = OffsetOf(first)
                                          /\ first = PageSize * i + p
    BY AddrSplit
  <2>2. PICK j \in Indexes, q \in Offsets : j = IndexOf(last) /\ q = OffsetOf(last)
                                          /\ last = PageSize * j + q
    BY AddrSplit
  <2>3. PICK k \in Indexes, o \in Offsets : k = IndexOf(a) /\ o = OffsetOf(a)
                                          /\ a = PageSize * k + o
    BY AddrSplit
  <2>4. PageAt(h, k) # NoPage
    BY <1>2, <2>3 DEF GetItem
  <2>5. /\ i \in Nat /\ j \in Nat /\ k \in Nat /\ PageSize \in Nat \ {0}
        /\ p \in 0 .. PageSize - 1 /\ q \in 0 .. PageSize - 1 /\ o \in 0 .. PageSize - 1
    BY SizesAssumption DEF Indexes, Offsets
  <2>6. \A x, y \in Nat : x < y => PageSize * x + PageSize <= PageSize * y
    <3> TAKE x, y \in Nat
    <3> HAVE x < y
    <3>1. PageSize * (x + 1) <= PageSize * y
      BY <2>5
    <3> QED BY <2>5, <3>1
  <2>7. k \in found <=> i <= k /\ k <= j
    BY <2>1, <2>2, <2>3, <2>4, <2>5
  <2>8. From(k) = IF k = i THEN p ELSE IF \A x \in found : k <= x THEN p ELSE 0
    <3>1. k = i => \A x \in found : k <= x
      <4>1. \A x \in found : x \in i .. j
        BY <2>1, <2>2
      <4>2. \A x \in i .. j : i <= x
        BY <2>5
      <4> QED BY <4>1, <4>2
    <3> QED BY <2>1, <3>1
  <2>9. k # i /\ k \in found => From(k) = 0
    <3>1. p = 0 \/ i \in found
      <4>1. i <= j
        BY <2>1, <2>2, <2>5, <2>6
      <4> QED BY <2>1, <2>2, <2>5, <4>1
    <3>2. k # i /\ k \in found => i < k
      BY <2>5, <2>7
    <3>3. i \in found /\ i < k => ~ \A x \in found : k <= x
      BY <2>5
    <3> QED BY <2>8, <3>1, <3>2, <3>3
  <2> HIDE DEF found, From
  <2>10. PICK fr : fr = From(k)
    OBVIOUS
  <2>11. (k = i => fr = p) /\ (k # i /\ k \in found => fr = 0)
    BY <2>8, <2>9, <2>10
  <2>12. Visits(a) <=> k \in found /\ o >= fr /\ (a <= last \/ o = fr)
    BY <2>3, <2>10
  <2>13. PICK pi \in Nat, pj \in Nat, pk \in Nat :
           pi = PageSize * i /\ pj = PageSize * j /\ pk = PageSize * k
    BY <2>5
  <2>14. /\ i < k => pi + PageSize <= pk
         /\ k < i => pk + PageSize <= pi
         /\ j < k => pj + PageSize <= pk
         /\ k < j => pk + PageSize <= pj
         /\ i = k => pi = pk
         /\ j = k => pj = pk
    BY <2>5, <2>6, <2>13
  <2>15. first = pi + p /\ last = pj + q /\ a = pk + o
    BY <2>1, <2>2, <2>3, <2>13
  <2> HIDE DEF Visits
  <2>16. CASE k = i
    BY <2>5, <2>7, <2>11, <2>12, <2>14, <2>15, <2>16
  <2>17. CASE k # i
    BY <2>5, <2>7, <2>11, <2>12, <2>14, <2>15, <2>17
  <2> QED BY <2>16, <2>17
<1> HIDE DEF Visits
<1>3. \A a \in Addrs : a \in Int
  BY SizesAssumption DEF Addrs
<1> QED BY <1>1, <1>2, <1>3 DEF Stored

\* find() returns exactly the stored addresses of its range, for any client and
\* whichever of its two loops runs, unless the range is long and starts inside
\* a page that does not exist.
THEOREM FoundExactly == Spec => []FindExactFromPage
<1>1. FindExactFromPage
  <2> SUFFICES ASSUME NEW h \in live, NEW first \in Addrs,
                      NEW last \in first .. NumPages * PageSize - 1
               PROVE  \/ Find(h, first, last) = Stored(h, first, last)
                      \/ /\ last - first >= LargeRange
                         /\ OffsetOf(first) # 0
                         /\ PageAt(h, IndexOf(first)) = NoPage
    BY DEF FindExactFromPage
  <2>1. last \in Addrs /\ first <= last
    BY SizesAssumption DEF Addrs
  <2> QED BY <2>1, ShortIsExact, LongIsExact DEF Find
<1> QED BY <1>1, PTL

=============================================================================
