------------------------- MODULE MemorySearchProofs -------------------------
(***************************************************************************)
(* Proofs about MemorySearch: for every memory, string, size of windows,   *)
(* budget and step the loop of find() compares whole candidates, and what  *)
(* it returns is the first match of the search told without windows.       *)
(***************************************************************************)
EXTENDS MemorySearch, FiniteSetTheorems, TLAPS

\* The arguments are among the constants.
Arguments ==
  /\ text \in Texts /\ readable \in Readables /\ what \in Whats
  /\ max_search \in MaxSearches /\ max_symbolic_bytes \in Budgets
  /\ step \in Steps /\ default \in BOOLEAN

\* The bytes of a window that starts at pos.
WindowAt(pos) == [k \in 0 .. chunk_size - 1 |-> text[pos + k]]

\* Where the loop is: a candidate is never left of the window, and at most a
\* step past its last place there, as the next window takes over the places
\* the last one had no room for.
Place ==
  /\ i \in Nat /\ chunk_start \in Nat
  /\ \E n \in Nat : i = n * step
  /\ pc \in {"start", "next", "compare", "break", "done", "fault"}
  /\ pc = "start" => i = 0 /\ chunk_start = 0
  /\ pc \in {"next", "compare", "break"} =>
       /\ chunk = WindowAt(chunk_start)
       /\ chunk_start <= i
       /\ i - chunk_start <= chunk_size - seek_size + step
  /\ pc = "compare" =>
       /\ i - chunk_start <= chunk_size - seek_size
       /\ i <= max_search - seek_size
       /\ remaining # 0

\* How much of the budget is left.
Budget ==
  IF max_symbolic_bytes = Unlimited THEN remaining = Unlimited
  ELSE /\ remaining \in Nat
       /\ pc \in {"start", "next", "compare"} =>
            remaining + Cardinality(Paid(i)) = max_symbolic_bytes

\* Is candidate j the string in every world, with no symbols anywhere?
Certain(j) ==
  Equal(BytesAt(j)) # {} /\ ~HasSymbols(BytesAt(j)) /\ ~HasSymbols(what)

\* What has been compared: all candidates before this one, none of them the
\* string for certain unless the loop is over, and each one to be inspected.
Tally ==
  /\ pc \in {"start", "next", "compare", "fault"} =>
       DOMAIN cases = {c \in Candidates : c < i}
  /\ pc = "break" => /\ DOMAIN cases = {c \in Candidates : c <= i}
                     /\ i \in Candidates /\ Equal(BytesAt(i)) = Worlds
  /\ pc \in {"start", "next", "compare", "fault"} => \A j \in DOMAIN cases : ~Certain(j)
  /\ DOMAIN cases \subseteq Inspected
  /\ \A j \in DOMAIN cases : cases[j] = Equal(BytesAt(j))
  /\ \A w \in Worlds : Found(w) # {} =>
       \E j \in Found(w) : \A c \in Found(w) : j <= c

\* The result, once there is one.
Result == FindsFirst /\ KeepsFound

IInv == Arguments /\ Place /\ Budget /\ Tally /\ Result

-----------------------------------------------------------------------------
(* What the assumptions say of the arguments. *)

LEMMA ArgumentsFacts ==
  ASSUME Arguments
  PROVE  /\ seek_size \in Nat \ {0} /\ chunk_size \in Nat
         /\ seek_size + WindowExtra <= chunk_size
         /\ step \in Nat \ {0} /\ step <= WindowExtra + 1 /\ WindowExtra \in Nat
         /\ max_search \in Nat /\ Horizon \in Nat /\ max_search + chunk_size <= Horizon
         /\ text \in [Offsets -> Exprs] /\ what \in Seq(Exprs)
         /\ max_symbolic_bytes \in Nat \cup {Unlimited}
<1>1. what \in Seq(Exprs) /\ what # <<>>
  BY SearchAssumption DEF Arguments
<1>2. Len(what) \in Nat \ {0}
  BY <1>1
<1>3. WindowBase \in Nat /\ WindowExtra \in Nat /\ step \in 1 .. WindowExtra + 1
  BY WindowAssumption DEF Arguments
<1>4. /\ WindowSize(Len(what)) \in Nat
      /\ Len(what) + WindowExtra <= WindowSize(Len(what))
  BY <1>2, <1>3 DEF WindowSize
<1>5. max_search \in Nat /\ max_search + WindowSize(Len(what)) <= Horizon
  BY SearchAssumption DEF Arguments
<1>6. Horizon \in Nat /\ text \in [Offsets -> Exprs]
  BY TextsAssumption DEF Arguments
<1>7. max_symbolic_bytes \in Nat \cup {Unlimited}
  BY BudgetsAssumption DEF Arguments
<1> QED
  BY <1>1, <1>2, <1>3, <1>4, <1>5, <1>6, <1>7 DEF seek_size, chunk_size

\* Between a multiple of s and the next one there is none.
LEMMA NoMultipleBetween ==
  ASSUME NEW s \in Nat \ {0}, NEW m \in Nat, NEW n \in Nat, m * s < n * s + s
  PROVE  m <= n
<1> SUFFICES ASSUME m > n PROVE FALSE
  OBVIOUS
<1> DEFINE d == m - n - 1
<1>1. d \in Nat /\ m = n + 1 + d
  OBVIOUS
<1>2. d * s >= 0
  BY <1>1
<1> HIDE DEF d
<1>3. (n + 1 + d) * s = n * s + s + d * s
  BY <1>1
<1>4. n * s \in Nat /\ d * s \in Nat
  BY <1>1
<1> QED
  BY <1>1, <1>2, <1>3, <1>4

\* A multiple is not greater than its factor's multiple, nor is the factor.
LEMMA FactorBelow ==
  ASSUME NEW s \in Nat \ {0}, NEW n \in Nat
  PROVE  n * s \in Nat /\ n <= n * s
<1>1. n * (s - 1) \in Nat
  OBVIOUS
<1>2. n * s = n * (s - 1) + n
  OBVIOUS
<1> QED
  BY <1>1, <1>2

\* The candidate of the loop is one of the candidates, if not past max_search.
LEMMA CandidateHere ==
  ASSUME Arguments, Place, i <= max_search - seek_size
  PROVE  i \in Candidates
<1>1. PICK n \in Nat : i = n * step
  BY DEF Place
<1>2. n \in 0 .. i
  BY <1>1, FactorBelow, ArgumentsFacts
<1>3. i \in 0 .. max_search - seek_size
  BY ArgumentsFacts DEF Place
<1> QED
  BY <1>1, <1>2, <1>3 DEF Candidates

\* There is no candidate between this one and the next one.
LEMMA NoneBetween ==
  ASSUME Arguments, Place, NEW c \in Candidates, c < i + step
  PROVE  c <= i
<1>1. PICK n \in Nat : i = n * step
  BY DEF Place
<1>2. PICK m \in Nat : c = m * step
  BY ArgumentsFacts DEF Candidates
<1>3. m <= n
  BY <1>1, <1>2, NoMultipleBetween, ArgumentsFacts
<1>4. (n - m) * step \in Nat
  BY <1>3, ArgumentsFacts
<1>5. n * step = m * step + (n - m) * step
  BY <1>3, ArgumentsFacts
<1>6. m * step \in Nat /\ n * step \in Nat
  BY FactorBelow, ArgumentsFacts
<1> QED
  BY <1>1, <1>2, <1>4, <1>5, <1>6

\* The candidates, and the ones paid for, are finitely many naturals.
LEMMA PaidFinite ==
  ASSUME Arguments, NEW j
  PROVE  /\ Candidates \subseteq Nat /\ IsFiniteSet(Paid(j))
         /\ Cardinality(Paid(j)) \in Nat
<1>1. max_search - seek_size \in Int
  BY ArgumentsFacts
<1>2. IsFiniteSet(0 .. max_search - seek_size)
  BY <1>1, FS_Interval
<1>3. Paid(j) \subseteq 0 .. max_search - seek_size
  BY DEF Paid, Candidates
<1>4. IsFiniteSet(Paid(j))
  BY <1>2, <1>3, FS_Subset
<1> QED
  BY <1>4, FS_CardinalityType DEF Candidates

-----------------------------------------------------------------------------
(* One lemma for each step. *)

\* What is told of the arguments alone does not change.
LEMMA Fixed ==
  ASSUME UNCHANGED arguments
  PROVE  /\ Arguments' <=> Arguments
         /\ seek_size' = seek_size /\ chunk_size' = chunk_size
         /\ Candidates' = Candidates /\ Inspected' = Inspected
         /\ \A j : Paid(j)' = Paid(j) /\ BytesAt(j)' = BytesAt(j)
         /\ \A j : Equal(BytesAt(j))' = Equal(BytesAt(j))
         /\ \A j : Certain(j)' <=> Certain(j)
         /\ \A j : WindowAt(j)' = WindowAt(j)
         /\ \A w : Matches(w)' = Matches(w)
<1>1. seek_size' = seek_size /\ chunk_size' = chunk_size
  BY DEF arguments, seek_size, chunk_size
<1>2. Candidates' = Candidates
  BY <1>1 DEF arguments, Candidates
<1>3. \A j : BytesAt(j)' = BytesAt(j) /\ WindowAt(j)' = WindowAt(j)
  BY <1>1 DEF arguments, BytesAt, WindowAt
<1>4. \A j : HasSymbols(BytesAt(j))' <=> HasSymbols(BytesAt(j))
  BY <1>1, <1>3 DEF arguments, HasSymbols
<1>5. HasSymbols(what)' <=> HasSymbols(what)
  BY <1>1 DEF arguments, HasSymbols
<1>6. \A j : Equal(BytesAt(j))' = Equal(BytesAt(j))
  BY <1>1, <1>3 DEF arguments, Equal
<1>7. \A j : Paid(j)' = Paid(j)
  BY <1>2, <1>4 DEF Paid
<1>8. Inspected' = Inspected
  BY <1>2, <1>7 DEF Inspected, arguments
<1>9. \A w : Matches(w)' = Matches(w)
  BY <1>6, <1>8 DEF Matches
<1>10. \A j : Certain(j)' <=> Certain(j)
  BY <1>4, <1>5, <1>6 DEF Certain
<1>11. Arguments' <=> Arguments
  BY DEF Arguments, arguments
<1> QED
  BY <1>1, <1>2, <1>3, <1>6, <1>7, <1>8, <1>9, <1>10, <1>11

\* What has been compared stays what it is when nothing is compared.
LEMMA TallyKept ==
  ASSUME Tally, UNCHANGED <<arguments, i, cases>>,
         pc \in {"start", "next", "compare"}, pc' \in {"next", "compare", "fault"}
  PROVE  Tally'
<1>1. DOMAIN cases' = DOMAIN cases /\ \A w : Found(w)' = Found(w)
  BY DEF Found
<1> QED
  BY <1>1, Fixed DEF Tally

LEMMA InitIInv == Init => IInv
<1> SUFFICES ASSUME Init PROVE IInv
  OBVIOUS
<1>1. Arguments
  BY DEF Init, Arguments
<1>2. 0 * step = 0
  BY <1>1, ArgumentsFacts
<1>3. Place
  BY <1>2 DEF Init, Place
<1>4. Paid(i) = {} /\ {c \in Candidates : c < i} = {}
  <2>1. i = 0 /\ \A c \in Candidates : c \in Nat
    BY <1>1, PaidFinite DEF Init
  <2>2. \A c \in Candidates : ~(c < i)
    BY <2>1
  <2> QED
    BY <2>2 DEF Paid
<1>5. Budget
  <2>1. Cardinality(Paid(i)) = 0
    BY <1>4, FS_EmptySet
  <2> QED
    BY <1>1, <2>1, ArgumentsFacts DEF Budget, Init, Unlimited
<1>6. Tally
  <2>1. DOMAIN cases = {}
    BY DEF Init
  <2> QED
    BY <1>4, <2>1 DEF Tally, Init, Found
<1> QED
  BY <1>1, <1>3, <1>5, <1>6 DEF IInv, Result, FindsFirst, KeepsFound, Init

LEMMA FirstIInv ==
  ASSUME IInv, First
  PROVE  IInv'
<1>1. UNCHANGED <<arguments, i, chunk_start, remaining, cases, answer>> /\ pc = "start"
  BY DEF First
<1>2. \/ pc' = "next" /\ chunk' = WindowAt(0)
      \/ pc' = "fault"
  <2>1. \A k \in 0 .. chunk_size - 1 : text[0 + k] = text[k]
    OBVIOUS
  <2> QED
    BY <2>1 DEF First, LoadWindow, WindowAt
<1>3. Place'
  BY <1>1, <1>2, Fixed, ArgumentsFacts DEF IInv, Place, arguments
<1>4. Budget'
  BY <1>1, <1>2, Fixed DEF IInv, Budget, arguments
<1>5. Tally'
  BY <1>1, <1>2, TallyKept DEF IInv
<1> QED
  BY <1>1, <1>2, <1>3, <1>4, <1>5, Fixed DEF IInv, Result, FindsFirst, KeepsFound

LEMMA StayIInv ==
  ASSUME IInv, Stay
  PROVE  IInv'
<1>1. /\ UNCHANGED <<arguments, i, chunk_start, chunk, remaining, cases, answer>>
      /\ pc = "next" /\ pc' = "compare"
  BY DEF Stay
<1>2. Place'
  BY <1>1, Fixed, ArgumentsFacts
     DEF IInv, Place, arguments, Stay, Exhausted, Overrun
<1>3. Budget'
  BY <1>1, Fixed DEF IInv, Budget, arguments
<1>4. Tally'
  BY <1>1, TallyKept DEF IInv
<1> QED
  BY <1>1, <1>2, <1>3, <1>4, Fixed DEF IInv, Result, FindsFirst, KeepsFound

LEMMA ReloadIInv ==
  ASSUME IInv, Reload
  PROVE  IInv'
<1>1. /\ UNCHANGED <<arguments, i, remaining, cases, answer>>
      /\ pc = "next" /\ chunk_start' = chunk_start + chunk_size - seek_size + 1
  BY DEF Reload
<1>2. \/ pc' = "compare" /\ chunk' = WindowAt(chunk_start')
      \/ pc' = "fault"
  BY DEF Reload, LoadWindow, WindowAt
<1>3. Place'
  <2>1. i - chunk_start > chunk_size - seek_size
    BY DEF Reload, Overrun
  <2>2. /\ i \in Nat /\ chunk_start \in Nat
        /\ i - chunk_start <= chunk_size - seek_size + step
    BY <1>1 DEF IInv, Place
  <2>3. /\ seek_size \in Nat /\ chunk_size \in Nat /\ step \in Nat /\ WindowExtra \in Nat
        /\ seek_size + WindowExtra <= chunk_size /\ step <= WindowExtra + 1
        /\ max_search \in Nat
    BY ArgumentsFacts DEF IInv
  <2>4. /\ chunk_start' \in Nat /\ chunk_start' <= i
        /\ i - chunk_start' <= chunk_size - seek_size
        /\ i - chunk_start' <= chunk_size - seek_size + step
    BY <1>1, <2>1, <2>2, <2>3
  <2>5. i <= max_search - seek_size /\ remaining # 0
    BY <2>2, <2>3 DEF Reload, Exhausted
  <2> QED
    BY <1>1, <1>2, <2>4, <2>5, Fixed DEF IInv, Place, arguments
<1>4. Budget'
  BY <1>1, <1>2, Fixed DEF IInv, Budget, arguments
<1>5. Tally'
  BY <1>1, <1>2, TallyKept DEF IInv
<1> QED
  BY <1>1, <1>2, <1>3, <1>4, <1>5, Fixed DEF IInv, Result, FindsFirst, KeepsFound

\* The bytes compared are those of the candidate, wherever the window starts.
LEMMA SliceIsCandidate ==
  ASSUME Arguments, Place, pc = "compare"
  PROVE  Slice = BytesAt(i) /\ i \in Candidates
<1>1. /\ seek_size \in Nat /\ chunk_size \in Nat
      /\ i \in Nat /\ chunk_start \in Nat /\ chunk_start <= i
      /\ i - chunk_start <= chunk_size - seek_size
      /\ chunk = WindowAt(chunk_start)
  BY ArgumentsFacts DEF Place
<1>2. ASSUME NEW k \in 1 .. seek_size
      PROVE  chunk[i - chunk_start + k - 1] = text[i + k - 1]
  <2>1. i - chunk_start + k - 1 \in 0 .. chunk_size - 1
    BY <1>1
  <2>2. chunk_start + (i - chunk_start + k - 1) = i + k - 1
    BY <1>1
  <2> QED
    BY <1>1, <2>1, <2>2 DEF WindowAt
<1>3. Slice = BytesAt(i)
  BY <1>2 DEF Slice, BytesAt
<1> QED
  BY <1>3, CandidateHere DEF Place

\* Bytes without symbols that are the string in one world are in all.
LEMMA CertainEverywhere ==
  ASSUME Arguments, NEW j \in Nat, j <= max_search, Certain(j)
  PROVE  Equal(BytesAt(j)) = Worlds
<1>1. /\ seek_size \in Nat /\ chunk_size \in Nat /\ max_search \in Nat /\ Horizon \in Nat
      /\ seek_size <= chunk_size /\ max_search + chunk_size <= Horizon
      /\ text \in [Offsets -> Exprs] /\ what \in Seq(Exprs) /\ seek_size = Len(what)
  BY ArgumentsFacts DEF seek_size
<1>2. PICK v \in Worlds : v \in Equal(BytesAt(j))
  BY DEF Certain, Equal
<1>3. SUFFICES ASSUME NEW w \in Worlds, NEW k \in 1 .. seek_size
               PROVE  BytesAt(j)[k].val[w] = what[k].val[w]
  BY DEF Equal
<1>4. BytesAt(j)[k] \in Exprs /\ what[k] \in Exprs
  <2>1. j + k - 1 \in Offsets
    BY <1>1 DEF Offsets
  <2> QED
    BY <1>1, <2>1 DEF BytesAt
<1>5. ~BytesAt(j)[k].symbolic /\ ~what[k].symbolic
  BY DEF Certain, HasSymbols
<1>6. BytesAt(j)[k].val[v] = what[k].val[v]
  BY <1>2 DEF Equal
<1> QED
  BY <1>4, <1>5, <1>6, ExprsAssumption

\* What is paid for up to the next candidate: this one, if it has symbols.
LEMMA PaidNext ==
  ASSUME Arguments, Place, i \in Candidates
  PROVE  /\ HasSymbols(BytesAt(i)) =>
              Cardinality(Paid(i + step)) = Cardinality(Paid(i)) + 1
         /\ ~HasSymbols(BytesAt(i)) => Paid(i + step) = Paid(i)
         /\ {c \in Candidates : c < i + step} = {c \in Candidates : c <= i}
<1>1. i \in Nat /\ step \in Nat \ {0} /\ Candidates \subseteq Nat
  BY ArgumentsFacts, PaidFinite DEF Place
<1>2. \A c \in Candidates : c < i + step <=> c <= i
  BY <1>1, NoneBetween
<1>3. \A c \in Candidates : c < i + step <=> c < i \/ c = i
  BY <1>1, <1>2
<1>4. HasSymbols(BytesAt(i)) => Paid(i + step) = Paid(i) \cup {i}
  BY <1>3 DEF Paid
<1>5. i \notin Paid(i)
  BY <1>1 DEF Paid
<1>6. Cardinality(Paid(i) \cup {i}) = Cardinality(Paid(i)) + 1
  BY <1>5, PaidFinite, FS_AddElement
<1>7. ~HasSymbols(BytesAt(i)) => Paid(i + step) = Paid(i)
  BY <1>3 DEF Paid
<1> QED
  BY <1>2, <1>4, <1>6, <1>7

\* A candidate reached with budget left is to be inspected.
LEMMA InspectedHere ==
  ASSUME Arguments, Place, Budget, pc = "compare"
  PROVE  i \in Inspected
<1>1. i \in Candidates /\ remaining # 0
  BY SliceIsCandidate DEF Place
<1>2. CASE max_symbolic_bytes = Unlimited
  BY <1>1, <1>2 DEF Inspected
<1>3. CASE max_symbolic_bytes # Unlimited
  <2>1. /\ remaining \in Nat
        /\ remaining + Cardinality(Paid(i)) = max_symbolic_bytes
    BY <1>3 DEF Budget
  <2>2. Cardinality(Paid(i)) < max_symbolic_bytes
    BY <1>1, <2>1, PaidFinite
  <2> QED
    BY <1>1, <2>2 DEF Inspected
<1> QED
  BY <1>2, <1>3

\* What has been compared, after a comparison.
LEMMA Compared ==
  ASSUME Arguments, Place, Budget, Tally, Compare
  PROVE  /\ DOMAIN cases' = {c \in Candidates : c <= i}
         /\ DOMAIN cases' \subseteq Inspected
         /\ \A j \in DOMAIN cases' : cases'[j] = Equal(BytesAt(j))
         /\ \A w \in Worlds : Found(w)' # {} =>
               \E j \in Found(w)' : \A c \in Found(w)' : j <= c
<1>1. /\ pc = "compare"
      /\ cases' = [j \in (DOMAIN cases) \cup {i} |-> IF j = i THEN Equal(Slice) ELSE cases[j]]
  BY DEF Compare
<1>2. i \in Candidates /\ Slice = BytesAt(i) /\ i \in Inspected
  BY <1>1, SliceIsCandidate, InspectedHere
<1>3. DOMAIN cases = {c \in Candidates : c < i}
  BY <1>1 DEF Tally
<1>4. i \in Nat /\ Candidates \subseteq Nat
  BY PaidFinite DEF Place
<1>5. DOMAIN cases' = {c \in Candidates : c <= i}
  <2>1. \A c \in Candidates : c <= i <=> c < i \/ c = i
    BY <1>4
  <2> QED
    BY <1>1, <1>2, <1>3, <2>1
<1>6. ASSUME NEW j \in DOMAIN cases' PROVE cases'[j] = Equal(BytesAt(j))
  <2>1. j \in DOMAIN cases => cases[j] = Equal(BytesAt(j))
    BY DEF Tally
  <2> QED
    BY <1>1, <1>2, <2>1
<1>7. ASSUME NEW w \in Worlds, Found(w)' # {}
      PROVE  \E j \in Found(w)' : \A c \in Found(w)' : j <= c
  <2>1. Found(w)' \ {i} = Found(w) /\ Found(w) \subseteq {c \in Candidates : c < i}
    BY <1>1, <1>3, <1>4 DEF Found
  <2>2. CASE Found(w) = {}
    <3>1. Found(w)' = {i}
      BY <1>7, <2>1, <2>2
    <3> QED
      BY <1>4, <3>1
  <2>3. CASE Found(w) # {}
    <3>1. PICK j \in Found(w) : \A c \in Found(w) : j <= c
      BY <2>3 DEF Tally
    <3>2. j < i /\ \A c \in Found(w)' : c = i \/ c \in Found(w)
      BY <2>1
    <3>3. j \in Found(w)' /\ j \in Nat
      BY <1>4, <2>1
    <3>4. ASSUME NEW c \in Found(w)' PROVE j <= c
      BY <1>4, <3>1, <3>2, <3>3
    <3> QED
      BY <3>3, <3>4
  <2> QED
    BY <2>2, <2>3
<1>8. DOMAIN cases' \subseteq Inspected
  BY <1>1, <1>2 DEF Tally
<1> QED
  BY <1>5, <1>6, <1>7, <1>8

\* A comparison keeps the invariant.
LEMMA CompareIInv ==
  ASSUME IInv, Compare
  PROVE  IInv'
<1>1. /\ UNCHANGED <<arguments, chunk_start, chunk, answer>> /\ pc = "compare"
      /\ i \in Candidates /\ Slice = BytesAt(i)
  BY SliceIsCandidate DEF Compare, IInv
<1>2. /\ i \in Nat /\ step \in Nat \ {0} /\ Candidates \subseteq Nat
      /\ i <= max_search
  <2>1. i \in 0 .. max_search - seek_size
    BY <1>1 DEF Candidates
  <2>2. Arguments /\ i \in Nat
    BY DEF IInv, Place
  <2> QED
    BY <2>1, <2>2, ArgumentsFacts, PaidFinite
<1>3. /\ DOMAIN cases' = {c \in Candidates : c <= i}
      /\ DOMAIN cases' \subseteq Inspected
      /\ \A j \in DOMAIN cases' : cases'[j] = Equal(BytesAt(j))
      /\ \A w \in Worlds : Found(w)' # {} =>
            \E j \in Found(w)' : \A c \in Found(w)' : j <= c
  BY Compared DEF IInv
<1>4. CASE CertainlyEqual(Slice)
  <2>1. UNCHANGED <<i, remaining>> /\ pc' = "break"
    BY <1>4 DEF Compare
  <2>2. Equal(BytesAt(i)) = Worlds
    BY <1>1, <1>2, <1>4, CertainEverywhere DEF CertainlyEqual, Certain, IInv
  <2>3. Place'
    BY <1>1, <2>1, Fixed, ArgumentsFacts DEF IInv, Place, arguments
  <2>4. Budget'
    BY <1>1, <2>1, Fixed DEF IInv, Budget, arguments
  <2>5. Tally'
    BY <1>1, <1>3, <2>1, <2>2, Fixed DEF Tally
  <2> QED
    BY <1>1, <2>1, <2>3, <2>4, <2>5, Fixed DEF IInv, Result, FindsFirst, KeepsFound
<1>5. CASE ~CertainlyEqual(Slice)
  <2>1. /\ remaining' = IF HasSymbols(BytesAt(i)) /\ remaining # Unlimited
                          THEN remaining - 1 ELSE remaining
        /\ i' = i + step /\ pc' = "next"
    BY <1>1, <1>5 DEF Compare, NextCandidate
  <2>2. Place'
    <3>1. PICK n \in Nat : i = n * step
      BY DEF IInv, Place
    <3>2. i' = (n + 1) * step /\ n + 1 \in Nat
      BY <1>2, <2>1, <3>1
    <3>3. /\ i' \in Nat /\ chunk_start \in Nat /\ chunk_start <= i'
          /\ i' - chunk_start <= chunk_size - seek_size + step
      BY <1>1, <1>2, <2>1, ArgumentsFacts DEF IInv, Place
    <3>4. chunk = WindowAt(chunk_start)
      BY <1>1 DEF IInv, Place
    <3>5. step' = step
      BY <1>1 DEF arguments
    <3> QED
      BY <1>1, <2>1, <3>2, <3>3, <3>4, <3>5, Fixed DEF Place
  <2>3. Budget'
    <3>1. CASE max_symbolic_bytes = Unlimited
      BY <1>1, <2>1, <3>1 DEF IInv, Budget, arguments
    <3>2. CASE max_symbolic_bytes # Unlimited
      <4>1. /\ remaining \in Nat \ {0}
            /\ remaining + Cardinality(Paid(i)) = max_symbolic_bytes
        BY <1>1, <3>2 DEF IInv, Budget, Place
      <4>2. Cardinality(Paid(i)) \in Nat /\ max_symbolic_bytes \in Nat
        BY <3>2, PaidFinite, ArgumentsFacts DEF IInv
      <4>3. /\ remaining' \in Nat
            /\ remaining' + Cardinality(Paid(i + step)) = max_symbolic_bytes
        BY <1>1, <2>1, <4>1, <4>2, PaidNext DEF IInv, Unlimited
      <4>4. Paid(i)' = Paid(i + step)
        BY <1>1, <2>1, Fixed DEF Paid
      <4> QED
        BY <1>1, <3>2, <4>3, <4>4 DEF Budget, arguments
    <3> QED
      BY <3>1, <3>2
  <2>4. Tally'
    <3>1. ~Certain(i)
      BY <1>1, <1>5 DEF CertainlyEqual, Certain
    <3>2. \A j \in DOMAIN cases' : ~Certain(j)
      <4>1. \A j \in Candidates : j <= i => j = i \/ j < i
        BY <1>2
      <4>2. \A j \in Candidates : j < i => ~Certain(j)
        BY <1>1 DEF IInv, Tally
      <4> QED
        BY <1>3, <3>1, <4>1, <4>2
    <3>3. DOMAIN cases' = {c \in Candidates : c < i'}
      BY <1>1, <1>3, <2>1, PaidNext DEF IInv
    <3> QED
      BY <1>1, <1>3, <2>1, <3>2, <3>3, Fixed DEF Tally
  <2> QED
    BY <1>1, <2>1, <2>2, <2>3, <2>4, Fixed DEF IInv, Result, FindsFirst, KeepsFound
<1> QED
  BY <1>4, <1>5

\* When the loop is over, the cases a world finds are its matches, or start
\* with them and have one at the end.
LEMMA Over ==
  ASSUME Arguments, Place, Budget, Tally,
         pc = "break" \/ (pc = "next" /\ Exhausted), NEW w \in Worlds
  PROVE  /\ Found(w) \subseteq Matches(w)
         /\ Matches(w) # {} => Found(w) # {}
         /\ \A j \in Matches(w) : j \in Found(w) \/ \E c \in Found(w) : c < j
<1>1. Found(w) \subseteq Matches(w)
  BY DEF Found, Matches, Tally
<1>2. i \in Nat /\ Candidates \subseteq Nat /\ Inspected \subseteq Candidates
  BY PaidFinite DEF Place, Inspected
<1>3. CASE pc = "break"
  <2>1. DOMAIN cases = {c \in Candidates : c <= i} /\ i \in Found(w)
    BY <1>2, <1>3 DEF Tally, Found
  <2>2. \A j \in Matches(w) : j <= i => j \in Found(w)
    BY <1>2, <2>1 DEF Matches, Found, Tally
  <2> QED
    BY <1>1, <1>2, <2>1, <2>2 DEF Matches
<1>4. CASE pc = "next" /\ Exhausted
  <2>1. DOMAIN cases = {c \in Candidates : c < i}
    BY <1>4 DEF Tally
  <2>2. ASSUME NEW j \in Inspected PROVE j < i
    <3> SUFFICES ASSUME i <= j PROVE FALSE
      BY <1>2
    <3>1. j <= max_search - seek_size
      BY <1>2 DEF Candidates
    <3>2. remaining = 0
      BY <1>2, <1>4, <3>1, ArgumentsFacts DEF Exhausted
    <3>3. max_symbolic_bytes # Unlimited
      BY <3>2 DEF Budget, Unlimited
    <3>4. Cardinality(Paid(i)) = max_symbolic_bytes
      BY <1>4, <3>2, <3>3, PaidFinite DEF Budget
    <3>5. Paid(i) \subseteq Paid(j)
      <4>1. \A c \in Candidates : c < i => c < j
        BY <1>2
      <4> QED
        BY <4>1 DEF Paid
    <3>6. Cardinality(Paid(i)) <= Cardinality(Paid(j))
      BY <3>5, PaidFinite, FS_Subset
    <3>7. Cardinality(Paid(j)) < max_symbolic_bytes
      BY <3>3 DEF Inspected
    <3> QED
      BY <3>4, <3>6, <3>7, PaidFinite
  <2>3. Matches(w) \subseteq Found(w)
    BY <1>2, <2>1, <2>2 DEF Matches, Found, Tally
  <2> QED
    BY <1>1, <2>3
<1> QED
  BY <1>3, <1>4

\* What is returned is right.
LEMMA ReturnIInv ==
  ASSUME IInv, Return
  PROVE  IInv'
<1>1. /\ UNCHANGED <<arguments, i, chunk_start, chunk, remaining, cases>>
      /\ pc = "break" \/ (pc = "next" /\ Exhausted)
      /\ answer' = [value |-> [w \in Worlds |-> IteCases(w)], kept |-> Constraint]
      /\ pc' = "done"
  BY DEF Return
<1>2. FindsFirst'
  <2>1. SUFFICES ASSUME NEW w \in Worlds
                 PROVE  IF Matches(w) = {} THEN IteCases(w) = NotFound
                        ELSE /\ IteCases(w) \in Matches(w)
                             /\ \A j \in Matches(w) : IteCases(w) <= j
    BY <1>1, Fixed DEF FindsFirst
  <2>2. /\ Found(w) \subseteq Matches(w)
        /\ Matches(w) # {} => Found(w) # {}
        /\ \A j \in Matches(w) : j \in Found(w) \/ \E c \in Found(w) : c < j
    BY <1>1, Over DEF IInv
  <2>3. CASE Matches(w) = {}
    BY <2>2, <2>3 DEF IteCases
  <2>4. CASE Matches(w) # {}
    <3>1. \E j \in Found(w) : \A c \in Found(w) : j <= c
      BY <2>2, <2>4 DEF IInv, Tally
    <3>2. IteCases(w) \in Found(w) /\ \A c \in Found(w) : IteCases(w) <= c
      BY <2>2, <2>4, <3>1 DEF IteCases
    <3>3. Matches(w) \subseteq Nat
      BY PaidFinite DEF IInv, Matches, Inspected
    <3>4. ASSUME NEW j \in Matches(w) PROVE IteCases(w) <= j
      <4>1. CASE j \in Found(w)
        BY <3>2, <4>1
      <4>2. CASE j \notin Found(w)
        <5>1. PICK c \in Found(w) : c < j
          BY <2>2, <4>2
        <5>2. IteCases(w) <= c /\ c \in Nat /\ j \in Nat /\ IteCases(w) \in Nat
          BY <2>2, <3>2, <3>3
        <5> QED
          BY <5>1, <5>2
      <4> QED
        BY <4>1, <4>2
    <3> QED
      BY <2>2, <2>4, <3>2, <3>4
  <2> QED
    BY <2>3, <2>4
<1>3. KeepsFound'
  <2>1. \A w \in Worlds : Found(w) # {} <=> Matches(w) # {}
    BY <1>1, Over DEF IInv
  <2>2. default' = default
    BY <1>1 DEF arguments
  <2>3. Constraint = {w \in Worlds : default \/ Matches(w) # {}}
    BY <2>1 DEF Constraint
  <2> QED
    BY <1>1, <2>2, <2>3, Fixed DEF KeepsFound
<1>4. Place'
  BY <1>1, Fixed DEF IInv, Place, arguments
<1>5. Budget'
  BY <1>1, Fixed DEF IInv, Budget, arguments
<1>6. Tally'
  <2>1. \A w : Found(w)' = Found(w)
    BY <1>1 DEF Found
  <2> QED
    BY <1>1, <2>1, Fixed DEF IInv, Tally
<1> QED
  BY <1>1, <1>2, <1>3, <1>4, <1>5, <1>6, Fixed DEF IInv, Result

\* The invariant holds in every state.
LEMMA Invariant == Spec => []IInv
<1>1. IInv /\ [Next]_vars => IInv'
  <2> SUFFICES ASSUME IInv, [Next]_vars PROVE IInv'
    OBVIOUS
  <2>1. CASE Next
    BY <2>1, FirstIInv, StayIInv, ReloadIInv, CompareIInv, ReturnIInv DEF Next
  <2>2. CASE UNCHANGED vars
    <3>1. UNCHANGED <<arguments, i, chunk_start, chunk, remaining, cases, answer, pc>>
      BY <2>2 DEF vars, arguments
    <3>2. step' = step /\ max_search' = max_search /\ default' = default
          /\ max_symbolic_bytes' = max_symbolic_bytes
      BY <3>1 DEF arguments
    <3>3. \A w : Found(w)' = Found(w)
      BY <3>1 DEF Found
    <3>4. Arguments' /\ Place'
      BY <3>1, <3>2, Fixed DEF IInv, Place
    <3>5. Budget'
      BY <3>1, <3>2, Fixed DEF IInv, Budget
    <3>6. Tally'
      BY <3>1, <3>3, Fixed DEF IInv, Tally
    <3>7. Result'
      BY <3>1, <3>2, Fixed DEF IInv, Result, FindsFirst, KeepsFound
    <3> QED
      BY <3>4, <3>5, <3>6, <3>7 DEF IInv
  <2> QED
    BY <2>1, <2>2
<1> QED
  BY <1>1, InitIInv, PTL DEF Spec

-----------------------------------------------------------------------------
(* The results. *)

\* The cases find() collects, whose indices it returns, are about candidates.
THEOREM Typed == Spec => []TypeOK
<1>1. IInv => TypeOK
  <2> SUFFICES ASSUME IInv PROVE TypeOK
    OBVIOUS
  <2>1. DOMAIN cases \subseteq Candidates
    BY DEF IInv, Tally, Inspected
  <2>2. \A j \in DOMAIN cases : cases[j] \subseteq Worlds
    BY DEF IInv, Tally, Equal
  <2>3. remaining \in Nat \cup {Unlimited}
    BY DEF IInv, Budget
  <2> QED
    BY <2>1, <2>2, <2>3 DEF IInv, Place, TypeOK
<1> QED
  BY <1>1, Invariant, PTL

\* Whichever window a candidate is compared in, the whole of it lies there.
THEOREM WholeCandidates == Spec => []InsideWindow
<1>1. IInv => InsideWindow
  BY ArgumentsFacts DEF IInv, Place, InsideWindow
<1> QED
  BY <1>1, Invariant, PTL

\* find() returns, in every world, the first match among the candidates it is
\* asked to look at, and a constraint that leaves the worlds that have one.
THEOREM FirstMatch == Spec => [](FindsFirst /\ KeepsFound)
<1>1. IInv => FindsFirst /\ KeepsFound
  BY DEF IInv, Result
<1> QED
  BY <1>1, Invariant, PTL

\* The constraint find() returns keeps every world in which there is a match, so
\* nothing that was found is given up when it is added to the path.
THEOREM MatchesAreKept == Spec => []KeepsFound
  BY FirstMatch, PTL

\* No window is read after a candidate that is certainly the string.
THEOREM NoNeedlessWindow == Spec => []FaultIsForMissing
<1>1. IInv => FaultIsForMissing
  BY DEF IInv, Tally, Certain, FaultIsForMissing
<1> QED
  BY <1>1, Invariant, PTL

=============================================================================
