---------------------------- MODULE MemorySearch ----------------------------
(***************************************************************************)
(* find() of memory/range_fully_symbolic_memory.py: a search for a string  *)
(* of bytes through windows of the memory, each read by one load().        *)
(*                                                                         *)
(* Addresses are offsets from where the search starts, which may itself be *)
(* symbolic.  As in SymbolicMemory a world is a valuation of the inputs;   *)
(* an expression has a value in each world, and may have symbols.  Loads   *)
(* see the same bytes all along (LoadSound of that module).  The segfault  *)
(* check of a load looks at its first byte only, which passes if it is     *)
(* readable in every world (CheckIsPointwise of MappedRegions).            *)
(***************************************************************************)
EXTENDS Integers, Sequences, FiniteSets

CONSTANTS
  Worlds,      (* the valuations of the symbolic inputs                    *)
  Exprs,       (* one-byte expressions                                     *)
  Horizon,     (* bound: the last offset a window may reach                *)
  Texts,       (* contents of the memory from the start on                 *)
  Readables,   (* sets of offsets that are readable in every world         *)
  Whats,       (* strings to look for                                      *)
  MaxSearches, (* values of max_search                                     *)
  Budgets,     (* values of max_symbolic_bytes, Unlimited among them       *)
  Steps,       (* values of step, the distance of two candidates           *)
  WindowBase,  (* least size of a window, 0x100                            *)
  WindowExtra  (* least room in a window past the string, 0x80             *)

Unlimited == -1
NotFound  == -1
Offsets   == 0 .. Horizon

\* chunk_size, by the size of the string.
WindowSize(n) == IF n + WindowExtra > WindowBase THEN n + WindowExtra ELSE WindowBase

ASSUME ExprsAssumption ==
  \A e \in Exprs : /\ DOMAIN e.val = Worlds
                   /\ e.symbolic \in BOOLEAN
                   /\ e.symbolic \/ \A v, w \in Worlds : e.val[v] = e.val[w]
ASSUME WorldsAssumption == Worlds # {}
ASSUME TextsAssumption ==
  Horizon \in Nat /\ Texts \subseteq [Offsets -> Exprs] /\ Readables \subseteq SUBSET Offsets
ASSUME WindowAssumption ==
  /\ WindowBase \in Nat /\ WindowExtra \in Nat
  /\ Steps \subseteq 1 .. WindowExtra + 1
ASSUME SearchAssumption ==
  /\ Whats \subseteq Seq(Exprs) \ {<<>>} /\ MaxSearches \subseteq Nat
  /\ \A n \in MaxSearches, q \in Whats : n + WindowSize(Len(q)) <= Horizon
ASSUME BudgetsAssumption == Budgets \subseteq Nat \cup {Unlimited}

VARIABLES
  text, readable,  (* the memory, fixed                                    *)
  what, max_search, max_symbolic_bytes, step,   (* the arguments, fixed    *)
  default,         (* is a default value given?  fixed                     *)
  i,               (* the candidate                                        *)
  chunk_start,     (* where the window starts                              *)
  chunk,           (* the bytes of the window                              *)
  remaining,       (* remaining_symbolic                                   *)
  cases,           (* cases[j]: the worlds where candidate j is the string *)
  answer,          (* the value returned in each world, and the worlds the *)
                   (* returned constraints leave                           *)
  pc               (* "start", "next", "compare", "break", "done", "fault" *)

arguments == <<text, readable, what, max_search, max_symbolic_bytes, step, default>>
vars == <<text, readable, what, max_search, max_symbolic_bytes, step, default,
          i, chunk_start, chunk, remaining, cases, answer, pc>>

seek_size  == Len(what)
chunk_size == WindowSize(seek_size)
NoAnswer   == [value |-> [w \in Worlds |-> NotFound], kept |-> Worlds]

Init ==
  /\ text \in Texts /\ readable \in Readables
  /\ what \in Whats
  /\ max_search \in MaxSearches
  /\ max_symbolic_bytes \in Budgets
  /\ step \in Steps
  /\ default \in BOOLEAN
  /\ i = 0
  /\ chunk_start = 0
  /\ chunk = <<>>
  /\ remaining = max_symbolic_bytes
  /\ cases = <<>>
  /\ answer = NoAnswer
  /\ pc = "start"

\* load(start + pos, chunk_size), then on to label.  A segfault leaves find().
LoadWindow(pos, label) ==
  \/ /\ pos \in readable
     /\ chunk' = [k \in 0 .. chunk_size - 1 |-> text[pos + k]]
     /\ pc' = label
  \/ /\ pos \notin readable
     /\ pc' = "fault"
     /\ UNCHANGED chunk

\* The window find() starts with.
First ==
  /\ pc = "start"
  /\ LoadWindow(0, "next")
  /\ UNCHANGED <<arguments, i, chunk_start, remaining, cases, answer>>

\* Faulty: candidates that end past max_search are looked at.
ExhaustedLate == i > max_search \/ remaining = 0

\* Is there no further candidate to look at?
Exhausted == i > max_search - seek_size \/ remaining = 0

\* Faulty: a string that starts in the window is taken to end in it.
OverrunByStart == i - chunk_start >= chunk_size

\* Is the candidate not inside the window?
Overrun == i - chunk_start > chunk_size - seek_size

\* A turn of the loop up to the comparison, in the window or in the next one.
Stay ==
  /\ pc = "next" /\ ~Exhausted /\ ~Overrun
  /\ pc' = "compare"
  /\ UNCHANGED <<arguments, i, chunk_start, chunk, remaining, cases, answer>>

Reload ==
  /\ pc = "next" /\ ~Exhausted /\ Overrun
  /\ chunk_start' = chunk_start + chunk_size - seek_size + 1
  /\ LoadWindow(chunk_start', "compare")
  /\ UNCHANGED <<arguments, i, remaining, cases, answer>>

\* The bytes of the window the candidate is made of.
Slice == [k \in 1 .. seek_size |-> chunk[i - chunk_start + k - 1]]
HasSymbols(s) == \E k \in 1 .. seek_size : s[k].symbolic
Equal(s) == {w \in Worlds : \A k \in 1 .. seek_size : s[k].val[w] = what[k].val[w]}

\* Faulty: whether the bytes have symbols is not asked.
CertainlyEqualEval(s) == Equal(s) # {}

\* Faulty: the search never ends early.
CertainlyEqualNever(s) == FALSE

\* Are the bytes the string whatever the world?
CertainlyEqual(s) == ~HasSymbols(s) /\ ~HasSymbols(what) /\ Equal(s) # {}

\* Faulty: a symbolic byte is paid for and looked at again.
NextCandidateStuck(s) == IF HasSymbols(s) THEN i ELSE i + step

NextCandidate(s) == i + step

Compare ==
  /\ pc = "compare"
  /\ cases' = [j \in (DOMAIN cases) \cup {i} |-> IF j = i THEN Equal(Slice) ELSE cases[j]]
  /\ \/ /\ CertainlyEqual(Slice)
        /\ pc' = "break"
        /\ UNCHANGED <<i, remaining>>
     \/ /\ ~CertainlyEqual(Slice)
        /\ remaining' = IF HasSymbols(Slice) /\ remaining # Unlimited
                          THEN remaining - 1 ELSE remaining
        /\ i' = NextCandidate(Slice)
        /\ pc' = "next"
  /\ UNCHANGED <<arguments, chunk_start, chunk, answer>>

\* ite_cases(): the first case that holds, and otherwise the default value,
\* 0 if none is given; and without one a constraint that some case holds.
Found(w) == {j \in DOMAIN cases : w \in cases[j]}
IteCases(w) ==
  IF Found(w) = {} THEN NotFound
  ELSE CHOOSE j \in Found(w) : \A c \in Found(w) : j <= c

\* Faulty: the constraint is left out.
ConstraintNone == Worlds

Constraint == IF default THEN Worlds ELSE {w \in Worlds : Found(w) # {}}

Return ==
  /\ pc = "break" \/ (pc = "next" /\ Exhausted)
  /\ answer' = [value |-> [w \in Worlds |-> IteCases(w)], kept |-> Constraint]
  /\ pc' = "done"
  /\ UNCHANGED <<arguments, i, chunk_start, chunk, remaining, cases>>

Next == First \/ Stay \/ Reload \/ Compare \/ Return

\* find() is sequential code that goes on unless a load does not return.
Spec == Init /\ [][Next]_vars /\ WF_vars(Next)

-----------------------------------------------------------------------------
(* Properties. *)

\* What find() is asked to do, told without windows: the candidates up to
\* max_search, as long as fewer than max_symbolic_bytes of the ones before
\* them have symbols.
Candidates == {j \in 0 .. max_search - seek_size : \E n \in 0 .. j : j = n * step}
BytesAt(j) == [k \in 1 .. seek_size |-> text[j + k - 1]]
Paid(j) == {c \in Candidates : c < j /\ HasSymbols(BytesAt(c))}
Inspected ==
  {j \in Candidates : \/ max_symbolic_bytes = Unlimited
                      \/ Cardinality(Paid(j)) < max_symbolic_bytes}
Matches(w) == {j \in Inspected : w \in Equal(BytesAt(j))}

\* The variables have their types; the cases, whose indices find() returns,
\* are about candidates.
TypeOK ==
  /\ i \in Nat /\ chunk_start \in Nat
  /\ remaining \in Nat \cup {Unlimited}
  /\ DOMAIN cases \subseteq Candidates
  /\ \A j \in DOMAIN cases : cases[j] \subseteq Worlds
  /\ pc \in {"start", "next", "compare", "break", "done", "fault"}

\* Whichever window a candidate is compared in, the whole of it lies there.
InsideWindow ==
  pc = "compare" => i - chunk_start \in 0 .. chunk_size - seek_size

\* find() returns, in every world, the first of the candidates it is asked to
\* look at that is the string: neither the windows nor the early end of the
\* search at a certain match change what is found.
FindsFirst ==
  pc = "done" => \A w \in Worlds :
    IF Matches(w) = {} THEN answer.value[w] = NotFound
    ELSE /\ answer.value[w] \in Matches(w)
         /\ \A j \in Matches(w) : answer.value[w] <= j

\* The constraint returned with no default leaves the worlds where the string
\* is found and no others, and there is none with a default.
KeepsFound ==
  pc = "done" =>
    answer.kept = {w \in Worlds : default \/ Matches(w) # {}}

\* The search ends.
Terminates == <>(pc \in {"done", "fault"})

\* A search does not fail on account of memory it has no need of: if it ends
\* in a segfault then each candidate before is not the string, or has symbols
\* or is compared with some.
FaultIsForMissing ==
  pc = "fault" => \A j \in Candidates : j < i =>
    Equal(BytesAt(j)) = {} \/ HasSymbols(BytesAt(j)) \/ HasSymbols(what)

=============================================================================
