------------------------------ MODULE Executor ------------------------------
(***************************************************************************)
(* executor/executor.py: the two loops that drive angr's simulation        *)
(* manager, run() and explore().  A round steps every active path once and *)
(* sorts the paths by where they are now.                                  *)
(*                                                                         *)
(* A stash is the set of addresses its paths are at, as no decision of the *)
(* loops depends on more.  What angr finds feasible is external: a path at *)
(* an address has some of its successors, or none and leaves the stashes.  *)
(***************************************************************************)
EXTENDS Integers

CONSTANTS
  Addrs,   (* the instructions of the program                              *)
  Programs,(* the programs: a function from instructions to successors     *)
  Start,   (* where the metabinary starts                                  *)
  Configs, (* the metabinaries: the targets, and where a path is given up  *)
  Limits,  (* values of max_rounds, None among them                        *)
  Loops    (* the loops that are run: "run", "explore"                     *)

None == -1

ASSUME StartAssumption == Start \in Addrs
ASSUME ProgramsAssumption == Programs \subseteq [Addrs -> SUBSET Addrs]
ASSUME ConfigsAssumption == Configs \subseteq [end : SUBSET Addrs, avoid : SUBSET Addrs]
ASSUME LimitsAssumption == Limits \subseteq Nat \cup {None}
ASSUME LoopsAssumption == Loops \subseteq {"run", "explore"}

VARIABLES
  next,    (* the program, fixed                                           *)
  config,  (* end and avoid of the metabinary, fixed                       *)
  limit,   (* max_rounds, fixed                                            *)
  loop,    (* the loop that is run, fixed                                  *)
  active, found, avoided,   (* the stashes                                 *)
  k,       (* the counter of the loop                                      *)
  pc       (* "loop", then "target", "no target", "failed" or "error"      *)

fixed == <<next, config, limit, loop>>
vars == <<next, config, limit, loop, active, found, avoided, k, pc>>

End == config.end
Avoid == config.avoid

Init ==
  /\ next \in Programs
  /\ config \in Configs
  /\ limit \in Limits
  /\ loop \in Loops
  /\ active = {Start} /\ found = {} /\ avoided = {}
  /\ k = 0
  /\ pc = "loop"

\* Does the loop go on?
OutOfRounds == limit # None /\ k >= limit
Going == pc = "loop" /\ active # {} /\ found = {} /\ ~OutOfRounds

\* What one step of angr makes of the active paths.
Stepped(S) == S \subseteq UNION {next[a] : a \in active}

\* Faulty: the counter is used for another thing, too.
RoundReset(i) == 1

\* The counter after a round of run(), which without a limit only prints it.
Round(i) == IF limit = None THEN i ELSE i + 1

\* Faulty: a path that is given up stays active.
LeftOfAll(S) == S \ End

\* The paths of S that stay active.
Left(S) == S \ (End \cup Avoid)

\* A round of run(): explore(avoid, find, n=1) of angr, which decides what
\* becomes of a path that is to be found and to be avoided.
RunRound(S) ==
  /\ loop = "run" /\ Going
  /\ Stepped(S)
  /\ \E hits \in SUBSET (S \cap End) :
       /\ (S \cap End) \ Avoid \subseteq hits
       /\ found' = found \cup hits
       /\ avoided' = avoided \cup ((S \cap Avoid) \ hits)
  /\ active' = Left(S)
  /\ k' = Round(k)
  /\ UNCHANGED <<fixed, pc>>

\* The counter of explore() also counts the instructions printed, from 0: one.
Printed == 1

\* Faulty: a path that is only avoided is put on the list twice, too.
TwiceAll(S) == S \cap Avoid

\* The paths that are on the list of those to remove from the active ones
\* twice; the second removal raises a ValueError, which nobody handles.
Twice(S) == S \cap End \cap Avoid

\* A round of explore(): it steps, and moves the paths itself.  When it fails
\* some of those to remove are still active.
ExploreRound(S) ==
  /\ loop = "explore" /\ Going
  /\ Stepped(S)
  /\ found' = found \cup (S \cap End)
  /\ avoided' = avoided \cup (S \cap Avoid)
  /\ k' = Printed
  /\ IF Twice(S) = {}
       THEN active' = Left(S) /\ UNCHANGED pc
       ELSE /\ \E rest \in SUBSET (S \ Left(S)) : active' = Left(S) \cup rest
            /\ pc' = "error"
  /\ UNCHANGED fixed

\* run() is over: it returns whether a path has reached a target.
RunEnds ==
  /\ loop = "run" /\ pc = "loop" /\ ~Going
  /\ pc' = IF found # {} THEN "target" ELSE "no target"
  /\ UNCHANGED <<fixed, active, found, avoided, k>>

\* explore() is over: out of rounds it takes the active paths for found ones,
\* and with neither kind left its assertion fails.
ExploreEnds ==
  /\ loop = "explore" /\ pc = "loop" /\ ~Going
  /\ found' = IF active # {} /\ found = {} THEN active ELSE found
  /\ pc' = IF found' # {} THEN "target" ELSE "failed"
  /\ UNCHANGED <<fixed, active, avoided, k>>

Next ==
  \/ \E S \in SUBSET Addrs : RunRound(S) \/ ExploreRound(S)
  \/ RunEnds
  \/ ExploreEnds

\* The loops are sequential code: they go on unless a step of angr does not
\* return, which is not modelled.
Spec == Init /\ [][Next]_vars /\ WF_vars(Next)

-----------------------------------------------------------------------------
(* Properties. *)

\* A path moves on from the start, which the loops do not look at, and from
\* where it is neither found nor given up.
Steps(a, b) == b \in next[a] /\ a \notin (End \cup Avoid) \ {Start}

\* a is in every set that has the start and where each step leads.
Reached(a) ==
  \A C \in SUBSET Addrs :
    Start \in C /\ (\A x \in C, y \in Addrs : Steps(x, y) => y \in C) => a \in C

\* Every set of addresses has one from where no step stays in the set.
Acyclic ==
  \A C \in (SUBSET Addrs) \ {{}} : \E x \in C : \A y \in C : ~Steps(x, y)

\* A path that is found has come there past no other target and no address to
\* avoid, in however many rounds and beside whichever paths; and it is at a
\* target, unless explore() has run out of rounds.
FoundIsReached ==
  \A a \in found :
    /\ Reached(a)
    /\ a \in End \/ (loop = "explore" /\ OutOfRounds)

\* A loop ends, with max_rounds whatever the program, if it is run(), and else
\* in a program whose paths run into no cycle.
Terminates == Acyclic \/ (loop = "run" /\ limit # None) ~> pc # "loop"

\* A path that is found is reported to the metabinary, whatever the other
\* paths of the round come to, except that explore() fails on one that is at
\* a target and to be avoided.
FoundIsReported ==
  found # {} ~> pc = "target" \/ (loop = "explore" /\ found \cap End \cap Avoid # {})

=============================================================================
