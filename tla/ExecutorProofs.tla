--------------------------- MODULE ExecutorProofs ---------------------------
(***************************************************************************)
(* Proof that a path either loop of Executor reports has come to a target  *)
(* past no other target and no address to avoid, for every program, every  *)
(* metabinary and every limit, and whatever angr finds feasible.           *)
(***************************************************************************)
EXTENDS Executor, TLAPS

\* The shape of the state, as far as the proof needs it.
Shape ==
  /\ config \in Configs /\ next \in Programs
  /\ active \subseteq Addrs /\ found \subseteq Addrs

\* All paths came by steps; those that go on are where steps may start; and a
\* path is found at a target, or when explore() has run out of rounds.
IInv ==
  /\ Shape
  /\ \A a \in active \cup found : Reached(a)
  /\ pc = "loop" => active \cap (End \cup Avoid) \subseteq {Start}
  /\ \A a \in found : a \in End \/ (loop = "explore" /\ OutOfRounds)

\* What is reached from a reached address by a step is reached.
LEMMA StepReaches ==
  ASSUME NEW a \in Addrs, NEW b \in Addrs, Reached(a), Steps(a, b)
  PROVE  Reached(b)
BY DEF Reached

\* Where a round of a loop leads is reached, if its paths may go on.
LEMMA RoundReaches ==
  ASSUME IInv, Going, NEW S \in SUBSET Addrs, Stepped(S), NEW b \in S
  PROVE  Reached(b)
<1>1. PICK a \in active : b \in next[a]
  BY DEF Stepped
<1>2. a \in Addrs /\ b \in Addrs /\ Reached(a)
  BY DEF IInv, Shape
<1>3. Steps(a, b)
  BY <1>1 DEF Steps, IInv, Going
<1> QED
  BY <1>2, <1>3, StepReaches

\* Reached depends on the program and the metabinary only, which never change.
LEMMA ReachedFixed ==
  ASSUME UNCHANGED fixed, NEW a, Reached(a)
  PROVE  Reached(a)'
BY DEF Reached, Steps, End, Avoid, fixed

\* The invariant holds at the start.
LEMMA InitIInv == Init => IInv
<1> SUFFICES ASSUME Init PROVE IInv
  OBVIOUS
<1>1. Reached(Start)
  BY DEF Reached
<1> QED
  BY <1>1, StartAssumption DEF Init, IInv, Shape

\* A round of run() keeps the invariant.
LEMMA RunRoundIInv ==
  ASSUME IInv, NEW S \in SUBSET Addrs, RunRound(S)
  PROVE  IInv'
<1>1. PICK hits \in SUBSET (S \cap End) : found' = found \cup hits
  BY DEF RunRound
<1>2. UNCHANGED fixed /\ active' = Left(S) /\ Going /\ Stepped(S)
  BY DEF RunRound
<1>3. Shape'
  BY <1>1, <1>2 DEF IInv, Shape, Left, fixed
<1>4. \A a \in (active \cup found)' : Reached(a)'
  BY <1>1, <1>2, RoundReaches, ReachedFixed DEF IInv, Left, Going
<1>5. active' \cap (End \cup Avoid)' \subseteq {Start}
  BY <1>2 DEF Left, End, Avoid, fixed
<1>6. \A a \in found' : a \in End'
  BY <1>1, <1>2 DEF Going, End, fixed
<1> QED
  BY <1>3, <1>4, <1>5, <1>6 DEF IInv

\* A round of explore() keeps the invariant, also one that fails.
LEMMA ExploreRoundIInv ==
  ASSUME IInv, NEW S \in SUBSET Addrs, ExploreRound(S)
  PROVE  IInv'
<1>1. UNCHANGED fixed /\ found' = found \cup (S \cap End) /\ Going /\ Stepped(S)
  BY DEF ExploreRound
<1>2. active' \subseteq S /\ (pc' = "loop" => active' = Left(S))
  BY DEF ExploreRound, Left
<1>3. Shape'
  BY <1>1, <1>2 DEF IInv, Shape, fixed
<1>4. \A a \in (active \cup found)' : Reached(a)'
  BY <1>1, <1>2, RoundReaches, ReachedFixed DEF Going
<1>5. pc' = "loop" => active' \cap (End \cup Avoid)' \subseteq {Start}
  BY <1>1, <1>2 DEF Left, End, Avoid, fixed
<1>6. \A a \in found' : a \in End'
  BY <1>1 DEF Going, End, fixed
<1> QED
  BY <1>3, <1>4, <1>5, <1>6 DEF IInv

\* The ends of the loops keep the invariant: what explore() takes for found
\* are the active paths, when it is out of rounds.
LEMMA EndsIInv ==
  ASSUME IInv, RunEnds \/ ExploreEnds
  PROVE  IInv'
<1>1. UNCHANGED <<fixed, active, k>> /\ pc = "loop" /\ pc' # "loop"
  BY DEF RunEnds, ExploreEnds
<1>2. \/ found' = found
      \/ found' = active /\ loop = "explore" /\ OutOfRounds
  BY DEF RunEnds, ExploreEnds, Going
<1>3. Shape'
  BY <1>1, <1>2 DEF IInv, Shape, fixed
<1>4. \A a \in (active \cup found)' : Reached(a)'
  BY <1>1, <1>2, ReachedFixed DEF IInv
<1>5. \A a \in found' : a \in End' \/ (loop' = "explore" /\ OutOfRounds')
  BY <1>1, <1>2 DEF IInv, End, OutOfRounds, fixed
<1> QED
  BY <1>1, <1>3, <1>4, <1>5 DEF IInv

\* A path either loop takes for found has come there by steps past no other
\* target and no address to avoid, and is at a target unless explore() has run
\* out of rounds.
THEOREM FoundReached == Spec => []FoundIsReached
<1>1. IInv /\ [Next]_vars => IInv'
  <2> SUFFICES ASSUME IInv, [Next]_vars PROVE IInv'
    OBVIOUS
  <2>1. CASE Next
    BY <2>1, RunRoundIInv, ExploreRoundIInv, EndsIInv DEF Next
  <2>2. CASE UNCHANGED vars
    <3>1. UNCHANGED fixed
      BY <2>2 DEF vars, fixed
    <3>2. \A a \in (active \cup found)' : Reached(a)'
      BY <2>2, <3>1, ReachedFixed DEF vars, IInv
    <3> QED
      BY <2>2, <3>2 DEF vars, IInv, Shape, End, Avoid, OutOfRounds
  <2> QED
    BY <2>1, <2>2
<1>2. IInv => FoundIsReached
  BY DEF IInv, FoundIsReached
<1> QED
  BY <1>1, <1>2, InitIInv, PTL DEF Spec

=============================================================================
