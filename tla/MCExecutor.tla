----------------------------- MODULE MCExecutor -----------------------------
(* A small instance of Executor for TLC. *)
EXTENDS Executor

MCAddrs == {"start", "body", "bad", "target"}

\* All programs of two free instructions; the address to avoid leads to the
\* target, which leads back.
MCPrograms ==
  {p \in [MCAddrs -> SUBSET MCAddrs] : p["bad"] = {"target"} /\ p["target"] = {"start"}}

\* One target and one address to avoid; a target that is to be avoided, too;
\* two targets, one of them where execution starts.
MCConfigs ==
  {[end |-> {"target"}, avoid |-> {"bad"}],
   [end |-> {"target", "body"}, avoid |-> {"bad", "target"}],
   [end |-> {"start", "target"}, avoid |-> {}]}
MCLimits == {None, 0, 1, 3}

=============================================================================
