---------------------------- MODULE MCEvaluation ----------------------------
(* Every scenario on its own, and the sequence of run_isolated.py.           *)
EXTENDS Evaluation

EveryPlan == {IsolatedPlan} \cup {<<s>> : s \in Scenario}

\* Full at once, full in the middle of the first scenario, and with room for all.
SmallRegistries ==
  {[known |-> 2, limit |-> 2], [known |-> 0, limit |-> 2], [known |-> 0, limit |-> 13]}
=============================================================================
