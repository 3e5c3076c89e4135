----------------------------- MODULE MCWorkPool -----------------------------
(* Instances of WorkPool for the model checker. *)
EXTENDS WorkPoolRefinement, TLC

(* Tasks are interchangeable; used by the runs without temporal properties. *)
TaskSymmetry == Permutations(Task)

(* Bound: a pool that is shut down is given all tasks but one. *)
ShutDownBound == spc = "idle" \/ \E t \in Task : call[t] = "new"
=============================================================================
