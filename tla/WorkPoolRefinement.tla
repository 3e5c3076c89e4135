------------------------- MODULE WorkPoolRefinement -------------------------
(* The thread pool implements the abstract TaskPool. *)
EXTENDS WorkPool

(* The task a worker is running is the first of its list. *)
Running(t) == \E w \in Worker : wpc[w] = "run" /\ Head(wtasks[w]) = t

(* What became of a task, read off the queue, the workers and the call. *)
taskStatus ==
  [t \in Task |->
    IF call[t] \in {"new", "checked"} THEN "new"
    ELSE IF call[t] = "refused" THEN "refused"
    ELSE IF Running(t) THEN "running"
    ELSE IF runs[t] > 0 THEN "done"
    ELSE IF Lost(t) THEN "dropped"
    ELSE "accepted"]

(* Tasks are lost through workers sent to work before their first wait:    *)
(* none is when all have reached it and no other worker will be made.      *)
Pool == INSTANCE TaskPool WITH
  status <- taskStatus, Slots <- WorkerLimit,
  Lossless <- Warm /\ MinWorkers >= MaxWorkers

(* Every pool, stopped or aborted at any moment, runs each task at most    *)
(* once and at most WorkerLimit at a time, and never runs one it dropped.  *)
ImplementsTaskPool == Pool!Spec

(* A warm pool that is not shut down also runs all it accepted: in the     *)
(* abstract pool every accepted task starts, and every started one ends.   *)
ImplementsFairTaskPool == Pool!FairSpec
=============================================================================
