------------------------------ MODULE TaskPool ------------------------------
(***************************************************************************)
(* What src/src/WorkManager.h promises of a thread pool, without threads:  *)
(* a task that is accepted is run once, and no more tasks run at one time  *)
(* than there may be workers.  A pool that is not Lossless may also drop   *)
(* tasks when one finishes, but can never run them afterwards.             *)
(***************************************************************************)
EXTENDS Naturals, FiniteSets

CONSTANTS
  Task,      (* the tasks that may be submitted               *)
  Slots,     (* how many may run at a time                    *)
  Lossless   (* whether every accepted task must be run       *)

VARIABLE status    (* what became of each task *)

Status == {"new", "refused", "accepted", "running", "done", "dropped"}

TasksIn(s) == {t \in Task : status[t] = s}

Init == status = [t \in Task |-> "new"]

Submit(t) ==
  /\ status[t] = "new"
  /\ \E s \in {"accepted", "refused"} : status' = [status EXCEPT ![t] = s]

Start(t) ==
  /\ status[t] = "accepted"
  /\ Cardinality(TasksIn("running")) < Slots
  /\ status' = [status EXCEPT ![t] = "running"]

Finish(t) ==
  /\ status[t] = "running"
  /\ \E dropped \in SUBSET TasksIn("accepted") :
     /\ Lossless => dropped = {}
     /\ status' = [u \in Task |-> IF u = t THEN "done"
                                  ELSE IF u \in dropped THEN "dropped"
                                  ELSE status[u]]

Next == \E t \in Task : Submit(t) \/ Start(t) \/ Finish(t)

Spec == Init /\ [][Next]_status

FairSpec == Spec /\ \A t \in Task : WF_status(Start(t)) /\ WF_status(Finish(t))
=============================================================================
