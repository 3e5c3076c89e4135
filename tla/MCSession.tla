----------------------------- MODULE MCSession -----------------------------
(* Instances of Session for the model checker. *)
EXTENDS Session, TLC

(* Workers are interchangeable, and so are the threads of the application; *)
(* used by the runs without temporal properties.                           *)
ThreadSymmetry == Permutations(Worker) \cup Permutations(Writer) \cup Permutations(Closer)
=============================================================================
