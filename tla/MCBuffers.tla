----------------------------- MODULE MCBuffers -----------------------------
(* Instances of Buffers for the model checker. *)
EXTENDS Buffers

(* Buffers differ only by where they are, and sessions are alike. *)
AllSymmetry == Permutations(Buffer) \cup Permutations(Session)
=============================================================================
