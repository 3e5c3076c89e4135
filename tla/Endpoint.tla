------------------------------ MODULE Endpoint ------------------------------
(* What a server and a client have in common besides the session manager.  *)
EXTENDS SessionManager

CONSTANT Services  (* whether the service is shared: a set of truth values    *)

ASSUME EndpointAssumption == Services \subseteq BOOLEAN

VARIABLES
  shared,     (* m_svcmgr is set                                              *)
  pc,         (* of the program's thread: the next step of its call           *)
  terminated  (* an exception ended the program                               *)
=============================================================================
