---------------------------- MODULE MCServices ----------------------------
(* What a session stands on, one at a time: the pool of services that runs *)
(* its handlers, a stream with SSL, and the codec that finds the messages  *)
(* in the bytes.                                                           *)
EXTENDS SslSession, Framing

CONSTANTS
  PoolSize, Owner, MaxSessions, MaxEvents, MaxRestarts

ASSUME ServicesAssumption ==
  /\ {PoolSize, MaxSessions} \subseteq Nat \ {0}
  /\ {MaxEvents, MaxRestarts} \subseteq Nat

VARIABLES
  which,
  m_index, owners, service, posted, queue, runners, m_thread, stopped, stopping, restarts

poolVars ==
  <<m_index, owners, service, posted, queue, runners, m_thread, stopped, stopping, restarts>>
servicesVars == <<which, poolVars, vars, framingVars>>

Pool == INSTANCE IoServices

(* Bytes of three bits, so that the sign of a one-byte size is met at a    *)
(* body of four bytes; a size before and after a tag byte, of one and of   *)
(* two bytes, limits below and above what the field can hold, a header of  *)
(* no bytes, a size outside the header, and what the constructors add.     *)
SomeMessageCodecs ==
  {<<2, 0, 1, 2>>, <<2, 1, 1, 6>>, <<3, 1, 2, 4>>, <<0, 0, 1, 3>>, <<1, 5, 1, 3>>,
   <<3, 1>>}

SomeStringCodecs == {<<3, 2>>}

SomeStrings == {<<>>, <<1>>, <<2, 1>>, <<2, 3, 1>>}

ServicesInit ==
  /\ which \in {"pool", "ssl", "framing"}
  /\ Pool!Init
  /\ Init /\ (which # "ssl" => svrside = FALSE)
  /\ FramingInit /\ (which # "framing" => codec.kind = "string")

PoolStep == which = "pool" /\ Pool!Next /\ UNCHANGED <<which, vars, framingVars>>
SslStep == which = "ssl" /\ Next /\ UNCHANGED <<which, poolVars, framingVars>>
FramingStep == which = "framing" /\ FramingNext /\ UNCHANGED <<which, poolVars, vars>>

ServicesNext == PoolStep \/ SslStep \/ FramingStep

ServicesSpec ==
  ServicesInit /\ [][ServicesNext]_servicesVars /\ Pool!Fairness /\ Fairness

(* See IoServices: threads end with the pool. *)
PoolEnds == Pool!PoolEnds
=============================================================================
