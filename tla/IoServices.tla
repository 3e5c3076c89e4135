----------------------------- MODULE IoServices -----------------------------
(***************************************************************************)
(* IoService, a thread that runs the handlers of a boost::asio service,    *)
(* and IoServiceManager, a pool of them that clients and servers may       *)
(* share.  A session gets one service, in turn, for all its handlers.  The *)
(* pool lives until the last of its owners drops it.  Services are public: *)
(* an application may start and stop those of a pool it has.               *)
(***************************************************************************)
EXTENDS Integers, Sequences, FiniteSets

CONSTANTS
  PoolSize,     (* m_poolsize                                                 *)
  Owner,        (* clients and servers that share the pool, each with a thread *)
  MaxSessions,  (* sessions that are opened, below the range of m_index (bound) *)
  MaxEvents,    (* handlers each session starts (bound)                       *)
  MaxRestarts   (* calls of Start and Stop by the application (bound)         *)

Service == 0 .. PoolSize - 1
Session == 1 .. MaxSessions
Runner == 1 .. 2   (* threads in run() of one service, of which there should be one *)

VARIABLES
  m_index,
  owners,     (* who still has a pointer to the pool                          *)
  service,    (* of each session, or -1                                       *)
  posted,     (* handlers each session has posted                             *)
  queue,      (* of each service: sessions whose handlers are ready           *)
  runners,    (* of each service: threads in run(), with what each handles    *)
  m_thread,   (* of each service: whether it has a thread                     *)
  stopped,    (* of each service: whether its io_service was told to stop     *)
  stopping,   (* the service whose Stop waits for its thread, and who waits   *)
  restarts

poolVars == <<m_index, owners, service>>
svcVars == <<m_thread, stopped>>
vars == <<poolVars, posted, queue, runners, svcVars, stopping, restarts>>

Nothing == 0      (* a runner that waits for a handler *)
Nobody == [svc |-> -1, by |-> "nobody"]

(* The constructor starts every service. *)
Init ==
  /\ m_index = 0 /\ owners = Owner
  /\ service = [s \in Session |-> -1] /\ posted = [s \in Session |-> 0]
  /\ queue = [v \in Service |-> <<>>] /\ runners = [v \in Service |-> <<Nothing>>]
  /\ m_thread = [v \in Service |-> TRUE] /\ stopped = [v \in Service |-> FALSE]
  /\ stopping = Nobody /\ restarts = 0

-----------------------------------------------------------------------------
(* Sessions. *)

(* An owner opens a session on the next service, under m_mutex. *)
GetService(o, s) ==
  /\ o \in owners /\ service[s] = -1 /\ (\A t \in 1 .. s - 1 : service[t] # -1)
  /\ service' = [service EXCEPT ![s] = m_index % PoolSize]
  /\ m_index' = m_index + 1
  /\ UNCHANGED <<owners, posted, queue, runners, svcVars, stopping, restarts>>

(* An operation of the session completes, and its handler is ready. *)
Post(s) ==
  /\ service[s] # -1 /\ posted[s] < MaxEvents
  /\ posted' = [posted EXCEPT ![s] = @ + 1]
  /\ queue' = [queue EXCEPT ![service[s]] = Append(@, s)]
  /\ UNCHANGED <<poolVars, runners, svcVars, stopping, restarts>>

-----------------------------------------------------------------------------
(* io_service::run, in the thread of a service.                            *)

Running(v, r) == r \in DOMAIN runners[v]

RunHandler(v, r) ==
  /\ Running(v, r) /\ runners[v][r] = Nothing /\ ~stopped[v] /\ queue[v] # <<>>
  /\ runners' = [runners EXCEPT ![v][r] = Head(queue[v])]
  /\ queue' = [queue EXCEPT ![v] = Tail(@)]
  /\ UNCHANGED <<poolVars, posted, svcVars, stopping, restarts>>

HandlerReturns(v, r) ==
  /\ Running(v, r) /\ runners[v][r] # Nothing
  /\ runners' = [runners EXCEPT ![v][r] = Nothing]
  /\ UNCHANGED <<poolVars, posted, queue, svcVars, stopping, restarts>>

(* run() returns when the service was stopped; what is ready stays so.     *)
RunReturns(v) ==
  /\ stopped[v] /\ runners[v] # <<>> /\ Head(runners[v]) = Nothing
  /\ runners' = [runners EXCEPT ![v] = Tail(@)]
  /\ UNCHANGED <<poolVars, posted, queue, svcVars, stopping, restarts>>

-----------------------------------------------------------------------------
(* Start and Stop. *)

(* The thread runs a service that stays stopped if it ever was: reset is   *)
(* called by Stop, before it stops the service, and nowhere else.          *)
Start(v) ==
  /\ owners # {} /\ restarts < MaxRestarts /\ restarts' = restarts + 1
  /\ ~m_thread[v] /\ Len(runners[v]) < Cardinality(Runner)
  /\ m_thread' = [m_thread EXCEPT ![v] = TRUE]
  /\ runners' = [runners EXCEPT ![v] = Append(@, Nothing)]
  /\ UNCHANGED <<poolVars, posted, queue, stopped, stopping>>

(* Fault: reset comes after stop. *)
ToldThenReset(v) == [stopped EXCEPT ![v] = FALSE]

Told(v) == [stopped EXCEPT ![v] = TRUE]

(* Stop tells the service, then joins its thread: calls of one service are *)
(* by one thread at a time, which is none of its own.                      *)
StopBegin(v, who) ==
  /\ stopping = Nobody /\ m_thread[v]
  /\ stopped' = Told(v)
  /\ stopping' = [svc |-> v, by |-> who]

Stop(v) ==
  /\ owners # {} /\ restarts < MaxRestarts /\ restarts' = restarts + 1
  /\ StopBegin(v, "application")
  /\ UNCHANGED <<poolVars, posted, queue, runners, m_thread>>

ThreadEnded(v) == runners[v] = <<>>

StopJoin ==
  /\ stopping # Nobody /\ ThreadEnded(stopping.svc)
  /\ m_thread' = [m_thread EXCEPT ![stopping.svc] = FALSE]
  /\ stopping' = Nobody
  /\ UNCHANGED <<poolVars, posted, queue, runners, stopped, restarts>>

Drop(o) ==
  /\ o \in owners /\ stopping = Nobody
  /\ owners' = owners \ {o}
  /\ UNCHANGED <<m_index, service, posted, queue, runners, svcVars, stopping, restarts>>

(* ~IoServiceManagerImpl, by the thread of the last owner: the services in *)
(* their order, those without a thread left out.                           *)
Destroy(v) ==
  /\ owners = {} /\ (\A u \in 0 .. v - 1 : ~m_thread[u])
  /\ StopBegin(v, "pool")
  /\ UNCHANGED <<poolVars, posted, queue, runners, m_thread, restarts>>

Next ==
  \/ \E s \in Session : Post(s) \/ \E o \in Owner : GetService(o, s)
  \/ \E v \in Service : \/ RunReturns(v) \/ Start(v) \/ Stop(v) \/ Destroy(v)
                        \/ \E r \in Runner : RunHandler(v, r) \/ HandlerReturns(v, r)
  \/ StopJoin
  \/ \E o \in Owner : Drop(o)

(* Threads run, handlers return, and a destructor that was entered goes on. *)
Fairness ==
  /\ \A v \in Service : WF_vars(RunReturns(v)) /\ WF_vars(Destroy(v))
  /\ \A v \in Service, r \in Runner : WF_vars(RunHandler(v, r) \/ HandlerReturns(v, r))
  /\ WF_vars(StopJoin)

Spec == Init /\ [][Next]_vars /\ Fairness

-----------------------------------------------------------------------------
(* When the last owner has gone the threads end, all of them.              *)
PoolEnds == owners = {} ~> \A v \in Service : ThreadEnded(v) /\ ~m_thread[v]
=============================================================================
