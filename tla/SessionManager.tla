--------------------------- MODULE SessionManager ---------------------------
(***************************************************************************)
(* The sessions of a server or a client, of SessionManager.cpp: the map of *)
(* registered sessions, the broadcasts that hold its mutex, and the thread *)
(* that tests for idle sessions.  Server and Client say when sessions come *)
(* and go; a session knows the manager as m_mgr.                           *)
(***************************************************************************)
EXTENDS Integers, FiniteSets, Functions, TLC

CONSTANTS
  MaxSessions,  (* session objects, numbered as they are made (bound)         *)
  MaxRounds     (* rounds of the idle timer (bound)                           *)

ASSUME SessionManagerAssumption == MaxSessions \in Nat \ {0} /\ MaxRounds \in Nat

Session == 1 .. MaxSessions

VARIABLES
  sessions,    (* m_sessions: the session registered under each id            *)
  sessionidx,  (* m_sessionidx                                                *)
  id,          (* m_id of each session, 0 before it is added                  *)
  state,       (* m_state of each session: 0, 1 open, -1 closed               *)
  closing,     (* the sessions with m_closing                                 *)
  removing,    (* <<thread, session>>: Close is about to call RemoveSession   *)
  broadcast,   (* whom Broadcast has yet to write to, while it has the mutex  *)
  locked,      (* m_sessionmutex is held by Broadcast                         *)
  stuck,       (* Broadcast waits for the mutex it holds                      *)
  idle,        (* the idle thread: "none", "waiting", "testing", "ended"      *)
  idlesvc,     (* m_idlesvc: "none", "running", "stopped"                     *)
  snapshot,    (* the sessions of this round, not yet tested                  *)
  rounds,      (* rounds so far                                               *)
  cleared      (* history: the sessions Clear dropped                         *)

registryVars == <<sessions, sessionidx, id, cleared>>
sessionVars == <<state, closing, removing>>
broadcastVars == <<broadcast, locked, stuck>>
idleVars == <<idle, idlesvc, snapshot, rounds>>
managerVars == <<registryVars, sessionVars, broadcastVars, idleVars>>

Registered == Range(sessions)

InitManager ==
  /\ sessions = <<>> /\ sessionidx = 0
  /\ id = [s \in Session |-> 0] /\ state = [s \in Session |-> 0]
  /\ closing = {} /\ removing = {} /\ cleared = {}
  /\ broadcast = {} /\ locked = FALSE /\ stuck = FALSE
  /\ idle = "none" /\ idlesvc = "none" /\ snapshot = {} /\ rounds = 0

-----------------------------------------------------------------------------
(* The map.  Each of these takes m_sessionmutex. *)

(* Fault: an id is one more than there are sessions. *)
NextIdByCount == Cardinality(DOMAIN sessions) + 1

NextId == sessionidx + 1

Numbered(s) == [id EXCEPT ![s] = NextId]

AddSession(s) ==
  /\ ~locked
  /\ sessionidx' = NextId /\ id' = Numbered(s)
  /\ sessions' = [i \in DOMAIN sessions \cup {sessionidx'} |->
                    IF i = sessionidx' THEN s ELSE sessions[i]]
  /\ UNCHANGED cleared

RemoveSession(s) ==
  /\ ~locked
  /\ sessions' = Restrict(sessions, DOMAIN sessions \ {id[s]})
  /\ UNCHANGED <<sessionidx, id, cleared>>

(* Fault: the sessions stay in the map. *)
ClearNothing == ~locked /\ UNCHANGED registryVars

Clear ==
  /\ ~locked
  /\ sessions' = <<>> /\ cleared' = cleared \cup Registered
  /\ UNCHANGED <<sessionidx, id>>

-----------------------------------------------------------------------------
(* ClientSession::Close(true): OnDisconnect and m_state first, the map last. *)

Closing(t) == \E s \in Session : <<t, s>> \in removing

CloseBegin(t, s) ==
  /\ ~Closing(t)
  /\ state' = [state EXCEPT ![s] = -1]
  /\ closing' = closing \cup {s} /\ removing' = removing \cup {<<t, s>>}

CloseEnd(t, s) ==
  /\ <<t, s>> \in removing /\ removing' = removing \ {<<t, s>>}
  /\ RemoveSession(s)
  /\ UNCHANGED <<state, closing, broadcastVars, idleVars>>

-----------------------------------------------------------------------------
(* Broadcast writes to one session after the other with the mutex locked.  *)
(* If a queue is full, OnError of the handler closes the session, which    *)
(* needs the mutex.                                                        *)

BroadcastBegin ==
  /\ ~locked /\ locked' = TRUE /\ broadcast' = Registered
  /\ UNCHANGED <<stuck, registryVars, sessionVars, idleVars>>

(* Maps are walked in the order of their ids. *)
IsNext(s, set) == s \in set /\ \A t \in set : id[s] <= id[t]

BroadcastWrite(s) ==
  /\ locked /\ ~stuck /\ IsNext(s, broadcast) /\ broadcast' = broadcast \ {s}
  /\ UNCHANGED <<locked, stuck, registryVars, sessionVars, idleVars>>

BroadcastFull(s) ==
  /\ locked /\ ~stuck /\ IsNext(s, broadcast) /\ state[s] = 1 /\ s \notin closing
  /\ CloseBegin("app", s)
  /\ broadcast' = broadcast \ {s} /\ stuck' = TRUE
  /\ UNCHANGED <<locked, registryVars, idleVars>>

BroadcastEnd ==
  /\ locked /\ broadcast = {} /\ ~stuck /\ locked' = FALSE
  /\ UNCHANGED <<broadcast, stuck, registryVars, sessionVars, idleVars>>

-----------------------------------------------------------------------------
(* Idle sessions: a round tests the sessions there were when it began.     *)

SetIdleTime ==
  /\ idle = "none" /\ idle' = "waiting" /\ idlesvc' = "running" /\ snapshot' = {}
  /\ UNCHANGED <<rounds, registryVars, sessionVars, broadcastVars>>

StopIdle ==
  /\ idlesvc = "running" /\ idlesvc' = "stopped"
  /\ UNCHANGED <<idle, snapshot, rounds, registryVars, sessionVars, broadcastVars>>

JoinIdle ==
  /\ idlesvc = "stopped" /\ idle = "ended"
  /\ idle' = "none" /\ idlesvc' = "none"
  /\ UNCHANGED <<snapshot, rounds, registryVars, sessionVars, broadcastVars>>

GetSessions == Registered

OnIdleSessions ==
  /\ idle = "waiting" /\ idlesvc = "running" /\ ~locked /\ rounds < MaxRounds
  /\ idle' = "testing" /\ rounds' = rounds + 1 /\ snapshot' = GetSessions
  /\ UNCHANGED <<idlesvc, registryVars, sessionVars, broadcastVars>>

(* TestIdle passes over a session that is not open; the handler's OnIdle   *)
(* may close one that is.                                                  *)
TestIdle(s) ==
  /\ idle = "testing" /\ IsNext(s, snapshot) /\ ~Closing("idle")
  /\ snapshot' = snapshot \ {s}
  /\ UNCHANGED <<idle, idlesvc, rounds, registryVars, broadcastVars>>
  /\ \/ UNCHANGED sessionVars
     \/ state[s] = 1 /\ s \notin closing /\ CloseBegin("idle", s)

NextRound ==
  /\ idle = "testing" /\ snapshot = {} /\ ~Closing("idle") /\ idle' = "waiting"
  /\ UNCHANGED <<idlesvc, snapshot, rounds, registryVars, sessionVars, broadcastVars>>

IdleEnds ==
  /\ idle = "waiting" /\ idlesvc = "stopped" /\ idle' = "ended"
  /\ UNCHANGED <<idlesvc, snapshot, rounds, registryVars, sessionVars, broadcastVars>>
=============================================================================
