------------------------------- MODULE Server -------------------------------
(***************************************************************************)
(* Server.cpp: one thread of the program starts, stops and destroys a      *)
(* server; the listen thread accepts sessions, each on the server's own    *)
(* io_service and thread or on a service shared with others (the first of  *)
(* m_svclist); handlers close sessions.  The network brings clients and    *)
(* fails accepts.  Stop is modelled call by call, in its order.            *)
(***************************************************************************)
EXTENDS Endpoint

CONSTANTS
  Address,     (* where the server may be told to listen                      *)
  NoAddress,   (* m_currentport is 0                                          *)
  MaxEvents,   (* clients that connect, accepts and Listens that fail, and    *)
               (* rounds of the idle timer, in all (bound)                    *)
  MaxStarts    (* calls of Start (bound)                                      *)

ASSUME ServerAssumption ==
  /\ NoAddress \notin Address
  /\ MaxEvents \in Nat /\ MaxStarts \in Nat
  /\ MaxEvents + 1 < MaxSessions

VARIABLES
  current,    (* m_currentip and m_currentport                                *)
  target,     (* the address Start was given, or none: Stop                   *)
  acceptor,   (* "none", "open", "closed"                                     *)
  listensvc,  (* "none", "running", "stopped"                                 *)
  iosvc,      (* m_iosvc, "none" when it is shared                            *)
  listener,   (* the listen thread: "none", "run", the steps of OnAccept, "ended" *)
  accepting,  (* the session async_accept was given, 0 for none               *)
  result,     (* what async_accept completed with: "none", "ok", an error     *)
  opening,    (* the session of the running OnAccept                          *)
  iothread,   (* "none", "run", "ended"                                       *)
  backlog,    (* connections the system holds for accept                      *)
  clients, errors, starts,    (* how many so far                              *)
  unserved,   (* sessions of an io_service Stop deleted                       *)
  leftover,   (* history: the sessions OnAccept or the idle thread had in     *)
              (* hand when Stop cleared the map or deleted the io_service     *)
  misused,    (* history: an unserved session that was no leftover was used   *)
  late,       (* history: a session used the manager after its end            *)
  gone        (* the server was destroyed                                     *)

appVars == <<current, pc, target, starts>>
acceptVars == <<acceptor, listensvc, accepting, result, backlog>>
ioVars == <<iosvc, iothread, shared>>
historyVars == <<unserved, leftover, misused, late, gone, terminated>>
serverVars == <<appVars, acceptVars, listener, opening, ioVars, clients, errors, historyVars>>
vars == <<managerVars, serverVars>>

Init ==
  /\ InitManager
  /\ shared \in Services
  /\ current = NoAddress /\ pc = "idle" /\ target = NoAddress /\ starts = 0
  /\ acceptor = "none" /\ listensvc = "none" /\ accepting = 0 /\ result = "none" /\ backlog = 0
  /\ listener = "none" /\ opening = 0 /\ iosvc = "none" /\ iothread = "none"
  /\ clients = 0 /\ errors = 0
  /\ unserved = {} /\ leftover = {} /\ misused = FALSE /\ late = FALSE
  /\ gone = FALSE /\ terminated = FALSE

Eventful == clients + errors + rounds < MaxEvents

(* A new session object: one never registered that nothing refers to.      *)
NewSession ==
  CHOOSE s \in Session : id[s] = 0 /\ s \notin {accepting, opening}

-----------------------------------------------------------------------------
(* The program's thread.  Start stops the server first, unless it listens  *)
(* at that address already.                                                *)

Call(step, a) ==
  /\ pc' = step /\ target' = a
  /\ UNCHANGED <<current, acceptVars, listener, opening, ioVars, clients, errors, historyVars, managerVars>>

Ready == pc = "idle" /\ ~gone /\ ~locked /\ idlesvc # "stopped"

Start(a) ==
  /\ Ready /\ starts < MaxStarts /\ a # current
  /\ starts' = starts + 1
  /\ Call("acceptor", a)

Stop ==
  /\ Ready /\ current # NoAddress
  /\ Call("acceptor", NoAddress) /\ UNCHANGED starts

(* The destructor: Stop, then the members, m_climgr among them.            *)
Destroy ==
  /\ Ready /\ gone' = TRUE
  /\ pc' = "acceptor" /\ target' = NoAddress
  /\ UNCHANGED <<current, starts, acceptVars, listener, opening, ioVars, clients, errors>>
  /\ UNCHANGED <<unserved, leftover, misused, late, terminated, managerVars>>

CloseAcceptor ==
  /\ pc = "acceptor" /\ pc' = "listensvc"
  /\ IF acceptor = "open"
       THEN /\ acceptor' = "closed" /\ backlog' = 0
            /\ result' = IF accepting # 0 /\ result = "none" THEN "aborted" ELSE result
       ELSE UNCHANGED <<acceptor, backlog, result>>
  /\ UNCHANGED <<current, target, starts, listensvc, accepting, listener, opening, ioVars,
                 clients, errors, historyVars, managerVars>>

(* Fault: the service is not stopped. *)
StoppedNot(svc) == svc

Stopped(svc) == IF svc = "none" THEN "none" ELSE "stopped"

StopServices ==
  \/ /\ pc = "listensvc" /\ pc' = "iosvc"
     /\ listensvc' = Stopped(listensvc) /\ UNCHANGED iosvc
     /\ UNCHANGED <<current, target, starts, acceptor, accepting, result, backlog, iothread, shared,
                    listener, opening, clients, errors, historyVars, managerVars>>
  \/ /\ pc = "iosvc" /\ pc' = "clear"
     /\ iosvc' = Stopped(iosvc)
     /\ UNCHANGED <<current, target, starts, acceptVars, iothread, shared,
                    listener, opening, clients, errors, historyVars, managerVars>>

ClearSessions ==
  /\ pc = "clear" /\ pc' = "join"
  /\ leftover' = leftover \cup ({opening} \ ({0} \cup Registered))
  /\ Clear

StopClears ==
  /\ ClearSessions
  /\ UNCHANGED <<current, target, starts, acceptVars, listener, opening, ioVars, clients, errors,
                 unserved, misused, late, gone, terminated, sessionVars, broadcastVars, idleVars>>

Joined == listener \in {"none", "ended"} /\ iothread \in {"none", "ended"}

(* The threads are joined, then everything is deleted. *)
JoinAndDelete ==
  /\ pc = "join" /\ Joined
  /\ pc' = IF gone THEN "destroy" ELSE IF target = NoAddress THEN "idle" ELSE "listen"
  /\ acceptor' = "none" /\ listensvc' = "none" /\ iosvc' = "none"
  /\ accepting' = 0 /\ result' = "none" /\ listener' = "none" /\ iothread' = "none"
  /\ current' = NoAddress
  /\ unserved' = unserved \cup (IF shared THEN {} ELSE {s \in Session : id[s] # 0})
  /\ leftover' = leftover \cup snapshot
  /\ opening' = 0
  /\ UNCHANGED <<target, starts, backlog, shared, clients, errors, misused, late, gone,
                 terminated, managerVars>>

ListenFails ==
  /\ pc = "listen" /\ Eventful /\ errors' = errors + 1
  /\ pc' = "idle" /\ target' = NoAddress
  /\ UNCHANGED <<current, starts, acceptVars, listener, opening, ioVars, clients,
                 historyVars, managerVars>>

(* The acceptor listens, with a service of its own to run. *)
Opened ==
  /\ current' = target /\ target' = NoAddress
  /\ acceptor' = "open" /\ listensvc' = "running" /\ backlog' = 0

(* The first session, for async_accept to fill. *)
Armed == accepting' = NewSession /\ result' = "none"

(* The threads: one accepts, one runs the service unless it is shared. *)
ThreadsRun ==
  /\ listener' = "run"
  /\ iosvc' = (IF shared THEN "none" ELSE "running")
  /\ iothread' = (IF shared THEN "none" ELSE "run")

Listen ==
  /\ pc = "listen" /\ pc' = "idle"
  /\ Opened /\ Armed /\ ThreadsRun
  /\ UNCHANGED <<starts, opening, shared, clients, errors, historyVars, managerVars>>

(* ~SessionManager, when the idle thread is joined. *)
DestroyManager ==
  /\ pc = "destroy" /\ idle = "none" /\ ~locked /\ pc' = "destroyed"
  /\ Clear
  /\ UNCHANGED <<current, target, starts, acceptVars, listener, opening, ioVars, clients, errors,
                 historyVars, sessionVars, broadcastVars, idleVars>>

-----------------------------------------------------------------------------
(* The network. *)

ClientConnects ==
  /\ acceptor = "open" /\ Eventful
  /\ clients' = clients + 1 /\ backlog' = backlog + 1
  /\ UNCHANGED <<appVars, acceptor, listensvc, accepting, result, listener, opening, ioVars, errors,
                 historyVars, managerVars>>

AcceptCompletes ==
  /\ acceptor = "open" /\ accepting # 0 /\ result = "none"
  /\ \/ backlog > 0 /\ backlog' = backlog - 1 /\ result' = "ok" /\ UNCHANGED errors
     \/ Eventful /\ errors' = errors + 1 /\ result' = "failed" /\ UNCHANGED backlog
  /\ UNCHANGED <<appVars, acceptor, listensvc, accepting, listener, opening, ioVars, clients,
                 historyVars, managerVars>>

-----------------------------------------------------------------------------
(* The listen thread: io_service::run, and OnAccept step by step. *)

ListenerUnchanged ==
  UNCHANGED <<appVars, acceptor, listensvc, backlog, ioVars, clients, errors>>

OnAccept ==
  /\ listener = "run" /\ listensvc = "running" /\ result # "none"
  /\ opening' = (IF result = "aborted" THEN 0 ELSE accepting)
  /\ accepting' = 0 /\ result' = "none"
  /\ listener' = CASE result = "ok" -> "open" [] result = "aborted" -> "run" [] OTHER -> "rearm"
  /\ ListenerUnchanged /\ UNCHANGED <<historyVars, managerVars>>

(* ClientSession::Open: remote_endpoint throws when the client has left,   *)
(* which nothing catches on the way to the thread's function.              *)
OpenThrows ==
  /\ listener = "open" /\ terminated' = TRUE
  /\ UNCHANGED <<acceptVars, listener, opening, appVars, ioVars, clients, errors,
                 unserved, leftover, misused, late, gone, managerVars>>

OpenAdds ==
  /\ listener = "open" /\ listener' = "added"
  /\ AddSession(opening)
  /\ ListenerUnchanged /\ UNCHANGED <<accepting, result, opening, historyVars>>
  /\ UNCHANGED <<sessionVars, broadcastVars, idleVars>>

OpenActivates ==
  /\ listener = "added" /\ listener' = "rearm"
  /\ state' = [state EXCEPT ![opening] = 1]
  /\ ListenerUnchanged /\ UNCHANGED <<accepting, result, opening, historyVars>>
  /\ UNCHANGED <<registryVars, closing, removing, broadcastVars, idleVars>>

(* Fault: after an error that is not an abort, nothing is accepted. *)
NextAcceptUnlessError == IF opening # 0 /\ id[opening] = 0 THEN 0 ELSE NewSession

NextAccept == NewSession

(* async_accept on a closed acceptor completes with an error at once. *)
Rearm ==
  /\ listener = "rearm" /\ listener' = "run"
  /\ opening' = 0 /\ accepting' = NextAccept
  /\ result' = IF acceptor = "open" THEN "none" ELSE "failed"
  /\ ListenerUnchanged /\ UNCHANGED <<historyVars, managerVars>>

(* run returns when it is stopped or nothing is left to wait for. *)
ListenerEnds ==
  /\ listener = "run" /\ (listensvc = "stopped" \/ accepting = 0)
  /\ listener' = "ended"
  /\ ListenerUnchanged /\ UNCHANGED <<accepting, result, opening, historyVars, managerVars>>

-----------------------------------------------------------------------------
(* Handlers of the sessions, on the thread of their service; on its own    *)
(* the server stops the service and joins the thread.                      *)

Served(s) == shared \/ (iosvc = "running" /\ iothread = "run" /\ s \notin unserved)

HandlersUnchanged ==
  UNCHANGED <<appVars, acceptVars, listener, opening, iosvc, shared, clients, errors,
              unserved, leftover, gone, terminated>>

IoCloses(s) ==
  /\ state[s] = 1 /\ Served(s)
  /\ CloseBegin("io", s)
  /\ HandlersUnchanged
  /\ UNCHANGED <<iothread, misused, late, registryVars, broadcastVars, idleVars>>

Removes(t, s) ==
  /\ CloseEnd(t, s)
  /\ late' = (late \/ pc = "destroyed")
  /\ HandlersUnchanged /\ UNCHANGED <<iothread, misused>>

IoEnds ==
  /\ iothread = "run" /\ iosvc = "stopped" /\ ~Closing("io") /\ iothread' = "ended"
  /\ HandlersUnchanged /\ UNCHANGED <<misused, late, managerVars>>

(* What uses the socket of a session uses its io_service.                  *)
Uses(s, touched) ==
  /\ misused' = (misused \/ (touched /\ s \in unserved \ leftover))
  /\ HandlersUnchanged /\ UNCHANGED <<iothread, late>>

WriteOne(s) ==
  (BroadcastWrite(s) \/ BroadcastFull(s)) /\ Uses(s, state[s] = 1 /\ s \notin closing)
TestOne(s) == TestIdle(s) /\ Uses(s, removing' # removing)

ManagerStep(A) == A /\ UNCHANGED serverVars

Broadcasts == ManagerStep(BroadcastEnd) \/ \E s \in Session : WriteOne(s)

(* Broadcast, and SetIdleTime, which first stops the thread there is.      *)
CallManager ==
  Ready /\ (ManagerStep(SetIdleTime) \/ ManagerStep(StopIdle) \/ ManagerStep(BroadcastBegin))

-----------------------------------------------------------------------------
AppStep ==
  \/ CloseAcceptor \/ StopServices \/ StopClears \/ JoinAndDelete \/ Listen \/ ListenFails
  \/ pc = "destroy" /\ ManagerStep(StopIdle)
  \/ ManagerStep(JoinIdle) \/ DestroyManager \/ Broadcasts

ListenerStep == OnAccept \/ OpenAdds \/ OpenActivates \/ Rearm \/ ListenerEnds
IoStep == IoEnds \/ \E s \in Session : Removes("io", s)
IdleStep ==
  \/ ManagerStep(NextRound) \/ ManagerStep(IdleEnds)
  \/ \E s \in Session : TestOne(s) \/ Removes("idle", s)

Next ==
  /\ ~terminated
  /\ \/ Stop \/ Destroy \/ \E a \in Address : Start(a)
     \/ AppStep \/ CallManager
     \/ ClientConnects \/ AcceptCompletes
     \/ ListenerStep \/ OpenThrows
     \/ IoStep \/ \E s \in Session : IoCloses(s)
     \/ IdleStep \/ (Eventful /\ ManagerStep(OnIdleSessions))

(* Threads run, the system accepts who is waiting, and a mutex that is     *)
(* free again and again is one day had by the listen thread.  A call goes  *)
(* on once it is made; no call has to be made.                             *)
Spec ==
  /\ Init /\ [][Next]_vars
  /\ WF_vars(~terminated /\ AppStep) /\ SF_vars(~terminated /\ ListenerStep)
  /\ WF_vars(~terminated /\ IoStep) /\ WF_vars(~terminated /\ IdleStep)
  /\ WF_vars(~terminated /\ AcceptCompletes)

-----------------------------------------------------------------------------
TypeOK ==
  /\ DOMAIN sessions \subseteq 1 .. sessionidx /\ Registered \subseteq Session
  /\ id \in [Session -> 0 .. sessionidx] /\ state \in [Session -> {-1, 0, 1}]
  /\ snapshot \subseteq Session /\ broadcast \subseteq Session
  /\ removing \subseteq {"io", "idle", "app"} \X Session
  /\ current \in Address \cup {NoAddress} /\ target \in Address \cup {NoAddress}
  /\ accepting \in Session \cup {0} /\ opening \in Session \cup {0}
  /\ listener \in {"none", "run", "open", "added", "rearm", "ended"}
  /\ \A i \in DOMAIN sessions : id[sessions[i]] = i
  /\ accepting # 0 => accepting # opening /\ id[accepting] = 0

(* A session that is open is registered until it closes or the server      *)
(* clears the map: a Close removes no session but its own, although        *)
(* sessions of before a restart may close at any time.                     *)
OpenIsRegistered ==
  \A s \in Session : state[s] = 1 /\ s \notin closing => s \in Registered \cup cleared

(* What ran on a service is not used after it: once Stop has deleted the   *)
(* io_service, only a session that the idle thread had in hand, or that    *)
(* OnAccept registered after the map was cleared, and the manager goes     *)
(* before a session only if the service is shared, so that nobody waits.   *)
NothingUsedLate == ~misused /\ (late => shared)

(* A call of the program returns: Stop, Start and the destructor find      *)
(* every thread they join ending, and Broadcast ends, unless a handler     *)
(* closed a session within it or an exception ended the program.           *)
Busy == pc \notin {"idle", "destroyed"} \/ locked \/ idlesvc = "stopped"
CallsReturn == Busy ~> (~Busy \/ stuck \/ terminated)

(* Who connects is accepted, or the server stops.                          *)
ClientsAccepted == backlog > 0 ~> (backlog = 0 \/ stuck \/ terminated)
=============================================================================
