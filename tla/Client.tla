------------------------------- MODULE Client -------------------------------
(***************************************************************************)
(* Client.cpp: one thread of the program connects and disconnects; the     *)
(* answer of the network (OnConnect) and the timer (OnConnectTimeOut) come *)
(* on the thread of an io_service.  That is the client's own, stopped and  *)
(* joined by Disconnect, or one of a pool, which goes on: then handlers of *)
(* an abandoned attempt run beside the next.  Each attempt has a session.  *)
(***************************************************************************)
EXTENDS Endpoint

CONSTANTS
  NoSession,
  MaxAttempts,  (* calls of Connect that make a session (bound)              *)
  MaxFails,     (* attempts that fail at once, resolving a name (bound)      *)
  TimeOuts      (* whether m_cnntimeout is set: a set of truth values        *)

ASSUME ClientAssumption ==
  /\ NoSession \notin Session /\ TimeOuts \subseteq BOOLEAN
  /\ MaxAttempts \in 0 .. MaxSessions /\ MaxFails \in Nat

VARIABLES
  timeout,     (* m_cnntimeout > 0                                           *)
  then,        (* what follows Disconnect: "connect", "fail", "idle"         *)
  made,        (* sessions made so far; the last is of the current attempt   *)
  currentaddr, (* m_currentaddr is set                                       *)
  service,     (* m_service: "none", "running", "stopped"                    *)
  thread,      (* m_thread: "none", "run", "ended"                           *)
  cnntimer,    (* m_cnntimer, as the session it was made for                 *)
  connecting,  (* m_connecting                                               *)
  attempt,     (* of each session: "none", "pending", "ok", "error", "done"  *)
  wait,        (* async_wait: "none", "armed", "due" (or cancelled), "done"  *)
  running,     (* the handler on the service's thread: its step, session    *)
  seen,        (* the timer OnConnect found, before it deletes it            *)
  fails,
  opened,      (* history: the sessions that were opened                     *)
  timedout,    (* history: the sessions OnConnectTimeOut closed              *)
  overtaken,   (* history: the sessions with a handler to come after Clear   *)
  freedTwice   (* history: two threads deleted one timer                     *)

settings == <<shared, timeout>>
callVars == <<pc, then, made, currentaddr, fails>>
netVars == <<attempt, wait>>
attemptVars == <<opened, timedout, overtaken, freedTwice, terminated>>
programVars == <<settings, callVars, service, thread, cnntimer, connecting, netVars, running,
                 seen, attemptVars>>
clientVars == <<managerVars, programVars>>

Handler == {"check", "cancel", "add", "activate", "close", "done"}
NoHandler == [step |-> "none", session |-> NoSession]

ClientInit ==
  /\ InitManager
  /\ shared \in Services /\ timeout \in TimeOuts
  /\ pc = "idle" /\ then = "idle" /\ made = 0 /\ currentaddr = FALSE /\ fails = 0
  /\ service = "none" /\ thread = "none" /\ cnntimer = NoSession /\ connecting = FALSE
  /\ attempt = [s \in Session |-> "none"] /\ wait = [s \in Session |-> "none"]
  /\ running = NoHandler /\ seen = NoSession
  /\ opened = {} /\ timedout = {} /\ overtaken = {} /\ freedTwice = FALSE /\ terminated = FALSE

(* Something of the attempt is still to come. *)
Outstanding(s) ==
  \/ attempt[s] \in {"pending", "ok", "error"}
  \/ wait[s] \in {"armed", "due"}
  \/ running.session = s

-----------------------------------------------------------------------------
(* The program's thread.  Connect returns at once when there is a session  *)
(* and the address is the same; else it disconnects first.                 *)

ClientCalls(next) ==
  /\ pc = "idle" /\ pc' = "stop" /\ then' = next
  /\ UNCHANGED <<settings, made, currentaddr, service, thread, cnntimer, connecting, netVars, running,
                 seen, attemptVars, managerVars>>

Connect == made < MaxAttempts /\ ClientCalls("connect") /\ UNCHANGED fails

(* ConnectWithDomainName, when the name is not resolved. *)
ConnectFails == fails < MaxFails /\ fails' = fails + 1 /\ ClientCalls("idle")

Disconnect == currentaddr /\ ClientCalls("idle") /\ UNCHANGED fails

ServiceStopped == IF service = "none" THEN "none" ELSE "stopped"

StopService ==
  /\ pc = "stop" /\ pc' = "clear"
  /\ service' = ServiceStopped
  /\ UNCHANGED <<settings, then, made, currentaddr, fails, thread, cnntimer, connecting, netVars, running,
                 seen, attemptVars, managerVars>>

ForgetSessions ==
  /\ pc = "clear" /\ pc' = "join"
  /\ Clear
  /\ overtaken' = overtaken \cup {s \in Session : IF shared THEN Outstanding(s)
                                                  ELSE running.session = s}
  /\ UNCHANGED <<settings, then, made, currentaddr, fails, service, thread, cnntimer, connecting, netVars,
                 running, seen, opened, timedout, freedTwice, terminated>>
  /\ UNCHANGED <<sessionVars, broadcastVars, idleVars>>

(* A timer that is deleted is cancelled: its handler is due. *)
Cancelled(t) == [s \in Session |-> IF s = t /\ wait[s] = "armed" THEN "due" ELSE wait[s]]

(* Fault: the thread is not waited for. *)
JoinedNot == TRUE

ThreadJoined == thread \in {"none", "ended"}

Join ==
  /\ pc = "join" /\ ThreadJoined /\ thread' = "none" /\ pc' = "timer"
  /\ UNCHANGED <<settings, then, made, currentaddr, fails, service, cnntimer, connecting, netVars, running,
                 seen, attemptVars, managerVars>>

(* Without m_service what was to come goes with it; on a shared service it *)
(* comes.  OnConnect may have found the same timer to delete.              *)
Reset ==
  /\ pc = "timer" /\ pc' = IF then = "connect" THEN "prepare" ELSE "idle"
  /\ cnntimer' = NoSession /\ service' = "none"
  /\ freedTwice' = (freedTwice \/ (cnntimer # NoSession /\ seen = cnntimer))
  /\ IF shared THEN wait' = Cancelled(cnntimer) /\ UNCHANGED attempt
     ELSE /\ attempt' = [s \in Session |-> "none"] /\ wait' = [s \in Session |-> "none"]
  /\ connecting' = FALSE /\ currentaddr' = FALSE
  /\ UNCHANGED <<settings, then, made, fails, thread, running, seen, opened, timedout, overtaken,
                 terminated, managerVars>>

ConnectingSet == TRUE

(* m_svclist is cleared, then filled with the next service of the pool;    *)
(* without a pool the client makes a service of its own.                   *)
Serviced == service' = IF shared THEN "none" ELSE "running"

(* The session of the attempt and its async_connect.  On a shared service  *)
(* the answer may come before there is a timer.                            *)
Attempted ==
  /\ made' = made + 1 /\ connecting' = ConnectingSet
  /\ attempt' = [attempt EXCEPT ![made'] = "pending"]

StartConnect ==
  /\ pc = "prepare" /\ pc' = IF timeout THEN "arm" ELSE "idle"
  /\ currentaddr' = TRUE
  /\ Serviced /\ Attempted
  /\ thread' = IF shared \/ timeout THEN "none" ELSE "run"
  /\ UNCHANGED <<settings, then, fails, cnntimer, wait, running, seen, attemptVars, managerVars>>

ArmTimer ==
  /\ pc = "arm" /\ pc' = "idle"
  /\ cnntimer' = made /\ wait' = [wait EXCEPT ![made] = "armed"]
  /\ thread' = IF shared THEN "none" ELSE "run"
  /\ UNCHANGED <<settings, then, made, currentaddr, fails, service, connecting, attempt, running, seen,
                 attemptVars, managerVars>>

-----------------------------------------------------------------------------
(* The network and the clock. *)

Answer(s) ==
  /\ attempt[s] = "pending"
  /\ \E answer \in {"ok", "error"} : attempt' = [attempt EXCEPT ![s] = answer]
  /\ UNCHANGED <<settings, callVars, service, thread, cnntimer, connecting, wait, running, seen,
                 attemptVars, managerVars>>

Expire(s) ==
  /\ wait[s] = "armed" /\ wait' = [wait EXCEPT ![s] = "due"]
  /\ UNCHANGED <<settings, callVars, service, thread, cnntimer, connecting, attempt, running, seen,
                 attemptVars, managerVars>>

-----------------------------------------------------------------------------
(* The thread of the service runs one handler after the other. *)

Runs == running = NoHandler /\ (shared \/ (service = "running" /\ thread = "run"))

Goes(step, s) == running' = [step |-> step, session |-> s]

HandlerUnchanged == UNCHANGED <<settings, callVars, thread, terminated>>

(* OnConnect: it does nothing when it finds no service. *)
HasService == ~shared \/ pc # "prepare"

OnConnect(s) ==
  /\ Runs /\ attempt[s] = "ok"
  /\ attempt' = [attempt EXCEPT ![s] = "done"]
  /\ Goes(IF HasService THEN "check" ELSE "done", s)
  /\ HandlerUnchanged
  /\ UNCHANGED <<service, cnntimer, connecting, wait, seen, opened, timedout, overtaken, freedTwice,
                 managerVars>>

(* Its error is told to the handler, whose OnError closes the session;     *)
(* the timer is left as it is.                                             *)
OnConnectError(s) ==
  /\ Runs /\ attempt[s] = "error"
  /\ attempt' = [attempt EXCEPT ![s] = "done"]
  /\ CloseBegin("io", s) /\ Goes("close", s)
  /\ HandlerUnchanged
  /\ UNCHANGED <<service, cnntimer, connecting, wait, seen, opened, timedout, overtaken, freedTwice,
                 registryVars, broadcastVars, idleVars>>

CheckTimer ==
  /\ running.step = "check"
  /\ seen' = cnntimer
  /\ Goes(IF cnntimer = NoSession THEN "add" ELSE "cancel", running.session)
  /\ HandlerUnchanged
  /\ UNCHANGED <<service, cnntimer, connecting, netVars, opened, timedout, overtaken, freedTwice,
                 managerVars>>

TimerDeleted == NoSession

CancelTimer ==
  /\ running.step = "cancel"
  /\ wait' = Cancelled(cnntimer)
  /\ cnntimer' = TimerDeleted /\ seen' = NoSession
  /\ freedTwice' = (freedTwice \/ cnntimer = NoSession)
  /\ Goes("add", running.session)
  /\ HandlerUnchanged
  /\ UNCHANGED <<service, connecting, attempt, opened, timedout, overtaken, managerVars>>

(* Open throws when the peer has left already (remote_endpoint).           *)
ConnectThrows ==
  /\ running.step = "add" /\ terminated' = TRUE
  /\ UNCHANGED <<settings, callVars, service, thread, cnntimer, connecting, netVars, running, seen,
                 opened, timedout, overtaken, freedTwice, managerVars>>

ConnectAdds ==
  /\ running.step = "add"
  /\ AddSession(running.session)
  /\ Goes("activate", running.session)
  /\ HandlerUnchanged
  /\ UNCHANGED <<service, cnntimer, connecting, netVars, seen, opened, timedout, overtaken, freedTwice,
                 sessionVars, broadcastVars, idleVars>>

ConnectActivates ==
  /\ running.step = "activate"
  /\ state' = [state EXCEPT ![running.session] = 1]
  /\ opened' = opened \cup {running.session}
  /\ Goes("done", running.session)
  /\ HandlerUnchanged
  /\ UNCHANGED <<service, cnntimer, connecting, netVars, seen, timedout, overtaken, freedTwice,
                 registryVars, closing, removing, broadcastVars, idleVars>>

(* OnConnectTimeOut, which is not told whether the wait was cancelled: it  *)
(* acts when there is any timer.                                           *)
OnConnectTimeOut(s) ==
  /\ Runs /\ wait[s] = "due"
  /\ wait' = [wait EXCEPT ![s] = "done"]
  /\ IF cnntimer # NoSession
       THEN /\ service' = ServiceStopped
            /\ timedout' = timedout \cup {s}
            /\ CloseBegin("io", s) /\ Goes("close", s)
       ELSE Goes("done", s) /\ UNCHANGED <<service, timedout, sessionVars>>
  /\ HandlerUnchanged
  /\ UNCHANGED <<cnntimer, connecting, attempt, seen, opened, overtaken, freedTwice,
                 registryVars, broadcastVars, idleVars>>

CloseRemoves ==
  /\ running.step \in {"close", "remove"}
  /\ CloseEnd("io", running.session)
  /\ IF running.step = "close" THEN Goes("done", running.session) ELSE running' = NoHandler
  /\ HandlerUnchanged
  /\ UNCHANGED <<service, cnntimer, connecting, netVars, seen, opened, timedout, overtaken, freedTwice>>

(* Fault: m_connecting is left as it is. *)
ConnectingLeft == connecting

ConnectingEnded == FALSE

Done ==
  /\ running.step = "done" /\ running' = NoHandler
  /\ connecting' = ConnectingEnded
  /\ HandlerUnchanged
  /\ UNCHANGED <<service, cnntimer, netVars, seen, opened, timedout, overtaken, freedTwice, managerVars>>

(* A session that is read or written may close. *)
Closes(s) ==
  /\ Runs /\ state[s] = 1
  /\ CloseBegin("io", s) /\ Goes("remove", s)
  /\ HandlerUnchanged
  /\ UNCHANGED <<service, cnntimer, connecting, netVars, seen, opened, timedout, overtaken, freedTwice,
                 registryVars, broadcastVars, idleVars>>

(* run returns when it is stopped, or nothing is left to wait for. *)
ThreadEnds ==
  /\ thread = "run" /\ running = NoHandler
  /\ \/ service = "stopped"
     \/ \A s \in Session : ~Outstanding(s) /\ (state[s] # 1 \/ s \notin Registered)
  /\ thread' = "ended"
  /\ UNCHANGED <<settings, callVars, service, cnntimer, connecting, netVars, running, seen,
                 attemptVars, managerVars>>

-----------------------------------------------------------------------------
ClientStep == StopService \/ ForgetSessions \/ Join \/ Reset \/ StartConnect \/ ArmTimer

ServiceStep ==
  \/ CheckTimer \/ CancelTimer \/ ConnectAdds \/ ConnectActivates \/ CloseRemoves \/ Done \/ ThreadEnds
  \/ \E s \in Session : OnConnect(s) \/ OnConnectError(s) \/ OnConnectTimeOut(s)

Expires == \E s \in Session : Expire(s)

ClientNext ==
  /\ ~terminated
  /\ \/ Connect \/ ConnectFails \/ Disconnect \/ ClientStep
     \/ ServiceStep \/ ConnectThrows
     \/ Expires \/ \E s \in Session : Answer(s) \/ Closes(s)

(* Threads run and timers expire; the network need not answer.             *)
ClientSpec ==
  /\ ClientInit /\ [][ClientNext]_clientVars
  /\ WF_clientVars(~terminated /\ ClientStep) /\ WF_clientVars(~terminated /\ ServiceStep)
  /\ WF_clientVars(~terminated /\ Expires)

-----------------------------------------------------------------------------
ClientType ==
  /\ made \in 0 .. MaxAttempts /\ running.step \in Handler \cup {"remove", "none"}
  /\ running.session \in Session \cup {NoSession}
  /\ attempt \in [Session -> {"none", "pending", "ok", "error", "done"}]
  /\ wait \in [Session -> {"none", "armed", "due", "done"}]
  /\ cnntimer \in 0 .. made \cup {NoSession} /\ seen \in Session \cup {NoSession}
  /\ \A s \in Session : s > made => attempt[s] = "none" /\ state[s] = 0
  /\ (service = "none") = (shared \/ ~currentaddr) \/ pc # "idle"

(* What Write sends goes to the session of the last Connect, except to one *)
(* whose handlers a Disconnect did not wait for: on its own service the    *)
(* one that was running, on a shared one all that were to come.            *)
OnlyCurrentSession ==
  pc = "idle" => Registered \subseteq overtaken \cup (IF currentaddr THEN {made} ELSE {})

(* On its own service, whose thread Disconnect joins, an attempt has one   *)
(* outcome, and its timer is deleted once: a session that opened does not  *)
(* time out, nor open later, and no two threads find the same timer.       *)
OneOutcome == ~shared => opened \cap timedout = {} /\ ~freedTwice

(* With a time limit an attempt ends although the network never answers.   *)
ConnectingEnds == timeout /\ connecting ~> (~connecting \/ terminated)
=============================================================================
