---------------------------- MODULE ClientProofs ----------------------------
(***************************************************************************)
(* What is proved of Client for every number of sessions and attempts: its *)
(* type, that an attempt on the client's own service has one outcome, and  *)
(* that what a program writes goes to the session of the last Connect; the *)
(* latter also of the endpoints together, as a run checks them.            *)
(***************************************************************************)
EXTENDS MCEndpoints, TLAPS

USE SessionManagerAssumption, EndpointAssumption, ClientAssumption

-----------------------------------------------------------------------------
(* The invariant of the types. *)

Pc == {"idle", "stop", "clear", "join", "timer", "prepare", "arm"}

Steps == Handler \cup {"remove", "none"}

(* A handler has a session of its own, and none without a handler.         *)
HandlerTyped ==
  /\ running \in [step : Steps, session : Session \cup {NoSession}]
  /\ running.step # "none" => running.session \in 1 .. made
  /\ running.step = "none" => running = NoHandler

(* Sessions that were not made have nothing to come and are not open.      *)
Unmade == \A s \in Session : s > made => attempt[s] = "none" /\ wait[s] = "none" /\ state[s] = 0

(* Connect has counted the attempt before the steps that come to it.       *)
Allowed ==
  /\ then = "connect" /\ pc \notin {"idle", "arm"} => made < MaxAttempts
  /\ pc = "prepare" => then = "connect"
  /\ pc = "arm" => made # 0

(* The client has a service of its own while it has an address.            *)
Owned ==
  /\ shared => service = "none"
  /\ ~shared /\ pc \notin {"prepare"} => (service = "none") = ~currentaddr
  /\ pc = "prepare" => service = "none" /\ ~currentaddr

TypeInv ==
  /\ shared \in BOOLEAN /\ timeout \in BOOLEAN /\ terminated \in BOOLEAN
  /\ currentaddr \in BOOLEAN /\ pc \in Pc
  /\ made \in 0 .. MaxAttempts /\ service \in {"none", "running", "stopped"}
  /\ attempt \in [Session -> {"none", "pending", "ok", "error", "done"}]
  /\ wait \in [Session -> {"none", "armed", "due", "done"}]
  /\ state \in [Session -> {-1, 0, 1}]
  /\ cnntimer \in (1 .. made) \cup {NoSession} /\ seen \in (1 .. made) \cup {NoSession}
  /\ HandlerTyped /\ Unmade /\ Allowed /\ Owned

-----------------------------------------------------------------------------
(* The client's own service: one thread, and one session at a time.        *)

(* What runs, runs on the thread, which is joined before the timer.        *)
Threaded ==
  /\ running.step # "none" => thread = "run"
  /\ pc \in {"timer", "prepare", "arm"} => thread = "none"

(* Only what CheckTimer found is cancelled, and it is still there.         *)
Cancelling ==
  /\ running.step = "cancel" => cnntimer # NoSession
  /\ running.step # "cancel" => seen = NoSession

(* What is to come is of the last session; before the attempt is nothing.  *)
OfTheLast ==
  /\ \A s \in Session : attempt[s] \in {"pending", "ok"} \/ wait[s] \in {"armed", "due"} => s = made
  /\ pc = "prepare" => \A s \in Session : attempt[s] = "none" /\ wait[s] = "none"
  /\ running.step \in {"check", "cancel", "add", "activate"} => running.session = made

(* The last session opens when its timer is gone, and a time out stops the *)
(* service it would open on.                                               *)
Outcome ==
  /\ opened \subseteq 1 .. made /\ timedout \subseteq 1 .. made
  /\ running.step \in {"add", "activate"} \/ made \in opened => cnntimer = NoSession
  /\ pc = "arm" => made \notin opened
  /\ made \in timedout => /\ service # "running"
                          /\ running.step \notin {"check", "cancel", "add", "activate"}

OwnInv == ~shared => Threaded /\ Cancelling /\ OfTheLast /\ Outcome /\ OneOutcome

-----------------------------------------------------------------------------
(* The sessions that are registered or may yet be. *)

Coming ==
  {s \in Session :
     \/ attempt[s] \in {"pending", "ok"} /\ (shared \/ service = "running")
     \/ running.step \in {"check", "cancel", "add"} /\ running.session = s}

(* After Clear only those whose handlers Disconnect does not wait for, and *)
(* nothing starts on a service that is stopped.                            *)
CurrentInv ==
  /\ Registered \cup Coming \subseteq
       overtaken \cup (IF currentaddr /\ pc \notin {"join", "timer"} THEN {made} ELSE {})
  /\ pc \in {"clear", "join", "timer", "prepare"} => service # "running"
  /\ ~shared /\ pc = "prepare" => \A s \in Session : attempt[s] = "none"
-----------------------------------------------------------------------------
(* The types.                                                              *)

(* What a step of the types needs of the constants.                        *)
LEMMA SessionsMade ==
  /\ NoSession \notin Session /\ MaxAttempts \in Nat /\ MaxSessions \in Nat
  /\ \A n \in 0 .. MaxAttempts : n # 0 => n \in Session
  /\ \A n \in 0 .. MaxAttempts : n < MaxAttempts =>
        n + 1 \in 0 .. MaxAttempts /\ n + 1 \in Session /\ n + 1 # NoSession
BY DEF Session

(* Connect finds the client with nothing made.                             *)
LEMMA TypeFirst == ClientInit => TypeInv
<1> SUFFICES ASSUME ClientInit PROVE TypeInv
  OBVIOUS
<1>1. HandlerTyped
  BY DEF ClientInit, NoHandler, HandlerTyped, Steps
<1>2. Unmade /\ state \in [Session -> {-1, 0, 1}]
      /\ attempt \in [Session -> {"none", "pending", "ok", "error", "done"}]
      /\ wait \in [Session -> {"none", "armed", "due", "done"}]
  BY DEF ClientInit, InitManager, Unmade
<1>3. Allowed /\ Owned /\ made \in 0 .. MaxAttempts
  BY SessionsMade DEF ClientInit, Allowed, Owned
<1> QED
  BY <1>1, <1>2, <1>3 DEF ClientInit, TypeInv, Pc

(* What has a session to come, or is open, was made.                       *)
LEMMA MadeBefore ==
  ASSUME TypeInv, NEW s \in Session, attempt[s] # "none" \/ wait[s] # "none" \/ state[s] # 0
  PROVE  s \in 1 .. made
BY SessionsMade DEF TypeInv, Unmade, Session

(* A step that leaves all the types speak of as it is.                     *)
LEMMA TypeUnchanged ==
  ASSUME TypeInv, UNCHANGED clientVars
  PROVE  TypeInv'
BY DEF TypeInv, HandlerTyped, Unmade, Allowed, Owned, clientVars, managerVars, sessionVars,
  programVars, settings, callVars, netVars, attemptVars

(* The steps of the program's thread.                                      *)
LEMMA TypeProgram ==
  ASSUME TypeInv, Connect \/ ConnectFails \/ Disconnect \/ ClientStep
  PROVE  TypeInv'
<1> USE SessionsMade
<1>1. ASSUME Connect \/ ConnectFails \/ Disconnect PROVE TypeInv'
  BY <1>1 DEF Connect, ConnectFails, Disconnect, ClientCalls, TypeInv, HandlerTyped, Unmade, Allowed,
    Owned, Pc, managerVars, sessionVars, settings, netVars, attemptVars
<1>2. ASSUME StopService PROVE TypeInv'
  BY <1>2 DEF StopService, ServiceStopped, TypeInv, HandlerTyped, Unmade, Allowed, Owned, Pc,
    managerVars, sessionVars, settings, netVars, attemptVars
<1>3. ASSUME ForgetSessions PROVE TypeInv'
  BY <1>3 DEF ForgetSessions, TypeInv, HandlerTyped, Unmade, Allowed, Owned, Pc,
    managerVars, sessionVars, settings, netVars, attemptVars
<1>4. ASSUME Join PROVE TypeInv'
  BY <1>4 DEF Join, TypeInv, HandlerTyped, Unmade, Allowed, Owned, Pc,
    managerVars, sessionVars, settings, netVars, attemptVars
<1>5. ASSUME Reset PROVE TypeInv'
  <2>1. wait' \in [Session -> {"none", "armed", "due", "done"}] /\ Unmade'
        /\ attempt' \in [Session -> {"none", "pending", "ok", "error", "done"}]
    <3>1. CASE shared
      BY <1>5, <3>1 DEF Reset, Cancelled, TypeInv, Unmade, managerVars, sessionVars
    <3>2. CASE ~shared
      BY <1>5, <3>2 DEF Reset, TypeInv, Unmade, managerVars, sessionVars
    <3> QED
      BY <3>1, <3>2
  <2>2. Allowed' /\ Owned'
    BY <1>5 DEF Reset, TypeInv, Allowed, Owned, settings, Pc
  <2> QED
    BY <1>5, <2>1, <2>2 DEF Reset, TypeInv, HandlerTyped, Pc, managerVars, sessionVars, settings
<1>6. ASSUME StartConnect PROVE TypeInv'
  <2>1. /\ pc = "prepare" /\ pc' \in {"arm", "idle"} /\ made' = made + 1 /\ currentaddr' = TRUE
        /\ service' = IF shared THEN "none" ELSE "running"
        /\ attempt' = [attempt EXCEPT ![made'] = "pending"]
        /\ UNCHANGED <<shared, timeout, terminated, then, cnntimer, wait, running, seen, state>>
    BY <1>6 DEF StartConnect, Serviced, Attempted, settings, attemptVars, managerVars, sessionVars
  <2>2. made \in Nat /\ made' \in 1 .. MaxAttempts /\ made' \in Session
    BY <2>1 DEF TypeInv, Allowed
  <2>3. HandlerTyped' /\ cnntimer' \in (1 .. made') \cup {NoSession}
        /\ seen' \in (1 .. made') \cup {NoSession}
    BY <2>1, <2>2 DEF TypeInv, HandlerTyped, NoHandler
  <2>4. Unmade' /\ attempt' \in [Session -> {"none", "pending", "ok", "error", "done"}]
    BY <2>1, <2>2 DEF TypeInv, Unmade, Session
  <2>5. Allowed' /\ Owned'
    BY <2>1, <2>2 DEF TypeInv, Allowed, Owned
  <2> QED
    BY <2>1, <2>2, <2>3, <2>4, <2>5 DEF TypeInv, Pc
<1>7. ASSUME ArmTimer PROVE TypeInv'
  BY <1>7 DEF ArmTimer, TypeInv, HandlerTyped, Unmade, Allowed, Owned, Pc,
    managerVars, sessionVars, settings, netVars, attemptVars
<1> QED
  BY <1>1, <1>2, <1>3, <1>4, <1>5, <1>6, <1>7 DEF ClientStep

(* The steps of the network and the clock, and those of the thread of the  *)
(* service.                                                                *)
LEMMA TypeService ==
  ASSUME TypeInv, ServiceStep \/ ConnectThrows \/ (\E s \in Session : Expire(s) \/ Answer(s) \/ Closes(s))
  PROVE  TypeInv'
<1> USE SessionsMade
<1>1. ASSUME NEW s \in Session, Answer(s) \/ Expire(s) PROVE TypeInv'
  BY <1>1 DEF Answer, Expire, TypeInv, HandlerTyped, Unmade, Allowed, Owned, Pc,
    managerVars, sessionVars, settings, callVars, attemptVars
<1>2. ASSUME NEW s \in Session, OnConnect(s) PROVE TypeInv'
  BY <1>2, MadeBefore DEF OnConnect, Goes, HandlerUnchanged, TypeInv, HandlerTyped, Unmade, Allowed, Owned, Pc,
    Steps, Handler, NoHandler, managerVars, sessionVars, settings, callVars
<1>3. ASSUME NEW s \in Session, OnConnectError(s) PROVE TypeInv'
  BY <1>3, MadeBefore DEF OnConnectError, CloseBegin, Goes, HandlerUnchanged, TypeInv, HandlerTyped, Unmade,
    Allowed, Owned, Pc, Steps, Handler, NoHandler, settings, callVars
<1>4. ASSUME CheckTimer PROVE TypeInv'
  BY <1>4 DEF CheckTimer, Goes, HandlerUnchanged, TypeInv, HandlerTyped, Unmade, Allowed, Owned, Pc,
    Steps, Handler, NoHandler, managerVars, sessionVars, settings, callVars, netVars
<1>5. ASSUME CancelTimer PROVE TypeInv'
  BY <1>5 DEF CancelTimer, TimerDeleted, Cancelled, Goes, HandlerUnchanged, TypeInv, HandlerTyped,
    Unmade, Allowed, Owned, Pc, Steps, Handler, NoHandler, managerVars, sessionVars, settings, callVars
<1>6. ASSUME ConnectAdds PROVE TypeInv'
  BY <1>6 DEF ConnectAdds, Goes, HandlerUnchanged, TypeInv, HandlerTyped, Unmade, Allowed, Owned, Pc,
    Steps, Handler, NoHandler, sessionVars, settings, callVars, netVars
<1>7. ASSUME ConnectActivates PROVE TypeInv'
  BY <1>7 DEF ConnectActivates, Goes, HandlerUnchanged, TypeInv, HandlerTyped, Unmade, Allowed, Owned,
    Pc, Steps, Handler, NoHandler, settings, callVars, netVars
<1>8. ASSUME NEW s \in Session, OnConnectTimeOut(s) PROVE TypeInv'
  BY <1>8, MadeBefore DEF OnConnectTimeOut, ServiceStopped, CloseBegin, Goes, HandlerUnchanged, TypeInv,
    HandlerTyped, Unmade, Allowed, Owned, Pc, Steps, Handler, NoHandler, sessionVars, settings, callVars
<1>9. ASSUME CloseRemoves \/ Done \/ ThreadEnds PROVE TypeInv'
  BY <1>9 DEF CloseRemoves, CloseEnd, Done, ConnectingEnded, ThreadEnds, Goes, HandlerUnchanged,
    TypeInv, HandlerTyped, Unmade, Allowed, Owned, Pc, Steps, Handler, NoHandler, managerVars,
    sessionVars, settings, callVars, netVars, attemptVars
<1>10. ASSUME NEW s \in Session, Closes(s) PROVE TypeInv'
  BY <1>10, MadeBefore DEF Closes, CloseBegin, Goes, HandlerUnchanged, TypeInv, HandlerTyped, Unmade, Allowed,
    Owned, Pc, Steps, Handler, NoHandler, settings, callVars, netVars
<1>11. ASSUME ConnectThrows PROVE TypeInv'
  BY <1>11 DEF ConnectThrows, TypeInv, HandlerTyped, Unmade, Allowed, Owned, Pc,
    managerVars, sessionVars, settings, callVars, netVars
<1> QED
  BY <1>1, <1>2, <1>3, <1>4, <1>5, <1>6, <1>7, <1>8, <1>9, <1>10, <1>11 DEF ServiceStep

(* A step of the client keeps the types.                                   *)
LEMMA TypeStep ==
  ASSUME TypeInv, [ClientNext]_clientVars
  PROVE  TypeInv'
BY TypeProgram, TypeService, TypeUnchanged DEF ClientNext, Expires

(* The types of a client are correct, and a client at rest has a service   *)
(* of its own exactly while it has an address.                             *)
THEOREM ClientTypeCorrect == ClientSpec => []ClientType
<1>1. TypeInv => ClientType
  BY SessionsMade DEF TypeInv, HandlerTyped, Unmade, Owned, Steps, ClientType
<1> QED
  BY <1>1, TypeFirst, TypeStep, PTL DEF ClientSpec
-----------------------------------------------------------------------------
(* One outcome.                                                            *)

(* The four parts of OwnInv, of a client with a service of its own.        *)
LEMMA OwnFirst == ClientInit => OwnInv
BY SessionsMade DEF ClientInit, InitManager, NoHandler, OwnInv, Threaded, Cancelling, OfTheLast,
  Outcome, OneOutcome

(* The steps of the program's thread.  Until the thread is joined they     *)
(* change nothing the thread works on.                                     *)
LEMMA OwnProgram ==
  ASSUME TypeInv, OwnInv, Connect \/ ConnectFails \/ Disconnect \/ ClientStep
  PROVE  OwnInv'
<1> USE SessionsMade
<1> SUFFICES ASSUME ~shared PROVE OwnInv'
  BY DEF OwnInv, Connect, ConnectFails, Disconnect, ClientCalls, ClientStep, StopService,
    ForgetSessions, Join, Reset, StartConnect, ArmTimer, settings
<1>1. ASSUME Connect \/ ConnectFails \/ Disconnect \/ ForgetSessions \/ Join PROVE OwnInv'
  <2>1. /\ UNCHANGED <<shared, made, service, cnntimer, attempt, wait, running, seen, opened,
                       timedout, freedTwice>>
        /\ pc' \in {"stop", "join", "timer"}
        /\ thread' = IF pc' = "timer" THEN "none" ELSE thread
        /\ pc' = "timer" => thread # "run"
    BY <1>1 DEF Connect, ConnectFails, Disconnect, ClientCalls, ForgetSessions, Join, ThreadJoined,
      settings, netVars, attemptVars
  <2> QED
    BY <2>1 DEF TypeInv, HandlerTyped, OwnInv, Threaded, Cancelling, OfTheLast, Outcome, OneOutcome
<1>2. ASSUME StopService PROVE OwnInv'
  BY <1>2 DEF StopService, ServiceStopped, OwnInv, Threaded, Cancelling, OfTheLast, Outcome,
    OneOutcome, settings, netVars, attemptVars
<1>3. ASSUME Reset PROVE OwnInv'
  <2>1. /\ pc = "timer" /\ pc' \in {"prepare", "idle"} /\ cnntimer' = NoSession /\ service' = "none"
        /\ freedTwice' = (freedTwice \/ (cnntimer # NoSession /\ seen = cnntimer))
        /\ attempt' = [s \in Session |-> "none"] /\ wait' = [s \in Session |-> "none"]
        /\ UNCHANGED <<shared, made, thread, running, seen, opened, timedout>>
    BY <1>3 DEF Reset, settings
  <2>2. running.step = "none" /\ thread = "none"
    BY <2>1 DEF OwnInv, Threaded
  <2>3. Threaded' /\ Cancelling' /\ OfTheLast'
    BY <2>1, <2>2 DEF OwnInv, Threaded, Cancelling, OfTheLast
  <2>4. Outcome'
    BY <2>1, <2>2 DEF OwnInv, Outcome
  <2>5. OneOutcome'
    BY <2>1, <2>2 DEF OwnInv, Cancelling, OneOutcome
  <2> QED
    BY <2>3, <2>4, <2>5 DEF OwnInv
<1>4. ASSUME StartConnect PROVE OwnInv'
  <2>1. /\ pc = "prepare" /\ pc' = (IF timeout THEN "arm" ELSE "idle") /\ made' = made + 1
        /\ thread' = (IF timeout THEN "none" ELSE "run")
        /\ attempt' = [attempt EXCEPT ![made'] = "pending"]
        /\ UNCHANGED <<shared, cnntimer, wait, running, seen, opened, timedout, freedTwice>>
    BY <1>4 DEF StartConnect, Attempted, settings, attemptVars
  <2>2. running.step = "none" /\ made \in Nat
    BY <2>1 DEF OwnInv, Threaded, TypeInv
  <2>3. Threaded' /\ Cancelling' /\ OneOutcome'
    BY <2>1, <2>2 DEF OwnInv, Threaded, Cancelling, OneOutcome
  <2>4. OfTheLast'
    BY <2>1, <2>2 DEF OwnInv, OfTheLast, TypeInv
  <2>5. opened' \subseteq 1 .. made' /\ timedout' \subseteq 1 .. made'
        /\ made' \notin opened' /\ made' \notin timedout'
    BY <2>1, <2>2 DEF OwnInv, Outcome
  <2>6. Outcome'
    BY <2>1, <2>2, <2>5 DEF Outcome
  <2> QED
    BY <2>3, <2>4, <2>6 DEF OwnInv
<1>5. ASSUME ArmTimer PROVE OwnInv'
  <2>1. /\ pc = "arm" /\ pc' = "idle" /\ cnntimer' = made
        /\ wait' = [wait EXCEPT ![made] = "armed"] /\ thread' = "run"
        /\ UNCHANGED <<shared, made, service, attempt, running, seen, opened, timedout, freedTwice>>
    BY <1>5 DEF ArmTimer, settings, attemptVars
  <2>2. running.step = "none"
    BY <2>1 DEF OwnInv, Threaded
  <2>3. Threaded' /\ Cancelling' /\ OneOutcome'
    BY <2>1, <2>2 DEF OwnInv, Threaded, Cancelling, OneOutcome
  <2>4. OfTheLast'
    BY <2>1, <2>2 DEF OwnInv, OfTheLast, TypeInv
  <2>5. Outcome'
    BY <2>1, <2>2 DEF OwnInv, Outcome
  <2> QED
    BY <2>3, <2>4, <2>5 DEF OwnInv
<1> QED
  BY <1>1, <1>2, <1>3, <1>4, <1>5 DEF ClientStep

(* The steps of the network and the clock, and those of the thread of the  *)
(* service, which take place in the state the program left.                *)
LEMMA OwnService ==
  ASSUME TypeInv, OwnInv,
         ServiceStep \/ ConnectThrows \/ (\E s \in Session : Expire(s) \/ Answer(s) \/ Closes(s))
  PROVE  OwnInv'
<1> USE SessionsMade
<1> SUFFICES ASSUME ~shared PROVE OwnInv'
  BY DEF OwnInv, ServiceStep, CheckTimer, CancelTimer, ConnectAdds, ConnectActivates, CloseRemoves,
    Done, ThreadEnds, OnConnect, OnConnectError, OnConnectTimeOut, ConnectThrows, Expire, Answer,
    Closes, HandlerUnchanged, settings
<1>1. ASSUME NEW s \in Session, Answer(s) \/ Expire(s) PROVE OwnInv'
  <2>1. /\ UNCHANGED <<shared, made, pc, thread, service, cnntimer, running, seen, opened,
                       timedout, freedTwice>>
        /\ \/ UNCHANGED wait /\ attempt[s] = "pending"
              /\ \E a \in {"ok", "error"} : attempt' = [attempt EXCEPT ![s] = a]
           \/ UNCHANGED attempt /\ wait[s] = "armed" /\ wait' = [wait EXCEPT ![s] = "due"]
    BY <1>1 DEF Answer, Expire, settings, callVars, attemptVars
  <2>2. OfTheLast'
    BY <2>1 DEF OwnInv, OfTheLast, TypeInv
  <2> QED
    BY <2>1, <2>2 DEF OwnInv, Threaded, Cancelling, Outcome, OneOutcome
<1>2. ASSUME NEW s \in Session, OnConnect(s) PROVE OwnInv'
  <2>1. /\ UNCHANGED <<shared, made, pc, thread, service, cnntimer, wait, seen, opened,
                       timedout, freedTwice>>
        /\ thread = "run" /\ service = "running" /\ running = NoHandler /\ attempt[s] = "ok"
        /\ attempt' = [attempt EXCEPT ![s] = "done"]
        /\ running' = [step |-> "check", session |-> s]
    BY <1>2 DEF OnConnect, Runs, HasService, Goes, HandlerUnchanged, settings, callVars
  <2>2. s = made
    BY <2>1 DEF OwnInv, OfTheLast
  <2>3. OfTheLast'
    BY <2>1, <2>2 DEF OwnInv, OfTheLast, TypeInv
  <2>4. Threaded' /\ Cancelling' /\ Outcome' /\ OneOutcome'
    BY <2>1, <2>2 DEF OwnInv, Threaded, Cancelling, Outcome, OneOutcome, NoHandler
  <2> QED
    BY <2>3, <2>4 DEF OwnInv
<1>3. ASSUME NEW s \in Session, OnConnectError(s) PROVE OwnInv'
  <2>1. /\ UNCHANGED <<shared, made, pc, thread, service, cnntimer, wait, seen, opened,
                       timedout, freedTwice>>
        /\ thread = "run" /\ running = NoHandler
        /\ attempt' = [attempt EXCEPT ![s] = "done"]
        /\ running' = [step |-> "close", session |-> s]
    BY <1>3 DEF OnConnectError, Runs, Goes, HandlerUnchanged, settings, callVars
  <2>2. OfTheLast'
    BY <2>1 DEF OwnInv, OfTheLast, TypeInv, Threaded
  <2>3. Threaded' /\ Cancelling' /\ Outcome' /\ OneOutcome'
    BY <2>1 DEF OwnInv, Threaded, Cancelling, Outcome, OneOutcome, NoHandler
  <2> QED
    BY <2>2, <2>3 DEF OwnInv
<1>4. ASSUME CheckTimer PROVE OwnInv'
  <2>1. /\ UNCHANGED <<shared, made, pc, thread, service, cnntimer, attempt, wait, opened,
                       timedout, freedTwice>>
        /\ running.step = "check" /\ seen' = cnntimer
        /\ running' = [step |-> IF cnntimer = NoSession THEN "add" ELSE "cancel",
                       session |-> running.session]
    BY <1>4 DEF CheckTimer, Goes, HandlerUnchanged, settings, callVars, netVars
  <2> QED
    BY <2>1 DEF OwnInv, Threaded, Cancelling, OfTheLast, Outcome, OneOutcome
<1>5. ASSUME CancelTimer PROVE OwnInv'
  <2>1. /\ UNCHANGED <<shared, made, pc, thread, service, attempt, opened, timedout>>
        /\ running.step = "cancel" /\ cnntimer' = NoSession /\ seen' = NoSession
        /\ freedTwice' = (freedTwice \/ cnntimer = NoSession)
        /\ wait' = Cancelled(cnntimer)
        /\ running' = [step |-> "add", session |-> running.session]
    BY <1>5 DEF CancelTimer, TimerDeleted, Goes, HandlerUnchanged, settings, callVars
  <2>2. OfTheLast'
    BY <2>1 DEF OwnInv, Threaded, OfTheLast, TypeInv, Cancelled
  <2>3. Threaded' /\ Cancelling' /\ Outcome' /\ OneOutcome'
    BY <2>1 DEF OwnInv, Threaded, Cancelling, Outcome, OneOutcome
  <2> QED
    BY <2>2, <2>3 DEF OwnInv
<1>6. ASSUME ConnectAdds \/ ConnectActivates PROVE OwnInv'
  <2>1. /\ UNCHANGED <<shared, made, pc, thread, service, cnntimer, attempt, wait, seen, timedout,
                       freedTwice>>
        /\ running.step \in {"add", "activate"} /\ running'.session = running.session
        /\ \/ running'.step = "activate" /\ UNCHANGED opened
           \/ running'.step = "done" /\ opened' = opened \cup {running.session}
    BY <1>6 DEF ConnectAdds, ConnectActivates, Goes, HandlerUnchanged, settings, callVars, netVars
  <2>2. running.session = made /\ cnntimer = NoSession /\ made \notin timedout /\ made \in 1 .. made
        /\ thread = "run"
    BY <2>1 DEF OwnInv, OfTheLast, Outcome, Threaded, TypeInv, HandlerTyped
  <2>3. Threaded' /\ Cancelling' /\ OfTheLast' /\ OneOutcome'
    BY <2>1, <2>2 DEF OwnInv, Threaded, Cancelling, OfTheLast, OneOutcome
  <2>4. Outcome'
    BY <2>1, <2>2 DEF OwnInv, Outcome, Threaded
  <2> QED
    BY <2>3, <2>4 DEF OwnInv
<1>7. ASSUME NEW s \in Session, OnConnectTimeOut(s) PROVE OwnInv'
  <2>1. /\ UNCHANGED <<shared, made, pc, thread, cnntimer, attempt, seen, opened, freedTwice>>
        /\ running = NoHandler /\ thread = "run" /\ wait[s] = "due"
        /\ wait' = [wait EXCEPT ![s] = "done"]
        /\ running'.step \in {"close", "done"}
        /\ \/ /\ cnntimer # NoSession /\ service' \in {"none", "stopped"}
              /\ timedout' = timedout \cup {s}
           \/ UNCHANGED <<service, timedout>>
    BY <1>7 DEF OnConnectTimeOut, ServiceStopped, Runs, Goes, HandlerUnchanged, settings, callVars
  <2>2. s = made /\ made \in 1 .. made
    BY <2>1, MadeBefore DEF OwnInv, OfTheLast
  <2>3. OfTheLast'
    BY <2>1 DEF OwnInv, Threaded, OfTheLast, TypeInv
  <2>4. Threaded' /\ Cancelling'
    BY <2>1 DEF OwnInv, Threaded, Cancelling, NoHandler
  <2>5. Outcome' /\ OneOutcome'
    BY <2>1, <2>2 DEF OwnInv, Outcome, OneOutcome
  <2> QED
    BY <2>3, <2>4, <2>5 DEF OwnInv
<1>8. ASSUME CloseRemoves \/ Done \/ (\E s \in Session : Closes(s)) PROVE OwnInv'
  <2>1. /\ UNCHANGED <<shared, made, pc, thread, service, cnntimer, attempt, wait, seen, opened,
                       timedout, freedTwice>>
        /\ running'.step \in {"none", "done", "remove"} /\ thread = "run" /\ running.step # "cancel"
    BY <1>8 DEF CloseRemoves, Done, Closes, Runs, Goes, NoHandler, HandlerUnchanged, settings,
      callVars, netVars, OwnInv, Threaded
  <2> QED
    BY <2>1 DEF OwnInv, Threaded, Cancelling, OfTheLast, Outcome, OneOutcome
<1>9. ASSUME ThreadEnds \/ ConnectThrows PROVE OwnInv'
  <2>1. /\ UNCHANGED <<shared, made, pc, service, cnntimer, attempt, wait, running, seen, opened,
                       timedout, freedTwice>>
        /\ UNCHANGED thread \/ (thread = "run" /\ running.step = "none")
    BY <1>9 DEF ThreadEnds, ConnectThrows, NoHandler, settings, callVars, netVars, attemptVars
  <2> QED
    BY <2>1 DEF OwnInv, Threaded, Cancelling, OfTheLast, Outcome, OneOutcome
<1> QED
  BY <1>1, <1>2, <1>3, <1>4, <1>5, <1>6, <1>7, <1>8, <1>9 DEF ServiceStep

(* A step of the client keeps OwnInv.                                      *)
LEMMA OwnStep ==
  ASSUME TypeInv, OwnInv, [ClientNext]_clientVars
  PROVE  OwnInv'
<1>1. CASE UNCHANGED clientVars
  BY <1>1 DEF OwnInv, Threaded, Cancelling, OfTheLast, Outcome, OneOutcome, clientVars, programVars,
    settings, callVars, netVars, attemptVars
<1> QED
  BY <1>1, OwnProgram, OwnService DEF ClientNext, Expires

(* On the client's own service, which Disconnect stops and joins before it *)
(* deletes the timer, a session that opened does not time out, none opens  *)
(* that timed out, and the timer is deleted once.                          *)
THEOREM ClientOneOutcome == ClientSpec => []OneOutcome
<1>1. OwnInv => OneOutcome
  BY DEF OwnInv, OneOutcome
<1> QED
  BY <1>1, TypeFirst, TypeStep, OwnFirst, OwnStep, PTL DEF ClientSpec
-----------------------------------------------------------------------------
(* The current session.                                                    *)

(* AddSession registers no other, CloseEnd none, and Clear leaves none.    *)
LEMMA RegisteredBy ==
  ASSUME NEW s
  PROVE  /\ AddSession(s) => Registered' \subseteq Registered \cup {s}
         /\ CloseEnd("io", s) => Registered' \subseteq Registered
         /\ Clear => Registered' = {}
         /\ UNCHANGED sessions => Registered' = Registered
<1>1. ASSUME AddSession(s) PROVE Registered' \subseteq Registered \cup {s}
  <2>1. sessions' = [i \in DOMAIN sessions \cup {sessionidx'} |->
                       IF i = sessionidx' THEN s ELSE sessions[i]]
    BY <1>1 DEF AddSession
  <2> QED
    BY <2>1 DEF Registered, Range
<1>2. ASSUME CloseEnd("io", s) PROVE Registered' \subseteq Registered
  <2>1. sessions' = [i \in DOMAIN sessions \ {id[s]} |-> sessions[i]]
    BY <1>2 DEF CloseEnd, RemoveSession, Restrict
  <2> QED
    BY <2>1 DEF Registered, Range
<1>3. Clear => Registered' = {}
  BY DEF Clear, Registered, Range
<1> QED
  BY <1>1, <1>2, <1>3 DEF Registered

(* Connect finds no session.                                               *)
LEMMA CurrentFirst == ClientInit => CurrentInv
BY SessionsMade DEF ClientInit, InitManager, NoHandler, CurrentInv, Coming, Registered, Range

(* The steps of the program's thread: ForgetSessions takes all away but    *)
(* what it does not wait for, and StartConnect begins with nothing else.   *)
LEMMA CurrentProgram ==
  ASSUME TypeInv, CurrentInv, Connect \/ ConnectFails \/ Disconnect \/ ClientStep
  PROVE  CurrentInv'
<1> USE SessionsMade
<1>1. ASSUME Connect \/ ConnectFails \/ Disconnect \/ StopService PROVE CurrentInv'
  <2>1. /\ UNCHANGED <<shared, made, currentaddr, attempt, running, overtaken, sessions>>
        /\ pc \in {"idle", "stop"}
        /\ \/ pc' = "stop" /\ UNCHANGED service
           \/ pc' = "clear" /\ service' \in {"none", "stopped"}
    BY <1>1 DEF Connect, ConnectFails, Disconnect, ClientCalls, StopService, ServiceStopped,
      managerVars, registryVars, settings, netVars, attemptVars
  <2>2. Registered' = Registered /\ Coming' \subseteq Coming
    BY <2>1, RegisteredBy DEF Coming
  <2> QED
    BY <2>1, <2>2 DEF CurrentInv
<1>2. ASSUME ForgetSessions PROVE CurrentInv'
  <2>1. /\ UNCHANGED <<shared, made, service, currentaddr, attempt, running>>
        /\ pc = "clear" /\ pc' = "join" /\ Registered' = {}
        /\ overtaken' = overtaken \cup {s \in Session : IF shared THEN Outstanding(s)
                                                        ELSE running.session = s}
    BY <1>2, RegisteredBy DEF ForgetSessions, settings, netVars
  <2>2. service # "running"
    BY <2>1 DEF CurrentInv
  <2>3. Coming' \subseteq overtaken'
    BY <2>1, <2>2 DEF Coming, Outstanding
  <2> QED
    BY <2>1, <2>2, <2>3 DEF CurrentInv
<1>3. ASSUME Join PROVE CurrentInv'
  <2>1. /\ UNCHANGED <<shared, made, service, currentaddr, attempt, running, overtaken, sessions>>
        /\ pc = "join" /\ pc' = "timer"
    BY <1>3 DEF Join, managerVars, registryVars, settings, netVars, attemptVars
  <2>2. Registered' = Registered /\ Coming' = Coming
    BY <2>1, RegisteredBy DEF Coming
  <2> QED
    BY <2>1, <2>2 DEF CurrentInv
<1>4. ASSUME Reset PROVE CurrentInv'
  <2>1. /\ UNCHANGED <<shared, made, running, overtaken, sessions>>
        /\ pc = "timer" /\ service' = "none" /\ currentaddr' = FALSE
        /\ shared => UNCHANGED attempt
        /\ ~shared => attempt' = [s \in Session |-> "none"]
    BY <1>4 DEF Reset, managerVars, registryVars, settings
  <2>2. Registered' = Registered /\ Coming' \subseteq Coming
    BY <2>1, RegisteredBy DEF Coming
  <2> QED
    BY <2>1, <2>2 DEF CurrentInv
<1>5. ASSUME StartConnect PROVE CurrentInv'
  <2>1. /\ pc = "prepare" /\ pc' \in {"arm", "idle"} /\ made' = made + 1 /\ currentaddr' = TRUE
        /\ attempt' = [attempt EXCEPT ![made'] = "pending"]
        /\ UNCHANGED <<shared, running, overtaken, sessions>>
    BY <1>5 DEF StartConnect, Attempted, managerVars, registryVars, settings, attemptVars
  <2>2. Registered' = Registered /\ Coming' \subseteq Coming \cup {made'}
    BY <2>1, RegisteredBy DEF CurrentInv, Coming, TypeInv
  <2>3. ~currentaddr
    BY <2>1 DEF TypeInv, Owned
  <2> QED
    BY <2>1, <2>2, <2>3 DEF CurrentInv
<1>6. ASSUME ArmTimer PROVE CurrentInv'
  <2>1. /\ UNCHANGED <<shared, made, service, currentaddr, attempt, running, overtaken, sessions>>
        /\ pc = "arm" /\ pc' = "idle"
    BY <1>6 DEF ArmTimer, managerVars, registryVars, settings, attemptVars
  <2>2. Registered' = Registered /\ Coming' = Coming
    BY <2>1, RegisteredBy DEF Coming
  <2> QED
    BY <2>1, <2>2 DEF CurrentInv
<1> QED
  BY <1>1, <1>2, <1>3, <1>4, <1>5, <1>6 DEF ClientStep

(* The steps of the network and the clock, and those of the thread of the  *)
(* service: only a session that was to come is registered, and none comes  *)
(* that was not.                                                           *)
LEMMA CurrentService ==
  ASSUME TypeInv, CurrentInv,
         ServiceStep \/ ConnectThrows \/ (\E s \in Session : Expire(s) \/ Answer(s) \/ Closes(s))
  PROVE  CurrentInv'
<1> USE SessionsMade
<1> DEFINE Goal == /\ UNCHANGED <<shared, made, pc, currentaddr, overtaken>>
                   /\ UNCHANGED service \/ service' \in {"none", "stopped"}
                   /\ Registered' \cup Coming' \subseteq Registered \cup Coming
                   /\ ~shared /\ pc = "prepare" /\ (\A s \in Session : attempt[s] = "none")
                        => \A s \in Session : attempt'[s] = "none"
<1>1. Goal => CurrentInv'
  BY DEF CurrentInv
<1> HIDE DEF Goal
<1>2. ASSUME NEW s \in Session, Answer(s) \/ Expire(s) PROVE Goal
  <2>1. /\ UNCHANGED <<shared, made, pc, currentaddr, overtaken, service, running, sessions>>
        /\ \/ UNCHANGED attempt
           \/ attempt[s] = "pending" /\ \E a \in {"ok", "error"} : attempt' = [attempt EXCEPT ![s] = a]
    BY <1>2 DEF Answer, Expire, settings, callVars, attemptVars, managerVars, registryVars
  <2> QED
    BY <2>1, RegisteredBy DEF Goal, Coming, TypeInv
<1>3. ASSUME NEW s \in Session, OnConnect(s) \/ OnConnectError(s) PROVE Goal
  <2>1. /\ UNCHANGED <<shared, made, pc, currentaddr, overtaken, service, sessions>>
        /\ attempt[s] \in {"ok", "error"} /\ attempt' = [attempt EXCEPT ![s] = "done"]
        /\ \/ /\ running'.step = "check" /\ running'.session = s
              /\ attempt[s] = "ok" /\ (shared \/ service = "running")
           \/ running'.step \in {"done", "close"}
    BY <1>3 DEF OnConnect, OnConnectError, Runs, Goes, HandlerUnchanged, settings, callVars,
      managerVars, registryVars
  <2> QED
    BY <2>1, RegisteredBy DEF Goal, Coming, TypeInv
<1>4. ASSUME CheckTimer \/ CancelTimer PROVE Goal
  <2>1. /\ UNCHANGED <<shared, made, pc, currentaddr, overtaken, service, sessions, attempt>>
        /\ running.step \in {"check", "cancel"} /\ running'.session = running.session
    BY <1>4 DEF CheckTimer, CancelTimer, Goes, HandlerUnchanged, settings, callVars, netVars,
      managerVars, registryVars
  <2> QED
    BY <2>1, RegisteredBy DEF Goal, Coming
<1>5. ASSUME ConnectAdds PROVE Goal
  <2>1. /\ UNCHANGED <<shared, made, pc, currentaddr, overtaken, service, attempt>>
        /\ running.step = "add" /\ running'.step = "activate" /\ AddSession(running.session)
    BY <1>5 DEF ConnectAdds, Goes, HandlerUnchanged, settings, callVars, netVars
  <2>2. running.session \in Coming
    BY <2>1 DEF TypeInv, HandlerTyped, Coming, Session
  <2>3. Registered' \subseteq Registered \cup {running.session} /\ Coming' \subseteq Coming
    BY <2>1, RegisteredBy DEF Coming
  <2> QED
    BY <2>1, <2>2, <2>3 DEF Goal
<1>6. ASSUME CloseRemoves PROVE Goal
  <2>1. /\ UNCHANGED <<shared, made, pc, currentaddr, overtaken, service, attempt>>
        /\ running'.step \in {"done", "none"} /\ CloseEnd("io", running.session)
    BY <1>6 DEF CloseRemoves, Goes, NoHandler, HandlerUnchanged, settings, callVars, netVars
  <2> QED
    BY <2>1, RegisteredBy DEF Goal, Coming
<1>7. ASSUME ConnectActivates \/ Done \/ ThreadEnds \/ ConnectThrows \/ (\E s \in Session : Closes(s))
      PROVE Goal
  <2>1. /\ UNCHANGED <<shared, made, pc, currentaddr, overtaken, service, attempt, sessions>>
        /\ UNCHANGED running \/ running'.step \in {"done", "none", "remove"}
    BY <1>7 DEF ConnectActivates, Done, ThreadEnds, ConnectThrows, Closes, Goes, NoHandler,
      HandlerUnchanged, settings, callVars, netVars, attemptVars, managerVars, registryVars
  <2> QED
    BY <2>1, RegisteredBy DEF Goal, Coming
<1>8. ASSUME NEW s \in Session, OnConnectTimeOut(s) PROVE Goal
  <2>1. /\ UNCHANGED <<shared, made, pc, currentaddr, overtaken, attempt, sessions>>
        /\ UNCHANGED service \/ service' \in {"none", "stopped"}
        /\ running'.step \in {"done", "close"}
    BY <1>8 DEF OnConnectTimeOut, ServiceStopped, Goes, HandlerUnchanged, settings, callVars,
      managerVars, registryVars
  <2> QED
    BY <2>1, RegisteredBy DEF Goal, Coming
<1> QED
  BY <1>1, <1>2, <1>3, <1>4, <1>5, <1>6, <1>7, <1>8 DEF ServiceStep

(* A step of the client keeps CurrentInv.                                  *)
LEMMA CurrentStep ==
  ASSUME TypeInv, CurrentInv, [ClientNext]_clientVars
  PROVE  CurrentInv'
<1>1. CASE UNCHANGED clientVars
  BY <1>1 DEF CurrentInv, Coming, Registered, clientVars, programVars, settings, callVars, netVars,
    attemptVars, managerVars, registryVars
<1> QED
  BY <1>1, CurrentProgram, CurrentService DEF ClientNext, Expires

(* Between two calls, Write reaches no session but the one of the last     *)
(* Connect and those whose handlers Disconnect did not wait for.           *)
THEOREM ClientOnlyCurrentSession == ClientSpec => []OnlyCurrentSession
<1>1. CurrentInv => OnlyCurrentSession
  BY DEF CurrentInv, OnlyCurrentSession
<1> QED
  BY <1>1, TypeFirst, TypeStep, CurrentFirst, CurrentStep, PTL DEF ClientSpec

(* The same of the behaviours of MCEndpoints that are a client's: nothing  *)
(* that a server does there touches the client.                            *)
THEOREM EndpointsClientHasCurrentSession == EndpointsSpec => []ClientHasCurrentSession
<1> DEFINE IInv == which = "client" => TypeInv /\ CurrentInv
<1>1. EndpointsInit => IInv
  BY TypeFirst, CurrentFirst DEF EndpointsInit
<1>2. IInv /\ [EndpointsNext]_endpointVars => IInv'
  <2> SUFFICES ASSUME IInv, [EndpointsNext]_endpointVars, which' = "client"
               PROVE  TypeInv' /\ CurrentInv'
    OBVIOUS
  <2>1. which = "client"
    BY DEF EndpointsNext, ServerDoes, ClientDoes, endpointVars
  <2>2. [ClientNext]_clientVars
    <3>1. CASE UNCHANGED endpointVars
      BY <3>1 DEF endpointVars, clientOnly, clientVars, programVars, settings, callVars, netVars, attemptVars
    <3>2. CASE EndpointsNext
      BY <2>1, <3>2 DEF EndpointsNext, ServerDoes, ClientDoes
    <3> QED
      BY <3>1, <3>2
  <2> QED
    BY <2>1, <2>2, TypeStep, CurrentStep
<1>3. IInv => ClientHasCurrentSession
  BY DEF ClientHasCurrentSession, CurrentInv, OnlyCurrentSession
<1> QED
  BY <1>1, <1>2, <1>3, PTL DEF EndpointsSpec

=============================================================================
