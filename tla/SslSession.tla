----------------------------- MODULE SslSession -----------------------------
(***************************************************************************)
(* What SSL changes in a session (ClientSession.cpp, ESN_WITH_SSL).  An    *)
(* SSL stream must be used by one thread at a time: whoever opens, writes  *)
(* or closes posts the call to a strand, which runs it and the completions *)
(* of the stream one after another, while a plain session makes the call   *)
(* itself.  So a session is open, registered and written to while its      *)
(* handshake is under way, and closed before its socket is.  The queue of  *)
(* what was read is left out, it is always empty: see Session.             *)
(***************************************************************************)
EXTENDS Integers, Sequences, FiniteSets

CONSTANTS
  MaxEnables,   (* calls of EnableSsl (bound)                                 *)
  MaxWrites,    (* calls of Write (bound)                                     *)
  MaxReads      (* pieces that arrive (bound)                                 *)

ASSUME SslAssumption == {MaxEnables, MaxWrites, MaxReads} \subseteq Nat

SslThread == {"opener", "io", "app"}
File == {"certificate", "key", "verify"}

VARIABLES
  svrside,
  m_context, m_gotssl,    (* of the server or client                          *)
  made, secure,           (* whether the session is made, and its m_gotssl    *)
  m_state, m_closing, isopen, registered,
  m_writelist,            (* its length                                       *)
  strand,                 (* handlers posted to the strand and not yet run    *)
  pending,                (* how many of each operation the stream has        *)
  pc,                     (* where each thread is                             *)
  shaken,                 (* how the handshake ended                          *)
  connected,              (* whether OnConnect was called                     *)
  counts                  (* what the bounds count                            *)

sslVars == <<svrside, m_context, m_gotssl, made, secure>>
sessionVars == <<m_state, m_closing, isopen, registered, m_writelist>>
streamVars == <<strand, pending, shaken>>
vars == <<sslVars, sessionVars, streamVars, pc, connected, counts>>

Operation == {"SslHandshake", "Read", "InternalWrite"}
Completion == [SslHandshake |-> "OnSslHandshake", Read |-> "OnRead", InternalWrite |-> "OnWrite"]
Handler(name, error) == [name |-> name, error |-> error]

Init ==
  /\ svrside \in BOOLEAN /\ m_context = "none" /\ m_gotssl = FALSE /\ made = FALSE /\ secure = FALSE
  /\ m_state = 0 /\ m_closing = FALSE /\ isopen = FALSE /\ registered = FALSE
  /\ m_writelist = 0 /\ strand = <<>> /\ pending = [op \in Operation |-> 0]
  /\ pc = [t \in SslThread |-> "idle"] /\ shaken = "no" /\ connected = FALSE
  /\ counts = [enables |-> 0, writes |-> 0, reads |-> 0]

Counted(what) == counts' = [counts EXCEPT ![what] = @ + 1]
Goes(t, to) == pc' = [pc EXCEPT ![t] = to]

-----------------------------------------------------------------------------
(* EnableSsl, before there is a session. *)

(* What the server loads: certificate and key always. *)
ServerLoads(given) == {"certificate", "key"} \cup (given \cap {"verify"})

(* What the client loads: what it was given, and needs. *)
ClientLoads(given, needverify) == given \ (IF needverify THEN {} ELSE {"verify"})

(* A file that fails leaves a context and no SSL. *)
EnableSsl(given, good, needverify) ==
  /\ ~made /\ counts.enables < MaxEnables
  /\ m_context' = "made"
  /\ m_gotssl' = ((IF svrside THEN ServerLoads(given) ELSE ClientLoads(given, needverify)) \subseteq good)
  /\ Counted("enables")
  /\ UNCHANGED <<svrside, made, secure, sessionVars, streamVars, pc, connected>>

HasSsl == m_gotssl /\ m_context # "none"

(* StartAccept, or Connect: the session's socket gets connected. *)
NewSession ==
  /\ ~made /\ made' = TRUE /\ secure' = HasSsl /\ isopen' = TRUE /\ Goes("opener", "AddSession")
  /\ UNCHANGED <<svrside, m_context, m_gotssl, m_state, m_closing, registered, m_writelist,
                 streamVars, connected, counts>>

-----------------------------------------------------------------------------
(* Calls of the stream.  A thread is in one while its pc is its name.      *)

(* Fault: the caller makes the call, as on a plain socket. *)
ThroughStrandNever == FALSE

ThroughStrand == secure

Carry(t, op, then) ==
  IF ThroughStrand THEN strand' = Append(strand, Handler(op, FALSE)) /\ Goes(t, then)
  ELSE UNCHANGED strand /\ Goes(t, op)

(* The operation is under way when the call returns. *)
CallReturns(t) ==
  /\ pc[t] \in Operation
  /\ pending' = [pending EXCEPT ![pc[t]] = @ + 1]
  /\ Goes(t, "idle")
  /\ UNCHANGED <<sslVars, sessionVars, strand, shaken, connected, counts>>

(* The stream's shutdown waits for the answer of the peer. *)
ShutdownReturns(t) ==
  /\ pc[t] = "InternalShutdown"
  /\ isopen' = FALSE
  /\ Goes(t, IF secure THEN "idle" ELSE "OnDisconnect")
  /\ UNCHANGED <<sslVars, m_state, m_closing, registered, m_writelist, streamVars, connected, counts>>

(* The peer, or the network.  Once something failed, or the socket is      *)
(* closed, all fails.                                                      *)
Completes(op, error) ==
  /\ pending[op] > 0 /\ (~error => isopen /\ shaken # "failed")
  /\ IF op = "Read" THEN counts.reads < MaxReads /\ Counted("reads") ELSE UNCHANGED counts
  /\ pending' = [pending EXCEPT ![op] = @ - 1]
  /\ strand' = Append(strand, Handler(Completion[op], error))
  /\ shaken' = IF op # "SslHandshake" THEN shaken ELSE IF error THEN "failed" ELSE "ok"
  /\ UNCHANGED <<sslVars, sessionVars, pc, connected>>

-----------------------------------------------------------------------------
(* Open.                                                                   *)

OpenAdds ==
  /\ pc["opener"] = "AddSession" /\ registered' = TRUE
  /\ Goes("opener", "Open")
  /\ UNCHANGED <<sslVars, m_state, m_closing, isopen, m_writelist, streamVars, connected, counts>>

Open ==
  /\ pc["opener"] = "Open" /\ m_state' = 1
  /\ IF ThroughStrand
     THEN strand' = Append(strand, Handler("SslHandshake", FALSE)) /\ Goes("opener", "idle")
     ELSE UNCHANGED strand /\ Goes("opener", "OnConnect")
  /\ UNCHANGED <<sslVars, m_closing, isopen, registered, m_writelist, pending, shaken, connected, counts>>

(* OnConnect returned; it was called whatever became of the session. *)
AfterConnect(t) ==
  /\ pc[t] = "OnConnect" /\ connected' = TRUE
  /\ IF m_state > 0 /\ ~m_closing THEN Carry(t, "Read", "idle") ELSE UNCHANGED strand /\ Goes(t, "idle")
  /\ UNCHANGED <<sslVars, sessionVars, pending, shaken, counts>>

-----------------------------------------------------------------------------
(* Close.  m_closingmutex is held over the shutdown and OnDisconnect.      *)

ClosingFree(t) ==
  \A u \in SslThread \ {t} :
    /\ pc[u] # "OnDisconnect"
    /\ ~secure => pc[u] # "InternalShutdown"

CloseBegin(t, rightnow) ==
  /\ m_closing' = TRUE
  /\ Goes(t, IF rightnow \/ m_writelist = 0 THEN "Close" ELSE "idle")

CloseShutdown(t) ==
  /\ pc[t] = "Close"
  /\ IF m_state > 0 /\ isopen THEN Goes(t, "CloseLock") ELSE Goes(t, "CloseEnd")
  /\ UNCHANGED <<sslVars, sessionVars, streamVars, connected, counts>>

CloseLocked(t) ==
  /\ pc[t] = "CloseLock" /\ ClosingFree(t)
  /\ Carry(t, "InternalShutdown", "OnDisconnect")
  /\ UNCHANGED <<sslVars, sessionVars, pending, shaken, connected, counts>>

CloseEnd(t) ==
  /\ pc[t] \in {"OnDisconnect", "CloseEnd"}
  /\ m_state' = -1 /\ registered' = FALSE /\ Goes(t, "idle")
  /\ UNCHANGED <<sslVars, m_closing, isopen, m_writelist, streamVars, connected, counts>>

(* The application closes what it finds in the manager. *)
AppCloses(rightnow) ==
  /\ pc["app"] = "idle" /\ registered /\ CloseBegin("app", rightnow)
  /\ UNCHANGED <<sslVars, m_state, isopen, registered, m_writelist, streamVars, connected, counts>>

-----------------------------------------------------------------------------
(* Write, also by Broadcast to sessions whose handshake is under way.      *)

WriteFree == \A u \in SslThread : secure \/ pc[u] # "InternalWrite"

WriteBegin ==
  /\ pc["app"] = "idle" /\ registered /\ m_state > 0 /\ ~m_closing
  /\ counts.writes < MaxWrites /\ Counted("writes")
  /\ Goes("app", "Write")
  /\ UNCHANGED <<sslVars, sessionVars, streamVars, connected>>

(* Fault: emptiness is tested after the buffer was added. *)
StartsWriteLate == m_writelist + 1 = 0

StartsWrite == m_writelist = 0

Write ==
  /\ pc["app"] = "Write" /\ WriteFree
  /\ m_writelist' = m_writelist + 1
  /\ IF StartsWrite THEN Carry("app", "InternalWrite", "idle") ELSE UNCHANGED strand /\ Goes("app", "idle")
  /\ UNCHANGED <<sslVars, m_state, m_closing, isopen, registered, pending, shaken, connected, counts>>

-----------------------------------------------------------------------------
(* Handlers, on the thread of the service.                                 *)

Runs(name, error) ==
  /\ pc["io"] = "idle" /\ strand # <<>> /\ Head(strand) = Handler(name, error)

(* What was posted: the handshake and Read do nothing once it is closed.   *)
RunPosted(op) ==
  /\ Runs(op, FALSE) /\ strand' = Tail(strand)
  /\ Goes("io", IF op \in {"SslHandshake", "Read"} /\ m_state <= 0 THEN "idle" ELSE op)
  /\ UNCHANGED <<sslVars, sessionVars, pending, shaken, connected, counts>>

(* Fault: a session whose handshake failed is not closed. *)
HandshakeFailsOpen == Goes("io", "idle") /\ UNCHANGED m_closing

HandshakeFails == CloseBegin("io", FALSE)

OnSslHandshake(error) ==
  /\ Runs("OnSslHandshake", error) /\ strand' = Tail(strand)
  /\ IF error THEN HandshakeFails ELSE Goes("io", "OnConnect") /\ UNCHANGED m_closing
  /\ UNCHANGED <<sslVars, m_state, isopen, registered, m_writelist, pending, shaken, connected, counts>>

(* After OnRead, or OnError, which may close, reading goes on. *)
OnRead(error) ==
  /\ Runs("OnRead", error)
  /\ IF ThroughStrand
     THEN strand' = Append(Tail(strand), Handler("Read", FALSE)) /\ UNCHANGED pc
     ELSE strand' = Tail(strand) /\ Goes("io", IF m_state > 0 THEN "Read" ELSE "idle")
  /\ UNCHANGED <<sslVars, sessionVars, pending, shaken, connected, counts>>

OnReadCloses ==
  /\ Runs("OnRead", TRUE) /\ ~m_closing /\ CloseBegin("io", TRUE)
  /\ UNCHANGED <<sslVars, m_state, isopen, registered, m_writelist, streamVars, connected, counts>>

(* ProcessOutgoingData, with or without an error. *)
OnWrite(error) ==
  /\ Runs("OnWrite", error) /\ WriteFree
  /\ IF m_state > 0
     THEN /\ m_writelist' = m_writelist - 1
          /\ IF m_writelist > 1 THEN
               /\ UNCHANGED m_closing
               /\ IF ThroughStrand
                  THEN strand' = Append(Tail(strand), Handler("InternalWrite", FALSE)) /\ UNCHANGED pc
                  ELSE strand' = Tail(strand) /\ Goes("io", "InternalWrite")
             ELSE /\ strand' = Tail(strand)
                  /\ IF m_closing THEN CloseBegin("io", TRUE) ELSE UNCHANGED <<pc, m_closing>>
     ELSE strand' = Tail(strand) /\ UNCHANGED <<pc, m_writelist, m_closing>>
  /\ UNCHANGED <<sslVars, m_state, isopen, registered, pending, shaken, connected, counts>>

-----------------------------------------------------------------------------
ThreadStep(t) ==
  CallReturns(t) \/ AfterConnect(t) \/ CloseShutdown(t) \/ CloseLocked(t) \/ CloseEnd(t)

OpenStep == OpenAdds \/ Open
HandlerStep ==
  \/ \E op \in Operation \cup {"InternalShutdown"} : RunPosted(op)
  \/ \E error \in BOOLEAN : OnSslHandshake(error) \/ OnRead(error) \/ OnWrite(error)

Next ==
  \/ \E given, good \in SUBSET File, needverify \in BOOLEAN : EnableSsl(given, good, needverify)
  \/ NewSession \/ OpenStep \/ HandlerStep \/ OnReadCloses
  \/ \E t \in SslThread : ThreadStep(t) \/ ShutdownReturns(t)
  \/ \E op \in Operation, error \in BOOLEAN : Completes(op, error)
  \/ WriteBegin \/ Write \/ \E rightnow \in BOOLEAN : AppCloses(rightnow)

Aborts == (shaken = "failed" \/ ~isopen) /\ \E op \in Operation : Completes(op, TRUE)

(* Threads run, and what was aborted completes.  The peer may keep silent, *)
(* in the handshake and in the shutdown.                                   *)
Fairness ==
  /\ \A t \in SslThread : WF_vars(ThreadStep(t))
  /\ WF_vars(OpenStep) /\ WF_vars(Write) /\ WF_vars(HandlerStep) /\ WF_vars(Aborts)

Spec == Init /\ [][Next]_vars /\ Fairness

-----------------------------------------------------------------------------
(* Whoever opens, writes, reads or closes, no two threads are in calls of  *)
(* an SSL stream at once: every use goes through the strand.               *)
StreamUsedAlone ==
  secure =>
    Cardinality({t \in SslThread : pc[t] \in Operation \cup {"InternalShutdown"}}) <= 1

Writing ==
  Cardinality({i \in DOMAIN strand : strand[i].name \in {"InternalWrite", "OnWrite"}})
  + pending["InternalWrite"] + Cardinality({t \in SslThread : pc[t] = "InternalWrite"})

(* While a session is open its queue has one buffer under way if it has    *)
(* any, on the strand or in the stream: writes do not overlap, the queue   *)
(* never stands still, and no write finds it empty.                        *)
QueueMoves == m_state > 0 => Writing = IF m_writelist > 0 THEN 1 ELSE 0

(* A handshake that ended has OnConnect called, or the session removed: it *)
(* is, if the handshake failed, even when buffers were queued meanwhile.   *)
HandshakeResolved ==
  /\ shaken = "ok" ~> connected \/ ~registered
  /\ shaken = "failed" ~> ~registered
=============================================================================
