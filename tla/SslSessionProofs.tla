-------------------------- MODULE SslSessionProofs --------------------------
(* A session with SSL, for any numbers of writes and pieces read: one      *)
(* thread at a time is in calls of the stream, and the queue of an open    *)
(* session has one buffer under way.                                       *)
EXTENDS SslSession, SequenceTheorems, FunctionTheorems, FiniteSetTheorems, TLAPS

-----------------------------------------------------------------------------
(* Types.                                                                  *)

(* Where threads are, and the calls of the stream among them.              *)
StreamCall == Operation \cup {"InternalShutdown"}
Place ==
  StreamCall \cup
    {"idle", "AddSession", "Open", "OnConnect", "Close", "CloseLock", "OnDisconnect", "CloseEnd", "Write"}

(* What is posted to the strand: calls, and completions.                   *)
Posted == StreamCall \cup {"OnSslHandshake", "OnRead", "OnWrite"}

SslType ==
  /\ svrside \in BOOLEAN /\ m_gotssl \in BOOLEAN /\ made \in BOOLEAN /\ secure \in BOOLEAN
  /\ m_state \in {-1, 0, 1} /\ m_closing \in BOOLEAN /\ isopen \in BOOLEAN /\ registered \in BOOLEAN
  /\ m_writelist \in Int
  /\ strand \in Seq([name : Posted, error : BOOLEAN])
  /\ pending \in [Operation -> Nat]
  /\ pc \in [SslThread -> Place]
  /\ shaken \in {"no", "ok", "failed"} /\ connected \in BOOLEAN
  /\ counts \in [{"enables", "writes", "reads"} -> Nat]

(* Handlers are what can be posted.                                        *)
LEMMA HandlerType ==
  ASSUME NEW name \in Posted, NEW error \in BOOLEAN
  PROVE  Handler(name, error) \in [name : Posted, error : BOOLEAN]
BY DEF Handler

(* A thread goes to a place.                                               *)
LEMMA GoesType ==
  ASSUME SslType, NEW t \in SslThread, NEW l \in Place, Goes(t, l)
  PROVE  /\ pc' \in [SslThread -> Place] /\ pc'[t] = l
         /\ \A u \in SslThread : u # t => pc'[u] = pc[u]
BY DEF SslType, Goes

(* A handler goes to the end of the strand, and the first one leaves it.   *)
LEMMA PostType ==
  ASSUME SslType, NEW name \in Posted, NEW error \in BOOLEAN
  PROVE  /\ Append(strand, Handler(name, error)) \in Seq([name : Posted, error : BOOLEAN])
         /\ strand # <<>> =>
              /\ Tail(strand) \in Seq([name : Posted, error : BOOLEAN])
              /\ Append(Tail(strand), Handler(name, error)) \in Seq([name : Posted, error : BOOLEAN])
<1>1. strand \in Seq([name : Posted, error : BOOLEAN])
  BY DEF SslType
<1> QED
  BY <1>1, HandlerType

(* What a call through the strand, or without it, does.                    *)
LEMMA CarryType ==
  ASSUME SslType, NEW t \in SslThread, NEW op \in StreamCall, NEW l \in Place, Carry(t, op, l)
  PROVE  /\ strand' \in Seq([name : Posted, error : BOOLEAN]) /\ pc' \in [SslThread -> Place]
         /\ pc'[t] = (IF secure THEN l ELSE op)
         /\ \A u \in SslThread : u # t => pc'[u] = pc[u]
         /\ strand' = IF secure THEN Append(strand, Handler(op, FALSE)) ELSE strand
<1>1. op \in Place /\ op \in Posted
  BY DEF Place, Posted
<1>2. CASE secure
  <2>1. Goes(t, l) /\ strand' = Append(strand, Handler(op, FALSE))
    BY <1>2 DEF Carry, ThroughStrand
  <2> QED
    BY <1>1, <1>2, <2>1, GoesType, PostType
<1>3. CASE ~secure
  <2>1. Goes(t, op) /\ strand' = strand
    BY <1>3 DEF Carry, ThroughStrand
  <2> QED
    BY <1>1, <1>3, <2>1, GoesType DEF SslType
<1> QED
  BY <1>2, <1>3 DEF SslType

(* Nothing is made yet.                                                    *)
LEMMA TypeInit == Init => SslType
<1> SUFFICES ASSUME Init PROVE SslType
  OBVIOUS
<1>1. strand \in Seq([name : Posted, error : BOOLEAN]) /\ pending \in [Operation -> Nat]
  BY DEF Init
<1>2. pc \in [SslThread -> Place]
  BY DEF Init, Place
<1>3. counts \in [{"enables", "writes", "reads"} -> Nat]
  BY DEF Init
<1>4. /\ svrside \in BOOLEAN /\ m_gotssl = FALSE /\ made = FALSE /\ secure = FALSE
      /\ m_closing = FALSE /\ isopen = FALSE /\ registered = FALSE /\ connected = FALSE
  BY DEF Init
<1>5. m_state \in {-1, 0, 1} /\ m_writelist \in Int /\ shaken \in {"no", "ok", "failed"}
  BY DEF Init
<1> QED
  BY <1>1, <1>2, <1>3, <1>4, <1>5 DEF SslType

(* What counts goes on.                                                    *)
LEMMA CountedType ==
  ASSUME SslType, NEW what \in {"enables", "writes", "reads"}, Counted(what)
  PROVE  counts' \in [{"enables", "writes", "reads"} -> Nat]
BY DEF SslType, Counted

(* Before the session.                                                     *)
LEMMA MadeType ==
  ASSUME SslType,
         \/ \E given, good \in SUBSET File, needverify \in BOOLEAN : EnableSsl(given, good, needverify)
         \/ NewSession
  PROVE  SslType'
<1>1. CASE NewSession
  <2>1. /\ Goes("opener", "AddSession") /\ secure' \in BOOLEAN
        /\ made' \in BOOLEAN /\ isopen' \in BOOLEAN
        /\ UNCHANGED <<svrside, m_gotssl, m_state, m_closing, registered, m_writelist,
                       strand, pending, shaken, connected, counts>>
    BY <1>1 DEF NewSession, HasSsl, streamVars
  <2>2. pc' \in [SslThread -> Place]
    BY <2>1, GoesType DEF SslThread, Place
  <2> QED
    BY <2>1, <2>2 DEF SslType
<1>2. ASSUME NEW given \in SUBSET File, NEW good \in SUBSET File, NEW needverify \in BOOLEAN,
             EnableSsl(given, good, needverify)
      PROVE  SslType'
  <2>1. /\ Counted("enables") /\ m_gotssl' \in BOOLEAN
        /\ UNCHANGED <<svrside, made, secure, m_state, m_closing, isopen, registered, m_writelist,
                       strand, pending, shaken, pc, connected>>
    BY <1>2 DEF EnableSsl, sessionVars, streamVars
  <2>2. counts' \in [{"enables", "writes", "reads"} -> Nat]
    BY <2>1, CountedType
  <2> QED
    BY <2>1, <2>2 DEF SslType
<1> QED
  BY <1>1, <1>2

(* Open, and Close when it shuts the socket down.                          *)
LEMMA OpenCloseType ==
  ASSUME SslType, NEW t \in SslThread,
         \/ OpenStep \/ AfterConnect(t) \/ CloseShutdown(t) \/ CloseLocked(t) \/ CloseEnd(t)
         \/ CallReturns(t) \/ ShutdownReturns(t)
  PROVE  SslType'
<1>1. CASE OpenAdds
  <2>1. pc' \in [SslThread -> Place]
    BY <1>1, GoesType DEF OpenAdds, SslThread, Place
  <2> QED
    BY <1>1, <2>1 DEF OpenAdds, sslVars, streamVars, SslType
<1>2. CASE Open
  <2>1. pc' \in [SslThread -> Place]
    BY <1>2, GoesType DEF Open, SslThread, Place
  <2>2. strand' \in Seq([name : Posted, error : BOOLEAN])
    BY <1>2, PostType DEF Open, Posted, StreamCall, Operation, SslType
  <2>3. m_state' = 1
    BY <1>2 DEF Open
  <2> QED
    BY <1>2, <2>1, <2>2, <2>3 DEF Open, sslVars, SslType
<1>3. CASE AfterConnect(t)
  <2>1. \/ Carry(t, "Read", "idle")
        \/ UNCHANGED strand /\ Goes(t, "idle")
    BY <1>3 DEF AfterConnect
  <2>2. pc' \in [SslThread -> Place] /\ strand' \in Seq([name : Posted, error : BOOLEAN])
    BY <2>1, CarryType, GoesType DEF StreamCall, Operation, Place, SslType
  <2> QED
    BY <1>3, <2>2 DEF AfterConnect, sslVars, sessionVars, SslType
<1>4. CASE CloseShutdown(t)
  <2>1. pc' \in [SslThread -> Place]
    BY <1>4, GoesType DEF CloseShutdown, Place
  <2> QED
    BY <1>4, <2>1 DEF CloseShutdown, sslVars, sessionVars, streamVars, SslType
<1>5. CASE CloseLocked(t)
  <2>1. pc' \in [SslThread -> Place] /\ strand' \in Seq([name : Posted, error : BOOLEAN])
    BY <1>5, CarryType DEF CloseLocked, StreamCall, Place
  <2> QED
    BY <1>5, <2>1 DEF CloseLocked, sslVars, sessionVars, SslType
<1>6. CASE CloseEnd(t)
  <2>1. pc' \in [SslThread -> Place]
    BY <1>6, GoesType DEF CloseEnd, Place
  <2> QED
    BY <1>6, <2>1 DEF CloseEnd, sslVars, streamVars, SslType
<1>7. CASE CallReturns(t)
  <2>1. pc' \in [SslThread -> Place]
    BY <1>7, GoesType DEF CallReturns, Place
  <2>2. pending' \in [Operation -> Nat]
    BY <1>7 DEF CallReturns, SslType
  <2> QED
    BY <1>7, <2>1, <2>2 DEF CallReturns, sslVars, sessionVars, SslType
<1>8. CASE ShutdownReturns(t)
  <2>1. pc' \in [SslThread -> Place]
    BY <1>8, GoesType DEF ShutdownReturns, Place
  <2> QED
    BY <1>8, <2>1 DEF ShutdownReturns, sslVars, streamVars, SslType
<1> QED
  BY <1>1, <1>2, <1>3, <1>4, <1>5, <1>6, <1>7, <1>8 DEF OpenStep

(* What Close sets first.                                                  *)
LEMMA CloseBeginType ==
  ASSUME SslType, NEW t \in SslThread, NEW rightnow \in BOOLEAN, CloseBegin(t, rightnow)
  PROVE  /\ m_closing' = TRUE /\ pc' \in [SslThread -> Place] /\ pc'[t] \in {"Close", "idle"}
         /\ \A u \in SslThread : u # t => pc'[u] = pc[u]
<1>1. {"Close", "idle"} \subseteq Place
  BY DEF Place
<1> QED
  BY <1>1, GoesType DEF CloseBegin

(* The application, and the network.                                       *)
LEMMA CallersType ==
  ASSUME SslType,
         \/ WriteBegin \/ Write \/ OnReadCloses
         \/ \E rightnow \in BOOLEAN : AppCloses(rightnow)
         \/ \E op \in Operation, error \in BOOLEAN : Completes(op, error)
  PROVE  SslType'
<1>1. CASE WriteBegin
  <2>1. pc' \in [SslThread -> Place]
    BY <1>1, GoesType DEF WriteBegin, SslThread, Place
  <2>2. counts' \in [{"enables", "writes", "reads"} -> Nat]
    BY <1>1, CountedType DEF WriteBegin
  <2> QED
    BY <1>1, <2>1, <2>2 DEF WriteBegin, sslVars, sessionVars, streamVars, SslType
<1>2. CASE Write
  <2>1. \/ Carry("app", "InternalWrite", "idle")
        \/ UNCHANGED strand /\ Goes("app", "idle")
    BY <1>2 DEF Write
  <2>2. pc' \in [SslThread -> Place] /\ strand' \in Seq([name : Posted, error : BOOLEAN])
    BY <2>1, CarryType, GoesType DEF StreamCall, Operation, Place, SslThread, SslType
  <2>3. m_writelist' \in Int
    BY <1>2 DEF Write, SslType
  <2> QED
    BY <1>2, <2>2, <2>3 DEF Write, sslVars, SslType
<1>3. CASE OnReadCloses
  <2>1. pc' \in [SslThread -> Place] /\ m_closing' = TRUE
    BY <1>3, CloseBeginType DEF OnReadCloses, SslThread
  <2> QED
    BY <1>3, <2>1 DEF OnReadCloses, sslVars, streamVars, SslType
<1>4. ASSUME NEW rightnow \in BOOLEAN, AppCloses(rightnow) PROVE SslType'
  <2>1. pc' \in [SslThread -> Place] /\ m_closing' = TRUE
    BY <1>4, CloseBeginType DEF AppCloses, SslThread
  <2> QED
    BY <1>4, <2>1 DEF AppCloses, sslVars, streamVars, SslType
<1>5. ASSUME NEW op \in Operation, NEW error \in BOOLEAN, Completes(op, error) PROVE SslType'
  <2>1. Completion[op] \in Posted
    BY DEF Completion, Operation, Posted
  <2>2. strand' \in Seq([name : Posted, error : BOOLEAN])
    BY <1>5, <2>1, PostType DEF Completes
  <2>3. pending' \in [Operation -> Nat]
    BY <1>5 DEF Completes, SslType
  <2>4. counts' \in [{"enables", "writes", "reads"} -> Nat]
    BY <1>5, CountedType DEF Completes, SslType
  <2>5. shaken' \in {"no", "ok", "failed"}
    BY <1>5 DEF Completes, SslType
  <2> QED
    BY <1>5, <2>2, <2>3, <2>4, <2>5 DEF Completes, sslVars, sessionVars, SslType
<1> QED
  BY <1>1, <1>2, <1>3, <1>4, <1>5

(* The handlers.                                                           *)
LEMMA HandlersType ==
  ASSUME SslType, HandlerStep
  PROVE  SslType'
<1>1. strand # <<>>
  BY DEF HandlerStep, RunPosted, OnSslHandshake, OnRead, OnWrite, Runs
<1>2. Tail(strand) \in Seq([name : Posted, error : BOOLEAN])
  BY <1>1 DEF SslType
<1>3. "io" \in SslThread /\ {"idle", "OnConnect", "Read", "InternalWrite", "SslHandshake", "InternalShutdown"} \subseteq Place
  BY DEF SslThread, Place, StreamCall, Operation
<1>4. ASSUME NEW op \in StreamCall, RunPosted(op) PROVE SslType'
  <2>1. strand' = Tail(strand) /\ UNCHANGED <<sslVars, sessionVars, pending, shaken, connected, counts>>
        /\ Goes("io", IF op \in {"SslHandshake", "Read"} /\ m_state <= 0 THEN "idle" ELSE op)
    BY <1>4 DEF RunPosted
  <2>2. (IF op \in {"SslHandshake", "Read"} /\ m_state <= 0 THEN "idle" ELSE op) \in Place
    BY <1>3 DEF Place
  <2>3. pc' \in [SslThread -> Place]
    BY <1>3, <2>1, <2>2, GoesType
  <2> QED
    BY <1>2, <2>1, <2>3 DEF sslVars, sessionVars, SslType
<1>5. ASSUME NEW error \in BOOLEAN, OnSslHandshake(error) PROVE SslType'
  <2>1. /\ strand' = Tail(strand)
        /\ UNCHANGED <<sslVars, m_state, isopen, registered, m_writelist, pending, shaken, connected, counts>>
        /\ CloseBegin("io", FALSE) \/ (Goes("io", "OnConnect") /\ UNCHANGED m_closing)
    BY <1>5 DEF OnSslHandshake, HandshakeFails
  <2>2. pc' \in [SslThread -> Place] /\ m_closing' \in BOOLEAN
    BY <1>3, <2>1, CloseBeginType, GoesType DEF SslType
  <2> QED
    BY <1>2, <2>1, <2>2 DEF sslVars, SslType
<1>6. ASSUME NEW error \in BOOLEAN, OnRead(error) PROVE SslType'
  <2>1. /\ UNCHANGED <<sslVars, sessionVars, pending, shaken, connected, counts>>
        /\ strand' \in {Tail(strand), Append(Tail(strand), Handler("Read", FALSE))}
        /\ UNCHANGED pc \/ Goes("io", IF m_state > 0 THEN "Read" ELSE "idle")
    BY <1>6 DEF OnRead
  <2>2. strand' \in Seq([name : Posted, error : BOOLEAN])
    BY <1>1, <2>1, PostType DEF Posted, StreamCall, Operation
  <2>3. pc' \in [SslThread -> Place]
    BY <1>3, <2>1, GoesType DEF SslType
  <2> QED
    BY <2>1, <2>2, <2>3 DEF sslVars, sessionVars, SslType
<1>7. ASSUME NEW error \in BOOLEAN, OnWrite(error) PROVE SslType'
  <2>1. /\ UNCHANGED <<sslVars, m_state, isopen, registered, pending, shaken, connected, counts>>
        /\ m_writelist' \in {m_writelist, m_writelist - 1}
        /\ strand' \in {Tail(strand), Append(Tail(strand), Handler("InternalWrite", FALSE))}
        /\ \/ UNCHANGED <<pc, m_closing>>
           \/ Goes("io", "InternalWrite") /\ UNCHANGED m_closing
           \/ CloseBegin("io", TRUE)
    BY <1>7 DEF OnWrite
  <2>2. strand' \in Seq([name : Posted, error : BOOLEAN])
    BY <1>1, <2>1, PostType DEF Posted, StreamCall, Operation
  <2>3. pc' \in [SslThread -> Place] /\ m_closing' \in BOOLEAN
    BY <1>3, <2>1, GoesType, CloseBeginType DEF SslType
  <2>4. m_writelist' \in Int
    BY <2>1 DEF SslType
  <2> QED
    BY <2>1, <2>2, <2>3, <2>4 DEF sslVars, SslType
<1> QED
  BY <1>4, <1>5, <1>6, <1>7 DEF HandlerStep, StreamCall

(* The types after any step.                                               *)
LEMMA TypeNext == SslType /\ [Next]_vars => SslType'
<1> SUFFICES ASSUME SslType, [Next]_vars PROVE SslType'
  OBVIOUS
<1>1. CASE UNCHANGED vars
  BY <1>1 DEF vars, sslVars, sessionVars, streamVars, SslType
<1>2. CASE OpenStep
  BY <1>2, OpenCloseType DEF SslThread
<1> QED
  BY <1>1, <1>2, MadeType, OpenCloseType, CallersType, HandlersType DEF Next, ThreadStep

(* The variables keep their types.                                         *)
THEOREM SslTypeCorrect == Spec => []SslType
BY TypeInit, TypeNext, PTL DEF Spec

-----------------------------------------------------------------------------
(* One thread in the stream.                                               *)

(* Before it is made a session is known to nobody and has nothing under    *)
(* way.                                                                    *)
Unmade ==
  ~made =>
    /\ ~secure /\ ~registered /\ m_state = 0
    /\ \A t \in SslThread : pc[t] = "idle"
    /\ strand = <<>> /\ \A op \in Operation : pending[op] = 0

(* Only the thread that runs the strand makes the calls of an SSL stream.  *)
OnlyIo == secure => \A t \in SslThread \ {"io"} : pc[t] \notin StreamCall

(* Nobody can act on a session that is not made.                           *)
LEMMA UnmadeNext ==
  ASSUME SslType, Unmade, Next
  PROVE  Unmade'
<1>1. CASE made
  <2>1. made'
    BY <1>1 DEF Next, EnableSsl, NewSession, ThreadStep, CallReturns, AfterConnect, CloseShutdown,
                CloseLocked, CloseEnd, ShutdownReturns, OpenStep, OpenAdds, Open, HandlerStep, RunPosted,
                OnSslHandshake, OnRead, OnReadCloses, OnWrite, Completes, WriteBegin, Write, AppCloses, sslVars
  <2> QED
    BY <2>1 DEF Unmade
<1>2. CASE ~made
  <2>1. /\ ~secure /\ ~registered /\ m_state = 0
        /\ \A t \in SslThread : pc[t] = "idle"
        /\ strand = <<>> /\ \A op \in Operation : pending[op] = 0
    BY <1>2 DEF Unmade
  <2>2. \/ \E given, good \in SUBSET File, needverify \in BOOLEAN : EnableSsl(given, good, needverify)
        \/ NewSession
    <3>1. ~OpenStep /\ ~WriteBegin /\ ~Write /\ ~OnReadCloses /\ ~HandlerStep
      BY <2>1 DEF SslThread, OpenStep, OpenAdds, Open, WriteBegin, Write, OnReadCloses, HandlerStep, RunPosted,
                  OnSslHandshake, OnRead, OnWrite, Runs
    <3>2. \A t \in SslThread : ~ThreadStep(t) /\ ~ShutdownReturns(t)
      BY <2>1 DEF ThreadStep, CallReturns, AfterConnect, CloseShutdown, CloseLocked, CloseEnd,
                  ShutdownReturns, Operation
    <3>3. \A op \in Operation, error \in BOOLEAN : ~Completes(op, error)
      BY <2>1 DEF Completes
    <3>4. \A rightnow \in BOOLEAN : ~AppCloses(rightnow)
      BY <2>1 DEF AppCloses
    <3> QED
      BY <3>1, <3>2, <3>3, <3>4 DEF Next
  <2>3. CASE NewSession
    BY <2>3 DEF NewSession, Unmade
  <2>4. CASE \E given, good \in SUBSET File, needverify \in BOOLEAN : EnableSsl(given, good, needverify)
    <3>1. UNCHANGED <<made, secure, registered, m_state, pc, strand, pending>>
      BY <2>4 DEF EnableSsl, sessionVars, streamVars
    <3> QED
      BY <2>1, <3>1 DEF Unmade
  <2> QED
    BY <2>2, <2>3, <2>4
<1> QED
  BY <1>1, <1>2

(* A thread other than the one of the service does not get into a call of  *)
(* an SSL stream: it posts the call.                                       *)
LEMMA OnlyIoNext ==
  ASSUME SslType, Unmade, OnlyIo, Next
  PROVE  OnlyIo'
<1>1. CASE NewSession
  <2>1. Goes("opener", "AddSession") /\ \A t \in SslThread : pc[t] = "idle"
    BY <1>1 DEF NewSession, Unmade
  <2>2. \A t \in SslThread : pc'[t] \in {"AddSession", "idle"}
    BY <2>1 DEF Goes, SslType, SslThread
  <2> QED
    BY <2>2 DEF OnlyIo, StreamCall, Operation
<1> SUFFICES ASSUME ~NewSession PROVE OnlyIo'
  BY <1>1
<1>2. secure' = secure
  BY DEF Next, EnableSsl, ThreadStep, CallReturns, AfterConnect, CloseShutdown,
         CloseLocked, CloseEnd, ShutdownReturns, OpenStep, OpenAdds, Open, HandlerStep, RunPosted,
         OnSslHandshake, OnRead, OnReadCloses, OnWrite, Completes, WriteBegin, Write, AppCloses, sslVars
<1> SUFFICES ASSUME secure PROVE \A t \in SslThread \ {"io"} : pc'[t] \notin StreamCall
  BY <1>2 DEF OnlyIo
<1>3. \A t \in SslThread \ {"io"} : pc[t] \notin StreamCall
  BY DEF OnlyIo
<1>4. {"idle", "Open", "OnConnect", "Close", "CloseLock", "OnDisconnect", "CloseEnd", "Write"} \cap StreamCall = {}
  BY DEF StreamCall, Operation
<1>5. {"idle", "Open", "OnConnect", "Close", "CloseLock", "OnDisconnect", "CloseEnd", "Write"} \subseteq Place
  BY DEF Place
<1>6. ASSUME NEW t \in SslThread,
             pc'[t] \notin StreamCall \/ t = "io", \A u \in SslThread : u # t => pc'[u] = pc[u]
      PROVE  \A u \in SslThread \ {"io"} : pc'[u] \notin StreamCall
  BY <1>3, <1>6
<1>7. CASE UNCHANGED pc
  BY <1>3, <1>7
<1>8. ASSUME NEW t \in SslThread,
             NEW l \in {"idle", "Open", "OnConnect", "Close", "CloseLock", "OnDisconnect", "CloseEnd", "Write"},
             Goes(t, l)
      PROVE  \A u \in SslThread \ {"io"} : pc'[u] \notin StreamCall
  <2>1. pc'[t] = l /\ \A u \in SslThread : u # t => pc'[u] = pc[u]
    BY <1>5, <1>8, GoesType
  <2> QED
    BY <1>4, <1>6, <2>1
<1>9. ASSUME NEW t \in SslThread, NEW op \in StreamCall,
             NEW l \in {"idle", "OnDisconnect"}, Carry(t, op, l)
      PROVE  \A u \in SslThread \ {"io"} : pc'[u] \notin StreamCall
  <2>1. pc'[t] = l /\ \A u \in SslThread : u # t => pc'[u] = pc[u]
    BY <1>5, <1>9, CarryType
  <2> QED
    BY <1>4, <1>6, <2>1
<1>10. ASSUME NEW l \in Place, Goes("io", l) PROVE \A u \in SslThread \ {"io"} : pc'[u] \notin StreamCall
  <2>1. \A u \in SslThread : u # "io" => pc'[u] = pc[u]
    BY <1>10, GoesType DEF SslThread
  <2> QED
    BY <1>3, <2>1
<1>11. CASE \E given, good \in SUBSET File, needverify \in BOOLEAN : EnableSsl(given, good, needverify)
  BY <1>7, <1>11 DEF EnableSsl
<1>12. CASE OpenStep
  <2>1. Goes("opener", "Open") \/ Goes("opener", "idle") \/ Goes("opener", "OnConnect")
    BY <1>12 DEF OpenStep, OpenAdds, Open
  <2> QED
    BY <1>8, <2>1 DEF SslThread
<1>13. ASSUME NEW t \in SslThread, ThreadStep(t) \/ ShutdownReturns(t)
       PROVE  \A u \in SslThread \ {"io"} : pc'[u] \notin StreamCall
  <2>1. \/ \E l \in {"idle", "Open", "OnConnect", "Close", "CloseLock", "OnDisconnect", "CloseEnd", "Write"} : Goes(t, l)
        \/ Carry(t, "Read", "idle") \/ Carry(t, "InternalShutdown", "OnDisconnect")
    BY <1>13 DEF ThreadStep, CallReturns, AfterConnect, CloseShutdown, CloseLocked, CloseEnd, ShutdownReturns
  <2> QED
    BY <1>8, <1>9, <2>1 DEF StreamCall, Operation
<1>14. ASSUME NEW t \in SslThread, NEW rightnow \in BOOLEAN, CloseBegin(t, rightnow)
       PROVE  \A u \in SslThread \ {"io"} : pc'[u] \notin StreamCall
  <2>1. Goes(t, "Close") \/ Goes(t, "idle")
    BY <1>14 DEF CloseBegin
  <2> QED
    BY <1>8, <2>1
<1>15. CASE HandlerStep
  <2>1. \/ \E l \in Place : Goes("io", l)
        \/ UNCHANGED pc
        \/ \E rightnow \in BOOLEAN : CloseBegin("io", rightnow)
    <3>1. {"idle", "OnConnect", "Read", "InternalWrite"} \subseteq Place /\ StreamCall \subseteq Place
      BY DEF Place, StreamCall, Operation
    <3>2. ASSUME NEW op \in StreamCall, RunPosted(op) PROVE \E l \in Place : Goes("io", l)
      <4>1. (IF op \in {"SslHandshake", "Read"} /\ m_state <= 0 THEN "idle" ELSE op) \in Place
        BY <3>1
      <4> QED
        BY <3>2, <4>1 DEF RunPosted
    <3>3. ASSUME NEW error \in BOOLEAN, OnSslHandshake(error)
          PROVE  \E l \in Place : Goes("io", l) \/ CloseBegin("io", FALSE)
      BY <3>1, <3>3 DEF OnSslHandshake, HandshakeFails
    <3>4. ASSUME NEW error \in BOOLEAN, OnRead(error) PROVE (\E l \in Place : Goes("io", l)) \/ UNCHANGED pc
      BY <3>1, <3>4 DEF OnRead
    <3>5. ASSUME NEW error \in BOOLEAN, OnWrite(error)
          PROVE  (\E l \in Place : Goes("io", l)) \/ UNCHANGED pc \/ CloseBegin("io", TRUE)
      BY <3>1, <3>5 DEF OnWrite
    <3> QED
      BY <1>15, <3>2, <3>3, <3>4, <3>5 DEF HandlerStep, StreamCall
  <2> QED
    BY <1>7, <1>10, <1>14, <2>1 DEF SslThread
<1>16. CASE OnReadCloses
  BY <1>14, <1>16 DEF OnReadCloses, SslThread
<1>17. CASE \E op \in Operation, error \in BOOLEAN : Completes(op, error)
  BY <1>7, <1>17 DEF Completes
<1>18. CASE WriteBegin
  BY <1>8, <1>18 DEF WriteBegin, SslThread
<1>19. CASE Write
  <2>1. Carry("app", "InternalWrite", "idle") \/ Goes("app", "idle")
    BY <1>19 DEF Write
  <2> QED
    BY <1>8, <1>9, <2>1 DEF SslThread, StreamCall, Operation
<1>20. CASE \E rightnow \in BOOLEAN : AppCloses(rightnow)
  BY <1>14, <1>20 DEF AppCloses, SslThread
<1> QED
  BY <1>11, <1>12, <1>13, <1>15, <1>16, <1>17, <1>18, <1>19, <1>20 DEF Next

(* A set of threads that has no other than one of them has one at most.    *)
LEMMA AloneCounts == OnlyIo => StreamUsedAlone
<1> SUFFICES ASSUME OnlyIo, secure
             PROVE  Cardinality({t \in SslThread : pc[t] \in StreamCall}) <= 1
  BY DEF StreamUsedAlone, StreamCall
<1>1. {t \in SslThread : pc[t] \in StreamCall} \in SUBSET {"io"}
  BY DEF OnlyIo
<1>2. IsFiniteSet({"io"}) /\ Cardinality({"io"}) = 1
  BY FS_Singleton
<1>3. Cardinality({t \in SslThread : pc[t] \in StreamCall}) <= Cardinality({"io"})
  BY <1>1, <1>2, FS_Subset
<1> QED
  BY <1>2, <1>3

(* What is used alone, in every state.                                     *)
UsedAlone == SslType /\ Unmade /\ OnlyIo

(* No thread is anywhere, and nothing is under way.                        *)
LEMMA UsedAloneInit == Init => UsedAlone
<1> SUFFICES ASSUME Init PROVE Unmade /\ OnlyIo
  BY TypeInit DEF UsedAlone
<1> QED
  BY DEF Init, Unmade, OnlyIo

(* The invariant after any step.                                           *)
LEMMA UsedAloneNext == UsedAlone /\ [Next]_vars => UsedAlone'
<1> SUFFICES ASSUME UsedAlone, [Next]_vars PROVE Unmade' /\ OnlyIo'
  BY TypeNext DEF UsedAlone
<1>1. CASE UNCHANGED vars
  <2>1. UNCHANGED <<made, secure, registered, m_state, pc, strand, pending>>
    BY <1>1 DEF vars, sslVars, sessionVars, streamVars
  <2> QED
    BY <2>1 DEF UsedAlone, Unmade, OnlyIo
<1> QED
  BY <1>1, UnmadeNext, OnlyIoNext DEF UsedAlone

(* No two threads are in calls of an SSL stream (ClientSession.cpp: what   *)
(* goes through m_strand): SSL streams are not thread safe.                *)
THEOREM SslStreamUsedAlone == Spec => []StreamUsedAlone
<1>1. UsedAlone => StreamUsedAlone
  BY AloneCounts DEF UsedAlone
<1> QED
  BY <1>1, UsedAloneInit, UsedAloneNext, PTL DEF Spec

-----------------------------------------------------------------------------
(* The buffers under way are counted on the strand and among the threads.  *)

WriteName == {"InternalWrite", "OnWrite"}
Entry == [name : Posted, error : BOOLEAN]
OnStrand(s) == Cardinality({i \in DOMAIN s : s[i].name \in WriteName})
Callers(p) == Cardinality({t \in SslThread : p[t] = "InternalWrite"})
OneIf(b) == IF b THEN 1 ELSE 0

(* A number of handlers.                                                   *)
LEMMA OnStrandType ==
  ASSUME NEW s \in Seq(Entry)
  PROVE  IsFiniteSet({i \in DOMAIN s : s[i].name \in WriteName}) /\ OnStrand(s) \in Nat
<1>1. IsFiniteSet(1..Len(s)) /\ DOMAIN s = 1..Len(s)
  BY FS_Interval
<1>2. IsFiniteSet({i \in DOMAIN s : s[i].name \in WriteName})
  BY <1>1, FS_Subset
<1> QED
  BY <1>2, FS_CardinalityType DEF OnStrand

(* A handler posted is one more, when it is of a write.                    *)
LEMMA OnStrandAppend ==
  ASSUME NEW s \in Seq(Entry), NEW h \in Entry
  PROVE  OnStrand(Append(s, h)) = OnStrand(s) + OneIf(h.name \in WriteName)
<1> DEFINE W == {i \in DOMAIN s : s[i].name \in WriteName}
<1> DEFINE V == {i \in DOMAIN Append(s, h) : Append(s, h)[i].name \in WriteName}
<1>1. /\ DOMAIN s = 1..Len(s) /\ DOMAIN Append(s, h) = 1..(Len(s) + 1) /\ Len(s) \in Nat
      /\ \A i \in 1..Len(s) : Append(s, h)[i] = s[i]
      /\ Append(s, h)[Len(s) + 1] = h
  OBVIOUS
<1>2. IsFiniteSet(W) /\ Cardinality(W) \in Nat /\ Len(s) + 1 \notin W
  BY <1>1, OnStrandType DEF OnStrand
<1>3. CASE h.name \in WriteName
  <2>1. V = W \cup {Len(s) + 1}
    BY <1>1, <1>3
  <2>2. Cardinality(V) = Cardinality(W) + 1
    BY <1>2, <2>1, FS_AddElement
  <2> QED
    BY <1>3, <2>2 DEF OnStrand, OneIf
<1>4. CASE h.name \notin WriteName
  <2>1. V = W
    BY <1>1, <1>4
  <2> QED
    <3>1. Cardinality(V) = Cardinality(W) /\ OneIf(h.name \in WriteName) = 0
      BY <1>4, <2>1 DEF OneIf
    <3>2. OnStrand(Append(s, h)) = Cardinality(V) /\ OnStrand(s) = Cardinality(W)
      BY DEF OnStrand
    <3> HIDE DEF V, W
    <3> QED
      BY <1>2, <3>1, <3>2
<1> QED
  BY <1>3, <1>4

(* The handler that runs is one less, when it is of a write.               *)
LEMMA OnStrandTail ==
  ASSUME NEW s \in Seq(Entry), s # <<>>
  PROVE  OnStrand(s) = OnStrand(Tail(s)) + OneIf(Head(s).name \in WriteName)
<1> DEFINE W == {i \in DOMAIN s : s[i].name \in WriteName}
<1> DEFINE V == {i \in DOMAIN Tail(s) : Tail(s)[i].name \in WriteName}
<1>1. /\ Len(s) \in Nat /\ Len(s) >= 1 /\ Tail(s) \in Seq(Entry) /\ Head(s) = s[1]
      /\ DOMAIN s = 1..Len(s) /\ DOMAIN Tail(s) = 1..(Len(s) - 1)
      /\ \A i \in 1..(Len(s) - 1) : Tail(s)[i] = s[i + 1]
  OBVIOUS
<1>2. IsFiniteSet(W) /\ IsFiniteSet(V) /\ Cardinality(W) \in Nat
  BY <1>1, OnStrandType DEF OnStrand
<1>3. Cardinality(W \ {1}) = Cardinality(V)
  <2> DEFINE f == [i \in V |-> i + 1]
  <2>1. f \in [V -> W \ {1}]
    BY <1>1
  <2>2. \A a, b \in V : f[a] = f[b] => a = b
    BY <1>1
  <2>3. \A j \in W \ {1} : \E i \in V : f[i] = j
    <3> SUFFICES ASSUME NEW j \in W \ {1} PROVE \E i \in V : f[i] = j
      OBVIOUS
    <3>1. j \in 2..Len(s)
      BY <1>1
    <3>2. j - 1 \in 1..(Len(s) - 1) /\ Tail(s)[j - 1] = s[j]
      BY <1>1, <3>1
    <3>3. j - 1 \in V
      BY <1>1, <3>2
    <3> QED
      BY <3>1, <3>3
  <2>4. f \in Bijection(V, W \ {1})
    BY <2>1, <2>2, <2>3, Fun_IsBij
  <2> QED
    BY <1>2, <2>4, FS_Bijection DEF ExistsBijection
<1>4. Cardinality(W \ {1}) = IF 1 \in W THEN Cardinality(W) - 1 ELSE Cardinality(W)
  BY <1>2, FS_RemoveElement
<1>5. 1 \in W <=> Head(s).name \in WriteName
  BY <1>1
<1>6. OnStrand(s) = Cardinality(W) /\ OnStrand(Tail(s)) = Cardinality(V)
  BY DEF OnStrand
<1> HIDE DEF V, W
<1> QED
  BY <1>2, <1>3, <1>4, <1>5, <1>6 DEF OneIf

(* A thread that goes to a place.                                          *)
LEMMA CallersMove ==
  ASSUME NEW p \in [SslThread -> Place], NEW q \in [SslThread -> Place], NEW t \in SslThread,
         \A u \in SslThread : u # t => q[u] = p[u]
  PROVE  /\ Callers(p) \in Nat
         /\ Callers(q) = Callers(p) + OneIf(q[t] = "InternalWrite") - OneIf(p[t] = "InternalWrite")
<1> DEFINE W == {u \in SslThread : p[u] = "InternalWrite"}
<1> DEFINE V == {u \in SslThread : q[u] = "InternalWrite"}
<1>1. IsFiniteSet(SslThread)
  <2>1. IsFiniteSet({"opener"})
    BY FS_Singleton
  <2>2. IsFiniteSet({"opener"} \cup {"io"})
    BY <2>1, FS_AddElement
  <2>3. IsFiniteSet(({"opener"} \cup {"io"}) \cup {"app"})
    BY <2>2, FS_AddElement
  <2>4. SslThread = ({"opener"} \cup {"io"}) \cup {"app"}
    BY DEF SslThread
  <2> QED
    BY <2>3, <2>4
<1>2. IsFiniteSet(W) /\ IsFiniteSet(V)
  BY <1>1, FS_Subset
<1>3. Cardinality(W) \in Nat /\ Cardinality(V) \in Nat
  BY <1>2, FS_CardinalityType
<1>4. Cardinality(W \ {t}) = Cardinality(W) - OneIf(t \in W)
  <2>1. Cardinality(W \ {t}) = IF t \in W THEN Cardinality(W) - 1 ELSE Cardinality(W)
    BY <1>2, FS_RemoveElement
  <2> HIDE DEF W
  <2> QED
    BY <1>3, <2>1 DEF OneIf
<1>5. Cardinality(V \ {t}) = Cardinality(V) - OneIf(t \in V)
  <2>1. Cardinality(V \ {t}) = IF t \in V THEN Cardinality(V) - 1 ELSE Cardinality(V)
    BY <1>2, FS_RemoveElement
  <2> HIDE DEF V
  <2> QED
    BY <1>3, <2>1 DEF OneIf
<1>6. W \ {t} = V \ {t}
  OBVIOUS
<1>7. Callers(p) = Cardinality(W) /\ Callers(q) = Cardinality(V)
  BY DEF Callers
<1>8. (t \in W <=> p[t] = "InternalWrite") /\ (t \in V <=> q[t] = "InternalWrite")
  OBVIOUS
<1> HIDE DEF W, V
<1>9. OneIf(q[t] = "InternalWrite") \in {0, 1} /\ OneIf(p[t] = "InternalWrite") \in {0, 1}
  BY DEF OneIf
<1>10. Cardinality(V) - OneIf(q[t] = "InternalWrite") = Cardinality(W) - OneIf(p[t] = "InternalWrite")
  <2>1. OneIf(t \in W) = OneIf(p[t] = "InternalWrite") /\ OneIf(t \in V) = OneIf(q[t] = "InternalWrite")
    BY <1>8 DEF OneIf
  <2> QED
    BY <1>4, <1>5, <1>6, <2>1
<1> QED
  BY <1>3, <1>7, <1>9, <1>10

(* What is under way, as the sum of the three.                             *)
LEMMA WritingIs == Writing = OnStrand(strand) + pending["InternalWrite"] + Callers(pc)
BY DEF Writing, OnStrand, Callers, WriteName

(* The three are numbers.                                                  *)
LEMMA SumTypes ==
  ASSUME SslType
  PROVE  OnStrand(strand) \in Nat /\ pending["InternalWrite"] \in Nat /\ Callers(pc) \in Nat /\ Writing \in Nat
<1>1. OnStrand(strand) \in Nat
  BY OnStrandType DEF SslType, Entry
<1>2. pending["InternalWrite"] \in Nat
  BY DEF SslType, Operation
<1>3. Callers(pc) \in Nat
  <2>1. pc \in [SslThread -> Place] /\ "io" \in SslThread
    BY DEF SslType, SslThread
  <2> QED
    BY <2>1, CallersMove
<1> QED
  BY <1>1, <1>2, <1>3, WritingIs

(* A thread moves, and nothing is posted or completes.                     *)
LEMMA MoveCounts ==
  ASSUME SslType, NEW t \in SslThread, NEW l \in Place, Goes(t, l), UNCHANGED <<strand, pending>>
  PROVE  Writing' = Writing + OneIf(l = "InternalWrite") - OneIf(pc[t] = "InternalWrite")
<1>1. /\ pc' \in [SslThread -> Place] /\ pc'[t] = l
      /\ \A u \in SslThread : u # t => pc'[u] = pc[u]
  BY GoesType
<1>2. Callers(pc') = Callers(pc) + OneIf(l = "InternalWrite") - OneIf(pc[t] = "InternalWrite")
  BY <1>1, CallersMove DEF SslType
<1>3. OneIf(l = "InternalWrite") \in {0, 1} /\ OneIf(pc[t] = "InternalWrite") \in {0, 1}
  BY DEF OneIf
<1>4. Writing' = OnStrand(strand) + pending["InternalWrite"] + Callers(pc')
  BY WritingIs DEF Writing, OnStrand, Callers, WriteName
<1> QED
  BY <1>2, <1>3, <1>4, WritingIs, SumTypes

(* A call is made, or posted.                                              *)
LEMMA CarryCounts ==
  ASSUME SslType, NEW t \in SslThread, NEW op \in StreamCall, NEW l \in Place, l # "InternalWrite",
         Carry(t, op, l), UNCHANGED pending
  PROVE  Writing' = Writing + OneIf(op = "InternalWrite") - OneIf(pc[t] = "InternalWrite")
<1>1. op \in Place /\ op \in Posted
  BY DEF Place, Posted
<1>2. CASE ~secure
  <2>1. Goes(t, op) /\ UNCHANGED strand
    BY <1>2 DEF Carry, ThroughStrand
  <2> QED
    BY <1>1, <2>1, MoveCounts
<1>3. CASE secure
  <2>1. Goes(t, l) /\ strand' = Append(strand, Handler(op, FALSE))
    BY <1>3 DEF Carry, ThroughStrand
  <2>2. /\ pc' \in [SslThread -> Place] /\ pc'[t] = l
        /\ \A u \in SslThread : u # t => pc'[u] = pc[u]
    BY <2>1, GoesType
  <2>3. Callers(pc') = Callers(pc) + OneIf(l = "InternalWrite") - OneIf(pc[t] = "InternalWrite")
    BY <2>2, CallersMove DEF SslType
  <2>4. Handler(op, FALSE) \in Entry /\ (Handler(op, FALSE).name \in WriteName <=> op = "InternalWrite")
    BY <1>1, HandlerType DEF Entry, Handler, WriteName, StreamCall, Operation
  <2>5. OnStrand(strand') = OnStrand(strand) + OneIf(op = "InternalWrite")
    <3>1. OnStrand(strand') = OnStrand(strand) + OneIf(Handler(op, FALSE).name \in WriteName)
      BY <2>1, <2>4, OnStrandAppend DEF SslType, Entry
    <3> QED
      BY <2>4, <3>1 DEF OneIf
  <2>6. OneIf(l = "InternalWrite") = 0 /\ OneIf(pc[t] = "InternalWrite") \in {0, 1}
        /\ OneIf(op = "InternalWrite") \in {0, 1}
    BY DEF OneIf
  <2>7. Writing' = OnStrand(strand') + pending["InternalWrite"] + Callers(pc')
    BY WritingIs DEF Writing, OnStrand, Callers, WriteName
  <2> QED
    BY <2>3, <2>5, <2>6, <2>7, WritingIs, SumTypes
<1> QED
  BY <1>2, <1>3

(* What the three add up to when two of them change.                       *)
LEMMA ThreeAdded ==
  ASSUME NEW rest \in Nat, NEW pend \in Nat, NEW calls \in Nat,
         NEW runs \in {0, 1}, NEW posted \in {0, 1}, NEW called \in {0, 1}
  PROVE  (rest + posted) + pend + (calls + called - 0) = ((rest + runs) + pend + calls) - runs + posted + called
OBVIOUS

(* A handler runs on the thread of the service, which was idle, and may    *)
(* post another one.                                                       *)
LEMMA RunCounts ==
  ASSUME SslType, NEW name \in Posted, NEW error \in BOOLEAN, Runs(name, error), UNCHANGED pending,
         NEW next \in Posted, NEW posts \in BOOLEAN,
         posts => strand' = Append(Tail(strand), Handler(next, FALSE)),
         ~posts => strand' = Tail(strand),
         pc' \in [SslThread -> Place], \A u \in SslThread : u # "io" => pc'[u] = pc[u]
  PROVE  Writing' = Writing - OneIf(name \in WriteName) + OneIf(posts /\ next \in WriteName)
                            + OneIf(pc'["io"] = "InternalWrite")
<1>1. strand \in Seq(Entry) /\ strand # <<>> /\ Head(strand).name = name /\ pc["io"] = "idle"
  BY DEF Runs, SslType, Entry, Handler
<1>2. Tail(strand) \in Seq(Entry)
  BY <1>1
<1>3. OnStrand(strand) = OnStrand(Tail(strand)) + OneIf(name \in WriteName)
  BY <1>1, OnStrandTail
<1>4. OnStrand(strand') = OnStrand(Tail(strand)) + OneIf(posts /\ next \in WriteName)
  <2>1. CASE posts
    <3>1. Handler(next, FALSE) \in Entry /\ Handler(next, FALSE).name = next
      BY HandlerType DEF Entry, Handler
    <3>2. OnStrand(strand') = OnStrand(Tail(strand)) + OneIf(next \in WriteName)
      BY <1>2, <2>1, <3>1, OnStrandAppend
    <3> QED
      BY <2>1, <3>2 DEF OneIf
  <2>2. CASE ~posts
    <3>1. OnStrand(strand') = OnStrand(Tail(strand)) /\ OneIf(posts /\ next \in WriteName) = 0
      BY <2>2 DEF OneIf
    <3>2. OnStrand(Tail(strand)) \in Nat
      BY <1>2, OnStrandType
    <3> DEFINE posted == OneIf(posts /\ next \in WriteName)
    <3>3. OnStrand(strand') = OnStrand(Tail(strand)) /\ posted = 0
      BY <3>1
    <3> HIDE DEF posted
    <3>4. OnStrand(strand') = OnStrand(Tail(strand)) + posted
      BY <3>2, <3>3
    <3> QED
      BY <3>4 DEF posted
  <2> QED
    BY <2>1, <2>2
<1>5. Callers(pc') = Callers(pc) + OneIf(pc'["io"] = "InternalWrite") - 0
  <2>1. "io" \in SslThread /\ pc \in [SslThread -> Place]
    BY DEF SslThread, SslType
  <2>2. OneIf(pc["io"] = "InternalWrite") = 0
    BY <1>1 DEF OneIf
  <2> QED
    BY <2>1, <2>2, CallersMove
<1>6. /\ OneIf(name \in WriteName) \in {0, 1} /\ OneIf(posts /\ next \in WriteName) \in {0, 1}
      /\ OneIf(pc'["io"] = "InternalWrite") \in {0, 1}
  BY DEF OneIf
<1>7. OnStrand(Tail(strand)) \in Nat
  BY <1>2, OnStrandType
<1>8. Writing' = OnStrand(strand') + pending["InternalWrite"] + Callers(pc')
  BY WritingIs DEF Writing, OnStrand, Callers, WriteName
<1> DEFINE runs == OneIf(name \in WriteName)
<1> DEFINE posted == OneIf(posts /\ next \in WriteName)
<1> DEFINE called == OneIf(pc'["io"] = "InternalWrite")
<1>9. /\ OnStrand(strand) = OnStrand(Tail(strand)) + runs /\ OnStrand(strand') = OnStrand(Tail(strand)) + posted
      /\ Callers(pc') = Callers(pc) + called - 0 /\ runs \in {0, 1} /\ posted \in {0, 1} /\ called \in {0, 1}
  BY <1>3, <1>4, <1>5, <1>6
<1> HIDE DEF runs, posted, called
<1>10. Writing' = Writing - runs + posted + called
  <2>1. OnStrand(strand) \in Nat /\ pending["InternalWrite"] \in Nat /\ Callers(pc) \in Nat
    BY SumTypes
  <2>2. Writing = OnStrand(strand) + pending["InternalWrite"] + Callers(pc)
    BY WritingIs
  <2>3. Writing' = (OnStrand(Tail(strand)) + posted) + pending["InternalWrite"] + (Callers(pc) + called - 0)
    BY <1>8, <1>9
  <2>4. Writing = (OnStrand(Tail(strand)) + runs) + pending["InternalWrite"] + Callers(pc)
    BY <1>9, <2>2
  <2>5. (OnStrand(Tail(strand)) + posted) + pending["InternalWrite"] + (Callers(pc) + called - 0)
          = ((OnStrand(Tail(strand)) + runs) + pending["InternalWrite"] + Callers(pc)) - runs + posted + called
    <3>1. runs \in {0, 1} /\ posted \in {0, 1} /\ called \in {0, 1}
      BY <1>9
    <3> QED
      BY <1>7, <2>1, <3>1, ThreeAdded
  <2> QED
    BY <2>3, <2>4, <2>5
<1> QED
  BY <1>10 DEF runs, posted, called

(* What is under way stays what it is.                                     *)
LEMMA MovesAside ==
  ASSUME SslType, NEW t \in SslThread, NEW l \in Place, l # "InternalWrite", pc[t] # "InternalWrite",
         Goes(t, l), UNCHANGED <<strand, pending>>
  PROVE  Writing' = Writing
<1>1. Writing' = Writing + OneIf(l = "InternalWrite") - OneIf(pc[t] = "InternalWrite")
  BY MoveCounts
<1>2. OneIf(l = "InternalWrite") = 0 /\ OneIf(pc[t] = "InternalWrite") = 0
  BY DEF OneIf
<1> QED
  BY <1>1, <1>2, SumTypes

(* Another call of the stream.                                             *)
LEMMA CarriesAside ==
  ASSUME SslType, NEW t \in SslThread, NEW op \in StreamCall, op # "InternalWrite",
         NEW l \in Place, l # "InternalWrite", pc[t] # "InternalWrite",
         Carry(t, op, l), UNCHANGED pending
  PROVE  Writing' = Writing
<1>1. Writing' = Writing + OneIf(op = "InternalWrite") - OneIf(pc[t] = "InternalWrite")
  BY CarryCounts
<1>2. OneIf(op = "InternalWrite") = 0 /\ OneIf(pc[t] = "InternalWrite") = 0
  BY DEF OneIf
<1> QED
  BY <1>1, <1>2, SumTypes

(* Opening and closing write nothing.                                      *)
LEMMA OpenCloseWrites ==
  ASSUME SslType, NEW t \in SslThread,
         \/ OpenStep \/ AfterConnect(t) \/ CloseShutdown(t) \/ CloseLocked(t) \/ CloseEnd(t)
         \/ ShutdownReturns(t)
  PROVE  Writing' = Writing
<1>1. /\ {"idle", "Open", "OnConnect", "Close", "CloseLock", "OnDisconnect", "CloseEnd"} \subseteq Place
      /\ {"SslHandshake", "Read", "InternalShutdown"} \subseteq StreamCall
      /\ "opener" \in SslThread
  BY DEF Place, StreamCall, Operation, SslThread
<1>2. CASE OpenAdds
  <2>1. pc["opener"] = "AddSession" /\ Goes("opener", "Open") /\ UNCHANGED <<strand, pending>>
    BY <1>2 DEF OpenAdds, streamVars
  <2> QED
    BY <1>1, <2>1, MovesAside
<1>3. CASE Open
  <2>1. Carry("opener", "SslHandshake", "idle") \/ (UNCHANGED strand /\ Goes("opener", "OnConnect"))
    BY <1>3 DEF Open, Carry
  <2>2. pc["opener"] = "Open" /\ UNCHANGED pending
    BY <1>3 DEF Open
  <2> QED
    BY <1>1, <2>1, <2>2, MovesAside, CarriesAside
<1>4. CASE AfterConnect(t)
  <2>1. Carry(t, "Read", "idle") \/ (UNCHANGED strand /\ Goes(t, "idle"))
    BY <1>4 DEF AfterConnect
  <2>2. pc[t] = "OnConnect" /\ UNCHANGED pending
    BY <1>4 DEF AfterConnect
  <2> QED
    BY <1>1, <2>1, <2>2, MovesAside, CarriesAside
<1>5. CASE CloseShutdown(t)
  <2>1. pc[t] = "Close" /\ (Goes(t, "CloseLock") \/ Goes(t, "CloseEnd")) /\ UNCHANGED <<strand, pending>>
    BY <1>5 DEF CloseShutdown, streamVars
  <2> QED
    BY <1>1, <2>1, MovesAside
<1>6. CASE CloseLocked(t)
  <2>1. pc[t] = "CloseLock" /\ Carry(t, "InternalShutdown", "OnDisconnect") /\ UNCHANGED pending
    BY <1>6 DEF CloseLocked
  <2> QED
    BY <1>1, <2>1, CarriesAside
<1>7. CASE CloseEnd(t)
  <2>1. pc[t] # "InternalWrite" /\ Goes(t, "idle") /\ UNCHANGED <<strand, pending>>
    BY <1>7 DEF CloseEnd, streamVars
  <2> QED
    BY <1>1, <2>1, MovesAside
<1>8. CASE ShutdownReturns(t)
  <2>1. pc[t] = "InternalShutdown" /\ (Goes(t, "idle") \/ Goes(t, "OnDisconnect")) /\ UNCHANGED <<strand, pending>>
    BY <1>8 DEF ShutdownReturns, streamVars
  <2> QED
    BY <1>1, <2>1, MovesAside
<1> QED
  BY <1>2, <1>3, <1>4, <1>5, <1>6, <1>7, <1>8 DEF OpenStep

(* A call that returns leaves its operation with the stream.               *)
LEMMA ReturnWrites ==
  ASSUME SslType, NEW t \in SslThread, CallReturns(t)
  PROVE  Writing' = Writing
<1>1. /\ pc[t] \in Operation /\ Goes(t, "idle") /\ UNCHANGED strand
      /\ pending' = [pending EXCEPT ![pc[t]] = @ + 1]
  BY DEF CallReturns
<1>2. "idle" \in Place
  BY DEF Place
<1>3. CASE pc[t] # "InternalWrite"
  <2>1. pending'["InternalWrite"] = pending["InternalWrite"]
    BY <1>1, <1>3 DEF SslType, Operation
  <2>2. pc' \in [SslThread -> Place] /\ pc'[t] = "idle" /\ \A u \in SslThread : u # t => pc'[u] = pc[u]
    BY <1>1, <1>2, GoesType
  <2>3. Callers(pc') = Callers(pc)
    <3>1. \A u \in SslThread : pc'[u] = "InternalWrite" <=> pc[u] = "InternalWrite"
      BY <1>3, <2>2
    <3> QED
      BY <3>1 DEF Callers
  <2> QED
    BY <1>1, <2>1, <2>3, WritingIs DEF Writing, OnStrand, Callers, WriteName
<1>4. CASE pc[t] = "InternalWrite"
  <2>1. pending'["InternalWrite"] = pending["InternalWrite"] + 1
    BY <1>1, <1>4 DEF SslType, Operation
  <2>2. pc' \in [SslThread -> Place] /\ pc'[t] = "idle" /\ \A u \in SslThread : u # t => pc'[u] = pc[u]
    BY <1>1, <1>2, GoesType
  <2>3. Callers(pc') = Callers(pc) - 1
    <3>1. Callers(pc') = Callers(pc) + OneIf(pc'[t] = "InternalWrite") - OneIf(pc[t] = "InternalWrite")
      BY <2>2, CallersMove DEF SslType
    <3>2. OneIf(pc'[t] = "InternalWrite") = 0 /\ OneIf(pc[t] = "InternalWrite") = 1
      BY <1>4, <2>2 DEF OneIf
    <3> QED
      BY <3>1, <3>2, SumTypes
  <2>4. Writing' = OnStrand(strand) + pending'["InternalWrite"] + Callers(pc')
    BY <1>1 DEF Writing, OnStrand, Callers, WriteName
  <2>5. OnStrand(strand) \in Nat /\ pending["InternalWrite"] \in Nat /\ Callers(pc) \in Nat
    BY SumTypes
  <2> QED
    BY <2>1, <2>3, <2>4, <2>5, WritingIs
<1> QED
  BY <1>3, <1>4

(* An operation that completes leaves the stream for the strand.           *)
LEMMA CompletesWrites ==
  ASSUME SslType, NEW op \in Operation, NEW error \in BOOLEAN, Completes(op, error)
  PROVE  Writing' = Writing
<1>1. /\ pending' = [pending EXCEPT ![op] = @ - 1] /\ UNCHANGED pc
      /\ strand' = Append(strand, Handler(Completion[op], error))
  BY DEF Completes
<1>2. /\ Completion[op] \in Posted
      /\ Completion[op] \in WriteName <=> op = "InternalWrite"
  BY DEF Completion, Operation, Posted, WriteName
<1>3. Handler(Completion[op], error) \in Entry /\ Handler(Completion[op], error).name = Completion[op]
  BY <1>2, HandlerType DEF Entry, Handler
<1>4. OnStrand(strand') = OnStrand(strand) + OneIf(Completion[op] \in WriteName)
  BY <1>1, <1>3, OnStrandAppend DEF SslType, Entry
<1>5. Writing' = OnStrand(strand') + pending'["InternalWrite"] + Callers(pc)
  BY <1>1 DEF Writing, OnStrand, Callers, WriteName
<1>6. OnStrand(strand) \in Nat /\ pending["InternalWrite"] \in Nat /\ Callers(pc) \in Nat
  BY SumTypes
<1>7. Writing = OnStrand(strand) + pending["InternalWrite"] + Callers(pc)
  BY WritingIs
<1>8. CASE op = "InternalWrite"
  <2>1. OneIf(Completion[op] \in WriteName) = 1
    BY <1>2, <1>8 DEF OneIf
  <2>2. pending'["InternalWrite"] = pending["InternalWrite"] - 1
    BY <1>1, <1>8 DEF SslType
  <2>3. OnStrand(strand') = OnStrand(strand) + 1
    BY <1>4, <2>1
  <2> QED
    BY <1>5, <1>6, <1>7, <2>2, <2>3
<1>9. CASE op # "InternalWrite"
  <2>1. OneIf(Completion[op] \in WriteName) = 0
    BY <1>2, <1>9 DEF OneIf
  <2>2. pending'["InternalWrite"] = pending["InternalWrite"]
    BY <1>1, <1>9 DEF SslType, Operation
  <2>3. OnStrand(strand') = OnStrand(strand) + 0
    BY <1>4, <2>1
  <2> QED
    BY <1>5, <1>6, <1>7, <2>2, <2>3
<1> QED
  BY <1>8, <1>9

(* Handlers other than OnWrite: a write that was posted is called.         *)
LEMMA HandlersWrite ==
  ASSUME SslType,
         \/ \E op \in StreamCall : RunPosted(op)
         \/ \E error \in BOOLEAN : OnSslHandshake(error) \/ OnRead(error)
  PROVE  Writing' = Writing
<1>1. /\ "io" \in SslThread /\ "Read" \in Posted /\ StreamCall \subseteq Place /\ StreamCall \subseteq Posted
      /\ {"idle", "OnConnect", "Read"} \subseteq Place
      /\ {"OnSslHandshake", "OnRead"} \subseteq Posted
  BY DEF SslThread, Posted, Place, StreamCall, Operation
<1>2. ASSUME NEW op \in StreamCall, RunPosted(op) PROVE Writing' = Writing
  <2> DEFINE l == IF op \in {"SslHandshake", "Read"} /\ m_state <= 0 THEN "idle" ELSE op
  <2>1. Runs(op, FALSE) /\ strand' = Tail(strand) /\ Goes("io", l) /\ UNCHANGED pending
    BY <1>2 DEF RunPosted
  <2>2. l \in Place
    BY <1>1
  <2>3. pc' \in [SslThread -> Place] /\ pc'["io"] = l /\ \A u \in SslThread : u # "io" => pc'[u] = pc[u]
    BY <1>1, <2>1, <2>2, GoesType
  <2>4. Writing' = Writing - OneIf(op \in WriteName) + OneIf(FALSE /\ "Read" \in WriteName)
                           + OneIf(pc'["io"] = "InternalWrite")
    BY <1>1, <2>1, <2>3, RunCounts
  <2>5. OneIf(FALSE /\ "Read" \in WriteName) = 0
    BY DEF OneIf
  <2>6. pc'["io"] = "InternalWrite" <=> op = "InternalWrite"
    BY <2>3
  <2>7. CASE op = "InternalWrite"
    <3>1. OneIf(op \in WriteName) = 1 /\ OneIf(pc'["io"] = "InternalWrite") = 1
      BY <2>6, <2>7 DEF OneIf, WriteName
    <3>2. Writing' = Writing - 1 + 0 + 1
      BY <2>4, <2>5, <3>1
    <3> QED
      BY <3>2, SumTypes
  <2>8. CASE op # "InternalWrite"
    <3>1. OneIf(op \in WriteName) = 0 /\ OneIf(pc'["io"] = "InternalWrite") = 0
      BY <2>6, <2>8 DEF OneIf, WriteName, StreamCall, Operation
    <3>2. Writing' = Writing - 0 + 0 + 0
      BY <2>4, <2>5, <3>1
    <3> QED
      BY <3>2, SumTypes
  <2> QED
    BY <2>7, <2>8
<1>3. ASSUME NEW name \in {"OnSslHandshake", "OnRead"}, NEW error \in BOOLEAN, Runs(name, error),
             NEW posts \in BOOLEAN, UNCHANGED pending,
             posts => strand' = Append(Tail(strand), Handler("Read", FALSE)),
             ~posts => strand' = Tail(strand),
             pc' \in [SslThread -> Place], pc'["io"] # "InternalWrite",
             \A u \in SslThread : u # "io" => pc'[u] = pc[u]
      PROVE  Writing' = Writing
  <2>1. Writing' = Writing - OneIf(name \in WriteName) + OneIf(posts /\ "Read" \in WriteName)
                           + OneIf(pc'["io"] = "InternalWrite")
    BY <1>1, <1>3, RunCounts
  <2>2. /\ OneIf(name \in WriteName) = 0 /\ OneIf(posts /\ "Read" \in WriteName) = 0
        /\ OneIf(pc'["io"] = "InternalWrite") = 0
    BY <1>3 DEF OneIf, WriteName
  <2>3. Writing' = Writing - 0 + 0 + 0
    BY <2>1, <2>2
  <2> QED
    BY <2>3, SumTypes
<1>4. ASSUME NEW error \in BOOLEAN, OnSslHandshake(error) PROVE Writing' = Writing
  <2>1. /\ Runs("OnSslHandshake", error) /\ strand' = Tail(strand) /\ UNCHANGED pending
        /\ CloseBegin("io", FALSE) \/ Goes("io", "OnConnect")
    BY <1>4 DEF OnSslHandshake, HandshakeFails
  <2>2. pc' \in [SslThread -> Place] /\ pc'["io"] # "InternalWrite" /\ \A u \in SslThread : u # "io" => pc'[u] = pc[u]
    BY <1>1, <2>1, CloseBeginType, GoesType
  <2> QED
    BY <1>3, <2>1, <2>2
<1>5. ASSUME NEW error \in BOOLEAN, OnRead(error) PROVE Writing' = Writing
  <2>1. /\ Runs("OnRead", error) /\ UNCHANGED pending
        /\ secure => strand' = Append(Tail(strand), Handler("Read", FALSE)) /\ UNCHANGED pc
        /\ ~secure => strand' = Tail(strand) /\ (Goes("io", "Read") \/ Goes("io", "idle"))
    BY <1>5 DEF OnRead, ThroughStrand
  <2>2. pc["io"] = "idle" /\ secure \in BOOLEAN /\ pc \in [SslThread -> Place]
    BY <2>1 DEF Runs, SslType
  <2>3. pc' \in [SslThread -> Place] /\ pc'["io"] # "InternalWrite" /\ \A u \in SslThread : u # "io" => pc'[u] = pc[u]
    <3>1. CASE secure
      BY <2>1, <2>2, <3>1
    <3>2. CASE ~secure
      BY <1>1, <2>1, <3>2, GoesType
    <3> QED
      BY <3>1, <3>2
  <2> QED
    BY <1>3, <2>1, <2>2, <2>3
<1> QED
  BY <1>2, <1>4, <1>5

(* The caller of Write begins to write when it found the queue empty.      *)
LEMMA WriteCounts ==
  ASSUME SslType, Write
  PROVE  Writing' = IF m_writelist = 0 THEN Writing + 1 ELSE Writing
<1>1. "app" \in SslThread /\ "InternalWrite" \in StreamCall /\ "idle" \in Place /\ pc["app"] = "Write" /\ UNCHANGED pending
  BY DEF Write, SslThread, StreamCall, Operation, Place
<1>2. CASE m_writelist = 0
  <2>1. Carry("app", "InternalWrite", "idle")
    BY <1>2 DEF Write, StartsWrite
  <2>2. Writing' = Writing + OneIf("InternalWrite" = "InternalWrite") - OneIf(pc["app"] = "InternalWrite")
    BY <1>1, <2>1, CarryCounts
  <2>3. OneIf("InternalWrite" = "InternalWrite") = 1 /\ OneIf(pc["app"] = "InternalWrite") = 0
    BY <1>1 DEF OneIf
  <2>4. Writing' = Writing + 1 - 0
    BY <2>2, <2>3
  <2> QED
    BY <1>2, <2>4, SumTypes
<1>3. CASE m_writelist # 0
  <2>1. UNCHANGED strand /\ Goes("app", "idle")
    BY <1>3 DEF Write, StartsWrite
  <2> QED
    BY <1>1, <1>3, <2>1, MovesAside
<1> QED
  BY <1>2, <1>3

(* A write that completed is followed by the next one of an open session.  *)
LEMMA OnWriteCounts ==
  ASSUME SslType, NEW error \in BOOLEAN, OnWrite(error)
  PROVE  /\ Writing >= 1
         /\ Writing' = IF m_state > 0 /\ m_writelist > 1 THEN Writing ELSE Writing - 1
<1>1. /\ Runs("OnWrite", error) /\ UNCHANGED pending /\ pc["io"] = "idle"
      /\ "OnWrite" \in Posted /\ "InternalWrite" \in Posted /\ "io" \in SslThread
      /\ {"idle", "InternalWrite"} \subseteq Place
  BY DEF OnWrite, Runs, Posted, StreamCall, Operation, SslThread, Place
<1>2. pc \in [SslThread -> Place] /\ secure \in BOOLEAN
  BY DEF SslType
<1>3. Writing >= 1
  <2>1. strand \in Seq(Entry) /\ strand # <<>> /\ Head(strand).name \in WriteName
    BY <1>1 DEF Runs, SslType, Entry, Handler, WriteName
  <2>2. OnStrand(strand) = OnStrand(Tail(strand)) + OneIf(Head(strand).name \in WriteName) /\ Tail(strand) \in Seq(Entry)
    BY <2>1, OnStrandTail
  <2>3. OneIf(Head(strand).name \in WriteName) = 1
    BY <2>1 DEF OneIf
  <2>4. OnStrand(strand) = OnStrand(Tail(strand)) + 1
    BY <2>2, <2>3
  <2>5. OnStrand(Tail(strand)) \in Nat
    BY <2>2, OnStrandType
  <2> QED
    BY <2>4, <2>5, WritingIs, SumTypes
<1>4. OneIf("OnWrite" \in WriteName) = 1
  BY DEF OneIf, WriteName
<1>5. CASE m_state > 0 /\ m_writelist > 1 /\ secure
  <2>1. strand' = Append(Tail(strand), Handler("InternalWrite", FALSE)) /\ UNCHANGED pc
    BY <1>5 DEF OnWrite, ThroughStrand
  <2>2. Writing' = Writing - OneIf("OnWrite" \in WriteName) + OneIf(TRUE /\ "InternalWrite" \in WriteName)
                           + OneIf(pc'["io"] = "InternalWrite")
    BY <1>1, <1>2, <2>1, RunCounts
  <2>3. OneIf(TRUE /\ "InternalWrite" \in WriteName) = 1 /\ OneIf(pc'["io"] = "InternalWrite") = 0
    BY <1>1, <2>1 DEF OneIf, WriteName
  <2>4. Writing' = Writing - 1 + 1 + 0
    BY <1>4, <2>2, <2>3
  <2> QED
    BY <1>3, <1>5, <2>4, SumTypes
<1>6. CASE m_state > 0 /\ m_writelist > 1 /\ ~secure
  <2>1. strand' = Tail(strand) /\ Goes("io", "InternalWrite")
    BY <1>6 DEF OnWrite, ThroughStrand
  <2>2. pc' \in [SslThread -> Place] /\ pc'["io"] = "InternalWrite" /\ \A u \in SslThread : u # "io" => pc'[u] = pc[u]
    BY <1>1, <2>1, GoesType
  <2>3. Writing' = Writing - OneIf("OnWrite" \in WriteName) + OneIf(FALSE /\ "InternalWrite" \in WriteName)
                           + OneIf(pc'["io"] = "InternalWrite")
    BY <1>1, <2>1, <2>2, RunCounts
  <2>4. OneIf(FALSE /\ "InternalWrite" \in WriteName) = 0 /\ OneIf(pc'["io"] = "InternalWrite") = 1
    BY <2>2 DEF OneIf
  <2>5. Writing' = Writing - 1 + 0 + 1
    BY <1>4, <2>3, <2>4
  <2> QED
    BY <1>3, <1>6, <2>5, SumTypes
<1>7. CASE ~(m_state > 0 /\ m_writelist > 1)
  <2>1. strand' = Tail(strand) /\ (UNCHANGED pc \/ CloseBegin("io", TRUE))
    BY <1>7 DEF OnWrite
  <2>2. pc' \in [SslThread -> Place] /\ pc'["io"] # "InternalWrite" /\ \A u \in SslThread : u # "io" => pc'[u] = pc[u]
    <3>1. CASE UNCHANGED pc
      BY <1>1, <1>2, <3>1
    <3>2. CASE CloseBegin("io", TRUE)
      BY <1>1, <3>2, CloseBeginType
    <3> QED
      BY <2>1, <3>1, <3>2
  <2>3. Writing' = Writing - OneIf("OnWrite" \in WriteName) + OneIf(FALSE /\ "InternalWrite" \in WriteName)
                           + OneIf(pc'["io"] = "InternalWrite")
    BY <1>1, <2>1, <2>2, RunCounts
  <2>4. OneIf(FALSE /\ "InternalWrite" \in WriteName) = 0 /\ OneIf(pc'["io"] = "InternalWrite") = 0
    BY <2>2 DEF OneIf
  <2>5. Writing' = Writing - 1 + 0 + 0
    BY <1>4, <2>3, <2>4
  <2>6. Writing' = Writing - 1
    BY <1>3, <2>5, SumTypes
  <2> QED
    BY <1>3, <1>7, <2>6
<1> QED
  BY <1>2, <1>3, <1>5, <1>6, <1>7

-----------------------------------------------------------------------------
(* The queue of an open session.                                           *)

(* Open has not run: nobody can write yet, but the session may be closed   *)
(* already.                                                                *)
NotOpen == ~made \/ pc["opener"] \in {"AddSession", "Open"}

Queue ==
  /\ NotOpen => m_state <= 0 /\ m_writelist = 0 /\ Writing = 0 /\ pc["app"] # "Write"
  /\ m_state > 0 => m_writelist >= 0 /\ Writing = IF m_writelist > 0 THEN 1 ELSE 0

(* A session that is left as it is, or closed, by who writes nothing.      *)
LEMMA QueueStays ==
  ASSUME SslType, Queue, Writing' = Writing, m_writelist' = m_writelist, m_state' \in {m_state, -1},
         NotOpen' => NotOpen, pc'["app"] = "Write" => pc["app"] = "Write" \/ m_state > 0
  PROVE  Queue'
BY DEF SslType, Queue

(* A thread that goes somewhere else than into Open or Write.              *)
LEMMA GoesElsewhere ==
  ASSUME SslType, made' = made, NEW t \in SslThread, NEW l, l \notin {"AddSession", "Open", "Write"},
         pc'[t] = l, \A u \in SslThread : u # t => pc'[u] = pc[u]
  PROVE  (NotOpen' => NotOpen) /\ (pc'["app"] = "Write" => pc["app"] = "Write" \/ m_state > 0)
BY DEF NotOpen, SslThread

(* It may go to one of the other places.                                   *)
LEMMA GoesAside ==
  ASSUME SslType, made' = made, NEW t \in SslThread, NEW l \in Place, l \notin {"AddSession", "Open", "Write"}, Goes(t, l)
  PROVE  (NotOpen' => NotOpen) /\ (pc'["app"] = "Write" => pc["app"] = "Write" \/ m_state > 0)
<1>1. pc'[t] = l /\ \A u \in SslThread : u # t => pc'[u] = pc[u]
  BY GoesType
<1> QED
  BY <1>1, GoesElsewhere

(* Or call the stream.                                                     *)
LEMMA CarriesElsewhere ==
  ASSUME SslType, made' = made, NEW t \in SslThread, NEW op \in StreamCall, NEW l \in Place,
         l \notin {"AddSession", "Open", "Write"}, Carry(t, op, l)
  PROVE  (NotOpen' => NotOpen) /\ (pc'["app"] = "Write" => pc["app"] = "Write" \/ m_state > 0)
<1>1. pc'[t] = (IF secure THEN l ELSE op) /\ \A u \in SslThread : u # t => pc'[u] = pc[u]
  BY CarryType
<1>2. op \notin {"AddSession", "Open", "Write"}
  BY DEF StreamCall, Operation
<1>3. (IF secure THEN l ELSE op) \notin {"AddSession", "Open", "Write"}
  BY <1>2
<1> QED
  BY <1>1, <1>3, GoesElsewhere

(* The session is made, and opened.                                        *)
LEMMA OpenQueue ==
  ASSUME UsedAlone, Queue,
         \/ \E given, good \in SUBSET File, needverify \in BOOLEAN : EnableSsl(given, good, needverify)
         \/ NewSession \/ OpenStep
  PROVE  Queue'
<1>1. SslType /\ Unmade /\ SslType'
  BY TypeNext DEF UsedAlone, Next
<1>2. "opener" \in SslThread /\ "app" \in SslThread /\ {"AddSession", "Open", "OnConnect", "idle"} \subseteq Place
      /\ "SslHandshake" \in StreamCall
  BY DEF SslThread, Place, StreamCall, Operation
<1>3. CASE \E given, good \in SUBSET File, needverify \in BOOLEAN : EnableSsl(given, good, needverify)
  <2>1. UNCHANGED <<made, pc, strand, pending, m_writelist, m_state>>
    BY <1>3 DEF EnableSsl, sessionVars, streamVars
  <2> QED
    BY <2>1 DEF Queue, NotOpen, Writing
<1>4. CASE NewSession
  <2>1. /\ ~made /\ Goes("opener", "AddSession") /\ pc["opener"] = "idle" /\ pc["app"] = "idle"
        /\ UNCHANGED <<strand, pending, m_writelist, m_state>>
    BY <1>1, <1>4 DEF NewSession, streamVars, Unmade, SslThread
  <2>2. pc'["app"] = "idle"
    BY <1>1, <1>2, <2>1, GoesType
  <2>3. Writing' = Writing
    BY <1>1, <1>2, <2>1, MovesAside
  <2>4. m_state <= 0 /\ m_writelist = 0 /\ Writing = 0
    BY <2>1 DEF Queue, NotOpen
  <2> QED
    BY <2>1, <2>2, <2>3, <2>4 DEF Queue
<1>5. CASE OpenStep
  <2>1. Writing' = Writing
    BY <1>1, <1>2, <1>5, OpenCloseWrites
  <2>2. pc["opener"] \in {"AddSession", "Open"} /\ m_writelist' = m_writelist
    BY <1>5 DEF OpenStep, OpenAdds, Open
  <2>3. m_state <= 0 /\ m_writelist = 0 /\ Writing = 0 /\ pc["app"] # "Write"
    BY <2>2 DEF Queue, NotOpen
  <2>4. CASE OpenAdds
    <3>1. Goes("opener", "Open") /\ m_state' = m_state
      BY <2>4 DEF OpenAdds
    <3>2. pc'["app"] = pc["app"]
      BY <1>1, <1>2, <3>1, GoesType
    <3> QED
      BY <2>1, <2>2, <2>3, <3>1, <3>2 DEF Queue
  <2>5. CASE Open
    <3>1. Carry("opener", "SslHandshake", "idle") \/ Goes("opener", "OnConnect")
      BY <2>5 DEF Open, Carry
    <3>2. m_state' = 1 /\ made' = made /\ pc["opener"] = "Open"
      BY <2>5 DEF Open, sslVars
    <3>3. made
      BY <1>1, <1>2, <3>2 DEF Unmade
    <3>4. pc'["opener"] \notin {"AddSession", "Open"}
      <4>1. CASE Goes("opener", "OnConnect")
        BY <1>1, <1>2, <4>1, GoesType
      <4>2. CASE Carry("opener", "SslHandshake", "idle")
        <5>1. pc'["opener"] = (IF secure THEN "idle" ELSE "SslHandshake")
          BY <1>1, <1>2, <4>2, CarryType
        <5> QED
          BY <5>1
      <4> QED
        BY <3>1, <4>1, <4>2
    <3> QED
      BY <2>1, <2>2, <2>3, <3>2, <3>3, <3>4 DEF Queue, NotOpen
  <2> QED
    BY <1>5, <2>4, <2>5 DEF OpenStep
<1> QED
  BY <1>3, <1>4, <1>5

(* Threads that read, close and return, and the network.                   *)
LEMMA OthersQueue ==
  ASSUME SslType, Queue,
         \/ \E t \in SslThread : ThreadStep(t) \/ ShutdownReturns(t)
         \/ \E op \in Operation, error \in BOOLEAN : Completes(op, error)
         \/ OnReadCloses \/ WriteBegin \/ \E rightnow \in BOOLEAN : AppCloses(rightnow)
  PROVE  Queue'
<1>1. /\ "app" \in SslThread /\ "io" \in SslThread
      /\ {"idle", "Close", "OnConnect", "CloseLock", "OnDisconnect", "CloseEnd", "Write"} \subseteq Place
      /\ {"Read", "InternalShutdown"} \subseteq StreamCall
  BY DEF SslThread, Place, StreamCall, Operation
<1>2. ASSUME NEW t \in SslThread, ThreadStep(t) \/ ShutdownReturns(t) PROVE Queue'
  <2>1. Writing' = Writing
    BY <1>2, OpenCloseWrites, ReturnWrites DEF ThreadStep
  <2>2. m_writelist' = m_writelist /\ m_state' \in {m_state, -1} /\ made' = made
    BY <1>2 DEF ThreadStep, CallReturns, AfterConnect, CloseShutdown, CloseLocked, CloseEnd,
                ShutdownReturns, sslVars, sessionVars
  <2>3. \/ \E l \in {"idle", "CloseLock", "CloseEnd", "OnDisconnect"} : Goes(t, l)
        \/ Carry(t, "Read", "idle") \/ Carry(t, "InternalShutdown", "OnDisconnect")
    BY <1>2 DEF ThreadStep, CallReturns, AfterConnect, CloseShutdown, CloseLocked, CloseEnd, ShutdownReturns
  <2>4. (NotOpen' => NotOpen) /\ (pc'["app"] = "Write" => pc["app"] = "Write" \/ m_state > 0)
    <3>1. ASSUME NEW l \in {"idle", "CloseLock", "CloseEnd", "OnDisconnect"}, Goes(t, l)
          PROVE  (NotOpen' => NotOpen) /\ (pc'["app"] = "Write" => pc["app"] = "Write" \/ m_state > 0)
      BY <1>1, <2>2, <3>1, GoesAside
    <3>2. CASE Carry(t, "Read", "idle")
      BY <1>1, <2>2, <3>2, CarriesElsewhere
    <3>3. CASE Carry(t, "InternalShutdown", "OnDisconnect")
      BY <1>1, <2>2, <3>3, CarriesElsewhere
    <3> QED
      BY <2>3, <3>1, <3>2, <3>3
  <2> QED
    BY <2>1, <2>2, <2>4, QueueStays
<1>3. ASSUME NEW op \in Operation, NEW error \in BOOLEAN, Completes(op, error) PROVE Queue'
  <2>1. UNCHANGED <<made, pc, m_writelist, m_state>>
    BY <1>3 DEF Completes, sslVars, sessionVars
  <2>2. Writing' = Writing
    BY <1>3, CompletesWrites
  <2> QED
    BY <2>1, <2>2 DEF Queue, NotOpen
<1>4. ASSUME NEW t \in SslThread, NEW rightnow \in BOOLEAN, CloseBegin(t, rightnow), pc[t] = "idle",
             UNCHANGED <<made, m_writelist, m_state, strand, pending>>
      PROVE  Queue'
  <2>1. Goes(t, "Close") \/ Goes(t, "idle")
    BY <1>4 DEF CloseBegin
  <2>2. Writing' = Writing
    BY <1>1, <1>4, <2>1, MovesAside
  <2>3. (NotOpen' => NotOpen) /\ (pc'["app"] = "Write" => pc["app"] = "Write" \/ m_state > 0)
    BY <1>1, <1>4, <2>1, GoesAside
  <2> QED
    BY <1>4, <2>2, <2>3, QueueStays
<1>5. CASE OnReadCloses
  <2>1. /\ CloseBegin("io", TRUE) /\ pc["io"] = "idle"
        /\ UNCHANGED <<made, m_writelist, m_state, strand, pending>>
    BY <1>5 DEF OnReadCloses, Runs, sslVars, streamVars
  <2> QED
    BY <1>1, <1>4, <2>1
<1>6. ASSUME NEW rightnow \in BOOLEAN, AppCloses(rightnow) PROVE Queue'
  <2>1. /\ CloseBegin("app", rightnow) /\ pc["app"] = "idle"
        /\ UNCHANGED <<made, m_writelist, m_state, strand, pending>>
    BY <1>6 DEF AppCloses, sslVars, streamVars
  <2> QED
    BY <1>1, <1>4, <2>1
<1>7. CASE WriteBegin
  <2>1. /\ pc["app"] = "idle" /\ m_state > 0 /\ Goes("app", "Write")
        /\ UNCHANGED <<made, m_writelist, m_state, strand, pending>>
    BY <1>7 DEF WriteBegin, sslVars, sessionVars, streamVars
  <2>2. Writing' = Writing
    BY <1>1, <2>1, MovesAside
  <2>3. NotOpen' => NotOpen
    <3>1. pc'["opener"] = pc["opener"]
      BY <1>1, <2>1, GoesType DEF SslThread
    <3> QED
      BY <2>1, <3>1 DEF NotOpen
  <2> QED
    BY <2>1, <2>2, <2>3, QueueStays
<1> QED
  BY <1>2, <1>3, <1>5, <1>6, <1>7

(* Handlers: what was written leaves the queue, and the next is begun.     *)
LEMMA HandlersQueue ==
  ASSUME SslType, Queue, HandlerStep
  PROVE  Queue'
<1>1. /\ "io" \in SslThread /\ StreamCall \subseteq Place
      /\ {"idle", "Close", "OnConnect", "Read", "InternalWrite"} \subseteq Place
      /\ StreamCall \cap {"AddSession", "Open", "Write"} = {}
  BY DEF SslThread, Place, StreamCall, Operation
<1>2. ASSUME UNCHANGED pc \/ \E l \in Place \ {"AddSession", "Open", "Write"} : Goes("io", l), made' = made
      PROVE  (NotOpen' => NotOpen) /\ (pc'["app"] = "Write" => pc["app"] = "Write" \/ m_state > 0)
  <2>1. CASE UNCHANGED pc
    BY <1>2, <2>1 DEF NotOpen
  <2>2. ASSUME NEW l \in Place \ {"AddSession", "Open", "Write"}, Goes("io", l)
        PROVE  (NotOpen' => NotOpen) /\ (pc'["app"] = "Write" => pc["app"] = "Write" \/ m_state > 0)
    BY <1>1, <1>2, <2>2, GoesAside
  <2> QED
    BY <1>2, <2>1, <2>2
<1>3. HandlerStep => made' = made /\ m_state' = m_state
  BY DEF HandlerStep, RunPosted, OnSslHandshake, OnRead, OnWrite, sslVars, sessionVars
<1>4. ASSUME NEW op \in StreamCall, RunPosted(op) PROVE Queue'
  <2>1. Writing' = Writing
    BY <1>4, HandlersWrite
  <2>2. m_writelist' = m_writelist
    BY <1>4 DEF RunPosted, sessionVars
  <2>3. \E l \in Place \ {"AddSession", "Open", "Write"} : Goes("io", l)
    <3>1. (IF op \in {"SslHandshake", "Read"} /\ m_state <= 0 THEN "idle" ELSE op) \in Place \ {"AddSession", "Open", "Write"}
      BY <1>1
    <3> QED
      BY <1>4, <3>1 DEF RunPosted
  <2> QED
    BY <1>2, <1>3, <2>1, <2>2, <2>3, QueueStays
<1>5. ASSUME NEW error \in BOOLEAN, OnSslHandshake(error) PROVE Queue'
  <2>1. Writing' = Writing
    BY <1>5, HandlersWrite
  <2>2. m_writelist' = m_writelist
    BY <1>5 DEF OnSslHandshake
  <2>3. Goes("io", "Close") \/ Goes("io", "idle") \/ Goes("io", "OnConnect")
    BY <1>5 DEF OnSslHandshake, HandshakeFails, CloseBegin
  <2> QED
    BY <1>1, <1>2, <1>3, <2>1, <2>2, <2>3, QueueStays
<1>6. ASSUME NEW error \in BOOLEAN, OnRead(error) PROVE Queue'
  <2>1. Writing' = Writing
    BY <1>6, HandlersWrite
  <2>2. m_writelist' = m_writelist
    BY <1>6 DEF OnRead, sessionVars
  <2>3. UNCHANGED pc \/ Goes("io", "Read") \/ Goes("io", "idle")
    BY <1>6 DEF OnRead
  <2> QED
    BY <1>1, <1>2, <1>3, <2>1, <2>2, <2>3, QueueStays
<1>7. ASSUME NEW error \in BOOLEAN, OnWrite(error) PROVE Queue'
  <2>1. Writing >= 1 /\ Writing' = IF m_state > 0 /\ m_writelist > 1 THEN Writing ELSE Writing - 1
    BY <1>7, OnWriteCounts
  <2>2. m_writelist' = IF m_state > 0 THEN m_writelist - 1 ELSE m_writelist
    BY <1>7 DEF OnWrite
  <2>3. UNCHANGED pc \/ Goes("io", "InternalWrite") \/ Goes("io", "Close") \/ Goes("io", "idle")
    BY <1>7 DEF OnWrite, CloseBegin
  <2>4. (NotOpen' => NotOpen)
    BY <1>1, <1>2, <1>3, <2>3
  <2>5. ~NotOpen
    BY <2>1 DEF Queue
  <2>6. Writing \in Nat /\ m_writelist \in Int /\ m_state \in Int
    BY SumTypes DEF SslType
  <2>7. m_state' > 0 => m_writelist' >= 0 /\ Writing' = IF m_writelist' > 0 THEN 1 ELSE 0
    <3> SUFFICES ASSUME m_state > 0 PROVE m_writelist' >= 0 /\ Writing' = IF m_writelist' > 0 THEN 1 ELSE 0
      BY <1>3
    <3>1. m_writelist >= 0 /\ Writing = IF m_writelist > 0 THEN 1 ELSE 0
      BY DEF Queue
    <3>2. m_writelist >= 1 /\ Writing = 1
      BY <2>1, <2>6, <3>1
    <3> HIDE DEF Writing
    <3> QED
      BY <2>1, <2>2, <2>6, <3>2
  <2> QED
    BY <2>4, <2>5, <2>7 DEF Queue
<1> QED
  BY <1>4, <1>5, <1>6, <1>7 DEF HandlerStep, StreamCall

(* Write adds a buffer, and begins when there was none.                    *)
LEMMA WriteQueue ==
  ASSUME SslType, Queue, Write
  PROVE  Queue'
<1>1. Writing' = IF m_writelist = 0 THEN Writing + 1 ELSE Writing
  BY WriteCounts
<1>2. m_writelist' = m_writelist + 1 /\ m_state' = m_state /\ made' = made /\ pc["app"] = "Write"
  BY DEF Write, sslVars
<1>3. Carry("app", "InternalWrite", "idle") \/ Goes("app", "idle")
  BY DEF Write
<1>4. "app" \in SslThread /\ "InternalWrite" \in StreamCall /\ "idle" \in Place
  BY DEF SslThread, StreamCall, Operation, Place
<1>5. NotOpen' => NotOpen
  BY <1>2, <1>3, <1>4, GoesAside, CarriesElsewhere
<1>6. ~NotOpen
  BY <1>2 DEF Queue
<1>7. Writing \in Nat /\ m_writelist \in Int
  BY SumTypes DEF SslType
<1>8. m_state' > 0 => m_writelist' >= 0 /\ Writing' = IF m_writelist' > 0 THEN 1 ELSE 0
  <2> SUFFICES ASSUME m_state > 0 PROVE m_writelist' >= 0 /\ Writing' = IF m_writelist' > 0 THEN 1 ELSE 0
    BY <1>2
  <2>1. m_writelist >= 0 /\ Writing = IF m_writelist > 0 THEN 1 ELSE 0
    BY DEF Queue
  <2> QED
    BY <1>1, <1>2, <1>7, <2>1
<1> QED
  BY <1>5, <1>6, <1>8 DEF Queue

(* No buffer is queued and none under way.                                 *)
LEMMA QueueInit == Init => Queue
<1> SUFFICES ASSUME Init PROVE Queue
  OBVIOUS
<1>1. /\ m_state = 0 /\ m_writelist = 0 /\ pc["app"] = "idle" /\ pending["InternalWrite"] = 0
  BY DEF Init, SslThread, Operation
<1>2. OnStrand(strand) = 0
  <2>1. {i \in DOMAIN strand : strand[i].name \in WriteName} = {}
    BY DEF Init
  <2> QED
    BY <2>1, FS_EmptySet DEF OnStrand
<1>3. Callers(pc) = 0
  <2>1. {t \in SslThread : pc[t] = "InternalWrite"} = {}
    BY DEF Init
  <2> QED
    BY <2>1, FS_EmptySet DEF Callers
<1>4. Writing = 0
  BY <1>1, <1>2, <1>3, WritingIs
<1> QED
  BY <1>1, <1>4 DEF Queue

(* The queue after any step.                                               *)
LEMMA QueueNext == UsedAlone /\ Queue /\ [Next]_vars => Queue'
<1> SUFFICES ASSUME UsedAlone, Queue, [Next]_vars PROVE Queue'
  OBVIOUS
<1>1. CASE UNCHANGED vars
  <2>1. UNCHANGED <<made, pc, strand, pending, m_writelist, m_state>>
    BY <1>1 DEF vars, sslVars, sessionVars, streamVars
  <2> QED
    BY <2>1 DEF Queue, NotOpen, Writing
<1>2. SslType
  BY DEF UsedAlone
<1> QED
  BY <1>1, <1>2, OpenQueue, OthersQueue, HandlersQueue, WriteQueue DEF Next

(* An open session has one buffer of its queue under way if it has any     *)
(* (ClientSession.cpp: Write, and ProcessOutgoingData after a write).      *)
THEOREM SslQueueMoves == Spec => []QueueMoves
<1>1. Queue => QueueMoves
  BY DEF Queue, QueueMoves
<1>2. UsedAlone /\ Queue /\ [Next]_vars => (UsedAlone /\ Queue)'
  BY UsedAloneNext, QueueNext
<1> QED
  BY <1>1, <1>2, UsedAloneInit, QueueInit, PTL DEF Spec
=============================================================================
