------------------------------ MODULE Session ------------------------------
(***************************************************************************)
(* One connection of src/src/ClientSession.cpp: the queue of messages read *)
(* and not yet handled, the queue of messages to send, and Open, Write and *)
(* Close, called by the thread of the IO service, by the worker threads    *)
(* that handle messages and by threads of the application.                 *)
(*                                                                         *)
(* The IO service has one thread (IoService.cpp), so the completions       *)
(* OnRead and OnWrite of a session never overlap; Open is called by that   *)
(* thread (Client::OnConnect) or by another (Server::OnAccept, on the      *)
(* thread that listens).  A worker takes a task AddWorkTask was given;     *)
(* that the pool runs it is the promise of TaskPool.                       *)
(* MessageHandler is the handler: OnRead and OnWrite handle a message in   *)
(* place ("sync"), give it to the pool and let the next one come           *)
(* ("concurrent"), or give it to the pool and wait for it ("orderly"), and *)
(* OnError closes the session.                                             *)
(*                                                                         *)
(* A step is one critical section, or one unlocked access to shared state. *)
(* A mutex held across steps is in "owner".  Buffers, idle times, SSL and  *)
(* the split of bytes into messages are left out.                          *)
(***************************************************************************)
EXTENDS Integers, Sequences, FiniteSets

CONSTANTS
  Io,            (* the thread of the IO service                             *)
  Opener,        (* the thread that opens the session, Io or another         *)
  Worker,        (* the worker threads of the pool                           *)
  Writer,        (* application threads that call Write once                 *)
  Closer,        (* application threads that call Close once                 *)
  Nobody,        (* the owner of a mutex that is free                        *)
  Incoming,      (* how many messages the peer may send (bound)              *)
  MaxRead,       (* m_maxreadqueuesize, 0 for none                           *)
  MaxWrite,      (* m_maxwritequeuesize, 0 for none                          *)
  OrderlyRead,   (* m_orderlyhandlingread                                    *)
  OrderlyWrite,  (* m_orderlyhandlingwrite                                   *)
  ReadKinds,     (* how OnRead may handle a message                          *)
  HandlerCalls,  (* what the application may call while it handles one       *)
  CloseCalls,    (* how a Closer calls: "close" gracefully, "closenow"       *)
  Failures       (* TRUE: reads and writes of an open connection may fail    *)

Application == Writer \cup Closer
Thread == {Io, Opener} \cup Worker \cup Application

ASSUME SessionAssumption ==
  /\ Nobody \notin Thread
  /\ {Io, Opener} \cap (Worker \cup Application) = {} /\ Worker \cap Application = {}
  /\ Writer \cap Closer = {}
  /\ Incoming \in Nat /\ MaxRead \in Nat /\ MaxWrite \in Nat
  /\ OrderlyRead \in BOOLEAN /\ OrderlyWrite \in BOOLEAN /\ Failures \in BOOLEAN
  /\ ReadKinds \subseteq {"sync", "concurrent", "orderly"}
  /\ "orderly" \in ReadKinds => OrderlyRead
  /\ HandlerCalls \subseteq {"none", "write", "close", "closenow"}
  /\ "none" \in HandlerCalls
  /\ CloseCalls \subseteq {"close", "closenow"}

(* Messages read are numbered as they arrive.  A message to send is named  *)
(* by what it answers: the message read (0: the new connection) or, for a  *)
(* Writer, its thread.                                                     *)
InMessage == 1 .. Incoming
OutMessage == (0 .. Incoming) \cup Writer

Lock == {"write", "read", "processread", "processwrite", "closing"}

VARIABLES
  state,       (* m_state: 0 new, 1 open, -1 closed                         *)
  closing,     (* m_closing                                                  *)
  socket,      (* is_open() of the socket                                    *)
  registered,  (* the SessionManager holds the session                       *)
  readlist,    (* m_readlist                                                 *)
  writelist,   (* m_writelist                                                *)
  readevents,  (* m_asyncreadevents                                          *)
  writeevents, (* m_asyncwriteevents                                         *)
  owner,       (* who holds each mutex                                       *)
  reading,     (* the async_read_some under way: "none", "live" or "dead"    *)
  writing,     (* the async_writes under way, each live or not               *)
  arrived,     (* messages received ...                                      *)
  batch,       (* ... the last of which OnRead is about to queue             *)
  jobs,        (* the tasks of this session the pool has not started         *)
  pc, ret,     (* of each thread: where it is, where its call returns to     *)
  msg, last,   (* of each thread: taskdata, and emptyreadlist                *)
  begun,       (* history: messages in the order OnRead was called for them  *)
  accepted,    (* history: messages in the order they were queued to send    *)
  started,     (* history: messages in the order their async_write began     *)
  finished,    (* history: how many async_writes ended                       *)
  disconnects  (* history: how often OnDisconnect was called                 *)

sessionVars == <<state, closing, socket, registered>>
readVars == <<readlist, readevents, begun>>
writeVars == <<writelist, writeevents, writing, accepted, started, finished>>
netVars == <<reading, arrived, batch>>
threadVars == <<pc, ret, msg, last>>
vars == <<sessionVars, readVars, writeVars, netVars, threadVars, owner, jobs, disconnects>>

-----------------------------------------------------------------------------
(* Control flow and mutexes. *)

At(t, l) == pc[t] = l
Goto(t, l) == pc' = [pc EXCEPT ![t] = l] /\ UNCHANGED ret
Call(t, l, r) == pc' = [pc EXCEPT ![t] = l] /\ ret' = [ret EXCEPT ![t] = r]
Return(t) == Goto(t, ret[t])

(* The application may make one call of its choice, then go on at r. *)
MayCall(t, r) ==
  \E c \in HandlerCalls : IF c = "none" THEN Call(t, r, r) ELSE Call(t, c, r)

Free(l) == owner[l] = Nobody
Acquire(t, l) == Free(l) /\ owner' = [owner EXCEPT ![l] = t]
Release(ls) == owner' = [l \in Lock |-> IF l \in ls THEN Nobody ELSE owner[l]]

(* Without orderly handling m_readlist is used without its mutex. *)
ReadListFree == OrderlyRead => Free("read")

(* Where the caller of ProcessIncomingData and of ProcessOutgoingData goes *)
(* on: OnRead ends with Read(), a worker is done with its task.            *)
AfterIncoming(t) == IF t = Io THEN "startread" ELSE "idle"
AfterOutgoing == "idle"

(* InternalWrite: async_write of the message in front. *)
StartWrite(m) ==
  /\ writing' = Append(writing, [message |-> m, live |-> socket])
  /\ started' = Append(started, m)

Init ==
  /\ state = 0 /\ closing = FALSE /\ socket = TRUE /\ registered = FALSE
  /\ readlist = <<>> /\ writelist = <<>>
  /\ readevents = 0 /\ writeevents = 0
  /\ owner = [l \in Lock |-> Nobody]
  /\ reading = "none" /\ writing = <<>>
  /\ arrived = 0 /\ batch = 0
  /\ jobs = {}
  /\ pc = [t \in Thread |-> IF t = Opener THEN "open"
                            ELSE IF t \in Application THEN "ready" ELSE "idle"]
  /\ ret = [t \in Thread |-> "idle"]
  /\ msg = [t \in Thread |-> IF t \in Writer THEN t ELSE 0]
  /\ last = [t \in Thread |-> FALSE]
  /\ begun = <<>> /\ accepted = <<>> /\ started = <<>> /\ finished = 0
  /\ disconnects = 0

-----------------------------------------------------------------------------
(* Open and AfterConnect. *)

OpenRegister ==
  /\ At(Opener, "open")
  /\ registered' = TRUE
  /\ Goto(Opener, "activate")
  /\ UNCHANGED <<state, closing, socket, readVars, writeVars, netVars, msg, last,
                 owner, jobs, disconnects>>

(* The counters of events are reset too. *)
OpenActivate ==
  /\ At(Opener, "activate")
  /\ state' = 1
  /\ readevents' = 0 /\ writeevents' = 0
  /\ Goto(Opener, "onconnect")
  /\ UNCHANGED <<closing, socket, registered, readlist, begun, writelist, writing,
                 accepted, started, finished, netVars, msg, last, owner, jobs, disconnects>>

OpenConnect ==
  /\ At(Opener, "onconnect")
  /\ MayCall(Opener, "connected")
  /\ UNCHANGED <<sessionVars, readVars, writeVars, netVars, msg, last, owner, jobs, disconnects>>

OpenConnected ==
  /\ At(Opener, "connected")
  /\ Goto(Opener, IF state > 0 /\ ~closing THEN "startread" ELSE "idle")
  /\ UNCHANGED <<sessionVars, readVars, writeVars, netVars, msg, last, owner, jobs, disconnects>>

Open == OpenRegister \/ OpenActivate \/ OpenConnect \/ OpenConnected

(* Read, at the end of Open and of OnRead. *)
Read(t) ==
  /\ At(t, "startread")
  /\ reading' = IF state <= 0 THEN "none" ELSE IF socket THEN "live" ELSE "dead"
  /\ Goto(t, "idle")
  /\ UNCHANGED <<sessionVars, readVars, writeVars, arrived, batch, msg, last,
                 owner, jobs, disconnects>>

-----------------------------------------------------------------------------
(* Write, on thread t. *)

WriteCheck(t) ==
  /\ At(t, "write")
  /\ IF state <= 0 \/ closing THEN Return(t)
     ELSE Goto(t, IF MaxWrite > 0 THEN "room" ELSE "push")
  /\ UNCHANGED <<sessionVars, readVars, writeVars, netVars, msg, last, owner, jobs, disconnects>>

(* The queue is measured in a critical section of its own; when it is full *)
(* OnError closes the session, and Write returns.                          *)
WriteRoom(t) ==
  /\ At(t, "room") /\ Free("write")
  /\ Goto(t, IF Len(writelist) >= MaxWrite THEN "closenow" ELSE "push")
  /\ UNCHANGED <<sessionVars, readVars, writeVars, netVars, msg, last, owner, jobs, disconnects>>

(* Fault: the write is started whether or not another is under way. *)
WritePushAlways(t) ==
  /\ At(t, "push") /\ Free("write")
  /\ writelist' = Append(writelist, msg[t])
  /\ accepted' = Append(accepted, msg[t])
  /\ StartWrite(msg[t])
  /\ Return(t)
  /\ UNCHANGED <<sessionVars, readVars, writeevents, finished, netVars, msg, last,
                 owner, jobs, disconnects>>

WritePush(t) ==
  /\ At(t, "push") /\ Free("write")
  /\ writelist' = Append(writelist, msg[t])
  /\ accepted' = Append(accepted, msg[t])
  /\ IF writelist = <<>> THEN StartWrite(msg[t]) ELSE UNCHANGED <<writing, started>>
  /\ Return(t)
  /\ UNCHANGED <<sessionVars, readVars, writeevents, finished, netVars, msg, last,
                 owner, jobs, disconnects>>

Write(t) == WriteCheck(t) \/ WriteRoom(t) \/ WritePush(t)

-----------------------------------------------------------------------------
(* Close, on thread t: "close" is Close(false), "closenow" Close(true). *)

closeUnchanged == <<readlist, begun, writelist, writing, accepted, started, finished,
                    netVars, msg, last, jobs>>

CloseGently(t) ==
  /\ At(t, "close") /\ Acquire(t, "write")
  /\ Goto(t, "closeread")
  /\ UNCHANGED <<sessionVars, readevents, writeevents, closeUnchanged, disconnects>>

CloseWhenEmpty(t) ==
  /\ At(t, "closeread") /\ Free("read")
  /\ Release({"write"})
  /\ \/ /\ writelist = <<>> /\ readlist = <<>>
        /\ Goto(t, "closenow")
        /\ UNCHANGED closing
     \/ /\ writelist # <<>> \/ readlist # <<>>
        /\ closing' = TRUE
        /\ Return(t)
  /\ UNCHANGED <<state, socket, registered, readevents, writeevents, closeUnchanged, disconnects>>

CloseNow(t) ==
  /\ At(t, "closenow")
  /\ closing' = TRUE
  /\ Goto(t, "closetest")
  /\ UNCHANGED <<state, socket, registered, readevents, writeevents, closeUnchanged,
                 owner, disconnects>>

CloseTest(t) ==
  /\ At(t, "closetest")
  /\ Goto(t, IF state > 0 /\ socket THEN "shutdown" ELSE "closed")
  /\ UNCHANGED <<sessionVars, readevents, writeevents, closeUnchanged, owner, disconnects>>

CloseShutdown(t) ==
  /\ At(t, "shutdown") /\ Acquire(t, "closing")
  /\ socket' = FALSE
  /\ Goto(t, "disconnect")
  /\ UNCHANGED <<state, closing, registered, readevents, writeevents, closeUnchanged, disconnects>>

(* Fault: Close returns as soon as OnDisconnect has. *)
CloseHalfway(t) ==
  /\ At(t, "disconnect") /\ Release({"closing"})
  /\ disconnects' = disconnects + 1
  /\ Return(t)
  /\ UNCHANGED <<sessionVars, readevents, writeevents, closeUnchanged>>

CloseDisconnect(t) ==
  /\ At(t, "disconnect") /\ Release({"closing"})
  /\ disconnects' = disconnects + 1
  /\ Goto(t, "closed")
  /\ UNCHANGED <<sessionVars, readevents, writeevents, closeUnchanged>>

CloseState(t) ==
  /\ At(t, "closed")
  /\ state' = -1
  /\ readevents' = 0 /\ writeevents' = 0
  /\ Goto(t, "unregister")
  /\ UNCHANGED <<closing, socket, registered, closeUnchanged, owner, disconnects>>

CloseUnregister(t) ==
  /\ At(t, "unregister")
  /\ registered' = FALSE
  /\ Return(t)
  /\ UNCHANGED <<state, closing, socket, readevents, writeevents, closeUnchanged,
                 owner, disconnects>>

Close(t) ==
  \/ CloseGently(t) \/ CloseWhenEmpty(t) \/ CloseNow(t) \/ CloseTest(t)
  \/ CloseShutdown(t) \/ CloseDisconnect(t) \/ CloseState(t) \/ CloseUnregister(t)

-----------------------------------------------------------------------------
(* OnRead.  The peer has sent k more messages; while the session closes    *)
(* they are dropped.                                                       *)

Receive(k) ==
  /\ At(Io, "idle") /\ reading = "live" /\ arrived + k <= Incoming
  /\ reading' = "none"
  /\ arrived' = arrived + k
  /\ batch' = IF closing THEN 0 ELSE k
  /\ Goto(Io, IF closing THEN "startread" ELSE "queue")
  /\ UNCHANGED <<sessionVars, readVars, writeVars, msg, last, owner, jobs, disconnects>>

(* As many as m_maxreadqueuesize allows; OnError closes when some are left. *)
RoomBeyond == IF MaxRead = 0 THEN batch ELSE MaxRead + 1 - Len(readlist)  (* Fault *)
Room == IF MaxRead = 0 THEN batch ELSE MaxRead - Len(readlist)
BatchShifted(n) == [i \in 1 .. n |-> arrived - batch + i + 1]  (* Fault *)
Batch(n) == [i \in 1 .. n |-> arrived - batch + i]

QueueBatch ==
  LET n == IF Room < batch THEN Room ELSE batch
  IN  /\ At(Io, "queue") /\ ReadListFree
      /\ readlist' = readlist \o Batch(n)
      /\ IF n < batch THEN Call(Io, "closenow", "process") ELSE Goto(Io, "process")
      /\ batch' = 0
      /\ UNCHANGED <<sessionVars, readevents, begun, writeVars, reading, arrived, msg, last,
                     owner, jobs, disconnects>>

(* A read fails when the socket is closed, or by a failure of the peer. *)
ReadFails ==
  /\ At(Io, "idle") /\ reading # "none" /\ (Failures \/ ~socket)
  /\ reading' = "none"
  /\ Call(Io, "closenow", "startread")
  /\ UNCHANGED <<sessionVars, readVars, writeVars, arrived, batch, msg, last, owner, jobs,
                 disconnects>>

-----------------------------------------------------------------------------
(* ProcessIncomingData: by OnRead ("process") or, with asynccall, by the   *)
(* worker that has handled an orderly message ("processback").             *)

processUnchanged == <<sessionVars, writeVars, netVars, disconnects>>

ProcessCheck(t) ==
  /\ \/ At(t, "process") \/ At(t, "processback")
  /\ Goto(t, IF state <= 0 THEN AfterIncoming(t)
             ELSE IF ~OrderlyRead THEN "take"
             ELSE IF At(t, "process") THEN "enter" ELSE "enterback")
  /\ UNCHANGED <<processUnchanged, readVars, msg, last, owner, jobs>>

(* Faults: the end of a task not counted, an event not waited for, the     *)
(* mutex not kept for the loop.                                            *)
EndNotCounted(t) == (At(t, "enter") \/ At(t, "enterback")) /\ UNCHANGED readevents
NeverWait == FALSE
LoopUnlocked(t) == Goto(t, "take") /\ UNCHANGED owner

CountEnd(t) ==
  \/ At(t, "enter") /\ UNCHANGED readevents
  \/ At(t, "enterback") /\ readevents' = readevents - 1
MustWait == readevents' > 0
EnterLoop(t) == Goto(t, "take") /\ Acquire(t, "processread")

ProcessEnter(t) ==
  /\ CountEnd(t)
  /\ Free("processread")
  /\ IF MustWait THEN Goto(t, AfterIncoming(t)) /\ UNCHANGED owner ELSE EnterLoop(t)
  /\ UNCHANGED <<processUnchanged, readlist, begun, msg, last, jobs>>

(* InternalProcessIncoming: one turn of its loop is TakeMessage, the call   *)
(* of OnRead, and HandleNext or, when it waits for the worker, CountEvent. *)
TakeMessage(t) ==
  /\ At(t, "take") /\ ReadListFree /\ readlist # <<>>
  /\ msg' = [msg EXCEPT ![t] = Head(readlist)]
  /\ readlist' = Tail(readlist)
  /\ last' = [last EXCEPT ![t] = Tail(readlist) = <<>>]
  /\ Goto(t, "onread")
  /\ UNCHANGED <<processUnchanged, readevents, begun, owner, jobs>>

(* m_readmutex stays locked while the closing session looks at m_writelist. *)
TakeNothing(t) ==
  /\ At(t, "take") /\ ReadListFree /\ readlist = <<>>
  /\ IF closing
       THEN /\ Goto(t, "takewrite")
            /\ IF OrderlyRead THEN Acquire(t, "read") ELSE UNCHANGED owner
       ELSE Goto(t, AfterIncoming(t)) /\ Release({"processread"})
  /\ UNCHANGED <<processUnchanged, readVars, msg, last, jobs>>

TakeLooksAtWrites(t) ==
  /\ At(t, "takewrite") /\ Free("write")
  /\ IF writelist = <<>> THEN Call(t, "closenow", AfterIncoming(t))
                         ELSE Goto(t, AfterIncoming(t))
  /\ Release({"read", "processread"})
  /\ UNCHANGED <<processUnchanged, readVars, msg, last, jobs>>

HandleSync(t) ==
  /\ At(t, "onread") /\ "sync" \in ReadKinds
  /\ begun' = Append(begun, msg[t])
  /\ MayCall(t, "next")
  /\ UNCHANGED <<processUnchanged, readlist, readevents, msg, last, owner, jobs>>

(* data->type(0): the worker will not come back to the session. *)
HandleConcurrent(t) ==
  /\ At(t, "onread") /\ "concurrent" \in ReadKinds
  /\ begun' = Append(begun, msg[t])
  /\ jobs' = jobs \cup {[type |-> 0, message |-> msg[t]]}
  /\ Goto(t, "next")
  /\ UNCHANGED <<processUnchanged, readlist, readevents, msg, last, owner>>

HandleOrderly(t) ==
  /\ At(t, "onread") /\ "orderly" \in ReadKinds
  /\ begun' = Append(begun, msg[t])
  /\ jobs' = jobs \cup {[type |-> 1, message |-> msg[t]]}
  /\ Goto(t, "count")
  /\ UNCHANGED <<processUnchanged, readlist, readevents, msg, last, owner>>

(* Fault: the loop ends after a message, as if each were orderly. *)
HandleOne(t) ==
  /\ At(t, "next")
  /\ Goto(t, AfterIncoming(t)) /\ Release({"processread"})
  /\ UNCHANGED <<processUnchanged, readVars, msg, last, jobs>>

HandleNext(t) ==
  /\ At(t, "next")
  /\ IF last[t] THEN Goto(t, AfterIncoming(t)) /\ Release({"processread"})
                ELSE Goto(t, "take") /\ UNCHANGED owner
  /\ UNCHANGED <<processUnchanged, readVars, msg, last, jobs>>

CountEvent(t) ==
  /\ At(t, "count")
  /\ readevents' = readevents + 1
  /\ Goto(t, AfterIncoming(t)) /\ Release({"processread"})
  /\ UNCHANGED <<processUnchanged, readlist, begun, msg, last, jobs>>

ProcessIncomingData(t) ==
  \/ ProcessCheck(t) \/ ProcessEnter(t)
  \/ TakeMessage(t) \/ TakeNothing(t) \/ TakeLooksAtWrites(t)
  \/ HandleSync(t) \/ HandleConcurrent(t) \/ HandleOrderly(t)
  \/ HandleNext(t) \/ CountEvent(t)

-----------------------------------------------------------------------------
(* OnWrite.  The handler's OnWrite returns 0, or makes the message in front *)
(* an orderly task of the pool (DefaultAsyncProcessOnWrite).                *)

onWriteUnchanged == <<sessionVars, readVars, writelist, accepted, started, netVars,
                      msg, last, owner, disconnects>>

EndWrite ==
  /\ At(Io, "idle") /\ writing # <<>>
  /\ writing' = Tail(writing)
  /\ finished' = finished + 1

(* Fault: the next write does not wait for the orderly task. *)
WriteGoesOn ==
  /\ EndWrite /\ Head(writing).live /\ Free("write")
  /\ Goto(Io, "out")
  /\ jobs' = jobs \cup {[type |-> 2, message |-> Head(writelist)]}
  /\ UNCHANGED <<onWriteUnchanged, writeevents>>

WriteDone ==
  /\ EndWrite /\ Head(writing).live /\ Free("write")
  /\ \/ Goto(Io, "out") /\ UNCHANGED jobs
     \/ /\ OrderlyWrite
        /\ jobs' = jobs \cup {[type |-> 2, message |-> Head(writelist)]}
        /\ Goto(Io, "countwrite")
  /\ UNCHANGED <<onWriteUnchanged, writeevents>>

CountWrite ==
  /\ At(Io, "countwrite") /\ Free("processwrite")
  /\ writeevents' = writeevents + 1
  /\ Goto(Io, "idle")
  /\ UNCHANGED <<onWriteUnchanged, writing, finished, jobs>>

(* OnError closes, then the rest is processed "including the failed one". *)
WriteFails ==
  /\ EndWrite /\ (Failures \/ ~socket)
  /\ Call(Io, "closenow", "out")
  /\ UNCHANGED <<onWriteUnchanged, writeevents, jobs>>

-----------------------------------------------------------------------------
(* ProcessOutgoingData: by OnWrite ("out") or by a worker ("outback"). *)

outUnchanged == <<sessionVars, readVars, netVars, msg, last, jobs, finished, disconnects>>

OutCheck(t) ==
  /\ \/ At(t, "out") \/ At(t, "outback")
  /\ Goto(t, IF state <= 0 THEN AfterOutgoing
             ELSE IF ~OrderlyWrite THEN "pop"
             ELSE IF At(t, "out") THEN "outenter" ELSE "outenterback")
  /\ UNCHANGED <<outUnchanged, writelist, writeevents, writing, accepted, started, owner>>

CountOutEnd(t) ==
  \/ At(t, "outenter") /\ UNCHANGED writeevents
  \/ At(t, "outenterback") /\ writeevents' = writeevents - 1

OutEnter(t) ==
  /\ CountOutEnd(t)
  /\ Free("processwrite")
  /\ IF writeevents' > 0
       THEN Goto(t, AfterOutgoing) /\ UNCHANGED owner
       ELSE Goto(t, "pop") /\ Acquire(t, "processwrite")
  /\ UNCHANGED <<outUnchanged, writelist, writing, accepted, started>>

(* InternalProcessOutgoing. *)
Rest == IF writelist = <<>> THEN <<>> ELSE Tail(writelist)

(* Fault: the next message is left to the next Write. *)
PopOnly(t) ==
  /\ At(t, "pop") /\ Free("write") /\ Rest # <<>>
  /\ writelist' = Rest
  /\ Goto(t, AfterOutgoing) /\ Release({"processwrite"})
  /\ UNCHANGED <<outUnchanged, writeevents, writing, started, accepted>>

PopAndWrite(t) ==
  /\ At(t, "pop") /\ Free("write") /\ Rest # <<>>
  /\ writelist' = Rest
  /\ StartWrite(Head(Rest))
  /\ Goto(t, AfterOutgoing) /\ Release({"processwrite"})
  /\ UNCHANGED <<outUnchanged, writeevents, accepted>>

(* m_writemutex stays locked while the closing session looks at m_readlist. *)
PopLast(t) ==
  /\ At(t, "pop") /\ Free("write") /\ Rest = <<>>
  /\ writelist' = <<>>
  /\ IF closing THEN Goto(t, "popread") /\ Acquire(t, "write")
                ELSE Goto(t, AfterOutgoing) /\ Release({"processwrite"})
  /\ UNCHANGED <<outUnchanged, writeevents, writing, accepted, started>>

PopLooksAtReads(t) ==
  /\ At(t, "popread") /\ Free("read")
  /\ IF readlist = <<>> THEN Call(t, "closenow", AfterOutgoing)
                        ELSE Goto(t, AfterOutgoing)
  /\ Release({"write", "processwrite"})
  /\ UNCHANGED <<outUnchanged, writelist, writeevents, writing, accepted, started>>

ProcessOutgoingData(t) ==
  \/ OutCheck(t) \/ OutEnter(t)
  \/ PopAndWrite(t) \/ PopLast(t) \/ PopLooksAtReads(t)

-----------------------------------------------------------------------------
(* IoWork::Run: Handle, which may call the session when the task is a      *)
(* message read, then what data->type() asks for.                          *)

RunWork(w) ==
  /\ At(w, "idle")
  /\ \E j \in jobs :
       /\ jobs' = jobs \ {j}
       /\ msg' = [msg EXCEPT ![w] = j.message]
       /\ IF j.type = 2 THEN Goto(w, "outback")
          ELSE MayCall(w, IF j.type = 1 THEN "processback" ELSE "idle")
  /\ UNCHANGED <<sessionVars, readVars, writeVars, netVars, last, owner, disconnects>>

(* The application learns of the session when the manager has it. *)
ApplicationCalls(a) ==
  /\ At(a, "ready") /\ pc[Opener] # "open"
  /\ \E c \in IF a \in Writer THEN {"write"} ELSE CloseCalls : Call(a, c, "done")
  /\ UNCHANGED <<sessionVars, readVars, writeVars, netVars, msg, last, owner, jobs, disconnects>>

SessionStep(t) ==
  Read(t) \/ Write(t) \/ Close(t) \/ ProcessIncomingData(t) \/ ProcessOutgoingData(t)

IoStep == QueueBatch \/ WriteDone \/ CountWrite \/ WriteFails

Next ==
  \/ Open
  \/ \E t \in Thread : SessionStep(t)
  \/ IoStep
  \/ \E k \in InMessage : Receive(k)
  \/ ReadFails
  \/ \E w \in Worker : RunWork(w)
  \/ \E a \in Application : ApplicationCalls(a)

Spec == Init /\ [][Next]_vars

(* Threads that can go on do, an async_write ends, a read on a closed      *)
(* socket fails, and the pool runs its tasks.  Nothing makes the peer send *)
(* or the application call.  Every run is finite, so that weak fairness    *)
(* gives a thread the mutex it waits for, unless its owner is blocked.     *)
Fairness ==
  /\ \A t \in Thread : WF_vars(SessionStep(t))
  /\ WF_vars(Open) /\ WF_vars(IoStep)
  /\ WF_vars(ReadFails /\ ~socket)
  /\ \A w \in Worker : WF_vars(RunWork(w))

FairSpec == Spec /\ Fairness

-----------------------------------------------------------------------------
(* Properties.                                                             *)

WritePC == {"write", "room", "push"}
CloseNowPC == {"closenow", "closetest", "shutdown", "disconnect", "closed", "unregister"}
CallPC == WritePC \cup CloseNowPC \cup {"close", "closeread"}
IncomingPC == {"process", "processback", "enter", "enterback", "take", "takewrite",
               "onread", "next", "count"}
OutgoingPC == {"out", "outback", "outenter", "outenterback", "pop", "popread"}
OpenPC == {"open", "activate", "onconnect", "connected"}
IoPC == {"startread", "queue", "countwrite"}
PC == CallPC \cup IncomingPC \cup OutgoingPC \cup OpenPC \cup IoPC
        \cup {"idle", "ready", "done"}

(* The type of every variable. *)
SessionType ==
  /\ state \in {-1, 0, 1}
  /\ closing \in BOOLEAN /\ socket \in BOOLEAN /\ registered \in BOOLEAN
  /\ disconnects \in Nat
ReadType ==
  /\ readlist \in Seq(InMessage)
  /\ readevents \in Int
  /\ reading \in {"none", "live", "dead"}
  /\ arrived \in 0 .. Incoming /\ batch \in 0 .. arrived
WriteType ==
  /\ writelist \in Seq(OutMessage)
  /\ writeevents \in Int
  /\ writing \in Seq([message : OutMessage, live : BOOLEAN])
  /\ accepted \in Seq(OutMessage) /\ started \in Seq(OutMessage)
  /\ finished \in Nat
WorkType ==
  /\ jobs \subseteq [type : 0 .. 2, message : OutMessage]
  /\ begun \in Seq(OutMessage)
ThreadType ==
  /\ owner \in [Lock -> Thread \cup {Nobody}]
  /\ pc \in [Thread -> PC] /\ ret \in [Thread -> PC]
  /\ msg \in [Thread -> OutMessage]
  /\ last \in [Thread -> BOOLEAN]
TypeOK == SessionType /\ ReadType /\ WriteType /\ WorkType /\ ThreadType

(* Thread t is at l, or in a call it makes there. *)
Within(t, l) == At(t, l) \/ (pc[t] \in CallPC /\ ret[t] = l)

(* The session never has two writes under way, which would mix the bytes   *)
(* of two messages; what is being written is the message in front of the   *)
(* queue, which OnWrite takes it to be.                                    *)
OneWriteAtATime ==
  /\ Len(writing) <= 1
  /\ writing # <<>> => writelist # <<>> /\ Head(writing).message = Head(writelist)

(* Messages are sent in the order the Write calls queued them, each of     *)
(* them once, and one leaves the queue only when its write has ended.      *)
WritesKeepOrder ==
  LET removed == Len(accepted) - Len(writelist)
  IN  /\ writelist = SubSeq(accepted, removed + 1, Len(accepted))
      /\ started = SubSeq(accepted, 1, Len(started))
      /\ removed <= finished /\ finished <= Len(started)
      /\ Len(started) <= removed + 1

(* Tasks of the pool that hold up the next message, until the worker has   *)
(* told the session that it is done: read and written ones.                *)
OrderlyReads == {j \in jobs : j.type = 1}
OrderlyWrites == {j \in jobs : j.type = 2}
ReadWorkers == {w \in Worker : Within(w, "processback") \/ At(w, "enterback")}
WriteWorkers == {w \in Worker : At(w, "outback") \/ At(w, "outenterback")}
ReadsHeld == Cardinality(OrderlyReads) + Cardinality(ReadWorkers)
WritesHeld == Cardinality(OrderlyWrites) + Cardinality(WriteWorkers)

(* The counters of events count those tasks, but for one that the thread   *)
(* which made it has still to count; of each sort there is at most one.    *)
EventsCountTasks ==
  state = 1 =>
    /\ readevents = ReadsHeld - Cardinality({t \in Thread : At(t, "count")})
    /\ writeevents = WritesHeld - (IF At(Io, "countwrite") THEN 1 ELSE 0)
    /\ ReadsHeld <= 1 /\ WritesHeld <= 1

(* With orderly handling the messages read are handled one after the       *)
(* other, but for those the handler lets run concurrently: no OnRead is    *)
(* called while another, or the worker it waits for, is still at it.       *)
Handling == {t \in Thread : At(t, "onread") \/ (pc[t] \in CallPC /\ ret[t] = "next")}
OneMessageAtATime ==
  OrderlyRead => Cardinality(Handling) + ReadsHeld <= 1

(* So it is as long as the session is open. *)
SequentialWhileOpen == state = 1 => OneMessageAtATime

(* OnRead is called for the messages in the order they arrived, whichever  *)
(* thread calls it.                                                        *)
HandledInOrder == \A i, j \in 1 .. Len(begun) : i < j => begun[i] < begun[j]

(* No message read is forgotten: while one is queued in an open session,   *)
(* a thread is going to take it, or a task will call for it when it ends.  *)
WillTake(t) ==
  \/ Within(t, "process") \/ At(t, "enter") \/ At(t, "take")
  \/ (Within(t, "next") \/ At(t, "onread")) /\ ~last[t]
NoReadForgotten ==
  state = 1 /\ readlist # <<>> => ReadsHeld > 0 \/ \E t \in Thread : WillTake(t)

(* No message to send is forgotten: while one is queued in an open session, *)
(* a write is under way, or a thread or a task will start the next.        *)
WillPop(t) == Within(t, "out") \/ At(t, "outenter") \/ At(t, "pop")
NoWriteForgotten ==
  state = 1 /\ writelist # <<>> =>
    writing # <<>> \/ WritesHeld > 0 \/ \E t \in Thread : WillPop(t)

(* OnRead queues no more messages than m_maxreadqueuesize. *)
ReadQueueBounded == MaxRead > 0 => Len(readlist) <= MaxRead

(* Once the handler has heard of the disconnect and the threads that close *)
(* have left Close, nothing brings the session back: it is closed, its     *)
(* socket too, and the manager has forgotten it.                           *)
DisconnectIsFinal ==
  disconnects > 0 /\ (\A t \in Thread : pc[t] \notin CloseNowPC)
    => state = -1 /\ ~socket /\ ~registered

(* Every message a Write queues is written, unless the session is closed.  *)
EveryWriteEnds ==
  \A m \in OutMessage :
    (\E i \in 1 .. Len(writelist) : writelist[i] = m)
      ~> (state = -1 \/ \E i \in 1 .. Len(started) : started[i] = m /\ finished >= i)

(* Every message OnRead queues is handled, unless the session is closed.   *)
EveryReadHandled ==
  \A m \in InMessage :
    (\E i \in 1 .. Len(readlist) : readlist[i] = m)
      ~> (state = -1 \/ \E i \in 1 .. Len(begun) : begun[i] = m)

(* A connected session, one that reads from its peer, gets closed when it  *)
(* has begun to close, at once or gently.                                  *)
CloseEnds == closing /\ reading # "none" ~> state = -1

=============================================================================
