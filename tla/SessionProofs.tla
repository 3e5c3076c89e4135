---------------------------- MODULE SessionProofs ----------------------------
(* Invariants of a session, for any threads, messages and queue sizes: the *)
(* types of its variables, the bound of the queue of messages read, that   *)
(* it has one write under way at a time, the order of its writes, that     *)
(* none of them is forgotten, and that a disconnect is final; and, in the  *)
(* second half, that the messages read are handled one after the other, in *)
(* the order they arrived, and that none is left in the queue.             *)
EXTENDS Session, SequenceTheorems, FiniteSetTheorems, TLAPS

(* The threads a step can belong to, and what the handler may call. *)
LEMMA ThreadParts ==
  /\ Io \in Thread /\ Opener \in Thread
  /\ Worker \subseteq Thread /\ Application \subseteq Thread
  /\ HandlerCalls \subseteq {"none"} \cup CallPC
  /\ CloseCalls \subseteq CallPC
BY SessionAssumption DEF Thread, CallPC, WritePC, CloseNowPC

(* Messages read can be answered. *)
LEMMA InIsOut == InMessage \subseteq OutMessage
BY SessionAssumption DEF InMessage, OutMessage

-----------------------------------------------------------------------------
(* Where threads go.                                                       *)

(* The places a call returns to. *)
ReturnPC == {"connected", "next", "processback", "idle", "startread", "process", "out", "done"}

(* A thread at l that returns to r holds the turn to take the front off    *)
(* m_writelist: it is in ProcessOutgoingData, or it reports first the      *)
(* error of the write that has ended.                                      *)
Turn(l, r) ==
  \/ l \in {"out", "outback", "outenter", "outenterback", "pop"}
  \/ l \in CallPC /\ r = "out"
Popping(t) == Turn(pc[t], ret[t])

(* Every thread is somewhere in the program, and calls return.             *)
Places ==
  /\ pc \in [Thread -> PC] /\ ret \in [Thread -> PC]
  /\ \A t \in Thread : pc[t] \in CallPC => ret[t] \in ReturnPC

(* Thread t moves to l with r to return to, and takes no new turn.         *)
Moves(t, l, r) ==
  /\ pc' = [pc EXCEPT ![t] = l]
  /\ ret' = [ret EXCEPT ![t] = r]
Fits(l, r) == l \in PC /\ r \in PC /\ (l \in CallPC => r \in ReturnPC)
QuietMove(t) == \E l, r : Moves(t, l, r) /\ Fits(l, r) /\ (Turn(l, r) => Popping(t))

(* Which places are which. *)
LEMMA PlaceKinds ==
  /\ CallPC \subseteq PC /\ ReturnPC \subseteq PC
  /\ CallPC \cap ReturnPC = {}
  /\ \A l \in CallPC : l \notin {"out", "outback", "outenter", "outenterback", "pop"}
BY DEF CallPC, ReturnPC, PC, WritePC, CloseNowPC, IncomingPC, OutgoingPC, OpenPC, IoPC

(* Goto leaves the place to return to. *)
LEMMA GotoMoves ==
  ASSUME Places, NEW t \in Thread, NEW l, Goto(t, l)
  PROVE  Moves(t, l, ret[t])
BY DEF Places, Goto, Moves

(* A Goto to a place outside calls and turns. *)
LEMMA GotoQuiet ==
  ASSUME Places, NEW t \in Thread, NEW l \in PC, Goto(t, l),
         l \in CallPC => pc[t] \in CallPC,
         l \in {"out", "outback", "outenter", "outenterback", "pop"} => Popping(t)
  PROVE  QuietMove(t)
<1>1. Moves(t, l, ret[t])
  BY GotoMoves
<1>2. Fits(l, ret[t])
  BY DEF Places, Fits
<1>3. Turn(l, ret[t]) => Popping(t)
  BY DEF Turn, Popping
<1> QED
  BY <1>1, <1>2, <1>3 DEF QuietMove

(* A Call that does not come back to "out". *)
LEMMA CallQuiet ==
  ASSUME NEW t \in Thread, NEW l \in CallPC, NEW r \in ReturnPC, r # "out", Call(t, l, r)
  PROVE  QuietMove(t)
<1>1. Moves(t, l, r) /\ Fits(l, r) /\ ~Turn(l, r)
  BY PlaceKinds DEF Call, Moves, Fits, Turn
<1> QED
  BY <1>1 DEF QuietMove

(* A return from a call takes up the turn the call was made in. *)
LEMMA ReturnQuiet ==
  ASSUME Places, NEW t \in Thread, pc[t] \in CallPC, Return(t)
  PROVE  QuietMove(t)
<1>1. ret[t] \in ReturnPC
  BY DEF Places
<1>2. ret[t] \in {"out", "outback", "outenter", "outenterback", "pop"} => ret[t] = "out"
  BY <1>1 DEF ReturnPC
<1>3. ret[t] = "out" => Popping(t)
  BY DEF Popping, Turn
<1> QED
  BY <1>1, <1>2, <1>3, PlaceKinds, GotoQuiet DEF Return

(* The handler's call, if it makes one, is no turn either. *)
LEMMA MayCallQuiet ==
  ASSUME NEW t \in Thread, NEW r \in ReturnPC, r # "out", MayCall(t, r)
  PROVE  QuietMove(t)
<1>1. PICK c \in HandlerCalls : IF c = "none" THEN Call(t, r, r) ELSE Call(t, c, r)
  BY DEF MayCall
<1>2. CASE c = "none"
  <2>1. Moves(t, r, r)
    BY <1>1, <1>2 DEF Call, Moves
  <2>2. Fits(r, r) /\ ~Turn(r, r)
    BY PlaceKinds DEF Fits, Turn, ReturnPC
  <2> QED
    BY <2>1, <2>2 DEF QuietMove
<1>3. CASE c # "none"
  BY <1>1, <1>3, CallQuiet, ThreadParts
<1> QED
  BY <1>2, <1>3

(* What goes on at once in a thread of the session.                        *)
LEMMA AfterQuiet ==
  ASSUME Places, NEW t \in Thread
  PROVE  AfterIncoming(t) \in {"startread", "idle"} /\ AfterOutgoing = "idle"
BY DEF AfterIncoming, AfterOutgoing

(* Write and Close keep the turn of their caller.                          *)
LEMMA WriteMoves == ASSUME Places, NEW t \in Thread, Write(t) PROVE QuietMove(t)
<1> USE DEF At
<1>1. CASE WriteCheck(t)
  <2>1. CASE Return(t)
    BY <1>1, <2>1, ReturnQuiet DEF WriteCheck, CallPC, WritePC
  <2>2. CASE Goto(t, IF MaxWrite > 0 THEN "room" ELSE "push")
    BY <1>1, <2>2, GotoQuiet DEF WriteCheck, CallPC, WritePC, PC
  <2> QED
    BY <1>1, <2>1, <2>2 DEF WriteCheck
<1>2. CASE WriteRoom(t)
  BY <1>2, GotoQuiet DEF WriteRoom, CallPC, WritePC, CloseNowPC, PC
<1>3. CASE WritePush(t)
  BY <1>3, ReturnQuiet DEF WritePush, CallPC, WritePC
<1> QED
  BY <1>1, <1>2, <1>3 DEF Write

(* Close returns to its caller in the end. *)
LEMMA CloseMoves == ASSUME Places, NEW t \in Thread, Close(t) PROVE QuietMove(t)
<1> USE DEF At, CallPC, CloseNowPC, PC
<1>1. CASE CloseGently(t)
  BY <1>1, GotoQuiet DEF CloseGently
<1>2. CASE CloseWhenEmpty(t)
  <2>1. CASE Goto(t, "closenow")
    BY <1>2, <2>1, GotoQuiet DEF CloseWhenEmpty
  <2>2. CASE Return(t)
    BY <1>2, <2>2, ReturnQuiet DEF CloseWhenEmpty
  <2> QED
    BY <1>2, <2>1, <2>2 DEF CloseWhenEmpty
<1>3. CASE CloseNow(t)
  BY <1>3, GotoQuiet DEF CloseNow
<1>4. CASE CloseTest(t)
  BY <1>4, GotoQuiet DEF CloseTest
<1>5. CASE CloseShutdown(t)
  BY <1>5, GotoQuiet DEF CloseShutdown
<1>6. CASE CloseDisconnect(t)
  BY <1>6, GotoQuiet DEF CloseDisconnect
<1>7. CASE CloseState(t)
  BY <1>7, GotoQuiet DEF CloseState
<1>8. CASE CloseUnregister(t)
  BY <1>8, ReturnQuiet DEF CloseUnregister
<1> QED
  BY <1>1, <1>2, <1>3, <1>4, <1>5, <1>6, <1>7, <1>8 DEF Close

(* The read side takes no turn to write.                                   *)
LEMMA IncomingMoves ==
  ASSUME Places, NEW t \in Thread, ProcessIncomingData(t)
  PROVE  QuietMove(t)
<1> USE AfterQuiet
<1> DEFINE Plain == {"take", "takewrite", "enter", "enterback", "onread", "next", "count",
                     "startread", "idle"}
<1>g. ASSUME NEW l \in Plain, Goto(t, l) PROVE QuietMove(t)
  <2>1. l \in PC /\ l \notin CallPC /\ l \notin {"out", "outback", "outenter", "outenterback", "pop"}
    BY DEF PC, CallPC, WritePC, CloseNowPC, IncomingPC, IoPC
  <2> QED
    BY <1>g, <2>1, GotoQuiet
<1>1. CASE ProcessCheck(t)
  BY <1>1, <1>g DEF ProcessCheck
<1>2. CASE ProcessEnter(t)
  BY <1>2, <1>g DEF ProcessEnter, EnterLoop
<1>3. CASE TakeMessage(t)
  BY <1>3, <1>g DEF TakeMessage
<1>4. CASE TakeNothing(t)
  BY <1>4, <1>g DEF TakeNothing
<1>5. CASE TakeLooksAtWrites(t)
  <2>1. CASE Call(t, "closenow", AfterIncoming(t))
    BY <2>1, CallQuiet DEF CallPC, CloseNowPC, ReturnPC
  <2>2. CASE Goto(t, AfterIncoming(t))
    BY <2>2, <1>g
  <2> QED
    BY <1>5, <2>1, <2>2 DEF TakeLooksAtWrites
<1>6. CASE HandleSync(t)
  BY <1>6, MayCallQuiet DEF HandleSync, ReturnPC
<1>7. CASE HandleConcurrent(t)
  BY <1>7, <1>g DEF HandleConcurrent
<1>8. CASE HandleOrderly(t)
  BY <1>8, <1>g DEF HandleOrderly
<1>9. CASE HandleNext(t)
  BY <1>9, <1>g DEF HandleNext
<1>10. CASE CountEvent(t)
  BY <1>10, <1>g DEF CountEvent
<1> QED
  BY <1>1, <1>2, <1>3, <1>4, <1>5, <1>6, <1>7, <1>8, <1>9, <1>10 DEF ProcessIncomingData

(* On the write side a turn goes on or ends.                               *)
LEMMA OutgoingMoves ==
  ASSUME Places, NEW t \in Thread, ProcessOutgoingData(t)
  PROVE  QuietMove(t)
<1> USE AfterQuiet DEF At
<1> DEFINE Plain == {"outenter", "outenterback", "pop", "popread", "idle"}
<1>g. ASSUME NEW l \in Plain, Goto(t, l), l \in {"popread", "idle"} \/ Popping(t)
      PROVE  QuietMove(t)
  <2>1. l \in PC /\ l \notin CallPC
    BY DEF PC, CallPC, WritePC, CloseNowPC, OutgoingPC
  <2> QED
    BY <1>g, <2>1, GotoQuiet
<1>1. CASE OutCheck(t)
  <2>1. Popping(t)
    BY <1>1 DEF OutCheck, Popping, Turn
  <2> QED
    BY <1>1, <2>1, <1>g DEF OutCheck
<1>2. CASE OutEnter(t)
  <2>1. Popping(t)
    BY <1>2 DEF OutEnter, CountOutEnd, Popping, Turn
  <2> QED
    BY <1>2, <2>1, <1>g DEF OutEnter
<1>3. CASE PopAndWrite(t)
  BY <1>3, <1>g DEF PopAndWrite
<1>4. CASE PopLast(t)
  BY <1>4, <1>g DEF PopLast
<1>5. CASE PopLooksAtReads(t)
  <2>1. CASE Call(t, "closenow", AfterOutgoing)
    BY <2>1, CallQuiet DEF CallPC, CloseNowPC, ReturnPC
  <2>2. CASE Goto(t, AfterOutgoing)
    BY <2>2, <1>g
  <2> QED
    BY <1>5, <2>1, <2>2 DEF PopLooksAtReads
<1> QED
  BY <1>1, <1>2, <1>3, <1>4, <1>5 DEF ProcessOutgoingData

(* So does every step of a thread in the session.                          *)
LEMMA SessionMoves == ASSUME Places, NEW t \in Thread, SessionStep(t) PROVE QuietMove(t)
<1>1. CASE Read(t)
  BY <1>1, GotoQuiet DEF Read, PC, CallPC, WritePC, CloseNowPC
<1> QED
  BY <1>1, WriteMoves, CloseMoves, IncomingMoves, OutgoingMoves DEF SessionStep

-----------------------------------------------------------------------------
(* The turn to write goes round: a write is under way, then the pool has   *)
(* the task of the message written, then a thread takes the message off    *)
(* the queue, and starts the next write or leaves the queue empty.  Only   *)
(* one of them is the case, and then the queue is not empty.               *)
NoJob == OrderlyWrites = {}
NoTurn == \A t \in Thread : ~Popping(t)

PhaseIdle == writing = <<>> /\ NoJob /\ NoTurn
PhaseWriting ==
  /\ Len(writing) = 1 /\ NoJob /\ NoTurn
  /\ writelist # <<>> /\ Head(writing).message = Head(writelist)
PhaseJob ==
  /\ writing = <<>> /\ NoTurn /\ writelist # <<>>
  /\ \E j : OrderlyWrites = {j}
PhaseTurn ==
  /\ writing = <<>> /\ NoJob /\ writelist # <<>>
  /\ \E t \in Thread : \A u \in Thread : Popping(u) => u = t

WriteTurn == PhaseIdle \/ PhaseWriting \/ PhaseJob \/ PhaseTurn

(* What holds of a session: the invariant that is proved inductive.        *)
SessionInv == TypeOK /\ Places /\ ReadQueueBounded /\ WriteTurn

(* A move leaves every thread somewhere, and the others where they were.   *)
LEMMA MovesPlaces ==
  ASSUME Places, NEW t \in Thread, NEW l, NEW r, Moves(t, l, r), Fits(l, r)
  PROVE  /\ Places'
         /\ \A u \in Thread : Popping(u)' => IF u = t THEN Turn(l, r) ELSE Popping(u)
BY DEF Places, Moves, Fits, Popping

(* A quiet move brings no new turn.                                        *)
LEMMA QuietPlaces ==
  ASSUME Places, NEW t \in Thread, QuietMove(t)
  PROVE  Places' /\ \A u \in Thread : Popping(u)' => Popping(u)
<1>1. PICK l, r : Moves(t, l, r) /\ Fits(l, r) /\ (Turn(l, r) => Popping(t))
  BY DEF QuietMove
<1> QED
  BY <1>1, MovesPlaces

(* Nor does it disturb the phase, when queue, writes and tasks stay.       *)
LEMMA QuietTurn ==
  ASSUME Places, WriteTurn, NEW t \in Thread, QuietMove(t),
         UNCHANGED <<writelist, writing>>, OrderlyWrites' = OrderlyWrites
  PROVE  WriteTurn'
<1>1. \A u \in Thread : Popping(u)' => Popping(u)
  BY QuietPlaces
<1>2. CASE PhaseIdle
  BY <1>1, <1>2 DEF WriteTurn, PhaseIdle, NoJob, NoTurn
<1>3. CASE PhaseWriting
  BY <1>1, <1>3 DEF WriteTurn, PhaseWriting, NoJob, NoTurn
<1>4. CASE PhaseJob
  BY <1>1, <1>4 DEF WriteTurn, PhaseJob, NoTurn
<1>5. CASE PhaseTurn
  BY <1>1, <1>5 DEF WriteTurn, PhaseTurn, NoJob
<1> QED
  BY <1>2, <1>3, <1>4, <1>5 DEF WriteTurn

-----------------------------------------------------------------------------
(* The steps that move the turn on.                                        *)

(* Write starts a write only when the queue is empty, so that nobody has   *)
(* the turn.                                                               *)
LEMMA PushTurn ==
  ASSUME TypeOK, Places, WriteTurn, NEW t \in Thread, WritePush(t)
  PROVE  WriteTurn'
<1>1. QuietMove(t)
  BY WriteMoves DEF Write
<1>2. \A u \in Thread : Popping(u)' => Popping(u)
  BY <1>1, QuietPlaces
<1>3. OrderlyWrites' = OrderlyWrites
  BY DEF WritePush, OrderlyWrites
<1>4. writelist \in Seq(OutMessage) /\ msg[t] \in OutMessage
  BY DEF TypeOK, WriteType, ThreadType
<1>5. writelist' = Append(writelist, msg[t]) /\ writelist' # <<>>
  BY <1>4 DEF WritePush
<1>6. CASE writelist = <<>>
  <2>1. PhaseIdle
    BY <1>6 DEF WriteTurn, PhaseIdle, PhaseWriting, PhaseJob, PhaseTurn
  <2>2. writing' = <<[message |-> msg[t], live |-> socket]>>
    BY <1>6, <2>1 DEF WritePush, StartWrite, PhaseIdle
  <2>3. Head(writelist') = msg[t]
    BY <1>4, <1>5, <1>6
  <2> QED
    BY <1>2, <1>3, <1>5, <2>1, <2>2, <2>3 DEF WriteTurn, PhaseIdle, PhaseWriting, NoJob, NoTurn
<1>7. CASE writelist # <<>>
  <2>1. writing' = writing
    BY <1>7 DEF WritePush
  <2>2. Head(writelist') = Head(writelist)
    BY <1>4, <1>5, <1>7
  <2>3. CASE PhaseIdle
    BY <1>2, <1>3, <2>1, <2>3 DEF WriteTurn, PhaseIdle, NoJob, NoTurn
  <2>4. CASE PhaseWriting
    BY <1>2, <1>3, <1>5, <2>1, <2>2, <2>4 DEF WriteTurn, PhaseWriting, NoJob, NoTurn
  <2>5. CASE PhaseJob
    BY <1>2, <1>3, <1>5, <2>1, <2>5 DEF WriteTurn, PhaseJob, NoTurn
  <2>6. CASE PhaseTurn
    BY <1>2, <1>3, <1>5, <2>1, <2>6 DEF WriteTurn, PhaseTurn, NoJob
  <2> QED
    BY <2>3, <2>4, <2>5, <2>6 DEF WriteTurn
<1> QED
  BY <1>6, <1>7

(* A thread at "pop" has the only turn, and gives it up.                   *)
LEMMA PopTurn ==
  ASSUME TypeOK, Places, WriteTurn, NEW t \in Thread, PopAndWrite(t) \/ PopLast(t)
  PROVE  WriteTurn'
<1>1. At(t, "pop") /\ Popping(t)
  BY DEF PopAndWrite, PopLast, At, Popping, Turn
<1>2. PhaseTurn /\ \A u \in Thread : Popping(u) => u = t
  BY <1>1 DEF WriteTurn, PhaseIdle, PhaseWriting, PhaseJob, PhaseTurn, NoTurn
<1>3. ~(Popping(t))'
  <2>1. \E l \in {"idle", "popread"} : Goto(t, l)
    BY DEF PopAndWrite, PopLast, AfterOutgoing
  <2>2. PICK l \in {"idle", "popread"} : Goto(t, l)
    BY <2>1
  <2>3. pc'[t] = l
    BY <2>2 DEF Goto, Places
  <2> QED
    BY <2>3 DEF Popping, Turn, CallPC, WritePC, CloseNowPC
<1>4. QuietMove(t)
  BY OutgoingMoves DEF ProcessOutgoingData
<1>5. NoTurn'
  BY <1>2, <1>3, <1>4, QuietPlaces DEF NoTurn
<1>6. NoJob' /\ writing = <<>>
  BY <1>2 DEF PhaseTurn, NoJob, OrderlyWrites, PopAndWrite, PopLast, outUnchanged
<1>7. CASE PopAndWrite(t)
  <2>1. writing' = <<[message |-> Head(Rest), live |-> socket]>>
    BY <1>6, <1>7 DEF PopAndWrite, StartWrite
  <2>2. writelist' = Rest /\ Rest # <<>>
    BY <1>7 DEF PopAndWrite
  <2> QED
    BY <1>5, <1>6, <2>1, <2>2 DEF WriteTurn, PhaseWriting
<1>8. CASE PopLast(t)
  BY <1>5, <1>6, <1>8 DEF PopLast, WriteTurn, PhaseIdle
<1> QED
  BY <1>7, <1>8

(* A write that has ended passes the turn to Io, or to the task it makes.  *)
LEMMA EndTurn ==
  ASSUME TypeOK, Places, WriteTurn, WriteDone \/ WriteFails
  PROVE  Places' /\ WriteTurn'
<1> USE ThreadParts
<1>1. writing # <<>> /\ writing' = Tail(writing) /\ writelist' = writelist
  BY DEF WriteDone, WriteFails, EndWrite, onWriteUnchanged
<1>2. PhaseWriting
  BY <1>1 DEF WriteTurn, PhaseIdle, PhaseJob, PhaseTurn
<1>3. writing' = <<>>
  BY <1>1, <1>2 DEF PhaseWriting, TypeOK, WriteType
<1>4. CASE OrderlyWrites' = OrderlyWrites
           /\ \E l, r : Moves(Io, l, r) /\ Fits(l, r)
  <2>1. PICK l, r : Moves(Io, l, r) /\ Fits(l, r)
    BY <1>4
  <2>2. Places' /\ \A u \in Thread : Popping(u)' => u = Io
    BY <1>2, <2>1, MovesPlaces DEF PhaseWriting, NoTurn
  <2> QED
    BY <1>1, <1>2, <1>3, <1>4, <2>2 DEF WriteTurn, PhaseWriting, PhaseTurn, NoJob
<1>5. CASE /\ OrderlyWrites' = {[type |-> 2, message |-> Head(writelist)]}
           /\ QuietMove(Io)
  <2>1. Places' /\ NoTurn'
    BY <1>2, <1>5, QuietPlaces DEF PhaseWriting, NoTurn
  <2> QED
    BY <1>1, <1>2, <1>3, <1>5, <2>1 DEF WriteTurn, PhaseWriting, PhaseJob
<1>6. CASE WriteFails
  <2>1. Moves(Io, "closenow", "out") /\ Fits("closenow", "out")
    BY <1>6 DEF WriteFails, Call, Moves, Fits, PC, CallPC, CloseNowPC, ReturnPC, OutgoingPC
  <2>2. OrderlyWrites' = OrderlyWrites
    BY <1>6 DEF WriteFails, OrderlyWrites
  <2> QED
    BY <1>4, <2>1, <2>2
<1>7. CASE WriteDone /\ Goto(Io, "out") /\ UNCHANGED jobs
  <2>1. Moves(Io, "out", ret[Io])
    BY <1>7, GotoMoves
  <2>2. Fits("out", ret[Io])
    BY DEF Places, Fits, PC, OutgoingPC, CallPC, WritePC, CloseNowPC
  <2>3. OrderlyWrites' = OrderlyWrites
    BY <1>7 DEF OrderlyWrites
  <2> QED
    BY <1>4, <2>1, <2>2, <2>3
<1>8. CASE /\ WriteDone /\ Goto(Io, "countwrite")
           /\ jobs' = jobs \cup {[type |-> 2, message |-> Head(writelist)]}
  <2>1. QuietMove(Io)
    BY <1>8, GotoQuiet DEF PC, IoPC, CallPC, WritePC, CloseNowPC
  <2>2. OrderlyWrites' = OrderlyWrites \cup {[type |-> 2, message |-> Head(writelist)]}
    BY <1>8 DEF OrderlyWrites
  <2>3. OrderlyWrites = {}
    BY <1>2 DEF PhaseWriting, NoJob
  <2> QED
    BY <1>5, <2>1, <2>2, <2>3
<1> QED
  BY <1>6, <1>7, <1>8 DEF WriteDone

(* A worker that takes the task of a written message takes the turn with   *)
(* it; with another task, none.                                            *)
LEMMA WorkTurn ==
  ASSUME TypeOK, Places, WriteTurn, NEW w \in Worker, RunWork(w)
  PROVE  Places' /\ WriteTurn'
<1> USE ThreadParts
<1>1. PICK j \in jobs :
        /\ jobs' = jobs \ {j}
        /\ IF j.type = 2 THEN Goto(w, "outback")
           ELSE MayCall(w, IF j.type = 1 THEN "processback" ELSE "idle")
  BY DEF RunWork
<1>2. writelist' = writelist /\ writing' = writing
  BY DEF RunWork, writeVars
<1>3. CASE j.type = 2
  <2>1. j \in OrderlyWrites /\ OrderlyWrites' = OrderlyWrites \ {j}
    BY <1>1, <1>3 DEF OrderlyWrites
  <2>2. PhaseJob
    BY <2>1 DEF WriteTurn, PhaseIdle, PhaseWriting, PhaseTurn, NoJob
  <2>3. OrderlyWrites' = {}
    BY <2>1, <2>2 DEF PhaseJob
  <2>4. Moves(w, "outback", ret[w]) /\ Fits("outback", ret[w])
    BY <1>1, <1>3, GotoMoves DEF Places, Fits, PC, OutgoingPC, CallPC, WritePC, CloseNowPC
  <2>5. Places' /\ \A u \in Thread : Popping(u)' => u = w
    BY <2>2, <2>4, MovesPlaces DEF PhaseJob, NoTurn
  <2> QED
    BY <1>2, <2>2, <2>3, <2>5 DEF WriteTurn, PhaseJob, PhaseTurn, NoJob
<1>4. CASE j.type # 2
  <2>1. OrderlyWrites' = OrderlyWrites
    BY <1>1, <1>4 DEF OrderlyWrites
  <2>2. QuietMove(w)
    BY <1>1, <1>4, MayCallQuiet DEF ReturnPC
  <2> QED
    BY <1>2, <2>1, <2>2, QuietTurn, QuietPlaces
<1> QED
  BY <1>3, <1>4

(* The other steps of a thread leave the queue, the writes and the tasks   *)
(* of written messages alone.                                              *)
LEMMA StepTurn ==
  ASSUME TypeOK, Places, WriteTurn, NEW t \in Thread, SessionStep(t)
  PROVE  Places' /\ WriteTurn'
<1>1. QuietMove(t)
  BY SessionMoves
<1>2. SUFFICES WriteTurn'
  BY <1>1, QuietPlaces
<1>q. ASSUME UNCHANGED <<writelist, writing>>, OrderlyWrites' = OrderlyWrites
      PROVE  WriteTurn'
  BY <1>1, <1>q, QuietTurn
<1>j. ASSUME UNCHANGED <<writelist, writing, jobs>> PROVE WriteTurn'
  BY <1>j, <1>q DEF OrderlyWrites
<1>3. CASE Read(t)
  BY <1>3, <1>j DEF Read, writeVars
<1>4. CASE WriteCheck(t) \/ WriteRoom(t)
  BY <1>4, <1>j DEF WriteCheck, WriteRoom, writeVars
<1>5. CASE WritePush(t)
  BY <1>5, PushTurn
<1>6. CASE Close(t)
  BY <1>6, <1>j DEF Close, CloseGently, CloseWhenEmpty, CloseNow, CloseTest, CloseShutdown,
     CloseDisconnect, CloseState, CloseUnregister, closeUnchanged
<1>7. CASE ProcessIncomingData(t)
  <2>1. UNCHANGED <<writelist, writing>>
    BY <1>7 DEF ProcessIncomingData, ProcessCheck, ProcessEnter, TakeMessage, TakeNothing,
       TakeLooksAtWrites, HandleSync, HandleConcurrent, HandleOrderly, HandleNext, CountEvent,
       processUnchanged, writeVars
  <2>2. CASE UNCHANGED jobs
    BY <1>j, <2>1, <2>2
  <2>3. CASE HandleConcurrent(t) \/ HandleOrderly(t)
    <3>1. OrderlyWrites' = OrderlyWrites
      BY <2>3 DEF HandleConcurrent, HandleOrderly, OrderlyWrites
    <3> QED
      BY <1>q, <2>1, <3>1
  <2> QED
    BY <1>7, <2>2, <2>3 DEF ProcessIncomingData, ProcessCheck, ProcessEnter, TakeMessage,
       TakeNothing, TakeLooksAtWrites, HandleSync, HandleNext, CountEvent
<1>8. CASE OutCheck(t) \/ OutEnter(t) \/ PopLooksAtReads(t)
  BY <1>8, <1>j DEF OutCheck, OutEnter, PopLooksAtReads, outUnchanged
<1>9. CASE PopAndWrite(t) \/ PopLast(t)
  BY <1>9, PopTurn
<1> QED
  BY <1>3, <1>4, <1>5, <1>6, <1>7, <1>8, <1>9
     DEF SessionStep, Write, ProcessOutgoingData

(* Every step keeps the places and the turn.                               *)
LEMMA TurnNext ==
  ASSUME TypeOK, Places, WriteTurn, [Next]_vars
  PROVE  Places' /\ WriteTurn'
<1> USE ThreadParts
<1>q. ASSUME NEW t \in Thread, QuietMove(t), UNCHANGED <<writelist, writing, jobs>>
      PROVE  Places' /\ WriteTurn'
  <2>1. OrderlyWrites' = OrderlyWrites
    BY <1>q DEF OrderlyWrites
  <2> QED
    BY <1>q, <2>1, QuietTurn, QuietPlaces
<1>1. CASE Open
  <2>1. UNCHANGED <<writelist, writing, jobs>>
    BY <1>1 DEF Open, OpenRegister, OpenActivate, OpenConnect, OpenConnected, writeVars
  <2>2. QuietMove(Opener)
    <3>1. CASE OpenRegister
      BY <3>1, GotoQuiet DEF OpenRegister, PC, OpenPC, CallPC, WritePC, CloseNowPC
    <3>2. CASE OpenActivate
      BY <3>2, GotoQuiet DEF OpenActivate, PC, OpenPC, CallPC, WritePC, CloseNowPC
    <3>3. CASE OpenConnect
      BY <3>3, MayCallQuiet DEF OpenConnect, ReturnPC
    <3>4. CASE OpenConnected
      BY <3>4, GotoQuiet DEF OpenConnected, PC, IoPC, CallPC, WritePC, CloseNowPC
    <3> QED
      BY <1>1, <3>1, <3>2, <3>3, <3>4 DEF Open
  <2> QED
    BY <1>q, <2>1, <2>2
<1>2. ASSUME NEW t \in Thread, SessionStep(t) PROVE Places' /\ WriteTurn'
  BY <1>2, StepTurn
<1>3. CASE QueueBatch
  <2>1. UNCHANGED <<writelist, writing, jobs>>
    BY <1>3 DEF QueueBatch, writeVars
  <2>2. Call(Io, "closenow", "process") \/ Goto(Io, "process")
    BY <1>3 DEF QueueBatch
  <2>3. QuietMove(Io)
    BY <2>2, CallQuiet, GotoQuiet DEF PC, CallPC, WritePC, CloseNowPC, IncomingPC, ReturnPC
  <2> QED
    BY <1>q, <2>1, <2>3
<1>4. CASE WriteDone \/ WriteFails
  BY <1>4, EndTurn
<1>5. CASE CountWrite
  <2>1. UNCHANGED <<writelist, writing, jobs>> /\ Goto(Io, "idle")
    BY <1>5 DEF CountWrite, onWriteUnchanged
  <2>2. QuietMove(Io)
    BY <2>1, GotoQuiet DEF PC, CallPC, WritePC, CloseNowPC
  <2> QED
    BY <1>q, <2>1, <2>2
<1>6. ASSUME NEW k \in InMessage, Receive(k) PROVE Places' /\ WriteTurn'
  <2>1. UNCHANGED <<writelist, writing, jobs>>
        /\ Goto(Io, IF closing THEN "startread" ELSE "queue")
    BY <1>6 DEF Receive, writeVars
  <2>2. QuietMove(Io)
    BY <2>1, GotoQuiet DEF PC, IoPC, CallPC, WritePC, CloseNowPC
  <2> QED
    BY <1>q, <2>1, <2>2
<1>7. CASE ReadFails
  <2>1. UNCHANGED <<writelist, writing, jobs>> /\ Call(Io, "closenow", "startread")
    BY <1>7 DEF ReadFails, writeVars
  <2>2. QuietMove(Io)
    BY <2>1, CallQuiet DEF CallPC, CloseNowPC, ReturnPC
  <2> QED
    BY <1>q, <2>1, <2>2
<1>8. ASSUME NEW w \in Worker, RunWork(w) PROVE Places' /\ WriteTurn'
  BY <1>8, WorkTurn
<1>9. ASSUME NEW a \in Application, ApplicationCalls(a) PROVE Places' /\ WriteTurn'
  <2>1. UNCHANGED <<writelist, writing, jobs>>
        /\ \E c \in CallPC : Call(a, c, "done")
    BY <1>9 DEF ApplicationCalls, writeVars, CallPC, WritePC
  <2>2. QuietMove(a)
    BY <2>1, CallQuiet DEF ReturnPC
  <2> QED
    BY <1>q, <2>1, <2>2
<1>10. CASE UNCHANGED vars
  BY <1>10 DEF vars, writeVars, threadVars, Places, WriteTurn, PhaseIdle, PhaseWriting, PhaseJob,
     PhaseTurn, NoJob, NoTurn, OrderlyWrites, Popping
<1> QED
  BY <1>1, <1>2, <1>3, <1>4, <1>5, <1>6, <1>7, <1>8, <1>9, <1>10 DEF Next, IoStep

-----------------------------------------------------------------------------
(* Types.                                                                  *)

(* The definitions of the steps, as one name per part of the session.      *)
LEMMA SessionTypeNext ==
  ASSUME TypeOK, [Next]_vars
  PROVE  SessionType'
<1> USE DEF TypeOK, SessionType
<1>1. CASE Open
  BY <1>1 DEF Open, OpenRegister, OpenActivate, OpenConnect, OpenConnected, sessionVars
<1>2. ASSUME NEW t \in Thread, Read(t) \/ Write(t) PROVE SessionType'
  BY <1>2 DEF Read, Write, WriteCheck, WriteRoom, WritePush, sessionVars
<1>3. ASSUME NEW t \in Thread, Close(t) PROVE SessionType'
  <2>1. CASE CloseGently(t)
    BY <2>1 DEF CloseGently, sessionVars
  <2>2. CASE CloseWhenEmpty(t)
    BY <2>2 DEF CloseWhenEmpty
  <2>3. CASE CloseNow(t) \/ CloseTest(t)
    BY <2>3 DEF CloseNow, CloseTest, sessionVars
  <2>4. CASE CloseShutdown(t)
    BY <2>4 DEF CloseShutdown
  <2>5. CASE CloseDisconnect(t)
    BY <2>5 DEF CloseDisconnect, sessionVars
  <2>6. CASE CloseState(t) \/ CloseUnregister(t)
    BY <2>6 DEF CloseState, CloseUnregister
  <2> QED
    BY <1>3, <2>1, <2>2, <2>3, <2>4, <2>5, <2>6 DEF Close
<1>4. ASSUME NEW t \in Thread, ProcessIncomingData(t) PROVE SessionType'
  BY <1>4 DEF ProcessIncomingData, ProcessCheck, ProcessEnter, TakeMessage, TakeNothing,
     TakeLooksAtWrites, HandleSync, HandleConcurrent, HandleOrderly, HandleNext, CountEvent,
     processUnchanged, sessionVars
<1>5. ASSUME NEW t \in Thread, ProcessOutgoingData(t) PROVE SessionType'
  BY <1>5 DEF ProcessOutgoingData, OutCheck, OutEnter, PopAndWrite, PopLast, PopLooksAtReads,
     outUnchanged, sessionVars
<1>6. CASE IoStep \/ ReadFails \/ \E k \in InMessage : Receive(k)
  BY <1>6 DEF IoStep, QueueBatch, WriteDone, CountWrite, WriteFails, Receive, ReadFails,
     onWriteUnchanged, sessionVars
<1>7. CASE (\E w \in Worker : RunWork(w)) \/ (\E a \in Application : ApplicationCalls(a))
  BY <1>7 DEF RunWork, ApplicationCalls, sessionVars
<1>8. CASE UNCHANGED vars
  BY <1>8 DEF vars, sessionVars
<1> QED
  BY <1>1, <1>2, <1>3, <1>4, <1>5, <1>6, <1>7, <1>8 DEF Next, SessionStep

(* What OnRead queues are messages, in the room there is.                  *)
LEMMA BatchQueued ==
  ASSUME TypeOK, ReadQueueBounded, QueueBatch
  PROVE  readlist' \in Seq(InMessage) /\ ReadQueueBounded'
<1> DEFINE n == IF Room < batch THEN Room ELSE batch
<1>1. /\ readlist \in Seq(InMessage) /\ Len(readlist) \in Nat
      /\ arrived \in 0 .. Incoming /\ batch \in 0 .. arrived
      /\ Incoming \in Nat /\ MaxRead \in Nat
  BY SessionAssumption DEF TypeOK, ReadType
<1>2. n \in Nat /\ n <= batch /\ (MaxRead > 0 => Len(readlist) + n <= MaxRead)
  BY <1>1 DEF Room, ReadQueueBounded
<1>3. readlist' = readlist \o Batch(n)
  BY DEF QueueBatch
<1>4. Batch(n) \in Seq(InMessage) /\ Len(Batch(n)) = n
  <2>1. \A i \in 1 .. n : arrived - batch + i \in InMessage
    BY <1>1, <1>2 DEF InMessage
  <2> QED
    BY <1>2, <2>1 DEF Batch
<1> HIDE DEF n
<1>5. Len(readlist') = Len(readlist) + n /\ readlist' \in Seq(InMessage)
  <2>1. ASSUME NEW s \in Seq(InMessage)
        PROVE  Len(readlist \o s) = Len(readlist) + Len(s) /\ readlist \o s \in Seq(InMessage)
    BY <1>1
  <2> QED
    BY <1>3, <1>4, <2>1
<1> QED
  BY <1>2, <1>5 DEF ReadQueueBounded

(* The read side of the session.                                           *)
LEMMA ReadTypeNext ==
  ASSUME TypeOK, ReadQueueBounded, [Next]_vars
  PROVE  ReadType' /\ ReadQueueBounded'
<1> USE DEF TypeOK, ReadType, ReadQueueBounded
<1>1. CASE Open
  BY <1>1 DEF Open, OpenRegister, OpenActivate, OpenConnect, OpenConnected, readVars, netVars
<1>2. ASSUME NEW t \in Thread, Read(t) \/ Write(t) PROVE ReadType' /\ ReadQueueBounded'
  BY <1>2 DEF Read, Write, WriteCheck, WriteRoom, WritePush, readVars, netVars
<1>3. ASSUME NEW t \in Thread, Close(t) PROVE ReadType' /\ ReadQueueBounded'
  BY <1>3 DEF Close, CloseGently, CloseWhenEmpty, CloseNow, CloseTest, CloseShutdown,
     CloseDisconnect, CloseState, CloseUnregister, closeUnchanged, netVars
<1>4. ASSUME NEW t \in Thread, ProcessIncomingData(t) PROVE ReadType' /\ ReadQueueBounded'
  <2>1. UNCHANGED netVars
    BY <1>4 DEF ProcessIncomingData, ProcessCheck, ProcessEnter, TakeMessage, TakeNothing,
     TakeLooksAtWrites, HandleSync, HandleConcurrent, HandleOrderly, HandleNext, CountEvent,
     processUnchanged
  <2>2. CASE TakeMessage(t)
    <3>1. readlist' = Tail(readlist) /\ readlist # <<>> /\ readevents' = readevents
      BY <2>2 DEF TakeMessage
    <3>2. readlist' \in Seq(InMessage) /\ Len(readlist') = Len(readlist) - 1 /\ Len(readlist) \in Nat
      BY <3>1
    <3> QED
      BY <2>1, <3>1, <3>2, SessionAssumption DEF netVars
  <2>3. CASE ~TakeMessage(t)
    BY <1>4, <2>1, <2>3 DEF ProcessIncomingData, ProcessCheck, ProcessEnter, CountEnd, TakeNothing,
     TakeLooksAtWrites, HandleSync, HandleConcurrent, HandleOrderly, HandleNext, CountEvent,
     readVars, netVars
  <2> QED
    BY <2>2, <2>3
<1>5. ASSUME NEW t \in Thread, ProcessOutgoingData(t) PROVE ReadType' /\ ReadQueueBounded'
  BY <1>5 DEF ProcessOutgoingData, OutCheck, OutEnter, PopAndWrite, PopLast, PopLooksAtReads,
     outUnchanged, readVars, netVars
<1>6. CASE QueueBatch
  BY <1>6, BatchQueued DEF QueueBatch
<1>7. CASE WriteDone \/ CountWrite \/ WriteFails \/ ReadFails
  BY <1>7 DEF WriteDone, CountWrite, WriteFails, ReadFails, onWriteUnchanged, readVars, netVars
<1>8. ASSUME NEW k \in InMessage, Receive(k) PROVE ReadType' /\ ReadQueueBounded'
  BY <1>8, SessionAssumption DEF Receive, readVars, InMessage
<1>9. CASE (\E w \in Worker : RunWork(w)) \/ (\E a \in Application : ApplicationCalls(a))
  BY <1>9 DEF RunWork, ApplicationCalls, readVars, netVars
<1>10. CASE UNCHANGED vars
  BY <1>10 DEF vars, readVars, netVars
<1> QED
  BY <1>1, <1>2, <1>3, <1>4, <1>5, <1>6, <1>7, <1>8, <1>9, <1>10 DEF Next, SessionStep, IoStep

(* The write side of the session.                                          *)
LEMMA WriteTypeNext ==
  ASSUME TypeOK, [Next]_vars
  PROVE  WriteType'
<1>t. /\ writelist \in Seq(OutMessage) /\ writeevents \in Int
      /\ writing \in Seq([message : OutMessage, live : BOOLEAN])
      /\ accepted \in Seq(OutMessage) /\ started \in Seq(OutMessage)
      /\ finished \in Nat /\ socket \in BOOLEAN /\ \A t \in Thread : msg[t] \in OutMessage
  BY DEF TypeOK, WriteType, SessionType, ThreadType
<1>s. ASSUME NEW m \in OutMessage, StartWrite(m)
      PROVE  /\ writing' \in Seq([message : OutMessage, live : BOOLEAN])
             /\ started' \in Seq(OutMessage)
  <2>1. [message |-> m, live |-> socket] \in [message : OutMessage, live : BOOLEAN]
    BY <1>t
  <2> QED
    BY <1>t, <1>s, <2>1 DEF StartWrite
<1>1. CASE Open
  BY <1>1, <1>t DEF WriteType, Open, OpenRegister, OpenActivate, OpenConnect, OpenConnected, writeVars
<1>2. ASSUME NEW t \in Thread, Read(t) \/ WriteCheck(t) \/ WriteRoom(t) PROVE WriteType'
  BY <1>2, <1>t DEF WriteType, Read, WriteCheck, WriteRoom, writeVars
<1>3. ASSUME NEW t \in Thread, WritePush(t) PROVE WriteType'
  <2>1. writelist' \in Seq(OutMessage) /\ accepted' \in Seq(OutMessage)
    BY <1>3, <1>t DEF WritePush
  <2>2. /\ writing' \in Seq([message : OutMessage, live : BOOLEAN])
        /\ started' \in Seq(OutMessage)
    BY <1>3, <1>t, <1>s DEF WritePush
  <2> QED
    BY <1>3, <1>t, <2>1, <2>2 DEF WriteType, WritePush
<1>4. ASSUME NEW t \in Thread, Close(t) PROVE WriteType'
  BY <1>4, <1>t DEF WriteType, Close, CloseGently, CloseWhenEmpty, CloseNow, CloseTest,
     CloseShutdown, CloseDisconnect, CloseState, CloseUnregister, closeUnchanged
<1>5. ASSUME NEW t \in Thread, ProcessIncomingData(t) PROVE WriteType'
  BY <1>5, <1>t DEF WriteType, ProcessIncomingData, ProcessCheck, ProcessEnter, TakeMessage,
     TakeNothing, TakeLooksAtWrites, HandleSync, HandleConcurrent, HandleOrderly, HandleNext,
     CountEvent, processUnchanged, writeVars
<1>6. ASSUME NEW t \in Thread, ProcessOutgoingData(t) PROVE WriteType'
  <2>1. CASE OutCheck(t) \/ PopLooksAtReads(t)
    BY <1>t, <2>1 DEF WriteType, OutCheck, PopLooksAtReads, outUnchanged
  <2>2. CASE OutEnter(t)
    BY <1>t, <2>2 DEF WriteType, OutEnter, CountOutEnd, outUnchanged
  <2>3. CASE PopAndWrite(t)
    <3>1. Rest \in Seq(OutMessage)
      BY <1>t DEF Rest
    <3>2. Rest # <<>> /\ writelist' = Rest /\ Head(Rest) \in OutMessage
      BY <2>3, <3>1 DEF PopAndWrite
    <3>3. /\ writing' \in Seq([message : OutMessage, live : BOOLEAN])
          /\ started' \in Seq(OutMessage)
      BY <1>s, <2>3, <3>2 DEF PopAndWrite
    <3> QED
      BY <1>t, <2>3, <3>1, <3>2, <3>3 DEF WriteType, PopAndWrite, outUnchanged
  <2>4. CASE PopLast(t)
    BY <1>t, <2>4 DEF WriteType, PopLast, outUnchanged
  <2> QED
    BY <1>6, <2>1, <2>2, <2>3, <2>4 DEF ProcessOutgoingData
<1>7. CASE QueueBatch \/ ReadFails \/ \E k \in InMessage : Receive(k)
  BY <1>7, <1>t DEF WriteType, QueueBatch, ReadFails, Receive, writeVars
<1>8. CASE WriteDone \/ WriteFails
  <2>1. writing' = Tail(writing) /\ writing # <<>> /\ finished' = finished + 1
    BY <1>8 DEF WriteDone, WriteFails, EndWrite
  <2>2. writing' \in Seq([message : OutMessage, live : BOOLEAN])
    BY <1>t, <2>1
  <2> QED
    BY <1>8, <1>t, <2>1, <2>2 DEF WriteType, WriteDone, WriteFails, onWriteUnchanged
<1>9. CASE CountWrite
  BY <1>9, <1>t DEF WriteType, CountWrite, onWriteUnchanged
<1>10. CASE (\E w \in Worker : RunWork(w)) \/ (\E a \in Application : ApplicationCalls(a))
  BY <1>10, <1>t DEF WriteType, RunWork, ApplicationCalls, writeVars
<1>11. CASE UNCHANGED vars
  BY <1>11, <1>t DEF WriteType, vars, writeVars
<1> QED
  BY <1>1, <1>2, <1>3, <1>4, <1>5, <1>6, <1>7, <1>8, <1>9, <1>10, <1>11
     DEF Next, SessionStep, Write, IoStep

(* The tasks of the pool, and the messages that were handled.              *)
LEMMA WorkTypeNext ==
  ASSUME TypeOK, WriteTurn, [Next]_vars
  PROVE  WorkType'
<1>t. /\ jobs \subseteq [type : 0 .. 2, message : OutMessage] /\ begun \in Seq(OutMessage)
      /\ writelist \in Seq(OutMessage) /\ \A t \in Thread : msg[t] \in OutMessage
  BY DEF TypeOK, WriteType, WorkType, ThreadType
<1>1. CASE Open
  BY <1>1, <1>t DEF WorkType, Open, OpenRegister, OpenActivate, OpenConnect, OpenConnected, readVars
<1>2. ASSUME NEW t \in Thread, Read(t) \/ Write(t) PROVE WorkType'
  BY <1>2, <1>t DEF WorkType, Read, Write, WriteCheck, WriteRoom, WritePush, readVars
<1>3. ASSUME NEW t \in Thread, Close(t) PROVE WorkType'
  BY <1>3, <1>t DEF WorkType, Close, CloseGently, CloseWhenEmpty, CloseNow, CloseTest,
     CloseShutdown, CloseDisconnect, CloseState, CloseUnregister, closeUnchanged
<1>4. ASSUME NEW t \in Thread, ProcessIncomingData(t) PROVE WorkType'
  <2>1. CASE HandleSync(t) \/ HandleConcurrent(t) \/ HandleOrderly(t)
    <3>1. begun' = Append(begun, msg[t])
      BY <2>1 DEF HandleSync, HandleConcurrent, HandleOrderly
    <3>2. jobs' \subseteq jobs \cup {[type |-> 0, message |-> msg[t]], [type |-> 1, message |-> msg[t]]}
      BY <2>1 DEF HandleSync, HandleConcurrent, HandleOrderly
    <3> QED
      BY <1>t, <3>1, <3>2 DEF WorkType
  <2>2. CASE UNCHANGED <<begun, jobs>>
    BY <1>t, <2>2 DEF WorkType
  <2> QED
    BY <1>4, <2>1, <2>2 DEF ProcessIncomingData, ProcessCheck, ProcessEnter, TakeMessage,
       TakeNothing, TakeLooksAtWrites, HandleNext, CountEvent, readVars
<1>5. ASSUME NEW t \in Thread, ProcessOutgoingData(t) PROVE WorkType'
  BY <1>5, <1>t DEF WorkType, ProcessOutgoingData, OutCheck, OutEnter, PopAndWrite, PopLast,
     PopLooksAtReads, outUnchanged, readVars
<1>6. CASE QueueBatch \/ ReadFails \/ \E k \in InMessage : Receive(k)
  BY <1>6, <1>t DEF WorkType, QueueBatch, ReadFails, Receive, readVars
<1>7. CASE WriteDone
  <2>1. writelist # <<>>
    BY <1>7 DEF WriteDone, EndWrite, WriteTurn, PhaseIdle, PhaseWriting, PhaseJob, PhaseTurn
  <2>2. Head(writelist) \in OutMessage
    BY <1>t, <2>1
  <2>3. jobs' \subseteq jobs \cup {[type |-> 2, message |-> Head(writelist)]}
    BY <1>7 DEF WriteDone
  <2> QED
    BY <1>7, <1>t, <2>2, <2>3 DEF WorkType, WriteDone, onWriteUnchanged, readVars
<1>8. CASE CountWrite \/ WriteFails
  BY <1>8, <1>t DEF WorkType, CountWrite, WriteFails, onWriteUnchanged, readVars
<1>9. CASE (\E w \in Worker : RunWork(w)) \/ (\E a \in Application : ApplicationCalls(a))
  BY <1>9, <1>t DEF WorkType, RunWork, ApplicationCalls, readVars
<1>10. CASE UNCHANGED vars
  BY <1>10, <1>t DEF WorkType, vars, readVars
<1> QED
  BY <1>1, <1>2, <1>3, <1>4, <1>5, <1>6, <1>7, <1>8, <1>9, <1>10 DEF Next, SessionStep, IoStep

(* The mutexes, and what each thread has at hand.                          *)
DataType ==
  /\ owner \in [Lock -> Thread \cup {Nobody}]
  /\ msg \in [Thread -> OutMessage]
  /\ last \in [Thread -> BOOLEAN]

(* A mutex that is acquired or released has an owner, or nobody.           *)
LEMMA OwnerType ==
  ASSUME owner \in [Lock -> Thread \cup {Nobody}]
  PROVE  /\ \A t \in Thread : \A l \in Lock :
              Acquire(t, l) => owner' \in [Lock -> Thread \cup {Nobody}]
         /\ \A ls : Release(ls) => owner' \in [Lock -> Thread \cup {Nobody}]
BY DEF Acquire, Release

(* Only TakeMessage and RunWork change what a thread has at hand.          *)
LEMMA DataTypeNext ==
  ASSUME TypeOK, [Next]_vars
  PROVE  DataType'
<1>t. /\ owner \in [Lock -> Thread \cup {Nobody}]
      /\ msg \in [Thread -> OutMessage] /\ last \in [Thread -> BOOLEAN]
      /\ jobs \subseteq [type : 0 .. 2, message : OutMessage]
      /\ readlist \in Seq(InMessage)
  BY DEF TypeOK, ThreadType, WorkType, ReadType
<1>l. {"write", "read", "processread", "processwrite", "closing"} = Lock
  BY DEF Lock
<1>o. \/ UNCHANGED owner
      \/ \E t \in Thread : \E l \in Lock : Acquire(t, l)
      \/ \E ls : Release(ls)
  <2>1. CASE Open
    BY <2>1 DEF Open, OpenRegister, OpenActivate, OpenConnect, OpenConnected
  <2>2. ASSUME NEW t \in Thread, SessionStep(t)
        PROVE  \/ UNCHANGED owner
               \/ \E l \in Lock : Acquire(t, l)
               \/ \E ls : Release(ls)
    <3>1. CASE Read(t) \/ Write(t)
      BY <3>1 DEF Read, Write, WriteCheck, WriteRoom, WritePush
    <3>2. CASE Close(t)
      BY <1>l, <3>2 DEF Close, CloseGently, CloseWhenEmpty, CloseNow, CloseTest,
         CloseShutdown, CloseDisconnect, CloseState, CloseUnregister
    <3>3. CASE ProcessIncomingData(t)
      BY <1>l, <3>3 DEF ProcessIncomingData, ProcessCheck, ProcessEnter, EnterLoop, TakeMessage,
         TakeNothing, TakeLooksAtWrites, HandleSync, HandleConcurrent, HandleOrderly, HandleNext,
         CountEvent
    <3>4. CASE ProcessOutgoingData(t)
      BY <1>l, <3>4 DEF ProcessOutgoingData, OutCheck, OutEnter, PopAndWrite, PopLast,
         PopLooksAtReads
    <3> QED
      BY <2>2, <3>1, <3>2, <3>3, <3>4 DEF SessionStep
  <2>3. CASE IoStep \/ ReadFails \/ \E k \in InMessage : Receive(k)
    BY <2>3 DEF IoStep, QueueBatch, WriteDone, CountWrite, WriteFails, ReadFails, Receive,
       onWriteUnchanged
  <2>4. CASE (\E w \in Worker : RunWork(w)) \/ (\E a \in Application : ApplicationCalls(a))
    BY <2>4 DEF RunWork, ApplicationCalls
  <2>5. CASE UNCHANGED vars
    BY <2>5 DEF vars
  <2> QED
    BY <2>1, <2>2, <2>3, <2>4, <2>5 DEF Next
<1>1. owner' \in [Lock -> Thread \cup {Nobody}]
  BY <1>o, <1>t, OwnerType
<1>m. \/ UNCHANGED <<msg, last>>
      \/ \E t \in Thread : TakeMessage(t)
      \/ \E w \in Worker : RunWork(w)
  <2>1. CASE Open
    BY <2>1 DEF Open, OpenRegister, OpenActivate, OpenConnect, OpenConnected
  <2>2. ASSUME NEW t \in Thread, SessionStep(t)
        PROVE  UNCHANGED <<msg, last>> \/ TakeMessage(t)
    <3>1. CASE Read(t) \/ Write(t)
      BY <3>1 DEF Read, Write, WriteCheck, WriteRoom, WritePush
    <3>2. CASE Close(t)
      BY <3>2 DEF Close, CloseGently, CloseWhenEmpty, CloseNow, CloseTest,
         CloseShutdown, CloseDisconnect, CloseState, CloseUnregister, closeUnchanged
    <3>3. CASE ProcessIncomingData(t)
      BY <3>3 DEF ProcessIncomingData, ProcessCheck, ProcessEnter, TakeNothing,
         TakeLooksAtWrites, HandleSync, HandleConcurrent, HandleOrderly, HandleNext, CountEvent
    <3>4. CASE ProcessOutgoingData(t)
      BY <3>4 DEF ProcessOutgoingData, OutCheck, OutEnter, PopAndWrite, PopLast,
         PopLooksAtReads, outUnchanged
    <3> QED
      BY <2>2, <3>1, <3>2, <3>3, <3>4 DEF SessionStep
  <2>3. CASE IoStep \/ ReadFails \/ \E k \in InMessage : Receive(k)
    BY <2>3 DEF IoStep, QueueBatch, WriteDone, CountWrite, WriteFails, ReadFails, Receive,
       onWriteUnchanged
  <2>4. CASE (\E w \in Worker : RunWork(w)) \/ (\E a \in Application : ApplicationCalls(a))
    BY <2>4 DEF ApplicationCalls
  <2>5. CASE UNCHANGED vars
    BY <2>5 DEF vars, threadVars
  <2> QED
    BY <2>1, <2>2, <2>3, <2>4, <2>5 DEF Next
<1>2. msg' \in [Thread -> OutMessage] /\ last' \in [Thread -> BOOLEAN]
  <2>1. ASSUME NEW t \in Thread, TakeMessage(t)
        PROVE  msg' \in [Thread -> OutMessage] /\ last' \in [Thread -> BOOLEAN]
    <3>1. Head(readlist) \in OutMessage
      BY <1>t, <2>1, InIsOut DEF TakeMessage
    <3>2. msg' = [msg EXCEPT ![t] = Head(readlist)]
          /\ last' = [last EXCEPT ![t] = (Tail(readlist) = <<>>)]
      BY <2>1 DEF TakeMessage
    <3>3. (Tail(readlist) = <<>>) \in BOOLEAN
      OBVIOUS
    <3> QED
      BY <1>t, <3>1, <3>2, <3>3
  <2>2. ASSUME NEW w \in Worker, RunWork(w)
        PROVE  msg' \in [Thread -> OutMessage] /\ last' \in [Thread -> BOOLEAN]
    BY <1>t, <2>2, ThreadParts DEF RunWork
  <2> QED
    BY <1>m, <1>t, <2>1, <2>2
<1> QED
  BY <1>1, <1>2 DEF DataType

-----------------------------------------------------------------------------
(* The invariant, and the theorems.                                        *)

(* It holds of a new session. *)
LEMMA SessionInit == Init => SessionInv
<1> SUFFICES ASSUME Init PROVE SessionInv
  OBVIOUS
<1> USE SessionAssumption
<1>1. SessionType
  BY DEF Init, SessionType
<1>r. ReadType /\ ReadQueueBounded
  <2>1. readlist = <<>> /\ Len(readlist) = 0 /\ readlist \in Seq(InMessage)
    BY DEF Init
  <2>2. readevents = 0 /\ reading = "none" /\ arrived = 0 /\ batch = 0
    BY DEF Init
  <2> QED
    BY <2>1, <2>2 DEF ReadType, ReadQueueBounded
<1>2. WriteType /\ WorkType
  BY DEF Init, WriteType, WorkType
<1>3. 0 \in OutMessage /\ Writer \subseteq OutMessage
  BY DEF OutMessage
<1>4. ThreadType
  BY <1>3 DEF Init, ThreadType, PC, OpenPC
<1>5. Places /\ NoTurn
  BY <1>4 DEF Init, ThreadType, Places, NoTurn, Popping, Turn, CallPC, WritePC, CloseNowPC
<1>6. WriteTurn
  BY <1>5 DEF Init, WriteTurn, PhaseIdle, NoJob, OrderlyWrites
<1> QED
  BY <1>1, <1>r, <1>2, <1>4, <1>5, <1>6 DEF SessionInv, TypeOK

(* It is inductive: the types, the places and the turn rest on each other. *)
LEMMA SessionNext == SessionInv /\ [Next]_vars => SessionInv'
<1> SUFFICES ASSUME SessionInv, [Next]_vars PROVE SessionInv'
  OBVIOUS
<1>1. Places' /\ WriteTurn'
  BY TurnNext DEF SessionInv
<1>2. SessionType' /\ ReadType' /\ WriteType' /\ WorkType' /\ DataType' /\ ReadQueueBounded'
  BY SessionTypeNext, ReadTypeNext, WriteTypeNext, WorkTypeNext, DataTypeNext DEF SessionInv
<1>3. ThreadType'
  BY <1>1, <1>2 DEF Places, DataType, ThreadType
<1> QED
  BY <1>1, <1>2, <1>3 DEF SessionInv, TypeOK

(* The invariant holds in every execution. *)
THEOREM SessionInvariant == Spec => []SessionInv
BY SessionInit, SessionNext, PTL DEF Spec

(* The variables of a session keep their types. *)
THEOREM SessionTypeOK == Spec => []TypeOK
<1>1. SessionInv => TypeOK
  BY DEF SessionInv
<1> QED
  BY <1>1, SessionInvariant, PTL

(* OnRead never queues more messages than m_maxreadqueuesize, whatever the *)
(* batches the codec makes and however many workers take messages.         *)
THEOREM SessionReadQueueBounded == Spec => []ReadQueueBounded
<1>1. SessionInv => ReadQueueBounded
  BY DEF SessionInv
<1> QED
  BY <1>1, SessionInvariant, PTL

(* The session has one write under way at a time, that of the message in   *)
(* front of the queue, though Write, OnWrite and workers all start writes. *)
THEOREM SessionOneWriteAtATime == Spec => []OneWriteAtATime
<1>1. SessionInv => OneWriteAtATime
  <2> SUFFICES ASSUME SessionInv PROVE OneWriteAtATime
    OBVIOUS
  <2>1. writing \in Seq([message : OutMessage, live : BOOLEAN])
    BY DEF SessionInv, TypeOK, WriteType
  <2>2. CASE PhaseWriting
    BY <2>1, <2>2 DEF PhaseWriting, OneWriteAtATime
  <2>3. CASE writing = <<>>
    BY <2>3 DEF OneWriteAtATime
  <2> QED
    BY <2>2, <2>3 DEF SessionInv, WriteTurn, PhaseIdle, PhaseJob, PhaseTurn
<1> QED
  BY <1>1, SessionInvariant, PTL

-----------------------------------------------------------------------------
(* The order of the messages sent.                                         *)

(* How many messages have left the queue.                                  *)
Removed == Len(accepted) - Len(writelist)

(* The queue is the end of what was accepted, what was started its         *)
(* beginning, up to the front of the queue, and all of it is finished but  *)
(* the write under way.                                                    *)
QueueOrder ==
  /\ Removed \in Nat
  /\ Len(started) = Removed + (IF writelist = <<>> THEN 0 ELSE 1)
  /\ finished = Len(started) - Len(writing)
  /\ \A i \in 1 .. Len(writelist) : writelist[i] = accepted[Removed + i]
  /\ \A i \in 1 .. Len(started) : started[i] = accepted[i]

sendVars == <<writelist, writing, accepted, started, finished>>

(* Five steps change the queue and the writes.                             *)
LEMMA SendSteps ==
  ASSUME [Next]_vars
  PROVE  \/ UNCHANGED sendVars
         \/ \E t \in Thread : WritePush(t) \/ PopAndWrite(t) \/ PopLast(t)
         \/ WriteDone \/ WriteFails
<1> USE DEF sendVars
<1>1. CASE Open
  BY <1>1 DEF Open, OpenRegister, OpenActivate, OpenConnect, OpenConnected, writeVars
<1>2. ASSUME NEW t \in Thread, SessionStep(t)
      PROVE  UNCHANGED sendVars \/ WritePush(t) \/ PopAndWrite(t) \/ PopLast(t)
  <2>1. CASE Read(t) \/ WriteCheck(t) \/ WriteRoom(t)
    BY <2>1 DEF Read, WriteCheck, WriteRoom, writeVars
  <2>2. CASE Close(t)
    BY <2>2 DEF Close, CloseGently, CloseWhenEmpty, CloseNow, CloseTest,
       CloseShutdown, CloseDisconnect, CloseState, CloseUnregister, closeUnchanged
  <2>3. CASE ProcessIncomingData(t)
    BY <2>3 DEF ProcessIncomingData, ProcessCheck, ProcessEnter, TakeMessage, TakeNothing,
       TakeLooksAtWrites, HandleSync, HandleConcurrent, HandleOrderly, HandleNext, CountEvent,
       processUnchanged, writeVars
  <2>4. CASE OutCheck(t) \/ OutEnter(t) \/ PopLooksAtReads(t)
    BY <2>4 DEF OutCheck, OutEnter, PopLooksAtReads, outUnchanged
  <2> QED
    BY <1>2, <2>1, <2>2, <2>3, <2>4 DEF SessionStep, Write, ProcessOutgoingData
<1>3. CASE QueueBatch \/ CountWrite \/ ReadFails \/ \E k \in InMessage : Receive(k)
  BY <1>3 DEF QueueBatch, CountWrite, ReadFails, Receive, onWriteUnchanged, writeVars
<1>4. CASE (\E w \in Worker : RunWork(w)) \/ (\E a \in Application : ApplicationCalls(a))
  BY <1>4 DEF RunWork, ApplicationCalls, writeVars
<1>5. CASE UNCHANGED vars
  BY <1>5 DEF vars, writeVars
<1> QED
  BY <1>1, <1>2, <1>3, <1>4, <1>5 DEF Next, IoStep

(* Who has the turn to write in a step that changes the queue.             *)
LEMMA TurnFacts ==
  ASSUME SessionInv
  PROVE  /\ writelist = <<>> => writing = <<>>
         /\ writing # <<>> => Len(writing) = 1
         /\ \A t \in Thread : At(t, "pop") => writelist # <<>> /\ writing = <<>>
<1>1. ASSUME NEW t \in Thread, At(t, "pop") PROVE PhaseTurn
  <2>1. Popping(t)
    BY <1>1 DEF At, Popping, Turn
  <2> QED
    BY <2>1 DEF SessionInv, WriteTurn, PhaseIdle, PhaseWriting, PhaseJob, NoTurn
<1> QED
  BY <1>1 DEF SessionInv, WriteTurn, PhaseIdle, PhaseWriting, PhaseJob, PhaseTurn

(* Every step keeps the order: the front leaves as the next is started.    *)
LEMMA OrderNext == SessionInv /\ QueueOrder /\ [Next]_vars => QueueOrder'
<1> SUFFICES ASSUME SessionInv, QueueOrder, [Next]_vars PROVE QueueOrder'
  OBVIOUS
<1>t. /\ writelist \in Seq(OutMessage) /\ accepted \in Seq(OutMessage)
      /\ started \in Seq(OutMessage) /\ finished \in Nat
      /\ writing \in Seq([message : OutMessage, live : BOOLEAN])
      /\ \A t \in Thread : msg[t] \in OutMessage
  BY DEF SessionInv, TypeOK, WriteType, ThreadType
<1>n. /\ Len(writelist) \in Nat /\ Len(accepted) \in Nat /\ Len(started) \in Nat
      /\ Removed \in Nat /\ Len(accepted) = Removed + Len(writelist)
  BY <1>t DEF QueueOrder, Removed
<1>1. CASE UNCHANGED sendVars
  BY <1>1 DEF sendVars, QueueOrder, Removed
<1>2. ASSUME NEW t \in Thread, WritePush(t) PROVE QueueOrder'
  <2>1. writelist' = Append(writelist, msg[t]) /\ accepted' = Append(accepted, msg[t])
        /\ finished' = finished
    BY <1>2 DEF WritePush
  <2>2. /\ Len(writelist') = Len(writelist) + 1 /\ Len(accepted') = Len(accepted) + 1
        /\ writelist' # <<>>
    BY <1>t, <2>1, SMTT(30)
  <2>3. Removed' = Removed
    BY <1>t, <2>2 DEF Removed
  <2>4. \A i \in 1 .. Len(writelist') : writelist'[i] = accepted'[Removed + i]
    <3> SUFFICES ASSUME NEW i \in 1 .. Len(writelist) + 1
                 PROVE  writelist'[i] = accepted'[Removed + i]
      BY <2>2
    <3>1. CASE i = Len(writelist) + 1
      <4>1. writelist'[i] = msg[t] /\ accepted'[Len(accepted) + 1] = msg[t]
        BY <1>t, <2>1, <3>1
      <4> QED
        BY <1>n, <3>1, <4>1
    <3>2. CASE i # Len(writelist) + 1
      <4>1. i \in 1 .. Len(writelist) /\ Removed + i \in 1 .. Len(accepted)
        BY <1>n, <3>2
      <4>2. writelist'[i] = writelist[i] /\ accepted'[Removed + i] = accepted[Removed + i]
        BY <1>t, <2>1, <4>1
      <4> QED
        BY <4>1, <4>2 DEF QueueOrder
    <3> QED
      BY <3>1, <3>2
  <2>5. CASE writelist = <<>>
    <3>1. writing = <<>> /\ Len(writing') = 1 /\ started' = Append(started, msg[t])
      BY <1>2, <2>5, TurnFacts DEF WritePush, StartWrite
    <3>2. Len(started) = Len(accepted)
      BY <1>t, <2>5 DEF QueueOrder, Removed
    <3>3. Len(started') = Removed' + 1 /\ finished' = Len(started') - Len(writing')
      BY <1>t, <2>1, <2>3, <2>5, <3>1 DEF QueueOrder
    <3>4. \A i \in 1 .. Len(started') : started'[i] = accepted'[i]
      BY <1>t, <2>1, <3>1, <3>2 DEF QueueOrder
    <3> QED
      BY <2>2, <2>3, <2>4, <3>3, <3>4 DEF QueueOrder
  <2>6. CASE writelist # <<>>
    <3>1. writing' = writing /\ started' = started
      BY <1>2, <2>6 DEF WritePush
    <3>2. Len(started) <= Len(accepted)
      <4>1. Len(writelist) > 0
        BY <1>t, <2>6
      <4> QED
        BY <1>t, <4>1 DEF QueueOrder, Removed
    <3>3. \A i \in 1 .. Len(started') : started'[i] = accepted'[i]
      BY <1>t, <2>1, <3>1, <3>2 DEF QueueOrder
    <3> QED
      BY <2>1, <2>2, <2>3, <2>4, <2>6, <3>1, <3>3 DEF QueueOrder
  <2> QED
    BY <2>5, <2>6
<1>3. ASSUME NEW t \in Thread, PopAndWrite(t) \/ PopLast(t) PROVE QueueOrder'
  <2>1. writelist # <<>> /\ writing = <<>> /\ Rest = Tail(writelist)
    BY <1>3, TurnFacts DEF PopAndWrite, PopLast, Rest
  <2>2. /\ writelist' = Tail(writelist) /\ accepted' = accepted /\ finished' = finished
    BY <1>3, <2>1 DEF PopAndWrite, PopLast, outUnchanged
  <2>3. /\ Len(writelist') = Len(writelist) - 1 /\ Len(writelist) \in Nat
        /\ \A i \in 1 .. Len(writelist') : writelist'[i] = writelist[i + 1]
    BY <1>t, <2>1, <2>2
  <2>4. Removed' = Removed + 1 /\ Removed \in Nat
    <3>1. Len(accepted') = Len(accepted) /\ Len(writelist') = Len(writelist) - 1
      BY <2>2, <2>3
    <3>2. Removed' = Len(accepted) - (Len(writelist) - 1)
      BY <3>1 DEF Removed
    <3> QED
      BY <1>n, <3>2
  <2>5. \A i \in 1 .. Len(writelist') : writelist'[i] = accepted'[Removed' + i]
    <3> SUFFICES ASSUME NEW i \in 1 .. Len(writelist')
                 PROVE  writelist'[i] = accepted[Removed + 1 + i]
      BY <2>2, <2>4
    <3>1. i + 1 \in 1 .. Len(writelist) /\ Removed + (i + 1) = Removed + 1 + i
      BY <2>3, <2>4
    <3>2. writelist[i + 1] = accepted[Removed + (i + 1)]
      BY <3>1 DEF QueueOrder
    <3> QED
      BY <2>3, <3>1, <3>2
  <2>6. Len(started) = Removed + 1 /\ finished = Len(started)
    BY <1>t, <2>1 DEF QueueOrder
  <2>7. CASE PopAndWrite(t)
    <3>1. /\ writelist' # <<>> /\ Len(writing') = 1
          /\ started' = Append(started, Head(writelist'))
      BY <2>1, <2>2, <2>7 DEF PopAndWrite, StartWrite
    <3>2. Head(writelist') = accepted[Len(started) + 1] /\ Head(writelist') \in OutMessage
      <4>1. writelist' \in Seq(OutMessage) /\ Len(writelist') > 0
        BY <1>t, <2>1, <2>2, <3>1
      <4>2. Head(writelist') = writelist'[1]
        BY <4>1
      <4>3. writelist'[1] = accepted[Removed + 1 + 1]
        BY <2>2, <2>4, <2>5, <4>1
      <4> QED
        BY <2>6, <4>1, <4>2, <4>3
    <3>3. Len(started') = Len(started) + 1
          /\ \A i \in 1 .. Len(started') : started'[i] = accepted'[i]
      BY <1>t, <2>2, <3>1, <3>2, SMTT(30) DEF QueueOrder
    <3>4. Removed' \in Nat /\ Len(started') = Removed' + 1
          /\ finished' = Len(started') - Len(writing')
      BY <1>n, <2>2, <2>4, <2>6, <3>1, <3>3
    <3> QED
      BY <2>5, <3>1, <3>3, <3>4 DEF QueueOrder
  <2>8. CASE PopLast(t)
    <3>1. writelist' = <<>> /\ started' = started /\ writing' = writing
      BY <2>8 DEF PopLast
    <3>2. Removed' \in Nat /\ Len(started') = Removed'
          /\ finished' = Len(started') - Len(writing')
      BY <1>n, <2>1, <2>2, <2>4, <2>6, <3>1
    <3>3. \A i \in 1 .. Len(started') : started'[i] = accepted'[i]
      BY <2>2, <3>1 DEF QueueOrder
    <3>4. Len(started') = Removed' + (IF writelist' = <<>> THEN 0 ELSE 1)
      <4>1. (IF writelist' = <<>> THEN 0 ELSE 1) = 0
        BY <3>1
      <4>2. Len(started') = Removed' + 0
        <5>1. \A n \in Nat : n = n + 0
          OBVIOUS
        <5>2. Removed' \in Nat /\ Len(started') = Removed'
          BY <3>2
        <5> QED
          BY <5>1, <5>2
      <4> QED
        BY <4>1, <4>2
    <3> QED
      BY <2>5, <3>2, <3>3, <3>4 DEF QueueOrder
  <2> QED
    BY <1>3, <2>7, <2>8
<1>4. CASE WriteDone \/ WriteFails
  <2>1. /\ writing # <<>> /\ writing' = Tail(writing) /\ finished' = finished + 1
        /\ UNCHANGED <<writelist, accepted, started>>
    BY <1>4 DEF WriteDone, WriteFails, EndWrite, onWriteUnchanged
  <2>2. Len(writing) = 1 /\ Len(writing') = 0
    BY <1>t, <2>1, TurnFacts
  <2> QED
    BY <1>t, <2>1, <2>2 DEF QueueOrder, Removed
<1> QED
  BY <1>1, <1>2, <1>3, <1>4, SendSteps

(* It holds of the empty queue. *)
LEMMA OrderInit == Init => QueueOrder
<1> SUFFICES ASSUME Init PROVE QueueOrder
  OBVIOUS
<1>1. /\ writelist = <<>> /\ accepted = <<>> /\ started = <<>> /\ writing = <<>>
      /\ finished = 0
  BY DEF Init
<1>2. Len(writelist) = 0 /\ Len(accepted) = 0 /\ Len(started) = 0 /\ Len(writing) = 0
  BY <1>1
<1>3. Removed = 0
  BY <1>2 DEF Removed
<1> QED
  BY <1>1, <1>2, <1>3 DEF QueueOrder

(* A piece of a sequence is known by its length and its elements.          *)
LEMMA PieceIs ==
  ASSUME NEW S, NEW s \in Seq(S), NEW p \in Seq(S), NEW k \in Nat,
         k + Len(p) <= Len(s), \A i \in 1 .. Len(p) : p[i] = s[k + i]
  PROVE  p = SubSeq(s, k + 1, k + Len(p))
<1> DEFINE q == SubSeq(s, k + 1, k + Len(p))
<1>1. q \in Seq(S) /\ Len(q) = Len(p) /\ \A i \in 1 .. Len(p) : q[i] = s[k + i]
  BY SubSeqProperties
<1> HIDE DEF q
<1>2. p = q
  BY <1>1
<1> QED
  BY <1>2 DEF q

(* Messages are sent in the order the Write calls queued them, each once,  *)
(* and none leaves the queue before its write has ended.                   *)
THEOREM SessionWritesKeepOrder == Spec => []WritesKeepOrder
<1>1. SessionInv /\ QueueOrder => WritesKeepOrder
  <2> SUFFICES ASSUME SessionInv, QueueOrder PROVE WritesKeepOrder
    OBVIOUS
  <2>t. /\ writelist \in Seq(OutMessage) /\ accepted \in Seq(OutMessage)
        /\ started \in Seq(OutMessage) /\ finished \in Nat
        /\ writing \in Seq([message : OutMessage, live : BOOLEAN])
    BY DEF SessionInv, TypeOK, WriteType
  <2>1. Removed \in Nat /\ Len(accepted) = Removed + Len(writelist)
    BY <2>t DEF QueueOrder, Removed
  <2>2. writelist = SubSeq(accepted, Removed + 1, Len(accepted))
    BY <2>t, <2>1, PieceIs DEF QueueOrder
  <2>3. /\ Len(started) <= Len(accepted) /\ Len(started) <= Removed + 1
        /\ Removed <= Len(started)
    <3>1. CASE writelist = <<>>
      BY <2>t, <2>1, <3>1 DEF QueueOrder
    <3>2. CASE writelist # <<>>
      <4>1. Len(writelist) >= 1
        BY <2>t, <3>2
      <4>2. Len(started) = Removed + 1
        BY <3>2 DEF QueueOrder
      <4> QED
        BY <2>t, <2>1, <4>1, <4>2
    <3> QED
      BY <3>1, <3>2
  <2>4. started = SubSeq(accepted, 1, Len(started))
    <3>1. \A i \in 1 .. Len(started) : started[i] = accepted[0 + i]
      BY DEF QueueOrder
    <3>2. started = SubSeq(accepted, 0 + 1, 0 + Len(started))
      BY <2>t, <2>3, <3>1, PieceIs
    <3> QED
      BY <2>t, <3>2
  <2>5. Removed <= finished /\ finished <= Len(started)
    <3>1. CASE writing = <<>>
      <4>1. finished = Len(started)
        BY <2>t, <3>1 DEF QueueOrder
      <4> QED
        BY <2>t, <2>3, <4>1
    <3>2. CASE writing # <<>>
      <4>1. Len(writing) = 1 /\ writelist # <<>>
        BY <3>2, TurnFacts
      <4>2. Len(started) = Removed + 1 /\ finished = Len(started) - 1
        BY <4>1 DEF QueueOrder
      <4> QED
        BY <2>t, <2>1, <4>2
    <3> QED
      BY <3>1, <3>2
  <2> QED
    BY <2>2, <2>3, <2>4, <2>5 DEF WritesKeepOrder, Removed
<1>2. SessionInv /\ QueueOrder /\ [Next]_vars => SessionInv' /\ QueueOrder'
  BY SessionNext, OrderNext
<1> QED
  BY <1>1, <1>2, SessionInit, OrderInit, PTL DEF Spec

-----------------------------------------------------------------------------
(* Before the session is open.                                             *)

(* Where a thread can be that has no part in opening the session, and only *)
(* returns to where the application called from.                           *)
DormantPC == {"idle", "ready", "done", "write", "close", "closeread", "closenow", "closetest",
              "closed", "unregister"}
Dormant(t) == pc[t] \in DormantPC /\ (pc[t] \in CallPC => ret[t] = "done")

(* Until Open has activated the session nothing is read, written or        *)
(* handled, whatever the application calls.                                *)
BeforeOpen == pc[Opener] \in {"open", "activate"}
NotYetOpen ==
  BeforeOpen =>
    /\ state # 1 /\ disconnects = 0 /\ reading = "none"
    /\ readlist = <<>> /\ writelist = <<>> /\ writing = <<>> /\ jobs = {}
    /\ \A t \in Thread \ {Opener} : Dormant(t)

(* Where the steps of each part of the session start.                      *)
LEMMA StepPlaces ==
  ASSUME NEW t
  PROVE  /\ Read(t) => pc[t] = "startread"
         /\ Write(t) => pc[t] \in WritePC
         /\ Close(t) => pc[t] \in CloseNowPC \cup {"close", "closeread"}
         /\ ProcessIncomingData(t) => pc[t] \in IncomingPC
         /\ ProcessOutgoingData(t) => pc[t] \in OutgoingPC
<1> USE DEF At
<1>1. Read(t) => pc[t] = "startread"
  BY DEF Read
<1>2. Write(t) => pc[t] \in WritePC
  BY DEF Write, WriteCheck, WriteRoom, WritePush, WritePC
<1>3. Close(t) => pc[t] \in CloseNowPC \cup {"close", "closeread"}
  BY DEF Close, CloseGently, CloseWhenEmpty, CloseNow, CloseTest, CloseShutdown,
     CloseDisconnect, CloseState, CloseUnregister, CloseNowPC
<1>4. ProcessIncomingData(t) => pc[t] \in IncomingPC
  BY DEF ProcessIncomingData, ProcessCheck, ProcessEnter, CountEnd, TakeMessage, TakeNothing,
     TakeLooksAtWrites, HandleSync, HandleConcurrent, HandleOrderly, HandleNext, CountEvent,
     IncomingPC
<1>5. ProcessOutgoingData(t) => pc[t] \in OutgoingPC
  BY DEF ProcessOutgoingData, OutCheck, OutEnter, CountOutEnd, PopAndWrite, PopLast,
     PopLooksAtReads, OutgoingPC
<1> QED
  BY <1>1, <1>2, <1>3, <1>4, <1>5

(* The places on the way into and out of the session.                      *)
EndPC == {"open", "activate", "shutdown", "disconnect", "closed", "unregister"}

(* No thread enters or leaves them.                                        *)
EndingsKept ==
  \A t \in Thread : pc[t] \in EndPC \/ pc'[t] \in EndPC => pc'[t] = pc[t]

(* It is so when the thread that steps goes from elsewhere to elsewhere.   *)
LEMMA ElsewhereKept ==
  ASSUME Places, NEW t \in Thread, pc[t] \notin EndPC
  PROVE  /\ \A l : Goto(t, l) /\ l \notin EndPC => EndingsKept
         /\ \A l, r : Call(t, l, r) /\ l \notin EndPC => EndingsKept
         /\ Return(t) /\ pc[t] \in CallPC => EndingsKept
         /\ \A r : MayCall(t, r) /\ r \notin EndPC => EndingsKept
<1>1. ASSUME NEW l, pc' = [pc EXCEPT ![t] = l], l \notin EndPC PROVE EndingsKept
  BY <1>1 DEF Places, EndingsKept
<1>2. \A l : Goto(t, l) /\ l \notin EndPC => EndingsKept
  BY <1>1 DEF Goto
<1>3. \A l, r : Call(t, l, r) /\ l \notin EndPC => EndingsKept
  BY <1>1 DEF Call
<1>4. Return(t) /\ pc[t] \in CallPC => EndingsKept
  <2>1. pc[t] \in CallPC => ret[t] \notin EndPC
    BY DEF Places, ReturnPC, EndPC
  <2> QED
    BY <1>2, <2>1 DEF Return
<1>5. ASSUME NEW r, MayCall(t, r), r \notin EndPC PROVE EndingsKept
  <2>1. PICK c \in HandlerCalls : IF c = "none" THEN Call(t, r, r) ELSE Call(t, c, r)
    BY <1>5 DEF MayCall
  <2>2. c \notin EndPC
    BY SessionAssumption DEF EndPC
  <2> QED
    BY <1>3, <1>5, <2>1, <2>2
<1> QED
  BY <1>2, <1>3, <1>4, <1>5

(* What the end of a session is made of.                                   *)
endVars == <<state, socket, registered, disconnects>>

(* The steps that open the session or end it, and what the others leave    *)
(* alone.                                                                  *)
LEMMA EndSteps ==
  ASSUME Places, [Next]_vars
  PROVE  \/ OpenRegister \/ OpenActivate
         \/ \E t \in Thread : \/ CloseTest(t) \/ CloseShutdown(t) \/ CloseDisconnect(t)
                              \/ CloseState(t) \/ CloseUnregister(t)
         \/ UNCHANGED endVars /\ EndingsKept
<1> USE ThreadParts DEF At
<1>1. CASE OpenConnect \/ OpenConnected
  <2>1. UNCHANGED endVars /\ pc[Opener] \notin EndPC
    BY <1>1 DEF OpenConnect, OpenConnected, endVars, sessionVars, EndPC
  <2>2. MayCall(Opener, "connected") \/ \E l \in {"startread", "idle"} : Goto(Opener, l)
    BY <1>1 DEF OpenConnect, OpenConnected
  <2> QED
    BY <2>1, <2>2, ElsewhereKept DEF EndPC
<1>2. ASSUME NEW t \in Thread, Read(t) \/ Write(t) PROVE UNCHANGED endVars /\ EndingsKept
  <2>1. UNCHANGED endVars /\ pc[t] \in {"startread"} \cup WritePC
    BY <1>2, StepPlaces DEF Read, Write, WriteCheck, WriteRoom, WritePush, endVars, sessionVars
  <2>2. \/ \E l \in {"idle", "room", "push", "closenow"} : Goto(t, l)
        \/ Return(t) /\ pc[t] \in CallPC
    BY <1>2 DEF Read, Write, WriteCheck, WriteRoom, WritePush, CallPC, WritePC
  <2>3. pc[t] \notin EndPC
    BY <2>1 DEF EndPC, WritePC
  <2> QED
    BY <2>1, <2>2, <2>3, ElsewhereKept DEF EndPC
<1>3. ASSUME NEW t \in Thread, CloseGently(t) \/ CloseWhenEmpty(t) \/ CloseNow(t)
      PROVE  UNCHANGED endVars /\ EndingsKept
  <2>1. UNCHANGED endVars /\ pc[t] \notin EndPC /\ pc[t] \in CallPC
    BY <1>3 DEF CloseGently, CloseWhenEmpty, CloseNow, endVars, sessionVars, EndPC, CallPC,
       CloseNowPC
  <2>2. (\E l \in {"closeread", "closenow", "closetest"} : Goto(t, l)) \/ Return(t)
    BY <1>3 DEF CloseGently, CloseWhenEmpty, CloseNow
  <2> QED
    BY <2>1, <2>2, ElsewhereKept DEF EndPC
<1>4. ASSUME NEW t \in Thread, ProcessIncomingData(t) PROVE UNCHANGED endVars /\ EndingsKept
  <2>1. UNCHANGED endVars
    BY <1>4 DEF ProcessIncomingData, ProcessCheck, ProcessEnter, TakeMessage, TakeNothing,
       TakeLooksAtWrites, HandleSync, HandleConcurrent, HandleOrderly, HandleNext, CountEvent,
       processUnchanged, sessionVars, endVars
  <2>2. pc[t] \notin EndPC
    BY <1>4, StepPlaces DEF IncomingPC, EndPC
  <2>3. \/ \E l \in {"startread", "idle", "take", "enter", "enterback", "takewrite", "onread",
                     "next", "count"} : Goto(t, l)
        \/ \E r : Call(t, "closenow", r)
        \/ MayCall(t, "next")
    BY <1>4 DEF ProcessIncomingData, ProcessCheck, ProcessEnter, EnterLoop, TakeMessage,
       TakeNothing, TakeLooksAtWrites, HandleSync, HandleConcurrent, HandleOrderly, HandleNext,
       CountEvent, AfterIncoming
  <2> QED
    BY <2>1, <2>2, <2>3, ElsewhereKept DEF EndPC
<1>5. ASSUME NEW t \in Thread, ProcessOutgoingData(t) PROVE UNCHANGED endVars /\ EndingsKept
  <2>1. UNCHANGED endVars
    BY <1>5 DEF ProcessOutgoingData, OutCheck, OutEnter, PopAndWrite, PopLast, PopLooksAtReads,
       outUnchanged, sessionVars, endVars
  <2>2. pc[t] \notin EndPC
    BY <1>5, StepPlaces DEF OutgoingPC, EndPC
  <2>3. \/ \E l \in {"idle", "pop", "outenter", "outenterback", "popread"} : Goto(t, l)
        \/ \E r : Call(t, "closenow", r)
    BY <1>5 DEF ProcessOutgoingData, OutCheck, OutEnter, PopAndWrite, PopLast, PopLooksAtReads,
       AfterOutgoing
  <2> QED
    BY <2>1, <2>2, <2>3, ElsewhereKept DEF EndPC
<1>6. CASE IoStep \/ ReadFails \/ \E k \in InMessage : Receive(k)
  <2>1. UNCHANGED endVars /\ pc[Io] \notin EndPC
    BY <1>6 DEF IoStep, QueueBatch, WriteDone, WriteFails, EndWrite, CountWrite, ReadFails,
       Receive, onWriteUnchanged, sessionVars, endVars, EndPC
  <2>2. \/ \E l \in {"process", "out", "countwrite", "idle", "startread", "queue"} : Goto(Io, l)
        \/ \E r : Call(Io, "closenow", r)
    BY <1>6 DEF IoStep, QueueBatch, WriteDone, WriteFails, CountWrite, ReadFails, Receive
  <2> QED
    BY <2>1, <2>2, ElsewhereKept DEF EndPC
<1>7. ASSUME NEW w \in Worker, RunWork(w) PROVE UNCHANGED endVars /\ EndingsKept
  <2>1. UNCHANGED endVars /\ pc[w] \notin EndPC
    BY <1>7 DEF RunWork, sessionVars, endVars, EndPC
  <2>2. Goto(w, "outback") \/ \E r \in {"processback", "idle"} : MayCall(w, r)
    BY <1>7 DEF RunWork
  <2> QED
    BY <2>1, <2>2, ElsewhereKept DEF EndPC
<1>8. ASSUME NEW a \in Application, ApplicationCalls(a) PROVE UNCHANGED endVars /\ EndingsKept
  <2>1. UNCHANGED endVars /\ pc[a] \notin EndPC
    BY <1>8 DEF ApplicationCalls, sessionVars, endVars, EndPC
  <2>2. \E c \in {"write", "close", "closenow"} : Call(a, c, "done")
    BY <1>8, SessionAssumption DEF ApplicationCalls
  <2> QED
    BY <2>1, <2>2, ElsewhereKept DEF EndPC
<1>9. CASE UNCHANGED vars
  BY <1>9 DEF vars, sessionVars, threadVars, endVars, EndingsKept
<1> QED
  BY <1>1, <1>2, <1>3, <1>4, <1>5, <1>6, <1>7, <1>8, <1>9 DEF Next, Open, SessionStep, Close

(* A session is opened once. *)
LEMMA OpenedOnce ==
  ASSUME Places, [Next]_vars, BeforeOpen'
  PROVE  BeforeOpen /\ (OpenRegister \/ pc'[Opener] = pc[Opener])
<1> USE ThreadParts DEF BeforeOpen
<1>1. CASE OpenRegister
  BY <1>1 DEF OpenRegister, At
<1>2. CASE OpenActivate
  BY <1>2 DEF OpenActivate, Goto, Places
<1>3. ASSUME NEW t \in Thread, \/ CloseTest(t) \/ CloseShutdown(t) \/ CloseDisconnect(t)
                               \/ CloseState(t) \/ CloseUnregister(t)
      PROVE  BeforeOpen /\ pc'[Opener] = pc[Opener]
  <2>1. pc[t] \in CallPC /\ pc[t] \in CloseNowPC
    BY <1>3, StepPlaces DEF CloseTest, CloseShutdown, CloseDisconnect, CloseState,
       CloseUnregister, At, CallPC, CloseNowPC
  <2>2. ret[t] \notin {"open", "activate"}
    BY <2>1 DEF Places, ReturnPC
  <2>3. \E l : pc' = [pc EXCEPT ![t] = l] /\ l \notin {"open", "activate"}
    BY <1>3, <2>2 DEF CloseTest, CloseShutdown, CloseDisconnect, CloseState,
       CloseUnregister, Goto, Return
  <2> QED
    BY <2>1, <2>3 DEF Places, CloseNowPC
<1>4. CASE EndingsKept
  BY <1>4 DEF EndingsKept, EndPC
<1> QED
  BY <1>1, <1>2, <1>3, <1>4, EndSteps

(* Until then the only steps are those of the Opener and calls from the    *)
(* application, which do nothing but close.                                *)
LEMMA NotYetOpenNext ==
  ASSUME TypeOK, Places, NotYetOpen, [Next]_vars
  PROVE  NotYetOpen'
<1> USE ThreadParts
<1>1. SUFFICES ASSUME BeforeOpen'
               PROVE  /\ state' # 1 /\ disconnects' = 0 /\ reading' = "none"
                      /\ readlist' = <<>> /\ writelist' = <<>> /\ writing' = <<>> /\ jobs' = {}
                      /\ \A t \in Thread \ {Opener} : Dormant(t)'
  BY DEF NotYetOpen
<1>2. BeforeOpen /\ pc[Opener] \in {"open", "activate"}
  BY <1>1, OpenedOnce DEF BeforeOpen
<1>3. /\ state # 1 /\ disconnects = 0 /\ reading = "none"
      /\ readlist = <<>> /\ writelist = <<>> /\ writing = <<>> /\ jobs = {}
      /\ \A t \in Thread \ {Opener} : Dormant(t)
  BY <1>2 DEF NotYetOpen
<1>d. state <= 0 /\ ~(state > 0)
  BY <1>3 DEF TypeOK, SessionType
<1>a. ASSUME UNCHANGED <<state, disconnects, reading, readlist, writelist, writing, jobs>>,
             NEW t \in Thread \ {Opener}, NEW l, NEW r, Moves(t, l, r),
             l \in DormantPC, l \in CallPC => r = "done"
      PROVE  /\ state' # 1 /\ disconnects' = 0 /\ reading' = "none"
             /\ readlist' = <<>> /\ writelist' = <<>> /\ writing' = <<>> /\ jobs' = {}
             /\ \A u \in Thread \ {Opener} : Dormant(u)'
  BY <1>3, <1>a DEF Moves, Dormant, Places
<1>4. CASE Open
  <2>1. OpenRegister
    BY <1>1, <1>2, <1>4, OpenedOnce
       DEF Open, OpenActivate, OpenConnect, OpenConnected, At, Goto, Places
  <2> QED
    BY <1>3, <2>1 DEF OpenRegister, Goto, Dormant, Places, readVars, writeVars, netVars
<1>5. ASSUME NEW t \in Thread, SessionStep(t)
      PROVE  /\ state' # 1 /\ disconnects' = 0 /\ reading' = "none"
             /\ readlist' = <<>> /\ writelist' = <<>> /\ writing' = <<>> /\ jobs' = {}
             /\ \A u \in Thread \ {Opener} : Dormant(u)'
  <2>1. /\ pc[t] \in {"startread"} \cup WritePC \cup CloseNowPC \cup {"close", "closeread"}
                       \cup IncomingPC \cup OutgoingPC
    BY <1>5, StepPlaces DEF SessionStep
  <2>2. t # Opener
    BY <1>2, <2>1 DEF WritePC, CloseNowPC, IncomingPC, OutgoingPC
  <2>3. Dormant(t)
    BY <1>3, <2>2
  <2>4. /\ ~Read(t) /\ ~ProcessIncomingData(t) /\ ~ProcessOutgoingData(t)
        /\ pc[t] \in CallPC /\ ret[t] = "done" /\ pc[t] \notin {"room", "push", "shutdown", "disconnect"}
    BY <2>1, <2>3, StepPlaces DEF Dormant, DormantPC, IncomingPC, OutgoingPC, CallPC, WritePC, CloseNowPC
  <2>5. CASE Write(t)
    <3>1. WriteCheck(t)
      BY <2>4, <2>5 DEF Write, WriteRoom, WritePush, At
    <3>2. Goto(t, "done") /\ UNCHANGED <<state, disconnects, reading, readlist, writelist, writing, jobs>>
      BY <1>3, <1>d, <2>4, <3>1 DEF WriteCheck, Return, sessionVars, readVars, writeVars, netVars
    <3> QED
      BY <1>a, <2>2, <3>2, GotoMoves DEF DormantPC, CallPC, WritePC, CloseNowPC
  <2>6. CASE Close(t)
    <3>1. ~CloseShutdown(t) /\ ~CloseDisconnect(t)
      BY <2>4 DEF CloseShutdown, CloseDisconnect, At
    <3>2. UNCHANGED <<disconnects, reading, readlist, writelist, writing, jobs>>
      BY <2>6, <3>1 DEF Close, CloseGently, CloseWhenEmpty, CloseNow, CloseTest, CloseState,
         CloseUnregister, closeUnchanged, netVars
    <3>3. state' # 1
      BY <1>3, <2>6, <3>1 DEF Close, CloseGently, CloseWhenEmpty, CloseNow, CloseTest, CloseState,
         CloseUnregister, sessionVars
    <3>4. \E l \in {"closeread", "closenow", "closetest", "closed", "unregister", "done"} : Goto(t, l)
      BY <1>d, <2>4, <2>6, <3>1 DEF Close, CloseGently, CloseWhenEmpty, CloseNow, CloseTest,
         CloseState, CloseUnregister, Return
    <3>5. \A u \in Thread \ {Opener} : Dormant(u)'
      BY <1>3, <2>2, <2>4, <3>4 DEF Goto, Dormant, DormantPC, Places
    <3> QED
      BY <1>3, <3>2, <3>3, <3>5
  <2> QED
    BY <1>5, <2>4, <2>5, <2>6 DEF SessionStep
<1>6. ~IoStep /\ ~ReadFails /\ \A k \in InMessage : ~Receive(k)
  <2>1. ~QueueBatch /\ ~CountWrite
    <3>1. pc[Io] \notin {"queue", "countwrite"}
      BY <1>2, <1>3 DEF Dormant, DormantPC
    <3> QED
      BY <3>1 DEF QueueBatch, CountWrite, At
  <2> QED
    BY <1>3, <2>1 DEF IoStep, WriteDone, WriteFails, EndWrite, ReadFails, Receive
<1>7. \A w \in Worker : ~RunWork(w)
  BY <1>3 DEF RunWork
<1>8. ASSUME NEW a \in Application, ApplicationCalls(a)
      PROVE  /\ state' # 1 /\ disconnects' = 0 /\ reading' = "none"
             /\ readlist' = <<>> /\ writelist' = <<>> /\ writing' = <<>> /\ jobs' = {}
             /\ \A u \in Thread \ {Opener} : Dormant(u)'
  <2>1. UNCHANGED <<state, disconnects, reading, readlist, writelist, writing, jobs>>
        /\ \E c \in {"write", "close", "closenow"} : Moves(a, c, "done")
    BY <1>8, SessionAssumption DEF ApplicationCalls, Call, Moves, sessionVars, readVars, writeVars,
       netVars
  <2>2. a # Opener
    BY SessionAssumption DEF Application
  <2> QED
    BY <1>a, <2>1, <2>2 DEF DormantPC
<1>9. CASE UNCHANGED vars
  BY <1>3, <1>9 DEF vars, sessionVars, readVars, writeVars, netVars, threadVars, Dormant
<1> QED
  BY <1>4, <1>5, <1>6, <1>7, <1>8, <1>9 DEF Next

(* Nothing has happened to a new session. *)
LEMMA NotYetOpenInit == Init => NotYetOpen
<1> SUFFICES ASSUME Init PROVE NotYetOpen
  OBVIOUS
<1>1. /\ state # 1 /\ disconnects = 0 /\ reading = "none"
      /\ readlist = <<>> /\ writelist = <<>> /\ writing = <<>> /\ jobs = {}
  BY DEF Init
<1>2. \A t \in Thread \ {Opener} : Dormant(t)
  BY DEF Init, Dormant, DormantPC, CallPC, WritePC, CloseNowPC
<1> QED
  BY <1>1, <1>2 DEF NotYetOpen

-----------------------------------------------------------------------------
(* The end of a session.                                                   *)

(* OnDisconnect is called by a thread that has shut the socket of an open  *)
(* session; the same thread goes on to close the session and to take it    *)
(* out of the manager.                                                     *)
Ending ==
  /\ BeforeOpen => disconnects = 0 /\ \A t \in Thread : pc[t] \notin {"shutdown", "disconnect"}
  /\ disconnects > 0 \/ (\E t \in Thread : pc[t] = "disconnect") => ~socket
  /\ disconnects > 0 => state = -1 \/ \E t \in Thread : pc[t] = "closed"
  /\ disconnects > 0 => ~registered \/ \E t \in Thread : pc[t] \in {"closed", "unregister"}

(* The last steps of Close, one by one. *)
LEMMA CloseEndSteps ==
  ASSUME Places, NEW t \in Thread
  PROVE  /\ CloseTest(t) => /\ pc[t] = "closetest"
                            /\ pc' = [pc EXCEPT ![t] = IF state > 0 /\ socket THEN "shutdown" ELSE "closed"]
                            /\ UNCHANGED endVars
         /\ CloseShutdown(t) => /\ pc[t] = "shutdown" /\ pc' = [pc EXCEPT ![t] = "disconnect"]
                                /\ ~socket' /\ UNCHANGED <<state, registered, disconnects>>
         /\ CloseDisconnect(t) => /\ pc[t] = "disconnect" /\ pc' = [pc EXCEPT ![t] = "closed"]
                                  /\ disconnects' = disconnects + 1
                                  /\ UNCHANGED <<state, socket, registered>>
         /\ CloseState(t) => /\ pc[t] = "closed" /\ pc' = [pc EXCEPT ![t] = "unregister"]
                             /\ state' = -1 /\ UNCHANGED <<socket, registered, disconnects>>
         /\ CloseUnregister(t) => /\ pc[t] = "unregister" /\ ret[t] \in ReturnPC
                                  /\ pc' = [pc EXCEPT ![t] = ret[t]]
                                  /\ ~registered' /\ UNCHANGED <<state, socket, disconnects>>
BY DEF Places, CloseTest, CloseShutdown, CloseDisconnect, CloseState, CloseUnregister, Goto, Return,
   At, CallPC, CloseNowPC, endVars, sessionVars

(* A closing thread keeps its part of the end until it has done it.        *)
LEMMA EndingNext ==
  ASSUME TypeOK, Places, NotYetOpen, Ending, [Next]_vars
  PROVE  Ending'
<1> USE ThreadParts
<1>t. state \in {-1, 0, 1} /\ socket \in BOOLEAN /\ registered \in BOOLEAN /\ disconnects \in Nat
  BY DEF TypeOK, SessionType
<1>p. pc \in [Thread -> PC]
  BY DEF Places
<1>1. CASE OpenRegister
  <2>1. /\ disconnects' = 0 /\ \A t \in Thread : pc[t] \notin {"shutdown", "disconnect"}
        /\ pc' = [pc EXCEPT ![Opener] = "activate"]
    BY <1>1 DEF OpenRegister, Ending, BeforeOpen, At, Goto
  <2> QED
    BY <1>p, <2>1 DEF Ending
<1>2. CASE OpenActivate
  <2>1. /\ disconnects' = 0 /\ \A t \in Thread : pc[t] \notin {"shutdown", "disconnect"}
        /\ pc' = [pc EXCEPT ![Opener] = "onconnect"]
    BY <1>2 DEF OpenActivate, Ending, BeforeOpen, At, Goto
  <2> QED
    BY <1>p, <2>1 DEF Ending, BeforeOpen
<1>3. ASSUME NEW t \in Thread, CloseTest(t) PROVE Ending'
  <2> DEFINE l == IF state > 0 /\ socket THEN "shutdown" ELSE "closed"
  <2>1. pc[t] = "closetest" /\ pc' = [pc EXCEPT ![t] = l] /\ UNCHANGED endVars
    BY <1>3, CloseEndSteps
  <2>2. BeforeOpen => l = "closed"
    BY <1>t DEF NotYetOpen
  <2>3. l \in {"shutdown", "closed"}
    OBVIOUS
  <2> HIDE DEF l
  <2> QED
    BY <1>p, <2>1, <2>2, <2>3 DEF Ending, BeforeOpen, endVars
<1>4. ASSUME NEW t \in Thread, CloseShutdown(t) PROVE Ending'
  <2>1. /\ pc[t] = "shutdown" /\ pc' = [pc EXCEPT ![t] = "disconnect"]
        /\ ~socket' /\ UNCHANGED <<state, registered, disconnects>>
    BY <1>4, CloseEndSteps
  <2> QED
    BY <1>p, <2>1 DEF Ending, BeforeOpen
<1>5. ASSUME NEW t \in Thread, CloseDisconnect(t) PROVE Ending'
  <2>1. /\ pc[t] = "disconnect" /\ pc' = [pc EXCEPT ![t] = "closed"]
        /\ UNCHANGED <<state, socket, registered>>
    BY <1>5, CloseEndSteps
  <2>2. ~BeforeOpen' /\ ~socket' /\ pc'[t] = "closed"
    BY <1>p, <2>1 DEF Ending, BeforeOpen
  <2> QED
    BY <2>2 DEF Ending
<1>6. ASSUME NEW t \in Thread, CloseState(t) PROVE Ending'
  <2>1. /\ pc[t] = "closed" /\ pc' = [pc EXCEPT ![t] = "unregister"]
        /\ state' = -1 /\ UNCHANGED <<socket, registered, disconnects>>
    BY <1>6, CloseEndSteps
  <2>2. pc'[t] = "unregister"
    BY <1>p, <2>1
  <2> QED
    BY <1>p, <2>1, <2>2 DEF Ending, BeforeOpen
<1>7. ASSUME NEW t \in Thread, CloseUnregister(t) PROVE Ending'
  <2>1. /\ pc[t] = "unregister" /\ ret[t] \in ReturnPC /\ pc' = [pc EXCEPT ![t] = ret[t]]
        /\ ~registered' /\ UNCHANGED <<state, socket, disconnects>>
    BY <1>7, CloseEndSteps
  <2>2. ret[t] \notin EndPC
    BY <2>1 DEF ReturnPC, EndPC
  <2> QED
    BY <1>p, <2>1, <2>2 DEF Ending, BeforeOpen, EndPC
<1>8. CASE UNCHANGED endVars /\ EndingsKept
  <2>1. \A t \in Thread : \A l \in EndPC : pc'[t] = l <=> pc[t] = l
    BY <1>8 DEF EndingsKept
  <2> QED
    BY <1>8, <2>1 DEF Ending, BeforeOpen, EndPC, endVars
<1> QED
  BY <1>1, <1>2, <1>3, <1>4, <1>5, <1>6, <1>7, <1>8, EndSteps

(* Once the handler has heard of the disconnect and the threads that close *)
(* have left Close, nothing brings the session back: neither an Open, nor  *)
(* a Write, nor a Close that began before.                                 *)
THEOREM SessionDisconnectIsFinal == Spec => []DisconnectIsFinal
<1>1. Init => Ending
  <2> SUFFICES ASSUME Init PROVE Ending
    OBVIOUS
  <2>1. disconnects = 0 /\ \A t \in Thread : pc[t] \notin {"shutdown", "disconnect"}
    BY DEF Init
  <2> QED
    BY <2>1 DEF Ending
<1>2. SessionInv /\ NotYetOpen /\ Ending /\ [Next]_vars => NotYetOpen' /\ Ending'
  BY NotYetOpenNext, EndingNext DEF SessionInv
<1>3. Ending => DisconnectIsFinal
  BY DEF Ending, DisconnectIsFinal, CloseNowPC
<1> QED
  BY <1>1, <1>2, <1>3, NotYetOpenInit, SessionInvariant, PTL DEF Spec

-----------------------------------------------------------------------------
(* What threads are doing.                                                 *)

(* The place of a thread that is not in a call from the handler, or the    *)
(* one its call returns to.                                                *)
Doing(t) == IF pc[t] \in CallPC THEN ret[t] ELSE pc[t]
Goes(t, l) == \A u \in Thread : Doing(u)' = IF u = t THEN l ELSE Doing(u)
SameDoings == \A u \in Thread : Doing(u)' = Doing(u)

(* Goto, Call and MayCall in these terms. *)
LEMMA GoesTo ==
  ASSUME Places, NEW t \in Thread
  PROVE  /\ \A l : Goto(t, l) /\ l \notin CallPC => Goes(t, l)
         /\ \A l, r : Call(t, l, r) /\ l \in CallPC => Goes(t, r)
         /\ \A r : MayCall(t, r) /\ r \notin CallPC => Goes(t, r)
<1>1. \A l : Goto(t, l) /\ l \notin CallPC => Goes(t, l)
  BY DEF Places, Goto, Goes, Doing
<1>2. \A l, r : Call(t, l, r) /\ l \in CallPC => Goes(t, r)
  BY DEF Places, Call, Goes, Doing
<1>3. ASSUME NEW r, MayCall(t, r), r \notin CallPC PROVE Goes(t, r)
  <2>1. PICK c \in HandlerCalls : IF c = "none" THEN Call(t, r, r) ELSE Call(t, c, r)
    BY <1>3 DEF MayCall
  <2>2. CASE c = "none"
    BY <1>3, <2>1, <2>2 DEF Places, Call, Goes, Doing
  <2>3. CASE c # "none"
    BY <1>2, <2>1, <2>3, ThreadParts
  <2> QED
    BY <2>2, <2>3
<1> QED
  BY <1>1, <1>2, <1>3

(* Where a Goto to another place of the same call, or the return from it,  *)
(* leads does not matter.                                                  *)
LEMMA CallGoesOn ==
  ASSUME Places, NEW t \in Thread, Write(t) \/ Close(t)
  PROVE  SameDoings
<1>1. pc[t] \in CallPC /\ ret[t] \in ReturnPC /\ ret[t] \notin CallPC
  <2>1. pc[t] \in CallPC
    BY StepPlaces DEF CallPC
  <2> QED
    BY <2>1, PlaceKinds DEF Places
<1>2. \E l \in CallPC \cup {ret[t]} : Goto(t, l)
  <2>1. CASE Write(t)
    BY <2>1 DEF Write, WriteCheck, WriteRoom, WritePush, Return, CallPC, WritePC, CloseNowPC
  <2>2. CASE Close(t)
    BY <2>2 DEF Close, CloseGently, CloseWhenEmpty, CloseNow, CloseTest, CloseShutdown,
       CloseDisconnect, CloseState, CloseUnregister, Return, CallPC, WritePC, CloseNowPC
  <2> QED
    BY <2>1, <2>2
<1> QED
  BY <1>1, <1>2 DEF Places, Goto, SameDoings, Doing

(* The places where messages are handled.                                  *)
HandlePC == IncomingPC \cup {"out", "outback", "outenter", "outenterback", "pop", "countwrite"}

(* A step that has no part in handling messages leaves alone the threads   *)
(* that have, the queues and the tasks; when it changes the counters of    *)
(* events, it closes the session.                                          *)
Aside ==
  /\ \A u \in Thread : Doing(u) \in HandlePC \/ Doing(u)' \in HandlePC => Doing(u)' = Doing(u)
  /\ UNCHANGED <<readlist, begun, msg, last, jobs, writelist, writing>>
  /\ owner'["processread"] = owner["processread"]
  /\ state' = -1 \/ UNCHANGED <<state, readevents, writeevents>>
  /\ UNCHANGED <<arrived, batch>> \/ \E k \in InMessage : Receive(k)

(* The steps that have a part in it. *)
Handles ==
  \/ OpenActivate \/ QueueBatch \/ WriteDone \/ WriteFails \/ CountWrite
  \/ \E t \in Thread : \/ WritePush(t) \/ ProcessIncomingData(t)
                       \/ OutCheck(t) \/ OutEnter(t) \/ PopAndWrite(t) \/ PopLast(t)
  \/ \E w \in Worker : RunWork(w)

(* There are no others.                                                    *)
LEMMA HandleSteps ==
  ASSUME TypeOK, Places, [Next]_vars
  PROVE  Handles \/ Aside
<1> USE ThreadParts DEF At
<1>o. owner \in [Lock -> Thread \cup {Nobody}] /\ "processread" \in Lock
  BY DEF TypeOK, ThreadType, Lock
<1>g. ASSUME NEW t \in Thread, NEW l, Goes(t, l), Doing(t) \notin HandlePC, l \notin HandlePC
      PROVE  \A u \in Thread : Doing(u) \in HandlePC \/ Doing(u)' \in HandlePC => Doing(u)' = Doing(u)
  BY <1>g DEF Goes
<1>1. CASE OpenRegister \/ OpenConnect \/ OpenConnected
  <2>1. pc[Opener] \in OpenPC /\ pc[Opener] \notin CallPC
    BY <1>1 DEF OpenRegister, OpenConnect, OpenConnected, OpenPC, CallPC, WritePC, CloseNowPC
  <2>2. \/ \E l \in {"activate", "startread", "idle"} : Goto(Opener, l)
        \/ MayCall(Opener, "connected")
    BY <1>1 DEF OpenRegister, OpenConnect, OpenConnected
  <2>3. \E l \in {"activate", "startread", "idle", "connected"} : Goes(Opener, l)
    BY <2>2, GoesTo DEF CallPC, WritePC, CloseNowPC
  <2>4. Doing(Opener) \notin HandlePC
    BY <2>1 DEF Doing, HandlePC, OpenPC, IncomingPC
  <2>5. \A u \in Thread : Doing(u) \in HandlePC \/ Doing(u)' \in HandlePC => Doing(u)' = Doing(u)
    BY <1>g, <2>3, <2>4 DEF HandlePC, IncomingPC
  <2> QED
    BY <1>1, <2>5 DEF Aside, OpenRegister, OpenConnect, OpenConnected, sessionVars, readVars,
       writeVars, netVars
<1>2. ASSUME NEW t \in Thread, Read(t) PROVE Aside
  <2>1. pc[t] = "startread" /\ Goto(t, "idle")
    BY <1>2 DEF Read
  <2>2. Goes(t, "idle") /\ Doing(t) = "startread"
    BY <2>1, GoesTo DEF Doing, CallPC, WritePC, CloseNowPC
  <2>3. \A u \in Thread : Doing(u) \in HandlePC \/ Doing(u)' \in HandlePC => Doing(u)' = Doing(u)
    BY <1>g, <2>2 DEF HandlePC, IncomingPC
  <2> QED
    BY <1>2, <2>3 DEF Aside, Read, sessionVars, readVars, writeVars
<1>3. ASSUME NEW t \in Thread, WriteCheck(t) \/ WriteRoom(t) \/ Close(t) PROVE Aside
  <2>1. SameDoings
    BY <1>3, CallGoesOn DEF Write
  <2>2. UNCHANGED <<readlist, begun, msg, last, jobs, writelist, writing, arrived, batch>>
    BY <1>3 DEF WriteCheck, WriteRoom, Close, CloseGently, CloseWhenEmpty, CloseNow, CloseTest,
       CloseShutdown, CloseDisconnect, CloseState, CloseUnregister, closeUnchanged, readVars,
       writeVars, netVars
  <2>3. state' = -1 \/ UNCHANGED <<state, readevents, writeevents>>
    BY <1>3 DEF WriteCheck, WriteRoom, Close, CloseGently, CloseWhenEmpty, CloseNow, CloseTest,
       CloseShutdown, CloseDisconnect, CloseState, CloseUnregister, sessionVars, readVars, writeVars
  <2>4. owner'["processread"] = owner["processread"]
    BY <1>o, <1>3 DEF WriteCheck, WriteRoom, Close, CloseGently, CloseWhenEmpty, CloseNow, CloseTest,
       CloseShutdown, CloseDisconnect, CloseState, CloseUnregister, Acquire, Release
  <2> QED
    BY <2>1, <2>2, <2>3, <2>4 DEF Aside, SameDoings
<1>4. ASSUME NEW t \in Thread, PopLooksAtReads(t) PROVE Aside
  <2>1. /\ pc[t] = "popread"
        /\ Goto(t, "idle") \/ Call(t, "closenow", "idle")
    BY <1>4 DEF PopLooksAtReads, AfterOutgoing
  <2>2. Goes(t, "idle") /\ Doing(t) = "popread"
    BY <2>1, GoesTo DEF Doing, CallPC, WritePC, CloseNowPC
  <2>3. \A u \in Thread : Doing(u) \in HandlePC \/ Doing(u)' \in HandlePC => Doing(u)' = Doing(u)
    BY <1>g, <2>2 DEF HandlePC, IncomingPC
  <2>4. owner'["processread"] = owner["processread"]
    BY <1>o, <1>4 DEF PopLooksAtReads, Release
  <2> QED
    BY <1>4, <2>3, <2>4 DEF Aside, PopLooksAtReads, outUnchanged, sessionVars, readVars, netVars
<1>5. CASE ReadFails \/ \E k \in InMessage : Receive(k)
  <2>1. /\ pc[Io] = "idle"
        /\ \/ Call(Io, "closenow", "startread")
           \/ Goto(Io, "startread") \/ Goto(Io, "queue")
    BY <1>5 DEF ReadFails, Receive
  <2>2. Doing(Io) = "idle" /\ \E l \in {"startread", "queue"} : Goes(Io, l)
    BY <2>1, GoesTo DEF Doing, CallPC, WritePC, CloseNowPC
  <2>3. \A u \in Thread : Doing(u) \in HandlePC \/ Doing(u)' \in HandlePC => Doing(u)' = Doing(u)
    BY <1>g, <2>2 DEF HandlePC, IncomingPC
  <2> QED
    BY <1>5, <2>3 DEF Aside, ReadFails, Receive, sessionVars, readVars, writeVars
<1>6. ASSUME NEW a \in Application, ApplicationCalls(a) PROVE Aside
  <2>1. pc[a] = "ready" /\ \E c \in CallPC : Call(a, c, "done")
    BY <1>6 DEF ApplicationCalls, CallPC, WritePC
  <2>2. Goes(a, "done") /\ Doing(a) = "ready"
    BY <2>1, GoesTo DEF Doing, CallPC, WritePC, CloseNowPC
  <2>3. \A u \in Thread : Doing(u) \in HandlePC \/ Doing(u)' \in HandlePC => Doing(u)' = Doing(u)
    BY <1>g, <2>2 DEF HandlePC, IncomingPC
  <2> QED
    BY <1>6, <2>3 DEF Aside, ApplicationCalls, sessionVars, readVars, writeVars, netVars
<1>7. CASE UNCHANGED vars
  BY <1>7 DEF vars, sessionVars, readVars, writeVars, netVars, threadVars, Aside, Doing
<1> QED
  BY <1>1, <1>2, <1>3, <1>4, <1>5, <1>6, <1>7
     DEF Handles, Next, Open, SessionStep, Write, ProcessOutgoingData, IoStep

-----------------------------------------------------------------------------
(* No message to send is forgotten.                                        *)

(* The thread of the IO service ends the write of a message, a worker its  *)
(* task, which there is only with orderly handling.                        *)
OutPlaces ==
  /\ \A t \in Thread :
       /\ Doing(t) \in {"out", "outenter", "countwrite"} => t = Io
       /\ Doing(t) \in {"outback", "outenterback"} => t \in Worker /\ OrderlyWrite
  /\ OrderlyWrites # {} => OrderlyWrite

(* The task of a message written, in the pool or with a worker.            *)
WriteHeld == OrderlyWrites # {} \/ \E w \in Worker : Doing(w) \in {"outback", "outenterback"}

(* The counter of events counts it, before or after it was made.           *)
WriteCount ==
  state = 1 =>
    writeevents = (IF WriteHeld THEN 1 ELSE 0) - (IF Doing(Io) = "countwrite" THEN 1 ELSE 0)

(* The queue of an open session empties: a write is under way, or its task *)
(* is, or a thread has the turn.                                           *)
WritesGoOn ==
  state = 1 /\ writelist # <<>> =>
    writing # <<>> \/ OrderlyWrites # {} \/ \E t \in Thread : Popping(t)

OutInv == OutPlaces /\ WriteCount /\ WritesGoOn

(* A thread has the turn to take the front off the queue by what it does.  *)
LEMMA PoppingIs ==
  ASSUME Places, NEW t \in Thread
  PROVE  /\ Popping(t) <=> Doing(t) \in {"out", "outback", "outenter", "outenterback", "pop"}
         /\ Doing(t) # "out" => (pc[t] = Doing(t) <=> pc[t] \notin CallPC)
         /\ pc[t] \notin CallPC => Doing(t) = pc[t]
         /\ Doing(t) \notin ReturnPC => pc[t] = Doing(t)
  BY PlaceKinds DEF Places, Popping, Turn, Doing, ReturnPC

(* Nobody else has the turn, or the task, while a write is under way or    *)
(* while a thread has the turn.                                            *)
LEMMA OneTurn ==
  ASSUME Places, WriteTurn
  PROVE  /\ writing # <<>> => OrderlyWrites = {} /\ NoTurn
         /\ \A t \in Thread : Popping(t) =>
              /\ OrderlyWrites = {} /\ writelist # <<>> /\ writing = <<>>
              /\ \A u \in Thread : Popping(u) => u = t
         /\ \A j \in OrderlyWrites : OrderlyWrites = {j} /\ NoTurn /\ writelist # <<>>
BY DEF WriteTurn, PhaseIdle, PhaseWriting, PhaseJob, PhaseTurn, NoJob, NoTurn

(* What the steps of the write side do.                                    *)
LEMMA OutSteps ==
  ASSUME Places, NEW t \in Thread
  PROVE  /\ OutCheck(t) =>
              /\ pc[t] \in {"out", "outback"}
              /\ Goes(t, IF state <= 0 THEN "idle" ELSE IF ~OrderlyWrite THEN "pop"
                         ELSE IF pc[t] = "out" THEN "outenter" ELSE "outenterback")
              /\ UNCHANGED <<state, jobs, writelist, writing, writeevents>>
         /\ OutEnter(t) =>
              /\ \/ pc[t] = "outenter" /\ writeevents' = writeevents
                 \/ pc[t] = "outenterback" /\ writeevents' = writeevents - 1
              /\ Goes(t, IF writeevents' > 0 THEN "idle" ELSE "pop")
              /\ UNCHANGED <<state, jobs, writelist, writing>>
         /\ PopAndWrite(t) =>
              /\ pc[t] = "pop" /\ Goes(t, "idle") /\ writing' # <<>>
              /\ UNCHANGED <<state, jobs, writeevents>>
         /\ PopLast(t) =>
              /\ pc[t] = "pop" /\ Goes(t, IF closing THEN "popread" ELSE "idle")
              /\ writelist' = <<>> /\ UNCHANGED <<state, jobs, writing, writeevents>>
<1> USE GoesTo DEF At
<1>0. \A l \in {"idle", "pop", "popread", "outenter", "outenterback"} : Goto(t, l) => Goes(t, l)
  BY DEF CallPC, WritePC, CloseNowPC
<1>1. ASSUME OutCheck(t)
      PROVE  /\ pc[t] \in {"out", "outback"}
             /\ Goes(t, IF state <= 0 THEN "idle" ELSE IF ~OrderlyWrite THEN "pop"
                        ELSE IF pc[t] = "out" THEN "outenter" ELSE "outenterback")
             /\ UNCHANGED <<state, jobs, writelist, writing, writeevents>>
  BY <1>0, <1>1 DEF OutCheck, outUnchanged, sessionVars, AfterOutgoing
<1>2. ASSUME OutEnter(t)
      PROVE  /\ \/ pc[t] = "outenter" /\ writeevents' = writeevents
                \/ pc[t] = "outenterback" /\ writeevents' = writeevents - 1
             /\ Goes(t, IF writeevents' > 0 THEN "idle" ELSE "pop")
             /\ UNCHANGED <<state, jobs, writelist, writing>>
  BY <1>0, <1>2 DEF OutEnter, CountOutEnd, outUnchanged, sessionVars, AfterOutgoing
<1>3. ASSUME PopAndWrite(t)
      PROVE  /\ pc[t] = "pop" /\ Goes(t, "idle") /\ writing' # <<>>
             /\ UNCHANGED <<state, jobs, writeevents>>
  <2>1. writing' = Append(writing, [message |-> Head(Rest), live |-> socket])
    BY <1>3 DEF PopAndWrite, StartWrite
  <2> QED
    BY <1>0, <1>3, <2>1 DEF PopAndWrite, outUnchanged, sessionVars, AfterOutgoing
<1>4. ASSUME PopLast(t)
      PROVE  /\ pc[t] = "pop" /\ Goes(t, IF closing THEN "popread" ELSE "idle")
             /\ writelist' = <<>> /\ UNCHANGED <<state, jobs, writing, writeevents>>
  BY <1>0, <1>4 DEF PopLast, outUnchanged, sessionVars, AfterOutgoing
<1> QED
  BY <1>1, <1>2, <1>3, <1>4

(* A step that moves no thread of the write side keeps its places.         *)
LEMMA OutKept ==
  ASSUME OutInv, Places, Places',
         \A u \in Thread : Doing(u) \in HandlePC \ IncomingPC \/ Doing(u)' \in HandlePC \ IncomingPC
                             => Doing(u)' = Doing(u),
         OrderlyWrites' = OrderlyWrites
  PROVE  /\ OutPlaces' /\ WriteHeld' = WriteHeld
         /\ (Doing(Io) = "countwrite")' = (Doing(Io) = "countwrite")
         /\ \A u \in Thread : Popping(u)' = Popping(u)
<1> USE ThreadParts
<1>1. \A u \in Thread : \A l \in {"out", "outback", "outenter", "outenterback", "pop", "countwrite"} :
        Doing(u)' = l <=> Doing(u) = l
  BY DEF HandlePC, IncomingPC
<1>2. OutPlaces'
  BY <1>1 DEF OutInv, OutPlaces
<1>3. WriteHeld' = WriteHeld
  BY <1>1 DEF WriteHeld
<1>4. \A u \in Thread : Popping(u)' = Popping(u)
  <2>1. \A u \in Thread : Popping(u) <=> Doing(u) \in {"out", "outback", "outenter", "outenterback", "pop"}
    BY PoppingIs
  <2>2. \A u \in Thread : Popping(u)' <=> Doing(u)' \in {"out", "outback", "outenter", "outenterback", "pop"}
    BY PlaceKinds DEF Places, Popping, Turn, Doing, ReturnPC
  <2> QED
    BY <1>1, <2>1, <2>2 DEF Popping, Turn
<1> QED
  BY <1>1, <1>2, <1>3, <1>4

(* The steps of the read side leave the write side alone.                  *)
LEMMA IncomingAside ==
  ASSUME Places, NEW t \in Thread, ProcessIncomingData(t)
  PROVE  /\ pc[t] \in IncomingPC
         /\ \E l \in IncomingPC \cup {"startread", "idle"} : Goes(t, l)
         /\ OrderlyWrites' = OrderlyWrites
         /\ UNCHANGED <<state, writelist, writing, writeevents>>
<1>1. pc[t] \in IncomingPC
  BY StepPlaces
<1>2. \E l \in IncomingPC \cup {"startread", "idle"} : Goes(t, l)
  <2>1. \/ \E l \in {"startread", "idle", "take", "enter", "enterback", "takewrite", "onread",
                     "next", "count"} : Goto(t, l)
        \/ Call(t, "closenow", AfterIncoming(t))
        \/ MayCall(t, "next")
    BY DEF ProcessIncomingData, ProcessCheck, ProcessEnter, EnterLoop, TakeMessage,
       TakeNothing, TakeLooksAtWrites, HandleSync, HandleConcurrent, HandleOrderly, HandleNext,
       CountEvent, AfterIncoming
  <2> QED
    BY <2>1, GoesTo DEF AfterIncoming, IncomingPC, CallPC, WritePC, CloseNowPC
<1>3. UNCHANGED <<state, writelist, writing, writeevents>>
  BY DEF ProcessIncomingData, ProcessCheck, ProcessEnter, TakeMessage, TakeNothing,
     TakeLooksAtWrites, HandleSync, HandleConcurrent, HandleOrderly, HandleNext, CountEvent,
     processUnchanged, sessionVars, writeVars
<1>4. OrderlyWrites' = OrderlyWrites
  <2>1. \/ jobs' = jobs
        \/ jobs' = jobs \cup {[type |-> 0, message |-> msg[t]]}
        \/ jobs' = jobs \cup {[type |-> 1, message |-> msg[t]]}
    BY DEF ProcessIncomingData, ProcessCheck, ProcessEnter, TakeMessage, TakeNothing,
       TakeLooksAtWrites, HandleSync, HandleConcurrent, HandleOrderly, HandleNext, CountEvent
  <2> QED
    BY <2>1 DEF OrderlyWrites
<1> QED
  BY <1>1, <1>2, <1>3, <1>4

(* What the thread of the IO service does when a write has ended.          *)
LEMMA EndWriteSteps ==
  ASSUME Places
  PROVE  /\ WriteDone \/ WriteFails =>
              /\ pc[Io] = "idle" /\ writing # <<>>
              /\ UNCHANGED <<state, writelist, writeevents>>
              /\ \/ Goes(Io, "out") /\ UNCHANGED jobs
                 \/ /\ Goes(Io, "countwrite") /\ OrderlyWrite
                    /\ jobs' = jobs \cup {[type |-> 2, message |-> Head(writelist)]}
         /\ CountWrite =>
              /\ pc[Io] = "countwrite" /\ Goes(Io, "idle") /\ writeevents' = writeevents + 1
              /\ UNCHANGED <<state, writelist, writing, jobs>>
<1> USE ThreadParts, GoesTo DEF At
<1>0. \A l \in {"out", "countwrite", "idle"} : Goto(Io, l) => Goes(Io, l)
  BY DEF CallPC, WritePC, CloseNowPC
<1>1. ASSUME WriteDone \/ WriteFails
      PROVE  /\ pc[Io] = "idle" /\ writing # <<>>
             /\ UNCHANGED <<state, writelist, writeevents>>
             /\ \/ Goes(Io, "out") /\ UNCHANGED jobs
                \/ /\ Goes(Io, "countwrite") /\ OrderlyWrite
                   /\ jobs' = jobs \cup {[type |-> 2, message |-> Head(writelist)]}
  <2>1. /\ pc[Io] = "idle" /\ writing # <<>> /\ UNCHANGED <<state, writelist, writeevents>>
    BY <1>1 DEF WriteDone, WriteFails, EndWrite, onWriteUnchanged, sessionVars
  <2>2. CASE WriteDone
    BY <1>0, <2>1, <2>2 DEF WriteDone
  <2>3. CASE WriteFails
    <3>1. Call(Io, "closenow", "out") /\ UNCHANGED jobs /\ "closenow" \in CallPC
      BY <2>3 DEF WriteFails, CallPC, CloseNowPC
    <3>2. Goes(Io, "out")
      BY <3>1
    <3> QED
      BY <2>1, <3>1, <3>2
  <2> QED
    BY <1>1, <2>2, <2>3
<1>2. ASSUME CountWrite
      PROVE  /\ pc[Io] = "countwrite" /\ Goes(Io, "idle") /\ writeevents' = writeevents + 1
             /\ UNCHANGED <<state, writelist, writing, jobs>>
  BY <1>0, <1>2 DEF CountWrite, onWriteUnchanged, sessionVars
<1> QED
  BY <1>1, <1>2

(* What a worker does with a task.                                         *)
LEMMA WorkSteps ==
  ASSUME Places, NEW w \in Worker, RunWork(w)
  PROVE  /\ pc[w] = "idle"
         /\ UNCHANGED <<state, readlist, writelist, writing, readevents, writeevents, begun, last,
                        owner, arrived, batch>>
         /\ \E j \in jobs :
              /\ jobs' = jobs \ {j} /\ msg' = [msg EXCEPT ![w] = j.message]
              /\ Goes(w, IF j.type = 2 THEN "outback" ELSE IF j.type = 1 THEN "processback" ELSE "idle")
<1> USE ThreadParts DEF At
<1>1. PICK j \in jobs :
        /\ jobs' = jobs \ {j} /\ msg' = [msg EXCEPT ![w] = j.message]
        /\ IF j.type = 2 THEN Goto(w, "outback")
           ELSE MayCall(w, IF j.type = 1 THEN "processback" ELSE "idle")
  BY DEF RunWork
<1>2. Goes(w, IF j.type = 2 THEN "outback" ELSE IF j.type = 1 THEN "processback" ELSE "idle")
  <2>1. \A l \in {"outback", "processback", "idle"} : l \notin CallPC
    BY DEF CallPC, WritePC, CloseNowPC
  <2> QED
    BY <1>1, <2>1, GoesTo
<1>3. pc[w] = "idle" /\ UNCHANGED <<state, readlist, writelist, writing, readevents, writeevents,
                                    begun, last, owner, arrived, batch>>
  BY DEF RunWork, sessionVars, readVars, writeVars, netVars
<1> QED
  BY <1>1, <1>2, <1>3

(* Nothing is handled when the session becomes active.                     *)
LEMMA Activated ==
  ASSUME Places, NotYetOpen, OpenActivate
  PROVE  /\ state' = 1 /\ readevents' = 0 /\ writeevents' = 0
         /\ readlist' = <<>> /\ writelist' = <<>> /\ jobs' = {}
         /\ UNCHANGED <<readlist, begun, msg, last, owner, arrived, batch>>
         /\ \A u \in Thread : Doing(u) \notin HandlePC /\ Doing(u)' \notin HandlePC
<1> USE ThreadParts DEF At
<1>1. BeforeOpen
  BY DEF OpenActivate, BeforeOpen
<1>2. /\ readlist = <<>> /\ writelist = <<>> /\ jobs = {}
      /\ \A u \in Thread \ {Opener} : Dormant(u)
  BY <1>1 DEF NotYetOpen
<1>3. Goes(Opener, "onconnect")
  BY GoesTo DEF OpenActivate, CallPC, WritePC, CloseNowPC
<1>4. Doing(Opener) \in {"activate"}
  BY DEF OpenActivate, Doing, CallPC, WritePC, CloseNowPC
<1>5. \A u \in Thread \ {Opener} : Doing(u) \in {"idle", "ready", "done"}
  BY <1>2 DEF Dormant, DormantPC, Doing, CallPC, WritePC, CloseNowPC
<1>6. \A u \in Thread : Doing(u) \notin HandlePC /\ Doing(u)' \notin HandlePC
  BY <1>3, <1>4, <1>5 DEF Goes, HandlePC, IncomingPC
<1> QED
  BY <1>2, <1>6 DEF OpenActivate, netVars

(* Every step keeps the turn of the write side going.                      *)
LEMMA OutNext ==
  ASSUME SessionInv, NotYetOpen, OutInv, [Next]_vars
  PROVE  OutInv'
<1> USE ThreadParts DEF SessionInv
<1>i. Io \notin Worker
  BY SessionAssumption
<1>t. /\ writeevents \in Int /\ state \in {-1, 0, 1} /\ state' \in {-1, 0, 1}
      /\ writelist \in Seq(OutMessage)
      /\ \A t \in Thread : msg[t] \in OutMessage
  BY SessionNext DEF TypeOK, SessionType, WriteType, ThreadType
<1>p. Places'
  BY SessionNext
<1>o. \A t \in Thread : Popping(t)' <=> Doing(t)' \in {"out", "outback", "outenter", "outenterback", "pop"}
  BY <1>p, PlaceKinds DEF Places, Popping, Turn, Doing, ReturnPC
<1>k. ASSUME \A u \in Thread : Doing(u) \in HandlePC \ IncomingPC \/ Doing(u)' \in HandlePC \ IncomingPC
                                 => Doing(u)' = Doing(u),
             OrderlyWrites' = OrderlyWrites,
             state' = -1 \/ UNCHANGED <<state, writeevents>>,
             UNCHANGED <<writelist, writing>>
      PROVE  OutInv'
  <2>1. /\ OutPlaces' /\ WriteHeld' = WriteHeld
        /\ (Doing(Io) = "countwrite")' = (Doing(Io) = "countwrite")
        /\ \A u \in Thread : Popping(u)' = Popping(u)
    BY <1>k, <1>p, OutKept
  <2>2. WriteCount'
    BY <1>k, <2>1 DEF OutInv, WriteCount
  <2>3. WritesGoOn'
    BY <1>k, <2>1 DEF OutInv, WritesGoOn
  <2> QED
    BY <2>1, <2>2, <2>3 DEF OutInv
<1>1. CASE Aside
  <2>1. OrderlyWrites' = OrderlyWrites
    BY <1>1 DEF Aside, OrderlyWrites
  <2> QED
    BY <1>1, <1>k, <2>1 DEF Aside
<1>2. CASE OpenActivate
  <2>1. OrderlyWrites' = {}
    BY <1>2, Activated DEF OrderlyWrites
  <2>2. OutPlaces' /\ ~WriteHeld' /\ Doing(Io)' # "countwrite"
    BY <1>2, <2>1, Activated DEF OutPlaces, WriteHeld, HandlePC
  <2>3. writeevents' = 0 /\ writelist' = <<>>
    BY <1>2, Activated
  <2> QED
    BY <2>2, <2>3 DEF OutInv, WriteCount, WritesGoOn
<1>3. CASE QueueBatch
  <2>1. pc[Io] = "queue" /\ Goes(Io, "process")
    BY <1>3, GoesTo DEF QueueBatch, At, CallPC, WritePC, CloseNowPC
  <2>2. Doing(Io) = "queue"
    BY <2>1 DEF Doing, CallPC, WritePC, CloseNowPC
  <2>3. OrderlyWrites' = OrderlyWrites /\ UNCHANGED <<state, writeevents, writelist, writing>>
    BY <1>3 DEF QueueBatch, OrderlyWrites, sessionVars, writeVars
  <2> QED
    BY <1>k, <2>1, <2>2, <2>3 DEF Goes, HandlePC, IncomingPC
<1>4. ASSUME NEW t \in Thread, ProcessIncomingData(t) PROVE OutInv'
  <2>1. Doing(t) \in IncomingPC
    BY <1>4, IncomingAside DEF Doing, IncomingPC, CallPC, WritePC, CloseNowPC
  <2> QED
    BY <1>4, <1>k, <2>1, IncomingAside DEF Goes, HandlePC, IncomingPC
<1>5. ASSUME NEW t \in Thread, WritePush(t) PROVE OutInv'
  <2>1. SameDoings /\ OrderlyWrites' = OrderlyWrites /\ UNCHANGED <<state, writeevents>>
    BY <1>5, CallGoesOn DEF Write, WritePush, OrderlyWrites, sessionVars
  <2>2. /\ OutPlaces' /\ WriteHeld' = WriteHeld
        /\ (Doing(Io) = "countwrite")' = (Doing(Io) = "countwrite")
        /\ \A u \in Thread : Popping(u)' = Popping(u)
    BY <1>p, <2>1, OutKept DEF SameDoings
  <2>3. WriteCount'
    BY <2>1, <2>2 DEF OutInv, WriteCount
  <2>4. WritesGoOn'
    <3>1. CASE writelist = <<>>
      <4>1. writing' = Append(writing, [message |-> msg[t], live |-> socket])
        BY <1>5, <3>1 DEF WritePush, StartWrite
      <4>2. writing' # <<>>
        BY <4>1
      <4> QED
        BY <4>2 DEF WritesGoOn
    <3>2. CASE writelist # <<>>
      <4>1. writing' = writing
        BY <1>5, <3>2 DEF WritePush
      <4> QED
        BY <2>1, <2>2, <3>2, <4>1 DEF OutInv, WritesGoOn
    <3> QED
      BY <3>1, <3>2
  <2> QED
    BY <2>2, <2>3, <2>4 DEF OutInv
<1>6. CASE WriteDone \/ WriteFails
  <2>1. /\ pc[Io] = "idle" /\ writing # <<>> /\ UNCHANGED <<state, writelist, writeevents>>
        /\ \/ Goes(Io, "out") /\ UNCHANGED jobs
           \/ /\ Goes(Io, "countwrite") /\ OrderlyWrite
              /\ jobs' = jobs \cup {[type |-> 2, message |-> Head(writelist)]}
    BY <1>6, EndWriteSteps
  <2>2. OrderlyWrites = {} /\ NoTurn /\ Doing(Io) = "idle"
    BY <2>1, OneTurn DEF Doing, CallPC, WritePC, CloseNowPC
  <2>3. ~WriteHeld
    BY <2>2, PoppingIs DEF WriteHeld, NoTurn
  <2>4. CASE Goes(Io, "out") /\ UNCHANGED jobs
    <3>1. OrderlyWrites' = {} /\ ~WriteHeld' /\ Doing(Io)' = "out"
      BY <1>i, <2>2, <2>3, <2>4 DEF OrderlyWrites, WriteHeld, Goes
    <3>2. OutPlaces'
      BY <2>4, <3>1 DEF OutInv, OutPlaces, Goes
    <3>3. Popping(Io)'
      BY <1>o, <3>1
    <3> QED
      BY <2>1, <2>2, <2>3, <3>1, <3>2, <3>3 DEF OutInv, WriteCount, WritesGoOn
  <2>5. CASE /\ Goes(Io, "countwrite") /\ OrderlyWrite
             /\ jobs' = jobs \cup {[type |-> 2, message |-> Head(writelist)]}
    <3>1. OrderlyWrites' # {} /\ Doing(Io)' = "countwrite"
      <4> DEFINE j == [type |-> 2, message |-> Head(writelist)]
      <4>1. j \in jobs' /\ j.type = 2
        BY <2>5
      <4> HIDE DEF j
      <4>2. j \in OrderlyWrites'
        BY <4>1 DEF OrderlyWrites
      <4> QED
        BY <2>5, <4>2 DEF Goes
    <3>2. OutPlaces'
      BY <2>5, <3>1 DEF OutInv, OutPlaces, Goes
    <3>3. WriteCount'
      BY <1>t, <2>1, <2>2, <2>3, <3>1 DEF OutInv, WriteCount, WriteHeld
    <3> QED
      BY <3>1, <3>2, <3>3 DEF OutInv, WritesGoOn
  <2> QED
    BY <2>1, <2>4, <2>5
<1>7. CASE CountWrite
  <2>1. /\ pc[Io] = "countwrite" /\ Goes(Io, "idle") /\ writeevents' = writeevents + 1
        /\ UNCHANGED <<state, writelist, writing, jobs>>
    BY <1>7, EndWriteSteps
  <2>2. Doing(Io) = "countwrite" /\ Doing(Io)' = "idle" /\ OrderlyWrites' = OrderlyWrites
    BY <2>1 DEF Doing, Goes, OrderlyWrites, CallPC, WritePC, CloseNowPC
  <2>3. OutPlaces'
    BY <2>1, <2>2 DEF OutInv, OutPlaces, Goes
  <2>4. WriteHeld' = WriteHeld
    BY <1>i, <2>1, <2>2 DEF WriteHeld, Goes
  <2>5. \A t \in Thread : Popping(t) => Popping(t)'
    BY <1>o, <2>1, <2>2, PoppingIs DEF Goes
  <2>6. WriteCount'
    BY <1>t, <2>1, <2>2, <2>4 DEF OutInv, WriteCount
  <2> QED
    BY <2>1, <2>2, <2>3, <2>5, <2>6 DEF OutInv, WritesGoOn
<1>8. ASSUME NEW t \in Thread, OutCheck(t) PROVE OutInv'
  <2> DEFINE l == IF state <= 0 THEN "idle" ELSE IF ~OrderlyWrite THEN "pop"
                  ELSE IF pc[t] = "out" THEN "outenter" ELSE "outenterback"
  <2>1. /\ pc[t] \in {"out", "outback"} /\ Goes(t, l)
        /\ UNCHANGED <<state, jobs, writelist, writing, writeevents>>
    BY <1>8, OutSteps
  <2>2. Doing(t) = pc[t] /\ Doing(t)' = l /\ OrderlyWrites' = OrderlyWrites
    BY <2>1 DEF Doing, Goes, OrderlyWrites, CallPC, WritePC, CloseNowPC
  <2>3. OutPlaces'
    BY <2>1, <2>2 DEF OutInv, OutPlaces, Goes
  <2>4. SUFFICES ASSUME state = 1 PROVE WriteCount' /\ WritesGoOn'
    BY <2>1, <2>3 DEF OutInv, WriteCount, WritesGoOn
  <2>5. \/ ~OrderlyWrite /\ pc[t] = "out" /\ l = "pop"
        \/ OrderlyWrite /\ pc[t] = "out" /\ l = "outenter"
        \/ OrderlyWrite /\ pc[t] = "outback" /\ l = "outenterback"
    BY <2>1, <2>2, <2>4 DEF OutInv, OutPlaces
  <2> HIDE DEF l
  <2>6. WriteHeld' = WriteHeld /\ (Doing(Io) = "countwrite")' = (Doing(Io) = "countwrite")
    BY <2>1, <2>2, <2>5 DEF WriteHeld, Goes
  <2>7. Popping(t)'
    BY <1>o, <2>2, <2>5
  <2> QED
    BY <2>1, <2>6, <2>7 DEF OutInv, WriteCount, WritesGoOn
<1>9. ASSUME NEW t \in Thread, OutEnter(t) PROVE OutInv'
  <2>1. /\ \/ pc[t] = "outenter" /\ writeevents' = writeevents
           \/ pc[t] = "outenterback" /\ writeevents' = writeevents - 1
        /\ Goes(t, IF writeevents' > 0 THEN "idle" ELSE "pop")
        /\ UNCHANGED <<state, jobs, writelist, writing>>
    BY <1>9, OutSteps
  <2>2. Doing(t) = pc[t] /\ OrderlyWrites' = OrderlyWrites
    BY <2>1 DEF Doing, OrderlyWrites, CallPC, WritePC, CloseNowPC
  <2>3. OutPlaces'
    BY <2>1, <2>2 DEF OutInv, OutPlaces, Goes
  <2>4. SUFFICES ASSUME state = 1 PROVE WriteCount' /\ WritesGoOn'
    BY <2>1, <2>3 DEF OutInv, WriteCount, WritesGoOn
  <2>5. Popping(t) /\ OrderlyWrites = {} /\ \A u \in Thread : Popping(u) => u = t
    BY <2>1, <2>2, PoppingIs, OneTurn
  <2>6. ~WriteHeld'
    BY <2>1, <2>2, <2>5, PoppingIs DEF WriteHeld, Goes
  <2>7. WriteCount' /\ ~(writeevents' > 0)
    <3>1. CASE pc[t] = "outenter" /\ writeevents' = writeevents
      <4>1. t = Io /\ ~WriteHeld /\ Doing(Io) # "countwrite" /\ Doing(Io)' # "countwrite"
        BY <1>i, <2>1, <2>2, <2>5, <3>1, PoppingIs DEF OutInv, OutPlaces, WriteHeld, Goes
      <4>2. writeevents = 0
        BY <1>t, <2>4, <4>1 DEF OutInv, WriteCount
      <4> QED
        BY <2>1, <2>6, <3>1, <4>1, <4>2 DEF WriteCount
    <3>2. CASE pc[t] = "outenterback" /\ writeevents' = writeevents - 1
      <4>1. t \in Worker /\ WriteHeld /\ t # Io
        BY <1>i, <2>2, <3>2 DEF OutInv, OutPlaces, WriteHeld
      <4>2. Doing(Io)' = Doing(Io)
        BY <2>1, <4>1 DEF Goes
      <4>3. writeevents = 1 - (IF Doing(Io) = "countwrite" THEN 1 ELSE 0)
        BY <2>4, <4>1 DEF OutInv, WriteCount
      <4>4. writeevents' = 0 - (IF Doing(Io)' = "countwrite" THEN 1 ELSE 0)
        BY <3>2, <4>2, <4>3
      <4> QED
        BY <2>6, <4>4 DEF WriteCount
    <3> QED
      BY <2>1, <3>1, <3>2
  <2>8. Popping(t)'
    BY <1>o, <2>1, <2>7 DEF Goes
  <2> QED
    BY <2>7, <2>8 DEF WritesGoOn
<1>10. ASSUME NEW t \in Thread, PopAndWrite(t) \/ PopLast(t) PROVE OutInv'
  <2>1. /\ pc[t] = "pop" /\ \E l \in {"idle", "popread"} : Goes(t, l)
        /\ UNCHANGED <<state, jobs, writeevents>>
        /\ writing' # <<>> \/ writelist' = <<>>
    BY <1>10, OutSteps
  <2>2. Doing(t) = "pop" /\ OrderlyWrites' = OrderlyWrites
    BY <2>1 DEF Doing, OrderlyWrites, CallPC, WritePC, CloseNowPC
  <2>3. OutPlaces'
    BY <2>1, <2>2 DEF OutInv, OutPlaces, Goes
  <2>4. WriteHeld' = WriteHeld /\ (Doing(Io) = "countwrite")' = (Doing(Io) = "countwrite")
    BY <2>1, <2>2 DEF WriteHeld, Goes
  <2> QED
    BY <2>1, <2>3, <2>4 DEF OutInv, WriteCount, WritesGoOn
<1>11. ASSUME NEW w \in Worker, RunWork(w) PROVE OutInv'
  <2>1. /\ pc[w] = "idle" /\ UNCHANGED <<state, writelist, writing, writeevents>>
    BY <1>11, WorkSteps
  <2>2. PICK j \in jobs :
          /\ jobs' = jobs \ {j}
          /\ Goes(w, IF j.type = 2 THEN "outback" ELSE IF j.type = 1 THEN "processback" ELSE "idle")
    BY <1>11, WorkSteps
  <2>3. Doing(w) = "idle"
    BY <2>1 DEF Doing, CallPC, WritePC, CloseNowPC
  <2>4. CASE j.type = 2
    <3>1. j \in OrderlyWrites /\ OrderlyWrites' = OrderlyWrites \ {j}
      BY <2>2, <2>4 DEF OrderlyWrites
    <3>2. OrderlyWrites' = {} /\ WriteHeld /\ OrderlyWrite
      BY <3>1, OneTurn DEF WriteHeld, OutInv, OutPlaces
    <3>3. Doing(w)' = "outback" /\ Doing(Io)' = Doing(Io)
      BY <1>i, <2>2, <2>4 DEF Goes
    <3>4. WriteHeld' /\ OutPlaces' /\ Popping(w)'
      BY <1>o, <2>2, <2>4, <3>2, <3>3 DEF WriteHeld, OutInv, OutPlaces, Goes
    <3> QED
      BY <2>1, <3>2, <3>3, <3>4 DEF OutInv, WriteCount, WritesGoOn
  <2>5. CASE j.type # 2
    <3>1. OrderlyWrites' = OrderlyWrites
      BY <2>2, <2>5 DEF OrderlyWrites
    <3> QED
      BY <1>k, <2>1, <2>2, <2>3, <2>5, <3>1 DEF Goes, HandlePC, IncomingPC
  <2> QED
    BY <2>4, <2>5
<1> QED
  BY <1>1, <1>2, <1>3, <1>4, <1>5, <1>6, <1>7, <1>8, <1>9, <1>10, <1>11, HandleSteps DEF Handles

(* A message queued in an open session waits for a write that is under     *)
(* way, for the task of a message written, or for a thread that will start *)
(* its write: none is left in the queue when the last of them ends.        *)
THEOREM SessionNoWriteForgotten == Spec => []NoWriteForgotten
<1>1. Init => OutInv
  <2> SUFFICES ASSUME Init PROVE OutInv
    OBVIOUS
  <2>1. /\ jobs = {} /\ writelist = <<>> /\ state = 0
        /\ \A t \in Thread : pc[t] \in {"open", "idle", "ready"}
    BY DEF Init
  <2>2. \A t \in Thread : Doing(t) \in {"open", "idle", "ready"}
    BY <2>1 DEF Doing, CallPC, WritePC, CloseNowPC
  <2> QED
    BY <2>1, <2>2 DEF OutInv, OutPlaces, WriteCount, WritesGoOn, OrderlyWrites
<1>2. SessionInv /\ NotYetOpen /\ OutInv /\ [Next]_vars => NotYetOpen' /\ OutInv'
  BY NotYetOpenNext, OutNext DEF SessionInv
<1>3. SessionInv /\ OutInv => NoWriteForgotten
  <2> SUFFICES ASSUME SessionInv, OutInv, state = 1, writelist # <<>>, writing = <<>>,
                      ~\E t \in Thread : WillPop(t)
               PROVE  WritesHeld > 0
    BY DEF NoWriteForgotten
  <2>1. CASE OrderlyWrites # {}
    <3>1. \E j : OrderlyWrites = {j}
      BY <2>1, OneTurn DEF SessionInv
    <3>2. Cardinality(OrderlyWrites) = 1
      BY <3>1, FS_Singleton
    <3>3. Cardinality(WriteWorkers) = 0
      <4>1. NoTurn
        BY <2>1, OneTurn DEF SessionInv
      <4>2. WriteWorkers = {}
        BY <4>1, ThreadParts DEF WriteWorkers, NoTurn, Popping, Turn, At
      <4> QED
        BY <4>2, FS_EmptySet
    <3> QED
      BY <3>2, <3>3 DEF WritesHeld
  <2>2. CASE OrderlyWrites = {}
    <3>1. PICK t \in Thread : Popping(t)
      BY <2>2 DEF OutInv, WritesGoOn
    <3>2. Doing(t) \in {"outback", "outenterback"} /\ pc[t] = Doing(t)
      <4>1. ~WillPop(t)
        OBVIOUS
      <4> QED
        BY <3>1, <4>1, PoppingIs DEF SessionInv, WillPop, Within, At, Doing, ReturnPC
    <3>3. t \in Worker
      BY <3>2 DEF OutInv, OutPlaces
    <3>4. WriteWorkers = {t}
      <4>1. \A u \in Thread : Popping(u) => u = t
        BY <3>1, OneTurn DEF SessionInv
      <4> QED
        BY <3>2, <3>3, <4>1, ThreadParts DEF WriteWorkers, At, Popping, Turn
    <3>5. Cardinality(WriteWorkers) = 1 /\ Cardinality(OrderlyWrites) = 0
      BY <2>2, <3>4, FS_Singleton, FS_EmptySet
    <3> QED
      BY <3>5 DEF WritesHeld
  <2> QED
    BY <2>1, <2>2
<1> QED
  BY <1>1, <1>2, <1>3, NotYetOpenInit, SessionInvariant, PTL DEF Spec

----------------------------------------------------------------------------
(* The read side: the messages read are handled one after the other, in    *)
(* the order they arrived, and none is left in the queue.                  *)

(* A thread in the loop of InternalProcessIncoming has m_processreadmutex, *)
(* or, without orderly handling, is the thread of the IO service.          *)
Looping(t) == Doing(t) \in {"take", "takewrite", "onread", "next", "count"}
HasLoop(t) == IF OrderlyRead THEN owner["processread"] = t ELSE t = Io

(* Who comes to the loop: the thread of the IO service, and the worker     *)
(* that has handled an orderly message.                                    *)
LoopInv ==
  /\ \A t \in Thread :
       /\ Looping(t) => HasLoop(t)
       /\ Doing(t) \in {"process", "enter"} => t = Io
       /\ Doing(t) \in {"processback", "enterback"} => t \in Worker /\ OrderlyRead
       /\ Doing(t) \in {"enter", "count"} => OrderlyRead
  /\ OrderlyReads # {} => OrderlyRead

(* Nobody else loops. *)
LEMMA OneLoop ==
  ASSUME LoopInv, NEW t \in Thread, NEW u \in Thread, Looping(t), Looping(u)
  PROVE  t = u
BY DEF LoopInv, HasLoop

(* No orderly message is being handled, or one is.                         *)
NoneHeld == OrderlyReads = {} /\ ReadWorkers = {}
OneHeld ==
  \/ (\E j : OrderlyReads = {j}) /\ ReadWorkers = {}
  \/ OrderlyReads = {} /\ \E w : ReadWorkers = {w}

(* The turn to handle messages goes round: nobody has it, or a thread in   *)
(* the loop; then the task the loop ends with has been made and has to be  *)
(* counted; then it is counted, until its worker has come back.            *)
ReadTurn ==
  state = 1 =>
    \/ NoneHeld /\ readevents = 0 /\ \A t \in Thread : Doing(t) # "count"
    \/ OneHeld /\ readevents = 0 /\ \E t \in Thread : Doing(t) = "count"
    \/ OneHeld /\ readevents = 1 /\ \A t \in Thread : ~Looping(t)

(* While messages are queued somebody is coming to take them.              *)
ReadGoesOn ==
  state = 1 /\ readlist # <<>> => ~NoneHeld \/ \E t \in Thread : WillTake(t)

(* The definitions of the properties in terms of what threads are doing.   *)
Meanings ==
  /\ ReadWorkers = {w \in Worker : Doing(w) \in {"processback", "enterback"}}
  /\ \A t \in Thread : WillTake(t) <=>
       \/ Doing(t) \in {"process", "enter", "take"}
       \/ Doing(t) \in {"next", "onread"} /\ ~last[t]
  /\ Handling \subseteq {t \in Thread : Doing(t) \in {"onread", "next"}}

(* They mean the same.                                                     *)
LEMMA ReadersDoing == Places => Meanings
<1> SUFFICES ASSUME Places PROVE Meanings
  OBVIOUS
<1> USE DEF At, Within
<1>1. \A t \in Thread : \A l \in {"process", "processback", "next"} :
        Doing(t) = l <=> pc[t] = l \/ (pc[t] \in CallPC /\ ret[t] = l)
  BY DEF Doing, CallPC, WritePC, CloseNowPC
<1>2. \A t \in Thread : \A l \in {"enter", "enterback", "take", "onread"} : Doing(t) = l <=> pc[t] = l
  BY PoppingIs DEF Doing, ReturnPC, CallPC, WritePC, CloseNowPC
<1>3. ReadWorkers = {w \in Worker : Doing(w) \in {"processback", "enterback"}}
  BY <1>1, <1>2, ThreadParts DEF ReadWorkers
<1>4. \A t \in Thread : WillTake(t) <=>
        \/ Doing(t) \in {"process", "enter", "take"}
        \/ Doing(t) \in {"next", "onread"} /\ ~last[t]
  BY <1>1, <1>2 DEF WillTake
<1>5. Handling \subseteq {t \in Thread : Doing(t) \in {"onread", "next"}}
  BY <1>1, <1>2 DEF Handling
<1> QED
  BY <1>3, <1>4, <1>5 DEF Meanings

(* Before a step and after it.                                             *)
LEMMA ReadersDoingNext == Places /\ Places' => Meanings /\ Meanings'
<1>1. (Places => Meanings)'
  BY ReadersDoing, PTL
<1> QED
  BY <1>1, ReadersDoing

-----------------------------------------------------------------------------
(* What the steps of ProcessIncomingData do.                               *)

(* Where each comes from and goes to, and what it changes.                 *)
LEMMA LoopSteps ==
  ASSUME Places, NEW t \in Thread
  PROVE  /\ ProcessCheck(t) =>
              /\ pc[t] \in {"process", "processback"}
              /\ Goes(t, IF state <= 0 THEN AfterIncoming(t) ELSE IF ~OrderlyRead THEN "take"
                         ELSE IF pc[t] = "process" THEN "enter" ELSE "enterback")
              /\ UNCHANGED <<readlist, readevents, begun, msg, last, jobs, owner>>
         /\ ProcessEnter(t) =>
              /\ \/ pc[t] = "enter" /\ readevents' = readevents
                 \/ pc[t] = "enterback" /\ readevents' = readevents - 1
              /\ owner["processread"] = Nobody
              /\ \/ readevents' > 0 /\ Goes(t, AfterIncoming(t)) /\ UNCHANGED owner
                 \/ /\ ~(readevents' > 0) /\ Goes(t, "take")
                    /\ owner' = [owner EXCEPT !["processread"] = t]
              /\ UNCHANGED <<readlist, begun, msg, last, jobs>>
         /\ TakeMessage(t) =>
              /\ pc[t] = "take" /\ readlist # <<>> /\ Goes(t, "onread")
              /\ msg' = [msg EXCEPT ![t] = Head(readlist)] /\ readlist' = Tail(readlist)
              /\ last' = [last EXCEPT ![t] = Tail(readlist) = <<>>]
              /\ UNCHANGED <<readevents, begun, jobs, owner>>
         /\ TakeNothing(t) =>
              /\ pc[t] = "take" /\ readlist = <<>>
              /\ \/ Goes(t, AfterIncoming(t))
                 \/ /\ Goes(t, "takewrite")
                    /\ owner' \in {owner, [owner EXCEPT !["read"] = t]}
              /\ UNCHANGED <<readlist, readevents, begun, msg, last, jobs>>
         /\ TakeLooksAtWrites(t) =>
              /\ pc[t] = "takewrite" /\ Goes(t, AfterIncoming(t))
              /\ UNCHANGED <<readlist, readevents, begun, msg, last, jobs>>
         /\ HandleSync(t) \/ HandleConcurrent(t) =>
              /\ pc[t] = "onread" /\ Goes(t, "next")
              /\ begun' = Append(begun, msg[t])
              /\ OrderlyReads' = OrderlyReads
              /\ UNCHANGED <<readlist, readevents, msg, last, owner>>
         /\ HandleOrderly(t) =>
              /\ pc[t] = "onread" /\ Goes(t, "count") /\ OrderlyRead
              /\ begun' = Append(begun, msg[t])
              /\ OrderlyReads' = OrderlyReads \cup {[type |-> 1, message |-> msg[t]]}
              /\ UNCHANGED <<readlist, readevents, msg, last, owner>>
         /\ HandleNext(t) =>
              /\ pc[t] = "next"
              /\ \/ last[t] /\ Goes(t, AfterIncoming(t))
                 \/ ~last[t] /\ Goes(t, "take") /\ UNCHANGED owner
              /\ UNCHANGED <<readlist, readevents, begun, msg, last, jobs>>
         /\ CountEvent(t) =>
              /\ pc[t] = "count" /\ Goes(t, AfterIncoming(t))
              /\ readevents' = readevents + 1
              /\ UNCHANGED <<readlist, begun, msg, last, jobs>>
<1> USE DEF At
<1>0. \A l \in {"take", "enter", "enterback", "takewrite", "onread", "next", "count",
                "startread", "idle"} : Goto(t, l) => Goes(t, l)
  BY GoesTo DEF CallPC, WritePC, CloseNowPC
<1>a. AfterIncoming(t) \in {"startread", "idle"}
  BY DEF AfterIncoming
<1>1. ProcessCheck(t) =>
        /\ pc[t] \in {"process", "processback"}
        /\ Goes(t, IF state <= 0 THEN AfterIncoming(t) ELSE IF ~OrderlyRead THEN "take"
                   ELSE IF pc[t] = "process" THEN "enter" ELSE "enterback")
        /\ UNCHANGED <<readlist, readevents, begun, msg, last, jobs, owner>>
  BY <1>0, <1>a DEF ProcessCheck, readVars
<1>2. ProcessEnter(t) =>
        /\ \/ pc[t] = "enter" /\ readevents' = readevents
           \/ pc[t] = "enterback" /\ readevents' = readevents - 1
        /\ owner["processread"] = Nobody
        /\ \/ readevents' > 0 /\ Goes(t, AfterIncoming(t)) /\ UNCHANGED owner
           \/ /\ ~(readevents' > 0) /\ Goes(t, "take")
              /\ owner' = [owner EXCEPT !["processread"] = t]
        /\ UNCHANGED <<readlist, begun, msg, last, jobs>>
  BY <1>0, <1>a DEF ProcessEnter, CountEnd, MustWait, EnterLoop, Acquire, Free
<1>3. TakeMessage(t) =>
        /\ pc[t] = "take" /\ readlist # <<>> /\ Goes(t, "onread")
        /\ msg' = [msg EXCEPT ![t] = Head(readlist)] /\ readlist' = Tail(readlist)
        /\ last' = [last EXCEPT ![t] = Tail(readlist) = <<>>]
        /\ UNCHANGED <<readevents, begun, jobs, owner>>
  BY <1>0 DEF TakeMessage
<1>4. TakeNothing(t) =>
        /\ pc[t] = "take" /\ readlist = <<>>
        /\ \/ Goes(t, AfterIncoming(t))
           \/ Goes(t, "takewrite") /\ owner' \in {owner, [owner EXCEPT !["read"] = t]}
        /\ UNCHANGED <<readlist, readevents, begun, msg, last, jobs>>
  BY <1>0, <1>a DEF TakeNothing, Acquire, readVars
<1>5. TakeLooksAtWrites(t) =>
        /\ pc[t] = "takewrite" /\ Goes(t, AfterIncoming(t))
        /\ UNCHANGED <<readlist, readevents, begun, msg, last, jobs>>
  <2>1. "closenow" \in CallPC
    BY DEF CallPC, CloseNowPC
  <2> QED
    BY <1>0, <1>a, <2>1, GoesTo DEF TakeLooksAtWrites, readVars
<1>6. HandleSync(t) \/ HandleConcurrent(t) =>
        /\ pc[t] = "onread" /\ Goes(t, "next")
        /\ begun' = Append(begun, msg[t])
        /\ OrderlyReads' = OrderlyReads
        /\ UNCHANGED <<readlist, readevents, msg, last, owner>>
  <2>1. "next" \notin CallPC
    BY DEF CallPC, WritePC, CloseNowPC
  <2>2. HandleSync(t) \/ HandleConcurrent(t) => Goes(t, "next")
    BY <1>0, <2>1, GoesTo DEF HandleSync, HandleConcurrent
  <2> QED
    BY <2>2 DEF HandleSync, HandleConcurrent, OrderlyReads
<1>7. HandleOrderly(t) =>
        /\ pc[t] = "onread" /\ Goes(t, "count") /\ OrderlyRead
        /\ begun' = Append(begun, msg[t])
        /\ OrderlyReads' = OrderlyReads \cup {[type |-> 1, message |-> msg[t]]}
        /\ UNCHANGED <<readlist, readevents, msg, last, owner>>
  BY <1>0, SessionAssumption DEF HandleOrderly, OrderlyReads
<1>8. HandleNext(t) =>
        /\ pc[t] = "next"
        /\ \/ last[t] /\ Goes(t, AfterIncoming(t))
           \/ ~last[t] /\ Goes(t, "take") /\ UNCHANGED owner
        /\ UNCHANGED <<readlist, readevents, begun, msg, last, jobs>>
  BY <1>0, <1>a DEF HandleNext, readVars
<1>9. CountEvent(t) =>
        /\ pc[t] = "count" /\ Goes(t, AfterIncoming(t))
        /\ readevents' = readevents + 1
        /\ UNCHANGED <<readlist, begun, msg, last, jobs>>
  BY <1>0, <1>a DEF CountEvent
<1> QED
  BY <1>1, <1>2, <1>3, <1>4, <1>5, <1>6, <1>7, <1>8, <1>9

(* They leave the state of the session and what it receives alone.         *)
LEMMA LoopAside ==
  ASSUME Places, NEW t \in Thread, ProcessIncomingData(t)
  PROVE  UNCHANGED <<state, arrived, batch>> /\ AfterIncoming(t) \in {"startread", "idle"}
BY DEF ProcessIncomingData, ProcessCheck, ProcessEnter, TakeMessage, TakeNothing,
   TakeLooksAtWrites, HandleSync, HandleConcurrent, HandleOrderly, HandleNext, CountEvent,
   processUnchanged, sessionVars, netVars, AfterIncoming

(* The steps of the write side leave the read side alone, and so do the    *)
(* others that have no part in it.                                         *)
SameReaders ==
  /\ \A u \in Thread : Doing(u) \in IncomingPC \/ Doing(u)' \in IncomingPC => Doing(u)' = Doing(u)
  /\ OrderlyReads' = OrderlyReads /\ UNCHANGED <<readlist, begun, last>>
  /\ owner'["processread"] = owner["processread"]
  /\ \A u \in Thread : Doing(u) = "onread" => msg'[u] = msg[u]
  /\ state' = -1 \/ UNCHANGED <<state, readevents>>

(* The steps that are not those of ProcessIncomingData.                    *)
LEMMA OutsideSteps ==
  ASSUME TypeOK, Places,
         \/ Aside \/ WriteDone \/ WriteFails \/ CountWrite
         \/ \E t \in Thread : \/ WritePush(t) \/ OutCheck(t) \/ OutEnter(t) \/ PopAndWrite(t)
                              \/ PopLast(t)
  PROVE  SameReaders /\ (UNCHANGED <<arrived, batch>> \/ \E k \in InMessage : Receive(k))
<1> USE ThreadParts
<1>o. owner \in [Lock -> Thread \cup {Nobody}] /\ "processread" \in Lock
  BY DEF TypeOK, ThreadType, Lock
<1>1. CASE Aside
  BY <1>1 DEF Aside, SameReaders, OrderlyReads, HandlePC
<1>2. CASE WriteDone \/ WriteFails \/ CountWrite
  <2>1. /\ \E l \in {"out", "countwrite", "idle"} : Goes(Io, l)
        /\ \/ jobs' = jobs
           \/ jobs' = jobs \cup {[type |-> 2, message |-> Head(writelist)]}
    BY <1>2, EndWriteSteps
  <2>2. Doing(Io) \in {"idle", "countwrite"}
    BY <1>2, EndWriteSteps DEF Doing, CallPC, WritePC, CloseNowPC
  <2>3. \A u \in Thread : Doing(u) \in IncomingPC \/ Doing(u)' \in IncomingPC => Doing(u)' = Doing(u)
    BY <2>1, <2>2 DEF Goes, IncomingPC
  <2>4. OrderlyReads' = OrderlyReads
    BY <2>1 DEF OrderlyReads
  <2>5. UNCHANGED <<state, readlist, begun, readevents, last, msg, owner, arrived, batch>>
    BY <1>2 DEF WriteDone, WriteFails, CountWrite, onWriteUnchanged, sessionVars, readVars, netVars
  <2> QED
    BY <2>3, <2>4, <2>5 DEF SameReaders
<1>3. ASSUME NEW t \in Thread,
             WritePush(t) \/ OutCheck(t) \/ OutEnter(t) \/ PopAndWrite(t) \/ PopLast(t)
      PROVE  SameReaders /\ UNCHANGED <<arrived, batch>>
  <2>1. UNCHANGED <<state, readlist, readevents, begun, msg, last, jobs, arrived, batch>>
    BY <1>3 DEF WritePush, OutCheck, OutEnter, PopAndWrite, PopLast, outUnchanged, sessionVars,
       readVars, netVars
  <2>2. owner'["processread"] = owner["processread"]
    BY <1>o, <1>3 DEF WritePush, OutCheck, OutEnter, PopAndWrite, PopLast, Acquire, Release
  <2>3. \A u \in Thread : Doing(u) \in IncomingPC \/ Doing(u)' \in IncomingPC => Doing(u)' = Doing(u)
    <3>1. CASE WritePush(t)
      BY <3>1, CallGoesOn DEF Write, SameDoings
    <3>2. CASE OutCheck(t) \/ OutEnter(t) \/ PopAndWrite(t) \/ PopLast(t)
      <4>1. \E l \in {"idle", "pop", "popread", "outenter", "outenterback"} : Goes(t, l)
        BY <3>2, OutSteps
      <4>2. Doing(t) \in {"out", "outback", "outenter", "outenterback", "pop"}
        BY <3>2, OutSteps DEF Doing, CallPC, WritePC, CloseNowPC
      <4> QED
        BY <4>1, <4>2 DEF Goes, IncomingPC
    <3> QED
      BY <1>3, <3>1, <3>2
  <2> QED
    BY <2>1, <2>2, <2>3 DEF SameReaders, OrderlyReads
<1> QED
  BY <1>1, <1>2, <1>3

-----------------------------------------------------------------------------
(* The turn to handle messages.                                            *)

ReadInv == LoopInv /\ ReadTurn /\ ReadGoesOn

(* It stays where it is when the read side is left alone.                  *)
LEMMA ReadKept ==
  ASSUME ReadInv, Places, Places', SameReaders
  PROVE  ReadInv'
<1> USE ThreadParts
<1>1. \A u \in Thread : \A l \in IncomingPC : Doing(u)' = l <=> Doing(u) = l
  BY DEF SameReaders
<1>2. LoopInv'
  BY <1>1 DEF ReadInv, LoopInv, Looping, HasLoop, SameReaders, IncomingPC
<1>m. Meanings /\ Meanings'
  BY ReadersDoingNext
<1>3. ReadWorkers' = ReadWorkers
  BY <1>1, <1>m DEF Meanings, IncomingPC
<1>4. NoneHeld' = NoneHeld /\ OneHeld' = OneHeld
  BY <1>3 DEF SameReaders, NoneHeld, OneHeld
<1>5. ReadTurn'
  BY <1>1, <1>4 DEF SameReaders, ReadInv, ReadTurn, Looping, IncomingPC
<1>6. \A t \in Thread : WillTake(t) => WillTake(t)'
  BY <1>1, <1>m DEF Meanings, SameReaders, IncomingPC
<1>7. ReadGoesOn'
  BY <1>4, <1>6 DEF SameReaders, ReadInv, ReadGoesOn
<1> QED
  BY <1>2, <1>5, <1>7 DEF ReadInv

(* A thread that loops, and has not made an orderly task, handles messages *)
(* while no other is being handled.                                        *)
LEMMA LooperAlone ==
  ASSUME ReadInv, state = 1, NEW t \in Thread, Looping(t), Doing(t) # "count"
  PROVE  NoneHeld /\ readevents = 0 /\ \A u \in Thread : Doing(u) # "count"
<1>1. \A u \in Thread : Doing(u) # "count"
  BY OneLoop DEF ReadInv, Looping
<1> QED
  BY <1>1 DEF ReadInv, ReadTurn

(* A thread moves within the loop, or out of it, or comes into it with the *)
(* mutex.                                                                  *)
LEMMA LoopMove ==
  ASSUME LoopInv, NEW t \in Thread, NEW l, Goes(t, l),
         OrderlyReads' # {} => OrderlyRead,
         l \in {"process", "enter"} => t = Io,
         l \in {"processback", "enterback"} => t \in Worker /\ OrderlyRead,
         l \in {"enter", "count"} => OrderlyRead,
         l \in {"take", "takewrite", "onread", "next", "count"} => HasLoop(t)',
         Looping(t) \/ owner'["processread"] = owner["processread"] \/ \A u \in Thread : ~Looping(u)
  PROVE  LoopInv'
<1>1. ASSUME NEW u \in Thread, u # t, Looping(u)' PROVE HasLoop(u)'
  <2>1. Looping(u) /\ HasLoop(u)
    BY <1>1 DEF Goes, Looping, LoopInv
  <2>2. ~Looping(t)
    BY <1>1, <2>1, OneLoop
  <2> QED
    BY <2>1, <2>2 DEF HasLoop
<1>2. Doing(t)' = l
  BY DEF Goes
<1>3. \A u \in Thread : Looping(u)' => HasLoop(u)'
  BY <1>1, <1>2 DEF Looping
<1> QED
  BY <1>2, <1>3 DEF LoopInv, Goes

(* ProcessIncomingData passes the turn on.                                 *)
LEMMA ReadStep ==
  ASSUME SessionInv, ReadInv, Places', NEW t \in Thread, ProcessIncomingData(t)
  PROVE  ReadInv'
<1> USE ThreadParts
<1>p. Places /\ Nobody \notin Thread
  BY SessionAssumption DEF SessionInv
<1>t. /\ readevents \in Int /\ state \in {-1, 0, 1} /\ owner \in [Lock -> Thread \cup {Nobody}]
      /\ "processread" \in Lock
  BY DEF SessionInv, TypeOK, SessionType, ReadType, ThreadType, Lock
<1>d. pc[t] \in IncomingPC /\ Doing(t) = pc[t]
  BY StepPlaces DEF Doing, IncomingPC, CallPC, WritePC, CloseNowPC
<1>a. AfterIncoming(t) \in {"startread", "idle"} /\ state' = state
  BY <1>p, LoopAside
<1>m. Meanings /\ Meanings'
  BY <1>p, ReadersDoingNext
<1>r. LoopInv /\ ReadTurn /\ ReadGoesOn
  BY DEF ReadInv
<1>w. ASSUME NEW l, Goes(t, l),
             Doing(t) \in {"processback", "enterback"} <=> l \in {"processback", "enterback"}
      PROVE  ReadWorkers' = ReadWorkers
  BY <1>m, <1>w DEF Meanings, Goes
<1>k. ASSUME NEW l, Goes(t, l), Looping(t), Doing(t) # "count", l \notin {"processback", "enterback", "count"},
             OrderlyReads' = OrderlyReads, readevents' = readevents
      PROVE  ReadTurn'
  <2>1. ReadWorkers' = ReadWorkers
    BY <1>k, <1>w DEF Looping
  <2>2. ASSUME state = 1 PROVE NoneHeld' /\ readevents' = 0 /\ \A u \in Thread : Doing(u)' # "count"
    <3>1. NoneHeld /\ readevents = 0 /\ \A u \in Thread : Doing(u) # "count"
      BY <1>k, <2>2, LooperAlone
    <3> QED
      BY <1>k, <2>1, <3>1 DEF NoneHeld, Goes
  <2> QED
    BY <1>a, <2>2 DEF ReadTurn
<1>1. CASE ProcessCheck(t)
  <2> DEFINE l == IF state <= 0 THEN AfterIncoming(t) ELSE IF ~OrderlyRead THEN "take"
                  ELSE IF pc[t] = "process" THEN "enter" ELSE "enterback"
  <2>1. /\ pc[t] \in {"process", "processback"} /\ Goes(t, l)
        /\ UNCHANGED <<readlist, readevents, begun, msg, last, jobs, owner>>
    BY <1>1, <1>p, LoopSteps
  <2>2. OrderlyReads' = OrderlyReads
    BY <2>1 DEF OrderlyReads
  <2>3. /\ l = "take" => t = Io /\ ~OrderlyRead
        /\ l = "enter" => t = Io /\ OrderlyRead
        /\ l = "enterback" => t \in Worker /\ OrderlyRead
        /\ l \in {"startread", "idle", "take", "enter", "enterback"}
    BY <1>a, <1>d, <1>r, <2>1 DEF LoopInv
  <2>4. LoopInv'
    <3> HIDE DEF l
    <3> QED
      BY <1>r, <2>1, <2>2, <2>3, LoopMove DEF HasLoop, LoopInv
  <2>5. ASSUME state = 1
        PROVE  \/ l \in {"take", "enter"} /\ pc[t] = "process"
               \/ l = "enterback" /\ pc[t] = "processback"
    BY <1>d, <1>r, <2>1, <2>5 DEF LoopInv
  <2> HIDE DEF l
  <2>6. ASSUME state = 1 PROVE ReadWorkers' = ReadWorkers
    BY <1>d, <1>w, <2>1, <2>5, <2>6
  <2>7. ReadTurn'
    <3> SUFFICES ASSUME state = 1 PROVE ReadTurn'
      BY <1>a DEF ReadTurn
    <3>1. NoneHeld' = NoneHeld /\ OneHeld' = OneHeld
      BY <2>2, <2>6 DEF NoneHeld, OneHeld
    <3>2. \A u \in Thread : Doing(u)' = "count" <=> Doing(u) = "count"
      BY <1>d, <2>1, <2>5 DEF Goes
    <3>3. OneHeld => OrderlyRead
      BY <1>m, <1>r DEF OneHeld, LoopInv, Meanings
    <3>4. OneHeld => \A u \in Thread : Looping(u)' => Looping(u)
      BY <2>1, <2>3, <2>5, <3>3 DEF Goes, Looping
    <3> QED
      BY <1>a, <1>r, <2>1, <3>1, <3>2, <3>4 DEF ReadTurn
  <2>8. ReadGoesOn'
    <3> SUFFICES ASSUME state = 1, pc[t] = "processback" => ~NoneHeld' PROVE ReadGoesOn'
      <4>1. pc[t] = "processback" /\ state = 1 => ~NoneHeld'
        BY <1>d, <1>m, <1>r, <2>6 DEF NoneHeld, Meanings, LoopInv
      <4> QED
        BY <1>a, <4>1 DEF ReadGoesOn
    <3>1. pc[t] = "process" => WillTake(t)'
      BY <1>m, <2>1, <2>5 DEF Meanings, Goes
    <3> QED
      BY <2>1, <3>1 DEF ReadGoesOn
  <2> QED
    BY <2>4, <2>7, <2>8 DEF ReadInv
<1>2. CASE ProcessEnter(t)
  <2>1. /\ \/ pc[t] = "enter" /\ readevents' = readevents
           \/ pc[t] = "enterback" /\ readevents' = readevents - 1
        /\ owner["processread"] = Nobody
        /\ \/ readevents' > 0 /\ Goes(t, AfterIncoming(t)) /\ UNCHANGED owner
           \/ /\ ~(readevents' > 0) /\ Goes(t, "take")
              /\ owner' = [owner EXCEPT !["processread"] = t]
        /\ UNCHANGED <<readlist, begun, msg, last, jobs>>
    BY <1>2, <1>p, LoopSteps
  <2>2. OrderlyReads' = OrderlyReads /\ OrderlyRead
    BY <1>d, <1>r, <2>1 DEF OrderlyReads, LoopInv
  <2>3. \A u \in Thread : ~Looping(u)
    BY <1>p, <1>r, <2>1, <2>2 DEF LoopInv, HasLoop
  <2>4. LoopInv'
    <3>1. CASE Goes(t, AfterIncoming(t))
      BY <1>a, <1>r, <2>2, <2>3, <3>1, LoopMove
    <3>2. CASE Goes(t, "take") /\ owner' = [owner EXCEPT !["processread"] = t]
      <4>1. HasLoop(t)'
        BY <1>t, <2>2, <3>2 DEF HasLoop
      <4> QED
        BY <1>r, <2>2, <2>3, <3>2, <4>1, LoopMove
    <3> QED
      BY <2>1, <3>1, <3>2
  <2>5. ASSUME state = 1, pc[t] = "enter" PROVE ReadTurn' /\ ReadGoesOn'
    <3>1. \E l \in {"startread", "idle", "take"} : Goes(t, l)
      BY <1>a, <2>1
    <3>2. ReadWorkers' = ReadWorkers
      BY <1>d, <1>w, <2>5, <3>1
    <3>3. NoneHeld' = NoneHeld /\ OneHeld' = OneHeld /\ readevents' = readevents
      BY <2>1, <2>2, <2>5, <3>2 DEF NoneHeld, OneHeld
    <3>4. \A u \in Thread : Doing(u)' # "count"
      BY <2>3, <3>1 DEF Goes, Looping
    <3>5. CASE NoneHeld /\ readevents = 0
      <4>1. Goes(t, "take")
        BY <2>1, <3>3, <3>5
      <4>2. WillTake(t)'
        BY <1>m, <4>1 DEF Meanings, Goes
      <4> QED
        BY <3>3, <3>4, <3>5, <4>2 DEF ReadTurn, ReadGoesOn
    <3>6. CASE OneHeld /\ readevents = 1
      <4>1. Goes(t, AfterIncoming(t))
        BY <2>1, <3>3, <3>6
      <4>2. \A u \in Thread : ~Looping(u)'
        BY <1>a, <2>3, <4>1 DEF Goes, Looping
      <4>3. ~NoneHeld'
        BY <3>3, <3>6 DEF NoneHeld, OneHeld
      <4> QED
        BY <3>3, <3>6, <4>2, <4>3 DEF ReadTurn, ReadGoesOn
    <3> QED
      BY <1>r, <2>3, <2>5, <3>5, <3>6 DEF ReadTurn, Looping
  <2>6. ASSUME state = 1, pc[t] = "enterback" PROVE ReadTurn' /\ ReadGoesOn'
    <3>1. t \in Worker /\ t \in ReadWorkers
      BY <1>d, <1>m, <1>r, <2>6 DEF LoopInv, Meanings
    <3>2. OneHeld /\ readevents = 1
      BY <1>r, <2>3, <2>6, <3>1 DEF ReadTurn, NoneHeld, Looping
    <3>3. ReadWorkers = {t} /\ OrderlyReads = {}
      BY <3>1, <3>2 DEF OneHeld
    <3>4. readevents' = 0 /\ Goes(t, "take")
      BY <2>1, <2>6, <3>2
    <3>5. ReadWorkers' = {}
      BY <1>m, <3>3, <3>4 DEF Meanings, Goes
    <3>6. NoneHeld' /\ \A u \in Thread : Doing(u)' # "count"
      BY <2>2, <2>3, <3>3, <3>4, <3>5 DEF NoneHeld, Goes, Looping
    <3>7. WillTake(t)'
      BY <1>m, <3>4 DEF Meanings, Goes
    <3> QED
      BY <3>4, <3>6, <3>7 DEF ReadTurn, ReadGoesOn
  <2>7. ReadTurn' /\ ReadGoesOn'
    BY <1>a, <2>1, <2>5, <2>6 DEF ReadTurn, ReadGoesOn
  <2> QED
    BY <2>4, <2>7 DEF ReadInv
<1>3. CASE TakeMessage(t)
  <2>1. /\ pc[t] = "take" /\ readlist # <<>> /\ Goes(t, "onread") /\ readlist' = Tail(readlist)
        /\ last' = [last EXCEPT ![t] = Tail(readlist) = <<>>]
        /\ UNCHANGED <<readevents, begun, jobs, owner>>
    BY <1>3, <1>p, LoopSteps
  <2>2. OrderlyReads' = OrderlyReads /\ Looping(t)
    BY <1>d, <2>1 DEF OrderlyReads, Looping
  <2>3. LoopInv'
    BY <1>r, <2>1, <2>2, LoopMove DEF LoopInv, HasLoop
  <2>4. ReadTurn'
    BY <1>d, <1>k, <2>1, <2>2
  <2>5. readlist' # <<>> => WillTake(t)'
    <3>1. last'[t] = (Tail(readlist) = <<>>)
      BY <2>1 DEF SessionInv, TypeOK, ThreadType
    <3> QED
      BY <1>m, <2>1, <3>1 DEF Meanings, Goes
  <2> QED
    BY <2>3, <2>4, <2>5 DEF ReadInv, ReadGoesOn
<1>4. CASE TakeNothing(t)
  <2>1. /\ pc[t] = "take" /\ readlist = <<>>
        /\ \/ Goes(t, AfterIncoming(t))
           \/ Goes(t, "takewrite") /\ owner' \in {owner, [owner EXCEPT !["read"] = t]}
        /\ UNCHANGED <<readlist, readevents, begun, msg, last, jobs>>
    BY <1>4, <1>p, LoopSteps
  <2>2. OrderlyReads' = OrderlyReads /\ Looping(t) /\ HasLoop(t)
    BY <1>d, <1>r, <2>1 DEF OrderlyReads, Looping, LoopInv
  <2>3. LoopInv'
    <3>1. CASE Goes(t, AfterIncoming(t))
      BY <1>a, <1>r, <2>2, <3>1, LoopMove DEF LoopInv
    <3>2. CASE Goes(t, "takewrite") /\ owner' \in {owner, [owner EXCEPT !["read"] = t]}
      <4>1. HasLoop(t)'
        BY <1>t, <2>2, <3>2 DEF HasLoop
      <4> QED
        BY <1>r, <2>2, <3>2, <4>1, LoopMove DEF LoopInv
    <3> QED
      BY <2>1, <3>1, <3>2
  <2>4. ReadTurn'
    BY <1>a, <1>d, <1>k, <2>1, <2>2
  <2> QED
    BY <2>1, <2>3, <2>4 DEF ReadInv, ReadGoesOn
<1>5. CASE TakeLooksAtWrites(t)
  <2>1. /\ pc[t] = "takewrite" /\ Goes(t, AfterIncoming(t))
        /\ UNCHANGED <<readlist, readevents, begun, msg, last, jobs>>
    BY <1>5, <1>p, LoopSteps
  <2>2. OrderlyReads' = OrderlyReads /\ Looping(t)
    BY <1>d, <2>1 DEF OrderlyReads, Looping
  <2>3. LoopInv'
    BY <1>a, <1>r, <2>1, <2>2, LoopMove DEF LoopInv
  <2>4. ReadTurn'
    BY <1>a, <1>d, <1>k, <2>1, <2>2
  <2>5. ReadGoesOn'
    <3> SUFFICES ASSUME state = 1, readlist # <<>> PROVE \E u \in Thread : WillTake(u)'
      BY <1>a, <2>1 DEF ReadGoesOn
    <3>1. NoneHeld
      BY <1>d, <2>1, <2>2, LooperAlone
    <3>2. PICK u \in Thread : WillTake(u)
      BY <1>r, <3>1 DEF ReadGoesOn
    <3>3. u # t
      BY <1>d, <1>m, <2>1, <3>2 DEF Meanings
    <3>4. WillTake(u)'
      BY <1>m, <2>1, <3>2, <3>3 DEF Meanings, Goes
    <3> QED
      BY <3>4
  <2> QED
    BY <2>3, <2>4, <2>5 DEF ReadInv
<1>6. CASE HandleSync(t) \/ HandleConcurrent(t)
  <2>1. /\ pc[t] = "onread" /\ Goes(t, "next") /\ OrderlyReads' = OrderlyReads
        /\ UNCHANGED <<readlist, readevents, msg, last, owner>>
    BY <1>6, <1>p, LoopSteps
  <2>2. Looping(t) /\ HasLoop(t)'
    BY <1>d, <1>r, <2>1 DEF Looping, LoopInv, HasLoop
  <2>3. LoopInv'
    BY <1>r, <2>1, <2>2, LoopMove DEF LoopInv
  <2>4. ReadTurn'
    BY <1>d, <1>k, <2>1, <2>2
  <2>5. \A u \in Thread : WillTake(u) => WillTake(u)'
    BY <1>d, <1>m, <2>1 DEF Meanings, Goes
  <2>6. ReadWorkers' = ReadWorkers
    BY <1>d, <1>w, <2>1
  <2>7. ReadGoesOn'
    BY <1>a, <1>r, <2>1, <2>5, <2>6 DEF ReadGoesOn, NoneHeld
  <2> QED
    BY <2>3, <2>4, <2>7 DEF ReadInv
<1>7. CASE HandleOrderly(t)
  <2>1. /\ pc[t] = "onread" /\ Goes(t, "count") /\ OrderlyRead
        /\ OrderlyReads' = OrderlyReads \cup {[type |-> 1, message |-> msg[t]]}
        /\ UNCHANGED <<readlist, readevents, msg, last, owner>>
    BY <1>7, <1>p, LoopSteps
  <2>2. Looping(t) /\ HasLoop(t)' /\ Doing(t) # "count"
    BY <1>d, <1>r, <2>1 DEF Looping, LoopInv, HasLoop
  <2>3. LoopInv'
    BY <1>r, <2>1, <2>2, LoopMove
  <2>4. ReadWorkers' = ReadWorkers
    BY <1>d, <1>w, <2>1
  <2>5. OrderlyReads' # {}
    BY <2>1
  <2>6. ASSUME state = 1 PROVE OneHeld' /\ readevents' = 0 /\ Doing(t)' = "count"
    <3>1. NoneHeld /\ readevents = 0
      BY <2>2, <2>6, LooperAlone
    <3> QED
      BY <2>1, <2>4, <3>1 DEF NoneHeld, OneHeld, Goes
  <2> QED
    BY <1>a, <2>3, <2>5, <2>6 DEF ReadInv, ReadTurn, ReadGoesOn, NoneHeld
<1>8. CASE HandleNext(t)
  <2>1. /\ pc[t] = "next"
        /\ \/ last[t] /\ Goes(t, AfterIncoming(t))
           \/ ~last[t] /\ Goes(t, "take") /\ UNCHANGED owner
        /\ UNCHANGED <<readlist, readevents, begun, msg, last, jobs>>
    BY <1>8, <1>p, LoopSteps
  <2>2. OrderlyReads' = OrderlyReads /\ Looping(t) /\ HasLoop(t)
    BY <1>d, <1>r, <2>1 DEF OrderlyReads, Looping, LoopInv
  <2>3. LoopInv'
    <3>1. CASE Goes(t, AfterIncoming(t))
      BY <1>a, <1>r, <2>2, <3>1, LoopMove DEF LoopInv
    <3>2. CASE Goes(t, "take") /\ UNCHANGED owner
      BY <1>r, <2>2, <3>2, LoopMove DEF LoopInv, HasLoop
    <3> QED
      BY <2>1, <3>1, <3>2
  <2>4. ReadTurn'
    BY <1>a, <1>d, <1>k, <2>1, <2>2
  <2>5. ReadGoesOn'
    <3> SUFFICES ASSUME state = 1, readlist # <<>> PROVE \E u \in Thread : WillTake(u)'
      BY <1>a, <2>1 DEF ReadGoesOn
    <3>1. CASE ~last[t] /\ Goes(t, "take")
      BY <1>m, <3>1 DEF Meanings, Goes
    <3>2. CASE last[t] /\ Goes(t, AfterIncoming(t))
      <4>1. NoneHeld
        BY <1>d, <2>1, <2>2, LooperAlone
      <4>2. PICK u \in Thread : WillTake(u)
        BY <1>r, <4>1 DEF ReadGoesOn
      <4>3. u # t
        BY <1>d, <1>m, <2>1, <3>2, <4>2 DEF Meanings
      <4>4. WillTake(u)'
        BY <1>m, <2>1, <3>2, <4>2, <4>3 DEF Meanings, Goes
      <4> QED
        BY <4>4
    <3> QED
      BY <2>1, <3>1, <3>2
  <2> QED
    BY <2>3, <2>4, <2>5 DEF ReadInv
<1>9. CASE CountEvent(t)
  <2>1. /\ pc[t] = "count" /\ Goes(t, AfterIncoming(t)) /\ readevents' = readevents + 1
        /\ UNCHANGED <<readlist, begun, msg, last, jobs>>
    BY <1>9, <1>p, LoopSteps
  <2>2. OrderlyReads' = OrderlyReads /\ Looping(t)
    BY <1>d, <2>1 DEF OrderlyReads, Looping
  <2>3. LoopInv'
    BY <1>a, <1>r, <2>1, <2>2, LoopMove DEF LoopInv
  <2>4. ReadWorkers' = ReadWorkers
    BY <1>a, <1>d, <1>w, <2>1
  <2>5. \A u \in Thread : ~Looping(u)'
    <3>1. \A u \in Thread : Looping(u) => u = t
      BY <1>r, <2>2, OneLoop
    <3> QED
      BY <1>a, <2>1, <3>1 DEF Goes, Looping
  <2>6. ASSUME state = 1 PROVE OneHeld' /\ readevents' = 1
    <3>1. OneHeld /\ readevents = 0
      BY <1>d, <1>r, <2>1, <2>2, <2>6 DEF ReadTurn
    <3> QED
      BY <2>1, <2>2, <2>4, <3>1 DEF OneHeld
  <2>7. OneHeld' => ~NoneHeld'
    BY DEF OneHeld, NoneHeld
  <2> QED
    BY <1>a, <2>3, <2>5, <2>6, <2>7 DEF ReadInv, ReadTurn, ReadGoesOn
<1> QED
  BY <1>1, <1>2, <1>3, <1>4, <1>5, <1>6, <1>7, <1>8, <1>9 DEF ProcessIncomingData

(* OnRead queues messages, and goes on to have them handled.               *)
LEMMA QueueStep ==
  ASSUME SessionInv, ReadInv, Places', QueueBatch
  PROVE  ReadInv'
<1> USE ThreadParts
<1>p. Places
  BY DEF SessionInv
<1>m. Meanings /\ Meanings'
  BY <1>p, ReadersDoingNext
<1>r. LoopInv /\ ReadTurn
  BY DEF ReadInv
<1>1. /\ pc[Io] = "queue" /\ Goes(Io, "process")
      /\ UNCHANGED <<state, readevents, jobs, owner>>
  BY <1>p, GoesTo DEF QueueBatch, At, CallPC, WritePC, CloseNowPC, sessionVars
<1>2. Doing(Io) = "queue" /\ OrderlyReads' = OrderlyReads
  BY <1>1 DEF Doing, OrderlyReads, CallPC, WritePC, CloseNowPC
<1>3. LoopInv'
  BY <1>1, <1>2, <1>r, LoopMove DEF LoopInv
<1>4. ReadWorkers' = ReadWorkers
  BY <1>1, <1>2, <1>m DEF Meanings, Goes
<1>5. NoneHeld' = NoneHeld /\ OneHeld' = OneHeld
  BY <1>2, <1>4 DEF NoneHeld, OneHeld
<1>6. \A u \in Thread : (Looping(u)' <=> Looping(u)) /\ (Doing(u)' = "count" <=> Doing(u) = "count")
  BY <1>1, <1>2 DEF Goes, Looping
<1>7. ReadTurn'
  BY <1>1, <1>5, <1>6, <1>r DEF ReadTurn
<1>8. WillTake(Io)'
  BY <1>1, <1>m DEF Meanings, Goes
<1> QED
  BY <1>3, <1>7, <1>8 DEF ReadInv, ReadGoesOn

(* A worker that takes an orderly task takes the turn with it.             *)
LEMMA WorkStep ==
  ASSUME SessionInv, ReadInv, Places', NEW w \in Worker, RunWork(w)
  PROVE  ReadInv'
<1> USE ThreadParts
<1>p. Places
  BY DEF SessionInv
<1>m. Meanings /\ Meanings'
  BY <1>p, ReadersDoingNext
<1>r. LoopInv /\ ReadTurn /\ ReadGoesOn
  BY DEF ReadInv
<1>1. pc[w] = "idle" /\ UNCHANGED <<state, readlist, readevents, last, owner>>
  BY <1>p, WorkSteps
<1>2. PICK j \in jobs :
        /\ jobs' = jobs \ {j}
        /\ Goes(w, IF j.type = 2 THEN "outback" ELSE IF j.type = 1 THEN "processback" ELSE "idle")
  BY <1>p, WorkSteps
<1>3. Doing(w) = "idle"
  BY <1>1 DEF Doing, CallPC, WritePC, CloseNowPC
<1>4. \A u \in Thread : /\ Looping(u)' <=> Looping(u)
                        /\ Doing(u)' = "count" <=> Doing(u) = "count"
                        /\ WillTake(u) => WillTake(u)'
  BY <1>1, <1>2, <1>3, <1>m DEF Goes, Looping, Meanings
<1>5. CASE j.type = 1
  <2>1. j \in OrderlyReads /\ OrderlyReads' = OrderlyReads \ {j} /\ Goes(w, "processback")
    BY <1>2, <1>5 DEF OrderlyReads
  <2>2. OrderlyRead
    BY <1>r, <2>1 DEF LoopInv
  <2>3. LoopInv'
    BY <1>1, <1>r, <2>1, <2>2, LoopMove
  <2>4. ReadWorkers' = ReadWorkers \cup {w}
    BY <1>m, <2>1 DEF Meanings, Goes
  <2>5. ASSUME state = 1 PROVE OneHeld' /\ OneHeld
    <3>1. OneHeld
      BY <1>r, <2>1, <2>5 DEF ReadTurn, NoneHeld
    <3> QED
      BY <2>1, <2>4, <3>1 DEF OneHeld
  <2>6. (OneHeld' => ~NoneHeld') /\ (OneHeld => ~NoneHeld)
    BY DEF OneHeld, NoneHeld
  <2> QED
    BY <1>1, <1>4, <1>r, <2>3, <2>5, <2>6 DEF ReadInv, ReadTurn, ReadGoesOn
<1>6. CASE j.type # 1
  <2>1. OrderlyReads' = OrderlyReads /\ \E l \in {"outback", "idle"} : Goes(w, l)
    BY <1>2, <1>6 DEF OrderlyReads
  <2>2. LoopInv'
    BY <1>1, <1>r, <2>1, LoopMove DEF LoopInv
  <2>3. ReadWorkers' = ReadWorkers
    BY <1>3, <1>m, <2>1 DEF Meanings, Goes
  <2>4. NoneHeld' = NoneHeld /\ OneHeld' = OneHeld
    BY <2>1, <2>3 DEF NoneHeld, OneHeld
  <2> QED
    BY <1>1, <1>4, <1>r, <2>2, <2>4 DEF ReadInv, ReadTurn, ReadGoesOn
<1> QED
  BY <1>5, <1>6

(* Every step keeps the turn to handle messages going.                     *)
LEMMA ReadNext ==
  ASSUME SessionInv, NotYetOpen, ReadInv, [Next]_vars
  PROVE  ReadInv'
<1>p. TypeOK /\ Places /\ Places'
  BY SessionNext DEF SessionInv
<1>1. CASE OpenActivate
  <2>1. /\ readevents' = 0 /\ readlist' = <<>> /\ jobs' = {}
        /\ \A u \in Thread : Doing(u)' \notin HandlePC
    BY <1>1, <1>p, Activated
  <2>2. OrderlyReads' = {}
    BY <2>1 DEF OrderlyReads
  <2>3. ReadWorkers' = {}
    BY <1>p, <2>1, ReadersDoingNext, ThreadParts DEF Meanings, HandlePC, IncomingPC
  <2>4. LoopInv'
    BY <2>1, <2>2 DEF LoopInv, Looping, HandlePC, IncomingPC
  <2> QED
    BY <2>1, <2>2, <2>3, <2>4 DEF ReadInv, ReadTurn, ReadGoesOn, NoneHeld, HandlePC, IncomingPC
<1>2. CASE \/ Aside \/ WriteDone \/ WriteFails \/ CountWrite
           \/ \E t \in Thread : \/ WritePush(t) \/ OutCheck(t) \/ OutEnter(t) \/ PopAndWrite(t)
                                \/ PopLast(t)
  BY <1>2, <1>p, OutsideSteps, ReadKept
<1> QED
  BY <1>1, <1>2, <1>p, HandleSteps, ReadStep, QueueStep, WorkStep DEF Handles

(* Nothing is read in a new session.                                       *)
LEMMA ReadInit == Init => ReadInv
<1> SUFFICES ASSUME Init PROVE ReadInv
  OBVIOUS
<1>1. jobs = {} /\ readlist = <<>> /\ state = 0 /\ \A t \in Thread : pc[t] \in {"open", "idle", "ready"}
  BY DEF Init
<1>2. \A t \in Thread : Doing(t) \in {"open", "idle", "ready"}
  BY <1>1 DEF Doing, CallPC, WritePC, CloseNowPC
<1>3. LoopInv
  BY <1>1, <1>2 DEF LoopInv, Looping, OrderlyReads
<1> QED
  BY <1>1, <1>3 DEF ReadInv, ReadTurn, ReadGoesOn

(* The invariant of the read side, with what it rests on.                  *)
LEMMA ReadInvariant == Spec => [](SessionInv /\ ReadInv)
<1>1. SessionInv /\ NotYetOpen /\ ReadInv /\ [Next]_vars => NotYetOpen' /\ ReadInv'
  BY NotYetOpenNext, ReadNext DEF SessionInv
<1> QED
  BY <1>1, ReadInit, NotYetOpenInit, SessionInvariant, PTL DEF Spec

(* How many orderly messages are being handled.                            *)
LEMMA HeldCounts ==
  /\ NoneHeld => ReadsHeld = 0
  /\ OneHeld => ReadsHeld = 1
<1>1. Cardinality({}) = 0 /\ \A x : Cardinality({x}) = 1
  BY FS_EmptySet, FS_Singleton
<1>2. NoneHeld => ReadsHeld = 0
  BY <1>1 DEF NoneHeld, ReadsHeld
<1>3. OneHeld => ReadsHeld = 1
  <2>1. ASSUME NEW j, OrderlyReads = {j}, ReadWorkers = {} PROVE ReadsHeld = 1
    <3>1. Cardinality(OrderlyReads) = 1 /\ Cardinality(ReadWorkers) = 0
      BY <1>1, <2>1
    <3> QED
      BY <3>1 DEF ReadsHeld
  <2>2. ASSUME NEW w, OrderlyReads = {}, ReadWorkers = {w} PROVE ReadsHeld = 1
    <3>1. Cardinality(OrderlyReads) = 0 /\ Cardinality(ReadWorkers) = 1
      BY <1>1, <2>2
    <3> QED
      BY <3>1 DEF ReadsHeld
  <2> QED
    BY <2>1, <2>2 DEF OneHeld
<1> QED
  BY <1>2, <1>3

(* No message read is forgotten: while one is queued in an open session a  *)
(* thread is going to take it, or the worker of an orderly message will    *)
(* come back for it.                                                       *)
THEOREM SessionNoReadForgotten == Spec => []NoReadForgotten
<1>1. SessionInv /\ ReadInv => NoReadForgotten
  BY HeldCounts DEF ReadInv, ReadTurn, ReadGoesOn, NoReadForgotten
<1> QED
  BY <1>1, ReadInvariant, PTL

(* With orderly handling no OnRead is called in an open session while      *)
(* another, or the worker it waits for, is still at it.                    *)
THEOREM SessionSequentialWhileOpen == Spec => []SequentialWhileOpen
<1>1. SessionInv /\ ReadInv => SequentialWhileOpen
  <2> SUFFICES ASSUME SessionInv, ReadInv, state = 1, OrderlyRead
               PROVE  Cardinality(Handling) + ReadsHeld <= 1
    BY DEF SequentialWhileOpen, OneMessageAtATime
  <2>m. Meanings
    BY ReadersDoing DEF SessionInv
  <2>1. CASE Handling = {}
    <3>1. Cardinality(Handling) = 0
      BY <2>1, FS_EmptySet
    <3>2. ReadsHeld \in {0, 1}
      BY HeldCounts DEF ReadInv, ReadTurn
    <3> QED
      BY <3>1, <3>2
  <2>2. CASE Handling # {}
    <3>1. PICK t \in Handling : TRUE
      BY <2>2
    <3>2. t \in Thread /\ Looping(t) /\ Doing(t) # "count"
      BY <2>m, <3>1 DEF Meanings, Looping
    <3>3. Handling = {t}
      BY <2>m, <3>1, <3>2, OneLoop DEF Meanings, Looping, ReadInv
    <3>4. NoneHeld
      BY <3>2, LooperAlone
    <3>5. Cardinality(Handling) = 1 /\ ReadsHeld = 0
      BY <3>3, <3>4, FS_Singleton, HeldCounts
    <3> QED
      BY <3>5
  <2> QED
    BY <2>1, <2>2
<1> QED
  BY <1>1, ReadInvariant, PTL

-----------------------------------------------------------------------------
(* The order messages are handled in.                                      *)

(* The messages numbered so far are those received, but for the batch that *)
(* OnRead has still to queue.                                              *)
Known == arrived - batch
Rising(s) == \A i, j \in 1 .. Len(s) : i < j => s[i] < s[j]
AllBelow(s, m) == \A i \in 1 .. Len(s) : s[i] < m
AllAbove(s, m) == \A i \in 1 .. Len(s) : m < s[i]

(* The messages handled, then the one that a thread is about to handle,    *)
(* then those in the queue, are in the order of their numbers.             *)
ArrivalOrder ==
  /\ begun \in Seq(InMessage) /\ Rising(begun) /\ Rising(readlist)
  /\ AllBelow(begun, Known + 1) /\ AllBelow(readlist, Known + 1)
  /\ \A i \in 1 .. Len(readlist) : AllBelow(begun, readlist[i])
  /\ \A t \in Thread : Doing(t) = "onread" =>
       /\ msg[t] \in InMessage /\ msg[t] <= Known
       /\ AllBelow(begun, msg[t]) /\ AllAbove(readlist, msg[t])

(* A list of messages is one of integers.                                  *)
LEMMA Numbers ==
  ASSUME NEW s \in Seq(InMessage)
  PROVE  Len(s) \in Nat /\ \A i \in 1 .. Len(s) : s[i] \in InMessage /\ s[i] \in Int
<1>1. Len(s) \in Nat /\ \A i \in 1 .. Len(s) : s[i] \in InMessage
  OBVIOUS
<1>2. \A m \in InMessage : m \in Int
  BY SessionAssumption DEF InMessage
<1> QED
  BY <1>1, <1>2

(* So is the number of the last message that is known.                     *)
LEMMA KnownInt == TypeOK => Known \in Int
<1> SUFFICES ASSUME TypeOK PROVE Known \in Int
  OBVIOUS
<1>1. arrived \in 0 .. Incoming /\ batch \in 0 .. arrived /\ Incoming \in Nat
  BY SessionAssumption DEF TypeOK, ReadType
<1>2. arrived \in Int /\ batch \in Int
  BY <1>1
<1> QED
  BY <1>2 DEF Known

(* Messages arrive with greater numbers.                                   *)
LEMMA KnownGrows ==
  ASSUME TypeOK, UNCHANGED <<arrived, batch>> \/ \E k \in InMessage : Receive(k)
  PROVE  Known \in Int /\ Known' \in Int /\ Known <= Known'
<1>1. arrived \in Nat /\ batch \in Nat /\ batch <= arrived /\ InMessage \subseteq Nat
  BY SessionAssumption DEF TypeOK, ReadType, InMessage
<1>2. ASSUME NEW k \in InMessage, Receive(k) PROVE Known' \in Int /\ Known <= Known'
  <2>1. arrived' = arrived + k /\ (batch' = 0 \/ batch' = k)
    BY <1>2 DEF Receive
  <2>2. k \in Nat
    BY <1>1
  <2>3. CASE batch' = 0
    BY <1>1, <2>1, <2>2, <2>3 DEF Known
  <2>4. CASE batch' = k
    BY <1>1, <2>1, <2>2, <2>4 DEF Known
  <2> QED
    BY <2>1, <2>3, <2>4
<1> QED
  BY <1>1, <1>2 DEF Known

(* When queues and messages stay the order does.                           *)
LEMMA OrderKept ==
  ASSUME TypeOK, ArrivalOrder, UNCHANGED <<begun, readlist>>,
         Known \in Int, Known' \in Int, Known <= Known',
         \A t \in Thread : Doing(t)' = "onread" => Doing(t) = "onread" /\ msg'[t] = msg[t]
  PROVE  ArrivalOrder'
<1>1. /\ begun \in Seq(InMessage) /\ readlist \in Seq(InMessage) /\ InMessage \subseteq Int
  BY SessionAssumption DEF TypeOK, ReadType, ArrivalOrder, InMessage
<1>2. ASSUME NEW s \in Seq(InMessage), AllBelow(s, Known + 1) PROVE AllBelow(s, Known' + 1)
  <2>1. ASSUME NEW i \in 1 .. Len(s) PROVE s[i] < Known' + 1
    <3>1. s[i] \in Int /\ s[i] < Known + 1
      BY <1>2, Numbers DEF AllBelow
    <3> QED
      BY <3>1
  <2> QED
    BY <2>1 DEF AllBelow
<1>3. AllBelow(begun, Known' + 1) /\ AllBelow(readlist, Known' + 1)
  BY <1>1, <1>2 DEF ArrivalOrder
<1>4. ASSUME NEW t \in Thread, Doing(t)' = "onread"
      PROVE  /\ msg'[t] \in InMessage /\ msg'[t] <= Known'
             /\ AllBelow(begun, msg'[t]) /\ AllAbove(readlist, msg'[t])
  <2>1. /\ msg[t] \in InMessage /\ msg[t] <= Known /\ msg'[t] = msg[t]
        /\ AllBelow(begun, msg[t]) /\ AllAbove(readlist, msg[t])
    BY <1>4 DEF ArrivalOrder
  <2>2. msg[t] \in Int
    BY <1>1, <2>1
  <2>3. msg[t] <= Known'
    BY <2>1, <2>2
  <2> QED
    BY <2>1, <2>3
<1> QED
  BY <1>3, <1>4 DEF ArrivalOrder, AllBelow, AllAbove, Rising

(* OnRead queues what has arrived last.                                    *)
LEMMA OrderQueued ==
  ASSUME SessionInv, ArrivalOrder, QueueBatch
  PROVE  ArrivalOrder'
<1> DEFINE n == IF Room < batch THEN Room ELSE batch
<1>1. /\ readlist \in Seq(InMessage) /\ Len(readlist) \in Nat /\ InMessage \subseteq Int
      /\ arrived \in Nat /\ batch \in Nat /\ batch <= arrived /\ MaxRead \in Nat
      /\ begun \in Seq(InMessage)
  BY SessionAssumption DEF SessionInv, TypeOK, ReadType, InMessage, ArrivalOrder
<1>2. n \in Nat /\ n <= batch
  BY <1>1 DEF SessionInv, Room, ReadQueueBounded
<1>3. readlist' = readlist \o Batch(n) /\ batch' = 0 /\ UNCHANGED <<begun, msg, arrived>>
  BY DEF QueueBatch
<1>4. /\ Batch(n) \in Seq(Int) /\ Len(Batch(n)) = n
      /\ \A i \in 1 .. n : Batch(n)[i] = Known + i
  BY <1>1, <1>2 DEF Batch, Known
<1> HIDE DEF n
<1>5. Known \in Int /\ Known' = arrived /\ Known + n <= Known'
  BY <1>1, <1>2, <1>3 DEF Known
<1>6. /\ Len(readlist') = Len(readlist) + n
      /\ \A i \in 1 .. Len(readlist) : readlist'[i] = readlist[i] /\ readlist[i] \in Int
                                       /\ readlist[i] <= Known
      /\ \A i \in 1 .. Len(readlist') : i > Len(readlist) => readlist'[i] = Known + (i - Len(readlist))
  <2>1. readlist \in Seq(Int) /\ \A i \in 1 .. Len(readlist) : readlist[i] \in Int
    <3>1. \A i \in 1 .. Len(readlist) : readlist[i] \in Int
      BY <1>1, Numbers
    <3> QED
      BY <1>1, <3>1
  <2>2. \A i \in 1 .. Len(readlist) : readlist[i] < Known + 1
    BY DEF ArrivalOrder, AllBelow
  <2>5. \A i \in 1 .. Len(readlist) : readlist[i] <= Known
    BY <1>5, <2>1, <2>2
  <2>3. /\ Len(readlist') = Len(readlist) + n
        /\ \A i \in 1 .. Len(readlist) : readlist'[i] = readlist[i]
    <3>1. Batch(n) \in Seq(Int) /\ Len(Batch(n)) = n
      BY <1>4
    <3>4. \A r, s \in Seq(Int) : Len(r \o s) = Len(r) + Len(s)
      OBVIOUS
    <3>5. Len(readlist \o Batch(n)) = Len(readlist) + Len(Batch(n))
      BY <2>1, <3>1, <3>4
    <3>2. Len(readlist') = Len(readlist) + n
      BY <1>3, <3>1, <3>5
    <3>3. ASSUME NEW i \in 1 .. Len(readlist) PROVE readlist'[i] = readlist[i]
      BY <1>3, <2>1, <3>1, <3>3
    <3> QED
      BY <3>2, <3>3
  <2>4. ASSUME NEW i \in 1 .. Len(readlist'), i > Len(readlist)
        PROVE  readlist'[i] = Known + (i - Len(readlist))
    <3>1. i - Len(readlist) \in 1 .. n /\ i \in 1 .. Len(readlist) + n
      BY <1>1, <1>2, <2>3, <2>4
    <3>2. (readlist \o Batch(n))[i] = Batch(n)[i - Len(readlist)]
      BY <1>1, <1>2, <1>4, <2>1, <2>4, <3>1
    <3> QED
      BY <1>3, <1>4, <3>1, <3>2
  <2> QED
    BY <2>1, <2>3, <2>4, <2>5
<1>7. \A i \in 1 .. Len(readlist') : readlist'[i] \in Int /\ readlist'[i] <= Known'
                                     /\ (i > Len(readlist) => Known < readlist'[i])
  BY <1>1, <1>2, <1>5, <1>6
<1>8. Rising(readlist')
  <2> SUFFICES ASSUME NEW i \in 1 .. Len(readlist'), NEW j \in 1 .. Len(readlist'), i < j
               PROVE  readlist'[i] < readlist'[j]
    BY DEF Rising
  <2>1. CASE j <= Len(readlist)
    <3>1. i \in 1 .. Len(readlist) /\ j \in 1 .. Len(readlist)
      BY <1>1, <1>2, <1>6, <2>1
    <3> QED
      BY <1>6, <3>1 DEF ArrivalOrder, Rising
  <2>2. CASE i <= Len(readlist) /\ j > Len(readlist)
    <3>1. i \in 1 .. Len(readlist)
      BY <1>1, <2>2
    <3>2. readlist'[i] <= Known /\ Known < readlist'[j] /\ readlist'[i] \in Int /\ readlist'[j] \in Int
      BY <1>6, <1>7, <2>2, <3>1
    <3> QED
      BY <1>5, <3>2
  <2>3. CASE i > Len(readlist) /\ j > Len(readlist)
    <3>1. readlist'[i] = Known + (i - Len(readlist)) /\ readlist'[j] = Known + (j - Len(readlist))
      BY <1>6, <2>3
    <3> QED
      BY <1>1, <1>2, <1>5, <1>6, <3>1
  <2> QED
    BY <1>1, <1>2, <1>6, <2>1, <2>2, <2>3
<1>9. AllBelow(readlist', Known' + 1) /\ AllBelow(begun, Known' + 1)
  <2>1. \A i \in 1 .. Len(begun) : begun[i] \in Int /\ begun[i] < Known + 1
    BY <1>1, Numbers DEF ArrivalOrder, AllBelow
  <2>2. Known <= Known' /\ Known' \in Int
    BY <1>1, <1>2, <1>5
  <2> QED
    BY <1>5, <1>7, <2>1, <2>2 DEF AllBelow
<1>10. \A i \in 1 .. Len(readlist') : AllBelow(begun, readlist'[i])
  <2> SUFFICES ASSUME NEW i \in 1 .. Len(readlist'), NEW b \in 1 .. Len(begun)
               PROVE  begun[b] < readlist'[i]
    BY DEF AllBelow
  <2>1. CASE i <= Len(readlist)
    <3>1. i \in 1 .. Len(readlist)
      BY <1>1, <1>6, <2>1
    <3> QED
      BY <1>6, <3>1 DEF ArrivalOrder, AllBelow
  <2>2. CASE i > Len(readlist)
    <3>1. begun[b] \in Int /\ begun[b] < Known + 1
      BY <1>1, Numbers DEF ArrivalOrder, AllBelow
    <3>2. Known < readlist'[i] /\ readlist'[i] \in Int
      BY <1>7, <2>2
    <3> QED
      BY <1>5, <3>1, <3>2
  <2> QED
    BY <1>1, <1>6, <2>1, <2>2
<1>11. ASSUME NEW t \in Thread, Doing(t)' = "onread"
       PROVE  /\ msg'[t] \in InMessage /\ msg'[t] <= Known'
              /\ AllBelow(begun, msg'[t]) /\ AllAbove(readlist', msg'[t])
  <2>1. Goes(Io, "process")
    BY GoesTo, ThreadParts DEF SessionInv, QueueBatch, CallPC, WritePC, CloseNowPC
  <2>2. Doing(t) = "onread" /\ msg'[t] = msg[t]
    BY <1>3, <1>11, <2>1 DEF Goes
  <2>3. /\ msg[t] \in InMessage /\ msg[t] \in Int /\ msg[t] <= Known
        /\ AllBelow(begun, msg[t]) /\ AllAbove(readlist, msg[t])
    BY <1>1, <2>2 DEF ArrivalOrder
  <2>4. ASSUME NEW i \in 1 .. Len(readlist') PROVE msg[t] < readlist'[i]
    <3>1. CASE i <= Len(readlist)
      <4>1. i \in 1 .. Len(readlist)
        BY <1>1, <1>6, <3>1
      <4> QED
        BY <1>6, <2>3, <4>1 DEF AllAbove
    <3>2. CASE i > Len(readlist)
      BY <1>5, <1>7, <2>3, <3>2
    <3> QED
      BY <1>1, <1>6, <3>1, <3>2
  <2>5. msg[t] <= Known'
    BY <1>1, <1>2, <1>5, <2>3
  <2> QED
    BY <2>2, <2>3, <2>4, <2>5 DEF AllAbove
<1> QED
  BY <1>1, <1>3, <1>8, <1>9, <1>10, <1>11 DEF ArrivalOrder

(* A thread takes the front of the queue.                                  *)
LEMMA OrderTaken ==
  ASSUME SessionInv, ReadInv, ArrivalOrder, NEW t \in Thread, TakeMessage(t)
  PROVE  ArrivalOrder'
<1>1. /\ pc[t] = "take" /\ readlist # <<>> /\ Goes(t, "onread")
      /\ msg' = [msg EXCEPT ![t] = Head(readlist)] /\ readlist' = Tail(readlist)
      /\ UNCHANGED <<begun, arrived, batch>>
  BY LoopSteps DEF SessionInv, TakeMessage, processUnchanged, netVars
<1>2. /\ readlist \in Seq(InMessage) /\ msg \in [Thread -> OutMessage] /\ InMessage \subseteq Int
  BY SessionAssumption DEF SessionInv, TypeOK, ReadType, ThreadType, InMessage
<1>3. /\ Head(readlist) = readlist[1] /\ 1 \in 1 .. Len(readlist) /\ readlist[1] \in InMessage
      /\ Len(readlist') = Len(readlist) - 1 /\ Len(readlist) \in Nat
      /\ \A i \in 1 .. Len(readlist') : readlist'[i] = readlist[i + 1] /\ i + 1 \in 1 .. Len(readlist)
  BY <1>1, <1>2
<1>4. Known' = Known
  BY <1>1 DEF Known
<1>5. ASSUME NEW u \in Thread, Doing(u)' = "onread"
      PROVE  /\ msg'[u] \in InMessage /\ msg'[u] <= Known
             /\ AllBelow(begun, msg'[u]) /\ AllAbove(readlist', msg'[u])
  <2>1. Looping(t)
    BY <1>1 DEF Looping, Doing, CallPC, WritePC, CloseNowPC
  <2>2. u = t
    <3>1. u # t => Looping(u)
      BY <1>1, <1>5 DEF Goes, Looping
    <3> QED
      BY <2>1, <3>1, OneLoop DEF ReadInv
  <2>3. msg'[u] = readlist[1]
    BY <1>1, <1>2, <1>3, <2>2
  <2>4. readlist[1] < Known + 1 /\ readlist[1] \in Int /\ Known \in Int
    <3>1. readlist[1] < Known + 1
      BY <1>3 DEF ArrivalOrder, AllBelow
    <3> QED
      BY <1>2, <1>3, <3>1, Numbers, KnownInt DEF SessionInv
  <2>5. AllBelow(begun, readlist[1])
    BY <1>3 DEF ArrivalOrder
  <2>6. AllAbove(readlist', readlist[1])
    <3> SUFFICES ASSUME NEW i \in 1 .. Len(readlist') PROVE readlist[1] < readlist[i + 1]
      BY <1>3 DEF AllAbove
    <3>1. i + 1 \in 1 .. Len(readlist) /\ 1 < i + 1
      BY <1>3
    <3> QED
      BY <1>3, <3>1 DEF ArrivalOrder, Rising
  <2>7. readlist[1] <= Known
    BY <2>4
  <2> QED
    BY <1>3, <2>3, <2>5, <2>6, <2>7
<1>6. Rising(readlist')
  <2> SUFFICES ASSUME NEW i \in 1 .. Len(readlist'), NEW j \in 1 .. Len(readlist'), i < j
               PROVE  readlist[i + 1] < readlist[j + 1]
    BY <1>3 DEF Rising
  <2>1. i + 1 \in 1 .. Len(readlist) /\ j + 1 \in 1 .. Len(readlist) /\ i + 1 < j + 1
    BY <1>3
  <2> QED
    BY <2>1 DEF ArrivalOrder, Rising
<1>7. AllBelow(readlist', Known + 1) /\ \A i \in 1 .. Len(readlist') : AllBelow(begun, readlist'[i])
  BY <1>3 DEF ArrivalOrder, AllBelow
<1> QED
  BY <1>1, <1>4, <1>5, <1>6, <1>7 DEF ArrivalOrder

(* The message taken is handled.                                           *)
LEMMA OrderHandled ==
  ASSUME SessionInv, ReadInv, ArrivalOrder, NEW t \in Thread,
         HandleSync(t) \/ HandleConcurrent(t) \/ HandleOrderly(t)
  PROVE  ArrivalOrder'
<1>1. /\ pc[t] = "onread" /\ \E l \in {"next", "count"} : Goes(t, l)
      /\ begun' = Append(begun, msg[t]) /\ UNCHANGED <<readlist, msg>>
  BY LoopSteps DEF SessionInv
<1>2. UNCHANGED <<arrived, batch>>
  BY DEF HandleSync, HandleConcurrent, HandleOrderly, processUnchanged, netVars
<1>3. Doing(t) = "onread"
  BY <1>1 DEF Doing, CallPC, WritePC, CloseNowPC
<1>4. \A u \in Thread : Doing(u)' # "onread"
  <2>1. ASSUME NEW u \in Thread, Doing(u)' = "onread" PROVE u # t /\ Looping(u) /\ Looping(t)
    BY <1>1, <1>3, <2>1 DEF Goes, Looping
  <2> QED
    BY <2>1, OneLoop DEF ReadInv
<1>5. /\ msg[t] \in InMessage /\ msg[t] \in Int /\ Known \in Int /\ msg[t] <= Known
      /\ AllBelow(begun, msg[t]) /\ AllAbove(readlist, msg[t])
      /\ begun \in Seq(InMessage)
  BY <1>3, SessionAssumption DEF ArrivalOrder, InMessage, SessionInv, TypeOK, ReadType, Known
<1>6. /\ begun' \in Seq(InMessage) /\ Len(begun') = Len(begun) + 1 /\ Len(begun) \in Nat
      /\ \A i \in 1 .. Len(begun) : begun'[i] = begun[i]
      /\ begun'[Len(begun) + 1] = msg[t]
  BY <1>1, <1>5
<1>7. ASSUME NEW i \in 1 .. Len(begun') PROVE i \in 1 .. Len(begun) \/ i = Len(begun) + 1
  BY <1>6
<1>8. Rising(begun')
  <2> SUFFICES ASSUME NEW i \in 1 .. Len(begun'), NEW j \in 1 .. Len(begun'), i < j
               PROVE  begun'[i] < begun'[j]
    BY DEF Rising
  <2>1. i \in 1 .. Len(begun)
    BY <1>6
  <2>2. CASE j = Len(begun) + 1
    BY <1>5, <1>6, <2>1, <2>2 DEF AllBelow
  <2>3. CASE j \in 1 .. Len(begun)
    BY <1>6, <2>1, <2>3 DEF ArrivalOrder, Rising
  <2> QED
    BY <1>7, <2>2, <2>3
<1>9. AllBelow(begun', Known + 1)
  BY <1>5, <1>6, <1>7 DEF ArrivalOrder, AllBelow
<1>10. \A i \in 1 .. Len(readlist) : AllBelow(begun', readlist[i])
  BY <1>5, <1>6, <1>7 DEF ArrivalOrder, AllBelow, AllAbove
<1>11. Known' = Known
  BY <1>2 DEF Known
<1> QED
  BY <1>1, <1>4, <1>6, <1>8, <1>9, <1>10, <1>11 DEF ArrivalOrder

(* Every step keeps the order.                                             *)
LEMMA ArrivalNext ==
  ASSUME SessionInv, NotYetOpen, ReadInv, ArrivalOrder, [Next]_vars
  PROVE  ArrivalOrder'
<1> USE ThreadParts
<1>p. TypeOK /\ Places
  BY DEF SessionInv
<1>k. Known \in Int /\ (UNCHANGED <<arrived, batch>> => Known' = Known)
  BY DEF Known, SessionInv, TypeOK, ReadType
<1>1. CASE OpenActivate
  <2>1. /\ UNCHANGED <<readlist, begun, arrived, batch>> /\ \A u \in Thread : Doing(u)' # "onread"
    BY <1>1, <1>p, Activated DEF HandlePC, IncomingPC
  <2> QED
    BY <1>k, <1>p, <2>1, OrderKept
<1>2. CASE \/ Aside \/ WriteDone \/ WriteFails \/ CountWrite
           \/ \E t \in Thread : \/ WritePush(t) \/ OutCheck(t) \/ OutEnter(t) \/ PopAndWrite(t)
                                \/ PopLast(t)
  <2>1. SameReaders /\ (UNCHANGED <<arrived, batch>> \/ \E k \in InMessage : Receive(k))
    BY <1>2, <1>p, OutsideSteps
  <2>2. \A t \in Thread : Doing(t)' = "onread" => Doing(t) = "onread" /\ msg'[t] = msg[t]
    BY <2>1 DEF SameReaders, IncomingPC
  <2> QED
    BY <1>p, <2>1, <2>2, KnownGrows, OrderKept DEF SameReaders
<1>3. ASSUME NEW w \in Worker, RunWork(w) PROVE ArrivalOrder'
  <2>1. /\ UNCHANGED <<readlist, begun, arrived, batch>>
        /\ \E j \in jobs : msg' = [msg EXCEPT ![w] = j.message]
        /\ \E l \in {"outback", "processback", "idle"} : Goes(w, l)
    BY <1>3, <1>p, WorkSteps
  <2>2. \A t \in Thread : Doing(t)' = "onread" => Doing(t) = "onread" /\ msg'[t] = msg[t]
    BY <2>1 DEF Goes, SessionInv, TypeOK, ThreadType
  <2> QED
    BY <1>k, <1>p, <2>1, <2>2, OrderKept
<1>4. ASSUME NEW t \in Thread,
             \/ ProcessCheck(t) \/ ProcessEnter(t) \/ TakeNothing(t) \/ TakeLooksAtWrites(t)
             \/ HandleNext(t) \/ CountEvent(t)
      PROVE  ArrivalOrder'
  <2>1. UNCHANGED <<readlist, begun, msg>>
    BY <1>4, <1>p, LoopSteps
  <2>2. UNCHANGED <<arrived, batch>> /\ AfterIncoming(t) \in {"startread", "idle"}
    BY <1>4, <1>p, LoopAside DEF ProcessIncomingData
  <2>3. \E l : Goes(t, l) /\ l # "onread"
    <3>1. CASE ProcessCheck(t)
      BY <1>p, <2>2, <3>1, LoopSteps
    <3>2. CASE ~ProcessCheck(t)
      BY <1>4, <1>p, <2>2, <3>2, LoopSteps
    <3> QED
      BY <3>1, <3>2
  <2> QED
    BY <1>k, <1>p, <2>1, <2>2, <2>3, OrderKept DEF Goes
<1> QED
  BY <1>1, <1>2, <1>3, <1>4, <1>p, HandleSteps, OrderQueued, OrderTaken, OrderHandled
     DEF Handles, ProcessIncomingData

(* OnRead is called for the messages in the order they arrived, whichever  *)
(* thread calls it.                                                        *)
THEOREM SessionHandledInOrder == Spec => []HandledInOrder
<1>1. Init => ArrivalOrder
  <2> SUFFICES ASSUME Init PROVE ArrivalOrder
    OBVIOUS
  <2>1. begun = <<>> /\ readlist = <<>> /\ Len(begun) = 0 /\ Len(readlist) = 0
        /\ begun \in Seq(InMessage)
    BY DEF Init
  <2>2. \A t \in Thread : Doing(t) # "onread"
    BY DEF Init, Doing, CallPC, WritePC, CloseNowPC
  <2> QED
    BY <2>1, <2>2 DEF ArrivalOrder, Rising, AllBelow
<1>2. SessionInv /\ NotYetOpen /\ ReadInv /\ ArrivalOrder /\ [Next]_vars
        => NotYetOpen' /\ ReadInv' /\ ArrivalOrder'
  BY NotYetOpenNext, ReadNext, ArrivalNext DEF SessionInv
<1>3. ArrivalOrder => HandledInOrder
  BY DEF ArrivalOrder, Rising, HandledInOrder
<1> QED
  BY <1>1, <1>2, <1>3, ReadInit, NotYetOpenInit, SessionInvariant, PTL DEF Spec
=============================================================================
