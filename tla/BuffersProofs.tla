--------------------------- MODULE BuffersProofs ---------------------------
(***************************************************************************)
(* Proofs about Buffers.tla: whatever sessions, workers and broadcasts do, *)
(* a buffer that none of them shares has one holder, what was put into it  *)
(* is what its holder finds there, and it is dropped only where the code   *)
(* gives it up for good.                                                   *)
(*                                                                         *)
(* The argument follows one buffer: Holds says in which places it is, the  *)
(* invariant that it is in one of them at most, and there only once.  A    *)
(* step leaves a buffer where it is, drops it, or takes it out of the only *)
(* place it was in and puts it into another.                               *)
(***************************************************************************)
EXTENDS Buffers, FiniteSetTheorems, TLAPS

-----------------------------------------------------------------------------
(* Types.                                                                  *)

Item == [buf : Buffer, msg : Int]
Job == [buf : Buffer, msg : Int, session : Session, fresh : BOOLEAN]
CallKind == {"none", "answer", "broadcastdata", "prepared", "broadcastbuffer", "echo"}
WithBuffer(c) ==
  /\ c.kind \in {"prepared", "broadcastbuffer"} => c.buf # NoBuffer
  /\ c.kind = "prepared" => c.todo # {}
Talk == [kind : CallKind, todo : SUBSET Session, buf : Buffer \cup {NoBuffer}, msg : Int]

(* TypeOK, with the queues and records as they are. *)
SessionsType ==
  /\ filtered \in BOOLEAN
  /\ state \in [Session -> {"new", "open", "closed", "released"}]
  /\ own \in [Session -> [Own -> Buffer \cup {NoBuffer}]]
  /\ kept \in [Session -> SUBSET Buffer]
QueuesType ==
  /\ readlist \in [Session -> Seq(Item)] /\ writelist \in [Session -> Seq(Item)]
  /\ writing \in [Session -> {"no", "busy", "done"}]
  /\ \A s \in Session : writing[s] # "no" => writelist[s] # <<>>
ActorsType ==
  /\ jobs \in Seq(Job) /\ hand \in [Actor -> Job \cup {Empty}] /\ call \in [Actor -> Talk]
  /\ \A a \in Actor : WithBuffer(call[a])
PoolType ==
  /\ pool \in Seq(Buffer) /\ content \in [Buffer -> Int]
  /\ arrived \in 0 .. MaxMessages /\ shared \subseteq Buffer
BuffersType == PoolType /\ SessionsType /\ QueuesType /\ ActorsType

(* The pool holds buffers whatever is taken from it or given back.         *)
LEMMA PoolStaysTyped ==
  ASSUME pool \in Seq(Buffer), NEW b \in Buffer
  PROVE  /\ GetFreeBuffer(b) => pool' \in Seq(Buffer)
         /\ TakeBack(b) => pool' \in Seq(Buffer)
<1>1. pool # <<>> => Tail(pool) \in Seq(Buffer)
  OBVIOUS
<1>2. Append(pool, b) \in Seq(Buffer)
  OBVIOUS
<1> QED
  BY <1>1, <1>2 DEF GetFreeBuffer, TakeBack

(* Own buffers and data of a session, each once. *)
Returns(s, f, g) ==
  /\ \A i \in DOMAIN f : f[i] \in OwnBuffers(s)
  /\ \A i \in DOMAIN g : g[i] \in kept[s]
  /\ \A i, j \in DOMAIN f : f[i] = f[j] => i = j
  /\ \A i, j \in DOMAIN g : g[i] = g[j] => i = j

(* What goes back of a session that ends: its own buffers and its data.    *)
LEMMA ReleasedTyped ==
  ASSUME BuffersType, NEW s \in Session, NEW back \in ReleasedBuffers(s)
  PROVE  \E f, g \in Seq(Buffer) : back = f \o g /\ Returns(s, f, g)
<1>1. OwnBuffers(s) \subseteq Buffer /\ kept[s] \subseteq Buffer
  BY DEF BuffersType, SessionsType, OwnBuffers
<1>2. IsFiniteSet(OwnBuffers(s)) /\ IsFiniteSet(kept[s])
  BY <1>1, BuffersAssumption, FS_Subset
<1>3. Cardinality(OwnBuffers(s)) \in Nat /\ Cardinality(kept[s]) \in Nat
  BY <1>2, FS_CardinalityType
<1>4. PICK f \in Orders(OwnBuffers(s)), g \in Orders(kept[s]) : back = f \o g
  BY DEF ReleasedBuffers
<1> DEFINE m == Cardinality(OwnBuffers(s))
           n == Cardinality(kept[s])
<1>5. /\ f \in [1 .. m -> OwnBuffers(s)] /\ \A i, j \in 1 .. m : i # j => f[i] # f[j]
      /\ g \in [1 .. n -> kept[s]] /\ \A i, j \in 1 .. n : i # j => g[i] # g[j]
  BY <1>4 DEF Orders, SetToSeqs
<1> HIDE DEF m, n
<1>6. m \in Nat /\ n \in Nat
  BY <1>3 DEF m, n
<1>7. f \in Seq(Buffer) /\ DOMAIN f = 1 .. m /\ \A i \in 1 .. m : f[i] \in OwnBuffers(s)
  BY <1>1, <1>5, <1>6
<1>8. g \in Seq(Buffer) /\ DOMAIN g = 1 .. n /\ \A i \in 1 .. n : g[i] \in kept[s]
  BY <1>1, <1>5, <1>6
<1>9. Returns(s, f, g)
  BY <1>5, <1>7, <1>8 DEF Returns
<1> QED
  BY <1>4, <1>7, <1>8, <1>9

(* They are a list of buffers.                                             *)
LEMMA ReleasedAreBuffers ==
  ASSUME BuffersType, NEW s \in Session, NEW back \in ReleasedBuffers(s)
  PROVE  back \in Seq(Buffer)
<1>1. \A f, g \in Seq(Buffer) : f \o g \in Seq(Buffer)
  OBVIOUS
<1>2. PICK f \in Seq(Buffer), g \in Seq(Buffer) : back = f \o g /\ Returns(s, f, g)
  BY ReleasedTyped
<1> QED
  BY <1>1, <1>2

(* Taking, giving and making records keeps their types.                    *)
LEMMA RecordsTyped ==
  ASSUME BuffersType
  PROVE  /\ Empty \in Job \cup {Empty} /\ Idle \in Talk
         /\ \A a \in Actor : hand[a].fresh => hand[a] \in Job
         /\ \A a \in Actor : hand[a] # Empty => hand[a] \in Job
<1>1. Idle \in Talk
  BY DEF Idle, Talk, CallKind
<1>2. \A a \in Actor : hand[a] \in Job \/ hand[a] = Empty
  BY DEF BuffersType, ActorsType
<1>3. ~Empty.fresh
  BY DEF Empty
<1> QED
  BY <1>1, <1>2, <1>3

(* Every step keeps the types.                                             *)
LEMMA TypeNext == BuffersType /\ [Next]_vars => BuffersType'
<1> SUFFICES ASSUME BuffersType, [Next]_vars PROVE BuffersType'
  OBVIOUS
<1> USE DEF BuffersType, PoolType, SessionsType, QueuesType, ActorsType
<1>1. ASSUME NEW s \in Session, Open(s) PROVE BuffersType'
  BY <1>1 DEF Open, queueVars
<1>2. ASSUME NEW s \in Session, Close(s) PROVE BuffersType'
  BY <1>2 DEF Close, queueVars
<1>3. ASSUME NEW s \in Session, Release(s) PROVE BuffersType'
  <2>1. PICK back \in ReleasedBuffers(s) : pool' = pool \o back
    BY <1>3 DEF Release
  <2>2. back \in Seq(Buffer)
    BY ReleasedAreBuffers
  <2>3. pool' \in Seq(Buffer)
    BY <2>1, <2>2
  <2>4. <<>> \in Seq(Item)
    OBVIOUS
  <2>5. UNCHANGED <<content, filtered, jobs, hand, call, arrived, shared>>
    BY <1>3 DEF Release
  <2>6. SessionsType' /\ QueuesType'
    BY <1>3, <2>4 DEF Release
  <2> QED
    BY <2>3, <2>5, <2>6
<1>4. ASSUME NEW s \in Session, NEW b \in Buffer, OnRead(s, b) PROVE BuffersType'
  <2>1. pool' \in Seq(Buffer) /\ shared' \subseteq Buffer
    BY <1>4, PoolStaysTyped DEF OnRead, Share
  <2>2. arrived' \in 0 .. MaxMessages /\ arrived' \in Int
    BY <1>4, BuffersAssumption DEF OnRead
  <2>3. content' \in [Buffer -> Int]
    BY <1>4, <2>2 DEF OnRead
  <2>4. [buf |-> b, msg |-> arrived'] \in Item
    BY <2>2 DEF Item
  <2>5. readlist' \in [Session -> Seq(Item)]
    BY <1>4, <2>4 DEF OnRead
  <2> QED
    BY <1>4, <2>1, <2>2, <2>3, <2>5 DEF OnRead, sessionVars
<1>5. ASSUME NEW s \in Session, NEW b \in Buffer, NEW o \in Own, AfterConnect(s, o, b)
      PROVE  BuffersType'
  BY <1>5, PoolStaysTyped DEF AfterConnect, queueVars
<1>6. ASSUME NEW s \in Session, TakeMessage(s) PROVE BuffersType'
  <2>1. readlist[s] \in Seq(Item) /\ readlist[s] # <<>>
    BY <1>6 DEF TakeMessage
  <2>2. Head(readlist[s]) \in Item /\ Tail(readlist[s]) \in Seq(Item)
    BY <2>1
  <2>3. Task(s) \in Job
    BY <2>2 DEF Task, Item, Job
  <2>4. readlist' \in [Session -> Seq(Item)]
    BY <1>6, <2>2 DEF TakeMessage
  <2>5. Append(jobs, Task(s)) \in Seq(Job)
    BY <2>3
  <2>6. s \in Actor
    BY DEF Actor
  <2> QED
    BY <1>6, <2>3, <2>4, <2>5, <2>6 DEF TakeMessage, sessionVars
<1>7. ASSUME NEW s \in Session, OnWrite(s) PROVE BuffersType'
  <2>1. writelist[s] \in Seq(Item) /\ writelist[s] # <<>>
    BY <1>7 DEF OnWrite
  <2>2. Head(writelist[s]).buf \in Buffer
    <3>1. Head(writelist[s]) \in Item
      BY <2>1
    <3> QED
      BY <3>1 DEF Item
  <2> QED
    BY <1>7, <2>1, <2>2, PoolStaysTyped DEF OnWrite, sessionVars
<1>8. ASSUME NEW s \in Session, PopFront(s), writing[s] # "no"
      PROVE  /\ writelist' \in [Session -> Seq(Item)]
             /\ writing' \in [Session -> {"no", "busy", "done"}]
             /\ \A t \in Session : writing'[t] # "no" => writelist'[t] # <<>>
  <2>1. writelist[s] \in Seq(Item) /\ writelist[s] # <<>>
    BY <1>8
  <2>2. Tail(writelist[s]) \in Seq(Item) /\ (Len(writelist[s]) > 1 => Tail(writelist[s]) # <<>>)
    <3>1. \A q \in Seq(Item) : q # <<>> =>
            Tail(q) \in Seq(Item) /\ Len(Tail(q)) = Len(q) - 1 /\ Len(q) \in Nat
      OBVIOUS
    <3>5. /\ Tail(writelist[s]) \in Seq(Item) /\ Len(writelist[s]) \in Nat
          /\ Len(Tail(writelist[s])) = Len(writelist[s]) - 1
      BY <2>1, <3>1
    <3> HIDE DEF BuffersType, PoolType, SessionsType, QueuesType, ActorsType
    <3>6. \A n, t : n \in Nat /\ t = n - 1 /\ n > 1 => t # 0
      OBVIOUS
    <3>2. Len(writelist[s]) > 1 => Len(Tail(writelist[s])) # 0
      BY <3>5, <3>6
    <3>4. Len(<<>>) = 0
      OBVIOUS
    <3>3. Len(writelist[s]) > 1 => Tail(writelist[s]) # <<>>
      BY <3>2, <3>4
    <3> QED
      BY <3>3, <3>5
  <2> QED
    BY <1>8, <2>2 DEF PopFront
<1>9. ASSUME NEW s \in Session, ProcessOutgoingData(s) PROVE BuffersType'
  BY <1>8, <1>9 DEF ProcessOutgoingData, sessionVars
<1>10. ASSUME NEW s \in Session, WriteFails(s) PROVE BuffersType'
  BY <1>8, <1>10 DEF WriteFails, sessionVars
<1>11. ASSUME NEW w \in Worker, RunTask(w) PROVE BuffersType'
  <2>1. Head(jobs) \in Job /\ Tail(jobs) \in Seq(Job)
    BY <1>11 DEF RunTask
  <2>2. [Head(jobs) EXCEPT !.fresh = state[Head(jobs).session] # "released"] \in Job
    BY <2>1 DEF Job
  <2>3. w \in Actor
    BY DEF Actor
  <2> QED
    BY <1>11, <2>1, <2>2, <2>3 DEF RunTask, sessionVars, queueVars
<1>12. ASSUME NEW a \in Actor, Handled(a) PROVE BuffersType'
  <2>1. hand[a].buf \in Buffer
    BY <1>12, RecordsTyped DEF Handled, Job
  <2> QED
    BY <1>12, <2>1, PoolStaysTyped DEF Handled, TakeBackTask, sessionVars, queueVars
<1>0. ASSUME NEW a \in Actor, NEW r \in Talk, WithBuffer(r), call' = [call EXCEPT ![a] = r]
      PROVE  call' \in [Actor -> Talk] /\ \A c \in Actor : WithBuffer(call'[c])
  BY <1>0
<1>13. ASSUME NEW a \in Actor, NEW kind \in CallKind, NEW todo \in SUBSET Session,
              NEW b \in Buffer \cup {NoBuffer}, NEW m \in Int, hand[a].fresh,
              Calling(a, kind, todo, b, m),
              kind \in {"prepared", "broadcastbuffer"} => b # NoBuffer,
              kind = "prepared" => todo # {}
       PROVE  /\ call' \in [Actor -> Talk] /\ hand' \in [Actor -> Job \cup {Empty}]
              /\ \A c \in Actor : WithBuffer(call'[c])
  <2>1. /\ [kind |-> kind, todo |-> todo, buf |-> b, msg |-> m] \in Talk
        /\ WithBuffer([kind |-> kind, todo |-> todo, buf |-> b, msg |-> m])
    BY <1>13 DEF Talk, WithBuffer
  <2>2. hand[a] \in Job
    BY <1>13, RecordsTyped
  <2>3. [hand[a] EXCEPT !.fresh = FALSE] \in Job
    BY <2>2 DEF Job
  <2> QED
    BY <1>0, <1>13, <2>1, <2>3 DEF Calling
<1>14. ASSUME NEW a \in Actor, hand[a].fresh
       PROVE  /\ hand[a].buf \in Buffer /\ hand[a].session \in Session
              /\ hand[a].msg \in Int /\ 0 - hand[a].msg \in Int
  <2>1. hand[a] \in Job
    BY <1>14, RecordsTyped
  <2> QED
    BY <2>1 DEF Job
<1>15. ASSUME NEW a \in Actor, Answer(a) PROVE BuffersType'
  BY <1>13, <1>14, <1>15 DEF Answer, MayCall, CallKind, sessionVars, queueVars
<1>16. ASSUME NEW a \in Actor, BroadcastData(a) PROVE BuffersType'
  BY <1>13, <1>14, <1>16 DEF BroadcastData, MayCall, CallKind, Registered, sessionVars, queueVars
<1>17. ASSUME NEW a \in Actor, NEW b \in Buffer, PrepareBuffer(a, b) PROVE BuffersType'
  <2>1. content' \in [Buffer -> Int] /\ pool' \in Seq(Buffer)
    BY <1>14, <1>17, PoolStaysTyped DEF PrepareBuffer, MayCall
  <2>2. b # NoBuffer
    BY BuffersAssumption
  <2>3. /\ call' \in [Actor -> Talk] /\ hand' \in [Actor -> Job \cup {Empty}]
        /\ \A c \in Actor : WithBuffer(call'[c])
    <3>1. "prepared" \in CallKind /\ {hand[a].session} \in SUBSET Session /\ 0 - hand[a].msg \in Int
      BY <1>14, <1>17 DEF PrepareBuffer, MayCall, CallKind
    <3>2. /\ hand[a].fresh
          /\ Calling(a, "prepared", {hand[a].session}, b, 0 - hand[a].msg)
      BY <1>17 DEF PrepareBuffer, MayCall
    <3> HIDE DEF BuffersType, PoolType, SessionsType, QueuesType, ActorsType
    <3>3. b \in Buffer \cup {NoBuffer}
      OBVIOUS
    <3> QED
      BY <1>13, <2>2, <3>1, <3>2, <3>3
  <2> QED
    BY <1>17, <2>1, <2>3 DEF PrepareBuffer, sessionVars, queueVars
<1>18. ASSUME NEW a \in Actor, BroadcastBuffer(a) PROVE BuffersType'
  <2>1. call[a] \in Talk /\ Registered \in SUBSET Session
    BY DEF Registered
  <2>2. /\ [call[a] EXCEPT !.kind = "broadcastbuffer", !.todo = Registered] \in Talk
        /\ WithBuffer([call[a] EXCEPT !.kind = "broadcastbuffer", !.todo = Registered])
    BY <1>18, <2>1 DEF Talk, CallKind, WithBuffer, BroadcastBuffer
  <2>5. WithBuffer(Idle) /\ Idle \in Talk
    BY RecordsTyped DEF WithBuffer, Idle
  <2>3. call' \in [Actor -> Talk] /\ \A c \in Actor : WithBuffer(call'[c])
    BY <1>0, <1>18, <2>2, <2>5 DEF BroadcastBuffer
  <2>4. shared' \subseteq Buffer
    <3>1. call[a].buf \in Buffer
      BY <1>18, <2>1 DEF BroadcastBuffer, Talk, WithBuffer
    <3> QED
      BY <1>18, <3>1 DEF BroadcastBuffer, Share
  <2> QED
    BY <1>18, <2>3, <2>4 DEF BroadcastBuffer, sessionVars, queueVars
<1>19. ASSUME NEW a \in Actor, Echo(a) PROVE BuffersType'
  BY <1>13, <1>14, <1>19 DEF Echo, MayCall, CallKind, Share, sessionVars, queueVars
<1>20. ASSUME NEW a \in Actor, Keep(a) PROVE BuffersType'
  <2>1. hand[a] \in Job
    BY <1>20, RecordsTyped DEF Keep, MayCall
  <2>2. [hand[a] EXCEPT !.fresh = FALSE] \in Job
    BY <2>1 DEF Job
  <2>3. hand' \in [Actor -> Job \cup {Empty}]
    BY <1>20, <2>2 DEF Keep
  <2> QED
    BY <1>14, <1>20, <2>3 DEF Keep, MayCall, Share, queueVars
<1>21. ASSUME NEW a \in Actor, NEW b \in Buffer, Encode(a, b) PROVE BuffersType'
  <2>1. call[a] \in Talk /\ call[a].msg \in Int
    BY DEF Talk
  <2>2. [call[a] EXCEPT !.buf = b] \in Talk /\ WithBuffer([call[a] EXCEPT !.buf = b])
    BY <1>21, <2>1 DEF Talk, WithBuffer, Encode
  <2>3. /\ call' \in [Actor -> Talk] /\ content' \in [Buffer -> Int]
        /\ \A c \in Actor : WithBuffer(call'[c])
    BY <1>0, <1>21, <2>1, <2>2 DEF Encode
  <2> QED
    BY <1>21, <2>3, PoolStaysTyped DEF Encode, sessionVars, queueVars
<1>22. ASSUME NEW a \in Actor, NEW s \in Session, Write(a, s) PROVE BuffersType'
  <2>1. call[a] \in Talk /\ call[a].buf \in Buffer /\ call[a].msg \in Int
    BY <1>22 DEF Talk, Write
  <2>2. AfterWrite(call[a], s) \in Talk /\ WithBuffer(AfterWrite(call[a], s))
    <3> DEFINE r == [call[a] EXCEPT !.todo = @ \ {s},
                       !.buf = IF call[a].kind = "broadcastbuffer" THEN call[a].buf ELSE NoBuffer]
    <3>1. r \in Talk
      BY <2>1 DEF Talk
    <3>2. WithBuffer(r) /\ WithBuffer(Idle)
      BY <1>22, <2>1 DEF Talk, WithBuffer, Write, Idle
    <3> QED
      BY <3>1, <3>2, RecordsTyped DEF AfterWrite
  <2>3. call' \in [Actor -> Talk] /\ \A c \in Actor : WithBuffer(call'[c])
    BY <1>0, <1>22, <2>2 DEF Write
  <2>4. /\ Append(writelist[s], [buf |-> call[a].buf, msg |-> call[a].msg]) \in Seq(Item)
        /\ Append(writelist[s], [buf |-> call[a].buf, msg |-> call[a].msg]) # <<>>
    <3>1. [buf |-> call[a].buf, msg |-> call[a].msg] \in Item
      BY <2>1 DEF Item
    <3>2. \A q \in Seq(Item), e \in Item : Append(q, e) \in Seq(Item) /\ Append(q, e) # <<>>
      <4> SUFFICES ASSUME NEW q \in Seq(Item), NEW e \in Item
                   PROVE  Append(q, e) \in Seq(Item) /\ Append(q, e) # <<>>
        OBVIOUS
      <4>1. Append(q, e) \in Seq(Item) /\ Len(Append(q, e)) = Len(q) + 1 /\ Len(q) \in Nat
        OBVIOUS
      <4>2. Len(Append(q, e)) # 0 /\ Len(<<>>) = 0
        BY <4>1
      <4> QED
        BY <4>1, <4>2
    <3> QED
      BY <3>1, <3>2
  <2>5. QueuesType'
    BY <1>22, <2>4 DEF Write
  <2> QED
    BY <1>22, <2>3, <2>5 DEF Write, sessionVars
<1>23. ASSUME UNCHANGED vars PROVE BuffersType'
  BY <1>23 DEF vars, sessionVars, queueVars
<1> QED
  BY <1>1, <1>2, <1>3, <1>4, <1>5, <1>6, <1>7, <1>9, <1>10, <1>11, <1>12, <1>15, <1>16, <1>17,
     <1>18, <1>19, <1>20, <1>21, <1>22, <1>23 DEF Next

(* The constructors leave everything in its type.                          *)
LEMMA TypeInit == Init => BuffersType
<1> SUFFICES ASSUME Init PROVE BuffersType
  OBVIOUS
<1>1. pool \in Seq(Buffer)
  <2>1. PICK items \in {f \in [1 .. ItemCount -> Buffer] : IsInjective(f)} : pool = items
    BY DEF Init
  <2>2. ItemCount \in Nat
    BY BuffersAssumption, FS_CardinalityType
  <2> QED
    BY <2>1, <2>2
<1>2. PoolType
  BY <1>1, BuffersAssumption DEF Init, PoolType
<1>3. SessionsType
  BY BuffersAssumption DEF Init, SessionsType
<1>4. QueuesType
  <2>1. <<>> \in Seq(Item)
    OBVIOUS
  <2> QED
    BY <2>1 DEF Init, QueuesType
<1>5. ActorsType
  <2>1. Idle \in Talk /\ WithBuffer(Idle) /\ <<>> \in Seq(Job)
    BY DEF Idle, Talk, CallKind, WithBuffer
  <2> QED
    BY <2>1 DEF Init, ActorsType
<1> QED
  BY <1>2, <1>3, <1>4, <1>5 DEF BuffersType

(* The queues, hands and calls keep their types, and so TypeOK holds.      *)
THEOREM BuffersTypeCorrect == Spec => []TypeOK
<1>1. BuffersType => TypeOK
  <2> SUFFICES ASSUME BuffersType PROVE TypeOK
    OBVIOUS
  <2>1. ASSUME NEW s \in Session
        PROVE  /\ \A i \in DOMAIN readlist[s] : readlist[s][i].buf \in Buffer
               /\ \A i \in DOMAIN writelist[s] : writelist[s][i].buf \in Buffer
    <3>1. \A q \in Seq(Item) : \A i \in DOMAIN q : q[i] \in Item
      OBVIOUS
    <3>2. \A e \in Item : e.buf \in Buffer
      BY DEF Item
    <3> QED
      BY <3>1, <3>2 DEF BuffersType, QueuesType
  <2>2. ASSUME NEW a \in Actor
        PROVE  hand[a].buf \in Buffer \cup {NoBuffer} /\ call[a].todo \subseteq Session
    <3>1. hand[a] \in Job \cup {Empty} /\ call[a] \in Talk
      BY DEF BuffersType, ActorsType
    <3> QED
      BY <3>1 DEF Job, Empty, Talk
  <2> QED
    BY <2>1, <2>2 DEF BuffersType, PoolType, SessionsType, QueuesType, TypeOK
<1> QED
  BY <1>1, TypeInit, TypeNext, PTL DEF Spec

-----------------------------------------------------------------------------
(* Where the members of a set are in a sequence.                           *)

Spots(q, T) == {i \in DOMAIN q : q[i] \in T}
Once(S) == \A i, j \in S : i = j

(* Taking the front leaves the others as they are.                         *)
LEMMA TailSpots ==
  ASSUME NEW S, NEW q \in Seq(S), q # <<>>, NEW T
  PROVE  /\ Spots(Tail(q), T) # {} => Spots(q, T) # {}
         /\ Head(q) \in T => Spots(q, T) # {}
         /\ Once(Spots(q, T)) => Once(Spots(Tail(q), T))
         /\ Once(Spots(q, T)) /\ Head(q) \in T => Spots(Tail(q), T) = {}
<1>1. /\ Head(q) = q[1] /\ 1 \in DOMAIN q /\ DOMAIN Tail(q) = 1 .. Len(q) - 1
      /\ \A i \in DOMAIN Tail(q) : Tail(q)[i] = q[i + 1] /\ i + 1 \in DOMAIN q /\ i \in Nat
                                   /\ i + 1 # 1
  OBVIOUS
<1>2. \A i \in Spots(Tail(q), T) : i + 1 \in Spots(q, T) /\ i \in Nat /\ i + 1 # 1
  BY <1>1 DEF Spots
<1>3. Head(q) \in T => 1 \in Spots(q, T)
  BY <1>1 DEF Spots
<1>4. ASSUME Once(Spots(q, T)) PROVE Once(Spots(Tail(q), T))
  <2>1. ASSUME NEW i \in Spots(Tail(q), T), NEW j \in Spots(Tail(q), T) PROVE i = j
    <3>1. i + 1 = j + 1
      BY <1>2, <1>4 DEF Once
    <3>2. i \in Nat /\ j \in Nat
      BY <1>2
    <3> QED
      BY <3>1, <3>2
  <2> QED
    BY <2>1 DEF Once
<1>5. ASSUME Once(Spots(q, T)), Head(q) \in T PROVE Spots(Tail(q), T) = {}
  BY <1>2, <1>3, <1>5 DEF Once
<1> QED
  BY <1>2, <1>3, <1>4, <1>5

(* Adding at the back adds what is added.                                  *)
LEMMA AppendSpots ==
  ASSUME NEW S, NEW q \in Seq(S), NEW e \in S, NEW T
  PROVE  /\ Spots(Append(q, e), T) # {} => Spots(q, T) # {} \/ e \in T
         /\ Once(Spots(q, T)) /\ e \notin T => Once(Spots(Append(q, e), T))
         /\ Spots(q, T) = {} => Once(Spots(Append(q, e), T))
<1>1. /\ \A i \in DOMAIN Append(q, e) : i \in DOMAIN q \/ i = Len(q) + 1
      /\ \A i \in DOMAIN q : Append(q, e)[i] = q[i]
      /\ Append(q, e)[Len(q) + 1] = e
  OBVIOUS
<1>2. \A i \in Spots(Append(q, e), T) : i \in Spots(q, T) \/ (i = Len(q) + 1 /\ e \in T)
  BY <1>1 DEF Spots
<1> QED
  BY <1>2 DEF Once

(* Joining two sequences joins their places.                               *)
LEMMA JoinSpots ==
  ASSUME NEW S, NEW q \in Seq(S), NEW r \in Seq(S), NEW T
  PROVE  /\ Spots(q \o r, T) # {} => Spots(q, T) # {} \/ Spots(r, T) # {}
         /\ Once(Spots(q, T)) /\ Spots(r, T) = {} => Once(Spots(q \o r, T))
         /\ Spots(q, T) = {} /\ Once(Spots(r, T)) => Once(Spots(q \o r, T))
<1>1. \A i \in DOMAIN (q \o r) :
        \/ i \in DOMAIN q /\ (q \o r)[i] = q[i]
        \/ i \in Int /\ Len(q) \in Int /\ i - Len(q) \in DOMAIN r /\ (q \o r)[i] = r[i - Len(q)]
  OBVIOUS
<1>2. \A i \in Spots(q \o r, T) :
        \/ i \in Spots(q, T)
        \/ i \in Int /\ Len(q) \in Int /\ i - Len(q) \in Spots(r, T)
  BY <1>1 DEF Spots
<1>3. ASSUME Once(Spots(r, T)), NEW i \in Int, NEW j \in Int, Len(q) \in Int,
             i - Len(q) \in Spots(r, T), j - Len(q) \in Spots(r, T)
      PROVE  i = j
  <2>1. i - Len(q) = j - Len(q)
    BY <1>3 DEF Once
  <2> QED
    BY <1>3, <2>1
<1> QED
  BY <1>2, <1>3 DEF Once

(* The records of S with buffer b. *)
With(S, b) == {e \in S : e.buf = b}

(* The same of a queue of records, for the buffer in them.                 *)
LEMMA AtSpots ==
  ASSUME NEW S, NEW q \in Seq(S), NEW b
  PROVE  At(b, q) = Spots(q, With(S, b))
<1>1. \A i \in DOMAIN q : q[i] \in S
  OBVIOUS
<1> QED
  BY <1>1 DEF At, Spots, With

(* Its front taken.                                                        *)
LEMMA TailAt ==
  ASSUME NEW S, NEW q \in Seq(S), q # <<>>, NEW b
  PROVE  /\ At(b, Tail(q)) # {} => At(b, q) # {}
         /\ Head(q).buf = b => At(b, q) # {}
         /\ Once(At(b, q)) => Once(At(b, Tail(q)))
         /\ Once(At(b, q)) /\ Head(q).buf = b => At(b, Tail(q)) = {}
<1>1. Tail(q) \in Seq(S) /\ Head(q) \in S
  OBVIOUS
<1>2. /\ At(b, q) = Spots(q, With(S, b))
      /\ At(b, Tail(q)) = Spots(Tail(q), With(S, b))
  BY <1>1, AtSpots
<1>3. Head(q).buf = b => Head(q) \in With(S, b)
  BY <1>1 DEF With
<1> QED
  BY <1>2, <1>3, TailSpots

(* A record added.                                                         *)
LEMMA AppendAt ==
  ASSUME NEW S, NEW q \in Seq(S), NEW e \in S, NEW b
  PROVE  /\ At(b, Append(q, e)) # {} => At(b, q) # {} \/ e.buf = b
         /\ Once(At(b, q)) /\ e.buf # b => Once(At(b, Append(q, e)))
         /\ At(b, q) = {} => Once(At(b, Append(q, e)))
<1>1. Append(q, e) \in Seq(S)
  OBVIOUS
<1>2. /\ At(b, q) = Spots(q, With(S, b))
      /\ At(b, Append(q, e)) = Spots(Append(q, e), With(S, b))
  BY <1>1, AtSpots
<1>3. e.buf # b => e \notin With(S, b)
  BY DEF With
<1>4. e \in With(S, b) => e.buf = b
  BY DEF With
<1> QED
  BY <1>2, <1>3, <1>4, AppendSpots

-----------------------------------------------------------------------------
(* The places of a buffer.                                                 *)

Kind == {"pool", "job", "hand", "call", "data", "read", "write"} \cup Own
Keeper == Actor \cup {NoBuffer}

(* Buffer b is in the place of kind k that x keeps. *)
Holds(k, x, b) ==
  \/ k = "pool" /\ x = NoBuffer /\ Spots(pool, {b}) # {}
  \/ k = "job" /\ x = NoBuffer /\ At(b, jobs) # {}
  \/ k = "hand" /\ x \in Actor /\ hand[x].buf = b
  \/ k = "call" /\ x \in Actor /\ call[x].buf = b
  \/ k = "data" /\ x \in Session /\ b \in kept[x]
  \/ k \in Own /\ x \in Session /\ own[x][k] = b
  \/ k = "read" /\ x \in Session /\ At(b, readlist[x]) # {}
  \/ k = "write" /\ x \in Session /\ At(b, Waiting(x)) # {}

InOnePlace(b) ==
  \A k, l \in Kind : \A x, y \in Keeper : Holds(k, x, b) /\ Holds(l, y, b) => k = l /\ x = y
OnceEach(b) ==
  /\ Once(Spots(pool, {b})) /\ Once(At(b, jobs))
  /\ \A s \in Session : Once(At(b, readlist[s])) /\ Once(At(b, Waiting(s)))
OneEach == \A b \in Buffer \ shared : InOnePlace(b) /\ OnceEach(b)

(* A step leaves the buffer where it was, or drops it; or it is in one     *)
(* place afterwards.                                                       *)
Stays(b) == \A k, x : Holds(k, x, b)' => Holds(k, x, b)
Goes(b, k, x) == \A l, y : Holds(l, y, b)' => l = k /\ y = x

(* There are no other places.                                              *)
LEMMA PlacesKnown ==
  ASSUME NEW k, NEW x, NEW b, Holds(k, x, b)
  PROVE  k \in Kind /\ x \in Keeper
BY DEF Holds, Kind, Keeper, Actor

(* What is in one place is in no other.                                    *)
LEMMA OnlyThere ==
  ASSUME NEW b, InOnePlace(b), NEW k, NEW x, Holds(k, x, b)
  PROVE  \A l, y : Holds(l, y, b) => l = k /\ y = x
BY PlacesKnown DEF InOnePlace

(* A buffer that stays, or goes to a place, is in one.                     *)
LEMMA StillPlaced ==
  ASSUME OneEach, shared \subseteq shared',
         \A b \in Buffer \ shared' :
           (Stays(b) \/ \E k, x : Goes(b, k, x)) /\ OnceEach(b)'
  PROVE  OneEach'
<1>1. ASSUME NEW b \in Buffer \ shared', Stays(b) PROVE InOnePlace(b)'
  <2>1. InOnePlace(b)
    BY DEF OneEach
  <2> QED
    BY <1>1, <2>1 DEF InOnePlace, Stays
<1>2. ASSUME NEW b \in Buffer \ shared', NEW k, NEW x, Goes(b, k, x) PROVE InOnePlace(b)'
  BY <1>2 DEF InOnePlace, Goes
<1> QED
  BY <1>1, <1>2 DEF OneEach

(* What waits to be written is a queue.                                    *)
LEMMA WaitingIsQueue ==
  ASSUME BuffersType, NEW s \in Session
  PROVE  Waiting(s) \in Seq(Item)
<1>1. writelist[s] \in Seq(Item) /\ (writing[s] = "done" => writelist[s] # <<>>)
  BY DEF BuffersType, QueuesType
<1>2. writing[s] = "done" => Tail(writelist[s]) \in Seq(Item)
  BY <1>1
<1> QED
  BY <1>1, <1>2 DEF Waiting

(* A buffer without a holder is in no place.                               *)
LEMMA NoHolders ==
  ASSUME NEW b, Holders(b) = {}, NEW k, NEW x, Holds(k, x, b)
  PROVE  FALSE
<1>1. /\ Spots(pool, {b}) = {} /\ At(b, jobs) = {}
      /\ \A a \in Actor : hand[a].buf # b /\ call[a].buf # b
      /\ \A s \in Session : b \notin kept[s]
  <2>1. /\ {<<"pool", i>> : i \in {j \in DOMAIN pool : pool[j] = b}} = {}
        /\ {<<"job", i>> : i \in At(b, jobs)} = {}
        /\ {<<"hand", a>> : a \in {c \in Actor : hand[c].buf = b}} = {}
        /\ {<<"call", a>> : a \in {c \in Actor : call[c].buf = b}} = {}
        /\ {<<"data", s>> : s \in {t \in Session : b \in kept[t]}} = {}
    BY DEF Holders
  <2>2. /\ {j \in DOMAIN pool : pool[j] = b} = {}
        /\ At(b, jobs) = {} /\ {c \in Actor : hand[c].buf = b} = {}
        /\ {c \in Actor : call[c].buf = b} = {} /\ {t \in Session : b \in kept[t]} = {}
    BY <2>1
  <2> QED
    BY <2>2 DEF Spots
<1>2. ASSUME NEW s \in Session
      PROVE  /\ \A o \in Own : own[s][o] # b
             /\ At(b, readlist[s]) = {} /\ At(b, Waiting(s)) = {}
  <2>1. {<<o, s>> : o \in {p \in Own : own[s][p] = b}}
          \cup {<<"read", s, i>> : i \in At(b, readlist[s])}
          \cup {<<"write", s, i>> : i \in At(b, Waiting(s))} = {}
    BY DEF Holders
  <2> QED
    BY <2>1
<1> QED
  BY <1>1, <1>2 DEF Holds

(* A buffer from the pool was nowhere else, and is not there any more.     *)
LEMMA TakenFromPool ==
  ASSUME BuffersType, OneEach, NEW b \in Buffer, GetFreeBuffer(b)
  PROVE  /\ \A c : Spots(pool', {c}) # {} => Spots(pool, {c}) # {}
         /\ \A c : Once(Spots(pool, {c})) => Once(Spots(pool', {c}))
         /\ b \notin shared =>
              Spots(pool', {b}) = {} /\ \A k, x : Holds(k, x, b) => k = "pool"
<1>1. pool \in Seq(Buffer)
  BY DEF BuffersType, PoolType
<1>2. CASE pool # <<>>
  <2>1. b = Head(pool) /\ pool' = Tail(pool)
    BY <1>2 DEF GetFreeBuffer
  <2>2. Spots(pool, {b}) # {}
    BY <1>1, <1>2, <2>1, TailSpots
  <2>3. ASSUME b \notin shared
        PROVE  Spots(pool', {b}) = {} /\ \A k, x : Holds(k, x, b) => k = "pool"
    <3>1. InOnePlace(b) /\ Once(Spots(pool, {b}))
      BY <2>3 DEF OneEach, OnceEach
    <3>2. Holds("pool", NoBuffer, b)
      BY <2>2 DEF Holds
    <3>3. Spots(pool', {b}) = {}
      BY <1>1, <1>2, <2>1, <3>1, TailSpots
    <3> QED
      BY <3>1, <3>2, <3>3, OnlyThere
  <2> QED
    BY <1>1, <1>2, <2>1, <2>3, TailSpots
<1>3. CASE pool = <<>>
  <2>1. pool' = pool /\ ~InUse(b)
    BY <1>3 DEF GetFreeBuffer
  <2>2. \A c : Spots(pool, {c}) = {}
    BY <1>3 DEF Spots
  <2>3. ASSUME NEW k, NEW x, Holds(k, x, b) PROVE FALSE
    BY <2>1, <2>3, NoHolders DEF InUse
  <2> QED
    BY <2>1, <2>2, <2>3
<1> QED
  BY <1>2, <1>3

(* A buffer taken back comes to the pool.                                  *)
LEMMA GivenBack ==
  ASSUME BuffersType, NEW b \in Buffer, TakeBack(b)
  PROVE  /\ \A c : Spots(pool', {c}) # {} => Spots(pool, {c}) # {} \/ c = b
         /\ \A c : c # b /\ Once(Spots(pool, {c})) => Once(Spots(pool', {c}))
         /\ Spots(pool, {b}) = {} => Once(Spots(pool', {b}))
<1>1. pool \in Seq(Buffer) /\ pool' = Append(pool, b)
  BY DEF BuffersType, PoolType, TakeBack
<1>2. ASSUME NEW c
      PROVE  /\ Spots(pool', {c}) # {} => Spots(pool, {c}) # {} \/ c = b
             /\ Once(Spots(pool, {c})) /\ c # b => Once(Spots(pool', {c}))
             /\ Spots(pool, {c}) = {} => Once(Spots(pool', {c}))
  <2>1. /\ Spots(Append(pool, b), {c}) # {} => Spots(pool, {c}) # {} \/ b \in {c}
        /\ Once(Spots(pool, {c})) /\ b \notin {c} => Once(Spots(Append(pool, b), {c}))
        /\ Spots(pool, {c}) = {} => Once(Spots(Append(pool, b), {c}))
    BY <1>1, AppendSpots
  <2> QED
    BY <1>1, <2>1
<1> QED
  BY <1>2

(* What waits to be written depends on two variables.                      *)
LEMMA SameWaiting ==
  ASSUME NEW s, writelist'[s] = writelist[s], writing'[s] = writing[s]
  PROVE  Waiting(s)' = Waiting(s)
BY DEF Waiting

(* Steps that move no buffer but a shared one, or drop one.                *)
LEMMA NothingMoved ==
  ASSUME BuffersType, OneEach, shared \subseteq shared', UNCHANGED <<pool, jobs, own, readlist>>,
         \A a \in Actor : hand'[a].buf = hand[a].buf,
         \A a \in Actor : call'[a].buf \in {call[a].buf, NoBuffer} \cup shared',
         \A s \in Session : kept'[s] \subseteq kept[s] \cup shared',
         \A s \in Session : Waiting(s)' = Waiting(s)
  PROVE  OneEach'
<1>1. ASSUME NEW b \in Buffer \ shared' PROVE Stays(b)
  <2>1. b # NoBuffer
    BY BuffersAssumption
  <2>2. \A a \in Actor : call'[a].buf = b => call[a].buf = b
    BY <2>1
  <2>3. \A s \in Session : b \in kept'[s] => b \in kept[s]
    OBVIOUS
  <2> QED
    BY <2>2, <2>3 DEF Stays, Holds
<1>2. ASSUME NEW b \in Buffer \ shared' PROVE OnceEach(b)'
  <2>1. OnceEach(b)
    BY DEF OneEach
  <2> QED
    BY <2>1 DEF OnceEach
<1> QED
  BY <1>1, <1>2, StillPlaced

(* Taking a buffer from the pool to another place.                         *)
LEMMA TakenTo ==
  ASSUME BuffersType, OneEach, shared \subseteq shared',
         NEW b \in Buffer, GetFreeBuffer(b), NEW k, NEW x,
         \A l, y, c : l # "pool" /\ Holds(l, y, c)' => Holds(l, y, c) \/ (c = b /\ l = k /\ y = x),
         \A c \in Buffer \ shared' :
           /\ Once(At(c, jobs))'
           /\ \A s \in Session : Once(At(c, readlist[s]))' /\ Once(At(c, Waiting(s)))'
  PROVE  OneEach'
<1>1. ASSUME NEW c \in Buffer \ shared', c # b PROVE Stays(c)
  <2>1. ASSUME NEW y, Holds("pool", y, c)' PROVE Holds("pool", y, c)
    <3>1. y = NoBuffer /\ Spots(pool', {c}) # {}
      BY <2>1, BuffersAssumption DEF Holds
    <3>2. Spots(pool, {c}) # {}
      BY <3>1, TakenFromPool
    <3> QED
      BY <3>1, <3>2 DEF Holds
  <2> QED
    BY <1>1, <2>1 DEF Stays
<1>2. ASSUME b \notin shared' PROVE Goes(b, k, x)
  <2>1. Spots(pool', {b}) = {} /\ \A l, y : Holds(l, y, b) => l = "pool"
    BY <1>2, TakenFromPool
  <2>2. \A y : ~Holds("pool", y, b)'
    BY <2>1, BuffersAssumption DEF Holds
  <2> QED
    BY <2>1, <2>2 DEF Goes
<1>3. ASSUME NEW c \in Buffer \ shared' PROVE OnceEach(c)'
  <2>1. Once(Spots(pool', {c}))
    BY TakenFromPool DEF OneEach, OnceEach
  <2> QED
    BY <2>1 DEF OnceEach
<1> QED
  BY <1>1, <1>2, <1>3, StillPlaced

(* A session gets a buffer of its own.                                     *)
LEMMA AfterConnectPlaces ==
  ASSUME BuffersType, OneEach, NEW s \in Session, NEW b \in Buffer, NEW o \in Own,
         AfterConnect(s, o, b)
  PROVE  OneEach'
<1>1. /\ GetFreeBuffer(b) /\ own' = [own EXCEPT ![s][o] = b]
      /\ UNCHANGED <<kept, readlist, writelist, writing, jobs, hand, call, shared>>
  BY DEF AfterConnect, queueVars
<1>2. \A t : Waiting(t)' = Waiting(t)
  BY <1>1, SameWaiting
<1>3. \A t \in Session, p \in Own : own'[t][p] = IF t = s /\ p = o THEN b ELSE own[t][p]
  BY <1>1 DEF BuffersType, SessionsType
<1>4. ASSUME NEW l, NEW y, NEW c, l # "pool", Holds(l, y, c)'
      PROVE  Holds(l, y, c) \/ (c = b /\ l = o /\ y = s)
  BY <1>1, <1>2, <1>3, <1>4 DEF Holds
<1>5. \A c \in Buffer \ shared' :
        /\ Once(At(c, jobs))'
        /\ \A t \in Session : Once(At(c, readlist[t]))' /\ Once(At(c, Waiting(t)))'
  BY <1>1, <1>2 DEF OneEach, OnceEach
<1> QED
  BY <1>1, <1>4, <1>5, TakenTo

(* A handler prepares a buffer to broadcast.                               *)
LEMMA PreparePlaces ==
  ASSUME BuffersType, OneEach, NEW a \in Actor, NEW b \in Buffer,
         PrepareBuffer(a, b) \/ Encode(a, b)
  PROVE  OneEach'
<1>1. /\ GetFreeBuffer(b) /\ \A c \in Actor : hand'[c].buf = hand[c].buf
      /\ \A c \in Actor : call'[c].buf = IF c = a THEN b ELSE call[c].buf
      /\ UNCHANGED <<own, kept, readlist, writelist, writing, jobs, shared>>
  <2>1. CASE PrepareBuffer(a, b)
    BY <2>1 DEF PrepareBuffer, Calling, BuffersType, ActorsType, sessionVars, queueVars
  <2>2. CASE Encode(a, b)
    <3>1. call[a] \in Talk
      BY DEF BuffersType, ActorsType
    <3>2. [call[a] EXCEPT !.buf = b].buf = b
      BY <3>1 DEF Talk
    <3> QED
      BY <2>2, <3>2 DEF Encode, BuffersType, ActorsType, sessionVars, queueVars
  <2> QED
    BY <2>1, <2>2
<1>2. \A t : Waiting(t)' = Waiting(t)
  BY <1>1, SameWaiting
<1>3. ASSUME NEW l, NEW y, NEW c, l # "pool", Holds(l, y, c)'
      PROVE  Holds(l, y, c) \/ (c = b /\ l = "call" /\ y = a)
  BY <1>1, <1>2, <1>3 DEF Holds
<1>4. \A c \in Buffer \ shared' :
        /\ Once(At(c, jobs))'
        /\ \A t \in Session : Once(At(c, readlist[t]))' /\ Once(At(c, Waiting(t)))'
  BY <1>1, <1>2 DEF OneEach, OnceEach
<1> QED
  BY <1>1, <1>3, <1>4, TakenTo

(* A message is read: into a new buffer, or into the shared one.           *)
LEMMA OnReadPlaces ==
  ASSUME BuffersType, OneEach, NEW s \in Session, NEW b \in Buffer, OnRead(s, b)
  PROVE  OneEach'
<1> DEFINE e == [buf |-> b, msg |-> arrived']
<1>1. /\ UNCHANGED <<own, kept, writelist, writing, jobs, hand, call>>
      /\ \A t \in Session : t # s => readlist'[t] = readlist[t]
      /\ readlist'[s] = readlist[s] \/ readlist'[s] = Append(readlist[s], e)
  BY DEF OnRead, sessionVars, BuffersType, QueuesType
<1>2. e \in Item /\ readlist[s] \in Seq(Item) /\ e.buf = b
  <2>1. arrived' \in Int
    BY BuffersAssumption DEF OnRead, BuffersType, PoolType
  <2> QED
    BY <2>1 DEF Item, BuffersType, QueuesType
<1> HIDE DEF e
<1>3. \A t : Waiting(t)' = Waiting(t)
  BY <1>1, SameWaiting
<1>4. \A c : At(c, readlist'[s]) # {} => At(c, readlist[s]) # {} \/ c = b
  <2>1. \A c : At(c, Append(readlist[s], e)) # {} => At(c, readlist[s]) # {} \/ c = b
    BY <1>2, AppendAt
  <2> QED
    BY <1>1, <2>1
<1>5. ASSUME NEW l, NEW y, NEW c, l # "pool", Holds(l, y, c)'
      PROVE  Holds(l, y, c) \/ (c = b /\ l = "read" /\ y = s)
  BY <1>1, <1>3, <1>4, <1>5 DEF Holds
<1>6. ASSUME NEW c \in Buffer \ shared', OnceEach(c), c = b => At(c, readlist[s]) = {}
      PROVE  /\ Once(At(c, jobs))'
             /\ \A t \in Session : Once(At(c, readlist[t]))' /\ Once(At(c, Waiting(t)))'
  <2>1. Once(At(c, Append(readlist[s], e)))
    <3>1. Once(At(c, readlist[s]))
      BY <1>6 DEF OnceEach
    <3> QED
      BY <1>2, <1>6, <3>1, AppendAt
  <2> QED
    BY <1>1, <1>3, <1>6, <2>1 DEF OnceEach
<1>7. CASE filtered
  <2>1. GetFreeBuffer(b) /\ UNCHANGED shared
    BY <1>7 DEF OnRead
  <2>2. ASSUME NEW c \in Buffer \ shared' PROVE OnceEach(c) /\ (c = b => At(c, readlist[s]) = {})
    <3>1. c = b => ~Holds("read", s, c)
      BY <2>1, TakenFromPool
    <3> QED
      BY <2>1, <3>1 DEF OneEach, Holds
  <2> QED
    BY <1>5, <1>6, <2>1, <2>2, TakenTo
<1>8. CASE ~filtered
  <2>1. b \in shared' /\ shared \subseteq shared' /\ UNCHANGED pool
    BY <1>8 DEF OnRead, Share
  <2>2. ASSUME NEW c \in Buffer \ shared' PROVE Stays(c) /\ OnceEach(c)'
    <3>1. c # b /\ OnceEach(c)
      BY <2>1 DEF OneEach
    <3>2. \A y : Holds("pool", y, c)' => Holds("pool", y, c)
      BY <2>1, BuffersAssumption DEF Holds
    <3>3. Stays(c)
      BY <1>5, <3>1, <3>2 DEF Stays
    <3>4. OnceEach(c)'
      BY <1>6, <2>1, <3>1 DEF OnceEach
    <3> QED
      BY <3>3, <3>4
  <2> QED
    BY <2>1, <2>2, StillPlaced
<1> QED
  BY <1>7, <1>8

(* Giving a buffer back from another place to the pool.                    *)
LEMMA GivenFrom ==
  ASSUME BuffersType, OneEach, UNCHANGED shared, NEW b \in Buffer, TakeBack(b),
         NEW k, NEW x, k # "pool", Holds(k, x, b),
         \A c \in Buffer : \A l, y : l # "pool" /\ Holds(l, y, c)' => Holds(l, y, c),
         b \notin shared => ~Holds(k, x, b)',
         \A c \in Buffer \ shared :
           /\ Once(At(c, jobs))'
           /\ \A s \in Session : Once(At(c, readlist[s]))' /\ Once(At(c, Waiting(s)))'
  PROVE  OneEach'
<1>1. \A y, c : Holds("pool", y, c) <=> y = NoBuffer /\ Spots(pool, {c}) # {}
  BY BuffersAssumption DEF Holds
<1>2. \A y, c : Holds("pool", y, c)' <=> y = NoBuffer /\ Spots(pool', {c}) # {}
  BY BuffersAssumption DEF Holds
<1>3. ASSUME NEW c \in Buffer \ shared', c # b PROVE Stays(c)
  <2>1. Spots(pool', {c}) # {} => Spots(pool, {c}) # {}
    BY <1>3, GivenBack
  <2> QED
    BY <1>1, <1>2, <2>1 DEF Stays
<1>4. ASSUME b \notin shared' PROVE Goes(b, "pool", NoBuffer) /\ Spots(pool, {b}) = {}
  <2>1. \A l, y : Holds(l, y, b) => l = k /\ y = x
    BY <1>4, OnlyThere DEF OneEach
  <2>2. \A l, y : l # "pool" => ~Holds(l, y, b)'
    BY <1>4, <2>1
  <2> QED
    BY <1>1, <1>2, <2>1, <2>2 DEF Goes
<1>5. ASSUME NEW c \in Buffer \ shared' PROVE OnceEach(c)'
  <2>1. Once(Spots(pool', {c}))
    BY <1>4, GivenBack DEF OneEach, OnceEach
  <2> QED
    BY <2>1 DEF OnceEach
<1> QED
  BY <1>3, <1>4, <1>5, StillPlaced

(* The buffer of a message that is handled goes back.                      *)
LEMMA HandledPlaces ==
  ASSUME BuffersType, OneEach, NEW a \in Actor, Handled(a)
  PROVE  OneEach'
<1>1. hand[a].buf \in Buffer
  BY RecordsTyped DEF Handled, Job
<1>2. PICK b \in Buffer : b = hand[a].buf
  BY <1>1
<1>3. /\ TakeBack(b)
      /\ \A c \in Actor : hand'[c] = IF c = a THEN Empty ELSE hand[c]
      /\ UNCHANGED <<own, kept, readlist, writelist, writing, jobs, call, shared>>
  BY <1>2 DEF Handled, TakeBackTask, sessionVars, queueVars, BuffersType, ActorsType
<1>4. \A t : Waiting(t)' = Waiting(t)
  BY <1>3, SameWaiting
<1>5. \A c \in Buffer : c # NoBuffer
  BY BuffersAssumption
<1>6. Holds("hand", a, b)
  BY <1>2 DEF Holds
<1>7. hand'[a].buf = NoBuffer
  BY <1>3 DEF Empty
<1>8. ~Holds("hand", a, b)'
  BY <1>5, <1>7, BuffersAssumption DEF Holds
<1>9. ASSUME NEW c \in Buffer, NEW l, NEW y, l # "pool", Holds(l, y, c)'
      PROVE  Holds(l, y, c)
  <2>1. \A d \in Actor : hand'[d].buf = c => hand[d].buf = c
    BY <1>3, <1>5, <1>7
  <2> QED
    BY <1>3, <1>4, <1>9, <2>1 DEF Holds
<1>10. \A c \in Buffer \ shared :
         /\ Once(At(c, jobs))'
         /\ \A t \in Session : Once(At(c, readlist[t]))' /\ Once(At(c, Waiting(t)))'
  BY <1>3, <1>4 DEF OneEach, OnceEach
<1> QED
  BY <1>3, <1>6, <1>8, <1>9, <1>10, GivenFrom

(* A buffer that was written goes back, and waits no more.                 *)
LEMMA OnWritePlaces ==
  ASSUME BuffersType, OneEach, NEW s \in Session, OnWrite(s)
  PROVE  OneEach'
<1>1. writelist[s] \in Seq(Item) /\ writelist[s] # <<>> /\ writing[s] = "busy"
  BY DEF OnWrite, BuffersType, QueuesType
<1>2. Waiting(s) = writelist[s] /\ Waiting(s)' = Tail(writelist[s])
  BY <1>1 DEF OnWrite, Waiting, BuffersType, QueuesType
<1>3. PICK b \in Buffer : b = Head(writelist[s]).buf
  <2>1. Head(writelist[s]) \in Item
    BY <1>1
  <2> QED
    BY <2>1 DEF Item
<1>4. TakeBack(b) /\ UNCHANGED <<own, kept, readlist, jobs, hand, call, shared>>
  BY <1>3 DEF OnWrite, sessionVars
<1>5. \A t \in Session : t # s => Waiting(t)' = Waiting(t)
  BY SameWaiting DEF OnWrite, BuffersType, QueuesType
<1>6. /\ \A c : At(c, Waiting(s)') # {} => At(c, Waiting(s)) # {}
      /\ \A c : Once(At(c, Waiting(s))) => Once(At(c, Waiting(s)'))
      /\ At(b, Waiting(s)) # {}
      /\ Once(At(b, Waiting(s))) => At(b, Waiting(s)') = {}
  BY <1>1, <1>2, <1>3, TailAt
<1>7. Holds("write", s, b)
  BY <1>6 DEF Holds
<1>8. b \notin shared => ~Holds("write", s, b)'
  <2>1. b \notin shared => At(b, Waiting(s)') = {}
    BY <1>6 DEF OneEach, OnceEach
  <2> QED
    BY <2>1, BuffersAssumption DEF Holds
<1>9. ASSUME NEW c \in Buffer, NEW l, NEW y, l # "pool", Holds(l, y, c)'
      PROVE  Holds(l, y, c)
  BY <1>4, <1>5, <1>6, <1>9 DEF Holds
<1>10. \A c \in Buffer \ shared :
         /\ Once(At(c, jobs))'
         /\ \A t \in Session : Once(At(c, readlist[t]))' /\ Once(At(c, Waiting(t)))'
  BY <1>4, <1>5, <1>6 DEF OneEach, OnceEach
<1> QED
  BY <1>4, <1>7, <1>8, <1>9, <1>10, GivenFrom

(* A session that ends gives its own buffers and its data back, and its    *)
(* queues are gone.                                                        *)
LEMMA ReleasePlaces ==
  ASSUME BuffersType, OneEach, NEW s \in Session, Release(s)
  PROVE  OneEach'
<1>1. PICK back \in ReleasedBuffers(s) : pool' = pool \o back
  BY DEF Release
<1>2. PICK f \in Seq(Buffer), g \in Seq(Buffer) : back = f \o g /\ Returns(s, f, g)
  BY ReleasedTyped
<1>3. /\ UNCHANGED <<jobs, hand, call, shared>>
      /\ \A t \in Session : t # s => own'[t] = own[t] /\ kept'[t] = kept[t]
                                     /\ readlist'[t] = readlist[t] /\ Waiting(t)' = Waiting(t)
      /\ \A o \in Own : own'[s][o] = NoBuffer
      /\ kept'[s] = {} /\ readlist'[s] = <<>> /\ Waiting(s)' = <<>>
  BY DEF Release, Waiting, BuffersType, SessionsType, QueuesType
<1>4. \A c : At(c, <<>>) = {}
  BY DEF At
<1>5. pool \in Seq(Buffer) /\ back \in Seq(Buffer)
  BY ReleasedAreBuffers DEF BuffersType, PoolType
<1>6. ASSUME NEW c \in Buffer
      PROVE  /\ Spots(f, {c}) # {} => \E o \in Own : Holds(o, s, c)
             /\ Spots(g, {c}) # {} => Holds("data", s, c)
             /\ Once(Spots(f, {c})) /\ Once(Spots(g, {c}))
  <2>1. Spots(f, {c}) # {} => c \in OwnBuffers(s)
    BY <1>2 DEF Returns, Spots
  <2>2. Spots(g, {c}) # {} => c \in kept[s]
    BY <1>2 DEF Returns, Spots
  <2>3. Once(Spots(f, {c})) /\ Once(Spots(g, {c}))
    BY <1>2 DEF Returns, Spots, Once
  <2> QED
    BY <2>1, <2>2, <2>3 DEF OwnBuffers, Holds
<1>7. ASSUME NEW c \in Buffer \ shared, NEW l, NEW y, l # "pool", Holds(l, y, c)'
      PROVE  Holds(l, y, c) /\ ~(l \in Own /\ y = s) /\ ~(l = "data" /\ y = s)
  <2>1. c # NoBuffer
    BY BuffersAssumption
  <2>2. Session \subseteq Actor /\ Own \subseteq {"readbuffer", "readcache", "roundcache"}
    BY BuffersAssumption DEF Actor
  <2>3. ASSUME y = s, l \in Own PROVE FALSE
    BY <1>3, <1>7, <2>1, <2>2, <2>3 DEF Holds
  <2>4. ASSUME y = s, l = "data" PROVE FALSE
    BY <1>3, <1>7, <2>2, <2>4 DEF Holds
  <2>5. CASE y = s
    BY <1>3, <1>4, <1>7, <2>3, <2>4, <2>5 DEF Holds
  <2>6. CASE y # s
    BY <1>3, <1>7, <2>6 DEF Holds
  <2> QED
    BY <2>3, <2>4, <2>5, <2>6
<1>8. ASSUME NEW c \in Buffer \ shared
      PROVE  (Stays(c) \/ Goes(c, "pool", NoBuffer)) /\ Once(Spots(pool', {c}))
  <2>0. InOnePlace(c) /\ Once(Spots(pool, {c}))
    BY DEF OneEach, OnceEach
  <2>1. /\ \A y : Holds("pool", y, c) <=> y = NoBuffer /\ Spots(pool, {c}) # {}
        /\ \A y : Holds("pool", y, c)' <=> y = NoBuffer /\ Spots(pool', {c}) # {}
    BY BuffersAssumption DEF Holds
  <2>2. /\ Spots(pool', {c}) # {} => Spots(pool, {c}) # {} \/ Spots(back, {c}) # {}
        /\ Spots(back, {c}) # {} => Spots(f, {c}) # {} \/ Spots(g, {c}) # {}
        /\ Spots(back, {c}) = {} => Once(Spots(pool', {c}))
        /\ Spots(pool, {c}) = {} /\ Once(Spots(back, {c})) => Once(Spots(pool', {c}))
        /\ Spots(f, {c}) = {} \/ Spots(g, {c}) = {} => Once(Spots(back, {c}))
    BY <1>1, <1>2, <1>5, <1>6, <2>0, JoinSpots
  <2>3. CASE Spots(back, {c}) = {}
    BY <1>7, <2>1, <2>2, <2>3 DEF Stays
  <2>4. ASSUME Spots(back, {c}) # {}, NEW k, k = "data" \/ k \in Own, Holds(k, s, c)
        PROVE  Goes(c, "pool", NoBuffer) /\ Spots(pool, {c}) = {}
    <3>1. \A l, y : Holds(l, y, c) => l = k /\ y = s
      BY <2>0, <2>4, OnlyThere
    <3>2. k # "pool"
      BY <2>4, BuffersAssumption
    <3>3. \A l, y : l # "pool" => ~Holds(l, y, c)'
      BY <1>7, <2>4, <3>1
    <3> QED
      BY <2>1, <3>1, <3>2, <3>3 DEF Goes
  <2>5. CASE Spots(back, {c}) # {}
    <3>1. Spots(f, {c}) = {} \/ Spots(g, {c}) = {}
      <4>1. ASSUME NEW o \in Own, Holds(o, s, c), Holds("data", s, c) PROVE FALSE
        BY <2>0, <4>1, OnlyThere, BuffersAssumption
      <4> QED
        BY <1>6, <4>1
    <3>2. \E k : (k = "data" \/ k \in Own) /\ Holds(k, s, c)
      BY <1>6, <2>2, <2>5
    <3>3. Goes(c, "pool", NoBuffer) /\ Spots(pool, {c}) = {}
      BY <2>4, <2>5, <3>2
    <3> QED
      BY <2>2, <3>1, <3>3
  <2> QED
    BY <2>3, <2>5
<1>9. ASSUME NEW c \in Buffer \ shared PROVE OnceEach(c)'
  <2>1. \A t \in Session : Once(At(c, readlist[t]))' /\ Once(At(c, Waiting(t)))'
    <3>1. Once({})
      BY DEF Once
    <3> QED
      BY <1>3, <1>4, <3>1 DEF OneEach, OnceEach
  <2> QED
    BY <1>3, <1>8, <2>1 DEF OneEach, OnceEach
<1> QED
  BY <1>3, <1>8, <1>9, StillPlaced

(* Moving a buffer from one place to another, neither the pool.            *)
LEMMA MovedOn ==
  ASSUME BuffersType, OneEach, UNCHANGED <<pool, shared>>, NEW b \in Buffer,
         NEW k, NEW x, Holds(k, x, b), NEW m, NEW z,
         \A c \in Buffer : \A l, y :
           Holds(l, y, c)' => Holds(l, y, c) \/ (c = b /\ l = m /\ y = z),
         b \notin shared => ~Holds(k, x, b)',
         \A c \in Buffer \ shared :
           /\ Once(At(c, jobs))'
           /\ \A s \in Session : Once(At(c, readlist[s]))' /\ Once(At(c, Waiting(s)))'
  PROVE  OneEach'
<1>1. ASSUME NEW c \in Buffer \ shared', c # b PROVE Stays(c)
  BY <1>1 DEF Stays
<1>2. ASSUME b \notin shared' PROVE Goes(b, m, z)
  <2>1. \A l, y : Holds(l, y, b) => l = k /\ y = x
    BY <1>2, OnlyThere DEF OneEach
  <2> QED
    BY <1>2, <2>1 DEF Goes
<1>3. ASSUME NEW c \in Buffer \ shared' PROVE OnceEach(c)'
  BY DEF OneEach, OnceEach
<1> QED
  BY <1>1, <1>2, <1>3, StillPlaced

(* A session takes the message in front: to handle it, or as a task.       *)
LEMMA TakeMessagePlaces ==
  ASSUME BuffersType, OneEach, NEW s \in Session, TakeMessage(s)
  PROVE  OneEach'
<1>1. readlist[s] \in Seq(Item) /\ readlist[s] # <<>> /\ jobs \in Seq(Job)
  BY DEF TakeMessage, BuffersType, QueuesType, ActorsType
<1>2. Head(readlist[s]) \in Item
  BY <1>1
<1>3. PICK b \in Buffer : b = Head(readlist[s]).buf
  BY <1>2 DEF Item
<1>4. Task(s) \in Job /\ Task(s).buf = b /\ s \in Actor
  BY <1>2, <1>3 DEF Task, Item, Job, Actor
<1>5. /\ UNCHANGED <<pool, shared, own, kept, writelist, writing, call>>
      /\ \A t \in Session : t # s => readlist'[t] = readlist[t]
      /\ readlist'[s] = Tail(readlist[s])
  BY DEF TakeMessage, sessionVars, BuffersType, QueuesType
<1>6. \A t : Waiting(t)' = Waiting(t)
  BY <1>5, SameWaiting
<1>7. /\ \A c : At(c, readlist'[s]) # {} => At(c, readlist[s]) # {}
      /\ \A c : Once(At(c, readlist[s])) => Once(At(c, readlist'[s]))
      /\ At(b, readlist[s]) # {}
      /\ Once(At(b, readlist[s])) => At(b, readlist'[s]) = {}
  BY <1>1, <1>3, <1>5, TailAt
<1>8. Holds("read", s, b)
  BY <1>7 DEF Holds
<1>9. b \notin shared => ~Holds("read", s, b)'
  <2>1. b \notin shared => At(b, readlist'[s]) = {}
    BY <1>7 DEF OneEach, OnceEach
  <2> QED
    BY <2>1, BuffersAssumption DEF Holds
<1>10. \A c \in Buffer \ shared :
         \A t \in Session : Once(At(c, readlist[t]))' /\ Once(At(c, Waiting(t)))'
  BY <1>5, <1>6, <1>7 DEF OneEach, OnceEach
<1>11. CASE hand' = [hand EXCEPT ![s] = Task(s)] /\ UNCHANGED jobs
  <2>1. \A a \in Actor : hand'[a].buf = IF a = s THEN b ELSE hand[a].buf
    BY <1>4, <1>11 DEF BuffersType, ActorsType
  <2>2. ASSUME NEW c \in Buffer, NEW l, NEW y, Holds(l, y, c)'
        PROVE  Holds(l, y, c) \/ (c = b /\ l = "hand" /\ y = s)
    <3>1. l = "hand" => (y = s /\ c = b) \/ Holds(l, y, c)
      BY <2>1, <2>2, BuffersAssumption DEF Holds
    <3>2. l = "read" => Holds(l, y, c)
      BY <1>5, <1>7, <2>2, BuffersAssumption DEF Holds
    <3>3. l # "hand" /\ l # "read" => Holds(l, y, c)
      BY <1>5, <1>6, <1>11, <2>2 DEF Holds
    <3> QED
      BY <3>1, <3>2, <3>3
  <2>3. \A c \in Buffer \ shared : Once(At(c, jobs))'
    BY <1>11 DEF OneEach, OnceEach
  <2> QED
    BY <1>5, <1>8, <1>9, <1>10, <2>2, <2>3, MovedOn
<1>12. CASE jobs' = Append(jobs, Task(s)) /\ UNCHANGED hand
  <2>1. /\ \A c : At(c, jobs') # {} => At(c, jobs) # {} \/ c = b
        /\ \A c : Once(At(c, jobs)) /\ c # b => Once(At(c, jobs'))
        /\ At(b, jobs) = {} => Once(At(b, jobs'))
    BY <1>1, <1>4, <1>12, AppendAt
  <2>2. ASSUME NEW c \in Buffer, NEW l, NEW y, Holds(l, y, c)'
        PROVE  Holds(l, y, c) \/ (c = b /\ l = "job" /\ y = NoBuffer)
    BY <1>5, <1>6, <1>7, <1>12, <2>1, <2>2 DEF Holds
  <2>3. ASSUME NEW c \in Buffer \ shared PROVE Once(At(c, jobs))'
    <3>1. c = b => ~Holds("job", NoBuffer, c)
      BY <1>8, OnlyThere DEF OneEach
    <3>2. c = b => At(c, jobs) = {}
      BY <3>1 DEF Holds
    <3> QED
      BY <2>1, <3>2 DEF OneEach, OnceEach
  <2> QED
    BY <1>5, <1>8, <1>9, <1>10, <2>2, <2>3, MovedOn
<1> QED
  BY <1>11, <1>12 DEF TakeMessage

(* A worker takes a task.                                                  *)
LEMMA RunTaskPlaces ==
  ASSUME BuffersType, OneEach, NEW w \in Worker, RunTask(w)
  PROVE  OneEach'
<1>1. jobs \in Seq(Job) /\ jobs # <<>> /\ w \in Actor
  BY DEF RunTask, BuffersType, ActorsType, Actor
<1>2. Head(jobs) \in Job
  BY <1>1
<1>3. PICK b \in Buffer : b = Head(jobs).buf
  BY <1>2 DEF Job
<1>4. /\ UNCHANGED <<pool, shared, own, kept, readlist, writelist, writing, call>>
      /\ jobs' = Tail(jobs)
      /\ \A a \in Actor : hand'[a].buf = IF a = w THEN b ELSE hand[a].buf
  BY <1>1, <1>2, <1>3 DEF RunTask, sessionVars, queueVars, BuffersType, ActorsType, Job
<1>5. \A t : Waiting(t)' = Waiting(t)
  BY <1>4, SameWaiting
<1>6. /\ \A c : At(c, jobs') # {} => At(c, jobs) # {}
      /\ \A c : Once(At(c, jobs)) => Once(At(c, jobs'))
      /\ At(b, jobs) # {}
      /\ Once(At(b, jobs)) => At(b, jobs') = {}
  BY <1>1, <1>3, <1>4, TailAt
<1>7. Holds("job", NoBuffer, b)
  BY <1>6 DEF Holds
<1>8. b \notin shared => ~Holds("job", NoBuffer, b)'
  <2>1. b \notin shared => At(b, jobs') = {}
    BY <1>6 DEF OneEach, OnceEach
  <2> QED
    BY <2>1, BuffersAssumption DEF Holds
<1>9. ASSUME NEW c \in Buffer, NEW l, NEW y, Holds(l, y, c)'
      PROVE  Holds(l, y, c) \/ (c = b /\ l = "hand" /\ y = w)
  BY <1>4, <1>5, <1>6, <1>9 DEF Holds
<1>10. \A c \in Buffer \ shared :
         /\ Once(At(c, jobs))'
         /\ \A t \in Session : Once(At(c, readlist[t]))' /\ Once(At(c, Waiting(t)))'
  BY <1>4, <1>5, <1>6 DEF OneEach, OnceEach
<1>11. UNCHANGED <<pool, shared>>
  BY <1>4
<1> QED
  BY <1>7, <1>8, <1>9, <1>10, <1>11, MovedOn

(* A buffer that is not shared is broadcast to one session at most.        *)
Singly ==
  /\ IsFiniteSet(Registered)
  /\ \A a \in Actor : call[a].kind = "broadcastbuffer" /\ call[a].buf \notin shared =>
       \A s, t \in call[a].todo : s = t

(* A write adds to what waits in an open session, and to no other.         *)
LEMMA WriteWaits ==
  ASSUME BuffersType, NEW a \in Actor, NEW s \in Session, Write(a, s)
  PROVE  /\ \A t \in Session : t # s => Waiting(t)' = Waiting(t)
         /\ \/ Waiting(s)' = Waiting(s)
            \/ Waiting(s)' = Append(Waiting(s), [buf |-> call[a].buf, msg |-> call[a].msg])
<1> DEFINE e == [buf |-> call[a].buf, msg |-> call[a].msg]
<1>1. e \in Item
  BY DEF Write, BuffersType, ActorsType, Talk, Item
<1>2. writelist[s] \in Seq(Item) /\ (writing[s] = "done" => writelist[s] # <<>>)
  BY DEF BuffersType, QueuesType
<1>3. \A t \in Session : t # s => Waiting(t)' = Waiting(t)
  BY SameWaiting DEF Write, BuffersType, QueuesType
<1>4. CASE state[s] # "open"
  BY <1>3, <1>4, SameWaiting DEF Write
<1>5. CASE state[s] = "open"
  <2>1. /\ writelist'[s] = Append(writelist[s], e)
        /\ writing'[s] = IF writelist[s] = <<>> THEN "busy" ELSE writing[s]
    BY <1>5 DEF Write, BuffersType, QueuesType
  <2> HIDE DEF e
  <2>2. \A q \in Seq(Item) : q # <<>> => Tail(Append(q, e)) = Append(Tail(q), e)
    BY <1>1
  <2>3. Waiting(s)' = Append(Waiting(s), e)
    BY <1>2, <2>1, <2>2 DEF Waiting
  <2> QED
    BY <1>3, <2>3 DEF e
<1> QED
  BY <1>4, <1>5

(* A write queues the buffer, which the call then gives up.                *)
LEMMA WritePlaces ==
  ASSUME BuffersType, OneEach, Singly, NEW a \in Actor, NEW s \in Session, Write(a, s)
  PROVE  OneEach'
<1>1. /\ call[a] \in Talk /\ call[a].buf # NoBuffer /\ s \in call[a].todo
      /\ writelist[s] \in Seq(Item)
  BY DEF Write, BuffersType, ActorsType, QueuesType
<1>2. PICK b \in Buffer : b = call[a].buf
  BY <1>1 DEF Talk
<1> DEFINE e == [buf |-> b, msg |-> call[a].msg]
<1>3. e \in Item /\ e.buf = b
  BY <1>1 DEF Item, Talk
<1>4. /\ UNCHANGED <<pool, shared, own, kept, readlist, jobs, hand>>
      /\ \A c \in Actor : call'[c] = IF c = a THEN AfterWrite(call[a], s) ELSE call[c]
  BY DEF Write, sessionVars, BuffersType, ActorsType
<1>5. AfterWrite(call[a], s).buf \in {b, NoBuffer} /\ (b \notin shared => AfterWrite(call[a], s).buf = NoBuffer)
  <2>1. Idle.buf = NoBuffer
    BY DEF Idle
  <2>2. [call[a] EXCEPT !.todo = @ \ {s},
             !.buf = IF call[a].kind = "broadcastbuffer" THEN call[a].buf ELSE NoBuffer].buf
          = IF call[a].kind = "broadcastbuffer" THEN call[a].buf ELSE NoBuffer
    BY <1>1 DEF Talk
  <2>3. b \notin shared /\ call[a].kind = "broadcastbuffer" => call[a].todo = {s}
    BY <1>1, <1>2 DEF Singly
  <2> QED
    BY <1>2, <2>1, <2>2, <2>3 DEF AfterWrite
<1>6. \A t \in Session : t # s => Waiting(t)' = Waiting(t)
  BY WriteWaits
<1>7. Waiting(s)' = Waiting(s) \/ Waiting(s)' = Append(Waiting(s), e)
  BY <1>2, WriteWaits
<1> HIDE DEF e
<1>8. /\ \A c : At(c, Waiting(s)') # {} => At(c, Waiting(s)) # {} \/ c = b
      /\ \A c : Once(At(c, Waiting(s))) /\ c # b => Once(At(c, Waiting(s)'))
      /\ At(b, Waiting(s)) = {} => Once(At(b, Waiting(s)'))
  <2>1. Waiting(s) \in Seq(Item)
    BY WaitingIsQueue
  <2>2. \A c : /\ At(c, Append(Waiting(s), e)) # {} => At(c, Waiting(s)) # {} \/ c = b
               /\ Once(At(c, Waiting(s))) /\ c # b => Once(At(c, Append(Waiting(s), e)))
               /\ At(c, Waiting(s)) = {} => Once(At(c, Append(Waiting(s), e)))
    BY <1>3, <2>1, AppendAt
  <2>3. Once({})
    BY DEF Once
  <2> QED
    BY <1>7, <2>2, <2>3
<1>9. Holds("call", a, b)
  BY <1>2 DEF Holds
<1>10. b \notin shared => ~Holds("call", a, b)'
  BY <1>4, <1>5, BuffersAssumption DEF Holds
<1>11. ASSUME NEW c \in Buffer, NEW l, NEW y, Holds(l, y, c)'
       PROVE  Holds(l, y, c) \/ (c = b /\ l = "write" /\ y = s)
  <2>1. \A d \in Actor : call'[d].buf = c => call[d].buf = c
    BY <1>2, <1>4, <1>5, BuffersAssumption
  <2> QED
    BY <1>4, <1>6, <1>8, <1>11, <2>1 DEF Holds
<1>12. ASSUME NEW c \in Buffer \ shared
       PROVE  /\ Once(At(c, jobs))'
              /\ \A t \in Session : Once(At(c, readlist[t]))' /\ Once(At(c, Waiting(t)))'
  <2>1. c = b => ~Holds("write", s, c)
    BY <1>9, OnlyThere DEF OneEach
  <2>2. c = b => At(c, Waiting(s)) = {}
    BY <2>1 DEF Holds
  <2> QED
    BY <1>4, <1>6, <1>8, <2>2 DEF OneEach, OnceEach
<1> QED
  BY <1>4, <1>9, <1>10, <1>11, <1>12, MovedOn

(* A write that failed is dropped in an open session, and left in front of *)
(* a closed one.                                                           *)
LEMMA WriteFailsPlaces ==
  ASSUME BuffersType, OneEach, NEW s \in Session, WriteFails(s)
  PROVE  OneEach'
<1>1. writelist[s] \in Seq(Item) /\ writelist[s] # <<>> /\ writing[s] = "busy"
  BY DEF WriteFails, BuffersType, QueuesType
<1>2. /\ UNCHANGED <<pool, shared, own, kept, readlist, jobs, hand, call>>
      /\ \A t \in Session : t # s => Waiting(t)' = Waiting(t)
  BY SameWaiting DEF WriteFails, PopFront, sessionVars, BuffersType, QueuesType
<1>3. Waiting(s)' = Waiting(s) \/ Waiting(s)' = Tail(Waiting(s))
  BY <1>1 DEF WriteFails, PopFront, Waiting, BuffersType, QueuesType
<1>4. Waiting(s) = writelist[s]
  BY <1>1 DEF Waiting
<1>5. /\ \A c : At(c, Waiting(s)') # {} => At(c, Waiting(s)) # {}
      /\ \A c : Once(At(c, Waiting(s))) => Once(At(c, Waiting(s)'))
  <2>1. /\ \A c : At(c, Tail(writelist[s])) # {} => At(c, writelist[s]) # {}
        /\ \A c : Once(At(c, writelist[s])) => Once(At(c, Tail(writelist[s])))
    BY <1>1, TailAt
  <2> QED
    BY <1>3, <1>4, <2>1
<1>6. \A c : Stays(c)
  BY <1>2, <1>5 DEF Stays, Holds
<1>7. \A c \in Buffer \ shared : OnceEach(c)'
  BY <1>2, <1>5 DEF OneEach, OnceEach
<1> QED
  BY <1>2, <1>6, <1>7, StillPlaced

(* What was written already does not wait when it is taken off the queue.  *)
LEMMA OutgoingPlaces ==
  ASSUME BuffersType, OneEach, NEW s \in Session, ProcessOutgoingData(s)
  PROVE  OneEach'
<1>1. /\ UNCHANGED <<pool, shared, own, kept, readlist, jobs, hand, call>>
      /\ \A t \in Session : t # s => Waiting(t)' = Waiting(t)
  BY SameWaiting DEF ProcessOutgoingData, PopFront, sessionVars, BuffersType, QueuesType
<1>2. Waiting(s)' = Waiting(s)
  BY DEF ProcessOutgoingData, PopFront, Waiting, BuffersType, QueuesType
<1> QED
  BY <1>1, <1>2, NothingMoved

(* Steps after which buffers are where they were, but for shared ones.     *)
LEMMA OtherPlaces ==
  ASSUME BuffersType, OneEach,
         \/ \E s \in Session : Open(s) \/ Close(s)
         \/ \E a \in Actor : \/ Answer(a) \/ BroadcastData(a) \/ BroadcastBuffer(a)
                             \/ Echo(a) \/ Keep(a)
         \/ UNCHANGED vars
  PROVE  OneEach'
<1>1. ASSUME UNCHANGED <<pool, jobs, own, readlist, writelist, writing, kept, hand, call, shared>>
      PROVE  OneEach'
  <2>1. \A t \in Session : Waiting(t)' = Waiting(t)
    BY <1>1, SameWaiting
  <2> QED
    BY <1>1, <2>1, NothingMoved
<1>2. ASSUME NEW a \in Actor, NEW c \in Talk, NEW f, call' = [call EXCEPT ![a] = c],
             f = hand \/ f = [hand EXCEPT ![a].fresh = FALSE], hand' = f,
             c.buf \in {call[a].buf, NoBuffer} \cup shared', shared \subseteq shared',
             UNCHANGED <<pool, jobs, own, readlist, writelist, writing, kept>>
      PROVE  OneEach'
  <2>1. \A t \in Session : Waiting(t)' = Waiting(t)
    BY <1>2, SameWaiting
  <2>2. \A d \in Actor : call'[d].buf \in {call[d].buf, NoBuffer} \cup shared'
    BY <1>2 DEF BuffersType, ActorsType
  <2>3. \A d \in Actor : hand'[d].buf = hand[d].buf
    <3>1. hand \in [Actor -> Job \cup {Empty}]
      BY DEF BuffersType, ActorsType
    <3>2. \A r \in Job \cup {Empty} : [r EXCEPT !.fresh = FALSE].buf = r.buf
      BY DEF Job, Empty
    <3>3. CASE f = hand
      BY <1>2, <3>3
    <3>4. CASE f = [hand EXCEPT ![a].fresh = FALSE]
      BY <1>2, <3>1, <3>2, <3>4
    <3> QED
      BY <1>2, <3>3, <3>4
  <2> QED
    BY <1>2, <2>1, <2>2, <2>3, NothingMoved
<1>3. ASSUME NEW s \in Session, Open(s) \/ Close(s) PROVE OneEach'
  BY <1>1, <1>3 DEF Open, Close, queueVars
<1>4. ASSUME NEW a \in Actor PROVE hand[a].fresh => hand[a] \in Job
  BY RecordsTyped
<1>5. ASSUME NEW a \in Actor, Answer(a) PROVE OneEach'
  <2> DEFINE c == [kind |-> "answer", todo |-> {hand[a].session}, buf |-> NoBuffer,
                   msg |-> 0 - hand[a].msg]
  <2>1. c \in Talk /\ c.buf = NoBuffer
    BY <1>4, <1>5 DEF Answer, MayCall, Talk, CallKind, Job
  <2>2. /\ call' = [call EXCEPT ![a] = c] /\ hand' = [hand EXCEPT ![a].fresh = FALSE]
        /\ UNCHANGED <<pool, jobs, own, readlist, writelist, writing, kept, shared>>
    BY <1>5 DEF Answer, Calling, sessionVars, queueVars
  <2> HIDE DEF c
  <2> QED
    BY <1>2, <2>1, <2>2
<1>6. ASSUME NEW a \in Actor, BroadcastData(a) PROVE OneEach'
  <2> DEFINE c == [kind |-> "broadcastdata", todo |-> Registered, buf |-> NoBuffer,
                   msg |-> 0 - hand[a].msg]
  <2>1. c \in Talk /\ c.buf = NoBuffer
    BY <1>4, <1>6 DEF BroadcastData, MayCall, Talk, CallKind, Job, Registered
  <2>2. /\ call' = [call EXCEPT ![a] = c] /\ hand' = [hand EXCEPT ![a].fresh = FALSE]
        /\ UNCHANGED <<pool, jobs, own, readlist, writelist, writing, kept, shared>>
    BY <1>6 DEF BroadcastData, Calling, sessionVars, queueVars
  <2> HIDE DEF c
  <2> QED
    BY <1>2, <2>1, <2>2
<1>7. ASSUME NEW a \in Actor, BroadcastBuffer(a) PROVE OneEach'
  <2>0. call[a] \in Talk
    BY DEF BuffersType, ActorsType
  <2> DEFINE c == IF Registered = {} THEN Idle
                  ELSE [call[a] EXCEPT !.kind = "broadcastbuffer", !.todo = Registered]
  <2>1. c \in Talk /\ c.buf \in {call[a].buf, NoBuffer}
    BY <2>0, RecordsTyped DEF Talk, CallKind, Registered, Idle
  <2>2. /\ call' = [call EXCEPT ![a] = c] /\ hand' = hand /\ shared \subseteq shared'
        /\ UNCHANGED <<pool, jobs, own, readlist, writelist, writing, kept>>
    BY <1>7 DEF BroadcastBuffer, Share, sessionVars, queueVars
  <2> HIDE DEF c
  <2> QED
    BY <1>2, <2>1, <2>2
<1>8. ASSUME NEW a \in Actor, Echo(a) PROVE OneEach'
  <2> DEFINE c == [kind |-> "echo", todo |-> {hand[a].session}, buf |-> hand[a].buf,
                   msg |-> hand[a].msg]
  <2>1. c \in Talk /\ c.buf = hand[a].buf
    BY <1>4, <1>8 DEF Echo, MayCall, Talk, CallKind, Job
  <2>2. /\ call' = [call EXCEPT ![a] = c] /\ hand' = [hand EXCEPT ![a].fresh = FALSE]
        /\ UNCHANGED <<pool, jobs, own, readlist, writelist, writing, kept>>
        /\ hand[a].buf \in shared' /\ shared \subseteq shared'
    BY <1>8 DEF Echo, Calling, Share, sessionVars, queueVars
  <2> HIDE DEF c
  <2> QED
    BY <1>2, <2>1, <2>2
<1>9. ASSUME NEW a \in Actor, Keep(a) PROVE OneEach'
  <2>1. /\ hand[a].buf \in shared' /\ shared \subseteq shared'
        /\ kept' = [kept EXCEPT ![hand[a].session] = @ \cup {hand[a].buf}]
        /\ hand' = [hand EXCEPT ![a].fresh = FALSE]
        /\ UNCHANGED <<pool, jobs, own, readlist, writelist, writing, call>>
    BY <1>9 DEF Keep, Share, queueVars
  <2>2. \A t \in Session : Waiting(t)' = Waiting(t)
    BY <2>1, SameWaiting
  <2>3. \A t \in Session : kept'[t] \subseteq kept[t] \cup shared'
    BY <2>1 DEF BuffersType, SessionsType
  <2>4. \A d \in Actor : hand'[d].buf = hand[d].buf
    BY <2>1 DEF BuffersType, ActorsType
  <2> QED
    BY <2>1, <2>2, <2>3, <2>4, NothingMoved
<1>10. ASSUME UNCHANGED vars PROVE OneEach'
  BY <1>1, <1>10 DEF vars, sessionVars, queueVars
<1> QED
  BY <1>3, <1>5, <1>6, <1>7, <1>8, <1>9, <1>10

(* Every step leaves each buffer that is not shared in one place.          *)
LEMMA PlacesNext == BuffersType /\ OneEach /\ Singly /\ [Next]_vars => OneEach'
<1> SUFFICES ASSUME BuffersType, OneEach, Singly, [Next]_vars PROVE OneEach'
  OBVIOUS
<1> QED
  BY OtherPlaces, ReleasePlaces, OnReadPlaces, AfterConnectPlaces, TakeMessagePlaces, OnWritePlaces,
     OutgoingPlaces, WriteFailsPlaces, RunTaskPlaces, HandledPlaces, PreparePlaces, WritePlaces
  DEF Next

(* A buffer that is broadcast to several sessions is shared.               *)
LEMMA SinglyNext == BuffersType /\ Singly /\ [Next]_vars => Singly'
<1> SUFFICES ASSUME BuffersType, Singly, [Next]_vars PROVE Singly'
  OBVIOUS
<1>1. IsFiniteSet(Registered)'
  <2>1. ASSUME NEW s \in Session, Open(s) PROVE Registered' \subseteq Registered \cup {s}
    BY <2>1 DEF Open, Registered, BuffersType, SessionsType
  <2>2. ASSUME NEW s \in Session, Close(s) \/ Release(s) PROVE Registered' \subseteq Registered
    BY <2>2 DEF Close, Release, Registered, BuffersType, SessionsType
  <2>3. UNCHANGED state => Registered' = Registered
    BY DEF Registered
  <2>4. \/ \E s \in Session : Open(s) \/ Close(s) \/ Release(s)
        \/ UNCHANGED state
    BY DEF Next, vars, OnRead, AfterConnect, TakeMessage, OnWrite, ProcessOutgoingData, WriteFails,
           RunTask, Handled, Answer, BroadcastData, BroadcastBuffer, Echo, Keep, PrepareBuffer,
           Encode, Write, sessionVars
  <2>5. \E s : Registered' \subseteq Registered \cup {s}
    BY <2>1, <2>2, <2>3, <2>4
  <2>6. \A s : IsFiniteSet(Registered \cup {s})
    BY FS_AddElement DEF Singly
  <2> QED
    BY <2>5, <2>6, FS_Subset
<1> DEFINE Fine(c) == c.kind = "broadcastbuffer" /\ c.buf \notin shared => \A s, t \in c.todo : s = t
<1>2. shared \subseteq shared'
  BY DEF Next, vars, Open, Close, Release, OnRead, AfterConnect, TakeMessage, OnWrite,
         ProcessOutgoingData, WriteFails, RunTask, Handled, Answer, BroadcastData, BroadcastBuffer,
         Echo, Keep, PrepareBuffer, Encode, Write, Share
<1>3. ASSUME UNCHANGED call PROVE \A a \in Actor : Fine(call[a])'
  BY <1>2, <1>3 DEF Singly
<1>4. ASSUME NEW a \in Actor, NEW c, call' = [call EXCEPT ![a] = c],
             c.kind = "broadcastbuffer" /\ c.buf \notin shared' => \A s, t \in c.todo : s = t
      PROVE  \A d \in Actor : Fine(call[d])'
  BY <1>2, <1>4 DEF Singly, BuffersType, ActorsType
<1>5. ASSUME NEW a \in Actor, NEW kind, NEW todo, NEW b, NEW m, Calling(a, kind, todo, b, m),
             kind # "broadcastbuffer"
      PROVE  \A d \in Actor : Fine(call[d])'
  BY <1>4, <1>5 DEF Calling
<1>6. ASSUME NEW a \in Actor, BroadcastBuffer(a) PROVE \A d \in Actor : Fine(call[d])'
  <2>0. call[a] \in Talk
    BY DEF BuffersType, ActorsType
  <2> DEFINE c == [call[a] EXCEPT !.kind = "broadcastbuffer", !.todo = Registered]
  <2>1. c.todo = Registered /\ c.buf = call[a].buf
    BY <2>0 DEF Talk
  <2>2. CASE Registered = {}
    <3>1. call' = [call EXCEPT ![a] = Idle] /\ Idle.kind # "broadcastbuffer"
      BY <1>6, <2>2 DEF BroadcastBuffer, Idle
    <3> QED
      BY <1>4, <3>1
  <2>3. CASE Registered # {}
    <3>1. call' = [call EXCEPT ![a] = c]
      BY <1>6, <2>3 DEF BroadcastBuffer
    <3>2. ASSUME c.buf \notin shared' PROVE \A s, t \in c.todo : s = t
      <4>1. ~(Cardinality(Registered) > 1)
        BY <1>6, <2>1, <3>2 DEF BroadcastBuffer, Share
      <4>2. ASSUME NEW s \in Registered, NEW t \in Registered, s # t PROVE FALSE
        <5>0. IsFiniteSet({s}) /\ Cardinality({s}) = 1 /\ t \notin {s}
          BY <4>2, FS_Singleton
        <5>1. Cardinality({s} \cup {t}) = 2 /\ {s} \cup {t} \subseteq Registered
          BY <5>0, FS_AddElement
        <5>2. /\ Cardinality({s} \cup {t}) <= Cardinality(Registered)
              /\ Cardinality(Registered) \in Nat
          BY <5>1, FS_Subset, FS_CardinalityType DEF Singly
        <5> QED
          BY <4>1, <5>1, <5>2
      <4> QED
        BY <2>1, <4>2
    <3> HIDE DEF c
    <3> QED
      BY <1>4, <3>1, <3>2
  <2> QED
    BY <2>2, <2>3
<1>7. ASSUME NEW a \in Actor, NEW b \in Buffer, Encode(a, b)
      PROVE  \A d \in Actor : Fine(call[d])'
  <2>1. [call[a] EXCEPT !.buf = b].kind # "broadcastbuffer"
    BY <1>7 DEF Encode, BuffersType, ActorsType, Talk
  <2> QED
    BY <1>4, <1>7, <2>1 DEF Encode
<1>8. ASSUME NEW a \in Actor, NEW s \in Session, Write(a, s)
      PROVE  \A d \in Actor : Fine(call[d])'
  <2>0. call[a] \in Talk
    BY DEF BuffersType, ActorsType
  <2> DEFINE r == [call[a] EXCEPT !.todo = @ \ {s},
                     !.buf = IF call[a].kind = "broadcastbuffer" THEN call[a].buf ELSE NoBuffer]
  <2>1. /\ r.kind = call[a].kind /\ r.todo \subseteq call[a].todo
        /\ r.kind = "broadcastbuffer" => r.buf = call[a].buf
    BY <2>0 DEF Talk
  <2>2. r.kind = "broadcastbuffer" /\ r.buf \notin shared' => \A u, t \in r.todo : u = t
    BY <1>2, <2>1 DEF Singly
  <2>3. Idle.kind # "broadcastbuffer"
    BY DEF Idle
  <2>4. /\ call' = [call EXCEPT ![a] = AfterWrite(call[a], s)]
        /\ AfterWrite(call[a], s) = Idle \/ AfterWrite(call[a], s) = r
    BY <1>8 DEF Write, AfterWrite
  <2> HIDE DEF r
  <2> QED
    BY <1>4, <2>2, <2>3, <2>4
<1>9. \A a \in Actor : Fine(call[a])'
  BY <1>3, <1>5, <1>6, <1>7, <1>8
  DEF Next, vars, Open, Close, Release, OnRead, AfterConnect, TakeMessage, OnWrite,
      ProcessOutgoingData, WriteFails, RunTask, Handled, Answer, BroadcastData, Echo, Keep,
      PrepareBuffer
<1> QED
  BY <1>1, <1>9 DEF Singly

(* At first each buffer of the pool is there once.                         *)
LEMMA PlacesInit == Init => OneEach /\ Singly
<1> SUFFICES ASSUME Init PROVE OneEach /\ Singly
  OBVIOUS
<1>1. Registered = {} /\ \A a \in Actor : call[a].kind # "broadcastbuffer"
  BY DEF Init, Registered, Idle
<1>2. Singly
  BY <1>1, FS_EmptySet DEF Singly
<1>3. \A c \in Buffer : c # NoBuffer
  BY BuffersAssumption
<1>4. ASSUME NEW b \in Buffer, NEW k, NEW x, Holds(k, x, b) PROVE k = "pool" /\ x = NoBuffer
  <2>1. \A s \in Session : Waiting(s) = <<>>
    BY DEF Init, Waiting
  <2>2. \A c : At(c, <<>>) = {}
    BY DEF At
  <2> QED
    BY <1>3, <1>4, <2>1, <2>2 DEF Init, Holds, Empty, Idle
<1>5. ASSUME NEW b \in Buffer PROVE OnceEach(b)
  <2>1. Once(Spots(pool, {b}))
    BY DEF Init, Spots, Once, IsInjective
  <2>2. \A s \in Session : Waiting(s) = <<>> /\ readlist[s] = <<>>
    BY DEF Init, Waiting
  <2>3. \A c : At(c, <<>>) = {}
    BY DEF At
  <2> QED
    BY <2>1, <2>2, <2>3 DEF OnceEach, Once, Init
<1> QED
  BY <1>2, <1>4, <1>5 DEF OneEach, InOnePlace

(* The invariant of the places, with what it rests on.                     *)
LEMMA PlacesInvariant == Spec => [](BuffersType /\ OneEach /\ Singly)
BY TypeInit, TypeNext, PlacesInit, PlacesNext, SinglyNext, PTL DEF Spec

(* The holder h of b, in the place of kind k that x keeps. *)
Spot(h, k, x, b) ==
  \/ k = "pool" /\ x = NoBuffer /\ \E i \in Spots(pool, {b}) : h = <<"pool", i>>
  \/ k = "job" /\ x = NoBuffer /\ \E i \in At(b, jobs) : h = <<"job", i>>
  \/ k = "hand" /\ x \in Actor /\ hand[x].buf = b /\ h = <<"hand", x>>
  \/ k = "call" /\ x \in Actor /\ call[x].buf = b /\ h = <<"call", x>>
  \/ k = "data" /\ x \in Session /\ b \in kept[x] /\ h = <<"data", x>>
  \/ k \in Own /\ x \in Session /\ own[x][k] = b /\ h = <<k, x>>
  \/ k = "read" /\ x \in Session /\ \E i \in At(b, readlist[x]) : h = <<"read", x, i>>
  \/ k = "write" /\ x \in Session /\ \E i \in At(b, Waiting(x)) : h = <<"write", x, i>>

(* Every holder is one of those.                                           *)
LEMMA HolderSpots ==
  ASSUME NEW b, NEW h \in Holders(b)
  PROVE  \E k, x : Spot(h, k, x, b)
<1>1. \/ h \in {<<"pool", i>> : i \in {j \in DOMAIN pool : pool[j] = b}}
      \/ h \in {<<"job", i>> : i \in At(b, jobs)}
      \/ h \in {<<"hand", a>> : a \in {c \in Actor : hand[c].buf = b}}
      \/ h \in {<<"call", a>> : a \in {c \in Actor : call[c].buf = b}}
      \/ h \in {<<"data", s>> : s \in {t \in Session : b \in kept[t]}}
      \/ \E s \in Session :
           \/ h \in {<<o, s>> : o \in {p \in Own : own[s][p] = b}}
           \/ h \in {<<"read", s, i>> : i \in At(b, readlist[s])}
           \/ h \in {<<"write", s, i>> : i \in At(b, Waiting(s))}
  BY DEF Holders
<1>2. CASE h \in {<<"pool", i>> : i \in {j \in DOMAIN pool : pool[j] = b}}
  <2>1. PICK i \in {j \in DOMAIN pool : pool[j] = b} : h = <<"pool", i>>
    BY <1>2
  <2>2. Spot(h, "pool", NoBuffer, b)
    BY <2>1 DEF Spot, Spots
  <2> QED
    BY <2>2
<1>3. CASE h \in {<<"job", i>> : i \in At(b, jobs)}
  <2>1. Spot(h, "job", NoBuffer, b)
    BY <1>3 DEF Spot
  <2> QED
    BY <2>1
<1>4. CASE h \in {<<"hand", a>> : a \in {c \in Actor : hand[c].buf = b}}
  <2>1. PICK a \in Actor : Spot(h, "hand", a, b)
    BY <1>4 DEF Spot
  <2> QED
    BY <2>1
<1>5. CASE h \in {<<"call", a>> : a \in {c \in Actor : call[c].buf = b}}
  <2>1. PICK a \in Actor : Spot(h, "call", a, b)
    BY <1>5 DEF Spot
  <2> QED
    BY <2>1
<1>6. CASE h \in {<<"data", s>> : s \in {t \in Session : b \in kept[t]}}
  <2>1. PICK s \in Session : Spot(h, "data", s, b)
    BY <1>6 DEF Spot
  <2> QED
    BY <2>1
<1>7. ASSUME NEW s \in Session, h \in {<<o, s>> : o \in {p \in Own : own[s][p] = b}}
      PROVE  \E k, x : Spot(h, k, x, b)
  <2>1. PICK o \in Own : Spot(h, o, s, b)
    BY <1>7 DEF Spot
  <2> QED
    BY <2>1
<1>8. ASSUME NEW s \in Session, h \in {<<"read", s, i>> : i \in At(b, readlist[s])}
      PROVE  \E k, x : Spot(h, k, x, b)
  <2>1. Spot(h, "read", s, b)
    BY <1>8 DEF Spot
  <2> QED
    BY <2>1
<1>9. ASSUME NEW s \in Session, h \in {<<"write", s, i>> : i \in At(b, Waiting(s))}
      PROVE  \E k, x : Spot(h, k, x, b)
  <2>1. Spot(h, "write", s, b)
    BY <1>9 DEF Spot
  <2> QED
    BY <2>1
<1> QED
  BY <1>1, <1>2, <1>3, <1>4, <1>5, <1>6, <1>7, <1>8, <1>9

(* However sessions, workers and broadcasts interleave, a buffer nobody    *)
(* shares has one holder at most.                                          *)
THEOREM BuffersOneHolder == Spec => []OneHolder
<1>1. BuffersType /\ OneEach /\ Singly => OneHolder
  <2> SUFFICES ASSUME OneEach, NEW b \in Buffer \ shared PROVE Cardinality(Holders(b)) <= 1
    BY DEF OneHolder
  <2>1. InOnePlace(b) /\ OnceEach(b)
    BY DEF OneEach
  <2>2. ASSUME NEW h, NEW k, NEW x, Spot(h, k, x, b) PROVE Holds(k, x, b)
    BY <2>2 DEF Spot, Holds
  <2>3. ASSUME NEW h, NEW g, NEW k, NEW x, Spot(h, k, x, b), Spot(g, k, x, b) PROVE h = g
    <3>0. Own \subseteq {"readbuffer", "readcache", "roundcache"}
      BY BuffersAssumption
    <3>1. CASE k = "pool"
      BY <2>1, <2>3, <3>0, <3>1 DEF Spot, OnceEach, Once
    <3>2. CASE k = "job"
      BY <2>1, <2>3, <3>0, <3>2 DEF Spot, OnceEach, Once
    <3>3. CASE k \in {"hand", "call", "data"} \cup Own
      BY <2>3, <3>0, <3>3 DEF Spot
    <3>4. CASE k = "read"
      BY <2>1, <2>3, <3>0, <3>4 DEF Spot, OnceEach, Once
    <3>5. CASE k = "write"
      BY <2>1, <2>3, <3>0, <3>5 DEF Spot, OnceEach, Once
    <3> QED
      BY <2>3, <3>1, <3>2, <3>3, <3>4, <3>5 DEF Spot
  <2>4. \A h, g \in Holders(b) : h = g
    <3>1. ASSUME NEW h \in Holders(b), NEW g \in Holders(b) PROVE h = g
      <4>1. PICK k, x : Spot(h, k, x, b)
        BY HolderSpots
      <4>2. PICK l, y : Spot(g, l, y, b)
        BY HolderSpots
      <4>3. l = k /\ y = x
        BY <2>1, <2>2, <4>1, <4>2, OnlyThere
      <4> QED
        BY <2>3, <4>1, <4>2, <4>3
    <3> QED
      BY <3>1
  <2>5. Holders(b) = {} \/ \E h : Holders(b) = {h}
    BY <2>4
  <2>6. Cardinality({}) = 0 /\ \A h : Cardinality({h}) = 1
    BY FS_EmptySet, FS_Singleton
  <2> QED
    BY <2>5, <2>6
<1> QED
  BY <1>1, PlacesInvariant, PTL

-----------------------------------------------------------------------------
(* What the holders find in their buffers.                                 *)

(* The buffer of e holds e's message, if the contents are f and the        *)
(* buffers in S are shared.                                                *)
Right(e, f, S) == e.buf \notin S => f[e.buf] = e.msg
AllRight(q, f, S) == \A i \in DOMAIN q : Right(q[i], f, S)
HeldRight(f, S) ==
  /\ \A s \in Session : AllRight(readlist[s], f, S) /\ AllRight(Waiting(s), f, S)
  /\ AllRight(jobs, f, S)
  /\ \A a \in Actor : /\ hand[a] # Empty => Right(hand[a], f, S)
                      /\ call[a].buf # NoBuffer => Right(call[a], f, S)

(* A queue is right when a record is taken from it, or added.              *)
LEMMA RightQueues ==
  ASSUME NEW T, NEW q \in Seq(T), NEW f, NEW S
  PROVE  /\ q # <<>> /\ AllRight(q, f, S) => Right(Head(q), f, S) /\ AllRight(Tail(q), f, S)
         /\ \A e \in T : AllRight(q, f, S) /\ Right(e, f, S) => AllRight(Append(q, e), f, S)
         /\ AllRight(<<>>, f, S)
<1>1. ASSUME q # <<>>, AllRight(q, f, S) PROVE Right(Head(q), f, S) /\ AllRight(Tail(q), f, S)
  <2>1. /\ Head(q) = q[1] /\ 1 \in DOMAIN q
        /\ \A i \in DOMAIN Tail(q) : Tail(q)[i] = q[i + 1] /\ i + 1 \in DOMAIN q
    BY <1>1
  <2> QED
    BY <1>1, <2>1 DEF AllRight
<1>2. ASSUME NEW e \in T, AllRight(q, f, S), Right(e, f, S) PROVE AllRight(Append(q, e), f, S)
  <2>1. \A i \in DOMAIN Append(q, e) :
          Append(q, e)[i] = e \/ (i \in DOMAIN q /\ Append(q, e)[i] = q[i])
    OBVIOUS
  <2> QED
    BY <1>2, <2>1 DEF AllRight
<1>3. AllRight(<<>>, f, S)
  BY DEF AllRight
<1> QED
  BY <1>1, <1>2, <1>3

(* What is put into a buffer of the pool, or a shared one, changes nothing *)
(* for those that hold others.                                             *)
LEMMA OthersStayRight ==
  ASSUME BuffersType, OneEach, HeldRight(content, shared), shared \subseteq shared',
         NEW b \in Buffer, GetFreeBuffer(b) \/ b \in shared',
         \A c \in Buffer : c # b => content'[c] = content[c]
  PROVE  HeldRight(content', shared')
<1>1. b \in shared' \/ (b \notin shared /\ \A k, x : Holds(k, x, b) => k = "pool")
  BY TakenFromPool
<1>2. ASSUME NEW e, e.buf \in Buffer, Right(e, content, shared),
             e.buf = b => \E k, x : k # "pool" /\ Holds(k, x, b)
      PROVE  Right(e, content', shared')
  BY <1>1, <1>2 DEF Right
<1>3. ASSUME NEW T, NEW q \in Seq(T), \A e \in T : e.buf \in Buffer,
             AllRight(q, content, shared),
             At(b, q) # {} => \E k, x : k # "pool" /\ Holds(k, x, b)
      PROVE  AllRight(q, content', shared')
  <2>1. ASSUME NEW i \in DOMAIN q PROVE Right(q[i], content', shared')
    <3>1. q[i].buf \in Buffer /\ Right(q[i], content, shared)
      BY <1>3 DEF AllRight
    <3>2. q[i].buf = b => At(b, q) # {}
      BY DEF At
    <3> QED
      BY <1>2, <1>3, <3>1, <3>2
  <2> QED
    BY <2>1 DEF AllRight
<1>4. (\A e \in Item : e.buf \in Buffer) /\ (\A e \in Job : e.buf \in Buffer)
  BY DEF Item, Job
<1>5. ASSUME NEW s \in Session
      PROVE  AllRight(readlist[s], content', shared') /\ AllRight(Waiting(s), content', shared')
  <2>1. At(b, readlist[s]) # {} => Holds("read", s, b)
    BY DEF Holds
  <2>2. At(b, Waiting(s)) # {} => Holds("write", s, b)
    BY DEF Holds
  <2>3. readlist[s] \in Seq(Item) /\ Waiting(s) \in Seq(Item)
    BY WaitingIsQueue DEF BuffersType, QueuesType
  <2>4. AllRight(readlist[s], content, shared) /\ AllRight(Waiting(s), content, shared)
    BY DEF HeldRight
  <2>5. AllRight(readlist[s], content', shared')
    BY <1>3, <1>4, <2>1, <2>3, <2>4
  <2>6. AllRight(Waiting(s), content', shared')
    BY <1>3, <1>4, <2>2, <2>3, <2>4
  <2> QED
    BY <2>5, <2>6
<1>6. AllRight(jobs, content', shared')
  <2>1. At(b, jobs) # {} => Holds("job", NoBuffer, b)
    BY DEF Holds
  <2>2. jobs \in Seq(Job) /\ AllRight(jobs, content, shared)
    BY DEF HeldRight, BuffersType, ActorsType
  <2> QED
    BY <1>3, <1>4, <2>1, <2>2
<1>7. ASSUME NEW a \in Actor, hand[a] # Empty PROVE Right(hand[a], content', shared')
  <2>1. hand[a].buf \in Buffer
    BY <1>4, <1>7, RecordsTyped
  <2>2. hand[a].buf = b => Holds("hand", a, b)
    BY DEF Holds
  <2> QED
    BY <1>2, <1>7, <2>1, <2>2 DEF HeldRight
<1>8. ASSUME NEW a \in Actor, call[a].buf # NoBuffer PROVE Right(call[a], content', shared')
  <2>1. call[a].buf \in Buffer
    BY <1>8 DEF BuffersType, ActorsType, Talk
  <2>2. call[a].buf = b => Holds("call", a, b)
    BY DEF Holds
  <2> QED
    BY <1>2, <1>8, <2>1, <2>2 DEF HeldRight
<1> QED
  BY <1>5, <1>6, <1>7, <1>8 DEF HeldRight

(* A step that puts nothing into a buffer leaves them right, too.          *)
LEMMA AllStayRight ==
  ASSUME HeldRight(content, shared), UNCHANGED content, shared \subseteq shared'
  PROVE  HeldRight(content', shared')
BY DEF HeldRight, AllRight, Right

(* The steps that put something into a buffer, and those that do not.      *)
LEMMA HeldStaysRight ==
  ASSUME BuffersType, OneEach, HeldRight(content, shared), [Next]_vars
  PROVE  HeldRight(content', shared')
<1>1. ASSUME NEW s \in Session, NEW b \in Buffer, OnRead(s, b)
      PROVE  HeldRight(content', shared')
  <2>1. /\ GetFreeBuffer(b) \/ b \in shared'
        /\ shared \subseteq shared'
        /\ \A c \in Buffer : c # b => content'[c] = content[c]
    BY <1>1 DEF OnRead, Share, BuffersType, PoolType
  <2> QED
    BY <2>1, OthersStayRight
<1>2. ASSUME NEW a \in Actor, NEW b \in Buffer, PrepareBuffer(a, b) \/ Encode(a, b)
      PROVE  HeldRight(content', shared')
  <2>1. /\ GetFreeBuffer(b) /\ shared \subseteq shared'
        /\ \A c \in Buffer : c # b => content'[c] = content[c]
    BY <1>2 DEF PrepareBuffer, Encode, BuffersType, PoolType
  <2> QED
    BY <2>1, OthersStayRight
<1>3. \/ UNCHANGED content /\ shared \subseteq shared'
      \/ \E s \in Session, b \in Buffer : OnRead(s, b)
      \/ \E a \in Actor, b \in Buffer : PrepareBuffer(a, b) \/ Encode(a, b)
  BY DEF Next, vars, Open, Close, Release, AfterConnect, TakeMessage, OnWrite,
         ProcessOutgoingData, WriteFails, RunTask, Handled, Answer, BroadcastData, BroadcastBuffer,
         Echo, Keep, Write, Share
<1> QED
  BY <1>1, <1>2, <1>3, AllStayRight

(* What a step changes must be right afterwards; the rest is.              *)
LEMMA RightAfter ==
  ASSUME HeldRight(content', shared'),
         \A s \in Session : /\ \/ readlist'[s] = readlist[s]
                               \/ AllRight(readlist'[s], content', shared')
                            /\ \/ Waiting(s)' = Waiting(s)
                               \/ AllRight(Waiting(s)', content', shared'),
         jobs' = jobs \/ AllRight(jobs', content', shared'),
         \A a \in Actor : /\ hand'[a] = hand[a] \/ hand'[a] = Empty \/ Right(hand'[a], content', shared')
                          /\ \/ call'[a] = call[a] \/ call'[a].buf = NoBuffer
                             \/ Right(call'[a], content', shared')
  PROVE  HeldRight(content, shared)'
BY DEF HeldRight

(* Only the buffer and the message matter.                                 *)
LEMMA RightCopy ==
  ASSUME NEW e, NEW d, e.buf = d.buf, e.msg = d.msg, NEW f, NEW S, Right(d, f, S)
  PROVE  Right(e, f, S)
BY DEF Right

(* The steps of sessions.                                                  *)
LEMMA SessionsRight ==
  ASSUME BuffersType, HeldRight(content', shared'), NEW s \in Session,
         \/ Open(s) \/ Close(s) \/ Release(s) \/ TakeMessage(s)
         \/ OnWrite(s) \/ ProcessOutgoingData(s) \/ WriteFails(s)
         \/ \E b \in Buffer : OnRead(s, b) \/ \E o \in Own : AfterConnect(s, o, b)
  PROVE  HeldRight(content, shared)'
<1>1. CASE Open(s) \/ Close(s) \/ \E b \in Buffer, o \in Own : AfterConnect(s, o, b)
  <2>1. UNCHANGED <<readlist, writelist, writing, jobs, hand, call>>
    BY <1>1 DEF Open, Close, AfterConnect, queueVars
  <2> QED
    BY <2>1, SameWaiting, RightAfter
<1>2. CASE Release(s)
  <2>1. /\ UNCHANGED <<jobs, hand, call>>
        /\ \A t \in Session : t # s => readlist'[t] = readlist[t] /\ Waiting(t)' = Waiting(t)
        /\ readlist'[s] = <<>> /\ Waiting(s)' = <<>>
    BY <1>2 DEF Release, Waiting, BuffersType, QueuesType
  <2>2. AllRight(<<>>, content', shared')
    BY DEF AllRight
  <2> QED
    BY <2>1, <2>2, RightAfter
<1>3. CASE TakeMessage(s)
  <2>1. readlist[s] \in Seq(Item) /\ readlist[s] # <<>> /\ jobs \in Seq(Job)
    BY <1>3 DEF TakeMessage, BuffersType, QueuesType, ActorsType
  <2>2. /\ Right(Head(readlist[s]), content', shared')
        /\ AllRight(Tail(readlist[s]), content', shared')
    BY <2>1, RightQueues DEF HeldRight
  <2>3. Right(Task(s), content', shared')
    BY <2>2, RightCopy DEF Task
  <2>4. Task(s) \in Job
    <3>1. Head(readlist[s]) \in Item
      BY <2>1
    <3> QED
      BY <3>1 DEF Task, Item, Job
  <2>5. AllRight(Append(jobs, Task(s)), content', shared')
    BY <2>1, <2>3, <2>4, RightQueues DEF HeldRight
  <2>6. /\ UNCHANGED <<writelist, writing, call>>
        /\ \A t \in Session : readlist'[t] = IF t = s THEN Tail(readlist[s]) ELSE readlist[t]
        /\ jobs' = jobs \/ jobs' = Append(jobs, Task(s))
        /\ \A a \in Actor : hand'[a] = hand[a] \/ hand'[a] = Task(s)
    BY <1>3 DEF TakeMessage, BuffersType, QueuesType, ActorsType
  <2> QED
    BY <2>2, <2>3, <2>5, <2>6, SameWaiting, RightAfter
<1>4. CASE OnWrite(s) \/ ProcessOutgoingData(s) \/ WriteFails(s)
  <2>1. /\ UNCHANGED <<readlist, jobs, hand, call>>
        /\ \A t \in Session : t # s => Waiting(t)' = Waiting(t)
    BY <1>4, SameWaiting
    DEF OnWrite, ProcessOutgoingData, WriteFails, PopFront, BuffersType, QueuesType
  <2>2. Waiting(s)' = Waiting(s) \/ (Waiting(s)' = Tail(Waiting(s)) /\ Waiting(s) # <<>>)
    BY <1>4
    DEF OnWrite, ProcessOutgoingData, WriteFails, PopFront, Waiting, BuffersType, QueuesType
  <2>3. Waiting(s) # <<>> => AllRight(Tail(Waiting(s)), content', shared')
    BY WaitingIsQueue, RightQueues DEF HeldRight
  <2> QED
    BY <2>1, <2>2, <2>3, RightAfter
<1>5. ASSUME NEW b \in Buffer, OnRead(s, b) PROVE HeldRight(content, shared)'
  <2> DEFINE e == [buf |-> b, msg |-> arrived']
  <2>1. readlist[s] \in Seq(Item) /\ e \in Item
    <3>1. arrived' \in Int
      BY <1>5, BuffersAssumption DEF OnRead, BuffersType, PoolType
    <3> QED
      BY <3>1 DEF BuffersType, QueuesType, Item
  <2>2. Right(e, content', shared')
    BY <1>5 DEF OnRead, Right, BuffersType, PoolType
  <2>3. /\ UNCHANGED <<writelist, writing, jobs, hand, call>>
        /\ \A t \in Session : \/ readlist'[t] = readlist[t]
                              \/ t = s /\ readlist'[t] = Append(readlist[s], e)
    BY <1>5 DEF OnRead, BuffersType, QueuesType
  <2> HIDE DEF e
  <2>4. AllRight(Append(readlist[s], e), content', shared')
    BY <2>1, <2>2, RightQueues DEF HeldRight
  <2> QED
    BY <2>3, <2>4, SameWaiting, RightAfter
<1> QED
  BY <1>1, <1>2, <1>3, <1>4, <1>5

(* The steps of handlers and workers.                                      *)
LEMMA ActorsRight ==
  ASSUME BuffersType, HeldRight(content', shared'), NEW a \in Actor,
         \/ a \in Worker /\ RunTask(a)
         \/ Handled(a) \/ Answer(a) \/ BroadcastData(a) \/ BroadcastBuffer(a) \/ Echo(a) \/ Keep(a)
         \/ \E b \in Buffer : PrepareBuffer(a, b) \/ Encode(a, b)
         \/ \E s \in Session : Write(a, s)
  PROVE  HeldRight(content, shared)'
<1>0. /\ hand \in [Actor -> Job \cup {Empty}] /\ call \in [Actor -> Talk]
      /\ call[a] \in Talk /\ hand[a] \in Job \cup {Empty}
  BY DEF BuffersType, ActorsType
<1>1. ASSUME NEW h \in Job \cup {Empty}, NEW c \in Talk,
             hand' = hand \/ hand' = [hand EXCEPT ![a] = h],
             h = Empty \/ Right(h, content', shared'),
             call' = call \/ call' = [call EXCEPT ![a] = c],
             c.buf = NoBuffer \/ Right(c, content', shared'),
             jobs' = jobs \/ AllRight(jobs', content', shared'),
             UNCHANGED <<readlist, writelist, writing>>
      PROVE  HeldRight(content, shared)'
  <2>1. \A d \in Actor : (hand'[d] = hand[d] \/ hand'[d] = h) /\ (call'[d] = call[d] \/ call'[d] = c)
    BY <1>0, <1>1
  <2>2. \A t \in Session : Waiting(t)' = Waiting(t)
    BY <1>1, SameWaiting
  <2> QED
    BY <1>1, <2>1, <2>2, RightAfter
<1>2. /\ Idle \in Talk /\ Idle.buf = NoBuffer
      /\ hand[a].fresh => hand[a] \in Job /\ Right(hand[a], content', shared')
  <2>1. hand[a] # Empty => Right(hand[a], content', shared')
    BY DEF HeldRight
  <2> QED
    BY <2>1, RecordsTyped DEF Idle, Empty
<1> DEFINE g == [hand[a] EXCEPT !.fresh = FALSE]
<1>3. hand[a].fresh => g \in Job /\ Right(g, content', shared')
  <2>1. ASSUME hand[a].fresh PROVE g \in Job /\ g.buf = hand[a].buf /\ g.msg = hand[a].msg
    BY <1>2, <2>1 DEF Job
  <2> HIDE DEF g
  <2> QED
    BY <1>2, <2>1, RightCopy
<1>4. CASE a \in Worker /\ RunTask(a)
  <2> DEFINE h == [Head(jobs) EXCEPT !.fresh = state[Head(jobs).session] # "released"]
  <2>1. jobs \in Seq(Job) /\ jobs # <<>>
    BY <1>4 DEF RunTask, BuffersType, ActorsType
  <2>2. /\ Right(Head(jobs), content', shared') /\ AllRight(Tail(jobs), content', shared')
        /\ Head(jobs) \in Job
    BY <2>1, RightQueues DEF HeldRight
  <2>3. h \in Job /\ h.buf = Head(jobs).buf /\ h.msg = Head(jobs).msg
    BY <2>2 DEF Job
  <2>4. /\ hand' = [hand EXCEPT ![a] = h] /\ jobs' = Tail(jobs) /\ call' = call
        /\ UNCHANGED <<readlist, writelist, writing>>
    BY <1>4 DEF RunTask, queueVars
  <2> HIDE DEF h
  <2>5. Right(h, content', shared')
    BY <2>2, <2>3, RightCopy
  <2> QED
    BY <1>1, <1>2, <2>2, <2>3, <2>4, <2>5
<1>5. CASE Handled(a)
  <2>1. /\ hand' = [hand EXCEPT ![a] = Empty]
        /\ UNCHANGED <<readlist, writelist, writing, jobs, call>>
    BY <1>5 DEF Handled, queueVars
  <2> QED
    BY <1>1, <1>2, <2>1
<1>6. ASSUME NEW kind \in CallKind, NEW todo \in SUBSET Session, NEW b \in Buffer \cup {NoBuffer},
             NEW m \in Int, hand[a].fresh, Calling(a, kind, todo, b, m),
             b = NoBuffer \/ b \in shared' \/ content'[b] = m,
             UNCHANGED <<readlist, writelist, writing, jobs>>
      PROVE  HeldRight(content, shared)'
  <2> DEFINE c == [kind |-> kind, todo |-> todo, buf |-> b, msg |-> m]
  <2>1. c \in Talk /\ (c.buf = NoBuffer \/ Right(c, content', shared'))
    BY <1>6 DEF Talk, Right
  <2>2. call' = [call EXCEPT ![a] = c] /\ hand' = [hand EXCEPT ![a] = g]
    BY <1>6 DEF Calling
  <2> HIDE DEF c, g
  <2> QED
    BY <1>1, <1>3, <1>6, <2>1, <2>2
<1>7. hand[a].fresh => /\ hand[a].buf \in Buffer /\ hand[a].session \in Session
                       /\ hand[a].msg \in Int /\ 0 - hand[a].msg \in Int
  BY <1>2 DEF Job
<1> HIDE DEF g
<1>8. CASE Answer(a)
  BY <1>6, <1>7, <1>8 DEF Answer, MayCall, CallKind, queueVars
<1>9. CASE BroadcastData(a)
  BY <1>6, <1>7, <1>9 DEF BroadcastData, MayCall, CallKind, Registered, queueVars
<1>10. CASE BroadcastBuffer(a)
  <2> DEFINE r == [call[a] EXCEPT !.kind = "broadcastbuffer", !.todo = Registered]
  <2>1. r \in Talk /\ r.buf = call[a].buf /\ r.msg = call[a].msg
    BY <1>0 DEF Talk, CallKind, Registered
  <2>2. /\ call' = [call EXCEPT ![a] = IF Registered = {} THEN Idle ELSE r]
        /\ UNCHANGED <<readlist, writelist, writing, jobs, hand>>
    BY <1>10 DEF BroadcastBuffer, queueVars
  <2> HIDE DEF r
  <2>3. r.buf = NoBuffer \/ Right(r, content', shared')
    BY <2>1, RightCopy DEF HeldRight
  <2> QED
    BY <1>1, <1>2, <2>1, <2>2, <2>3
<1>11. CASE Echo(a)
  BY <1>6, <1>7, <1>11 DEF Echo, MayCall, CallKind, Share, queueVars
<1>12. CASE Keep(a)
  <2>1. /\ hand[a].fresh /\ hand' = [hand EXCEPT ![a] = g]
        /\ UNCHANGED <<readlist, writelist, writing, jobs, call>>
    BY <1>12 DEF Keep, MayCall, queueVars, g
  <2> QED
    BY <1>1, <1>2, <1>3, <2>1
<1>13. ASSUME NEW b \in Buffer, PrepareBuffer(a, b) PROVE HeldRight(content, shared)'
  <2>1. /\ hand[a].fresh /\ content'[b] = 0 - hand[a].msg
        /\ Calling(a, "prepared", {hand[a].session}, b, 0 - hand[a].msg)
        /\ UNCHANGED <<readlist, writelist, writing, jobs>>
    BY <1>13 DEF PrepareBuffer, MayCall, queueVars, BuffersType, PoolType
  <2>2. "prepared" \in CallKind /\ {hand[a].session} \in SUBSET Session
        /\ b \in Buffer \cup {NoBuffer} /\ 0 - hand[a].msg \in Int
    BY <1>7, <2>1 DEF CallKind
  <2> QED
    BY <1>6, <2>1, <2>2
<1>14. ASSUME NEW b \in Buffer, Encode(a, b) PROVE HeldRight(content, shared)'
  <2> DEFINE r == [call[a] EXCEPT !.buf = b]
  <2>1. r \in Talk /\ r.buf = b /\ r.msg = call[a].msg
    BY <1>0 DEF Talk
  <2>2. /\ call' = [call EXCEPT ![a] = r] /\ content'[b] = call[a].msg
        /\ UNCHANGED <<readlist, writelist, writing, jobs, hand>>
    BY <1>14 DEF Encode, queueVars, BuffersType, PoolType
  <2> HIDE DEF r
  <2>3. Right(r, content', shared')
    BY <2>1, <2>2 DEF Right
  <2> QED
    BY <1>1, <1>2, <2>1, <2>2, <2>3
<1>15. ASSUME NEW s \in Session, Write(a, s) PROVE HeldRight(content, shared)'
  <2> DEFINE e == [buf |-> call[a].buf, msg |-> call[a].msg]
  <2>1. e \in Item /\ Right(e, content', shared')
    <3>1. call[a].buf # NoBuffer
      BY <1>15 DEF Write
    <3>2. e \in Item
      BY <1>0, <3>1 DEF Item, Talk
    <3>3. Right(call[a], content', shared')
      BY <3>1 DEF HeldRight
    <3> QED
      BY <3>2, <3>3, RightCopy
  <2> HIDE DEF e
  <2>2. AllRight(Append(Waiting(s), e), content', shared')
    BY <2>1, WaitingIsQueue, RightQueues DEF HeldRight
  <2>3. \A t \in Session : Waiting(t)' = Waiting(t) \/ (t = s /\ Waiting(t)' = Append(Waiting(s), e))
    BY <1>15, WriteWaits DEF e
  <2>4. AfterWrite(call[a], s).buf = NoBuffer \/ Right(AfterWrite(call[a], s), content', shared')
    <3> DEFINE r == [call[a] EXCEPT !.todo = @ \ {s},
                       !.buf = IF call[a].kind = "broadcastbuffer" THEN call[a].buf ELSE NoBuffer]
    <3>1. (r.buf = call[a].buf \/ r.buf = NoBuffer) /\ r.msg = call[a].msg
      BY <1>0 DEF Talk
    <3>2. AfterWrite(call[a], s) = Idle \/ AfterWrite(call[a], s) = r
      BY DEF AfterWrite
    <3> HIDE DEF r
    <3>3. r.buf = NoBuffer \/ Right(r, content', shared')
      BY <3>1, RightCopy DEF HeldRight
    <3> QED
      BY <1>2, <3>2, <3>3
  <2>5. /\ UNCHANGED <<readlist, jobs, hand>>
        /\ \A d \in Actor : call'[d] = call[d] \/ call'[d] = AfterWrite(call[a], s)
    BY <1>0, <1>15 DEF Write
  <2> QED
    BY <2>2, <2>3, <2>4, <2>5, RightAfter
<1> QED
  BY <1>4, <1>5, <1>8, <1>9, <1>10, <1>11, <1>12, <1>13, <1>14, <1>15

(* A step that changes nothing.                                            *)
LEMMA NothingRight ==
  ASSUME HeldRight(content', shared'), UNCHANGED vars
  PROVE  HeldRight(content, shared)'
BY SameWaiting, RightAfter DEF vars, queueVars

(* A handler reads the message that arrived, and the peer is sent the one  *)
(* that was written.                                                       *)
THEOREM BuffersContentIntact == Spec => []ContentIntact
<1>1. Init => HeldRight(content, shared)
  <2> SUFFICES ASSUME Init PROVE HeldRight(content, shared)
    OBVIOUS
  <2>1. \A s \in Session : readlist[s] = <<>> /\ Waiting(s) = <<>>
    BY DEF Init, Waiting
  <2> QED
    BY <2>1 DEF Init, HeldRight, AllRight, Idle
<1>2. BuffersType /\ OneEach /\ HeldRight(content, shared) /\ [Next]_vars
        => HeldRight(content, shared)'
  <2> SUFFICES ASSUME BuffersType, OneEach, HeldRight(content, shared), [Next]_vars
               PROVE  HeldRight(content, shared)'
    OBVIOUS
  <2>1. HeldRight(content', shared')
    BY HeldStaysRight
  <2> QED
    BY <2>1, SessionsRight, ActorsRight, NothingRight DEF Next, Actor
<1>3. HeldRight(content, shared) => ContentIntact
  BY DEF HeldRight, AllRight, Right, ContentIntact
<1> QED
  BY <1>1, <1>2, <1>3, PlacesInvariant, PTL DEF Spec

-----------------------------------------------------------------------------
(* Where the buffers go.                                                   *)

Somewhere(b) == \E k, x : Holds(k, x, b)

(* What is not in front is left in the tail, and what is added is there.   *)
LEMMA SpotsKept ==
  ASSUME NEW S, NEW q \in Seq(S), NEW T
  PROVE  /\ q # <<>> /\ Spots(q, T) # {} => Head(q) \in T \/ Spots(Tail(q), T) # {}
         /\ \A e \in S : Spots(q, T) # {} \/ e \in T => Spots(Append(q, e), T) # {}
<1>1. ASSUME q # <<>>, NEW i \in Spots(q, T) PROVE Head(q) \in T \/ Spots(Tail(q), T) # {}
  <2>1. i \in 1 .. Len(q) /\ q[i] \in T
    BY DEF Spots
  <2>2. CASE i = 1
    BY <1>1, <2>1, <2>2
  <2>3. CASE i # 1
    <3>1. i - 1 \in DOMAIN Tail(q) /\ Tail(q)[i - 1] = q[i]
      BY <1>1, <2>1, <2>3
    <3> QED
      BY <2>1, <3>1 DEF Spots
  <2> QED
    BY <2>2, <2>3
<1>2. ASSUME NEW e \in S PROVE Spots(q, T) # {} \/ e \in T => Spots(Append(q, e), T) # {}
  <2>1. /\ \A i \in DOMAIN q : i \in DOMAIN Append(q, e) /\ Append(q, e)[i] = q[i]
        /\ Len(q) + 1 \in DOMAIN Append(q, e) /\ Append(q, e)[Len(q) + 1] = e
    OBVIOUS
  <2> QED
    BY <2>1 DEF Spots
<1> QED
  BY <1>1, <1>2

(* The same of a queue of records.                                         *)
LEMMA AtKept ==
  ASSUME NEW S, NEW q \in Seq(S), NEW b
  PROVE  /\ q # <<>> /\ At(b, q) # {} => Head(q).buf = b \/ At(b, Tail(q)) # {}
         /\ \A e \in S : At(b, q) # {} \/ e.buf = b => At(b, Append(q, e)) # {}
<1>1. At(b, q) = Spots(q, With(S, b))
  BY AtSpots
<1>2. ASSUME q # <<>> PROVE At(b, Tail(q)) = Spots(Tail(q), With(S, b))
  <2>1. Tail(q) \in Seq(S)
    BY <1>2
  <2> QED
    BY <2>1, AtSpots
<1>3. ASSUME NEW e \in S PROVE At(b, Append(q, e)) = Spots(Append(q, e), With(S, b))
  <2>1. Append(q, e) \in Seq(S)
    OBVIOUS
  <2> QED
    BY <2>1, AtSpots
<1>4. \A e \in S : e \in With(S, b) <=> e.buf = b
  BY DEF With
<1>5. q # <<>> /\ At(b, q) # {} => Head(q).buf = b \/ At(b, Tail(q)) # {}
  <2>1. Head(q) \in With(S, b) => Head(q).buf = b
    BY DEF With
  <2> QED
    BY <1>1, <1>2, <2>1, SpotsKept
<1>6. ASSUME NEW e \in S, At(b, q) # {} \/ e.buf = b PROVE At(b, Append(q, e)) # {}
  BY <1>1, <1>3, <1>4, <1>6, SpotsKept
<1> QED
  BY <1>5, <1>6

(* The pool keeps all but the buffer it gives, and has what it is given.   *)
LEMMA PoolKept ==
  ASSUME BuffersType, NEW b \in Buffer
  PROVE  /\ GetFreeBuffer(b) => \A c : Spots(pool, {c}) # {} => Spots(pool', {c}) # {} \/ c = b
         /\ TakeBack(b) => \A c : Spots(pool, {c}) # {} \/ c = b => Spots(pool', {c}) # {}
<1>1. pool \in Seq(Buffer)
  BY DEF BuffersType, PoolType
<1>2. ASSUME GetFreeBuffer(b), NEW c, Spots(pool, {c}) # {} PROVE Spots(pool', {c}) # {} \/ c = b
  <2>1. CASE pool = <<>>
    BY <1>2, <2>1 DEF GetFreeBuffer
  <2>2. CASE pool # <<>>
    <3>1. Head(pool) \in {c} \/ Spots(Tail(pool), {c}) # {}
      BY <1>1, <1>2, <2>2, SpotsKept
    <3> QED
      BY <1>2, <2>2, <3>1 DEF GetFreeBuffer
  <2> QED
    BY <2>1, <2>2
<1>3. ASSUME TakeBack(b), NEW c, Spots(pool, {c}) # {} \/ c = b PROVE Spots(pool', {c}) # {}
  <2>1. Spots(Append(pool, b), {c}) # {}
    BY <1>1, <1>3, SpotsKept
  <2> QED
    BY <1>3, <2>1 DEF TakeBack
<1> QED
  BY <1>2, <1>3

(* A buffer is somewhere exactly while someone holds it.                   *)
HeldSomewhere == \A b : Somewhere(b) <=> Holders(b) # {}

(* What is in some place has a holder, and what has a holder is somewhere. *)
LEMMA HoldersSomewhere == BuffersType => HeldSomewhere
<1>1. ASSUME NEW b, NEW h \in Holders(b) PROVE Somewhere(b)
  <2>1. PICK k, x : Spot(h, k, x, b)
    BY HolderSpots
  <2>2. Holds(k, x, b)
    BY <2>1 DEF Spot, Holds
  <2> QED
    BY <2>2 DEF Somewhere
<1>2. ASSUME NEW b, NEW k, NEW x, Holds(k, x, b), Holders(b) = {} PROVE FALSE
  BY <1>2, NoHolders
<1> QED
  BY <1>1, <1>2 DEF Somewhere, HeldSomewhere

(* A buffer stays where it is, or goes to another place.                   *)
LEMMA StaysSomewhere ==
  ASSUME NEW b, NEW m, NEW z,
         \A l, y : Holds(l, y, b) => Holds(l, y, b)' \/ Holds(m, z, b)'
  PROVE  Somewhere(b) => Somewhere(b)'
BY DEF Somewhere

(* A step that leaves every place as it is.                                *)
LEMMA AllSomewhere ==
  ASSUME BuffersType, NEW b \in Buffer, UNCHANGED <<pool, jobs, own, readlist>>,
         \A a \in Actor : hand'[a].buf = hand[a].buf,
         \A a \in Actor : call'[a].buf = call[a].buf \/ call[a].buf = NoBuffer,
         \A s \in Session : kept[s] \subseteq kept'[s],
         \A s \in Session : Waiting(s)' = Waiting(s)
  PROVE  Somewhere(b) => Somewhere(b)'
<1>1. b # NoBuffer
  BY BuffersAssumption
<1>3. \A a \in Actor : call[a].buf = b => call'[a].buf = b
  BY <1>1
<1>4. \A s \in Session : b \in kept[s] => b \in kept'[s]
  OBVIOUS
<1>2. \A l, y : Holds(l, y, b) => Holds(l, y, b)'
  BY <1>3, <1>4 DEF Holds
<1> QED
  BY <1>2 DEF Somewhere

(* The steps of a session that give no buffer up.                          *)
LEMMA SessionsComeBack ==
  ASSUME BuffersType, NEW s \in Session, NEW c \in Buffer, ~LosesABuffer,
         \/ Open(s) \/ Close(s) \/ TakeMessage(s) \/ OnWrite(s) \/ ProcessOutgoingData(s)
         \/ \E b \in Buffer : OnRead(s, b) \/ \E o \in Own : AfterConnect(s, o, b)
  PROVE  Somewhere(c) => Somewhere(c)'
<1>0. c # NoBuffer /\ Session \subseteq Actor
     /\ Own \subseteq {"readbuffer", "readcache", "roundcache"}
  BY BuffersAssumption DEF Actor
<1>1. CASE Open(s) \/ Close(s)
  <2>1. UNCHANGED <<pool, jobs, own, readlist, writelist, writing, hand, call, kept>>
    BY <1>1 DEF Open, Close, queueVars
  <2> QED
    BY <2>1, SameWaiting, AllSomewhere
<1>2. CASE ProcessOutgoingData(s)
  <2>1. UNCHANGED <<pool, jobs, own, readlist, hand, call, kept>>
    BY <1>2 DEF ProcessOutgoingData, sessionVars
  <2>2. \A t \in Session : Waiting(t)' = Waiting(t)
    BY <1>2 DEF ProcessOutgoingData, PopFront, Waiting, BuffersType, QueuesType
  <2> QED
    BY <2>1, <2>2, AllSomewhere
<1>3. CASE OnWrite(s)
  <2>1. writelist[s] \in Seq(Item) /\ writelist[s] # <<>> /\ writing[s] = "busy"
    BY <1>3 DEF OnWrite, BuffersType, QueuesType
  <2>2. Waiting(s) = writelist[s] /\ Waiting(s)' = Tail(writelist[s])
    BY <1>3, <2>1 DEF OnWrite, Waiting, BuffersType, QueuesType
  <2>3. PICK b \in Buffer : b = Head(writelist[s]).buf
    <3>1. Head(writelist[s]) \in Item
      BY <2>1
    <3> QED
      BY <3>1 DEF Item
  <2>4. /\ TakeBack(b) /\ UNCHANGED <<own, kept, readlist, jobs, hand, call>>
        /\ \A t \in Session : t # s => Waiting(t)' = Waiting(t)
    BY <1>3, <2>3, SameWaiting DEF OnWrite, sessionVars, BuffersType, QueuesType
  <2>5. At(c, Waiting(s)) # {} => c = b \/ At(c, Waiting(s)') # {}
    BY <2>1, <2>2, <2>3, AtKept
  <2>6. /\ Spots(pool, {c}) # {} => Spots(pool', {c}) # {}
        /\ c = b => Holds("pool", NoBuffer, c)'
    BY <2>4, PoolKept DEF Holds
  <2>7. \A l, y : Holds(l, y, c) => Holds(l, y, c)' \/ Holds("pool", NoBuffer, c)'
    BY <2>4, <2>5, <2>6 DEF Holds
  <2> QED
    BY <2>7, StaysSomewhere
<1>4. CASE TakeMessage(s)
  <2>1. readlist[s] \in Seq(Item) /\ readlist[s] # <<>> /\ jobs \in Seq(Job)
    BY <1>4 DEF TakeMessage, BuffersType, QueuesType, ActorsType
  <2>2. Head(readlist[s]) \in Item
    BY <2>1
  <2>3. Task(s) \in Job /\ Task(s).buf = Head(readlist[s]).buf
    BY <2>2 DEF Task, Item, Job
  <2>4. /\ UNCHANGED <<pool, own, kept, writelist, writing, call>>
        /\ \A t \in Session : readlist'[t] = IF t = s THEN Tail(readlist[s]) ELSE readlist[t]
    BY <1>4 DEF TakeMessage, sessionVars, BuffersType, QueuesType
  <2>5. \A t : Waiting(t)' = Waiting(t)
    BY <2>4, SameWaiting
  <2>6. At(c, readlist[s]) # {} => c = Task(s).buf \/ At(c, readlist'[s]) # {}
    BY <2>1, <2>3, <2>4, AtKept
  <2>7. CASE jobs' = Append(jobs, Task(s)) /\ UNCHANGED hand
    <3>1. At(c, jobs) # {} \/ c = Task(s).buf => At(c, jobs') # {}
      BY <2>1, <2>3, <2>7, AtKept
    <3>2. \A l, y : Holds(l, y, c) => Holds(l, y, c)' \/ Holds("job", NoBuffer, c)'
      BY <2>4, <2>5, <2>6, <2>7, <3>1 DEF Holds
    <3> QED
      BY <3>2, StaysSomewhere
  <2>8. CASE hand' = [hand EXCEPT ![s] = Task(s)] /\ UNCHANGED jobs
    <3>1. \A a \in Actor : hand'[a] = IF a = s THEN Task(s) ELSE hand[a]
      BY <2>8 DEF BuffersType, ActorsType
    <3>2. hand[s].buf # c
      BY <1>0, <1>4 DEF TakeMessage, Empty
    <3>3. c = Task(s).buf => Holds("hand", s, c)'
      BY <1>0, <3>1 DEF Holds
    <3>4. \A l, y : Holds(l, y, c) => Holds(l, y, c)' \/ Holds("hand", s, c)'
      BY <2>4, <2>5, <2>6, <2>8, <3>1, <3>2, <3>3 DEF Holds
    <3> QED
      BY <3>4, StaysSomewhere
  <2> QED
    BY <1>4, <2>7, <2>8 DEF TakeMessage
<1>5. ASSUME NEW b \in Buffer, NEW o \in Own, AfterConnect(s, o, b)
      PROVE  Somewhere(c) => Somewhere(c)'
  <2>1. /\ UNCHANGED <<kept, readlist, writelist, writing, jobs, hand, call>>
        /\ \A t \in Session, p \in Own : own'[t][p] = IF t = s /\ p = o THEN b ELSE own[t][p]
        /\ own[s][o] # c
    BY <1>0, <1>5 DEF AfterConnect, queueVars, BuffersType, SessionsType
  <2>2. Spots(pool, {c}) # {} => Spots(pool', {c}) # {} \/ c = b
    BY <1>5, PoolKept DEF AfterConnect
  <2>3. c = b => Holds(o, s, c)'
    BY <2>1 DEF Holds
  <2>4. \A t : Waiting(t)' = Waiting(t)
    BY <2>1, SameWaiting
  <2>5. \A l, y : Holds(l, y, c) => Holds(l, y, c)' \/ Holds(o, s, c)'
    BY <2>1, <2>2, <2>3, <2>4 DEF Holds
  <2> QED
    BY <2>5, StaysSomewhere
<1>6. ASSUME NEW b \in Buffer, OnRead(s, b) PROVE Somewhere(c) => Somewhere(c)'
  <2> DEFINE e == [buf |-> b, msg |-> arrived']
  <2>1. readlist[s] \in Seq(Item) /\ e \in Item /\ e.buf = b
    <3>1. arrived' \in Int
      BY <1>6, BuffersAssumption DEF OnRead, BuffersType, PoolType
    <3> QED
      BY <3>1 DEF BuffersType, QueuesType, Item
  <2>2. ~Full(s)
    BY <1>6 DEF LosesABuffer
  <2>3. /\ UNCHANGED <<own, kept, writelist, writing, jobs, hand, call>>
        /\ \A t \in Session : readlist'[t] = IF t = s THEN Append(readlist[s], e) ELSE readlist[t]
        /\ GetFreeBuffer(b) \/ UNCHANGED pool
    BY <1>6, <2>2 DEF OnRead, sessionVars, BuffersType, QueuesType
  <2> HIDE DEF e
  <2>4. At(c, readlist[s]) # {} \/ c = b => At(c, readlist'[s]) # {}
    BY <2>1, <2>3, AtKept
  <2>5. Spots(pool, {c}) # {} => Spots(pool', {c}) # {} \/ c = b
    BY <2>3, PoolKept
  <2>6. \A t : Waiting(t)' = Waiting(t)
    BY <2>3, SameWaiting
  <2>7. \A l, y : Holds(l, y, c) => Holds(l, y, c)' \/ Holds("read", s, c)'
    BY <2>3, <2>4, <2>5, <2>6 DEF Holds
  <2> QED
    BY <2>7, StaysSomewhere
<1> QED
  BY <1>1, <1>2, <1>3, <1>4, <1>5, <1>6

(* The steps of handlers and workers that give no buffer up.               *)
LEMMA ActorsComeBack ==
  ASSUME BuffersType, NEW a \in Actor, NEW c \in Buffer, ~LosesABuffer,
         \/ a \in Worker /\ RunTask(a)
         \/ Handled(a) \/ Answer(a) \/ BroadcastData(a) \/ BroadcastBuffer(a) \/ Echo(a) \/ Keep(a)
         \/ \E b \in Buffer : PrepareBuffer(a, b) \/ Encode(a, b)
         \/ \E s \in Session : Write(a, s)
  PROVE  Somewhere(c) => Somewhere(c)'
<1>0. /\ c # NoBuffer
      /\ hand \in [Actor -> Job \cup {Empty}] /\ call \in [Actor -> Talk]
      /\ call[a] \in Talk /\ hand[a] \in Job \cup {Empty}
  BY BuffersAssumption DEF BuffersType, ActorsType
<1>1. CASE a \in Worker /\ RunTask(a)
  <2>1. jobs \in Seq(Job) /\ jobs # <<>>
    BY <1>1 DEF RunTask, BuffersType, ActorsType
  <2>2. Head(jobs) \in Job
    BY <2>1
  <2>3. [Head(jobs) EXCEPT !.fresh = state[Head(jobs).session] # "released"].buf = Head(jobs).buf
    BY <2>2 DEF Job
  <2>4. /\ UNCHANGED <<pool, own, kept, readlist, writelist, writing, call>>
        /\ jobs' = Tail(jobs) /\ hand[a].buf # c
        /\ \A d \in Actor : hand'[d].buf = IF d = a THEN Head(jobs).buf ELSE hand[d].buf
    BY <1>0, <1>1, <2>3 DEF RunTask, Empty, sessionVars, queueVars
  <2>5. At(c, jobs) # {} => c = Head(jobs).buf \/ At(c, jobs') # {}
    BY <2>1, <2>4, AtKept
  <2>6. c = Head(jobs).buf => Holds("hand", a, c)'
    BY <2>4 DEF Holds
  <2>7. \A t : Waiting(t)' = Waiting(t)
    BY <2>4, SameWaiting
  <2>8. \A l, y : Holds(l, y, c) => Holds(l, y, c)' \/ Holds("hand", a, c)'
    BY <2>4, <2>5, <2>6, <2>7 DEF Holds
  <2> QED
    BY <2>8, StaysSomewhere
<1>2. CASE Handled(a)
  <2>1. PICK b \in Buffer : b = hand[a].buf
    BY <1>2, RecordsTyped DEF Handled, Job
  <2>2. /\ TakeBack(b) /\ UNCHANGED <<own, kept, readlist, writelist, writing, jobs, call>>
        /\ \A d \in Actor : d # a => hand'[d] = hand[d]
    BY <1>0, <1>2, <2>1 DEF Handled, TakeBackTask, sessionVars, queueVars
  <2>3. /\ Spots(pool, {c}) # {} => Spots(pool', {c}) # {}
        /\ c = b => Holds("pool", NoBuffer, c)'
    BY <2>2, PoolKept DEF Holds
  <2>4. \A t : Waiting(t)' = Waiting(t)
    BY <2>2, SameWaiting
  <2>5. \A l, y : Holds(l, y, c) => Holds(l, y, c)' \/ Holds("pool", NoBuffer, c)'
    BY <2>1, <2>2, <2>3, <2>4 DEF Holds
  <2> QED
    BY <2>5, StaysSomewhere
<1>3. \A d \in Actor : [hand EXCEPT ![a].fresh = FALSE][d].buf = hand[d].buf
  <2>1. \A r \in Job \cup {Empty} : [r EXCEPT !.fresh = FALSE].buf = r.buf
    BY DEF Job, Empty
  <2> QED
    BY <1>0, <2>1
<1>4. CASE Answer(a) \/ BroadcastData(a) \/ Echo(a)
  <2>1. /\ UNCHANGED <<pool, jobs, own, kept, readlist, writelist, writing>>
        /\ call[a].buf = NoBuffer /\ hand' = [hand EXCEPT ![a].fresh = FALSE]
        /\ \A d \in Actor : d # a => call'[d] = call[d]
    BY <1>0, <1>4
    DEF Answer, BroadcastData, Echo, MayCall, Calling, Idle, sessionVars, queueVars
  <2> QED
    BY <1>3, <2>1, SameWaiting, AllSomewhere
<1>5. CASE Keep(a)
  <2>1. /\ UNCHANGED <<pool, jobs, own, readlist, writelist, writing, call>>
        /\ hand' = [hand EXCEPT ![a].fresh = FALSE]
        /\ \A t \in Session : kept[t] \subseteq kept'[t]
    BY <1>5 DEF Keep, queueVars, BuffersType, SessionsType
  <2> QED
    BY <1>3, <2>1, SameWaiting, AllSomewhere
<1>6. CASE BroadcastBuffer(a)
  <2>1. Session # {} => Registered # {}
    BY <1>6 DEF LosesABuffer
  <2>2. CASE Registered # {}
    <3>1. [call[a] EXCEPT !.kind = "broadcastbuffer", !.todo = Registered].buf = call[a].buf
      BY <1>0 DEF Talk
    <3>2. /\ UNCHANGED <<pool, jobs, own, kept, readlist, writelist, writing, hand>>
          /\ \A d \in Actor : call'[d].buf = call[d].buf
      BY <1>0, <1>6, <2>2, <3>1 DEF BroadcastBuffer, sessionVars, queueVars
    <3> QED
      BY <3>2, SameWaiting, AllSomewhere
  <2>3. CASE Session = {}
    <3>1. call[a].kind = "prepared" /\ WithBuffer(call[a])
      BY <1>6 DEF BroadcastBuffer, BuffersType, ActorsType
    <3> QED
      BY <1>0, <2>3, <3>1 DEF WithBuffer, Talk
  <2> QED
    BY <2>1, <2>2, <2>3
<1>7. ASSUME NEW b \in Buffer, PrepareBuffer(a, b) \/ Encode(a, b)
      PROVE  Somewhere(c) => Somewhere(c)'
  <2>1. [call[a] EXCEPT !.buf = b].buf = b
    BY <1>0 DEF Talk
  <2>2. /\ UNCHANGED <<jobs, own, kept, readlist, writelist, writing>>
        /\ GetFreeBuffer(b) /\ call[a].buf = NoBuffer
        /\ \A d \in Actor : hand'[d].buf = hand[d].buf
        /\ \A d \in Actor : call'[d].buf = IF d = a THEN b ELSE call[d].buf
    <3>1. CASE PrepareBuffer(a, b)
      BY <1>0, <1>3, <3>1 DEF PrepareBuffer, MayCall, Calling, Idle, sessionVars, queueVars
    <3>2. CASE Encode(a, b)
      BY <1>0, <2>1, <3>2 DEF Encode, sessionVars, queueVars
    <3> QED
      BY <1>7, <3>1, <3>2
  <2>3. Spots(pool, {c}) # {} => Spots(pool', {c}) # {} \/ c = b
    BY <2>2, PoolKept
  <2>4. c = b => Holds("call", a, c)'
    BY <2>2 DEF Holds
  <2>5. \A t : Waiting(t)' = Waiting(t)
    BY <2>2, SameWaiting
  <2>6. \A l, y : Holds(l, y, c) => Holds(l, y, c)' \/ Holds("call", a, c)'
    BY <1>0, <2>2, <2>3, <2>4, <2>5 DEF Holds
  <2> QED
    BY <2>6, StaysSomewhere
<1>8. ASSUME NEW s \in Session, Write(a, s) PROVE Somewhere(c) => Somewhere(c)'
  <2> DEFINE e == [buf |-> call[a].buf, msg |-> call[a].msg]
  <2>1. e \in Item /\ e.buf = call[a].buf
    BY <1>0, <1>8 DEF Write, Talk, Item
  <2>2. state[s] = "open"
    BY <1>8 DEF LosesABuffer
  <2>3. /\ UNCHANGED <<pool, jobs, own, kept, readlist, hand>>
        /\ \A d \in Actor : d # a => call'[d] = call[d]
        /\ writelist'[s] = Append(writelist[s], e)
        /\ writing'[s] = IF writelist[s] = <<>> THEN "busy" ELSE writing[s]
    BY <1>0, <1>8, <2>2 DEF Write, sessionVars, BuffersType, QueuesType
  <2>4. writelist[s] \in Seq(Item) /\ (writing[s] = "done" => writelist[s] # <<>>)
    BY DEF BuffersType, QueuesType
  <2> HIDE DEF e
  <2>5. Waiting(s)' = Append(Waiting(s), e)
    <3>1. \A q \in Seq(Item) : q # <<>> => Tail(Append(q, e)) = Append(Tail(q), e)
      BY <2>1
    <3> QED
      BY <2>3, <2>4, <3>1 DEF Waiting
  <2>6. At(c, Waiting(s)) # {} \/ c = call[a].buf => At(c, Waiting(s)') # {}
    BY <2>1, <2>5, WaitingIsQueue, AtKept
  <2>7. \A t \in Session : t # s => Waiting(t)' = Waiting(t)
    BY <1>8, WriteWaits
  <2>8. \A l, y : Holds(l, y, c) => Holds(l, y, c)' \/ Holds("write", s, c)'
    BY <2>3, <2>6, <2>7 DEF Holds
  <2> QED
    BY <2>8, StaysSomewhere
<1> QED
  BY <1>1, <1>2, <1>4, <1>5, <1>6, <1>7, <1>8

(* The pool loses a buffer only where the code gives one up.               *)
THEOREM BuffersComeBackProved == Spec => BuffersComeBack
<1>1. ASSUME BuffersType, [Next]_vars, NEW b \in Buffer \ shared',
             Holders(b) # {}, Holders(b)' = {}, ~LosesABuffer
      PROVE  FALSE
  <2>1. Somewhere(b)
    BY <1>1, HoldersSomewhere DEF HeldSomewhere
  <2>2. (BuffersType => HeldSomewhere)'
    BY HoldersSomewhere, PTL
  <2>3. ~Somewhere(b)'
    BY <1>1, <2>2, TypeNext DEF HeldSomewhere
  <2>4. CASE UNCHANGED vars
    <3>1. UNCHANGED <<pool, jobs, own, readlist, writelist, writing, hand, call, kept>>
      BY <2>4 DEF vars, sessionVars, queueVars
    <3>3. \A t \in Session : Waiting(t)' = Waiting(t)
      BY <3>1, SameWaiting
    <3>2. Somewhere(b)'
      BY <1>1, <2>1, <3>1, <3>3, AllSomewhere
    <3> QED
      BY <2>3, <3>2
  <2>5. CASE Next
    <3>1. \A s \in Session : ~Release(s) /\ ~WriteFails(s)
      BY <1>1 DEF LosesABuffer
    <3> QED
      BY <1>1, <2>1, <2>3, <2>5, <3>1, SessionsComeBack, ActorsComeBack DEF Next, Actor
  <2> QED
    BY <1>1, <2>4, <2>5
<1>2. BuffersType /\ [Next]_vars
        => [\A b \in Buffer \ shared' : Holders(b) # {} /\ Holders(b)' = {} => LosesABuffer]_vars
  BY <1>1
<1> QED
  BY <1>2, TypeInit, TypeNext, PTL DEF Spec, BuffersComeBack
=============================================================================
