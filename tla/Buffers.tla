------------------------------ MODULE Buffers ------------------------------
(***************************************************************************)
(* Who holds which buffer: the pool of IoBufferManager.cpp, the sessions   *)
(* that take buffers from it and give them back (ClientSession.cpp), the   *)
(* workers that give back what a task read (WorkManager.cpp) and the       *)
(* broadcasts of SessionManager.cpp.                                       *)
(*                                                                         *)
(* TakeBack takes what it is given: nothing counts how many hold a buffer. *)
(* A handler runs in place, as the session itself, or as a task of a       *)
(* worker; while it handles a message it may answer (Write, which encodes  *)
(* into a buffer of its own), broadcast data (encoded for each session) or *)
(* one buffer, send back the buffer it reads, or keep it in the data of    *)
(* the session.  A buffer used in one of the last three ways, or read      *)
(* without a filter, is in "shared" from then on.                          *)
(***************************************************************************)
EXTENDS Integers, Sequences, FiniteSets, SequencesExt

CONSTANTS
  Session, Worker,
  Buffer,       (* the buffers there is memory for (bound)                   *)
  NoBuffer,
  ItemCount,    (* how many the pool has at first                            *)
  Own,          (* a session's own buffers                                   *)
  MaxRead,      (* m_maxreadqueuesize, 0 for none                            *)
  MaxMessages,  (* messages read in all (bound)                              *)
  MaxShared,    (* buffers used in a way that gives them two holders (bound) *)
  Filters,      (* whether sessions have a filter: a set of truth values     *)
  Calls         (* what handlers may do                                      *)

Actor == Session \cup Worker

ASSUME BuffersAssumption ==
  /\ NoBuffer \notin Buffer /\ Session \cap Worker = {}
  /\ IsFiniteSet(Buffer) /\ {MaxRead, MaxMessages, MaxShared} \subseteq Nat
  /\ ItemCount \in 0 .. Cardinality(Buffer)
  /\ "readbuffer" \in Own /\ Own \subseteq {"readbuffer", "readcache", "roundcache"}
  /\ Filters \subseteq BOOLEAN
  /\ Calls \subseteq {"none", "answer", "broadcastdata", "broadcastbuffer", "echo", "keep"}

VARIABLES
  pool,       (* m_items                                                     *)
  content,    (* what was last put into each buffer                          *)
  filtered,   (* the sessions have a filter                                  *)
  state,      (* of each session: "new", "open", "closed", "released"        *)
  own,        (* its m_readbuffer, m_readcache and m_roundcache              *)
  readlist,   (* m_readlist: buffers, each with the message read into it     *)
  writelist,  (* m_writelist, each with the message written into it          *)
  writing,    (* its front: "no", "busy" in async_write, "done"              *)
  kept,       (* m_dataintbufmap                                             *)
  jobs,       (* the tasks given to the workers                              *)
  hand,       (* of each actor: what it handles                              *)
  call,       (* of each actor: what it is writing, and to whom still        *)
  arrived,    (* how many messages were read                                 *)
  shared      (* history: buffers used in a way that gives them two holders  *)

sessionVars == <<filtered, state, own, kept>>
queueVars == <<readlist, writelist, writing>>
vars == <<pool, content, sessionVars, queueVars, jobs, hand, call, arrived, shared>>

(* What an actor holds when it handles nothing, and when it calls nothing. *)
Empty == [buf |-> NoBuffer, msg |-> 0, session |-> NoBuffer, fresh |-> FALSE]
Idle == [kind |-> "none", todo |-> {}, buf |-> NoBuffer, msg |-> 0]

(* A buffer whose async_write is done is still in front, but never read.   *)
Waiting(s) == IF writing[s] = "done" THEN Tail(writelist[s]) ELSE writelist[s]

At(b, seq) == {i \in DOMAIN seq : seq[i].buf = b}

(* The places that hold a buffer and will use it again. *)
Holders(b) ==
  {<<"pool", i>> : i \in {j \in DOMAIN pool : pool[j] = b}}
    \cup {<<"job", i>> : i \in At(b, jobs)}
    \cup {<<"hand", a>> : a \in {c \in Actor : hand[c].buf = b}}
    \cup {<<"call", a>> : a \in {c \in Actor : call[c].buf = b}}
    \cup {<<"data", s>> : s \in {t \in Session : b \in kept[t]}}
    \cup UNION {{<<o, s>> : o \in {p \in Own : own[s][p] = b}}
                  \cup {<<"read", s, i>> : i \in At(b, readlist[s])}
                  \cup {<<"write", s, i>> : i \in At(b, Waiting(s))} : s \in Session}

Init ==
  /\ \E items \in {f \in [1 .. ItemCount -> Buffer] : IsInjective(f)} : pool = items
  /\ content = [b \in Buffer |-> 0]
  /\ filtered \in Filters
  /\ state = [s \in Session |-> "new"]
  /\ own = [s \in Session |-> [o \in Own |-> NoBuffer]]
  /\ readlist = [s \in Session |-> <<>>] /\ writelist = [s \in Session |-> <<>>]
  /\ writing = [s \in Session |-> "no"]
  /\ kept = [s \in Session |-> {}]
  /\ jobs = <<>>
  /\ hand = [a \in Actor |-> Empty] /\ call = [a \in Actor |-> Idle]
  /\ arrived = 0 /\ shared = {}

-----------------------------------------------------------------------------
(* The pool: the buffer in front, or a new one when there is none. *)

InUse(b) == Holders(b) # {} \/ \E s \in Session : At(b, writelist[s]) # {}

(* Fault: a buffer handed out stays in the pool. *)
GetFreeBufferKept(b) ==
  IF pool # <<>> THEN b = Head(pool) /\ UNCHANGED pool ELSE ~InUse(b) /\ UNCHANGED pool

GetFreeBuffer(b) ==
  IF pool # <<>> THEN b = Head(pool) /\ pool' = Tail(pool) ELSE ~InUse(b) /\ UNCHANGED pool

TakeBack(b) == pool' = Append(pool, b)

(* Fault: the worker does not give the buffer back. *)
TakeBackNothing(b) == UNCHANGED pool

(* Worker::DoWork, when its task is done. *)
TakeBackTask(b) == TakeBack(b)

(* A buffer comes to a second holder. *)
Share(b) == shared' = shared \cup {b} /\ Cardinality(shared') <= MaxShared

-----------------------------------------------------------------------------
(* Sessions begin and end; Broadcast holds m_sessionmutex meanwhile. *)

Broadcasting == \E a \in Actor : call[a].kind \in {"broadcastdata", "broadcastbuffer"}
Registered == {s \in Session : state[s] = "open"}

Open(s) ==
  /\ state[s] = "new" /\ ~Broadcasting
  /\ state' = [state EXCEPT ![s] = "open"]
  /\ UNCHANGED <<pool, content, filtered, own, kept, queueVars, jobs, hand, call, arrived, shared>>

AfterConnect(s, o, b) ==
  /\ state[s] = "open" /\ own[s][o] = NoBuffer
  /\ GetFreeBuffer(b)
  /\ own' = [own EXCEPT ![s][o] = b]
  /\ UNCHANGED <<content, filtered, state, kept, queueVars, jobs, hand, call, arrived, shared>>

Close(s) ==
  /\ state[s] = "open" /\ ~Broadcasting
  /\ state' = [state EXCEPT ![s] = "closed"]
  /\ UNCHANGED <<pool, content, filtered, own, kept, queueVars, jobs, hand, call, arrived, shared>>

(* The destructor, once no handler and no async_write holds the session:   *)
(* its own buffers and those in its data go back, its queues just go.      *)
OwnBuffers(s) == {own[s][o] : o \in Own} \ {NoBuffer}
Orders(bufs) == SetToSeqs(bufs)

ReleasedBuffers(s) ==
  {own1 \o data : own1 \in Orders(OwnBuffers(s)), data \in Orders(kept[s])}

Release(s) ==
  /\ state[s] = "closed" /\ writing[s] # "busy"
  /\ \A a \in Actor : hand[a].session # s /\ s \notin call[a].todo
  /\ state' = [state EXCEPT ![s] = "released"]
  /\ \E back \in ReleasedBuffers(s) : pool' = pool \o back
  /\ own' = [own EXCEPT ![s] = [o \in Own |-> NoBuffer]]
  /\ kept' = [kept EXCEPT ![s] = {}]
  /\ readlist' = [readlist EXCEPT ![s] = <<>>]
  /\ writelist' = [writelist EXCEPT ![s] = <<>>]
  /\ writing' = [writing EXCEPT ![s] = "no"]
  /\ UNCHANGED <<content, filtered, jobs, hand, call, arrived, shared>>

-----------------------------------------------------------------------------
(* Reading.  The codec copies a message into a buffer of the pool; without *)
(* a filter the read buffer itself is queued.  A full queue drops it.      *)

Full(s) == MaxRead > 0 /\ Len(readlist[s]) >= MaxRead

OnRead(s, b) ==
  /\ state[s] = "open" /\ \A o \in Own : own[s][o] # NoBuffer
  /\ arrived < MaxMessages /\ arrived' = arrived + 1
  /\ content' = [content EXCEPT ![b] = arrived']
  /\ readlist' = [readlist EXCEPT ![s] =
                    IF Full(s) THEN @ ELSE Append(@, [buf |-> b, msg |-> arrived'])]
  /\ IF filtered THEN GetFreeBuffer(b) /\ UNCHANGED shared
     ELSE /\ b = own[s]["readbuffer"] /\ Share(b) /\ UNCHANGED pool
  /\ UNCHANGED <<sessionVars, writelist, writing, jobs, hand, call>>

(* InternalProcessIncoming takes the message in front; the handler works   *)
(* on it in place, or gives it to the workers (MessageHandler::OnRead).    *)
Task(s) ==
  [buf |-> Head(readlist[s]).buf, msg |-> Head(readlist[s]).msg, session |-> s, fresh |-> TRUE]

TakeMessage(s) ==
  /\ state[s] = "open" /\ hand[s] = Empty /\ readlist[s] # <<>>
  /\ \/ hand' = [hand EXCEPT ![s] = Task(s)] /\ UNCHANGED jobs
     \/ jobs' = Append(jobs, Task(s)) /\ UNCHANGED hand
  /\ readlist' = [readlist EXCEPT ![s] = Tail(@)]
  /\ UNCHANGED <<pool, content, sessionVars, writelist, writing, call, arrived, shared>>

(* A worker knows only weakly of the session its task came from. *)
RunTask(w) ==
  /\ hand[w] = Empty /\ jobs # <<>>
  /\ hand' = [hand EXCEPT ![w] = [Head(jobs) EXCEPT !.fresh = state[Head(jobs).session] # "released"]]
  /\ jobs' = Tail(jobs)
  /\ UNCHANGED <<pool, content, sessionVars, queueVars, call, arrived, shared>>

(* When a message is handled, the session, or the worker, takes it back.   *)
Handled(a) ==
  /\ hand[a] # Empty /\ call[a] = Idle
  /\ IF a \in Worker THEN TakeBackTask(hand[a].buf) ELSE TakeBack(hand[a].buf)
  /\ hand' = [hand EXCEPT ![a] = Empty]
  /\ UNCHANGED <<content, sessionVars, queueVars, jobs, call, arrived, shared>>

-----------------------------------------------------------------------------
(* What a handler may do with a message, once. *)

MayCall(a, kind) == kind \in Calls /\ hand[a].fresh /\ call[a] = Idle
Calling(a, kind, todo, b, m) ==
  /\ call' = [call EXCEPT ![a] = [kind |-> kind, todo |-> todo, buf |-> b, msg |-> m]]
  /\ hand' = [hand EXCEPT ![a].fresh = FALSE]

Answer(a) ==
  /\ MayCall(a, "answer")
  /\ Calling(a, "answer", {hand[a].session}, NoBuffer, 0 - hand[a].msg)
  /\ UNCHANGED <<pool, content, sessionVars, queueVars, jobs, arrived, shared>>

BroadcastData(a) ==
  /\ MayCall(a, "broadcastdata") /\ ~Broadcasting /\ Registered # {}
  /\ Calling(a, "broadcastdata", Registered, NoBuffer, 0 - hand[a].msg)
  /\ UNCHANGED <<pool, content, sessionVars, queueVars, jobs, arrived, shared>>

(* A buffer of the pool is filled, then queued in every session. *)
PrepareBuffer(a, b) ==
  /\ MayCall(a, "broadcastbuffer") /\ GetFreeBuffer(b)
  /\ content' = [content EXCEPT ![b] = 0 - hand[a].msg]
  /\ Calling(a, "prepared", {hand[a].session}, b, 0 - hand[a].msg)
  /\ UNCHANGED <<sessionVars, queueVars, jobs, arrived, shared>>

BroadcastBuffer(a) ==
  /\ call[a].kind = "prepared" /\ ~Broadcasting
  /\ call' = [call EXCEPT ![a] = IF Registered = {} THEN Idle
                                 ELSE [@ EXCEPT !.kind = "broadcastbuffer", !.todo = Registered]]
  /\ IF Cardinality(Registered) > 1 THEN Share(call[a].buf) ELSE UNCHANGED shared
  /\ UNCHANGED <<pool, content, sessionVars, queueVars, jobs, hand, arrived>>

Echo(a) ==
  /\ MayCall(a, "echo")
  /\ Calling(a, "echo", {hand[a].session}, hand[a].buf, hand[a].msg)
  /\ Share(hand[a].buf)
  /\ UNCHANGED <<pool, content, sessionVars, queueVars, jobs, arrived>>

Keep(a) ==
  /\ MayCall(a, "keep")
  /\ kept' = [kept EXCEPT ![hand[a].session] = @ \cup {hand[a].buf}]
  /\ Share(hand[a].buf)
  /\ hand' = [hand EXCEPT ![a].fresh = FALSE]
  /\ UNCHANGED <<pool, content, filtered, state, own, queueVars, jobs, call, arrived>>

(* Write(void* data) encodes into a new buffer, whatever the session is.   *)
Encode(a, b) ==
  /\ call[a].kind \in {"answer", "broadcastdata"} /\ call[a].buf = NoBuffer
  /\ GetFreeBuffer(b)
  /\ content' = [content EXCEPT ![b] = call[a].msg]
  /\ call' = [call EXCEPT ![a].buf = b]
  /\ UNCHANGED <<sessionVars, queueVars, jobs, hand, arrived, shared>>

(* Fault: what was encoded for one session is queued in the next, too. *)
AfterWriteSame(c, s) == IF c.todo = {s} THEN Idle ELSE [c EXCEPT !.todo = @ \ {s}]

(* What is left of a call after a Write to s. *)
AfterWrite(c, s) ==
  IF c.todo = {s} THEN Idle
  ELSE [c EXCEPT !.todo = @ \ {s},
                 !.buf = IF c.kind = "broadcastbuffer" THEN c.buf ELSE NoBuffer]

(* Write(IoBufferPtr): a closed session takes nothing. *)
Write(a, s) ==
  /\ call[a].buf # NoBuffer /\ s \in call[a].todo /\ call[a].kind # "prepared"
  /\ IF state[s] = "open"
       THEN /\ writelist' = [writelist EXCEPT ![s] =
                               Append(@, [buf |-> call[a].buf, msg |-> call[a].msg])]
            /\ writing' = [writing EXCEPT ![s] = IF writelist[s] = <<>> THEN "busy" ELSE @]
       ELSE UNCHANGED <<writelist, writing>>
  /\ call' = [call EXCEPT ![a] = AfterWrite(@, s)]
  /\ UNCHANGED <<pool, content, sessionVars, readlist, jobs, hand, arrived, shared>>

(* OnWrite: the buffer in front goes back, then it is taken off the list   *)
(* and the next one is written.  After an error it is only taken off.      *)
OnWrite(s) ==
  /\ writing[s] = "busy"
  /\ writing' = [writing EXCEPT ![s] = "done"]
  /\ TakeBack(Head(writelist[s]).buf)
  /\ UNCHANGED <<content, sessionVars, readlist, writelist, jobs, hand, call, arrived, shared>>

PopFront(s) ==
  /\ writelist' = [writelist EXCEPT ![s] = Tail(@)]
  /\ writing' = [writing EXCEPT ![s] = IF Len(writelist[s]) > 1 THEN "busy" ELSE "no"]

ProcessOutgoingData(s) ==
  /\ writing[s] = "done" /\ state[s] = "open"
  /\ PopFront(s)
  /\ UNCHANGED <<pool, content, sessionVars, readlist, jobs, hand, call, arrived, shared>>

WriteFails(s) ==
  /\ writing[s] = "busy"
  /\ IF state[s] = "open" THEN PopFront(s)
     ELSE writing' = [writing EXCEPT ![s] = "no"] /\ UNCHANGED writelist
  /\ UNCHANGED <<pool, content, sessionVars, readlist, jobs, hand, call, arrived, shared>>

Next ==
  \/ \E s \in Session :
       \/ Open(s) \/ Close(s) \/ Release(s)
       \/ \E b \in Buffer : OnRead(s, b) \/ \E o \in Own : AfterConnect(s, o, b)
       \/ TakeMessage(s)
       \/ OnWrite(s) \/ ProcessOutgoingData(s) \/ WriteFails(s)
  \/ \E w \in Worker : RunTask(w)
  \/ \E a \in Actor :
       \/ Handled(a) \/ Answer(a) \/ BroadcastData(a) \/ BroadcastBuffer(a)
       \/ Echo(a) \/ Keep(a)
       \/ \E b \in Buffer : PrepareBuffer(a, b) \/ Encode(a, b)
       \/ \E s \in Session : Write(a, s)

Spec == Init /\ [][Next]_vars

-----------------------------------------------------------------------------
TypeOK ==
  /\ pool \in Seq(Buffer) /\ content \in [Buffer -> Int] /\ filtered \in BOOLEAN
  /\ state \in [Session -> {"new", "open", "closed", "released"}]
  /\ own \in [Session -> [Own -> Buffer \cup {NoBuffer}]]
  /\ \A s \in Session : /\ \A i \in DOMAIN readlist[s] : readlist[s][i].buf \in Buffer
                        /\ \A i \in DOMAIN writelist[s] : writelist[s][i].buf \in Buffer
                        /\ writing[s] # "no" => writelist[s] # <<>>
  /\ writing \in [Session -> {"no", "busy", "done"}]
  /\ kept \in [Session -> SUBSET Buffer]
  /\ \A a \in Actor : hand[a].buf \in Buffer \cup {NoBuffer}
  /\ \A a \in Actor : call[a].todo \subseteq Session
  /\ arrived \in 0 .. MaxMessages /\ shared \subseteq Buffer

(* However sessions, workers and broadcasts interleave, a buffer is in the *)
(* pool, or with one session, one queue or one handler, and never in two   *)
(* places: only a buffer that was broadcast as such, sent back, kept, or   *)
(* read without a filter comes to two holders.                             *)
OneHolder == \A b \in Buffer \ shared : Cardinality(Holders(b)) <= 1

(* A handler reads the message that arrived, and the peer is sent the one  *)
(* that was written, even while other buffers are misused.                 *)
ContentIntact ==
  /\ \A s \in Session :
       /\ \A i \in DOMAIN readlist[s] :
            readlist[s][i].buf \notin shared => content[readlist[s][i].buf] = readlist[s][i].msg
       /\ \A i \in DOMAIN Waiting(s) :
            Waiting(s)[i].buf \notin shared => content[Waiting(s)[i].buf] = Waiting(s)[i].msg
  /\ \A a \in Actor :
       hand[a] # Empty /\ hand[a].buf \notin shared => content[hand[a].buf] = hand[a].msg

(* The pool loses a buffer only where the code gives one up: a full queue, *)
(* a write that failed or came after the close, a session that is gone.    *)
LosesABuffer ==
  \E s \in Session :
    \/ WriteFails(s) \/ Release(s)
    \/ \E b \in Buffer : Full(s) /\ OnRead(s, b)
    \/ \E a \in Actor : state[s] # "open" /\ Write(a, s)
    \/ \E a \in Actor : Registered = {} /\ BroadcastBuffer(a)
BuffersComeBack ==
  [][\A b \in Buffer \ shared' : Holders(b) # {} /\ Holders(b)' = {} => LosesABuffer]_vars
=============================================================================
