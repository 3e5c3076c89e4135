------------------------------ MODULE Handling ------------------------------
(***************************************************************************)
(* From a message to the data it changes: the three ways MessageHandler is *)
(* wired (without a pool, with one work, with works by key), the tasks it  *)
(* gives to WorkManager, IoWork::Run around the work's Handle, and the     *)
(* SharedData of a session or of the session manager that Handle reads and *)
(* updates.                                                                *)
(*                                                                         *)
(* A lane is a session and a direction: 1 for messages read, 2 for those   *)
(* written, whose handler calls DefaultAsyncProcessOnWrite.  How a lane    *)
(* waits is in Session, how the pool runs tasks in WorkPool: here a lane   *)
(* waits or not, and a worker takes the first task.  A session is also the *)
(* thread of its IO service, which handles messages in place.  Handle is   *)
(* the application's: of one key, it gets the entry of each kind, puts     *)
(* them back with its own message added, and may throw wherever it is.     *)
(***************************************************************************)
EXTENDS Integers, Sequences, FiniteSets

CONSTANTS
  HandlingSession,   (* the sessions, and their threads                      *)
  PoolWorker,        (* the threads of the pool                              *)
  IntKey, StrKey,    (* keys of works, and of entries                        *)
  OrderlyHandling,   (* the lanes that may be handled in order: a set of sets *)
  MaxMessages        (* bound: messages of all lanes                         *)

ASSUME HandlingAssumption ==
  /\ MaxMessages \in Nat /\ OrderlyHandling \subseteq SUBSET (HandlingSession \X {1, 2})
  /\ IntKey \cap StrKey = {} /\ HandlingSession \cap PoolWorker = {}
  /\ "nobody" \notin HandlingSession \cup PoolWorker /\ "global" \notin HandlingSession

Global == "global"
Lane == HandlingSession \X {1, 2}
Runner == HandlingSession \cup PoolWorker
Scope == HandlingSession \cup {Global}
Key == IntKey \cup StrKey

VARIABLES
  wiring,    (* "sync", "default" or "keyed": the constructor that was used  *)
  orderly,   (* the lanes in which messages are handled in order             *)
  shared,    (* TRUE: the works keep their data with the session manager     *)
  works,     (* the keys PutWork was called with                             *)
  m_state,   (* of the pool: 1 or -1                                         *)
  tasks,
  waiting,   (* the lanes that wait for their message                        *)
  messages,  (* how many there were                                          *)
  running,   (* the message each runner handles                              *)
  at,        (* and where in Handle it is                                    *)
  got,       (* what it got from the data                                    *)
  lock,      (* who holds the mutex of each data                             *)
  data,      (* the maps of each SharedData, by kind and key                 *)
  updated    (* the messages whose update is done                            *)

handlerVars == <<wiring, orderly, shared>>
poolVars == <<works, m_state, tasks>>
laneVars == <<waiting, messages>>
runVars == <<running, at, got>>
dataVars == <<lock, data, updated>>
vars == <<handlerVars, poolVars, laneVars, runVars, dataVars>>

Nothing == [id |-> 0]
Nobody == "nobody"
Kind == {"int", "str", "buf", "obj"}
Empty == [k \in {} |-> {}]
NoEntries == [i \in Kind |-> {}]

Init ==
  /\ wiring \in {"sync", "default", "keyed"} /\ orderly \in OrderlyHandling /\ shared \in BOOLEAN
  /\ works = {} /\ m_state = 1 /\ tasks = <<>>
  /\ waiting = {} /\ messages = 0
  /\ running = [r \in Runner |-> Nothing] /\ at = [r \in Runner |-> "out"]
  /\ got = [r \in Runner |-> NoEntries]
  /\ lock = [s \in Scope |-> Nobody] /\ updated = {}
  /\ data = [s \in Scope |-> [i \in Kind |-> Empty]]

-----------------------------------------------------------------------------
(* The works of the pool. *)

PutIntWork(key) == key \in IntKey /\ works' = works \cup {key}
PutStrWork(key) == key \in StrKey /\ works' = works \cup {key}

PutWork ==
  /\ wiring = "keyed"
  /\ \E key \in Key \ works : PutIntWork(key) \/ PutStrWork(key)
  /\ UNCHANGED <<handlerVars, m_state, tasks, laneVars, runVars, dataVars>>

GetIntWork(m) == m.key \in IntKey /\ m.key \in works
GetStrWork(m) == m.key \notin IntKey /\ m.key \in works

(* A pool that was stopped takes nothing, and nobody looks at the answer.  *)
AddWorkTask(m) == tasks' = IF m_state > 0 THEN Append(tasks, m) ELSE tasks

StopPool ==
  /\ wiring # "sync" /\ m_state > 0 /\ m_state' = -1
  /\ UNCHANGED <<handlerVars, works, tasks, laneVars, runVars, dataVars>>

-----------------------------------------------------------------------------
(* MessageHandler *)

(* The message of a lane that is handled in order says so in its type; the *)
(* type of any other one is 0.                                             *)
Typed(m, lane) ==
  [m EXCEPT !.type = IF m.orderly /\ lane \in orderly THEN lane[2] ELSE 0]

Async(m, lane) ==
  /\ AddWorkTask(Typed(m, lane))
  /\ waiting' = IF Typed(m, lane).type = 0 THEN waiting ELSE waiting \cup {lane}
  /\ UNCHANGED runVars

HandleMessage(m, s) ==
  /\ running' = [running EXCEPT ![s] = m] /\ at' = [at EXCEPT ![s] = "get"]
  /\ UNCHANGED <<tasks, waiting, got>>

WithDefaultWork(m, lane) == wiring = "default" /\ Async(m, lane)
WithKeyedWork(m, lane) == wiring = "keyed" /\ (GetIntWork(m) \/ GetStrWork(m)) /\ Async(m, lane)
WithoutWork(m) ==
  /\ wiring = "keyed" /\ ~ (GetIntWork(m) \/ GetStrWork(m))
  /\ UNCHANGED <<tasks, waiting, runVars>>
WithoutPool(m, lane) == wiring = "sync" /\ HandleMessage(m, lane[1])

(* The thread of a session gives the next message of a lane to the handler *)
(* when the lane does not wait.                                            *)
Given(m, lane) ==
  /\ lane \notin waiting /\ running[lane[1]] = Nothing
  /\ messages < MaxMessages /\ messages' = messages + 1
  /\ m.id = messages'
  /\ UNCHANGED <<handlerVars, works, m_state, dataVars>>

MessageOf(lane) ==
  [id : {messages + 1}, lane : {lane}, type : {lane[2]}, orderly : BOOLEAN,
   key : Key, scope : {IF shared THEN Global ELSE lane[1]}]

OnRead(s) ==
  \E m \in MessageOf(<<s, 1>>) :
    /\ Given(m, <<s, 1>>)
    /\ \/ WithDefaultWork(m, <<s, 1>>) \/ WithKeyedWork(m, <<s, 1>>)
       \/ WithoutWork(m) \/ WithoutPool(m, <<s, 1>>)

DefaultAsyncProcessOnWrite(s) ==
  \E m \in MessageOf(<<s, 2>>) :
    /\ Given(m, <<s, 2>>)
    /\ \/ WithDefaultWork(m, <<s, 2>>) \/ WithKeyedWork(m, <<s, 2>>)
       \/ WithoutWork(m) \/ WithoutPool(m, <<s, 2>>)

-----------------------------------------------------------------------------
(* SharedData: who has one holds the mutex of the maps behind it.          *)

(* Fault: the mutex is not taken. *)
MayHoldAlways(r, s) == TRUE

MayHold(r, s) == lock[s] = Nobody

GetData(r, s) == MayHold(r, s) /\ lock' = [lock EXCEPT ![s] = r]

Got(map, key) == IF key \in DOMAIN map THEN map[key] ELSE {}

(* What is under the key is erased first, as insert would leave it.        *)
Put(map, key, value) == [k \in DOMAIN map \cup {key} |-> IF k = key THEN value ELSE map[k]]

GetInt(d, key) == Got(d.int, key)
GetStr(d, key) == Got(d.str, key)
GetBuf(d, key) == Got(d.buf, key)
GetObj(d, key) == Got(d.obj, key)
PutInt(d, key, value) == [d EXCEPT !.int = Put(@, key, value)]
PutStr(d, key, value) == [d EXCEPT !.str = Put(@, key, value)]
PutBuf(d, key, value) == [d EXCEPT !.buf = Put(@, key, value)]
PutObj(d, key, value) == [d EXCEPT !.obj = Put(@, key, value)]

Get(r) ==
  LET d == data[running[r].scope]
      key == running[r].key
  IN  /\ at[r] = "get" /\ at' = [at EXCEPT ![r] = "put"]
      /\ GetData(r, running[r].scope)
      /\ got' = [got EXCEPT ![r] = [int |-> GetInt(d, key), str |-> GetStr(d, key),
                                    buf |-> GetBuf(d, key), obj |-> GetObj(d, key)]]
      /\ UNCHANGED <<handlerVars, poolVars, laneVars, running, data, updated>>

Update(r) ==
  LET m == running[r]
      Value(i) == got[r][i] \cup {m.id}
      PutPlain(d) == PutStr(PutInt(d, m.key, Value("int")), m.key, Value("str"))
      PutPointers(d) == PutObj(PutBuf(d, m.key, Value("buf")), m.key, Value("obj"))
  IN  /\ at[r] = "put" /\ at' = [at EXCEPT ![r] = "release"]
      /\ data' = [data EXCEPT ![m.scope] = PutPointers(PutPlain(@))]
      /\ updated' = updated \cup {m}
      /\ got' = [got EXCEPT ![r] = NoEntries]
      /\ UNCHANGED <<handlerVars, poolVars, laneVars, running, lock>>

Released(r) == [s \in Scope |-> IF lock[s] = r THEN Nobody ELSE lock[s]]

Release(r) ==
  /\ at[r] = "release" /\ at' = [at EXCEPT ![r] = "return"] /\ lock' = Released(r)
  /\ UNCHANGED <<handlerVars, poolVars, laneVars, running, got, data, updated>>

-----------------------------------------------------------------------------
(* IoWork::Run, and what handles messages in place.                        *)

Run(w) ==
  /\ running[w] = Nothing /\ tasks # <<>> /\ m_state > 0
  /\ running' = [running EXCEPT ![w] = Head(tasks)] /\ tasks' = Tail(tasks)
  /\ at' = [at EXCEPT ![w] = "get"]
  /\ UNCHANGED <<handlerVars, works, m_state, laneVars, got, dataVars>>

(* Fault: after an exception the session is not called back. *)
AfterThrowOut(r) == "out"

AfterThrow(r) == "return"

(* An exception gives up the data, and is caught. *)
Throw(r) ==
  /\ at[r] \in {"get", "put", "release"}
  /\ at' = [at EXCEPT ![r] = AfterThrow(r)] /\ lock' = Released(r)
  /\ running' = [running EXCEPT ![r] = IF AfterThrow(r) = "out" THEN Nothing ELSE @]
  /\ got' = [got EXCEPT ![r] = NoEntries]
  /\ UNCHANGED <<handlerVars, poolVars, laneVars, data, updated>>

(* ProcessIncomingData or ProcessOutgoingData of the session.              *)
CalledBack(r) ==
  IF r \in PoolWorker /\ running[r].type \in {1, 2}
    THEN waiting \ {<<running[r].lane[1], running[r].type>>} ELSE waiting

Return(r) ==
  /\ at[r] = "return" /\ at' = [at EXCEPT ![r] = "out"]
  /\ waiting' = CalledBack(r)
  /\ running' = [running EXCEPT ![r] = Nothing]
  /\ UNCHANGED <<handlerVars, poolVars, messages, got, dataVars>>

Handle(r) == Get(r) \/ Update(r) \/ Release(r) \/ Throw(r) \/ Return(r)

Next ==
  \/ PutWork \/ StopPool
  \/ \E s \in HandlingSession : OnRead(s) \/ DefaultAsyncProcessOnWrite(s)
  \/ \E w \in PoolWorker : Run(w)
  \/ \E r \in Runner : Handle(r)

Spec == Init /\ [][Next]_vars

-----------------------------------------------------------------------------
(* Data nobody holds has every update that was made of it: two handlers of *)
(* one session, or of two sessions that share the manager's data, never    *)
(* overwrite each other's, on whatever threads they run (SharedData's      *)
(* constructor and destructor around its Get and Put).                     *)
UpdatesKept ==
  \A s \in Scope : lock[s] = Nobody =>
    \A key \in Key, i \in Kind :
      Got(data[s][i], key) = {m.id : m \in {u \in updated : u.scope = s /\ u.key = key}}

(* A lane that waits is called back: its message is with the pool, or the  *)
(* pool was stopped, whichever way the handler is wired and whatever the   *)
(* work throws (MessageHandler::OnRead and DefaultAsyncProcessOnWrite,     *)
(* IoWork::Run).                                                           *)
NobodyWaitsInVain ==
  \A lane \in waiting :
    LET Returns(m) == m # Nothing /\ m.lane = lane /\ m.type = lane[2]
    IN  \/ m_state <= 0
        \/ \E i \in DOMAIN tasks : Returns(tasks[i])
        \/ \E w \in PoolWorker : Returns(running[w])

=============================================================================
