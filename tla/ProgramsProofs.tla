--------------------------- MODULE ProgramsProofs ---------------------------
(* What MCPrograms checks of parts of the library and of the samples, for  *)
(* any sizes: no update of shared data is lost and no lane waits for a     *)
(* message that nobody has (Handling); the maps know living providers only *)
(* (Clay); a logger in use has its sinks (Logs); every client of the chat  *)
(* prints one conversation (Chat); the replies of a round are put together *)
(* to what was asked for (JsonSample); no session of a sample uses what    *)
(* its end destroyed, and all its objects end (Lifetimes).                 *)
EXTENDS Handling, Clay, Logs, Chat, JsonSample, Lifetimes, SequenceTheorems, TLAPS

-----------------------------------------------------------------------------
(* Handling: the types.                                                    *)

(* Messages as they are given to the handler, or queued for the pool.      *)
Message ==
  [id : Nat, lane : Lane, type : {0, 1, 2}, orderly : BOOLEAN, key : Key, scope : Scope]

(* The maps of one kind: ids of messages by key.                           *)
Map == UNION {[keys -> SUBSET Nat] : keys \in SUBSET Key}

(* The settings, the pool and the lanes.                                   *)
PoolType ==
  /\ wiring \in {"sync", "default", "keyed"} /\ orderly \subseteq Lane /\ shared \in BOOLEAN
  /\ works \subseteq Key /\ m_state \in {1, -1} /\ tasks \in Seq(Message)
  /\ waiting \subseteq Lane /\ messages \in Nat

(* The runners: who is somewhere in Handle has a message.                  *)
RunnerType ==
  /\ running \in [Runner -> Message \cup {Nothing}]
  /\ at \in [Runner -> {"out", "get", "put", "release", "return"}]
  /\ \A r \in Runner : at[r] # "out" => running[r] \in Message
  /\ got \in [Runner -> [Kind -> SUBSET Nat]]

(* The data, and the history of its updates.                               *)
DataType ==
  /\ lock \in [Scope -> Runner \cup {Nobody}]
  /\ data \in [Scope -> [Kind -> Map]]
  /\ updated \subseteq Message

HandlingType == PoolType /\ RunnerType /\ DataType

(* Nothing is no message.                                                  *)
LEMMA NothingIsNone == Nothing \notin Message
BY DEF Nothing, Message

(* The lanes, the scopes and the runners.                                  *)
LEMMA Sorts ==
  /\ HandlingSession \subseteq Runner /\ PoolWorker \subseteq Runner
  /\ HandlingSession \subseteq Scope /\ Global \in Scope
  /\ \A s \in HandlingSession, d \in {1, 2} : <<s, d>> \in Lane
  /\ \A lane \in Lane : lane[1] \in HandlingSession /\ lane[2] \in {1, 2} /\ lane = <<lane[1], lane[2]>>
  /\ Nobody \notin Runner
BY HandlingAssumption DEF Runner, Scope, Lane, Global, Nobody

(* What a map has under a key, once something was put under one.           *)
LEMMA PutGot ==
  ASSUME NEW map, NEW key, NEW value, NEW other
  PROVE  Got(Put(map, key, value), other) = IF other = key THEN value ELSE Got(map, other)
BY DEF Got, Put

(* Maps stay maps, and what they have are sets of ids.                     *)
LEMMA MapType ==
  ASSUME NEW map \in Map, NEW key \in Key
  PROVE  /\ Got(map, key) \in SUBSET Nat
         /\ \A value \in SUBSET Nat : Put(map, key, value) \in Map
<1>1. PICK keys \in SUBSET Key : map \in [keys -> SUBSET Nat]
  BY DEF Map
<1>2. \A value \in SUBSET Nat : Put(map, key, value) \in [keys \cup {key} -> SUBSET Nat]
  BY <1>1 DEF Put
<1>3. keys \cup {key} \in SUBSET Key
  BY <1>1
<1> QED
  BY <1>1, <1>2, <1>3 DEF Map, Got

(* What Get reads of the data of its message.                              *)
LEMMA GetReads ==
  ASSUME HandlingType, NEW r \in Runner, Get(r)
  PROVE  /\ running[r] \in Message
         /\ \A i \in Kind : got'[r][i] = Got(data[running[r].scope][i], running[r].key)
         /\ got'[r] \in [Kind -> SUBSET Nat]
<1>1. running[r] \in Message /\ running[r].scope \in Scope /\ running[r].key \in Key
  BY DEF Get, HandlingType, RunnerType, Message
<1> DEFINE d == data[running[r].scope]
           key == running[r].key
<1>2. d \in [Kind -> Map]
  BY <1>1 DEF HandlingType, DataType
<1>3. \A i \in Kind : Got(d[i], key) \in SUBSET Nat
  BY <1>1, <1>2, MapType
<1>4. got'[r] = [int |-> Got(d.int, key), str |-> Got(d.str, key),
                 buf |-> Got(d.buf, key), obj |-> Got(d.obj, key)]
  BY DEF Get, GetInt, GetStr, GetBuf, GetObj, HandlingType, RunnerType
<1>5. \A i \in Kind : got'[r][i] = Got(d[i], key)
  BY <1>4 DEF Kind
<1>6. got'[r] \in [Kind -> SUBSET Nat]
  BY <1>3, <1>4 DEF Kind
<1> QED
  BY <1>1, <1>5, <1>6

(* What Update leaves in the data of its message, and in any other.        *)
LEMMA UpdateWrites ==
  ASSUME HandlingType, NEW r \in Runner, Update(r)
  PROVE  LET m == running[r]
         IN  /\ m \in Message
             /\ \A s \in Scope \ {m.scope} : data'[s] = data[s]
             /\ \A i \in Kind : data'[m.scope][i] = Put(data[m.scope][i], m.key, got[r][i] \cup {m.id})
             /\ data' \in [Scope -> [Kind -> Map]]
<1> DEFINE m == running[r]
           d == data[m.scope]
           Value(i) == got[r][i] \cup {m.id}
<1>1. m \in Message /\ m.scope \in Scope /\ m.key \in Key /\ m.id \in Nat
  BY DEF Update, HandlingType, RunnerType, Message
<1>2. data \in [Scope -> [Kind -> Map]] /\ d \in [Kind -> Map]
  BY <1>1 DEF HandlingType, DataType
<1> DEFINE e == PutObj(PutBuf(PutStr(PutInt(d, m.key, Value("int")), m.key, Value("str")),
                              m.key, Value("buf")), m.key, Value("obj"))
<1>3. data' = [data EXCEPT ![m.scope] = e]
  BY DEF Update
<1>4. DOMAIN e = Kind /\ \A i \in Kind : e[i] = Put(d[i], m.key, Value(i))
  BY <1>2 DEF PutObj, PutBuf, PutStr, PutInt, Kind
<1>5. \A i \in Kind : Value(i) \in SUBSET Nat
  BY <1>1 DEF HandlingType, RunnerType
<1>6. \A i \in Kind : Put(d[i], m.key, Value(i)) \in Map
  BY <1>1, <1>2, <1>5, MapType
<1>7. e \in [Kind -> Map]
  <2>1. e = [i \in Kind |-> e[i]]
    BY <1>2 DEF PutObj, PutBuf, PutStr, PutInt
  <2> HIDE DEF e
  <2> QED
    BY <1>4, <1>6, <2>1
<1> HIDE DEF e
<1> QED
  BY <1>1, <1>2, <1>3, <1>4, <1>7

-----------------------------------------------------------------------------
(* Every step keeps the types.                                             *)

(* The handler is wired, and nothing happened yet.                         *)
LEMMA TypeInit == Init => HandlingType
<1> SUFFICES ASSUME Init PROVE HandlingType
  OBVIOUS
<1>1. PoolType
  BY HandlingAssumption DEF Init, PoolType, Lane
<1>2. RunnerType
  BY DEF Init, RunnerType, NoEntries
<1>3. Empty \in Map
  <2>1. Empty \in [{} -> SUBSET Nat]
    BY DEF Empty
  <2> QED
    BY <2>1 DEF Map
<1>4. DataType
  BY <1>3 DEF Init, DataType
<1> QED
  BY <1>1, <1>2, <1>4 DEF HandlingType

(* A message that a session gives to the handler, as it may be queued.     *)
LEMMA GivenMessage ==
  ASSUME HandlingType, NEW lane \in Lane, NEW m \in MessageOf(lane)
  PROVE  /\ m \in Message /\ m.lane = lane /\ m.type = lane[2]
         /\ Typed(m, lane) \in Message /\ Typed(m, lane).lane = lane
         /\ Typed(m, lane).type \in {0, lane[2]}
<1>1. m \in Message /\ m.lane = lane /\ m.type = lane[2]
  BY Sorts DEF HandlingType, PoolType, MessageOf, Message
<1> QED
  BY <1>1, Sorts DEF Typed, Message

(* What a message does, given to the handler: it is queued, handled in     *)
(* place, or nothing.                                                      *)
Handed(m, lane) ==
  \/ WithDefaultWork(m, lane) \/ WithKeyedWork(m, lane)
  \/ WithoutWork(m) \/ WithoutPool(m, lane)

(* The types when a session gives a message to the handler.                *)
LEMMA HandedType ==
  ASSUME HandlingType, NEW lane \in Lane, NEW m \in MessageOf(lane),
         Given(m, lane), Handed(m, lane)
  PROVE  HandlingType'
<1>1. /\ UNCHANGED <<wiring, orderly, shared, works, m_state, lock, data, updated>>
      /\ messages' \in Nat
  BY DEF Given, handlerVars, dataVars, HandlingType, PoolType
<1>2. m \in Message /\ Typed(m, lane) \in Message /\ lane[1] \in Runner
  BY GivenMessage, Sorts
<1>3. CASE Async(m, lane)
  <2>1. tasks' \in Seq(Message)
    BY <1>2, <1>3 DEF Async, AddWorkTask, HandlingType, PoolType
  <2>2. waiting' \subseteq Lane
    BY <1>3 DEF Async, HandlingType, PoolType
  <2>3. UNCHANGED <<running, at, got>>
    BY <1>3 DEF Async, runVars
  <2> QED
    BY <1>1, <2>1, <2>2, <2>3 DEF HandlingType, PoolType, RunnerType, DataType
<1>4. CASE WithoutWork(m)
  BY <1>1, <1>4 DEF WithoutWork, runVars, HandlingType, PoolType, RunnerType, DataType
<1>5. CASE HandleMessage(m, lane[1])
  <2>1. UNCHANGED <<tasks, waiting, got>>
    BY <1>5 DEF HandleMessage
  <2>2. RunnerType'
    BY <1>2, <1>5, <2>1 DEF HandleMessage, HandlingType, RunnerType
  <2> QED
    BY <1>1, <2>1, <2>2 DEF HandlingType, PoolType, DataType
<1> QED
  BY <1>3, <1>4, <1>5 DEF Handed, WithDefaultWork, WithKeyedWork, WithoutPool

(* Both kinds of messages are given so.                                    *)
LEMMA SessionGives ==
  ASSUME NEW s \in HandlingSession, OnRead(s) \/ DefaultAsyncProcessOnWrite(s)
  PROVE  \E lane \in Lane : \E m \in MessageOf(lane) : Given(m, lane) /\ Handed(m, lane)
<1>1. <<s, 1>> \in Lane /\ <<s, 2>> \in Lane
  BY Sorts
<1>2. CASE OnRead(s)
  BY <1>1, <1>2 DEF OnRead, Handed
<1>3. CASE DefaultAsyncProcessOnWrite(s)
  BY <1>1, <1>3 DEF DefaultAsyncProcessOnWrite, Handed
<1> QED
  BY <1>2, <1>3

(* The types when a runner goes on.                                        *)
LEMMA HandleType ==
  ASSUME HandlingType, NEW r \in Runner, Handle(r)
  PROVE  HandlingType'
<1>1. CASE Get(r)
  <2>1. running[r] \in Message /\ got'[r] \in [Kind -> SUBSET Nat]
    BY <1>1, GetReads
  <2>2. \E g : got' = [got EXCEPT ![r] = g]
    BY <1>1 DEF Get
  <2>3. got' \in [Runner -> [Kind -> SUBSET Nat]]
    BY <2>1, <2>2 DEF HandlingType, RunnerType
  <2>4. UNCHANGED <<handlerVars, poolVars, laneVars, running, data, updated>>
    BY <1>1 DEF Get
  <2>5. at' = [at EXCEPT ![r] = "put"] /\ \E s : lock' = [lock EXCEPT ![s] = r]
    BY <1>1 DEF Get, GetData
  <2>6. RunnerType'
    BY <2>1, <2>3, <2>4, <2>5 DEF HandlingType, RunnerType
  <2>7. DataType'
    BY <2>4, <2>5 DEF HandlingType, DataType
  <2>8. PoolType'
    BY <2>4 DEF handlerVars, poolVars, laneVars, HandlingType, PoolType
  <2> QED
    BY <2>6, <2>7, <2>8 DEF HandlingType
<1>2. CASE Update(r)
  <2>1. running[r] \in Message /\ data' \in [Scope -> [Kind -> Map]]
    BY <1>2, UpdateWrites
  <2>2. /\ UNCHANGED <<handlerVars, poolVars, laneVars, running, lock>>
        /\ updated' = updated \cup {running[r]}
        /\ at' = [at EXCEPT ![r] = "release"] /\ got' = [got EXCEPT ![r] = NoEntries]
    BY <1>2 DEF Update
  <2>3. NoEntries \in [Kind -> SUBSET Nat]
    BY DEF NoEntries
  <2>4. RunnerType'
    BY <2>1, <2>2, <2>3 DEF HandlingType, RunnerType
  <2>5. DataType'
    BY <2>1, <2>2 DEF HandlingType, DataType
  <2>6. PoolType'
    BY <2>2 DEF handlerVars, poolVars, laneVars, HandlingType, PoolType
  <2> QED
    BY <2>4, <2>5, <2>6 DEF HandlingType
<1>3. Released(r) \in [Scope -> Runner \cup {Nobody}]
  BY DEF Released, HandlingType, DataType
<1>4. CASE Release(r)
  <2>1. RunnerType'
    BY <1>4 DEF Release, HandlingType, RunnerType
  <2>2. DataType'
    BY <1>3, <1>4 DEF Release, HandlingType, DataType
  <2>3. PoolType'
    BY <1>4 DEF Release, handlerVars, poolVars, laneVars, HandlingType, PoolType
  <2> QED
    BY <2>1, <2>2, <2>3 DEF HandlingType
<1>5. CASE Throw(r)
  <2>1. NoEntries \in [Kind -> SUBSET Nat]
    BY DEF NoEntries
  <2>2. RunnerType'
    BY <1>5, <2>1 DEF Throw, AfterThrow, HandlingType, RunnerType
  <2>3. DataType'
    BY <1>3, <1>5 DEF Throw, HandlingType, DataType
  <2>4. PoolType'
    BY <1>5 DEF Throw, handlerVars, poolVars, laneVars, HandlingType, PoolType
  <2> QED
    BY <2>2, <2>3, <2>4 DEF HandlingType
<1>6. CASE Return(r)
  <2>1. RunnerType'
    BY <1>6 DEF Return, HandlingType, RunnerType
  <2>2. DataType'
    BY <1>6 DEF Return, dataVars, HandlingType, DataType
  <2>3. PoolType'
    BY <1>6 DEF Return, CalledBack, handlerVars, poolVars, HandlingType, PoolType
  <2> QED
    BY <2>1, <2>2, <2>3 DEF HandlingType
<1> QED
  BY <1>1, <1>2, <1>4, <1>5, <1>6 DEF Handle

(* The types when a worker takes the first task.                           *)
LEMMA RunType ==
  ASSUME HandlingType, NEW w \in PoolWorker, Run(w)
  PROVE  HandlingType' /\ Head(tasks) \in Message
<1>1. Head(tasks) \in Message /\ Tail(tasks) \in Seq(Message)
  BY DEF Run, HandlingType, PoolType
<1>2. RunnerType'
  BY <1>1, Sorts DEF Run, HandlingType, RunnerType
<1>3. PoolType'
  BY <1>1 DEF Run, handlerVars, laneVars, HandlingType, PoolType
<1>4. DataType'
  BY DEF Run, dataVars, HandlingType, DataType
<1> QED
  BY <1>1, <1>2, <1>3, <1>4 DEF HandlingType

(* The types after any step.                                               *)
LEMMA TypeNext == HandlingType /\ [Next]_vars => HandlingType'
<1> SUFFICES ASSUME HandlingType, [Next]_vars PROVE HandlingType'
  OBVIOUS
<1>1. CASE PutWork
  BY <1>1
  DEF PutWork, PutIntWork, PutStrWork, handlerVars, laneVars, runVars, dataVars, Key,
      HandlingType, PoolType, RunnerType, DataType
<1>2. CASE StopPool
  BY <1>2
  DEF StopPool, handlerVars, laneVars, runVars, dataVars,
      HandlingType, PoolType, RunnerType, DataType
<1>3. ASSUME NEW s \in HandlingSession, OnRead(s) \/ DefaultAsyncProcessOnWrite(s)
      PROVE  HandlingType'
  BY <1>3, SessionGives, HandedType
<1>4. ASSUME NEW w \in PoolWorker, Run(w) PROVE HandlingType'
  BY <1>4, RunType
<1>5. ASSUME NEW r \in Runner, Handle(r) PROVE HandlingType'
  BY <1>5, HandleType
<1>6. CASE UNCHANGED vars
  BY <1>6
  DEF vars, handlerVars, poolVars, laneVars, runVars, dataVars,
      HandlingType, PoolType, RunnerType, DataType
<1> QED
  BY <1>1, <1>2, <1>3, <1>4, <1>5, <1>6 DEF Next

(* The variables keep their types, and who is in Handle has a message.     *)
THEOREM HandlingTypeCorrect == Spec => []HandlingType
BY TypeInit, TypeNext, PTL DEF Spec

-----------------------------------------------------------------------------
(* Updates.                                                                *)

(* The ids of the messages whose update was made under a key of a data.    *)
UpdatesOf(s, key) == {m.id : m \in {u \in updated : u.scope = s /\ u.key = key}}

(* Data has every update, also while somebody holds it: Update puts back   *)
(* what Get got with the message added, in one step.                       *)
Kept ==
  \A s \in Scope, key \in Key, i \in Kind : Got(data[s][i], key) = UpdatesOf(s, key)

(* Who has got the data of its message holds it until it is released, and  *)
(* until then what it got is what there is.                                *)
Holding ==
  \A r \in Runner :
    /\ at[r] \in {"put", "release"} => lock[running[r].scope] = r
    /\ at[r] = "put" =>
         \A i \in Kind : got[r][i] = Got(data[running[r].scope][i], running[r].key)

(* What a step may do that neither reads nor writes data: the runners that *)
(* hold some stay where they are.                                          *)
LEMMA HoldingStays ==
  ASSUME Holding, UNCHANGED <<lock, data>>,
         \A r \in Runner : at'[r] \in {"put", "release"} =>
           UNCHANGED <<at[r], running[r], got[r]>>
  PROVE  Holding'
BY DEF Holding

(* An update of the message of r adds its id where it belongs.             *)
LEMMA UpdateKeeps ==
  ASSUME HandlingType, Kept, Holding, NEW r \in Runner, Update(r)
  PROVE  Kept'
<1> DEFINE m == running[r]
<1>1. /\ m \in Message /\ m.scope \in Scope
      /\ \A s \in Scope \ {m.scope} : data'[s] = data[s]
      /\ \A i \in Kind : data'[m.scope][i] = Put(data[m.scope][i], m.key, got[r][i] \cup {m.id})
  BY UpdateWrites DEF Message
<1>2. \A i \in Kind : got[r][i] = Got(data[m.scope][i], m.key)
  BY DEF Update, Holding
<1>3. updated' = updated \cup {m}
  BY DEF Update
<1>4. \A s, key : UpdatesOf(s, key)' =
        IF s = m.scope /\ key = m.key THEN UpdatesOf(s, key) \cup {m.id} ELSE UpdatesOf(s, key)
  BY <1>3 DEF UpdatesOf
<1> SUFFICES ASSUME NEW s \in Scope, NEW key \in Key, NEW i \in Kind
             PROVE  Got(data'[s][i], key) = UpdatesOf(s, key)'
  BY DEF Kept
<1> HIDE DEF m
<1>5. CASE s # m.scope
  BY <1>1, <1>4, <1>5 DEF Kept
<1>6. CASE s = m.scope
  <2>1. Got(data'[s][i], key) =
          IF key = m.key THEN Got(data[s][i], key) \cup {m.id} ELSE Got(data[s][i], key)
    <3>1. got[r][i] = Got(data[s][i], m.key)
      BY <1>2, <1>6
    <3>2. data'[s][i] = Put(data[s][i], m.key, got[r][i] \cup {m.id})
      BY <1>1, <1>6
    <3>3. Got(data'[s][i], key) =
            IF key = m.key THEN got[r][i] \cup {m.id} ELSE Got(data[s][i], key)
      BY <3>2, PutGot
    <3> QED
      BY <3>1, <3>3
  <2>2. Got(data[s][i], key) = UpdatesOf(s, key)
    BY DEF Kept
  <2> QED
    BY <1>4, <1>6, <2>1, <2>2
<1> QED
  BY <1>5, <1>6

(* A runner that goes on keeps the updates, and others hold what they held. *)
LEMMA HandleKeeps ==
  ASSUME HandlingType, Kept, Holding, NEW r \in Runner, Handle(r)
  PROVE  Kept' /\ Holding'
<1>1. CASE Get(r)
  <2>1. /\ UNCHANGED <<data, updated, running>> /\ at[r] = "get"
        /\ lock[running[r].scope] = Nobody /\ lock' = [lock EXCEPT ![running[r].scope] = r]
        /\ at' = [at EXCEPT ![r] = "put"]
        /\ \A q \in Runner \ {r} : got'[q] = got[q]
    BY <1>1 DEF Get, GetData, MayHold, HandlingType, RunnerType
  <2>2. Kept'
    BY <2>1 DEF Kept, UpdatesOf
  <2>3. running[r].scope \in Scope /\ \A i \in Kind :
          got'[r][i] = Got(data[running[r].scope][i], running[r].key)
    BY <1>1, GetReads DEF Message
  <2>4. lock' \in [Scope -> Runner \cup {Nobody}] /\ lock'[running[r].scope] = r
    BY <2>1, <2>3 DEF HandlingType, DataType
  <2>5. ASSUME NEW q \in Runner \ {r}, at[q] \in {"put", "release"}
        PROVE  lock'[running[q].scope] = q
    <3>1. lock[running[q].scope] = q
      BY <2>5 DEF Holding
    <3>2. running[q].scope # running[r].scope
      BY <2>1, <3>1, Sorts
    <3>3. running[q].scope \in Scope
      BY <2>5 DEF HandlingType, RunnerType, Message
    <3> QED
      BY <2>1, <3>1, <3>2, <3>3 DEF HandlingType, DataType
  <2>6. \A q \in Runner \ {r} : at'[q] = at[q]
    BY <2>1 DEF HandlingType, RunnerType
  <2>7. Holding'
    BY <2>1, <2>3, <2>4, <2>5, <2>6 DEF Holding
  <2> QED
    BY <2>2, <2>7
<1>2. CASE Update(r)
  <2>1. /\ UNCHANGED <<running, lock>> /\ at[r] = "put" /\ at' = [at EXCEPT ![r] = "release"]
        /\ got' = [got EXCEPT ![r] = NoEntries]
    BY <1>2 DEF Update
  <2>2. \A s \in Scope \ {running[r].scope} : data'[s] = data[s]
    BY <1>2, UpdateWrites
  <2>3. ASSUME NEW q \in Runner \ {r}, at[q] \in {"put", "release"}
        PROVE  running[q].scope \in Scope \ {running[r].scope}
    BY <2>1, <2>3 DEF Holding, HandlingType, RunnerType, Message
  <2>4. /\ \A q \in Runner \ {r} : at'[q] = at[q] /\ got'[q] = got[q]
        /\ at'[r] = "release"
    BY <2>1 DEF HandlingType, RunnerType
  <2>5. lock[running[r].scope] = r
    BY <2>1 DEF Holding
  <2>6. Holding'
    BY <2>1, <2>2, <2>3, <2>4, <2>5 DEF Holding
  <2> QED
    BY <1>2, <2>6, UpdateKeeps
<1>3. \A q \in Runner \ {r} : \A s \in Scope : lock[s] = q => Released(r)[s] = q
  BY DEF Released
<1>4. ASSUME lock' = Released(r), UNCHANGED <<data, updated>>, at'[r] \notin {"put", "release"},
             \A q \in Runner \ {r} : UNCHANGED <<at[q], running[q], got[q]>>
      PROVE  Kept' /\ Holding'
  <2>1. Kept'
    BY <1>4 DEF Kept, UpdatesOf
  <2>2. \A q \in Runner : at[q] \in {"put", "release"} => running[q].scope \in Scope
    BY DEF HandlingType, RunnerType, Message
  <2>3. Holding'
    BY <1>3, <1>4, <2>2 DEF Holding
  <2> QED
    BY <2>1, <2>3
<1>5. CASE Release(r)
  <2>1. /\ at'[r] = "return" /\ \A q \in Runner \ {r} : UNCHANGED <<at[q], running[q], got[q]>>
    BY <1>5 DEF Release, HandlingType, RunnerType
  <2> QED
    BY <1>4, <1>5, <2>1 DEF Release
<1>6. CASE Throw(r)
  <2>1. /\ at'[r] = "return" /\ \A q \in Runner \ {r} : UNCHANGED <<at[q], running[q], got[q]>>
    BY <1>6 DEF Throw, AfterThrow, HandlingType, RunnerType
  <2> QED
    BY <1>4, <1>6, <2>1 DEF Throw
<1>7. CASE Return(r)
  <2>1. /\ UNCHANGED <<lock, data, updated>> /\ at'[r] = "out"
        /\ \A q \in Runner \ {r} : UNCHANGED <<at[q], running[q], got[q]>>
    BY <1>7 DEF Return, dataVars, HandlingType, RunnerType
  <2>2. Kept'
    BY <2>1 DEF Kept, UpdatesOf
  <2> QED
    BY <2>1, <2>2, HoldingStays
<1> QED
  BY <1>1, <1>2, <1>5, <1>6, <1>7 DEF Handle

(* Who takes a message gets nothing yet.                                   *)
LEMMA TakeKeeps ==
  ASSUME HandlingType, Kept, Holding, NEW r \in Runner,
         UNCHANGED <<data, updated, lock>>, at'[r] = "get",
         \A q \in Runner \ {r} : UNCHANGED <<at[q], running[q], got[q]>>
  PROVE  Kept' /\ Holding'
<1>1. Kept'
  BY DEF Kept, UpdatesOf
<1> QED
  BY <1>1, HoldingStays

(* What steps of others leave alone.                                       *)
LEMMA OthersKeep ==
  ASSUME Kept, Holding, UNCHANGED <<runVars, dataVars>>
  PROVE  Kept' /\ Holding'
<1>1. UNCHANGED <<running, at, got, lock, data, updated>>
  BY DEF runVars, dataVars
<1>2. Kept'
  BY <1>1 DEF Kept, UpdatesOf
<1>3. Holding'
  BY <1>1 DEF Holding
<1> QED
  BY <1>2, <1>3

(* Every step keeps the updates.                                           *)
LEMMA KeptNext ==
  HandlingType /\ Kept /\ Holding /\ [Next]_vars => Kept' /\ Holding'
<1> SUFFICES ASSUME HandlingType, Kept, Holding, [Next]_vars PROVE Kept' /\ Holding'
  OBVIOUS
<1>1. CASE PutWork \/ StopPool
  BY <1>1, OthersKeep DEF PutWork, StopPool
<1>2. ASSUME NEW lane \in Lane, NEW m \in MessageOf(lane), Given(m, lane), Handed(m, lane)
      PROVE  Kept' /\ Holding'
  <2>1. UNCHANGED dataVars
    BY <1>2 DEF Given
  <2>2. CASE Async(m, lane) \/ WithoutWork(m)
    BY <2>1, <2>2, OthersKeep DEF Async, WithoutWork
  <2>3. CASE HandleMessage(m, lane[1])
    <3>1. lane[1] \in Runner
      BY Sorts
    <3>2. /\ UNCHANGED <<data, updated, lock>> /\ at'[lane[1]] = "get"
          /\ \A q \in Runner \ {lane[1]} : UNCHANGED <<at[q], running[q], got[q]>>
      BY <2>1, <2>3, <3>1 DEF HandleMessage, dataVars, HandlingType, RunnerType
    <3> QED
      BY <3>1, <3>2, TakeKeeps
  <2> QED
    BY <1>2, <2>2, <2>3 DEF Handed, WithDefaultWork, WithKeyedWork, WithoutPool
<1>3. ASSUME NEW s \in HandlingSession, OnRead(s) \/ DefaultAsyncProcessOnWrite(s)
      PROVE  Kept' /\ Holding'
  BY <1>2, <1>3, SessionGives
<1>4. ASSUME NEW w \in PoolWorker, Run(w) PROVE Kept' /\ Holding'
  <2>1. w \in Runner
    BY Sorts
  <2>2. /\ UNCHANGED <<data, updated, lock>> /\ at'[w] = "get"
        /\ \A q \in Runner \ {w} : UNCHANGED <<at[q], running[q], got[q]>>
    BY <1>4, <2>1 DEF Run, dataVars, HandlingType, RunnerType
  <2> QED
    BY <2>1, <2>2, TakeKeeps
<1>5. ASSUME NEW r \in Runner, Handle(r) PROVE Kept' /\ Holding'
  BY <1>5, HandleKeeps
<1>6. CASE UNCHANGED vars
  BY <1>6, OthersKeep DEF vars
<1> QED
  BY <1>1, <1>3, <1>4, <1>5, <1>6 DEF Next

(* Data nobody holds has every update that was made of it.                 *)
THEOREM HandlingUpdatesKept == Spec => []UpdatesKept
<1>1. Init => Kept /\ Holding
  BY DEF Init, Kept, Holding, UpdatesOf, Got, Empty
<1>2. Kept => UpdatesKept
  BY DEF Kept, UpdatesKept, UpdatesOf
<1> QED
  BY <1>1, <1>2, TypeInit, TypeNext, KeptNext, PTL DEF Spec

-----------------------------------------------------------------------------
(* Waiting.                                                                *)

(* The message m will have the lane called back when it was handled.       *)
Returns(m, lane) == m # Nothing /\ m.lane = lane /\ m.type = lane[2]

(* Who waits for a message that is queued or with a worker, or a pool that *)
(* was stopped.                                                            *)
CalledFor(lane) ==
  \/ m_state <= 0
  \/ \E i \in DOMAIN tasks : Returns(tasks[i], lane)
  \/ \E w \in PoolWorker : Returns(running[w], lane)

(* A lane that starts to wait has its message queued.                      *)
LEMMA AsyncCalls ==
  ASSUME HandlingType, NobodyWaitsInVain, NEW lane \in Lane, NEW m \in MessageOf(lane),
         Async(m, lane), UNCHANGED m_state
  PROVE  NobodyWaitsInVain'
<1> DEFINE n == Typed(m, lane)
<1>1. n \in Message /\ n.lane = lane /\ n.type \in {0, lane[2]}
  BY GivenMessage
<1>2. UNCHANGED running /\ (waiting' = waiting \/ (n.type = lane[2] /\ waiting' = waiting \cup {lane}))
  BY <1>1 DEF Async, runVars
<1> HIDE DEF n
<1>3. ASSUME m_state > 0
      PROVE  /\ tasks' \in Seq(Message) /\ tasks' = Append(tasks, n)
             /\ \A i \in DOMAIN tasks : i \in DOMAIN tasks' /\ tasks'[i] = tasks[i]
             /\ Len(tasks) + 1 \in DOMAIN tasks' /\ tasks'[Len(tasks) + 1] = n
  BY <1>1, <1>3 DEF Async, AddWorkTask, n, HandlingType, PoolType
<1>4. \A l \in waiting : CalledFor(l)
  BY DEF NobodyWaitsInVain, CalledFor, Returns
<1>5. \A l \in waiting : CalledFor(l)'
  BY <1>2, <1>3, <1>4 DEF CalledFor, HandlingType, PoolType
<1>6. n.type = lane[2] => CalledFor(lane)'
  BY <1>1, <1>3, NothingIsNone DEF CalledFor, Returns, HandlingType, PoolType
<1> QED
  BY <1>2, <1>5, <1>6 DEF NobodyWaitsInVain, CalledFor, Returns

(* Steps after which the pool has what it had, and no lane waits anew.     *)
LEMMA CallsStay ==
  ASSUME NobodyWaitsInVain, UNCHANGED <<m_state, tasks>>, waiting' \subseteq waiting,
         \A lane \in waiting', w \in PoolWorker :
           Returns(running[w], lane) => Returns(running'[w], lane)
  PROVE  NobodyWaitsInVain'
BY DEF NobodyWaitsInVain, Returns

(* A worker has what was the first task.                                   *)
LEMMA RunCalls ==
  ASSUME HandlingType, NobodyWaitsInVain, NEW w \in PoolWorker, Run(w)
  PROVE  NobodyWaitsInVain'
<1>1. /\ tasks \in Seq(Message) /\ tasks # <<>> /\ tasks' = Tail(tasks)
      /\ running[w] = Nothing /\ running'[w] = Head(tasks)
      /\ \A v \in PoolWorker \ {w} : running'[v] = running[v]
      /\ UNCHANGED <<waiting, m_state>>
  BY Sorts DEF Run, laneVars, HandlingType, PoolType, RunnerType
<1>2. \A i \in DOMAIN tasks : i = 1 \/ (i - 1 \in DOMAIN Tail(tasks) /\ Tail(tasks)[i - 1] = tasks[i])
  BY <1>1
<1>3. ASSUME NEW lane \in waiting, CalledFor(lane) PROVE CalledFor(lane)'
  <2>1. ASSUME NEW i \in DOMAIN tasks, Returns(tasks[i], lane) PROVE CalledFor(lane)'
    <3>1. CASE i = 1
      BY <1>1, <2>1, <3>1 DEF CalledFor
    <3>2. CASE i # 1
      <4>1. i - 1 \in DOMAIN tasks' /\ tasks'[i - 1] = tasks[i]
        BY <1>1, <1>2, <3>2
      <4> QED
        BY <2>1, <4>1 DEF CalledFor
    <3> QED
      BY <3>1, <3>2
  <2>2. ASSUME NEW v \in PoolWorker, Returns(running[v], lane) PROVE CalledFor(lane)'
    BY <1>1, <2>2 DEF CalledFor, Returns
  <2> QED
    BY <1>1, <1>3, <2>1, <2>2 DEF CalledFor
<1>4. \A lane \in waiting : CalledFor(lane)
  BY DEF NobodyWaitsInVain, CalledFor, Returns
<1>5. \A lane \in waiting' : CalledFor(lane)'
  BY <1>1, <1>3, <1>4
<1> QED
  BY <1>5 DEF NobodyWaitsInVain, CalledFor, Returns

(* A worker that returns calls back the lane of its message, and no other. *)
LEMMA HandleCalls ==
  ASSUME HandlingType, NobodyWaitsInVain, NEW r \in Runner, Handle(r)
  PROVE  NobodyWaitsInVain'
<1>1. CASE Get(r) \/ Update(r) \/ Release(r) \/ Throw(r)
  <2>1. UNCHANGED <<m_state, tasks, waiting, running>>
    BY <1>1 DEF Get, Update, Release, Throw, AfterThrow, poolVars, laneVars, HandlingType, RunnerType
  <2> QED
    BY <2>1, CallsStay
<1>2. CASE Return(r)
  <2>1. /\ UNCHANGED <<m_state, tasks>> /\ waiting' = CalledBack(r)
        /\ running[r] \in Message
        /\ \A v \in Runner \ {r} : running'[v] = running[v]
    BY <1>2 DEF Return, poolVars, HandlingType, RunnerType
  <2>2. ASSUME NEW lane \in waiting', r \in PoolWorker, Returns(running[r], lane) PROVE FALSE
    <3>1. lane \in Lane /\ lane \in waiting
      BY <2>1, <2>2 DEF CalledBack, HandlingType, PoolType
    <3>2. running[r].type \in {1, 2} /\ lane = <<running[r].lane[1], running[r].type>>
      BY <2>2, <3>1, Sorts DEF Returns
    <3> QED
      BY <2>1, <2>2, <3>2 DEF CalledBack
  <2>3. \A lane \in waiting', v \in PoolWorker :
          Returns(running[v], lane) => Returns(running'[v], lane)
    BY <2>1, <2>2, Sorts
  <2> QED
    BY <2>1, <2>3, CallsStay DEF CalledBack
<1> QED
  BY <1>1, <1>2 DEF Handle

(* Every step keeps the calls.                                             *)
LEMMA CallsNext == HandlingType /\ NobodyWaitsInVain /\ [Next]_vars => NobodyWaitsInVain'
<1> SUFFICES ASSUME HandlingType, NobodyWaitsInVain, [Next]_vars PROVE NobodyWaitsInVain'
  OBVIOUS
<1>1. CASE PutWork
  BY <1>1, CallsStay DEF PutWork, laneVars, runVars
<1>2. CASE StopPool
  BY <1>2 DEF StopPool, laneVars, runVars, NobodyWaitsInVain
<1>3. ASSUME NEW lane \in Lane, NEW m \in MessageOf(lane), Given(m, lane), Handed(m, lane)
      PROVE  NobodyWaitsInVain'
  <2>1. CASE Async(m, lane)
    BY <1>3, <2>1, AsyncCalls DEF Given
  <2>2. CASE WithoutWork(m)
    BY <1>3, <2>2, CallsStay DEF Given, WithoutWork, runVars
  <2>3. CASE HandleMessage(m, lane[1])
    <3>1. /\ UNCHANGED <<m_state, tasks, waiting>> /\ lane[1] \notin PoolWorker
          /\ running' = [running EXCEPT ![lane[1]] = m]
      BY <1>3, <2>3, Sorts, HandlingAssumption DEF Given, HandleMessage
    <3>2. \A v \in PoolWorker : running'[v] = running[v]
      BY <3>1, Sorts DEF HandlingType, RunnerType
    <3> QED
      BY <3>1, <3>2, CallsStay
  <2> QED
    BY <1>3, <2>1, <2>2, <2>3 DEF Handed, WithDefaultWork, WithKeyedWork, WithoutPool
<1>4. ASSUME NEW s \in HandlingSession, OnRead(s) \/ DefaultAsyncProcessOnWrite(s)
      PROVE  NobodyWaitsInVain'
  BY <1>3, <1>4, SessionGives
<1>5. ASSUME NEW w \in PoolWorker, Run(w) PROVE NobodyWaitsInVain'
  BY <1>5, RunCalls
<1>6. ASSUME NEW r \in Runner, Handle(r) PROVE NobodyWaitsInVain'
  BY <1>6, HandleCalls
<1>7. CASE UNCHANGED vars
  BY <1>7, CallsStay DEF vars, poolVars, laneVars, runVars
<1> QED
  BY <1>1, <1>2, <1>4, <1>5, <1>6, <1>7 DEF Next

(* A lane that waits is called back, or the pool was stopped.              *)
THEOREM HandlingNobodyWaitsInVain == Spec => []NobodyWaitsInVain
<1>1. Init => NobodyWaitsInVain
  BY DEF Init, NobodyWaitsInVain
<1> QED
  BY <1>1, TypeInit, TypeNext, CallsNext, PTL DEF Spec

-----------------------------------------------------------------------------
(* Clay: the registry, whatever keys its providers share, and in any order *)
(* of registrations, removals and requests.                                *)

(* The maps know a provider by its own keys: so the other map is asked for *)
(* a provider where it would be.  Deaths are counted of each provider.     *)
RegistryType ==
  /\ spintmap \in [Codes -> Provider \cup {"nothing"}]
  /\ spstrmap \in [NamesKnown -> Provider \cup {"nothing"}]
  /\ \A c \in Codes : spintmap[c] # "nothing" => Code[spintmap[c]] = c
  /\ \A n \in NamesKnown : spstrmap[n] # "nothing" => Name[spstrmap[n]] = n
  /\ deleted = [p \in Provider |-> deleted[p]]

(* Where the workers are.                                                  *)
CallType ==
  /\ call = [w \in Worker |-> call[w]]
  /\ \A w \in Worker : call[w].step \in {"idle", "found", "read"}

ClayInv == RegistryType /\ CallType /\ NoDangling

(* The maps are empty, and nobody calls.                                   *)
LEMMA ClayInitially == ClayInit => ClayInv
<1> SUFFICES ASSUME ClayInit PROVE ClayInv
  OBVIOUS
<1>1. /\ spintmap = [c \in Codes |-> "nothing"] /\ spstrmap = [n \in NamesKnown |-> "nothing"]
      /\ deleted = [p \in Provider |-> 0] /\ call = [w \in Worker |-> [step |-> "idle"]]
  BY DEF ClayInit
<1>2. RegistryType
  BY <1>1 DEF RegistryType
<1>3. CallType
  BY <1>1 DEF CallType
<1>4. NoDangling
  BY <1>1 DEF NoDangling, At
<1> QED
  BY <1>2, <1>3, <1>4 DEF ClayInv

(* Keys of providers are keys of the maps.                                 *)
LEMMA KeysKnown == \A p \in Provider : Code[p] \in Codes /\ Name[p] \in NamesKnown
BY DEF Codes, NamesKnown

(* A key is given to who asks first.                                       *)
LEMMA PutKeeps ==
  ASSUME NEW Keys, NEW map \in [Keys -> Provider \cup {"nothing"}], NEW key \in Keys, NEW p \in Provider
  PROVE  /\ PutKey(map, key, p) \in [Keys -> Provider \cup {"nothing"}]
         /\ \A k \in Keys : PutKey(map, key, p)[k] = map[k] \/ (k = key /\ PutKey(map, key, p)[k] = p)
BY DEF PutKey

(* Registering: what is registered lives.                                  *)
LEMMA RegSpKeeps ==
  ASSUME ClayInv, NEW p \in Provider, RegSp(p)
  PROVE  ClayInv'
<1>1. RegistryType /\ CallType /\ NoDangling
  BY DEF ClayInv
<1>2. /\ Live(p) /\ spstrmap' = PutKey(spstrmap, Name[p], p) /\ spintmap' = PutKey(spintmap, Code[p], p)
      /\ UNCHANGED <<services, deleted, call>>
  BY DEF RegSp, requestVars
<1>3. /\ spintmap' \in [Codes -> Provider \cup {"nothing"}]
      /\ \A c \in Codes : spintmap'[c] = spintmap[c] \/ (c = Code[p] /\ spintmap'[c] = p)
  BY <1>1, <1>2, KeysKnown, PutKeeps DEF RegistryType
<1>4. /\ spstrmap' \in [NamesKnown -> Provider \cup {"nothing"}]
      /\ \A n \in NamesKnown : spstrmap'[n] = spstrmap[n] \/ (n = Name[p] /\ spstrmap'[n] = p)
  BY <1>1, <1>2, KeysKnown, PutKeeps DEF RegistryType
<1>5. RegistryType'
  BY <1>1, <1>2, <1>3, <1>4 DEF RegistryType
<1>6. CallType'
  BY <1>1, <1>2 DEF CallType
<1>7. NoDangling'
  <2>1. \A c \in Codes : spintmap'[c] # "nothing" => Live(spintmap'[c])
    BY <1>1, <1>2, <1>3 DEF NoDangling
  <2>2. \A n \in NamesKnown : spstrmap'[n] # "nothing" => Live(spstrmap'[n])
    BY <1>1, <1>2, <1>4 DEF NoDangling
  <2> QED
    BY <1>1, <1>2, <2>1, <2>2 DEF NoDangling, Live, At
<1> QED
  BY <1>5, <1>6, <1>7 DEF ClayInv

(* Removing by a code: a provider is deleted that no name leads to.        *)
LEMMA UnregSpCodeKeeps ==
  ASSUME ClayInv, NEW code \in Codes, UnregSpCode(code)
  PROVE  ClayInv'
<1>1. RegistryType /\ CallType /\ NoDangling
  BY DEF ClayInv
<1>2. /\ \A w \in Worker : call[w].step = "idle"
      /\ spintmap[code] # "nothing" /\ spintmap' = [spintmap EXCEPT ![code] = "nothing"]
      /\ deleted' = DeletedUnless(spintmap[code], spstrmap, Name[spintmap[code]])
      /\ UNCHANGED <<spstrmap, call>>
  BY DEF UnregSpCode, Quiet, Without, requestVars
<1>3. PICK p \in Provider : p = spintmap[code] /\ Code[p] = code /\ Name[p] \in NamesKnown
  BY <1>1, <1>2, KeysKnown DEF RegistryType
<1>4. deleted' = IF spstrmap[Name[p]] = "nothing" THEN [deleted EXCEPT ![p] = @ + 1] ELSE deleted
  BY <1>2, <1>3 DEF DeletedUnless, Delete
<1>5. /\ deleted' = [q \in Provider |-> deleted'[q]]
      /\ \A q \in Provider : q # p => deleted'[q] = deleted[q]
      /\ spstrmap[Name[p]] # "nothing" => deleted' = deleted
  BY <1>1, <1>4 DEF RegistryType
<1>6. RegistryType'
  BY <1>1, <1>2, <1>5 DEF RegistryType
<1>7. NoDangling'
  <2>1. ASSUME NEW c \in Codes, spintmap'[c] # "nothing" PROVE deleted'[spintmap'[c]] = 0
    <3>1. c # code /\ spintmap'[c] = spintmap[c] /\ spintmap[c] \in Provider
      BY <1>1, <1>2, <2>1 DEF RegistryType
    <3>2. Code[spintmap[c]] = c /\ deleted[spintmap[c]] = 0
      BY <1>1, <2>1, <3>1 DEF RegistryType, NoDangling, Live
    <3> QED
      BY <1>3, <1>5, <3>1, <3>2
  <2>2. ASSUME NEW n \in NamesKnown, spstrmap'[n] # "nothing" PROVE deleted'[spstrmap'[n]] = 0
    <3>1. spstrmap'[n] = spstrmap[n] /\ spstrmap[n] \in Provider
      BY <1>1, <1>2, <2>2 DEF RegistryType
    <3>2. Name[spstrmap[n]] = n /\ deleted[spstrmap[n]] = 0
      BY <1>1, <2>2, <3>1 DEF RegistryType, NoDangling, Live
    <3>3. CASE spstrmap[n] = p
      BY <1>5, <2>2, <3>1, <3>2, <3>3
    <3>4. CASE spstrmap[n] # p
      BY <1>5, <3>1, <3>2, <3>4
    <3> QED
      BY <3>3, <3>4
  <2> QED
    BY <1>2, <2>1, <2>2 DEF NoDangling, Live, At
<1> QED
  BY <1>1, <1>2, <1>6, <1>7 DEF ClayInv, CallType

(* And by a name: a provider is deleted that no code leads to.             *)
LEMMA UnregSpNameKeeps ==
  ASSUME ClayInv, NEW name \in NamesKnown, UnregSpName(name)
  PROVE  ClayInv'
<1>1. RegistryType /\ CallType /\ NoDangling
  BY DEF ClayInv
<1>2. /\ \A w \in Worker : call[w].step = "idle"
      /\ spstrmap[name] # "nothing" /\ spstrmap' = [spstrmap EXCEPT ![name] = "nothing"]
      /\ deleted' = DeletedUnless(spstrmap[name], spintmap, Code[spstrmap[name]])
      /\ UNCHANGED <<spintmap, call>>
  BY DEF UnregSpName, Quiet, Without, requestVars
<1>3. PICK p \in Provider : p = spstrmap[name] /\ Name[p] = name /\ Code[p] \in Codes
  BY <1>1, <1>2, KeysKnown DEF RegistryType
<1>4. deleted' = IF spintmap[Code[p]] = "nothing" THEN [deleted EXCEPT ![p] = @ + 1] ELSE deleted
  BY <1>2, <1>3 DEF DeletedUnless, Delete
<1>5. /\ deleted' = [q \in Provider |-> deleted'[q]]
      /\ \A q \in Provider : q # p => deleted'[q] = deleted[q]
      /\ spintmap[Code[p]] # "nothing" => deleted' = deleted
  BY <1>1, <1>4 DEF RegistryType
<1>6. RegistryType'
  BY <1>1, <1>2, <1>5 DEF RegistryType
<1>7. NoDangling'
  <2>1. ASSUME NEW n \in NamesKnown, spstrmap'[n] # "nothing" PROVE deleted'[spstrmap'[n]] = 0
    <3>1. n # name /\ spstrmap'[n] = spstrmap[n] /\ spstrmap[n] \in Provider
      BY <1>1, <1>2, <2>1 DEF RegistryType
    <3>2. Name[spstrmap[n]] = n /\ deleted[spstrmap[n]] = 0
      BY <1>1, <2>1, <3>1 DEF RegistryType, NoDangling, Live
    <3> QED
      BY <1>3, <1>5, <3>1, <3>2
  <2>2. ASSUME NEW c \in Codes, spintmap'[c] # "nothing" PROVE deleted'[spintmap'[c]] = 0
    <3>1. spintmap'[c] = spintmap[c] /\ spintmap[c] \in Provider
      BY <1>1, <1>2, <2>2 DEF RegistryType
    <3>2. Code[spintmap[c]] = c /\ deleted[spintmap[c]] = 0
      BY <1>1, <2>2, <3>1 DEF RegistryType, NoDangling, Live
    <3>3. CASE spintmap[c] = p
      BY <1>5, <2>2, <3>1, <3>2, <3>3
    <3>4. CASE spintmap[c] # p
      BY <1>5, <3>1, <3>2, <3>4
    <3> QED
      BY <3>3, <3>4
  <2> QED
    BY <1>2, <2>1, <2>2 DEF NoDangling, Live, At
<1> QED
  BY <1>1, <1>2, <1>6, <1>7 DEF ClayInv, CallType

(* Clearing: whatever is deleted, the maps know nobody.                    *)
LEMMA ClearKeeps ==
  ASSUME ClayInv, ClearAgent
  PROVE  ClayInv'
<1>1. /\ \A w \in Worker : call[w].step = "idle"
      /\ deleted' = [p \in Provider |-> deleted[p] + Cardinality({i \in DOMAIN Listed : Listed[i] = p})]
      /\ spintmap' = [c \in Codes |-> "nothing"] /\ spstrmap' = [n \in NamesKnown |-> "nothing"]
      /\ UNCHANGED call
  BY DEF ClearAgent, Quiet, requestVars
<1>2. deleted' = [p \in Provider |-> deleted'[p]]
  BY <1>1
<1>3. RegistryType'
  BY <1>1, <1>2 DEF RegistryType
<1>4. CallType'
  BY <1>1 DEF ClayInv, CallType
<1>5. NoDangling'
  BY <1>1 DEF NoDangling, At
<1> QED
  BY <1>3, <1>4, <1>5 DEF ClayInv

(* A provider's services change while nobody calls them.                   *)
LEMMA ServicesKeep ==
  ASSUME ClayInv, NEW p \in Provider, NEW svc \in SvcKeys, RegisterService(p, svc) \/ UnregisterService(p, svc)
  PROVE  ClayInv'
<1>1. /\ \A w \in Worker : call[w].step = "idle"
      /\ UNCHANGED <<spintmap, spstrmap, deleted, call>>
  BY DEF RegisterService, UnregisterService, Quiet, requestVars
<1>2. RegistryType' /\ CallType'
  BY <1>1 DEF ClayInv, RegistryType, CallType
<1>3. NoDangling'
  BY <1>1 DEF ClayInv, NoDangling, At, Live
<1> QED
  BY <1>2, <1>3 DEF ClayInv

(* A worker calls what the maps led it to.                                 *)
LEMMA FindKeeps ==
  ASSUME ClayInv, NEW w \in Worker, NEW sp \in SpKeys, NEW svc \in SvcKeys, FindService(w, sp, svc)
  PROVE  ClayInv'
<1>1. RegistryType /\ CallType /\ NoDangling /\ UNCHANGED <<spintmap, spstrmap, services, deleted>>
  BY DEF ClayInv, FindService, registryVars
<1>2. RegistryType'
  BY <1>1 DEF RegistryType
<1>3. CASE ~SvcExists(sp, svc)
  <2>1. UNCHANGED call
    BY <1>3 DEF FindService
  <2> QED
    BY <1>1, <1>2, <2>1 DEF ClayInv, CallType, NoDangling, At, Live
<1>4. CASE SvcExists(sp, svc)
  <2>1. call' = [call EXCEPT ![w] = [step |-> "found", sp |-> GetSp(sp), svc |-> svc]]
    BY <1>4 DEF FindService
  <2>2. GetSp(sp) # "nothing" /\ svc \in services[GetSp(sp)]
    BY <1>4 DEF SvcExists, GetService
  <2>3. Live(GetSp(sp))
    BY <1>1, <2>2 DEF GetSp, SpKeys, NoDangling
  <2>4. /\ call' = [u \in Worker |-> call'[u]] /\ \A u \in Worker : u # w => call'[u] = call[u]
        /\ call'[w] = [step |-> "found", sp |-> GetSp(sp), svc |-> svc]
    BY <1>1, <2>1 DEF CallType
  <2>5. CallType'
    <3>1. \A u \in Worker : call'[u].step \in {"idle", "found", "read"}
      BY <1>1, <2>4 DEF CallType
    <3> QED
      BY <2>4, <3>1 DEF CallType
  <2>6. NoDangling'
    <3>1. ASSUME NEW u \in Worker, call'[u].step # "idle"
          PROVE  deleted[call'[u].sp] = 0 /\ call'[u].svc \in services[call'[u].sp]
      <4>1. CASE u = w
        BY <2>2, <2>3, <2>4, <4>1 DEF Live
      <4>2. CASE u # w
        BY <1>1, <2>4, <3>1, <4>2 DEF NoDangling, At, Live
      <4> QED
        BY <4>1, <4>2
    <3> QED
      BY <1>1, <3>1 DEF NoDangling, At, Live
  <2> QED
    BY <1>2, <2>5, <2>6 DEF ClayInv
<1> QED
  BY <1>3, <1>4

(* A call under way has its provider and service until it is over.         *)
LEMMA CallKeeps ==
  ASSUME ClayInv, NEW w \in Worker, GetTotal(w) \/ PutTotal(w)
  PROVE  ClayInv'
<1>1. RegistryType /\ CallType /\ NoDangling /\ UNCHANGED <<spintmap, spstrmap, services, deleted>>
  BY DEF ClayInv, GetTotal, PutTotal, registryVars
<1>2. RegistryType'
  BY <1>1 DEF RegistryType
<1>3. \/ /\ call[w].step = "found"
         /\ call' = [call EXCEPT ![w] = [step |-> "read", sp |-> call[w].sp, svc |-> call[w].svc, totalreq |-> total]]
      \/ call' = [call EXCEPT ![w] = [step |-> "idle"]]
  BY DEF GetTotal, PutTotal, At
<1>4. /\ call' = [u \in Worker |-> call'[u]] /\ \A u \in Worker : u # w => call'[u] = call[u]
      /\ \/ /\ call[w].step = "found"
            /\ call'[w] = [step |-> "read", sp |-> call[w].sp, svc |-> call[w].svc, totalreq |-> total]
         \/ call'[w] = [step |-> "idle"]
  BY <1>1, <1>3 DEF CallType
<1>5. CallType'
  <2>1. \A u \in Worker : call'[u].step \in {"idle", "found", "read"}
    BY <1>1, <1>4 DEF CallType
  <2> QED
    BY <1>4, <2>1 DEF CallType
<1>6. NoDangling'
  <2>1. ASSUME NEW u \in Worker, call'[u].step # "idle"
        PROVE  deleted[call'[u].sp] = 0 /\ call'[u].svc \in services[call'[u].sp]
    BY <1>1, <1>4, <2>1 DEF NoDangling, At, Live
  <2> QED
    BY <1>1, <2>1 DEF NoDangling, At, Live
<1> QED
  BY <1>2, <1>5, <1>6 DEF ClayInv

(* The registry after any step.                                            *)
LEMMA ClayGoesOn == ClayInv /\ [ClayNext]_clayVars => ClayInv'
<1> SUFFICES ASSUME ClayInv, [ClayNext]_clayVars PROVE ClayInv'
  OBVIOUS
<1>1. CASE UNCHANGED clayVars
  BY <1>1 DEF clayVars, registryVars, requestVars, ClayInv, RegistryType, CallType, NoDangling, At, Live
<1>2. ASSUME NEW w \in Worker, NEW r \in Request, HandleRequest(w, r) PROVE ClayInv'
  <2>1. r.sp \in SpKeys /\ r.svc \in SvcKeys /\ FindService(w, r.sp, r.svc)
    BY <1>2 DEF Request, SpKeys, HandleRequest
  <2> QED
    BY <2>1, FindKeeps
<1> QED
  BY <1>1, <1>2, RegSpKeeps, UnregSpCodeKeeps, UnregSpNameKeeps, ClearKeeps, ServicesKeep, FindKeeps, CallKeeps
  DEF ClayNext, CallService

(* The registry knows living providers only, and a worker calls a service  *)
(* that its provider has (ClayServiceAgent: UnregSp looks at the other map *)
(* before it deletes).                                                     *)
THEOREM ClayNoDangling == ClaySpec => []NoDangling
<1>1. ClayInv => NoDangling
  BY DEF ClayInv
<1> QED
  BY <1>1, ClayInitially, ClayGoesOn, PTL DEF ClaySpec

-----------------------------------------------------------------------------
(* Logs: a logger that somebody holds has its sinks in the core, and       *)
(* std::clog is there as long as every logger made has.                    *)

(* The loggers made so far.                                                *)
Made == 1 .. Len(channel)

LogsType ==
  /\ channel \in Seq(LogName)
  /\ g_initlog \in BOOLEAN
  /\ g_defaultlog \in Made \cup {NoLogger} /\ setting \in Made \cup {NoLogger}
  /\ g_logmap \in [LogName -> Made \cup {NoLogger}]
  /\ g_loglevel \in Level
  /\ sinks \subseteq Made
  /\ logging \in [LogThread -> Made \cup {NoLogger}]

(* The manager, Init and the threads that log keep their loggers' sinks.   *)
SinksKept ==
  /\ g_defaultlog # NoLogger => g_defaultlog \in sinks
  /\ setting # NoLogger => setting \in sinks
  /\ \A n \in LogName : g_logmap[n] # NoLogger => g_logmap[n] \in sinks
  /\ \A t \in LogThread : logging[t] # NoLogger => logging[t] \in sinks

(* Nobody has deleted std::clog while no logger has lost its sinks.        *)
StreamKept == sinks = Made => clog

LogsInv == LogsType /\ SinksKept /\ StreamKept

(* No logger is made yet.                                                  *)
LEMMA LogsInitially == LogsInit => LogsInv
<1> SUFFICES ASSUME LogsInit PROVE LogsInv
  OBVIOUS
<1>1. channel = <<>> /\ g_logmap = [n \in LogName |-> NoLogger] /\ logging = [t \in LogThread |-> NoLogger]
  BY DEF LogsInit
<1>2. g_initlog \in BOOLEAN
  BY DEF LogsInit
<1>3. g_defaultlog = NoLogger /\ setting = NoLogger /\ sinks = {} /\ g_loglevel \in Level
  BY LogsAssumption DEF LogsInit, Level
<1>4. LogsType
  BY <1>1, <1>2, <1>3 DEF LogsType
<1> QED
  BY <1>1, <1>3, <1>4 DEF LogsInv, SinksKept, StreamKept, LogsInit

(* A new logger has sinks, and the others keep theirs.                     *)
LEMMA CreateKeeps ==
  ASSUME LogsInv, NEW name \in LogName, CreateLogger(name)
  PROVE  /\ channel' \in Seq(LogName) /\ Len(channel') = Len(channel) + 1
         /\ Made \subseteq Made' /\ Len(channel) + 1 \in Made'
         /\ sinks' = sinks \cup {Len(channel) + 1} /\ sinks' \subseteq Made'
         /\ sinks' = Made' => sinks = Made
<1>1. channel \in Seq(LogName) /\ sinks \subseteq Made /\ channel' = Append(channel, name)
      /\ sinks' = sinks \cup {Len(channel) + 1}
  BY DEF LogsInv, LogsType, CreateLogger
<1>2. channel' \in Seq(LogName) /\ Len(channel') = Len(channel) + 1 /\ Len(channel) \in Nat
  BY <1>1
<1>3. Made' = Made \cup {Len(channel) + 1} /\ Len(channel) + 1 \notin Made
  BY <1>2 DEF Made
<1> QED
  BY <1>1, <1>2, <1>3

(* Sinks are removed of loggers that nobody holds any more.                *)
LEMMA DestroyKeeps ==
  ASSUME LogsInv, Destroy(g_logmap', logging'), UNCHANGED <<channel, g_initlog, g_defaultlog, g_loglevel, setting>>,
         g_logmap' \in [LogName -> Made \cup {NoLogger}], logging' \in [LogThread -> Made \cup {NoLogger}],
         \A n \in LogName : g_logmap'[n] \in {g_logmap[n], NoLogger},
         \A t \in LogThread : logging'[t] \in {logging[t], NoLogger}
  PROVE  LogsInv'
<1>1. sinks' = sinks \cap Holders(g_logmap', logging') /\ Made' = Made
  BY DEF Destroy, Made
<1>2. LogsType'
  BY <1>1 DEF LogsInv, LogsType
<1>3. Holders(g_logmap', logging') =
        {g_logmap'[n] : n \in LogName} \cup {g_defaultlog, setting} \cup {logging'[t] : t \in LogThread}
  BY DEF Holders
<1>4. \A n \in LogName : g_logmap'[n] # NoLogger => g_logmap'[n] \in sinks'
  BY <1>1, <1>3 DEF LogsInv, SinksKept
<1>5. \A t \in LogThread : logging'[t] # NoLogger => logging'[t] \in sinks'
  BY <1>1, <1>3 DEF LogsInv, SinksKept
<1>6. /\ g_defaultlog' # NoLogger => g_defaultlog' \in sinks'
      /\ setting' # NoLogger => setting' \in sinks'
  BY <1>1, <1>3 DEF LogsInv, SinksKept
<1>7. StreamKept'
  <2>1. sinks \subseteq Made /\ (sinks = Made => clog)
    BY DEF LogsInv, LogsType, StreamKept
  <2>2. clog' = (clog /\ sinks \subseteq Holders(g_logmap', logging'))
    BY DEF Destroy
  <2>3. ASSUME sinks' = Made' PROVE sinks = Made /\ sinks \subseteq Holders(g_logmap', logging')
    BY <1>1, <2>1, <2>3
  <2> QED
    BY <2>1, <2>2, <2>3 DEF StreamKept
<1> QED
  BY <1>2, <1>4, <1>5, <1>6, <1>7 DEF LogsInv, SinksKept

(* Who holds a logger keeps its sinks, in any step.                        *)
LEMMA LogsGoOn == LogsInv /\ [LogsNext]_logVars => LogsInv'
<1> SUFFICES ASSUME LogsInv, [LogsNext]_logVars PROVE LogsInv'
  OBVIOUS
<1>1. LogsType /\ SinksKept /\ StreamKept
  BY DEF LogsInv
<1>2. CASE UNCHANGED logVars
  BY <1>1, <1>2 DEF logVars, LogsInv, LogsType, SinksKept, StreamKept, Made
<1>3. CASE InitCreate
  <2>1. CreateLogger(DefaultName) /\ setting' = Len(channel) + 1
        /\ UNCHANGED <<g_initlog, g_defaultlog, g_logmap, g_loglevel, logging, clog>>
    BY <1>3 DEF InitCreate
  <2>2. /\ channel' \in Seq(LogName) /\ Made \subseteq Made' /\ Len(channel) + 1 \in Made'
        /\ sinks' = sinks \cup {Len(channel) + 1} /\ sinks' \subseteq Made' /\ (sinks' = Made' => sinks = Made)
    BY <2>1, CreateKeeps, LogsAssumption
  <2>3. LogsType'
    BY <1>1, <2>1, <2>2 DEF LogsType
  <2> QED
    BY <1>1, <2>1, <2>2, <2>3 DEF LogsInv, SinksKept, StreamKept
<1>4. CASE InitDefault
  <2>1. g_defaultlog' = setting /\ UNCHANGED <<channel, g_initlog, g_logmap, g_loglevel, sinks, setting, logging, clog>>
    BY <1>4 DEF InitDefault
  <2> QED
    BY <1>1, <2>1 DEF LogsInv, LogsType, SinksKept, StreamKept, Made
<1>5. CASE InitDone
  <2>1. /\ setting' = NoLogger /\ UNCHANGED <<channel, g_defaultlog, g_logmap, sinks, logging, clog>>
        /\ g_initlog' = TRUE
    BY <1>5 DEF InitDone
  <2>2. g_loglevel' \in Level
    BY <1>5, LogsAssumption DEF InitDone, Level
  <2> QED
    BY <1>1, <2>1, <2>2 DEF LogsInv, LogsType, SinksKept, StreamKept, Made
<1>6. CASE ClearLoggers
  <2>1. /\ g_logmap' = [n \in LogName |-> NoLogger] /\ Destroy(g_logmap', logging)
        /\ UNCHANGED <<channel, g_initlog, g_defaultlog, g_loglevel, setting, logging>>
    BY <1>6 DEF ClearLoggers
  <2>2. g_logmap' \in [LogName -> Made \cup {NoLogger}] /\ \A n \in LogName : g_logmap'[n] \in {g_logmap[n], NoLogger}
    BY <2>1
  <2> QED
    BY <1>1, <2>1, <2>2, DestroyKeeps DEF LogsType
<1>7. ASSUME NEW level \in Level \cup {MaxLevel + 1}, SetLogLevel(level) PROVE LogsInv'
  <2>1. UNCHANGED <<channel, g_initlog, g_defaultlog, g_logmap, sinks, setting, logging, clog>>
    BY <1>7 DEF SetLogLevel
  <2>2. g_loglevel' \in Level
    BY <1>7, LogsAssumption DEF SetLogLevel, Level, Info
  <2> QED
    BY <1>1, <2>1, <2>2 DEF LogsInv, LogsType, SinksKept, StreamKept, Made
<1>8. ASSUME NEW n \in LogName, AddLogger(n) PROVE LogsInv'
  <2>1. /\ CreateLogger(n) /\ g_logmap' = [g_logmap EXCEPT ![n] = Len(channel) + 1]
        /\ UNCHANGED <<g_initlog, g_defaultlog, g_loglevel, setting, logging, clog>>
    BY <1>8 DEF AddLogger
  <2>2. /\ channel' \in Seq(LogName) /\ Made \subseteq Made' /\ Len(channel) + 1 \in Made'
        /\ sinks' = sinks \cup {Len(channel) + 1} /\ sinks' \subseteq Made' /\ (sinks' = Made' => sinks = Made)
    BY <2>1, CreateKeeps
  <2>3. LogsType'
    BY <1>1, <2>1, <2>2 DEF LogsType
  <2>4. \A m \in LogName : g_logmap'[m] = IF m = n THEN Len(channel) + 1 ELSE g_logmap[m]
    BY <1>1, <2>1 DEF LogsType
  <2> QED
    BY <1>1, <2>1, <2>2, <2>3, <2>4 DEF LogsInv, SinksKept, StreamKept
<1>9. ASSUME NEW n \in LogName, RemoveLogger(n) PROVE LogsInv'
  <2>1. /\ g_logmap' = [g_logmap EXCEPT ![n] = NoLogger] /\ Destroy(g_logmap', logging)
        /\ UNCHANGED <<channel, g_initlog, g_defaultlog, g_loglevel, setting, logging>>
    BY <1>9 DEF RemoveLogger
  <2>2. g_logmap' \in [LogName -> Made \cup {NoLogger}] /\ \A m \in LogName : g_logmap'[m] \in {g_logmap[m], NoLogger}
    BY <1>1, <2>1 DEF LogsType
  <2> QED
    BY <1>1, <2>1, <2>2, DestroyKeeps DEF LogsType
<1>10. ASSUME NEW t \in LogThread, FindLogger(t) PROVE LogsInv'
  <2>1. PICK logger \in {GetLogger(n) : n \in LogName} \cup {DefaultLogger} :
          logger # NoLogger /\ logging' = [logging EXCEPT ![t] = logger]
    BY <1>10 DEF FindLogger
  <2>2. logger \in Made /\ logger \in sinks
    BY <1>1, <2>1 DEF GetLogger, DefaultLogger, LogsType, SinksKept
  <2>3. UNCHANGED <<channel, g_initlog, g_defaultlog, g_logmap, g_loglevel, sinks, setting, clog>>
    BY <1>10 DEF FindLogger
  <2>4. LogsType'
    BY <1>1, <2>1, <2>2, <2>3 DEF LogsType, Made
  <2>5. \A u \in LogThread : logging'[u] = IF u = t THEN logger ELSE logging[u]
    BY <1>1, <2>1 DEF LogsType
  <2> QED
    BY <1>1, <2>2, <2>3, <2>4, <2>5 DEF LogsInv, SinksKept, StreamKept, Made
<1>11. ASSUME NEW t \in LogThread, Log(t) PROVE LogsInv'
  <2>1. /\ logging' = [logging EXCEPT ![t] = NoLogger] /\ Destroy(g_logmap, logging')
        /\ UNCHANGED <<channel, g_initlog, g_defaultlog, g_logmap, g_loglevel, setting>>
    BY <1>11 DEF Log
  <2>2. logging' \in [LogThread -> Made \cup {NoLogger}] /\ \A u \in LogThread : logging'[u] \in {logging[u], NoLogger}
    BY <1>1, <2>1 DEF LogsType
  <2> QED
    BY <1>1, <2>1, <2>2, DestroyKeeps DEF LogsType
<1> QED
  BY <1>2, <1>3, <1>4, <1>5, <1>6, <1>7, <1>8, <1>9, <1>10, <1>11 DEF LogsNext

(* As long as every logger made is held, std::clog is there and a thread   *)
(* that has found a logger gets a fatal message written, whoever lets go   *)
(* of the logger or changes the level meanwhile (LogManager.cpp,           *)
(* Logger.cpp: loggers are shared pointers, but all delete std::clog).     *)
THEOREM LogsFatalIsWritten == LogsSpec => []FatalIsWritten
<1>1. LogsInv => FatalIsWritten
  <2> SUFFICES ASSUME LogsInv, DOMAIN channel \subseteq Holders(g_logmap, logging)
               PROVE  /\ clog
                      /\ \A t \in LogThread : logging[t] # NoLogger => logging[t] \in Written(logging[t], MaxLevel)
    BY DEF FatalIsWritten
  <2>1. LogsType /\ SinksKept /\ StreamKept
    BY DEF LogsInv
  <2>2. Made \subseteq Holders(g_logmap, logging) /\ NoLogger \notin Made
    BY <2>1 DEF LogsType, Made, NoLogger
  <2>3. ASSUME NEW l \in Holders(g_logmap, logging), l # NoLogger PROVE l \in sinks
    BY <2>1, <2>3 DEF Holders, SinksKept
  <2>4. clog
    BY <2>1, <2>2, <2>3 DEF LogsType, StreamKept
  <2>5. \A t \in LogThread : logging[t] # NoLogger => logging[t] \in sinks /\ MaxLevel >= g_loglevel
    BY <2>1, LogsAssumption DEF LogsType, SinksKept, Level
  <2> QED
    BY <2>4, <2>5 DEF Written
<1> QED
  BY <1>1, LogsInitially, LogsGoOn, PTL DEF LogsSpec

-----------------------------------------------------------------------------
(* Chat: everyone follows one conversation.                                *)

(* What is on its way to the server.                                       *)
ChatLine == [cmd : {"LOGIN", "QUIT", "BROADCAST"}, arg : Names \cup {"OK", "nothing", "words"}]

(* The types of what the steps below tell apart.                           *)
ChatType ==
  /\ side \in [Session -> {"none", "open", "closing", "gone"}]
  /\ typing \in [Session -> BOOLEAN]
  /\ requests \in [Session -> Seq(ChatLine)] /\ lines \in [Session -> Seq(Nat)]
  /\ heard \in [Session -> Nat] /\ said \in Nat

(* Who types is registered, as nothing on its way to the server says quit; *)
(* who does not prints nothing more.                                       *)
Registers(s) ==
  /\ typing[s] => /\ side[s] = "open"
                  /\ \A i \in 1 .. Len(requests[s]) : requests[s][i].cmd # "QUIT"
  /\ ~typing[s] => lines[s] = <<>>
  /\ side[s] = "none" => requests[s] = <<>> /\ heard[s] = 0

(* On their way to a client are the last lines said, and before them is    *)
(* the one it printed, if any.                                             *)
Hears(s) ==
  /\ Len(lines[s]) <= said
  /\ \A i \in 1 .. Len(lines[s]) : lines[s][i] = said - Len(lines[s]) + i
  /\ typing[s] /\ heard[s] # 0 => heard[s] = said - Len(lines[s])

ChatInv == ChatType /\ \A s \in Session : Registers(s) /\ Hears(s)

(* No client is connected.                                                 *)
LEMMA ChatFirst == ChatInit => ChatInv
BY DEF ChatInit, Of, ChatInv, ChatType, Registers, Hears

(* A step that leaves what a session has as it is.                         *)
LEMMA ChatOthers ==
  ASSUME NEW s \in Session, Registers(s), Hears(s), said' = said,
         side'[s] = side[s], typing'[s] = typing[s], requests'[s] = requests[s],
         lines'[s] = lines[s], heard'[s] = heard[s]
  PROVE  Registers(s)' /\ Hears(s)'
BY DEF Registers, Hears

(* A line that is taken leaves those behind it.                            *)
LEMMA ChatTaken ==
  ASSUME ChatType, NEW s \in Session, requests[s] # <<>>, Taken(s)
  PROVE  /\ requests' \in [Session -> Seq(ChatLine)]
         /\ \A t \in Session : t # s => requests'[t] = requests[t]
         /\ Len(requests'[s]) = Len(requests[s]) - 1 /\ Len(requests[s]) \in Nat
         /\ \A i \in 1 .. Len(requests'[s]) : requests'[s][i] = requests[s][i + 1]
<1>1. requests[s] \in Seq(ChatLine) /\ requests' = [requests EXCEPT ![s] = Tail(@)]
  BY DEF ChatType, Taken
<1>2. Tail(requests[s]) \in Seq(ChatLine)
  BY <1>1
<1> QED
  BY <1>1, <1>2 DEF ChatType

(* Broadcast: a line reaches every session that hears.                     *)
LEMMA ChatTold ==
  ASSUME ChatInv, NEW s \in Session, Tell(s), heard' = heard, typing' = typing,
         \A t \in Session : typing[t] => side[t] = "open"
  PROVE  /\ lines' \in [Session -> Seq(Nat)] /\ said' \in Nat
         /\ \A t \in Session : Hears(t)' /\ (~typing[t] => lines'[t] = lines[t])
<1>1. /\ said' = said + 1 /\ said \in Nat /\ lines \in [Session -> Seq(Nat)]
      /\ \A t \in Session : /\ typing[t] => lines'[t] = Append(lines[t], said + 1)
                            /\ ~typing[t] => lines'[t] = lines[t]
      /\ DOMAIN lines' = Session
  BY DEF ChatInv, ChatType, Tell, Audience
<1>2. ASSUME NEW t \in Session
      PROVE  Hears(t)' /\ lines'[t] \in Seq(Nat)
  <2>1. CASE typing[t]
    <3>1. /\ lines'[t] \in Seq(Nat) /\ Len(lines'[t]) = Len(lines[t]) + 1 /\ Len(lines[t]) \in Nat
          /\ lines'[t][Len(lines[t]) + 1] = said + 1
          /\ \A i \in 1 .. Len(lines[t]) : lines'[t][i] = lines[t][i]
      <4>1. lines'[t] = Append(lines[t], said + 1) /\ lines[t] \in Seq(Nat) /\ said + 1 \in Nat
        BY <1>1, <2>1
      <4> QED
        BY <4>1, AppendProperties
    <3>2. Hears(t) /\ heard[t] \in Nat /\ UNCHANGED <<heard, typing>>
      BY DEF ChatInv, ChatType
    <3>3. \A i \in 1 .. Len(lines'[t]) : i \in 1 .. Len(lines[t]) \/ i = Len(lines[t]) + 1
      BY <3>1
    <3>4. said' - Len(lines'[t]) = said - Len(lines[t]) /\ Len(lines'[t]) <= said'
      BY <1>1, <3>1, <3>2 DEF Hears
    <3>5. \A i \in 1 .. Len(lines'[t]) : lines'[t][i] = said' - Len(lines'[t]) + i
      <4> SUFFICES ASSUME NEW i \in 1 .. Len(lines'[t])
                   PROVE  lines'[t][i] = said - Len(lines[t]) + i
        BY <3>4
      <4>1. CASE i \in 1 .. Len(lines[t])
        BY <3>1, <3>2, <4>1 DEF Hears
      <4>2. CASE i = Len(lines[t]) + 1
        BY <1>1, <3>1, <4>2
      <4> QED
        BY <3>3, <4>1, <4>2
    <3> QED
      BY <3>1, <3>2, <3>4, <3>5 DEF Hears
  <2>2. CASE ~typing[t]
    <3>1. lines[t] = <<>> /\ lines'[t] = <<>>
      BY <1>1, <2>2 DEF ChatInv, Registers
    <3> QED
      BY <1>1, <2>2, <3>1 DEF Hears
  <2> QED
    BY <2>1, <2>2
<1>3. lines' \in [Session -> Seq(Nat)]
  <2>1. lines' = [t \in Session |-> IF t \in Audience(s) THEN Append(lines[t], said') ELSE lines[t]]
    BY DEF Tell
  <2> QED
    BY <1>2, <2>1
<1> QED
  BY <1>1, <1>2, <1>3

(* The consoles and the connections: a line is written by who types, the   *)
(* word QUIT is the last one.                                              *)
LEMMA ChatConsoles ==
  ASSUME ChatInv, NEW s \in Session,
         \/ Connect(s) \/ Quit(s) \/ Lose(s)
         \/ \E line \in ChatLine : line.cmd # "QUIT" /\ Command(s, line)
  PROVE  ChatInv'
<1>1. /\ ChatType /\ Registers(s) /\ Hears(s)
      /\ \A t \in Session : Registers(t) /\ Hears(t)
  BY DEF ChatInv
<1> DEFINE Goal == /\ ChatType' /\ Registers(s)' /\ Hears(s)' /\ said' = said
                   /\ \A t \in Session \ {s} :
                        /\ side'[t] = side[t] /\ typing'[t] = typing[t]
                        /\ requests'[t] = requests[t]
                        /\ lines'[t] = lines[t] /\ heard'[t] = heard[t]
<1>2. Goal => ChatInv'
  BY <1>1, ChatOthers DEF ChatInv
<1>3. ASSUME NEW r \in ChatLine
      PROVE  /\ Append(requests[s], r) \in Seq(ChatLine)
             /\ Len(Append(requests[s], r)) = Len(requests[s]) + 1 /\ Len(requests[s]) \in Nat
             /\ \A i \in 1 .. Len(requests[s]) : Append(requests[s], r)[i] = requests[s][i]
             /\ Append(requests[s], r)[Len(requests[s]) + 1] = r
  <2>1. requests[s] \in Seq(ChatLine)
    BY DEF ChatInv, ChatType
  <2> QED
    BY <2>1, AppendProperties
<1>4. ASSUME Connect(s) PROVE Goal
  BY <1>1, <1>4 DEF Connect, ChatType, Registers, Hears
<1>5. ASSUME NEW line \in ChatLine, line.cmd # "QUIT", Command(s, line)
      PROVE  Goal
  <2>1. /\ typing[s] /\ requests' = [requests EXCEPT ![s] = Append(@, line)]
        /\ UNCHANGED <<side, typing, lines, heard, said>>
    BY <1>5 DEF Command, Write
  <2>2. \A i \in 1 .. Len(requests'[s]) : i \in 1 .. Len(requests[s]) \/ i = Len(requests[s]) + 1
    BY <1>1, <1>3, <2>1 DEF ChatType
  <2>3. ChatType' /\ requests'[s] = Append(requests[s], line)
    BY <1>1, <1>3, <2>1 DEF ChatType
  <2>4. \A i \in 1 .. Len(requests'[s]) : requests'[s][i].cmd # "QUIT"
    BY <1>1, <1>3, <1>5, <2>1, <2>2, <2>3 DEF Registers
  <2> QED
    BY <1>1, <2>1, <2>3, <2>4 DEF ChatType, Registers, Hears
<1>6. ASSUME Quit(s) PROVE Goal
  <2>1. /\ typing[s] /\ typing' = [typing EXCEPT ![s] = FALSE]
        /\ requests' = [requests EXCEPT ![s] = Append(@, [cmd |-> "QUIT", arg |-> "nothing"])]
        /\ lines' = [lines EXCEPT ![s] = <<>>] /\ UNCHANGED <<side, heard, said>>
    BY <1>6 DEF Quit, Write
  <2>2. ChatType'
    <3>1. [cmd |-> "QUIT", arg |-> "nothing"] \in ChatLine
      BY DEF ChatLine
    <3> QED
      BY <1>1, <1>3, <2>1, <3>1 DEF ChatType
  <2> QED
    BY <1>1, <2>1, <2>2 DEF ChatType, Registers, Hears
<1>7. ASSUME Lose(s) PROVE Goal
  <2>1. PICK n \in 0 .. Len(requests[s]) : requests' = [requests EXCEPT ![s] = SubSeq(@, 1, n)]
    BY <1>7 DEF Lose
  <2>2. SubSeq(requests[s], 1, n) \in Seq(ChatLine)
    <3>1. requests[s] \in Seq(ChatLine) /\ \A i \in 1 .. n : i \in 1 .. Len(requests[s])
      BY <1>1 DEF ChatType
    <3>2. \A i \in 1 .. n : requests[s][i] \in ChatLine
      BY <3>1
    <3> QED
      BY <3>2, SubSeqProperties
  <2>3. /\ side[s] = "open" /\ typing' = [typing EXCEPT ![s] = FALSE]
        /\ lines' = [lines EXCEPT ![s] = <<>>] /\ UNCHANGED <<side, heard, said>>
    BY <1>7 DEF Lose
  <2> QED
    BY <1>1, <2>1, <2>2, <2>3 DEF ChatType, Registers, Hears
<1> QED
  BY <1>2, <1>4, <1>5, <1>6, <1>7

(* HandleString at the server, and the end of a session.                   *)
LEMMA ChatHandles ==
  ASSUME ChatInv, NEW s \in Session, HandleString(s) \/ Close(s)
  PROVE  ChatInv'
<1>1. /\ ChatType /\ \A t \in Session : Registers(t) /\ Hears(t)
      /\ \A t \in Session : typing[t] => side[t] = "open"
  BY DEF ChatInv, Registers
<1>2. CASE Close(s)
  <2>1. /\ side' = [side EXCEPT ![s] = "gone"] /\ ~typing[s]
        /\ UNCHANGED <<typing, requests, lines, heard, said>>
    BY <1>1, <1>2 DEF Close
  <2> QED
    BY <1>1, <2>1 DEF ChatInv, ChatType, Registers, Hears
<1>3. CASE HandleString(s)
  <2>1. /\ requests[s] # <<>> /\ Taken(s) /\ UNCHANGED <<typing, heard>> /\ side[s] = "open"
        /\ \/ UNCHANGED side
           \/ side' = [side EXCEPT ![s] = "closing"] /\ Head(requests[s]).cmd = "QUIT"
        /\ UNCHANGED <<lines, said>> \/ Tell(s)
    BY <1>3 DEF HandleString, HandleLogin, HandleQuit, HandleBroadcast, Line
  <2>2. /\ requests' \in [Session -> Seq(ChatLine)]
        /\ \A t \in Session : t # s => requests'[t] = requests[t]
        /\ Len(requests'[s]) = Len(requests[s]) - 1 /\ Len(requests[s]) \in Nat
        /\ \A i \in 1 .. Len(requests'[s]) : requests'[s][i] = requests[s][i + 1]
    BY <1>1, <2>1, ChatTaken
  <2>3. /\ lines' \in [Session -> Seq(Nat)] /\ said' \in Nat
        /\ \A t \in Session : Hears(t)' /\ (~typing[t] => lines'[t] = lines[t])
    <3>1. CASE UNCHANGED <<lines, said>>
      BY <1>1, <2>1, <3>1 DEF ChatType, Hears
    <3>2. CASE Tell(s)
      BY <1>1, <2>1, <3>2, ChatTold
    <3> QED
      BY <2>1, <3>1, <3>2
  <2>4. ChatType'
    BY <1>1, <2>1, <2>2, <2>3 DEF ChatType
  <2>5. ASSUME NEW t \in Session \ {s} PROVE Registers(t)'
    <3>1. side'[t] = side[t] /\ typing'[t] = typing[t] /\ requests'[t] = requests[t]
          /\ heard'[t] = heard[t]
      BY <1>1, <2>1, <2>2 DEF ChatType
    <3>2. ~typing[t] => lines'[t] = <<>>
      BY <1>1, <2>3 DEF Registers
    <3> QED
      BY <1>1, <3>1, <3>2 DEF Registers
  <2>6. ASSUME typing[s]
        PROVE  side'[s] = "open" /\ \A i \in 1 .. Len(requests'[s]) : requests'[s][i].cmd # "QUIT"
    <3>1. \A i \in 1 .. Len(requests[s]) : requests[s][i].cmd # "QUIT"
      BY <1>1, <2>6 DEF Registers
    <3>2. Head(requests[s]) = requests[s][1] /\ 1 \in 1 .. Len(requests[s])
      BY <1>1, <2>1 DEF ChatType
    <3>3. \A i \in 1 .. Len(requests'[s]) : i + 1 \in 1 .. Len(requests[s])
      BY <2>2
    <3> QED
      BY <2>1, <2>2, <3>1, <3>2, <3>3
  <2>7. Registers(s)'
    BY <1>1, <2>1, <2>3, <2>6 DEF Registers, ChatType
  <2> QED
    BY <2>3, <2>4, <2>5, <2>7 DEF ChatInv
<1> QED
  BY <1>2, <1>3

(* HandleString at the client: the first line on its way is printed.       *)
LEMMA ChatShows ==
  ASSUME ChatInv, NEW s \in Session, Show(s)
  PROVE  ChatInv'
<1>1. ChatType /\ \A t \in Session : Registers(t) /\ Hears(t)
  BY DEF ChatInv
<1>2. /\ typing[s] /\ lines[s] # <<>> /\ lines[s] \in Seq(Nat)
      /\ heard' = [heard EXCEPT ![s] = Head(lines[s])] /\ lines' = [lines EXCEPT ![s] = Tail(@)]
      /\ UNCHANGED <<side, typing, requests, said>>
  BY <1>1 DEF Show, ChatType
<1>3. /\ Tail(lines[s]) \in Seq(Nat) /\ Len(Tail(lines[s])) = Len(lines[s]) - 1
      /\ \A i \in 1 .. Len(Tail(lines[s])) : Tail(lines[s])[i] = lines[s][i + 1]
      /\ Head(lines[s]) = lines[s][1] /\ Head(lines[s]) \in Nat /\ Len(lines[s]) \in Nat \ {0}
  <2>1. Head(lines[s]) = lines[s][1] /\ Len(lines[s]) \in Nat \ {0}
    BY <1>2
  <2> QED
    BY <1>2, <2>1, HeadTailProperties
<1>4. ChatType' /\ lines'[s] = Tail(lines[s]) /\ heard'[s] = lines[s][1]
  BY <1>1, <1>2, <1>3 DEF ChatType
<1>5. Hears(s)'
  <2>1. \A i \in 1 .. Len(lines'[s]) : i + 1 \in 1 .. Len(lines[s])
    BY <1>3, <1>4
  <2>2. said \in Nat /\ Len(lines[s]) <= said /\ lines[s][1] = said - Len(lines[s]) + 1
        /\ \A i \in 1 .. Len(lines[s]) : lines[s][i] = said - Len(lines[s]) + i
    BY <1>1, <1>3 DEF Hears, ChatType
  <2>3. \A i \in 1 .. Len(lines'[s]) : lines'[s][i] = said - Len(lines[s]) + (i + 1)
    BY <1>3, <1>4, <2>1, <2>2
  <2>4. Len(lines'[s]) = Len(lines[s]) - 1 /\ said' = said
    BY <1>2, <1>3, <1>4
  <2>5. said' - Len(lines'[s]) = said - Len(lines[s]) + 1 /\ Len(lines'[s]) <= said'
    BY <1>3, <2>2, <2>4
  <2>6. \A i \in 1 .. Len(lines'[s]) : lines'[s][i] = said' - Len(lines'[s]) + i
    <3> SUFFICES ASSUME NEW i \in 1 .. Len(lines'[s])
                 PROVE  lines'[s][i] = said' - Len(lines'[s]) + i
      OBVIOUS
    <3>1. said - Len(lines[s]) + (i + 1) = said - Len(lines[s]) + 1 + i /\ i \in Nat
      BY <1>3, <2>2, <2>4
    <3> QED
      BY <2>3, <2>5, <3>1
  <2>7. heard'[s] = said' - Len(lines'[s])
    BY <1>4, <2>2, <2>5
  <2> QED
    BY <2>5, <2>6, <2>7 DEF Hears
<1>6. Registers(s)'
  BY <1>1, <1>2 DEF Registers
<1>7. ASSUME NEW t \in Session \ {s} PROVE Registers(t)' /\ Hears(t)'
  BY <1>1, <1>2, ChatOthers DEF ChatType
<1> QED
  BY <1>4, <1>5, <1>6, <1>7 DEF ChatInv

(* However many sessions come and go, and whatever is typed, what a client *)
(* prints are the lines in the order they were said, none left out.        *)
THEOREM ChatOneConversation == ChatSpec => []OneConversation
<1>1. ChatInv => OneConversation
  <2> SUFFICES ASSUME ChatInv, NEW s \in Session, NEW i \in 1 .. Len(lines[s]),
                      (IF i = 1 THEN heard[s] ELSE lines[s][i - 1]) # 0
               PROVE  lines[s][i] = (IF i = 1 THEN heard[s] ELSE lines[s][i - 1]) + 1
    BY DEF OneConversation
  <2>1. said \in Nat /\ Len(lines[s]) \in Nat /\ lines[s][i] = said - Len(lines[s]) + i
    BY DEF ChatInv, ChatType, Hears
  <2>2. typing[s]
    BY DEF ChatInv, ChatType, Registers
  <2>3. CASE i = 1
    BY <2>1, <2>2, <2>3 DEF ChatInv, ChatType, Hears
  <2>4. CASE i # 1
    <3>1. i - 1 \in 1 .. Len(lines[s])
      BY <2>1, <2>4
    <3>2. lines[s][i - 1] = said - Len(lines[s]) + (i - 1)
      BY <3>1 DEF ChatInv, Hears
    <3> QED
      BY <2>1, <2>4, <3>2
  <2> QED
    BY <2>3, <2>4
<1>2. ASSUME ChatInv, [ChatNext]_chatVars PROVE ChatInv'
  <2>1. CASE UNCHANGED chatVars
    BY <1>2, <2>1 DEF ChatInv, ChatType, Registers, Hears, chatVars
  <2>2. ASSUME NEW s \in Session, NEW name \in Names \cup {"OK"},
               Command(s, [cmd |-> "LOGIN", arg |-> name])
        PROVE  ChatInv'
    <3>1. [cmd |-> "LOGIN", arg |-> name] \in ChatLine
      BY DEF ChatLine
    <3> QED
      BY <1>2, <2>2, <3>1, ChatConsoles
  <2>3. ASSUME NEW s \in Session, NEW words \in {"words", "OK"},
               Command(s, [cmd |-> "BROADCAST", arg |-> words])
        PROVE  ChatInv'
    <3>1. [cmd |-> "BROADCAST", arg |-> words] \in ChatLine
      BY DEF ChatLine
    <3> QED
      BY <1>2, <2>3, <3>1, ChatConsoles
  <2> QED
    BY <1>2, <2>1, <2>2, <2>3, ChatConsoles, ChatHandles, ChatShows DEF ChatNext
<1> QED
  BY <1>1, <1>2, ChatFirst, PTL DEF ChatSpec
-----------------------------------------------------------------------------
(* JsonSample: replies match the requests.                                 *)

(* A request, or its reply.                                                *)
Piece == [round : Nat, piece : Nat]

PieceOf(round, n) == [round |-> round, piece |-> n]

(* A sequence of the pieces of a round that follow the first n.            *)
Follow(q, round, n) == \A i \in 1 .. Len(q) : q[i] = PieceOf(round, n + i)

(* At most the one piece that follows the first n.                         *)
OneFollows(m, round, n) == m \subseteq {PieceOf(round, n + 1)}

One(m) == IF m = {} THEN 0 ELSE 1

(* What a client has on its way, behind the pieces that are put together:  *)
(* none where a typed line is a round.                                     *)
WayType ==
  [base : Nat, handling : SUBSET Piece, toClient : Seq(Piece), serving : SUBSET Piece,
   toServer : Seq(Piece), unsent : Seq(Piece)]

Way(c) ==
  [base |-> IF program = "single" THEN 0 ELSE Len(reply[c]),
   handling |-> handling[c], toClient |-> toClient[c], serving |-> serving[c],
   toServer |-> toServer[c], unsent |-> unsent[c]]

(* How many pieces are ahead of those in toClient, serving, toServer and   *)
(* unsent, and how many there are.                                         *)
AtClient(w) == w.base + One(w.handling)
AtServing(w) == AtClient(w) + Len(w.toClient)
AtServer(w) == AtServing(w) + One(w.serving)
AtUnsent(w) == AtServer(w) + Len(w.toServer)
AtEnd(w) == AtUnsent(w) + Len(w.unsent)

(* Each piece follows those ahead of it.                                   *)
Ordered(w, round) ==
  /\ OneFollows(w.handling, round, w.base) /\ Follow(w.toClient, round, AtClient(w))
  /\ OneFollows(w.serving, round, AtServing(w)) /\ Follow(w.toServer, round, AtServer(w))
  /\ Follow(w.unsent, round, AtUnsent(w))

JsonType ==
  /\ program \in {"json", "jsonc10k", "single"} /\ hasty \in BOOLEAN
  /\ last \in [Client -> Nat] /\ rounds \in [Client -> Nat] /\ wrote \in [Client -> Nat]
  /\ errors \in [Client -> Nat]
  /\ reply \in [Client -> Seq(Piece)] /\ unsent \in [Client -> Seq(Piece)]
  /\ toServer \in [Client -> Seq(Piece)] /\ toClient \in [Client -> Seq(Piece)]
  /\ serving \in [Client -> SUBSET Piece] /\ handling \in [Client -> SUBSET Piece]

(* The pieces of the round are on their way in their order, all or none,   *)
(* and the replies put together are the first of them.                     *)
InOrder(c) ==
  /\ program # "single" => Follow(reply[c], last[c], 0)
  /\ Ordered(Way(c), last[c]) /\ AtEnd(Way(c)) \in {0, Counts[program]}

(* Before its first round a client has nothing on its way; OnWrite of a    *)
(* line comes before its reply is handled.                                 *)
Begins(c) ==
  /\ rounds[c] = 0 => AtEnd(Way(c)) = 0
  /\ program # "single" => wrote[c] = 0
  /\ wrote[c] # 0 => /\ wrote[c] = last[c]
                     /\ toServer[c] # <<>> \/ serving[c] # {} \/ toClient[c] # <<>>

JsonInv ==
  /\ JsonType
  /\ ~hasty => \A c \in Client : InOrder(c) /\ Begins(c) /\ errors[c] = 0

-----------------------------------------------------------------------------
(* Sequences of pieces. *)

(* The first piece is taken, and the others follow it.                     *)
LEMMA FollowTail ==
  ASSUME NEW q \in Seq(Piece), NEW r, NEW n \in Nat, q # <<>>, Follow(q, r, n)
  PROVE  /\ Head(q) = PieceOf(r, n + 1) /\ Head(q) \in Piece
         /\ Tail(q) \in Seq(Piece) /\ Follow(Tail(q), r, n + 1)
         /\ Len(Tail(q)) = Len(q) - 1 /\ Len(q) \in Nat \ {0}
<1>1. /\ Len(Tail(q)) = Len(q) - 1 /\ Tail(q) \in Seq(Piece) /\ Head(q) \in Piece
      /\ \A i \in 1 .. Len(Tail(q)) : Tail(q)[i] = q[i + 1]
  BY HeadTailProperties
<1>2. Head(q) = q[1] /\ Len(q) \in Nat \ {0}
  OBVIOUS
<1>3. \A i \in 1 .. Len(Tail(q)) : i + 1 \in 1 .. Len(q) /\ n + (i + 1) = n + 1 + i
  BY <1>1, <1>2
<1>4. Follow(Tail(q), r, n + 1)
  BY <1>1, <1>3 DEF Follow
<1>5. Head(q) = PieceOf(r, n + 1)
  BY <1>2 DEF Follow
<1> QED
  BY <1>1, <1>2, <1>4, <1>5

(* The next piece is added.                                                *)
LEMMA FollowAppend ==
  ASSUME NEW q \in Seq(Piece), NEW r, NEW n \in Nat, Follow(q, r, n),
         NEW m \in Piece, m = PieceOf(r, n + Len(q) + 1)
  PROVE  /\ Append(q, m) \in Seq(Piece) /\ Append(q, m) # <<>>
         /\ Len(Append(q, m)) = Len(q) + 1 /\ Len(q) \in Nat
         /\ Follow(Append(q, m), r, n)
<1>1. /\ Append(q, m) \in Seq(Piece) /\ Append(q, m) # <<>>
      /\ Len(Append(q, m)) = Len(q) + 1 /\ Len(q) \in Nat
      /\ \A i \in 1 .. Len(q) : Append(q, m)[i] = q[i]
      /\ Append(q, m)[Len(q) + 1] = m
  BY AppendProperties
<1>2. \A i \in 1 .. Len(Append(q, m)) : i \in 1 .. Len(q) \/ i = Len(q) + 1
  BY <1>1
<1>3. n + Len(q) + 1 = n + (Len(q) + 1)
  BY <1>1
<1>4. Follow(Append(q, m), r, n)
  BY <1>1, <1>2, <1>3 DEF Follow
<1> QED
  BY <1>1, <1>4

(* A round is its pieces, from the first.                                  *)
LEMMA RoundPieces ==
  ASSUME JsonType, NEW r \in Nat
  PROVE  /\ Counts[program] \in Nat \ {0} /\ (program # "json" => Counts[program] = 1)
         /\ Pieces(r) \in Seq(Piece) /\ Len(Pieces(r)) = Counts[program]
         /\ Follow(Pieces(r), r, 0) /\ Pieces(r) # <<>>
         /\ \A q \in Seq(Piece) : Len(q) = Counts[program] /\ Follow(q, r, 0) => q = Pieces(r)
<1>1. Counts[program] \in Nat \ {0} /\ (program # "json" => Counts[program] = 1)
  BY JsonAssumption DEF JsonType
<1>2. Pieces(r) = [i \in 1 .. Counts[program] |-> PieceOf(r, i)]
  BY DEF Pieces, PieceOf
<1>3. \A i \in 1 .. Counts[program] : PieceOf(r, i) \in Piece /\ i = 0 + i
  BY <1>1 DEF PieceOf, Piece
<1>4. Pieces(r) \in Seq(Piece) /\ Len(Pieces(r)) = Counts[program]
  BY <1>1, <1>2, <1>3
<1>5. Follow(Pieces(r), r, 0)
  BY <1>2, <1>3, <1>4 DEF Follow
<1>6. ASSUME NEW q \in Seq(Piece), Len(q) = Counts[program], Follow(q, r, 0)
      PROVE  q = Pieces(r)
  <2>1. \A i \in 1 .. Len(q) : q[i] = Pieces(r)[i]
    BY <1>2, <1>3, <1>6 DEF Follow
  <2> QED
    BY <1>4, <1>6, <2>1, SeqEqual
<1> QED
  BY <1>1, <1>4, <1>5, <1>6, EmptySeq

(* The numbers of pieces.                                                 *)
LEMMA OnTheWay ==
  ASSUME NEW w \in WayType
  PROVE  /\ AtClient(w) \in Nat /\ AtServing(w) \in Nat /\ AtServer(w) \in Nat /\ AtUnsent(w) \in Nat
         /\ AtEnd(w) \in Nat /\ w.base \in Nat
         /\ Len(w.toClient) \in Nat /\ Len(w.toServer) \in Nat /\ Len(w.unsent) \in Nat
         /\ One(w.handling) \in {0, 1} /\ One(w.serving) \in {0, 1}
<1>1. /\ Len(w.toClient) \in Nat /\ Len(w.toServer) \in Nat /\ Len(w.unsent) \in Nat /\ w.base \in Nat
  BY DEF WayType
<1>2. One(w.handling) \in {0, 1} /\ One(w.serving) \in {0, 1}
  BY DEF One
<1>3. AtClient(w) \in Nat
  BY <1>1, <1>2 DEF AtClient
<1>4. AtServing(w) \in Nat
  BY <1>1, <1>3 DEF AtServing
<1>5. AtServer(w) \in Nat
  BY <1>2, <1>4 DEF AtServer
<1>6. AtUnsent(w) \in Nat
  BY <1>1, <1>5 DEF AtUnsent
<1>7. AtEnd(w) \in Nat
  BY <1>1, <1>6 DEF AtEnd
<1> QED
  BY <1>1, <1>2, <1>3, <1>4, <1>5, <1>6, <1>7

(* A way with no piece, or but one.                                        *)
LEMMA FewOnTheWay ==
  ASSUME NEW w \in WayType
  PROVE  /\ AtEnd(w) = 0 <=> /\ w.base = 0 /\ w.handling = {} /\ w.toClient = <<>>
                             /\ w.serving = {} /\ w.toServer = <<>> /\ w.unsent = <<>>
         /\ AtEnd(w) <= 1 /\ w.toServer # <<>> => w.serving = {}
         /\ AtEnd(w) <= 1 /\ w.toClient # <<>> => w.handling = {}
         /\ w.handling # {} => AtEnd(w) >= w.base + 1
         /\ w.handling # {} /\ AtEnd(w) = w.base + 1 =>
              w.toClient = <<>> /\ w.serving = {} /\ w.toServer = <<>> /\ w.unsent = <<>>
<1>1. /\ w.toClient = <<>> <=> Len(w.toClient) = 0
      /\ w.toServer = <<>> <=> Len(w.toServer) = 0
      /\ w.unsent = <<>> <=> Len(w.unsent) = 0
  BY EmptySeq DEF WayType
<1>2. (w.handling = {} <=> One(w.handling) = 0) /\ (w.serving = {} <=> One(w.serving) = 0)
  BY DEF One
<1>3. AtEnd(w) = w.base + One(w.handling) + Len(w.toClient) + One(w.serving) + Len(w.toServer)
                 + Len(w.unsent)
  BY DEF AtEnd, AtUnsent, AtServer, AtServing, AtClient
<1>4. /\ Len(w.toClient) \in Nat /\ Len(w.toServer) \in Nat /\ Len(w.unsent) \in Nat /\ w.base \in Nat
      /\ One(w.handling) \in {0, 1} /\ One(w.serving) \in {0, 1}
  BY OnTheWay
<1>5. /\ AtEnd(w) = 0 <=> /\ w.base = 0 /\ One(w.handling) = 0 /\ Len(w.toClient) = 0
                          /\ One(w.serving) = 0 /\ Len(w.toServer) = 0 /\ Len(w.unsent) = 0
      /\ AtEnd(w) <= 1 /\ Len(w.toServer) # 0 => One(w.serving) = 0
      /\ AtEnd(w) <= 1 /\ Len(w.toClient) # 0 => One(w.handling) = 0
      /\ One(w.handling) # 0 => AtEnd(w) >= w.base + 1
      /\ One(w.handling) # 0 /\ AtEnd(w) = w.base + 1 =>
           /\ Len(w.toClient) = 0 /\ One(w.serving) = 0
           /\ Len(w.toServer) = 0 /\ Len(w.unsent) = 0
  <2> DEFINE a == w.base
             b == One(w.handling)
             c == Len(w.toClient)
             d == One(w.serving)
             e == Len(w.toServer)
             f == Len(w.unsent)
             sum == AtEnd(w)
  <2>1. /\ a \in Nat /\ b \in {0, 1} /\ c \in Nat /\ d \in {0, 1} /\ e \in Nat /\ f \in Nat
        /\ sum = a + b + c + d + e + f
    BY <1>3, <1>4
  <2> HIDE DEF a, b, c, d, e, f, sum
  <2>2. /\ sum = 0 <=> a = 0 /\ b = 0 /\ c = 0 /\ d = 0 /\ e = 0 /\ f = 0
        /\ sum <= 1 /\ e # 0 => d = 0
        /\ sum <= 1 /\ c # 0 => b = 0
        /\ b # 0 => sum >= a + 1
        /\ b # 0 /\ sum = a + 1 => c = 0 /\ d = 0 /\ e = 0 /\ f = 0
    BY <2>1
  <2> QED
    BY <2>2 DEF a, b, c, d, e, f, sum
<1> QED
  BY <1>1, <1>2, <1>5

(* A way with nothing but requests to send.                                *)
LEMMA WayBegins ==
  ASSUME NEW q \in Seq(Piece), NEW r, Follow(q, r, 0), NEW w,
         w = [base |-> 0, handling |-> {}, toClient |-> <<>>, serving |-> {}, toServer |-> <<>>,
              unsent |-> q]
  PROVE  w \in WayType /\ Ordered(w, r) /\ AtEnd(w) = Len(q)
<1>1. w \in WayType
  BY DEF WayType
<1>2. AtClient(w) = 0 /\ AtServing(w) = 0 /\ AtServer(w) = 0 /\ AtUnsent(w) = 0 /\ AtEnd(w) = Len(q)
  BY DEF AtClient, AtServing, AtServer, AtUnsent, AtEnd, One
<1>3. Follow(<<>>, r, 0)
  BY DEF Follow
<1>4. Ordered(w, r)
  BY <1>2, <1>3 DEF Ordered, OneFollows
<1> QED
  BY <1>1, <1>2, <1>4

(* What is on the way once a request is sent.                              *)
Sent(w) ==
  [base |-> w.base, handling |-> w.handling, toClient |-> w.toClient,
   serving |-> w.serving, toServer |-> Append(w.toServer, Head(w.unsent)), unsent |-> Tail(w.unsent)]

(* A request is sent.                                                      *)
LEMMA WaySend ==
  ASSUME NEW w \in WayType, NEW r, Ordered(w, r), w.unsent # <<>>
  PROVE  /\ Sent(w) \in WayType /\ Ordered(Sent(w), r)
         /\ AtEnd(Sent(w)) = AtEnd(w) /\ AtEnd(w) # 0
         /\ Sent(w).toServer # <<>> /\ Head(w.unsent).round = r
<1> DEFINE v == Sent(w)
<1>1. /\ w.unsent \in Seq(Piece) /\ w.toServer \in Seq(Piece) /\ Follow(w.unsent, r, AtUnsent(w))
      /\ Follow(w.toServer, r, AtServer(w)) /\ AtUnsent(w) \in Nat /\ AtServer(w) \in Nat
      /\ AtEnd(w) # 0
  BY OnTheWay, FewOnTheWay DEF WayType, Ordered
<1>2. /\ Head(w.unsent) = PieceOf(r, AtUnsent(w) + 1) /\ Head(w.unsent) \in Piece
      /\ Tail(w.unsent) \in Seq(Piece) /\ Follow(Tail(w.unsent), r, AtUnsent(w) + 1)
      /\ Len(Tail(w.unsent)) = Len(w.unsent) - 1 /\ Len(w.unsent) \in Nat \ {0}
  BY <1>1, FollowTail
<1>3. /\ v.toServer \in Seq(Piece) /\ v.toServer # <<>> /\ Len(v.toServer) = Len(w.toServer) + 1
      /\ Follow(v.toServer, r, AtServer(w)) /\ Len(w.toServer) \in Nat
  <2>1. Head(w.unsent) = PieceOf(r, AtServer(w) + Len(w.toServer) + 1)
    BY <1>2 DEF AtUnsent
  <2>2. v.toServer = Append(w.toServer, Head(w.unsent))
    BY DEF WayType, Sent
  <2> DEFINE q == Append(w.toServer, Head(w.unsent))
  <2> HIDE DEF v
  <2>3. /\ w.toServer \in Seq(Piece) /\ Follow(w.toServer, r, AtServer(w)) /\ AtServer(w) \in Nat
        /\ Head(w.unsent) \in Piece
    BY <1>1, <1>2
  <2>4. /\ q \in Seq(Piece) /\ q # <<>> /\ Len(q) = Len(w.toServer) + 1
        /\ Follow(q, r, AtServer(w)) /\ Len(w.toServer) \in Nat
    BY <2>1, <2>3, FollowAppend
  <2> QED
    BY <2>2, <2>4
<1>4. /\ v.base = w.base /\ v.handling = w.handling /\ v.toClient = w.toClient
      /\ v.serving = w.serving /\ v.unsent = Tail(w.unsent) /\ v \in WayType
  BY <1>2, <1>3 DEF WayType, Sent
<1>5. AtClient(v) = AtClient(w) /\ AtServing(v) = AtServing(w) /\ AtServer(v) = AtServer(w)
  BY <1>4 DEF AtClient, AtServing, AtServer
<1>6. AtUnsent(v) = AtUnsent(w) + 1
  BY <1>1, <1>3, <1>5 DEF AtUnsent
<1>7. AtEnd(v) = AtEnd(w)
  <2>1. Len(v.unsent) = Len(w.unsent) - 1 /\ Len(w.unsent) \in Nat /\ AtUnsent(w) \in Nat
    BY <1>1, <1>2, <1>4
  <2>2. AtEnd(v) = AtUnsent(v) + Len(v.unsent) /\ AtEnd(w) = AtUnsent(w) + Len(w.unsent)
    BY DEF AtEnd
  <2> HIDE DEF v
  <2> QED
    BY <1>6, <2>1, <2>2
<1>8. Ordered(v, r)
  BY <1>2, <1>3, <1>4, <1>5, <1>6 DEF Ordered
<1> QED
  BY <1>1, <1>2, <1>3, <1>4, <1>7, <1>8 DEF PieceOf

(* What is on the way once the server has taken a request.                 *)
RequestTaken(w) ==
  [base |-> w.base, handling |-> w.handling, toClient |-> w.toClient,
   serving |-> {Head(w.toServer)}, toServer |-> Tail(w.toServer), unsent |-> w.unsent]

(* The server takes a request.                                             *)
LEMMA WayTakeRequest ==
  ASSUME NEW w \in WayType, NEW r, Ordered(w, r), w.toServer # <<>>, w.serving = {}
  PROVE  /\ RequestTaken(w) \in WayType /\ Ordered(RequestTaken(w), r)
         /\ AtEnd(RequestTaken(w)) = AtEnd(w) /\ AtEnd(w) # 0
<1> DEFINE v == RequestTaken(w)
<1>1. /\ w.toServer \in Seq(Piece) /\ Follow(w.toServer, r, AtServer(w)) /\ AtServer(w) \in Nat
      /\ AtServing(w) \in Nat /\ AtEnd(w) # 0 /\ AtServer(w) = AtServing(w)
  BY OnTheWay, FewOnTheWay DEF WayType, Ordered, AtServer, One
<1>2. /\ Head(w.toServer) = PieceOf(r, AtServer(w) + 1) /\ Head(w.toServer) \in Piece
      /\ Tail(w.toServer) \in Seq(Piece) /\ Follow(Tail(w.toServer), r, AtServer(w) + 1)
      /\ Len(Tail(w.toServer)) = Len(w.toServer) - 1 /\ Len(w.toServer) \in Nat \ {0}
  BY <1>1, FollowTail
<1>3. /\ v.base = w.base /\ v.handling = w.handling /\ v.toClient = w.toClient
      /\ v.serving = {Head(w.toServer)} /\ v.toServer = Tail(w.toServer) /\ v.unsent = w.unsent
      /\ v \in WayType
  BY <1>2 DEF WayType, RequestTaken
<1>4. AtClient(v) = AtClient(w) /\ AtServing(v) = AtServing(w) /\ AtServer(v) = AtServer(w) + 1
  BY <1>1, <1>3 DEF AtClient, AtServing, AtServer, One
<1>5. AtUnsent(v) = AtUnsent(w)
  BY <1>1, <1>2, <1>3, <1>4 DEF AtUnsent
<1>6. Ordered(v, r) /\ AtEnd(v) = AtEnd(w)
  BY <1>1, <1>2, <1>3, <1>4, <1>5 DEF Ordered, OneFollows, AtEnd
<1> QED
  BY <1>1, <1>3, <1>6

(* What is on the way once the server has replied to m.                    *)
Replied(w, m) ==
  [base |-> w.base, handling |-> w.handling, toClient |-> Append(w.toClient, m),
   serving |-> w.serving \ {m}, toServer |-> w.toServer, unsent |-> w.unsent]

(* The server replies.                                                     *)
LEMMA WayReply ==
  ASSUME NEW w \in WayType, NEW r, Ordered(w, r), NEW m \in w.serving
  PROVE  /\ Replied(w, m) \in WayType /\ Ordered(Replied(w, m), r)
         /\ AtEnd(Replied(w, m)) = AtEnd(w) /\ AtEnd(w) # 0
         /\ Replied(w, m).toClient # <<>>
<1> DEFINE v == Replied(w, m)
<1>1. /\ w.toClient \in Seq(Piece) /\ Follow(w.toClient, r, AtClient(w)) /\ AtClient(w) \in Nat
      /\ AtServing(w) \in Nat /\ AtEnd(w) # 0 /\ AtServer(w) = AtServing(w) + 1
      /\ m \in Piece /\ m = PieceOf(r, AtServing(w) + 1) /\ w.serving = {m}
  BY OnTheWay, FewOnTheWay DEF WayType, Ordered, OneFollows, AtServer, One
<1>2. /\ v.toClient \in Seq(Piece) /\ v.toClient # <<>> /\ Len(v.toClient) = Len(w.toClient) + 1
      /\ Follow(v.toClient, r, AtClient(w)) /\ Len(w.toClient) \in Nat
  <2>1. m = PieceOf(r, AtClient(w) + Len(w.toClient) + 1)
    BY <1>1 DEF AtServing
  <2>2. v.toClient = Append(w.toClient, m)
    BY DEF WayType, Replied
  <2> DEFINE q == Append(w.toClient, m)
  <2> HIDE DEF v
  <2>3. /\ w.toClient \in Seq(Piece) /\ Follow(w.toClient, r, AtClient(w)) /\ AtClient(w) \in Nat
        /\ m \in Piece
    BY <1>1
  <2>4. /\ q \in Seq(Piece) /\ q # <<>> /\ Len(q) = Len(w.toClient) + 1
        /\ Follow(q, r, AtClient(w)) /\ Len(w.toClient) \in Nat
    BY <2>1, <2>3, FollowAppend
  <2> QED
    BY <2>2, <2>4
<1>3. /\ v.base = w.base /\ v.handling = w.handling /\ v.serving = {}
      /\ v.toServer = w.toServer /\ v.unsent = w.unsent /\ v \in WayType
  BY <1>1, <1>2 DEF WayType, Replied
<1>4. AtClient(v) = AtClient(w) /\ AtServing(v) = AtServing(w) + 1
  BY <1>1, <1>2, <1>3 DEF AtClient, AtServing
<1>5. AtServer(v) = AtServer(w)
  BY <1>1, <1>3, <1>4 DEF AtServer, One
<1>6. AtUnsent(v) = AtUnsent(w) /\ AtEnd(v) = AtEnd(w)
  BY <1>3, <1>5 DEF AtUnsent, AtEnd
<1>7. Ordered(v, r)
  BY <1>2, <1>3, <1>4, <1>5, <1>6 DEF Ordered, OneFollows
<1> QED
  BY <1>1, <1>2, <1>3, <1>6, <1>7

(* What is on the way once the client has taken a reply.                   *)
ReplyTaken(w) ==
  [base |-> w.base, handling |-> {Head(w.toClient)}, toClient |-> Tail(w.toClient),
   serving |-> w.serving, toServer |-> w.toServer, unsent |-> w.unsent]

(* The client takes a reply.                                               *)
LEMMA WayTakeReply ==
  ASSUME NEW w \in WayType, NEW r, Ordered(w, r), w.toClient # <<>>, w.handling = {}
  PROVE  /\ ReplyTaken(w) \in WayType /\ Ordered(ReplyTaken(w), r)
         /\ AtEnd(ReplyTaken(w)) = AtEnd(w) /\ AtEnd(w) # 0
         /\ Head(w.toClient).round = r
<1> DEFINE v == ReplyTaken(w)
<1>1. /\ w.toClient \in Seq(Piece) /\ Follow(w.toClient, r, AtClient(w)) /\ AtClient(w) \in Nat
      /\ w.base \in Nat /\ AtEnd(w) # 0 /\ AtClient(w) = w.base
  BY OnTheWay, FewOnTheWay DEF WayType, Ordered, AtClient, One
<1>2. /\ Head(w.toClient) = PieceOf(r, AtClient(w) + 1) /\ Head(w.toClient) \in Piece
      /\ Tail(w.toClient) \in Seq(Piece) /\ Follow(Tail(w.toClient), r, AtClient(w) + 1)
      /\ Len(Tail(w.toClient)) = Len(w.toClient) - 1 /\ Len(w.toClient) \in Nat \ {0}
  BY <1>1, FollowTail
<1>3. /\ v.base = w.base /\ v.handling = {Head(w.toClient)} /\ v.toClient = Tail(w.toClient)
      /\ v.serving = w.serving /\ v.toServer = w.toServer /\ v.unsent = w.unsent
      /\ v \in WayType
  BY <1>2 DEF WayType, ReplyTaken
<1>4. AtClient(v) = AtClient(w) + 1
  BY <1>1, <1>3 DEF AtClient, One
<1>5. AtServing(v) = AtServing(w)
  BY <1>1, <1>2, <1>3, <1>4 DEF AtServing
<1>6. AtServer(v) = AtServer(w) /\ AtUnsent(v) = AtUnsent(w) /\ AtEnd(v) = AtEnd(w)
  BY <1>3, <1>5 DEF AtServer, AtUnsent, AtEnd
<1>7. Ordered(v, r)
  BY <1>1, <1>2, <1>3, <1>4, <1>5, <1>6 DEF Ordered, OneFollows
<1> QED
  BY <1>1, <1>2, <1>3, <1>6, <1>7 DEF PieceOf

(* What is on the way once m is put together with those before it.         *)
Processed(w, m) ==
  [base |-> w.base + 1, handling |-> w.handling \ {m}, toClient |-> w.toClient,
   serving |-> w.serving, toServer |-> w.toServer, unsent |-> w.unsent]

(* A reply is put together with those before it.                           *)
LEMMA WayProcess ==
  ASSUME NEW w \in WayType, NEW r, Ordered(w, r), NEW m \in w.handling
  PROVE  /\ Processed(w, m) \in WayType /\ Ordered(Processed(w, m), r)
         /\ AtEnd(Processed(w, m)) = AtEnd(w) /\ AtEnd(w) >= w.base + 1
         /\ w.handling = {m} /\ m = PieceOf(r, w.base + 1) /\ m \in Piece
<1> DEFINE v == Processed(w, m)
<1>1. /\ w.base \in Nat /\ AtEnd(w) >= w.base + 1 /\ AtClient(w) = w.base + 1
      /\ m \in Piece /\ m = PieceOf(r, w.base + 1) /\ w.handling = {m}
  BY OnTheWay, FewOnTheWay DEF WayType, Ordered, OneFollows, AtClient, One
<1>2. /\ v.base = w.base + 1 /\ v.handling = {} /\ v.toClient = w.toClient
      /\ v.serving = w.serving /\ v.toServer = w.toServer /\ v.unsent = w.unsent
      /\ v \in WayType
  <2>1. w.handling \ {m} = {} /\ w.handling \ {m} \in SUBSET Piece /\ w.base + 1 \in Nat
    BY <1>1
  <2> QED
    BY <2>1 DEF WayType, Processed
<1>3. AtClient(v) = AtClient(w)
  BY <1>1, <1>2 DEF AtClient, One
<1>4. AtServing(v) = AtServing(w) /\ AtServer(v) = AtServer(w) /\ AtUnsent(v) = AtUnsent(w)
      /\ AtEnd(v) = AtEnd(w)
  BY <1>2, <1>3 DEF AtServing, AtServer, AtUnsent, AtEnd
<1>5. Ordered(v, r)
  BY <1>2, <1>3, <1>4 DEF Ordered, OneFollows
<1> QED
  BY <1>1, <1>2, <1>4, <1>5

-----------------------------------------------------------------------------
(* The steps of the clients.                                               *)

(* What a client has on its way has the type of a way.                     *)
LEMMA WayTyped ==
  ASSUME JsonType
  PROVE  \A c \in Client : Way(c) \in WayType
BY DEF JsonType, Way, WayType

(* What a step has to show: the types, and the client that takes it.       *)
LEMMA JsonOthers ==
  ASSUME JsonInv, NEW c \in Client, JsonType', program' = program, hasty \in BOOLEAN, hasty => hasty',
         \A d \in Client \ {c} :
           /\ last'[d] = last[d] /\ reply'[d] = reply[d] /\ rounds'[d] = rounds[d]
           /\ unsent'[d] = unsent[d] /\ wrote'[d] = wrote[d] /\ errors'[d] = errors[d]
           /\ toServer'[d] = toServer[d] /\ serving'[d] = serving[d]
           /\ toClient'[d] = toClient[d] /\ handling'[d] = handling[d],
         ~hasty' => InOrder(c)' /\ Begins(c)' /\ errors'[c] = 0
  PROVE  JsonInv'
<1> SUFFICES ASSUME ~hasty', NEW d \in Client
             PROVE  InOrder(d)' /\ Begins(d)' /\ errors'[d] = 0
  BY DEF JsonInv
<1>1. CASE d = c
  BY <1>1
<1>2. CASE d # c
  <2>1. InOrder(d) /\ Begins(d) /\ errors[d] = 0
    BY DEF JsonInv
  <2>2. Way(d)' = Way(d) /\ last'[d] = last[d] /\ reply'[d] = reply[d]
    BY <1>2 DEF Way
  <2>3. InOrder(d)'
    BY <2>1, <2>2 DEF InOrder
  <2>4. Begins(d)'
    BY <1>2, <2>1, <2>2 DEF Begins
  <2> QED
    BY <1>2, <2>1, <2>3, <2>4
<1> QED
  BY <1>1, <1>2

(* A client whose pieces move on, without a piece lost or made.            *)
LEMMA JsonMoves ==
  ASSUME NEW c \in Client, program' = program, InOrder(c), Begins(c),
         Way(c) \in WayType,
         last'[c] = last[c], reply'[c] = reply[c], rounds'[c] = rounds[c],
         Ordered(Way(c)', last[c]), AtEnd(Way(c)') = AtEnd(Way(c)), AtEnd(Way(c)) # 0
  PROVE  InOrder(c)' /\ (rounds'[c] = 0 => AtEnd(Way(c)') = 0)
<1>1. InOrder(c)'
  BY DEF InOrder
<1>2. rounds'[c] # 0
  BY DEF Begins
<1> QED
  BY <1>1, <1>2

(* No client has a session, and none has an error.                         *)
LEMMA JsonFirst == JsonInit => JsonInv
<1> SUFFICES ASSUME JsonInit PROVE JsonInv
  OBVIOUS
<1>1. JsonType
  <2>1. <<>> \in Seq(Piece) /\ {} \in SUBSET Piece
    BY EmptySeq
  <2>2. program \in {"json", "jsonc10k", "single"}
    BY JsonAssumption DEF JsonInit
  <2>3. /\ All(0) \in [Client -> Nat] /\ All(<<>>) \in [Client -> Seq(Piece)]
        /\ All({}) \in [Client -> SUBSET Piece]
    BY <2>1 DEF All
  <2> QED
    BY <2>2, <2>3 DEF JsonInit, JsonType
<1>2. ASSUME NEW c \in Client PROVE InOrder(c) /\ Begins(c) /\ errors[c] = 0
  <2>1. /\ reply[c] = <<>> /\ errors[c] = 0 /\ wrote[c] = 0
        /\ Way(c) = [base |-> 0, handling |-> {}, toClient |-> <<>>, serving |-> {},
                     toServer |-> <<>>, unsent |-> <<>>]
    BY DEF JsonInit, All, Way
  <2>2. Ordered(Way(c), last[c]) /\ AtEnd(Way(c)) = 0
    <3>1. Follow(<<>>, last[c], 0) /\ <<>> \in Seq(Piece) /\ Len(<<>>) = 0
      BY EmptySeq DEF Follow
    <3> QED
      BY <2>1, <3>1, WayBegins
  <2> QED
    BY <2>1, <2>2 DEF InOrder, Begins, Follow
<1> QED
  BY <1>1, <1>2 DEF JsonInv

(* Steps of connections and of the data of sessions.                       *)
LEMMA JsonUnchanged ==
  ASSUME JsonInv, UNCHANGED <<program, roundVars, messageVars>>
  PROVE  JsonInv'
<1>1. JsonType'
  BY DEF JsonInv, JsonType, roundVars, messageVars
<1>2. ASSUME NEW c \in Client, InOrder(c), Begins(c), errors[c] = 0
      PROVE  InOrder(c)' /\ Begins(c)' /\ errors'[c] = 0
  <2>1. Way(c)' = Way(c)
    BY DEF Way, roundVars, messageVars
  <2> QED
    BY <1>2, <2>1 DEF InOrder, Begins, roundVars, messageVars
<1> QED
  BY <1>1, <1>2 DEF JsonInv, roundVars

(* The messages between a client and the server.                           *)
LEMMA JsonMessages ==
  ASSUME JsonInv, NEW c \in Client,
         \/ Send(c) \/ TakeRequest(c) \/ TakeReply(c) \/ \E m \in serving[c] : Reply(c, m)
  PROVE  JsonInv'
<1>1. /\ JsonType /\ Way(c) \in WayType
      /\ ~hasty => InOrder(c) /\ Begins(c) /\ errors[c] = 0 /\ Ordered(Way(c), last[c])
  BY WayTyped DEF JsonInv, InOrder
<1>2. ASSUME Send(c) PROVE JsonInv'
  <2>1. /\ unsent[c] # <<>> /\ wrote[c] = 0
        /\ wrote' = [wrote EXCEPT ![c] = IF program = "single" THEN Head(unsent[c]).round ELSE 0]
        /\ toServer' = [toServer EXCEPT ![c] = Append(@, Head(unsent[c]))]
        /\ unsent' = [unsent EXCEPT ![c] = Tail(@)]
        /\ UNCHANGED <<program, last, reply, rounds, errors, hasty, serving, toClient, handling>>
    BY <1>2 DEF Send
  <2>2. /\ unsent[c] \in Seq(Piece) /\ toServer[c] \in Seq(Piece)
        /\ Head(unsent[c]) \in Piece /\ Tail(unsent[c]) \in Seq(Piece)
        /\ Append(toServer[c], Head(unsent[c])) \in Seq(Piece)
    <3>1. unsent[c] \in Seq(Piece) /\ toServer[c] \in Seq(Piece)
      BY <1>1 DEF JsonType
    <3>2. Head(unsent[c]) \in Piece /\ Tail(unsent[c]) \in Seq(Piece)
      BY <2>1, <3>1, HeadTailProperties
    <3> QED
      BY <3>1, <3>2, AppendProperties
  <2>3. JsonType'
    <3>1. Head(unsent[c]).round \in Nat
      BY <2>2 DEF Piece
    <3>2. wrote' \in [Client -> Nat]
      BY <1>1, <2>1, <3>1 DEF JsonType
    <3>3. toServer' \in [Client -> Seq(Piece)] /\ unsent' \in [Client -> Seq(Piece)]
      BY <1>1, <2>1, <2>2 DEF JsonType
    <3> QED
      BY <1>1, <2>1, <3>2, <3>3 DEF JsonType
  <2>4. ASSUME ~hasty PROVE InOrder(c)' /\ Begins(c)' /\ errors'[c] = 0
    <3>1. /\ Way(c).unsent = unsent[c] /\ Way(c)'.toServer = toServer'[c]
          /\ Way(c)' = Sent(Way(c))
      <4>1. toServer'[c] = Append(toServer[c], Head(unsent[c])) /\ unsent'[c] = Tail(unsent[c])
        BY <1>1, <2>1 DEF JsonType
      <4>2. /\ program' = program /\ reply'[c] = reply[c] /\ handling'[c] = handling[c]
            /\ serving'[c] = serving[c] /\ toClient'[c] = toClient[c]
           
        BY <2>1
      <4> QED
        BY <4>1, <4>2 DEF Way, Sent
    <3>2. /\ Ordered(Way(c)', last[c]) /\ AtEnd(Way(c)') = AtEnd(Way(c)) /\ AtEnd(Way(c)) # 0
          /\ toServer'[c] # <<>> /\ Head(unsent[c]).round = last[c]
      BY <1>1, <2>1, <2>4, <3>1, WaySend
    <3>3. InOrder(c)' /\ (rounds'[c] = 0 => AtEnd(Way(c)') = 0)
      BY <1>1, <2>1, <2>4, <3>2, JsonMoves
    <3> QED
      BY <1>1, <2>1, <2>4, <3>2, <3>3 DEF Begins, JsonType
  <2> QED
    BY <1>1, <2>1, <2>3, <2>4, JsonOthers DEF JsonType
<1>3. ASSUME ~hasty, ~Orderly PROVE AtEnd(Way(c)) <= 1
  <2>1. AtEnd(Way(c)) \in {0, Counts[program]} /\ program = "jsonc10k"
    BY <1>1, <1>3 DEF InOrder, Orderly
  <2> QED
    BY <2>1, JsonAssumption
<1>4. ASSUME TakeRequest(c) PROVE JsonInv'
  <2>1. /\ toServer[c] # <<>> /\ (Orderly => serving[c] = {})
        /\ serving' = [serving EXCEPT ![c] = @ \cup {Head(toServer[c])}]
        /\ toServer' = [toServer EXCEPT ![c] = Tail(@)]
        /\ UNCHANGED <<program, last, reply, rounds, errors, hasty, unsent, toClient, handling, wrote>>
    BY <1>4 DEF TakeRequest, roundVars
  <2>2. Head(toServer[c]) \in Piece /\ Tail(toServer[c]) \in Seq(Piece)
    <3>1. toServer[c] \in Seq(Piece)
      BY <1>1 DEF JsonType
    <3> QED
      BY <2>1, <3>1, HeadTailProperties
  <2>3. JsonType'
    BY <1>1, <2>1, <2>2 DEF JsonType
  <2>4. ASSUME ~hasty PROVE InOrder(c)' /\ Begins(c)' /\ errors'[c] = 0
    <3>1. /\ Way(c).toServer = toServer[c] /\ Way(c).serving = serving[c]
      BY DEF Way
    <3>2. serving[c] = {}
      BY <1>1, <1>3, <2>1, <2>4, <3>1, FewOnTheWay
    <3>3. /\ Way(c)' = RequestTaken(Way(c))
          /\ serving'[c] # {}
      <4>1. serving'[c] = {Head(toServer[c])} /\ toServer'[c] = Tail(toServer[c])
        BY <1>1, <2>1, <3>2 DEF JsonType
      <4>2. /\ program' = program /\ reply'[c] = reply[c] /\ handling'[c] = handling[c]
            /\ toClient'[c] = toClient[c]
            /\ unsent'[c] = unsent[c]
        BY <2>1
      <4> QED
        BY <4>1, <4>2 DEF Way, RequestTaken
    <3>4. Ordered(Way(c)', last[c]) /\ AtEnd(Way(c)') = AtEnd(Way(c)) /\ AtEnd(Way(c)) # 0
      BY <1>1, <2>1, <2>4, <3>1, <3>2, <3>3, WayTakeRequest
    <3>5. InOrder(c)' /\ (rounds'[c] = 0 => AtEnd(Way(c)') = 0)
      BY <1>1, <2>1, <2>4, <3>4, JsonMoves
    <3> QED
      BY <1>1, <2>1, <2>4, <3>3, <3>5 DEF Begins
  <2> QED
    BY <1>1, <2>1, <2>3, <2>4, JsonOthers DEF JsonType
<1>5. ASSUME NEW m \in serving[c], Reply(c, m) PROVE JsonInv'
  <2>1. /\ serving' = [serving EXCEPT ![c] = @ \ {m}]
        /\ toClient' = [toClient EXCEPT ![c] = Append(@, m)]
        /\ UNCHANGED <<program, last, reply, rounds, errors, hasty, unsent, toServer, handling, wrote>>
    BY <1>5 DEF Reply, roundVars
  <2>2. m \in Piece /\ Append(toClient[c], m) \in Seq(Piece)
    <3>1. m \in Piece /\ toClient[c] \in Seq(Piece)
      BY <1>1 DEF JsonType
    <3> QED
      BY <3>1, AppendProperties
  <2>3. JsonType'
    BY <1>1, <2>1, <2>2 DEF JsonType
  <2>4. ASSUME ~hasty PROVE InOrder(c)' /\ Begins(c)' /\ errors'[c] = 0
    <3>1. /\ Way(c).serving = serving[c]
          /\ Way(c)' = Replied(Way(c), m)
          /\ Way(c)'.toClient = toClient'[c]
      <4>1. serving'[c] = serving[c] \ {m} /\ toClient'[c] = Append(toClient[c], m)
        BY <1>1, <2>1 DEF JsonType
      <4>2. /\ program' = program /\ reply'[c] = reply[c] /\ handling'[c] = handling[c]
           
            /\ toServer'[c] = toServer[c] /\ unsent'[c] = unsent[c]
        BY <2>1
      <4> QED
        BY <4>1, <4>2 DEF Way, Replied
    <3>2. /\ Ordered(Way(c)', last[c]) /\ AtEnd(Way(c)') = AtEnd(Way(c)) /\ AtEnd(Way(c)) # 0
          /\ toClient'[c] # <<>>
      BY <1>1, <2>4, <3>1, WayReply
    <3>3. InOrder(c)' /\ (rounds'[c] = 0 => AtEnd(Way(c)') = 0)
      BY <1>1, <2>1, <2>4, <3>2, JsonMoves
    <3> QED
      BY <1>1, <2>1, <2>4, <3>2, <3>3 DEF Begins
  <2> QED
    BY <1>1, <2>1, <2>3, <2>4, JsonOthers DEF JsonType
<1>6. ASSUME TakeReply(c) PROVE JsonInv'
  <2>1. /\ toClient[c] # <<>> /\ Head(toClient[c]).round # wrote[c] /\ (Orderly => handling[c] = {})
        /\ handling' = [handling EXCEPT ![c] = @ \cup {Head(toClient[c])}]
        /\ toClient' = [toClient EXCEPT ![c] = Tail(@)]
        /\ UNCHANGED <<program, last, reply, rounds, errors, hasty, unsent, toServer, serving, wrote>>
    BY <1>6 DEF TakeReply, roundVars
  <2>2. Head(toClient[c]) \in Piece /\ Tail(toClient[c]) \in Seq(Piece)
    <3>1. toClient[c] \in Seq(Piece)
      BY <1>1 DEF JsonType
    <3> QED
      BY <2>1, <3>1, HeadTailProperties
  <2>3. JsonType'
    BY <1>1, <2>1, <2>2 DEF JsonType
  <2>4. ASSUME ~hasty PROVE InOrder(c)' /\ Begins(c)' /\ errors'[c] = 0
    <3>1. /\ Way(c).toClient = toClient[c] /\ Way(c).handling = handling[c]
      BY DEF Way
    <3>2. handling[c] = {}
      BY <1>1, <1>3, <2>1, <2>4, <3>1, FewOnTheWay
    <3>3. Way(c)' = ReplyTaken(Way(c))
      <4>1. handling'[c] = {Head(toClient[c])} /\ toClient'[c] = Tail(toClient[c])
        BY <1>1, <2>1, <3>2 DEF JsonType
      <4>2. /\ program' = program /\ reply'[c] = reply[c]
            /\ serving'[c] = serving[c]
            /\ toServer'[c] = toServer[c] /\ unsent'[c] = unsent[c]
        BY <2>1
      <4> QED
        BY <4>1, <4>2 DEF Way, ReplyTaken
    <3>4. /\ Ordered(Way(c)', last[c]) /\ AtEnd(Way(c)') = AtEnd(Way(c)) /\ AtEnd(Way(c)) # 0
          /\ Head(toClient[c]).round = last[c]
      BY <1>1, <2>1, <2>4, <3>1, <3>2, <3>3, WayTakeReply
    <3>5. InOrder(c)' /\ (rounds'[c] = 0 => AtEnd(Way(c)') = 0)
      BY <1>1, <2>1, <2>4, <3>4, JsonMoves
    <3>6. wrote[c] = 0
      BY <1>1, <2>1, <2>4, <3>4 DEF Begins
    <3> QED
      BY <1>1, <2>1, <2>4, <3>5, <3>6 DEF Begins
  <2> QED
    BY <1>1, <2>1, <2>3, <2>4, JsonOthers DEF JsonType
<1> QED
  BY <1>2, <1>4, <1>5, <1>6
(* A client with nothing on its way but, perhaps, the requests of a round. *)
LEMMA JsonAnew ==
  ASSUME JsonType, NEW c \in Client, program' = program, last'[c] \in Nat,
         program # "single" => reply'[c] = <<>>,
         handling'[c] = {}, toClient'[c] = <<>>, serving'[c] = {}, toServer'[c] = <<>>, wrote'[c] = 0,
         unsent'[c] = <<>> \/ (unsent'[c] = Pieces(last'[c]) /\ rounds'[c] # 0)
  PROVE  InOrder(c)' /\ Begins(c)'
<1>1. /\ Counts[program] # 0 /\ Pieces(last'[c]) \in Seq(Piece) /\ Follow(Pieces(last'[c]), last'[c], 0)
      /\ Len(Pieces(last'[c])) = Counts[program]
  BY RoundPieces
<1>2. <<>> \in Seq(Piece) /\ Len(<<>>) = 0 /\ Follow(<<>>, last'[c], 0)
  BY EmptySeq DEF Follow
<1>3. Way(c)' = [base |-> 0, handling |-> {}, toClient |-> <<>>, serving |-> {}, toServer |-> <<>>,
                 unsent |-> unsent'[c]]
  BY <1>2 DEF Way
<1>4. /\ unsent'[c] \in Seq(Piece) /\ Follow(unsent'[c], last'[c], 0)
      /\ Len(unsent'[c]) \in {0, Counts[program]} /\ (rounds'[c] = 0 => Len(unsent'[c]) = 0)
  BY <1>1, <1>2
<1>5. Ordered(Way(c)', last'[c]) /\ AtEnd(Way(c)') = Len(unsent'[c])
  BY <1>3, <1>4, WayBegins
<1>6. program' # "single" => Follow(reply'[c], last'[c], 0)
  BY <1>2
<1>7. InOrder(c)'
  BY <1>4, <1>5, <1>6 DEF InOrder
<1>8. Begins(c)'
  BY <1>4, <1>5 DEF Begins
<1> QED
  BY <1>7, <1>8

(* What the beginning of a round sets.                                     *)
LEMMA JsonBeginRound ==
  ASSUME JsonType, MaxRounds \in Nat, NEW c \in Client, BeginRound(c)
  PROVE  /\ rounds' \in [Client -> Nat] /\ last' \in [Client -> Nat]
         /\ unsent' \in [Client -> Seq(Piece)]
         /\ unsent[c] = <<>> =>
              unsent'[c] = <<>> \/ (unsent'[c] = Pieces(last'[c]) /\ rounds'[c] # 0)
         /\ \A d \in Client \ {c} :
              rounds'[d] = rounds[d] /\ last'[d] = last[d] /\ unsent'[d] = unsent[d]
<1>1. CASE rounds[c] < MaxRounds
  <2>1. /\ rounds' = [rounds EXCEPT ![c] = @ + 1]
        /\ last' = [last EXCEPT ![c] = rounds'[c]]
        /\ unsent' = [unsent EXCEPT ![c] = Pieces(rounds'[c])]
    BY <1>1 DEF BeginRound
  <2>2. rounds' \in [Client -> Nat] /\ rounds'[c] = rounds[c] + 1 /\ rounds[c] \in Nat
    BY <2>1 DEF JsonType
  <2>3. last' \in [Client -> Nat] /\ last'[c] = rounds'[c]
    BY <2>1, <2>2 DEF JsonType
  <2>4. Pieces(rounds'[c]) \in Seq(Piece)
    BY <2>2, RoundPieces
  <2>5. unsent' \in [Client -> Seq(Piece)] /\ unsent'[c] = Pieces(last'[c])
    BY <2>1, <2>3, <2>4 DEF JsonType
  <2>6. rounds'[c] # 0
    BY <2>2
  <2> QED
    BY <2>1, <2>2, <2>3, <2>5, <2>6 DEF JsonType
<1>2. CASE ~(rounds[c] < MaxRounds)
  BY <1>2 DEF BeginRound, JsonType
<1> QED
  BY <1>1, <1>2

(* The first round of a session, a typed line, and its OnWrite.            *)
LEMMA JsonRounds ==
  ASSUME JsonInv, NEW c \in Client, Greet(c) \/ Type(c) \/ OnWrite(c) \/ Drop(c)
  PROVE  JsonInv'
<1>1. /\ JsonType /\ Way(c) \in WayType
      /\ ~hasty => InOrder(c) /\ Begins(c) /\ errors[c] = 0
  BY WayTyped DEF JsonInv
<1>2. /\ Way(c).handling = handling[c] /\ Way(c).toClient = toClient[c] /\ Way(c).serving = serving[c]
      /\ Way(c).toServer = toServer[c] /\ Way(c).unsent = unsent[c]
  BY DEF Way
<1>3. <<>> \in Seq(Piece)
  BY EmptySeq
<1>4. ASSUME Greet(c) PROVE JsonInv'
  <2>1. /\ program # "single" /\ rounds[c] = 0 /\ BeginRound(c)
        /\ reply' = [reply EXCEPT ![c] = <<>>]
        /\ UNCHANGED <<program, errors, hasty, toServer, serving, toClient, handling, wrote>>
    BY <1>4 DEF Greet, messageVars
  <2>2. /\ rounds' \in [Client -> Nat] /\ last' \in [Client -> Nat]
        /\ unsent' \in [Client -> Seq(Piece)]
        /\ unsent[c] = <<>> =>
             unsent'[c] = <<>> \/ (unsent'[c] = Pieces(last'[c]) /\ rounds'[c] # 0)
        /\ \A d \in Client \ {c} :
             rounds'[d] = rounds[d] /\ last'[d] = last[d] /\ unsent'[d] = unsent[d]
    BY <1>1, <2>1, JsonBeginRound, JsonAssumption
  <2>3. JsonType' /\ reply'[c] = <<>> /\ \A d \in Client \ {c} : reply'[d] = reply[d]
    BY <1>1, <1>3, <2>1, <2>2 DEF JsonType
  <2>4. ASSUME ~hasty PROVE InOrder(c)' /\ Begins(c)' /\ errors'[c] = 0
    <3>1. AtEnd(Way(c)) = 0 /\ wrote[c] = 0
      BY <1>1, <2>1, <2>4 DEF Begins
    <3>2. /\ handling[c] = {} /\ toClient[c] = <<>> /\ serving[c] = {} /\ toServer[c] = <<>>
          /\ unsent[c] = <<>>
      BY <1>1, <1>2, <3>1, FewOnTheWay
    <3>3. last'[c] \in Nat
      BY <2>2
    <3>4. InOrder(c)' /\ Begins(c)'
      BY <1>1, <2>1, <2>2, <2>3, <3>1, <3>2, <3>3, JsonAnew
    <3> QED
      BY <1>1, <2>1, <2>4, <3>4
  <2>5. \A d \in Client \ {c} :
          /\ last'[d] = last[d] /\ reply'[d] = reply[d] /\ rounds'[d] = rounds[d]
          /\ unsent'[d] = unsent[d] /\ wrote'[d] = wrote[d] /\ errors'[d] = errors[d]
          /\ toServer'[d] = toServer[d] /\ serving'[d] = serving[d]
          /\ toClient'[d] = toClient[d] /\ handling'[d] = handling[d]
    BY <2>1, <2>2, <2>3
  <2> QED
    BY <1>1, <2>1, <2>3, <2>4, <2>5, JsonOthers DEF JsonType
<1>5. ASSUME Type(c) PROVE JsonInv'
  <2>1. /\ rounds' = [rounds EXCEPT ![c] = @ + 1] /\ last' = [last EXCEPT ![c] = rounds'[c]]
        /\ reply' = [reply EXCEPT ![c] = <<>>]
        /\ unsent' = [unsent EXCEPT ![c] = @ \o Pieces(rounds'[c])]
        /\ hasty' = (hasty \/ InHand(c))
        /\ UNCHANGED <<program, errors, toServer, serving, toClient, handling, wrote>>
    BY <1>5 DEF Type, messageVars
  <2>2. /\ rounds' \in [Client -> Nat] /\ rounds'[c] = rounds[c] + 1 /\ rounds[c] \in Nat
        /\ last' \in [Client -> Nat] /\ last'[c] = rounds'[c]
    BY <1>1, <2>1 DEF JsonType
  <2>3. /\ unsent[c] \in Seq(Piece) /\ Pieces(rounds'[c]) \in Seq(Piece)
        /\ unsent'[c] = unsent[c] \o Pieces(rounds'[c]) /\ unsent'[c] \in Seq(Piece)
    <3>1. unsent[c] \in Seq(Piece) /\ unsent'[c] = unsent[c] \o Pieces(rounds'[c])
      BY <1>1, <2>1 DEF JsonType
    <3>2. Pieces(rounds'[c]) \in Seq(Piece)
      BY <1>1, <2>2, RoundPieces
    <3> QED
      BY <3>1, <3>2, ConcatProperties
  <2>4. unsent' \in [Client -> Seq(Piece)]
    BY <1>1, <2>1, <2>3 DEF JsonType
  <2>5. JsonType' /\ reply'[c] = <<>>
    BY <1>1, <1>3, <2>1, <2>2, <2>4 DEF JsonType, InHand
  <2>6. ASSUME ~hasty' PROVE InOrder(c)' /\ Begins(c)' /\ errors'[c] = 0
    <3>1. /\ ~hasty /\ handling[c] = {} /\ toClient[c] = <<>> /\ serving[c] = {} /\ toServer[c] = <<>>
          /\ unsent[c] = <<>>
      BY <2>1, <2>6 DEF InHand
    <3>2. wrote[c] = 0
      BY <1>1, <3>1 DEF Begins
    <3>3. unsent'[c] = Pieces(last'[c]) /\ rounds'[c] # 0 /\ last'[c] \in Nat
      <4>1. <<>> \o Pieces(rounds'[c]) = Pieces(rounds'[c])
        BY <2>3, ConcatEmptySeq
      <4> QED
        BY <2>2, <2>3, <3>1, <4>1
    <3>4. InOrder(c)' /\ Begins(c)'
      BY <1>1, <2>1, <2>5, <3>1, <3>2, <3>3, JsonAnew
    <3> QED
      BY <1>1, <2>1, <3>1, <3>4
  <2>7. \A d \in Client \ {c} :
          /\ last'[d] = last[d] /\ reply'[d] = reply[d] /\ rounds'[d] = rounds[d]
          /\ unsent'[d] = unsent[d] /\ wrote'[d] = wrote[d] /\ errors'[d] = errors[d]
          /\ toServer'[d] = toServer[d] /\ serving'[d] = serving[d]
          /\ toClient'[d] = toClient[d] /\ handling'[d] = handling[d]
    BY <1>1, <2>1 DEF JsonType
  <2> QED
    BY <1>1, <2>1, <2>5, <2>6, <2>7, JsonOthers DEF JsonType
<1>6. ASSUME OnWrite(c) PROVE JsonInv'
  <2>1. /\ wrote[c] # 0 /\ wrote' = [wrote EXCEPT ![c] = 0]
        /\ last' = [last EXCEPT ![c] = wrote[c]] /\ reply' = [reply EXCEPT ![c] = <<>>]
        /\ UNCHANGED <<program, rounds, unsent, errors, hasty, toServer, serving, toClient, handling>>
    BY <1>6 DEF OnWrite
  <2>2. JsonType' /\ wrote'[c] = 0 /\ last'[c] = wrote[c]
    BY <1>1, <1>3, <2>1 DEF JsonType
  <2>3. ASSUME ~hasty PROVE InOrder(c)' /\ Begins(c)' /\ errors'[c] = 0
    <3>1. program = "single" /\ last'[c] = last[c] /\ InOrder(c) /\ Begins(c)
      BY <1>1, <2>1, <2>2, <2>3 DEF Begins
    <3>2. Way(c)' = Way(c)
      BY <2>1, <3>1 DEF Way
    <3>3. InOrder(c)'
      BY <2>1, <3>1, <3>2 DEF InOrder
    <3>4. Begins(c)'
      BY <2>1, <2>2, <3>1, <3>2 DEF Begins
    <3> QED
      BY <1>1, <2>1, <2>3, <3>3, <3>4
  <2> QED
    BY <1>1, <2>1, <2>2, <2>3, JsonOthers DEF JsonType
<1>7. ASSUME Drop(c) PROVE JsonInv'
  <2>1. /\ last' = [last EXCEPT ![c] = 0] /\ reply' = [reply EXCEPT ![c] = <<>>]
        /\ rounds' = [rounds EXCEPT ![c] = 0] /\ unsent' = [unsent EXCEPT ![c] = <<>>]
        /\ toServer' = [toServer EXCEPT ![c] = <<>>] /\ serving' = [serving EXCEPT ![c] = {}]
        /\ toClient' = [toClient EXCEPT ![c] = <<>>] /\ handling' = [handling EXCEPT ![c] = {}]
        /\ wrote' = [wrote EXCEPT ![c] = 0]
        /\ UNCHANGED <<program, errors, hasty>>
    BY <1>7 DEF Drop
  <2>2. /\ handling'[c] = {} /\ toClient'[c] = <<>> /\ serving'[c] = {} /\ toServer'[c] = <<>>
        /\ unsent'[c] = <<>> /\ reply'[c] = <<>> /\ wrote'[c] = 0 /\ last'[c] \in Nat
    BY <1>1, <2>1 DEF JsonType
  <2>3. JsonType'
    BY <1>1, <1>3, <2>1 DEF JsonType
  <2>4. InOrder(c)' /\ Begins(c)'
    BY <1>1, <2>1, <2>2, JsonAnew
  <2> QED
    BY <1>1, <2>1, <2>3, <2>4, JsonOthers DEF JsonType
<1> QED
  BY <1>4, <1>5, <1>6, <1>7
(* A reply is handled: it is the next of those that are put together, and  *)
(* the last of them leaves nothing on the way.                             *)
LEMMA JsonReplyInOrder ==
  ASSUME JsonType, NEW c \in Client, NEW m \in handling[c], InOrder(c)
  PROVE  /\ Way(c) \in WayType /\ m = PieceOf(last[c], Way(c).base + 1) /\ m \in Piece
         /\ handling[c] = {m} /\ AtEnd(Way(c)) = Counts[program]
         /\ Way(c).base < Counts[program] /\ Way(c).base \in Nat
         /\ Ordered(Processed(Way(c), m), last[c])
         /\ AtEnd(Processed(Way(c), m)) = AtEnd(Way(c))
         /\ Way(c).base + 1 = Counts[program] =>
              toClient[c] = <<>> /\ serving[c] = {} /\ toServer[c] = <<>> /\ unsent[c] = <<>>
<1>1. /\ Way(c).handling = handling[c] /\ Way(c).toClient = toClient[c] /\ Way(c).serving = serving[c]
      /\ Way(c).toServer = toServer[c] /\ Way(c).unsent = unsent[c]
  BY DEF Way
<1>2. /\ Way(c) \in WayType /\ Ordered(Way(c), last[c]) /\ AtEnd(Way(c)) \in {0, Counts[program]}
      /\ Counts[program] \in Nat
  BY WayTyped, JsonAssumption DEF InOrder, JsonType
<1>3. /\ m = PieceOf(last[c], Way(c).base + 1) /\ m \in Piece /\ handling[c] = {m}
      /\ AtEnd(Way(c)) >= Way(c).base + 1 /\ Ordered(Processed(Way(c), m), last[c])
      /\ AtEnd(Processed(Way(c), m)) = AtEnd(Way(c))
  BY <1>1, <1>2, WayProcess
<1>4. Way(c).base \in Nat
  BY <1>2, OnTheWay
<1>5. AtEnd(Way(c)) = Counts[program] /\ Way(c).base < Counts[program]
  BY <1>2, <1>3, <1>4
<1>6. Way(c).base + 1 = Counts[program] =>
        toClient[c] = <<>> /\ serving[c] = {} /\ toServer[c] = <<>> /\ unsent[c] = <<>>
  BY <1>1, <1>2, <1>5, FewOnTheWay
<1> QED
  BY <1>2, <1>3, <1>4, <1>5, <1>6

(* The handling of a reply.                                                *)
LEMMA JsonProcess ==
  ASSUME JsonInv, NEW c \in Client, NEW m \in handling[c], Process(c, m)
  PROVE  JsonInv'
<1> DEFINE whole == SetLastReply(c, m)
<1> HIDE DEF whole
<1>1. /\ JsonType /\ Way(c) \in WayType
      /\ ~hasty => InOrder(c) /\ Begins(c) /\ errors[c] = 0
  BY WayTyped DEF JsonInv
<1>2. /\ m \in Piece /\ reply[c] \in Seq(Piece) /\ whole \in Seq(Piece) /\ <<>> \in Seq(Piece)
      /\ errors[c] \in Nat /\ handling[c] \ {m} \in SUBSET Piece /\ last[c] \in Nat
  <2>1. m \in Piece /\ reply[c] \in Seq(Piece) /\ errors[c] \in Nat /\ last[c] \in Nat
    BY <1>1 DEF JsonType
  <2>2. Append(reply[c], m) \in Seq(Piece)
    BY <2>1, AppendProperties
  <2>3. handling[c] \ {m} \in SUBSET Piece
    BY <1>1 DEF JsonType
  <2> QED
    BY <2>1, <2>2, <2>3, EmptySeq DEF whole, SetLastReply
<1>3. /\ handling' = [handling EXCEPT ![c] = @ \ {m}] /\ handling'[c] = handling[c] \ {m}
      /\ handling' \in [Client -> SUBSET Piece]
      /\ UNCHANGED <<program, hasty, toServer, serving, toClient, wrote>>
  BY <1>1, <1>2 DEF Process, JsonType
<1>4. CASE program = "single"
  <2>1. /\ CheckReply(c, <<m>>) /\ reply' = [reply EXCEPT ![c] = whole]
        /\ UNCHANGED <<last, rounds, unsent>>
    BY <1>4 DEF Process, whole
  <2>2. errors' = [errors EXCEPT ![c] = IF <<m>> = Pieces(last[c]) THEN @ ELSE @ + 1]
    BY <2>1 DEF CheckReply
  <2>3. JsonType'
    <3>1. errors' \in [Client -> Nat] /\ reply' \in [Client -> Seq(Piece)]
      BY <1>1, <1>2, <2>1, <2>2 DEF JsonType
    <3> QED
      BY <1>1, <1>3, <2>1, <3>1 DEF JsonType
  <2>4. ASSUME ~hasty PROVE InOrder(c)' /\ Begins(c)' /\ errors'[c] = 0
    <3>1. /\ m = PieceOf(last[c], Way(c).base + 1) /\ handling[c] = {m} /\ Way(c).base = 0
          /\ Way(c).base + 1 = Counts[program] =>
               toClient[c] = <<>> /\ serving[c] = {} /\ toServer[c] = <<>> /\ unsent[c] = <<>>
      <4>1. Way(c).base = 0
        BY <1>4 DEF Way
      <4> QED
        BY <1>1, <2>4, <4>1, JsonReplyInOrder
    <3>2. Counts[program] = 1
      BY <1>4, JsonAssumption
    <3>3. <<m>> = Pieces(last[c])
      <4>1. <<m>> \in Seq(Piece) /\ Len(<<m>>) = 1 /\ <<m>>[1] = m
        BY <1>2
      <4>2. Follow(<<m>>, last[c], 0)
        BY <3>1, <4>1 DEF Follow
      <4> QED
        BY <1>1, <1>2, <3>2, <4>1, <4>2, RoundPieces
    <3>4. wrote[c] = 0
      BY <1>1, <2>4, <3>1, <3>2 DEF Begins
    <3>5. InOrder(c)' /\ Begins(c)'
      BY <1>1, <1>2, <1>3, <1>4, <2>1, <3>1, <3>2, <3>4, JsonAnew
    <3>6. errors'[c] = 0
      BY <1>1, <2>2, <2>4, <3>3 DEF JsonType
    <3> QED
      BY <3>5, <3>6
  <2>5. \A d \in Client \ {c} :
          errors'[d] = errors[d] /\ reply'[d] = reply[d] /\ handling'[d] = handling[d]
    BY <1>1, <1>3, <2>1, <2>2 DEF JsonType
  <2> QED
    BY <1>1, <1>3, <2>1, <2>3, <2>4, <2>5, JsonOthers DEF JsonType
<1>5. ASSUME ~hasty, program # "single"
      PROVE  /\ whole = Append(reply[c], m) /\ Len(whole) = Len(reply[c]) + 1 /\ Len(reply[c]) \in Nat
             /\ Len(whole) <= Counts[program] /\ Counts[program] \in Nat
             /\ Follow(whole, last[c], 0) /\ Way(c).base = Len(reply[c])
  <2>1. Way(c).base = Len(reply[c]) /\ Follow(reply[c], last[c], 0)
    BY <1>1, <1>5 DEF Way, InOrder
  <2>2. /\ m = PieceOf(last[c], Len(reply[c]) + 1) /\ Len(reply[c]) < Counts[program]
        /\ Len(reply[c]) \in Nat
    BY <1>1, <1>5, <2>1, JsonReplyInOrder
  <2>3. whole = Append(reply[c], m)
    BY <2>2 DEF whole, SetLastReply
  <2>4. m = PieceOf(last[c], 0 + Len(reply[c]) + 1)
    BY <2>2
  <2>5. Len(whole) = Len(reply[c]) + 1 /\ Follow(whole, last[c], 0)
    BY <1>2, <2>1, <2>3, <2>4, FollowAppend
  <2>6. Counts[program] \in Nat
    BY <1>1, JsonAssumption DEF JsonType
  <2> QED
    BY <2>1, <2>2, <2>3, <2>5, <2>6
<1>6. CASE program # "single" /\ Len(whole) < Counts[program]
  <2>1. reply' = [reply EXCEPT ![c] = whole] /\ UNCHANGED <<last, rounds, unsent, errors>>
    BY <1>6 DEF Process, whole
  <2>2. JsonType' /\ reply'[c] = whole
    <3>1. reply' \in [Client -> Seq(Piece)] /\ reply'[c] = whole
      BY <1>1, <1>2, <2>1 DEF JsonType
    <3> QED
      BY <1>1, <1>3, <2>1, <3>1 DEF JsonType
  <2>3. ASSUME ~hasty PROVE InOrder(c)' /\ Begins(c)' /\ errors'[c] = 0
    <3>1. Way(c)' = Processed(Way(c), m)
      <4>1. /\ Way(c)' = [base |-> Len(whole), handling |-> handling[c] \ {m}, toClient |-> toClient[c],
                          serving |-> serving[c], toServer |-> toServer[c], unsent |-> unsent[c]]
        BY <1>3, <1>6, <2>1, <2>2 DEF Way
      <4>2. Len(whole) = Way(c).base + 1
        BY <1>5, <1>6, <2>3
      <4>3. /\ Way(c).handling = handling[c] /\ Way(c).toClient = toClient[c]
            /\ Way(c).serving = serving[c] /\ Way(c).toServer = toServer[c] /\ Way(c).unsent = unsent[c]
        BY DEF Way
      <4> QED
        BY <4>1, <4>2, <4>3 DEF Processed
    <3>2. /\ Ordered(Way(c)', last[c]) /\ AtEnd(Way(c)') = Counts[program]
          /\ AtEnd(Way(c)) = Counts[program] /\ Counts[program] # 0
      <4>1. Counts[program] # 0
        BY <1>1, JsonAssumption DEF JsonType
      <4> QED
        BY <1>1, <2>3, <3>1, <4>1, JsonReplyInOrder
    <3>3. Follow(reply'[c], last[c], 0)
      BY <1>5, <1>6, <2>2, <2>3
    <3>4. InOrder(c)'
      BY <1>3, <2>1, <3>2, <3>3 DEF InOrder
    <3>5. Begins(c)'
      BY <1>1, <1>3, <1>6, <2>1, <2>3, <3>2 DEF Begins
    <3> QED
      BY <1>1, <2>1, <2>3, <3>4, <3>5
  <2>4. \A d \in Client \ {c} : reply'[d] = reply[d] /\ handling'[d] = handling[d]
    BY <1>1, <1>3, <2>1 DEF JsonType
  <2> QED
    BY <1>1, <1>3, <2>1, <2>2, <2>3, <2>4, JsonOthers DEF JsonType
<1>7. CASE program # "single" /\ ~(Len(whole) < Counts[program])
  <2>1. CheckReply(c, whole) /\ reply' = [reply EXCEPT ![c] = <<>>] /\ BeginRound(c)
    BY <1>7 DEF Process, whole
  <2>2. errors' = [errors EXCEPT ![c] = IF whole = Pieces(last[c]) THEN @ ELSE @ + 1]
    BY <2>1 DEF CheckReply
  <2>3. /\ rounds' \in [Client -> Nat] /\ last' \in [Client -> Nat]
        /\ unsent' \in [Client -> Seq(Piece)]
        /\ unsent[c] = <<>> =>
             unsent'[c] = <<>> \/ (unsent'[c] = Pieces(last'[c]) /\ rounds'[c] # 0)
        /\ \A d \in Client \ {c} :
             rounds'[d] = rounds[d] /\ last'[d] = last[d] /\ unsent'[d] = unsent[d]
    BY <1>1, <2>1, JsonBeginRound, JsonAssumption
  <2>4. JsonType' /\ reply'[c] = <<>>
    <3>1. reply' \in [Client -> Seq(Piece)] /\ reply'[c] = <<>>
      BY <1>1, <1>2, <2>1 DEF JsonType
    <3>2. errors' \in [Client -> Nat]
      BY <1>1, <1>2, <2>2 DEF JsonType
    <3> QED
      BY <1>1, <1>3, <2>3, <3>1, <3>2 DEF JsonType
  <2>5. ASSUME ~hasty PROVE InOrder(c)' /\ Begins(c)' /\ errors'[c] = 0
    <3>1. Len(whole) = Counts[program] /\ Way(c).base + 1 = Counts[program] /\ Follow(whole, last[c], 0)
      BY <1>5, <1>7, <2>5
    <3>2. /\ handling[c] = {m} /\ toClient[c] = <<>> /\ serving[c] = {} /\ toServer[c] = <<>>
          /\ unsent[c] = <<>>
      BY <1>1, <2>5, <3>1, JsonReplyInOrder
    <3>3. whole = Pieces(last[c])
      BY <1>1, <1>2, <3>1, RoundPieces
    <3>4. wrote[c] = 0 /\ last'[c] \in Nat
      BY <1>1, <1>7, <2>3, <2>5 DEF Begins
    <3>5. InOrder(c)' /\ Begins(c)'
      BY <1>1, <1>3, <2>3, <2>4, <3>2, <3>4, JsonAnew
    <3>6. errors'[c] = 0
      BY <1>1, <2>2, <2>5, <3>3 DEF JsonType
    <3> QED
      BY <3>5, <3>6
  <2>6. \A d \in Client \ {c} :
          errors'[d] = errors[d] /\ reply'[d] = reply[d] /\ handling'[d] = handling[d]
    BY <1>1, <1>3, <2>1, <2>2 DEF JsonType
  <2> QED
    BY <1>1, <1>3, <2>3, <2>4, <2>5, <2>6, JsonOthers DEF JsonType
<1> QED
  BY <1>4, <1>6, <1>7

(* Every step.                                                             *)
LEMMA JsonStep == JsonInv /\ [JsonNext]_jsonVars => JsonInv'
<1> SUFFICES ASSUME JsonInv, [JsonNext]_jsonVars PROVE JsonInv'
  OBVIOUS
<1>1. CASE Start
  BY <1>1, JsonUnchanged DEF Start
<1>2. ASSUME NEW c \in Client, Goes(c) PROVE JsonInv'
  <2>1. CASE Connects(c) \/ OnConnect(c) \/ GetBusinessObj("io", c) \/ Greeted(c)
    BY <2>1, JsonUnchanged DEF Connects, OnConnect, GetBusinessObj, Greeted
  <2>2. CASE Greet(c) \/ OnWrite(c)
    BY <2>2, JsonRounds
  <2>3. CASE Send(c) \/ TakeRequest(c) \/ TakeReply(c) \/ \E m \in serving[c] : Reply(c, m)
    BY <2>3, JsonMessages
  <2>4. CASE \E m \in handling[c] : Process(c, m)
    BY <2>4, JsonProcess
  <2> QED
    BY <1>2, <2>1, <2>2, <2>3, <2>4 DEF Goes
<1>3. ASSUME NEW c \in Client, GetBusinessObj("input", c) PROVE JsonInv'
  BY <1>3, JsonUnchanged DEF GetBusinessObj
<1>4. ASSUME NEW c \in Client, Type(c) \/ Drop(c) PROVE JsonInv'
  BY <1>4, JsonRounds
<1>5. ASSUME NEW t \in Thread, PutBusinessObj(t) PROVE JsonInv'
  BY <1>5, JsonUnchanged DEF PutBusinessObj
<1>6. CASE UNCHANGED jsonVars
  BY <1>6, JsonUnchanged DEF jsonVars
<1> QED
  BY <1>1, <1>2, <1>3, <1>4, <1>5, <1>6 DEF JsonNext

(* What sample/json and jsonc10k put together from the replies of a round  *)
(* is what they asked for: the pieces of a round are on their way in their *)
(* order, all or none, however many clients and requests there are.        *)
THEOREM JsonRepliesMatch == JsonSpec => []RepliesMatch
<1>1. JsonInit => JsonInv
  BY JsonFirst
<1>2. JsonInv /\ [JsonNext]_jsonVars => JsonInv'
  BY JsonStep
<1>3. JsonInv => RepliesMatch
  BY DEF JsonInv, RepliesMatch
<1> QED
  BY <1>1, <1>2, <1>3, PTL DEF JsonSpec
-----------------------------------------------------------------------------
(* Lifetimes: what main() of each program makes.                           *)

(* Whether x is a local of p.                                              *)
IsLocal(p, x) == \E i \in 1 .. Len(p.locals) : p.locals[i] = x

(* The objects of p, and what they are given to refer to: an endpoint gets *)
(* a pool of services if there is one, what has the clients is a local.    *)
Fits(p) ==
  /\ p.side \in {"server", "client", "clients"}
  /\ p.given = (IF p.side = "clients" THEN "handler" ELSE "endpoint")
  /\ Len(p.locals) \in Nat /\ \A i \in 1 .. Len(p.locals) : p.locals[i] \in NamedObject \ {"service"}
  /\ \A x \in {p.given, "handler", "filter", "bufmgr"} : IsLocal(p, x)
  /\ \A x \in p.globals : x \in NamedObject /\ IsLocal(p, x)
  /\ "endpoint" \in DOMAIN p.refs /\ DOMAIN p.refs \subseteq NamedObject \ {"service"}
  /\ {"handler", "filter", "bufmgr"} \subseteq p.refs["endpoint"]
  /\ "svcmgr" \in DOMAIN p.refs =>
       IsLocal(p, "svcmgr") /\ p.refs["svcmgr"] = {"service"} /\ "svcmgr" \in p.refs["endpoint"]
  /\ p.side = "clients" =>
       /\ "svcmgr" \in DOMAIN p.refs
       /\ \E o \in DOMAIN p.refs : IsLocal(p, o) /\ "endpoint" \in p.refs[o]

(* The order of references: of the objects of p each refers to those below *)
(* it, but for the handler of jsonc10k, who has its clients.               *)
Ranked(p) ==
  \A o \in DOMAIN p.refs : \A x \in p.refs[o] :
    \/ x = "endpoint" /\ (o = "clients" \/ (o = "handler" /\ p = C10kClients))
    \/ x \in {"svcmgr", "handler", "filter", "bufmgr"} /\ o = "endpoint"
    \/ x = "service" /\ o = "svcmgr"
    \/ x = "workmgr" /\ o = "handler"
    \/ x = "bufmgr" /\ o = "workmgr"
    \/ x = "work" /\ o \in {"handler", "workmgr"}

(* The programs ClayServer and ClayClient.                              *)
LEMMA ClayServerFits == Fits(ClayServer) /\ Ranked(ClayServer) /\ Fits(ClayClient) /\ Ranked(ClayClient)
<1>1. /\ Len(ClayServer.locals) = 6
      /\ ClayServer.locals[6] = "endpoint"
      /\ ClayServer.locals[4] = "handler"
      /\ ClayServer.locals[5] = "filter"
      /\ ClayServer.locals[3] = "bufmgr"
  BY DEF ClayServer
<1>2. \A i \in 1 .. 6 : ClayServer.locals[i] \in NamedObject \ {"service"}
  BY DEF ClayServer, NamedObject
<1>3. /\ DOMAIN ClayServer.refs = {"workmgr", "handler", "endpoint"}
      /\ ClayServer.refs["workmgr"] = {"bufmgr"}
      /\ ClayServer.refs["handler"] = {"workmgr", "work"}
      /\ ClayServer.refs["endpoint"] = {"filter", "handler", "bufmgr"}
  BY DEF ClayServer
<1>4. IsLocal(ClayServer, "endpoint") /\ IsLocal(ClayServer, "handler") /\ IsLocal(ClayServer, "filter")
      /\ IsLocal(ClayServer, "bufmgr")
  BY <1>1 DEF IsLocal
<1>5. ClayServer.side = "server" /\ ClayServer.given = "endpoint" /\ ClayServer.globals = {}
  BY DEF ClayServer
<1>6. Ranked(ClayServer)
  BY <1>3 DEF Ranked
<1>7. Fits(ClayServer)
  BY <1>1, <1>2, <1>3, <1>4, <1>5 DEF Fits, NamedObject
<1>8. /\ ClayClient.locals = ClayServer.locals /\ ClayClient.refs = ClayServer.refs
      /\ ClayClient.globals = ClayServer.globals
      /\ ClayClient.side = "client" /\ ClayClient.given = "endpoint"
  BY DEF ClayClient, ClayServer
<1>9. \A x : IsLocal(ClayClient, x) <=> IsLocal(ClayServer, x)
  BY <1>8 DEF IsLocal
<1>10. Ranked(ClayClient)
  BY <1>3, <1>8 DEF Ranked
<1>11. Fits(ClayClient)
  BY <1>5, <1>7, <1>8, <1>9 DEF Fits
<1> QED
  BY <1>6, <1>7, <1>10, <1>11

(* The programs ChatServer and ChatClient.                              *)
LEMMA ChatServerFits == Fits(ChatServer) /\ Ranked(ChatServer) /\ Fits(ChatClient) /\ Ranked(ChatClient)
<1>1. /\ Len(ChatServer.locals) = 4
      /\ ChatServer.locals[4] = "endpoint"
      /\ ChatServer.locals[2] = "handler"
      /\ ChatServer.locals[3] = "filter"
      /\ ChatServer.locals[1] = "bufmgr"
  BY DEF ChatServer
<1>2. \A i \in 1 .. 4 : ChatServer.locals[i] \in NamedObject \ {"service"}
  BY DEF ChatServer, NamedObject
<1>3. /\ DOMAIN ChatServer.refs = {"endpoint"}
      /\ ChatServer.refs["endpoint"] = {"filter", "handler", "bufmgr"}
  BY DEF ChatServer
<1>4. IsLocal(ChatServer, "endpoint") /\ IsLocal(ChatServer, "handler") /\ IsLocal(ChatServer, "filter")
      /\ IsLocal(ChatServer, "bufmgr")
  BY <1>1 DEF IsLocal
<1>5. ChatServer.side = "server" /\ ChatServer.given = "endpoint" /\ ChatServer.globals = {}
  BY DEF ChatServer
<1>6. Ranked(ChatServer)
  BY <1>3 DEF Ranked
<1>7. Fits(ChatServer)
  BY <1>1, <1>2, <1>3, <1>4, <1>5 DEF Fits, NamedObject
<1>8. /\ ChatClient.locals = ChatServer.locals /\ ChatClient.refs = ChatServer.refs
      /\ ChatClient.globals = ChatServer.globals
      /\ ChatClient.side = "client" /\ ChatClient.given = "endpoint"
  BY DEF ChatClient, ChatServer
<1>9. \A x : IsLocal(ChatClient, x) <=> IsLocal(ChatServer, x)
  BY <1>8 DEF IsLocal
<1>10. Ranked(ChatClient)
  BY <1>3, <1>8 DEF Ranked
<1>11. Fits(ChatClient)
  BY <1>5, <1>7, <1>8, <1>9 DEF Fits
<1> QED
  BY <1>6, <1>7, <1>10, <1>11

(* The programs JsonServer and C10kServer.                              *)
LEMMA JsonServerFits == Fits(JsonServer) /\ Ranked(JsonServer) /\ Fits(C10kServer) /\ Ranked(C10kServer)
<1>1. /\ Len(JsonServer.locals) = 7
      /\ JsonServer.locals[6] = "endpoint"
      /\ JsonServer.locals[4] = "handler"
      /\ JsonServer.locals[5] = "filter"
      /\ JsonServer.locals[2] = "bufmgr"
      /\ JsonServer.locals[3] = "svcmgr"
  BY DEF JsonServer
<1>2. \A i \in 1 .. 7 : JsonServer.locals[i] \in NamedObject \ {"service"}
  BY DEF JsonServer, NamedObject
<1>3. /\ DOMAIN JsonServer.refs = {"workmgr", "svcmgr", "handler", "endpoint"}
      /\ JsonServer.refs["workmgr"] = {"bufmgr", "work"}
      /\ JsonServer.refs["svcmgr"] = {"service"}
      /\ JsonServer.refs["handler"] = {"workmgr"}
      /\ JsonServer.refs["endpoint"] = {"svcmgr", "filter", "handler", "bufmgr"}
  BY DEF JsonServer
<1>4. IsLocal(JsonServer, "endpoint") /\ IsLocal(JsonServer, "handler") /\ IsLocal(JsonServer, "filter")
      /\ IsLocal(JsonServer, "bufmgr") /\ IsLocal(JsonServer, "svcmgr")
  BY <1>1 DEF IsLocal
<1>5. JsonServer.side = "server" /\ JsonServer.given = "endpoint" /\ JsonServer.globals = {}
  BY DEF JsonServer
<1>6. Ranked(JsonServer)
  BY <1>3 DEF Ranked
<1>7. Fits(JsonServer)
  BY <1>1, <1>2, <1>3, <1>4, <1>5 DEF Fits, NamedObject
<1>8. /\ C10kServer.locals = JsonServer.locals /\ C10kServer.refs = JsonServer.refs
      /\ C10kServer.globals = JsonServer.globals
      /\ C10kServer.side = "server" /\ C10kServer.given = "endpoint"
  BY DEF C10kServer, JsonServer
<1>9. \A x : IsLocal(C10kServer, x) <=> IsLocal(JsonServer, x)
  BY <1>8 DEF IsLocal
<1>10. Ranked(C10kServer)
  BY <1>3, <1>8 DEF Ranked
<1>11. Fits(C10kServer)
  BY <1>5, <1>7, <1>8, <1>9 DEF Fits
<1> QED
  BY <1>6, <1>7, <1>10, <1>11

(* The program JsonClient.                                              *)
LEMMA JsonClientFits == Fits(JsonClient) /\ Ranked(JsonClient)
<1>1. /\ Len(JsonClient.locals) = 6
      /\ JsonClient.locals[5] = "endpoint"
      /\ JsonClient.locals[3] = "handler"
      /\ JsonClient.locals[4] = "filter"
      /\ JsonClient.locals[2] = "bufmgr"
  BY DEF JsonClient
<1>2. \A i \in 1 .. 6 : JsonClient.locals[i] \in NamedObject \ {"service"}
  BY DEF JsonClient, NamedObject
<1>3. /\ DOMAIN JsonClient.refs = {"workmgr", "handler", "endpoint"}
      /\ JsonClient.refs["workmgr"] = {"bufmgr", "work"}
      /\ JsonClient.refs["handler"] = {"workmgr"}
      /\ JsonClient.refs["endpoint"] = {"filter", "handler", "bufmgr"}
  BY DEF JsonClient
<1>4. IsLocal(JsonClient, "endpoint") /\ IsLocal(JsonClient, "handler") /\ IsLocal(JsonClient, "filter")
      /\ IsLocal(JsonClient, "bufmgr")
  BY <1>1 DEF IsLocal
<1>5. JsonClient.side = "client" /\ JsonClient.given = "endpoint" /\ JsonClient.globals = {}
  BY DEF JsonClient
<1>6. Ranked(JsonClient)
  BY <1>3 DEF Ranked
<1>7. Fits(JsonClient)
  BY <1>1, <1>2, <1>3, <1>4, <1>5 DEF Fits, NamedObject
<1> QED
  BY <1>6, <1>7

(* The program JsonClients.                                             *)
LEMMA JsonClientsFits == Fits(JsonClients) /\ Ranked(JsonClients)
<1>1. /\ Len(JsonClients.locals) = 7
      /\ JsonClients.locals[4] = "handler"
      /\ JsonClients.locals[5] = "filter"
      /\ JsonClients.locals[2] = "bufmgr"
      /\ JsonClients.locals[6] = "svcmgr"
      /\ JsonClients.locals[3] = "clients"
  BY DEF JsonClients
<1>2. \A i \in 1 .. 7 : JsonClients.locals[i] \in NamedObject \ {"service"}
  BY DEF JsonClients, NamedObject
<1>3. /\ DOMAIN JsonClients.refs = {"workmgr", "svcmgr", "handler", "clients", "endpoint"}
      /\ JsonClients.refs["workmgr"] = {"bufmgr", "work"}
      /\ JsonClients.refs["svcmgr"] = {"service"}
      /\ JsonClients.refs["handler"] = {"workmgr"}
      /\ JsonClients.refs["clients"] = {"endpoint"}
      /\ JsonClients.refs["endpoint"] = {"filter", "handler", "bufmgr", "svcmgr"}
  BY DEF JsonClients
<1>4. IsLocal(JsonClients, "handler") /\ IsLocal(JsonClients, "filter") /\ IsLocal(JsonClients, "bufmgr")
      /\ IsLocal(JsonClients, "svcmgr") /\ IsLocal(JsonClients, "clients")
  BY <1>1 DEF IsLocal
<1>5. JsonClients.side = "clients" /\ JsonClients.given = "handler" /\ JsonClients.globals = {}
  BY DEF JsonClients
<1>6. Ranked(JsonClients)
  BY <1>3 DEF Ranked
<1>7. Fits(JsonClients)
  BY <1>1, <1>2, <1>3, <1>4, <1>5 DEF Fits, NamedObject
<1> QED
  BY <1>6, <1>7

(* The program C10kClients.                                             *)
LEMMA C10kClientsFits == Fits(C10kClients) /\ Ranked(C10kClients)
<1>1. /\ Len(C10kClients.locals) = 6
      /\ C10kClients.locals[3] = "handler"
      /\ C10kClients.locals[4] = "filter"
      /\ C10kClients.locals[2] = "bufmgr"
      /\ C10kClients.locals[5] = "svcmgr"
  BY DEF C10kClients
<1>2. \A i \in 1 .. 6 : C10kClients.locals[i] \in NamedObject \ {"service"}
  BY DEF C10kClients, NamedObject
<1>3. /\ DOMAIN C10kClients.refs = {"workmgr", "svcmgr", "handler", "endpoint"}
      /\ C10kClients.refs["workmgr"] = {"bufmgr", "work"}
      /\ C10kClients.refs["svcmgr"] = {"service"}
      /\ C10kClients.refs["handler"] = {"workmgr", "endpoint"}
      /\ C10kClients.refs["endpoint"] = {"filter", "handler", "bufmgr", "svcmgr"}
  BY DEF C10kClients
<1>4. IsLocal(C10kClients, "handler") /\ IsLocal(C10kClients, "filter") /\ IsLocal(C10kClients, "bufmgr")
      /\ IsLocal(C10kClients, "svcmgr")
  BY <1>1 DEF IsLocal
<1>5. C10kClients.side = "clients" /\ C10kClients.given = "handler"
      /\ C10kClients.globals = {"handler", "filter", "bufmgr", "svcmgr"}
  BY DEF C10kClients
<1>6. Ranked(C10kClients)
  BY <1>3 DEF Ranked
<1>7. Fits(C10kClients)
  BY <1>1, <1>2, <1>3, <1>4, <1>5 DEF Fits, NamedObject
<1> QED
  BY <1>6, <1>7

(* Main is one of them, the clients of jsonc10k for that sample only; the  *)
(* servers that count sessions share services.                             *)
LEMMA MainFits ==
  ASSUME sample \in Sample
  PROVE  /\ Fits(Main) /\ Ranked(Main)
         /\ Main = C10kClients => sample = "C10kClients"
         /\ sample \in {"JsonServer", "C10kServer"} => Shared /\ Main.side = "server"
         /\ sample = "JsonClients" => Main.side = "clients"
<1>1. sample \in {"ClayServer", "ClayClient", "ChatServer", "ChatClient", "JsonServer", "C10kServer",
                  "JsonClient", "JsonClients", "C10kClients"}
  BY LifeAssumption
<1>2. Fits(Main) /\ Ranked(Main)
  BY <1>1, ClayServerFits, ChatServerFits, JsonServerFits, JsonClientFits, JsonClientsFits, C10kClientsFits
     DEF Main
<1>3. Main = C10kClients => sample = "C10kClients"
  <2>1. Main.side = "clients" => sample \in {"JsonClients", "C10kClients"}
    BY <1>1 DEF Main, ClayServer, ClayClient, ChatServer, ChatClient, JsonServer, C10kServer, JsonClient
  <2>2. C10kClients.side = "clients" /\ C10kClients.globals # {} /\ JsonClients.globals = {}
    BY DEF C10kClients, JsonClients
  <2>3. sample = "JsonClients" => Main = JsonClients
    BY DEF Main
  <2> QED
    BY <2>1, <2>2, <2>3
<1>4. sample \in {"JsonServer", "C10kServer"} => Shared /\ Main.side = "server"
  <2>1. sample \in {"JsonServer", "C10kServer"} => Main \in {JsonServer, C10kServer}
    BY DEF Main
  <2>2. \A p \in {JsonServer, C10kServer} : "svcmgr" \in DOMAIN p.refs /\ p.side = "server"
    BY DEF JsonServer, C10kServer
  <2> QED
    BY <2>1, <2>2 DEF Shared
<1>5. sample = "JsonClients" => Main.side = "clients"
  BY DEF Main, JsonClients
<1> QED
  BY <1>2, <1>3, <1>4, <1>5

(* What refers to x: a local, a global or what a thread has in hand, an    *)
(* object that is given x, a session, the endpoint or the io_service.      *)
RootOf(x) ==
  \/ \E i \in 1 .. left : x = Main.locals[i]
  \/ x \in globals \/ x \in counting \/ x \in working
  \/ step \in {"input", "quit"} /\ x = Main.given
  \/ io # "none" /\ x = io
  \/ working # {} /\ x = "work"

KeptBy(x) ==
  \/ \E o \in alive : o \in DOMAIN Main.refs /\ x \in Main.refs[o]
  \/ x \in SessionRefs /\ \E s \in LifeSession : s \in alive
  \/ "endpoint" \in alive /\ x \in registered
  \/ "endpoint" \in alive /\ ~Shared /\ endpoint \in {"started", "cleared"} /\ x = "service"
  \/ "service" \in alive /\ x \in pending

(* The references of the model are these.                                  *)
LEMMA ReferredIs ==
  ASSUME Fits(Main)
  PROVE  /\ \A x : x \in Roots <=> RootOf(x)
         /\ \A x : x \in Referred <=> RootOf(x) \/ KeptBy(x)
<1>1. \A x : x \in Roots <=> RootOf(x)
  BY DEF Roots, RootOf
<1>2. /\ LifeSession \cap NamedObject = {} /\ DOMAIN Main.refs \subseteq NamedObject \ {"service"}
      /\ {"service", "endpoint", "workmgr"} \subseteq NamedObject /\ "endpoint" \in DOMAIN Main.refs
  BY LifeAssumption DEF Fits, NamedObject
<1>3. \A x : KeptBy(x) <=> \E o \in alive : x \in Refs(o)
  <2>1. ASSUME NEW x, NEW o \in alive, x \in Refs(o)
        PROVE  KeptBy(x)
    BY <1>2, <2>1 DEF KeptBy, Refs, GivenTo, KeptByTask
  <2>2. ASSUME NEW x, NEW o \in alive, o \in DOMAIN Main.refs, x \in Main.refs[o]
        PROVE  x \in Refs(o)
    BY <1>2, <2>2 DEF Refs, GivenTo
  <2>3. ASSUME NEW s \in LifeSession
        PROVE  Refs(s) = SessionRefs
    BY <1>2 DEF Refs
  <2>4. /\ registered \subseteq Refs("endpoint") /\ pending \subseteq Refs("service")
        /\ ~Shared /\ endpoint \in {"started", "cleared"} => "service" \in Refs("endpoint")
    BY <1>2 DEF Refs
  <2> QED
    BY <2>1, <2>2, <2>3, <2>4 DEF KeptBy
<1> QED
  BY <1>1, <1>3 DEF Referred

(* And in the next state.                                                  *)
LEMMA ReferredNext ==
  ASSUME Fits(Main), Main' = Main
  PROVE  /\ \A x : x \in Roots' <=> RootOf(x)'
         /\ \A x : x \in Referred' <=> RootOf(x)' \/ KeptBy(x)'
<1>1. \A x : x \in Roots' <=> RootOf(x)'
  BY DEF Roots, RootOf
<1>2. /\ LifeSession \cap NamedObject = {} /\ DOMAIN Main.refs \subseteq NamedObject \ {"service"}
      /\ {"service", "endpoint", "workmgr"} \subseteq NamedObject /\ "endpoint" \in DOMAIN Main.refs
  BY LifeAssumption DEF Fits, NamedObject
<1>3. \A x : KeptBy(x)' <=> \E o \in alive' : x \in Refs(o)'
  <2>1. ASSUME NEW x, NEW o \in alive', x \in Refs(o)'
        PROVE  KeptBy(x)'
    BY <1>2, <2>1 DEF KeptBy, Refs, GivenTo, KeptByTask
  <2>2. ASSUME NEW x, NEW o \in alive', o \in DOMAIN Main.refs, x \in Main.refs[o]
        PROVE  x \in Refs(o)'
    BY <1>2, <2>2 DEF Refs, GivenTo
  <2>3. ASSUME NEW s \in LifeSession
        PROVE  Refs(s)' = SessionRefs
    BY <1>2 DEF Refs, SessionRefs, Object, NamedObject
  <2>4. /\ registered' \subseteq Refs("endpoint")' /\ pending' \subseteq Refs("service")'
        /\ ~Shared' /\ endpoint' \in {"started", "cleared"} => "service" \in Refs("endpoint")'
    BY <1>2 DEF Refs
  <2>5. SessionRefs' = SessionRefs
    BY DEF SessionRefs
  <2> QED
    BY <2>1, <2>2, <2>3, <2>4, <2>5 DEF KeptBy
<1> QED
  BY <1>1, <1>3 DEF Referred

(* What each variable holds.                                               *)
LifeTypes ==
  /\ sample \in Sample /\ step \in {"input", "quit", "release", "over"}
  /\ endpoint \in {"idle", "started", "cleared", "stopped"}
  /\ left \in 0 .. Len(Main.locals) /\ alive \subseteq Object
  /\ \A x \in {fresh, open, registered, pending, queued, working, counting} : x \subseteq LifeSession
  /\ io \in LifeSession \cup {"none"}

(* Main: all it made is its own until it releases, nothing once it is over; *)
(* only servers that share services count sessions; a server or a client   *)
(* is started while commands are read, and a client that was connected is  *)
(* so no more when it leaves.                                              *)
Stages ==
  /\ step \in {"input", "quit"} => left = Len(Main.locals) /\ globals = Main.globals
  /\ \A x \in globals : x \in NamedObject
  /\ step = "over" => left = 0 /\ globals = {}
  /\ counting # {} => step = "input" /\ Main.side = "server" /\ Shared
  /\ step = "input" /\ Main.side # "clients" => endpoint = "started"
  /\ Main.side = "client" /\ cnnok => fresh = {}

(* Endpoint and services: what is in use is alive, and a thread that runs  *)
(* handlers has services to run them.                                      *)
Bonds ==
  /\ endpoint \in {"started", "cleared"} => "endpoint" \in alive
  /\ Shared /\ "endpoint" \in alive => "svcmgr" \in alive
  /\ Shared /\ "svcmgr" \in alive => "service" \in alive
  /\ ~Shared /\ endpoint \in {"started", "cleared"} => "service" \in alive
  /\ io # "none" => IF Shared THEN "svcmgr" \in alive ELSE endpoint \in {"started", "cleared"}
  /\ ~Shared /\ endpoint \in {"cleared", "stopped"} =>
       registered \subseteq leftover /\ (io # "none" => io \in leftover)

(* Sessions: those with work to do are alive, those open are registered    *)
(* until Stop clears the manager, and there are none before Start.         *)
Serving ==
  /\ pending \subseteq alive /\ open \subseteq alive /\ open \cap fresh = {}
  /\ "endpoint" \in alive => registered \subseteq alive
  /\ Main.side = "client" => fresh \cup open \subseteq {First}
  /\ Main.side = "server" => fresh \cap alive = {}
  /\ endpoint = "started" => open \subseteq registered
  /\ endpoint = "idle" => alive \cap LifeSession = {} /\ registered = {}

(* Exactly what nothing refers to is being destroyed; but for the shared   *)
(* data, which workers may still have when they are released.              *)
DyingIsUnreferred ==
  /\ \A o \in Object : dying[o] # "nobody" => o \in alive /\ (o # "work" => o \notin Referred)
  /\ \A o \in alive : dying[o] = "nobody" => o \in Referred

(* What a root refers to is alive.                                         *)
RootsAlive == \A x \in Roots : x # "work" => x \in alive

(* Whoever outlives its io_service was in hand when that was deleted.      *)
ServiceLast == "service" \notin alive => alive \cap LifeSession \subseteq leftover

(* With services of its own, main does not release before Stop or Disconnect *)
(* joined them, and then destroys the service first; or no session is open. *)
StoppedFirst ==
  ~Shared /\ step \in {"release", "over"} =>
    \/ endpoint = "idle"
    \/ open = {} /\ fresh = {}
    \/ /\ endpoint = "stopped"
       /\ "service" \notin alive \/ (dying["service"] = "main" /\ left = Len(Main.locals))

LifeInv ==
  /\ LifeTypes /\ Stages /\ Bonds /\ Serving
  /\ DyingIsUnreferred /\ RootsAlive /\ ServiceLast /\ StoppedFirst
  /\ NothingUsedAfterItsEnd

(* What follows, by objects: roots and what the living refer to is not     *)
(* being destroyed, and everything main made lives while commands are read. *)
LEMMA HeldIs ==
  ASSUME LifeInv
  PROVE  /\ Fits(Main) /\ Ranked(Main)
         /\ \A x : RootOf(x) /\ x # "work" => x \in alive
         /\ \A o \in Object : dying[o] # "nobody" => o \in alive
         /\ \A o \in Object : dying[o] # "nobody" /\ o # "work" => ~RootOf(o) /\ ~KeptBy(o)
         /\ \A o \in alive : dying[o] = "nobody" => RootOf(o) \/ KeptBy(o)
         /\ step \in {"input", "quit"} => RootOf(Main.given)
         /\ step \in {"input", "quit"} => \A x : IsLocal(Main, x) => RootOf(x)
<1>1. sample \in Sample
  BY DEF LifeInv, LifeTypes
<1>2. Fits(Main) /\ Ranked(Main)
  BY <1>1, MainFits
<1>3. /\ \A x : x \in Roots <=> RootOf(x)
      /\ \A x : x \in Referred <=> RootOf(x) \/ KeptBy(x)
  BY <1>2, ReferredIs
<1>4. step \in {"input", "quit"} => left = Len(Main.locals)
  BY DEF LifeInv, Stages
<1>5. step \in {"input", "quit"} => RootOf(Main.given) /\ \A x : IsLocal(Main, x) => RootOf(x)
  BY <1>4 DEF RootOf, IsLocal
<1> QED
  BY <1>2, <1>3, <1>5 DEF LifeInv, RootsAlive, DyingIsUnreferred

(* The steps, without who destroys what they leave unreferenced.           *)
LifeStep ==
  \/ Commands \/ ReleaseNext
  \/ \E s \in LifeSession : IoStep(s) \/ WorkerStep(s)
  \/ \E t \in {"main", "io", "worker"} : EndStep(t)

(* Every step of the program is one, by a thread with a name.              *)
LEMMA LifeNextIs ==
  ASSUME LifeNext
  PROVE  LifeStep /\ \E t \in {"main", "io", "worker"} : DroppedBy(t)
BY DEF LifeNext, LifeStep

(* A step is of the same program.                                          *)
LEMMA SameProgram ==
  ASSUME LifeStep
  PROVE  sample' = sample /\ Main' = Main /\ Shared' = Shared
<1>1. sample' = sample
  BY DEF LifeStep, Commands, Fails, QuitCommand, ClientInput, Count, CountEnds, StartClients, Commanded,
         ReleaseNext, IoStep, Accept, IoBegins, IoConnects, IoReads, IoCloses, IoEnds, IoDone,
         WorkerStep, WorkerTakes, WorkerReplies, WorkerCloses, WorkerEnds, WorkerDone,
         EndStep, StopClears, StopJoins, Drain, DestroyObject, mainVars
<1>2. Main' = Main
  BY <1>1 DEF Main
<1> QED
  BY <1>1, <1>2 DEF Shared

(* Nothing that is being destroyed is referred to again: a step adds only  *)
(* references to what is referred to, or was not made yet.                 *)
LEMMA NoReferenceComesBack ==
  ASSUME LifeInv, LifeStep, NEW d \in Object, dying[d] # "nobody", d # "work"
  PROVE  ~RootOf(d)' /\ ~KeptBy(d)'
<1>1. /\ Main' = Main /\ Shared' = Shared /\ SessionRefs' = SessionRefs
  BY SameProgram DEF SessionRefs
<1>2. /\ Fits(Main) /\ Ranked(Main) /\ d \in alive /\ ~RootOf(d) /\ ~KeptBy(d)
      /\ \A x : RootOf(x) /\ x # "work" => x \in alive
      /\ \A o \in Object : dying[o] # "nobody" => o \in alive
      /\ step \in {"input", "quit"} => RootOf(Main.given)
      /\ step \in {"input", "quit"} => \A x : IsLocal(Main, x) => RootOf(x)
  BY HeldIs
<1>3. LifeTypes /\ Stages /\ Bonds /\ Serving
  BY DEF LifeInv
<1>4. CASE Fails \/ QuitCommand \/ ClientInput \/ CountEnds
  BY <1>1, <1>2, <1>4 DEF Fails, QuitCommand, ClientInput, CountEnds, Commanded, RootOf, KeptBy, threadVars
<1>5. CASE Count
  <2>1. "endpoint" \in alive
    BY <1>2, <1>5, MainFits, <1>3 DEF Count, Fits, LifeTypes
  <2> QED
    BY <1>1, <1>2, <1>5, <2>1 DEF Count, Commanded, RootOf, KeptBy, threadVars
<1>6. CASE StartClients
  <2>1. IsLocal(Main, "handler") /\ IsLocal(Main, "filter") /\ IsLocal(Main, "bufmgr") /\ IsLocal(Main, "svcmgr")
    BY <1>2, <1>6 DEF Fits, StartClients
  <2>2. d \notin {"handler", "filter", "bufmgr", "svcmgr"}
    BY <1>2, <1>6, <2>1 DEF StartClients
  <2>3. d # "endpoint"
    <3>1. PICK o \in DOMAIN Main.refs : IsLocal(Main, o) /\ "endpoint" \in Main.refs[o]
      BY <1>2, <1>6 DEF Fits, StartClients
    <3>2. o # "work"
      BY <1>2, <3>1 DEF Ranked
    <3> QED
      BY <1>2, <1>6, <3>1, <3>2 DEF StartClients, KeptBy
  <2>4. First \in LifeSession /\ d \notin LifeSession
    BY <1>2, <1>3, <1>6, LifeAssumption DEF First, Serving, StartClients
  <2>5. \A x \in Main.refs["endpoint"] : x \in {"svcmgr", "handler", "filter", "bufmgr"}
    BY <1>2 DEF Fits, Ranked
  <2>6. Shared /\ registered = {} /\ DOMAIN Main.refs \subseteq NamedObject
    BY <1>2, <1>3, <1>6 DEF Fits, Shared, StartClients, Serving
  <2>7. First \notin DOMAIN Main.refs
    BY <2>4, <2>6, LifeAssumption
  <2>8. ~RootOf(d)'
    BY <1>1, <1>2, <1>6 DEF StartClients, RootOf, threadVars, mainVars
  <2>9. ~KeptBy(d)'
    BY <1>1, <1>2, <1>6, <2>2, <2>3, <2>4, <2>5, <2>6, <2>7 DEF StartClients, KeptBy, SessionRefs
  <2> QED
    BY <2>8, <2>9
<1>7. CASE ReleaseNext
  BY <1>1, <1>2, <1>3, <1>7 DEF ReleaseNext, RootOf, KeptBy, threadVars, sessionVars, LifeTypes
<1>8. CASE \E s \in LifeSession : IoStep(s)
  <2> SUFFICES ASSUME NEW s \in LifeSession, IoStep(s)
               PROVE  ~RootOf(d)' /\ ~KeptBy(d)'
    BY <1>8
  <2>1. CASE Accept(s)
    <3>1. "endpoint" \in alive /\ s \notin alive
      BY <1>3, <2>1 DEF Accept, Bonds, Serving
    <3>2. d # s /\ d \notin SessionRefs /\ s \notin DOMAIN Main.refs
      BY <1>2, <3>1, LifeAssumption DEF KeptBy, Fits, SessionRefs
    <3>3. s # "service" /\ (registered' = registered \cup {s}) /\ (pending' = pending \cup {s})
      BY <2>1, LifeAssumption DEF Accept, NamedObject
    <3> QED
      BY <1>1, <1>2, <2>1, <3>1, <3>2, <3>3 DEF Accept, RootOf, KeptBy, mainVars, threadVars
  <2>2. CASE IoBegins(s)
    BY <1>1, <1>2, <2>2 DEF IoBegins, Served, RootOf, KeptBy, mainVars
  <2>3. CASE IoDone(s) /\ (IoConnects(s) \/ IoReads(s) \/ IoCloses(s) \/ IoEnds(s))
    <3>1. io = s /\ RootOf(s)
      BY <2>3, LifeAssumption DEF IoDone, RootOf
    <3> QED
      BY <1>1, <1>2, <2>3, <3>1
         DEF IoDone, IoConnects, IoReads, IoCloses, IoEnds, RootOf, KeptBy, mainVars, sessionVars
  <2> QED
    BY <2>1, <2>2, <2>3 DEF IoStep, IoConnects, IoReads, IoCloses, IoEnds
<1>9. CASE \E s \in LifeSession : WorkerStep(s)
  <2> SUFFICES ASSUME NEW s \in LifeSession, WorkerStep(s)
               PROVE  ~RootOf(d)' /\ ~KeptBy(d)'
    BY <1>9
  <2>1. CASE WorkerTakes(s)
    BY <1>1, <1>2, <2>1 DEF WorkerTakes, RootOf, KeptBy, mainVars
  <2>2. CASE WorkerDone(s) /\ (WorkerReplies(s) \/ WorkerCloses(s) \/ WorkerEnds(s))
    <3>1. RootOf(s)
      BY <2>2 DEF WorkerDone, RootOf
    <3> QED
      BY <1>1, <1>2, <2>2, <3>1
         DEF WorkerDone, WorkerReplies, WorkerCloses, WorkerEnds, RootOf, KeptBy, mainVars
  <2> QED
    BY <2>1, <2>2 DEF WorkerStep, WorkerReplies, WorkerCloses, WorkerEnds
<1>10. CASE \E t \in {"main", "io", "worker"} : EndStep(t)
  <2> SUFFICES ASSUME NEW t \in {"main", "io", "worker"}, EndStep(t)
               PROVE  ~RootOf(d)' /\ ~KeptBy(d)'
    BY <1>10
  <2>1. CASE StopClears(t)
    BY <1>1, <1>2, <2>1 DEF StopClears, RootOf, KeptBy, mainVars, threadVars
  <2>2. CASE StopJoins(t)
    BY <1>1, <1>2, <2>2 DEF StopJoins, RootOf, KeptBy, sessionVars, threadVars
  <2>3. CASE Drain(t)
    BY <1>1, <1>2, <2>3 DEF Drain, RootOf, KeptBy, mainVars, threadVars
  <2>4. ASSUME NEW o \in Object, DestroyObject(t, o)
        PROVE  ~RootOf(d)' /\ ~KeptBy(d)'
    BY <1>1, <1>2, <2>4 DEF DestroyObject, RootOf, KeptBy, mainVars, threadVars
  <2> QED
    BY <2>1, <2>2, <2>3, <2>4 DEF EndStep
<1> QED
  BY <1>4, <1>5, <1>6, <1>7, <1>8, <1>9, <1>10 DEF LifeStep, Commands

(* What is referred to is not destroyed.                                   *)
LEMMA ReferredStays ==
  ASSUME LifeInv, LifeStep
  PROVE  /\ \A x \in alive : (RootOf(x) \/ KeptBy(x)) /\ x # "work" => x \in alive'
         /\ \A x \in alive : x \notin alive' => dying[x] # "nobody"
<1> SUFFICES ASSUME NEW x \in alive, x \notin alive'
             PROVE  dying[x] # "nobody" /\ (x # "work" => ~RootOf(x) /\ ~KeptBy(x))
  OBVIOUS
<1>1. ASSUME NEW t \in {"main", "io", "worker"}, NEW o \in Object, DestroyObject(t, o)
      PROVE  x = o /\ dying[o] # "nobody"
  BY <1>1 DEF DestroyObject
<1>2. \E t \in {"main", "io", "worker"} : \E o \in Object : DestroyObject(t, o)
  BY DEF LifeStep, Commands, Fails, QuitCommand, ClientInput, Count, CountEnds, StartClients, Commanded,
         ReleaseNext, IoStep, Accept, IoBegins, IoConnects, IoReads, IoCloses, IoEnds, IoDone,
         WorkerStep, WorkerTakes, WorkerReplies, WorkerCloses, WorkerEnds, WorkerDone,
         EndStep, StopClears, StopJoins, Drain
<1> QED
  BY <1>1, <1>2, HeldIs DEF LifeInv, LifeTypes

(* What a root refers to in the next state is alive there.                 *)
LEMMA RootsNext ==
  ASSUME LifeInv, LifeStep, NEW x, RootOf(x)', x # "work"
  PROVE  x \in alive'
<1>1. /\ Main' = Main
      /\ \A y : RootOf(y) /\ y # "work" => y \in alive /\ y \in alive'
  BY SameProgram, HeldIs, ReferredStays
<1>2. Fits(Main) /\ LifeTypes /\ Stages /\ Bonds /\ Serving
  BY HeldIs DEF LifeInv
<1> SUFFICES ASSUME ~RootOf(x)
             PROVE  x \in alive'
  BY <1>1
<1>3. CASE Fails \/ QuitCommand \/ ClientInput \/ CountEnds \/ StartClients
  BY <1>1, <1>3
     DEF Fails, QuitCommand, ClientInput, CountEnds, StartClients, Commanded, RootOf, mainVars, threadVars
<1>4. CASE Count
  <2>1. "endpoint" \in alive
    BY <1>1, <1>2, <1>4, MainFits, HeldIs DEF Count, Fits, LifeTypes
  <2> QED
    BY <1>1, <1>2, <1>4, <2>1 DEF Count, Commanded, RootOf, threadVars, Serving
<1>5. CASE ReleaseNext
  BY <1>1, <1>2, <1>5 DEF ReleaseNext, RootOf, threadVars, LifeTypes
<1>6. ASSUME NEW s \in LifeSession, IoStep(s)
      PROVE  x \in alive'
  BY <1>1, <1>2, <1>6
     DEF IoStep, Accept, IoBegins, IoConnects, IoReads, IoCloses, IoEnds, IoDone, RootOf, mainVars, threadVars,
         Serving
<1>7. ASSUME NEW s \in LifeSession, WorkerStep(s)
      PROVE  x \in alive'
  BY <1>1, <1>7
     DEF WorkerStep, WorkerTakes, WorkerReplies, WorkerCloses, WorkerEnds, WorkerDone, RootOf, mainVars
<1>8. ASSUME NEW t \in {"main", "io", "worker"}, EndStep(t)
      PROVE  x \in alive'
  BY <1>1, <1>8
     DEF EndStep, StopClears, StopJoins, Drain, DestroyObject, RootOf, mainVars, threadVars
<1> QED
  BY <1>3, <1>4, <1>5, <1>6, <1>7, <1>8 DEF LifeStep, Commands

(* The threads that drop references destroy what they leave unreferenced.  *)
LEMMA DyingNext ==
  ASSUME LifeInv, LifeStep, NEW t \in {"main", "io", "worker"}, DroppedBy(t), alive' \subseteq Object
  PROVE  DyingIsUnreferred'
<1>1. PICK dropped \in {alive' \ Referred'} :
        dying' = [o \in Object |-> IF o \notin alive' THEN "nobody"
                                   ELSE IF dying[o] = "nobody" /\ o \in dropped THEN t ELSE dying[o]]
  BY DEF DroppedBy
<1>2. \A x : x \in Referred' <=> RootOf(x)' \/ KeptBy(x)'
  BY ReferredNext, SameProgram, HeldIs
<1>3. ASSUME NEW o \in Object, dying'[o] # "nobody"
      PROVE  o \in alive' /\ (o # "work" => o \notin Referred')
  <2>1. o \in alive' /\ (dying[o] = "nobody" => o \notin Referred')
    BY <1>1, <1>3
  <2>2. dying[o] # "nobody" /\ o # "work" => o \notin Referred'
    BY <1>2, NoReferenceComesBack
  <2> QED
    BY <2>1, <2>2
<1>4. ASSUME NEW o \in alive', dying'[o] = "nobody"
      PROVE  o \in Referred'
  BY <1>1, <1>4
<1> QED
  BY <1>3, <1>4 DEF DyingIsUnreferred, Object

(* The types.                                                              *)
LEMMA LifeTypesNext ==
  ASSUME LifeInv, LifeStep
  PROVE  LifeTypes'
<1>1. sample' = sample /\ Main' = Main /\ Len(Main.locals) \in Nat /\ LifeTypes
  BY SameProgram, HeldIs DEF Fits, LifeInv
<1>2. First \in LifeSession /\ LifeSession \subseteq Object /\ "endpoint" \in Object
  BY LifeAssumption DEF First, Object, NamedObject
<1>3. CASE Fails \/ QuitCommand \/ ClientInput \/ Count \/ CountEnds \/ StartClients
  BY <1>1, <1>2, <1>3
     DEF Fails, QuitCommand, ClientInput, Count, CountEnds, StartClients, Commanded, mainVars, threadVars, LifeTypes
<1>4. CASE ReleaseNext
  BY <1>1, <1>4 DEF ReleaseNext, sessionVars, threadVars, LifeTypes
<1>5. ASSUME NEW s \in LifeSession, IoStep(s)
      PROVE  LifeTypes'
  <2>1. UNCHANGED <<step, left, counting>>
    BY <1>5 DEF IoStep, Accept, IoBegins, IoConnects, IoReads, IoCloses, IoEnds, IoDone, mainVars
  <2>2. endpoint' = endpoint /\ alive' \subseteq Object /\ working' = working /\ io' \in LifeSession \cup {"none"}
    BY <1>1, <1>2, <1>5
       DEF IoStep, Accept, IoBegins, IoConnects, IoReads, IoCloses, IoEnds, IoDone, threadVars, LifeTypes
  <2>3. \A x \in {fresh', open', registered', pending', queued'} : x \subseteq LifeSession
    BY <1>1, <1>5
       DEF IoStep, Accept, IoBegins, IoConnects, IoReads, IoCloses, IoEnds, sessionVars, LifeTypes
  <2> QED
    BY <1>1, <2>1, <2>2, <2>3 DEF LifeTypes
<1>6. ASSUME NEW s \in LifeSession, WorkerStep(s)
      PROVE  LifeTypes'
  <2>1. UNCHANGED <<step, left, counting, io, alive, endpoint, fresh>>
    BY <1>6 DEF WorkerStep, WorkerTakes, WorkerReplies, WorkerCloses, WorkerEnds, WorkerDone, mainVars
  <2>2. \A x \in {open', registered', pending', queued', working'} : x \subseteq LifeSession
    BY <1>1, <1>6 DEF WorkerStep, WorkerTakes, WorkerReplies, WorkerCloses, WorkerEnds, WorkerDone, LifeTypes
  <2> QED
    BY <1>1, <2>1, <2>2 DEF LifeTypes
<1>7. ASSUME NEW t \in {"main", "io", "worker"}, EndStep(t)
      PROVE  LifeTypes'
  <2>1. /\ UNCHANGED <<left, counting, io, working, fresh>> /\ step' \in {step, "release"}
        /\ endpoint' \in {endpoint, "cleared", "stopped"} /\ alive' \subseteq alive
    BY <1>7 DEF EndStep, StopClears, StopJoins, Drain, DestroyObject, mainVars, threadVars, sessionVars
  <2>2. \A x \in {open', registered', pending', queued'} : x \subseteq LifeSession
    BY <1>1, <1>7 DEF EndStep, StopClears, StopJoins, Drain, DestroyObject, sessionVars, LifeTypes
  <2> QED
    BY <1>1, <2>1, <2>2 DEF LifeTypes
<1> QED
  BY <1>3, <1>4, <1>5, <1>6, <1>7 DEF LifeStep, Commands

(* The stages of main.                                                     *)
LEMMA StagesNext ==
  ASSUME LifeInv, LifeStep
  PROVE  Stages'
<1>1. Main' = Main /\ Shared' = Shared /\ Fits(Main) /\ LifeTypes /\ Stages /\ Serving
  BY SameProgram, HeldIs DEF LifeInv
<1>2. CASE Fails \/ QuitCommand \/ CountEnds \/ StartClients
  BY <1>1, <1>2 DEF Fails, QuitCommand, CountEnds, StartClients, Commanded, mainVars, Stages
<1>3. CASE ClientInput
  <2>1. cnnok' => fresh = {}
    BY <1>1, <1>3 DEF ClientInput, AnyConnected, Stages, Serving
  <2> QED
    BY <1>1, <1>3, <2>1 DEF ClientInput, Commanded, Stages
<1>4. CASE Count
  BY <1>1, <1>4, MainFits DEF Count, Commanded, Stages, LifeTypes
<1>5. CASE ReleaseNext
  BY <1>1, <1>5 DEF ReleaseNext, sessionVars, Stages, LifeTypes
<1>6. ASSUME NEW s \in LifeSession, IoStep(s) \/ WorkerStep(s)
      PROVE  Stages'
  <2>1. UNCHANGED <<step, left, globals, counting, endpoint, cnnok>> /\ fresh' \subseteq fresh
    BY <1>6
       DEF IoStep, Accept, IoBegins, IoConnects, IoReads, IoCloses, IoEnds, IoDone,
           WorkerStep, WorkerTakes, WorkerReplies, WorkerCloses, WorkerEnds, WorkerDone, mainVars, sessionVars
  <2> QED
    BY <1>1, <2>1 DEF Stages
<1>7. ASSUME NEW t \in {"main", "io", "worker"}, EndStep(t)
      PROVE  Stages'
  <2>1. step = "input" /\ Main.side # "clients" => ~Stops(t)
    <3>1. "endpoint" \in Object /\ (Main.side # "clients" => Main.given = "endpoint")
      BY <1>1 DEF Fits, Object, NamedObject
    <3> QED
      BY <3>1, HeldIs, <1>7 DEF Stops
  <2>2. CASE StopClears(t) \/ StopJoins(t)
    BY <1>1, <2>1, <2>2 DEF StopClears, StopJoins, mainVars, sessionVars, Stages
  <2>3. CASE Drain(t) \/ \E o \in Object : DestroyObject(t, o)
    BY <1>1, <2>3 DEF Drain, DestroyObject, mainVars, Stages
  <2> QED
    BY <1>7, <2>2, <2>3 DEF EndStep
<1> QED
  BY <1>2, <1>3, <1>4, <1>5, <1>6, <1>7 DEF LifeStep, Commands

(* Nothing but sessions, and an endpoint by StartClients, is made.         *)
LEMMA MadeNext ==
  ASSUME LifeInv, LifeStep
  PROVE  /\ alive' \subseteq alive \cup LifeSession \cup {"endpoint"}
         /\ "endpoint" \in alive' \ alive => StartClients
         /\ endpoint' # endpoint =>
              StartClients \/ \E t \in {"main", "io", "worker"} : StopClears(t) \/ StopJoins(t)
<1>1. First \in LifeSession /\ "endpoint" \notin LifeSession
  BY LifeAssumption DEF First, NamedObject
<1>2. CASE Commands \/ ReleaseNext
  BY <1>1, <1>2
     DEF Commands, Fails, QuitCommand, ClientInput, Count, CountEnds, StartClients, Commanded, ReleaseNext
<1>3. ASSUME NEW s \in LifeSession, IoStep(s) \/ WorkerStep(s)
      PROVE  alive' \subseteq alive \cup {s} /\ endpoint' = endpoint
  BY <1>3 DEF IoStep, Accept, IoBegins, IoConnects, IoReads, IoCloses, IoEnds, IoDone,
              WorkerStep, WorkerTakes, WorkerReplies, WorkerCloses, WorkerEnds, WorkerDone
<1>4. ASSUME NEW t \in {"main", "io", "worker"}, EndStep(t)
      PROVE  alive' \subseteq alive /\ (endpoint' # endpoint => StopClears(t) \/ StopJoins(t))
  BY <1>4 DEF EndStep, StopClears, StopJoins, Drain, DestroyObject
<1> QED
  BY <1>1, <1>2, <1>3, <1>4 DEF LifeStep

(* Endpoint and services.                                                  *)
LEMMA BondsNext ==
  ASSUME LifeInv, LifeStep
  PROVE  Bonds'
<1>1. Main' = Main /\ Shared' = Shared /\ Fits(Main) /\ LifeTypes /\ Stages /\ Bonds
  BY SameProgram, HeldIs DEF LifeInv
<1>2. StartClients => Shared /\ endpoint = "idle" /\ endpoint' = "started" /\ "endpoint" \in alive'
                      /\ RootOf("svcmgr") /\ UNCHANGED <<io, registered, leftover>>
  BY <1>1, HeldIs DEF StartClients, Fits, Shared, historyVars, threadVars
<1>3. endpoint' \in {"started", "cleared"} => "endpoint" \in alive'
  <2>1. ASSUME endpoint \in {"started", "cleared"}, "endpoint" \notin alive', endpoint' \in {"started", "cleared"}
        PROVE  FALSE
    <3>1. \E t \in {"main", "io", "worker"} : DestroyObject(t, "endpoint")
      BY <1>1, <2>1
         DEF LifeStep, Commands, Fails, QuitCommand, ClientInput, Count, CountEnds, StartClients, Commanded,
             ReleaseNext, IoStep, Accept, IoBegins, IoConnects, IoReads, IoCloses, IoEnds, IoDone,
             WorkerStep, WorkerTakes, WorkerReplies, WorkerCloses, WorkerEnds, WorkerDone,
             EndStep, StopClears, StopJoins, Drain, DestroyObject, Bonds
    <3> QED
      BY <2>1, <3>1, LifeAssumption DEF DestroyObject, Joined, NamedObject
  <2>2. endpoint' # endpoint =>
          StartClients \/ (endpoint \in {"started", "cleared"} /\ endpoint' \in {"cleared", "stopped"})
    BY MadeNext DEF StopClears, StopJoins
  <2> QED
    BY <1>2, <2>1, <2>2
<1>4. Shared /\ "endpoint" \in alive' => "svcmgr" \in alive'
  <2>1. Shared /\ "endpoint" \in alive => KeptBy("svcmgr") /\ "svcmgr" \in alive
    BY <1>1 DEF KeptBy, Fits, Shared, Bonds
  <2>2. RootOf("svcmgr") => "svcmgr" \in alive
    BY HeldIs
  <2> QED
    BY <1>2, <2>1, <2>2, MadeNext, ReferredStays
<1>5. Shared /\ "svcmgr" \in alive' => "service" \in alive'
  <2>1. Shared /\ "svcmgr" \in alive => KeptBy("service") /\ "service" \in alive
    BY <1>1 DEF KeptBy, Fits, Shared, Bonds
  <2>2. "svcmgr" \in alive' => "svcmgr" \in alive
    BY MadeNext, LifeAssumption DEF NamedObject
  <2> QED
    BY <2>1, <2>2, ReferredStays
<1>6. ~Shared /\ endpoint' \in {"started", "cleared"} => "service" \in alive'
  <2>1. ~Shared /\ endpoint' \in {"started", "cleared"} => endpoint \in {"started", "cleared"}
    BY <1>2, MadeNext DEF StopClears, StopJoins
  <2>2. ~Shared /\ endpoint \in {"started", "cleared"} => KeptBy("service") /\ "service" \in alive
    BY <1>1 DEF KeptBy, Bonds
  <2> QED
    BY <2>1, <2>2, ReferredStays
<1>7. io' # "none" => IF Shared THEN "svcmgr" \in alive' ELSE endpoint' \in {"started", "cleared"}
  <2>1. CASE Commands \/ ReleaseNext
    BY <1>1, <2>1
       DEF Commands, Fails, QuitCommand, ClientInput, Count, CountEnds, StartClients, Commanded, ReleaseNext,
           threadVars, Bonds
  <2>2. ASSUME NEW s \in LifeSession, IoStep(s) \/ WorkerStep(s)
        PROVE  io' # "none" => IF Shared THEN "svcmgr" \in alive' ELSE endpoint' \in {"started", "cleared"}
    BY <1>1, <2>2
       DEF IoStep, Accept, IoBegins, IoConnects, IoReads, IoCloses, IoEnds, IoDone, Served,
           WorkerStep, WorkerTakes, WorkerReplies, WorkerCloses, WorkerEnds, WorkerDone, threadVars, Bonds
  <2>3. ASSUME NEW t \in {"main", "io", "worker"}, StopClears(t) \/ StopJoins(t) \/ Drain(t)
        PROVE  io' # "none" => IF Shared THEN "svcmgr" \in alive' ELSE endpoint' \in {"started", "cleared"}
    BY <1>1, <2>3 DEF StopClears, StopJoins, IoJoined, Drain, threadVars, Bonds
  <2>4. ASSUME NEW t \in {"main", "io", "worker"}, NEW o \in Object, DestroyObject(t, o)
        PROVE  io' # "none" => IF Shared THEN "svcmgr" \in alive' ELSE endpoint' \in {"started", "cleared"}
    <3>1. o = "svcmgr" => io = "none"
      BY <2>4, LifeAssumption DEF DestroyObject, Joined, NamedObject
    <3> QED
      BY <1>1, <2>4, <3>1 DEF DestroyObject, threadVars, Bonds
  <2> QED
    BY <2>1, <2>2, <2>3, <2>4 DEF LifeStep, EndStep
<1>8. ~Shared /\ endpoint' \in {"cleared", "stopped"} =>
        registered' \subseteq leftover' /\ (io' # "none" => io' \in leftover')
  <2>1. CASE Commands \/ ReleaseNext
    <3>1. StartClients \/ UNCHANGED <<endpoint, io, registered, leftover>>
      BY <2>1 DEF Commands, Fails, QuitCommand, ClientInput, Count, CountEnds, Commanded, ReleaseNext,
                  threadVars, sessionVars, historyVars
    <3> QED
      BY <1>1, <1>2, <3>1 DEF Bonds
  <2>2. ASSUME NEW s \in LifeSession, IoStep(s)
        PROVE  ~Shared /\ endpoint' \in {"cleared", "stopped"} =>
                 registered' \subseteq leftover' /\ (io' # "none" => io' \in leftover')
    <3>1. UNCHANGED <<endpoint, leftover>>
      BY <2>2 DEF IoStep, Accept, IoBegins, IoConnects, IoReads, IoCloses, IoEnds, IoDone, Use, historyVars
    <3>2. CASE Accept(s) \/ IoBegins(s)
      BY <1>1, <3>1, <3>2 DEF Accept, IoBegins, Served
    <3>3. CASE IoConnects(s) \/ IoReads(s) \/ IoCloses(s) \/ IoEnds(s)
      <4>1. io = s /\ io' = "none" /\ s # "none" /\ registered' \subseteq registered \cup {s}
        BY <3>3, LifeAssumption DEF IoConnects, IoReads, IoCloses, IoEnds, IoDone, sessionVars
      <4> QED
        BY <1>1, <3>1, <4>1 DEF Bonds
    <3> QED
      BY <2>2, <3>2, <3>3 DEF IoStep
  <2>3. ASSUME NEW s \in LifeSession, WorkerStep(s)
        PROVE  ~Shared /\ endpoint' \in {"cleared", "stopped"} =>
                 registered' \subseteq leftover' /\ (io' # "none" => io' \in leftover')
    BY <1>1, <2>3
       DEF WorkerStep, WorkerTakes, WorkerReplies, WorkerCloses, WorkerEnds, WorkerDone, Use, historyVars, Bonds
  <2>4. ASSUME NEW t \in {"main", "io", "worker"}, StopClears(t) \/ StopJoins(t) \/ Drain(t)
        PROVE  ~Shared /\ endpoint' \in {"cleared", "stopped"} =>
                 registered' \subseteq leftover' /\ (io' # "none" => io' \in leftover')
    BY <1>1, <2>4 DEF StopClears, StopJoins, IoJoined, Drain, threadVars, sessionVars, historyVars, Bonds
  <2>5. ASSUME NEW t \in {"main", "io", "worker"}, NEW o \in Object, DestroyObject(t, o)
        PROVE  ~Shared /\ endpoint' \in {"cleared", "stopped"} =>
                 registered' \subseteq leftover' /\ (io' # "none" => io' \in leftover')
    <3>1. UNCHANGED <<endpoint, io, registered>> /\ leftover \subseteq leftover'
      BY <2>5 DEF DestroyObject, threadVars
    <3> QED
      BY <1>1, <3>1 DEF Bonds
  <2> QED
    BY <2>1, <2>2, <2>3, <2>4, <2>5 DEF LifeStep, EndStep
<1> QED
  BY <1>1, <1>3, <1>4, <1>5, <1>6, <1>7, <1>8 DEF Bonds

(* Sessions: what the steps of the threads do to them.                     *)
LEMMA ServingNext ==
  ASSUME LifeInv, LifeStep
  PROVE  Serving'
<1>1. /\ Main' = Main /\ Shared' = Shared /\ Fits(Main) /\ LifeTypes /\ Stages /\ Bonds /\ Serving
      /\ \A x : RootOf(x) /\ x # "work" => x \in alive /\ x \in alive'
      /\ First' = First
  BY SameProgram, HeldIs, ReferredStays DEF LifeInv, First
<1>2. CASE Fails \/ QuitCommand \/ ClientInput \/ Count \/ CountEnds
  BY <1>1, <1>2 DEF Fails, QuitCommand, ClientInput, Count, CountEnds, Commanded, Serving
<1>3. CASE StartClients
  <2>1. First \in LifeSession /\ open = {} /\ registered = {}
    BY <1>1, <1>3, LifeAssumption DEF First, StartClients, Serving, LifeTypes
  <2>2. Main.side = "clients" /\ open' = open /\ registered' = registered /\ fresh' = fresh
        /\ pending' = {First} /\ alive' = alive \cup {"endpoint", First} /\ endpoint' = "started"
    BY <1>3 DEF StartClients
  <2> QED
    BY <1>1, <2>1, <2>2 DEF Serving
<1>4. CASE ReleaseNext
  BY <1>1, <1>4 DEF ReleaseNext, sessionVars, Serving
<1>5. ASSUME NEW s \in LifeSession, Accept(s)
      PROVE  Serving'
  <2>1. s \notin alive /\ s \notin open' \ {s} /\ "endpoint" \in alive /\ s # "endpoint"
    BY <1>1, <1>5, LifeAssumption DEF Accept, Serving, Bonds, NamedObject
  <2> QED
    BY <1>1, <1>5, <2>1 DEF Accept, Serving
<1>6. ASSUME NEW s \in LifeSession, IoBegins(s)
      PROVE  Serving'
  BY <1>1, <1>6 DEF IoBegins, Serving
<1>7. ASSUME NEW s \in LifeSession, IoConnects(s) \/ IoReads(s) \/ IoCloses(s) \/ IoEnds(s)
      PROVE  Serving'
  <2>1. s \in alive /\ s # "endpoint" /\ UNCHANGED <<alive, endpoint>>
    BY <1>1, <1>7, LifeAssumption
       DEF IoConnects, IoReads, IoCloses, IoEnds, IoDone, RootOf, NamedObject
  <2>2. endpoint = "started" => "endpoint" \in alive
    BY <1>1 DEF Bonds
  <2>3. endpoint # "idle"
    BY <1>1, <2>1 DEF Serving
  <2>4. CASE IoConnects(s)
    BY <1>1, <2>1, <2>2, <2>3, <2>4 DEF IoConnects, Serving
  <2>5. CASE IoReads(s)
    BY <1>1, <2>1, <2>3, <2>5 DEF IoReads, Serving
  <2>6. CASE IoCloses(s)
    BY <1>1, <2>1, <2>3, <2>6 DEF IoCloses, Serving
  <2>7. CASE IoEnds(s)
    BY <1>1, <2>1, <2>3, <2>7 DEF IoEnds, sessionVars, Serving
  <2> QED
    BY <1>7, <2>4, <2>5, <2>6, <2>7
<1>8. ASSUME NEW s \in LifeSession, WorkerStep(s)
      PROVE  Serving'
  <2>1. UNCHANGED <<alive, endpoint, fresh>>
    BY <1>8 DEF WorkerStep, WorkerTakes, WorkerReplies, WorkerCloses, WorkerEnds, WorkerDone
  <2>2. pending' \subseteq alive
    <3>1. s \in working => s \in alive
      BY <1>1, LifeAssumption DEF RootOf, NamedObject
    <3> QED
      BY <1>1, <1>8, <3>1
         DEF WorkerStep, WorkerTakes, WorkerReplies, WorkerCloses, WorkerEnds, WorkerDone, Serving
  <2>3. \/ open' = open /\ registered' = registered
        \/ open' = open \ {s} /\ registered' = registered \ {s}
    BY <1>8 DEF WorkerStep, WorkerTakes, WorkerReplies, WorkerCloses, WorkerEnds, WorkerDone
  <2> QED
    BY <1>1, <2>1, <2>2, <2>3 DEF Serving
<1>9. ASSUME NEW t \in {"main", "io", "worker"}, StopClears(t) \/ StopJoins(t) \/ Drain(t)
      PROVE  Serving'
  BY <1>1, <1>9 DEF StopClears, StopJoins, Drain, sessionVars, Serving
<1>10. ASSUME NEW t \in {"main", "io", "worker"}, NEW o \in Object, DestroyObject(t, o)
       PROVE  Serving'
  <2>1. /\ alive' = alive \ {o} /\ open' = open \ {o} /\ pending' = pending \ {o}
        /\ UNCHANGED <<endpoint, fresh, registered>>
    BY <1>10 DEF DestroyObject
  <2>2. "endpoint" \in alive' => registered \subseteq alive'
    <3>1. "endpoint" \in alive => \A x \in registered : KeptBy(x) /\ x \in alive /\ x # "work"
      BY <1>1, LifeAssumption DEF KeptBy, Serving, LifeTypes, NamedObject
    <3> QED
      BY <2>1, <3>1, ReferredStays
  <2> QED
    BY <1>1, <2>1, <2>2 DEF Serving
<1> QED
  BY <1>2, <1>3, <1>4, <1>5, <1>6, <1>7, <1>8, <1>9, <1>10 DEF LifeStep, Commands, IoStep, EndStep

(* The sessions that are alive when the io_service is deleted are in hand, *)
(* or are being destroyed themselves.                                      *)
LEMMA ServiceLastNext ==
  ASSUME LifeInv, LifeStep
  PROVE  ServiceLast'
<1>1. Main' = Main /\ Shared' = Shared /\ Fits(Main) /\ LifeTypes /\ Stages /\ Bonds /\ Serving /\ ServiceLast
  BY SameProgram, HeldIs DEF LifeInv
<1>2. "service" \in Object /\ "service" \notin LifeSession /\ "service" # "work"
  BY LifeAssumption DEF Object, NamedObject
<1>3. ASSUME NEW t \in {"main", "io", "worker"}, DestroyObject(t, "service"), NEW s \in LifeSession, s \in alive
      PROVE  s \in leftover'
  <2>1. /\ dying["service"] # "nobody" /\ pending = {}
        /\ leftover' = leftover \cup working \cup {x \in LifeSession : dying[x] # "nobody"}
    BY <1>2, <1>3, LifeAssumption DEF DestroyObject, Joined, NamedObject
  <2>2. ~KeptBy("service") /\ (dying[s] = "nobody" => RootOf(s) \/ KeptBy(s))
    BY <1>2, <1>3, <2>1, HeldIs
  <2>3. Shared => "svcmgr" \notin alive /\ "endpoint" \notin alive
    BY <1>1, <2>2 DEF KeptBy, Fits, Shared, Bonds
  <2>4. ~Shared => endpoint \notin {"started", "cleared"}
    BY <1>1, <2>2 DEF KeptBy, Bonds
  <2>5. counting = {} /\ io = "none"
    <3>1. step = "input" /\ Main.side = "server" => "endpoint" \in alive
      BY <1>1, HeldIs DEF Fits
    <3> QED
      BY <1>1, <2>3, <2>4, <3>1 DEF Stages, Bonds
  <2>6. s # "work" /\ s \notin NamedObject
    BY LifeAssumption DEF NamedObject
  <2>7. RootOf(s) => s \in working
    <3>1. /\ \A i \in 1 .. Len(Main.locals) : Main.locals[i] \in NamedObject
          /\ 1 .. left \subseteq 1 .. Len(Main.locals)
      BY <1>1 DEF Fits, LifeTypes
    <3>2. Main.given \in NamedObject /\ "work" \in NamedObject /\ \A x \in globals : x \in NamedObject
      BY <1>1 DEF Fits, NamedObject, Stages
    <3> QED
      BY <2>5, <2>6, <3>1, <3>2 DEF RootOf
  <2>8. KeptBy(s) => "endpoint" \in alive /\ s \in registered
    <3>1. ASSUME NEW o \in DOMAIN Main.refs, NEW x \in Main.refs[o]
          PROVE  x \in NamedObject
      BY <3>1, HeldIs DEF Ranked, NamedObject
    <3> QED
      BY <2>1, <2>6, <3>1 DEF KeptBy, SessionRefs, NamedObject
  <2>9. "endpoint" \in alive /\ s \in registered => s \in leftover
    BY <1>1, <1>3, <2>3, <2>4 DEF Serving, Bonds, LifeTypes
  <2> QED
    BY <2>1, <2>2, <2>7, <2>8, <2>9
<1>4. ASSUME "service" \in alive, "service" \notin alive'
      PROVE  alive' \subseteq alive /\ \E t \in {"main", "io", "worker"} : DestroyObject(t, "service")
  BY <1>4 DEF LifeStep, Commands, Fails, QuitCommand, ClientInput, Count, CountEnds, StartClients, Commanded,
         ReleaseNext, IoStep, Accept, IoBegins, IoConnects, IoReads, IoCloses, IoEnds, IoDone,
         WorkerStep, WorkerTakes, WorkerReplies, WorkerCloses, WorkerEnds, WorkerDone,
         EndStep, StopClears, StopJoins, Drain, DestroyObject
<1>5. ASSUME "service" \notin alive
      PROVE  alive' \subseteq alive /\ leftover \subseteq leftover'
  <2>1. ~StartClients
    <3>1. StartClients => Shared /\ RootOf("svcmgr")
      BY <1>1, HeldIs DEF StartClients, Fits, Shared
    <3> QED
      BY <1>1, <1>5, <3>1, HeldIs DEF Bonds
  <2>2. endpoint = "started" => FALSE
    BY <1>1, <1>5 DEF Bonds
  <2> QED
    BY <2>1, <2>2
       DEF LifeStep, Commands, Fails, QuitCommand, ClientInput, Count, CountEnds, Commanded,
         ReleaseNext, IoStep, Accept, IoBegins, IoConnects, IoReads, IoCloses, IoEnds, IoDone, Use,
         WorkerStep, WorkerTakes, WorkerReplies, WorkerCloses, WorkerEnds, WorkerDone,
         EndStep, StopClears, StopJoins, Drain, DestroyObject, historyVars
<1>6. CASE "service" \in alive'
  BY <1>6 DEF ServiceLast
<1>7. CASE "service" \notin alive' /\ "service" \in alive
  BY <1>3, <1>4, <1>7 DEF ServiceLast
<1>8. CASE "service" \notin alive' /\ "service" \notin alive
  BY <1>1, <1>5, <1>8 DEF ServiceLast
<1> QED
  BY <1>6, <1>7, <1>8

(* A session that is used was in hand, or what it uses is alive.           *)
LEMMA UseIsInTime ==
  ASSUME LifeInv, LifeStep
  PROVE  NothingUsedAfterItsEnd'
<1>1. Fits(Main) /\ LifeTypes /\ Stages /\ Bonds /\ Serving /\ ServiceLast /\ StoppedFirst /\ misused = FALSE
  BY HeldIs DEF LifeInv, NothingUsedAfterItsEnd
<1>2. "endpoint" # "service" /\ LifeSession \cap NamedObject = {} /\ "none" \notin LifeSession
  BY LifeAssumption
<1>3. ASSUME NEW s \in LifeSession, IoConnects(s) \/ IoReads(s) \/ IoCloses(s) \/ IoEnds(s)
      PROVE  misused' = FALSE
  <2>1. "service" \in alive /\ ("endpoint" \in alive \/ Shared)
    BY <1>1, <1>2, <1>3 DEF IoConnects, IoReads, IoCloses, IoEnds, IoDone, Bonds
  <2> QED
    BY <1>1, <1>3, <2>1 DEF IoConnects, IoReads, IoCloses, IoEnds, Use
<1>4. ASSUME NEW s \in LifeSession, WorkerReplies(s) \/ WorkerCloses(s)
      PROVE  misused' = FALSE
  <2>1. s \in working /\ s \in open /\ s \in alive
    BY <1>2, <1>4, HeldIs DEF WorkerReplies, WorkerCloses, WorkerDone, RootOf, NamedObject
  <2>2. "service" \notin alive => s \in leftover
    BY <1>1, <2>1 DEF ServiceLast
  <2>3. "endpoint" \in alive \/ Shared \/ s \in leftover
    <3> SUFFICES ASSUME "endpoint" \notin alive, ~Shared, s \notin leftover
                 PROVE  FALSE
      OBVIOUS
    <3>1. Main.side # "clients" /\ Main.given = "endpoint" /\ IsLocal(Main, "endpoint")
      BY <1>1 DEF Fits, Shared
    <3>2. step \in {"release", "over"}
      BY <1>1, <3>1, HeldIs DEF LifeTypes
    <3>3. endpoint # "idle" /\ open # {} /\ "service" \in alive
      BY <1>1, <2>1, <2>2 DEF Serving
    <3>4. left = Len(Main.locals)
      BY <1>1, <3>2, <3>3 DEF StoppedFirst
    <3>5. RootOf("endpoint")
      BY <3>1, <3>4 DEF RootOf, IsLocal
    <3> QED
      BY <3>5, HeldIs
  <2> QED
    BY <1>1, <1>4, <2>2, <2>3 DEF WorkerReplies, WorkerCloses, Use
<1>5. ASSUME NEW t \in {"main", "io", "worker"}, NEW o \in Object, DestroyObject(t, o)
      PROVE  misused' = FALSE
  <2>1. o \in alive
    BY <1>5, HeldIs DEF DestroyObject
  <2>2. "service" \notin alive => o \notin LifeSession \ leftover
    BY <1>1, <2>1 DEF ServiceLast
  <2> QED
    BY <1>1, <1>5, <2>2 DEF DestroyObject
<1>6. misused' = FALSE
  BY <1>1, <1>3, <1>4, <1>5
     DEF LifeStep, Commands, Fails, QuitCommand, ClientInput, Count, CountEnds, StartClients, Commanded,
         ReleaseNext, IoStep, Accept, IoBegins, WorkerStep, WorkerTakes, WorkerEnds,
         EndStep, StopClears, StopJoins, Drain, historyVars
<1> QED
  BY <1>6 DEF NothingUsedAfterItsEnd

(* Before main releases, Stop or Disconnect has joined the services, whose *)
(* io_service it destroys at once; or no session is open.                  *)
LEMMA StoppedFirstNext ==
  ASSUME LifeInv, LifeNext
  PROVE  StoppedFirst'
<1>1. /\ LifeStep /\ Main' = Main /\ Shared' = Shared /\ Fits(Main) /\ Ranked(Main)
      /\ LifeTypes /\ Stages /\ Bonds /\ Serving /\ StoppedFirst
  BY LifeNextIs, SameProgram, HeldIs DEF LifeInv
<1>2. "service" \in Object /\ "endpoint" \in Object /\ "service" \notin LifeSession /\ "service" # "work"
  BY LifeAssumption DEF Object, NamedObject
<1> SUFFICES ASSUME ~Shared, step' \in {"release", "over"}
             PROVE  \/ endpoint' = "idle"
                    \/ open' = {} /\ fresh' = {}
                    \/ /\ endpoint' = "stopped"
                       /\ \/ "service" \notin alive'
                          \/ dying'["service"] = "main" /\ left' = Len(Main.locals)
  BY <1>1 DEF StoppedFirst
<1>3. Main.side # "clients" /\ Main.given = "endpoint" /\ ~StartClients
  BY <1>1 DEF Fits, Shared, StartClients
<1>4. CASE step \in {"release", "over"}
  <2>1. CASE endpoint = "idle"
    BY <1>1, <1>3, <2>1, MadeNext DEF StopClears, StopJoins
  <2>2. CASE open = {} /\ fresh = {}
    BY <1>1, <1>3, <2>2
       DEF LifeStep, Commands, Fails, QuitCommand, ClientInput, Count, CountEnds, Commanded,
         ReleaseNext, IoStep, Accept, IoBegins, IoConnects, IoReads, IoCloses, IoEnds, IoDone,
         WorkerStep, WorkerTakes, WorkerReplies, WorkerCloses, WorkerEnds, WorkerDone,
         EndStep, StopClears, StopJoins, Drain, DestroyObject, sessionVars
  <2>3. CASE endpoint = "stopped" /\ "service" \notin alive
    BY <1>1, <1>2, <1>3, <2>3, MadeNext DEF StopClears, StopJoins
  <2>4. CASE endpoint = "stopped" /\ dying["service"] = "main" /\ left = Len(Main.locals)
    <3>1. endpoint' = "stopped"
      BY <1>1, <1>3, <2>4, MadeNext DEF StopClears, StopJoins
    <3>2. ~ReleaseNext
      BY <1>2, <2>4 DEF ReleaseNext, Free
    <3>3. left' = left
      BY <1>1, <1>3, <3>2
         DEF LifeStep, Commands, Fails, QuitCommand, ClientInput, Count, CountEnds, Commanded,
           IoStep, Accept, IoBegins, IoConnects, IoReads, IoCloses, IoEnds, IoDone,
           WorkerStep, WorkerTakes, WorkerReplies, WorkerCloses, WorkerEnds, WorkerDone,
           EndStep, StopClears, StopJoins, Drain, DestroyObject, mainVars
    <3>4. "service" \in alive' => dying'["service"] = dying["service"]
      BY <1>2, <2>4, LifeNextIs DEF DroppedBy
    <3> QED
      BY <2>4, <3>1, <3>3, <3>4
  <2> QED
    BY <1>1, <1>4, <2>1, <2>2, <2>3, <2>4 DEF StoppedFirst
<1>5. CASE step \in {"input", "quit"}
  <2>1. \/ ClientInput
        \/ \E t \in {"main", "io", "worker"} : step = "quit" /\ StopJoins(t) /\ DroppedBy(t)
    BY <1>3, <1>5
       DEF LifeNext, Commands, Fails, QuitCommand, ClientInput, Count, CountEnds, Commanded,
         ReleaseNext, IoStep, Accept, IoBegins, IoConnects, IoReads, IoCloses, IoEnds, IoDone,
         WorkerStep, WorkerTakes, WorkerReplies, WorkerCloses, WorkerEnds, WorkerDone,
         EndStep, StopClears, StopJoins, Drain, DestroyObject, mainVars
  <2>2. CASE ClientInput
    <3>1. cnnok /\ registered \cap open = {} /\ UNCHANGED <<open, fresh>>
      BY <2>2 DEF ClientInput, AnyConnected, Commanded
    <3>2. open \subseteq registered /\ fresh = {}
      BY <1>1, <2>2, <3>1 DEF ClientInput, Stages, Serving
    <3> QED
      BY <3>1, <3>2
  <2>3. ASSUME NEW t \in {"main", "io", "worker"}, step = "quit", StopJoins(t), DroppedBy(t)
        PROVE  endpoint' = "stopped" /\ left' = Len(Main.locals) /\ dying'["service"] = "main"
    <3>1. dying["endpoint"] = "nobody"
      BY <1>2, <1>3, <2>3, HeldIs
    <3>2. t = "main" /\ endpoint = "cleared" /\ endpoint' = "stopped" /\ alive' = alive
          /\ UNCHANGED <<left, globals, counting, pending, io, working>> /\ io = "none"
      BY <1>1, <2>3, <3>1 DEF StopJoins, Stops, IoJoined, sessionVars, threadVars
    <3>3. left = Len(Main.locals) /\ "service" \in alive /\ dying["service"] = "nobody"
      BY <1>1, <1>2, <2>3, <3>2, HeldIs DEF Stages, Bonds, KeptBy
    <3>4. ~RootOf("service")'
      <4>1. /\ \A i \in 1 .. Len(Main.locals) : Main.locals[i] # "service"
            /\ \A x \in Main.globals : x # "service"
        BY <1>1 DEF Fits, IsLocal
      <4>2. globals = Main.globals /\ working \subseteq LifeSession /\ counting \subseteq LifeSession
        BY <1>1, <2>3 DEF Stages, LifeTypes
      <4> QED
        BY <1>1, <1>2, <1>3, <3>2, <3>3, <4>1, <4>2 DEF RootOf
    <3>5. ~KeptBy("service")'
      <4>1. \A o \in DOMAIN Main.refs : "service" \notin Main.refs[o]
        BY <1>1 DEF Ranked, Shared
      <4>2. registered' \subseteq LifeSession /\ pending' \subseteq LifeSession
        BY <1>1, LifeTypesNext DEF LifeTypes
      <4> QED
        BY <1>1, <1>2, <3>2, <4>1, <4>2 DEF KeptBy, SessionRefs
    <3>6. "service" \notin Referred'
      BY <1>1, <3>4, <3>5, ReferredNext
    <3>7. PICK dropped \in {alive' \ Referred'} :
            dying' = [o \in Object |-> IF o \notin alive' THEN "nobody"
                                       ELSE IF dying[o] = "nobody" /\ o \in dropped THEN t ELSE dying[o]]
      BY <2>3 DEF DroppedBy
    <3>8. dying'["service"] = t
      BY <1>2, <3>2, <3>3, <3>6, <3>7
    <3> QED
      BY <3>2, <3>3, <3>8
  <2> QED
    BY <2>1, <2>2, <2>3
<1> QED
  BY <1>1, <1>4, <1>5 DEF LifeTypes

(* The invariant holds before the first command.                           *)
LEMMA LifeInvInit ==
  ASSUME LifeInit
  PROVE  LifeInv
<1>1. /\ sample \in Sample /\ Fits(Main) /\ Ranked(Main)
      /\ sample = "JsonClients" => Main.side = "clients"
  BY MainFits DEF LifeInit
<1>2. /\ First \in LifeSession /\ LifeSession \cap NamedObject = {} /\ "none" \notin LifeSession
      /\ \A x \in {"endpoint", "service", "work", "svcmgr"} : x \in NamedObject /\ x \notin LifeSession
      /\ NamedObject \subseteq Object /\ LifeSession \subseteq Object
  BY LifeAssumption DEF First, Object, NamedObject
<1>3. /\ left = Len(Main.locals) /\ Len(Main.locals) \in Nat
      /\ \A i \in 1 .. left : Main.locals[i] \in NamedObject \ {"service"}
      /\ \A x : IsLocal(Main, x) => x \in alive /\ RootOf(x)
  BY <1>1 DEF LifeInit, Fits, IsLocal, RootOf
<1>4. /\ open = {} /\ registered = {} /\ queued = {} /\ io = "none" /\ working = {} /\ leftover = {}
      /\ counting = {} /\ globals = Main.globals /\ cnnok = FALSE /\ misused = FALSE
      /\ \A o \in Object : dying[o] = "nobody"
  BY DEF LifeInit
<1>5. /\ endpoint \in {"idle", "started"} /\ step \in {"input", "release"}
      /\ endpoint = "started" => Main.side # "clients"
      /\ step = "input" => endpoint = "started" \/ Main.side = "clients"
      /\ step = "release" => endpoint = "idle"
  BY <1>1 DEF LifeInit, Fits
<1>6. /\ fresh = (IF Main.side = "server" THEN LifeSession ELSE {First})
      /\ pending = (IF StartConnects THEN {First} ELSE {})
  BY DEF LifeInit
<1>7. alive = {Main.locals[i] : i \in 1 .. left}
                \cup (IF sample = "JsonClients" THEN {"endpoint"} ELSE {})
                \cup (IF Shared \/ endpoint = "started" THEN {"service"} ELSE {})
                \cup (IF StartConnects THEN {First} ELSE {})
  BY DEF LifeInit
<1>8. StartConnects => Main.side = "client" /\ endpoint = "started"
  BY DEF StartConnects
<1>9. LifeTypes
  <2>1. alive \subseteq Object
    BY <1>2, <1>3, <1>7
  <2> QED
    BY <1>1, <1>2, <1>3, <1>4, <1>5, <1>6, <2>1 DEF LifeTypes
<1>10. Stages
  BY <1>1, <1>3, <1>4, <1>5 DEF Stages, Fits
<1>11. Main.side # "clients" => "endpoint" \in alive /\ RootOf("endpoint")
  BY <1>1, <1>3 DEF Fits
<1>12. Shared => "svcmgr" \in alive /\ RootOf("svcmgr")
  BY <1>1, <1>3 DEF Fits, Shared
<1>13. Bonds
  BY <1>4, <1>5, <1>7, <1>11, <1>12 DEF Bonds
<1>14. Serving
  <2>1. alive \cap LifeSession = (IF StartConnects THEN {First} ELSE {})
    BY <1>2, <1>3, <1>7
  <2> QED
    BY <1>1, <1>2, <1>4, <1>5, <1>6, <1>8, <2>1 DEF Serving, Fits
<1>15. DyingIsUnreferred
  <2>1. ASSUME NEW x \in alive
        PROVE  RootOf(x) \/ KeptBy(x)
    <3>1. CASE \E i \in 1 .. left : x = Main.locals[i]
      BY <3>1 DEF RootOf
    <3>2. CASE sample = "JsonClients" /\ x = "endpoint"
      BY <1>1, <1>3, <3>2 DEF Fits, KeptBy
    <3>3. CASE (Shared \/ endpoint = "started") /\ x = "service"
      BY <1>1, <1>5, <1>11, <1>12, <3>3 DEF KeptBy, Fits, Shared
    <3>4. CASE StartConnects /\ x = First
      BY <1>6, <1>7, <1>8, <3>4 DEF KeptBy
    <3> QED
      BY <1>7, <2>1, <3>1, <3>2, <3>3, <3>4
  <2> QED
    BY <1>1, <1>4, <2>1, ReferredIs DEF DyingIsUnreferred
<1>16. RootsAlive
  <2>1. ASSUME NEW x, RootOf(x)
        PROVE  x \in alive
    <3>1. /\ \A i \in 1 .. left : IsLocal(Main, Main.locals[i])
          /\ \A y \in globals : IsLocal(Main, y)
          /\ IsLocal(Main, Main.given)
      BY <1>1, <1>3, <1>4 DEF Fits, IsLocal
    <3> QED
      BY <1>3, <1>4, <2>1, <3>1 DEF RootOf
  <2> QED
    BY <1>1, <2>1, ReferredIs DEF RootsAlive
<1>17. ServiceLast
  BY <1>2, <1>3, <1>7, <1>8 DEF ServiceLast
<1>18. StoppedFirst
  BY <1>5 DEF StoppedFirst
<1> QED
  BY <1>4, <1>9, <1>10, <1>13, <1>14, <1>15, <1>16, <1>17, <1>18 DEF LifeInv, NothingUsedAfterItsEnd

(* A step keeps it.                                                        *)
LEMMA LifeInvNext ==
  ASSUME LifeInv, LifeNext
  PROVE  LifeInv'
<1>1. /\ LifeStep /\ Main' = Main
      /\ \E t \in {"main", "io", "worker"} : DroppedBy(t)
      /\ Fits(Main)
  BY LifeNextIs, SameProgram, HeldIs
<1>2. LifeTypes' /\ Stages' /\ Bonds' /\ Serving' /\ ServiceLast' /\ StoppedFirst' /\ NothingUsedAfterItsEnd'
  BY <1>1, LifeTypesNext, StagesNext, BondsNext, ServingNext, ServiceLastNext, StoppedFirstNext, UseIsInTime
<1>3. alive' \subseteq Object
  BY <1>2 DEF LifeTypes, Object
<1>4. DyingIsUnreferred'
  BY <1>1, <1>3, DyingNext
<1>5. RootsAlive'
  BY <1>1, RootsNext, ReferredNext DEF RootsAlive
<1> QED
  BY <1>2, <1>4, <1>5 DEF LifeInv

(* And so does a step of no one.                                           *)
LEMMA LifeInvStays ==
  ASSUME LifeInv, UNCHANGED lifeVars
  PROVE  LifeInv'
<1>1. Main' = Main
  BY DEF Main, lifeVars, mainVars
<1>2. Shared' = Shared /\ First' = First /\ SessionRefs' = SessionRefs /\ Object' = Object
  BY <1>1 DEF Shared, First, SessionRefs, Object
<1>3. \A o : Refs(o)' = Refs(o)
  BY <1>1, <1>2 DEF Refs, GivenTo, KeptByTask, lifeVars, objectVars, sessionVars
<1>4. Roots' = Roots
  BY <1>1 DEF Roots, lifeVars, mainVars, threadVars
<1>5. Referred' = Referred
  BY <1>3, <1>4 DEF Referred, lifeVars, objectVars
<1>6. LifeTypes' /\ Stages' /\ Bonds' /\ Serving'
  BY <1>1, <1>2 DEF LifeInv, LifeTypes, Stages, Bonds, Serving, lifeVars, mainVars, objectVars, sessionVars,
                    threadVars, historyVars
<1>7. DyingIsUnreferred' /\ RootsAlive' /\ ServiceLast' /\ StoppedFirst' /\ NothingUsedAfterItsEnd'
  BY <1>1, <1>2, <1>4, <1>5
     DEF LifeInv, DyingIsUnreferred, RootsAlive, ServiceLast, StoppedFirst, NothingUsedAfterItsEnd,
         lifeVars, mainVars, objectVars, sessionVars, historyVars
<1> QED
  BY <1>6, <1>7 DEF LifeInv

(* No session uses an io_service that is deleted, nor the endpoint of one  *)
(* with services of its own, but for those in hand when Stop cleared the   *)
(* manager or the io_service went: who is in hand on an io_service or in   *)
(* the pool is alive, what an endpoint refers to outlives it, and main     *)
(* releases nothing before Stop.                                           *)
THEOREM LifeNothingUsedAfterItsEnd == LifeSpec => []NothingUsedAfterItsEnd
<1>1. LifeInit => LifeInv
  BY LifeInvInit
<1>2. LifeInv /\ [LifeNext]_lifeVars => LifeInv'
  BY LifeInvNext, LifeInvStays
<1>3. LifeInv => NothingUsedAfterItsEnd
  BY DEF LifeInv
<1> QED
  BY <1>1, <1>2, <1>3, PTL DEF LifeSpec

(* No reference keeps what the program is done with: at the end whatever   *)
(* lives would be referred to by something that lives, and the references  *)
(* of objects go down from the clients to the shared data -- except that   *)
(* the handler of jsonc10k has its clients.                                *)
LEMMA AtRestNothingLives ==
  ASSUME LifeInv
  PROVE  EverythingEnds
<1> SUFFICES ASSUME AtRest, ~(sample = "C10kClients" /\ "endpoint" \in alive)
             PROVE  alive = {}
  BY DEF EverythingEnds
<1>1. /\ Main = C10kClients => sample = "C10kClients"
      /\ Fits(Main) /\ Ranked(Main) /\ alive \subseteq Object /\ 1 .. left = {}
      /\ globals = {} /\ counting = {} /\ working = {} /\ io = "none" /\ step = "over"
  BY MainFits, HeldIs DEF LifeInv, LifeTypes, Stages, AtRest
<1>2. \A x : ~RootOf(x)
  BY <1>1 DEF RootOf
<1>3. \A x \in alive : KeptBy(x)
  BY <1>2, HeldIs DEF AtRest
<1>4. /\ registered \subseteq LifeSession /\ pending \subseteq LifeSession
      /\ \A s \in LifeSession : s \notin NamedObject /\ s \notin SessionRefs
  BY LifeAssumption DEF LifeInv, LifeTypes, SessionRefs, NamedObject
<1>5. \A o \in alive : \A x : o \in DOMAIN Main.refs /\ x \in Main.refs[o] => x \in NamedObject \ {"clients"}
  BY <1>1 DEF Ranked, NamedObject
<1>6. "clients" \notin alive
  BY <1>3, <1>4, <1>5 DEF KeptBy, SessionRefs, NamedObject
<1>7. "endpoint" \notin alive
  BY <1>1, <1>3, <1>4, <1>6 DEF KeptBy, Ranked, SessionRefs, NamedObject
<1>8. "svcmgr" \notin alive
  BY <1>1, <1>3, <1>4, <1>7 DEF KeptBy, Ranked, SessionRefs, NamedObject
<1>9. "service" \notin alive
  BY <1>1, <1>3, <1>4, <1>7, <1>8 DEF KeptBy, Ranked, SessionRefs, NamedObject
<1>10. \A s \in LifeSession : s \notin alive
  BY <1>3, <1>4, <1>5, <1>7, <1>9 DEF KeptBy
<1>11. "handler" \notin alive /\ "filter" \notin alive
  BY <1>1, <1>3, <1>4, <1>7, <1>9, <1>10 DEF KeptBy, Ranked, NamedObject
<1>12. "workmgr" \notin alive
  BY <1>1, <1>3, <1>4, <1>7, <1>9, <1>10, <1>11 DEF KeptBy, Ranked, NamedObject
<1>13. "bufmgr" \notin alive /\ "work" \notin alive
  BY <1>1, <1>3, <1>4, <1>7, <1>9, <1>10, <1>11, <1>12 DEF KeptBy, Ranked, NamedObject
<1> QED
  BY <1>1, <1>6, <1>7, <1>8, <1>9, <1>10, <1>11, <1>12, <1>13 DEF Object, NamedObject

(* The program that is over and idle has destroyed all it made, but for    *)
(* the clients of jsonc10k and the handler that keeps them.                *)
THEOREM LifeEverythingEnds == LifeSpec => []EverythingEnds
<1>1. LifeInit => LifeInv
  BY LifeInvInit
<1>2. LifeInv /\ [LifeNext]_lifeVars => LifeInv'
  BY LifeInvNext, LifeInvStays
<1>3. LifeInv => EverythingEnds
  BY AtRestNothingLives
<1> QED
  BY <1>1, <1>2, <1>3, PTL DEF LifeSpec
=============================================================================
