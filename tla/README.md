# A TLA+ model of esnetwork

esnetwork is a small C++ network library on top of Boost.Asio and Boost.Thread: TCP clients and
servers whose messages are handled by a pool of worker threads, with five sample programs. This
directory holds TLA+ models of it, the TLC configurations that check them, and proofs of their main
invariants. Paths and line numbers are those of `src/src/` unless they say otherwise.

## The system

| Component | State | Operations | What is hard | What makes it correct |
|---|---|---|---|---|
| **Work pool** `WorkManager.cpp` | queue of tasks, list of free workers, list of all workers, `m_workreq`, `m_state`; per worker: `m_state`, its own task lists | `AddWorkTask`, `Dispatch`, `WaitForWork`, `TakeBack`; `Worker::SetWorkTask`, `GoToWork`, `WaitForNewWork`, `DoWork`; `Stop`, `Abort`, the destructor | three mutexes, several unlocked reads and writes, two condition variables, threads made at run time, joins | every accepted task runs once; no signal is lost; workers neither vanish from the pool nor are used twice; `Stop` ends every thread |
| **Session** `ClientSession.cpp` | `m_state`, `m_closing`, socket; `m_readlist`, `m_writelist`; counters of asynchronous events; five mutexes; a strand with SSL | `Open`, `Read`/`OnRead`, `Write`/`OnWrite`, `ProcessIncomingData`, `ProcessOutgoingData`, `Close(bool)`, the SSL handshake and shutdown | called by the IO thread, workers and application threads; tests of `m_state` and `m_closing` without a lock; mutexes nested both ways | messages handled in order, one at a time when orderly; one write at a time, in order; nothing forgotten; closes for good |
| **Message handler and tasks** `MessageHandler.cpp`, `IoWork.cpp` | references to handler, filter, pool | `OnRead`, `OnWrite`, `OnError`, `IoWork::Run` | hands a message to another thread, which calls the session back, also when the work throws | a session that waits is called back |
| **Buffers and buffer pools** `IoBuffer.cpp`, `IoBufferManager.cpp`, `BufferManager.cpp` | bytes, positions, type, flags; free list | `Put*`, `Get*`, `size`, `GetFreeBuffer`, `TakeBack` | a buffer shared by queues; a recycled one still holds codec state | one holder at a time; the pool does not shrink |
| **Codecs** `MessageCodec.cpp`, `StringCodec.cpp` | the cache buffer of a partly read message | `Encode`, `Decode`, `Extract` | any cut of the stream; sign of short lengths | the messages extracted are those sent |
| **Session manager** `SessionManager.cpp` | map of sessions, next id, idle timer | `AddSession`, `RemoveSession`, `Broadcast`, `Clear`, `SetIdleTime` | callbacks under `m_sessionmutex`; joins of its own thread | a session is in the map from open to close |
| **Client** `Client.cpp` | service, thread, timer, `m_connecting` | `Connect`, `OnConnect`, `OnConnectTimeOut`, `Disconnect` | the timeout races the answer; handlers of an abandoned attempt | one outcome for each attempt; an attempt ends |
| **Server** `Server.cpp` | acceptor, threads, manager | `Listen`, `Start`, `Stop`, `OnAccept`, `Broadcast` | accepts while it stops; restarts | calls return; clients are accepted; nothing deleted is used |
| **IO services** `IoService.cpp`, `IoServiceManager.cpp` | one thread per service; index | `Start`, `Stop`, `GetService` | destroyed by one of its own threads | the threads end with the pool |
| **Shared data** `SharedData.cpp` | maps by number and by string | `Get*`, `Put*` | locked for the life of an object on the caller's stack | updates are kept |
| **Logging** `LogManager.cpp`, `Logger.cpp` | loggers by name, sinks, level | `Init`, `AddLogger`, `RemoveLogger`, `SetLogLevel` | a logger is found under a mutex and used outside it; the sinks of all loggers write to one stream, which each deletes | what is logged is written while all loggers are held |
| **Samples** `../sample/` | users of the chat, registry of providers, rounds of the load tests, JSON values | commands, handlers, `Serialize`, `Deserialize`, `main` | order of replies, ownership by shared pointers, how everything ends | see the properties |

How they interact. A server (or client) gives each connection a session on an IO service; the service
has one thread, which runs the completions `OnRead` and `OnWrite`. `OnRead` lets the codec cut the
stream into messages, queues them and calls `ProcessIncomingData`, which calls the handler. The
handler may make the message a task of the work pool and ask the session to wait for it; the worker
that ends the task calls `ProcessIncomingData(true)`, which takes the next message. Writes go the other
way: `Write` queues a message and starts an `async_write` when there is none, `OnWrite` hands the
message that was written to the handler and `ProcessOutgoingData` starts the next. Anybody may call
`Close`. Opened sessions are in the session manager until they close. Buffers come from one pool
that all sessions share and go back to it from wherever their last user is. The handler's work finds the
data of a session, or of all of them, in a `SharedData`.

## Modules

| Module | What it is | Code |
|---|---|---|
| `TaskPool` | what the pool promises: each task is new, refused, accepted, running, done or dropped, and moves on once | `WorkManager.h` |
| `WorkPool` | the dispatcher, the workers, the callers of `AddWorkTask`, one call of `Stop` or `Abort` | `WorkManager.cpp` |
| `WorkPoolRefinement` | how a state of `WorkPool` shows as one of `TaskPool` | |
| `Session` | one connection: IO thread, opener, workers, application threads | `ClientSession.cpp`, `MessageHandler.cpp`, `IoWork.cpp` |
| `SslSession` | what SSL changes in a session | `ClientSession.cpp`, `EnableSsl` of `Server.cpp`, `Client.cpp` |
| `RawWrite` | how bytes without a codec are cut into buffers | `ClientSession.cpp`, `IoBuffer.cpp` |
| `IoBuffer` | a buffer as a value | `IoBuffer.cpp` |
| `Framing` (extends `IoBuffer`) | codecs over a stream that is cut anywhere | `MessageCodec.cpp`, `StringCodec.cpp`, `ClientSession.cpp` |
| `Buffers` | who holds which buffer | `IoBufferManager.cpp`, and who uses it |
| `SessionManager` | the map, `Broadcast`, the idle thread | `SessionManager.cpp` |
| `Endpoint` (extends `SessionManager`) | what the two endpoints share | `Server.h`, `Client.h` |
| `Server`, `Client` (extend `Endpoint`) | the endpoints | `Server.cpp`, `Client.cpp` |
| `IoServices` | services and their pool | `IoService.cpp`, `IoServiceManager.cpp` |
| `Handling` | from a message to the data it changes | `MessageHandler.cpp`, `IoWork.cpp`, `WorkManager.cpp`, `SharedData.cpp`, `ClientSession.cpp` |
| `Logs` | loggers and who logs | `LogManager.cpp`, `Logger.cpp` |
| `Chat` | server and clients of the chat | `sample/chat`, `StringHandler.cpp`, `SessionManager.cpp` |
| `Clay` | the registry of providers and its requests | `sample/clay` |
| `JsonSample` | the rounds of the load tests | `sample/json`, `sample/jsonc10k` |
| `JsonText` | values to text and back | `sample/json/json.cpp`, `JsonMessageCodec.cpp`, `JsonMessageProcess.cpp` |
| `Lifetimes` | how the programs end: who refers to what | the `main.cpp` of the samples, and the destructors of the library |
| `MCWorkPool`, `MCSession`, `MCBuffers` | symmetry sets for TLC | |
| `MCEndpoints` | `Server` or `Client` (extends both), one at a time | |
| `MCServices` | `IoServices`, `SslSession` and `Framing` (the last two of which it extends), one at a time | |
| `MCPrograms` | `JsonSample`, `Chat`, `Clay`, `Logs`, `JsonText`, `Handling` and `Lifetimes` (all of which it extends), one at a time | |
| `WorkPoolProofs` | proofs about `WorkPool`, and that it implements `TaskPool` | |
| `SessionProofs` | proofs about `Session`: its writes and its end, then its reads | |
| `SslSessionProofs` | proofs about `SslSession` | |
| `BuffersProofs` | proofs about `Buffers` | |
| `FramingProofs` | proofs about `Framing`, and lemmas about the buffers of `IoBuffer` | |
| `ServerProofs`, `ClientProofs` | proofs about `Server`, and about `Client` and its part of `MCEndpoints` | |
| `ProgramsProofs` | proofs about `Handling`, `Clay`, `Logs`, `Chat`, `JsonSample` and `Lifetimes` | |

`MCEndpoints`, `MCServices` and `MCPrograms` choose in the initial state, by `which`, the one module whose steps the behaviour
takes; the variables of the others stay as they began. That shows nothing about several modules at once,
and does not mean to: it keeps the number of runs small.

### WorkPool

One step is one critical section or one unlocked access to shared state. `wpc[w]` is the place of worker
`w` in `Worker::Start`, `WaitForNewWork` and `DoWork`; `dpc` that of the dispatcher in `Dispatch` and
`WaitForWork`; `call[t]` that of the `AddWorkTask` of task `t`; `spc` that of the thread that stops the
pool. `wstate`, `wtasks`, `free`, `nworkers`, `workreq`, `tasks`, `state` are the members of the same
meaning. A mutex is not a variable where the place of its owner tells that it is held
(`DispatcherMutexFree`, `WorkerHoldsOwn`, `DispatcherHolds`). A wait is two steps, "before the wait" and
"asleep", and `SpuriousWake` wakes any sleeper, as Boost allows. `Abort` merges the store to a
worker's `m_state` with its `interrupt`. The constants `MinWorkers`, `MaxWorkers` are those of the constructor, which
makes `MinWorkers` workers whatever the maximum; `Warm` starts with all of them waiting, instead of with
threads that have not run yet. `PutWork` and `GetWork`, a map of named objects, are in `Handling`.

### Session

`pc[t]` is the place of thread `t`, `ret[t]` where a call of `Write` or `Close` that it makes from a
handler returns to. `owner` says who holds which mutex; one that is taken and released in one step is
only tested (`Free`). The socket is open or not; `reading` and `writing` are the asynchronous
operations under way, `live` when they were started on an open socket. A read delivers a batch of
messages (what the codec makes of the bytes of one read). `jobs` are the tasks of the session that the
pool has not started: the pool is the one `TaskPool` describes. Tasks of type 0 do not come back, type 1
come back to `ProcessIncomingData`, type 2 to `ProcessOutgoingData` (`IoWork.cpp:45-50`). The handler is chosen
by constants: `ReadKinds` is how it may treat a message, `HandlerCalls` what it calls meanwhile,
`OnError` closes (`MessageHandler.cpp:265-294`). `begun`, `accepted`, `started`, `finished` and
`disconnects` are history.

`SslSession` is a second view of the same code, with `ESN_WITH_SSL`: it leaves out the read queue and the orderly
handling, and adds the strand (`strand`, the handlers posted and not yet run; whoever runs one is the only one),
the handshake and the shutdown as operations of the stream, the three threads that may open, write and close, and
`EnableSsl` with files that are missing or bad.

`RawWrite` is the third `Write` of a session, of bytes that need no codec: it knows a buffer by where its piece of
the input begins and how long it is, and has the arithmetic of the code as the macro expands.

### Buffers and Framing

`Buffers` follows each buffer object from `GetFreeBuffer` on: `own` the buffers a session keeps, `readlist`
and `writelist` its queues, `hand` what a thread handles, `kept` what an application put into the data of the session.
`content` is what was put in last, so that a buffer that is recycled while somebody still reads it shows.
The code counts no holders; what it does wrong when one buffer is broadcast to all, echoed or kept
(`SessionManager.cpp:253`, `ClientSession.cpp:1329`) is modelled, and those buffers are put into the history
variable `shared`, which the properties exclude. `MaxShared` bounds them.

`Framing` computes on bytes: `round` and `cache` are `m_roundcache` and `m_readcache`, `step` says whether
the loop of `Extract` runs. `ByteBase` is the number of values of a byte; sizes are read as signed numbers of 1, 2 or 4 bytes, as
in the code (`GetByte`, `GetShort`, `GetInt` of `IoBuffer`). `faults` is history: what happened in a session that the protocol does
not survive, such as a body larger than a length can say, or a string that leaves its buffer no room for the NUL it is to
get. `stream` is history too, the bytes sent so far. `MessagesIntact` compares what was received with `Expected`, the messages in the
stream defined without the codec: those that were sent, or the pieces of its lines, as long as strings may be, each with one final NUL.

### SessionManager, Server, Client

`SessionManager` holds the map (`sessions`), the flags of the sessions, `Broadcast` session by session under
`m_sessionmutex`, `Close` in two steps (the flag, then `RemoveSession`), and the idle thread; `Server` and
`Client` extend it with who opens, accepts, connects. The thread of the program has a `pc` that
walks the calls of `Start`, `Stop`, `Connect` and `Disconnect` in their order; the listen thread and the thread of
the service have their own; the network connects, answers, refuses or keeps silent. Services are the
endpoint's own or shared with others (`shared`), which changes what `Stop` and `Disconnect` wait for. `leftover`,
`overtaken`, `unserved` name the sessions that the code leaves behind (below).

### Programs

`Handling` models the wiring of `MessageHandler` (no pool, one work, works by key), `IoWork::Run` with works that throw anywhere, and
`SharedData` as a lock that lives as long as the object. `Chat`, `Clay`, `JsonSample` translate the samples' handlers;
their sessions do what the properties of `Session` say. `JsonText` computes `Serialize` and `Deserialize` on
sequences of characters and is the one module with RECURSIVE operators. `Lifetimes` has the reference graph of each program
(`Refs`) and the order in which `main` releases its locals; the thread that drops the last reference destroys.
`Logs` has the loggers, who shares them, the sinks of the Boost.Log core, and whether `std::clog` is still there (`clog`).

## Properties and hazards

`PROJECT.json` lists the hazards of the code with the line where each bites and the properties that would
catch it. Where the code already goes wrong no property can, and the hazard has a note: the models have the steps that lead there, and
the properties, if any is named, cover the rest. By component:

- *Work pool.* `NoLostDispatch`: the dispatcher never sleeps on work that could be given out with nobody about to wake
  it. `EveryWorkerInOneHand`: a worker is in the free list once, or with the dispatcher, or on its way, never twice; the
  unlocked lists of a worker rest on it. `StoppedMeansEnded`: when `Stop` or `Abort` returns no thread is left.
  `ImplementsTaskPool`, `ImplementsFairTaskPool`: the pool is a `TaskPool`.
- *Session.* `SequentialWhileOpen`, `HandledInOrder`, `NoReadForgotten`: whichever thread takes the next message.
  `OneWriteAtATime`, `WritesKeepOrder`, `NoWriteForgotten`: `Write`, `OnWrite` and workers start writes, and yet one is
  under way at a time, the front of the queue. `DisconnectIsFinal`: once `OnDisconnect` was called and the closers are
  through, the session is closed, its socket is, and the manager has forgotten it. `EveryWriteEnds`,
  `EveryReadHandled`: of a session that stays open.
- *SSL.* `StreamUsedAlone`, `QueueMoves`, `HandshakeResolved`.
- *Codecs and buffers.* `MessagesIntact`, `NothingHeldBack`; `OneHolder`, `ContentIntact`, `BuffersComeBack`.
- *Endpoints.* `OpenIsRegistered`, `NothingUsedLate`, `ServerCallsReturn`, `ServerAccepts` of the server (the last two are
  `CallsReturn` and `ClientsAccepted` of `Server`); `ClientHasCurrentSession` (`OnlyCurrentSession` of `Client`),
  `OneOutcome`, `ConnectingEnds` of the client; `PoolEnds` of the services.
- *Handling.* `NobodyWaitsInVain`: a lane of messages that waits is called back, whatever the work throws, or the pool
  was stopped. `UpdatesKept`: no update of shared data is overwritten.
- *Programs.* `OneConversation` (chat), `NoDangling` (clay), `RepliesMatch`, `AllConnect` (load tests), `ReadRight` (JSON),
  `FatalIsWritten` (logs: as long as each logger made is held by the manager or by a thread that logs, `std::clog` is there and what
  such a thread logs is written, whoever removes the logger or changes the level), `EverythingEnds`, `NothingUsedAfterItsEnd` (how all of them end).

## Runs

| Run | Instance | Shows |
|---|---|---|
| `WorkPoolSafety` | 3 tasks, 1 worker at the start and 2 at most, cold; with at most 2 tasks `Stop` or `Abort` at any time | the invariants of the pool and its refinement of `TaskPool` |
| `WorkPoolFair` | 3 tasks, 1 worker that waits already | every task runs: refinement with fairness |
| `WorkPoolTaskLost` | 1 worker, cold | *violated*: a worker sleeps on a task, and loses the next |
| `SessionReads` | 3 messages, queue of 2, 2 workers, sync, concurrent and orderly; handlers and a thread close | order, sequence and counters of the read side, also while the session closes |
| `SessionWrites` | 2 writers, an opener and a closer, 1 worker, queue of 2, failures | the write side, and the end of the session |
| `SessionLive` | 2 messages, 1 writer, 1 worker, handlers that write | what is queued is handled or written |
| `SessionCloseDeadlock` | 1 message, 1 writer, a gentle `Close` | *violated*: the session stays open |
| `Buffers` | 2 sessions, 1 worker, 4 buffers, 2 messages, with and without a filter; handlers answer, broadcast, echo, keep | one holder, content, and a pool that does not shrink |
| `Endpoints` | a server: 4 sessions, 1 address, 2 starts, 2 events of the network or the idle timer; or a client: 2 attempts, 1 that fails at once, with and without a time limit; own and shared service | the four properties of the server, the three of the client |
| `RawWrite` | 3 calls of 0, 1 or 3 bytes, a queue of 2 | *violated*: the buffers are not the bytes |
| `Services` | a pool of 2 shared by 2 owners, 3 sessions; an SSL session with 2 writes; framing: 2 sessions of 2 messages, 6 message codecs and a string codec, reads of at most 3 bytes, memory that runs out once | the threads end; the stream, its queue and its handshake; the messages |
| `Programs` | `MCPrograms` and `Programs.cfg` give the bounds of each | the ten properties of `Handling` and the programs |

Why the bounds are enough.

- *Work pool.* Three tasks over two workers let a task be queued while one worker is busy and the other is being made or
  on its way back. `ShutDownBound` looks at `Stop` and `Abort` with fewer tasks; two are enough for a worker to be
  made while they count.
- *Session.* Two messages are needed for "while the first is handled, the next arrives", three for a worker and the IO
  thread to compete for what is left; two workers, so that the worker of a concurrent message and that of an
  orderly one overlap; three writes over a queue of two. A writer calls `Write` once and a closer `Close` once.
- *Framing.* A byte has three bits, so that a one-byte length turns negative at a body of 4 as it does at 128 in the code;
  buffers hold 7 bytes, so that a body of 4 with a header of 3 fills one and a longer one does not fit. Reads of up to 3 bytes cut
  headers, bodies and separators everywhere, and join the end of one message to the start of the next. Two
  sessions one after the other show what the cache keeps. Message codecs: length first, after a tag, of two
  bytes, limits below and above what the field can hold, no header, a length outside of the header, and defaults.
- *Buffers.* Four buffers are one for each place of a session's message, with one in the pool at first, so that it is empty
  and filled again; `MaxShared` lets one be misused while the others must stay sound. The read queue of 1 overflows.
- *Server, Client.* A session of before a restart, one that is being accepted, one that is open and one that the
  next accept waits with; two attempts, so that handlers of the first run beside the second.
- *Services.* Two services, so that each owner may be destroyed by a thread of the pool while the other still runs.
- *Programs.* Two clients, sessions, workers, threads each, enough for one to come between the steps of another; two
  rounds, so that a late reply may be taken for that of the next round; batches of one client, so that `AllConnect` needs the
  chain of `OnConnect`; providers that share a code, that share a name, and with one key only; JSON values four deep
  with brackets, quotes, blanks, commas and NUL in strings.

Symmetry is over tasks, threads of one role, or buffers and sessions, and only in runs without liveness. Deadlock
checking is off because a pool without work, a connection with a silent peer and a program that has done what
the bounds allow do stop.

Fairness. Nothing makes the peer send, the network answer or the application call.

- *Work pool, Session.* Threads that can go on do (`WF` of each thread's steps); an `async_write` ends; a pending read
  fails once its socket is closed; the pool starts its tasks. Weak fairness is enough for a mutex since an
  execution is finite, so that a mutex that is wanted is eventually free for good unless its owner is stuck,
  which is what `SessionCloseDeadlock` shows.
- *Server.* Weak for the program's call, the service's and the idle thread and the system that accepts who waits; strong for the listen
  thread, which competes with `Broadcast` for `m_sessionmutex` that is free again and again.
- *Client.* The threads run and timers expire; the network may keep silent, which is what the time limit is for.
- *IoServices.* The threads of the services run, handlers return, whoever waits for a thread to end goes on.
- *SslSession.* Threads run, and what was aborted completes; the peer may keep silent in the handshake and the shutdown.
- *JsonSample.* A client goes on with what it has begun, and the network delivers.

## What the models show of the code

Three runs are kept as violations:

1. **A task given to a new worker is lost** (`WorkPoolTaskLost`). The dispatcher gives a task to a worker
   whose thread has not reached `WaitForNewWork` yet; that function sets `m_state = 1` (`WorkManager.cpp:269`)
   and waits, task in hand. The next task wakes it, but `DoWork` runs the front one and clears both
   (245-251). `WorkPoolFair` shows that a pool whose workers wait is free of it.
2. **A gentle `Close` may deadlock** (`SessionCloseDeadlock`): `m_readmutex` then `m_writemutex` at
   `ClientSession.cpp:1029-1036`, the other way round at 690-697 and 352-353.
3. **A `Write` of raw bytes queues too much** (`RawWrite`). `ESN_MAX_IOBUF_SIZE` is `1024 * 1024 * 256` without
   parentheses (`IoBuffer.h:41`), so that `n / ESN_MAX_IOBUF_SIZE` and `n % ESN_MAX_IOBUF_SIZE` (`ClientSession.cpp:828-829`)
   are `n / 1024` and `n % 1024`, times 262144: one byte becomes a buffer of 262144 bytes. The samples
   do not call it.

Others are in the models as steps, and the properties are stated around them:

- *Work pool.* `Stop` and `Abort` change the state and notify without the mutex of the thread they wait for
  (`WorkManager.cpp:294`), which may be about to wait; `Abort` misses a worker made after it counted them (562).
- *Session.* After a sync message the loop ends without the test that would close a gently closing session (1045, against
  1031-1038). Two closers may both call `OnDisconnect` (363-365). `Open` registers at 305 and sets `m_state = 1` at 307, over a
  `Close` in between. Two threads that call `Write` may both take the last place of the queue (752-775). `Close`
  forgets the task that is under way (386), hence `SequentialWhileOpen`.
- *Buffers.* One that is broadcast as such, echoed or kept is given back by the first to end, while others
  use it. `m_readcache` brings the state of its last use into the next session (`IoBufferManager.cpp:99`): a session that
  ends within a message starts the next one there. Lengths of one and two bytes are signed (`MessageCodec.cpp:163`).
- *Server.* A session that `OnAccept` registers after `Stop` has cleared the map, and one in the hand of the idle
  thread, are used when their io_service is deleted (`leftover`); on a shared service sessions use the manager after its end
  (`late`). A handler that closes a session within `Broadcast` waits for the mutex that its thread holds (`stuck`).
- *Client.* On a shared service handlers of an abandoned attempt run on: its `OnConnect` may open a session beside the next, and
  both threads may delete the timer (`freedTwice`).
- *SSL.* The destructor of a session calls `shared_from_this` (`ClientSession.cpp:128`), which throws.
- *Programs.* The clients of `jsonc10k` and their handler refer to one another and are never destroyed. A work pool that is
  destroyed by a worker joins itself. `Serialize` escapes nothing, so that quotes, slashes and NUL in strings do not come
  back. The names of chat users whose connection is lost stay in use. `Clear` of clay's registry drops equal neighbours only
  (`list::unique`, `../sample/clay/clay.cpp:514`), so that a provider known by code and by name, with another between the two in the list, is
  deleted twice; the model ends there (`Sound`).
- *Logging.* The backend of each logger gets `std::clog` as a shared pointer with the default deleter (`Logger.cpp:177`). The first logger
  that is destroyed, by `RemoveLogger`, by `Clear`, or by the thread that lets go of it last, deletes the stream under the sinks of all
  others, which usually ends the program. From there on `Written` is empty (`clog`), and `FatalIsWritten` promises nothing.

## Proofs

TLAPS proves the following for every value of the constants, under assumptions that the modules name and that TLC
evaluates in every run: `PoolAssumption`, `SessionAssumption`, `BuffersAssumption`, `SslAssumption`,
`SessionManagerAssumption`, `EndpointAssumption`, `ServerAssumption`, `ClientAssumption`, `HandlingAssumption`,
`ClayAssumption`, `LogsAssumption`, `ChatAssumption`, `JsonAssumption`, `LifeAssumption`, `FramingAssumption`. They say that bounds are natural numbers,
that sets are finite where they are counted, and that names of different things differ. Five say more:
`PoolAssumption` that the constructor makes a worker at least; `ServerAssumption` that there are more sessions than events may
use up, since the code makes a new one for each accept; `ClientAssumption` that there is a session for each attempt, for the
same reason; `JsonAssumption` that a round of `jsonc10k`, and one that a user types, is one request
(`../sample/jsonc10k/ClientBusiness.cpp:20`); `FramingAssumption` that a byte has an even number of values, half of them negative,
that separators and strings are made of such values, and that codecs are constructed from integers, whichever they are.

| Property | Theorem | Inductive invariant |
|---|---|---|
| `NoLostDispatch` | `PoolNoLostDispatch` | `TypeOK`, `RequestsCoverWork`, `ThreadsMade` |
| `StoppedMeansEnded` | `PoolStoppedMeansEnded` | `StopProgress` |
| `EveryWorkerInOneHand` | `PoolEveryWorkerInOneHand` | `HandInv` |
| `ImplementsTaskPool` | `PoolImplementsTaskPool` | `TaskInv` |
| `OneWriteAtATime`, `WritesKeepOrder` | `SessionOneWriteAtATime`, `SessionWritesKeepOrder` | `SessionInv`, `QueueOrder` |
| `DisconnectIsFinal` | `SessionDisconnectIsFinal` | `Ending` |
| `NoWriteForgotten` | `SessionNoWriteForgotten` | `OutInv` |
| `NoReadForgotten`, `SequentialWhileOpen` | `SessionNoReadForgotten`, `SessionSequentialWhileOpen` | `ReadInv` |
| `HandledInOrder` | `SessionHandledInOrder` | `ArrivalOrder` |
| `MessagesIntact`, `NothingHeldBack` | `FramingMessagesIntact`, `FramingNothingHeldBack` | `FramingInv` |
| `OneHolder`, `ContentIntact`, `BuffersComeBack` | `BuffersOneHolder`, `BuffersContentIntact`, `BuffersComeBackProved` | `OneEach` |
| `StreamUsedAlone`, `QueueMoves` | `SslStreamUsedAlone`, `SslQueueMoves` | `UsedAlone`, `Queue` |
| `OpenIsRegistered`, `NothingUsedLate` | `ServerOpenIsRegistered`, `ServerNothingUsedLate` | `Registry`, `Counting`, `Accepting`; `Stopping`, `Ending` |
| `OneOutcome` | `ClientOneOutcome` | `OwnInv` |
| `ClientHasCurrentSession` | `ClientOnlyCurrentSession`, `EndpointsClientHasCurrentSession` | `CurrentInv` |
| `UpdatesKept`, `NobodyWaitsInVain` | `HandlingUpdatesKept`, `HandlingNobodyWaitsInVain` | the lock of the data; who has a lane's message |
| `NoDangling` | `ClayNoDangling` | `ClayInv` |
| `FatalIsWritten` | `LogsFatalIsWritten` | `LogsInv` |
| `OneConversation` | `ChatOneConversation` | `ChatInv` |
| `RepliesMatch` | `JsonRepliesMatch` | `JsonInv` |
| `NothingUsedAfterItsEnd`, `EverythingEnds` | `LifeNothingUsedAfterItsEnd`, `LifeEverythingEnds` | `LifeInv` |

`ClientHasCurrentSession` is `OnlyCurrentSession` for the behaviours of `MCEndpoints` that are a client's: the second theorem follows
from the invariant of the first, since the other behaviours leave the client as it was made.
Type correctness is a theorem of each of these modules but `Clay`, `Logs`, `Chat`, `JsonSample`, `Lifetimes` and `Framing`, where it is a part of the
invariant; `PoolRequestsCoverWork`, `PoolStopProgress` and `SessionReadQueueBounded` state facts that no run repeats.

The arguments, by module.

`WorkPoolProofs`.

- *No lost dispatch.* An invariant that looks at the sleeping dispatcher alone is not inductive, since nothing in it tells how many
  signals are on their way. The argument counts: `Requests` are what `m_workreq` holds and what callers and workers are about to
  add; a step that queues a task or returns a worker owes one request before it makes it, and the dispatcher spends one per
  task that it hands out. `ThreadsMade` adds that a worker not made yet has no thread.
- *One hand.* A worker's place in the code says in which hand it is: in the free list, with the dispatcher, with a task, or
  about to be taken back. Each step passes one worker from one hand to the next, and the list has it once.
- *Stop.* `StopProgress` says what has ended when `Stop` is where it is: the dispatcher before it waits for a worker, each worker
  that it has passed.
- *Refinement.* Every step is a step of `TaskPool` for one task or leaves all of them as they are. `TaskInv` says
  that a task is in one place, of the queue, the dispatcher's hand or a worker's list, and why a worker that drops a task
  (the first violation above) never runs it later.

`SessionProofs`.

- *Writes.* The turn to write goes round: an `async_write` is under way (`PhaseWriting`), the pool has the task of what was
  written (`PhaseJob`), a thread is in `ProcessOutgoingData`, or closes first because the write failed (`PhaseTurn`), or
  nobody has it (`PhaseIdle`). `OneWriteAtATime` alone is not inductive: nothing in it says that two
  threads cannot both be about to pop. Types and turn need each other: `OnWrite` takes the front of `m_writelist`, which the
  turn says is not empty. Most steps move a thread without taking a turn (`QuietMove`), and one lemma treats them all.
  `QueueOrder` lines up the queue, the messages accepted and those started.
- *Nothing forgotten.* Before `Open` nothing moves. From there on a queue with messages has its turn with somebody,
  and the number of asynchronous events that the session counts is that of the operations and tasks it waits for.
- *Reads.* A thread in the loop has `m_processreadmutex` or is the thread of the service, so that one loops at a time; a
  worker with an orderly message keeps the loop closed until it comes back. Messages begun, the one in hand and
  those queued are then in the order of arrival (`ArrivalOrder`).
- *The end.* Whoever calls `OnDisconnect` has shut the socket, and goes on itself to set `m_state` and to leave the manager.

`BuffersProofs` follows one buffer. `Holds` lists the places it may be in; the invariant is that it is in one of them at most,
and once. A step leaves it, drops it, or moves it from the place it was in to another. A content is
written by the holder alone.

`FramingProofs`, for any number of messages of any sizes, any cuts of the stream and any arguments of the codecs.

- *The invariant.* `Settled` holds in every state, since the next session inherits the codec and its cache. As long as nothing
  happened that framing does not survive, the stream is what was read, what waits in the session and what is on its way
  (`InTransit`): a read takes bytes from one to the next, and so does the codec's loop.
- *Messages.* There are offsets at which the messages sent lie in the stream (`Laid`). Those received are the first of them, and
  the codec reads at the offset of the next one, or after its header when it has cached that (`NextIsRead`). So the number
  it finds is the one that the sender put there: that `GetInt` reads what `PutInt` wrote, for 1, 2 and 4 bytes and any
  `ByteBase`, is what bodies less than half of what a field can say need. `Drained` adds that the loop ends
  only when the next message is not complete.
- *Strings.* What was read is what was delivered and a piece in the cache (`PieceIsCached`): a line that begins after a byte `l`, of which
  `m` strings of the greatest length were cut, up to `b`. No string ends within the piece, and one ends with it when it is as long as
  may be or a separator follows (`PieceEnds`). Hence the strings delivered are as many as there are ends up to `b`, in their
  order (`GotStrings`), though `Expected` is defined position by position and not by cutting. What is sent later moves no end
  (`EndsStay`), since what was sent ends with a separator.

No recursion and no induction over data is needed: messages and ends are counted by what the invariant says of their positions, one more with
each step.

`SslSessionProofs`. Only who runs the strand is in a call of the stream, and it makes one at a time. `QueueMoves` counts the
buffers under way on the strand, in the stream and with the threads: one while the queue of an open session has any.

`ServerProofs`. `Registry` says that ids are given once, so that a map of ids is a map of sessions. Each session numbered, or about to be, has
a client of its own (`Counting`); there are fewer clients than sessions, hence a fresh one for each accept (a pigeonhole
argument), and `Accepting` says that it is not open before it is registered. `Stopping` follows `Stop` call by call: what has ended, and who may
have a session in hand.

`ClientProofs`. On its own service the thread ends with `Disconnect`: `Threaded` says that handlers run on it alone,
`Cancelling` that the timer they found is still there, `OfTheLast` that they are of the last attempt, `Outcome` that it opens
without its timer, or not at all. On a shared service handlers outlive the attempt: `CurrentInv` says that whoever is registered, or may
still be, is of an overtaken attempt or of the last.

`ProgramsProofs`.

- *Handling.* Whoever is between `Get` and `Put` holds the lock, and what it got are the data. A lane that waits has its message
  queued or with a worker; a worker keeps it until it has called back, whatever the work throws.
- *Clay.* A map knows a provider under its own keys, so that the look at the other map before a deletion is enough.
- *Logs.* Whoever has a logger, even one that the manager has let go, has one whose sinks the core has (`SinksKept`); and the stream is there
  while every logger made has its sinks (`StreamKept`), hence while every one is held.
- *Chat.* On their way to a client are the last lines said, and the one before them is the one it printed.
- *JsonSample.* The pieces of a round are all on their way, or none: put together, with the client's worker, to the client, with
  the server's, to the server, unsent, in this order. Each operation takes the first piece of one place and appends it to the
  next (`Way` and its lemmas), so that the replies are the requests when they are as many. Where order is not
  asked for a round has one piece.
- *Lifetimes.* `Fits` and `Ranked` say what the reference graphs of the nine programs have in common, one lemma for each; the
  rest is proved of any program that fits. What is being destroyed is exactly what nothing refers to (`DyingIsUnreferred`), since
  a step adds references only to what is referred to already or was just made. So whoever a root refers to is alive, and so is what an
  endpoint and its services need while they serve (`Bonds`). The two hard places are the end of an io_service, whose sessions
  are all in hand or dying with it (`ServiceLast`), and a worker that outlives `Stop` (`StoppedFirst`): main stops the
  endpoint before it releases it, unless no session is open. At the end what is alive has a referrer that is alive, and
  references go down a rank, so nothing is -- but for the cycle of `jsonc10k`.

Only model-checked:

- What recursion computes on data of any length: `ReadRight` (`JsonText`). It needs induction over the values, by
  an operator that the installed provers cannot instantiate.
- Everything under fairness: `ImplementsFairTaskPool`, `EveryWriteEnds`, `EveryReadHandled`, `ServerCallsReturn`, `ServerAccepts`,
  `ConnectingEnds`, `PoolEnds`, `HandshakeResolved`, `AllConnect`.

## Not modelled

- *Library.* Getters, lookups, addresses and thread options. Settings of a session (its handler, filter and sizes of queues)
  changed while messages are handled: the code reads them without a lock, and the samples set them
  before they start, or in `OnConnect`.
  The reallocation of a buffer. `IoService::Abort`, which only the destructor of a service calls (`IoService.cpp:83`) and which does nothing
  after `Stop`: the destructor of the pool has stopped every service (`IoServiceManager.cpp:96-99`). A service that is destroyed while it runs, because
  the application made it without a pool or started it again after the pool was gone, is not modelled. Floats, doubles and zero-terminated strings in an `IoBuffer`. The removal of entries of a `SharedData`. The text, files
  and rotation of logs. `include/` has copies of headers.
- *Samples.* The containers, comparisons and conversions of `json.h`; `jsonc10k/json.cpp`, a second copy of
  `json/json.cpp`; a connect of `jsonc10k` that fails; reports, counters and menus; the agents of clay outside this repository.
- *Compositions.* A session over the real pool instead of the tasks that `TaskPool` promises, and a server with sessions of
  `Session`: both are beyond TLC at sizes where something happens, and the interfaces are the
  properties above (`ImplementsTaskPool`, `NobodyWaitsInVain`, `DisconnectIsFinal`).
