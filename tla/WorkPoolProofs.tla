--------------------------- MODULE WorkPoolProofs ---------------------------
(* The thread pool, for any tasks and any pool size: its invariants, and   *)
(* that it implements the abstract TaskPool, whatever it is given.         *)
EXTENDS WorkPoolRefinement, FiniteSetTheorems, TLAPS

(* The constructor makes at least one worker, and room for all it may make. *)
LEMMA WorkerLimitType ==
  /\ WorkerLimit \in Nat \ {0}
  /\ MinWorkers \in 1 .. WorkerLimit
  /\ MaxWorkers \in 1 .. WorkerLimit
  /\ Worker = 1 .. WorkerLimit
  /\ NoWorker \notin Worker
BY PoolAssumption DEF WorkerLimit, Worker, NoWorker

-----------------------------------------------------------------------------
(* Type correctness. *)

(* The constructor leaves every variable in its type. *)
LEMMA TypeInit == Init => TypeOK
<1> SUFFICES ASSUME Init PROVE TypeOK
  OBVIOUS
<1> USE WorkerLimitType, PoolAssumption DEF Init
<1>1. free \in Seq(Worker)
  <2>1. \A i \in 1 .. MinWorkers : i \in Worker
    OBVIOUS
  <2> QED BY <2>1
<1>2. wpc \in [Worker -> WorkerPC]
  BY DEF WorkerPC
<1>3. wtasks \in [Worker -> Seq(Task)]
  <2>1. <<>> \in Seq(Task)
    OBVIOUS
  <2> QED BY <2>1
<1>4. call \in [Task -> CallPC] /\ runs \in [Task -> Nat] /\ wstate \in [Worker -> {-1, 0, 1, 2}]
  BY DEF CallPC
<1>5. tasks \in Seq(Task)
  OBVIOUS
<1>6. /\ state \in {-1, 0, 1} /\ workreq \in Nat /\ nworkers \in 1 .. WorkerLimit
      /\ dpc \in DispatcherPC /\ dpc \notin {"go", "wake"} /\ dworker = NoWorker
      /\ spc \in StopPC /\ spc \notin {"wnotify", "wjoin"} /\ sindex \in Nat \ {0}
      /\ slimit \in 0 .. WorkerLimit /\ interrupted = {}
  BY DEF DispatcherPC, StopPC
<1> HIDE DEF Init
<1> QED
  BY <1>1, <1>2, <1>3, <1>4, <1>5, <1>6 DEF TypeOK

(* Every step of every thread keeps it there. *)
LEMMA TypeNext == TypeOK /\ [Next]_vars => TypeOK'
<1> SUFFICES ASSUME TypeOK, [Next]_vars PROVE TypeOK'
  OBVIOUS
<1> USE WorkerLimitType DEF TypeOK
<1>1. ASSUME NEW t \in Task, AddWorkTask(t) PROVE TypeOK'
  <2> USE DEF queueVars, workerVars, stopVars, CallPC
  <2>1. CASE AddCheck(t)
    BY <2>1 DEF AddCheck
  <2>2. CASE AddPush(t)
    BY <2>2 DEF AddPush
  <2>3. CASE AddSignal(t)
    BY <2>3 DEF AddSignal, RequestDispatch, DispatcherAfterNotify, DispatcherPC
  <2> QED
    BY <1>1, <2>1, <2>2, <2>3 DEF AddWorkTask
<1>2. ASSUME Dispatch PROVE TypeOK'
  <2> USE DEF dispatchUnchanged, queueVars, workerVars, stopVars, DispatcherPC
  <2>1. CASE DispatchLoop
    BY <2>1 DEF DispatchLoop
  <2>2. CASE DispatchCheck
    BY <2>2 DEF DispatchCheck
  <2>3. CASE DispatchSleep
    BY <2>3 DEF DispatchSleep
  <2>4. CASE DispatchTest
    BY <2>4 DEF DispatchTest, NoWorker
  <2>5. CASE TakeFree
    <3>1. Head(free) \in Worker /\ Tail(free) \in Seq(Worker)
      BY <2>5 DEF TakeFree
    <3>2. Head(tasks) \in Task /\ Tail(tasks) \in Seq(Task)
      BY <2>5 DEF TakeFree
    <3>3. PICK w \in Worker : w = Head(free) /\ HandOver(w)
      BY <2>5, <3>1 DEF TakeFree
    <3>4. /\ dworker' \in Worker /\ dpc' = "go"
          /\ wtasks' \in [Worker -> Seq(Task)] /\ tasks' \in Seq(Task)
      <4>1. Append(wtasks[w], Head(tasks)) \in Seq(Task)
        BY <3>2
      <4> QED BY <3>2, <3>3, <4>1 DEF HandOver
    <3> QED BY <2>5, <3>1, <3>4 DEF TakeFree
  <2>6. CASE TakeNew
    <3>1. nworkers + 1 \in Worker
      BY <2>6, PoolAssumption DEF TakeNew
    <3>2. Head(tasks) \in Task /\ Tail(tasks) \in Seq(Task)
      BY <2>6 DEF TakeNew
    <3> QED BY <2>6, <3>1, <3>2 DEF TakeNew, HandOver, WorkerPC
  <2>7. CASE TakeNothing
    BY <2>7 DEF TakeNothing
  <2>8. CASE GoToWorkLock
    BY <2>8 DEF GoToWorkLock, NoWorker
  <2>9. CASE GoToWorkNotify
    BY <2>9 DEF GoToWorkNotify, WorkerAfterNotify, WorkerPC, NoWorker
  <2> QED
    BY <1>2, <2>1, <2>2, <2>3, <2>4, <2>5, <2>6, <2>7, <2>8, <2>9 DEF Dispatch
<1>3. ASSUME NEW w \in Worker, WorkerStep(w) PROVE TypeOK'
  <2> USE DEF workerUnchanged, stopVars, WorkerMoves, WorkerPC
  <2>1. CASE WorkerLoop(w)
    BY <2>1 DEF WorkerLoop
  <2>2. CASE WaitEnter(w)
    BY <2>2 DEF WaitEnter
  <2>3. CASE WaitRead(w)
    BY <2>3 DEF WaitRead
  <2>4. CASE WaitReset(w)
    BY <2>4 DEF WaitReset
  <2>5. CASE TakeBackPush(w)
    BY <2>5 DEF TakeBackPush
  <2>6. CASE TakeBackSignal(w)
    BY <2>6 DEF TakeBackSignal, RequestDispatch, DispatcherAfterNotify, DispatcherPC
  <2>7. CASE WaitCheck(w)
    BY <2>7 DEF WaitCheck
  <2>8. CASE WaitSleep(w)
    BY <2>8 DEF WaitSleep
  <2>9. CASE DoWorkRun(w)
    <3>1. Head(wtasks[w]) \in Task
      BY <2>9 DEF DoWorkRun
    <3>2. runs' \in [Task -> Nat]
      BY <2>9, <3>1 DEF DoWorkRun
    <3>3. wpc' \in [Worker -> WorkerPC]
      BY <2>9 DEF DoWorkRun
    <3>4. dworker' = dworker /\ dpc' = dpc /\ spc' = spc /\ sindex' = sindex
      BY <2>9 DEF DoWorkRun
    <3> QED BY <2>9, <3>2, <3>3, <3>4 DEF DoWorkRun
  <2>10. CASE DoWorkNothing(w)
    BY <2>10 DEF DoWorkNothing
  <2>11. CASE DoWorkDone(w)
    BY <2>11 DEF DoWorkDone
  <2> QED
    BY <1>3, <2>1, <2>2, <2>3, <2>4, <2>5, <2>6, <2>7, <2>8, <2>9, <2>10, <2>11 DEF WorkerStep
<1>4. CASE Stop
  <2> USE DEF stopUnchanged, StopMoves, StopPC
  <2>1. CASE StopBegin
    BY <2>1 DEF StopBegin
  <2>2. CASE StopRequest
    BY <2>2 DEF StopRequest
  <2>3. CASE StopNotify
    BY <2>3 DEF StopNotify, DispatcherAfterNotify, DispatcherPC
  <2>4. CASE StopJoin
    BY <2>4 DEF StopJoin
  <2>5. CASE StopWorkerFlag
    BY <2>5 DEF StopWorkerFlag
  <2>6. CASE StopWorkerNotify
    BY <2>6 DEF StopWorkerNotify, WorkerAfterNotify, WorkerPC
  <2>7. CASE StopWorkerJoin
    BY <2>7 DEF StopWorkerJoin
  <2>8. CASE StopEnd
    BY <2>8 DEF StopEnd
  <2> QED
    BY <1>4, <2>1, <2>2, <2>3, <2>4, <2>5, <2>6, <2>7, <2>8 DEF Stop
<1>5. CASE Abort
  <2> USE DEF abortUnchanged, StopMoves, StopPC, Dispatcher
  <2>1. CASE AbortBegin
    BY <2>1 DEF AbortBegin
  <2>2. CASE AbortInterrupt
    BY <2>2 DEF AbortInterrupt
  <2>3. CASE AbortWorker
    BY <2>3 DEF AbortWorker
  <2>4. CASE AbortEnd
    BY <2>4 DEF AbortEnd
  <2> QED
    BY <1>5, <2>1, <2>2, <2>3, <2>4 DEF Abort
<1>6. CASE SpuriousWake
  BY <1>6 DEF SpuriousWake, dispatchUnchanged, queueVars, workerVars, stopVars,
    workerUnchanged, WorkerMoves, WorkerPC, DispatcherPC
<1>7. CASE UNCHANGED vars
  BY <1>7 DEF vars, queueVars, workerVars, stopVars
<1> QED
  BY <1>1, <1>2, <1>3, <1>4, <1>5, <1>6, <1>7 DEF Next

(* Every variable keeps its type: in particular the dispatcher only ever    *)
(* signals a worker that exists, and the number of workers never exceeds    *)
(* the larger of the two limits given to the constructor.                   *)
THEOREM PoolTypeOK == Spec => []TypeOK
BY TypeInit, TypeNext, PTL DEF Spec

-----------------------------------------------------------------------------
(* A worker that was not made yet has no thread. *)

ThreadsMade == \A w \in Worker : w > nworkers => wpc[w] = "unborn"

(* The constructor starts the threads of the workers it makes, no others. *)
LEMMA ThreadsInit == Init => ThreadsMade
BY DEF Init, ThreadsMade

(* Dispatch makes a worker and its thread at once. *)
LEMMA ThreadsNext == TypeOK /\ ThreadsMade /\ [Next]_vars => ThreadsMade'
<1> SUFFICES ASSUME TypeOK, ThreadsMade, [Next]_vars, NEW v \in Worker, v > nworkers'
             PROVE  wpc'[v] = "unborn"
  BY DEF ThreadsMade
<1>t. wpc \in [Worker -> WorkerPC] /\ nworkers \in Nat /\ v \in Nat
  BY WorkerLimitType DEF TypeOK
<1>u. v > nworkers => wpc[v] = "unborn"
  BY DEF ThreadsMade
<1>1. ASSUME NEW w \in Worker, NEW from, NEW to, from # "unborn",
             WorkerMoves(w, from, to), nworkers' = nworkers
      PROVE  wpc'[v] = "unborn"
  BY <1>t, <1>u, <1>1 DEF WorkerMoves
<1>2. ASSUME NEW w \in Worker, nworkers' = nworkers,
             wpc' = [wpc EXCEPT ![w] = WorkerAfterNotify(w)]
      PROVE  wpc'[v] = "unborn"
  BY <1>t, <1>u, <1>2 DEF WorkerAfterNotify
<1>3. CASE UNCHANGED <<wpc, nworkers>>
  BY <1>3, <1>u
<1>4. ASSUME NEW t \in Task, AddWorkTask(t) PROVE wpc'[v] = "unborn"
  BY <1>3, <1>4 DEF AddWorkTask, AddCheck, AddPush, AddSignal, queueVars, workerVars
<1>5. CASE Dispatch
  <2>1. CASE TakeNew
    BY <1>t, <1>u, <2>1 DEF TakeNew
  <2>2. CASE GoToWorkNotify
    <3>1. dworker \in Worker
      BY <2>2 DEF GoToWorkNotify, TypeOK
    <3> QED BY <1>2, <2>2, <3>1 DEF GoToWorkNotify, queueVars
  <2> QED
    BY <1>3, <1>5, <2>1, <2>2 DEF Dispatch, DispatchLoop, DispatchCheck, DispatchSleep,
      DispatchTest, TakeFree, TakeNothing, GoToWorkLock, queueVars, workerVars
<1>6. ASSUME NEW w \in Worker, WorkerStep(w) PROVE wpc'[v] = "unborn"
  BY <1>1, <1>6 DEF WorkerStep, WorkerLoop, WaitEnter, WaitRead, WaitReset, TakeBackPush,
    TakeBackSignal, WaitCheck, WaitSleep, DoWorkRun, DoWorkNothing, DoWorkDone,
    workerUnchanged
<1>7. CASE Stop
  <2>1. CASE StopWorkerNotify
    <3>1. sindex \in Worker
      BY <2>1 DEF StopWorkerNotify, StopMoves, TypeOK
    <3> QED BY <1>2, <2>1, <3>1 DEF StopWorkerNotify, stopUnchanged
  <2> QED
    BY <1>3, <1>7, <2>1 DEF Stop, StopBegin, StopRequest, StopNotify, StopJoin,
      StopWorkerFlag, StopWorkerJoin, StopEnd, stopUnchanged
<1>8. CASE Abort
  BY <1>3, <1>8 DEF Abort, AbortBegin, AbortInterrupt, AbortWorker, AbortEnd, abortUnchanged
<1>9. CASE SpuriousWake
  BY <1>1, <1>3, <1>9 DEF SpuriousWake, workerUnchanged, queueVars, workerVars
<1>10. CASE UNCHANGED vars
  BY <1>3, <1>10 DEF vars, queueVars, workerVars
<1> QED
  BY <1>4, <1>5, <1>6, <1>7, <1>8, <1>9, <1>10 DEF Next

-----------------------------------------------------------------------------
(* No dispatch is lost. *)

(* What is signalling can be counted: the calls and the workers are finite. *)
LEMMA FiniteParts ==
  /\ \A S \in SUBSET Task : IsFiniteSet(S) /\ Cardinality(S) \in Nat
  /\ \A S \in SUBSET Worker : IsFiniteSet(S) /\ Cardinality(S) \in Nat
<1>1. IsFiniteSet(Task) /\ IsFiniteSet(Worker)
  BY FS_Interval, WorkerLimitType, PoolAssumption
<1>2. \A S \in SUBSET Task : IsFiniteSet(S)
  BY <1>1, FS_Subset
<1>3. \A S \in SUBSET Worker : IsFiniteSet(S)
  BY <1>1, FS_Subset
<1> QED
  BY <1>2, <1>3, FS_CardinalityType

(* Signalling calls are calls of AddWorkTask, signalling workers are workers. *)
LEMMA Signallers ==
  /\ SignallingCalls \in SUBSET Task /\ SignallingWorkers \in SUBSET Worker
  /\ SignallingCalls' \in SUBSET Task /\ SignallingWorkers' \in SUBSET Worker
BY DEF SignallingCalls, SignallingWorkers

(* The counts of RequestsCoverWork are natural numbers ... *)
LEMMA CountTypes == TypeOK => Requests \in Nat /\ Room \in Nat /\ Len(tasks) \in Nat
<1> SUFFICES ASSUME TypeOK PROVE Requests \in Nat /\ Room \in Nat /\ Len(tasks) \in Nat
  OBVIOUS
<1>1. Cardinality(SignallingCalls) \in Nat /\ Cardinality(SignallingWorkers) \in Nat
  BY FiniteParts, Signallers
<1>2. workreq \in Nat /\ nworkers \in Nat /\ MaxWorkers \in Nat
  BY PoolAssumption, WorkerLimitType DEF TypeOK
<1>3. Len(free) \in Nat /\ Len(tasks) \in Nat
  BY DEF TypeOK
<1>4. Requests \in Nat
  BY <1>1, <1>2 DEF Requests
<1>5. Room \in Nat
  BY <1>2, <1>3 DEF Room
<1> QED
  BY <1>3, <1>4, <1>5

(* ... after a step too. *)
LEMMA CountTypesNext == TypeOK' => Requests' \in Nat /\ Room' \in Nat /\ Len(tasks') \in Nat
<1>1. (TypeOK => Requests \in Nat /\ Room \in Nat /\ Len(tasks) \in Nat)'
  BY CountTypes, PTL
<1> QED
  BY <1>1

(* Calls that leave "signal" alone do not change who is signalling ... *)
LEMMA SameCalls ==
  ASSUME TypeOK, NEW t \in Task, NEW pc,
         call' = [call EXCEPT ![t] = pc], call[t] # "signal", pc # "signal"
  PROVE  SignallingCalls' = SignallingCalls
BY DEF SignallingCalls, TypeOK

(* ... nor do workers. *)
LEMMA SameWorkers ==
  ASSUME TypeOK, NEW w \in Worker, NEW pc,
         wpc' = [wpc EXCEPT ![w] = pc], wpc[w] # "signal", pc # "signal"
  PROVE  SignallingWorkers' = SignallingWorkers
BY DEF SignallingWorkers, TypeOK

(* A new pool has no task to hand over, and its dispatcher does not wait. *)
LEMMA CoverInit == Init => RequestsCoverWork
<1> SUFFICES ASSUME Init PROVE RequestsCoverWork
  OBVIOUS
<1>1. Len(tasks) = 0 /\ dpc = "loop" /\ spc = "idle"
  BY DEF Init
<1>2. Requests \in Nat
  BY CountTypes, TypeInit
<1> QED
  BY <1>1, <1>2 DEF RequestsCoverWork

(* A step after which there is no more to hand over, and no fewer requests. *)
LEMMA CoverKept ==
  ASSUME TypeOK, TypeOK', RequestsCoverWork,
         state' = 1 => state = 1 /\ spc' = "idle",
         Len(tasks') <= Len(tasks) /\ Room' <= Room,
         Requests' >= Requests,
         dpc' \in {"presleep", "asleep"} => workreq' = 0 \/ state' # 1
  PROVE  RequestsCoverWork'
<1>1. Requests \in Nat /\ Room \in Nat /\ Len(tasks) \in Nat
  BY CountTypes
<1>2. Requests' \in Nat /\ Room' \in Nat /\ Len(tasks') \in Nat
  BY CountTypesNext
<1> QED
  BY <1>1, <1>2 DEF RequestsCoverWork

(* A step that changes neither the work nor the requests for it. *)
LEMMA CoverQuiet ==
  ASSUME TypeOK, TypeOK', RequestsCoverWork,
         SignallingCalls' = SignallingCalls, SignallingWorkers' = SignallingWorkers,
         UNCHANGED <<state, spc, queueVars>>,
         dpc \in {"test", "take"} => dpc' \in {"test", "take"},
         dpc' \in {"presleep", "asleep"} => dpc \in {"presleep", "asleep"} \/ workreq = 0
  PROVE  RequestsCoverWork'
<1>1. Cardinality(SignallingCalls) \in Nat /\ Cardinality(SignallingWorkers) \in Nat
  BY FiniteParts, Signallers
<1>2. Requests' >= Requests
  BY <1>1 DEF Requests, queueVars, TypeOK
<1>3. Room' = Room /\ Room \in Nat /\ Len(tasks) \in Nat
  BY CountTypes DEF Room, queueVars
<1>4. CASE state = 1
  BY <1>2, <1>3, <1>4, CoverKept DEF RequestsCoverWork, queueVars
<1>5. CASE state # 1
  BY <1>5 DEF RequestsCoverWork
<1> QED
  BY <1>4, <1>5

(* A signal replaces the signaller by a pending request. *)
LEMMA CoverSignal ==
  ASSUME TypeOK, TypeOK', RequestsCoverWork, RequestDispatch,
         Cardinality(SignallingCalls') + Cardinality(SignallingWorkers') + 1
           = Cardinality(SignallingCalls) + Cardinality(SignallingWorkers),
         UNCHANGED <<state, spc, tasks, free, nworkers>>
  PROVE  RequestsCoverWork'
<1>1. /\ Cardinality(SignallingCalls) \in Nat /\ Cardinality(SignallingWorkers) \in Nat
      /\ Cardinality(SignallingCalls') \in Nat /\ Cardinality(SignallingWorkers') \in Nat
  BY FiniteParts, Signallers
<1>2. Requests' >= Requests
  <2>1. workreq' = workreq + 1 /\ workreq \in Nat
    BY DEF RequestDispatch, TypeOK
  <2>2. dpc \in {"test", "take"} => dpc' \in {"test", "take"}
    BY DEF RequestDispatch, DispatcherAfterNotify
  <2> QED BY <1>1, <2>1, <2>2 DEF Requests
<1>3. Room' = Room /\ Room \in Nat /\ Len(tasks) \in Nat
  BY CountTypes DEF Room
<1>4. dpc' \notin {"presleep", "asleep"}
  BY DEF RequestDispatch, DispatcherMutexFree, DispatcherAfterNotify
<1>5. CASE state = 1
  BY <1>2, <1>3, <1>4, <1>5, CoverKept DEF RequestsCoverWork
<1>6. CASE state # 1
  BY <1>6 DEF RequestsCoverWork
<1> QED
  BY <1>5, <1>6

(* Each step pushes work only with a request for it, and takes a request    *)
(* only to serve it or when there is nothing it could hand over.            *)
LEMMA CoverNext ==
  TypeOK /\ TypeOK' /\ ThreadsMade /\ RequestsCoverWork /\ [Next]_vars
    => RequestsCoverWork'
<1> SUFFICES ASSUME TypeOK, TypeOK', ThreadsMade, RequestsCoverWork, [Next]_vars
             PROVE  RequestsCoverWork'
  OBVIOUS
<1>c. /\ Cardinality(SignallingCalls) \in Nat /\ Cardinality(SignallingWorkers) \in Nat
      /\ IsFiniteSet(SignallingCalls) /\ IsFiniteSet(SignallingWorkers)
  BY FiniteParts, Signallers
<1>t. /\ Requests \in Nat /\ Room \in Nat /\ Len(tasks) \in Nat
      /\ Requests' \in Nat /\ Room' \in Nat /\ Len(tasks') \in Nat
  BY CountTypes, CountTypesNext
<1>1. ASSUME NEW t \in Task, AddWorkTask(t) PROVE RequestsCoverWork'
  <2> USE DEF workerVars, stopVars
  <2>1. CASE AddCheck(t)
    <3>1. SignallingCalls' = SignallingCalls
      BY <2>1 DEF AddCheck, SignallingCalls, TypeOK
    <3>2. SignallingWorkers' = SignallingWorkers
      BY <2>1 DEF AddCheck, SignallingWorkers
    <3> QED BY <2>1, <3>1, <3>2, CoverQuiet DEF AddCheck, RequestsCoverWork
  <2>2. CASE AddPush(t)
    <3>1. SignallingCalls' = SignallingCalls \cup {t} /\ t \notin SignallingCalls
      BY <2>2 DEF AddPush, SignallingCalls, TypeOK
    <3>2. Cardinality(SignallingCalls') = Cardinality(SignallingCalls) + 1
      BY <3>1, <1>c, FS_AddElement
    <3>3. SignallingWorkers' = SignallingWorkers
      BY <2>2 DEF AddPush, SignallingWorkers
    <3>4. Requests' = Requests + 1
      BY <2>2, <3>2, <3>3, <1>c DEF AddPush, Requests, TypeOK
    <3>5. Room' = Room
      BY <2>2 DEF AddPush, Room
    <3>6. Len(tasks') = Len(tasks) + 1
      BY <2>2 DEF AddPush, TypeOK
    <3> QED BY <2>2, <3>4, <3>5, <3>6, <1>t DEF AddPush, RequestsCoverWork
  <2>3. CASE AddSignal(t)
    <3>1. SignallingCalls' = SignallingCalls \ {t} /\ t \in SignallingCalls
      BY <2>3 DEF AddSignal, SignallingCalls, TypeOK
    <3>2. Cardinality(SignallingCalls') = Cardinality(SignallingCalls) - 1
      BY <3>1, <1>c, FS_RemoveElement
    <3>3. SignallingWorkers' = SignallingWorkers
      BY <2>3 DEF AddSignal, SignallingWorkers
    <3> QED BY <2>3, <3>2, <3>3, <1>c, CoverSignal DEF AddSignal
  <2> QED
    BY <1>1, <2>1, <2>2, <2>3 DEF AddWorkTask
<1>2. ASSUME Dispatch PROVE RequestsCoverWork'
  <2> USE DEF dispatchUnchanged, workerVars, stopVars
  <2>c. SignallingCalls' = SignallingCalls
    BY <1>2 DEF Dispatch, SignallingCalls, DispatchLoop, DispatchCheck, DispatchSleep,
      DispatchTest, TakeFree, TakeNew, TakeNothing, GoToWorkLock, GoToWorkNotify
  <2>w. SignallingWorkers' = SignallingWorkers
    <3>1. CASE TakeNew
      <4>1. nworkers + 1 \in Worker /\ nworkers + 1 > nworkers
        BY <3>1, WorkerLimitType, PoolAssumption DEF TakeNew, TypeOK
      <4>2. wpc[nworkers + 1] = "unborn"
        BY <4>1 DEF ThreadsMade
      <4> QED BY <3>1, <4>1, <4>2, SameWorkers DEF TakeNew
    <3>2. CASE GoToWorkNotify
      BY <3>2, SameWorkers DEF GoToWorkNotify, WorkerAfterNotify, SignallingWorkers, TypeOK
    <3> QED
      BY <1>2, <3>1, <3>2 DEF Dispatch, SignallingWorkers, DispatchLoop, DispatchCheck,
        DispatchSleep, DispatchTest, TakeFree, TakeNothing, GoToWorkLock
  <2>1. CASE DispatchLoop \/ DispatchSleep \/ GoToWorkLock \/ GoToWorkNotify
    BY <2>1, <2>c, <2>w, CoverQuiet
    DEF DispatchLoop, DispatchSleep, GoToWorkLock, GoToWorkNotify, queueVars
  <2>2. CASE DispatchCheck
    <3>1. CASE workreq <= 0
      BY <2>2, <3>1, <2>c, <2>w, CoverQuiet DEF DispatchCheck, queueVars, TypeOK
    <3>2. CASE workreq > 0
      <4>1. Requests' = Requests
        <5>1. workreq' = workreq - 1 /\ workreq \in Nat /\ dpc = "check" /\ dpc' = "test"
          BY <2>2, <3>2 DEF DispatchCheck, TypeOK
        <5> QED BY <5>1, <2>c, <2>w, <1>c DEF Requests
      <4>2. Room' = Room
        BY <2>2 DEF DispatchCheck, Room
      <4> QED BY <2>2, <3>2, <4>1, <4>2, <1>t DEF DispatchCheck, RequestsCoverWork, TypeOK
    <3> QED BY <3>1, <3>2 DEF TypeOK
  <2>3. CASE DispatchTest
    <3>1. CASE state = 1
      BY <2>3, <3>1, <2>c, <2>w, CoverQuiet DEF DispatchTest
    <3>2. CASE state # 1
      BY <2>3, <3>2 DEF DispatchTest, RequestsCoverWork
    <3> QED BY <3>1, <3>2
  <2>4. CASE TakeFree
    <3>1. Requests' = Requests - 1
      BY <2>4, <2>c, <2>w, <1>c DEF TakeFree, HandOver, Requests, TypeOK
    <3>2. Len(free') = Len(free) - 1 /\ Len(free) \in Nat
      BY <2>4 DEF TakeFree, TypeOK
    <3>3. Room' = Room - 1
      BY <2>4, <3>2, PoolAssumption, WorkerLimitType DEF TakeFree, Room, TypeOK
    <3>4. Len(tasks') = Len(tasks) - 1
      BY <2>4 DEF TakeFree, HandOver, TypeOK
    <3> QED BY <2>4, <3>1, <3>3, <3>4, <1>t DEF TakeFree, HandOver, RequestsCoverWork
  <2>5. CASE TakeNew
    <3>1. Requests' = Requests - 1
      BY <2>5, <2>c, <2>w, <1>c DEF TakeNew, HandOver, Requests, TypeOK
    <3>2. Room' = Room - 1
      BY <2>5, PoolAssumption, WorkerLimitType DEF TakeNew, Room, TypeOK
    <3>3. Len(tasks') = Len(tasks) - 1
      BY <2>5 DEF TakeNew, HandOver, TypeOK
    <3> QED BY <2>5, <3>1, <3>2, <3>3, <1>t DEF TakeNew, HandOver, RequestsCoverWork
  <2>6. CASE TakeNothing
    <3>1. Len(tasks') = 0 \/ Room' = 0
      BY <2>6, PoolAssumption, WorkerLimitType DEF TakeNothing, Room, queueVars, TypeOK
    <3> QED BY <2>6, <3>1, <1>t DEF TakeNothing, RequestsCoverWork
  <2> QED
    BY <1>2, <2>1, <2>2, <2>3, <2>4, <2>5, <2>6 DEF Dispatch
<1>3. ASSUME NEW w \in Worker, WorkerStep(w) PROVE RequestsCoverWork'
  <2> USE DEF workerUnchanged, stopVars
  <2>1. CASE WorkerLoop(w) \/ WaitEnter(w) \/ WaitRead(w) \/ WaitReset(w) \/ WaitCheck(w)
             \/ WaitSleep(w) \/ DoWorkRun(w) \/ DoWorkNothing(w) \/ DoWorkDone(w)
    <3>1. SignallingCalls' = SignallingCalls /\ UNCHANGED <<state, spc, queueVars, dpc>>
      BY <2>1 DEF WorkerLoop, WaitEnter, WaitRead, WaitReset, WaitCheck, WaitSleep,
        DoWorkRun, DoWorkNothing, DoWorkDone, SignallingCalls, queueVars
    <3>2. SignallingWorkers' = SignallingWorkers
      BY <2>1 DEF WorkerLoop, WaitEnter, WaitRead, WaitReset, WaitCheck, WaitSleep,
        DoWorkRun, DoWorkNothing, DoWorkDone, WorkerMoves, SignallingWorkers, TypeOK
    <3> QED BY <3>1, <3>2, CoverQuiet
  <2>2. CASE TakeBackPush(w)
    <3>1. SignallingWorkers' = SignallingWorkers \cup {w} /\ w \notin SignallingWorkers
      BY <2>2 DEF TakeBackPush, WorkerMoves, SignallingWorkers, TypeOK
    <3>2. Cardinality(SignallingWorkers') = Cardinality(SignallingWorkers) + 1
      BY <3>1, <1>c, FS_AddElement
    <3>3. SignallingCalls' = SignallingCalls
      BY <2>2 DEF TakeBackPush, SignallingCalls
    <3>4. Requests' = Requests + 1
      BY <2>2, <3>2, <3>3, <1>c DEF TakeBackPush, Requests, TypeOK
    <3>5. Len(free') = Len(free) + 1 /\ Len(free) \in Nat
      BY <2>2 DEF TakeBackPush, TypeOK
    <3>6. Room' = Room + 1
      <4>1. nworkers' = nworkers /\ nworkers \in Nat /\ MaxWorkers \in Nat
        BY <2>2, PoolAssumption, WorkerLimitType DEF TakeBackPush, workerUnchanged, TypeOK
      <4> QED BY <3>5, <4>1 DEF Room
    <3> QED BY <2>2, <3>4, <3>6, <1>t DEF TakeBackPush, RequestsCoverWork
  <2>3. CASE TakeBackSignal(w)
    <3>1. SignallingWorkers' = SignallingWorkers \ {w} /\ w \in SignallingWorkers
      BY <2>3 DEF TakeBackSignal, WorkerMoves, SignallingWorkers, TypeOK
    <3>2. Cardinality(SignallingWorkers') = Cardinality(SignallingWorkers) - 1
      BY <3>1, <1>c, FS_RemoveElement
    <3>3. SignallingCalls' = SignallingCalls
      BY <2>3 DEF TakeBackSignal, SignallingCalls
    <3> QED BY <2>3, <3>2, <3>3, <1>c, CoverSignal DEF TakeBackSignal
  <2> QED
    BY <1>3, <2>1, <2>2, <2>3 DEF WorkerStep
<1>4. CASE Stop \/ Abort
  <2>1. state' # 1
    BY <1>4 DEF Stop, StopBegin, StopRequest, StopNotify, StopJoin, StopWorkerFlag,
      StopWorkerNotify, StopWorkerJoin, StopEnd, Abort, AbortBegin, AbortInterrupt,
      AbortWorker, AbortEnd, StopMoves, RequestsCoverWork, TypeOK
  <2> QED BY <2>1 DEF RequestsCoverWork
<1>5. CASE SpuriousWake
  <2>1. /\ SignallingCalls' = SignallingCalls /\ UNCHANGED <<state, spc, queueVars>>
        /\ dpc' = dpc \/ (dpc = "asleep" /\ dpc' = "check")
    BY <1>5 DEF SpuriousWake, dispatchUnchanged, workerUnchanged, stopVars, queueVars,
      SignallingCalls
  <2>2. SignallingWorkers' = SignallingWorkers
    BY <1>5 DEF SpuriousWake, workerVars, WorkerMoves, SignallingWorkers, TypeOK
  <2> QED BY <2>1, <2>2, CoverQuiet
<1>6. CASE UNCHANGED vars
  <2>1. SignallingCalls' = SignallingCalls /\ SignallingWorkers' = SignallingWorkers
    BY <1>6 DEF vars, workerVars, SignallingCalls, SignallingWorkers
  <2> QED BY <1>6, <2>1, CoverQuiet DEF vars, stopVars
<1> QED
  BY <1>1, <1>2, <1>3, <1>4, <1>5, <1>6 DEF Next

(* Pending and coming dispatch requests always cover what can be handed     *)
(* over: the counting of m_workreq is right for every number of tasks,      *)
(* calls and workers.                                                       *)
THEOREM PoolRequestsCoverWork == Spec => []RequestsCoverWork
<1>1. Init => TypeOK /\ ThreadsMade /\ RequestsCoverWork
  BY TypeInit, ThreadsInit, CoverInit
<1>2. TypeOK /\ ThreadsMade /\ RequestsCoverWork /\ [Next]_vars
        => (TypeOK /\ ThreadsMade /\ RequestsCoverWork)'
  BY TypeNext, ThreadsNext, CoverNext
<1> QED
  BY <1>1, <1>2, PTL DEF Spec

(* So the dispatcher never sleeps on work: when it waits and nobody is      *)
(* about to wake it, there is no task it could give to a worker.            *)
THEOREM PoolNoLostDispatch == Spec => []NoLostDispatch
<1>1. TypeOK /\ RequestsCoverWork => NoLostDispatch
  <2> SUFFICES ASSUME TypeOK, RequestsCoverWork, state = 1, dpc = "asleep",
                      SignallingCalls = {}, SignallingWorkers = {}
               PROVE  tasks = <<>> \/ (free = <<>> /\ nworkers >= MaxWorkers)
    BY DEF NoLostDispatch
  <2>1. Requests = 0
    BY FS_EmptySet DEF Requests, RequestsCoverWork
  <2>2. CASE Len(tasks) <= 0
    BY <2>2 DEF TypeOK
  <2>3. CASE Room <= 0
    <3>1. Len(free) \in Nat /\ nworkers \in Nat /\ MaxWorkers \in Nat
      BY PoolAssumption, WorkerLimitType DEF TypeOK
    <3>2. Len(free) = 0 /\ nworkers >= MaxWorkers
      BY <2>3, <3>1 DEF Room
    <3> QED BY <3>2 DEF TypeOK
  <2> QED BY <2>1, <2>2, <2>3 DEF RequestsCoverWork
<1> QED
  BY <1>1, PoolTypeOK, PoolRequestsCoverWork, PTL

-----------------------------------------------------------------------------
(* Stop returns when every thread has ended. *)

(* A thread that has ended does nothing more, and without the dispatcher   *)
(* no worker is made.                                                      *)
LEMMA EndedStays ==
  ASSUME TypeOK, ThreadsMade, [Next]_vars
  PROVE  /\ \A w \in Worker : wpc[w] = "ended" => wpc'[w] = "ended"
         /\ dpc = "ended" => dpc' = "ended" /\ nworkers' = nworkers
<1>t. wpc \in [Worker -> WorkerPC] /\ nworkers \in Nat
  BY WorkerLimitType DEF TypeOK
<1> DEFINE Stays == /\ \A v \in Worker : wpc[v] = "ended" => wpc'[v] = "ended"
                    /\ dpc = "ended" => dpc' = "ended" /\ nworkers' = nworkers
<1> SUFFICES Stays
  OBVIOUS
<1>1. ASSUME NEW t \in Task, AddWorkTask(t) PROVE Stays
  BY <1>1 DEF AddWorkTask, AddCheck, AddPush, AddSignal, RequestDispatch,
    DispatcherAfterNotify, queueVars, workerVars
<1>2. CASE Dispatch
  <2>1. dpc # "ended"
    BY <1>2 DEF Dispatch, DispatchLoop, DispatchCheck, DispatchSleep, DispatchTest,
      TakeFree, TakeNew, TakeNothing, GoToWorkLock, GoToWorkNotify
  <2>2. CASE TakeNew
    <3>1. nworkers + 1 \in Worker /\ nworkers + 1 > nworkers
      BY <2>2, WorkerLimitType, PoolAssumption DEF TakeNew, TypeOK
    <3>2. wpc[nworkers + 1] = "unborn"
      BY <3>1 DEF ThreadsMade
    <3>3. wpc' = [wpc EXCEPT ![nworkers + 1] = "loop"]
      BY <2>2 DEF TakeNew
    <3> QED BY <1>t, <2>1, <3>1, <3>2, <3>3
  <2>3. CASE GoToWorkNotify
    <3>1. wpc' = [wpc EXCEPT ![dworker] = WorkerAfterNotify(dworker)]
      BY <2>3 DEF GoToWorkNotify
    <3> QED BY <1>t, <2>1, <3>1 DEF WorkerAfterNotify
  <2> QED
    BY <1>2, <2>1, <2>2, <2>3 DEF Dispatch, DispatchLoop, DispatchCheck, DispatchSleep,
      DispatchTest, TakeFree, TakeNothing, GoToWorkLock, workerVars
<1>3. ASSUME NEW w \in Worker, WorkerStep(w) PROVE Stays
  BY <1>3, <1>t DEF WorkerStep, WorkerLoop, WaitEnter, WaitRead, WaitReset, TakeBackPush,
    TakeBackSignal, WaitCheck, WaitSleep, DoWorkRun, DoWorkNothing, DoWorkDone,
    WorkerMoves, RequestDispatch, DispatcherAfterNotify, workerUnchanged
<1>4. CASE Stop
  BY <1>4, <1>t DEF Stop, StopBegin, StopRequest, StopNotify, StopJoin, StopWorkerFlag,
    StopWorkerNotify, StopWorkerJoin, StopEnd, stopUnchanged, DispatcherAfterNotify,
    WorkerAfterNotify
<1>5. CASE Abort
  BY <1>5 DEF Abort, AbortBegin, AbortInterrupt, AbortWorker, AbortEnd, abortUnchanged
<1>6. CASE SpuriousWake
  BY <1>6, <1>t DEF SpuriousWake, WorkerMoves, workerUnchanged, queueVars, workerVars
<1>7. CASE UNCHANGED vars
  BY <1>7 DEF vars, queueVars, workerVars
<1> QED
  BY <1>1, <1>2, <1>3, <1>4, <1>5, <1>6, <1>7 DEF Next

(* Only the thread that shuts the pool down moves through Stop and Abort.  *)
LEMMA ShutDownOnly ==
  ASSUME [Next]_vars, ~Stop, ~Abort
  PROVE  UNCHANGED stopVars
<1>1. ASSUME NEW t \in Task, AddWorkTask(t) PROVE UNCHANGED stopVars
  BY <1>1 DEF AddWorkTask, AddCheck, AddPush, AddSignal
<1>2. CASE Dispatch
  BY <1>2 DEF Dispatch, DispatchLoop, DispatchCheck, DispatchSleep, DispatchTest,
    TakeFree, TakeNew, TakeNothing, GoToWorkLock, GoToWorkNotify, dispatchUnchanged
<1>3. ASSUME NEW w \in Worker, WorkerStep(w) PROVE UNCHANGED stopVars
  BY <1>3 DEF WorkerStep, WorkerLoop, WaitEnter, WaitRead, WaitReset, TakeBackPush,
    TakeBackSignal, WaitCheck, WaitSleep, DoWorkRun, DoWorkNothing, DoWorkDone,
    workerUnchanged
<1>4. CASE SpuriousWake
  BY <1>4 DEF SpuriousWake, dispatchUnchanged, workerUnchanged
<1>5. CASE UNCHANGED vars
  BY <1>5 DEF vars
<1> QED
  BY <1>1, <1>2, <1>3, <1>4, <1>5 DEF Next

(* Stop goes on to the workers when the dispatcher has ended, and from one  *)
(* worker to the next when it has ended.                                    *)
StopProgress ==
  /\ spc \in {"idle", "request", "notify", "join"} => sindex = 1
  /\ spc \in {"flag", "wnotify", "wjoin", "stopped"} =>
       /\ dpc = "ended" /\ slimit = nworkers
       /\ \A w \in Worker : w < sindex => wpc[w] = "ended"
  /\ spc = "stopped" => sindex > slimit

(* Nothing was stopped when the pool starts. *)
LEMMA StopProgressInit == Init => StopProgress
BY DEF Init, StopProgress

(* Neither the rest of the pool nor Abort undoes what Stop has reached. *)
LEMMA StopProgressNext ==
  TypeOK /\ ThreadsMade /\ StopProgress /\ [Next]_vars => StopProgress'
<1> SUFFICES ASSUME TypeOK, ThreadsMade, StopProgress, [Next]_vars PROVE StopProgress'
  OBVIOUS
<1>e. /\ \A w \in Worker : wpc[w] = "ended" => wpc'[w] = "ended"
      /\ dpc = "ended" => dpc' = "ended" /\ nworkers' = nworkers
  BY EndedStays
<1>t. sindex \in Nat \ {0} /\ Worker \subseteq Nat \ {0} /\ slimit \in Nat
  BY WorkerLimitType DEF TypeOK
<1>1. CASE UNCHANGED stopVars
  BY <1>1, <1>e DEF StopProgress, stopVars
<1>2. CASE Stop
  <2> USE DEF StopMoves, StopProgress
  <2>1. CASE StopBegin \/ StopRequest \/ StopNotify
    BY <2>1, <1>e DEF StopBegin, StopRequest, StopNotify
  <2>2. CASE StopJoin
    BY <2>2, <1>e, <1>t DEF StopJoin, stopUnchanged
  <2>3. CASE StopWorkerFlag \/ StopWorkerNotify
    BY <2>3, <1>e DEF StopWorkerFlag, StopWorkerNotify
  <2>4. CASE StopWorkerJoin
    <3>1. ASSUME NEW w \in Worker, w < sindex' PROVE wpc'[w] = "ended"
      <4>1. w < sindex \/ w = sindex
        BY <2>4, <3>1, <1>t DEF StopWorkerJoin
      <4> QED BY <2>4, <4>1, <1>e DEF StopWorkerJoin
    <3> QED BY <2>4, <3>1, <1>e DEF StopWorkerJoin
  <2>5. CASE StopEnd
    BY <2>5, <1>e DEF StopEnd
  <2> QED BY <1>2, <2>1, <2>2, <2>3, <2>4, <2>5 DEF Stop
<1>3. CASE Abort
  BY <1>3, <1>t DEF Abort, AbortBegin, AbortInterrupt, AbortWorker, AbortEnd, StopMoves,
    StopProgress
<1> QED
  BY <1>1, <1>2, <1>3, ShutDownOnly

(* Stop never misses a thread, for any number of workers and of tasks. *)
THEOREM PoolStopProgress == Spec => []StopProgress
<1>1. Init => TypeOK /\ ThreadsMade /\ StopProgress
  BY TypeInit, ThreadsInit, StopProgressInit
<1>2. TypeOK /\ ThreadsMade /\ StopProgress /\ [Next]_vars
        => (TypeOK /\ ThreadsMade /\ StopProgress)'
  BY TypeNext, ThreadsNext, StopProgressNext
<1> QED
  BY <1>1, <1>2, PTL DEF Spec

(* Worker threads exist for the workers made, and for no others. *)
LEMMA PoolThreadsMade == Spec => []ThreadsMade
<1>1. Init => TypeOK /\ ThreadsMade
  BY TypeInit, ThreadsInit
<1>2. TypeOK /\ ThreadsMade /\ [Next]_vars => (TypeOK /\ ThreadsMade)'
  BY TypeNext, ThreadsNext
<1> QED
  BY <1>1, <1>2, PTL DEF Spec

(* When Stop returns, the dispatcher and every worker it ever made have     *)
(* ended: no task runs, and none can start.                                 *)
THEOREM PoolStoppedMeansEnded == Spec => []StoppedMeansEnded
<1>1. TypeOK /\ ThreadsMade /\ StopProgress => StoppedMeansEnded
  <2> SUFFICES ASSUME TypeOK, ThreadsMade, StopProgress, spc = "stopped"
               PROVE  dpc = "ended" /\ \A w \in Worker : wpc[w] \in {"unborn", "ended"}
    BY DEF StoppedMeansEnded
  <2>1. ASSUME NEW w \in Worker PROVE wpc[w] \in {"unborn", "ended"}
    <3>1. w \in Nat /\ nworkers \in Nat /\ sindex \in Nat
      BY WorkerLimitType DEF TypeOK
    <3>2. w > nworkers \/ w < sindex
      BY <3>1 DEF StopProgress
    <3> QED BY <3>2 DEF ThreadsMade, StopProgress
  <2> QED BY <2>1 DEF StopProgress
<1> QED
  BY <1>1, PoolTypeOK, PoolThreadsMade, PoolStopProgress, PTL

-----------------------------------------------------------------------------
(* A worker is in one hand. *)

(* The mutex of a worker is held by that worker or by the dispatcher.      *)
OwnMutex == \A w \in Worker : DispatcherHolds(w) => ~WorkerHoldsOwn(w)

(* What is known of a worker while the pool runs: where it is, and for one  *)
(* inside WaitForNewWork that its m_state is still the one it read, since   *)
(* the dispatcher, who alone raises it, holds its mutex to do so.           *)
HandOf(w) ==
  IF w > nworkers
  THEN Listed(w) = {} /\ ~WithDispatcher(w) /\ wstate[w] = 1
  ELSE /\ InOneHand(w)
       /\ wpc[w] = "resetback" => wstate[w] = 2
       /\ wpc[w] = "reset" => wstate[w] = 1
HandInv == state = 1 => \A w \in Worker : HandOf(w)

(* The dispatcher signals a worker with its mutex taken, and only then.    *)
LEMMA OwnMutexInit == Init => OwnMutex
BY DEF Init, OwnMutex, DispatcherHolds

(* Nobody enters the critical section of a worker the other one is in.     *)
LEMMA OwnMutexNext == TypeOK /\ ThreadsMade /\ OwnMutex /\ [Next]_vars => OwnMutex'
<1> SUFFICES ASSUME TypeOK, ThreadsMade, OwnMutex, [Next]_vars,
                    NEW v \in Worker, DispatcherHolds(v)'
             PROVE  ~WorkerHoldsOwn(v)'
  BY DEF OwnMutex
<1>t. wpc \in [Worker -> WorkerPC] /\ nworkers \in Nat
  BY WorkerLimitType DEF TypeOK
<1>v. DispatcherHolds(v) => ~WorkerHoldsOwn(v)
  BY DEF OwnMutex
<1>h. dpc' = "wake" /\ dworker' = v
  BY DEF DispatcherHolds
<1>1. CASE DispatcherHolds(v) /\ UNCHANGED wpc
  BY <1>1, <1>v DEF WorkerHoldsOwn
<1>2. ASSUME DispatcherHolds(v), NEW w \in Worker,
             wpc' = [wpc EXCEPT ![w] = WorkerAfterNotify(w)]
      PROVE  ~WorkerHoldsOwn(v)'
  BY <1>t, <1>v, <1>2 DEF WorkerHoldsOwn, WorkerAfterNotify
<1>3. ASSUME NEW t \in Task, AddWorkTask(t) PROVE ~WorkerHoldsOwn(v)'
  BY <1>1, <1>3, <1>h DEF AddWorkTask, AddCheck, AddPush, AddSignal, RequestDispatch,
    DispatcherAfterNotify, DispatcherHolds, workerVars
<1>4. CASE Dispatch
  <2>1. GoToWorkLock
    BY <1>4, <1>h DEF Dispatch, DispatchLoop, DispatchCheck, DispatchSleep, DispatchTest,
      TakeFree, TakeNew, TakeNothing, GoToWorkNotify, HandOver
  <2>2. dworker = v /\ wpc' = wpc
    BY <2>1, <1>h DEF GoToWorkLock, workerVars
  <2> QED BY <2>1, <2>2 DEF GoToWorkLock, WorkerHoldsOwn
<1>5. ASSUME NEW w \in Worker, WorkerStep(w) PROVE ~WorkerHoldsOwn(v)'
  <2>1. DispatcherHolds(v)
    BY <1>5, <1>h DEF WorkerStep, WorkerLoop, WaitEnter, WaitRead, WaitReset, TakeBackPush,
      TakeBackSignal, WaitCheck, WaitSleep, DoWorkRun, DoWorkNothing, DoWorkDone,
      RequestDispatch, DispatcherAfterNotify, workerUnchanged, DispatcherHolds
  <2>2. CASE w # v
    BY <1>5, <1>t, <1>v, <2>1, <2>2 DEF WorkerStep, WorkerLoop, WaitEnter, WaitRead, WaitReset,
      TakeBackPush, TakeBackSignal, WaitCheck, WaitSleep, DoWorkRun, DoWorkNothing,
      DoWorkDone, WorkerMoves, WorkerHoldsOwn
  <2>3. CASE w = v
    BY <1>5, <1>t, <1>v, <2>1, <2>3 DEF WorkerStep, WorkerLoop, WaitEnter, WaitRead, WaitReset,
      TakeBackPush, TakeBackSignal, WaitCheck, WaitSleep, DoWorkRun, DoWorkNothing,
      DoWorkDone, WorkerMoves, WorkerHoldsOwn
  <2> QED BY <2>2, <2>3
<1>6. CASE Stop
  <2>1. DispatcherHolds(v)
    BY <1>6, <1>h DEF Stop, StopBegin, StopRequest, StopNotify, StopJoin, StopWorkerFlag,
      StopWorkerNotify, StopWorkerJoin, StopEnd, stopUnchanged, DispatcherAfterNotify,
      DispatcherHolds
  <2>2. CASE StopWorkerNotify
    BY <1>2, <2>1, <2>2 DEF StopWorkerNotify, StopMoves, TypeOK
  <2> QED
    BY <1>1, <1>6, <2>1, <2>2 DEF Stop, StopBegin, StopRequest, StopNotify, StopJoin,
      StopWorkerFlag, StopWorkerJoin, StopEnd
<1>7. CASE Abort
  BY <1>1, <1>7, <1>h DEF Abort, AbortBegin, AbortInterrupt, AbortWorker, AbortEnd,
    abortUnchanged, DispatcherHolds
<1>8. CASE SpuriousWake
  <2>1. DispatcherHolds(v)
    BY <1>8, <1>h DEF SpuriousWake, workerUnchanged, DispatcherHolds
  <2> QED
    BY <1>1, <1>8, <1>t, <1>v, <2>1 DEF SpuriousWake, WorkerMoves, WorkerHoldsOwn, workerVars
<1>9. CASE UNCHANGED vars
  BY <1>1, <1>9, <1>h DEF vars, workerVars, DispatcherHolds
<1> QED
  BY <1>3, <1>4, <1>5, <1>6, <1>7, <1>8, <1>9 DEF Next

(* Taking the first worker of m_freelist unlists it, and only it.          *)
LEMMA ListedTail ==
  ASSUME free \in Seq(Worker), free # <<>>, free' = Tail(free), NEW w \in Worker
  PROVE  /\ Listed(w) = {} => Listed(w)' = {}
         /\ w # Head(free) => \A i : Listed(w) = {i} => Listed(w)' = {i - 1}
         /\ w = Head(free) => \A i : Listed(w) = {i} => Listed(w)' = {}
<1>1. Len(free) \in Nat \ {0} /\ Len(free') = Len(free) - 1
  OBVIOUS
<1>2. \A i \in 1 .. Len(free') : free'[i] = free[i + 1]
  OBVIOUS
<1>3. \A i : i \in Listed(w)' <=> i \in 1 .. Len(free') /\ free[i + 1] = w
  BY <1>2 DEF Listed
<1>4. \A i : i \in Listed(w) <=> i \in 1 .. Len(free) /\ free[i] = w
  BY DEF Listed
<1>5. \A i : i \in Listed(w)' <=> i \in Nat \ {0} /\ i + 1 \in Listed(w)
  BY <1>1, <1>3, <1>4
<1>6. \A i \in Listed(w) : i \in Nat \ {0}
  BY <1>1, <1>4
<1>7. w = Head(free) <=> 1 \in Listed(w)
  BY <1>1, <1>4
<1>8. ASSUME NEW i, Listed(w) = {i}, w # Head(free) PROVE Listed(w)' = {i - 1}
  <2>1. i \in Nat \ {0, 1}
    BY <1>6, <1>7, <1>8
  <2>2. \A j : j \in Listed(w)' <=> j = i - 1
    BY <1>5, <1>8, <2>1
  <2> QED BY <2>2
<1>9. ASSUME NEW i, Listed(w) = {i}, w = Head(free) PROVE Listed(w)' = {}
  <2>1. i = 1
    BY <1>7, <1>9
  <2>2. \A j : j \notin Listed(w)'
    BY <1>5, <1>9, <2>1
  <2> QED BY <2>2
<1> QED
  BY <1>5, <1>8, <1>9

(* A worker that gives itself back is listed once more, the others as before. *)
LEMMA ListedAppend ==
  ASSUME free \in Seq(Worker), NEW v \in Worker, free' = Append(free, v), NEW w \in Worker
  PROVE  /\ w # v => Listed(w)' = Listed(w)
         /\ w = v /\ Listed(w) = {} => Listed(w)' = {Len(free')}
<1>1. Len(free) \in Nat /\ Len(free') = Len(free) + 1
  OBVIOUS
<1>2. \A i \in 1 .. Len(free') : free'[i] = IF i = Len(free') THEN v ELSE free[i]
  BY <1>1
<1>3. \A i : i \in Listed(w)' <=> i \in 1 .. Len(free') /\ free'[i] = w
  BY DEF Listed
<1>4. \A i : i \in Listed(w) <=> i \in 1 .. Len(free) /\ free[i] = w
  BY DEF Listed
<1>5. \A i : i \in Listed(w)' <=> i \in Listed(w) \/ (i = Len(free') /\ w = v)
  BY <1>1, <1>2, <1>3, <1>4
<1> QED
  BY <1>5

(* A step that leaves a worker in the hand it is in.                       *)
LEMMA SameHand ==
  ASSUME NEW w \in Worker, HandOf(w), UNCHANGED <<free, nworkers>>,
         wstate'[w] = wstate[w], WithDispatcher(w)' <=> WithDispatcher(w),
         wpc'[w] = "push" <=> wpc[w] = "push",
         wpc'[w] = "resetback" => wpc[w] = "resetback" \/ wstate[w] = 2,
         wpc'[w] = "reset" => wpc[w] = "reset" \/ wstate[w] = 1
  PROVE  HandOf(w)'
<1>1. Listed(w)' = Listed(w) /\ (\A i : i \in 1 .. Len(free') <=> i \in 1 .. Len(free))
  BY DEF Listed
<1> QED
  BY <1>1 DEF HandOf, InOneHand

(* The constructor lists every worker it makes, once.                      *)
LEMMA HandInit == Init => HandInv
<1> SUFFICES ASSUME Init, NEW w \in Worker PROVE HandOf(w)
  BY DEF HandInv
<1>1. MinWorkers \in Nat /\ w \in Nat \ {0} /\ Len(free) = MinWorkers
  BY WorkerLimitType DEF Init
<1>2. \A i \in 1 .. Len(free) : free[i] = i
  BY <1>1 DEF Init
<1>3. ~WithDispatcher(w) /\ wstate[w] = 1 /\ wpc[w] \notin {"push", "reset", "resetback"}
  BY DEF Init, WithDispatcher
<1>4. CASE w > nworkers
  <2>1. Listed(w) = {}
    BY <1>1, <1>2, <1>4 DEF Listed, Init
  <2> QED BY <1>3, <1>4, <2>1 DEF HandOf
<1>5. CASE ~(w > nworkers)
  <2>1. w \in 1 .. Len(free) /\ Listed(w) = {w}
    BY <1>1, <1>2, <1>5 DEF Listed, Init
  <2> QED BY <1>3, <1>5, <2>1 DEF HandOf, InOneHand
<1> QED
  BY <1>4, <1>5

(* Stop and Abort begin by ending the running state. *)
LEMMA ShutDownEndsRunning ==
  ASSUME RequestsCoverWork, Stop \/ Abort PROVE state' # 1
BY DEF Stop, StopBegin, StopRequest, StopNotify, StopJoin, StopWorkerFlag,
  StopWorkerNotify, StopWorkerJoin, StopEnd, Abort, AbortBegin, AbortInterrupt,
  AbortWorker, AbortEnd, StopMoves, RequestsCoverWork, stopUnchanged, abortUnchanged

(* Nobody but Stop and Abort changes m_state of the pool. *)
LEMMA RunningUntilShutDown ==
  ASSUME [Next]_vars, ~Stop, ~Abort PROVE state' = state
<1>1. ASSUME NEW t \in Task, AddWorkTask(t) PROVE state' = state
  BY <1>1 DEF AddWorkTask, AddCheck, AddPush, AddSignal
<1>2. CASE Dispatch
  BY <1>2 DEF Dispatch, DispatchLoop, DispatchCheck, DispatchSleep, DispatchTest,
    TakeFree, TakeNew, TakeNothing, GoToWorkLock, GoToWorkNotify, dispatchUnchanged
<1>3. ASSUME NEW w \in Worker, WorkerStep(w) PROVE state' = state
  BY <1>3 DEF WorkerStep, WorkerLoop, WaitEnter, WaitRead, WaitReset, TakeBackPush,
    TakeBackSignal, WaitCheck, WaitSleep, DoWorkRun, DoWorkNothing, DoWorkDone,
    workerUnchanged
<1>4. CASE SpuriousWake
  BY <1>4 DEF SpuriousWake, dispatchUnchanged, workerUnchanged
<1>5. CASE UNCHANGED vars
  BY <1>5 DEF vars
<1> QED
  BY <1>1, <1>2, <1>3, <1>4, <1>5 DEF Next

(* Each step of a running pool moves a worker from one hand to the next.   *)
LEMMA HandNext ==
  TypeOK /\ TypeOK' /\ ThreadsMade /\ RequestsCoverWork /\ OwnMutex /\ HandInv /\ [Next]_vars
    => HandInv'
<1> SUFFICES ASSUME TypeOK, TypeOK', ThreadsMade, RequestsCoverWork, OwnMutex, HandInv,
                    [Next]_vars, state' = 1, NEW v \in Worker
             PROVE  HandOf(v)'
  BY DEF HandInv
<1>s. ~Stop /\ ~Abort /\ state = 1
  BY ShutDownEndsRunning, RunningUntilShutDown
<1>h. \A w \in Worker : HandOf(w)
  BY <1>s DEF HandInv
<1>t. /\ wpc \in [Worker -> WorkerPC] /\ wstate \in [Worker -> {-1, 0, 1, 2}]
      /\ nworkers \in Nat /\ v \in Nat /\ free \in Seq(Worker)
  BY WorkerLimitType DEF TypeOK
<1>1. ASSUME NEW t \in Task, AddWorkTask(t) PROVE HandOf(v)'
  BY <1>1, <1>h, SameHand DEF AddWorkTask, AddCheck, AddPush, AddSignal, RequestDispatch,
    DispatcherAfterNotify, WithDispatcher, queueVars, workerVars
<1>2. CASE Dispatch
  <2>1. CASE DispatchLoop \/ DispatchCheck \/ DispatchSleep \/ DispatchTest \/ TakeNothing
    <3>1. UNCHANGED <<free, nworkers, wstate, wpc>>
      BY <2>1 DEF DispatchLoop, DispatchCheck, DispatchSleep, DispatchTest, TakeNothing,
        queueVars, workerVars
    <3>2. ~WithDispatcher(v) /\ ~WithDispatcher(v)'
      BY <2>1 DEF DispatchLoop, DispatchCheck, DispatchSleep, DispatchTest, TakeNothing,
        WithDispatcher
    <3> QED BY <3>1, <3>2, <1>h, SameHand
  <2>2. CASE TakeFree
    <3>1. /\ free # <<>> /\ free' = Tail(free) /\ Head(free) \in Worker
          /\ UNCHANGED <<nworkers, wstate, wpc>>
      BY <2>2, <1>t DEF TakeFree
    <3>2. ~WithDispatcher(v) /\ (WithDispatcher(v)' <=> v = Head(free))
      BY <2>2 DEF TakeFree, HandOver, WithDispatcher
    <3>3. 1 \in Listed(Head(free))
      BY <3>1, <1>t DEF Listed
    <3>4. CASE v = Head(free)
      <4>1. v <= nworkers /\ wstate[v] = 1 /\ wpc[v] # "push" /\ \E i : Listed(v) = {i}
        <5>1. Listed(v) # {} /\ HandOf(v)
          BY <1>h, <3>3, <3>4
        <5>2. ~(v > nworkers) /\ InOneHand(v)
          BY <5>1 DEF HandOf
        <5>3. wstate[v] = 1 /\ wpc[v] # "push" /\ \E i : Listed(v) = {i}
          BY <5>1, <5>2 DEF InOneHand
        <5>4. v <= nworkers
          BY <1>t, <5>2
        <5> QED BY <5>3, <5>4
      <4>2. Listed(v)' = {}
        BY <4>1, <1>t, <3>1, <3>4, ListedTail
      <4> QED BY <1>h, <3>1, <3>2, <3>4, <4>1, <4>2 DEF HandOf, InOneHand
    <3>5. CASE v # Head(free)
      <4>1. /\ Listed(v) = {} => Listed(v)' = {}
            /\ \A i : Listed(v) = {i} => Listed(v)' = {i - 1}
        BY <1>t, <3>1, <3>5, ListedTail
      <4>2. \A i \in Listed(v)' : i \in 1 .. Len(free')
        BY DEF Listed
      <4>3. (\E i \in 1 .. Len(free) : Listed(v) = {i})
              => \E i \in 1 .. Len(free') : Listed(v)' = {i}
        BY <4>1, <4>2
      <4> QED BY <1>h, <3>1, <3>2, <3>5, <4>1, <4>3 DEF HandOf, InOneHand
    <3> QED BY <3>4, <3>5
  <2>3. CASE TakeNew
    <3>1. /\ nworkers' = nworkers + 1 /\ wpc' = [wpc EXCEPT ![nworkers + 1] = "loop"]
          /\ UNCHANGED <<free, wstate>>
      BY <2>3 DEF TakeNew
    <3>2. ~WithDispatcher(v) /\ (WithDispatcher(v)' <=> v = nworkers + 1)
      BY <2>3 DEF TakeNew, HandOver, WithDispatcher
    <3>3. Listed(v)' = Listed(v) /\ Len(free') = Len(free)
      BY <3>1 DEF Listed
    <3>4. CASE v = nworkers + 1
      <4>1. wpc'[v] = "loop"
        BY <1>t, <3>1, <3>4
      <4>2. Listed(v) = {} /\ wstate[v] = 1
        BY <1>h, <1>t, <3>4 DEF HandOf
      <4> QED BY <1>t, <3>1, <3>2, <3>3, <3>4, <4>1, <4>2 DEF HandOf, InOneHand
    <3>5. CASE v # nworkers + 1
      <4>1. wpc'[v] = wpc[v] /\ (v > nworkers' <=> v > nworkers)
        BY <1>t, <3>1, <3>5
      <4> QED BY <1>h, <3>1, <3>2, <3>3, <3>5, <4>1 DEF HandOf, InOneHand
    <3> QED BY <3>4, <3>5
  <2>4. CASE GoToWorkLock
    <3>1. dpc = "go" /\ dworker \in Worker
      BY <2>4 DEF GoToWorkLock, TypeOK
    <3>2. wstate[dworker] = 1
      BY <1>h, <3>1 DEF HandOf, InOneHand, WithDispatcher
    <3>3. dpc' = "wake" /\ dworker' = dworker /\ UNCHANGED <<free, nworkers, wstate, wpc>>
      BY <2>4, <3>2 DEF GoToWorkLock, queueVars, workerVars
    <3>4. WithDispatcher(v)' <=> WithDispatcher(v)
      BY <3>1, <3>3 DEF WithDispatcher
    <3> QED BY <3>3, <3>4, <1>h, SameHand
  <2>5. CASE GoToWorkNotify
    <3>1. dpc = "wake" /\ dworker \in Worker /\ dpc' = "loop"
      BY <2>5 DEF GoToWorkNotify, TypeOK
    <3>2. ~WithDispatcher(v)' /\ (WithDispatcher(v) <=> v = dworker)
      BY <3>1 DEF WithDispatcher
    <3>3. UNCHANGED <<free, nworkers>>
      BY <2>5 DEF GoToWorkNotify, queueVars
    <3>4. CASE v = dworker
      <4>1. v <= nworkers /\ Listed(v) = {} /\ wpc[v] # "push"
        BY <1>h, <1>t, <3>2, <3>4 DEF HandOf, InOneHand
      <4>2. wpc[v] \notin {"reset", "resetback"}
        BY <3>1, <3>4 DEF OwnMutex, DispatcherHolds, WorkerHoldsOwn
      <4>3. wstate'[v] = 2 /\ wpc'[v] \notin {"reset", "resetback", "push"}
        BY <2>5, <1>t, <3>4, <4>1, <4>2 DEF GoToWorkNotify, WorkerAfterNotify
      <4>4. Listed(v)' = {}
        BY <3>3, <4>1 DEF Listed
      <4> QED BY <1>t, <3>2, <3>3, <4>1, <4>3, <4>4 DEF HandOf, InOneHand
    <3>5. CASE v # dworker
      <4>1. wstate'[v] = wstate[v] /\ wpc'[v] = wpc[v]
        BY <2>5, <1>t, <3>1, <3>5 DEF GoToWorkNotify
      <4> QED BY <3>2, <3>3, <3>5, <4>1, <1>h, SameHand
    <3> QED BY <3>4, <3>5
  <2> QED
    BY <1>2, <2>1, <2>2, <2>3, <2>4, <2>5 DEF Dispatch
<1>3. ASSUME NEW w \in Worker, WorkerStep(w) PROVE HandOf(v)'
  <2>1. nworkers' = nworkers /\ (WithDispatcher(v)' <=> WithDispatcher(v))
    BY <1>3 DEF WorkerStep, WorkerLoop, WaitEnter, WaitRead, WaitReset, TakeBackPush,
      TakeBackSignal, WaitCheck, WaitSleep, DoWorkRun, DoWorkNothing, DoWorkDone,
      RequestDispatch, DispatcherAfterNotify, workerUnchanged, WithDispatcher
  <2>w. wpc[w] # "unborn" => w <= nworkers
    BY <1>t, WorkerLimitType DEF ThreadsMade
  <2>2. CASE WaitReset(w)
    <3>1. UNCHANGED free /\ wstate' = [wstate EXCEPT ![w] = 1]
      BY <2>2 DEF WaitReset
    <3>2. CASE v = w
      <4>1. v <= nworkers
        BY <2>2, <2>w, <3>2 DEF WaitReset, WorkerMoves
      <4>2. CASE wpc[w] = "resetback"
        <5>1. Listed(v) = {} /\ ~WithDispatcher(v)
          BY <1>h, <1>t, <3>2, <4>1, <4>2 DEF HandOf, InOneHand
        <5>2. wpc'[v] = "push" /\ wstate'[v] = 1 /\ Listed(v)' = {}
          BY <2>2, <1>t, <3>1, <3>2, <4>2, <5>1 DEF WaitReset, WorkerMoves, Listed
        <5> QED BY <1>t, <2>1, <4>1, <5>1, <5>2 DEF HandOf, InOneHand
      <4>3. CASE wpc[w] = "reset"
        <5>1. wstate[v] = 1 /\ wpc'[v] = "check" /\ wstate'[v] = 1
          BY <2>2, <1>h, <1>t, <3>1, <3>2, <4>1, <4>3 DEF HandOf, WaitReset, WorkerMoves
        <5> QED BY <1>h, <2>1, <3>1, <3>2, <4>3, <5>1, SameHand
      <4> QED BY <2>2, <4>2, <4>3 DEF WaitReset, WorkerMoves
    <3>3. CASE v # w
      <4>1. wstate'[v] = wstate[v] /\ wpc'[v] = wpc[v]
        BY <2>2, <1>t, <3>1, <3>3 DEF WaitReset, WorkerMoves
      <4> QED BY <1>h, <2>1, <3>1, <4>1, SameHand
    <3> QED BY <3>2, <3>3
  <2>3. CASE TakeBackPush(w)
    <3>1. free' = Append(free, w) /\ UNCHANGED wstate
      BY <2>3 DEF TakeBackPush
    <3>2. CASE v = w
      <4>1. v <= nworkers /\ wpc[v] = "push" /\ wpc'[v] = "signal"
        BY <2>3, <1>t, <2>w, <3>2 DEF TakeBackPush, WorkerMoves
      <4>2. Listed(v) = {} /\ ~WithDispatcher(v) /\ wstate[v] = 1
        BY <1>h, <1>t, <4>1 DEF HandOf, InOneHand
      <4>3. Listed(v)' = {Len(free')} /\ Len(free') \in 1 .. Len(free')
        BY <1>t, <3>1, <3>2, <4>2, ListedAppend
      <4> QED BY <1>t, <2>1, <3>1, <4>1, <4>2, <4>3 DEF HandOf, InOneHand
    <3>3. CASE v # w
      <4>1. wpc'[v] = wpc[v] /\ Listed(v)' = Listed(v)
        BY <2>3, <1>t, <3>1, <3>3, ListedAppend DEF TakeBackPush, WorkerMoves
      <4>2. \A i \in Listed(v)' : i \in 1 .. Len(free')
        BY DEF Listed
      <4> QED BY <1>h, <2>1, <3>1, <4>1, <4>2 DEF HandOf, InOneHand
    <3> QED BY <3>2, <3>3
  <2>4. CASE WaitRead(w)
    <3>1. UNCHANGED <<free, wstate>> /\ WorkerMoves(w, "read", IF wstate[w] > 1 THEN "resetback" ELSE "reset")
      BY <2>4 DEF WaitRead
    <3>2. wstate[w] \in {1, 2}
      BY <1>h, <1>t, <2>w, <3>1 DEF HandOf, InOneHand, WorkerMoves
    <3> QED BY <1>h, <1>t, <2>1, <3>1, <3>2, SameHand DEF WorkerMoves
  <2>5. CASE WorkerLoop(w) \/ WaitEnter(w) \/ TakeBackSignal(w) \/ WaitCheck(w)
             \/ WaitSleep(w) \/ DoWorkRun(w) \/ DoWorkNothing(w) \/ DoWorkDone(w)
    <3>1. UNCHANGED <<free, wstate>>
      BY <2>5 DEF WorkerLoop, WaitEnter, TakeBackSignal, WaitCheck, WaitSleep, DoWorkRun,
        DoWorkNothing, DoWorkDone
    <3>2. /\ wpc'[v] = "push" <=> wpc[v] = "push"
          /\ wpc'[v] \in {"resetback", "reset"} => wpc'[v] = wpc[v]
      BY <2>5, <1>t DEF WorkerLoop, WaitEnter, TakeBackSignal, WaitCheck, WaitSleep, DoWorkRun,
        DoWorkNothing, DoWorkDone, WorkerMoves
    <3> QED BY <1>h, <2>1, <3>1, <3>2, SameHand
  <2> QED
    BY <1>3, <2>2, <2>3, <2>4, <2>5 DEF WorkerStep
<1>4. CASE SpuriousWake
  <2>1. /\ UNCHANGED <<free, nworkers, wstate>> /\ (WithDispatcher(v)' <=> WithDispatcher(v))
        /\ wpc'[v] = wpc[v] \/ (wpc[v] = "asleep" /\ wpc'[v] = "woken")
    BY <1>4, <1>t DEF SpuriousWake, WorkerMoves, workerUnchanged, queueVars, workerVars,
      WithDispatcher
  <2> QED BY <1>h, <2>1, SameHand
<1>5. CASE UNCHANGED vars
  <2>1. UNCHANGED <<free, nworkers, wstate, wpc>> /\ (WithDispatcher(v)' <=> WithDispatcher(v))
    BY <1>5 DEF vars, queueVars, workerVars, WithDispatcher
  <2> QED BY <1>h, <2>1, SameHand
<1> QED
  BY <1>s, <1>1, <1>2, <1>3, <1>4, <1>5 DEF Next

(* Every worker of the running pool is in exactly one hand, however many    *)
(* there are: none is listed twice, which would hand it two tasks at once,  *)
(* and none is forgotten.                                                   *)
THEOREM PoolEveryWorkerInOneHand == Spec => []EveryWorkerInOneHand
<1> DEFINE I == TypeOK /\ ThreadsMade /\ RequestsCoverWork /\ OwnMutex /\ HandInv
<1>1. Init => I
  BY TypeInit, ThreadsInit, CoverInit, OwnMutexInit, HandInit
<1>2. I /\ [Next]_vars => I'
  BY TypeNext, ThreadsNext, CoverNext, OwnMutexNext, HandNext
<1>3. I => EveryWorkerInOneHand
  <2> SUFFICES ASSUME I, state = 1, NEW w \in 1 .. nworkers PROVE InOneHand(w)
    BY DEF EveryWorkerInOneHand
  <2>1. w \in Worker /\ ~(w > nworkers)
    BY WorkerLimitType DEF TypeOK
  <2> QED BY <2>1 DEF HandInv, HandOf
<1> QED
  BY <1>1, <1>2, <1>3, PTL DEF Spec

-----------------------------------------------------------------------------
(* The refinement of TaskPool.                                             *)

(* What the mapping relies on. *)

(* A task is in one place: once in the queue of the pool, or once in the   *)
(* list of one worker.                                                     *)
QueuedOnce == \A i, j \in 1 .. Len(tasks) : tasks[i] = tasks[j] => i = j
QueuedOrHeld ==
  \A w \in Worker : \A i \in 1 .. Len(tasks), j \in 1 .. Len(wtasks[w]) :
    tasks[i] # wtasks[w][j]
HeldOnce ==
  \A v, w \in Worker : \A i \in 1 .. Len(wtasks[v]), j \in 1 .. Len(wtasks[w]) :
    wtasks[v][i] = wtasks[w][j] => v = w /\ i = j

(* A task that was not accepted is nowhere and was not run. *)
NotYetPlaced ==
  \A t \in Task : call[t] \in {"new", "checked", "refused"} =>
    runs[t] = 0 /\ ~Queued(t) /\ ~Held(t)

(* A task that was run and is still listed is the one its worker runs. *)
QueuedNotRun == \A i \in 1 .. Len(tasks) : runs[tasks[i]] = 0
HeldNotRun ==
  \A w \in Worker : \A i \in 1 .. Len(wtasks[w]) :
    runs[wtasks[w][i]] > 0 => i = 1 /\ wpc[w] = "run"
RunningHeld ==
  \A w \in Worker : wpc[w] = "run" => wtasks[w] # <<>> /\ runs[Head(wtasks[w])] > 0

TaskInv ==
  /\ QueuedOnce /\ QueuedOrHeld /\ HeldOnce
  /\ NotYetPlaced /\ QueuedNotRun /\ HeldNotRun /\ RunningHeld

(* When all workers have reached their first wait and no other is made, a  *)
(* worker is only listed, or handed a task, with an empty list.            *)
Mine(w) == Listed(w) = {} /\ ~WithDispatcher(w)
MineAndEmpty(w) == Mine(w) /\ wtasks[w] = <<>>
OneTask(w) ==
  /\ Len(wtasks[w]) <= 1
  /\ \A i, j \in Listed(w) : i = j
  /\ Listed(w) # {} => wtasks[w] = <<>> /\ ~WithDispatcher(w)
  /\ wpc[w] \in {"read", "resetback", "push"} => MineAndEmpty(w)
  /\ wpc[w] \in {"loop", "enter"} => wstate[w] <= 0 \/ MineAndEmpty(w)
  /\ wpc[w] = "work" => wstate[w] <= 0 \/ Mine(w)
  /\ wpc[w] = "run" => Mine(w)
  /\ wstate[w] = 2 /\ wpc[w] \in {"signal", "check", "presleep", "asleep", "woken"} =>
       Mine(w)
  /\ DispatcherHolds(w) => wpc[w] \in {"asleep", "woken", "ended"}
  /\ wpc[w] = "push" => wstate[w] # 2
  /\ wpc[w] # "unborn"
AllWorkersMade == nworkers >= MaxWorkers
EveryOneTask == Warm /\ MinWorkers >= MaxWorkers =>
  AllWorkersMade /\ \A w \in Worker : OneTask(w)

-----------------------------------------------------------------------------
(* Where tasks are, and what was run. *)

(* The lists hold tasks, and their lengths are numbers. *)
LEMMA ListTypes ==
  ASSUME TypeOK
  PROVE  /\ Len(tasks) \in Nat /\ \A i \in 1 .. Len(tasks) : tasks[i] \in Task
         /\ \A w \in Worker : Len(wtasks[w]) \in Nat
         /\ \A w \in Worker : \A i \in 1 .. Len(wtasks[w]) : wtasks[w][i] \in Task
         /\ \A w \in Worker : wtasks[w] # <<>> =>
              1 \in 1 .. Len(wtasks[w]) /\ Head(wtasks[w]) = wtasks[w][1]
<1>1. tasks \in Seq(Task) /\ \A w \in Worker : wtasks[w] \in Seq(Task)
  BY DEF TypeOK
<1> QED
  BY <1>1

(* Which workers run a task. *)
SameRunning == \A w \in Worker : wpc'[w] = "run" <=> wpc[w] = "run"

(* The dispatcher moves the first task of the queue to the end of a list. *)
MovesTask(w) ==
  /\ tasks # <<>> /\ HandOver(w) /\ UNCHANGED <<call, runs>> /\ SameRunning

(* The steps that move a task, and all the others. *)
LEMMA TaskSteps ==
  ASSUME TypeOK, ThreadsMade, [Next]_vars
  PROVE  \/ \E t \in Task : AddWorkTask(t)
         \/ \E w \in Worker : MovesTask(w)
         \/ \E w \in Worker : DoWorkRun(w)
         \/ \E w \in Worker : DoWorkDone(w)
         \/ UNCHANGED <<tasks, wtasks, call, runs>> /\ SameRunning
<1>t. wpc \in [Worker -> WorkerPC] /\ nworkers \in Nat
  BY WorkerLimitType DEF TypeOK
<1> DEFINE Quiet == UNCHANGED <<tasks, wtasks, call, runs>> /\ SameRunning
<1>1. ASSUME UNCHANGED <<tasks, wtasks, call, runs, wpc>> PROVE Quiet
  BY <1>1 DEF SameRunning
<1>2. ASSUME UNCHANGED <<tasks, wtasks, call, runs>>, NEW w \in Worker, NEW to,
             wpc' = [wpc EXCEPT ![w] = to], to # "run", wpc[w] # "run"
      PROVE  Quiet
  BY <1>2, <1>t DEF SameRunning
<1>3. ASSUME UNCHANGED <<tasks, wtasks, call, runs>>, NEW w \in Worker,
             wpc' = [wpc EXCEPT ![w] = WorkerAfterNotify(w)]
      PROVE  Quiet
  BY <1>3, <1>t DEF SameRunning, WorkerAfterNotify
<1>4. ASSUME Dispatch PROVE Quiet \/ \E w \in Worker : MovesTask(w)
  <2>1. CASE TakeFree
    <3>1. Head(free) \in Worker
      BY <2>1 DEF TakeFree, TypeOK
    <3>2. MovesTask(Head(free))
      BY <2>1 DEF TakeFree, MovesTask, SameRunning, dispatchUnchanged
    <3> QED BY <3>1, <3>2
  <2>2. CASE TakeNew
    <3>1. nworkers + 1 \in Worker /\ nworkers + 1 > nworkers
      BY <2>2, WorkerLimitType, PoolAssumption DEF TakeNew, TypeOK
    <3>2. wpc[nworkers + 1] = "unborn" /\ wpc' = [wpc EXCEPT ![nworkers + 1] = "loop"]
      BY <2>2, <3>1 DEF ThreadsMade, TakeNew
    <3>3. SameRunning
      BY <1>t, <3>1, <3>2 DEF SameRunning
    <3>4. MovesTask(nworkers + 1)
      BY <2>2, <3>3 DEF TakeNew, MovesTask, dispatchUnchanged
    <3> QED BY <3>1, <3>4
  <2>3. CASE GoToWorkNotify
    <3>1. dworker \in Worker
      BY <2>3 DEF GoToWorkNotify, TypeOK
    <3> QED BY <1>3, <2>3, <3>1 DEF GoToWorkNotify, dispatchUnchanged, queueVars
  <2> QED
    BY <1>1, <1>4, <2>1, <2>2, <2>3 DEF Dispatch, DispatchLoop, DispatchCheck, DispatchSleep,
      DispatchTest, TakeNothing, GoToWorkLock, dispatchUnchanged, queueVars, workerVars
<1>5. ASSUME NEW w \in Worker, WorkerStep(w) PROVE DoWorkRun(w) \/ DoWorkDone(w) \/ Quiet
  BY <1>2, <1>5 DEF WorkerStep, WorkerLoop, WaitEnter, WaitRead, WaitReset, TakeBackPush,
    TakeBackSignal, WaitCheck, WaitSleep, DoWorkNothing, WorkerMoves, workerUnchanged
<1>6. ASSUME Stop PROVE Quiet
  <2>1. CASE StopWorkerNotify
    <3>1. sindex \in Worker
      BY <2>1 DEF StopWorkerNotify, StopMoves, TypeOK
    <3> QED BY <1>3, <2>1, <3>1 DEF StopWorkerNotify, stopUnchanged
  <2> QED
    BY <1>1, <1>6, <2>1 DEF Stop, StopBegin, StopRequest, StopNotify, StopJoin,
      StopWorkerFlag, StopWorkerJoin, StopEnd, stopUnchanged
<1>7. ASSUME Abort PROVE Quiet
  BY <1>1, <1>7 DEF Abort, AbortBegin, AbortInterrupt, AbortWorker, AbortEnd, abortUnchanged
<1>8. ASSUME SpuriousWake PROVE Quiet
  BY <1>1, <1>2, <1>8 DEF SpuriousWake, WorkerMoves, dispatchUnchanged, workerUnchanged,
    queueVars, workerVars
<1>9. ASSUME UNCHANGED vars PROVE Quiet
  BY <1>1, <1>9 DEF vars, queueVars, workerVars
<1> QED
  BY <1>4, <1>5, <1>6, <1>7, <1>8, <1>9 DEF Next

(* What moving a task does to the two lists. *)
LEMMA MovedLists ==
  ASSUME TypeOK, NEW w \in Worker, MovesTask(w)
  PROVE  /\ 1 \in 1 .. Len(tasks) /\ Len(tasks') = Len(tasks) - 1
         /\ \A i \in 1 .. Len(tasks') : i + 1 \in 1 .. Len(tasks) /\ tasks'[i] = tasks[i + 1]
         /\ Len(wtasks'[w]) = Len(wtasks[w]) + 1
         /\ \A i \in 1 .. Len(wtasks[w]) : wtasks'[w][i] = wtasks[w][i]
         /\ wtasks'[w][Len(wtasks[w]) + 1] = tasks[1]
         /\ \A v \in Worker : v # w => wtasks'[v] = wtasks[v]
<1>1. tasks \in Seq(Task) /\ tasks # <<>> /\ wtasks[w] \in Seq(Task)
  BY DEF MovesTask, TypeOK
<1>2. tasks' = Tail(tasks) /\ wtasks' = [wtasks EXCEPT ![w] = Append(@, Head(tasks))]
  BY DEF MovesTask, HandOver
<1>3. wtasks'[w] = Append(wtasks[w], Head(tasks)) /\ Head(tasks) = tasks[1]
  BY <1>1, <1>2 DEF TypeOK
<1>4. \A v \in Worker : v # w => wtasks'[v] = wtasks[v]
  BY <1>2 DEF TypeOK
<1>5. /\ Len(tasks) \in Nat \ {0} /\ Len(tasks') = Len(tasks) - 1
      /\ \A i \in 1 .. Len(tasks') : i + 1 \in 1 .. Len(tasks) /\ tasks'[i] = tasks[i + 1]
  BY <1>1, <1>2
<1>6. /\ Len(wtasks'[w]) = Len(wtasks[w]) + 1
      /\ \A i \in 1 .. Len(wtasks[w]) : wtasks'[w][i] = wtasks[w][i]
      /\ wtasks'[w][Len(wtasks[w]) + 1] = tasks[1]
  BY <1>1, <1>3
<1> QED
  BY <1>4, <1>5, <1>6

(* No task is submitted, queued or run when the pool is made. *)
LEMMA TaskInvInit == Init => TaskInv
BY DEF Init, TaskInv, QueuedOnce, QueuedOrHeld, HeldOnce, NotYetPlaced, QueuedNotRun,
  HeldNotRun, RunningHeld, Queued, Held

(* A task is pushed by its own call only, handed over from the queue to one *)
(* list, and leaves that list for good after it was run there.              *)
LEMMA TaskInvNext == TypeOK /\ TypeOK' /\ ThreadsMade /\ TaskInv /\ [Next]_vars => TaskInv'
<1> SUFFICES ASSUME TypeOK, TypeOK', ThreadsMade, TaskInv, [Next]_vars PROVE TaskInv'
  OBVIOUS
<1> USE DEF TaskInv
<1>t. /\ wpc \in [Worker -> WorkerPC] /\ call \in [Task -> CallPC] /\ runs \in [Task -> Nat]
      /\ wtasks \in [Worker -> Seq(Task)]
  BY DEF TypeOK
<1>l. /\ Len(tasks) \in Nat /\ \A i \in 1 .. Len(tasks) : tasks[i] \in Task
      /\ \A w \in Worker : Len(wtasks[w]) \in Nat
      /\ \A w \in Worker : \A i \in 1 .. Len(wtasks[w]) : wtasks[w][i] \in Task
      /\ \A w \in Worker : wtasks[w] # <<>> =>
           1 \in 1 .. Len(wtasks[w]) /\ Head(wtasks[w]) = wtasks[w][1]
  BY ListTypes
<1>1. CASE UNCHANGED <<tasks, wtasks, call, runs>> /\ SameRunning
  BY <1>1 DEF QueuedOnce, QueuedOrHeld, HeldOnce, NotYetPlaced, QueuedNotRun, HeldNotRun,
    RunningHeld, Queued, Held, SameRunning
<1>2. ASSUME NEW t \in Task, AddWorkTask(t) PROVE TaskInv'
  <2>1. CASE AddCheck(t) \/ AddSignal(t)
    <3>1. UNCHANGED <<tasks, wtasks, runs, wpc>>
      BY <2>1 DEF AddCheck, AddSignal, queueVars, workerVars
    <3>2. \A u \in Task : call'[u] \in {"new", "checked", "refused"} =>
            call[u] \in {"new", "checked", "refused"}
      BY <2>1, <1>t DEF AddCheck, AddSignal
    <3> QED BY <3>1, <3>2 DEF QueuedOnce, QueuedOrHeld, HeldOnce, NotYetPlaced, QueuedNotRun,
      HeldNotRun, RunningHeld, Queued, Held
  <2>2. CASE AddPush(t)
    <3>1. UNCHANGED <<wtasks, runs, wpc>> /\ tasks' = Append(tasks, t)
      BY <2>2 DEF AddPush, workerVars
    <3>2. runs[t] = 0 /\ ~Queued(t) /\ ~Held(t)
      BY <2>2 DEF AddPush, NotYetPlaced
    <3>3. /\ Len(tasks') = Len(tasks) + 1 /\ tasks'[Len(tasks) + 1] = t
          /\ \A i \in 1 .. Len(tasks) : tasks'[i] = tasks[i]
      BY <3>1 DEF TypeOK
    <3>4. \A i \in 1 .. Len(tasks') : i \in 1 .. Len(tasks) \/ i = Len(tasks) + 1
      BY <3>3, <1>l
    <3>5. QueuedOnce' /\ QueuedOrHeld' /\ QueuedNotRun'
      BY <3>1, <3>2, <3>3, <3>4 DEF QueuedOnce, QueuedOrHeld, QueuedNotRun, Queued, Held
    <3>6. NotYetPlaced'
      <4> SUFFICES ASSUME NEW u \in Task, call'[u] \in {"new", "checked", "refused"}
                   PROVE  runs'[u] = 0 /\ ~Queued(u)' /\ ~Held(u)'
        BY DEF NotYetPlaced
      <4>1. u # t /\ call'[u] = call[u]
        BY <2>2, <1>t DEF AddPush
      <4>2. ~Queued(u)'
        BY <3>3, <3>4, <4>1 DEF NotYetPlaced, Queued
      <4> QED BY <3>1, <4>1, <4>2 DEF NotYetPlaced, Held
    <3> QED BY <3>1, <3>5, <3>6 DEF HeldOnce, HeldNotRun, RunningHeld
  <2> QED
    BY <1>2, <2>1, <2>2 DEF AddWorkTask
<1>3. ASSUME NEW w \in Worker, MovesTask(w) PROVE TaskInv'
  <2>1. /\ 1 \in 1 .. Len(tasks) /\ Len(tasks') = Len(tasks) - 1
        /\ \A i \in 1 .. Len(tasks') : i + 1 \in 1 .. Len(tasks) /\ tasks'[i] = tasks[i + 1]
        /\ Len(wtasks'[w]) = Len(wtasks[w]) + 1
        /\ \A i \in 1 .. Len(wtasks[w]) : wtasks'[w][i] = wtasks[w][i]
        /\ wtasks'[w][Len(wtasks[w]) + 1] = tasks[1]
        /\ \A v \in Worker : v # w => wtasks'[v] = wtasks[v]
    BY <1>3, MovedLists
  <2>2. UNCHANGED <<call, runs>> /\ SameRunning
    BY <1>3 DEF MovesTask
  <2>3. \A i \in 1 .. Len(wtasks'[w]) : i \in 1 .. Len(wtasks[w]) \/ i = Len(wtasks[w]) + 1
    BY <2>1, <1>l
  <2>4. ASSUME NEW v \in Worker, NEW i \in 1 .. Len(wtasks'[v])
        PROVE  \/ i \in 1 .. Len(wtasks[v]) /\ wtasks'[v][i] = wtasks[v][i]
               \/ v = w /\ i = Len(wtasks[w]) + 1 /\ wtasks'[v][i] = tasks[1]
    BY <2>1, <2>3, <2>4
  <2>5. QueuedOnce' /\ QueuedNotRun'
    <3>1. ASSUME NEW i \in 1 .. Len(tasks'), NEW j \in 1 .. Len(tasks'), tasks'[i] = tasks'[j]
          PROVE  i = j
      <4>1. i + 1 = j + 1
        BY <2>1, <3>1 DEF QueuedOnce
      <4> QED BY <1>l, <2>1, <4>1
    <3>2. QueuedNotRun'
      BY <2>1, <2>2 DEF QueuedNotRun
    <3> QED BY <3>1, <3>2 DEF QueuedOnce
  <2>6. QueuedOrHeld'
    <3> SUFFICES ASSUME NEW v \in Worker, NEW i \in 1 .. Len(tasks'),
                        NEW j \in 1 .. Len(wtasks'[v])
                 PROVE  tasks'[i] # wtasks'[v][j]
      BY DEF QueuedOrHeld
    <3>1. i + 1 # 1
      BY <1>l, <2>1
    <3>2. CASE j \in 1 .. Len(wtasks[v]) /\ wtasks'[v][j] = wtasks[v][j]
      BY <2>1, <3>2 DEF QueuedOrHeld
    <3>3. CASE wtasks'[v][j] = tasks[1]
      BY <2>1, <3>1, <3>3 DEF QueuedOnce
    <3> QED BY <2>4, <3>2, <3>3
  <2>7. HeldOnce'
    <3> SUFFICES ASSUME NEW u \in Worker, NEW v \in Worker, NEW i \in 1 .. Len(wtasks'[u]),
                        NEW j \in 1 .. Len(wtasks'[v]), wtasks'[u][i] = wtasks'[v][j]
                 PROVE  u = v /\ i = j
      BY DEF HeldOnce
    <3>1. CASE i \in 1 .. Len(wtasks[u]) /\ wtasks'[u][i] = wtasks[u][i]
      <4>1. CASE j \in 1 .. Len(wtasks[v]) /\ wtasks'[v][j] = wtasks[v][j]
        <5>1. wtasks[u][i] = wtasks[v][j]
          BY <3>1, <4>1
        <5> QED BY <3>1, <4>1, <5>1 DEF HeldOnce
      <4>2. CASE wtasks'[v][j] = tasks[1]
        <5>1. tasks[1] # wtasks[u][i]
          BY <2>1, <3>1 DEF QueuedOrHeld
        <5> QED BY <3>1, <4>2, <5>1
      <4> QED BY <2>4, <4>1, <4>2
    <3>2. CASE u = w /\ i = Len(wtasks[w]) + 1 /\ wtasks'[u][i] = tasks[1]
      BY <2>1, <2>4, <3>2 DEF QueuedOrHeld
    <3> QED BY <2>4, <3>1, <3>2
  <2>8. NotYetPlaced'
    <3> SUFFICES ASSUME NEW u \in Task, call'[u] \in {"new", "checked", "refused"}
                 PROVE  runs'[u] = 0 /\ ~Queued(u)' /\ ~Held(u)'
      BY DEF NotYetPlaced
    <3>1. runs[u] = 0 /\ ~Queued(u) /\ ~Held(u)
      BY <2>2 DEF NotYetPlaced
    <3>2. ~Queued(u)'
      BY <2>1, <3>1 DEF Queued
    <3>3. ~Held(u)'
      BY <2>1, <2>4, <3>1 DEF Queued, Held
    <3> QED BY <2>2, <3>1, <3>2, <3>3
  <2>9. HeldNotRun'
    <3> SUFFICES ASSUME NEW v \in Worker, NEW i \in 1 .. Len(wtasks'[v]),
                        runs'[wtasks'[v][i]] > 0
                 PROVE  i = 1 /\ wpc'[v] = "run"
      BY DEF HeldNotRun
    <3>1. runs[tasks[1]] = 0
      BY <2>1 DEF QueuedNotRun
    <3> QED BY <2>2, <2>4, <3>1 DEF HeldNotRun, SameRunning
  <2>10. RunningHeld'
    <3> SUFFICES ASSUME NEW v \in Worker, wpc'[v] = "run"
                 PROVE  wtasks'[v] # <<>> /\ runs'[Head(wtasks'[v])] > 0
      BY DEF RunningHeld
    <3>1. wtasks[v] # <<>> /\ runs[Head(wtasks[v])] > 0
      BY <2>2 DEF RunningHeld, SameRunning
    <3>2. wtasks'[v] \in Seq(Task) /\ Len(wtasks'[v]) # 0 /\ wtasks'[v][1] = wtasks[v][1]
      <4>1. wtasks'[v] \in Seq(Task)
        BY DEF TypeOK
      <4> QED BY <1>l, <2>1, <3>1, <4>1
    <3>3. wtasks'[v] # <<>> /\ Head(wtasks'[v]) = Head(wtasks[v])
      BY <1>l, <3>1, <3>2
    <3> QED BY <2>2, <3>1, <3>3
  <2> QED
    BY <2>5, <2>6, <2>7, <2>8, <2>9, <2>10
<1>4. ASSUME NEW w \in Worker, DoWorkRun(w) PROVE TaskInv'
  <2>1. /\ wpc[w] = "work" /\ wpc' = [wpc EXCEPT ![w] = "run"]
        /\ UNCHANGED <<tasks, wtasks, call>>
    BY <1>4 DEF DoWorkRun, WorkerMoves, workerUnchanged
  <2>2. PICK h \in Task : /\ h = wtasks[w][1] /\ 1 \in 1 .. Len(wtasks[w])
                          /\ h = Head(wtasks[w]) /\ wtasks[w] # <<>>
    BY <1>4, <1>l DEF DoWorkRun
  <2>3. runs' = [runs EXCEPT ![h] = @ + 1]
    BY <1>4, <2>2 DEF DoWorkRun
  <2>4. runs'[h] > 0 /\ \A u \in Task : u # h => runs'[u] = runs[u]
    BY <1>t, <2>3
  <2>5. QueuedNotRun'
    BY <1>l, <2>1, <2>2, <2>4 DEF QueuedNotRun, QueuedOrHeld
  <2>6. NotYetPlaced'
    <3>1. Held(h)
      BY <2>2 DEF Held
    <3> QED BY <2>1, <2>4, <3>1 DEF NotYetPlaced, Queued, Held
  <2>7. HeldNotRun'
    <3> SUFFICES ASSUME NEW v \in Worker, NEW i \in 1 .. Len(wtasks[v]),
                        runs'[wtasks[v][i]] > 0
                 PROVE  i = 1 /\ wpc'[v] = "run"
      BY <2>1 DEF HeldNotRun
    <3>1. CASE wtasks[v][i] = h
      BY <1>t, <2>1, <2>2, <3>1 DEF HeldOnce
    <3>2. CASE wtasks[v][i] # h
      BY <1>l, <1>t, <2>1, <2>4, <3>2 DEF HeldNotRun
    <3> QED BY <3>1, <3>2
  <2>8. RunningHeld'
    <3> SUFFICES ASSUME NEW v \in Worker, wpc'[v] = "run"
                 PROVE  wtasks[v] # <<>> /\ runs'[Head(wtasks[v])] > 0
      BY <2>1 DEF RunningHeld
    <3>1. CASE v = w
      BY <2>2, <2>4, <3>1
    <3>2. CASE v # w
      <4>1. wpc[v] = "run"
        BY <1>t, <2>1, <3>2
      <4>2. wtasks[v] # <<>> /\ runs[Head(wtasks[v])] > 0 /\ Head(wtasks[v]) \in Task
        BY <1>l, <4>1 DEF RunningHeld
      <4> QED BY <2>4, <4>2
    <3> QED BY <3>1, <3>2
  <2> QED
    BY <2>1, <2>5, <2>6, <2>7, <2>8 DEF QueuedOnce, QueuedOrHeld, HeldOnce
<1>5. ASSUME NEW w \in Worker, DoWorkDone(w) PROVE TaskInv'
  <2>1. /\ wpc' = [wpc EXCEPT ![w] = "loop"] /\ wtasks' = [wtasks EXCEPT ![w] = <<>>]
        /\ UNCHANGED <<tasks, call, runs>>
    BY <1>5 DEF DoWorkDone, WorkerMoves, workerUnchanged
  <2>2. wtasks'[w] = <<>> /\ wpc'[w] = "loop"
    BY <1>t, <2>1
  <2>3. \A v \in Worker : v # w => wtasks'[v] = wtasks[v] /\ wpc'[v] = wpc[v]
    BY <1>t, <2>1
  <2>4. \A v \in Worker : \A i \in 1 .. Len(wtasks'[v]) : v # w
    BY <2>2
  <2>5. QueuedOnce' /\ QueuedOrHeld'
    BY <2>1, <2>3, <2>4 DEF QueuedOnce, QueuedOrHeld
  <2>6. HeldOnce'
    BY <2>1, <2>3, <2>4 DEF HeldOnce
  <2>7. NotYetPlaced'
    BY <2>1, <2>3, <2>4 DEF NotYetPlaced, Queued, Held
  <2>8. QueuedNotRun' /\ HeldNotRun'
    BY <2>1, <2>3, <2>4 DEF QueuedNotRun, HeldNotRun
  <2>9. RunningHeld'
    BY <2>1, <2>2, <2>3 DEF RunningHeld
  <2> QED
    BY <2>5, <2>6, <2>7, <2>8, <2>9
<1> QED
  BY <1>1, <1>2, <1>3, <1>4, <1>5, TaskSteps

-----------------------------------------------------------------------------
(* A worker that waits is handed one task. *)

(* A step of others, who may wake a worker or have it stop. *)
LEMMA OneTaskKept ==
  ASSUME TypeOK, NEW v \in Worker, OneTask(v), Listed(v)' = Listed(v), wtasks'[v] = wtasks[v],
         WithDispatcher(v)' <=> WithDispatcher(v), DispatcherHolds(v)' => DispatcherHolds(v),
         wstate'[v] = wstate[v] \/ wstate'[v] \in {-1, 0},
         wpc'[v] = wpc[v] \/ (wpc[v] = "asleep" /\ wpc'[v] = "woken")
  PROVE  OneTask(v)'
<1>1. wstate[v] \in {-1, 0, 1, 2}
  BY DEF TypeOK
<1>2. (Mine(v)' <=> Mine(v)) /\ (MineAndEmpty(v)' <=> MineAndEmpty(v))
  BY DEF Mine, MineAndEmpty
<1> QED
  BY <1>1, <1>2 DEF OneTask

(* The workers of a warm pool wait, listed, with nothing to do. *)
LEMMA OneTaskInit == Init => EveryOneTask
<1> SUFFICES ASSUME Init, Warm, MinWorkers >= MaxWorkers
             PROVE  AllWorkersMade /\ \A w \in Worker : OneTask(w)
  BY DEF EveryOneTask
<1>2. AllWorkersMade
  BY DEF Init, AllWorkersMade
<1> SUFFICES ASSUME NEW w \in Worker PROVE OneTask(w)
  BY <1>2
<1>1. MinWorkers \in Nat \ {0} /\ MaxWorkers \in Nat \ {0} /\ w <= MinWorkers
  BY PoolAssumption DEF Worker, WorkerLimit
<1>3. \A i \in 1 .. Len(free) : free[i] = i
  BY <1>1 DEF Init
<1>4. \A i, j \in Listed(w) : i = j
  BY <1>3 DEF Listed
<1>5. wpc[w] = "asleep" /\ wstate[w] = 1 /\ wtasks[w] = <<>> /\ dpc = "loop"
  BY <1>1, WorkerLimitType DEF Init
<1>6. Len(wtasks[w]) <= 1
  BY <1>5
<1> QED
  BY <1>2, <1>4, <1>5, <1>6 DEF OneTask, WithDispatcher, DispatcherHolds

(* Every step of every thread keeps it so. *)
LEMMA OneTaskNext ==
  TypeOK /\ ThreadsMade /\ OwnMutex /\ EveryOneTask /\ [Next]_vars => EveryOneTask'
<1> SUFFICES ASSUME TypeOK, ThreadsMade, OwnMutex, EveryOneTask, [Next]_vars, Warm,
                    MinWorkers >= MaxWorkers
             PROVE  AllWorkersMade' /\ \A v \in Worker : OneTask(v)'
  BY DEF EveryOneTask
<1>a. nworkers >= MaxWorkers /\ \A w \in Worker : OneTask(w)
  BY DEF EveryOneTask, AllWorkersMade
<1>t. /\ wpc \in [Worker -> WorkerPC] /\ wstate \in [Worker -> {-1, 0, 1, 2}]
      /\ wtasks \in [Worker -> Seq(Task)] /\ free \in Seq(Worker)
      /\ nworkers \in Nat /\ MaxWorkers \in Nat
  BY PoolAssumption, WorkerLimitType DEF TypeOK
<1>w. \A u \in Worker : (wstate[u] <= 0) <=> ~(wstate[u] > 0)
  <2>1. \A u \in Worker : wstate[u] \in {-1, 0, 1, 2}
    BY <1>t
  <2> QED BY <2>1
<1>n. ~TakeNew
  BY <1>a, <1>t DEF TakeNew
<1>m. nworkers' = nworkers
  <2>1. ASSUME NEW t \in Task, AddWorkTask(t) PROVE nworkers' = nworkers
    BY <2>1 DEF AddWorkTask, AddCheck, AddPush, AddSignal, queueVars
  <2>2. CASE Dispatch
    BY <2>2, <1>n DEF Dispatch, DispatchLoop, DispatchCheck, DispatchSleep, DispatchTest,
      TakeFree, TakeNothing, GoToWorkLock, GoToWorkNotify, queueVars
  <2>3. ASSUME NEW w \in Worker, WorkerStep(w) PROVE nworkers' = nworkers
    BY <2>3 DEF WorkerStep, WorkerLoop, WaitEnter, WaitRead, WaitReset, TakeBackPush,
      TakeBackSignal, WaitCheck, WaitSleep, DoWorkRun, DoWorkNothing, DoWorkDone,
      workerUnchanged
  <2>4. CASE Stop \/ Abort \/ SpuriousWake \/ UNCHANGED vars
    BY <2>4 DEF Stop, StopBegin, StopRequest, StopNotify, StopJoin, StopWorkerFlag,
      StopWorkerNotify, StopWorkerJoin, StopEnd, stopUnchanged, Abort, AbortBegin,
      AbortInterrupt, AbortWorker, AbortEnd, abortUnchanged, SpuriousWake, workerUnchanged,
      vars, queueVars
  <2> QED BY <2>1, <2>2, <2>3, <2>4 DEF Next
<1> SUFFICES ASSUME NEW v \in Worker PROVE OneTask(v)'
  BY <1>a, <1>m DEF AllWorkersMade
<1>v. OneTask(v)
  BY <1>a
<1>f. free' = free => Listed(v)' = Listed(v)
  BY DEF Listed
<1>1. ASSUME NEW t \in Task, AddWorkTask(t) PROVE OneTask(v)'
  <2>1. UNCHANGED <<free, wtasks, wstate, wpc, dworker>>
    BY <1>1 DEF AddWorkTask, AddCheck, AddPush, AddSignal, queueVars, workerVars
  <2>2. dpc' = dpc \/ (dpc = "asleep" /\ dpc' = "check")
    BY <1>1 DEF AddWorkTask, AddCheck, AddPush, AddSignal, RequestDispatch,
      DispatcherAfterNotify
  <2> QED BY <1>v, <1>f, <2>1, <2>2, OneTaskKept DEF WithDispatcher, DispatcherHolds
<1>2. CASE Dispatch
  <2>1. CASE DispatchLoop \/ DispatchCheck \/ DispatchSleep \/ DispatchTest \/ TakeNothing
    <3>1. UNCHANGED <<free, wtasks, wstate, wpc>>
      BY <2>1 DEF DispatchLoop, DispatchCheck, DispatchSleep, DispatchTest, TakeNothing,
        queueVars, workerVars
    <3>2. dpc \notin {"go", "wake"} /\ dpc' \notin {"go", "wake"}
      BY <2>1 DEF DispatchLoop, DispatchCheck, DispatchSleep, DispatchTest, TakeNothing
    <3> QED BY <1>v, <1>f, <3>1, <3>2, OneTaskKept DEF WithDispatcher, DispatcherHolds
  <2>2. CASE TakeFree
    <3>1. /\ free # <<>> /\ free' = Tail(free) /\ Head(free) \in Worker
          /\ UNCHANGED <<wstate, wpc>>
          /\ wtasks' = [wtasks EXCEPT ![Head(free)] = Append(@, Head(tasks))]
      BY <2>2, <1>t DEF TakeFree, HandOver
    <3>2. ~WithDispatcher(v) /\ (WithDispatcher(v)' <=> v = Head(free)) /\ ~DispatcherHolds(v)'
      BY <2>2 DEF TakeFree, HandOver, WithDispatcher, DispatcherHolds
    <3>3. CASE v = Head(free)
      <4>1. 1 \in Listed(v)
        BY <3>1, <3>3, <1>t DEF Listed
      <4>2. ~Mine(v) /\ ~MineAndEmpty(v) /\ wtasks[v] = <<>>
        BY <1>v, <4>1 DEF Mine, MineAndEmpty, OneTask
      <4>3. Listed(v) = {1}
        BY <1>v, <4>1 DEF OneTask
      <4>4. Listed(v)' = {}
        BY <1>t, <3>1, <3>3, <4>3, ListedTail
      <4>5. wtasks'[v] = <<Head(tasks)>>
        BY <1>t, <3>1, <3>3, <4>2
      <4>6. Len(wtasks'[v]) <= 1
        BY <4>5
      <4> QED BY <1>v, <3>1, <3>2, <4>2, <4>4, <4>6 DEF OneTask
    <3>4. CASE v # Head(free)
      <4>1. wtasks'[v] = wtasks[v]
        BY <1>t, <3>1, <3>4
      <4>2. CASE Listed(v) = {}
        <5>1. Listed(v)' = {}
          BY <1>t, <3>1, <4>2, ListedTail
        <5> QED
          BY <1>v, <3>1, <3>2, <3>4, <4>1, <4>2, <5>1, OneTaskKept
      <4>3. CASE Listed(v) # {}
        <5>1. PICK i : Listed(v) = {i}
          BY <1>v, <4>3 DEF OneTask
        <5>2. Listed(v)' = {i - 1}
          BY <1>t, <3>1, <3>4, <5>1, ListedTail
        <5>3. (Mine(v)' <=> Mine(v)) /\ (MineAndEmpty(v)' <=> MineAndEmpty(v))
          BY <4>3, <5>2 DEF Mine, MineAndEmpty
        <5> QED BY <1>v, <3>1, <3>2, <3>4, <4>1, <4>3, <5>2, <5>3 DEF OneTask
      <4> QED BY <4>2, <4>3
    <3> QED BY <3>3, <3>4
  <2>3. CASE GoToWorkLock
    <3>1. /\ dpc = "go" /\ dworker \in Worker /\ UNCHANGED <<free, wtasks, wstate, wpc>>
          /\ ~WorkerHoldsOwn(dworker)
      BY <2>3 DEF GoToWorkLock, queueVars, workerVars, TypeOK
    <3>2. CASE v # dworker
      <4>1. ~WithDispatcher(v) /\ ~WithDispatcher(v)' /\ ~DispatcherHolds(v)'
        BY <2>3, <3>2, WorkerLimitType DEF GoToWorkLock, WithDispatcher, DispatcherHolds
      <4> QED BY <1>v, <1>f, <3>1, <4>1, OneTaskKept
    <3>3. CASE v = dworker /\ wstate[v] > 0
      <4>1. WithDispatcher(v) /\ WithDispatcher(v)'
        BY <2>3, <3>3 DEF GoToWorkLock, WithDispatcher
      <4>2. ~Mine(v) /\ ~MineAndEmpty(v) /\ ~(wstate[v] <= 0)
        BY <1>w, <3>3, <4>1 DEF Mine, MineAndEmpty
      <4>3. wpc[v] \in {"asleep", "woken", "ended"}
        BY <1>t, <1>v, <3>1, <3>3, <4>2 DEF OneTask, WorkerHoldsOwn, WorkerPC
      <4>4. Listed(v) = {}
        BY <1>v, <4>1 DEF OneTask
      <4> QED
        BY <1>v, <1>f, <3>1, <4>1, <4>2, <4>3, <4>4 DEF OneTask
    <3>4. CASE v = dworker /\ ~(wstate[v] > 0)
      <4>1. ~WithDispatcher(v)' /\ ~DispatcherHolds(v)' /\ WithDispatcher(v)
        BY <2>3, <3>1, <3>4, WorkerLimitType
        DEF GoToWorkLock, WithDispatcher, DispatcherHolds
      <4>2. Listed(v)' = {} /\ Mine(v)' /\ ~Mine(v) /\ ~MineAndEmpty(v)
        BY <1>v, <1>f, <3>1, <4>1 DEF OneTask, Mine, MineAndEmpty
      <4> QED BY <1>v, <3>1, <4>1, <4>2 DEF OneTask
    <3> QED BY <3>2, <3>3, <3>4
  <2>4. CASE GoToWorkNotify
    <3>1. dpc = "wake" /\ dworker \in Worker /\ dpc' = "loop" /\ UNCHANGED <<free, wtasks>>
      BY <2>4 DEF GoToWorkNotify, queueVars, TypeOK
    <3>2. ~WithDispatcher(v)' /\ ~DispatcherHolds(v)'
      BY <3>1 DEF WithDispatcher, DispatcherHolds
    <3>3. CASE v = dworker
      <4>1. WithDispatcher(v) /\ DispatcherHolds(v)
        BY <3>1, <3>3 DEF WithDispatcher, DispatcherHolds
      <4>2. Listed(v)' = {} /\ wpc[v] \in {"asleep", "woken", "ended"}
        BY <1>v, <1>f, <3>1, <4>1 DEF OneTask
      <4>3. Mine(v)' /\ wpc'[v] \in {"woken", "ended"}
        BY <2>4, <1>t, <3>2, <3>3, <4>2 DEF GoToWorkNotify, WorkerAfterNotify, Mine
      <4> QED BY <1>v, <3>1, <3>2, <4>2, <4>3 DEF OneTask
    <3>4. CASE v # dworker
      <4>1. wstate'[v] = wstate[v] /\ wpc'[v] = wpc[v] /\ ~WithDispatcher(v)
        BY <2>4, <1>t, <3>1, <3>4 DEF GoToWorkNotify, WithDispatcher
      <4> QED BY <1>v, <1>f, <3>1, <3>2, <4>1, OneTaskKept
    <3> QED BY <3>3, <3>4
  <2> QED BY <1>2, <1>n, <2>1, <2>2, <2>3, <2>4 DEF Dispatch
<1>3. ASSUME NEW w \in Worker, WorkerStep(w) PROVE OneTask(v)'
  <2>1. /\ WithDispatcher(v)' <=> WithDispatcher(v)
        /\ DispatcherHolds(v)' <=> DispatcherHolds(v)
    BY <1>3 DEF WorkerStep, WorkerLoop, WaitEnter, WaitRead, WaitReset, TakeBackPush,
      TakeBackSignal, WaitCheck, WaitSleep, DoWorkRun, DoWorkNothing, DoWorkDone,
      RequestDispatch, DispatcherAfterNotify, workerUnchanged, WithDispatcher, DispatcherHolds
  <2>2. CASE v # w
    <3>1. wstate'[v] = wstate[v] /\ wpc'[v] = wpc[v] /\ wtasks'[v] = wtasks[v]
      BY <1>3, <1>t, <2>2 DEF WorkerStep, WorkerLoop, WaitEnter, WaitRead, WaitReset,
        TakeBackPush, TakeBackSignal, WaitCheck, WaitSleep, DoWorkRun, DoWorkNothing,
        DoWorkDone, WorkerMoves
    <3>2. free' = free \/ free' = Append(free, w)
      BY <1>3 DEF WorkerStep, WorkerLoop, WaitEnter, WaitRead, WaitReset, TakeBackPush,
        TakeBackSignal, WaitCheck, WaitSleep, DoWorkRun, DoWorkNothing, DoWorkDone
    <3>3. Listed(v)' = Listed(v)
      BY <1>f, <1>t, <2>2, <3>2, ListedAppend
    <3> QED BY <1>v, <2>1, <3>1, <3>3, OneTaskKept
  <2>3. CASE v = w
    <3>o. DispatcherHolds(v) => ~WorkerHoldsOwn(v)
      BY DEF OwnMutex
    <3>1. CASE WorkerLoop(w) \/ WaitEnter(w) \/ WaitRead(w) \/ DoWorkRun(w) \/ DoWorkNothing(w)
               \/ TakeBackSignal(w) \/ WaitCheck(w) \/ WaitSleep(w)
      <4>1. UNCHANGED <<free, wstate, wtasks>>
        BY <3>1 DEF WorkerLoop, WaitEnter, WaitRead, DoWorkRun, DoWorkNothing, TakeBackSignal,
          WaitCheck, WaitSleep
      <4>2. (Mine(v)' <=> Mine(v)) /\ (MineAndEmpty(v)' <=> MineAndEmpty(v))
        BY <1>f, <2>1, <4>1 DEF Mine, MineAndEmpty
      <4>3. CASE WorkerLoop(w)
        <5>1. wpc[v] = "loop" /\ wpc'[v] = IF wstate[v] > 0 THEN "enter" ELSE "ended"
          BY <1>t, <2>3, <4>3 DEF WorkerLoop, WorkerMoves
        <5> QED BY<1>w, <1>v, <1>f, <2>1, <4>1, <4>2, <5>1 DEF OneTask
      <4>4. CASE WaitEnter(w)
        <5>1. wpc[v] = "enter" /\ wpc'[v] = IF wstate[v] > 0 THEN "read" ELSE "work"
          BY <1>t, <2>3, <4>4 DEF WaitEnter, WorkerMoves
        <5> QED BY<1>w, <1>v, <1>f, <2>1, <4>1, <4>2, <5>1 DEF OneTask
      <4>5. CASE WaitRead(w)
        <5>1. wpc[v] = "read" /\ wpc'[v] \in {"resetback", "reset"}
          BY <1>t, <2>3, <4>5 DEF WaitRead, WorkerMoves
        <5> QED BY <1>v, <1>f, <2>1, <4>1, <4>2, <5>1 DEF OneTask
      <4>6. CASE DoWorkRun(w)
        <5>1. wpc[v] = "work" /\ wpc'[v] = "run" /\ wstate[v] > 0
          BY <1>t, <2>3, <4>6 DEF DoWorkRun, WorkerMoves
        <5> QED BY<1>w, <1>v, <1>f, <2>1, <4>1, <4>2, <5>1 DEF OneTask
      <4>7. CASE DoWorkNothing(w)
        <5>1. wpc[v] = "work" /\ wpc'[v] = "loop" /\ (wstate[v] <= 0 \/ wtasks[v] = <<>>)
          BY <1>t, <2>3, <4>7 DEF DoWorkNothing, WorkerMoves
        <5> QED BY <1>v, <1>f, <2>1, <4>1, <4>2, <5>1 DEF OneTask, MineAndEmpty
      <4>8. CASE TakeBackSignal(w)
        <5>1. wpc[v] = "signal" /\ wpc'[v] = "check"
          BY <1>t, <2>3, <4>8 DEF TakeBackSignal, WorkerMoves
        <5> QED BY <1>v, <1>f, <2>1, <4>1, <4>2, <5>1 DEF OneTask
      <4>9. CASE WaitCheck(w)
        <5>1. /\ wpc[v] = "check" \/ (wpc[v] = "woken" /\ ~DispatcherHolds(v))
              /\ wpc'[v] = IF wstate[v] = 1 THEN "presleep" ELSE "work"
          BY <1>t, <2>3, <4>9 DEF WaitCheck, WorkerMoves
        <5>2. ~DispatcherHolds(v)'
          BY <2>1, <3>o, <5>1 DEF WorkerHoldsOwn
        <5>3. wstate[v] \in {-1, 0, 1, 2}
          BY <1>t
        <5> QED BY <1>v, <1>f, <2>1, <4>1, <4>2, <5>1, <5>2, <5>3 DEF OneTask
      <4>10. CASE WaitSleep(w)
        <5>1. wpc[v] \in {"presleep", "asleep"} /\ wpc'[v] \in {"asleep", "ended"}
          BY <1>t, <2>3, <4>10 DEF WaitSleep, WorkerMoves
        <5> QED BY <1>v, <1>f, <2>1, <4>1, <4>2, <5>1 DEF OneTask
      <4> QED BY <3>1, <4>3, <4>4, <4>5, <4>6, <4>7, <4>8, <4>9, <4>10
    <3>2. CASE WaitReset(w)
      <4>1. /\ UNCHANGED <<free, wtasks>> /\ wstate'[v] = 1
            /\ \/ wpc[v] = "resetback" /\ wpc'[v] = "push"
               \/ wpc[v] = "reset" /\ wpc'[v] = "check"
        BY <1>t, <2>3, <3>2 DEF WaitReset, WorkerMoves
      <4>2. (Mine(v)' <=> Mine(v)) /\ (MineAndEmpty(v)' <=> MineAndEmpty(v))
        BY <1>f, <2>1, <4>1 DEF Mine, MineAndEmpty
      <4>3. ~DispatcherHolds(v)'
        BY <2>1, <3>o, <4>1 DEF WorkerHoldsOwn
      <4> QED BY <1>v, <1>f, <2>1, <4>1, <4>2, <4>3 DEF OneTask
    <3>3. CASE TakeBackPush(w)
      <4>1. /\ free' = Append(free, v) /\ UNCHANGED <<wtasks, wstate>>
            /\ wpc[v] = "push" /\ wpc'[v] = "signal"
        BY <1>t, <2>3, <3>3 DEF TakeBackPush, WorkerMoves
      <4>2. Listed(v) = {} /\ ~WithDispatcher(v) /\ wtasks[v] = <<>>
        BY <1>v, <4>1 DEF OneTask, MineAndEmpty, Mine
      <4>3. Listed(v)' = {Len(free')}
        BY <1>t, <4>1, <4>2, ListedAppend
      <4>4. ~DispatcherHolds(v)'
        BY <2>1, <3>o, <4>1 DEF WorkerHoldsOwn
      <4>5. wstate[v] # 2
        BY <1>v, <4>1 DEF OneTask
      <4> QED BY <1>v, <2>1, <4>1, <4>2, <4>3, <4>4, <4>5 DEF OneTask
    <3>4. CASE DoWorkDone(w)
      <4>1. /\ UNCHANGED <<free, wstate>> /\ wtasks'[v] = <<>>
            /\ wpc[v] = "run" /\ wpc'[v] = "loop"
        BY <1>t, <2>3, <3>4 DEF DoWorkDone, WorkerMoves
      <4>2. Mine(v)' /\ MineAndEmpty(v)'
        BY <1>v, <1>f, <2>1, <4>1 DEF OneTask, Mine, MineAndEmpty
      <4>3. Len(wtasks'[v]) <= 1
        BY <4>1
      <4> QED BY <1>v, <1>f, <2>1, <4>1, <4>2, <4>3 DEF OneTask
    <3> QED BY <1>3, <2>3, <3>1, <3>2, <3>3, <3>4 DEF WorkerStep
  <2> QED BY <2>2, <2>3
<1>4. CASE Stop \/ Abort
  <2>1. UNCHANGED <<free, wtasks, dworker>> /\ (dpc' = dpc \/ (dpc = "asleep" /\ dpc' = "check"))
    BY <1>4 DEF Stop, StopBegin, StopRequest, StopNotify, StopJoin, StopWorkerFlag,
      StopWorkerNotify, StopWorkerJoin, StopEnd, stopUnchanged, DispatcherAfterNotify,
      Abort, AbortBegin, AbortInterrupt, AbortWorker, AbortEnd, abortUnchanged
  <2>2. wstate'[v] = wstate[v] \/ wstate'[v] \in {-1, 0}
    BY <1>4, <1>t DEF Stop, StopBegin, StopRequest, StopNotify, StopJoin, StopWorkerFlag,
      StopWorkerNotify, StopWorkerJoin, StopEnd, stopUnchanged,
      Abort, AbortBegin, AbortInterrupt, AbortWorker, AbortEnd, abortUnchanged
  <2>3. wpc'[v] = wpc[v] \/ (wpc[v] = "asleep" /\ wpc'[v] = "woken")
    BY <1>4, <1>t DEF Stop, StopBegin, StopRequest, StopNotify, StopJoin, StopWorkerFlag,
      StopWorkerNotify, StopWorkerJoin, StopEnd, stopUnchanged, WorkerAfterNotify,
      Abort, AbortBegin, AbortInterrupt, AbortWorker, AbortEnd, abortUnchanged
  <2> QED BY <1>v, <1>f, <2>1, <2>2, <2>3, OneTaskKept DEF WithDispatcher, DispatcherHolds
<1>5. CASE SpuriousWake
  <2>1. /\ UNCHANGED <<free, wtasks, dworker, wstate>>
        /\ dpc' = dpc \/ (dpc = "asleep" /\ dpc' = "check")
        /\ wpc'[v] = wpc[v] \/ (wpc[v] = "asleep" /\ wpc'[v] = "woken")
    BY <1>5, <1>t DEF SpuriousWake, WorkerMoves, workerUnchanged, queueVars, workerVars
  <2> QED BY <1>v, <1>f, <2>1, OneTaskKept DEF WithDispatcher, DispatcherHolds
<1>6. CASE UNCHANGED vars
  <2>1. UNCHANGED <<free, wtasks, dworker, wstate, wpc, dpc>>
    BY <1>6 DEF vars, queueVars, workerVars
  <2> QED BY <1>v, <1>f, <2>1, OneTaskKept DEF WithDispatcher, DispatcherHolds
<1> QED
  BY <1>1, <1>2, <1>3, <1>4, <1>5, <1>6 DEF Next

-----------------------------------------------------------------------------
(* Each step maps to a step of the abstract pool, or to none. *)

(* A running or queued task is one that was accepted and is not lost. *)
LEMMA PlacedIsAccepted ==
  ASSUME TypeOK, TaskInv, NEW t \in Task
  PROVE  /\ Running(t) => Held(t) /\ runs[t] > 0
         /\ Queued(t) \/ Held(t) => call[t] \in {"signal", "added"} /\ ~Lost(t)
         /\ Queued(t) => runs[t] = 0
<1>1. \A w \in Worker : wtasks[w] # <<>> => 1 \in 1 .. Len(wtasks[w]) /\ Head(wtasks[w]) = wtasks[w][1]
  BY ListTypes
<1>2. Running(t) => Held(t) /\ runs[t] > 0
  BY <1>1 DEF Running, Held, TaskInv, RunningHeld
<1>3. Queued(t) \/ Held(t) => call[t] \in {"signal", "added"} /\ ~Lost(t)
  BY DEF TaskInv, NotYetPlaced, Lost, TypeOK, CallPC
<1>4. Queued(t) => runs[t] = 0
  BY DEF TaskInv, QueuedNotRun, Queued
<1> QED
  BY <1>2, <1>3, <1>4

(* What becomes of a task does not change unless one of its parts does. *)
LEMMA StatusKept ==
  ASSUME NEW t \in Task, call'[t] = call[t], runs'[t] = runs[t],
         Running(t)' <=> Running(t), Lost(t)' <=> Lost(t)
  PROVE  taskStatus'[t] = taskStatus[t]
BY DEF taskStatus

(* One task changes its status. *)
LEMMA OneStatus ==
  ASSUME NEW t \in Task, NEW s, taskStatus'[t] = s,
         \A u \in Task : u # t => taskStatus'[u] = taskStatus[u]
  PROVE  taskStatus' = [taskStatus EXCEPT ![t] = s]
<1> DEFINE new == [taskStatus EXCEPT ![t] = s]
<1>1. taskStatus' = [u \in Task |-> taskStatus'[u]]
  BY DEF taskStatus
<1>2. new = [u \in Task |-> IF u = t THEN s ELSE taskStatus[u]]
  BY DEF taskStatus
<1>3. \A u \in Task : taskStatus'[u] = IF u = t THEN s ELSE taskStatus[u]
  OBVIOUS
<1> QED
  BY <1>1, <1>2, <1>3

(* No task changes it. *)
LEMMA NoStatus ==
  ASSUME \A u \in Task : taskStatus'[u] = taskStatus[u]
  PROVE  UNCHANGED taskStatus
<1>1. taskStatus' = [u \in Task |-> taskStatus'[u]] /\ taskStatus = [u \in Task |-> taskStatus[u]]
  BY DEF taskStatus
<1> QED
  BY <1>1

(* Counting is the same in both pools. *)
LEMMA SameCount == \A S : Pool!Cardinality(S) = Cardinality(S)
BY DEF Pool!Cardinality, Cardinality

(* Each running task has a worker of its own: beside one that is not        *)
(* running any, there are fewer running tasks than workers.                 *)
LEMMA RoomToRun ==
  ASSUME NEW w \in Worker, wpc[w] # "run"
  PROVE  Cardinality(Pool!TasksIn("running")) < WorkerLimit
<1> DEFINE R == Pool!TasksIn("running")
           f == [t \in R |-> CHOOSE x \in Worker : wpc[x] = "run" /\ Head(wtasks[x]) = t]
<1>1. \A t \in R : Running(t)
  BY DEF Pool!TasksIn, taskStatus
<1>2. \A t \in R : f[t] \in Worker /\ wpc[f[t]] = "run" /\ Head(wtasks[f[t]]) = t
  BY <1>1 DEF Running
<1>3. f \in [R -> Worker \ {w}]
  BY <1>2
<1>4. \A t, u \in R : f[t] = f[u] => t = u
  BY <1>2
<1>5. f \in Injection(R, Worker \ {w})
  BY <1>3, <1>4 DEF Injection, IsInjective
<1>6. IsFiniteSet(Worker) /\ Cardinality(Worker) = WorkerLimit
  BY FS_Interval, WorkerLimitType
<1>7. IsFiniteSet(Worker \ {w}) /\ Cardinality(Worker \ {w}) = WorkerLimit - 1
  BY <1>6, FS_RemoveElement
<1> HIDE DEF f
<1>8. Cardinality(R) <= WorkerLimit - 1 /\ IsFiniteSet(R)
  BY <1>5, <1>7, FS_Injection
<1>9. Cardinality(R) \in Nat
  BY <1>8, FS_CardinalityType
<1> QED
  BY <1>8, <1>9, WorkerLimitType

(* AddWorkTask submits: the test decides on refusal, the push on acceptance. *)
LEMMA MapAddWorkTask ==
  ASSUME TypeOK, TypeOK', TaskInv, TaskInv', NEW t \in Task, AddWorkTask(t)
  PROVE  UNCHANGED taskStatus \/ Pool!Submit(t)
<1>t. call \in [Task -> CallPC] /\ wtasks \in [Worker -> Seq(Task)]
  BY DEF TypeOK
<1>o. \A u \in Task : u # t => call'[u] = call[u]
  BY <1>t DEF AddWorkTask, AddCheck, AddPush, AddSignal
<1>u. UNCHANGED <<runs, wtasks, wpc>>
  BY DEF AddWorkTask, AddCheck, AddPush, AddSignal, workerVars
<1>r. \A u \in Task : (Running(u)' <=> Running(u)) /\ (Held(u)' <=> Held(u))
  BY <1>u DEF Running, Held
<1>1. CASE AddCheck(t) \/ AddSignal(t)
  <2>1. \A u \in Task : Queued(u)' <=> Queued(u)
    BY <1>1 DEF AddCheck, AddSignal, queueVars, Queued
  <2>2. \A u \in Task : u # t => taskStatus'[u] = taskStatus[u]
    BY <1>o, <1>u, <1>r, <2>1, StatusKept DEF Lost
  <2>3. CASE AddCheck(t)
    <3>1. taskStatus[t] = "new" /\ call'[t] \in {"checked", "refused"}
      BY <1>t, <2>3 DEF AddCheck, taskStatus
    <3>2. taskStatus'[t] \in {"new", "refused"}
      BY <3>1 DEF taskStatus
    <3>3. CASE taskStatus'[t] = "new"
      BY <2>2, <3>1, <3>3, NoStatus
    <3>4. CASE taskStatus'[t] = "refused"
      BY <2>2, <3>1, <3>4, OneStatus DEF Pool!Submit
    <3> QED BY <3>2, <3>3, <3>4
  <2>4. CASE AddSignal(t)
    <3>1. call[t] = "signal" /\ call'[t] = "added"
      BY <1>t, <2>4 DEF AddSignal
    <3>2. taskStatus'[t] = taskStatus[t]
      BY <1>u, <1>r, <2>1, <3>1 DEF taskStatus, Lost
    <3> QED BY <2>2, <3>2, NoStatus
  <2> QED BY <1>1, <2>3, <2>4
<1>2. CASE AddPush(t)
  <2>1. call[t] = "checked" /\ call'[t] = "signal" /\ tasks' = Append(tasks, t)
    BY <1>t, <1>2 DEF AddPush
  <2>2. /\ Len(tasks) \in Nat /\ Len(tasks') = Len(tasks) + 1 /\ tasks'[Len(tasks) + 1] = t
        /\ \A i \in 1 .. Len(tasks) : tasks'[i] = tasks[i]
    BY <2>1 DEF TypeOK
  <2>3. \A i \in 1 .. Len(tasks') : i \in 1 .. Len(tasks) \/ i = Len(tasks) + 1
    BY <2>2
  <2>4. \A u \in Task : u # t => (Queued(u)' <=> Queued(u))
    BY <2>2, <2>3 DEF Queued
  <2>5. Queued(t)'
    BY <2>2 DEF Queued
  <2>6. \A u \in Task : u # t => taskStatus'[u] = taskStatus[u]
    BY <1>o, <1>u, <1>r, <2>4, StatusKept DEF Lost
  <2>7. runs'[t] = 0 /\ ~Running(t)'
    <3>1. runs[t] = 0 /\ ~(runs[t] > 0)
      BY <2>1 DEF TaskInv, NotYetPlaced
    <3>2. ~Running(t)
      BY <3>1, PlacedIsAccepted
    <3> QED BY <1>u, <1>r, <3>1, <3>2
  <2>8. taskStatus[t] = "new" /\ taskStatus'[t] = "accepted"
    BY <2>1, <2>5, <2>7 DEF taskStatus, Lost
  <2> QED BY <2>6, <2>8, OneStatus DEF Pool!Submit
<1> QED
  BY <1>1, <1>2 DEF AddWorkTask

(* A task handed over stays accepted. *)
LEMMA MapMove ==
  ASSUME TypeOK, TaskInv, NEW w \in Worker, MovesTask(w)
  PROVE  UNCHANGED taskStatus
<1>1. /\ 1 \in 1 .. Len(tasks) /\ Len(tasks') = Len(tasks) - 1
      /\ \A i \in 1 .. Len(tasks') : i + 1 \in 1 .. Len(tasks) /\ tasks'[i] = tasks[i + 1]
      /\ Len(wtasks'[w]) = Len(wtasks[w]) + 1
      /\ \A i \in 1 .. Len(wtasks[w]) : wtasks'[w][i] = wtasks[w][i]
      /\ wtasks'[w][Len(wtasks[w]) + 1] = tasks[1]
      /\ \A v \in Worker : v # w => wtasks'[v] = wtasks[v]
  BY MovedLists
<1>2. UNCHANGED <<call, runs>> /\ SameRunning
  BY DEF MovesTask
<1>l. /\ Len(tasks) \in Nat /\ Len(wtasks[w]) \in Nat
      /\ \A v \in Worker : wtasks[v] # <<>> =>
           1 \in 1 .. Len(wtasks[v]) /\ Head(wtasks[v]) = wtasks[v][1]
  BY ListTypes
<1>3. \A v \in Worker : wpc[v] = "run" => Head(wtasks'[v]) = Head(wtasks[v])
  <2> SUFFICES ASSUME NEW v \in Worker, wpc[v] = "run"
               PROVE  Head(wtasks'[v]) = Head(wtasks[v])
    OBVIOUS
  <2>1. wtasks[v] # <<>>
    BY DEF TaskInv, RunningHeld
  <2>2. wtasks'[v][1] = wtasks[v][1]
    BY <1>1, <1>l, <2>1
  <2>3. Head(wtasks'[v]) = wtasks'[v][1]
    OBVIOUS
  <2> QED BY <1>l, <2>1, <2>2, <2>3
<1>4. \A t \in Task : Running(t)' <=> Running(t)
  BY <1>2, <1>3 DEF Running, SameRunning
<1>5. ASSUME NEW t \in Task PROVE (Queued(t) \/ Held(t))' <=> (Queued(t) \/ Held(t))
  <2>1. CASE t = tasks[1]
    <3>1. Len(wtasks[w]) + 1 \in 1 .. Len(wtasks'[w])
      BY <1>1, <1>l
    <3>2. Held(t)'
      BY <1>1, <2>1, <3>1 DEF Held
    <3>3. Queued(t)
      BY <1>1, <2>1 DEF Queued
    <3> QED BY <3>2, <3>3
  <2>2. CASE t # tasks[1]
    <3>1. Queued(t)' <=> Queued(t)
      <4>1. ASSUME NEW i \in 1 .. Len(tasks), tasks[i] = t PROVE Queued(t)'
        <5>1. i # 1 /\ i - 1 \in 1 .. Len(tasks') /\ (i - 1) + 1 = i
          BY <1>1, <1>l, <2>2, <4>1
        <5>2. tasks'[i - 1] = t
          BY <1>1, <4>1, <5>1
        <5> QED BY <5>1, <5>2 DEF Queued
      <4>2. Queued(t)' => Queued(t)
        BY <1>1 DEF Queued
      <4> QED BY <4>1, <4>2 DEF Queued
    <3>2. \A i \in 1 .. Len(wtasks'[w]) : i \in 1 .. Len(wtasks[w]) \/ i = Len(wtasks[w]) + 1
      BY <1>1, <1>l
    <3>3. \A i \in 1 .. Len(wtasks[w]) : i \in 1 .. Len(wtasks'[w])
      BY <1>1, <1>l
    <3>4. ASSUME NEW v \in Worker
          PROVE  (\E i \in 1 .. Len(wtasks'[v]) : wtasks'[v][i] = t)
                   <=> \E i \in 1 .. Len(wtasks[v]) : wtasks[v][i] = t
      <4>1. CASE v # w
        BY <1>1, <4>1
      <4>2. CASE v = w
        BY <1>1, <2>2, <3>2, <3>3, <4>2
      <4> QED BY <4>1, <4>2
    <3>5. Held(t)' <=> Held(t)
      BY <3>4 DEF Held
    <3> QED BY <3>1, <3>5
  <2> QED BY <2>1, <2>2
<1>6. \A t \in Task : Lost(t)' <=> Lost(t)
  BY <1>2, <1>5 DEF Lost
<1> QED
  BY <1>2, <1>4, <1>6, StatusKept, NoStatus

(* Work::Run starts an accepted task. *)
LEMMA MapRun ==
  ASSUME TypeOK, TaskInv, TaskInv', NEW w \in Worker, DoWorkRun(w)
  PROVE  \E t \in Task : Pool!Start(t)
<1>t. wpc \in [Worker -> WorkerPC] /\ runs \in [Task -> Nat]
  BY DEF TypeOK
<1>1. /\ wpc[w] = "work" /\ wpc' = [wpc EXCEPT ![w] = "run"]
      /\ UNCHANGED <<tasks, wtasks, call>> /\ wtasks[w] # <<>>
      /\ runs' = [runs EXCEPT ![Head(wtasks[w])] = @ + 1]
  BY DEF DoWorkRun, WorkerMoves, workerUnchanged
<1>2. PICK h \in Task : h = Head(wtasks[w]) /\ h = wtasks[w][1] /\ 1 \in 1 .. Len(wtasks[w])
  BY <1>1, ListTypes
<1>l. \A v \in Worker : wtasks[v] # <<>> => 1 \in 1 .. Len(wtasks[v]) /\ Head(wtasks[v]) = wtasks[v][1]
  BY ListTypes
<1>3. ~Running(h)
  BY <1>1, <1>2, <1>l DEF Running, TaskInv, RunningHeld, HeldOnce
<1>4. runs[h] = 0
  <2>1. ~(runs[h] > 0)
    BY <1>1, <1>2 DEF TaskInv, HeldNotRun
  <2> QED BY <1>t, <2>1
<1>5. Held(h)
  BY <1>2 DEF Held
<1>6. taskStatus[h] = "accepted"
  BY <1>3, <1>4, <1>5, PlacedIsAccepted DEF taskStatus
<1>7. taskStatus'[h] = "running"
  <2>1. Running(h)'
    BY <1>t, <1>1, <1>2 DEF Running
  <2>2. call'[h] \notin {"new", "checked", "refused"}
    BY <1>1, <1>5 DEF TaskInv, NotYetPlaced
  <2> QED BY <2>1, <2>2 DEF taskStatus
<1>8. ASSUME NEW u \in Task, u # h PROVE taskStatus'[u] = taskStatus[u]
  <2>1. runs'[u] = runs[u]
    BY <1>t, <1>1, <1>2, <1>8
  <2>2. Running(u)' <=> Running(u)
    BY <1>t, <1>1, <1>2, <1>8 DEF Running
  <2>3. Lost(u)' <=> Lost(u)
    BY <1>1, <2>1 DEF Lost, Held, Queued
  <2> QED BY <1>1, <2>1, <2>2, <2>3, StatusKept
<1>9. Cardinality(Pool!TasksIn("running")) < WorkerLimit
  BY <1>1, RoomToRun
<1> QED
  BY <1>6, <1>7, <1>8, <1>9, OneStatus, SameCount DEF Pool!Start

(* The return of Work::Run ends the task, and drops what was listed behind  *)
(* it: nothing, when every worker is only handed tasks that it waits for.   *)
LEMMA MapDone ==
  ASSUME TypeOK, TaskInv, TaskInv', EveryOneTask, NEW w \in Worker, DoWorkDone(w)
  PROVE  \E t \in Task : Pool!Finish(t)
<1>t. wpc \in [Worker -> WorkerPC] /\ wtasks \in [Worker -> Seq(Task)]
  BY DEF TypeOK
<1>1. /\ wpc[w] = "run" /\ wpc' = [wpc EXCEPT ![w] = "loop"]
      /\ wtasks' = [wtasks EXCEPT ![w] = <<>>] /\ UNCHANGED <<tasks, call, runs>>
  BY DEF DoWorkDone, WorkerMoves, workerUnchanged
<1>l. /\ \A v \in Worker : wtasks[v] # <<>> =>
           1 \in 1 .. Len(wtasks[v]) /\ Head(wtasks[v]) = wtasks[v][1]
      /\ \A v \in Worker : \A i \in 1 .. Len(wtasks[v]) : wtasks[v][i] \in Task
      /\ Len(wtasks[w]) \in Nat
  BY ListTypes
<1>r. wtasks[w] # <<>> /\ runs[Head(wtasks[w])] > 0
  BY <1>1 DEF TaskInv, RunningHeld
<1>2. PICK h \in Task : h = Head(wtasks[w]) /\ h = wtasks[w][1] /\ 1 \in 1 .. Len(wtasks[w])
  BY <1>l, <1>r
<1> DEFINE Behind(u) == \E i \in 1 .. Len(wtasks[w]) : i # 1 /\ wtasks[w][i] = u
           dropped == {u \in Task : Behind(u)}
<1>3. \A v \in Worker : v # w => wtasks'[v] = wtasks[v] /\ wpc'[v] = wpc[v]
  BY <1>t, <1>1
<1>4. wtasks'[w] = <<>> /\ wpc'[w] = "loop"
  BY <1>t, <1>1
<1>c. \A u \in Task : Held(u) => call[u] \notin {"new", "checked", "refused"}
  BY DEF TaskInv, NotYetPlaced
<1>5. taskStatus[h] = "running" /\ taskStatus'[h] = "done"
  <2>1. Held(h) /\ Running(h)
    BY <1>1, <1>2 DEF Held, Running
  <2>2. ~Running(h)'
    <3>1. ASSUME NEW v \in Worker, wpc'[v] = "run" PROVE Head(wtasks'[v]) # h
      <4>1. v # w /\ wpc[v] = "run" /\ wtasks'[v] = wtasks[v]
        BY <1>3, <1>4, <3>1
      <4>2. wtasks[v] # <<>>
        BY <4>1 DEF TaskInv, RunningHeld
      <4> QED BY <1>2, <1>l, <4>1, <4>2 DEF TaskInv, HeldOnce
    <3> QED BY <3>1 DEF Running
  <2> QED BY <1>1, <1>2, <1>r, <1>c, <2>1, <2>2 DEF taskStatus
<1>6. ASSUME NEW u \in Task, Behind(u)
      PROVE  u # h /\ taskStatus[u] = "accepted" /\ taskStatus'[u] = "dropped"
  <2>1. PICK i \in 1 .. Len(wtasks[w]) : i # 1 /\ wtasks[w][i] = u
    BY <1>6
  <2>2. u # h
    BY <1>2, <2>1 DEF TaskInv, HeldOnce
  <2>3. Held(u) /\ ~(runs[u] > 0)
    BY <2>1 DEF Held, TaskInv, HeldNotRun
  <2>4. runs[u] = 0
    BY <2>3 DEF TypeOK
  <2>5. ~Running(u)
    BY <2>3, PlacedIsAccepted
  <2>6. taskStatus[u] = "accepted"
    BY <1>c, <2>3, <2>4, <2>5, PlacedIsAccepted DEF taskStatus
  <2>7. ~Held(u)'
    <3>1. ASSUME NEW v \in Worker, NEW j \in 1 .. Len(wtasks'[v]) PROVE wtasks'[v][j] # u
      <4>1. v # w
        BY <1>4
      <4> QED BY <1>3, <2>1, <3>1, <4>1 DEF TaskInv, HeldOnce
    <3> QED BY <3>1 DEF Held
  <2>8. ~Queued(u)'
    BY <1>1, <2>1 DEF Queued, TaskInv, QueuedOrHeld
  <2>9. call'[u] \in {"signal", "added"} /\ runs'[u] = 0
    BY <1>1, <2>3, <2>4, PlacedIsAccepted
  <2>10. ~Running(u)'
    BY <1>3, <1>4, <2>5 DEF Running
  <2> QED BY <2>2, <2>6, <2>7, <2>8, <2>9, <2>10 DEF taskStatus, Lost
<1>7. ASSUME NEW u \in Task, u # h, ~Behind(u) PROVE taskStatus'[u] = taskStatus[u]
  <2>1. \A i \in 1 .. Len(wtasks[w]) : wtasks[w][i] # u
    BY <1>2, <1>7
  <2>2. Held(u)' <=> Held(u)
    <3>1. ASSUME Held(u)' PROVE Held(u)
      <4>1. PICK v \in Worker : \E i \in 1 .. Len(wtasks'[v]) : wtasks'[v][i] = u
        BY <3>1 DEF Held
      <4>2. v # w
        BY <1>4, <4>1
      <4> QED BY <1>3, <4>1, <4>2 DEF Held
    <3>2. ASSUME Held(u) PROVE Held(u)'
      BY <1>3, <2>1, <3>2 DEF Held
    <3> QED BY <3>1, <3>2
  <2>3. Running(u)' <=> Running(u)
    BY <1>2, <1>3, <1>4, <1>7 DEF Running
  <2>4. Lost(u)' <=> Lost(u)
    BY <1>1, <2>2 DEF Lost, Queued
  <2> QED BY <1>1, <2>3, <2>4, StatusKept
<1>8. dropped \in SUBSET Pool!TasksIn("accepted")
  BY <1>6 DEF Pool!TasksIn
<1>9. Warm /\ MinWorkers >= MaxWorkers => dropped = {}
  <2> SUFFICES ASSUME Warm, MinWorkers >= MaxWorkers, NEW i \in 1 .. Len(wtasks[w])
               PROVE  i = 1
    OBVIOUS
  <2>1. Len(wtasks[w]) <= 1
    BY DEF EveryOneTask, OneTask
  <2> QED BY <1>l, <2>1
<1>10. taskStatus' = [u \in Task |-> IF u = h THEN "done"
                                     ELSE IF u \in dropped THEN "dropped"
                                     ELSE taskStatus[u]]
  <2>1. \A u \in Task : taskStatus'[u] = IF u = h THEN "done"
                                         ELSE IF u \in dropped THEN "dropped"
                                         ELSE taskStatus[u]
    BY <1>5, <1>6, <1>7
  <2>2. taskStatus' = [u \in Task |-> taskStatus'[u]]
    BY DEF taskStatus
  <2> HIDE DEF dropped
  <2> QED BY <2>1, <2>2
<1> HIDE DEF dropped
<1> QED
  BY <1>5, <1>8, <1>9, <1>10 DEF Pool!Finish

(* Nothing was submitted to a new pool. *)
LEMMA MapInit == Init => Pool!Init
BY DEF Init, Pool!Init, taskStatus

(* Every step is a step of the abstract pool, or invisible in it. *)
LEMMA MapNext ==
  TypeOK /\ TypeOK' /\ ThreadsMade /\ TaskInv /\ TaskInv' /\ EveryOneTask /\ [Next]_vars
    => [Pool!Next]_taskStatus
<1> SUFFICES ASSUME TypeOK, TypeOK', ThreadsMade, TaskInv, TaskInv', EveryOneTask, [Next]_vars
             PROVE  Pool!Next \/ UNCHANGED taskStatus
  OBVIOUS
<1>1. ASSUME NEW t \in Task, AddWorkTask(t) PROVE Pool!Next \/ UNCHANGED taskStatus
  BY <1>1, MapAddWorkTask DEF Pool!Next
<1>2. ASSUME NEW w \in Worker, MovesTask(w) PROVE UNCHANGED taskStatus
  BY <1>2, MapMove
<1>3. ASSUME NEW w \in Worker, DoWorkRun(w) PROVE Pool!Next
  BY <1>3, MapRun DEF Pool!Next
<1>4. ASSUME NEW w \in Worker, DoWorkDone(w) PROVE Pool!Next
  BY <1>4, MapDone DEF Pool!Next
<1>5. ASSUME UNCHANGED <<tasks, wtasks, call, runs>>, SameRunning PROVE UNCHANGED taskStatus
  <2>1. \A u \in Task : (Running(u)' <=> Running(u)) /\ (Lost(u)' <=> Lost(u))
    BY <1>5 DEF Running, Lost, Held, Queued, SameRunning
  <2> QED BY <1>5, <2>1, StatusKept, NoStatus
<1> QED
  BY <1>1, <1>2, <1>3, <1>4, <1>5, TaskSteps

(* The invariants the mapping needs hold in every state. *)
LEMMA MappedStates == Spec => [](TypeOK /\ ThreadsMade /\ TaskInv /\ EveryOneTask)
<1> DEFINE I == TypeOK /\ ThreadsMade /\ OwnMutex /\ TaskInv /\ EveryOneTask
<1>1. Init => I
  BY TypeInit, ThreadsInit, OwnMutexInit, TaskInvInit, OneTaskInit
<1>2. I /\ [Next]_vars => I'
  BY TypeNext, ThreadsNext, OwnMutexNext, TaskInvNext, OneTaskNext
<1> QED
  BY <1>1, <1>2, PTL DEF Spec

(* The thread pool implements the abstract one: whatever the threads do,    *)
(* and whenever it is stopped or aborted, a task is run at most once, never *)
(* after it was refused or dropped, and at most WorkerLimit run at a time;  *)
(* a warm pool that makes no more workers drops none of what it accepted.   *)
THEOREM PoolImplementsTaskPool == Spec => ImplementsTaskPool
<1>1. Init => Pool!Init
  BY MapInit
<1>2. /\ TypeOK /\ ThreadsMade /\ TaskInv /\ EveryOneTask
      /\ (TypeOK /\ ThreadsMade /\ TaskInv /\ EveryOneTask)' /\ [Next]_vars
      => [Pool!Next]_taskStatus
  BY MapNext
<1> QED
  BY <1>1, <1>2, MappedStates, PTL DEF Spec, ImplementsTaskPool, Pool!Spec
=============================================================================
