------------------------------ MODULE WorkPool ------------------------------
(***************************************************************************)
(* The thread pool of src/src/WorkManager.cpp: the queue AddWorkTask fills, *)
(* the dispatcher thread, the worker threads, and the two ways to shut the *)
(* pool down (Stop and Abort).                                             *)
(*                                                                         *)
(* One step is one access to shared state: either a critical section, when *)
(* the code guards it with a mutex, or a single read or write, when it     *)
(* does not (Stop and Abort "lock nothing").  The two mutexes that are     *)
(* held across several steps are not variables, they follow from the       *)
(* program counters: m_dispatchermutex is held by the dispatcher between   *)
(* its test of m_workreq and the wait, the m_mutex of a worker is held by  *)
(* that worker inside WaitForNewWork and by the dispatcher in GoToWork.    *)
(* m_taskmutex and m_workermutex guard single steps.                       *)
(*                                                                         *)
(* A task stands for a (work, buffer) pair: m_works and m_tasks are always *)
(* pushed and popped together.  Each task is submitted by one AddWorkTask  *)
(* call, on a thread of its own, so calls overlap in every way.            *)
(***************************************************************************)
EXTENDS Naturals, Integers, Sequences, FiniteSets

CONSTANTS
  Task,        (* the tasks submitted, one AddWorkTask call for each         *)
  MinWorkers,  (* m_minworkercount, after the defaults of the constructor    *)
  MaxWorkers,  (* m_maxworkercount, likewise: possibly less than MinWorkers  *)
  Warm,        (* TRUE: start where every initial worker waits for work      *)
  ShutDown     (* the shut-down calls the application may make               *)

ASSUME PoolAssumption ==
  /\ IsFiniteSet(Task)
  /\ MinWorkers \in Nat \ {0}
  /\ MaxWorkers \in Nat \ {0}
  /\ Warm \in BOOLEAN
  /\ ShutDown \subseteq {"stop", "abort"}

(* A worker is known by its position in m_workers. *)
WorkerLimit == IF MinWorkers > MaxWorkers THEN MinWorkers ELSE MaxWorkers
Worker == 1 .. WorkerLimit
NoWorker == 0
Dispatcher == 0      (* the dispatcher, among the threads to interrupt *)

VARIABLES
  state,     (* m_state of the manager: 1 running, 0 stopping, -1 stopped    *)
  workreq,   (* m_workreq: dispatch requests nobody has served               *)
  tasks,     (* m_works / m_tasks                                            *)
  free,      (* m_freelist                                                   *)
  nworkers,  (* m_workers.size()                                             *)
  wstate,    (* m_state of each worker: 1 waiting, 2 working, <= 0 stopped   *)
  wtasks,    (* m_works / m_tasks of each worker                             *)
  wpc,       (* program counter of each worker thread                        *)
  dpc,       (* program counter of the dispatcher thread                     *)
  dworker,   (* the local variable "worker" of Dispatch                      *)
  call,      (* program counter of each AddWorkTask call                     *)
  runs,      (* how many times Work::Run was entered with each task          *)
  spc,       (* program counter of the thread that shuts the pool down       *)
  sindex,    (* its loop index over m_workers ...                            *)
  slimit,    (* ... and the "count" it read before the loop                  *)
  interrupted  (* the threads boost::thread::interrupt was called on         *)

queueVars == <<workreq, tasks, free, nworkers>>
workerVars == <<wstate, wtasks, wpc>>
stopVars == <<spc, sindex, slimit, interrupted>>
vars == <<state, queueVars, workerVars, dpc, dworker, call, runs, stopVars>>

WorkerPC == {"unborn", "loop", "enter", "read", "reset", "resetback", "push",
             "signal", "check", "presleep", "asleep", "woken", "work", "run",
             "ended"}
DispatcherPC == {"loop", "check", "presleep", "asleep", "test", "take", "go",
                 "wake", "ended"}
CallPC == {"new", "checked", "signal", "added", "refused"}
StopPC == {"idle", "request", "notify", "join", "flag", "wnotify", "wjoin",
           "stopped", "cut", "wcut", "aborted"}

-----------------------------------------------------------------------------
(* Who holds the mutexes that outlive a step. *)

DispatcherMutexFree == dpc # "presleep"

WorkerHoldsOwn(w) ==
  wpc[w] \in {"read", "reset", "resetback", "push", "signal", "check", "presleep"}
DispatcherHolds(w) == dpc = "wake" /\ dworker = w

(* notify_one on the condition variables: each has at most one waiter. *)
DispatcherAfterNotify == IF dpc = "asleep" THEN "check" ELSE dpc
WorkerAfterNotify(w) == IF wpc[w] = "asleep" THEN "woken" ELSE wpc[w]

(* Fault: only notified, so that a busy dispatcher misses it. *)
RequestNotCounted ==
  /\ DispatcherMutexFree
  /\ dpc' = DispatcherAfterNotify
  /\ UNCHANGED workreq

(* m_workreq++ and notify_one, under m_dispatchermutex. *)
RequestDispatch ==
  /\ DispatcherMutexFree
  /\ workreq' = workreq + 1
  /\ dpc' = DispatcherAfterNotify

-----------------------------------------------------------------------------
(* The constructor.  Every initial worker is in m_freelist before its      *)
(* thread has run a single instruction; a warm pool is the later state in  *)
(* which each of them has reached its wait and nothing was submitted yet.  *)

Init ==
  /\ state = 1
  /\ workreq = 0
  /\ tasks = <<>>
  /\ free = [i \in 1 .. MinWorkers |-> i]
  /\ nworkers = MinWorkers
  /\ wstate = [w \in Worker |-> 1]
  /\ wtasks = [w \in Worker |-> <<>>]
  /\ wpc = [w \in Worker |-> IF w > MinWorkers THEN "unborn"
                             ELSE IF Warm THEN "asleep" ELSE "loop"]
  /\ dpc = "loop"
  /\ dworker = NoWorker
  /\ call = [t \in Task |-> "new"]
  /\ runs = [t \in Task |-> 0]
  /\ spc = "idle"
  /\ sindex = 1
  /\ slimit = 0
  /\ interrupted = {}

-----------------------------------------------------------------------------
(* AddWorkTask: test m_state without a lock, push, then ask for a dispatch. *)

AddCheck(t) ==
  /\ call[t] = "new"
  /\ call' = [call EXCEPT ![t] = IF state > 0 THEN "checked" ELSE "refused"]
  /\ UNCHANGED <<state, queueVars, workerVars, dpc, dworker, runs, stopVars>>

AddPush(t) ==
  /\ call[t] = "checked"
  /\ call' = [call EXCEPT ![t] = "signal"]
  /\ tasks' = Append(tasks, t)
  /\ UNCHANGED <<state, workreq, free, nworkers, workerVars, dpc, dworker, runs, stopVars>>

AddSignal(t) ==
  /\ call[t] = "signal"
  /\ call' = [call EXCEPT ![t] = "added"]
  /\ RequestDispatch
  /\ UNCHANGED <<state, tasks, free, nworkers, workerVars, dworker, runs, stopVars>>

AddWorkTask(t) == AddCheck(t) \/ AddPush(t) \/ AddSignal(t)

-----------------------------------------------------------------------------
(* The dispatcher thread: Dispatch, WaitForWork and Worker::GoToWork. *)

dispatchUnchanged == <<state, call, runs, stopVars>>

DispatchLoop ==
  /\ dpc = "loop"
  /\ dpc' = IF state > 0 THEN "check" ELSE "ended"
  /\ UNCHANGED <<dispatchUnchanged, queueVars, workerVars, dworker>>

(* The test of WaitForWork; on a request it is consumed there and then. *)
DispatchCheck ==
  /\ dpc = "check"
  /\ \/ /\ workreq <= 0
        /\ dpc' = "presleep"
        /\ UNCHANGED workreq
     \/ /\ workreq > 0
        /\ dpc' = "test"
        /\ workreq' = workreq - 1
  /\ UNCHANGED <<dispatchUnchanged, tasks, free, nworkers, workerVars, dworker>>

(* The wait itself: it gives m_dispatchermutex up, and is the interruption *)
(* point of boost::thread.                                                 *)
DispatchSleep ==
  /\ \/ dpc = "presleep"
     \/ dpc = "asleep" /\ Dispatcher \in interrupted
  /\ dpc' = IF Dispatcher \in interrupted THEN "ended" ELSE "asleep"
  /\ UNCHANGED <<dispatchUnchanged, queueVars, workerVars, dworker>>

DispatchTest ==
  /\ dpc = "test"
  /\ dpc' = IF state > 0 THEN "take" ELSE "loop"
  /\ dworker' = NoWorker
  /\ UNCHANGED <<dispatchUnchanged, queueVars, workerVars>>

(* Hand the first task to worker w: SetWorkTask, and both queues popped. *)
HandOver(w) ==
  /\ dworker' = w
  /\ wtasks' = [wtasks EXCEPT ![w] = Append(@, Head(tasks))]
  /\ tasks' = Tail(tasks)
  /\ dpc' = "go"

TakeFree ==
  /\ dpc = "take" /\ tasks # <<>> /\ free # <<>>
  /\ HandOver(Head(free))
  /\ free' = Tail(free)
  /\ UNCHANGED <<dispatchUnchanged, workreq, nworkers, wstate, wpc>>

(* A worker made here is not put in m_freelist: it joins it on its own. *)
TakeNew ==
  /\ dpc = "take" /\ tasks # <<>> /\ free = <<>> /\ nworkers < MaxWorkers
  /\ nworkers' = nworkers + 1
  /\ wpc' = [wpc EXCEPT ![nworkers + 1] = "loop"]
  /\ HandOver(nworkers + 1)
  /\ UNCHANGED <<dispatchUnchanged, workreq, free, wstate>>

TakeNothing ==
  /\ dpc = "take"
  /\ tasks = <<>> \/ (free = <<>> /\ nworkers >= MaxWorkers)
  /\ dpc' = "loop"
  /\ UNCHANGED <<dispatchUnchanged, queueVars, workerVars, dworker>>

GoToWorkLock ==
  /\ dpc = "go"
  /\ ~WorkerHoldsOwn(dworker)
  /\ dpc' = IF wstate[dworker] > 0 THEN "wake" ELSE "loop"
  /\ dworker' = IF wstate[dworker] > 0 THEN dworker ELSE NoWorker
  /\ UNCHANGED <<dispatchUnchanged, queueVars, workerVars>>

GoToWorkNotify ==
  /\ dpc = "wake"
  /\ wstate' = [wstate EXCEPT ![dworker] = 2]
  /\ wpc' = [wpc EXCEPT ![dworker] = WorkerAfterNotify(dworker)]
  /\ dpc' = "loop"
  /\ dworker' = NoWorker
  /\ UNCHANGED <<dispatchUnchanged, queueVars, wtasks>>

Dispatch ==
  \/ DispatchLoop \/ DispatchCheck \/ DispatchSleep \/ DispatchTest
  \/ TakeFree \/ TakeNew \/ TakeNothing
  \/ GoToWorkLock \/ GoToWorkNotify

-----------------------------------------------------------------------------
(* A worker thread: Start, WaitForNewWork (with TakeBack) and DoWork. *)

workerUnchanged == <<state, nworkers, dworker, call, stopVars>>

WorkerMoves(w, from, to) ==
  /\ wpc[w] = from
  /\ wpc' = [wpc EXCEPT ![w] = to]

WorkerLoop(w) ==
  /\ WorkerMoves(w, "loop", IF wstate[w] > 0 THEN "enter" ELSE "ended")
  /\ UNCHANGED <<workerUnchanged, workreq, tasks, free, wstate, wtasks, dpc, runs>>

(* WaitForNewWork takes the worker's m_mutex. *)
WaitEnter(w) ==
  /\ ~DispatcherHolds(w)
  /\ WorkerMoves(w, "enter", IF wstate[w] > 0 THEN "read" ELSE "work")
  /\ UNCHANGED <<workerUnchanged, workreq, tasks, free, wstate, wtasks, dpc, runs>>

(* Fault: a worker that was not at work gives itself back too. *)
WaitReadAlways(w) ==
  /\ WorkerMoves(w, "read", "resetback")
  /\ UNCHANGED <<workerUnchanged, workreq, tasks, free, wstate, wtasks, dpc, runs>>

(* needtakeback = m_state > 1: kept in the program counter. *)
WaitRead(w) ==
  /\ WorkerMoves(w, "read", IF wstate[w] > 1 THEN "resetback" ELSE "reset")
  /\ UNCHANGED <<workerUnchanged, workreq, tasks, free, wstate, wtasks, dpc, runs>>

WaitReset(w) ==
  /\ \/ WorkerMoves(w, "resetback", "push")
     \/ WorkerMoves(w, "reset", "check")
  /\ wstate' = [wstate EXCEPT ![w] = 1]
  /\ UNCHANGED <<workerUnchanged, workreq, tasks, free, wtasks, dpc, runs>>

TakeBackPush(w) ==
  /\ WorkerMoves(w, "push", "signal")
  /\ free' = Append(free, w)
  /\ UNCHANGED <<workerUnchanged, workreq, tasks, wstate, wtasks, dpc, runs>>

TakeBackSignal(w) ==
  /\ WorkerMoves(w, "signal", "check")
  /\ RequestDispatch
  /\ UNCHANGED <<workerUnchanged, tasks, free, wstate, wtasks, runs>>

WaitCheck(w) ==
  /\ LET next == IF wstate[w] = 1 THEN "presleep" ELSE "work"
     IN  \/ WorkerMoves(w, "check", next)
         \/ ~DispatcherHolds(w) /\ WorkerMoves(w, "woken", next)
  /\ UNCHANGED <<workerUnchanged, workreq, tasks, free, wstate, wtasks, dpc, runs>>

WaitSleep(w) ==
  /\ LET next == IF w \in interrupted THEN "ended" ELSE "asleep"
     IN  \/ WorkerMoves(w, "presleep", next)
         \/ w \in interrupted /\ WorkerMoves(w, "asleep", next)
  /\ UNCHANGED <<workerUnchanged, workreq, tasks, free, wstate, wtasks, dpc, runs>>

(* DoWork runs the front task only ... *)
DoWorkRun(w) ==
  /\ wstate[w] > 0 /\ wtasks[w] # <<>>
  /\ WorkerMoves(w, "work", "run")
  /\ runs' = [runs EXCEPT ![Head(wtasks[w])] = @ + 1]
  /\ UNCHANGED <<workerUnchanged, workreq, tasks, free, wstate, wtasks, dpc>>

DoWorkNothing(w) ==
  /\ wstate[w] <= 0 \/ wtasks[w] = <<>>
  /\ WorkerMoves(w, "work", "loop")
  /\ UNCHANGED <<workerUnchanged, workreq, tasks, free, wstate, wtasks, dpc, runs>>

(* Fault: the lists are not emptied. *)
DoWorkKeeps(w) ==
  /\ WorkerMoves(w, "run", "loop")
  /\ UNCHANGED <<workerUnchanged, workreq, tasks, free, wstate, wtasks, dpc, runs>>

(* ... and empties both lists when it has returned. *)
DoWorkDone(w) ==
  /\ WorkerMoves(w, "run", "loop")
  /\ wtasks' = [wtasks EXCEPT ![w] = <<>>]
  /\ UNCHANGED <<workerUnchanged, workreq, tasks, free, wstate, dpc, runs>>

WorkerStep(w) ==
  \/ WorkerLoop(w) \/ WaitEnter(w) \/ WaitRead(w) \/ WaitReset(w)
  \/ TakeBackPush(w) \/ TakeBackSignal(w) \/ WaitCheck(w) \/ WaitSleep(w)
  \/ DoWorkRun(w) \/ DoWorkNothing(w) \/ DoWorkDone(w)

-----------------------------------------------------------------------------
(* Stop: the dispatcher first, then each worker, one unlocked access a step. *)

stopUnchanged == <<tasks, free, nworkers, wtasks, dworker, call, runs, interrupted>>

StopMoves(from, to) == spc = from /\ spc' = to

StopBegin ==
  /\ "stop" \in ShutDown /\ state > 0
  /\ StopMoves("idle", "request")
  /\ state' = 0
  /\ UNCHANGED <<stopUnchanged, workreq, wstate, wpc, dpc, sindex, slimit>>

StopRequest ==
  /\ StopMoves("request", "notify")
  /\ workreq' = 1
  /\ UNCHANGED <<stopUnchanged, state, wstate, wpc, dpc, sindex, slimit>>

StopNotify ==
  /\ StopMoves("notify", "join")
  /\ dpc' = DispatcherAfterNotify
  /\ UNCHANGED <<stopUnchanged, state, workreq, wstate, wpc, sindex, slimit>>

(* The join returns; "count" of Stop's loop is read. *)
StopJoin ==
  /\ dpc = "ended"
  /\ StopMoves("join", "flag")
  /\ state' = -1
  /\ slimit' = nworkers
  /\ UNCHANGED <<stopUnchanged, workreq, wstate, wpc, dpc, sindex>>

StopWorkerFlag ==
  /\ StopMoves("flag", "wnotify")
  /\ sindex <= slimit /\ wstate[sindex] > 0
  /\ wstate' = [wstate EXCEPT ![sindex] = 0]
  /\ UNCHANGED <<stopUnchanged, state, workreq, wpc, dpc, sindex, slimit>>

StopWorkerNotify ==
  /\ StopMoves("wnotify", "wjoin")
  /\ wpc' = [wpc EXCEPT ![sindex] = WorkerAfterNotify(sindex)]
  /\ UNCHANGED <<stopUnchanged, state, workreq, wstate, dpc, sindex, slimit>>

(* Fault: the workers are not joined. *)
StopJoinsNoWorker ==
  /\ StopMoves("wjoin", "flag")
  /\ wstate' = [wstate EXCEPT ![sindex] = -1]
  /\ sindex' = sindex + 1
  /\ UNCHANGED <<stopUnchanged, state, workreq, wpc, dpc, slimit>>

StopWorkerJoin ==
  /\ StopMoves("wjoin", "flag")
  /\ wpc[sindex] = "ended"
  /\ wstate' = [wstate EXCEPT ![sindex] = -1]
  /\ sindex' = sindex + 1
  /\ UNCHANGED <<stopUnchanged, state, workreq, wpc, dpc, slimit>>

StopEnd ==
  /\ sindex > slimit
  /\ StopMoves("flag", "stopped")
  /\ UNCHANGED <<stopUnchanged, state, workreq, wstate, wpc, dpc, sindex, slimit>>

Stop == \/ StopBegin \/ StopRequest \/ StopNotify \/ StopJoin
        \/ StopWorkerFlag \/ StopWorkerNotify \/ StopWorkerJoin \/ StopEnd

-----------------------------------------------------------------------------
(* Abort: interrupt the dispatcher, then each worker; nothing is joined. *)

abortUnchanged ==
  <<workreq, tasks, free, nworkers, wtasks, wpc, dpc, dworker, call, runs>>

AbortBegin ==
  /\ "abort" \in ShutDown /\ state > 0
  /\ StopMoves("idle", "cut")
  /\ state' = -1
  /\ UNCHANGED <<abortUnchanged, wstate, sindex, slimit, interrupted>>

AbortInterrupt ==
  /\ StopMoves("cut", "wcut")
  /\ interrupted' = interrupted \cup {Dispatcher}
  /\ slimit' = nworkers
  /\ UNCHANGED <<abortUnchanged, state, wstate, sindex>>

AbortWorker ==
  /\ StopMoves("wcut", "wcut")
  /\ sindex <= slimit
  /\ wstate' = [wstate EXCEPT ![sindex] = IF @ > 0 THEN -1 ELSE @]
  /\ interrupted' = IF wstate[sindex] > 0 THEN interrupted \cup {sindex} ELSE interrupted
  /\ sindex' = sindex + 1
  /\ UNCHANGED <<abortUnchanged, state, slimit>>

AbortEnd ==
  /\ sindex > slimit
  /\ StopMoves("wcut", "aborted")
  /\ UNCHANGED <<abortUnchanged, state, wstate, sindex, slimit, interrupted>>

Abort == AbortBegin \/ AbortInterrupt \/ AbortWorker \/ AbortEnd

-----------------------------------------------------------------------------
(* A condition variable may wake its waiter for no reason. *)

SpuriousWake ==
  \/ /\ dpc = "asleep"
     /\ dpc' = "check"
     /\ UNCHANGED <<dispatchUnchanged, queueVars, workerVars, dworker>>
  \/ \E w \in Worker :
     /\ WorkerMoves(w, "asleep", "woken")
     /\ UNCHANGED <<workerUnchanged, workreq, tasks, free, wstate, wtasks, dpc, runs>>

Next ==
  \/ \E t \in Task : AddWorkTask(t)
  \/ Dispatch
  \/ \E w \in Worker : WorkerStep(w)
  \/ Stop
  \/ Abort
  \/ SpuriousWake

Spec == Init /\ [][Next]_vars

(* Threads keep running and Work::Run returns.  Who waits for a mutex gets *)
(* it in the end, even if its owner keeps waking from its wait for no      *)
(* reason and taking the mutex to look again: hence the strong fairness.   *)
Fairness ==
  /\ \A t \in Task : WF_vars(AddPush(t)) /\ SF_vars(AddSignal(t))
  /\ WF_vars(Dispatch) /\ SF_vars(GoToWorkLock)
  /\ \A w \in Worker : WF_vars(WorkerStep(w)) /\ SF_vars(TakeBackSignal(w))
  /\ WF_vars(Stop /\ spc # "idle")

FairSpec == Spec /\ Fairness

-----------------------------------------------------------------------------
(* Properties.                                                             *)

(* The type of every variable. *)
TypeOK ==
  /\ state \in {-1, 0, 1}
  /\ workreq \in Nat
  /\ tasks \in Seq(Task)
  /\ free \in Seq(Worker)
  /\ nworkers \in 1 .. WorkerLimit
  /\ wstate \in [Worker -> {-1, 0, 1, 2}]
  /\ wtasks \in [Worker -> Seq(Task)]
  /\ wpc \in [Worker -> WorkerPC]
  /\ dpc \in DispatcherPC
  /\ dworker \in Worker \cup {NoWorker}
  /\ dpc \in {"go", "wake"} => dworker \in Worker
  /\ call \in [Task -> CallPC]
  /\ runs \in [Task -> Nat]
  /\ spc \in StopPC
  /\ sindex \in Nat \ {0}
  /\ spc \in {"wnotify", "wjoin"} => sindex \in Worker
  /\ slimit \in 0 .. WorkerLimit
  /\ interrupted \subseteq Worker \cup {Dispatcher}

(* The calls and workers that have made something to dispatch and are      *)
(* about to ask for it.                                                    *)
SignallingCalls == {t \in Task : call[t] = "signal"}
SignallingWorkers == {w \in Worker : wpc[w] = "signal"}

(* While the pool runs and the dispatcher waits, with no dispatch request  *)
(* on its way, there is nothing it could hand over: no task is queued, or  *)
(* every worker is taken and no more may be made.  This is what the        *)
(* counting of m_workreq in AddWorkTask, TakeBack and WaitForWork is for.  *)
NoLostDispatch ==
  state = 1 /\ dpc = "asleep" /\ SignallingCalls = {} /\ SignallingWorkers = {}
    => tasks = <<>> \/ (free = <<>> /\ nworkers >= MaxWorkers)

(* Why that is so: the dispatch requests that are pending, on their way or *)
(* being served are enough to hand over all that can be handed over, and   *)
(* the dispatcher waits only when it has seen none.                        *)
Requests ==
  workreq + Cardinality(SignallingCalls) + Cardinality(SignallingWorkers)
    + (IF dpc \in {"test", "take"} THEN 1 ELSE 0)
Room == Len(free) + (IF nworkers < MaxWorkers THEN MaxWorkers - nworkers ELSE 0)

RequestsCoverWork ==
  state = 1 =>
    /\ spc = "idle"
    /\ Len(tasks) <= Requests \/ Room <= Requests
    /\ dpc \in {"presleep", "asleep"} => workreq = 0

(* A worker of the running pool is in exactly one hand: once in m_freelist, *)
(* or with the dispatcher, or sent to work, or about to give itself back.   *)
(* A second listing would hand two tasks to one worker, none would leak it. *)
Listed(w) == {i \in 1 .. Len(free) : free[i] = w}
WithDispatcher(w) == dpc \in {"go", "wake"} /\ dworker = w
InOneHand(w) ==
  \/ /\ \E i \in 1 .. Len(free) : Listed(w) = {i}
     /\ ~WithDispatcher(w) /\ wstate[w] = 1 /\ wpc[w] # "push"
  \/ Listed(w) = {} /\ WithDispatcher(w) /\ wstate[w] = 1 /\ wpc[w] # "push"
  \/ Listed(w) = {} /\ ~WithDispatcher(w) /\ wstate[w] = 2 /\ wpc[w] # "push"
  \/ Listed(w) = {} /\ ~WithDispatcher(w) /\ wstate[w] = 1 /\ wpc[w] = "push"
EveryWorkerInOneHand ==
  state = 1 => \A w \in 1 .. nworkers : InOneHand(w)

(* A task accepted, no longer queued, held by no worker, and never run.    *)
Held(t) == \E w \in Worker : \E i \in 1 .. Len(wtasks[w]) : wtasks[w][i] = t
Queued(t) == \E i \in 1 .. Len(tasks) : tasks[i] = t
Lost(t) == call[t] \in {"signal", "added"} /\ runs[t] = 0 /\ ~Held(t) /\ ~Queued(t)

(* A worker of a warm pool gets its next task after it has run the last:   *)
(* what DoWork empties is what it ran, so no task is ever dropped.         *)
NoTaskDropped == \A t \in Task : ~Lost(t)

(* When Stop returns the dispatcher and every worker it ever made have     *)
(* ended: no task is running, and none can start.                          *)
StoppedMeansEnded ==
  spc = "stopped" =>
    /\ dpc = "ended"
    /\ \A w \in Worker : wpc[w] \in {"unborn", "ended"}

(* Once the pool stops taking calls, no worker is made that Stop's loop    *)
(* over m_workers could miss.                                              *)
StopSeesEveryWorker ==
  spc \in {"flag", "wnotify", "wjoin", "stopped"} => slimit = nworkers

=============================================================================
