----------------------------- MODULE Lifetimes -----------------------------
(***************************************************************************)
(* How the sample programs end.  main() makes its objects, which refer to  *)
(* one another by shared pointers, and a thread reads commands; then the   *)
(* locals are released, the last one first, and what nothing refers to any *)
(* more is destroyed by the thread that dropped the last reference.        *)
(* Meanwhile a thread of the io_service and workers serve the sessions,    *)
(* which know the session manager of their endpoint and their io_service   *)
(* by plain references.                                                    *)
(***************************************************************************)
EXTENDS Integers, Sequences, FiniteSets

CONSTANTS
  Sample,       (* the programs to look at, of those below                   *)
  LifeSession   (* sessions; a client has one of them (bound)                *)

(* What main() of a sample makes, and what the library makes of it.        *)
NamedObject ==
  {"work", "workmgr", "bufmgr", "svcmgr", "handler", "filter", "clients", "endpoint", "service"}

(* Sessions are told from other objects, and from none.                    *)
ASSUME LifeAssumption ==
  /\ LifeSession # {} /\ LifeSession \cap NamedObject = {} /\ "none" \notin LifeSession
  /\ Sample \subseteq {"ClayServer", "ClayClient", "ChatServer", "ChatClient", "JsonServer", "C10kServer",
                      "JsonClient", "JsonClients", "C10kClients"}

VARIABLES
  sample,     (* the program                                                 *)
  stdin,      (* std::cin: "good", or "failed" by a line too long or its end *)
  step,       (* of main: "input", "quit", "release", "over"                 *)
  left,       (* how many of the locals are alive                            *)
  globals,    (* the objects its global pointers refer to                    *)
  alive,      (* the objects that are not destroyed                          *)
  dying,      (* of each object: the thread that destroys it, or "nobody"    *)
  endpoint,   (* the server or client: "idle", "started", "cleared", "stopped" *)
  cnnok,      (* the client was once seen connected                          *)
  fresh,      (* sessions not opened yet                                     *)
  open,       (* sessions with m_state > 0                                   *)
  registered, (* m_climgr                                                    *)
  pending,    (* sessions an operation on the io_service refers to           *)
  queued,     (* sessions of the tasks in the work pool                      *)
  io,         (* the session of the handler the service runs, or "none"      *)
  working,    (* sessions workers have in hand                               *)
  counting,   (* sessions the command :count has in hand                     *)
  leftover,   (* history: sessions in hand when Stop cleared the manager or  *)
              (* deleted the io_service                                      *)
  misused,    (* history: what another session used was destroyed            *)
  terminated  (* an exception or a signal ended the program                  *)

mainVars == <<sample, stdin, step, left, globals, cnnok, counting>>
objectVars == <<alive, dying, endpoint>>
sessionVars == <<fresh, open, registered, pending, queued>>
threadVars == <<io, working>>
historyVars == <<leftover, misused, terminated>>
lifeVars == <<mainVars, objectVars, sessionVars, threadVars, historyVars>>

-----------------------------------------------------------------------------
(* The programs: the locals of main() in the order of their declarations,  *)
(* the globals, what the objects are given to refer to, and what the       *)
(* thread that reads commands is given.                                    *)

ClayServer ==
  [side |-> "server", ssl |-> FALSE, given |-> "endpoint", globals |-> {},
   locals |-> <<"work", "workmgr", "bufmgr", "handler", "filter", "endpoint">>,
   refs |-> [workmgr |-> {"bufmgr"}, handler |-> {"workmgr", "work"},
             endpoint |-> {"filter", "handler", "bufmgr"}]]

ClayClient == [ClayServer EXCEPT !.side = "client"]

ChatServer ==
  [side |-> "server", ssl |-> FALSE, given |-> "endpoint", globals |-> {},
   locals |-> <<"bufmgr", "handler", "filter", "endpoint">>,
   refs |-> [endpoint |-> {"filter", "handler", "bufmgr"}]]

ChatClient == [ChatServer EXCEPT !.side = "client"]

JsonServer ==
  [side |-> "server", ssl |-> TRUE, given |-> "endpoint", globals |-> {},
   locals |-> <<"workmgr", "bufmgr", "svcmgr", "handler", "filter", "endpoint", "work">>,
   refs |-> [workmgr |-> {"bufmgr", "work"}, svcmgr |-> {"service"}, handler |-> {"workmgr"},
             endpoint |-> {"svcmgr", "filter", "handler", "bufmgr"}]]

C10kServer == [JsonServer EXCEPT !.ssl = FALSE]

JsonClient ==
  [side |-> "client", ssl |-> FALSE, given |-> "endpoint", globals |-> {},
   locals |-> <<"workmgr", "bufmgr", "handler", "filter", "endpoint", "work">>,
   refs |-> [workmgr |-> {"bufmgr", "work"}, handler |-> {"workmgr"},
             endpoint |-> {"filter", "handler", "bufmgr"}]]

(* The clients are in a vector; the handler has but its address. *)
JsonClients ==
  [side |-> "clients", ssl |-> TRUE, given |-> "handler", globals |-> {},
   locals |-> <<"workmgr", "bufmgr", "clients", "handler", "filter", "svcmgr", "work">>,
   refs |-> [workmgr |-> {"bufmgr", "work"}, svcmgr |-> {"service"}, handler |-> {"workmgr"},
             clients |-> {"endpoint"},
             endpoint |-> {"filter", "handler", "bufmgr", "svcmgr"}]]

(* The vector is the handler's, and the clients refer to the handler.      *)
C10kClients ==
  [side |-> "clients", ssl |-> FALSE, given |-> "handler",
   globals |-> {"handler", "filter", "bufmgr", "svcmgr"},
   locals |-> <<"workmgr", "bufmgr", "handler", "filter", "svcmgr", "work">>,
   refs |-> [workmgr |-> {"bufmgr", "work"}, svcmgr |-> {"service"},
             handler |-> {"workmgr", "endpoint"},
             endpoint |-> {"filter", "handler", "bufmgr", "svcmgr"}]]

Main ==
  CASE sample = "ClayServer" -> ClayServer
    [] sample = "ClayClient" -> ClayClient
    [] sample = "ChatServer" -> ChatServer
    [] sample = "ChatClient" -> ChatClient
    [] sample = "JsonServer" -> JsonServer
    [] sample = "C10kServer" -> C10kServer
    [] sample = "JsonClient" -> JsonClient
    [] sample = "JsonClients" -> JsonClients
    [] sample = "C10kClients" -> C10kClients

Object == NamedObject \cup LifeSession

Pooled == "workmgr" \in DOMAIN Main.refs
Shared == "svcmgr" \in DOMAIN Main.refs

-----------------------------------------------------------------------------
(* Who refers to what.                                                     *)

(* Fault: a session keeps the owner of its manager. *)
SessionRefsOwner == {"handler", "filter", "bufmgr", "endpoint"}

SessionRefs == {"handler", "filter", "bufmgr"}

(* Fault: a buffer refers to its session, a task of the pool to its buffer. *)
KeptByTasks == queued

(* Buffers know their session by a weak pointer: a task keeps none alive.  *)
KeptByTask == {}

GivenTo(o) == IF o \in DOMAIN Main.refs THEN Main.refs[o] ELSE {}

(* An endpoint without a pool of services makes one of its own.            *)
Refs(o) ==
  CASE o \in LifeSession -> SessionRefs
    [] o = "endpoint" ->
         GivenTo(o) \cup registered \cup
         (IF ~Shared /\ endpoint \in {"started", "cleared"} THEN {"service"} ELSE {})
    [] o = "service" -> pending
    [] o = "workmgr" -> GivenTo(o) \cup KeptByTask
    [] OTHER -> GivenTo(o)

(* Locals, globals and what a thread has in hand.                          *)
Roots ==
  {Main.locals[i] : i \in 1 .. left} \cup globals \cup counting \cup working
    \cup (IF step \in {"input", "quit"} THEN {Main.given} ELSE {})
    \cup (IF io = "none" THEN {} ELSE {io}) \cup (IF working = {} THEN {} ELSE {"work"})

Referred == Roots \cup UNION {Refs(o) : o \in alive}

(* What a step of t leaves unreferenced is t's to destroy.                 *)
DroppedBy(t) ==
  \E dropped \in {alive' \ Referred'} :
    dying' = [o \in Object |-> IF o \notin alive' THEN "nobody"
                               ELSE IF dying[o] = "nobody" /\ o \in dropped THEN t ELSE dying[o]]

Free(t) == \A o \in Object : dying[o] # t

(* A session uses o, which must not be destroyed.  On a shared service the *)
(* manager of an endpoint may be gone before its sessions: see Server.     *)
Use(s, objects) ==
  /\ misused' = (misused \/ (s \notin leftover
                             /\ \E o \in objects : o \notin alive /\ ~(Shared /\ o = "endpoint")))
  /\ UNCHANGED leftover

-----------------------------------------------------------------------------
(* main() up to the thread that reads commands; a Start that fails leads   *)
(* to the end at once.                                                     *)

First == CHOOSE s \in LifeSession : TRUE

StartConnects == Main.side = "client" /\ endpoint = "started"

LifeInit ==
  /\ sample \in Sample
  /\ endpoint \in (IF Main.side = "clients" THEN {"idle"} ELSE {"idle", "started"})
  /\ step = (IF endpoint = "started" \/ Main.side = "clients" THEN "input" ELSE "release")
  /\ stdin = "good" /\ cnnok = FALSE /\ counting = {}
  /\ left = Len(Main.locals) /\ globals = Main.globals
  /\ alive = {Main.locals[i] : i \in 1 .. left}
               \cup (IF sample = "JsonClients" THEN {"endpoint"} ELSE {})
               \cup (IF Shared \/ endpoint = "started" THEN {"service"} ELSE {})
               \cup (IF StartConnects THEN {First} ELSE {})
  /\ dying = [o \in Object |-> "nobody"]
  /\ fresh = (IF Main.side = "server" THEN LifeSession ELSE {First})
  /\ pending = (IF StartConnects THEN {First} ELSE {})
  /\ open = {} /\ registered = {} /\ queued = {}
  /\ io = "none" /\ working = {}
  /\ leftover = {} /\ misused = FALSE /\ terminated = FALSE

-----------------------------------------------------------------------------
(* The commands.  A line of 256 characters or the end of the input sets    *)
(* failbit: each getline then returns at once, with an empty line.         *)

Commanded ==
  UNCHANGED <<sample, left, globals, alive, endpoint, fresh, open, registered, pending, queued,
              threadVars, leftover, misused>>

Fails ==
  /\ step = "input" /\ stdin = "good" /\ stdin' = "failed"
  /\ UNCHANGED <<step, cnnok, counting, terminated>> /\ Commanded

AnyConnected == registered \cap open # {}

(* :quit.  Clients are told one by one, those that are connected.          *)
QuitCommand ==
  /\ step = "input" /\ stdin = "good" /\ counting = {}
  /\ step' = IF Main.side # "clients" \/ AnyConnected THEN "quit" ELSE "release"
  /\ UNCHANGED <<stdin, cnnok, counting, terminated>> /\ Commanded

(* Any line: a client that lost its connection leaves without Disconnect.  *)
ClientInput ==
  /\ step = "input" /\ Main.side = "client"
  /\ cnnok' = (cnnok \/ AnyConnected)
  /\ step' = IF ~AnyConnected /\ cnnok THEN "release" ELSE "input"
  /\ UNCHANGED <<stdin, counting, terminated>> /\ Commanded

(* :count has the sessions in hand, and divides by the seconds since the   *)
(* last one: two within a second end the program.                          *)
Count ==
  /\ sample \in {"JsonServer", "C10kServer"} /\ step = "input" /\ stdin = "good"
  /\ counting = {} /\ counting' = registered /\ registered # {}
  /\ terminated' \in {FALSE} \cup (IF sample = "C10kServer" THEN {TRUE} ELSE {})
  /\ UNCHANGED <<stdin, step, cnnok>> /\ Commanded

CountEnds ==
  /\ counting # {} /\ counting' = {}
  /\ UNCHANGED <<stdin, step, cnnok, terminated>> /\ Commanded

(* :start makes the clients, when the handler has none, and connects them. *)
StartClients ==
  /\ step = "input" /\ stdin = "good" /\ Main.side = "clients" /\ endpoint = "idle"
  /\ endpoint' = "started" /\ alive' = alive \cup {"endpoint", First}
  /\ pending' = {First}
  /\ UNCHANGED <<mainVars, fresh, open, registered, queued, threadVars, historyVars>>

Commands == Fails \/ QuitCommand \/ ClientInput \/ Count \/ CountEnds \/ StartClients

-----------------------------------------------------------------------------
(* Stop of the server, Disconnect of the client: of the command, or of the *)
(* destructor.  The threads of its own service are joined.                 *)

Stops(t) == dying["endpoint"] = t \/ (t = "main" /\ step = "quit" /\ Free(t))

StopClears(t) ==
  /\ Stops(t) /\ endpoint = "started"
  /\ endpoint' = "cleared" /\ registered' = {}
  /\ leftover' = leftover \cup (IF Shared \/ io = "none" THEN {} ELSE {io})
  /\ UNCHANGED <<mainVars, alive, fresh, open, pending, queued, threadVars, misused, terminated>>

IoJoined == Shared \/ io = "none"

StopJoins(t) ==
  /\ Stops(t) /\ endpoint = "cleared" /\ IoJoined
  /\ endpoint' = "stopped"
  /\ step' = IF step = "quit" THEN "release" ELSE step
  /\ UNCHANGED <<sample, stdin, left, globals, cnnok, counting, alive, sessionVars, threadVars,
                 historyVars>>

(* An io_service that is deleted first deletes the handlers it holds.      *)
Drain(t) ==
  /\ dying["service"] = t /\ pending # {} /\ pending' = {}
  /\ UNCHANGED <<mainVars, alive, endpoint, fresh, open, registered, queued, threadVars, historyVars>>

(* What a destructor waits for.  Services and workers are joined; a worker *)
(* that destroys the pool would join itself.                               *)
Joined(t, o) ==
  CASE o = "endpoint" -> endpoint \in {"idle", "stopped"}
    [] o = "svcmgr" -> io = "none"
    [] o = "workmgr" -> working = {} \/ t = "worker"
    [] o = "service" -> pending = {} /\ \A s \in LifeSession : dying[s] # t
    [] OTHER -> TRUE

(* The destructor of a session that is open with SSL asks for a pointer to *)
(* itself, which throws.                                                   *)
Throws(t, o) ==
  (o \in open /\ Main.ssl) \/ (o = "workmgr" /\ t = "worker")

DestroyObject(t, o) ==
  /\ dying[o] = t /\ Joined(t, o)
  /\ alive' = alive \ {o}
  /\ terminated' = Throws(t, o)
  /\ open' = open \ {o} /\ pending' = pending \ {o}
  /\ queued' = IF o = "workmgr" THEN {} ELSE queued
  /\ leftover' = IF o = "service"
                   THEN leftover \cup working \cup {s \in LifeSession : dying[s] # "nobody"}
                   ELSE leftover
  /\ misused' = (misused \/ (o \in LifeSession \ leftover /\ "service" \notin alive))
  /\ UNCHANGED <<mainVars, endpoint, fresh, registered, threadVars>>

(* The end of main, then of the program, which releases its globals.       *)
ReleaseNext ==
  /\ step = "release" /\ Free("main")
  /\ IF left > 0 THEN left' = left - 1 /\ UNCHANGED <<step, globals>>
     ELSE step' = "over" /\ globals' = {} /\ UNCHANGED left
  /\ UNCHANGED <<sample, stdin, cnnok, counting, alive, endpoint, sessionVars, threadVars, historyVars>>

-----------------------------------------------------------------------------
(* The io_service.  A server's listen thread accepts until Stop; one       *)
(* thread (bound) runs the handlers.                                       *)

Accept(s) ==
  /\ Main.side = "server" /\ endpoint = "started" /\ s \in fresh
  /\ fresh' = fresh \ {s} /\ alive' = alive \cup {s}
  /\ open' = open \cup {s} /\ registered' = registered \cup {s} /\ pending' = pending \cup {s}
  /\ UNCHANGED <<mainVars, endpoint, queued, threadVars, historyVars>>

Served == "service" \in alive /\ (IF Shared THEN "svcmgr" \in alive ELSE endpoint = "started")

IoBegins(s) ==
  /\ io = "none" /\ Free("io") /\ Served /\ s \in pending
  /\ io' = s /\ pending' = pending \ {s}
  /\ UNCHANGED <<mainVars, alive, endpoint, fresh, open, registered, queued, working, historyVars>>

IoDone(s) ==
  /\ io = s /\ io' = "none"
  /\ UNCHANGED <<mainVars, alive, endpoint, working, terminated>>

(* OnConnect of the client, by its plain address.                          *)
IoConnects(s) ==
  /\ IoDone(s) /\ s \in fresh /\ Use(s, {"endpoint", "service"})
  /\ fresh' = fresh \ {s} /\ open' = open \cup {s} /\ pending' = pending \cup {s}
  /\ registered' = IF "endpoint" \in alive THEN registered \cup {s} ELSE registered
  /\ UNCHANGED queued

(* A message is read, perhaps a task made of it, and the next awaited.     *)
IoReads(s) ==
  /\ IoDone(s) /\ s \in open /\ Use(s, {"service"})
  /\ queued' \in {queued} \cup (IF Pooled /\ "workmgr" \in alive THEN {queued \cup {s}} ELSE {})
  /\ pending' = pending \cup {s}
  /\ UNCHANGED <<fresh, open, registered>>

(* The read or the connect failed: Close, and RemoveSession of the manager. *)
IoCloses(s) ==
  /\ IoDone(s) /\ s \in open \cup fresh /\ Use(s, {"endpoint", "service"})
  /\ fresh' = fresh \ {s} /\ open' = open \ {s} /\ registered' = registered \ {s}
  /\ UNCHANGED <<pending, queued>>

IoEnds(s) ==
  /\ IoDone(s) /\ s \notin open \cup fresh
  /\ UNCHANGED <<sessionVars, leftover, misused>>

-----------------------------------------------------------------------------
(* The workers.  Who takes a task has its session if there still is one.   *)

WorkerTakes(s) ==
  /\ Free("worker") /\ s \in queued /\ "workmgr" \in alive
  /\ queued' = queued \ {s}
  /\ working' = IF s \in alive /\ dying[s] = "nobody" THEN working \cup {s} ELSE working
  /\ UNCHANGED <<mainVars, alive, endpoint, fresh, open, registered, pending, io, historyVars>>

WorkerDone(s) ==
  /\ Free("worker") /\ s \in working /\ working' = working \ {s}
  /\ UNCHANGED <<mainVars, alive, endpoint, fresh, queued, io, terminated>>

WorkerReplies(s) ==
  /\ WorkerDone(s) /\ s \in open /\ Use(s, {"service"})
  /\ pending' = IF "service" \in alive THEN pending \cup {s} ELSE pending
  /\ UNCHANGED <<open, registered>>

WorkerCloses(s) ==
  /\ WorkerDone(s) /\ s \in open /\ Use(s, {"endpoint", "service"})
  /\ open' = open \ {s} /\ registered' = registered \ {s}
  /\ UNCHANGED pending

WorkerEnds(s) == WorkerDone(s) /\ UNCHANGED <<open, registered, pending, leftover, misused>>

-----------------------------------------------------------------------------
IoStep(s) == Accept(s) \/ IoBegins(s) \/ IoConnects(s) \/ IoReads(s) \/ IoCloses(s) \/ IoEnds(s)
WorkerStep(s) == WorkerTakes(s) \/ WorkerReplies(s) \/ WorkerCloses(s) \/ WorkerEnds(s)
EndStep(t) == StopClears(t) \/ StopJoins(t) \/ Drain(t) \/ \E o \in Object : DestroyObject(t, o)

LifeNext ==
  /\ ~terminated
  /\ \/ (Commands \/ ReleaseNext) /\ DroppedBy("main")
     \/ (\E s \in LifeSession : IoStep(s)) /\ DroppedBy("io")
     \/ (\E s \in LifeSession : WorkerStep(s)) /\ DroppedBy("worker")
     \/ \E t \in {"main", "io", "worker"} : EndStep(t) /\ DroppedBy(t)

LifeSpec == LifeInit /\ [][LifeNext]_lifeVars

-----------------------------------------------------------------------------
(* No reference keeps what the program is done with: when main is over and *)
(* the threads have nothing in hand, every object is destroyed, however    *)
(* its release raced with handlers, workers, :count and a connection lost  *)
(* -- but for the clients of jsonc10k, once there are some, which refer to *)
(* the handler that keeps them.                                            *)
AtRest ==
  /\ step = "over" /\ io = "none" /\ working = {} /\ \A o \in alive : dying[o] = "nobody"
  /\ queued = {} \/ "workmgr" \notin alive
EverythingEnds ==
  AtRest /\ ~terminated => alive = {} \/ (sample = "C10kClients" /\ "endpoint" \in alive)

(* No session uses an io_service that is deleted, nor an endpoint on a     *)
(* service of its own, except one that a worker had in hand, whom Stop     *)
(* does not wait for, or that OnConnect registered after Stop had cleared  *)
(* the manager.                                                            *)
NothingUsedAfterItsEnd == ~misused
=============================================================================
