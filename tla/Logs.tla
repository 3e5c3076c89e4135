-------------------------------- MODULE Logs --------------------------------
(***************************************************************************)
(* LogManager and Logger on Boost.Log.  A logger is a channel of its name  *)
(* and owns sinks of the core, which write what arrives on their channel.  *)
(* Named loggers are kept in g_logmap under g_logmapmutex; the default one *)
(* is set by Init, which takes no lock.  Loggers are shared pointers: one  *)
(* lives until neither the manager nor a thread that logs holds it.  The   *)
(* sinks of all of them write to std::clog, which each believes to own.    *)
(***************************************************************************)
EXTENDS Integers, Sequences, FiniteSets

CONSTANTS
  LogName,      (* names of loggers, one of which is that of the default      *)
  DefaultName,
  LogThread,    (* threads that log; one of them also sets up the loggers     *)
  MaxLoggers,   (* loggers ever made (bound)                                  *)
  MaxLevel      (* levels are 0 .. MaxLevel, from trace on                    *)

Info == 2

ASSUME LogsAssumption ==
  /\ DefaultName \in LogName /\ MaxLoggers \in Nat
  /\ MaxLevel \in Nat /\ MaxLevel >= Info

Level == 0 .. MaxLevel
NoLogger == 0

VARIABLES
  channel,     (* of the loggers made so far                                  *)
  g_initlog, g_defaultlog,
  g_logmap,    (* logger by name                                              *)
  g_loglevel,  (* and the filter of the core                                  *)
  sinks,       (* loggers whose sinks the core has                            *)
  setting,     (* how far Init is: the logger it made, or none                *)
  logging,     (* the logger each thread is about to log through              *)
  clog         (* whether std::clog is there: nobody has deleted it           *)

logVars == <<channel, g_initlog, g_defaultlog, g_logmap, g_loglevel, sinks, setting, logging, clog>>

LogsInit ==
  /\ channel = <<>> /\ g_initlog = FALSE /\ g_defaultlog = NoLogger
  /\ g_logmap = [n \in LogName |-> NoLogger] /\ g_loglevel = 0
  /\ sinks = {} /\ setting = NoLogger /\ clog = TRUE
  /\ logging = [t \in LogThread |-> NoLogger]

Holders(map, threads) ==
  {map[n] : n \in LogName} \cup {g_defaultlog, setting} \cup {threads[t] : t \in LogThread}

(* LoggerImpl::Init gives a logger its sinks; the file sink comes and goes *)
(* with the other one.  The backend of the other gets std::clog as a       *)
(* shared pointer of its own, which will delete it.                        *)
CreateLogger(name) ==
  /\ Len(channel) < MaxLoggers
  /\ channel' = Append(channel, name) /\ sinks' = sinks \cup {Len(channel) + 1}

(* Fault: a thread that logs has no share in the logger.                   *)
DestroyForgotten(map, threads) ==
  LET kept == {map[n] : n \in LogName} \cup {g_defaultlog, setting}
  IN  sinks' = sinks \cap kept /\ clog' = (clog /\ sinks \subseteq kept)

(* ~LoggerImpl removes the sinks of loggers nobody holds, and their        *)
(* backends delete std::clog, under the sinks of all others.  It is no     *)
(* object of the heap: the program ends there, a behaviour that takes no   *)
(* more steps, or goes on without it.                                      *)
Destroy(map, threads) ==
  /\ sinks' = sinks \cap Holders(map, threads)
  /\ clog' = (clog /\ sinks \subseteq Holders(map, threads))

-----------------------------------------------------------------------------
(* LogManager::Init, by one thread, once at a time. *)

InitCreate ==
  /\ ~g_initlog /\ g_defaultlog = NoLogger /\ setting = NoLogger
  /\ CreateLogger(DefaultName) /\ setting' = Len(channel) + 1
  /\ UNCHANGED <<g_initlog, g_defaultlog, g_logmap, g_loglevel, logging, clog>>

InitDefault ==
  /\ setting # NoLogger /\ g_defaultlog = NoLogger /\ g_defaultlog' = setting
  /\ UNCHANGED <<channel, g_initlog, g_logmap, g_loglevel, sinks, setting, logging, clog>>

InitDone ==
  /\ setting # NoLogger /\ g_defaultlog = setting
  /\ g_initlog' = TRUE /\ g_loglevel' = 0 /\ setting' = NoLogger
  /\ UNCHANGED <<channel, g_defaultlog, g_logmap, sinks, logging, clog>>

(* What is not a level is taken for info.                                  *)
SetLogLevel(level) ==
  /\ g_loglevel' = IF level \in Level THEN level ELSE Info
  /\ UNCHANGED <<channel, g_initlog, g_defaultlog, g_logmap, sinks, setting, logging, clog>>

AddLogger(name) ==
  /\ g_initlog /\ g_logmap[name] = NoLogger
  /\ CreateLogger(name) /\ g_logmap' = [g_logmap EXCEPT ![name] = Len(channel) + 1]
  /\ UNCHANGED <<g_initlog, g_defaultlog, g_loglevel, setting, logging, clog>>

RemoveLogger(name) ==
  /\ g_initlog /\ g_logmap[name] # NoLogger
  /\ g_logmap' = [g_logmap EXCEPT ![name] = NoLogger]
  /\ Destroy(g_logmap', logging)
  /\ UNCHANGED <<channel, g_initlog, g_defaultlog, g_loglevel, setting, logging>>

ClearLoggers ==
  /\ \E n \in LogName : g_logmap[n] # NoLogger
  /\ g_logmap' = [n \in LogName |-> NoLogger]
  /\ Destroy(g_logmap', logging)
  /\ UNCHANGED <<channel, g_initlog, g_defaultlog, g_loglevel, setting, logging>>

-----------------------------------------------------------------------------
(* Logging, by any thread. *)

GetLogger(name) == IF g_initlog THEN g_logmap[name] ELSE NoLogger

(* Before Init the default logger is std::cout, and a named one is none.   *)
DefaultLogger == IF g_initlog THEN g_defaultlog ELSE NoLogger

FindLogger(t) ==
  /\ logging[t] = NoLogger
  /\ \E logger \in {GetLogger(n) : n \in LogName} \cup {DefaultLogger} :
       logger # NoLogger /\ logging' = [logging EXCEPT ![t] = logger]
  /\ UNCHANGED <<channel, g_initlog, g_defaultlog, g_logmap, g_loglevel, sinks, setting, clog>>

(* The loggers whose sinks write a message of a level: those of its        *)
(* channel, while there is a stream to write to.                           *)
Written(logger, level) ==
  {l \in sinks : clog /\ level >= g_loglevel /\ channel[l] = channel[logger]}

(* The message is written, and the thread lets go of the logger.           *)
Log(t) ==
  /\ logging[t] # NoLogger /\ logging' = [logging EXCEPT ![t] = NoLogger]
  /\ Destroy(g_logmap, logging')
  /\ UNCHANGED <<channel, g_initlog, g_defaultlog, g_logmap, g_loglevel, setting>>

LogsNext ==
  \/ InitCreate \/ InitDefault \/ InitDone \/ ClearLoggers
  \/ \E level \in Level \cup {MaxLevel + 1} : SetLogLevel(level)
  \/ \E n \in LogName : AddLogger(n) \/ RemoveLogger(n)
  \/ \E t \in LogThread : FindLogger(t) \/ Log(t)

LogsSpec == LogsInit /\ [][LogsNext]_logVars

-----------------------------------------------------------------------------
(* As long as each logger ever made is held by somebody, by the manager or *)
(* by a thread that logs, std::clog is there, and a thread that has found  *)
(* a logger gets a fatal message, the highest level, written, though the   *)
(* logger is removed or the level changed before it is logged.  Once one   *)
(* is destroyed nothing is promised, of no logger (Logger.cpp:177).        *)
FatalIsWritten ==
  DOMAIN channel \subseteq Holders(g_logmap, logging) =>
    /\ clog
    /\ \A t \in LogThread : logging[t] # NoLogger => logging[t] \in Written(logging[t], MaxLevel)
=============================================================================
