---------------------------- MODULE ServerProofs ----------------------------
(* A server, for any addresses, and any numbers of sessions, clients and   *)
(* failures: who is open is registered, and nothing is used after its end. *)
EXTENDS Server, FiniteSetTheorems, TLAPS

-----------------------------------------------------------------------------
(* The map of sessions.                                                    *)

(* Sessions are in the map under their ids, which are theirs alone.        *)
Registry ==
  /\ sessionidx \in Nat
  /\ DOMAIN sessions \subseteq 1 .. sessionidx
  /\ id \in [Session -> 0 .. sessionidx]
  /\ \A i \in DOMAIN sessions : sessions[i] \in Session /\ id[sessions[i]] = i
  /\ \A s, t \in Session : id[s] = id[t] /\ id[s] # 0 => s = t
  /\ cleared \subseteq Session

(* Who has no id is not registered.                                        *)
LEMMA RegisteredHaveIds ==
  ASSUME Registry
  PROVE  Registered \subseteq {s \in Session : id[s] # 0}
BY DEF Registry, Registered, Range

(* AddSession adds the session, and numbers it.                            *)
LEMMA AddRegisters ==
  ASSUME Registry, NEW s \in Session, id[s] = 0, AddSession(s)
  PROVE  /\ Registry' /\ Registered' = Registered \cup {s} /\ UNCHANGED cleared
         /\ \A t \in Session : t # s => id'[t] = id[t]
         /\ id'[s] # 0 /\ sessionidx' = sessionidx + 1
<1>1. /\ sessionidx' = sessionidx + 1 /\ id' = [id EXCEPT ![s] = sessionidx + 1]
      /\ sessions' = [i \in DOMAIN sessions \cup {sessionidx + 1} |->
                        IF i = sessionidx + 1 THEN s ELSE sessions[i]]
      /\ UNCHANGED cleared
  BY DEF AddSession, NextId, Numbered
<1>2. sessionidx + 1 \notin DOMAIN sessions /\ sessionidx \in Nat
  BY DEF Registry
<1>3. Registered' = Registered \cup {s}
  BY <1>1, <1>2 DEF Registered, Range
<1>4. DOMAIN sessions' = DOMAIN sessions \cup {sessionidx'}
  BY <1>1
<1>5. id' \in [Session -> 0 .. sessionidx'] /\ id'[s] = sessionidx' /\ sessionidx' # 0
      /\ \A t \in Session : t # s => id'[t] = id[t] /\ id'[t] # sessionidx'
  BY <1>1, <1>2 DEF Registry
<1>6. \A i \in DOMAIN sessions' : sessions'[i] \in Session /\ id'[sessions'[i]] = i
  BY <1>1, <1>2, <1>5 DEF Registry
<1>7. \A t, u \in Session : id'[t] = id'[u] /\ id'[t] # 0 => t = u
  BY <1>5 DEF Registry
<1>8. sessionidx' \in Nat /\ DOMAIN sessions' \subseteq 1 .. sessionidx' /\ cleared' \subseteq Session
  BY <1>1, <1>2, <1>4 DEF Registry
<1>9. Registry'
  BY <1>5, <1>6, <1>7, <1>8 DEF Registry
<1> QED
  BY <1>1, <1>3, <1>5, <1>9

(* RemoveSession removes the session, and no other.                        *)
LEMMA RemoveUnregisters ==
  ASSUME Registry, NEW s \in Session, RemoveSession(s)
  PROVE  /\ Registry' /\ UNCHANGED <<cleared, id, sessionidx>>
         /\ Registered' \subseteq Registered /\ Registered \ {s} \subseteq Registered'
<1>1. /\ UNCHANGED <<cleared, id, sessionidx>>
      /\ sessions' = [i \in DOMAIN sessions \ {id[s]} |-> sessions[i]]
  BY DEF RemoveSession, Restrict
<1>2. Registry'
  BY <1>1 DEF Registry
<1>3. \A i \in DOMAIN sessions : i = id[s] => sessions[i] = s
  BY DEF Registry
<1>4. Registered' \subseteq Registered /\ Registered \ {s} \subseteq Registered'
  BY <1>1, <1>3 DEF Registered, Range
<1> QED
  BY <1>1, <1>2, <1>4

(* Clear removes all.                                                      *)
LEMMA ClearUnregisters ==
  ASSUME Registry, Clear
  PROVE  /\ Registry' /\ Registered' = {} /\ cleared' = cleared \cup Registered
         /\ UNCHANGED <<id, sessionidx>>
<1>1. Registered' = {} /\ cleared' = cleared \cup Registered /\ UNCHANGED <<id, sessionidx>>
      /\ DOMAIN sessions' = {}
  BY DEF Clear, Registered, Range
<1>2. Registered \subseteq Session
  BY RegisteredHaveIds
<1>3. Registry'
  BY <1>1, <1>2 DEF Registry
<1> QED
  BY <1>1, <1>3

(* There is a session object left for the next accept: each one that was   *)
(* numbered belongs to a client, and at most one other is being opened.    *)
LEMMA SessionLeft ==
  ASSUME Registry, sessionidx <= MaxEvents, NEW x
  PROVE  \E s \in Session : id[s] = 0 /\ s # x
<1> SUFFICES ASSUME \A s \in Session : id[s] # 0 \/ s = x PROVE FALSE
  OBVIOUS
<1>1. MaxSessions \in Nat /\ MaxEvents \in Nat /\ MaxEvents + 1 < MaxSessions /\ sessionidx \in Nat
  BY SessionManagerAssumption, ServerAssumption DEF Registry
<1> DEFINE T == Session \ {x}
           f == [s \in T |-> id[s]]
<1>2. IsFiniteSet(Session) /\ Cardinality(Session) = MaxSessions
  BY <1>1, FS_Interval DEF Session
<1>3. IsFiniteSet(T) /\ Cardinality(T) >= MaxSessions - 1
  BY <1>1, <1>2, FS_RemoveElement
<1>4. IsFiniteSet(1 .. sessionidx) /\ Cardinality(1 .. sessionidx) = sessionidx
  BY <1>1, FS_Interval
<1>5. f \in [T -> 1 .. sessionidx]
  BY DEF Registry
<1>6. Cardinality(1 .. sessionidx) < Cardinality(T)
  <2>1. Cardinality(T) \in Nat
    BY <1>3, FS_CardinalityType
  <2> HIDE DEF T
  <2> QED
    BY <1>1, <1>3, <1>4, <2>1
<1>7. PICK s, t \in T : s # t /\ f[s] = f[t]
  <2> HIDE DEF T, f
  <2> QED
    BY <1>3, <1>4, <1>5, <1>6, FS_PigeonHole
<1> QED
  BY <1>7 DEF Registry

-----------------------------------------------------------------------------
(* What holds of the threads.                                              *)

(* The types of what the steps below tell apart.                           *)
ServerType ==
  /\ state \in [Session -> {-1, 0, 1}]
  /\ closing \subseteq Session /\ removing \subseteq {"io", "idle", "app"} \X closing
  /\ broadcast \subseteq Session /\ snapshot \subseteq Session
  /\ accepting \in Session \cup {0} /\ opening \in Session \cup {0}
  /\ listener \in {"none", "run", "open", "added", "rearm", "ended"}
  /\ current \in Address \cup {NoAddress} /\ target \in Address \cup {NoAddress}

(* Each session numbered, or about to be, has a client of its own, and     *)
(* what counts against the bound stays within it.                          *)
Counting ==
  /\ {sessionidx, clients, errors, rounds, backlog} \subseteq Nat
  /\ clients + errors + rounds <= MaxEvents
  /\ sessionidx + backlog + (IF listener = "open" THEN 1 ELSE 0)
       + (IF result = "ok" THEN 1 ELSE 0) <= clients

(* The session async_accept fills is a new one, and so is the one OnAccept *)
(* opens, until it has added it; a session that was not added was never    *)
(* open.                                                                   *)
Accepting ==
  /\ \A s \in Session : id[s] = 0 => state[s] = 0 /\ s \notin closing
  /\ accepting # 0 => accepting # opening /\ id[accepting] = 0
  /\ result # "none" => accepting # 0
  /\ listener \in {"open", "added", "rearm"} => accepting = 0
  /\ listener = "open" => opening # 0 /\ id[opening] = 0
  /\ listener = "added" =>
       /\ opening # 0 /\ opening \in Registered \cup cleared /\ id[opening] # 0
       /\ state[opening] = 0 /\ opening \notin closing
  /\ pc \in {"listen", "destroy", "destroyed"} => listener = "none" /\ accepting = 0

(* A new session for the next accept.                                      *)
LEMMA NewSessionIsNew ==
  ASSUME Registry, Counting, accepting = 0
  PROVE  /\ NewSession \in Session /\ id[NewSession] = 0 /\ NewSession # opening
         /\ NewSession # 0
<1>1. sessionidx <= MaxEvents
  <2>1. \A a, b, i, j \in Nat, c, e, r, m \in Nat :
          c + e + r <= m /\ i + b + a + j <= c => i <= m
    OBVIOUS
  <2>2. (IF listener = "open" THEN 1 ELSE 0) \in Nat /\ (IF result = "ok" THEN 1 ELSE 0) \in Nat
    OBVIOUS
  <2>3. MaxEvents \in Nat
    BY ServerAssumption
  <2> QED
    BY <2>1, <2>2, <2>3 DEF Counting
<1>2. \E s \in Session : id[s] = 0 /\ s # opening
  BY <1>1, SessionLeft
<1>3. 0 \notin Session
  BY DEF Session
<1>4. \E s \in Session : id[s] = 0 /\ s \notin {accepting, opening}
  BY <1>2, <1>3
<1>5. NewSession \in Session /\ id[NewSession] = 0 /\ NewSession \notin {accepting, opening}
  BY <1>4 DEF NewSession
<1> QED
  BY <1>3, <1>5

(* How a session closes: what CloseBegin does, and what it leaves.         *)
LEMMA CloseBegins ==
  ASSUME ServerType, NEW t \in {"io", "idle", "app"}, NEW s \in Session, CloseBegin(t, s)
  PROVE  /\ state' \in [Session -> {-1, 0, 1}] /\ closing' = closing \cup {s}
         /\ removing' = removing \cup {<<t, s>>}
         /\ removing' \subseteq {"io", "idle", "app"} \X closing' /\ closing' \subseteq Session
         /\ state'[s] = -1 /\ \A u \in Session : u # s => state'[u] = state[u]
BY DEF CloseBegin, ServerType

(* And what CloseEnd does.                                                 *)
LEMMA CloseEnds ==
  ASSUME Registry, ServerType, NEW t \in {"io", "idle", "app"}, NEW s \in Session, CloseEnd(t, s)
  PROVE  /\ Registry' /\ UNCHANGED <<cleared, id, sessionidx, state, closing>>
         /\ Registered' \subseteq Registered /\ Registered \ {s} \subseteq Registered'
         /\ s \in closing /\ removing' \subseteq removing
         /\ UNCHANGED <<broadcast, locked, stuck, idle, idlesvc, snapshot, rounds>>
<1>1. RemoveSession(s) /\ <<t, s>> \in removing /\ removing' = removing \ {<<t, s>>}
      /\ UNCHANGED <<state, closing, broadcastVars, idleVars>>
  BY DEF CloseEnd
<1>2. s \in closing
  BY <1>1 DEF ServerType
<1> QED
  BY <1>1, <1>2, RemoveUnregisters DEF broadcastVars, idleVars

-----------------------------------------------------------------------------
(* Every step keeps the map, the counts and the sessions being opened.     *)

(* All of it, with the property of the open sessions.                      *)
Serving == Registry /\ ServerType /\ Counting /\ Accepting /\ OpenIsRegistered

(* Nothing was started yet.                                                *)
LEMMA ServingInit == Init => Serving
<1> SUFFICES ASSUME Init PROVE Serving
  OBVIOUS
<1>1. Registry
  BY DEF Init, InitManager, Registry
<1>2. ServerType
  BY DEF Init, InitManager, ServerType
<1>3. Counting
  BY ServerAssumption DEF Init, InitManager, Counting
<1>4. Accepting
  BY DEF Init, InitManager, Accepting
<1>5. OpenIsRegistered
  BY DEF Init, InitManager, OpenIsRegistered
<1> QED
  BY <1>1, <1>2, <1>3, <1>4, <1>5 DEF Serving

(* What leaves the sessions alone leaves who is registered, and open.      *)
LEMMA SessionsStay ==
  ASSUME Serving, UNCHANGED <<registryVars, sessionVars>>
  PROVE  /\ Registry' /\ OpenIsRegistered'
         /\ UNCHANGED <<sessions, sessionidx, id, cleared, state, closing, removing, Registered>>
<1>1. UNCHANGED <<sessions, sessionidx, id, cleared, state, closing, removing>>
  BY DEF registryVars, sessionVars
<1>2. Registered' = Registered
  BY <1>1 DEF Registered, Range
<1>3. Registry'
  BY <1>1 DEF Serving, Registry
<1>4. OpenIsRegistered'
  BY <1>1, <1>2 DEF Serving, OpenIsRegistered
<1> QED
  BY <1>1, <1>2, <1>3, <1>4

(* The program's thread in Stop and Start, up to the clearing of the map.  *)
LEMMA StopServes ==
  ASSUME Serving,
         \/ Stop \/ Destroy \/ CloseAcceptor \/ StopServices \/ ListenFails
         \/ \E a \in Address : Start(a)
  PROVE  Serving'
<1>1. UNCHANGED <<registryVars, sessionVars, broadcastVars, idle, idlesvc, snapshot>>
  BY DEF Stop, Destroy, CloseAcceptor, StopServices, ListenFails, Start, Call, managerVars, idleVars
<1>2. Registry' /\ OpenIsRegistered'
  BY <1>1, SessionsStay
<1>3. UNCHANGED <<sessions, sessionidx, id, cleared, state, closing, removing, Registered,
                  broadcast, snapshot>>
  BY <1>1, SessionsStay DEF broadcastVars
<1>4. UNCHANGED <<listener, accepting, opening, clients, rounds>>
  BY DEF Stop, Destroy, CloseAcceptor, StopServices, ListenFails, Start, Call, acceptVars, managerVars,
         idleVars
<1>5. ServerType'
  <2>1. current' \in Address \cup {NoAddress} /\ target' \in Address \cup {NoAddress}
    BY DEF Stop, Destroy, CloseAcceptor, StopServices, ListenFails, Start, Call, Serving, ServerType
  <2> QED
    BY <1>3, <1>4, <2>1 DEF Serving, ServerType
<1>6. /\ errors' = errors \/ (errors' = errors + 1 /\ clients + errors + rounds < MaxEvents)
      /\ backlog' \in {0, backlog}
      /\ result' \in {"aborted", result} /\ (result' # result => accepting # 0)
  BY DEF Stop, Destroy, CloseAcceptor, StopServices, ListenFails, Start, Call, acceptVars, Eventful
<1>7. Counting'
  <2>1. (IF result' = "ok" THEN 1 ELSE 0) <= (IF result = "ok" THEN 1 ELSE 0)
    BY <1>6
  <2>2. (IF listener' = "open" THEN 1 ELSE 0) = (IF listener = "open" THEN 1 ELSE 0)
    BY <1>4
  <2> QED
    BY <1>3, <1>4, <1>6, <2>1, <2>2, ServerAssumption DEF Serving, Counting
<1>8. pc' \in {"listen", "destroy", "destroyed"} => pc' = pc
  BY DEF Stop, Destroy, CloseAcceptor, StopServices, ListenFails, Start, Call
<1>9. Accepting'
  BY <1>3, <1>4, <1>6, <1>8 DEF Serving, Accepting
<1> QED
  BY <1>2, <1>5, <1>7, <1>9 DEF Serving

(* Clearing the map, in Stop and at the end.                               *)
LEMMA ClearServes ==
  ASSUME Serving, StopClears \/ DestroyManager
  PROVE  Serving'
<1>1. /\ Clear
      /\ UNCHANGED <<sessionVars, broadcastVars, idleVars, current, target, listener, opening, acceptVars,
                     clients, errors>>
      /\ pc' = "join" \/ (pc = "destroy" /\ pc' = "destroyed")
  BY DEF StopClears, ClearSessions, DestroyManager, appVars
<1>2. /\ Registry' /\ Registered' = {} /\ cleared' = cleared \cup Registered
      /\ UNCHANGED <<id, sessionidx>>
  BY <1>1, ClearUnregisters DEF Serving
<1>3. OpenIsRegistered'
  BY <1>1, <1>2 DEF sessionVars, Serving, OpenIsRegistered
<1>4. ServerType'
  BY <1>1 DEF sessionVars, broadcastVars, idleVars, acceptVars, Serving, ServerType
<1>5. Counting'
  BY <1>1, <1>2 DEF acceptVars, idleVars, Serving, Counting
<1>6. Accepting'
  BY <1>1, <1>2 DEF sessionVars, acceptVars, Serving, Accepting
<1> QED
  BY <1>2, <1>3, <1>4, <1>5, <1>6 DEF Serving

(* Stop deletes what it joined, and Start listens.                         *)
LEMMA StartServes ==
  ASSUME Serving, JoinAndDelete \/ Listen
  PROVE  Serving'
<1>1. UNCHANGED <<registryVars, sessionVars, broadcastVars, idleVars, clients, errors>>
  BY DEF JoinAndDelete, Listen, managerVars
<1>2. /\ Registry' /\ OpenIsRegistered'
      /\ UNCHANGED <<sessions, sessionidx, id, cleared, state, closing, removing, Registered,
                     broadcast, snapshot, rounds>>
  BY <1>1, SessionsStay DEF broadcastVars, idleVars
<1>3. CASE JoinAndDelete
  <2>1. /\ accepting' = 0 /\ result' = "none" /\ listener' = "none" /\ opening' = 0
        /\ current' = NoAddress /\ UNCHANGED <<target, backlog>>
    BY <1>3 DEF JoinAndDelete
  <2>2. ServerType'
    BY <1>2, <2>1 DEF Serving, ServerType
  <2>3. Counting'
    <3>1. (IF listener = "open" THEN 1 ELSE 0) \in Nat /\ (IF result = "ok" THEN 1 ELSE 0) \in Nat
      OBVIOUS
    <3>2. (IF listener' = "open" THEN 1 ELSE 0) = 0 /\ (IF result' = "ok" THEN 1 ELSE 0) = 0
      BY <2>1
    <3> QED
      BY <1>1, <1>2, <2>1, <3>1, <3>2 DEF Serving, Counting
  <2>4. Accepting'
    BY <1>2, <2>1 DEF Serving, Accepting
  <2> QED
    BY <1>2, <2>2, <2>3, <2>4 DEF Serving
<1>4. CASE Listen
  <2>1. accepting = 0 /\ listener = "none"
    BY <1>4 DEF Listen, Serving, Accepting
  <2>2. /\ pc' = "idle" /\ accepting' = NewSession /\ result' = "none" /\ listener' = "run"
        /\ opening' = opening /\ current' = target /\ target' = NoAddress /\ backlog' = 0
    BY <1>4 DEF Listen, Opened, Armed, ThreadsRun
  <2>3. /\ NewSession \in Session /\ id[NewSession] = 0 /\ NewSession # opening
        /\ NewSession # 0
    BY <2>1, NewSessionIsNew DEF Serving
  <2>4. ServerType'
    BY <1>2, <2>2, <2>3 DEF Serving, ServerType
  <2>5. Counting'
    <3>1. (IF listener = "open" THEN 1 ELSE 0) \in Nat /\ (IF result = "ok" THEN 1 ELSE 0) \in Nat
      OBVIOUS
    <3>2. (IF listener' = "open" THEN 1 ELSE 0) = 0 /\ (IF result' = "ok" THEN 1 ELSE 0) = 0
      BY <2>2
    <3> QED
      BY <1>1, <1>2, <2>2, <3>1, <3>2 DEF Serving, Counting
  <2>6. Accepting'
    BY <1>2, <2>2, <2>3 DEF Serving, Accepting
  <2> QED
    BY <1>2, <2>4, <2>5, <2>6 DEF Serving
<1> QED
  BY <1>3, <1>4

(* The network.                                                            *)
LEMMA NetworkServes ==
  ASSUME Serving, ClientConnects \/ AcceptCompletes
  PROVE  Serving'
<1>1. UNCHANGED <<registryVars, sessionVars, broadcastVars, idleVars, current, target, pc,
                  listener, opening, accepting>>
  BY DEF ClientConnects, AcceptCompletes, managerVars, appVars
<1>2. /\ Registry' /\ OpenIsRegistered'
      /\ UNCHANGED <<sessions, sessionidx, id, cleared, state, closing, removing, Registered,
                     broadcast, snapshot, rounds>>
  BY <1>1, SessionsStay DEF broadcastVars, idleVars
<1>3. ServerType'
  BY <1>1, <1>2 DEF Serving, ServerType
<1>4. Counting'
  <2>1. CASE ClientConnects
    <3>1. /\ clients' = clients + 1 /\ backlog' = backlog + 1 /\ UNCHANGED <<errors, result>>
          /\ clients + errors + rounds < MaxEvents
      BY <2>1 DEF ClientConnects, Eventful
    <3>2. (IF listener = "open" THEN 1 ELSE 0) \in Nat /\ (IF result = "ok" THEN 1 ELSE 0) \in Nat
      OBVIOUS
    <3>3. /\ (IF listener' = "open" THEN 1 ELSE 0) = (IF listener = "open" THEN 1 ELSE 0)
          /\ (IF result' = "ok" THEN 1 ELSE 0) = (IF result = "ok" THEN 1 ELSE 0)
      BY <1>1, <3>1
    <3> QED
      BY <1>2, <3>1, <3>2, <3>3, ServerAssumption DEF Serving, Counting
  <2>2. CASE AcceptCompletes
    <3>1. /\ clients' = clients /\ result = "none"
          /\ \/ backlog > 0 /\ backlog' = backlog - 1 /\ result' = "ok" /\ errors' = errors
             \/ clients + errors + rounds < MaxEvents /\ errors' = errors + 1 /\ result' = "failed"
                /\ backlog' = backlog
      BY <2>2 DEF AcceptCompletes, Eventful
    <3>2. (IF listener = "open" THEN 1 ELSE 0) \in Nat
      OBVIOUS
    <3>3. /\ (IF listener' = "open" THEN 1 ELSE 0) = (IF listener = "open" THEN 1 ELSE 0)
          /\ (IF result = "ok" THEN 1 ELSE 0) = 0
          /\ (IF result' = "ok" THEN 1 ELSE 0) = (IF backlog' = backlog THEN 0 ELSE 1)
      BY <1>1, <3>1 DEF Serving, Counting
    <3> QED
      BY <1>2, <3>1, <3>2, <3>3, ServerAssumption DEF Serving, Counting
  <2> QED
    BY <2>1, <2>2
<1>5. Accepting'
  BY <1>1, <1>2 DEF ClientConnects, AcceptCompletes, Serving, Accepting
<1> QED
  BY <1>2, <1>3, <1>4, <1>5 DEF Serving

(* The listen thread, where it does not open a session.                    *)
LEMMA ListenerServes ==
  ASSUME Serving, OnAccept \/ Rearm \/ ListenerEnds \/ OpenThrows
  PROVE  Serving'
<1>1. UNCHANGED <<registryVars, sessionVars, broadcastVars, idleVars, current, target, pc,
                  clients, errors, backlog>>
  BY DEF OnAccept, Rearm, ListenerEnds, OpenThrows, ListenerUnchanged, managerVars, appVars, acceptVars
<1>2. /\ Registry' /\ OpenIsRegistered'
      /\ UNCHANGED <<sessions, sessionidx, id, cleared, state, closing, removing, Registered,
                     broadcast, snapshot, rounds>>
  BY <1>1, SessionsStay DEF broadcastVars, idleVars
<1>3. ASSUME accepting' \in Session \cup {0}, opening' \in Session \cup {0},
             listener' \in {"none", "run", "open", "rearm", "ended"},
             (IF listener' = "open" THEN 1 ELSE 0) + (IF result' = "ok" THEN 1 ELSE 0)
               <= (IF listener = "open" THEN 1 ELSE 0) + (IF result = "ok" THEN 1 ELSE 0),
             Accepting'
      PROVE  Serving'
  <2>1. ServerType'
    BY <1>1, <1>2, <1>3 DEF Serving, ServerType
  <2>2. Counting'
    <3> DEFINE a == IF listener = "open" THEN 1 ELSE 0
               b == IF result = "ok" THEN 1 ELSE 0
               c == IF listener' = "open" THEN 1 ELSE 0
               d == IF result' = "ok" THEN 1 ELSE 0
    <3>1. {a, b, c, d} \subseteq Nat /\ c + d <= a + b
      BY <1>3
    <3>2. sessionidx + backlog + a + b <= clients /\ {sessionidx, clients, backlog} \subseteq Nat
      BY DEF Serving, Counting
    <3>3. sessionidx + backlog + c + d <= clients
      <4> HIDE DEF a, b, c, d
      <4> QED
        BY <3>1, <3>2
    <3> QED
      BY <1>1, <1>2, <3>3 DEF Serving, Counting
  <2> QED
    BY <1>2, <1>3, <2>1, <2>2 DEF Serving
<1>4. CASE OnAccept
  <2>1. /\ listener = "run" /\ result # "none" /\ accepting # 0
        /\ opening' = (IF result = "aborted" THEN 0 ELSE accepting)
        /\ accepting' = 0 /\ result' = "none"
        /\ listener' = CASE result = "ok" -> "open" [] result = "aborted" -> "run" [] OTHER -> "rearm"
    BY <1>4 DEF OnAccept, Serving, Accepting
  <2>2. /\ result = "ok" => listener' = "open"
        /\ result # "ok" => listener' \in {"run", "rearm"}
    BY <2>1
  <2>3. Accepting'
    BY <1>1, <1>2, <2>1, <2>2 DEF Serving, Accepting
  <2>4. accepting \in Session
    BY <2>1 DEF Serving, ServerType
  <2> QED
    BY <1>3, <2>1, <2>2, <2>3, <2>4
<1>5. CASE Rearm
  <2>1. /\ listener = "rearm" /\ listener' = "run" /\ accepting = 0
        /\ opening' = 0 /\ accepting' = NewSession /\ result' \in {"none", "failed"}
    BY <1>5 DEF Rearm, NextAccept, Serving, Accepting
  <2>2. NewSession \in Session /\ id[NewSession] = 0 /\ NewSession # 0
    BY <2>1, NewSessionIsNew DEF Serving
  <2>3. Accepting'
    BY <1>1, <1>2, <2>1, <2>2 DEF Serving, Accepting
  <2> QED
    BY <1>3, <2>1, <2>2, <2>3
<1>6. CASE ListenerEnds
  <2>1. /\ listener = "run" /\ listener' = "ended" /\ UNCHANGED <<accepting, result, opening>>
    BY <1>6 DEF ListenerEnds
  <2>2. Accepting'
    BY <1>1, <1>2, <2>1 DEF Serving, Accepting
  <2>3. accepting \in Session \cup {0} /\ opening \in Session \cup {0}
    BY DEF Serving, ServerType
  <2> QED
    BY <1>3, <2>1, <2>2, <2>3
<1>7. CASE OpenThrows
  <2>1. listener = "open" /\ UNCHANGED <<accepting, result, opening, listener>>
    BY <1>7 DEF OpenThrows, acceptVars
  <2>2. Accepting'
    BY <1>1, <1>2, <2>1 DEF Serving, Accepting
  <2>3. accepting \in Session \cup {0} /\ opening \in Session \cup {0}
    BY DEF Serving, ServerType
  <2> QED
    BY <1>3, <2>1, <2>2, <2>3
<1> QED
  BY <1>4, <1>5, <1>6, <1>7

(* ClientSession::Open registers the session, then makes it open.          *)
LEMMA OpenServes ==
  ASSUME Serving, OpenAdds \/ OpenActivates
  PROVE  Serving'
<1>1. CASE OpenAdds
  <2>1. /\ listener = "open" /\ listener' = "added" /\ AddSession(opening)
        /\ UNCHANGED <<current, pc, target, accepting, result, opening, backlog, clients, errors,
                       state, closing, removing, broadcast, snapshot, rounds>>
    BY <1>1
    DEF OpenAdds, ListenerUnchanged, appVars, sessionVars, broadcastVars, idleVars
  <2>2. opening \in Session /\ id[opening] = 0 /\ accepting = 0
    BY <2>1 DEF Serving, Accepting, ServerType
  <2>3. /\ Registry' /\ Registered' = Registered \cup {opening} /\ UNCHANGED cleared
        /\ id'[opening] # 0 /\ sessionidx' = sessionidx + 1
        /\ \A s \in Session : s # opening => id'[s] = id[s]
    BY <2>1, <2>2, AddRegisters DEF Serving
  <2>4. OpenIsRegistered'
    BY <2>1, <2>3 DEF Serving, OpenIsRegistered
  <2>5. ServerType'
    BY <2>1 DEF Serving, ServerType
  <2>6. Counting'
    <3> DEFINE b == IF result = "ok" THEN 1 ELSE 0
    <3>1. sessionidx + backlog + 1 + b <= clients /\ b \in Nat /\ {sessionidx, backlog} \subseteq Nat
      BY <2>1 DEF Serving, Counting
    <3>2. (IF listener' = "open" THEN 1 ELSE 0) = 0 /\ (IF result' = "ok" THEN 1 ELSE 0) = b
      BY <2>1
    <3> HIDE DEF b
    <3> QED
      BY <2>1, <2>3, <3>1, <3>2 DEF Serving, Counting
  <2>7. Accepting'
    BY <2>1, <2>2, <2>3 DEF Serving, Accepting
  <2> QED
    BY <2>3, <2>4, <2>5, <2>6, <2>7 DEF Serving
<1>2. CASE OpenActivates
  <2>1. /\ listener = "added" /\ listener' = "rearm" /\ state' = [state EXCEPT ![opening] = 1]
        /\ UNCHANGED <<current, pc, target, accepting, result, opening, backlog, clients, errors,
                       sessions, sessionidx, id, cleared, closing, removing, broadcast, snapshot, rounds>>
    BY <1>2
    DEF OpenActivates, ListenerUnchanged, appVars, registryVars, broadcastVars, idleVars
  <2>2. Registry' /\ Registered' = Registered
    BY <2>1 DEF Serving, Registry, Registered, Range
  <2>3. opening \in Session /\ opening \in Registered \cup cleared /\ accepting = 0
    BY <2>1 DEF Serving, Accepting, ServerType
  <2>4. OpenIsRegistered'
    BY <2>1, <2>2, <2>3 DEF Serving, ServerType, OpenIsRegistered
  <2>5. ServerType'
    BY <2>1, <2>3 DEF Serving, ServerType
  <2>6. Counting'
    <3>1. /\ (IF listener' = "open" THEN 1 ELSE 0) = (IF listener = "open" THEN 1 ELSE 0)
          /\ (IF result' = "ok" THEN 1 ELSE 0) = (IF result = "ok" THEN 1 ELSE 0)
      BY <2>1
    <3> QED
      BY <2>1, <3>1 DEF Serving, Counting
  <2>7. Accepting'
    BY <2>1, <2>2, <2>3 DEF Serving, Accepting, ServerType
  <2> QED
    BY <2>2, <2>4, <2>5, <2>6, <2>7 DEF Serving
<1> QED
  BY <1>1, <1>2

(* What a step of the manager leaves to the server: a session that it      *)
(* takes from the map is not one that OnAccept has in hand.                *)
LEMMA ManagerServes ==
  ASSUME Serving, Registry', OpenIsRegistered', ServerType', Accepting',
         UNCHANGED <<listener, sessionidx, result, backlog, clients, errors>>,
         rounds' = rounds \/ (rounds' = rounds + 1 /\ Eventful)
  PROVE  Serving'
<1>1. /\ (IF listener' = "open" THEN 1 ELSE 0) = (IF listener = "open" THEN 1 ELSE 0)
      /\ (IF result' = "ok" THEN 1 ELSE 0) = (IF result = "ok" THEN 1 ELSE 0)
  OBVIOUS
<1>2. Counting'
  BY <1>1, ServerAssumption DEF Serving, Counting, Eventful
<1> QED
  BY <1>2 DEF Serving

(* Steps of the manager that leave the sessions alone.                     *)
LEMMA ManagerRests ==
  ASSUME Serving,
         \/ SetIdleTime \/ StopIdle \/ JoinIdle \/ BroadcastBegin \/ BroadcastEnd
         \/ (Eventful /\ OnIdleSessions) \/ NextRound \/ IdleEnds,
         UNCHANGED serverVars
  PROVE  Serving'
<1>1. UNCHANGED <<registryVars, sessionVars>>
  BY DEF SetIdleTime, StopIdle, JoinIdle, BroadcastBegin, BroadcastEnd, OnIdleSessions, NextRound,
         IdleEnds
<1>2. /\ Registry' /\ OpenIsRegistered'
      /\ UNCHANGED <<sessions, sessionidx, id, cleared, state, closing, removing, Registered>>
  BY <1>1, SessionsStay
<1>3. UNCHANGED <<current, target, pc, listener, opening, accepting, result, backlog, clients, errors>>
  BY DEF serverVars, appVars, acceptVars
<1>4. Registered \subseteq Session
  BY RegisteredHaveIds DEF Serving
<1>5. /\ broadcast' \in {broadcast, Registered} /\ snapshot' \in {snapshot, Registered, {}}
      /\ rounds' = rounds \/ (rounds' = rounds + 1 /\ Eventful)
  BY DEF SetIdleTime, StopIdle, JoinIdle, BroadcastBegin, BroadcastEnd, OnIdleSessions, NextRound,
         IdleEnds, GetSessions, broadcastVars, idleVars
<1>6. ServerType'
  BY <1>2, <1>3, <1>4, <1>5 DEF Serving, ServerType
<1>7. Accepting'
  BY <1>2, <1>3 DEF Serving, Accepting
<1> QED
  BY <1>2, <1>3, <1>5, <1>6, <1>7, ManagerServes

(* A session begins to close.                                              *)
LEMMA CloseBeginServes ==
  ASSUME Serving, NEW t \in {"io", "idle", "app"}, NEW s \in Session, state[s] = 1,
         CloseBegin(t, s), UNCHANGED registryVars, rounds' = rounds,
         broadcast' \subseteq broadcast, snapshot' \subseteq snapshot,
         UNCHANGED <<current, pc, target, listener, opening, accepting, result, backlog, clients, errors>>
  PROVE  Serving'
<1>1. /\ state' \in [Session -> {-1, 0, 1}] /\ closing' = closing \cup {s}
      /\ removing' \subseteq {"io", "idle", "app"} \X closing' /\ closing' \subseteq Session
      /\ state'[s] = -1 /\ \A u \in Session : u # s => state'[u] = state[u]
  BY CloseBegins DEF Serving
<1>2. UNCHANGED <<sessions, sessionidx, id, cleared>> /\ Registered' = Registered
  BY DEF registryVars, Registered, Range
<1>3. Registry' /\ OpenIsRegistered'
  BY <1>1, <1>2 DEF Serving, Registry, OpenIsRegistered
<1>4. ServerType'
  BY <1>1 DEF Serving, ServerType
<1>5. id[s] # 0 /\ (listener = "added" => s # opening)
  BY DEF Serving, Accepting
<1>6. opening # 0 => opening \in Session
  BY DEF Serving, ServerType
<1>7. Accepting'
  BY <1>1, <1>2, <1>5, <1>6 DEF Serving, Accepting
<1> QED
  BY <1>2, <1>3, <1>4, <1>7, ManagerServes

(* It takes itself from the map.                                           *)
LEMMA RemovesServes ==
  ASSUME Serving, NEW t \in {"io", "idle"}, NEW s \in Session, Removes(t, s)
  PROVE  Serving'
<1>1. /\ Registry' /\ UNCHANGED <<cleared, id, sessionidx, state, closing>>
      /\ Registered' \subseteq Registered /\ Registered \ {s} \subseteq Registered'
      /\ s \in closing /\ removing' \subseteq removing
      /\ UNCHANGED <<broadcast, snapshot, rounds>>
  BY CloseEnds DEF Removes, Serving
<1>2. UNCHANGED <<current, pc, target, listener, opening, accepting, result, backlog, clients, errors>>
  BY DEF Removes, HandlersUnchanged, appVars, acceptVars
<1>3. OpenIsRegistered'
  BY <1>1 DEF Serving, OpenIsRegistered
<1>4. ServerType'
  BY <1>1, <1>2 DEF Serving, ServerType
<1>5. Accepting'
  BY <1>1, <1>2 DEF Serving, Accepting
<1> QED
  BY <1>1, <1>2, <1>3, <1>4, <1>5, ManagerServes

(* Handlers, broadcasts and tests for idle sessions.                       *)
LEMMA SessionsServe ==
  ASSUME Serving, NEW s \in Session, IoCloses(s) \/ WriteOne(s) \/ TestOne(s)
  PROVE  Serving'
<1>1. UNCHANGED <<current, pc, target, listener, opening, accepting, result, backlog, clients, errors>>
  BY DEF IoCloses, WriteOne, TestOne, Uses, HandlersUnchanged, appVars, acceptVars
<1>2. UNCHANGED <<registryVars, rounds>> /\ broadcast' \subseteq broadcast /\ snapshot' \subseteq snapshot
  BY DEF IoCloses, WriteOne, TestOne, BroadcastWrite, BroadcastFull, TestIdle, broadcastVars, idleVars
<1>3. \/ UNCHANGED sessionVars
      \/ state[s] = 1 /\ \E t \in {"io", "idle", "app"} : CloseBegin(t, s)
  BY DEF IoCloses, WriteOne, TestOne, BroadcastWrite, BroadcastFull, TestIdle
<1>4. CASE UNCHANGED sessionVars
  <2>1. /\ Registry' /\ OpenIsRegistered'
        /\ UNCHANGED <<sessions, sessionidx, id, cleared, state, closing, removing, Registered>>
    BY <1>2, <1>4, SessionsStay
  <2>2. ServerType'
    BY <1>1, <1>2, <2>1 DEF Serving, ServerType
  <2>3. Accepting'
    BY <1>1, <2>1 DEF Serving, Accepting
  <2> QED
    BY <1>1, <1>2, <2>1, <2>2, <2>3, ManagerServes
<1>5. ASSUME NEW t \in {"io", "idle", "app"}, CloseBegin(t, s), state[s] = 1 PROVE Serving'
  BY <1>1, <1>2, <1>5, CloseBeginServes
<1> QED
  BY <1>3, <1>4, <1>5

(* A step that leaves all of it alone.                                     *)
LEMMA RestServes ==
  ASSUME Serving, UNCHANGED <<registryVars, sessionVars, broadcast, snapshot, rounds>>,
         UNCHANGED <<current, pc, target, listener, opening, accepting, result, backlog, clients, errors>>
  PROVE  Serving'
<1>1. /\ Registry' /\ OpenIsRegistered'
      /\ UNCHANGED <<sessions, sessionidx, id, cleared, state, closing, removing, Registered>>
  BY SessionsStay
<1>2. ServerType'
  BY <1>1 DEF Serving, ServerType
<1>3. Accepting'
  BY <1>1 DEF Serving, Accepting
<1> QED
  BY <1>1, <1>2, <1>3, ManagerServes

(* Every step of the server.                                               *)
LEMMA ServingNext == Serving /\ [Next]_vars => Serving'
<1> SUFFICES ASSUME Serving, [Next]_vars PROVE Serving'
  OBVIOUS
<1>1. CASE Stop \/ Destroy \/ \E a \in Address : Start(a)
  BY <1>1, StopServes
<1>2. CASE AppStep
  <2>1. CASE CloseAcceptor \/ StopServices \/ ListenFails
    BY <2>1, StopServes
  <2>2. CASE StopClears \/ DestroyManager
    BY <2>2, ClearServes
  <2>3. CASE JoinAndDelete \/ Listen
    BY <2>3, StartServes
  <2>4. CASE ManagerStep(StopIdle) \/ ManagerStep(JoinIdle) \/ ManagerStep(BroadcastEnd)
    BY <2>4, ManagerRests DEF ManagerStep
  <2>5. ASSUME NEW s \in Session, WriteOne(s) PROVE Serving'
    BY <2>5, SessionsServe
  <2> QED
    BY <1>2, <2>1, <2>2, <2>3, <2>4, <2>5 DEF AppStep, Broadcasts
<1>3. CASE CallManager
  BY <1>3, ManagerRests DEF CallManager, ManagerStep
<1>4. CASE ClientConnects \/ AcceptCompletes
  BY <1>4, NetworkServes
<1>5. CASE ListenerStep \/ OpenThrows
  BY <1>5, ListenerServes, OpenServes DEF ListenerStep
<1>6. CASE IoStep
  <2>1. CASE IoEnds
    BY <2>1, RestServes
    DEF IoEnds, HandlersUnchanged, managerVars, appVars, acceptVars, broadcastVars, idleVars
  <2> QED
    BY <1>6, <2>1, RemovesServes DEF IoStep
<1>7. ASSUME NEW s \in Session, IoCloses(s) PROVE Serving'
  BY <1>7, SessionsServe
<1>8. CASE IdleStep
  BY <1>8, ManagerRests, SessionsServe, RemovesServes DEF IdleStep, ManagerStep
<1>9. CASE Eventful /\ ManagerStep(OnIdleSessions)
  BY <1>9, ManagerRests DEF ManagerStep
<1>10. CASE UNCHANGED vars
  BY <1>10, RestServes
  DEF vars, managerVars, serverVars, appVars, acceptVars, broadcastVars, idleVars
<1> QED
  BY <1>1, <1>2, <1>3, <1>4, <1>5, <1>6, <1>7, <1>8, <1>9, <1>10 DEF Next

(* A session that is open is in the map until it closes or Stop clears it, *)
(* also while sessions of before a restart close.                          *)
THEOREM ServerOpenIsRegistered == Spec => []OpenIsRegistered
<1>1. Serving => OpenIsRegistered
  BY DEF Serving
<1> QED
  BY <1>1, ServingInit, ServingNext, PTL DEF Spec

(* The variables keep their types; ids are unique and lead to their        *)
(* sessions, and the session of the next accept is a new one.              *)
THEOREM ServerTypeOK == Spec => []TypeOK
<1>1. Serving => TypeOK
  BY RegisteredHaveIds DEF Serving, Registry, ServerType, Accepting, TypeOK
<1> QED
  BY <1>1, ServingInit, ServingNext, PTL DEF Spec

-----------------------------------------------------------------------------
(* What is left of a server that was stopped.                              *)

(* Stop finds no new session once it has stopped the listener: what is in  *)
(* the map when it deletes the service, or will be, was left over by       *)
(* OnAccept, and no broadcast is under way then.                           *)
Stopping ==
  /\ pc \in {"iosvc", "clear", "join"} => listensvc # "running"
  /\ pc = "join" => /\ Registered \subseteq leftover
                    /\ listener = "open" => opening \in leftover
  /\ unserved \cap (Registered \cup broadcast \cup snapshot) \subseteq leftover
  /\ unserved \subseteq {s \in Session : id[s] # 0}
  /\ locked => pc = "idle"
  /\ ~locked => broadcast = {}

(* Threads end when they have closed what they were about to close, and    *)
(* the manager goes after them.                                            *)
Ending ==
  /\ Closing("idle") => idle = "testing"
  /\ iothread # "run" /\ ~shared => ~Closing("io")
  /\ pc \in {"destroy", "destroyed"} => iothread = "none"
  /\ pc = "destroyed" => idle = "none"

(* Nothing was started yet.                                                *)
LEMMA StoppedInit == Init => Stopping /\ Ending /\ NothingUsedLate
<1> SUFFICES ASSUME Init PROVE Stopping /\ Ending /\ NothingUsedLate
  OBVIOUS
<1>1. Registered = {}
  BY DEF Init, InitManager, Registered, Range
<1> QED
  BY <1>1 DEF Init, InitManager, Stopping, Ending, NothingUsedLate, Closing

(* Calls up to the clearing of the map.                                    *)
LEMMA StopLeaves ==
  ASSUME Stopping, Ending, NothingUsedLate,
         \/ Stop \/ Destroy \/ CloseAcceptor \/ StopServices \/ ListenFails
         \/ \E a \in Address : Start(a)
  PROVE  Stopping' /\ Ending' /\ NothingUsedLate'
<1>1. UNCHANGED <<sessions, id, removing, broadcast, locked, idle, snapshot, listener, opening,
                  shared, iothread, unserved, leftover, misused, late>>
  BY DEF Stop, Destroy, CloseAcceptor, StopServices, ListenFails, Start, Call, managerVars,
         registryVars, sessionVars, broadcastVars, idleVars, ioVars, historyVars
<1>2. Registered' = Registered /\ (Closing("io") <=> Closing("io")') /\ (Closing("idle") <=> Closing("idle")')
  BY <1>1 DEF Registered, Range, Closing
<1>3. /\ pc = "idle" => ~locked /\ pc' = "acceptor"
      /\ pc' \in {"acceptor", "listensvc", "iosvc", "clear", "idle"}
      /\ pc' = "iosvc" => listensvc' # "running"
      /\ pc' = "clear" => pc = "iosvc" /\ listensvc' = listensvc
  BY DEF Stop, Destroy, CloseAcceptor, StopServices, ListenFails, Start, Call, Ready, Stopped, acceptVars
<1>4. Stopping'
  BY <1>1, <1>2, <1>3 DEF Stopping
<1>5. Ending'
  BY <1>1, <1>2, <1>3 DEF Ending
<1> QED
  BY <1>1, <1>4, <1>5 DEF NothingUsedLate

(* Stop clears the map: who OnAccept is opening comes after it.            *)
LEMMA ClearLeaves ==
  ASSUME Serving, Stopping, Ending, NothingUsedLate, StopClears
  PROVE  Stopping' /\ Ending' /\ NothingUsedLate'
<1>1. /\ pc = "clear" /\ pc' = "join" /\ Clear
      /\ leftover' = leftover \cup ({opening} \ ({0} \cup Registered))
      /\ UNCHANGED <<removing, broadcast, locked, idle, snapshot, listener, opening, listensvc,
                     shared, iothread, unserved, misused, late>>
  BY DEF StopClears, ClearSessions, sessionVars, broadcastVars, idleVars, ioVars, acceptVars
<1>2. Registered' = {} /\ UNCHANGED id
  BY <1>1, ClearUnregisters DEF Serving
<1>3. listener = "open" => opening # 0 /\ opening \notin Registered
  BY RegisteredHaveIds DEF Serving, Accepting
<1>4. Stopping'
  BY <1>1, <1>2, <1>3 DEF Stopping
<1>5. Ending'
  BY <1>1 DEF Ending, Closing
<1> QED
  BY <1>1, <1>4, <1>5 DEF NothingUsedLate

(* Stop deletes the service; the threads that used it were joined.         *)
LEMMA DeleteLeaves ==
  ASSUME Serving, Stopping, Ending, NothingUsedLate, JoinAndDelete
  PROVE  Stopping' /\ Ending' /\ NothingUsedLate'
<1>1. /\ pc = "join" /\ pc' \in {"destroy", "idle", "listen"}
      /\ iothread \in {"none", "ended"} /\ iothread' = "none" /\ listener' = "none"
      /\ unserved' = unserved \cup (IF shared THEN {} ELSE {s \in Session : id[s] # 0})
      /\ leftover' = leftover \cup snapshot
      /\ UNCHANGED <<sessions, id, removing, broadcast, locked, idle, snapshot, shared, misused, late>>
  BY DEF JoinAndDelete, Joined, managerVars, registryVars, sessionVars, broadcastVars, idleVars
<1>2. Registered' = Registered
  BY <1>1 DEF Registered, Range
<1>3. broadcast = {} /\ ~locked
  BY <1>1 DEF Stopping
<1>4. Stopping'
  BY <1>1, <1>2, <1>3 DEF Stopping
<1>5. Ending'
  BY <1>1 DEF Ending, Closing
<1> QED
  BY <1>1, <1>4, <1>5 DEF NothingUsedLate

(* Start listens, with threads of its own.                                 *)
LEMMA ListenLeaves ==
  ASSUME Stopping, Ending, NothingUsedLate, Listen
  PROVE  Stopping' /\ Ending' /\ NothingUsedLate'
<1>1. /\ pc = "listen" /\ pc' = "idle" /\ listener' = "run"
      /\ iothread' = (IF shared THEN "none" ELSE "run")
      /\ UNCHANGED <<sessions, id, removing, broadcast, locked, idle, snapshot, shared,
                     unserved, leftover, misused, late>>
  BY DEF Listen, ThreadsRun, managerVars, registryVars, sessionVars, broadcastVars, idleVars, historyVars
<1>2. Registered' = Registered
  BY <1>1 DEF Registered, Range
<1>3. Stopping'
  BY <1>1, <1>2 DEF Stopping
<1>4. Ending'
  BY <1>1 DEF Ending, Closing
<1> QED
  BY <1>1, <1>3, <1>4 DEF NothingUsedLate

(* The manager goes when the idle thread has gone.                         *)
LEMMA DestroyLeaves ==
  ASSUME Serving, Stopping, Ending, NothingUsedLate, DestroyManager
  PROVE  Stopping' /\ Ending' /\ NothingUsedLate'
<1>1. /\ pc = "destroy" /\ pc' = "destroyed" /\ idle = "none" /\ Clear
      /\ UNCHANGED <<removing, broadcast, locked, idle, snapshot, shared, iothread,
                     unserved, leftover, misused, late>>
  BY DEF DestroyManager, sessionVars, broadcastVars, idleVars, ioVars, historyVars
<1>2. Registered' = {} /\ UNCHANGED id
  BY <1>1, ClearUnregisters DEF Serving
<1>3. Stopping'
  BY <1>1, <1>2 DEF Stopping
<1>4. Ending'
  BY <1>1 DEF Ending, Closing
<1> QED
  BY <1>1, <1>3, <1>4 DEF NothingUsedLate

(* The listen thread takes a session only while the listener runs, and     *)
(* adds the one it had.                                                    *)
LEMMA ListenerLeaves ==
  ASSUME Serving, Stopping, Ending, NothingUsedLate, ListenerStep \/ OpenThrows
  PROVE  Stopping' /\ Ending' /\ NothingUsedLate'
<1>1. UNCHANGED <<removing, broadcast, locked, idle, snapshot, listensvc, pc, shared, iothread,
                  unserved, leftover, misused, late>>
  BY DEF ListenerStep, OnAccept, OpenAdds, OpenActivates, Rearm, ListenerEnds, OpenThrows,
         ListenerUnchanged, managerVars, registryVars, sessionVars, broadcastVars, idleVars, ioVars,
         historyVars, appVars, acceptVars
<1>2. Ending' /\ NothingUsedLate'
  BY <1>1 DEF Ending, NothingUsedLate, Closing
<1>3. CASE OpenAdds
  <2>1. listener = "open" /\ listener' = "added" /\ AddSession(opening)
    BY <1>3 DEF OpenAdds
  <2>2. opening \in Session /\ id[opening] = 0
    BY <2>1 DEF Serving, Accepting, ServerType
  <2>3. /\ Registered' = Registered \cup {opening} /\ id'[opening] # 0
        /\ \A t \in Session : t # opening => id'[t] = id[t]
    BY <2>1, <2>2, AddRegisters DEF Serving
  <2>4. opening \notin unserved
    BY <2>2 DEF Stopping
  <2>5. Stopping'
    BY <1>1, <2>1, <2>2, <2>3, <2>4 DEF Stopping
  <2> QED
    BY <1>2, <2>5
<1>4. ASSUME UNCHANGED <<sessions, id>>, pc = "join" /\ listener' = "open" => listener = "open" /\ opening' = opening
      PROVE  Stopping'
  <2>1. Registered' = Registered
    BY <1>4 DEF Registered, Range
  <2> QED
    BY <1>1, <1>4, <2>1 DEF Stopping
<1>5. CASE OnAccept
  <2>1. listensvc = "running"
    BY <1>5 DEF OnAccept
  <2>2. pc # "join"
    BY <2>1 DEF Stopping
  <2> QED
    BY <1>2, <1>4, <1>5, <2>2 DEF OnAccept, managerVars, registryVars
<1>6. CASE OpenActivates \/ Rearm \/ ListenerEnds \/ OpenThrows
  <2>1. UNCHANGED <<sessions, id>> /\ (listener' # "open" \/ UNCHANGED <<listener, opening>>)
    BY <1>6 DEF OpenActivates, Rearm, ListenerEnds, OpenThrows, managerVars, registryVars
  <2> QED
    BY <1>2, <1>4, <2>1
<1> QED
  BY <1>3, <1>5, <1>6 DEF ListenerStep

(* Handlers of the sessions, and the idle thread's: a session is closed on *)
(* a thread that runs.                                                     *)
LEMMA ClosersLeave ==
  ASSUME Serving, Stopping, Ending, NothingUsedLate, NEW s \in Session,
         \/ IoCloses(s) \/ Removes("io", s) \/ Removes("idle", s) \/ IoEnds
  PROVE  Stopping' /\ Ending' /\ NothingUsedLate'
<1>1. UNCHANGED <<broadcast, locked, idle, snapshot, listensvc, listener, opening, pc, shared,
                  unserved, leftover, misused>>
  BY CloseEnds
  DEF IoCloses, Removes, CloseEnd, IoEnds, HandlersUnchanged, managerVars, broadcastVars, idleVars, appVars,
      acceptVars
<1>2. CASE IoEnds
  <2>1. /\ UNCHANGED <<sessions, id, removing, late>> /\ ~Closing("io")
        /\ iothread = "run" /\ iothread' = "ended"
    BY <1>2 DEF IoEnds, HandlersUnchanged, managerVars, registryVars, sessionVars
  <2>2. Registered' = Registered
    BY <2>1 DEF Registered, Range
  <2>3. Stopping'
    BY <1>1, <2>1, <2>2 DEF Stopping
  <2>4. Ending'
    BY <1>1, <2>1 DEF Ending, Closing
  <2> QED
    BY <1>1, <2>1, <2>3, <2>4 DEF NothingUsedLate
<1>3. CASE IoCloses(s)
  <2>1. /\ UNCHANGED <<sessions, id, late, iothread>> /\ (shared \/ iothread = "run")
        /\ removing' = removing \cup {<<"io", s>>}
    BY <1>3 DEF IoCloses, CloseBegin, Served, HandlersUnchanged, registryVars
  <2>2. Registered' = Registered
    BY <2>1 DEF Registered, Range
  <2>3. Stopping'
    BY <1>1, <2>1, <2>2 DEF Stopping
  <2>4. Ending'
    BY <1>1, <2>1 DEF Ending, Closing
  <2> QED
    BY <1>1, <2>1, <2>3, <2>4 DEF NothingUsedLate
<1>4. ASSUME NEW t \in {"io", "idle"}, Removes(t, s)
      PROVE  Stopping' /\ Ending' /\ NothingUsedLate'
  <2>1. /\ UNCHANGED <<id, iothread>> /\ Registered' \subseteq Registered
        /\ removing' \subseteq removing /\ <<t, s>> \in removing
        /\ late' = (late \/ pc = "destroyed")
    BY <1>4, CloseEnds DEF Removes, CloseEnd, HandlersUnchanged, Serving
  <2>2. Closing(t)
    BY <2>1 DEF Closing
  <2>3. Stopping'
    BY <1>1, <2>1 DEF Stopping
  <2>4. Ending'
    BY <1>1, <2>1 DEF Ending, Closing
  <2>5. pc = "destroyed" => shared
    BY <2>2 DEF Ending
  <2> QED
    BY <1>1, <2>1, <2>3, <2>4, <2>5 DEF NothingUsedLate
<1> QED
  BY <1>2, <1>3, <1>4

(* Broadcasts and tests use sessions whose service is there, or that were  *)
(* left over.                                                              *)
LEMMA UsesLeave ==
  ASSUME Serving, Stopping, Ending, NothingUsedLate, NEW s \in Session, WriteOne(s) \/ TestOne(s)
  PROVE  Stopping' /\ Ending' /\ NothingUsedLate'
<1>1. UNCHANGED <<sessions, id, locked, idle, listensvc, listener, opening, pc, shared,
                  unserved, leftover, late, iothread>>
  BY DEF WriteOne, TestOne, BroadcastWrite, BroadcastFull, TestIdle, Uses, HandlersUnchanged,
         registryVars, idleVars, broadcastVars, appVars, acceptVars
<1>2. Registered' = Registered
  BY <1>1 DEF Registered, Range
<1>3. /\ broadcast' \subseteq broadcast /\ snapshot' \subseteq snapshot
      /\ s \in broadcast \cup snapshot /\ (locked => locked')
  BY DEF WriteOne, TestOne, BroadcastWrite, BroadcastFull, TestIdle, IsNext, idleVars, broadcastVars
<1>4. \/ removing' \subseteq removing \cup {<<"app", s>>}
      \/ removing' = removing \cup {<<"idle", s>>} /\ idle = "testing"
  BY DEF WriteOne, TestOne, BroadcastWrite, BroadcastFull, TestIdle, CloseBegin, sessionVars
<1>5. misused' => misused \/ s \in unserved \ leftover
  BY DEF WriteOne, TestOne, Uses
<1>6. Stopping'
  BY <1>1, <1>2, <1>3 DEF Stopping
<1>7. Ending'
  BY <1>1, <1>4 DEF Ending, Closing
<1>8. ~misused'
  BY <1>3, <1>5 DEF Stopping, NothingUsedLate
<1> QED
  BY <1>1, <1>6, <1>7, <1>8 DEF NothingUsedLate

(* The rest of the manager, which takes what is registered.                *)
LEMMA ManagerLeaves ==
  ASSUME Stopping, Ending, NothingUsedLate, UNCHANGED serverVars,
         \/ pc = "idle" /\ (SetIdleTime \/ StopIdle \/ BroadcastBegin)
         \/ StopIdle \/ JoinIdle \/ BroadcastEnd \/ OnIdleSessions \/ NextRound \/ IdleEnds
  PROVE  Stopping' /\ Ending' /\ NothingUsedLate'
<1>1. UNCHANGED <<sessions, id, removing>>
  BY DEF SetIdleTime, StopIdle, JoinIdle, BroadcastBegin, BroadcastEnd, OnIdleSessions, NextRound,
         IdleEnds, registryVars, sessionVars
<1>2. Registered' = Registered /\ (Closing("io") <=> Closing("io")') /\ (Closing("idle") <=> Closing("idle")')
  BY <1>1 DEF Registered, Range, Closing
<1>3. UNCHANGED <<listensvc, listener, opening, pc, shared, iothread, unserved, leftover, misused, late>>
  BY DEF serverVars, appVars, acceptVars, ioVars, historyVars
<1>4. /\ snapshot' \in {snapshot, Registered, {}}
      /\ \/ UNCHANGED <<broadcast, locked>>
         \/ broadcast' = Registered /\ locked' /\ pc = "idle"
         \/ broadcast' = {} /\ ~locked'
  BY DEF SetIdleTime, StopIdle, JoinIdle, BroadcastBegin, BroadcastEnd, OnIdleSessions, NextRound,
         IdleEnds, GetSessions, broadcastVars, idleVars
<1>5. Stopping'
  BY <1>1, <1>2, <1>3, <1>4 DEF Stopping
<1>6. /\ idle = "testing" => idle' = "testing" \/ ~Closing("idle")
      /\ idle = "none" => idle' = "none" \/ pc = "idle"
  BY DEF SetIdleTime, StopIdle, JoinIdle, BroadcastBegin, BroadcastEnd, OnIdleSessions, NextRound,
         IdleEnds, broadcastVars, idleVars
<1>7. Ending'
  BY <1>2, <1>3, <1>6 DEF Ending
<1> QED
  BY <1>3, <1>5, <1>7 DEF NothingUsedLate

(* What touches none of it.                                                *)
LEMMA RestLeaves ==
  ASSUME Stopping, Ending, NothingUsedLate,
         UNCHANGED <<sessions, id, removing, broadcast, locked, idle, snapshot, listensvc, listener,
                     opening, pc, shared, iothread, unserved, leftover, misused, late>>
  PROVE  Stopping' /\ Ending' /\ NothingUsedLate'
<1>1. Registered' = Registered
  BY DEF Registered, Range
<1> QED
  BY <1>1 DEF Stopping, Ending, NothingUsedLate, Closing

(* Every step of the server.                                               *)
LEMMA StoppedNext ==
  Serving /\ Stopping /\ Ending /\ NothingUsedLate /\ [Next]_vars
    => Stopping' /\ Ending' /\ NothingUsedLate'
<1> SUFFICES ASSUME Serving, Stopping, Ending, NothingUsedLate, [Next]_vars
             PROVE  Stopping' /\ Ending' /\ NothingUsedLate'
  OBVIOUS
<1>1. CASE Stop \/ Destroy \/ \E a \in Address : Start(a)
  BY <1>1, StopLeaves
<1>2. CASE AppStep
  <2>1. CASE CloseAcceptor \/ StopServices \/ ListenFails
    BY <2>1, StopLeaves
  <2>2. CASE StopClears \/ JoinAndDelete \/ Listen \/ DestroyManager
    BY <2>2, ClearLeaves, DeleteLeaves, ListenLeaves, DestroyLeaves
  <2>3. CASE ManagerStep(StopIdle) \/ ManagerStep(JoinIdle) \/ ManagerStep(BroadcastEnd)
    BY <2>3, ManagerLeaves DEF ManagerStep
  <2>4. ASSUME NEW s \in Session, WriteOne(s)
        PROVE  Stopping' /\ Ending' /\ NothingUsedLate'
    BY <2>4, UsesLeave
  <2> QED
    BY <1>2, <2>1, <2>2, <2>3, <2>4 DEF AppStep, Broadcasts
<1>3. CASE CallManager
  BY <1>3, ManagerLeaves DEF CallManager, ManagerStep, Ready
<1>4. CASE ClientConnects \/ AcceptCompletes
  BY <1>4, RestLeaves
  DEF ClientConnects, AcceptCompletes, managerVars, registryVars, sessionVars, broadcastVars, idleVars,
      appVars, ioVars, historyVars
<1>5. CASE ListenerStep \/ OpenThrows
  BY <1>5, ListenerLeaves
<1>6. CASE IoEnds
  <2>1. 1 \in Session
    BY SessionManagerAssumption DEF Session
  <2> QED
    BY <1>6, <2>1, ClosersLeave
<1>7. ASSUME NEW s \in Session, IoCloses(s) \/ Removes("io", s) \/ Removes("idle", s)
      PROVE  Stopping' /\ Ending' /\ NothingUsedLate'
  BY <1>7, ClosersLeave
<1>8. CASE IdleStep
  BY <1>7, <1>8, ManagerLeaves, UsesLeave DEF IdleStep, ManagerStep
<1>9. CASE ManagerStep(OnIdleSessions)
  BY <1>9, ManagerLeaves DEF ManagerStep
<1>10. CASE UNCHANGED vars
  BY <1>10, RestLeaves
  DEF vars, managerVars, registryVars, sessionVars, broadcastVars, idleVars, serverVars, appVars,
      acceptVars, ioVars, historyVars
<1> QED
  BY <1>1, <1>2, <1>3, <1>4, <1>5, <1>6, <1>7, <1>8, <1>9, <1>10 DEF Next, IoStep

(* Once Stop has deleted the service only what it left over uses it, and   *)
(* nobody uses the manager after its end, unless the service is shared.    *)
THEOREM ServerNothingUsedLate == Spec => []NothingUsedLate
<1> QED
  BY ServingInit, ServingNext, StoppedInit, StoppedNext, PTL DEF Spec
=============================================================================
