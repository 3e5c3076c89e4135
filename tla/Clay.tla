-------------------------------- MODULE Clay --------------------------------
(***************************************************************************)
(* sample/clay: a registry of service providers, which are known by a      *)
(* code, by a name or by both and belong to the registry, and a server     *)
(* whose work calls the service a request names.  The services of each are *)
(* known by codes and by names, too.  Workers look a provider up under     *)
(* g_claymutex and call it outside; the application registers and removes  *)
(* providers and services while no request is handled, as the sample does, *)
(* for nothing protects a call from that.                                  *)
(***************************************************************************)
EXTENDS Integers, Sequences, FiniteSets, SequencesExt

CONSTANTS
  Provider,     (* objects of ClayServiceProvider                             *)
  Code, Name,   (* m_code, and m_name by its place in the order; 0 is none    *)
  Worker,       (* threads of the pool                                        *)
  Services,     (* what SetupServices of each registers: by codes and names   *)
  MaxRequests   (* requests of the session (bound)                            *)

ASSUME ClayAssumption ==
  /\ DOMAIN Services = Provider /\ Code \in [Provider -> Nat] /\ Name \in [Provider -> Nat]
  /\ "nothing" \notin Provider /\ "nobody" \notin Worker /\ MaxRequests \in Nat

Codes == {Code[p] : p \in Provider}
NamesKnown == {Name[p] : p \in Provider}
SvcKeys == UNION {Services[p] : p \in Provider}

VARIABLES
  spintmap, spstrmap,  (* provider by code and by name, "nothing" where none is *)
  services,  (* m_svcintmap and m_svcstrmap of each provider                  *)
  deleted,   (* how often each provider was deleted                           *)
  asked,     (* requests the session has sent                                 *)
  call,      (* of each worker: what it is about to do                        *)
  total,     (* the number in the session's data                              *)
  holder     (* who holds the mutex of the data                               *)

registryVars == <<spintmap, spstrmap, services, deleted>>
requestVars == <<asked, call, total, holder>>
clayVars == <<registryVars, requestVars>>

ClayInit ==
  /\ spintmap = [c \in Codes |-> "nothing"] /\ spstrmap = [n \in NamesKnown |-> "nothing"]
  /\ services = Services /\ deleted = [p \in Provider |-> 0]
  /\ asked = 0 /\ total = 0 /\ holder = "nobody"
  /\ call = [w \in Worker |-> [step |-> "idle"]]

Live(p) == deleted[p] = 0

(* A provider that is deleted twice is the end of the program, or worse.   *)
Sound == \A p \in Provider : deleted[p] <= 1

Quiet == Sound /\ \A w \in Worker : call[w].step = "idle"

-----------------------------------------------------------------------------
(* The registry. *)

PutKey(map, key, p) == IF key # 0 /\ map[key] = "nothing" THEN [map EXCEPT ![key] = p] ELSE map

RegSp(p) ==
  /\ Quiet /\ Live(p)
  /\ spstrmap' = PutKey(spstrmap, Name[p], p) /\ spintmap' = PutKey(spintmap, Code[p], p)
  /\ UNCHANGED <<services, deleted, requestVars>>

Without(map, key) == [map EXCEPT ![key] = "nothing"]

Delete(p) == [deleted EXCEPT ![p] = @ + 1]

(* ~ClayServiceProvider clears the services. *)
ServicesLeft(deaths) == [p \in Provider |-> IF deaths[p] = 0 THEN services[p] ELSE {}]

(* Fault: a provider is deleted without a look at the other map. *)
DeletedAtOnce(p, others, key) == Delete(p)

(* A provider is deleted unless the other map knows its other key, be it   *)
(* for another provider.                                                   *)
DeletedUnless(p, others, key) == IF others[key] = "nothing" THEN Delete(p) ELSE deleted

UnregSpCode(code) ==
  /\ Quiet /\ code # 0 /\ spintmap[code] # "nothing"
  /\ spintmap' = Without(spintmap, code)
  /\ deleted' = DeletedUnless(spintmap[code], spstrmap, Name[spintmap[code]])
  /\ services' = ServicesLeft(deleted')
  /\ UNCHANGED <<spstrmap, requestVars>>

UnregSpName(name) ==
  /\ Quiet /\ name # 0 /\ spstrmap[name] # "nothing"
  /\ spstrmap' = Without(spstrmap, name)
  /\ deleted' = DeletedUnless(spstrmap[name], spintmap, Code[spstrmap[name]])
  /\ services' = ServicesLeft(deleted')
  /\ UNCHANGED <<spintmap, requestVars>>

Known(map) == SelectSeq([i \in 1 .. Cardinality(DOMAIN map) |->
                           map[SetToSortSeq(DOMAIN map, <)[i]]], LAMBDA p : p # "nothing")

(* list::unique leaves out what equals the element before it.              *)
Unique(list) ==
  LET kept == {i \in DOMAIN list : i = 1 \/ list[i] # list[i - 1]}
  IN  [i \in 1 .. Cardinality(kept) |-> list[SetToSortSeq(kept, <)[i]]]

Listed == Unique(Known(spintmap) \o Known(spstrmap))

GetSpCount == Len(Listed)

(* Also ~ClayServiceAgent, when the program ends.                          *)
ClearAgent ==
  /\ Quiet
  /\ deleted' = [p \in Provider |-> deleted[p] + Cardinality({i \in DOMAIN Listed : Listed[i] = p})]
  /\ spintmap' = [c \in Codes |-> "nothing"] /\ spstrmap' = [n \in NamesKnown |-> "nothing"]
  /\ services' = ServicesLeft(deleted')
  /\ UNCHANGED requestVars

(* A provider's own doing, again while nothing is handled. *)
RegisterService(p, svc) ==
  /\ Quiet /\ Live(p) /\ svc \in Services[p]
  /\ services' = [services EXCEPT ![p] = @ \cup {svc}]
  /\ UNCHANGED <<spintmap, spstrmap, deleted, requestVars>>

UnregisterService(p, svc) ==
  /\ Quiet /\ Live(p) /\ svc \in services[p]
  /\ services' = [services EXCEPT ![p] = @ \ {svc}]
  /\ UNCHANGED <<spintmap, spstrmap, deleted, requestVars>>

-----------------------------------------------------------------------------
(* Requests: ClayWork::Handle, CallService, and UpperCase of StringAction. *)

At(w, step) == call[w].step = step

(* A provider and a service of it, each by its code or by its name.        *)
SpKeys == [by : {"code"}, key : Codes] \cup [by : {"name"}, key : NamesKnown]

GetSp(sp) == IF sp.by = "code" THEN spintmap[sp.key] ELSE spstrmap[sp.key]

(* The header of a message has two codes, and 0 is none. *)
Request ==
  [sp : [by : {"code"}, key : Codes \ {0}], svc : {k \in SvcKeys : k.by = "code" /\ k.key # 0}]

GetService(sp, svc) == sp # "nothing" /\ svc \in services[sp]

SvcExists(sp, svc) == GetService(GetSp(sp), svc)

(* A worker that finds the service will call it, and is done otherwise.    *)
FindService(w, sp, svc) ==
  /\ Sound /\ At(w, "idle") /\ asked < MaxRequests /\ asked' = asked + 1
  /\ IF SvcExists(sp, svc)
       THEN call' = [call EXCEPT ![w] = [step |-> "found", sp |-> GetSp(sp), svc |-> svc]]
       ELSE UNCHANGED call
  /\ UNCHANGED <<registryVars, total, holder>>

HandleRequest(w, request) == FindService(w, request.sp, request.svc)

(* CallService of the agent and DoService of a provider, which an          *)
(* application may use as well.                                            *)
CallService(w, sp, svc) == FindService(w, sp, svc)

DataFree == holder = "nobody"

(* GetData locks until its result is gone.                                 *)
GetTotal(w) ==
  /\ At(w, "found") /\ DataFree /\ holder' = w
  /\ call' = [call EXCEPT ![w] = [step |-> "read", sp |-> @.sp, svc |-> @.svc, totalreq |-> total]]
  /\ UNCHANGED <<registryVars, asked, total>>

PutTotal(w) ==
  /\ At(w, "read")
  /\ total' = call[w].totalreq + 1 /\ holder' = "nobody"
  /\ call' = [call EXCEPT ![w] = [step |-> "idle"]]
  /\ UNCHANGED <<registryVars, asked>>

ClayNext ==
  \/ \E p \in Provider : RegSp(p)
  \/ \E c \in Codes : UnregSpCode(c)
  \/ \E n \in NamesKnown : UnregSpName(n)
  \/ ClearAgent
  \/ \E p \in Provider, svc \in SvcKeys : RegisterService(p, svc) \/ UnregisterService(p, svc)
  \/ \E w \in Worker : GetTotal(w) \/ PutTotal(w)
  \/ \E w \in Worker, r \in Request : HandleRequest(w, r)
  \/ \E w \in Worker, sp \in SpKeys, svc \in SvcKeys : CallService(w, sp, svc)

ClaySpec == ClayInit /\ [][ClayNext]_clayVars

-----------------------------------------------------------------------------
(* The maps know living providers only, however providers share keys and   *)
(* are registered and removed by either; and a worker calls a service that *)
(* its provider has, of a living one.                                      *)
NoDangling ==
  /\ \A c \in Codes : spintmap[c] # "nothing" => Live(spintmap[c])
  /\ \A n \in NamesKnown : spstrmap[n] # "nothing" => Live(spstrmap[n])
  /\ \A w \in Worker : ~At(w, "idle") => Live(call[w].sp) /\ call[w].svc \in services[call[w].sp]

=============================================================================
