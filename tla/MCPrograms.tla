----------------------------- MODULE MCPrograms -----------------------------
(* The sample programs, how they end, their JSON texts, the handling of    *)
(* their messages and the loggers they share with the library: the run     *)
(* looks at one of them at a time.                                         *)
EXTENDS JsonText, Handling, Clay, Logs, Chat, JsonSample, Lifetimes

VARIABLE which

programsVars == <<which, jsonVars, chatVars, clayVars, logVars, textVars, vars, lifeVars>>

(* Rounds of several requests where order is kept, of one where it is not. *)
RoundCounts == [json |-> 2, jsonc10k |-> 1, single |-> 1]

(* One session has the messages it reads handled in order, the other those *)
(* it writes as well.                                                      *)
SomeLanes == {{<<"s1", 1>>, <<"s2", 1>>, <<"s2", 2>>}}

(* Providers that share a code, that share a name, and with one key only.  *)
ProviderCode == [p1 |-> 1, p2 |-> 2, p3 |-> 1, p4 |-> 0]
ProviderName == [p1 |-> 1, p2 |-> 1, p3 |-> 0, p4 |-> 2]
ByCode(key) == [by |-> "code", key |-> key]
ByName(key) == [by |-> "name", key |-> key]
ProviderServices ==
  [p1 |-> {ByCode(1)}, p2 |-> {ByCode(1), ByName(1)}, p3 |-> {ByName(1)}, p4 |-> {}]

(* Objects up to four deep, with scalars and strings of every kind, an     *)
(* object of two members over each of them.                                *)
Word(chars) == Scalar("string", chars)
Strings ==
  {Word(w) : w \in {<<>>, <<"a">>, <<"a", ",", "b">>, <<"]">>, <<"{", "}">>, <<"[">>, <<Quote>>,
                    <<"a", Slash>>, <<" ", "a">>, <<"a", " ", ":">>, <<"a", Nul, "b">>}}
Scalars ==
  Strings \cup {Null, Scalar("bool", <<"true">>), Scalar("int", <<"1">>),
                Scalar("float", <<"1.5">>), Scalar("double", <<"1e-9">>)}
JsonKeys == {<<"k">>, <<"]", ":">>}
ArraysOf(values) == {JsonArray(s) : s \in BoundedSeq(values, 2)}
ObjectsOf(values) == {JsonObject(f) : f \in UNION {[ks -> values] : ks \in SUBSET JsonKeys \ {{}}}}
Inner == {Word(<<"{", "}">>), Word(<<"a", ",", "b">>), Scalar("int", <<"1">>), Null}
Nested == ArraysOf(Inner) \cup ObjectsOf(Inner)
JsonMessages ==
  ObjectsOf(Scalars) \cup
  {JsonObject(<<"k">> :> v) :
     v \in ArraysOf(Scalars) \cup ObjectsOf(Scalars) \cup ArraysOf(Nested) \cup ObjectsOf(Nested)}

ProgramsInit ==
  /\ which \in {"json", "chat", "clay", "logs", "text", "handling", "life"}
  /\ JsonInit /\ (which # "json" => program = "json")
  /\ ChatInit /\ ClayInit /\ LogsInit /\ TextInit
  /\ Init
  /\ (which # "handling" => wiring = "sync" /\ ~shared)
  /\ LifeInit /\ (which # "life" => sample = "ChatServer" /\ endpoint = "started")

JsonStep ==
  /\ which = "json" /\ JsonNext
  /\ UNCHANGED <<which, chatVars, clayVars, logVars, textVars, vars, lifeVars>>
ChatStep ==
  /\ which = "chat" /\ ChatNext
  /\ UNCHANGED <<which, jsonVars, clayVars, logVars, textVars, vars, lifeVars>>
ClayStep ==
  /\ which = "clay" /\ ClayNext
  /\ UNCHANGED <<which, jsonVars, chatVars, logVars, textVars, vars, lifeVars>>
LogStep ==
  /\ which = "logs" /\ LogsNext
  /\ UNCHANGED <<which, jsonVars, chatVars, clayVars, textVars, vars, lifeVars>>
TextStep ==
  /\ which = "text" /\ TextNext
  /\ UNCHANGED <<which, jsonVars, chatVars, clayVars, logVars, vars, lifeVars>>
HandlingStep ==
  /\ which = "handling" /\ Next
  /\ UNCHANGED <<which, jsonVars, chatVars, clayVars, logVars, textVars, lifeVars>>
LifeStep ==
  /\ which = "life" /\ LifeNext
  /\ UNCHANGED <<which, jsonVars, chatVars, clayVars, logVars, textVars, vars>>

ProgramsNext ==
  \/ JsonStep \/ ChatStep \/ ClayStep \/ LogStep \/ TextStep \/ HandlingStep \/ LifeStep

ProgramsSpec == ProgramsInit /\ [][ProgramsNext]_programsVars /\ JsonFairness
=============================================================================
