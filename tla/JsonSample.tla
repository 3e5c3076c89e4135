----------------------------- MODULE JsonSample -----------------------------
(***************************************************************************)
(* The load tests sample/json and sample/jsonc10k: clients that send a     *)
(* round of requests, put the replies together, check them against what    *)
(* they sent and start the next round.  json handles messages in order; in *)
(* jsonc10k they are handled at once, and a round is one request.  Clients *)
(* of jsonc10k are connected by the OnConnect of others.  json built for a  *)
(* single client is "single": a round is a line that a user types.         *)
(* Sessions do what Session.tla says: an orderly one hands out one message *)
(* at a time, and writes wait for the OnWrite of the one before.           *)
(***************************************************************************)
EXTENDS Integers, Sequences, FiniteSets

CONSTANTS
  ClientCount,  (* m_clients.size()                                           *)
  Counts,       (* the requests of a round in each program: g_string_count    *)
  Batch,        (* how many clients AutoConnectServer connects, 50 in the code *)
  MaxRounds,    (* rounds of a session (bound)                                *)
  MaxDrops      (* connections lost (bound)                                   *)

(* A round has one request where order is not kept, and where it is typed. *)
ASSUME JsonAssumption ==
  /\ {ClientCount, Batch} \subseteq Nat \ {0} /\ {MaxRounds, MaxDrops} \subseteq Nat
  /\ Counts \in [{"json", "jsonc10k", "single"} -> Nat \ {0}]
  /\ Counts["jsonc10k"] = 1 /\ Counts["single"] = 1

Client == 1 .. ClientCount
Thread == {"io", "input"}   (* of the service, and of HandleInput *)

VARIABLES
  program,   (* "json", "jsonc10k" or "single"                                *)
  started,   (* the command :start was given                                  *)
  link,      (* of each client: "none", "connecting", "added", "greeting", "open" *)
  business,  (* the objects made for the session's BASE_CODE                  *)
  datalock,  (* who holds m_datamutex of the session, while a SharedData lives *)
  looking,   (* who found no object and is about to put one                   *)
  last,      (* m_laststr: the round, and how many requests it has            *)
  reply,     (* m_replystr: the replies put together                          *)
  rounds,    (* rounds begun                                                  *)
  unsent,    (* requests that are still to be sent                            *)
  wrote,     (* single: the round whose request is written, until OnWrite     *)
  hasty,     (* history: a line was typed before the reply to the last one    *)
  toServer, serving, toClient, handling,   (* messages on their way           *)
  errors,    (* m_errors                                                      *)
  drops

roundVars == <<last, reply, rounds, unsent, errors, hasty>>
messageVars == <<toServer, serving, toClient, handling, wrote>>
businessVars == <<business, datalock, looking>>
jsonVars == <<program, started, link, businessVars, roundVars, messageVars, drops>>

All(x) == [c \in Client |-> x]

JsonInit ==
  /\ program \in DOMAIN Counts /\ started = FALSE
  /\ link = All("none")
  /\ business = All(0) /\ datalock = All("nobody") /\ looking = [t \in Thread |-> 0]
  /\ last = All(0) /\ reply = All(<<>>) /\ rounds = All(0) /\ unsent = All(<<>>)
  /\ toServer = All(<<>>) /\ serving = All({}) /\ toClient = All(<<>>) /\ handling = All({})
  /\ wrote = All(0) /\ hasty = FALSE
  /\ errors = All(0) /\ drops = 0

(* Typed lines are for one client. *)
Used == IF program = "single" THEN {1} ELSE Client

Connected(c) == link[c] \in {"added", "greeting", "open"}

-----------------------------------------------------------------------------
(* Connecting. *)

NextClients == {c \in Client : link[c] = "none"}

(* Fault: clients that are connected already count in the batch. *)
AutoConnectedFew ==
  [c \in Client |-> IF c \in NextClients /\ c <= Batch THEN "connecting" ELSE link[c]]

(* AutoConnectServer, under m_cnnmutex: the first clients that are neither *)
(* connected nor connecting, up to the batch.                              *)
AutoConnected ==
  LET chosen == {c \in NextClients : Cardinality({d \in NextClients : d < c}) < Batch}
  IN  [c \in Client |-> IF c \in chosen THEN "connecting" ELSE link[c]]

ConnectAll ==
  [c \in Client |-> IF c \notin Used \/ Connected(c) THEN link[c] ELSE "connecting"]

Start ==
  /\ ~started /\ started' = TRUE
  /\ link' = IF program = "jsonc10k" THEN AutoConnected ELSE ConnectAll
  /\ UNCHANGED <<program, businessVars, roundVars, messageVars, drops>>

(* The session is registered, so that the client counts as connected. *)
Connects(c) ==
  /\ link[c] = "connecting" /\ link' = [link EXCEPT ![c] = "added"]
  /\ UNCHANGED <<program, started, businessVars, roundVars, messageVars, drops>>

(* OnConnect of the handler, which connects others first in jsonc10k.      *)
OnConnect(c) ==
  /\ link[c] = "added"
  /\ link' = [(IF program = "jsonc10k" THEN AutoConnected ELSE link) EXCEPT ![c] = "greeting"]
  /\ UNCHANGED <<program, started, businessVars, roundVars, messageVars, drops>>

-----------------------------------------------------------------------------
(* GetBusinessObj: GetData locks m_datamutex until its result is deleted;  *)
(* the handler looks for the object of the session and puts one if there   *)
(* is none.  The command :count looks for it from the input thread.        *)

DataUnlocked(c) == datalock[c] = "nobody"

MayLook(t, c) ==
  IF t = "io" THEN link[c] = "greeting" /\ business[c] = 0 ELSE Connected(c)

GetBusinessObj(t, c) ==
  /\ MayLook(t, c) /\ looking[t] = 0 /\ business[c] = 0
  /\ DataUnlocked(c) /\ datalock' = [datalock EXCEPT ![c] = t]
  /\ looking' = [looking EXCEPT ![t] = c]
  /\ UNCHANGED <<program, started, link, business, roundVars, messageVars, drops>>

PutBusinessObj(t) ==
  /\ looking[t] # 0
  /\ business' = [business EXCEPT ![looking[t]] = @ + 1]
  /\ datalock' = [datalock EXCEPT ![looking[t]] = "nobody"]
  /\ looking' = [looking EXCEPT ![t] = 0]
  /\ UNCHANGED <<program, started, link, roundVars, messageVars, drops>>

-----------------------------------------------------------------------------
(* Rounds.  A request, and its reply, is known by round and position.      *)

Pieces(round) == [i \in 1 .. Counts[program] |-> [round |-> round, piece |-> i]]

BeginRound(c) ==
  IF rounds[c] < MaxRounds
    THEN /\ rounds' = [rounds EXCEPT ![c] = @ + 1]
         /\ last' = [last EXCEPT ![c] = rounds'[c]]
         /\ unsent' = [unsent EXCEPT ![c] = Pieces(rounds'[c])]
    ELSE UNCHANGED <<rounds, last, unsent>>

Greet(c) ==
  /\ program # "single" /\ link[c] = "greeting" /\ business[c] > 0 /\ rounds[c] = 0
  /\ BeginRound(c) /\ reply' = [reply EXCEPT ![c] = <<>>]
  /\ UNCHANGED <<program, started, link, businessVars, messageVars, errors, hasty, drops>>

InHand(c) ==
  unsent[c] # <<>> \/ toServer[c] # <<>> \/ serving[c] # {} \/ toClient[c] # <<>> \/ handling[c] # {}

(* HandleInput of a single client: the line is the last request and goes   *)
(* into the queue of its session.                                          *)
Type(c) ==
  /\ program = "single" /\ Connected(c) /\ business[c] > 0 /\ rounds[c] < MaxRounds
  /\ rounds' = [rounds EXCEPT ![c] = @ + 1]
  /\ last' = [last EXCEPT ![c] = rounds'[c]] /\ reply' = [reply EXCEPT ![c] = <<>>]
  /\ unsent' = [unsent EXCEPT ![c] = @ \o Pieces(rounds'[c])]
  /\ hasty' = (hasty \/ InHand(c))
  /\ UNCHANGED <<program, started, link, businessVars, messageVars, errors, drops>>

Send(c) ==
  /\ unsent[c] # <<>> /\ wrote[c] = 0
  /\ wrote' = [wrote EXCEPT ![c] = IF program = "single" THEN Head(unsent[c]).round ELSE 0]
  /\ toServer' = [toServer EXCEPT ![c] = Append(@, Head(unsent[c]))]
  /\ unsent' = [unsent EXCEPT ![c] = Tail(@)]
  /\ UNCHANGED <<program, started, link, businessVars, last, reply, rounds, errors, hasty, serving,
                 toClient, handling, drops>>

(* OnWrite makes the request it finds in the buffer the last one again.    *)
OnWrite(c) ==
  /\ wrote[c] # 0 /\ wrote' = [wrote EXCEPT ![c] = 0]
  /\ last' = [last EXCEPT ![c] = wrote[c]] /\ reply' = [reply EXCEPT ![c] = <<>>]
  /\ UNCHANGED <<program, started, link, businessVars, rounds, unsent, errors, hasty, toServer, serving,
                 toClient, handling, drops>>

(* OnConnect returns, and the session starts to read. *)
Greeted(c) ==
  /\ link[c] = "greeting" /\ business[c] > 0
  /\ program = "single" \/ (rounds[c] > 0 /\ unsent[c] = <<>>)
  /\ link' = [link EXCEPT ![c] = "open"]
  /\ UNCHANGED <<program, started, businessVars, roundVars, messageVars, drops>>

(* Fault: the handlers ask for no order. *)
OrderlyNever == FALSE

Orderly == program # "jsonc10k"

(* The server's StringRequestProcess, as a task of its pool. *)
TakeRequest(c) ==
  /\ toServer[c] # <<>> /\ (Orderly => serving[c] = {})
  /\ serving' = [serving EXCEPT ![c] = @ \cup {Head(toServer[c])}]
  /\ toServer' = [toServer EXCEPT ![c] = Tail(@)]
  /\ UNCHANGED <<program, started, link, businessVars, roundVars, toClient, handling, wrote, drops>>

Reply(c, m) ==
  /\ m \in serving[c] /\ serving' = [serving EXCEPT ![c] = @ \ {m}]
  /\ toClient' = [toClient EXCEPT ![c] = Append(@, m)]
  /\ UNCHANGED <<program, started, link, businessVars, roundVars, toServer, handling, wrote, drops>>

(* The client's StringReplyProcess: a task of a pool too.  It is over when *)
(* it has sent the requests of the next round, if it began one.  The       *)
(* thread of the service runs OnWrite of a request before what its reply   *)
(* brings.                                                                 *)
TakeReply(c) ==
  /\ link[c] = "open" /\ toClient[c] # <<>> /\ Head(toClient[c]).round # wrote[c]
  /\ Orderly => handling[c] = {} /\ (program = "single" \/ unsent[c] = <<>>)
  /\ handling' = [handling EXCEPT ![c] = @ \cup {Head(toClient[c])}]
  /\ toClient' = [toClient EXCEPT ![c] = Tail(@)]
  /\ UNCHANGED <<program, started, link, businessVars, roundVars, toServer, serving, wrote, drops>>

SetLastReply(c, m) == IF Len(reply[c]) < Counts[program] THEN Append(reply[c], m) ELSE reply[c]

CheckReply(c, whole) ==
  errors' = [errors EXCEPT ![c] = IF whole = Pieces(last[c]) THEN @ ELSE @ + 1]

(* The check and the next round come when the replies are as many as the   *)
(* requests; of a single client each reply is checked, and shown.          *)
Process(c, m) ==
  /\ m \in handling[c] /\ handling' = [handling EXCEPT ![c] = @ \ {m}]
  /\ LET whole == SetLastReply(c, m) IN
       IF program = "single"
         THEN /\ CheckReply(c, <<m>>) /\ reply' = [reply EXCEPT ![c] = whole]
              /\ UNCHANGED <<last, rounds, unsent>>
       ELSE IF Len(whole) < Counts[program]
         THEN reply' = [reply EXCEPT ![c] = whole] /\ UNCHANGED <<last, rounds, unsent, errors>>
         ELSE /\ CheckReply(c, whole)
              /\ reply' = [reply EXCEPT ![c] = <<>>]
              /\ BeginRound(c)
  /\ UNCHANGED <<program, started, link, businessVars, hasty, toServer, serving, toClient, wrote, drops>>

(* A connection is lost, or ended by DisconnectAll: its session, and what  *)
(* belongs to it, goes.                                                    *)
Drop(c) ==
  /\ link[c] = "open" /\ drops < MaxDrops /\ looking["input"] # c
  /\ drops' = drops + 1
  /\ link' = [link EXCEPT ![c] = "none"]
  /\ business' = [business EXCEPT ![c] = 0]
  /\ last' = [last EXCEPT ![c] = 0] /\ reply' = [reply EXCEPT ![c] = <<>>]
  /\ rounds' = [rounds EXCEPT ![c] = 0] /\ unsent' = [unsent EXCEPT ![c] = <<>>]
  /\ toServer' = [toServer EXCEPT ![c] = <<>>] /\ serving' = [serving EXCEPT ![c] = {}]
  /\ toClient' = [toClient EXCEPT ![c] = <<>>] /\ handling' = [handling EXCEPT ![c] = {}]
  /\ wrote' = [wrote EXCEPT ![c] = 0]
  /\ UNCHANGED <<program, started, datalock, looking, errors, hasty>>

-----------------------------------------------------------------------------
Goes(c) ==
  \/ Connects(c) \/ OnConnect(c) \/ GetBusinessObj("io", c) \/ Greet(c) \/ Send(c) \/ OnWrite(c)
  \/ Greeted(c)
  \/ TakeRequest(c) \/ TakeReply(c)
  \/ \E m \in serving[c] : Reply(c, m)
  \/ \E m \in handling[c] : Process(c, m)

JsonNext ==
  \/ Start
  \/ \E c \in Client : Goes(c) \/ GetBusinessObj("input", c) \/ Type(c) \/ Drop(c)
  \/ \E t \in Thread : PutBusinessObj(t)

(* Whatever was begun goes on, and the network connects and delivers.      *)
JsonFairness ==
  /\ \A c \in Client : WF_jsonVars(Goes(c))
  /\ \A t \in Thread : WF_jsonVars(PutBusinessObj(t))

JsonSpec == JsonInit /\ [][JsonNext]_jsonVars /\ JsonFairness

-----------------------------------------------------------------------------
(* No check of a reply fails: in the order the handlers ask for, replies   *)
(* put together are the requests that were sent, and none is of an earlier *)
(* round.  A single client's may fail if its user did not wait.            *)
RepliesMatch == hasty \/ \A c \in Client : errors[c] = 0

(* Once started, every client is connected one day, although each          *)
(* OnConnect connects only a few, unless connections are lost.             *)
AllConnect == started ~> (drops > 0 \/ \A c \in Used : Connected(c))
=============================================================================
