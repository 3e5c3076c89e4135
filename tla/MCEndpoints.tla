---------------------------- MODULE MCEndpoints ----------------------------
(* The two endpoints, a server or a client: a behaviour is one of either.  *)
(* They have the session manager, and what is named alike, in common.      *)
EXTENDS Server, Client

VARIABLE which

serverOnly ==
  <<current, target, acceptor, listensvc, iosvc, listener, accepting, result, opening, iothread,
    backlog, clients, errors, starts, unserved, leftover, misused, late, gone>>
clientOnly ==
  <<timeout, then, made, currentaddr, service, thread, cnntimer, connecting, attempt, wait, running,
    seen, fails, opened, timedout, overtaken, freedTwice>>
endpointVars == <<which, managerVars, shared, pc, terminated, serverOnly, clientOnly>>

(* What the other endpoint would have.                                     *)
NoServer ==
  /\ current = NoAddress /\ target = NoAddress
  /\ acceptor = "none" /\ listensvc = "none" /\ iosvc = "none"
  /\ listener = "none" /\ accepting = 0 /\ result = "none" /\ opening = 0
  /\ iothread = "none" /\ backlog = 0 /\ clients = 0 /\ errors = 0 /\ starts = 0
  /\ unserved = {} /\ leftover = {} /\ misused = FALSE /\ late = FALSE /\ gone = FALSE
NoClient ==
  /\ timeout = FALSE /\ then = "idle" /\ made = 0 /\ currentaddr = FALSE
  /\ service = "none" /\ thread = "none"
  /\ cnntimer = NoSession /\ connecting = FALSE /\ attempt = <<>> /\ wait = <<>>
  /\ running = NoHandler /\ seen = NoSession /\ fails = 0
  /\ opened = {} /\ timedout = {} /\ overtaken = {} /\ freedTwice = FALSE

EndpointsInit ==
  \/ which = "server" /\ Init /\ NoClient
  \/ which = "client" /\ ClientInit /\ NoServer

ServerDoes(Action) == which = "server" /\ Action /\ UNCHANGED <<which, clientOnly>>
ClientDoes(Action) == which = "client" /\ Action /\ UNCHANGED <<which, serverOnly>>

EndpointsNext == ServerDoes(Next) \/ ClientDoes(ClientNext)

(* The fairness of Server and of Client.                                   *)
EndpointsSpec ==
  /\ EndpointsInit /\ [][EndpointsNext]_endpointVars
  /\ WF_endpointVars(ServerDoes(~terminated /\ AppStep))
  /\ SF_endpointVars(ServerDoes(~terminated /\ ListenerStep))
  /\ WF_endpointVars(ServerDoes(~terminated /\ IoStep))
  /\ WF_endpointVars(ServerDoes(~terminated /\ IdleStep))
  /\ WF_endpointVars(ServerDoes(~terminated /\ AcceptCompletes))
  /\ WF_endpointVars(ClientDoes(~terminated /\ ClientStep))
  /\ WF_endpointVars(ClientDoes(~terminated /\ ServiceStep))
  /\ WF_endpointVars(ClientDoes(~terminated /\ Expires))

(* See Server: the calls of a program return.                              *)
ServerCallsReturn == which = "server" => CallsReturn

(* See Server: who connects is accepted.                                   *)
ServerAccepts == which = "server" => ClientsAccepted

(* See Client: Write goes to the session of the last Connect.              *)
ClientHasCurrentSession == which = "client" => OnlyCurrentSession
=============================================================================
