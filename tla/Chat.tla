-------------------------------- MODULE Chat --------------------------------
(***************************************************************************)
(* The chat of sample/chat: a server and its clients share ChatHandler, a  *)
(* StringHandler that takes a line apart and answers it.  The server has   *)
(* one service with one thread, so that a line is handled whole before the *)
(* next one of any session; m_users, the names in use, has no lock.        *)
(* Broadcast queues a line in every registered session, under the mutex of *)
(* the session manager.  A line is known by its command and what matters   *)
(* of the words that follow.  Answers to LOGIN and QUIT are printed by the *)
(* client, or come when it has gone, and are left out.                     *)
(***************************************************************************)
EXTENDS Integers, Sequences, FiniteSets

CONSTANTS
  ChatSessions,  (* how many sessions there ever are (bound)                  *)
  Names,         (* the names users choose                                    *)
  MaxCommands    (* commands typed at all consoles together (bound)           *)

(* Names are told from the words of a status and from no name at all.      *)
ASSUME ChatAssumption ==
  ChatSessions \in Nat \ {0} /\ MaxCommands \in Nat /\ {"OK", "nobody"} \cap Names = {}

Session == 1 .. ChatSessions

VARIABLES
  side,      (* of each session at the server: "none", "open", "closing", "gone" *)
  typing,    (* whether the client's HandleInput still reads commands         *)
  users,     (* m_users of the server's handler                               *)
  user,      (* "user" in the data of each session                            *)
  requests,  (* lines on their way to the server, of each session             *)
  said,      (* how many lines were broadcast, each known by its number       *)
  lines,     (* numbers of the lines on their way to the client               *)
  heard,     (* of the last one it printed                                    *)
  commands

chatVars == <<side, typing, users, user, requests, lines, heard, said, commands>>

Of(x) == [s \in Session |-> x]

ChatInit ==
  /\ side = Of("none") /\ typing = Of(FALSE)
  /\ users = {} /\ user = Of("nobody")
  /\ requests = Of(<<>>) /\ lines = Of(<<>>) /\ heard = Of(0)
  /\ said = 0 /\ commands = 0

-----------------------------------------------------------------------------
(* The consoles. *)

(* Sessions are numbered as they come. *)
Connect(s) ==
  /\ side[s] = "none" /\ (\A t \in 1 .. s - 1 : side[t] # "none")
  /\ side' = [side EXCEPT ![s] = "open"]
  /\ typing' = [typing EXCEPT ![s] = TRUE]
  /\ UNCHANGED <<users, user, requests, lines, heard, said, commands>>

Write(s, line) == requests' = [requests EXCEPT ![s] = Append(@, line)]

(* :login, where the name may be the word of a status, and anything else,  *)
(* which is sent as chat words, logged in or not.                          *)
Command(s, line) ==
  /\ typing[s] /\ commands < MaxCommands /\ commands' = commands + 1
  /\ Write(s, line)
  /\ UNCHANGED <<side, typing, users, user, lines, heard, said>>

(* :quit writes a line and disconnects at once: nothing is printed again.  *)
Quit(s) ==
  /\ typing[s] /\ typing' = [typing EXCEPT ![s] = FALSE]
  /\ Write(s, [cmd |-> "QUIT", arg |-> "nothing"])
  /\ lines' = [lines EXCEPT ![s] = <<>>]
  /\ UNCHANGED <<side, users, user, heard, said, commands>>

(* The connection ends: what was not delivered is lost, on either side.    *)
Lose(s) ==
  /\ side[s] = "open"
  /\ typing' = [typing EXCEPT ![s] = FALSE]
  /\ \E n \in 0 .. Len(requests[s]) : requests' = [requests EXCEPT ![s] = SubSeq(@, 1, n)]
  /\ lines' = [lines EXCEPT ![s] = <<>>]
  /\ UNCHANGED <<side, users, user, heard, said, commands>>

-----------------------------------------------------------------------------
(* HandleString at the server. *)

(* Fault: who speaks is left out. *)
AudienceOfOthers(s) == {t \in Session : side[t] = "open" /\ typing[t] /\ t # s}

(* Broadcast of the session manager: every registered session.  Where the  *)
(* client has gone it makes no difference.                                 *)
Audience(s) == {t \in Session : side[t] = "open" /\ typing[t]}

Tell(s) ==
  /\ said' = said + 1
  /\ lines' = [t \in Session |-> IF t \in Audience(s) THEN Append(lines[t], said') ELSE lines[t]]

Named(s, name) == IF name \in users THEN user ELSE [user EXCEPT ![s] = name]

Taken(s) == requests' = [requests EXCEPT ![s] = Tail(@)]

Line(s, cmd) == requests[s] # <<>> /\ Head(requests[s]).cmd = cmd

HandleLogin(s) ==
  /\ Line(s, "LOGIN") /\ Taken(s)
  /\ LET name == Head(requests[s]).arg IN
       IF name \notin Names
         THEN UNCHANGED <<users, user, lines, said>>   (* taken for a status *)
         ELSE /\ user' = Named(s, name)
              /\ users' = users \cup {name}
              /\ IF name \in users THEN UNCHANGED <<lines, said>> ELSE Tell(s)
  /\ UNCHANGED <<side, typing, heard, commands>>

HandleQuit(s) ==
  /\ Line(s, "QUIT") /\ Taken(s)
  /\ users' = users \ {user[s]}
  /\ Tell(s)
  /\ side' = [side EXCEPT ![s] = "closing"]
  /\ UNCHANGED <<typing, user, heard, commands>>

(* Words that begin with the word of a status are printed by the server.   *)
HandleBroadcast(s) ==
  /\ Line(s, "BROADCAST") /\ Taken(s)
  /\ IF Head(requests[s]).arg = "OK" THEN UNCHANGED <<lines, said>> ELSE Tell(s)
  /\ UNCHANGED <<side, typing, users, user, heard, commands>>

(* OnError of StringHandler, which closes, or the end of a graceful close. *)
(* The name is left in m_users.                                            *)
Close(s) ==
  /\ \/ side[s] = "open" /\ ~typing[s] /\ requests[s] = <<>>
     \/ side[s] = "closing"
  /\ side' = [side EXCEPT ![s] = "gone"] /\ user' = [user EXCEPT ![s] = "nobody"]
  /\ UNCHANGED <<typing, users, requests, lines, heard, said, commands>>

HandleString(s) ==
  /\ side[s] = "open"
  /\ HandleLogin(s) \/ HandleQuit(s) \/ HandleBroadcast(s)

-----------------------------------------------------------------------------
(* HandleString at the client prints a line.                               *)
Show(s) ==
  /\ typing[s] /\ lines[s] # <<>>
  /\ heard' = [heard EXCEPT ![s] = Head(lines[s])]
  /\ lines' = [lines EXCEPT ![s] = Tail(@)]
  /\ UNCHANGED <<side, typing, users, user, requests, said, commands>>

ChatNext ==
  \E s \in Session :
    \/ Connect(s) \/ Quit(s) \/ Lose(s) \/ HandleString(s) \/ Close(s) \/ Show(s)
    \/ \E name \in Names \cup {"OK"} : Command(s, [cmd |-> "LOGIN", arg |-> name])
    \/ \E words \in {"words", "OK"} : Command(s, [cmd |-> "BROADCAST", arg |-> words])

ChatSpec == ChatInit /\ [][ChatNext]_chatVars

-----------------------------------------------------------------------------
(* Everyone follows one conversation: what a client prints are the lines   *)
(* in the order they were said, with none left out in between.             *)
OneConversation ==
  \A s \in Session : \A i \in 1 .. Len(lines[s]) :
    LET before == IF i = 1 THEN heard[s] ELSE lines[s][i - 1]
    IN  before # 0 => lines[s][i] = before + 1
=============================================================================
