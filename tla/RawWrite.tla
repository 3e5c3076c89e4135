------------------------------ MODULE RawWrite ------------------------------
(***************************************************************************)
(* ClientSession::Write(buf, bufsize): bytes that no codec encodes, cut    *)
(* into buffers of the largest size and one for the rest.  A piece of the  *)
(* input is known by where it begins and how long it is.  There is memory  *)
(* for every buffer.  How a queue is sent is in Session.                   *)
(***************************************************************************)
EXTENDS Integers, Sequences, SequencesExt

CONSTANTS
  Sizes,      (* values of bufsize, for which no product here overflows       *)
  MaxWrite,   (* m_maxwritequeuesize, 0 for none                              *)
  MaxCalls    (* calls of Write (bound)                                       *)

(* ESN_MAX_IOBUF_SIZE is the text "1024 * 1024 * 256", without parentheses *)
(* -- which matter only where it is an operand.                            *)
ESN_MAX_IOBUF_SIZE == 1024 * 1024 * 256
DividedByMax(n) == (n \div 1024) * 1024 * 256
LeftByMax(n) == (n % 1024) * 1024 * 256

VARIABLES
  m_state,
  m_writelist,  (* the buffers: of which call, and what piece of its input    *)
  wire,         (* the buffers that were sent                                 *)
  calls         (* history: bufsize of each call that was not refused         *)

vars == <<m_state, m_writelist, wire, calls>>

Init == m_state = 1 /\ m_writelist = <<>> /\ wire = <<>> /\ calls = <<>>

(* IoBuffer(buf, bufsize), or a buffer of the pool and PutBuf.             *)
Buffer(at, size) ==
  [call |-> Len(calls) + 1, at |-> at,
   size |-> IF size > ESN_MAX_IOBUF_SIZE THEN ESN_MAX_IOBUF_SIZE ELSE size]

Buffers(n) ==
  LET datacount == DividedByMax(n)
      leftsize == LeftByMax(n)
  IN  [i \in 1 .. datacount |-> Buffer((i - 1) * ESN_MAX_IOBUF_SIZE, ESN_MAX_IOBUF_SIZE)]
      \o IF leftsize > 0 THEN <<Buffer(datacount * ESN_MAX_IOBUF_SIZE, leftsize)>> ELSE <<>>

QueueFull == MaxWrite > 0 /\ Len(m_writelist) >= MaxWrite

Write(n) ==
  /\ m_state > 0 /\ n > 0 /\ Len(calls) < MaxCalls
  /\ ~QueueFull
  /\ m_writelist' = m_writelist \o Buffers(n)
  /\ calls' = Append(calls, n)
  /\ UNCHANGED <<m_state, wire>>

(* OnError, which closes the session. *)
WriteFull ==
  /\ m_state > 0 /\ QueueFull
  /\ m_state' = -1
  /\ UNCHANGED <<m_writelist, wire, calls>>

(* OnWrite, when the buffer in front was sent.                             *)
OnWrite ==
  /\ m_state > 0 /\ m_writelist # <<>>
  /\ wire' = Append(wire, Head(m_writelist)) /\ m_writelist' = Tail(m_writelist)
  /\ UNCHANGED <<m_state, calls>>

Next == (\E n \in Sizes : Write(n)) \/ WriteFull \/ OnWrite

Spec == Init /\ [][Next]_vars

-----------------------------------------------------------------------------
(* The buffers of a call, queued or sent, are its bytes: they begin where  *)
(* the last one ended, and end where the input does.  That is what         *)
(* ClientSession.h says of Write, "Write buffer to the other side", with   *)
(* "The size of the buffer".                                               *)
WritesTheBuffer ==
  \A c \in DOMAIN calls :
    LET pieces == SelectSeq(wire \o m_writelist, LAMBDA b : b.call = c)
        Upto(k) == FoldSeq(LAMBDA b, n : b.size + n, 0, SubSeq(pieces, 1, k))
    IN  /\ \A k \in DOMAIN pieces : pieces[k].at = Upto(k - 1)
        /\ Upto(Len(pieces)) = calls[c]
=============================================================================
