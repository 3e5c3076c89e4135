------------------------------ MODULE Framing ------------------------------
(***************************************************************************)
(* How messages survive a stream of bytes: the codecs of MessageCodec.cpp  *)
(* and StringCodec.cpp between a sender, who encodes messages, and the     *)
(* OnRead of ClientSession.cpp, which gets the bytes cut anywhere, keeps   *)
(* what is incomplete in m_roundcache and lets the codec extract the       *)
(* messages.  The codec remembers where it is in m_readcache, a buffer of  *)
(* the pool that keeps its state and flag from one session to the next.    *)
(*                                                                         *)
(* An Extract step is one turn of the codec's loop.  Memory may run out    *)
(* when a message is copied out.  The queue's limit is in Session.         *)
(***************************************************************************)
EXTENDS IoBuffer, FiniteSets, FiniteSetsExt, SequencesExt

CONSTANTS
  MessageCodecs,   (* arguments of MessageCodec: of <<header, pos, len, max>> *)
                   (* none, one or more                                       *)
  StringCodecs,    (* arguments of StringCodec: <<separator, max>>            *)
  BodySizes,       (* sizes of the bodies an application sends                *)
  Strings,         (* strings an application sends                            *)
  ReadBufferSize,  (* m_readbufsize: how much one read brings at most         *)
  MaxMessages,     (* messages sent in a session (bound)                      *)
  SessionsInTurn,  (* sessions, one after the other (bound)                   *)
  MaxFailures      (* how often memory runs out (bound)                       *)

ASSUME FramingAssumption ==
  /\ ByteBase \in Nat \ {0} /\ ByteBase % 2 = 0
  /\ {MaxBufferSize, ReadBufferSize, SessionsInTurn} \subseteq Nat \ {0}
  /\ {MaxMessages, MaxFailures} \subseteq Nat
  /\ \A given \in MessageCodecs : Len(given) \in 1 .. 4 /\ \A i \in 1 .. Len(given) : given[i] \in Int
  /\ \A given \in StringCodecs : Len(given) = 2 /\ given[1] \in Char /\ given[2] \in Int
  /\ BodySizes \subseteq Nat
  /\ \A s \in Strings : s \in Seq(Char)

STATE_WAIT_FOR_HEADER == 0
STATE_WAIT_FOR_BODY == 1

VARIABLES
  codec,     (* the filter of the session                                    *)
  sent,      (* history: the messages sent in this session, encoded          *)
  stream,    (* history: their bytes                                         *)
  wire,      (* the bytes on their way                                       *)
  round,     (* m_roundcache                                                 *)
  cache,     (* m_readcache                                                  *)
  step,      (* OnRead: "idle", "extract" or, never to read again, "stopped"  *)
  readlist,  (* the buffers extracted and not yet handled                    *)
  handled,   (* history: what the handler was given in this session          *)
  session,   (* which session it is                                          *)
  failures,  (* how often memory ran out                                     *)
  faults     (* what happened in this session that framing may not survive   *)

framingVars ==
  <<codec, sent, stream, wire, round, cache, step, readlist, handled, session, failures, faults>>
talkVars == <<sent, stream, handled, session, codec>>

-----------------------------------------------------------------------------
(* The codecs as their constructors leave them. *)

NewMessageCodec(headersize, pos, len, max) ==
  LET h == Larger(headersize, 1)
      l == Smaller(Smaller(Larger(len, 0), 4), h)
  IN  [kind |-> "message", headersize |-> h, bodysizelen |-> l,
       bodysizepos |-> IF pos < 0 \/ pos > h - l THEN -1 ELSE pos,
       maxbodysize |-> Larger(max, 0)]

(* The other constructors: what is not given is that of the default one.   *)
MessageCodecOf(given) ==
  LET a == given \o SubSeq(<<4, 0, 4, 1024>>, Len(given) + 1, 4)
  IN  NewMessageCodec(a[1], a[2], a[3], a[4])

NewStringCodec(separator, maxstrlen) ==
  [kind |-> "string", separator |-> separator, maxstrlen |-> maxstrlen]

(* The number in a header whose first byte is at the read position. *)
BodySize(c, buf) ==
  LET at == [buf EXCEPT !.readpos = @ + c.bodysizepos]
  IN  IF c.bodysizepos < 0 \/ c.bodysizelen = 0 THEN 0
      ELSE IF c.bodysizelen = 1 THEN GetByte(at)
      ELSE IF c.bodysizelen = 2 THEN GetShort(at)
      ELSE GetInt(at)

FramingInit ==
  /\ codec \in {MessageCodecOf(a) : a \in MessageCodecs}
          \cup {NewStringCodec(a[1], a[2]) : a \in StringCodecs}
  /\ sent = <<>> /\ stream = <<>> /\ wire = <<>> /\ readlist = <<>> /\ handled = <<>>
  /\ round = Resize(NewBuffer(ReadBufferSize), 0)
  /\ cache = Resize(NewBuffer(ReadBufferSize), 0)
  /\ step = "idle"
  /\ session = 1 /\ failures = 0 /\ faults = {}

-----------------------------------------------------------------------------
(* The sender.  An application lays out a header of its own, with the size *)
(* of the body where the codec looks for it; Encode copies the buffer.     *)

IsMessage == codec.kind = "message"

Header(c, n, tag) ==
  LET width == IF c.bodysizelen >= 3 THEN 4 ELSE c.bodysizelen
      blank == [NewBuffer(c.headersize) EXCEPT
                  !.bytes = [i \in 1 .. c.headersize |-> tag],
                  !.writepos = Larger(c.bodysizepos, 0)]
  IN  IF width = 2 THEN PutShort(blank, n)
      ELSE IF width = 4 THEN PutInt(blank, n)
      ELSE IF width = 1 THEN PutByte(blank, Signed(Unsigned(n), ByteBase))
      ELSE blank

EncodeMessage(bytes) == PutBuf(NewBuffer(Len(bytes)), bytes).bytes

(* A peer with other limits may send more than a buffer holds here. *)
Wired(bytes) == IF Len(bytes) <= MaxBufferSize THEN EncodeMessage(bytes) ELSE bytes

(* The codec can carry a body of n bytes: its size fits the signed field   *)
(* that is read, the limit of the codec and the largest buffer.            *)
Carries(c, n) ==
  IF c.bodysizepos < 0 \/ c.bodysizelen = 0 THEN n = 0
  ELSE /\ c.bodysizelen \in {1, 2, 4} /\ 2 * n < Values(c.bodysizelen)
       /\ n <= c.maxbodysize /\ c.headersize + n <= MaxBufferSize

SendMessage(n, tag) ==
  LET message == Wired(Header(codec, n, tag).bytes \o [i \in 1 .. n |-> tag])
  IN  /\ IsMessage /\ Len(sent) < MaxMessages
      /\ sent' = Append(sent, message) /\ stream' = stream \o message
      /\ wire' = wire \o message
      /\ faults' = faults \cup IF Carries(codec, n) THEN {} ELSE {"size"}
      /\ UNCHANGED <<codec, round, cache, step, readlist, handled, session, failures>>

EncodeString(c, s) == PutByte(PutBuf(NewBuffer(Len(s) + 1), s), c.separator).bytes

(* The longest string that is not cut: a string of any length ends when it has a byte. *)
LongestString == Larger(codec.maxstrlen, 1)

(* A string fits the buffers, and leaves room for the NUL it is to get.    *)
CarriesString(s) == Len(s) < MaxBufferSize /\ LongestString < MaxBufferSize

SendString(s) ==
  LET message == EncodeString(codec, s)
  IN  /\ ~IsMessage /\ Len(sent) < MaxMessages
      /\ sent' = Append(sent, message) /\ stream' = stream \o message
      /\ wire' = wire \o message
      /\ faults' = faults \cup IF CarriesString(s) THEN {} ELSE {"size"}
      /\ UNCHANGED <<codec, round, cache, step, readlist, handled, session, failures>>

-----------------------------------------------------------------------------
(* OnRead: n bytes are appended to what the last round left, and the codec *)
(* runs.  A buffer that cannot grow ends the reading for good.             *)

AppendTo(buf, bytes) ==
  Rewind(PutBuf([Resize(buf, Size(buf) + Len(bytes)) EXCEPT !.writepos = Size(buf)], bytes))

OnReadBytes(n) ==
  LET bytes == SubSeq(wire, 1, n)
  IN  /\ step = "idle" /\ n <= Len(wire)
      /\ wire' = SubSeq(wire, n + 1, Len(wire))
      /\ IF Size(round) + n > MaxBufferSize
           THEN /\ round' = Resize(round, Size(round) + n)
                /\ step' = "stopped"
           ELSE /\ round' = AppendTo(round, bytes)
                /\ step' = "extract"
      /\ UNCHANGED <<talkVars, cache, readlist, failures, faults>>

(* Fault: the bytes stay where they are when the buffer is cut. *)
LeftoverUnmoved(buf, reset) ==
  LET left == IF reset THEN 0 ELSE Larger(Left(buf), 0)
  IN  Rewind(Resize(buf, left))

(* What OnRead keeps for the next round when Extract returns. *)
Leftover(buf, reset) ==
  LET left == IF reset THEN 0 ELSE Larger(Left(buf), 0)
  IN  Rewind([buf EXCEPT !.bytes = [i \in 1 .. left |-> buf.bytes[buf.readpos + i]]])

ExtractReturns(reset, buf) == round' = Leftover(buf, reset) /\ step' = "idle"

(* A new buffer for a message, or none when memory runs out. *)
Deliver(bytes) ==
  /\ readlist' = Append(readlist, bytes)
  /\ UNCHANGED <<failures, faults>>

OutOfMemory(fault) ==
  /\ failures < MaxFailures /\ failures' = failures + 1
  /\ faults' = faults \cup {fault}
  /\ UNCHANGED readlist

(* What a codec remembers in its cache: what it waits for, and a size.     *)
Marked(buf, state, flag) == [buf EXCEPT !.state = state, !.flag = flag]

(* Fault: a body that ends with the bytes read is not seen to be complete. *)
BodyCompleteLate(buf) == Left(buf) > cache.flag

(* The body is complete: header and body become one message. *)
BodyComplete(buf) == Left(buf) >= cache.flag

ExtractBody ==
  /\ IsMessage /\ step = "extract"
  /\ cache.state = STATE_WAIT_FOR_BODY /\ BodyComplete(round)
  /\ \/ /\ Deliver(SubSeq(cache.bytes \o [i \in 1 .. codec.headersize |-> Junk],
                          1, codec.headersize)
                   \o SubSeq(round.bytes, round.readpos + 1, round.readpos + cache.flag))
        /\ round' = [round EXCEPT !.readpos = @ + cache.flag]
        /\ cache' = Rewind(Marked(cache, STATE_WAIT_FOR_HEADER, 0))
        /\ UNCHANGED step
     \/ OutOfMemory("late") /\ ExtractReturns(FALSE, round) /\ UNCHANGED cache
  /\ UNCHANGED <<talkVars, wire>>

(* A header is complete. *)
HeaderBytes == SubSeq(round.bytes, round.readpos + 1, round.readpos + codec.headersize)
CacheHeader(c) == PutBuf(Rewind(Resize(c, codec.headersize)), HeaderBytes)
TooLarge(n) == n > codec.maxbodysize \/ codec.headersize + n > MaxBufferSize

ExtractHeader ==
  LET n == BodySize(codec, round)
      after == [round EXCEPT !.readpos = @ + codec.headersize]
  IN  /\ IsMessage /\ step = "extract"
      /\ cache.state = STATE_WAIT_FOR_HEADER /\ Left(round) >= codec.headersize
      /\ \/ /\ n > 0 /\ TooLarge(n)
            /\ cache' = IF n > codec.maxbodysize THEN CacheHeader(cache)
                        ELSE Resize(CacheHeader(cache), codec.headersize + n)
            /\ ExtractReturns(TRUE, after)
            /\ UNCHANGED <<readlist, failures, faults>>
         \/ /\ n > 0 /\ ~TooLarge(n)
            /\ cache' = Marked(Resize(CacheHeader(cache), codec.headersize + n), STATE_WAIT_FOR_BODY, n)
            /\ round' = after
            /\ UNCHANGED <<step, readlist, failures, faults>>
         \/ /\ n <= 0
            /\ \/ /\ Deliver(HeaderBytes)
                  /\ cache' = Rewind([CacheHeader(cache) EXCEPT !.flag = 0])
                  /\ round' = after /\ UNCHANGED step
               \/ /\ OutOfMemory("lost") /\ ExtractReturns(TRUE, after)
                  /\ cache' = CacheHeader(cache)
      /\ UNCHANGED <<talkVars, wire>>

(* Nothing more is complete.  Extract returns true only when no byte is    *)
(* left, so that its result makes no difference here.                      *)
ExtractMessageEnd ==
  /\ IsMessage /\ step = "extract"
  /\ IF cache.state = STATE_WAIT_FOR_BODY THEN ~BodyComplete(round)
     ELSE Left(round) < codec.headersize
  /\ ExtractReturns(FALSE, round)
  /\ UNCHANGED <<talkVars, wire, cache, readlist, failures, faults>>

-----------------------------------------------------------------------------
(* StringCodec: one byte at a time. *)

Emptied(c) == Rewind([Resize(c, 0) EXCEPT !.flag = 0])

(* The cache holds a string: it becomes a message, or stays in the cache.  *)
DeliverString(c, rest) ==
  \/ /\ Deliver(c.bytes)
     /\ cache' = Emptied(c)
     /\ round' = rest /\ UNCHANGED step
  \/ /\ OutOfMemory("lost") /\ ExtractReturns(FALSE, rest)
     /\ cache' = c

ExtractChar ==
  LET ch == GetByte(round)
      rest == [round EXCEPT !.readpos = @ + 1]
      longer == PutByte(Resize(cache, Size(cache) + 1), ch)
  IN  /\ ~IsMessage /\ step = "extract" /\ Left(round) > 0
      /\ \/ /\ ch = codec.separator /\ Size(cache) > 0
            /\ DeliverString(cache, rest)
         \/ /\ ch = codec.separator /\ Size(cache) = 0
            /\ round' = rest
            /\ UNCHANGED <<cache, step, readlist, failures, faults>>
         \/ /\ ch # codec.separator /\ Size(longer) < codec.maxstrlen
            /\ cache' = longer /\ round' = rest
            /\ UNCHANGED <<step, readlist, failures, faults>>
         \/ /\ ch # codec.separator /\ Size(longer) >= codec.maxstrlen
            /\ DeliverString(longer, rest)
      /\ UNCHANGED <<talkVars, wire>>

ExtractStringEnd ==
  /\ ~IsMessage /\ step = "extract" /\ Left(round) = 0
  /\ ExtractReturns(FALSE, round)
  /\ UNCHANGED <<talkVars, wire, cache, readlist, failures, faults>>

-----------------------------------------------------------------------------
(* The handler decodes: a string gets its final NUL, once. *)

DecodeString(bytes) ==
  IF bytes[Len(bytes)] = 0 THEN bytes
  ELSE LET buf == Resize([NewBuffer(0) EXCEPT !.bytes = bytes], Len(bytes) + 1)
       IN  PutByte([buf EXCEPT !.writepos = Len(bytes)], 0).bytes

Handle ==
  /\ readlist # <<>>
  /\ handled' = Append(handled, IF IsMessage THEN Head(readlist) ELSE DecodeString(Head(readlist)))
  /\ readlist' = Tail(readlist)
  /\ UNCHANGED <<codec, sent, stream, wire, round, cache, step, session, failures, faults>>

(* The session ends, anywhere in a message, and its buffers go back to the *)
(* pool; the next one gets that buffer or another for its read cache.      *)
NextSession ==
  /\ step # "extract" /\ session < SessionsInTurn
  /\ session' = session + 1
  /\ \E c \in {NewBuffer(ReadBufferSize), Rewind(cache)} :
       /\ cache' = Resize(c, 0)
       /\ faults' = IF c.state = STATE_WAIT_FOR_HEADER THEN {} ELSE {"stale"}
  /\ round' = Resize(NewBuffer(ReadBufferSize), 0)
  /\ sent' = <<>> /\ stream' = <<>> /\ wire' = <<>> /\ readlist' = <<>> /\ handled' = <<>>
  /\ step' = "idle"
  /\ UNCHANGED <<codec, failures>>

FramingNext ==
  \/ \E n \in BodySizes, tag \in {1, 2} : SendMessage(n, tag)
  \/ \E s \in Strings : SendString(s)
  \/ \E n \in 1 .. ReadBufferSize : OnReadBytes(n)
  \/ ExtractBody \/ ExtractHeader \/ ExtractMessageEnd
  \/ ExtractChar \/ ExtractStringEnd
  \/ Handle
  \/ NextSession

FramingSpec == FramingInit /\ [][FramingNext]_framingVars

-----------------------------------------------------------------------------
(* The messages a receiver is to find in the bytes sent, defined without   *)
(* the codec.  A string ends where the separator follows or where it is as *)
(* long as strings may be; the ends of a stream are found position by      *)
(* position.                                                               *)

LineStart(bytes, i) == Max({0} \cup {j \in 1 .. i : bytes[j] = codec.separator})
EndsString(bytes, i) ==
  /\ bytes[i] # codec.separator
  /\ \/ (i - LineStart(bytes, i)) % LongestString = 0
     \/ i < Len(bytes) /\ bytes[i + 1] = codec.separator
Ends(bytes, upto) == {i \in 1 .. upto : EndsString(bytes, i)}
Start(bytes, e) == Max({LineStart(bytes, e)} \cup Ends(bytes, e - 1))

(* The k-th string is the one with k ends up to its own. *)
StringAt(bytes, k) ==
  LET e == CHOOSE e \in DOMAIN bytes : EndsString(bytes, e) /\ Cardinality(Ends(bytes, e)) = k
  IN  SubSeq(bytes, Start(bytes, e) + 1, e)
StringsIn(bytes) == [k \in 1 .. Cardinality(Ends(bytes, Len(bytes))) |-> StringAt(bytes, k)]

(* A string as a program is to see it. *)
Terminated(s) == IF s # <<>> /\ s[Len(s)] = 0 THEN s ELSE Append(s, 0)
Shown(message) == IF IsMessage THEN message ELSE Terminated(message)
Seen(messages) == [k \in DOMAIN messages |-> Shown(messages[k])]

(* What the receiver is to get, and what it got in this session, read by   *)
(* its handler or about to be.                                             *)
Expected == Seen(IF IsMessage THEN sent ELSE StringsIn(stream))
Received == handled \o Seen(readlist)

TypeOK ==
  /\ codec.kind \in {"message", "string"}
  /\ step \in {"idle", "extract", "stopped"}
  /\ round.readpos \in 0 .. Size(round) /\ Size(round) <= MaxBufferSize
  /\ cache.state \in {STATE_WAIT_FOR_HEADER, STATE_WAIT_FOR_BODY}
  /\ Size(cache) <= MaxBufferSize
  /\ session \in 1 .. SessionsInTurn /\ failures \in 0 .. MaxFailures
  /\ faults \subseteq {"size", "stale", "late", "lost"}

(* However the network cuts the stream, and though memory may run out for  *)
(* a body, the receiver gets the messages that were sent, whole and in     *)
(* order, unless the sender broke the codec's limits, a header or a string *)
(* found no memory, or the session inherited a half-read message.          *)
MessagesIntact == faults \subseteq {"late"} => IsPrefix(Received, Expected)

(* And none of them waits in the session for bytes of the next message.    *)
NothingHeldBack ==
  faults = {} /\ wire = <<>> /\ step = "idle" => Received = Expected
=============================================================================
