--------------------------- MODULE FramingProofs ---------------------------
(***************************************************************************)
(* Framing, for any buffers, codecs, messages and ways to cut the stream:  *)
(* what a session hands to its handler is what was sent to it, whole and   *)
(* in order, and nothing that has arrived waits for more.                  *)
(***************************************************************************)
EXTENDS Framing, FiniteSetTheorems, TLAPS

-----------------------------------------------------------------------------
(* Numbers of bytes.                                                       *)

(* Quotient and remainder are the only ones.                               *)
LEMMA QuotientIsUnique ==
  ASSUME NEW B \in Nat \ {0}, NEW x \in Int, NEW a \in 0 .. B - 1
  PROVE  (B * x + a) % B = a /\ (B * x + a) \div B = x
<1>1. ASSUME NEW y \in Int, NEW b \in 0 .. B - 1, B * x + a = B * y + b
      PROVE  x = y /\ a = b
  <2>1. CASE x > y
    <3>1. B * (x - y) >= B
      BY <2>1
    <3> QED
      BY <1>1, <2>1, <3>1
  <2>2. CASE y > x
    <3>1. B * (y - x) >= B
      BY <2>2
    <3> QED
      BY <1>1, <2>2, <3>1
  <2> QED
    BY <1>1, <2>1, <2>2
<1> DEFINE n == B * x + a
<1>2. n = B * (n \div B) + (n % B) /\ n % B \in 0 .. B - 1 /\ n \div B \in Int
  OBVIOUS
<1> QED
  BY <1>1, <1>2

(* A number is its last digit and the rest.                                *)
LEMMA DigitAndRest ==
  ASSUME NEW B \in Nat \ {0}, NEW n \in Nat
  PROVE  n = B * (n \div B) + (n % B) /\ n % B \in 0 .. B - 1 /\ n \div B \in Nat
OBVIOUS

(* The rest of a number of one digit more than m has is below m.           *)
LEMMA RestIsBelow ==
  ASSUME NEW B \in Nat \ {0}, NEW n \in Nat, NEW m \in Nat, n < B * m
  PROVE  n \div B < m
<1>1. n = B * (n \div B) + (n % B) /\ n % B \in 0 .. B - 1 /\ n \div B \in Nat
  BY DigitAndRest
<1> DEFINE q == n \div B
<1> HIDE DEF q
<1>2. B * q < B * m /\ q \in Nat
  <2>1. B * q <= n /\ q \in Nat
    BY <1>1 DEF q
  <2> QED
    BY <2>1
<1>3. q < m
  <2> SUFFICES ASSUME q >= m PROVE FALSE
    BY <1>2
  <2>1. B * q >= B * m
    BY <1>2
  <2> QED
    BY <1>2, <2>1
<1> QED
  BY <1>3 DEF q

(* Half of the values of a byte are negative.                              *)
LEMMA HalfBase == ByteBase \in Nat \ {0} /\ ByteBase = 2 * (ByteBase \div 2) /\ ByteBase \div 2 \in Nat \ {0}
BY FramingAssumption

(* A byte of a number, written and read again, is the same digit.          *)
LEMMA LowIsDigit ==
  ASSUME NEW n \in Nat
  PROVE  Unsigned(Low(n)) = n % ByteBase /\ Low(n) \in Int
<1>1. n % ByteBase \in 0 .. ByteBase - 1
  BY HalfBase, DigitAndRest
<1> DEFINE u == n % ByteBase
<1> HIDE DEF u
<1>2. u = ByteBase * 0 + u /\ u - ByteBase = ByteBase * (-1) + u /\ u \in 0 .. ByteBase - 1
  <2>1. u \in 0 .. ByteBase - 1
    BY <1>1 DEF u
  <2> QED
    BY <2>1, HalfBase
<1>3. u % ByteBase = u /\ (u - ByteBase) % ByteBase = u
  <2>1. (ByteBase * 0 + u) % ByteBase = u /\ (ByteBase * (-1) + u) % ByteBase = u
    BY <1>2, HalfBase, QuotientIsUnique
  <2> QED
    BY <1>2, <2>1
<1>4. Low(n) = IF 2 * u < ByteBase THEN u ELSE u - ByteBase
  BY DEF Low, Signed, u
<1> QED
  BY <1>2, <1>3, <1>4, HalfBase DEF Unsigned, u

(* A char survives being read as a byte.                                   *)
LEMMA CharIsByte ==
  ASSUME NEW ch \in Char
  PROVE  Signed(Unsigned(ch), Values(1)) = ch /\ ch \in Int
<1>1. ch \in Int /\ -ByteBase <= 2 * ch /\ 2 * ch < ByteBase
  BY HalfBase DEF Char
<1>2. Values(1) = ByteBase
  BY DEF Values
<1>3. CASE ch >= 0
  <2>1. ch \in 0 .. ByteBase - 1 /\ ch = ByteBase * 0 + ch
    BY <1>1, <1>3, HalfBase
  <2>2. (ByteBase * 0 + ch) % ByteBase = ch
    BY <2>1, HalfBase, QuotientIsUnique
  <2>3. Unsigned(ch) = ch
    BY <2>1, <2>2 DEF Unsigned
  <2> QED
    BY <1>1, <1>2, <2>3 DEF Signed
<1>4. CASE ch < 0
  <2> DEFINE u == ch + ByteBase
  <2>1. u \in 0 .. ByteBase - 1 /\ ch = ByteBase * (-1) + u
    BY <1>1, <1>4, HalfBase
  <2> HIDE DEF u
  <2>2. (ByteBase * (-1) + u) % ByteBase = u
    BY <2>1, HalfBase, QuotientIsUnique
  <2>3. Unsigned(ch) = ch + ByteBase
    BY <2>1, <2>2 DEF Unsigned, u
  <2> QED
    BY <1>1, <1>2, <2>3, HalfBase DEF Signed
<1> QED
  BY <1>1, <1>3, <1>4

(* A number of one, two or four bytes whose sign bit is free is the sum of *)
(* its digits.                                                             *)
LEMMA DigitsMakeNumber ==
  ASSUME NEW n \in Nat
  PROVE  /\ 2 * n < Values(1) => n % ByteBase = n
         /\ 2 * n < Values(2) => (n % ByteBase) + ByteBase * (Rest(n) % ByteBase) = n
         /\ 2 * n < Values(4) =>
              (n % ByteBase) + ByteBase * ((Rest(n) % ByteBase)
                + ByteBase * ((Rest(Rest(n)) % ByteBase) + ByteBase * (Rest(Rest(Rest(n))) % ByteBase))) = n
<1> DEFINE B == ByteBase
           r1 == Rest(n)
           r2 == Rest(r1)
           r3 == Rest(r2)
<1>0. B \in Nat \ {0}
  BY HalfBase
<1>1. ASSUME NEW m \in Nat
      PROVE  (m % B) + B * Rest(m) = m /\ Rest(m) \in Nat
  <2>1. m = B * Rest(m) + (m % B) /\ m % B \in 0 .. B - 1 /\ Rest(m) \in Nat
    BY <1>0, DigitAndRest DEF Rest
  <2> QED
    BY <1>0, <2>1
<1>2. ASSUME NEW m \in Nat, m < B PROVE m % B = m
  BY <1>0, <1>2, QuotientIsUnique
<1>3. ASSUME NEW m \in Nat, NEW k \in Nat, m < B * k PROVE Rest(m) < k
  BY <1>0, <1>3, RestIsBelow DEF Rest
<1>4. r1 \in Nat /\ r2 \in Nat /\ r3 \in Nat
  BY <1>1
<1>5. (n % B) + B * r1 = n /\ (r1 % B) + B * r2 = r1 /\ (r2 % B) + B * r3 = r2
  BY <1>1, <1>4
<1>6. B \in Nat /\ B * B \in Nat /\ B * (B * B) \in Nat /\ B * (B * (B * B)) \in Nat
  <2>1. ASSUME NEW a \in Nat, NEW b \in Nat PROVE a * b \in Nat
    OBVIOUS
  <2> QED
    BY <1>0, <2>1
<1>7. 2 * n < Values(1) => n % B = n
  BY <1>0, <1>2 DEF Values
<1>8. ASSUME 2 * n < Values(2) PROVE (n % B) + B * (r1 % B) = n
  <2>1. n < B * B
    BY <1>6, <1>8 DEF Values
  <2>2. r1 < B
    BY <1>3, <1>0, <2>1
  <2>3. r1 % B = r1
    BY <1>2, <1>4, <2>2
  <2> QED
    BY <1>5, <2>3
<1>9. ASSUME 2 * n < Values(4)
      PROVE  (n % B) + B * ((r1 % B) + B * ((r2 % B) + B * (r3 % B))) = n
  <2>1. n < B * (B * (B * B))
    BY <1>6, <1>9 DEF Values
  <2>2. r1 < B * (B * B)
    BY <1>3, <1>6, <2>1
  <2>3. r2 < B * B
    BY <1>3, <1>4, <1>6, <2>2
  <2>4. r3 < B
    BY <1>3, <1>4, <1>6, <2>3
  <2>5. r3 % B = r3
    BY <1>2, <1>4, <2>4
  <2> QED
    BY <1>5, <2>5
<1> QED
  BY <1>7, <1>8, <1>9

-----------------------------------------------------------------------------
(* Buffers.                                                                *)

(* What may be in one; the flag is any value until a header was read.      *)
Byte == Int \cup {Junk}
IsRecord(buf) ==
  buf = [bytes |-> buf.bytes, readpos |-> buf.readpos, writepos |-> buf.writepos,
         state |-> buf.state, flag |-> buf.flag]
IsBuffer(buf) ==
  /\ IsRecord(buf)
  /\ buf.bytes \in Seq(Byte) /\ buf.readpos \in Nat /\ buf.writepos \in Nat

(* The largest buffer has a byte at least.                                 *)
LEMMA Sizes == MaxBufferSize \in Nat \ {0} /\ ReadBufferSize \in Nat \ {0}
BY FramingAssumption

(* A new buffer.                                                           *)
LEMMA NewBufferIs ==
  ASSUME NEW size \in Nat
  PROVE  /\ IsBuffer(NewBuffer(size))
         /\ Len(NewBuffer(size).bytes) = Smaller(size, MaxBufferSize)
         /\ NewBuffer(size).readpos = 0 /\ NewBuffer(size).writepos = 0 /\ NewBuffer(size).state = 0
<1> DEFINE n == Smaller(size, MaxBufferSize)
<1>1. n \in Nat
  BY Sizes DEF Smaller
<1> HIDE DEF n
<1> DEFINE bytes == [i \in 1 .. n |-> Junk]
<1>2. bytes \in Seq(Byte) /\ Len(bytes) = n
  BY <1>1 DEF Byte
<1>3. NewBuffer(size) = [bytes |-> bytes, readpos |-> 0, writepos |-> 0, state |-> 0, flag |-> 0]
  BY DEF NewBuffer, n
<1> HIDE DEF bytes
<1>4. n = Smaller(size, MaxBufferSize)
  BY DEF n
<1> QED
  BY <1>2, <1>3, <1>4 DEF IsBuffer, IsRecord

(* A buffer of another size keeps what fits.                               *)
LEMMA ResizeIs ==
  ASSUME NEW buf, IsBuffer(buf), NEW size \in Nat
  PROVE  LET r == Resize(buf, size)
         IN  /\ IsBuffer(r)
             /\ Len(r.bytes) = Smaller(size, MaxBufferSize)
             /\ \A i \in 1 .. Len(r.bytes) : i <= Len(buf.bytes) => r.bytes[i] = buf.bytes[i]
             /\ r.readpos = buf.readpos /\ r.writepos = buf.writepos
             /\ r.state = buf.state /\ r.flag = buf.flag
<1> DEFINE n == Smaller(size, MaxBufferSize)
           bytes == [i \in 1 .. n |-> IF i <= Len(buf.bytes) THEN buf.bytes[i] ELSE Junk]
<1>1. n \in Nat
  BY Sizes DEF Smaller
<1>2. Resize(buf, size) = [buf EXCEPT !.bytes = bytes]
  BY DEF Resize, Size
<1> HIDE DEF n
<1>3. bytes \in Seq(Byte) /\ Len(bytes) = n
  BY <1>1 DEF Byte, IsBuffer
<1>4. \A i \in 1 .. n : i <= Len(buf.bytes) => bytes[i] = buf.bytes[i]
  OBVIOUS
<1> HIDE DEF bytes
<1>5. [buf EXCEPT !.bytes = bytes] =
        [bytes |-> bytes, readpos |-> buf.readpos, writepos |-> buf.writepos,
         state |-> buf.state, flag |-> buf.flag]
  BY DEF IsBuffer, IsRecord
<1> QED
  BY <1>2, <1>3, <1>4, <1>5 DEF IsBuffer, IsRecord, n

(* A buffer that is read and written from its beginning.                   *)
LEMMA RewindIs ==
  ASSUME NEW buf, IsBuffer(buf)
  PROVE  /\ IsBuffer(Rewind(buf)) /\ Rewind(buf).bytes = buf.bytes
         /\ Rewind(buf).readpos = 0 /\ Rewind(buf).writepos = 0
         /\ Rewind(buf).state = buf.state /\ Rewind(buf).flag = buf.flag
<1>1. [buf EXCEPT !.readpos = 0]
        = [bytes |-> buf.bytes, readpos |-> 0, writepos |-> buf.writepos, state |-> buf.state, flag |-> buf.flag]
  BY DEF IsBuffer, IsRecord
<1>2. Rewind(buf) = [[buf EXCEPT !.readpos = 0] EXCEPT !.writepos = 0]
  BY DEF Rewind
<1>3. Rewind(buf) = [bytes |-> buf.bytes, readpos |-> 0, writepos |-> 0,
                     state |-> buf.state, flag |-> buf.flag]
  BY <1>1, <1>2
<1> QED
  BY <1>3 DEF IsBuffer, IsRecord

(* Bytes that fit are put at the write position.                           *)
LEMMA PutBufIs ==
  ASSUME NEW buf, IsBuffer(buf), NEW bytes \in Seq(Byte), buf.writepos + Len(bytes) <= Len(buf.bytes)
  PROVE  LET r == PutBuf(buf, bytes)
         IN  /\ IsBuffer(r)
             /\ Len(r.bytes) = Len(buf.bytes)
             /\ \A i \in 1 .. Len(bytes) : r.bytes[buf.writepos + i] = bytes[i]
             /\ \A i \in 1 .. buf.writepos : r.bytes[i] = buf.bytes[i]
             /\ \A i \in 1 .. Len(buf.bytes) : i > buf.writepos + Len(bytes) => r.bytes[i] = buf.bytes[i]
             /\ r.readpos = buf.readpos /\ r.writepos = buf.writepos + Len(bytes)
             /\ r.state = buf.state /\ r.flag = buf.flag
<1> DEFINE to == buf.writepos + Len(bytes)
           new == [i \in 1 .. Len(buf.bytes) |->
                     IF i \in buf.writepos + 1 .. to THEN bytes[i - buf.writepos] ELSE buf.bytes[i]]
<1>1. PutBuf(buf, bytes) = [buf EXCEPT !.bytes = new, !.writepos = to]
  BY DEF PutBuf, Size, IsBuffer
<1>2. buf.writepos \in Nat /\ Len(bytes) \in Nat /\ Len(buf.bytes) \in Nat /\ to \in Nat
  BY DEF IsBuffer
<1>3. new \in Seq(Byte) /\ Len(new) = Len(buf.bytes)
  <2>1. ASSUME NEW i \in 1 .. Len(buf.bytes) PROVE new[i] \in Byte
    <3>1. CASE i \in buf.writepos + 1 .. to
      <4>1. i - buf.writepos \in 1 .. Len(bytes)
        BY <1>2, <3>1
      <4> QED
        BY <3>1, <4>1
    <3>2. CASE i \notin buf.writepos + 1 .. to
      BY <3>2 DEF IsBuffer
    <3> QED
      BY <3>1, <3>2
  <2>2. new \in [1 .. Len(buf.bytes) -> Byte]
    BY <2>1
  <2> HIDE DEF new
  <2> QED
    BY <1>2, <2>2
<1>4. \A i \in 1 .. Len(bytes) : new[buf.writepos + i] = bytes[i]
  BY <1>2
<1>5. \A i \in 1 .. buf.writepos : new[i] = buf.bytes[i]
  BY <1>2
<1>6. \A i \in 1 .. Len(buf.bytes) : i > to => new[i] = buf.bytes[i]
  BY <1>2
<1> HIDE DEF new, to
<1>7. [buf EXCEPT !.bytes = new]
        = [bytes |-> new, readpos |-> buf.readpos, writepos |-> buf.writepos, state |-> buf.state, flag |-> buf.flag]
  BY DEF IsBuffer, IsRecord
<1>8. [buf EXCEPT !.bytes = new, !.writepos = to] = [[buf EXCEPT !.bytes = new] EXCEPT !.writepos = to]
  OBVIOUS
<1>9. PutBuf(buf, bytes) = [bytes |-> new, readpos |-> buf.readpos, writepos |-> to,
                            state |-> buf.state, flag |-> buf.flag]
  BY <1>1, <1>7, <1>8
<1> QED
  BY <1>2, <1>3, <1>4, <1>5, <1>6, <1>9 DEF IsBuffer, IsRecord, to

-----------------------------------------------------------------------------
(* Codecs.                                                                 *)

(* What the constructors leave.                                            *)
IsMessageCodec(c) ==
  /\ c.kind = "message"
  /\ c.headersize \in Nat \ {0} /\ c.bodysizelen \in 0 .. 4 /\ c.bodysizelen <= c.headersize
  /\ c.bodysizepos \in Int
  /\ c.bodysizepos < 0 \/ c.bodysizepos + c.bodysizelen <= c.headersize
  /\ c.maxbodysize \in Nat
IsStringCodec(c) == c.kind = "string" /\ c.separator \in Char /\ c.maxstrlen \in Int

(* The constructor of MessageCodec with all arguments.                     *)
LEMMA NewMessageCodecIs ==
  ASSUME NEW h \in Int, NEW pos \in Int, NEW len \in Int, NEW max \in Int
  PROVE  IsMessageCodec(NewMessageCodec(h, pos, len, max))
<1> DEFINE hs == Larger(h, 1)
           l == Smaller(Smaller(Larger(len, 0), 4), hs)
           p == IF pos < 0 \/ pos > hs - l THEN -1 ELSE pos
<1>1. hs \in Nat \ {0} /\ l \in 0 .. 4 /\ l <= hs
  BY DEF Larger, Smaller
<1>2. p \in Int /\ (p < 0 \/ p + l <= hs)
  <2> HIDE DEF hs, l
  <2> QED
    BY <1>1
<1>3. Larger(max, 0) \in Nat
  BY DEF Larger
<1>4. NewMessageCodec(h, pos, len, max) =
        [kind |-> "message", headersize |-> hs, bodysizelen |-> l, bodysizepos |-> p,
         maxbodysize |-> Larger(max, 0)]
  BY DEF NewMessageCodec
<1> HIDE DEF hs, l, p
<1> QED
  BY <1>1, <1>2, <1>3, <1>4 DEF IsMessageCodec

(* The filter of a session.                                                *)
LEMMA FirstCodec ==
  ASSUME FramingInit
  PROVE  IsMessageCodec(codec) \/ IsStringCodec(codec)
<1>1. CASE codec \in {MessageCodecOf(a) : a \in MessageCodecs}
  <2>1. PICK given \in MessageCodecs : codec = MessageCodecOf(given)
    BY <1>1
  <2>2. Len(given) \in 1 .. 4 /\ \A i \in 1 .. Len(given) : given[i] \in Int
    BY FramingAssumption
  <2> DEFINE a == given \o SubSeq(<<4, 0, 4, 1024>>, Len(given) + 1, 4)
  <2>3. a[1] \in Int /\ a[2] \in Int /\ a[3] \in Int /\ a[4] \in Int
    BY <2>2
  <2>4. codec = NewMessageCodec(a[1], a[2], a[3], a[4])
    BY <2>1 DEF MessageCodecOf
  <2> HIDE DEF a
  <2> QED
    BY <2>3, <2>4, NewMessageCodecIs
<1>2. CASE codec \in {NewStringCodec(a[1], a[2]) : a \in StringCodecs}
  <2>1. PICK given \in StringCodecs : codec = NewStringCodec(given[1], given[2])
    BY <1>2
  <2> QED
    BY <2>1, FramingAssumption DEF NewStringCodec, IsStringCodec
<1> QED
  BY <1>1, <1>2 DEF FramingInit

(* The buffer of these bytes, read from its beginning.                     *)
Plain(bytes) == [bytes |-> bytes, readpos |-> 0, writepos |-> 0, state |-> 0, flag |-> 0]

(* A size is read in fields that the codec's header has.                   *)
SizeField(c) == c.bodysizepos < 0 \/ c.bodysizelen \in {0, 1, 2, 4}

(* What the codec can carry: a header that says how much follows it, which *)
(* is not more than the limits.                                            *)
WellFramed(c, bytes) ==
  LET n == BodySize(c, Plain(bytes))
  IN  /\ SizeField(c)
      /\ bytes \in Seq(Int) /\ n \in Nat /\ Len(bytes) = c.headersize + n
      /\ n > 0 => n <= c.maxbodysize /\ c.headersize + n <= MaxBufferSize

(* The size read is a matter of the header alone.                          *)
LEMMA BodySizeIsLocal ==
  ASSUME NEW c, IsMessageCodec(c), SizeField(c),
         NEW bytes \in Seq(Int), Len(bytes) >= c.headersize,
         NEW buf, IsBuffer(buf), Left(buf) >= c.headersize,
         \A i \in 1 .. c.headersize : buf.bytes[buf.readpos + i] = bytes[i]
  PROVE  BodySize(c, buf) = BodySize(c, Plain(bytes))
<1> DEFINE p == c.bodysizepos
           at == [buf EXCEPT !.readpos = @ + p]
           first == [Plain(bytes) EXCEPT !.readpos = @ + p]
<1>1. at.bytes = buf.bytes /\ at.readpos = buf.readpos + p /\ first.bytes = bytes /\ first.readpos = p
  BY DEF IsBuffer, IsRecord, IsMessageCodec, Plain
<1> HIDE DEF at, first
<1> SUFFICES ASSUME p >= 0, c.bodysizelen \in {1, 2, 4}
             PROVE  /\ c.bodysizelen = 1 => GetByte(at) = GetByte(first)
                    /\ c.bodysizelen = 2 => GetShort(at) = GetShort(first)
                    /\ c.bodysizelen = 4 => GetInt(at) = GetInt(first)
  BY DEF BodySize, SizeField, IsMessageCodec, at, first
<1>2. ASSUME NEW i \in 1 .. c.bodysizelen PROVE Digit(at, i) = Digit(first, i)
  <2>1. p + i \in 1 .. c.headersize
    <3>1. p \in Nat /\ c.bodysizelen \in Nat /\ c.headersize \in Nat /\ p + c.bodysizelen <= c.headersize
      BY DEF IsMessageCodec
    <3>2. i \in Nat /\ 1 <= i /\ i <= c.bodysizelen
      BY <3>1
    <3> HIDE DEF p
    <3> QED
      BY <3>1, <3>2
  <2>2. buf.bytes[buf.readpos + (p + i)] = bytes[p + i]
    BY <2>1
  <2>3. buf.readpos + (p + i) = (buf.readpos + p) + i
    BY DEF IsMessageCodec, IsBuffer
  <2> QED
    BY <1>1, <2>2, <2>3 DEF Digit
<1>3. Left(at) >= c.bodysizelen /\ Left(first) >= c.bodysizelen /\ Left(at) \in Int /\ Left(first) \in Int
  <2>1. Left(at) = Left(buf) - p /\ Left(first) = Len(bytes) - p
    BY <1>1 DEF Left, Size, IsMessageCodec, IsBuffer
  <2>2. Left(buf) \in Int /\ Len(bytes) \in Nat
    BY DEF Left, Size, IsBuffer
  <2>3. p + c.bodysizelen <= c.headersize /\ c.headersize \in Nat /\ p \in Int /\ c.bodysizelen \in Nat
    BY DEF IsMessageCodec
  <2> HIDE DEF p
  <2> QED
    BY <2>1, <2>2, <2>3, SMTT(30)
<1> QED
  BY <1>2, <1>3, SMTT(30) DEF GetByte, GetShort, GetInt

-----------------------------------------------------------------------------
(* What the sender sends.                                                  *)

(* Encode copies what fits a buffer.                                       *)
LEMMA EncodeCopies ==
  ASSUME NEW bytes \in Seq(Byte), Len(bytes) <= MaxBufferSize
  PROVE  EncodeMessage(bytes) = bytes
<1> DEFINE n == Len(bytes)
           copy == PutBuf(NewBuffer(n), bytes)
<1>1. n \in Nat
  OBVIOUS
<1>2. IsBuffer(NewBuffer(n)) /\ Len(NewBuffer(n).bytes) = n /\ NewBuffer(n).writepos = 0
  BY <1>1, NewBufferIs, Sizes DEF Smaller
<1>3. copy.bytes \in Seq(Byte) /\ Len(copy.bytes) = n /\ \A i \in 1 .. n : copy.bytes[i] = bytes[i]
  <2>1. NewBuffer(n).writepos + Len(bytes) <= Len(NewBuffer(n).bytes)
    BY <1>1, <1>2
  <2>2. IsBuffer(copy) /\ Len(copy.bytes) = n /\ \A i \in 1 .. n : copy.bytes[NewBuffer(n).writepos + i] = bytes[i]
    BY <1>2, <2>1, PutBufIs
  <2> QED
    BY <1>2, <2>2 DEF IsBuffer
<1> HIDE DEF copy
<1>4. copy.bytes = bytes
  BY <1>3
<1> QED
  BY <1>4 DEF EncodeMessage, copy

(* A header is as long as the codec says, of bytes that are numbers, and   *)
(* says how many bytes follow it.                                          *)
LEMMA HeaderSays ==
  ASSUME NEW c, IsMessageCodec(c), NEW n \in BodySizes, Carries(c, n), NEW tag \in {1, 2}
  PROVE  LET bytes == Header(c, n, tag).bytes
         IN  /\ bytes \in Seq(Int) /\ Len(bytes) = c.headersize
             /\ SizeField(c) /\ BodySize(c, Plain(bytes)) = n
<1> DEFINE h == c.headersize
           p == Larger(c.bodysizepos, 0)
           blank == [NewBuffer(h) EXCEPT !.bytes = [i \in 1 .. h |-> tag], !.writepos = p]
           width == IF c.bodysizelen >= 3 THEN 4 ELSE c.bodysizelen
           digits == IF width = 1 THEN <<Low(n)>>
                     ELSE IF width = 2 THEN <<Low(n), Low(Rest(n))>>
                     ELSE <<Low(n), Low(Rest(n)), Low(Rest(Rest(n))), Low(Rest(Rest(Rest(n))))>>
<1>0. n \in Nat /\ h \in Nat \ {0} /\ c.bodysizelen \in 0 .. 4 /\ p \in Nat
  BY FramingAssumption DEF IsMessageCodec, Larger
<1>1. IsBuffer(blank) /\ Len(blank.bytes) = h /\ blank.writepos = p /\ \A i \in 1 .. h : blank.bytes[i] \in Int
  <2> DEFINE tags == [i \in 1 .. h |-> tag]
  <2>1. tags \in Seq(Byte) /\ Len(tags) = h /\ \A i \in 1 .. h : tags[i] \in Int
    BY <1>0 DEF Byte
  <2> HIDE DEF tags
  <2>2. IsBuffer(NewBuffer(h))
    BY <1>0, NewBufferIs
  <2>3. [NewBuffer(h) EXCEPT !.bytes = tags]
          = [bytes |-> tags, readpos |-> NewBuffer(h).readpos, writepos |-> NewBuffer(h).writepos,
             state |-> NewBuffer(h).state, flag |-> NewBuffer(h).flag]
    BY <2>2 DEF IsBuffer, IsRecord
  <2>4. blank = [[NewBuffer(h) EXCEPT !.bytes = tags] EXCEPT !.writepos = p]
    BY DEF tags
  <2> HIDE DEF blank, p
  <2>5. blank = [bytes |-> tags, readpos |-> NewBuffer(h).readpos, writepos |-> p,
                 state |-> NewBuffer(h).state, flag |-> NewBuffer(h).flag]
    BY <2>3, <2>4
  <2> QED
    BY <1>0, <2>1, <2>2, <2>5 DEF IsBuffer, IsRecord
<1>2. /\ Rest(n) \in Nat /\ Rest(Rest(n)) \in Nat /\ Rest(Rest(Rest(n))) \in Nat
      /\ digits \in Seq(Byte) /\ \A i \in 1 .. Len(digits) : digits[i] \in Int
      /\ width \in {1, 2} => Len(digits) = width
      /\ width \notin {1, 2} => Len(digits) = 4
  <2>1. ASSUME NEW m \in Nat PROVE Rest(m) \in Nat
    BY HalfBase, DigitAndRest DEF Rest
  <2>2. Rest(n) \in Nat /\ Rest(Rest(n)) \in Nat /\ Rest(Rest(Rest(n))) \in Nat
    BY <1>0, <2>1
  <2>3. Low(n) \in Int /\ Low(Rest(n)) \in Int /\ Low(Rest(Rest(n))) \in Int /\ Low(Rest(Rest(Rest(n)))) \in Int
    BY <1>0, <2>2, LowIsDigit
  <2>4. ASSUME NEW a \in Int, NEW b \in Int, NEW d \in Int, NEW e \in Int
        PROVE  /\ <<a>> \in Seq(Byte) /\ <<a, b>> \in Seq(Byte) /\ <<a, b, d, e>> \in Seq(Byte)
               /\ \A i \in 1 .. 1 : <<a>>[i] \in Int
               /\ \A i \in 1 .. 2 : <<a, b>>[i] \in Int
               /\ \A i \in 1 .. 4 : <<a, b, d, e>>[i] \in Int
    BY DEF Byte
  <2> HIDE DEF width
  <2>5. CASE width = 1
    BY <2>2, <2>3, <2>4, <2>5
  <2>6. CASE width = 2
    BY <2>2, <2>3, <2>4, <2>6
  <2>7. CASE width \notin {1, 2}
    BY <2>2, <2>3, <2>4, <2>7
  <2> QED
    BY <2>5, <2>6, <2>7
<1>3. Header(c, n, tag) = IF width \in {1, 2, 4} THEN PutBuf(blank, digits) ELSE blank
  <2>1. Signed(Unsigned(n), ByteBase) = Low(n)
    BY DEF Low, Unsigned
  <2> HIDE DEF blank
  <2> QED
    BY <2>1 DEF Header, PutByte, PutShort, PutInt, blank
<1> HIDE DEF blank, p, digits
<1>4. ASSUME ~(p + Len(digits) <= h) PROVE PutBuf(blank, digits) = blank
  BY <1>0, <1>1, <1>2, <1>4 DEF PutBuf, Size
<1>5. Header(c, n, tag).bytes \in Seq(Int) /\ Len(Header(c, n, tag).bytes) = h
  <2>1. ASSUME p + Len(digits) <= h
        PROVE  LET new == PutBuf(blank, digits).bytes
               IN  new \in Seq(Byte) /\ Len(new) = h /\ \A i \in 1 .. h : new[i] \in Int
    <3> DEFINE new == PutBuf(blank, digits).bytes
    <3>1. /\ IsBuffer(PutBuf(blank, digits))
          /\ Len(new) = h
          /\ \A i \in 1 .. Len(digits) : new[p + i] = digits[i]
          /\ \A i \in 1 .. p : new[i] = blank.bytes[i]
          /\ \A i \in 1 .. h : i > p + Len(digits) => new[i] = blank.bytes[i]
      BY <1>1, <1>2, <2>1, PutBufIs
    <3> HIDE DEF new
    <3>2. ASSUME NEW i \in 1 .. h PROVE new[i] \in Int
      <4>1. CASE i <= p
        BY <1>0, <1>1, <3>1, <4>1
      <4>2. CASE i > p /\ i <= p + Len(digits)
        <5>1. i - p \in 1 .. Len(digits) /\ p + (i - p) = i
          BY <1>0, <1>2, <4>2
        <5> QED
          BY <1>2, <3>1, <5>1
      <4>3. CASE i > p + Len(digits)
        BY <1>1, <3>1, <4>3
      <4> QED
        BY <1>0, <1>2, <4>1, <4>2, <4>3
    <3> QED
      BY <3>1, <3>2 DEF IsBuffer, new
  <2>2. blank.bytes \in Seq(Byte) /\ Len(blank.bytes) = h /\ \A i \in 1 .. h : blank.bytes[i] \in Int
    BY <1>1 DEF IsBuffer
  <2>3. ASSUME NEW s \in Seq(Byte), Len(s) = h, \A i \in 1 .. h : s[i] \in Int PROVE s \in Seq(Int)
    BY <1>0, <2>3
  <2> QED
    BY <1>3, <1>4, <2>1, <2>2, <2>3
<1>6. CASE c.bodysizepos < 0 \/ c.bodysizelen = 0
  BY <1>5, <1>6 DEF Carries, BodySize, SizeField
<1>7. CASE ~(c.bodysizepos < 0 \/ c.bodysizelen = 0)
  <2>1. c.bodysizelen \in {1, 2, 4} /\ 2 * n < Values(c.bodysizelen) /\ c.bodysizepos \in Nat /\ p = c.bodysizepos
    BY <1>7 DEF Carries, IsMessageCodec, Larger, p
  <2>2. width = c.bodysizelen /\ Len(digits) = width /\ p + width <= h
    BY <1>2, <1>7, <2>1 DEF IsMessageCodec
  <2> DEFINE bytes == Header(c, n, tag).bytes
             at == [Plain(bytes) EXCEPT !.readpos = @ + c.bodysizepos]
  <2>3. \A i \in 1 .. Len(digits) : bytes[p + i] = digits[i]
    <3>1. blank.writepos + Len(digits) <= Len(blank.bytes)
      BY <1>1, <2>2
    <3>2. \A i \in 1 .. Len(digits) : PutBuf(blank, digits).bytes[p + i] = digits[i]
      BY <1>1, <1>2, <3>1, PutBufIs
    <3>3. Header(c, n, tag) = PutBuf(blank, digits)
      BY <1>3, <2>1, <2>2
    <3> QED
      BY <3>2, <3>3
  <2>4. at.bytes = bytes /\ at.readpos = p
    BY <2>1 DEF Plain
  <2>5. BodySize(c, Plain(bytes)) = IF c.bodysizelen = 1 THEN GetByte(at)
                                    ELSE IF c.bodysizelen = 2 THEN GetShort(at) ELSE GetInt(at)
    BY <1>7 DEF BodySize
  <2>6. Left(at) >= width /\ Left(at) \in Int
    BY <1>0, <1>5, <2>2, <2>4 DEF Left, Size
  <2> HIDE DEF bytes, at
  <2>7. \A i \in 1 .. width : Digit(at, i) = Unsigned(digits[i])
    BY <2>2, <2>3, <2>4 DEF Digit
  <2>8. /\ Unsigned(Low(n)) = n % ByteBase
        /\ Unsigned(Low(Rest(n))) = Rest(n) % ByteBase
        /\ Unsigned(Low(Rest(Rest(n)))) = Rest(Rest(n)) % ByteBase
        /\ Unsigned(Low(Rest(Rest(Rest(n))))) = Rest(Rest(Rest(n))) % ByteBase
    BY <1>0, <1>2, LowIsDigit
  <2> HIDE DEF width
  <2>9. ASSUME NEW base, 2 * n < base PROVE Signed(n, base) = n
    BY <2>9 DEF Signed
  <2>10. CASE c.bodysizelen = 1
    <3>1. GetByte(at) = Signed(n % ByteBase, Values(1))
      <4>1. digits = <<Low(n)>>
        BY <2>2, <2>10 DEF digits
      <4>2. Digit(at, 1) = n % ByteBase
        BY <2>2, <2>7, <2>8, <2>10, <4>1
      <4>3. ~(Left(at) < 1)
        BY <2>2, <2>6, <2>10
      <4> QED
        BY <4>2, <4>3 DEF GetByte
    <3> QED
      BY <1>0, <2>1, <2>5, <2>9, <2>10, <3>1, DigitsMakeNumber, <1>5 DEF bytes, SizeField
  <2>11. CASE c.bodysizelen = 2
    <3>1. GetShort(at) = Signed((n % ByteBase) + ByteBase * (Rest(n) % ByteBase), Values(2))
      <4>1. digits = <<Low(n), Low(Rest(n))>>
        BY <2>2, <2>11 DEF digits
      <4>2. Digit(at, 1) = n % ByteBase /\ Digit(at, 2) = Rest(n) % ByteBase
        BY <2>2, <2>7, <2>8, <2>11, <4>1
      <4>3. ~(Left(at) < 2)
        BY <2>2, <2>6, <2>11
      <4> QED
        BY <4>2, <4>3 DEF GetShort
    <3> QED
      BY <1>0, <2>1, <2>5, <2>9, <2>11, <3>1, DigitsMakeNumber, <1>5 DEF bytes, SizeField
  <2>12. CASE c.bodysizelen = 4
    <3>1. GetInt(at) =
            Signed((n % ByteBase) + ByteBase * ((Rest(n) % ByteBase)
                     + ByteBase * ((Rest(Rest(n)) % ByteBase) + ByteBase * (Rest(Rest(Rest(n))) % ByteBase))),
                   Values(4))
      <4>1. digits = <<Low(n), Low(Rest(n)), Low(Rest(Rest(n))), Low(Rest(Rest(Rest(n))))>>
        BY <2>2, <2>12 DEF digits
      <4>2. Digit(at, 1) = n % ByteBase /\ Digit(at, 2) = Rest(n) % ByteBase /\ Digit(at, 3) = Rest(Rest(n)) % ByteBase /\ Digit(at, 4) = Rest(Rest(Rest(n))) % ByteBase
        BY <2>2, <2>7, <2>8, <2>12, <4>1
      <4>3. ~(Left(at) < 4)
        BY <2>2, <2>6, <2>12
      <4> QED
        BY <4>2, <4>3 DEF GetInt
    <3> QED
      BY <1>0, <2>1, <2>5, <2>9, <2>12, <3>1, DigitsMakeNumber, <1>5 DEF bytes, SizeField
  <2> QED
    BY <2>1, <2>10, <2>11, <2>12
<1> QED
  BY <1>6, <1>7

(* What an application sends within the limits is well framed.             *)
LEMMA SentIsWellFramed ==
  ASSUME NEW c, IsMessageCodec(c), NEW n \in BodySizes, Carries(c, n), NEW tag \in {1, 2}
  PROVE  WellFramed(c, Wired(Header(c, n, tag).bytes \o [i \in 1 .. n |-> tag]))
<1> DEFINE header == Header(c, n, tag).bytes
           body == [i \in 1 .. n |-> tag]
           bytes == header \o body
<1>1. header \in Seq(Int) /\ Len(header) = c.headersize /\ SizeField(c) /\ BodySize(c, Plain(header)) = n
  BY HeaderSays
<1>2. n \in Nat /\ c.headersize \in Nat
  BY FramingAssumption DEF IsMessageCodec
<1>3. body \in Seq(Int) /\ Len(body) = n
  BY <1>2
<1> HIDE DEF header, body
<1>4. /\ bytes \in Seq(Int) /\ Len(bytes) = c.headersize + n
      /\ \A i \in 1 .. c.headersize : bytes[i] = header[i]
  BY <1>1, <1>2, <1>3, SMTT(30)
<1> HIDE DEF bytes
<1>5. bytes \in Seq(Byte)
  BY <1>4 DEF Byte
<1>6. Wired(bytes) = bytes
  BY <1>5, EncodeCopies DEF Wired
<1>7. BodySize(c, Plain(bytes)) = n
  <2> DEFINE buf == Plain(bytes)
  <2>1. IsBuffer(buf) /\ buf.bytes = bytes /\ buf.readpos = 0
    BY <1>5 DEF Plain, IsBuffer, IsRecord
  <2> HIDE DEF buf
  <2>2. Left(buf) >= c.headersize /\ \A i \in 1 .. c.headersize : buf.bytes[buf.readpos + i] = header[i]
    BY <1>2, <1>4, <2>1 DEF Left, Size
  <2>3. BodySize(c, buf) = BodySize(c, Plain(header))
    BY <1>1, <1>2, <2>1, <2>2, BodySizeIsLocal
  <2> QED
    BY <1>1, <2>3 DEF buf
<1>8. n > 0 => n <= c.maxbodysize /\ c.headersize + n <= MaxBufferSize
  BY DEF Carries
<1>9. WellFramed(c, bytes)
  BY <1>1, <1>2, <1>4, <1>7, <1>8 DEF WellFramed
<1> QED
  BY <1>6, <1>9 DEF bytes, header, body

-----------------------------------------------------------------------------
(* The bytes on their way.                                                 *)

(* The buffer holds, past its read position, the last bytes of the stream  *)
(* up to a position.                                                       *)
Carried(buf, bytes, upto) ==
  /\ IsBuffer(buf) /\ buf.readpos <= Len(buf.bytes) /\ Len(buf.bytes) <= MaxBufferSize
  /\ Left(buf) <= upto
  /\ \A i \in 1 .. Left(buf) : buf.bytes[buf.readpos + i] = bytes[(upto - Left(buf)) + i]

(* How many bytes are left is a number.                                    *)
LEMMA LeftIsNat ==
  ASSUME NEW buf, IsBuffer(buf), buf.readpos <= Len(buf.bytes)
  PROVE  Left(buf) \in Nat /\ Left(buf) + buf.readpos = Len(buf.bytes) /\ Len(buf.bytes) \in Nat /\ buf.readpos \in Nat
BY DEF IsBuffer, Left, Size

(* Reading on.                                                             *)
LEMMA AdvanceCarries ==
  ASSUME NEW buf, NEW bytes, NEW upto \in Nat, Carried(buf, bytes, upto), NEW d \in Nat, d <= Left(buf)
  PROVE  LET r == [buf EXCEPT !.readpos = @ + d]
         IN  Carried(r, bytes, upto) /\ Left(r) = Left(buf) - d
<1> DEFINE r == [buf EXCEPT !.readpos = @ + d]
<1>1. r = [bytes |-> buf.bytes, readpos |-> buf.readpos + d, writepos |-> buf.writepos,
           state |-> buf.state, flag |-> buf.flag]
  BY DEF Carried, IsBuffer, IsRecord
<1> HIDE DEF r
<1>2. Left(buf) \in Nat /\ Left(buf) + buf.readpos = Len(buf.bytes) /\ Len(buf.bytes) \in Nat /\ buf.readpos \in Nat
  BY LeftIsNat DEF Carried
<1>3. IsBuffer(r) /\ r.bytes = buf.bytes /\ r.readpos = buf.readpos + d
  BY <1>1, <1>2 DEF Carried, IsBuffer, IsRecord
<1>4. Left(r) = Left(buf) - d
  BY <1>2, <1>3 DEF Left, Size
<1>5. ASSUME NEW i \in 1 .. Left(r) PROVE r.bytes[r.readpos + i] = bytes[(upto - Left(r)) + i]
  <2>1. d + i \in 1 .. Left(buf)
    BY <1>2, <1>4
  <2>2. buf.bytes[buf.readpos + (d + i)] = bytes[(upto - Left(buf)) + (d + i)]
    BY <2>1 DEF Carried
  <2>3. buf.readpos + (d + i) = r.readpos + i /\ (upto - Left(buf)) + (d + i) = (upto - Left(r)) + i
    BY <1>2, <1>3, <1>4
  <2> QED
    BY <1>3, <2>2, <2>3
<1>6. r.readpos <= Len(r.bytes) /\ Len(r.bytes) <= MaxBufferSize /\ Left(r) <= upto
  BY <1>2, <1>3, <1>4, Sizes DEF Carried
<1> QED
  BY <1>3, <1>4, <1>5, <1>6 DEF Carried, r

(* What is kept for the next round.                                        *)
LEMMA LeftoverCarries ==
  ASSUME NEW buf, NEW bytes, NEW upto \in Nat, Carried(buf, bytes, upto)
  PROVE  LET r == Leftover(buf, FALSE)
         IN  Carried(r, bytes, upto) /\ Left(r) = Left(buf) /\ r.readpos = 0
<1> DEFINE n == Left(buf)
           kept == [i \in 1 .. n |-> buf.bytes[buf.readpos + i]]
           cut == [buf EXCEPT !.bytes = kept]
           r == Rewind(cut)
<1>1. n \in Nat /\ n + buf.readpos = Len(buf.bytes) /\ Len(buf.bytes) \in Nat /\ buf.readpos \in Nat
  BY LeftIsNat DEF Carried
<1>2. Leftover(buf, FALSE) = r
  <2>1. Larger(n, 0) = n
    BY <1>1 DEF Larger
  <2> QED
    BY <2>1 DEF Leftover
<1>3. kept \in Seq(Byte) /\ Len(kept) = n /\ \A i \in 1 .. n : kept[i] = buf.bytes[buf.readpos + i]
  <2> HIDE DEF n
  <2>1. \A i \in 1 .. n : buf.bytes[buf.readpos + i] \in Byte
    BY <1>1 DEF Carried, IsBuffer
  <2> QED
    BY <1>1, <2>1
<1> HIDE DEF kept
<1>4. cut = [bytes |-> kept, readpos |-> buf.readpos, writepos |-> buf.writepos,
             state |-> buf.state, flag |-> buf.flag]
  BY DEF Carried, IsBuffer, IsRecord
<1>5. IsBuffer(cut) /\ cut.bytes = kept
  BY <1>3, <1>4 DEF Carried, IsBuffer, IsRecord
<1> HIDE DEF cut
<1>6. IsBuffer(r) /\ r.bytes = kept /\ r.readpos = 0
  BY <1>5, RewindIs
<1> HIDE DEF r, n
<1>7. Left(r) = n
  BY <1>1, <1>3, <1>6 DEF Left, Size
<1>8. \A i \in 1 .. n : buf.bytes[buf.readpos + i] = bytes[(upto - n) + i]
  BY DEF Carried, n
<1>9. n <= upto /\ n <= MaxBufferSize
  BY <1>1, Sizes DEF Carried, n
<1>10. \A i \in 1 .. Left(r) : r.bytes[r.readpos + i] = bytes[(upto - Left(r)) + i]
  <2> SUFFICES ASSUME NEW i \in 1 .. n PROVE r.bytes[r.readpos + i] = bytes[(upto - n) + i]
    BY <1>7
  <2>1. r.readpos + i = i /\ i \in 1 .. n
    BY <1>1, <1>6
  <2> QED
    BY <1>3, <1>6, <1>8, <2>1
<1>11. r.readpos <= Len(r.bytes) /\ Len(r.bytes) <= MaxBufferSize /\ Left(r) <= upto
  BY <1>1, <1>3, <1>6, <1>7, <1>9
<1>12. Carried(r, bytes, upto)
  BY <1>6, <1>10, <1>11 DEF Carried
<1> QED
  BY <1>2, <1>6, <1>7, <1>12 DEF n

(* What is read is put after it.                                           *)
LEMMA AppendCarries ==
  ASSUME NEW buf, NEW bytes, NEW upto \in Nat, Carried(buf, bytes, upto), buf.readpos = 0,
         NEW more \in Seq(Int), Size(buf) + Len(more) <= MaxBufferSize,
         \A i \in 1 .. Len(more) : more[i] = bytes[upto + i]
  PROVE  Carried(AppendTo(buf, more), bytes, upto + Len(more)) /\ Left(AppendTo(buf, more)) = Left(buf) + Len(more)
<1> DEFINE n == Len(buf.bytes)
           m == Len(more)
           wide == Resize(buf, n + m)
           at == [wide EXCEPT !.writepos = n]
           r == AppendTo(buf, more)
<1>1. n \in Nat /\ m \in Nat /\ IsBuffer(buf) /\ Left(buf) = n
  BY DEF Carried, IsBuffer, Left, Size
<1>2. IsBuffer(wide) /\ Len(wide.bytes) = n + m /\ \A i \in 1 .. n : wide.bytes[i] = buf.bytes[i]
  <2>1. n + m \in Nat /\ Smaller(n + m, MaxBufferSize) = n + m
    <3>1. n + m <= MaxBufferSize
      BY DEF Size
    <3> HIDE DEF n, m
    <3> QED
      BY <1>1, <3>1, Sizes DEF Smaller
  <2>2. IsBuffer(wide) /\ Len(wide.bytes) = n + m
        /\ \A i \in 1 .. Len(wide.bytes) : i <= n => wide.bytes[i] = buf.bytes[i]
    BY <1>1, <2>1, ResizeIs
  <2> QED
    BY <1>1, <2>2
<1> HIDE DEF wide
<1>3. at = [bytes |-> wide.bytes, readpos |-> wide.readpos, writepos |-> n, state |-> wide.state, flag |-> wide.flag]
  BY <1>2, SMTT(30) DEF IsBuffer, IsRecord
<1>4. IsBuffer(at) /\ at.bytes = wide.bytes /\ at.writepos = n
  BY <1>1, <1>2, <1>3 DEF IsBuffer, IsRecord
<1>5. r = Rewind(PutBuf(at, more))
  BY DEF AppendTo, Size, wide
<1> HIDE DEF at, r, n, m
<1>6. more \in Seq(Byte)
  BY DEF Byte
<1>7. /\ IsBuffer(PutBuf(at, more)) /\ Len(PutBuf(at, more).bytes) = n + m
      /\ \A i \in 1 .. m : PutBuf(at, more).bytes[n + i] = more[i]
      /\ \A i \in 1 .. n : PutBuf(at, more).bytes[i] = buf.bytes[i]
  <2>1. at.writepos + Len(more) <= Len(at.bytes)
    BY <1>1, <1>2, <1>4 DEF m
  <2> QED
    BY <1>2, <1>4, <1>6, <2>1, PutBufIs DEF m
<1>8. IsBuffer(r) /\ r.bytes = PutBuf(at, more).bytes /\ r.readpos = 0
  BY <1>5, <1>7, RewindIs
<1>9. Left(r) = n + m
  BY <1>1, <1>7, <1>8 DEF Left, Size
<1>10. n <= upto /\ \A i \in 1 .. n : buf.bytes[i] = bytes[(upto - n) + i]
  BY <1>1 DEF Carried
<1>11. ASSUME NEW i \in 1 .. n + m PROVE r.bytes[i] = bytes[(upto - n) + i]
  <2>1. CASE i <= n
    BY <1>1, <1>7, <1>8, <1>10, <2>1
  <2>2. CASE i > n
    <3>1. i - n \in 1 .. m /\ n + (i - n) = i /\ upto + (i - n) = (upto - n) + i
      BY <1>1, <2>2
    <3>2. r.bytes[n + (i - n)] = more[i - n]
      BY <1>7, <1>8, <3>1
    <3>3. more[i - n] = bytes[upto + (i - n)]
      BY <3>1 DEF m
    <3> QED
      BY <3>1, <3>2, <3>3
  <2> QED
    BY <1>1, <2>1, <2>2
<1>12. (upto + m) - (n + m) = upto - n
  BY <1>1
<1>13. \A i \in 1 .. Left(r) : r.bytes[r.readpos + i] = bytes[((upto + m) - Left(r)) + i]
  BY <1>1, <1>8, <1>9, <1>11, <1>12
<1>14. n + m <= MaxBufferSize
  BY DEF Size, n, m
<1>15. r.readpos <= Len(r.bytes) /\ Len(r.bytes) <= MaxBufferSize /\ Left(r) <= upto + m
  BY <1>1, <1>7, <1>8, <1>9, <1>10, <1>14
<1> QED
  BY <1>1, <1>8, <1>9, <1>13, <1>15 DEF Carried, r, m

(* What is sent later does not change what was sent.                       *)
LEMMA LongerCarries ==
  ASSUME NEW buf, NEW bytes, NEW upto \in Nat, Carried(buf, bytes, upto),
         NEW longer, \A i \in 1 .. upto : longer[i] = bytes[i]
  PROVE  Carried(buf, longer, upto)
<1>1. Left(buf) \in Nat /\ Left(buf) <= upto
  BY LeftIsNat DEF Carried
<1>2. ASSUME NEW i \in 1 .. Left(buf)
      PROVE  (upto - Left(buf)) + i \in 1 .. upto
  BY <1>1
<1> QED
  BY <1>2 DEF Carried

-----------------------------------------------------------------------------
(* The invariant.  What it says of the messages holds as long as nothing   *)
(* happened that framing may not survive.                                  *)

Sound == faults \subseteq {"late"}

(* In every state: the codec is a proper one, and the next session finds   *)
(* in its read cache the state that a codec left there.                    *)
Settled ==
  /\ IsMessageCodec(codec) \/ IsStringCodec(codec)
  /\ IsRecord(cache) /\ cache.state \in {STATE_WAIT_FOR_HEADER, STATE_WAIT_FOR_BODY}
  /\ step \in {"idle", "extract", "stopped"}

(* How far the stream has arrived, and how far it was read.                *)
Arrived == Len(stream) - Len(wire)
ReadTo == Arrived - Left(round)

(* The types of what a session's bytes go through.                         *)
Typed ==
  /\ IsBuffer(cache)
  /\ sent \in Seq(Seq(Int)) /\ stream \in Seq(Int) /\ wire \in Seq(Int)
  /\ readlist \in Seq(Seq(Byte)) /\ handled \in Seq(Seq(Byte))

(* The stream is what was read, what waits in the session, what is on its  *)
(* way.                                                                    *)
InTransit ==
  /\ Len(wire) <= Len(stream) /\ \A i \in 1 .. Len(wire) : wire[i] = stream[Arrived + i]
  /\ step # "stopped" => Carried(round, stream, Arrived)
  /\ step = "idle" => round.readpos = 0

(* Records stay records, whatever a failed session left in them.           *)
LEMMA RecordsStay ==
  ASSUME NEW buf, IsRecord(buf), NEW size, NEW bytes
  PROVE  /\ IsRecord(Resize(buf, size)) /\ Resize(buf, size).state = buf.state
         /\ IsRecord(PutBuf(buf, bytes)) /\ PutBuf(buf, bytes).state = buf.state
         /\ IsRecord(Rewind(buf)) /\ Rewind(buf).state = buf.state
<1>1. ASSUME NEW b, IsRecord(b), NEW x, NEW y
      PROVE  /\ IsRecord([b EXCEPT !.bytes = x]) /\ [b EXCEPT !.bytes = x].state = b.state
             /\ IsRecord([b EXCEPT !.writepos = y]) /\ [b EXCEPT !.writepos = y].state = b.state
             /\ IsRecord([b EXCEPT !.readpos = y]) /\ [b EXCEPT !.readpos = y].state = b.state
  <2>1. [b EXCEPT !.bytes = x] =
          [bytes |-> x, readpos |-> b.readpos, writepos |-> b.writepos, state |-> b.state, flag |-> b.flag]
    BY <1>1 DEF IsRecord
  <2>2. [b EXCEPT !.writepos = y] =
          [bytes |-> b.bytes, readpos |-> b.readpos, writepos |-> y, state |-> b.state, flag |-> b.flag]
    BY <1>1 DEF IsRecord
  <2>3. [b EXCEPT !.readpos = y] =
          [bytes |-> b.bytes, readpos |-> y, writepos |-> b.writepos, state |-> b.state, flag |-> b.flag]
    BY <1>1 DEF IsRecord
  <2> QED
    BY <2>1, <2>2, <2>3 DEF IsRecord
<1>2. IsRecord(Resize(buf, size)) /\ Resize(buf, size).state = buf.state
  BY <1>1 DEF Resize
<1>3. IsRecord(PutBuf(buf, bytes)) /\ PutBuf(buf, bytes).state = buf.state
  <2> DEFINE x == [i \in 1 .. Size(buf) |->
                     IF i \in buf.writepos + 1 .. buf.writepos + Len(bytes) THEN bytes[i - buf.writepos]
                     ELSE buf.bytes[i]]
             y == buf.writepos + Len(bytes)
  <2>1. IsRecord([buf EXCEPT !.bytes = x]) /\ [buf EXCEPT !.bytes = x].state = buf.state
    BY <1>1
  <2>2. PutBuf(buf, bytes) = IF y > Size(buf) THEN buf ELSE [[buf EXCEPT !.bytes = x] EXCEPT !.writepos = y]
    BY DEF PutBuf
  <2> DEFINE r == [buf EXCEPT !.bytes = x]
  <2> HIDE DEF x, y, r
  <2>3. IsRecord(r) /\ r.state = buf.state
    BY <2>1 DEF r
  <2>4. IsRecord([r EXCEPT !.writepos = y]) /\ [r EXCEPT !.writepos = y].state = buf.state
    BY <1>1, <2>3
  <2> QED
    BY <2>2, <2>4 DEF r
<1>4. IsRecord(Rewind(buf)) /\ Rewind(buf).state = buf.state
  <2>1. Rewind(buf) = [[buf EXCEPT !.readpos = 0] EXCEPT !.writepos = 0]
    BY DEF Rewind
  <2> DEFINE r == [buf EXCEPT !.readpos = 0]
  <2>2. IsRecord(r) /\ r.state = buf.state
    BY <1>1
  <2> HIDE DEF r
  <2>3. IsRecord([r EXCEPT !.writepos = 0]) /\ [r EXCEPT !.writepos = 0].state = buf.state
    BY <1>1, <2>2
  <2> QED
    BY <2>1, <2>3 DEF r
<1> QED
  BY <1>2, <1>3, <1>4

(* A codec marks its cache.                                                *)
LEMMA MarkedIs ==
  ASSUME NEW buf, IsRecord(buf), NEW s, NEW f
  PROVE  /\ IsRecord(Marked(buf, s, f)) /\ Marked(buf, s, f).state = s /\ Marked(buf, s, f).flag = f
         /\ Marked(buf, s, f).bytes = buf.bytes
         /\ Marked(buf, s, f).readpos = buf.readpos /\ Marked(buf, s, f).writepos = buf.writepos
<1>1. [buf EXCEPT !.state = s] =
        [bytes |-> buf.bytes, readpos |-> buf.readpos, writepos |-> buf.writepos, state |-> s, flag |-> buf.flag]
  BY DEF IsRecord
<1>2. Marked(buf, s, f) = [[buf EXCEPT !.state = s] EXCEPT !.flag = f]
  BY DEF Marked
<1> DEFINE r == [buf EXCEPT !.state = s]
<1>3. [r EXCEPT !.flag = f] =
        [bytes |-> r.bytes, readpos |-> r.readpos, writepos |-> r.writepos, state |-> r.state, flag |-> f]
  <2>1. r = [bytes |-> r.bytes, readpos |-> r.readpos, writepos |-> r.writepos, state |-> r.state, flag |-> r.flag]
    BY <1>1
  <2> HIDE DEF r
  <2> QED
    BY <2>1
<1>4. Marked(buf, s, f) =
        [bytes |-> buf.bytes, readpos |-> buf.readpos, writepos |-> buf.writepos, state |-> s, flag |-> f]
  BY <1>1, <1>2, <1>3
<1> QED
  BY <1>4 DEF IsRecord

(* So does the flag alone.                                                 *)
LEMMA FlagIsSet ==
  ASSUME NEW buf, IsRecord(buf), NEW f
  PROVE  LET r == [buf EXCEPT !.flag = f]
         IN  /\ IsRecord(r) /\ r.state = buf.state /\ r.flag = f
             /\ r.bytes = buf.bytes /\ r.readpos = buf.readpos /\ r.writepos = buf.writepos
<1>1. [buf EXCEPT !.flag = f] =
        [bytes |-> buf.bytes, readpos |-> buf.readpos, writepos |-> buf.writepos, state |-> buf.state, flag |-> f]
  BY DEF IsRecord
<1> QED
  BY <1>1 DEF IsRecord

(* Settled initially.                                                      *)
LEMMA SettledFirst == FramingInit => Settled
<1> SUFFICES ASSUME FramingInit PROVE Settled
  OBVIOUS
<1>1. IsRecord(NewBuffer(ReadBufferSize)) /\ NewBuffer(ReadBufferSize).state = 0
  BY Sizes, NewBufferIs DEF IsBuffer
<1>2. cache = Resize(NewBuffer(ReadBufferSize), 0) /\ step = "idle"
  BY DEF FramingInit
<1> QED
  BY <1>1, <1>2, FirstCodec, RecordsStay DEF Settled, STATE_WAIT_FOR_HEADER

(* Settled in every step.                                                  *)
LEMMA SettledStep == Settled /\ [FramingNext]_framingVars => Settled'
<1> SUFFICES ASSUME Settled, [FramingNext]_framingVars PROVE Settled'
  OBVIOUS
<1> DEFINE Keeps == IsRecord(cache') /\ cache'.state \in {STATE_WAIT_FOR_HEADER, STATE_WAIT_FOR_BODY}
           Stays == codec' = codec /\ step' \in {"idle", "extract", "stopped"}
<1>0. SUFFICES Keeps /\ Stays
  BY DEF Settled, IsMessageCodec, IsStringCodec
<1>1. CASE UNCHANGED framingVars
  BY <1>1 DEF framingVars, Settled
<1>2. ASSUME NEW n \in BodySizes, NEW tag \in {1, 2}, SendMessage(n, tag) PROVE Keeps /\ Stays
  BY <1>2 DEF SendMessage, Settled
<1>3. ASSUME NEW s \in Strings, SendString(s) PROVE Keeps /\ Stays
  BY <1>3 DEF SendString, Settled
<1>4. ASSUME NEW n \in 1 .. ReadBufferSize, OnReadBytes(n) PROVE Keeps /\ Stays
  BY <1>4 DEF OnReadBytes, Settled, talkVars
<1>5. CASE ExtractBody
  <2>1. Stays /\ (cache' = cache \/ cache' = Rewind(Marked(cache, STATE_WAIT_FOR_HEADER, 0)))
    BY <1>5 DEF ExtractBody, ExtractReturns, talkVars, Settled
  <2> DEFINE r == Marked(cache, STATE_WAIT_FOR_HEADER, 0)
  <2>2. IsRecord(r) /\ r.state = STATE_WAIT_FOR_HEADER
    BY MarkedIs DEF Settled
  <2> HIDE DEF r
  <2>3. IsRecord(Rewind(r)) /\ Rewind(r).state = STATE_WAIT_FOR_HEADER
    BY <2>2, RecordsStay
  <2> QED
    BY <2>1, <2>3 DEF Settled, r
<1>6. CASE ExtractHeader
  <2> DEFINE c == CacheHeader(cache)
             n == BodySize(codec, round)
             wide == Resize(c, codec.headersize + n)
  <2>1. IsRecord(c) /\ c.state = cache.state
    <3> DEFINE r == Resize(cache, codec.headersize)
    <3>1. IsRecord(r) /\ r.state = cache.state
      BY RecordsStay DEF Settled
    <3> HIDE DEF r
    <3>2. IsRecord(Rewind(r)) /\ Rewind(r).state = cache.state
      BY <3>1, RecordsStay
    <3>3. c = PutBuf(Rewind(r), HeaderBytes)
      BY DEF CacheHeader, r
    <3> QED
      BY <3>2, <3>3, RecordsStay
  <2> HIDE DEF c
  <2>2. IsRecord(wide) /\ wide.state = cache.state
    BY <2>1, RecordsStay
  <2>3. /\ Stays
        /\ \/ cache' = c \/ cache' = wide
           \/ cache' = Marked(wide, STATE_WAIT_FOR_BODY, n)
           \/ cache' = Rewind([c EXCEPT !.flag = 0])
    BY <1>6 DEF ExtractHeader, ExtractReturns, talkVars, Settled, c
  <2> HIDE DEF wide, n
  <2> DEFINE body == Marked(wide, STATE_WAIT_FOR_BODY, n)
             none == [c EXCEPT !.flag = 0]
  <2>4. IsRecord(body) /\ body.state = STATE_WAIT_FOR_BODY
    BY <2>2, MarkedIs
  <2>5. IsRecord(none) /\ none.state = cache.state
    BY <2>1, FlagIsSet
  <2> HIDE DEF body, none
  <2>6. IsRecord(Rewind(none)) /\ Rewind(none).state = cache.state
    BY <2>5, RecordsStay
  <2> QED
    BY <2>1, <2>2, <2>3, <2>4, <2>6 DEF Settled, body, none
<1>7. CASE ExtractMessageEnd \/ ExtractStringEnd
  BY <1>7 DEF ExtractMessageEnd, ExtractStringEnd, ExtractReturns, talkVars, Settled
<1>8. CASE ExtractChar
  <2> DEFINE longer == PutByte(Resize(cache, Size(cache) + 1), GetByte(round))
  <2>1. IsRecord(longer) /\ longer.state = cache.state
    BY RecordsStay DEF Settled, PutByte
  <2>2. ASSUME NEW c, IsRecord(c), c.state = cache.state
        PROVE  IsRecord(Emptied(c)) /\ Emptied(c).state = cache.state
    <3> DEFINE r == Resize(c, 0)
               e == [r EXCEPT !.flag = 0]
    <3>1. IsRecord(r) /\ r.state = cache.state
      BY <2>2, RecordsStay
    <3> HIDE DEF r
    <3>2. IsRecord(e) /\ e.state = cache.state
      BY <3>1, FlagIsSet
    <3> HIDE DEF e
    <3>3. Emptied(c) = Rewind(e)
      BY DEF Emptied, e, r
    <3> QED
      BY <3>2, <3>3, RecordsStay
  <2> HIDE DEF longer
  <2>3. /\ Stays
        /\ \/ cache' = cache \/ cache' = longer
           \/ cache' = Emptied(cache) \/ cache' = Emptied(longer)
    BY <1>8 DEF ExtractChar, DeliverString, ExtractReturns, talkVars, Settled, longer
  <2> QED
    BY <2>1, <2>2, <2>3 DEF Settled
<1>9. CASE Handle
  BY <1>9 DEF Handle, Settled
<1>10. CASE NextSession
  <2>1. PICK c \in {NewBuffer(ReadBufferSize), Rewind(cache)} : cache' = Resize(c, 0)
    BY <1>10 DEF NextSession
  <2>2. IsRecord(c) /\ c.state \in {STATE_WAIT_FOR_HEADER, STATE_WAIT_FOR_BODY}
    BY <2>1, NewBufferIs, Sizes, RecordsStay DEF IsBuffer, Settled, STATE_WAIT_FOR_HEADER
  <2>3. Stays
    BY <1>10 DEF NextSession
  <2> QED
    BY <2>1, <2>2, <2>3, RecordsStay
<1> QED
  BY <1>1, <1>2, <1>3, <1>4, <1>5, <1>6, <1>7, <1>8, <1>9, <1>10 DEF FramingNext

-----------------------------------------------------------------------------
(* Messages.                                                               *)

(* One after the other the messages make up the stream; the i-th ends at   *)
(* off[i].                                                                 *)
Laid(off) ==
  /\ off \in [0 .. Len(sent) -> Nat] /\ off[0] = 0 /\ off[Len(sent)] = Len(stream)
  /\ \A i \in 1 .. Len(sent) :
       /\ WellFramed(codec, sent[i])
       /\ off[i] = off[i - 1] + Len(sent[i]) /\ off[i] <= Len(stream)
       /\ \A j \in 1 .. Len(sent[i]) : stream[off[i - 1] + j] = sent[i][j]

(* The first messages were received.                                       *)
Whole ==
  /\ Len(Received) <= Len(sent)
  /\ \A i \in 1 .. Len(Received) : Received[i] = sent[i]

(* The next one begins where the codec reads, or its header is cached and  *)
(* its body begins there.                                                  *)
NextIsRead(off) ==
  LET k == Len(Received)
  IN  IF cache.state = STATE_WAIT_FOR_HEADER THEN ReadTo = off[k]
      ELSE /\ k < Len(sent) /\ ReadTo = off[k] + codec.headersize
           /\ cache.flag = BodySize(codec, Plain(sent[k + 1])) /\ cache.flag > 0
           /\ Len(cache.bytes) = codec.headersize + cache.flag
           /\ \A i \in 1 .. codec.headersize : cache.bytes[i] = sent[k + 1][i]

(* Nothing can be extracted.                                               *)
Drained ==
  IF cache.state = STATE_WAIT_FOR_BODY THEN ~BodyComplete(round) ELSE Left(round) < codec.headersize

(* The invariant of a session with a message codec.                        *)
MessageInv(off) ==
  /\ Laid(off) /\ Whole
  /\ step # "stopped" => NextIsRead(off)
  /\ step = "idle" /\ faults = {} => Drained

(* The states of the codec are two.                                        *)
LEMMA TwoStates == STATE_WAIT_FOR_HEADER # STATE_WAIT_FOR_BODY
BY DEF STATE_WAIT_FOR_HEADER, STATE_WAIT_FOR_BODY

(* What the receiver got, as a sequence.                                   *)
LEMMA SeenIs ==
  ASSUME NEW messages \in Seq(Seq(Byte))
  PROVE  /\ Seen(messages) \in Seq(Seq(Byte)) /\ Len(Seen(messages)) = Len(messages)
         /\ \A i \in 1 .. Len(messages) : Seen(messages)[i] = Shown(messages[i])
<1>1. ASSUME NEW s \in Seq(Byte) PROVE Shown(s) \in Seq(Byte)
  BY DEF Shown, Terminated, Byte
<1>2. DOMAIN messages = 1 .. Len(messages) /\ Len(messages) \in Nat
  OBVIOUS
<1>3. \A i \in 1 .. Len(messages) : Shown(messages[i]) \in Seq(Byte)
  BY <1>1
<1> DEFINE n == Len(messages)
           seen == [k \in 1 .. n |-> Shown(messages[k])]
<1>4. Seen(messages) = seen
  BY <1>2 DEF Seen
<1>5. seen \in [1 .. n -> Seq(Byte)] /\ \A i \in 1 .. n : seen[i] = Shown(messages[i])
  BY <1>3
<1> HIDE DEF seen, n
<1>6. n \in Nat
  BY <1>2 DEF n
<1>7. seen \in Seq(Seq(Byte)) /\ Len(seen) = n
  BY <1>5, <1>6
<1> QED
  BY <1>4, <1>5, <1>7 DEF n

(* The messages received are byte sequences.                               *)
LEMMA ReceivedIs ==
  ASSUME Typed
  PROVE  /\ Received \in Seq(Seq(Byte)) /\ Len(Received) \in Nat
         /\ Len(Received) = Len(handled) + Len(readlist)
<1>1. Seen(readlist) \in Seq(Seq(Byte)) /\ Len(Seen(readlist)) = Len(readlist) /\ handled \in Seq(Seq(Byte))
  BY SeenIs DEF Typed
<1> DEFINE seen == Seen(readlist)
           S == Seq(Byte)
<1>2. seen \in Seq(S) /\ handled \in Seq(S)
  BY <1>1
<1> HIDE DEF seen, S
<1>3. /\ handled \o seen \in Seq(S) /\ Len(handled \o seen) = Len(handled) + Len(seen)
      /\ Len(handled \o seen) \in Nat
  BY <1>2
<1> QED
  BY <1>1, <1>3 DEF Received, seen, S

(* A message delivered is received.                                        *)
LEMMA DeliverReceives ==
  ASSUME Typed, NEW bytes \in Seq(Byte), readlist' = Append(readlist, bytes), handled' = handled, codec' = codec
  PROVE  /\ Received' = Append(Received, Shown(bytes))
         /\ readlist' \in Seq(Seq(Byte))
<1>1. readlist' \in Seq(Seq(Byte)) /\ readlist \in Seq(Seq(Byte)) /\ handled \in Seq(Seq(Byte))
  BY DEF Typed
<1>2. \A s : Shown(s)' = Shown(s)
  BY DEF Shown, IsMessage, Terminated
<1>3. Seen(readlist)' = Append(Seen(readlist), Shown(bytes))
  <2> DEFINE n == Len(readlist)
             old == Seen(readlist)
             new == Seen(readlist)'
  <2>1. new = [k \in DOMAIN readlist' |-> Shown(readlist'[k])]
    BY <1>2 DEF Seen, Shown, IsMessage, Terminated
  <2>2. new = Seen(readlist')
    BY <2>1 DEF Seen
  <2>3. /\ old \in Seq(Seq(Byte)) /\ Len(old) = n /\ \A i \in 1 .. n : old[i] = Shown(readlist[i])
        /\ Seen(readlist') \in Seq(Seq(Byte)) /\ Len(Seen(readlist')) = n + 1
        /\ \A i \in 1 .. n + 1 : Seen(readlist')[i] = Shown(readlist'[i])
    <3>1. /\ old \in Seq(Seq(Byte)) /\ Len(old) = n /\ \A i \in 1 .. n : old[i] = Shown(readlist[i])
      BY <1>1, SeenIs
    <3>2. /\ Seen(readlist') \in Seq(Seq(Byte)) /\ Len(Seen(readlist')) = Len(readlist')
          /\ \A i \in 1 .. Len(readlist') : Seen(readlist')[i] = Shown(readlist'[i])
      BY <1>1, SeenIs
    <3>3. Len(readlist') = n + 1
      BY <1>1
    <3> QED
      BY <3>1, <3>2, <3>3
  <2>4. \A i \in 1 .. n : readlist'[i] = readlist[i]
    BY <1>1
  <2>5. readlist'[n + 1] = bytes /\ n \in Nat
    BY <1>1
  <2> HIDE DEF old, new, n
  <2>6. Shown(bytes) \in Seq(Byte)
    BY DEF Shown, Terminated, Byte
  <2>7. Len(Append(old, Shown(bytes))) = n + 1 /\ Append(old, Shown(bytes)) \in Seq(Seq(Byte))
    BY <2>3, <2>5, <2>6
  <2>8. ASSUME NEW i \in 1 .. n + 1 PROVE new[i] = Append(old, Shown(bytes))[i]
    <3>1. CASE i = n + 1
      <4>1. Append(old, Shown(bytes))[n + 1] = Shown(bytes)
        BY <2>3, <2>6
      <4>2. n + 1 \in 1 .. n + 1
        BY <2>5
      <4> QED
        BY <2>2, <2>3, <2>5, <3>1, <4>1, <4>2
    <3>2. CASE i \in 1 .. n
      <4>1. Append(old, Shown(bytes))[i] = old[i]
        BY <2>3, <2>6, <3>2
      <4> QED
        BY <2>2, <2>3, <2>4, <2>5, <3>2, <4>1
    <3>3. i = n + 1 \/ i \in 1 .. n
      BY <2>5
    <3> QED
      BY <3>1, <3>2, <3>3
  <2> QED
    BY <2>2, <2>3, <2>7, <2>8 DEF old, new
<1>4. Seen(readlist) \in Seq(Seq(Byte))
  BY <1>1, SeenIs
<1>5. handled \o Append(Seen(readlist), Shown(bytes)) = Append(handled \o Seen(readlist), Shown(bytes))
  BY <1>1, <1>4
<1> QED
  BY <1>1, <1>3, <1>5 DEF Received

(* Receiving stays as it is.                                               *)
LEMMA ReceivedStays == UNCHANGED <<handled, readlist, codec>> => Received' = Received
BY DEF Received, Seen, Shown, IsMessage, Terminated

(* A piece of a sequence.                                                  *)
LEMMA PieceIs ==
  ASSUME NEW S, NEW s \in Seq(S), NEW a \in Nat, NEW d \in Nat, a + d <= Len(s)
  PROVE  /\ SubSeq(s, a + 1, a + d) \in Seq(S) /\ Len(SubSeq(s, a + 1, a + d)) = d
         /\ \A i \in 1 .. d : SubSeq(s, a + 1, a + d)[i] = s[a + i]
<1>1. CASE d = 0
  BY <1>1
<1>2. CASE d > 0
  <2>1. a + 1 \in 1 .. Len(s) + 1 /\ a + d \in 0 .. Len(s) /\ (a + d) - (a + 1) + 1 = d
    BY <1>2
  <2>2. SubSeq(s, a + 1, a + d) \in Seq(S) /\ Len(SubSeq(s, a + 1, a + d)) = d
    BY <1>2, <2>1
  <2>3. ASSUME NEW i \in 1 .. d PROVE SubSeq(s, a + 1, a + d)[i] = s[a + i]
    BY <1>2, <2>1
  <2> QED
    BY <2>2, <2>3
<1> QED
  BY <1>1, <1>2

(* Pieces of sequences that agree.                                         *)
LEMMA SamePieces ==
  ASSUME NEW S, NEW s \in Seq(S), NEW t \in Seq(S), NEW a \in Nat, NEW e \in Nat,
         a <= e, e <= Len(s), e <= Len(t), \A i \in 1 .. e : s[i] = t[i]
  PROVE  SubSeq(s, a + 1, e) = SubSeq(t, a + 1, e)
<1>1. PICK d \in Nat : e = a + d
  <2>1. e - a \in Nat /\ e = a + (e - a)
    OBVIOUS
  <2> QED
    BY <2>1
<1> DEFINE x == SubSeq(s, a + 1, a + d)
           y == SubSeq(t, a + 1, a + d)
<1>2. x \in Seq(S) /\ Len(x) = d /\ \A i \in 1 .. d : x[i] = s[a + i]
  BY <1>1, PieceIs
<1>3. y \in Seq(S) /\ Len(y) = d /\ \A i \in 1 .. d : y[i] = t[a + i]
  BY <1>1, PieceIs
<1>4. \A i \in 1 .. d : s[a + i] = t[a + i]
  BY <1>1
<1> HIDE DEF x, y
<1>5. x = y
  <2>1. Len(x) = Len(y) /\ \A i \in 1 .. Len(x) : x[i] = y[i]
    BY <1>2, <1>3, <1>4
  <2> QED
    BY <1>2, <1>3, <2>1
<1> QED
  BY <1>1, <1>5 DEF x, y

(* How much has arrived, and how much was read.                            *)
LEMMA PositionsAre ==
  ASSUME Typed, InTransit, step # "stopped"
  PROVE  /\ Arrived \in Nat /\ Arrived <= Len(stream) /\ Len(stream) \in Nat /\ Len(wire) \in Nat
         /\ Left(round) \in Nat /\ ReadTo \in Nat /\ ReadTo + Left(round) = Arrived
         /\ \A i \in 1 .. Left(round) : round.bytes[round.readpos + i] = stream[ReadTo + i]
<1>1. Len(stream) \in Nat /\ Len(wire) \in Nat /\ Len(wire) <= Len(stream)
  BY DEF Typed, InTransit
<1>2. Left(round) \in Nat /\ Left(round) <= Arrived
  BY LeftIsNat DEF InTransit, Carried
<1>3. Arrived \in Nat /\ Arrived <= Len(stream)
  BY <1>1 DEF Arrived
<1>4. \A i \in 1 .. Left(round) : round.bytes[round.readpos + i] = stream[(Arrived - Left(round)) + i]
  BY DEF InTransit, Carried
<1> QED
  BY <1>1, <1>2, <1>3, <1>4 DEF ReadTo

(* A step that reads d bytes, and one that then keeps the rest.            *)
LEMMA Advances ==
  ASSUME Typed, InTransit, step # "stopped", UNCHANGED <<stream, wire>>, NEW d \in Nat, d <= Left(round),
         \/ round' = [round EXCEPT !.readpos = @ + d] /\ step' = "extract"
         \/ round' = Leftover([round EXCEPT !.readpos = @ + d], FALSE) /\ step' = "idle"
         \/ d = 0 /\ round' = Leftover(round, FALSE) /\ step' = "idle"
  PROVE  InTransit' /\ ReadTo' = ReadTo + d /\ Left(round') = Left(round) - d
<1>1. Arrived \in Nat /\ Arrived' = Arrived /\ Left(round) \in Nat
  BY PositionsAre DEF Arrived
<1> DEFINE r == [round EXCEPT !.readpos = @ + d]
<1>2. Carried(round, stream, Arrived)
  BY DEF InTransit
<1>3. Carried(r, stream, Arrived) /\ Left(r) = Left(round) - d
  BY <1>1, <1>2, AdvanceCarries
<1> HIDE DEF r
<1>4. /\ Carried(round', stream, Arrived) /\ Left(round') = Left(round) - d
      /\ step' = "idle" => round'.readpos = 0
      /\ step' # "stopped"
  <2>1. CASE round' = r /\ step' = "extract"
    BY <1>3, <2>1
  <2>2. CASE round' = Leftover(r, FALSE) /\ step' = "idle"
    BY <1>1, <1>3, <2>2, LeftoverCarries
  <2>3. CASE d = 0 /\ round' = Leftover(round, FALSE) /\ step' = "idle"
    <3>1. Carried(Leftover(round, FALSE), stream, Arrived) /\ Left(Leftover(round, FALSE)) = Left(round)
          /\ Leftover(round, FALSE).readpos = 0
      BY <1>1, <1>2, LeftoverCarries
    <3>2. Left(round) - d = Left(round)
      BY <1>1, <2>3
    <3> QED
      BY <2>3, <3>1, <3>2
  <2> QED
    BY <2>1, <2>2, <2>3 DEF r
<1>5. InTransit'
  BY <1>1, <1>4 DEF InTransit
<1>6. ReadTo' = ReadTo + d
  BY <1>1, <1>4 DEF ReadTo
<1> QED
  BY <1>4, <1>5, <1>6

(* A message not received yet begins where the last one received ends.     *)
LEMMA NextBegins ==
  ASSUME IsMessage, IsMessageCodec(codec), Typed, NEW off, Laid(off), NEW k \in Nat, k <= Len(sent)
  PROVE  /\ off[k] \in Nat /\ off[k] <= Len(stream) /\ codec.headersize \in Nat \ {0}
         /\ k = Len(sent) => off[k] = Len(stream)
         /\ k < Len(sent) => LET m == sent[k + 1] IN
              /\ WellFramed(codec, m) /\ m \in Seq(Int) /\ Len(m) \in Nat /\ Len(m) >= codec.headersize
              /\ off[k + 1] = off[k] + Len(m) /\ off[k + 1] <= Len(stream)
              /\ \A j \in 1 .. Len(m) : stream[off[k] + j] = m[j]
<1>1. off[k] \in Nat /\ codec.headersize \in Nat \ {0} /\ Len(sent) \in Nat
  BY DEF Laid, IsMessageCodec, Typed
<1>2. off[k] <= Len(stream)
  BY <1>1 DEF Laid, Typed
<1>3. ASSUME k < Len(sent)
      PROVE  LET m == sent[k + 1] IN
              /\ WellFramed(codec, m) /\ m \in Seq(Int) /\ Len(m) \in Nat /\ Len(m) >= codec.headersize
              /\ off[k + 1] = off[k] + Len(m) /\ off[k + 1] <= Len(stream)
              /\ \A j \in 1 .. Len(m) : stream[off[k] + j] = m[j]
  <2>1. k + 1 \in 1 .. Len(sent) /\ (k + 1) - 1 = k
    BY <1>1, <1>3
  <2>2. /\ WellFramed(codec, sent[k + 1])
        /\ off[k + 1] = off[k] + Len(sent[k + 1]) /\ off[k + 1] <= Len(stream)
        /\ \A j \in 1 .. Len(sent[k + 1]) : stream[off[k] + j] = sent[k + 1][j]
    BY <2>1 DEF Laid
  <2>3. sent[k + 1] \in Seq(Int) /\ Len(sent[k + 1]) >= codec.headersize
    BY <1>1, <2>2 DEF WellFramed
  <2> QED
    BY <2>2, <2>3
<1> QED
  BY <1>1, <1>2, <1>3 DEF Laid

(* A header that has arrived is that of the next message.                  *)
LEMMA HeaderArrives ==
  ASSUME IsMessage, IsMessageCodec(codec), Typed, InTransit, step # "stopped", NEW off, Laid(off), Whole,
         NextIsRead(off), cache.state = STATE_WAIT_FOR_HEADER, Left(round) >= codec.headersize
  PROVE  LET k == Len(Received)
             m == sent[k + 1]
         IN  /\ k \in Nat /\ k < Len(sent) /\ ReadTo = off[k]
             /\ BodySize(codec, round) = BodySize(codec, Plain(m))
             /\ HeaderBytes \in Seq(Byte) /\ Len(HeaderBytes) = codec.headersize
             /\ \A i \in 1 .. codec.headersize : HeaderBytes[i] = m[i]
<1> DEFINE k == Len(Received)
           m == sent[k + 1]
           h == codec.headersize
<1>1. k \in Nat /\ k <= Len(sent) /\ ReadTo = off[k]
  BY ReceivedIs DEF Whole, NextIsRead
<1> HIDE DEF k
<1>2. h \in Nat \ {0} /\ off[k] \in Nat
  BY <1>1, NextBegins
<1>3. k < Len(sent)
  <2> SUFFICES ASSUME k = Len(sent) PROVE FALSE
    BY <1>1 DEF Typed
  <2>1. off[k] = Len(stream)
    BY <1>1, NextBegins
  <2> QED
    BY <1>1, <1>2, <2>1, PositionsAre
<1>4. /\ WellFramed(codec, m) /\ m \in Seq(Int) /\ Len(m) >= h
      /\ \A j \in 1 .. Len(m) : stream[off[k] + j] = m[j]
  BY <1>1, <1>3, NextBegins
<1> HIDE DEF m
<1>5. IsBuffer(round) /\ round.readpos \in Nat /\ Left(round) + round.readpos = Len(round.bytes) /\ Left(round) \in Nat
  BY LeftIsNat DEF InTransit, Carried
<1>6. \A i \in 1 .. h : round.bytes[round.readpos + i] = m[i]
  <2> SUFFICES ASSUME NEW i \in 1 .. h PROVE round.bytes[round.readpos + i] = m[i]
    OBVIOUS
  <2>1. i \in 1 .. Left(round) /\ i \in 1 .. Len(m)
    <3>1. Len(m) \in Nat
      BY <1>4
    <3> QED
      BY <1>2, <1>4, <1>5, <3>1
  <2>2. round.bytes[round.readpos + i] = stream[ReadTo + i]
    BY <2>1, PositionsAre
  <2> QED
    BY <1>1, <1>4, <2>1, <2>2
<1>7. BodySize(codec, round) = BodySize(codec, Plain(m))
  BY <1>4, <1>5, <1>6, BodySizeIsLocal DEF WellFramed
<1>8. /\ HeaderBytes \in Seq(Byte) /\ Len(HeaderBytes) = h
      /\ \A i \in 1 .. h : HeaderBytes[i] = round.bytes[round.readpos + i]
  <2>1. round.bytes \in Seq(Byte) /\ round.readpos + h <= Len(round.bytes)
    BY <1>2, <1>5 DEF IsBuffer
  <2> QED
    <3> DEFINE s == round.bytes
               a == round.readpos
    <3>1. s \in Seq(Byte) /\ a \in Nat /\ h \in Nat /\ a + h <= Len(s)
      BY <1>2, <1>5, <2>1
    <3>2. HeaderBytes = SubSeq(s, a + 1, a + h)
      BY DEF HeaderBytes
    <3> HIDE DEF s, a, h
    <3>3. /\ SubSeq(s, a + 1, a + h) \in Seq(Byte) /\ Len(SubSeq(s, a + 1, a + h)) = h
          /\ \A i \in 1 .. h : SubSeq(s, a + 1, a + h)[i] = s[a + i]
      BY <3>1, PieceIs
    <3> QED
      BY <3>2, <3>3 DEF s, a
<1> QED
  BY <1>1, <1>3, <1>6, <1>7, <1>8 DEF k, m

(* It is cached.                                                           *)
LEMMA HeaderIsCached ==
  ASSUME NEW h \in Nat, h = codec.headersize, h <= MaxBufferSize, IsBuffer(cache),
         HeaderBytes \in Seq(Byte), Len(HeaderBytes) = h
  PROVE  LET c == CacheHeader(cache)
         IN  /\ IsBuffer(c) /\ Len(c.bytes) = h /\ c.state = cache.state
             /\ \A i \in 1 .. h : c.bytes[i] = HeaderBytes[i]
<1> DEFINE wide == Resize(cache, h)
           at == Rewind(wide)
<1>1. IsBuffer(wide) /\ Len(wide.bytes) = h /\ wide.state = cache.state
  BY ResizeIs, Sizes DEF Smaller
<1> HIDE DEF wide
<1>2. IsBuffer(at) /\ Len(at.bytes) = h /\ at.writepos = 0 /\ at.state = cache.state
  BY <1>1, RewindIs
<1>3. CacheHeader(cache) = PutBuf(at, HeaderBytes)
  BY DEF CacheHeader, wide
<1> HIDE DEF at
<1>4. at.writepos + Len(HeaderBytes) <= Len(at.bytes)
  BY <1>2
<1>5. /\ IsBuffer(PutBuf(at, HeaderBytes)) /\ Len(PutBuf(at, HeaderBytes).bytes) = h
      /\ PutBuf(at, HeaderBytes).state = cache.state
      /\ \A i \in 1 .. h : PutBuf(at, HeaderBytes).bytes[at.writepos + i] = HeaderBytes[i]
  BY <1>2, <1>4, PutBufIs
<1>6. \A i \in 1 .. h : at.writepos + i = i
  BY <1>2
<1> QED
  BY <1>3, <1>5, <1>6

(* What is assumed of the state before a step, and what holds after it.    *)
MessageState(off) ==
  /\ IsMessage /\ IsMessageCodec(codec) /\ Settled /\ Typed /\ InTransit /\ MessageInv(off)
MessagesGoOn == Typed' /\ InTransit' /\ \E o \in [0 .. Len(sent') -> Nat] : MessageInv(o)'

(* The messages stay laid as they are while none is sent.                  *)
LEMMA LaidStays ==
  ASSUME NEW off, Laid(off), UNCHANGED <<sent, stream, codec>>
  PROVE  Laid(off)' /\ off \in [0 .. Len(sent') -> Nat]
BY DEF Laid

(* What was received stays received.                                       *)
LEMMA WholeStays ==
  ASSUME Whole, UNCHANGED <<sent, handled, readlist, codec>>
  PROVE  Whole' /\ Len(Received') = Len(Received)
BY ReceivedStays DEF Whole

(* The next message is received.                                           *)
LEMMA NextIsReceived ==
  ASSUME IsMessage, Typed, Whole, UNCHANGED <<sent, handled, codec>>, Len(Received) < Len(sent),
         NEW bytes, bytes = sent[Len(Received) + 1], readlist' = Append(readlist, bytes)
  PROVE  Whole' /\ Len(Received') = Len(Received) + 1 /\ readlist' \in Seq(Seq(Byte))
<1> DEFINE k == Len(Received)
<1>1. k \in Nat /\ Received \in Seq(Seq(Byte)) /\ Len(sent) \in Nat
  BY ReceivedIs DEF Typed
<1>2. bytes \in Seq(Byte)
  <2>1. sent[k + 1] \in Seq(Int)
    BY <1>1 DEF Typed
  <2>2. ASSUME NEW s \in Seq(Int) PROVE s \in Seq(Byte)
    BY DEF Byte
  <2> QED
    BY <2>1, <2>2
<1>3. Received' = Append(Received, bytes) /\ readlist' \in Seq(Seq(Byte))
  BY <1>2, DeliverReceives DEF Shown
<1>4. ASSUME NEW S, NEW r \in Seq(S), NEW b \in S
      PROVE  /\ Len(Append(r, b)) = Len(r) + 1 /\ Append(r, b)[Len(r) + 1] = b
             /\ \A i \in 1 .. Len(r) : Append(r, b)[i] = r[i]
  OBVIOUS
<1>5. /\ Len(Received') = k + 1 /\ Received'[k + 1] = bytes
      /\ \A i \in 1 .. k : Received'[i] = Received[i]
  BY <1>1, <1>2, <1>3, <1>4
<1>6. \A i \in 1 .. k : Received[i] = sent[i]
  BY DEF Whole
<1> HIDE DEF k
<1>7. ASSUME NEW i \in 1 .. k + 1 PROVE Received'[i] = sent[i]
  <2>1. i \in 1 .. k \/ i = k + 1
    BY <1>1, <1>5
  <2> QED
    BY <1>1, <1>5, <1>6, <2>1 DEF k
<1>8. k + 1 <= Len(sent)
  BY <1>1 DEF k
<1> QED
  BY <1>3, <1>5, <1>7, <1>8 DEF Whole, k

(* A header is read; what it says of its body decides what is next.        *)
LEMMA HeaderStep ==
  ASSUME NEW off, MessageState(off), ExtractHeader, Sound, Sound'
  PROVE  MessagesGoOn
<1> USE DEF MessageState
<1> DEFINE k == Len(Received)
           m == sent[k + 1]
           h == codec.headersize
           n == BodySize(codec, round)
           after == [round EXCEPT !.readpos = @ + h]
<1>1. /\ step = "extract" /\ cache.state = STATE_WAIT_FOR_HEADER /\ Left(round) >= h
      /\ UNCHANGED <<sent, stream, handled, session, codec, wire>>
  BY DEF ExtractHeader, talkVars
<1>2. Laid(off) /\ Whole /\ NextIsRead(off)
  BY <1>1 DEF MessageInv
<1>3. /\ k \in Nat /\ k < Len(sent) /\ ReadTo = off[k] /\ n = BodySize(codec, Plain(m))
      /\ HeaderBytes \in Seq(Byte) /\ Len(HeaderBytes) = h /\ \A i \in 1 .. h : HeaderBytes[i] = m[i]
  BY <1>1, <1>2, HeaderArrives
<1>4. /\ h \in Nat \ {0} /\ WellFramed(codec, m) /\ m \in Seq(Int) /\ off[k] \in Nat
      /\ off[k + 1] = off[k] + Len(m)
  BY <1>1, <1>2, <1>3, NextBegins DEF Typed
<1>5. n \in Nat /\ Len(m) = h + n /\ (n > 0 => n <= codec.maxbodysize /\ h + n <= MaxBufferSize)
  BY <1>3, <1>4 DEF WellFramed
<1>6. h <= MaxBufferSize
  <2>1. Left(round) + round.readpos = Len(round.bytes) /\ Left(round) \in Nat /\ round.readpos \in Nat
        /\ Len(round.bytes) <= MaxBufferSize
    BY <1>1, LeftIsNat DEF InTransit, Carried
  <2> QED
    BY <1>1, <1>4, <2>1, Sizes
<1>7. /\ IsBuffer(CacheHeader(cache)) /\ Len(CacheHeader(cache).bytes) = h
      /\ CacheHeader(cache).state = cache.state
      /\ \A i \in 1 .. h : CacheHeader(cache).bytes[i] = m[i]
  BY <1>3, <1>4, <1>6, HeaderIsCached DEF Typed
<1>8. Laid(off)' /\ off \in [0 .. Len(sent') -> Nat]
  BY <1>1, <1>2, LaidStays
<1>9. CASE n > 0 /\ TooLarge(n)
  BY <1>5, <1>9, <1>4, Sizes DEF TooLarge, IsMessageCodec
<1>10. ASSUME n > 0, cache' = Marked(Resize(CacheHeader(cache), h + n), STATE_WAIT_FOR_BODY, n),
              round' = after, UNCHANGED <<step, readlist, failures, faults>>
       PROVE  MessagesGoOn
  <2> DEFINE wide == Resize(CacheHeader(cache), h + n)
  <2>1. IsBuffer(wide) /\ Len(wide.bytes) = h + n /\ \A i \in 1 .. h : wide.bytes[i] = m[i]
    <3>1. h + n \in Nat /\ Smaller(h + n, MaxBufferSize) = h + n
      BY <1>4, <1>5, <1>10, Sizes, SMTT(30) DEF Smaller
    <3>2. IsBuffer(wide) /\ Len(wide.bytes) = h + n
          /\ \A i \in 1 .. Len(wide.bytes) : i <= Len(CacheHeader(cache).bytes) => wide.bytes[i] = CacheHeader(cache).bytes[i]
      BY <1>7, <3>1, ResizeIs
    <3> HIDE DEF wide
    <3>3. ASSUME NEW i \in 1 .. h PROVE wide.bytes[i] = m[i]
      <4>1. i \in 1 .. h + n
        BY <1>4, <1>5
      <4> QED
        BY <1>4, <1>7, <3>2, <4>1
    <3> QED
      BY <3>2, <3>3
  <2>2. /\ IsBuffer(cache') /\ cache'.state = STATE_WAIT_FOR_BODY /\ cache'.flag = n
        /\ Len(cache'.bytes) = h + n /\ \A i \in 1 .. h : cache'.bytes[i] = m[i]
    <3> HIDE DEF wide
    <3>1. IsRecord(wide)
      BY <2>1 DEF IsBuffer
    <3>2. cache' = Marked(wide, STATE_WAIT_FOR_BODY, n)
      BY <1>10 DEF wide
    <3> QED
      BY <2>1, <3>1, <3>2, MarkedIs DEF IsBuffer
  <2>3. InTransit' /\ ReadTo' = ReadTo + h
    BY <1>1, <1>4, <1>10, Advances
  <2>4. Whole' /\ Len(Received') = k
    BY <1>1, <1>2, <1>10, WholeStays
  <2>5. Typed'
    BY <1>1, <1>10, <2>2 DEF Typed
  <2> HIDE DEF n
  <2>6. NextIsRead(off)'
    BY <1>1, <1>3, <1>10, <2>2, <2>3, <2>4, TwoStates DEF NextIsRead
  <2>7. MessageInv(off)'
    BY <1>1, <1>8, <1>10, <2>4, <2>6 DEF MessageInv
  <2> QED
    BY <1>8, <2>3, <2>5, <2>7 DEF MessagesGoOn
<1>11. ASSUME n <= 0, Deliver(HeaderBytes), cache' = Rewind([CacheHeader(cache) EXCEPT !.flag = 0]),
              round' = after, step' = step
       PROVE  MessagesGoOn
  <2>1. n = 0
    BY <1>5, <1>11
  <2>2. HeaderBytes = m
    <3>1. ASSUME NEW s \in Seq(Byte), NEW t \in Seq(Int), Len(s) = Len(t), \A i \in 1 .. Len(t) : s[i] = t[i]
          PROVE  s = t
      BY <3>1
    <3>2. Len(m) = h
      BY <1>4, <1>5, <2>1
    <3> QED
      BY <1>3, <1>4, <3>1, <3>2
  <2>3. readlist' = Append(readlist, HeaderBytes) /\ UNCHANGED <<failures, faults>>
    BY <1>11 DEF Deliver
  <2>4. Whole' /\ Len(Received') = k + 1 /\ readlist' \in Seq(Seq(Byte))
    BY <1>1, <1>2, <1>3, <2>2, <2>3, NextIsReceived
  <2>5. IsBuffer(cache') /\ cache'.state = STATE_WAIT_FOR_HEADER
    <3> DEFINE r == [CacheHeader(cache) EXCEPT !.flag = 0]
    <3>1. IsBuffer(r) /\ r.state = cache.state
      BY <1>7, FlagIsSet, ZenonT(30) DEF IsBuffer
    <3> HIDE DEF r
    <3>2. cache' = Rewind(r)
      BY <1>11 DEF r
    <3> QED
      BY <1>1, <3>1, <3>2, RewindIs
  <2>6. InTransit' /\ ReadTo' = ReadTo + h
    BY <1>1, <1>4, <1>11, Advances
  <2>7. Typed'
    BY <1>1, <2>4, <2>5 DEF Typed
  <2> HIDE DEF n
  <2>8. ReadTo' = off[k + 1]
    BY <1>3, <1>4, <1>5, <2>1, <2>6
  <2>9. NextIsRead(off)'
    BY <2>4, <2>5, <2>8 DEF NextIsRead
  <2>10. MessageInv(off)'
    BY <1>1, <1>8, <1>11, <2>4, <2>9 DEF MessageInv
  <2> QED
    BY <1>8, <2>6, <2>7, <2>10 DEF MessagesGoOn
<1>12. CASE OutOfMemory("lost")
  BY <1>12 DEF OutOfMemory, Sound
<1> QED
  BY <1>9, <1>10, <1>11, <1>12 DEF ExtractHeader

(* The rest of a message arrives, and is joined to its header.             *)
LEMMA BodyStep ==
  ASSUME NEW off, MessageState(off), ExtractBody, Sound, Sound'
  PROVE  MessagesGoOn
<1> USE DEF MessageState
<1> DEFINE k == Len(Received)
           m == sent[k + 1]
           h == codec.headersize
           n == cache.flag
           header == SubSeq(cache.bytes \o [i \in 1 .. h |-> Junk], 1, h)
           body == SubSeq(round.bytes, round.readpos + 1, round.readpos + n)
<1>1. /\ step = "extract" /\ cache.state = STATE_WAIT_FOR_BODY /\ Left(round) >= n
      /\ UNCHANGED <<sent, stream, handled, session, codec, wire>>
  BY DEF ExtractBody, talkVars, BodyComplete
<1>2. Laid(off) /\ Whole /\ NextIsRead(off)
  BY <1>1 DEF MessageInv
<1>3. /\ k \in Nat /\ k < Len(sent) /\ ReadTo = off[k] + h /\ n = BodySize(codec, Plain(m)) /\ n > 0
      /\ Len(cache.bytes) = h + n /\ \A i \in 1 .. h : cache.bytes[i] = m[i]
  BY <1>1, <1>2, ReceivedIs, TwoStates DEF NextIsRead
<1>4. /\ h \in Nat \ {0} /\ WellFramed(codec, m) /\ m \in Seq(Int) /\ off[k] \in Nat
      /\ off[k + 1] = off[k] + Len(m)
      /\ \A j \in 1 .. Len(m) : stream[off[k] + j] = m[j]
  BY <1>2, <1>3, NextBegins DEF Typed
<1>5. n \in Nat /\ Len(m) = h + n
  BY <1>3, <1>4 DEF WellFramed
<1>6. Laid(off)' /\ off \in [0 .. Len(sent') -> Nat]
  BY <1>1, <1>2, LaidStays
<1>7. header \in Seq(Byte) /\ Len(header) = h /\ \A i \in 1 .. h : header[i] = m[i]
  <2> DEFINE junk == [i \in 1 .. h |-> Junk]
             long == cache.bytes \o junk
  <2>1. junk \in Seq(Byte) /\ cache.bytes \in Seq(Byte)
    BY <1>4 DEF Byte, Typed, IsBuffer
  <2> HIDE DEF junk
  <2>2. long \in Seq(Byte) /\ Len(long) >= 0 + h /\ \A i \in 1 .. h : long[i] = cache.bytes[i]
    <3>1. Len(long) = Len(cache.bytes) + Len(junk) /\ Len(junk) \in Nat /\ long \in Seq(Byte)
      BY <2>1
    <3>2. \A i \in 1 .. Len(cache.bytes) : long[i] = cache.bytes[i]
      BY <2>1
    <3>3. ASSUME NEW i \in 1 .. h PROVE i \in 1 .. Len(cache.bytes)
      BY <1>3, <1>4, <1>5
    <3>4. Len(long) >= 0 + h
      <4>1. Len(cache.bytes) = h + n /\ h \in Nat /\ n \in Nat
        BY <1>3, <1>4, <1>5
      <4> HIDE DEF long, h, n
      <4> QED
        BY <3>1, <4>1
    <3> QED
      BY <3>1, <3>2, <3>3, <3>4
  <2>3. header = SubSeq(long, 0 + 1, 0 + h)
    BY <1>4 DEF junk
  <2> HIDE DEF long, h, header
  <2>4. /\ SubSeq(long, 0 + 1, 0 + h) \in Seq(Byte) /\ Len(SubSeq(long, 0 + 1, 0 + h)) = h
        /\ \A i \in 1 .. h : SubSeq(long, 0 + 1, 0 + h)[i] = long[0 + i]
    BY <1>4, <2>2, PieceIs
  <2> QED
    BY <1>3, <1>4, <2>2, <2>3, <2>4
<1>8. body \in Seq(Byte) /\ Len(body) = n /\ \A i \in 1 .. n : body[i] = m[h + i]
  <2> DEFINE s == round.bytes
             a == round.readpos
  <2>1. s \in Seq(Byte) /\ a \in Nat /\ a + n <= Len(s) /\ Left(round) \in Nat
    <3>1. /\ s \in Seq(Byte) /\ a \in Nat /\ Left(round) + a = Len(s) /\ Left(round) \in Nat
      BY <1>1, LeftIsNat DEF InTransit, Carried, IsBuffer
    <3> QED
      BY <1>1, <1>5, <3>1
  <2>2. \A i \in 1 .. Left(round) : s[a + i] = stream[ReadTo + i]
    BY <1>1, PositionsAre
  <2> HIDE DEF s, a, h, n, k, m
  <2>3. /\ SubSeq(s, a + 1, a + n) \in Seq(Byte) /\ Len(SubSeq(s, a + 1, a + n)) = n
        /\ \A i \in 1 .. n : SubSeq(s, a + 1, a + n)[i] = s[a + i]
    BY <1>5, <2>1, PieceIs, SMTT(30)
  <2>4. ASSUME NEW i \in 1 .. n PROVE s[a + i] = m[h + i]
    <3>1. i \in 1 .. Left(round) /\ h + i \in 1 .. Len(m)
      BY <1>1, <1>4, <1>5, <2>1
    <3>2. ReadTo + i = off[k] + (h + i)
      <4>1. ReadTo = off[k] + h
        BY <1>3
      <4>2. off[k] \in Nat /\ h \in Nat /\ i \in Nat
        BY <1>4, <1>5
      <4> HIDE DEF ReadTo
      <4> QED
        BY <4>1, <4>2
    <3> QED
      BY <1>4, <2>2, <3>1, <3>2
  <2>5. body = SubSeq(s, a + 1, a + n)
    BY DEF s, a, n
  <2> QED
    BY <2>3, <2>4, <2>5
<1>9. header \o body = m
  <2> HIDE DEF header, body, k, m, h, n
  <2>0. header \in Seq(Byte) /\ body \in Seq(Byte) /\ Len(header) = h /\ Len(body) = n /\ h \in Nat /\ n \in Nat
    BY <1>4, <1>5, <1>7, <1>8
  <2>1. header \o body \in Seq(Byte) /\ Len(header \o body) = h + n
    BY <2>0
  <2>2. ASSUME NEW i \in 1 .. h + n PROVE (header \o body)[i] = m[i]
    <3>1. CASE i <= h
      <4>1. i \in 1 .. h
        BY <2>0, <3>1
      <4>2. (header \o body)[i] = header[i]
        BY <2>0, <4>1
      <4> QED
        BY <1>7, <4>1, <4>2
    <3>2. CASE i > h
      <4>1. i - h \in 1 .. n /\ h + (i - h) = i
        BY <2>0, <3>2
      <4>2. (header \o body)[i] = body[i - h]
        BY <2>0, <3>2
      <4> QED
        BY <1>8, <4>1, <4>2
    <3> QED
      BY <2>0, <3>1, <3>2
  <2> DEFINE s == header \o body
  <2> HIDE DEF s
  <2>3. s \in Seq(Byte) /\ m \in Seq(Int) /\ Len(s) = Len(m) /\ \A i \in 1 .. Len(m) : s[i] = m[i]
    BY <1>4, <1>5, <2>1, <2>2 DEF s
  <2>4. s = m
    BY <2>3
  <2> QED
    BY <2>4 DEF s
<1>10. ASSUME Deliver(header \o body), round' = [round EXCEPT !.readpos = @ + n],
              cache' = Rewind(Marked(cache, STATE_WAIT_FOR_HEADER, 0)), step' = step
       PROVE  MessagesGoOn
  <2> HIDE DEF header, body
  <2>1. readlist' = Append(readlist, m) /\ UNCHANGED <<failures, faults>>
    BY <1>9, <1>10 DEF Deliver
  <2>2. Whole' /\ Len(Received') = k + 1 /\ readlist' \in Seq(Seq(Byte))
    BY <1>1, <1>2, <1>3, <2>1, NextIsReceived
  <2>3. IsBuffer(cache') /\ cache'.state = STATE_WAIT_FOR_HEADER
    <3> DEFINE r == Marked(cache, STATE_WAIT_FOR_HEADER, 0)
    <3>1. IsBuffer(r) /\ r.state = STATE_WAIT_FOR_HEADER
      BY MarkedIs DEF Typed, IsBuffer
    <3> HIDE DEF r
    <3>2. cache' = Rewind(r)
      BY <1>10 DEF r
    <3> QED
      BY <3>1, <3>2, RewindIs
  <2>4. InTransit' /\ ReadTo' = ReadTo + n
    BY <1>1, <1>5, <1>10, Advances
  <2>5. Typed'
    BY <1>1, <2>2, <2>3 DEF Typed
  <2>6. ReadTo' = off[k + 1]
    BY <1>3, <1>4, <1>5, <2>4
  <2>7. NextIsRead(off)'
    BY <2>2, <2>3, <2>6 DEF NextIsRead
  <2>8. MessageInv(off)'
    BY <1>1, <1>6, <1>10, <2>2, <2>7 DEF MessageInv
  <2> QED
    BY <1>6, <2>4, <2>5, <2>8 DEF MessagesGoOn
<1>11. ASSUME OutOfMemory("late"), ExtractReturns(FALSE, round), UNCHANGED cache
       PROVE  MessagesGoOn
  <2>1. /\ UNCHANGED readlist /\ faults' # {} /\ round' = Leftover(round, FALSE) /\ step' = "idle"
    BY <1>11 DEF OutOfMemory, ExtractReturns
  <2>2. Whole' /\ Len(Received') = k
    BY <1>1, <1>2, <2>1, WholeStays
  <2>3. InTransit' /\ ReadTo' = ReadTo
    <3>1. 0 \in Nat /\ 0 <= Left(round) /\ ReadTo + 0 = ReadTo
      BY <1>1, PositionsAre
    <3> QED
      BY <1>1, <2>1, <3>1, Advances
  <2>4. Typed'
    BY <1>1, <1>11, <2>1 DEF Typed
  <2>5. NextIsRead(off)'
    BY <1>1, <1>2, <1>11, <2>2, <2>3, TwoStates DEF NextIsRead
  <2>6. MessageInv(off)'
    BY <1>6, <2>1, <2>2, <2>5 DEF MessageInv
  <2> QED
    BY <1>6, <2>3, <2>4, <2>6 DEF MessagesGoOn
<1> QED
  BY <1>10, <1>11 DEF ExtractBody

(* Nothing more is complete: what is left is kept.                         *)
LEMMA MessageEndStep ==
  ASSUME NEW off, MessageState(off), ExtractMessageEnd, Sound
  PROVE  MessagesGoOn
<1> USE DEF MessageState
<1>1. /\ step = "extract" /\ Drained /\ round' = Leftover(round, FALSE) /\ step' = "idle"
      /\ UNCHANGED <<sent, stream, handled, session, codec, wire, cache, readlist, faults>>
  BY DEF ExtractMessageEnd, ExtractReturns, talkVars, Drained
<1>2. Laid(off) /\ Whole /\ NextIsRead(off)
  BY <1>1 DEF MessageInv
<1>3. InTransit' /\ ReadTo' = ReadTo /\ Left(round') = Left(round)
  <2>1. 0 \in Nat /\ 0 <= Left(round) /\ ReadTo + 0 = ReadTo /\ Left(round) - 0 = Left(round)
    BY <1>1, PositionsAre
  <2> QED
    BY <1>1, <2>1, Advances
<1>4. Whole' /\ Len(Received') = Len(Received)
  BY <1>1, <1>2, WholeStays
<1>5. Drained'
  BY <1>1, <1>3 DEF Drained, BodyComplete
<1>6. Laid(off)' /\ off \in [0 .. Len(sent') -> Nat]
  BY <1>1, <1>2, LaidStays
<1>7. NextIsRead(off)'
  BY <1>1, <1>2, <1>3, <1>4, TwoStates DEF NextIsRead
<1>8. Typed' /\ MessageInv(off)'
  BY <1>1, <1>4, <1>5, <1>6, <1>7 DEF Typed, MessageInv
<1> QED
  BY <1>3, <1>6, <1>8 DEF MessagesGoOn

(* Something is sent.                                                      *)
LEMMA Sends ==
  ASSUME Typed, InTransit, NEW message \in Seq(Int),
         sent' = Append(sent, message), stream' = stream \o message, wire' = wire \o message,
         UNCHANGED <<codec, round, cache, step, readlist, handled>>
  PROVE  /\ Typed' /\ InTransit' /\ ReadTo' = ReadTo
         /\ Len(stream') = Len(stream) + Len(message)
         /\ \A i \in 1 .. Len(stream) : stream'[i] = stream[i]
         /\ \A i \in 1 .. Len(message) : stream'[Len(stream) + i] = message[i]
         /\ Len(sent') = Len(sent) + 1 /\ sent'[Len(sent) + 1] = message
         /\ \A i \in 1 .. Len(sent) : sent'[i] = sent[i]
<1> DEFINE n == Len(stream)
           m == Len(message)
           w == Len(wire)
<1>1. /\ stream \in Seq(Int) /\ wire \in Seq(Int) /\ sent \in Seq(Seq(Int))
      /\ n \in Nat /\ m \in Nat /\ w \in Nat /\ w <= n
  BY DEF Typed, InTransit
<1>2. /\ Len(stream') = n + m /\ stream' \in Seq(Int)
      /\ \A i \in 1 .. n : stream'[i] = stream[i]
      /\ \A i \in 1 .. m : stream'[n + i] = message[i]
  BY <1>1
<1>3. /\ Len(wire') = w + m /\ wire' \in Seq(Int)
      /\ \A i \in 1 .. w : wire'[i] = wire[i]
      /\ \A i \in 1 .. m : wire'[w + i] = message[i]
  BY <1>1
<1>4. /\ Len(sent') = Len(sent) + 1 /\ sent'[Len(sent) + 1] = message
      /\ \A i \in 1 .. Len(sent) : sent'[i] = sent[i]
      /\ sent' \in Seq(Seq(Int))
  <2>1. ASSUME NEW S, NEW r \in Seq(S), NEW b \in S
        PROVE  /\ Len(Append(r, b)) = Len(r) + 1 /\ Append(r, b)[Len(r) + 1] = b
               /\ \A i \in 1 .. Len(r) : Append(r, b)[i] = r[i]
               /\ Append(r, b) \in Seq(S)
    OBVIOUS
  <2> QED
    BY <1>1, <2>1
<1>5. Typed'
  BY <1>2, <1>3, <1>4 DEF Typed
<1>6. Arrived = n - w /\ Arrived \in Nat /\ Arrived' = Arrived
  BY <1>1, <1>2, <1>3 DEF Arrived
<1>7. ASSUME NEW i \in 1 .. w + m PROVE wire'[i] = stream'[(n - w) + i]
  <2>1. CASE i <= w
    <3>1. i \in 1 .. w /\ (n - w) + i \in 1 .. n
      BY <1>1, <2>1
    <3>2. wire[i] = stream[(n - w) + i]
      BY <1>6, <3>1 DEF InTransit
    <3> QED
      BY <1>2, <1>3, <3>1, <3>2
  <2>2. CASE i > w
    <3>1. i - w \in 1 .. m /\ w + (i - w) = i /\ n + (i - w) = (n - w) + i
      BY <1>1, <2>2
    <3>2. wire'[w + (i - w)] = message[i - w] /\ stream'[n + (i - w)] = message[i - w]
      BY <1>2, <1>3, <3>1
    <3> QED
      BY <3>1, <3>2
  <2> QED
    BY <1>1, <2>1, <2>2, SMTT(30)
<1>8. step # "stopped" => Carried(round, stream', Arrived)
  <2> SUFFICES ASSUME step # "stopped" PROVE Carried(round, stream', Arrived)
    OBVIOUS
  <2>1. \A i \in 1 .. Arrived : stream'[i] = stream[i]
    BY <1>1, <1>2, <1>6
  <2> QED
    BY <1>6, <2>1, LongerCarries DEF InTransit
<1>9. InTransit'
  <2>1. Len(wire') <= Len(stream') /\ \A i \in 1 .. Len(wire') : wire'[i] = stream'[Arrived' + i]
    BY <1>1, <1>2, <1>3, <1>6, <1>7
  <2>2. step' # "stopped" => Carried(round', stream', Arrived')
    BY <1>6, <1>8
  <2>3. step' = "idle" => round'.readpos = 0
    BY DEF InTransit
  <2> QED
    BY <2>1, <2>2, <2>3 DEF InTransit
<1>10. ReadTo' = ReadTo
  BY <1>6 DEF ReadTo, Left, Size
<1> QED
  BY <1>2, <1>4, <1>5, <1>9, <1>10

(* Some bytes arrive, and are read or end the reading.                     *)
LEMMA Reads ==
  ASSUME Typed, InTransit, NEW n \in 1 .. ReadBufferSize, OnReadBytes(n)
  PROVE  Typed' /\ InTransit' /\ (step' # "stopped" => ReadTo' = ReadTo)
<1> DEFINE bytes == SubSeq(wire, 1, n)
           w == Len(wire)
<1>1. /\ step = "idle" /\ n <= Len(wire) /\ wire' = SubSeq(wire, n + 1, Len(wire))
      /\ UNCHANGED <<sent, stream, handled, codec, cache, readlist>>
  BY DEF OnReadBytes, talkVars
<1>2. /\ wire \in Seq(Int) /\ w \in Nat /\ n \in Nat \ {0} /\ n <= w /\ Len(stream) \in Nat /\ w <= Len(stream)
  BY <1>1, Sizes DEF Typed, InTransit
<1>3. bytes \in Seq(Int) /\ Len(bytes) = n /\ \A i \in 1 .. n : bytes[i] = wire[i]
  BY <1>2
<1>4. wire' \in Seq(Int) /\ Len(wire') = w - n /\ \A i \in 1 .. w - n : wire'[i] = wire[n + i]
  <2>1. wire' = SubSeq(wire, n + 1, n + (w - n))
    BY <1>1, <1>2
  <2>2. w - n \in Nat /\ n + (w - n) <= Len(wire)
    BY <1>2
  <2> HIDE DEF w
  <2> QED
    BY <1>2, <2>1, <2>2, PieceIs
<1>5. Typed'
  BY <1>1, <1>4 DEF Typed
<1> HIDE DEF w
<1>6. Arrived \in Nat /\ Arrived' = Arrived + n /\ Arrived = Len(stream) - w
  <2>1. Arrived = Len(stream) - w /\ Arrived' = Len(stream) - (w - n)
    BY <1>1, <1>4 DEF Arrived, w
  <2> QED
    BY <1>2, <2>1
<1>7. \A i \in 1 .. w : wire[i] = stream[Arrived + i]
  BY DEF InTransit, w
<1>8. ASSUME NEW i \in 1 .. w - n PROVE wire'[i] = stream[(Arrived + n) + i]
  <2>1. n + i \in 1 .. w /\ Arrived + (n + i) = (Arrived + n) + i
    BY <1>2, <1>6
  <2> QED
    BY <1>4, <1>7, <2>1
<1>9. Len(wire') <= Len(stream') /\ \A i \in 1 .. Len(wire') : wire'[i] = stream'[Arrived' + i]
  <2>1. Len(wire') = w - n /\ stream' = stream /\ Arrived' = Arrived + n
    BY <1>1, <1>4, <1>6
  <2>2. w - n <= Len(stream)
    BY <1>2
  <2> QED
    BY <1>8, <2>1, <2>2
<1>10. CASE Size(round) + n > MaxBufferSize
  <2>1. step' = "stopped"
    BY <1>10 DEF OnReadBytes
  <2> QED
    BY <1>5, <1>9, <2>1 DEF InTransit
<1>11. CASE ~(Size(round) + n > MaxBufferSize)
  <2>1. step' = "extract" /\ round' = AppendTo(round, bytes)
    BY <1>11 DEF OnReadBytes
  <2>2. Carried(round, stream, Arrived) /\ round.readpos = 0 /\ Size(round) \in Nat /\ Left(round) \in Nat
    BY <1>1, LeftIsNat DEF InTransit, Carried, Size
  <2>3. \A i \in 1 .. n : bytes[i] = stream[Arrived + i]
    BY <1>2, <1>3, <1>7
  <2> HIDE DEF bytes
  <2>4. Size(round) + Len(bytes) <= MaxBufferSize
    <3>1. Size(round) + n <= MaxBufferSize
      BY <1>2, <1>11, <2>2, Sizes
    <3> QED
      BY <1>3, <3>1
  <2>5. Carried(AppendTo(round, bytes), stream, Arrived + n) /\ Left(AppendTo(round, bytes)) = Left(round) + n
    <3>1. /\ Carried(AppendTo(round, bytes), stream, Arrived + Len(bytes))
          /\ Left(AppendTo(round, bytes)) = Left(round) + Len(bytes)
      <4>1. bytes \in Seq(Int) /\ Arrived \in Nat /\ \A i \in 1 .. Len(bytes) : bytes[i] = stream[Arrived + i]
        BY <1>3, <1>6, <2>3
      <4> QED
        BY <2>2, <2>4, <4>1, AppendCarries, SMTT(30)
    <3> QED
      BY <1>3, <3>1
  <2>6. InTransit'
    BY <1>1, <1>6, <1>9, <2>1, <2>5 DEF InTransit
  <2>7. ReadTo' = ReadTo
    BY <1>2, <1>6, <2>1, <2>2, <2>5 DEF ReadTo
  <2> QED
    BY <1>5, <2>6, <2>7
<1> QED
  BY <1>10, <1>11

(* A message is sent.                                                      *)
LEMMA SendMessageStep ==
  ASSUME NEW off, MessageState(off), NEW n \in BodySizes, NEW tag \in {1, 2}, SendMessage(n, tag), Sound, Sound'
  PROVE  MessagesGoOn
<1> USE DEF MessageState
<1> DEFINE message == Wired(Header(codec, n, tag).bytes \o [i \in 1 .. n |-> tag])
           k == Len(sent)
           total == Len(stream) + Len(message)
<1>1. Carries(codec, n)
  BY DEF SendMessage, Sound
<1>2. WellFramed(codec, message)
  BY <1>1, SentIsWellFramed
<1>3. /\ sent' = Append(sent, message) /\ stream' = stream \o message /\ wire' = wire \o message
      /\ UNCHANGED <<codec, round, cache, step, readlist, handled>>
      /\ faults' = faults
  BY <1>1 DEF SendMessage
<1> HIDE DEF message
<1>4. message \in Seq(Int) /\ Len(message) \in Nat
  BY <1>2 DEF WellFramed
<1>5. /\ Typed' /\ InTransit' /\ ReadTo' = ReadTo
      /\ Len(stream') = Len(stream) + Len(message)
      /\ \A i \in 1 .. Len(stream) : stream'[i] = stream[i]
      /\ \A i \in 1 .. Len(message) : stream'[Len(stream) + i] = message[i]
      /\ Len(sent') = k + 1 /\ sent'[k + 1] = message
      /\ \A i \in 1 .. k : sent'[i] = sent[i]
  BY <1>3, <1>4, Sends
<1>6. /\ k \in Nat /\ Len(stream) \in Nat /\ total \in Nat
      /\ off \in [0 .. k -> Nat] /\ off[0] = 0 /\ off[k] = Len(stream)
      /\ \A i \in 1 .. k :
           /\ WellFramed(codec, sent[i])
           /\ off[i] = off[i - 1] + Len(sent[i]) /\ off[i] <= Len(stream)
           /\ \A j \in 1 .. Len(sent[i]) : stream[off[i - 1] + j] = sent[i][j]
  BY <1>4 DEF Typed, MessageInv, Laid
<1> HIDE DEF k, total
<1>7. PICK o : o \in [0 .. k + 1 -> Nat] /\ o[k + 1] = total /\ \A i \in 0 .. k : o[i] = off[i]
  <2> DEFINE longer == [i \in 0 .. k + 1 |-> IF i <= k THEN off[i] ELSE total]
  <2>1. longer \in [0 .. k + 1 -> Nat] /\ longer[k + 1] = total /\ \A i \in 0 .. k : longer[i] = off[i]
    BY <1>6
  <2> QED
    BY <2>1
<1>8. ASSUME NEW i \in 1 .. k + 1
      PROVE  /\ WellFramed(codec, sent'[i])
             /\ o[i] = o[i - 1] + Len(sent'[i]) /\ o[i] <= total
             /\ \A j \in 1 .. Len(sent'[i]) : stream'[o[i - 1] + j] = sent'[i][j]
  <2>1. CASE i = k + 1
    <3>1. o[i] = total /\ o[i - 1] = Len(stream) /\ sent'[i] = message
      BY <1>5, <1>6, <1>7, <2>1
    <3> QED
      BY <1>2, <1>4, <1>5, <1>6, <3>1 DEF total
  <2>2. CASE i \in 1 .. k
    <3>1. o[i] = off[i] /\ o[i - 1] = off[i - 1] /\ sent'[i] = sent[i] /\ i - 1 \in 0 .. k
      BY <1>5, <1>6, <1>7, <2>2
    <3>2. Len(sent[i]) \in Nat /\ off[i - 1] \in Nat /\ off[i] = off[i - 1] + Len(sent[i]) /\ off[i] <= Len(stream)
      BY <1>6, <2>2, <3>1, SMTT(30) DEF WellFramed
    <3>3. Len(stream) <= total
      BY <1>4, <1>6 DEF total
    <3>4. ASSUME NEW j \in 1 .. Len(sent[i]) PROVE stream'[off[i - 1] + j] = sent[i][j]
      <4>1. off[i - 1] + j \in 1 .. Len(stream)
        <5>1. Len(stream) \in Nat
          BY <1>6
        <5>2. j \in Nat /\ 1 <= j /\ j <= Len(sent[i])
          BY <3>2
        <5> QED
          BY <3>2, <5>1, <5>2
      <4> QED
        BY <1>5, <1>6, <2>2, <4>1
    <3>5. o[i] <= total
      BY <1>6, <3>1, <3>2, <3>3
    <3> QED
      BY <1>6, <2>2, <3>1, <3>2, <3>4, <3>5
  <2> QED
    BY <1>6, <2>1, <2>2
<1>9. Laid(o)' /\ o \in [0 .. Len(sent') -> Nat]
  <2>1. Len(sent') = k + 1 /\ Len(stream') = total /\ o[0] = 0 /\ codec' = codec
    BY <1>3, <1>5, <1>6, <1>7 DEF total
  <2>2. o \in [0 .. Len(sent') -> Nat] /\ o[Len(sent')] = Len(stream')
    BY <1>7, <2>1
  <2>3. ASSUME NEW i \in 1 .. Len(sent')
        PROVE  /\ WellFramed(codec, sent[i])'
               /\ o[i] = o[i - 1] + Len(sent'[i]) /\ o[i] <= Len(stream')
               /\ \A j \in 1 .. Len(sent'[i]) : stream'[o[i - 1] + j] = sent'[i][j]
    BY <1>8, <2>1, SMTT(30) DEF WellFramed, SizeField, BodySize, Plain, GetByte, GetShort, GetInt, Digit, Left, Size
  <2> QED
    BY <2>1, <2>2, <2>3 DEF Laid
<1>10. Received' = Received /\ Len(Received) \in Nat /\ Len(Received) <= k /\ \A i \in 1 .. Len(Received) : Received[i] = sent[i]
  BY <1>3, ReceivedStays, ReceivedIs DEF MessageInv, Whole, k
<1>11. Whole'
  BY <1>5, <1>6, <1>10 DEF Whole
<1>12. step' # "stopped" => NextIsRead(o)'
  <2> SUFFICES ASSUME step # "stopped" PROVE NextIsRead(o)'
    BY <1>3
  <2> DEFINE r == Len(Received)
  <2> HIDE DEF r
  <2>1. o[r] = off[r] /\ r < k + 1
    BY <1>6, <1>7, <1>10 DEF r
  <2>2. r < k => sent'[r + 1] = sent[r + 1]
    BY <1>5, <1>6, <1>10 DEF r
  <2>3. Len(Received') = r /\ cache' = cache /\ codec' = codec /\ Len(sent') = k + 1
    BY <1>3, <1>5, <1>10 DEF r
  <2>4. IF cache.state = STATE_WAIT_FOR_HEADER THEN ReadTo = off[r]
        ELSE /\ r < k /\ ReadTo = off[r] + codec.headersize
             /\ cache.flag = BodySize(codec, Plain(sent[r + 1])) /\ cache.flag > 0
             /\ Len(cache.bytes) = codec.headersize + cache.flag
             /\ \A i \in 1 .. codec.headersize : cache.bytes[i] = sent[r + 1][i]
    BY DEF MessageInv, NextIsRead, r, k
  <2>5. k \in Nat /\ r \in Nat
    BY <1>6, <1>10 DEF r
  <2>6. ReadTo' = ReadTo
    BY <1>5
  <2>7. CASE cache.state = STATE_WAIT_FOR_HEADER
    BY <2>1, <2>3, <2>4, <2>6, <2>7 DEF NextIsRead
  <2>8. CASE cache.state # STATE_WAIT_FOR_HEADER
    <3>1. sent'[r + 1] = sent[r + 1] /\ r < k /\ r < k + 1
      BY <2>1, <2>2, <2>4, <2>8
    <3>2. /\ ReadTo' = o[r] + codec'.headersize
          /\ cache'.flag = BodySize(codec, Plain(sent'[r + 1])) /\ cache'.flag > 0
          /\ Len(cache'.bytes) = codec'.headersize + cache'.flag
          /\ \A i \in 1 .. codec'.headersize : cache'.bytes[i] = sent'[r + 1][i]
      BY <2>1, <2>3, <2>4, <2>6, <2>8, <3>1
    <3> QED
      BY <2>3, <2>8, <3>1, <3>2 DEF NextIsRead
  <2> QED
    BY <2>7, <2>8
<1>13. step' = "idle" /\ faults' = {} => Drained'
  BY <1>3 DEF MessageInv, Drained, BodyComplete, Left, Size
<1>14. MessageInv(o)'
  BY <1>9, <1>11, <1>12, <1>13 DEF MessageInv
<1>15. \E x \in [0 .. Len(sent') -> Nat] : MessageInv(x)'
  BY <1>9, <1>14
<1> QED
  BY <1>5, <1>15 DEF MessagesGoOn

(* A message handled stays received.                                       *)
LEMMA HandleReceives ==
  ASSUME Typed, readlist # <<>>, NEW bytes \in Seq(Byte), bytes = Shown(Head(readlist)),
         handled' = Append(handled, bytes), readlist' = Tail(readlist), codec' = codec
  PROVE  Received' = Received /\ handled' \in Seq(Seq(Byte)) /\ readlist' \in Seq(Seq(Byte))
<1> DEFINE seen == Seen(readlist)
           rest == Seen(Tail(readlist))
           n == Len(readlist)
           S == Seq(Byte)
<1>1. readlist \in Seq(S) /\ handled \in Seq(S) /\ bytes \in S
  BY DEF Typed
<1>2. seen \in Seq(S) /\ Len(seen) = n /\ \A i \in 1 .. n : seen[i] = Shown(readlist[i])
  BY <1>1, SeenIs
<1> HIDE DEF S
<1>3. /\ n \in Nat \ {0} /\ Tail(readlist) \in Seq(S) /\ Len(Tail(readlist)) = n - 1
      /\ \A i \in 1 .. n - 1 : Tail(readlist)[i] = readlist[i + 1]
      /\ Head(readlist) = readlist[1]
  BY <1>1
<1>4. rest \in Seq(S) /\ Len(rest) = n - 1 /\ \A i \in 1 .. n - 1 : rest[i] = Shown(readlist[i + 1])
  <2>1. /\ rest \in Seq(S) /\ Len(rest) = Len(Tail(readlist))
        /\ \A i \in 1 .. Len(Tail(readlist)) : rest[i] = Shown(Tail(readlist)[i])
    BY <1>3, SeenIs DEF S
  <2> QED
    BY <1>3, <2>1
<1> HIDE DEF seen, rest, n
<1>5. Seen(readlist)' = rest
  <2>1. Seen(readlist)' = [k \in DOMAIN readlist' |-> Shown(readlist'[k])]
    BY DEF Seen, Shown, IsMessage, Terminated
  <2> QED
    BY <2>1 DEF Seen, rest
<1>6. handled \o seen = Append(handled, bytes) \o rest
  <2>1. bytes = seen[1]
    BY <1>2, <1>3
  <2>2. \A i \in 1 .. n - 1 : rest[i] = seen[i + 1]
    BY <1>2, <1>3, <1>4
  <2>3. ASSUME NEW h \in Seq(S), NEW s \in Seq(S), NEW r \in Seq(S), Len(s) \in Nat \ {0}, Len(r) = Len(s) - 1,
               \A i \in 1 .. Len(s) - 1 : r[i] = s[i + 1]
        PROVE  h \o s = Append(h, s[1]) \o r
    <3> DEFINE a == h \o s
               b == Append(h, s[1]) \o r
    <3>1. s[1] \in S
      BY <2>3
    <3>2. a \in Seq(S) /\ Len(a) = Len(h) + Len(s) /\ Append(h, s[1]) \in Seq(S) /\ Len(Append(h, s[1])) = Len(h) + 1
      BY <2>3, <3>1
    <3>3. b \in Seq(S) /\ Len(b) = Len(h) + Len(s)
      <4> DEFINE t == Append(h, s[1])
      <4>1. t \in Seq(S) /\ Len(t) = Len(h) + 1 /\ Len(h) \in Nat
        BY <2>3, <3>2
      <4> HIDE DEF t
      <4>2. t \o r \in Seq(S) /\ Len(t \o r) = Len(t) + Len(r)
        <5>1. t \in Seq(S) /\ r \in Seq(S)
          BY <2>3, <4>1
        <5> QED
          BY <5>1
      <4>3. Len(t) + Len(r) = Len(h) + Len(s)
        BY <2>3, <4>1
      <4> QED
        BY <4>2, <4>3 DEF t
    <3>4. ASSUME NEW i \in 1 .. Len(h) + Len(s) PROVE a[i] = b[i]
      <4>1. CASE i \in 1 .. Len(h)
        <5>1. i \in 1 .. Len(Append(h, s[1])) /\ a[i] = h[i] /\ Append(h, s[1])[i] = h[i]
          BY <2>3, <3>1, <3>2, <4>1
        <5> QED
          BY <2>3, <3>2, <5>1
      <4>2. CASE i = Len(h) + 1
        <5>1. i \in 1 .. Len(Append(h, s[1])) /\ a[i] = s[1] /\ Append(h, s[1])[i] = s[1]
          BY <2>3, <3>1, <3>2, <4>2
        <5> QED
          BY <2>3, <3>2, <5>1
      <4>3. CASE i > Len(h) + 1
        <5>1. i - Len(h) - 1 \in 1 .. Len(s) - 1 /\ i - Len(h) \in 1 .. Len(s)
          BY <2>3, <4>3
        <5>2. a[i] = s[i - Len(h)]
          BY <2>3, <5>1
        <5>3. b[i] = r[i - Len(h) - 1]
          BY <2>3, <3>2, <5>1, SMTT(30)
        <5>4. (i - Len(h) - 1) + 1 = i - Len(h)
          BY <5>1, <2>3
        <5> QED
          BY <2>3, <5>1, <5>2, <5>3, <5>4
      <4> QED
        BY <2>3, <4>1, <4>2, <4>3
    <3> HIDE DEF a, b
    <3>5. a = b
      BY <3>2, <3>3, <3>4
    <3> QED
      BY <3>5 DEF a, b
  <2>4. handled \o seen = Append(handled, seen[1]) \o rest
    <3>1. Len(seen) \in Nat \ {0} /\ Len(rest) = Len(seen) - 1 /\ \A i \in 1 .. Len(seen) - 1 : rest[i] = seen[i + 1]
      BY <1>2, <1>3, <1>4, <2>2
    <3> QED
      BY <1>1, <1>2, <1>4, <2>3, <3>1
  <2> QED
    BY <2>1, <2>4
<1>7. Append(handled, bytes) \in Seq(S)
  BY <1>1
<1> QED
  BY <1>3, <1>5, <1>6, <1>7 DEF Received, seen, S

(* Handling leaves what is read, and how far, as it is.                    *)
LEMMA HandleLeaves ==
  ASSUME Typed, InTransit, Handle, NEW bytes \in Seq(Byte), bytes = Shown(Head(readlist)),
         handled' = Append(handled, bytes)
  PROVE  Typed' /\ InTransit' /\ Received' = Received /\ ReadTo' = ReadTo
<1>1. readlist # <<>> /\ readlist' = Tail(readlist)
      /\ UNCHANGED <<codec, sent, stream, wire, round, cache, step>>
  BY DEF Handle
<1>2. Received' = Received /\ handled' \in Seq(Seq(Byte)) /\ readlist' \in Seq(Seq(Byte))
  BY <1>1, HandleReceives
<1>3. Typed'
  BY <1>1, <1>2 DEF Typed
<1>4. Arrived' = Arrived /\ ReadTo' = ReadTo
  BY <1>1 DEF Arrived, ReadTo
<1>5. InTransit'
  BY <1>1, <1>4 DEF InTransit
<1> QED
  BY <1>2, <1>3, <1>4, <1>5

(* A message is handled.                                                   *)
LEMMA HandleMessageStep ==
  ASSUME NEW off, MessageState(off), Handle
  PROVE  MessagesGoOn
<1> USE DEF MessageState
<1>1. /\ readlist # <<>> /\ handled' = Append(handled, Head(readlist))
      /\ UNCHANGED <<codec, sent, stream, wire, round, cache, step, faults>>
  BY DEF Handle
<1>2. Head(readlist) \in Seq(Byte) /\ Head(readlist) = Shown(Head(readlist))
  <2>1. ASSUME NEW S, NEW r \in Seq(S), r # <<>> PROVE Head(r) \in S
    BY <2>1
  <2> QED
    BY <1>1, <2>1 DEF Typed, Shown
<1>3. Typed' /\ InTransit' /\ Received' = Received /\ ReadTo' = ReadTo
  BY <1>1, <1>2, HandleLeaves
<1>4. Laid(off)' /\ off \in [0 .. Len(sent') -> Nat]
  BY <1>1, LaidStays DEF MessageInv
<1>5. Whole'
  BY <1>1, <1>3 DEF MessageInv, Whole
<1>6. step' # "stopped" => NextIsRead(off)'
  BY <1>1, <1>3 DEF MessageInv, NextIsRead
<1>7. step' = "idle" /\ faults' = {} => Drained'
  BY <1>1 DEF MessageInv, Drained, BodyComplete
<1>8. MessageInv(off)'
  BY <1>4, <1>5, <1>6, <1>7 DEF MessageInv
<1> QED
  BY <1>3, <1>4, <1>8 DEF MessagesGoOn

(* Bytes arrive for messages.                                              *)
LEMMA ReadMessagesStep ==
  ASSUME NEW off, MessageState(off), NEW n \in 1 .. ReadBufferSize, OnReadBytes(n)
  PROVE  MessagesGoOn
<1> USE DEF MessageState
<1>1. /\ step = "idle" /\ step' # "idle" /\ UNCHANGED <<sent, stream, handled, codec, cache, readlist>>
  BY DEF OnReadBytes, talkVars
<1>2. Typed' /\ InTransit' /\ (step' # "stopped" => ReadTo' = ReadTo)
  BY Reads
<1>3. Laid(off)' /\ off \in [0 .. Len(sent') -> Nat]
  BY <1>1, LaidStays DEF MessageInv
<1>4. Whole' /\ Received' = Received
  BY <1>1, WholeStays, ReceivedStays DEF MessageInv
<1>5. step' # "stopped" => NextIsRead(off)'
  BY <1>1, <1>2, <1>4 DEF MessageInv, NextIsRead
<1>6. MessageInv(off)'
  BY <1>1, <1>3, <1>4, <1>5 DEF MessageInv
<1> QED
  BY <1>2, <1>3, <1>6 DEF MessagesGoOn

-----------------------------------------------------------------------------
(* Strings: where they end in a stream.                                    *)

(* The line of the bytes up to a position begins after l.                  *)
LineBegins(bytes, l, upto) ==
  /\ l \in Nat /\ l <= upto /\ (l = 0 \/ bytes[l] = codec.separator)
  /\ \A i \in l + 1 .. upto : bytes[i] # codec.separator

(* The largest of some numbers.                                            *)
LEMMA MaxIs ==
  ASSUME NEW S \in SUBSET Int, NEW x \in S, \A y \in S : x >= y
  PROVE  Max(S) = x
<1>1. \A y \in S : (\A z \in S : y >= z) => y = x
  OBVIOUS
<1> QED
  BY <1>1 DEF Max

(* The longest string has a byte at least.                                 *)
LEMMA LongestIs == IsStringCodec(codec) => LongestString \in Nat \ {0}
BY DEF IsStringCodec, LongestString, Larger

(* It is what LineStart finds.                                             *)
LEMMA LineStartIs ==
  ASSUME NEW bytes, NEW l, NEW upto \in Nat, LineBegins(bytes, l, upto), NEW i \in l .. upto
  PROVE  LineStart(bytes, i) = l
<1> DEFINE S == {0} \cup {j \in 1 .. i : bytes[j] = codec.separator}
<1>1. l \in Nat /\ i \in Nat /\ l <= i /\ i <= upto
  BY DEF LineBegins
<1>2. S \in SUBSET Int
  BY <1>1
<1>3. l \in S
  BY <1>1 DEF LineBegins
<1>4. \A y \in S : l >= y
  BY <1>1 DEF LineBegins
<1> HIDE DEF S
<1>5. Max(S) = l
  BY <1>2, <1>3, <1>4, MaxIs
<1> QED
  BY <1>5 DEF LineStart, S

(* The ends up to a position are so many.                                  *)
LEMMA EndsAreFinite ==
  ASSUME NEW bytes, NEW n \in Nat
  PROVE  IsFiniteSet(Ends(bytes, n)) /\ Cardinality(Ends(bytes, n)) \in Nat /\ Ends(bytes, n) \in SUBSET (1 .. n)
<1>1. Ends(bytes, n) \in SUBSET (1 .. n)
  BY DEF Ends
<1>2. IsFiniteSet(1 .. n)
  BY FS_Interval
<1>3. IsFiniteSet(Ends(bytes, n))
  BY <1>1, <1>2, FS_Subset
<1> QED
  BY <1>1, <1>3, FS_CardinalityType

(* And as many or more up to a later one.                                  *)
LEMMA EndsGrow ==
  ASSUME NEW bytes, NEW n \in Nat, NEW m \in Nat, n <= m
  PROVE  Ends(bytes, n) \in SUBSET Ends(bytes, m) /\ Cardinality(Ends(bytes, n)) <= Cardinality(Ends(bytes, m))
<1>1. Ends(bytes, n) \in SUBSET Ends(bytes, m)
  BY DEF Ends
<1> QED
  BY <1>1, EndsAreFinite, FS_Subset

(* None more where there is no end.                                        *)
LEMMA NoMoreEnds ==
  ASSUME NEW bytes, NEW n \in Nat, NEW m \in Nat, n <= m, \A i \in n + 1 .. m : ~EndsString(bytes, i)
  PROVE  Ends(bytes, m) = Ends(bytes, n)
BY DEF Ends

(* One more with the next end.                                             *)
LEMMA OneMoreEnd ==
  ASSUME NEW bytes, NEW n \in Nat, NEW e \in Nat, n < e, EndsString(bytes, e),
         \A i \in n + 1 .. e - 1 : ~EndsString(bytes, i)
  PROVE  Ends(bytes, e) = Ends(bytes, n) \cup {e} /\ Cardinality(Ends(bytes, e)) = Cardinality(Ends(bytes, n)) + 1
<1>1. Ends(bytes, e) = Ends(bytes, n) \cup {e}
  BY DEF Ends
<1>2. e \notin Ends(bytes, n) /\ IsFiniteSet(Ends(bytes, n))
  BY EndsAreFinite
<1>3. Cardinality(Ends(bytes, n) \cup {e}) = Cardinality(Ends(bytes, n)) + 1
  BY <1>2, FS_AddElement
<1> QED
  BY <1>1, <1>3

(* The k-th end is the only one.                                           *)
LEMMA EndIsUnique ==
  ASSUME NEW bytes, NEW e \in Nat \ {0}, NEW f \in Nat \ {0}, EndsString(bytes, e), EndsString(bytes, f),
         Cardinality(Ends(bytes, e)) = Cardinality(Ends(bytes, f))
  PROVE  e = f
<1>1. ASSUME NEW a \in Nat \ {0}, NEW b \in Nat \ {0}, a < b, EndsString(bytes, b)
      PROVE  Cardinality(Ends(bytes, a)) # Cardinality(Ends(bytes, b))
  <2>1. Ends(bytes, a) \in SUBSET Ends(bytes, b)
    BY <1>1, EndsGrow
  <2>2. b \in Ends(bytes, b) /\ b \notin Ends(bytes, a)
    BY <1>1 DEF Ends
  <2>3. IsFiniteSet(Ends(bytes, b))
    BY EndsAreFinite
  <2>4. Cardinality(Ends(bytes, b)) = Cardinality(Ends(bytes, a)) => Ends(bytes, b) = Ends(bytes, a)
    BY <2>1, <2>3, FS_Subset
  <2> QED
    BY <2>2, <2>4
<1>2. ~(e < f)
  BY <1>1
<1>3. ~(f < e)
  BY <1>1
<1> QED
  BY <1>2, <1>3

(* The line that begins after l was cut m times up to b.                   *)
CutAt(l, b, m) == b = l + LongestString * m

(* A cut of the line that begins after l, after the byte i.                *)
IsCut(l, i) == (i - l) % LongestString = 0

(* In a line that is cut into strings as long as may be up to b, the next  *)
(* cut is the one after as many bytes again.                               *)
LEMMA NextCut ==
  ASSUME IsStringCodec(codec), NEW bytes, NEW l \in Nat, NEW b \in Nat, NEW m \in Nat, CutAt(l, b, m),
         NEW i \in Nat, b <= i, i <= b + LongestString, LineBegins(bytes, l, i)
  PROVE  /\ LineStart(bytes, i) = l
         /\ IsCut(l, i) <=> i = b \/ i = b + LongestString
<1> DEFINE L == LongestString
           d == i - b
<1>1. L \in Nat \ {0} /\ l <= i /\ d \in 0 .. L /\ i = b + d
  BY LongestIs DEF LineBegins
<1>2. LineStart(bytes, i) = l
  BY <1>1, LineStartIs
<1> HIDE DEF L, d
<1>3. i - l = L * m + d
  <2> DEFINE p == L * m
  <2>1. p \in Int /\ b = l + p
    <3>1. L \in Int /\ m \in Int
      BY <1>1
    <3>2. p \in Int
      BY <3>1
    <3> QED
      BY <3>2 DEF CutAt, L
  <2>2. d \in Int
    BY <1>1
  <2> HIDE DEF p
  <2>3. i - l = p + d
    BY <1>1, <2>1, <2>2
  <2> QED
    BY <2>3 DEF p
<1>4. CASE d # L
  <2>1. d \in 0 .. L - 1
    BY <1>1, <1>4
  <2>2. (L * m + d) % L = d
    <3>1. L \in Nat \ {0} /\ m \in Int
      BY <1>1
    <3> QED
      BY <2>1, <3>1, QuotientIsUnique
  <2>3. IsCut(l, i) <=> d = 0
    BY <1>3, <2>2 DEF L, IsCut
  <2>4. (d = 0 <=> i = b) /\ i # b + L
    BY <1>1, <2>1
  <2> QED
    BY <1>2, <2>3, <2>4 DEF L
<1>5. CASE d = L
  <2>1. L * m + d = L * (m + 1) + 0 /\ 0 \in 0 .. L - 1 /\ m + 1 \in Int
    BY <1>1, <1>5
  <2>2. (L * (m + 1) + 0) % L = 0
    BY <1>1, <2>1, QuotientIsUnique
  <2>3. IsCut(l, i)
    BY <1>3, <2>1, <2>2 DEF L, IsCut
  <2> QED
    BY <1>1, <1>2, <1>5, <2>3 DEF L
<1> QED
  BY <1>4, <1>5

(* Where a piece of less bytes that no separator ends goes on, nothing ends. *)
LEMMA NothingEnds ==
  ASSUME IsStringCodec(codec), NEW bytes, NEW l \in Nat, NEW b \in Nat, NEW m \in Nat, CutAt(l, b, m), l <= b,
         NEW i \in Nat, b < i, i < b + LongestString, LineBegins(bytes, l, i + 1)
  PROVE  ~EndsString(bytes, i)
<1>1. LongestString \in Nat \ {0}
  BY LongestIs
<1>2. LineBegins(bytes, l, i)
  BY DEF LineBegins
<1>3. LineStart(bytes, i) = l /\ ~IsCut(l, i)
  <2>1. b <= i /\ i <= b + LongestString /\ i # b /\ i # b + LongestString
    BY <1>1
  <2> QED
    BY <1>2, <2>1, NextCut
<1>4. bytes[i + 1] # codec.separator
  <2>1. i + 1 \in l + 1 .. i + 1
    OBVIOUS
  <2> QED
    BY <2>1 DEF LineBegins
<1> QED
  BY <1>3, <1>4 DEF EndsString, IsCut

(* The piece of d bytes after the last cut: no string ends in it, it ends  *)
(* a string when it is long enough or a separator follows, and the string  *)
(* begins after the cut.                                                   *)
LEMMA PieceEnds ==
  ASSUME IsStringCodec(codec), NEW bytes, NEW l, NEW b \in Nat, NEW m \in Nat, CutAt(l, b, m),
         NEW d \in 1 .. LongestString, LineBegins(bytes, l, b + d)
  PROVE  /\ \A i \in b + 1 .. (b + d) - 1 : ~EndsString(bytes, i)
         /\ d = LongestString \/ (b + d < Len(bytes) /\ bytes[(b + d) + 1] = codec.separator)
              => EndsString(bytes, b + d)
         /\ Start(bytes, b + d) = b
<1>1. LongestString \in Nat \ {0} /\ l \in Nat /\ d \in Nat \ {0} /\ d <= LongestString
  BY LongestIs DEF LineBegins
<1>2. l <= b
  <2> DEFINE p == LongestString * m
  <2>1. p \in Nat /\ b = l + p
    BY <1>1 DEF CutAt
  <2> HIDE DEF p
  <2> QED
    BY <1>1, <2>1
<1>3. ASSUME NEW i \in b + 1 .. (b + d) - 1 PROVE ~EndsString(bytes, i)
  <2>1. i \in Nat /\ b < i /\ i < b + LongestString /\ i + 1 <= b + d
    BY <1>1
  <2>2. LineBegins(bytes, l, i + 1)
    BY <1>1, <1>2, <2>1 DEF LineBegins
  <2> QED
    BY <1>1, <1>2, <2>1, <2>2, NothingEnds
<1>4. ASSUME d = LongestString \/ (b + d < Len(bytes) /\ bytes[(b + d) + 1] = codec.separator)
      PROVE  EndsString(bytes, b + d)
  <2>1. b + d \in Nat /\ b <= b + d /\ b + d <= b + LongestString
    BY <1>1
  <2>2. /\ LineStart(bytes, b + d) = l
        /\ d = LongestString => IsCut(l, b + d)
    BY <1>1, <2>1, NextCut
  <2>3. bytes[b + d] # codec.separator
    BY <1>1, <1>2 DEF LineBegins
  <2> QED
    BY <1>4, <2>2, <2>3 DEF EndsString, IsCut
<1>5. Start(bytes, b + d) = b
  <2> DEFINE S == {LineStart(bytes, b + d)} \cup Ends(bytes, (b + d) - 1)
  <2>1. LineStart(bytes, b + d) = l
    BY <1>1, <1>2, LineStartIs
  <2>2. Ends(bytes, (b + d) - 1) = Ends(bytes, b)
    <3>1. (b + d) - 1 \in Nat /\ b <= (b + d) - 1
      BY <1>1
    <3> QED
      BY <1>3, <3>1, NoMoreEnds
  <2>3. Ends(bytes, b) \in SUBSET (1 .. b)
    BY EndsAreFinite
  <2>4. S \in SUBSET Int /\ \A y \in S : b >= y
    BY <1>1, <1>2, <2>1, <2>2, <2>3
  <2>5. b \in S
    <3>1. CASE b = l
      BY <2>1, <3>1
    <3>2. CASE b # l
      <4>1. b \in l + 1 .. b + d
        BY <1>1, <1>2, <3>2
      <4>2. bytes[b] # codec.separator /\ b \in 1 .. b
        BY <1>1, <4>1 DEF LineBegins
      <4>3. LineBegins(bytes, l, b) /\ b <= b + LongestString
        BY <1>1, <1>2 DEF LineBegins
      <4>4. LineStart(bytes, b) = l /\ IsCut(l, b)
        <5>1. b <= b
          OBVIOUS
        <5> QED
          BY <1>1, <4>3, <5>1, NextCut
      <4>5. EndsString(bytes, b)
        BY <4>2, <4>3, <4>4 DEF EndsString, IsCut
      <4> QED
        BY <2>2, <4>2, <4>5 DEF Ends
    <3> QED
      BY <3>1, <3>2
  <2> HIDE DEF S
  <2>6. Max(S) = b
    BY <2>4, <2>5, MaxIs
  <2> QED
    BY <2>6 DEF Start, S
<1> QED
  BY <1>3, <1>4, <1>5

(* A separator ends the string before it, if there is one, but is none.    *)
LEMMA SeparatorIsNoEnd ==
  ASSUME NEW bytes, NEW b \in Nat, bytes[b + 1] = codec.separator
  PROVE  ~EndsString(bytes, b + 1) /\ Ends(bytes, b + 1) = Ends(bytes, b)
<1>1. ~EndsString(bytes, b + 1)
  BY DEF EndsString
<1>2. \A i \in b + 1 .. b + 1 : ~EndsString(bytes, i)
  BY <1>1
<1>3. b + 1 \in Nat /\ b <= b + 1
  OBVIOUS
<1> QED
  BY <1>1, <1>2, <1>3, NoMoreEnds

(* What is sent later does not change where the strings before it end.     *)
LEMMA EndsStay ==
  ASSUME NEW bytes, NEW longer, Len(bytes) \in Nat, Len(longer) \in Nat, Len(bytes) <= Len(longer),
         \A i \in 1 .. Len(bytes) : longer[i] = bytes[i],
         Len(bytes) > 0 => bytes[Len(bytes)] = codec.separator
  PROVE  /\ \A n \in 0 .. Len(bytes) : Ends(longer, n) = Ends(bytes, n)
         /\ \A e \in 1 .. Len(bytes) : Start(longer, e) = Start(bytes, e)
<1> DEFINE n == Len(bytes)
<1>1. ASSUME NEW i \in 1 .. n PROVE LineStart(longer, i) = LineStart(bytes, i)
  <2>1. \A j \in 1 .. i : longer[j] = bytes[j]
    BY <1>1
  <2>2. {j \in 1 .. i : longer[j] = codec.separator} = {j \in 1 .. i : bytes[j] = codec.separator}
    BY <2>1
  <2> QED
    BY <2>2 DEF LineStart
<1>2. ASSUME NEW i \in 1 .. n PROVE EndsString(longer, i) <=> EndsString(bytes, i)
  <2>1. longer[i] = bytes[i] /\ LineStart(longer, i) = LineStart(bytes, i)
    BY <1>1
  <2>2. CASE i < n
    <3>1. i + 1 \in 1 .. n /\ i < Len(longer)
      BY <2>2
    <3> QED
      BY <2>1, <2>2, <3>1 DEF EndsString
  <2>3. CASE i = n
    <3>1. longer[i] = codec.separator /\ bytes[i] = codec.separator
      BY <2>1, <2>3
    <3> QED
      BY <3>1 DEF EndsString
  <2> QED
    BY <2>2, <2>3
<1>3. ASSUME NEW i \in 0 .. n PROVE Ends(longer, i) = Ends(bytes, i)
  BY <1>2 DEF Ends
<1>4. ASSUME NEW e \in 1 .. n PROVE Start(longer, e) = Start(bytes, e)
  <2>1. e - 1 \in 0 .. n
    OBVIOUS
  <2> QED
    BY <1>1, <1>3, <2>1 DEF Start
<1> QED
  BY <1>3, <1>4

-----------------------------------------------------------------------------
(* Strings: the invariant.                                                 *)

(* The strings that end in the first b bytes of the stream were received.  *)
GotStrings(b) ==
  /\ b \in 0 .. Len(stream) /\ Len(Received) = Cardinality(Ends(stream, b))
  /\ \A k \in 1 .. Len(Received) : \E e \in Ends(stream, b) :
       /\ Cardinality(Ends(stream, e)) = k /\ Start(stream, e) \in 0 .. e
       /\ Received[k] = Terminated(SubSeq(stream, Start(stream, e) + 1, e))

(* What follows them, in a line that begins after l and was cut m times,   *)
(* is in the cache.                                                        *)
PieceIsCached(l, b, m) ==
  /\ CutAt(l, b, m) /\ LineBegins(stream, l, ReadTo)
  /\ ReadTo = b + Size(cache) /\ Size(cache) < LongestString
  /\ cache.writepos = Size(cache) /\ \A j \in 1 .. Size(cache) : cache.bytes[j] = stream[b + j]

(* The stream ends with a separator, and a string fits a buffer.           *)
Lines ==
  /\ \A i \in 1 .. Len(stream) : stream[i] \in Char
  /\ Len(stream) > 0 => stream[Len(stream)] = codec.separator /\ LongestString < MaxBufferSize
  /\ \A i \in 1 .. Len(readlist) : Len(readlist[i]) \in 1 .. MaxBufferSize - 1

(* The invariant of a session with a string codec.                         *)
StringInv(l, b, m) ==
  /\ Lines /\ GotStrings(b)
  /\ step # "stopped" => PieceIsCached(l, b, m)
  /\ step = "idle" => Left(round) = 0

(* What is assumed of the state before a step, and what holds after it.    *)
StringState(l, b, m) ==
  ~IsMessage /\ IsStringCodec(codec) /\ Typed /\ InTransit /\ StringInv(l, b, m)
StringsGoOn == Typed' /\ InTransit' /\ \E l, b, m \in Nat : StringInv(l, b, m)'

(* The ends are those of the stream.                                       *)
LEMMA EndsAreLocal ==
  ASSUME codec' = codec, NEW n
  PROVE  Ends(stream, n)' = Ends(stream', n) /\ Start(stream, n)' = Start(stream', n)
BY DEF Ends, EndsString, LineStart, LongestString, Start

(* A line is one of the stream.                                            *)
LEMMA LinesAreLocal ==
  ASSUME codec' = codec, NEW l, NEW n
  PROVE  /\ LineBegins(stream, l, n)' <=> LineBegins(stream', l, n)
         /\ LongestString' = LongestString
         /\ \A b, m \in Nat : CutAt(n, b, m)' <=> CutAt(n, b, m)
BY DEF LineBegins, LongestString, CutAt

(* What was received stays received, of a stream that may go on.           *)
LEMMA GotStays ==
  ASSUME NEW b, GotStrings(b), codec' = codec, Received' = Received,
         Len(stream) \in Nat, Len(stream') \in Nat, Len(stream) <= Len(stream'), stream \in Seq(Int), stream' \in Seq(Int),
         \A i \in 1 .. Len(stream) : stream'[i] = stream[i],
         Len(stream) > 0 => stream[Len(stream)] = codec.separator,
         NEW c \in b .. Len(stream), Ends(stream, c) = Ends(stream, b)
  PROVE  GotStrings(c)'
<1>1. /\ \A n \in 0 .. Len(stream) : Ends(stream', n) = Ends(stream, n)
      /\ \A e \in 1 .. Len(stream) : Start(stream', e) = Start(stream, e)
  BY EndsStay
<1>2. \A n : Ends(stream, n)' = Ends(stream', n) /\ Start(stream, n)' = Start(stream', n)
  BY EndsAreLocal
<1>3. b \in Nat /\ c \in Nat /\ c \in 0 .. Len(stream) /\ c \in 0 .. Len(stream')
  BY DEF GotStrings
<1>4. Ends(stream, c)' = Ends(stream, b)
  BY <1>1, <1>2, <1>3
<1>5. ASSUME NEW e \in Ends(stream, b), Start(stream, e) \in 0 .. e
      PROVE  /\ Ends(stream, e)' = Ends(stream, e) /\ Start(stream, e)' = Start(stream, e)
             /\ Terminated(SubSeq(stream, Start(stream, e) + 1, e))' = Terminated(SubSeq(stream, Start(stream, e) + 1, e))
  <2>1. e \in 1 .. Len(stream) /\ e \in 0 .. Len(stream) /\ EndsString(stream, e) /\ e <= b
    BY <1>3 DEF GotStrings, Ends
  <2>2. Ends(stream, e)' = Ends(stream, e) /\ Start(stream, e)' = Start(stream, e)
    BY <1>1, <1>2, <2>1
  <2> DEFINE a == Start(stream, e)
  <2>3. a \in Nat /\ a <= e
    BY <1>5
  <2> HIDE DEF a
  <2>4. SubSeq(stream', a + 1, e) = SubSeq(stream, a + 1, e)
    <3>1. /\ e \in Nat /\ e <= Len(stream) /\ e <= Len(stream')
          /\ \A i \in 1 .. e : stream'[i] = stream[i]
      BY <2>1
    <3> QED
      BY <2>3, <3>1, SamePieces
  <2> QED
    BY <2>2, <2>4 DEF Terminated, a
<1>6. Len(Received)' = Cardinality(Ends(stream, c))'
  BY <1>4 DEF GotStrings
<1>7. ASSUME NEW k \in 1 .. Len(Received')
      PROVE  \E e \in Ends(stream, c)' : /\ Cardinality(Ends(stream, e)') = k /\ Start(stream, e)' \in 0 .. e
               /\ Received'[k] = Terminated(SubSeq(stream, Start(stream, e) + 1, e))'
  <2>1. PICK e \in Ends(stream, b) : /\ Cardinality(Ends(stream, e)) = k /\ Start(stream, e) \in 0 .. e
               /\ Received[k] = Terminated(SubSeq(stream, Start(stream, e) + 1, e))
    BY DEF GotStrings
  <2> QED
    BY <1>4, <1>5, <2>1
<1> QED
  BY <1>3, <1>6, <1>7 DEF GotStrings

(* A char is put after the others.                                         *)
LEMMA CharIsPut ==
  ASSUME NEW buf, IsBuffer(buf), NEW n \in Nat, n = Len(buf.bytes), n < MaxBufferSize, buf.writepos = n, NEW ch \in Int
  PROVE  LET r == PutByte(Resize(buf, n + 1), ch)
         IN  /\ IsBuffer(r) /\ Len(r.bytes) = n + 1 /\ r.writepos = n + 1
             /\ r.bytes[n + 1] = ch /\ \A i \in 1 .. n : r.bytes[i] = buf.bytes[i]
<1> DEFINE wide == Resize(buf, n + 1)
<1>1. IsBuffer(wide) /\ Len(wide.bytes) = n + 1 /\ wide.writepos = n /\ \A i \in 1 .. n : wide.bytes[i] = buf.bytes[i]
  <2>1. n + 1 \in Nat /\ Smaller(n + 1, MaxBufferSize) = n + 1
    BY Sizes DEF Smaller
  <2>2. /\ IsBuffer(wide) /\ Len(wide.bytes) = n + 1 /\ wide.writepos = n
        /\ \A i \in 1 .. n + 1 : i <= n => wide.bytes[i] = buf.bytes[i]
    <3>1. /\ IsBuffer(wide) /\ Len(wide.bytes) = Smaller(n + 1, MaxBufferSize) /\ wide.writepos = buf.writepos
          /\ \A i \in 1 .. Len(wide.bytes) : i <= Len(buf.bytes) => wide.bytes[i] = buf.bytes[i]
      BY <2>1, ResizeIs
    <3> HIDE DEF wide
    <3> QED
      BY <2>1, <3>1
  <2> QED
    BY <2>2
<1> HIDE DEF wide
<1> DEFINE one == <<ch>>
<1>2. one \in Seq(Byte) /\ Len(one) = 1 /\ one[1] = ch
  BY DEF Byte
<1> HIDE DEF one
<1>3. /\ IsBuffer(PutBuf(wide, one)) /\ Len(PutBuf(wide, one).bytes) = Len(wide.bytes)
      /\ \A i \in 1 .. Len(one) : PutBuf(wide, one).bytes[wide.writepos + i] = one[i]
      /\ \A i \in 1 .. wide.writepos : PutBuf(wide, one).bytes[i] = wide.bytes[i]
      /\ PutBuf(wide, one).writepos = wide.writepos + Len(one)
  <2>1. wide.writepos + Len(one) <= Len(wide.bytes)
    BY <1>1, <1>2
  <2> QED
    BY <1>1, <1>2, <2>1, PutBufIs, ZenonT(30)
<1>4. PutByte(wide, ch) = PutBuf(wide, one)
  BY DEF PutByte, one
<1>5. PutBuf(wide, one).bytes[n + 1] = ch
  <2>1. 1 \in 1 .. Len(one)
    BY <1>2
  <2> QED
    BY <1>1, <1>2, <1>3, <2>1
<1>6. \A i \in 1 .. n : PutBuf(wide, one).bytes[i] = buf.bytes[i]
  BY <1>1, <1>3
<1> QED
  BY <1>1, <1>2, <1>3, <1>4, <1>5, <1>6 DEF wide

(* A cache emptied.                                                        *)
LEMMA EmptiedIs ==
  ASSUME NEW c, IsBuffer(c)
  PROVE  IsBuffer(Emptied(c)) /\ Len(Emptied(c).bytes) = 0 /\ Emptied(c).writepos = 0
<1> DEFINE r == Resize(c, 0)
           f == [r EXCEPT !.flag = 0]
<1>1. IsBuffer(r) /\ Len(r.bytes) = 0
  BY ResizeIs, Sizes DEF Smaller
<1> HIDE DEF r
<1>2. IsBuffer(f) /\ Len(f.bytes) = 0
  <2>1. IsRecord(r)
    BY <1>1 DEF IsBuffer
  <2>2. IsRecord(f) /\ f.bytes = r.bytes /\ f.readpos = r.readpos /\ f.writepos = r.writepos
    BY <2>1, FlagIsSet
  <2> HIDE DEF f
  <2> QED
    BY <1>1, <2>2 DEF IsBuffer
<1> HIDE DEF f
<1>3. Emptied(c) = Rewind(f)
  BY DEF Emptied, f, r
<1> QED
  BY <1>2, <1>3, RewindIs

(* What a program is given of a string that fits a buffer.                 *)
LEMMA DecodeTerminates ==
  ASSUME NEW bytes \in Seq(Byte), Len(bytes) \in 1 .. MaxBufferSize - 1
  PROVE  DecodeString(bytes) = Terminated(bytes)
<1> DEFINE n == Len(bytes)
           new == [NewBuffer(0) EXCEPT !.bytes = bytes]
           wide == Resize(new, n + 1)
           at == [wide EXCEPT !.writepos = n]
           one == <<0>>
<1>1. n \in Nat \ {0} /\ n + 1 <= MaxBufferSize /\ bytes # <<>>
  BY Sizes
<1>2. CASE bytes[n] = 0
  BY <1>1, <1>2 DEF DecodeString, Terminated
<1>3. CASE bytes[n] # 0
  <2>1. DecodeString(bytes) = PutByte(at, 0).bytes /\ Terminated(bytes) = Append(bytes, 0)
    BY <1>1, <1>3 DEF DecodeString, Terminated
  <2>2. IsBuffer(new) /\ new.bytes = bytes
    <3>1. new = [bytes |-> bytes, readpos |-> 0, writepos |-> 0, state |-> 0, flag |-> 0]
      BY DEF NewBuffer
    <3> QED
      BY <3>1 DEF IsBuffer, IsRecord
  <2> HIDE DEF new, n
  <2>3. IsBuffer(wide) /\ Len(wide.bytes) = n + 1 /\ \A i \in 1 .. n : wide.bytes[i] = bytes[i]
    <3>1. n + 1 \in Nat /\ Smaller(n + 1, MaxBufferSize) = n + 1
      BY <1>1, Sizes DEF Smaller
    <3>2. /\ IsBuffer(wide) /\ Len(wide.bytes) = n + 1
          /\ \A i \in 1 .. n + 1 : i <= Len(new.bytes) => wide.bytes[i] = new.bytes[i]
      <4>1. /\ IsBuffer(wide) /\ Len(wide.bytes) = Smaller(n + 1, MaxBufferSize)
            /\ \A i \in 1 .. Len(wide.bytes) : i <= Len(new.bytes) => wide.bytes[i] = new.bytes[i]
        BY <2>2, <3>1, ResizeIs
      <4> HIDE DEF wide
      <4> QED
        BY <3>1, <4>1
    <3> QED
      BY <1>1, <2>2, <3>2 DEF n
  <2> HIDE DEF wide
  <2>4. IsBuffer(at) /\ at.bytes = wide.bytes /\ at.writepos = n
    <3>1. at = [bytes |-> wide.bytes, readpos |-> wide.readpos, writepos |-> n,
                state |-> wide.state, flag |-> wide.flag]
      BY <2>3 DEF IsBuffer, IsRecord
    <3> QED
      BY <1>1, <2>3, <3>1 DEF IsBuffer, IsRecord
  <2> HIDE DEF at
  <2>5. one \in Seq(Byte) /\ Len(one) = 1 /\ one[1] = 0
    BY DEF Byte
  <2> HIDE DEF one
  <2> DEFINE r == PutBuf(at, one)
  <2>6. /\ IsBuffer(r) /\ Len(r.bytes) = Len(at.bytes)
        /\ \A i \in 1 .. Len(one) : r.bytes[at.writepos + i] = one[i]
        /\ \A i \in 1 .. at.writepos : r.bytes[i] = at.bytes[i]
    <3>1. at.writepos + Len(one) <= Len(at.bytes)
      BY <1>1, <2>3, <2>4, <2>5
    <3> QED
      BY <2>4, <2>5, <3>1, PutBufIs, ZenonT(30)
  <2>7. PutByte(at, 0) = r
    BY DEF PutByte, one
  <2> HIDE DEF r
  <2>8. r.bytes[n + 1] = 0
    <3>1. 1 \in 1 .. Len(one)
      BY <2>5
    <3> QED
      BY <2>4, <2>5, <2>6, <3>1
  <2>9. \A i \in 1 .. n : r.bytes[i] = bytes[i]
    BY <2>3, <2>4, <2>6
  <2>10. /\ Append(bytes, 0) \in Seq(Byte) /\ Len(Append(bytes, 0)) = n + 1 /\ Append(bytes, 0)[n + 1] = 0
         /\ \A i \in 1 .. n : Append(bytes, 0)[i] = bytes[i]
    BY DEF n, Byte
  <2>11. r.bytes \in Seq(Byte) /\ Len(r.bytes) = n + 1
    BY <2>3, <2>4, <2>6 DEF IsBuffer
  <2>12. ASSUME NEW s \in Seq(Byte), NEW t \in Seq(Byte), Len(s) = n + 1, Len(t) = n + 1, s[n + 1] = t[n + 1],
                \A i \in 1 .. n : s[i] = t[i]
         PROVE  s = t
    <3>1. \A i \in 1 .. n + 1 : s[i] = t[i]
      BY <1>1, <2>12
    <3> QED
      BY <2>12, <3>1
  <2>13. r.bytes = Append(bytes, 0)
    BY <2>8, <2>9, <2>10, <2>11, <2>12
  <2> QED
    BY <2>1, <2>7, <2>13
<1> QED
  BY <1>2, <1>3

(* The string that ends next is received.                                  *)
LEMMA GotOneMore ==
  ASSUME ~IsMessage, Typed, NEW b, GotStrings(b), NEW d \in Nat \ {0}, b + d <= Len(stream),
         \A i \in b + 1 .. (b + d) - 1 : ~EndsString(stream, i), EndsString(stream, b + d), Start(stream, b + d) = b,
         NEW bytes \in Seq(Byte), Len(bytes) = d, \A j \in 1 .. d : bytes[j] = stream[b + j],
         UNCHANGED <<codec, stream, handled>>, readlist' = Append(readlist, bytes),
         NEW c \in b + d .. Len(stream), Ends(stream, c) = Ends(stream, b + d)
  PROVE  GotStrings(c)' /\ readlist' \in Seq(Seq(Byte))
<1> DEFINE e == b + d
           k == Len(Received)
<1>1. b \in Nat /\ e \in Nat /\ b < e /\ c \in 0 .. Len(stream) /\ Len(stream) \in Nat /\ stream \in Seq(Int)
      /\ e <= Len(stream) /\ e <= c
  BY SMTT(30) DEF GotStrings, Typed
<1>2. Received' = Append(Received, Terminated(bytes)) /\ readlist' \in Seq(Seq(Byte))
  BY DeliverReceives DEF Shown
<1>3. Received \in Seq(Seq(Byte)) /\ k \in Nat
  BY ReceivedIs
<1>4. bytes = SubSeq(stream, b + 1, e)
  <2> DEFINE s == SubSeq(stream, b + 1, b + d)
  <2>1. s \in Seq(Int) /\ Len(s) = d /\ \A i \in 1 .. d : s[i] = stream[b + i]
    BY <1>1, PieceIs, SMTT(30)
  <2> HIDE DEF s
  <2>2. bytes = s
    BY <2>1
  <2> QED
    BY <2>2 DEF s
<1>5. Terminated(bytes) \in Seq(Byte)
  BY DEF Terminated, Byte
<1>6. /\ Len(Received') = k + 1 /\ Received'[k + 1] = Terminated(bytes)
      /\ \A i \in 1 .. k : Received'[i] = Received[i]
  <2>1. ASSUME NEW S, NEW r \in Seq(S), NEW x \in S
        PROVE  /\ Len(Append(r, x)) = Len(r) + 1 /\ Append(r, x)[Len(r) + 1] = x
               /\ \A i \in 1 .. Len(r) : Append(r, x)[i] = r[i]
    OBVIOUS
  <2> QED
    BY <1>2, <1>3, <1>5, <2>1
<1> HIDE DEF k
<1>7. /\ Ends(stream, e) = Ends(stream, b) \cup {e}
      /\ Cardinality(Ends(stream, e)) = Cardinality(Ends(stream, b)) + 1
  BY <1>1, OneMoreEnd
<1>8. Cardinality(Ends(stream, b)) = k
  BY DEF GotStrings, k
<1>9. \A n : Ends(stream, n)' = Ends(stream, n) /\ Start(stream, n)' = Start(stream, n)
  BY EndsAreLocal
<1>10. ASSUME NEW i \in 1 .. k + 1
       PROVE  \E f \in Ends(stream, e) : /\ Cardinality(Ends(stream, f)) = i /\ Start(stream, f) \in 0 .. f
               /\ Received'[i] = Terminated(SubSeq(stream, Start(stream, f) + 1, f))
  <2>1. CASE i = k + 1
    <3>1. e \in Ends(stream, e) /\ Cardinality(Ends(stream, e)) = i /\ Start(stream, e) = b /\ b \in 0 .. e
      BY <1>1, <1>7, <1>8, <2>1
    <3> QED
      BY <1>4, <1>6, <2>1, <3>1
  <2>2. CASE i \in 1 .. k
    <3>1. PICK f \in Ends(stream, b) : /\ Cardinality(Ends(stream, f)) = i /\ Start(stream, f) \in 0 .. f
               /\ Received[i] = Terminated(SubSeq(stream, Start(stream, f) + 1, f))
      BY <2>2 DEF GotStrings, k
    <3> QED
      BY <1>6, <1>7, <2>2, <3>1
  <2> QED
    BY <1>3, <2>1, <2>2 DEF k
<1>11. Len(Received') = Cardinality(Ends(stream, c))'
  BY <1>6, <1>7, <1>8, <1>9
<1>12. ASSUME NEW i \in 1 .. Len(Received')
       PROVE  \E f \in Ends(stream, c)' : /\ Cardinality(Ends(stream, f))' = i /\ Start(stream, f)' \in 0 .. f
               /\ Received'[i] = Terminated(SubSeq(stream', Start(stream, f)' + 1, f))
  BY <1>6, <1>9, <1>10
<1> QED
  BY <1>1, <1>2, <1>11, <1>12 DEF GotStrings, Terminated

(* A char of the stream is read as it is.                                  *)
LEMMA CharIsRead ==
  ASSUME Typed, InTransit, Lines, step # "stopped", Left(round) > 0
  PROVE  /\ ReadTo \in Nat /\ ReadTo + 1 <= Len(stream) /\ Len(stream) \in Nat
         /\ GetByte(round) = stream[ReadTo + 1] /\ GetByte(round) \in Int
<1>1. /\ Arrived \in Nat /\ Arrived <= Len(stream) /\ Len(stream) \in Nat /\ Left(round) \in Nat
      /\ ReadTo \in Nat /\ ReadTo + Left(round) = Arrived
      /\ \A i \in 1 .. Left(round) : round.bytes[round.readpos + i] = stream[ReadTo + i]
  BY PositionsAre
<1>2. ReadTo + 1 <= Len(stream) /\ ReadTo + 1 \in 1 .. Len(stream) /\ ~(Left(round) < 1) /\ 1 \in 1 .. Left(round)
  BY <1>1
<1> DEFINE ch == stream[ReadTo + 1]
<1>3. ch \in Char /\ round.bytes[round.readpos + 1] = ch
  BY <1>1, <1>2 DEF Lines
<1> HIDE DEF ch
<1>4. Signed(Unsigned(ch), Values(1)) = ch /\ ch \in Int
  BY <1>3, CharIsByte
<1>5. GetByte(round) = ch
  BY <1>2, <1>3, <1>4 DEF GetByte, Digit
<1> QED
  BY <1>1, <1>2, <1>4, <1>5 DEF ch

(* The lines go on while strings are read.                                 *)
LEMMA LinesStay ==
  ASSUME Lines, Typed, UNCHANGED <<stream, codec>>,
         \/ readlist' = readlist
         \/ \E bytes \in Seq(Byte) :
              Len(bytes) \in 1 .. MaxBufferSize - 1 /\ readlist' = Append(readlist, bytes)
         \/ readlist # <<>> /\ readlist' = Tail(readlist)
  PROVE  Lines'
<1>1. LongestString' = LongestString
  BY DEF LongestString
<1>2. ASSUME NEW i \in 1 .. Len(readlist') PROVE Len(readlist'[i]) \in 1 .. MaxBufferSize - 1
  <2>0. readlist \in Seq(Seq(Byte)) /\ \A j \in 1 .. Len(readlist) : Len(readlist[j]) \in 1 .. MaxBufferSize - 1
    BY DEF Typed, Lines
  <2>1. CASE readlist' = readlist
    BY <1>2, <2>0, <2>1
  <2>2. ASSUME NEW bytes \in Seq(Byte), Len(bytes) \in 1 .. MaxBufferSize - 1, readlist' = Append(readlist, bytes)
        PROVE  Len(readlist'[i]) \in 1 .. MaxBufferSize - 1
    <3>1. ASSUME NEW S, NEW r \in Seq(S), NEW x \in S, NEW j \in 1 .. Len(Append(r, x))
          PROVE  Append(r, x)[j] = x \/ (j \in 1 .. Len(r) /\ Append(r, x)[j] = r[j])
      OBVIOUS
    <3>2. readlist'[i] = bytes \/ (i \in 1 .. Len(readlist) /\ readlist'[i] = readlist[i])
      BY <2>0, <2>2, <3>1
    <3> QED
      BY <2>0, <2>2, <3>2
  <2>3. CASE readlist # <<>> /\ readlist' = Tail(readlist)
    <3>1. ASSUME NEW S, NEW r \in Seq(S), r # <<>>, NEW j \in 1 .. Len(Tail(r))
          PROVE  j + 1 \in 1 .. Len(r) /\ Tail(r)[j] = r[j + 1]
      BY <3>1
    <3>2. i + 1 \in 1 .. Len(readlist) /\ readlist'[i] = readlist[i + 1]
      BY <2>0, <2>3, <3>1
    <3> QED
      BY <2>0, <3>2
  <2> QED
    BY <2>1, <2>2, <2>3
<1> QED
  BY <1>1, <1>2 DEF Lines

(* A line that begins here, with nothing cached.                           *)
LEMMA LineIsNew ==
  ASSUME codec' = codec, stream' = stream, IsStringCodec(codec), NEW q \in Nat,
         stream[q + 1] = codec.separator, ReadTo' = q + 1, Len(cache'.bytes) = 0, cache'.writepos = 0
  PROVE  PieceIsCached(q + 1, q + 1, 0)'
<1> DEFINE p == q + 1
<1>1. p \in Nat /\ LongestString \in Nat \ {0} /\ LongestString' = LongestString
  BY LongestIs, LinesAreLocal
<1>2. CutAt(p, p, 0)'
  <2>1. \A x, y \in Nat : x = x + y * 0
    OBVIOUS
  <2> QED
    BY <1>1, <2>1 DEF CutAt
<1>3. LineBegins(stream, p, p)
  BY <1>1 DEF LineBegins
<1>4. LineBegins(stream, p, p)'
  BY <1>3, LinesAreLocal
<1>5. Size(cache)' = 0
  BY DEF Size
<1> HIDE DEF p
<1>6. ReadTo' = p
  BY DEF p
<1>7. LineBegins(stream, p, ReadTo)'
  BY <1>4, <1>6 DEF LineBegins
<1>8. \A j \in 1 .. Size(cache)' : FALSE
  BY <1>5
<1>9. PieceIsCached(p, p, 0)'
  BY <1>1, <1>2, <1>5, <1>6, <1>7, <1>8 DEF PieceIsCached
<1> QED
  BY <1>9 DEF p

(* A char is read: a separator ends a string or an empty line, another     *)
(* makes the string in the cache longer, perhaps as long as may be.        *)
LEMMA CharStep ==
  ASSUME NEW l \in Nat, NEW b \in Nat, NEW m \in Nat, StringState(l, b, m), ExtractChar, Sound, Sound'
  PROVE  StringsGoOn
<1> USE DEF StringState
<1>0. PICK q, n, L : q = ReadTo /\ n = Len(cache.bytes) /\ L = LongestString
  OBVIOUS
<1> DEFINE ch == GetByte(round)
           rest == [round EXCEPT !.readpos = @ + 1]
           longer == PutByte(Resize(cache, n + 1), ch)
<1>1. /\ step = "extract" /\ Left(round) > 0
      /\ UNCHANGED <<sent, stream, handled, session, codec, wire>>
  BY DEF ExtractChar, talkVars
<1>2. Lines /\ GotStrings(b) /\ PieceIsCached(l, b, m)
  BY <1>1 DEF StringInv
<1>3. q \in Nat /\ q + 1 <= Len(stream) /\ Len(stream) \in Nat /\ ch = stream[q + 1] /\ ch \in Int
  BY <1>0, <1>1, <1>2, CharIsRead
<1>4. ASSUME round' = rest, step' = step PROVE InTransit' /\ ReadTo' = q + 1
  <2>1. 1 \in Nat /\ 1 <= Left(round)
    BY <1>1, PositionsAre
  <2> QED
    BY <1>0, <1>1, <1>4, <2>1, Advances
<1>5. /\ n \in Nat /\ L \in Nat \ {0} /\ n < L /\ L < MaxBufferSize /\ MaxBufferSize \in Nat
      /\ q = b + n /\ cache.writepos = n /\ \A j \in 1 .. n : cache.bytes[j] = stream[b + j]
      /\ CutAt(l, b, m) /\ LineBegins(stream, l, q) /\ l <= q
  <2>1. n \in Nat /\ L \in Nat \ {0} /\ MaxBufferSize \in Nat
    BY <1>0, LongestIs, Sizes DEF Typed, IsBuffer
  <2>2. Len(stream) > 0
    BY <1>3
  <2>3. L < MaxBufferSize
    BY <1>0, <1>2, <2>2 DEF Lines
  <2> QED
    BY <1>0, <1>2, <2>1, <2>3 DEF PieceIsCached, Size, LineBegins
<1>6. stream \in Seq(Int) /\ IsBuffer(cache) /\ readlist \in Seq(Seq(Byte))
  BY DEF Typed
<1>7. IsBuffer(longer) /\ Len(longer.bytes) = n + 1 /\ longer.writepos = n + 1
      /\ longer.bytes[n + 1] = ch /\ \A i \in 1 .. n : longer.bytes[i] = cache.bytes[i]
  <2>1. n < MaxBufferSize
    BY <1>5
  <2> HIDE DEF ch
  <2>2. n \in Nat /\ n = Len(cache.bytes) /\ cache.writepos = n /\ ch \in Int /\ IsBuffer(cache)
    BY <1>0, <1>3, <1>5, <1>6
  <2> QED
    BY <2>1, <2>2, CharIsPut, SMTT(30)
<1>8. longer.bytes \in Seq(Byte) /\ \A j \in 1 .. n + 1 : longer.bytes[j] = stream[b + j]
  <2>1. longer.bytes \in Seq(Byte)
    BY <1>7 DEF IsBuffer
  <2> HIDE DEF longer, ch
  <2>2. ASSUME NEW j \in 1 .. n + 1 PROVE longer.bytes[j] = stream[b + j]
    <3>1. CASE j = n + 1
      <4>1. q + 1 = b + j
        BY <1>5, <3>1
      <4> QED
        BY <1>3, <1>7, <3>1, <4>1
    <3>2. CASE j \in 1 .. n
      BY <1>5, <1>7, <3>2
    <3> QED
      BY <1>5, <3>1, <3>2
  <2> QED
    BY <2>1, <2>2
<1>9. ASSUME NEW c, IsBuffer(c), cache' = Emptied(c)
      PROVE  IsBuffer(cache') /\ Len(cache'.bytes) = 0 /\ cache'.writepos = 0
  BY <1>9, EmptiedIs
<1>10. Len(stream) > 0 => stream[Len(stream)] = codec.separator
  BY <1>2 DEF Lines
<1> HIDE DEF longer, ch, rest
<1>11. ASSUME ch = codec.separator, n > 0, round' = rest, step' = step, cache' = Emptied(cache),
              readlist' = Append(readlist, cache.bytes)
       PROVE  StringsGoOn
  <2>1. n \in Nat \ {0} /\ n \in 1 .. L /\ b + n <= Len(stream) /\ b + n < Len(stream) /\ b + n = q
        /\ n \in 1 .. MaxBufferSize - 1
    BY <1>3, <1>5, <1>11
  <2>2. stream[(b + n) + 1] = codec.separator
    BY <1>3, <1>11, <2>1
  <2>3. /\ \A i \in b + 1 .. (b + n) - 1 : ~EndsString(stream, i)
        /\ EndsString(stream, b + n) /\ Start(stream, b + n) = b
    <3>1. LineBegins(stream, l, b + n)
      BY <1>5, <2>1
    <3>2. n \in 1 .. LongestString
      BY <1>0, <1>5, <2>1
    <3> QED
      BY <1>5, <2>1, <2>2, <3>1, <3>2, PieceEnds, ZenonT(30)
  <2>4. Ends(stream, (b + n) + 1) = Ends(stream, b + n)
    <3>1. b + n \in Nat
      BY <2>1
    <3> QED
      BY <2>2, <3>1, SeparatorIsNoEnd
  <2>5. cache.bytes \in Seq(Byte) /\ Len(cache.bytes) = n
    BY <1>0, <1>6 DEF IsBuffer
  <2>6. GotStrings((b + n) + 1)' /\ readlist' \in Seq(Seq(Byte))
    <3>1. (b + n) + 1 \in b + n .. Len(stream)
      BY <1>3, <2>1
    <3> QED
      BY <1>1, <1>2, <1>5, <1>11, <2>1, <2>3, <2>4, <2>5, <3>1, GotOneMore
  <2>7. IsBuffer(cache') /\ Len(cache'.bytes) = 0 /\ cache'.writepos = 0
    BY <1>6, <1>9, <1>11
  <2>8. InTransit' /\ ReadTo' = q + 1
    BY <1>4, <1>11
  <2>9. PieceIsCached(q + 1, q + 1, 0)'
    BY <1>1, <1>3, <1>11, <2>7, <2>8, LineIsNew
  <2>10. Lines'
    BY <1>1, <1>2, <1>11, <2>1, <2>5, LinesStay
  <2>11. Typed'
    BY <1>1, <2>6, <2>7 DEF Typed
  <2>12. GotStrings(q + 1)'
    BY <2>1, <2>6
  <2>13. StringInv(q + 1, q + 1, 0)'
    BY <1>1, <1>11, <2>9, <2>10, <2>12 DEF StringInv
  <2>14. q + 1 \in Nat /\ 0 \in Nat
    BY <1>3
  <2> QED
    BY <2>8, <2>11, <2>13, <2>14 DEF StringsGoOn
<1>12. ASSUME ch = codec.separator, n = 0, round' = rest, UNCHANGED <<cache, step, readlist>>
       PROVE  StringsGoOn
  <2>1. b = q /\ stream[b + 1] = codec.separator
    BY <1>3, <1>5, <1>12
  <2>2. Ends(stream, b + 1) = Ends(stream, b)
    BY <2>1, SeparatorIsNoEnd
  <2>3. Received' = Received
    BY <1>1, <1>12, ReceivedStays
  <2>4. GotStrings(b + 1)'
    <3>1. b + 1 \in b .. Len(stream) /\ Len(stream) <= Len(stream)
      BY <1>3, <2>1
    <3> QED
      BY <1>1, <1>2, <1>3, <1>6, <1>10, <2>2, <2>3, <3>1, GotStays
  <2>5. InTransit' /\ ReadTo' = q + 1
    BY <1>4, <1>12
  <2>6. PieceIsCached(q + 1, q + 1, 0)'
    <3>1. Len(cache'.bytes) = 0 /\ cache'.writepos = 0
      BY <1>0, <1>5, <1>12
    <3> QED
      BY <1>1, <1>3, <1>12, <2>5, <3>1, LineIsNew
  <2>7. Lines' /\ Typed'
    BY <1>1, <1>2, <1>12, LinesStay DEF Typed
  <2>8. StringInv(q + 1, q + 1, 0)'
    BY <1>1, <1>12, <2>1, <2>4, <2>6, <2>7 DEF StringInv
  <2>9. q + 1 \in Nat /\ 0 \in Nat
    BY <1>3
  <2> QED
    BY <2>5, <2>7, <2>8, <2>9 DEF StringsGoOn
<1>13. ASSUME ch # codec.separator PROVE LineBegins(stream, l, q + 1)
  <2>1. stream[q + 1] # codec.separator
    BY <1>3, <1>13
  <2> QED
    BY <1>3, <1>5, <2>1 DEF LineBegins
<1>14. ASSUME ch # codec.separator, n + 1 < L, cache' = longer, round' = rest, UNCHANGED <<step, readlist>>
       PROVE  StringsGoOn
  <2>1. InTransit' /\ ReadTo' = q + 1
    BY <1>4, <1>14
  <2>2. Lines' /\ Typed'
    BY <1>1, <1>2, <1>7, <1>14, LinesStay DEF Typed
  <2>3. GotStrings(b)'
    <3>1. b \in b .. Len(stream) /\ Len(stream) <= Len(stream) /\ Received' = Received
      BY <1>1, <1>2, <1>3, <1>14, ReceivedStays DEF GotStrings
    <3> QED
      BY <1>1, <1>2, <1>3, <1>6, <1>10, <3>1, GotStays
  <2>4. LineBegins(stream, l, q + 1)'
    BY <1>1, <1>13, <1>14, LinesAreLocal
  <2>5. LongestString' = L
    BY <1>0, <1>1, LinesAreLocal
  <2>6. Size(cache)' = n + 1 /\ cache'.writepos = n + 1 /\ \A j \in 1 .. n + 1 : cache'.bytes[j] = stream'[b + j]
    BY <1>1, <1>7, <1>8, <1>14 DEF Size
  <2>7. q + 1 = b + (n + 1)
    BY <1>5
  <2>8. LineBegins(stream, l, ReadTo)'
    BY <2>1, <2>4 DEF LineBegins
  <2>9. PieceIsCached(l, b, m)'
    <3>1. CutAt(l, b, m)'
      BY <1>1, <1>5, LinesAreLocal
    <3> QED
      BY <3>1, <1>5, <1>14, <2>1, <2>5, <2>6, <2>7, <2>8 DEF PieceIsCached
  <2>10. StringInv(l, b, m)'
    BY <1>1, <1>14, <2>2, <2>3, <2>9 DEF StringInv
  <2> QED
    BY <2>1, <2>2, <2>10 DEF StringsGoOn
<1>15. ASSUME ch # codec.separator, n + 1 = L, cache' = Emptied(longer), round' = rest, step' = step,
              readlist' = Append(readlist, longer.bytes)
       PROVE  StringsGoOn
  <2>1. /\ L \in Nat \ {0} /\ L \in 1 .. L /\ L \in 1 .. MaxBufferSize - 1
        /\ b + L = q + 1 /\ b + L <= Len(stream) /\ b + L \in Nat
    BY <1>3, <1>5, <1>15
  <2>2. LineBegins(stream, l, b + L)
    BY <1>13, <1>15, <2>1
  <2>3. /\ \A i \in b + 1 .. (b + L) - 1 : ~EndsString(stream, i)
        /\ EndsString(stream, b + L) /\ Start(stream, b + L) = b
    <3>1. L \in 1 .. LongestString /\ CutAt(l, b, m)
      BY <1>0, <1>5, <2>1
    <3> QED
      BY <1>0, <2>2, <3>1, PieceEnds
  <2>4. longer.bytes \in Seq(Byte) /\ Len(longer.bytes) = L /\ \A j \in 1 .. L : longer.bytes[j] = stream[b + j]
    BY <1>7, <1>8, <1>15
  <2>5. GotStrings(b + L)' /\ readlist' \in Seq(Seq(Byte))
    <3>1. b + L \in b + L .. Len(stream)
      BY <1>3, <2>1
    <3> QED
      BY <1>1, <1>2, <1>15, <2>1, <2>3, <2>4, <3>1, GotOneMore
  <2>6. IsBuffer(cache') /\ Len(cache'.bytes) = 0 /\ cache'.writepos = 0
    BY <1>7, <1>9, <1>15
  <2>7. InTransit' /\ ReadTo' = b + L
    BY <1>4, <1>15, <2>1
  <2>8. Lines'
    BY <1>1, <1>2, <1>15, <2>1, <2>4, LinesStay
  <2>9. Typed'
    BY <1>1, <2>5, <2>6 DEF Typed
  <2>10. LineBegins(stream, l, b + L)'
    BY <1>1, <2>2, LinesAreLocal
  <2>11. LineBegins(stream, l, ReadTo)'
    BY <2>7, <2>10 DEF LineBegins
  <2>12. LongestString' = L
    BY <1>0, <1>1, LinesAreLocal
  <2>13. CutAt(l, b + L, m + 1) /\ m + 1 \in Nat
    <3>1. \A x, y, z \in Nat : (x + y * z) + y = x + y * (z + 1)
      OBVIOUS
    <3>2. b = l + L * m
      BY <1>0, <1>5 DEF CutAt
    <3> QED
      BY <1>0, <2>1, <3>1, <3>2 DEF CutAt
  <2>14. Size(cache)' = 0
    BY <2>6 DEF Size
  <2>15. \A j \in 1 .. Size(cache)' : FALSE
    BY <2>14
  <2> DEFINE c == b + L
  <2>16. c \in Nat /\ c = c + 0
    BY <2>1
  <2>17. PieceIsCached(l, c, m + 1)'
    <3>1. CutAt(l, c, m + 1)' /\ ReadTo' = c
      BY <1>1, <2>7, <2>13, <2>16, LinesAreLocal
    <3> HIDE DEF c
    <3>2. /\ ReadTo' = c + Size(cache)' /\ Size(cache)' < LongestString'
          /\ cache'.writepos = Size(cache)'
      <4>1. 0 < L
        BY <1>5
      <4> QED
        BY <2>6, <2>12, <2>14, <2>16, <3>1, <4>1
    <3> QED
      BY <2>11, <2>15, <3>1, <3>2 DEF PieceIsCached
  <2>18. StringInv(l, c, m + 1)'
    BY <1>1, <1>15, <2>5, <2>8, <2>17 DEF StringInv
  <2> QED
    BY <2>7, <2>9, <2>13, <2>16, <2>18 DEF StringsGoOn
<1>16. CASE OutOfMemory("lost")
  BY <1>16 DEF OutOfMemory, Sound
<1>17. ASSUME n + 1 < codec.maxstrlen PROVE n + 1 < L
  BY <1>0, <1>5, <1>17 DEF LongestString, Larger, IsStringCodec
<1>18. ASSUME ~(n + 1 < codec.maxstrlen) PROVE n + 1 = L
  <2>1. n + 1 >= L
    BY <1>0, <1>5, <1>18 DEF LongestString, Larger, IsStringCodec
  <2> QED
    BY <1>5, <2>1
<1>19. Size(cache) = n /\ Size(longer) = n + 1 /\ PutByte(Resize(cache, Size(cache) + 1), ch) = longer
  BY <1>0, <1>7 DEF Size, longer
<1>20. \/ ch = codec.separator /\ n > 0 /\ DeliverString(cache, rest)
       \/ ch = codec.separator /\ n = 0 /\ round' = rest /\ UNCHANGED <<cache, step, readlist, failures, faults>>
       \/ ch # codec.separator /\ n + 1 < codec.maxstrlen /\ cache' = longer /\ round' = rest
          /\ UNCHANGED <<step, readlist, failures, faults>>
       \/ ch # codec.separator /\ ~(n + 1 < codec.maxstrlen) /\ DeliverString(longer, rest)
  <2>1. n + 1 >= codec.maxstrlen => ~(n + 1 < codec.maxstrlen)
    BY <1>5 DEF IsStringCodec
  <2> QED
    BY <1>19, <2>1 DEF ExtractChar, ch, rest
<1>21. ASSUME NEW c, DeliverString(c, rest)
       PROVE  \/ readlist' = Append(readlist, c.bytes) /\ cache' = Emptied(c) /\ round' = rest /\ step' = step
              \/ OutOfMemory("lost")
  BY <1>21 DEF DeliverString, Deliver
<1> QED
  BY <1>11, <1>12, <1>14, <1>15, <1>16, <1>17, <1>18, <1>20, <1>21

(* The encoding of a string is its chars and the separator.                *)
LEMMA StringIsEncoded ==
  ASSUME IsStringCodec(codec), NEW s \in Strings, Len(s) < MaxBufferSize
  PROVE  LET message == EncodeString(codec, s)
         IN  /\ message \in Seq(Int) /\ Len(message) = Len(s) + 1
             /\ \A i \in 1 .. Len(message) : message[i] \in Char
             /\ message[Len(message)] = codec.separator
<1> DEFINE n == Len(s)
           new == NewBuffer(n + 1)
           full == PutBuf(new, s)
           one == <<codec.separator>>
           all == PutBuf(full, one)
<1>1. s \in Seq(Char) /\ n \in Nat /\ n + 1 <= MaxBufferSize /\ n + 1 \in Nat
  BY FramingAssumption, Sizes
<1>2. codec.separator \in Char /\ codec.separator \in Int
  BY CharIsByte DEF IsStringCodec
<1>3. s \in Seq(Byte) /\ \A i \in 1 .. n : s[i] \in Char
  <2>1. \A x \in Char : x \in Byte
    BY CharIsByte DEF Byte
  <2> HIDE DEF n
  <2> QED
    BY <1>1, <2>1 DEF n
<1>4. one \in Seq(Byte) /\ Len(one) = 1 /\ one[1] = codec.separator
  BY <1>2 DEF Byte
<1> HIDE DEF n, one
<1>5. IsBuffer(new) /\ Len(new.bytes) = n + 1 /\ new.writepos = 0
  BY <1>1, NewBufferIs, Sizes DEF Smaller
<1> HIDE DEF new
<1>6. /\ IsBuffer(full) /\ Len(full.bytes) = n + 1 /\ full.writepos = n
      /\ \A i \in 1 .. n : full.bytes[i] = s[i]
  <2>1. new.writepos + Len(s) <= Len(new.bytes) /\ Len(s) = n
    BY <1>1, <1>5 DEF n
  <2>2. /\ IsBuffer(full) /\ Len(full.bytes) = Len(new.bytes) /\ full.writepos = new.writepos + Len(s)
        /\ \A i \in 1 .. Len(s) : full.bytes[new.writepos + i] = s[i]
    BY <1>3, <1>5, <2>1, PutBufIs
  <2> HIDE DEF full
  <2> QED
    BY <1>1, <1>5, <2>1, <2>2
<1> HIDE DEF full
<1>7. /\ IsBuffer(all) /\ Len(all.bytes) = n + 1 /\ all.bytes[n + 1] = codec.separator
      /\ \A i \in 1 .. n : all.bytes[i] = s[i]
  <2>1. full.writepos + Len(one) <= Len(full.bytes)
    BY <1>1, <1>4, <1>6
  <2>2. /\ IsBuffer(all) /\ Len(all.bytes) = Len(full.bytes)
        /\ \A i \in 1 .. Len(one) : all.bytes[full.writepos + i] = one[i]
        /\ \A i \in 1 .. full.writepos : all.bytes[i] = full.bytes[i]
    BY <1>4, <1>6, <2>1, PutBufIs
  <2> HIDE DEF all
  <2>3. 1 \in 1 .. Len(one)
    BY <1>4
  <2>4. all.bytes[n + 1] = codec.separator
    BY <1>4, <1>6, <2>2, <2>3
  <2> QED
    BY <1>6, <2>2, <2>4
<1>8. EncodeString(codec, s) = all.bytes
  BY DEF EncodeString, PutByte, n, new, full, one
<1> DEFINE message == all.bytes
<1>9. message \in Seq(Byte) /\ Len(message) = n + 1
  BY <1>7 DEF IsBuffer
<1> HIDE DEF all
<1>10. ASSUME NEW i \in 1 .. n + 1 PROVE message[i] \in Char
  <2>1. i \in 1 .. n \/ i = n + 1
    BY <1>1, <1>10
  <2> QED
    BY <1>2, <1>3, <1>7, <2>1
<1>11. message \in Seq(Int)
  <2>1. \A x \in Char : x \in Int
    BY CharIsByte
  <2>2. ASSUME NEW t \in Seq(Byte), \A i \in 1 .. Len(t) : t[i] \in Int PROVE t \in Seq(Int)
    BY <2>2
  <2> HIDE DEF message
  <2> QED
    BY <1>9, <1>10, <2>1, <2>2
<1> QED
  BY <1>7, <1>8, <1>9, <1>10, <1>11 DEF n

(* A string is sent.                                                       *)
LEMMA SendStringStep ==
  ASSUME NEW l \in Nat, NEW b \in Nat, NEW m \in Nat, StringState(l, b, m), NEW s \in Strings, SendString(s),
         Sound, Sound'
  PROVE  StringsGoOn
<1> USE DEF StringState
<1> DEFINE message == EncodeString(codec, s)
<1>1. CarriesString(s)
  BY DEF SendString, Sound
<1>2. /\ sent' = Append(sent, message) /\ stream' = stream \o message /\ wire' = wire \o message
      /\ UNCHANGED <<codec, round, cache, step, readlist, handled>>
  BY DEF SendString
<1>3. /\ message \in Seq(Int) /\ Len(message) = Len(s) + 1
      /\ \A i \in 1 .. Len(message) : message[i] \in Char
      /\ message[Len(message)] = codec.separator
  BY <1>1, StringIsEncoded DEF CarriesString
<1>4. Len(message) \in Nat \ {0} /\ Len(stream) \in Nat /\ stream \in Seq(Int)
  <2>1. Len(s) \in Nat
    BY FramingAssumption
  <2> QED
    BY <1>3, <2>1 DEF Typed
<1> HIDE DEF message
<1>5. /\ Typed' /\ InTransit' /\ ReadTo' = ReadTo
      /\ Len(stream') = Len(stream) + Len(message)
      /\ \A i \in 1 .. Len(stream) : stream'[i] = stream[i]
      /\ \A i \in 1 .. Len(message) : stream'[Len(stream) + i] = message[i]
  BY <1>2, <1>3, Sends
<1>6. Lines /\ GotStrings(b) /\ LongestString' = LongestString
  BY <1>2, LinesAreLocal DEF StringInv
<1>7. Lines'
  <2>1. ASSUME NEW i \in 1 .. Len(stream') PROVE stream'[i] \in Char
    <3>1. CASE i \in 1 .. Len(stream)
      BY <1>5, <1>6, <3>1 DEF Lines
    <3>2. CASE i > Len(stream)
      <4>1. i - Len(stream) \in 1 .. Len(message) /\ Len(stream) + (i - Len(stream)) = i
        BY <1>4, <1>5, <3>2
      <4>2. stream'[Len(stream) + (i - Len(stream))] = message[i - Len(stream)]
        BY <1>5, <4>1
      <4> QED
        BY <1>3, <4>1, <4>2
    <3> QED
      BY <1>4, <1>5, <3>1, <3>2
  <2>2. stream'[Len(stream')] = codec.separator
    <3>1. Len(message) \in 1 .. Len(message)
      BY <1>4
    <3> QED
      BY <1>3, <1>5, <3>1
  <2> QED
    BY <1>1, <1>2, <1>6, <2>1, <2>2 DEF Lines, CarriesString
<1>8. GotStrings(b)'
  <2>1. Received' = Received
    BY <1>2, ReceivedStays
  <2>2. Len(stream) > 0 => stream[Len(stream)] = codec.separator
    BY <1>6 DEF Lines
  <2>3. b \in b .. Len(stream) /\ Len(stream') \in Nat /\ Len(stream) <= Len(stream') /\ stream' \in Seq(Int)
    BY <1>4, <1>5, <1>6 DEF GotStrings, Typed
  <2> QED
    BY <1>2, <1>4, <1>5, <1>6, <2>1, <2>2, <2>3, GotStays
<1>9. step' # "stopped" => PieceIsCached(l, b, m)'
  <2> SUFFICES ASSUME step # "stopped" PROVE PieceIsCached(l, b, m)'
    BY <1>2
  <2>1. /\ CutAt(l, b, m) /\ LineBegins(stream, l, ReadTo)
        /\ ReadTo = b + Size(cache) /\ Size(cache) < LongestString
        /\ cache.writepos = Size(cache) /\ \A j \in 1 .. Size(cache) : cache.bytes[j] = stream[b + j]
    BY DEF StringInv, PieceIsCached
  <2>2. ReadTo \in Nat /\ ReadTo <= Len(stream)
    <3>1. /\ Arrived \in Nat /\ Arrived <= Len(stream) /\ Left(round) \in Nat /\ ReadTo \in Nat
          /\ ReadTo + Left(round) = Arrived
      BY PositionsAre
    <3> QED
      BY <1>4, <3>1
  <2> DEFINE q == ReadTo
             n == Size(cache)
  <2>3. n \in Nat /\ q \in Nat /\ q <= Len(stream)
    BY <2>2 DEF Size, Typed, IsBuffer
  <2> HIDE DEF q, n
  <2>4. q = b + n /\ LineBegins(stream, l, q) /\ \A j \in 1 .. n : cache.bytes[j] = stream[b + j]
    BY <2>1 DEF q, n
  <2>5. \A j \in 1 .. n : cache.bytes[j] = stream'[b + j]
    <3>1. \A j \in 1 .. n : b + j \in 1 .. Len(stream)
      BY <1>4, <2>3, <2>4
    <3> QED
      BY <1>5, <2>4, <3>1
  <2>6. LineBegins(stream', l, q)
    <3>1. l <= q /\ (l = 0 \/ stream[l] = codec.separator) /\ \A i \in l + 1 .. q : stream[i] # codec.separator
      BY <2>4 DEF LineBegins
    <3>2. l # 0 => l \in 1 .. Len(stream)
      BY <1>4, <2>3, <3>1
    <3>3. \A i \in l + 1 .. q : i \in 1 .. Len(stream)
      BY <1>4, <2>3
    <3>4. l = 0 \/ stream'[l] = codec.separator
      BY <1>5, <3>1, <3>2
    <3>5. \A i \in l + 1 .. q : stream'[i] # codec.separator
      BY <1>5, <3>1, <3>3
    <3> QED
      BY <3>1, <3>4, <3>5 DEF LineBegins
  <2>7. LineBegins(stream, l, ReadTo)'
    BY <1>2, <1>5, <2>6 DEF LineBegins, q
  <2>8. CutAt(l, b, m)'
    BY <1>2, <2>1, LinesAreLocal
  <2>9. Size(cache)' = n /\ cache' = cache
    BY <1>2 DEF Size, n
  <2>10. /\ ReadTo' = b + Size(cache)' /\ Size(cache)' < LongestString' /\ cache'.writepos = Size(cache)'
         /\ \A j \in 1 .. Size(cache)' : cache'.bytes[j] = stream'[b + j]
    BY <1>5, <1>6, <2>1, <2>5, <2>9 DEF n
  <2> QED
    BY <2>7, <2>8, <2>10 DEF PieceIsCached
<1>10. step' = "idle" => Left(round') = 0
  BY <1>2 DEF StringInv
<1>11. StringInv(l, b, m)'
  BY <1>7, <1>8, <1>9, <1>10 DEF StringInv, Left, Size
<1> QED
  BY <1>5, <1>11 DEF StringsGoOn

(* What is cached and received stays so while nothing is extracted.        *)
LEMMA StringsStay ==
  ASSUME NEW l \in Nat, NEW b \in Nat, NEW m \in Nat, StringState(l, b, m), UNCHANGED <<codec, stream, cache>>,
         Received' = Received, Lines', Typed', InTransit', step = "stopped" => step' = "stopped",
         step' # "stopped" => ReadTo' = ReadTo, step' = "idle" => Left(round') = 0
  PROVE  StringsGoOn
<1> USE DEF StringState
<1>1. Lines /\ GotStrings(b) /\ stream \in Seq(Int) /\ Len(stream) \in Nat
  BY DEF StringInv, Typed
<1>2. GotStrings(b)'
  <2>1. Len(stream) > 0 => stream[Len(stream)] = codec.separator
    BY <1>1 DEF Lines
  <2>2. b \in b .. Len(stream) /\ Len(stream) <= Len(stream)
    BY <1>1 DEF GotStrings
  <2> QED
    BY <1>1, <2>1, <2>2, GotStays
<1>3. step' # "stopped" => PieceIsCached(l, b, m)'
  <2> SUFFICES ASSUME step' # "stopped" PROVE PieceIsCached(l, b, m)'
    OBVIOUS
  <2>1. PieceIsCached(l, b, m) /\ ReadTo' = ReadTo /\ LongestString' = LongestString
    BY LinesAreLocal DEF StringInv
  <2>2. CutAt(l, b, m)'
    BY <2>1, LinesAreLocal DEF PieceIsCached
  <2>3. LineBegins(stream, l, ReadTo)'
    BY <2>1 DEF PieceIsCached, LineBegins
  <2> QED
    BY <2>1, <2>2, <2>3 DEF PieceIsCached, Size
<1>4. StringInv(l, b, m)'
  BY <1>2, <1>3 DEF StringInv, Left, Size
<1> QED
  BY <1>4 DEF StringsGoOn

(* Bytes arrive for strings.                                               *)
LEMMA ReadStringsStep ==
  ASSUME NEW l \in Nat, NEW b \in Nat, NEW m \in Nat, StringState(l, b, m),
         NEW n \in 1 .. ReadBufferSize, OnReadBytes(n)
  PROVE  StringsGoOn
<1>1. /\ step = "idle" /\ step' # "idle" /\ UNCHANGED <<sent, stream, handled, codec, cache, readlist>>
  BY DEF OnReadBytes, talkVars
<1>2. Typed' /\ InTransit' /\ (step' # "stopped" => ReadTo' = ReadTo)
  BY Reads DEF StringState
<1>3. Lines' /\ Received' = Received
  BY <1>1, LinesStay, ReceivedStays DEF StringState, StringInv
<1> QED
  BY <1>1, <1>2, <1>3, StringsStay

(* Nothing more is there.                                                  *)
LEMMA StringEndStep ==
  ASSUME NEW l \in Nat, NEW b \in Nat, NEW m \in Nat, StringState(l, b, m), ExtractStringEnd
  PROVE  StringsGoOn
<1> USE DEF StringState
<1>1. /\ step = "extract" /\ Left(round) = 0 /\ round' = Leftover(round, FALSE) /\ step' = "idle"
      /\ UNCHANGED <<sent, stream, handled, codec, wire, cache, readlist>>
  BY DEF ExtractStringEnd, ExtractReturns, talkVars
<1>2. InTransit' /\ ReadTo' = ReadTo /\ Left(round') = 0
  <2>1. 0 \in Nat /\ 0 <= Left(round) /\ ReadTo + 0 = ReadTo /\ Left(round) - 0 = 0
    BY <1>1, PositionsAre
  <2> QED
    BY <1>1, <2>1, Advances
<1>3. Typed'
  BY <1>1 DEF Typed
<1>4. Lines' /\ Received' = Received
  BY <1>1, LinesStay, ReceivedStays DEF StringInv
<1> QED
  BY <1>1, <1>2, <1>3, <1>4, StringsStay

(* A string is handled.                                                    *)
LEMMA HandleStringStep ==
  ASSUME NEW l \in Nat, NEW b \in Nat, NEW m \in Nat, StringState(l, b, m), Handle
  PROVE  StringsGoOn
<1> USE DEF StringState
<1> DEFINE first == Head(readlist)
<1>1. /\ readlist # <<>> /\ handled' = Append(handled, DecodeString(first)) /\ readlist' = Tail(readlist)
      /\ UNCHANGED <<codec, sent, stream, wire, round, cache, step, faults>>
  BY DEF Handle
<1>2. first \in Seq(Byte) /\ Len(first) \in 1 .. MaxBufferSize - 1
  <2>1. ASSUME NEW S, NEW r \in Seq(S), r # <<>> PROVE Head(r) \in S /\ Head(r) = r[1] /\ 1 \in 1 .. Len(r)
    BY <2>1
  <2>2. readlist \in Seq(Seq(Byte)) /\ \A i \in 1 .. Len(readlist) : Len(readlist[i]) \in 1 .. MaxBufferSize - 1
    BY DEF Typed, StringInv, Lines
  <2>3. first \in Seq(Byte) /\ first = readlist[1] /\ 1 \in 1 .. Len(readlist)
    BY <1>1, <2>1, <2>2
  <2> QED
    BY <2>2, <2>3
<1> HIDE DEF first
<1>3. DecodeString(first) = Terminated(first)
  BY <1>2, DecodeTerminates
<1>4. Terminated(first) \in Seq(Byte) /\ Terminated(first) = Shown(first)
  BY <1>2 DEF Terminated, Shown, Byte
<1>5. Typed' /\ InTransit' /\ Received' = Received /\ ReadTo' = ReadTo
  BY <1>1, <1>3, <1>4, HandleLeaves DEF first
<1>6. Lines'
  BY <1>1, LinesStay DEF StringInv
<1>7. step' = "idle" => Left(round') = 0
  BY <1>1 DEF StringInv
<1> QED
  BY <1>1, <1>5, <1>6, <1>7, StringsStay

-----------------------------------------------------------------------------
(* Sessions.                                                               *)

(* What holds in a session that framing survives.                          *)
Framed ==
  /\ Typed /\ InTransit
  /\ IsMessage => \E off \in [0 .. Len(sent) -> Nat] : MessageInv(off)
  /\ ~IsMessage => \E l, b, m \in Nat : StringInv(l, b, m)

(* The invariant.                                                          *)
FramingInv == Settled /\ (Sound => Framed)

(* A session as it begins, with a read cache in the first state.           *)
Begun ==
  /\ IsMessageCodec(codec) \/ IsStringCodec(codec)
  /\ sent = <<>> /\ stream = <<>> /\ wire = <<>> /\ readlist = <<>> /\ handled = <<>>
  /\ round = Resize(NewBuffer(ReadBufferSize), 0) /\ step = "idle"
  /\ IsBuffer(cache) /\ Len(cache.bytes) = 0 /\ cache.writepos = 0 /\ cache.state = STATE_WAIT_FOR_HEADER

(* It is framed.                                                           *)
LEMMA BegunIsFramed == Begun => Framed
<1> SUFFICES ASSUME Begun PROVE Framed
  OBVIOUS
<1> USE DEF Begun
<1>1. Typed
  BY DEF Typed
<1>2. IsBuffer(round) /\ Len(round.bytes) = 0 /\ round.readpos = 0
  <2>1. IsBuffer(NewBuffer(ReadBufferSize)) /\ NewBuffer(ReadBufferSize).readpos = 0
    BY NewBufferIs, Sizes
  <2>2. Smaller(0, MaxBufferSize) = 0 /\ 0 \in Nat
    BY Sizes DEF Smaller
  <2> DEFINE new == NewBuffer(ReadBufferSize)
  <2> HIDE DEF new
  <2>3. IsBuffer(Resize(new, 0)) /\ Len(Resize(new, 0).bytes) = 0 /\ Resize(new, 0).readpos = new.readpos
    BY <2>1, <2>2, ResizeIs DEF new
  <2> QED
    BY <2>1, <2>3 DEF new
<1>3. Arrived = 0 /\ Left(round) = 0 /\ ReadTo = 0
  BY <1>2 DEF Arrived, Left, Size, ReadTo
<1>4. InTransit
  BY <1>2, <1>3, Sizes DEF InTransit, Carried
<1>5. Len(Received) = 0
  BY <1>1, ReceivedIs
<1>6. ASSUME IsMessage PROVE \E off \in [0 .. Len(sent) -> Nat] : MessageInv(off)
  <2>1. PICK o \in [0 .. 0 -> Nat] : o[0] = 0
    <3>1. [i \in 0 .. 0 |-> 0] \in [0 .. 0 -> Nat] /\ [i \in 0 .. 0 |-> 0][0] = 0
      OBVIOUS
    <3> QED
      BY <3>1
  <2>2. o \in [0 .. Len(sent) -> Nat] /\ Laid(o)
    BY <2>1 DEF Laid
  <2>3. Whole
    BY <1>5 DEF Whole
  <2>4. NextIsRead(o)
    BY <1>3, <1>5, <2>1 DEF NextIsRead
  <2>5. Drained
    <3>1. codec.headersize \in Nat \ {0}
      BY <1>6 DEF IsMessage, IsMessageCodec, IsStringCodec
    <3> QED
      BY <1>3, <3>1, TwoStates DEF Drained
  <2> QED
    BY <2>2, <2>3, <2>4, <2>5 DEF MessageInv
<1>7. ASSUME ~IsMessage PROVE StringInv(0, 0, 0)
  <2>1. Lines
    BY DEF Lines
  <2>2. GotStrings(0)
    <3>1. Ends(stream, 0) = {}
      BY DEF Ends
    <3>2. Cardinality(Ends(stream, 0)) = 0
      BY <3>1, FS_EmptySet
    <3> QED
      BY <1>5, <3>2 DEF GotStrings
  <2>3. PieceIsCached(0, 0, 0)
    <3>1. LongestString \in Nat \ {0}
      BY <1>7, LongestIs DEF IsMessage, IsMessageCodec
    <3>2. CutAt(0, 0, 0)
      BY <3>1 DEF CutAt
    <3>3. LineBegins(stream, 0, ReadTo)
      BY <1>3 DEF LineBegins
    <3> QED
      BY <1>3, <3>1, <3>2, <3>3 DEF PieceIsCached, Size
  <2> QED
    BY <1>3, <2>1, <2>2, <2>3 DEF StringInv
<1> QED
  BY <1>1, <1>4, <1>6, <1>7 DEF Framed

(* The next session is framed too, when it inherits no half-read message.  *)
LEMMA NextIsFramed == Begun' => Framed'
BY BegunIsFramed, PTL

(* The first one begins.                                                   *)
LEMMA FirstBegins == FramingInit => Begun
<1> SUFFICES ASSUME FramingInit PROVE Begun
  OBVIOUS
<1> DEFINE new == NewBuffer(ReadBufferSize)
<1>1. IsBuffer(new) /\ new.writepos = 0 /\ new.state = 0
  BY NewBufferIs, Sizes
<1>2. cache = Resize(new, 0)
  BY DEF FramingInit
<1> HIDE DEF new
<1>3. Smaller(0, MaxBufferSize) = 0 /\ 0 \in Nat
  BY Sizes DEF Smaller
<1>4. IsBuffer(Resize(new, 0)) /\ Len(Resize(new, 0).bytes) = 0
      /\ Resize(new, 0).writepos = new.writepos /\ Resize(new, 0).state = new.state
  BY <1>1, <1>3, ResizeIs
<1> QED
  BY <1>1, <1>2, <1>4, FirstCodec DEF FramingInit, Begun, STATE_WAIT_FOR_HEADER

(* So does the next, on a buffer of the pool in the first state.           *)
LEMMA NextBeginsAnew == Settled /\ NextSession /\ Sound' => Begun'
<1> SUFFICES ASSUME Settled, NextSession, Sound' PROVE Begun'
  OBVIOUS
<1> DEFINE new == NewBuffer(ReadBufferSize)
<1>1. PICK c \in {new, Rewind(cache)} :
        cache' = Resize(c, 0) /\ faults' = IF c.state = STATE_WAIT_FOR_HEADER THEN {} ELSE {"stale"}
  BY DEF NextSession
<1>2. c.state = STATE_WAIT_FOR_HEADER
  BY <1>1 DEF Sound
<1>3. IsRecord(c) /\ c.readpos = 0 /\ c.writepos = 0
  <2>1. CASE c = new
    BY <2>1, NewBufferIs, Sizes DEF IsBuffer
  <2>2. CASE c = Rewind(cache)
    <3>1. IsRecord(Rewind(cache))
      BY RecordsStay DEF Settled
    <3>2. Rewind(cache).readpos = 0 /\ Rewind(cache).writepos = 0
      BY DEF Settled, IsRecord, Rewind
    <3> QED
      BY <2>2, <3>1, <3>2
  <2> QED
    BY <1>1, <2>1, <2>2
<1>4. Resize(c, 0) = [bytes |-> <<>>, readpos |-> 0, writepos |-> 0, state |-> c.state, flag |-> c.flag]
  <2>1. Smaller(0, MaxBufferSize) = 0
    BY Sizes DEF Smaller
  <2> DEFINE none == [i \in 1 .. Smaller(0, MaxBufferSize) |-> IF i <= Size(c) THEN c.bytes[i] ELSE Junk]
  <2>2. none = <<>>
    BY <2>1
  <2>3. Resize(c, 0) = [c EXCEPT !.bytes = none]
    BY DEF Resize
  <2> HIDE DEF none
  <2>4. [c EXCEPT !.bytes = <<>>] =
          [bytes |-> <<>>, readpos |-> c.readpos, writepos |-> c.writepos, state |-> c.state, flag |-> c.flag]
    BY <1>3 DEF IsRecord
  <2> QED
    BY <1>3, <2>2, <2>3, <2>4
<1>5. IsBuffer(cache') /\ Len(cache'.bytes) = 0 /\ cache'.writepos = 0 /\ cache'.state = STATE_WAIT_FOR_HEADER
  <2> DEFINE r == [bytes |-> <<>>, readpos |-> 0, writepos |-> 0, state |-> c.state, flag |-> c.flag]
  <2>1. /\ r.bytes = <<>> /\ r.readpos = 0 /\ r.writepos = 0 /\ r.state = STATE_WAIT_FOR_HEADER
        /\ r = [bytes |-> r.bytes, readpos |-> r.readpos, writepos |-> r.writepos, state |-> r.state, flag |-> r.flag]
    BY <1>2
  <2>2. cache' = r
    BY <1>1, <1>4
  <2> HIDE DEF r
  <2>3. IsRecord(r) /\ <<>> \in Seq(Byte) /\ 0 \in Nat /\ Len(<<>>) = 0
    BY <2>1 DEF IsRecord
  <2> QED
    BY <2>1, <2>2, <2>3 DEF IsBuffer
<1>6. /\ sent' = <<>> /\ stream' = <<>> /\ wire' = <<>> /\ readlist' = <<>> /\ handled' = <<>>
      /\ round' = Resize(NewBuffer(ReadBufferSize), 0) /\ step' = "idle" /\ codec' = codec
  BY DEF NextSession
<1>7. (IsMessageCodec(codec) \/ IsStringCodec(codec))'
  BY <1>6 DEF Settled, IsMessageCodec, IsStringCodec
<1> QED
  BY <1>5, <1>6, <1>7 DEF Begun

(* In a session, what happens is not undone and the codec stays.           *)
LEMMA SoundBefore == [FramingNext]_framingVars /\ ~NextSession /\ Sound' => Sound /\ codec' = codec
<1> SUFFICES ASSUME [FramingNext]_framingVars, ~NextSession, Sound' PROVE Sound /\ codec' = codec
  OBVIOUS
<1>1. SUFFICES faults \subseteq faults' /\ codec' = codec
  BY DEF Sound
<1>2. CASE UNCHANGED framingVars
  BY <1>2 DEF framingVars
<1>3. CASE \E n \in BodySizes, tag \in {1, 2} : SendMessage(n, tag)
  BY <1>3 DEF SendMessage
<1>4. CASE \E s \in Strings : SendString(s)
  BY <1>4 DEF SendString
<1>5. CASE \E n \in 1 .. ReadBufferSize : OnReadBytes(n)
  BY <1>5 DEF OnReadBytes, talkVars
<1>6. CASE ExtractBody
  BY <1>6 DEF ExtractBody, Deliver, OutOfMemory, talkVars
<1>7. CASE ExtractHeader
  BY <1>7 DEF ExtractHeader, Deliver, OutOfMemory, talkVars
<1>8. CASE ExtractMessageEnd \/ ExtractStringEnd
  BY <1>8 DEF ExtractMessageEnd, ExtractStringEnd, talkVars
<1>9. CASE ExtractChar
  <2>1. ASSUME NEW c, NEW rest, DeliverString(c, rest) PROVE faults \subseteq faults'
    BY <2>1 DEF DeliverString, Deliver, OutOfMemory
  <2> QED
    BY <1>9, <2>1 DEF ExtractChar, talkVars
<1>10. CASE Handle
  BY <1>10 DEF Handle
<1> QED
  BY <1>2, <1>3, <1>4, <1>5, <1>6, <1>7, <1>8, <1>9, <1>10 DEF FramingNext

(* A step in a session of messages.                                        *)
LEMMA MessagesStep ==
  ASSUME NEW off, MessageState(off), FramingNext, ~NextSession, Sound, Sound'
  PROVE  MessagesGoOn
<1>1. IsMessage
  BY DEF MessageState
<1>2. ASSUME NEW n \in BodySizes, NEW tag \in {1, 2}, SendMessage(n, tag) PROVE MessagesGoOn
  BY <1>2, SendMessageStep
<1>3. ASSUME NEW s \in Strings, SendString(s) PROVE MessagesGoOn
  BY <1>1, <1>3 DEF SendString
<1>4. ASSUME NEW n \in 1 .. ReadBufferSize, OnReadBytes(n) PROVE MessagesGoOn
  BY <1>4, ReadMessagesStep
<1>5. CASE ExtractBody
  BY <1>5, BodyStep
<1>6. CASE ExtractHeader
  BY <1>6, HeaderStep
<1>7. CASE ExtractMessageEnd
  BY <1>7, MessageEndStep
<1>8. CASE ExtractChar \/ ExtractStringEnd
  BY <1>1, <1>8 DEF ExtractChar, ExtractStringEnd
<1>9. CASE Handle
  BY <1>9, HandleMessageStep
<1> QED
  BY <1>2, <1>3, <1>4, <1>5, <1>6, <1>7, <1>8, <1>9 DEF FramingNext

(* A step in a session of strings.                                         *)
LEMMA StringsStep ==
  ASSUME NEW l \in Nat, NEW b \in Nat, NEW m \in Nat, StringState(l, b, m), FramingNext, ~NextSession, Sound, Sound'
  PROVE  StringsGoOn
<1>1. ~IsMessage
  BY DEF StringState
<1>2. ASSUME NEW n \in BodySizes, NEW tag \in {1, 2}, SendMessage(n, tag) PROVE StringsGoOn
  BY <1>1, <1>2 DEF SendMessage
<1>3. ASSUME NEW s \in Strings, SendString(s) PROVE StringsGoOn
  BY <1>3, SendStringStep
<1>4. ASSUME NEW n \in 1 .. ReadBufferSize, OnReadBytes(n) PROVE StringsGoOn
  BY <1>4, ReadStringsStep
<1>5. CASE ExtractBody \/ ExtractHeader \/ ExtractMessageEnd
  BY <1>1, <1>5 DEF ExtractBody, ExtractHeader, ExtractMessageEnd
<1>6. CASE ExtractChar
  BY <1>6, CharStep
<1>7. CASE ExtractStringEnd
  BY <1>7, StringEndStep
<1>8. CASE Handle
  BY <1>8, HandleStringStep
<1> QED
  BY <1>2, <1>3, <1>4, <1>5, <1>6, <1>7, <1>8 DEF FramingNext

(* The invariant in every step.                                            *)
LEMMA FramingInvStep == FramingInv /\ [FramingNext]_framingVars => FramingInv'
<1> SUFFICES ASSUME FramingInv, [FramingNext]_framingVars PROVE FramingInv'
  OBVIOUS
<1>1. Settled /\ Settled'
  BY SettledStep DEF FramingInv
<1>2. SUFFICES ASSUME Sound' PROVE Framed'
  BY <1>1 DEF FramingInv
<1>3. CASE NextSession
  BY <1>1, <1>2, <1>3, NextBeginsAnew, NextIsFramed
<1>4. CASE ~NextSession
  <2>1. Sound /\ Framed /\ codec' = codec
    BY <1>2, <1>4, SoundBefore DEF FramingInv
  <2>2. IsMessage' <=> IsMessage
    BY <2>1 DEF IsMessage
  <2>3. CASE UNCHANGED framingVars
    <3>1. UNCHANGED <<codec, sent, stream, wire, round, cache, step, readlist, handled, faults>>
      BY <2>3 DEF framingVars
    <3>2. Typed' /\ InTransit' /\ ReadTo' = ReadTo /\ Received' = Received
      BY <2>1, <3>1, ReceivedStays DEF Framed, Typed, InTransit, Arrived, ReadTo
    <3>3. ASSUME NEW off \in [0 .. Len(sent) -> Nat], MessageInv(off)
          PROVE  off \in [0 .. Len(sent') -> Nat] /\ MessageInv(off)'
      <4>1. Laid(off)' /\ off \in [0 .. Len(sent') -> Nat] /\ Whole'
        BY <3>1, <3>3, LaidStays, WholeStays DEF MessageInv
      <4>2. step' # "stopped" => NextIsRead(off)'
        BY <3>1, <3>2, <3>3 DEF MessageInv, NextIsRead
      <4>3. step' = "idle" /\ faults' = {} => Drained'
        BY <3>1, <3>3 DEF MessageInv, Drained, BodyComplete
      <4> QED
        BY <4>1, <4>2, <4>3 DEF MessageInv
    <3>4. ASSUME ~IsMessage PROVE StringsGoOn
      <4>1. IsStringCodec(codec)
        BY <1>1, <3>4 DEF Settled, IsMessage, IsMessageCodec, IsStringCodec
      <4>2. PICK l \in Nat, b \in Nat, m \in Nat : StringInv(l, b, m)
        BY <2>1, <3>4 DEF Framed
      <4>3. StringState(l, b, m)
        BY <2>1, <3>4, <4>1, <4>2 DEF StringState, Framed
      <4>4. Lines' /\ (step' = "idle" => Left(round') = 0)
        BY <2>1, <3>1, <4>2, LinesStay DEF StringInv, Framed
      <4> QED
        BY <3>1, <3>2, <4>3, <4>4, StringsStay
    <3>5. IsMessage => \E off \in [0 .. Len(sent') -> Nat] : MessageInv(off)'
      BY <2>1, <3>3 DEF Framed
    <3> QED
      BY <2>2, <3>2, <3>4, <3>5 DEF Framed, StringsGoOn
  <2>4. CASE FramingNext /\ IsMessage
    <3>1. IsMessageCodec(codec)
      BY <1>1, <2>4 DEF Settled, IsMessage, IsMessageCodec, IsStringCodec
    <3>2. PICK off \in [0 .. Len(sent) -> Nat] : MessageInv(off)
      BY <2>1, <2>4 DEF Framed
    <3>3. MessageState(off)
      BY <1>1, <2>1, <2>4, <3>1, <3>2 DEF MessageState, Framed
    <3>4. MessagesGoOn
      BY <1>2, <1>4, <2>1, <2>4, <3>3, MessagesStep
    <3> QED
      BY <2>2, <2>4, <3>4 DEF MessagesGoOn, Framed
  <2>5. CASE FramingNext /\ ~IsMessage
    <3>1. IsStringCodec(codec)
      BY <1>1, <2>5 DEF Settled, IsMessage, IsMessageCodec, IsStringCodec
    <3>2. PICK l \in Nat, b \in Nat, m \in Nat : StringInv(l, b, m)
      BY <2>1, <2>5 DEF Framed
    <3>3. StringState(l, b, m)
      BY <2>1, <2>5, <3>1, <3>2 DEF StringState, Framed
    <3>4. StringsGoOn
      BY <1>2, <1>4, <2>1, <2>5, <3>3, StringsStep
    <3> QED
      BY <2>2, <2>5, <3>4 DEF StringsGoOn, Framed
  <2> QED
    BY <2>3, <2>4, <2>5
<1> QED
  BY <1>3, <1>4

(* And in every state.                                                     *)
LEMMA FramingInvHolds == FramingSpec => []FramingInv
<1>1. FramingInit => FramingInv
  BY SettledFirst, FirstBegins, BegunIsFramed DEF FramingInv
<1> QED
  BY <1>1, FramingInvStep, PTL DEF FramingSpec

-----------------------------------------------------------------------------
(* What the receiver got, and what it was to get.                          *)

(* A prefix, place by place.                                               *)
LEMMA PrefixIs ==
  ASSUME NEW S, NEW s \in Seq(S), NEW t \in Seq(S), Len(s) <= Len(t), \A i \in 1 .. Len(s) : s[i] = t[i]
  PROVE  IsPrefix(s, t) /\ (Len(s) = Len(t) => s = t)
<1>1. Len(s) \in Nat /\ 0 \in Nat /\ 0 + 1 = 1
  OBVIOUS
<1>2. SubSeq(s, 0 + 1, Len(s)) = SubSeq(t, 0 + 1, Len(s))
  BY <1>1, SamePieces
<1>3. ASSUME Len(s) = Len(t) PROVE s = t
  BY <1>3
<1> QED
  BY <1>1, <1>2, <1>3 DEF IsPrefix

(* The k-th string of a stream is the one with the k-th end.               *)
LEMMA StringAtIs ==
  ASSUME NEW bytes \in Seq(Int), NEW k, NEW e \in 1 .. Len(bytes), EndsString(bytes, e), Cardinality(Ends(bytes, e)) = k
  PROVE  StringAt(bytes, k) = SubSeq(bytes, Start(bytes, e) + 1, e)
<1> DEFINE P(x) == EndsString(bytes, x) /\ Cardinality(Ends(bytes, x)) = k
           f == CHOOSE x \in DOMAIN bytes : P(x)
<1>1. DOMAIN bytes = 1 .. Len(bytes) /\ e \in DOMAIN bytes /\ P(e)
  OBVIOUS
<1>2. f \in DOMAIN bytes /\ P(f)
  BY <1>1
<1>3. f = e
  <2>1. e \in Nat \ {0} /\ f \in Nat \ {0}
    BY <1>1, <1>2
  <2> QED
    BY <1>1, <1>2, <2>1, EndIsUnique
<1>4. StringAt(bytes, k) = SubSeq(bytes, Start(bytes, f) + 1, f)
  BY DEF StringAt
<1> QED
  BY <1>3, <1>4

(* The messages expected are those sent.                                   *)
LEMMA MessagesExpected ==
  ASSUME Typed, IsMessage
  PROVE  /\ Expected \in Seq(Seq(Byte)) /\ Len(Expected) = Len(sent) /\ Len(sent) \in Nat
         /\ \A i \in 1 .. Len(sent) : Expected[i] = sent[i]
<1>1. \A x \in Seq(Int) : x \in Seq(Byte)
  BY DEF Byte
<1>2. sent \in Seq(Seq(Byte))
  <2>1. ASSUME NEW S, NEW T, \A x \in S : x \in T, NEW r \in Seq(S) PROVE r \in Seq(T)
    BY <2>1
  <2> QED
    BY <1>1, <2>1 DEF Typed
<1>3. Expected = Seen(sent)
  BY DEF Expected
<1>4. \A x : Shown(x) = x
  BY DEF Shown
<1> QED
  BY <1>2, <1>3, <1>4, SeenIs

(* Messages are received in order, and all of them when all have arrived.  *)
LEMMA MessagesAreIntact ==
  ASSUME IsMessage, Settled, Sound, Framed
  PROVE  /\ IsPrefix(Received, Expected)
         /\ faults = {} /\ wire = <<>> /\ step = "idle" => Received = Expected
<1>1. PICK off \in [0 .. Len(sent) -> Nat] : MessageInv(off)
  BY DEF Framed
<1>2. Typed /\ InTransit /\ Laid(off) /\ Whole /\ IsMessageCodec(codec)
  BY <1>1 DEF Framed, MessageInv, Settled, IsMessage, IsMessageCodec, IsStringCodec
<1>3. Received \in Seq(Seq(Byte)) /\ Len(Received) \in Nat /\ Len(Received) <= Len(sent)
      /\ \A i \in 1 .. Len(Received) : Received[i] = sent[i]
  BY <1>2, ReceivedIs DEF Whole
<1>4. /\ Expected \in Seq(Seq(Byte)) /\ Len(Expected) = Len(sent) /\ Len(sent) \in Nat
      /\ \A i \in 1 .. Len(sent) : Expected[i] = sent[i]
  BY <1>2, MessagesExpected
<1>5. Len(Received) <= Len(Expected) /\ \A i \in 1 .. Len(Received) : Received[i] = Expected[i]
  BY <1>3, <1>4
<1>6. IsPrefix(Received, Expected) /\ (Len(Received) = Len(Expected) => Received = Expected)
  <2> DEFINE S == Seq(Byte)
  <2>1. Received \in Seq(S) /\ Expected \in Seq(S)
    BY <1>3, <1>4
  <2> HIDE DEF S
  <2> QED
    BY <1>5, <2>1, PrefixIs
<1>7. ASSUME faults = {}, wire = <<>>, step = "idle" PROVE Len(Received) = Len(sent)
  <2> DEFINE k == Len(Received)
  <2> SUFFICES ASSUME k < Len(sent) PROVE FALSE
    BY <1>3, <1>4
  <2>1. Drained /\ NextIsRead(off)
    BY <1>1, <1>7 DEF MessageInv
  <2>2. Left(round) \in Nat /\ ReadTo \in Nat /\ ReadTo + Left(round) = Len(stream) /\ Len(stream) \in Nat
    <3>1. Arrived = Len(stream)
      BY <1>2, <1>7 DEF Arrived, Typed
    <3> QED
      BY <1>2, <1>7, <3>1, PositionsAre
  <2> DEFINE m == sent[k + 1]
  <2>3. /\ off[k] \in Nat /\ codec.headersize \in Nat \ {0}
        /\ WellFramed(codec, m) /\ Len(m) \in Nat /\ Len(m) >= codec.headersize
        /\ off[k + 1] = off[k] + Len(m) /\ off[k + 1] <= Len(stream)
    BY <1>2, <1>3, NextBegins
  <2> HIDE DEF k
  <2>4. CASE cache.state = STATE_WAIT_FOR_HEADER
    <3>1. ReadTo = off[k] /\ Left(round) < codec.headersize
      BY <2>1, <2>4, TwoStates DEF NextIsRead, Drained, k
    <3> HIDE DEF m
    <3> QED
      BY <2>2, <2>3, <3>1
  <2>5. CASE cache.state # STATE_WAIT_FOR_HEADER
    <3>1. cache.state = STATE_WAIT_FOR_BODY
      BY <2>5 DEF Settled
    <3>2. ReadTo = off[k] + codec.headersize /\ cache.flag = BodySize(codec, Plain(m)) /\ ~(Left(round) >= cache.flag)
      BY <2>1, <2>5, <3>1 DEF NextIsRead, Drained, BodyComplete, k
    <3>3. cache.flag \in Nat /\ Len(m) = codec.headersize + cache.flag
      BY <2>3, <3>2 DEF WellFramed
    <3> HIDE DEF m
    <3> QED
      BY <2>2, <2>3, <3>2, <3>3, SMTT(30)
  <2> QED
    BY <2>4, <2>5
<1> QED
  BY <1>4, <1>6, <1>7

(* Strings too.                                                            *)
LEMMA StringsAreIntact ==
  ASSUME ~IsMessage, Settled, Sound, Framed
  PROVE  /\ IsPrefix(Received, Expected)
         /\ faults = {} /\ wire = <<>> /\ step = "idle" => Received = Expected
<1>1. PICK l \in Nat, b \in Nat, m \in Nat : StringInv(l, b, m)
  BY DEF Framed
<1>2. Typed /\ InTransit /\ Lines /\ GotStrings(b)
  BY <1>1 DEF Framed, StringInv
<1> DEFINE total == Cardinality(Ends(stream, Len(stream)))
<1>3. Len(stream) \in Nat /\ stream \in Seq(Int) /\ total \in Nat
  BY <1>2, EndsAreFinite DEF Typed
<1> HIDE DEF total
<1>4. Received \in Seq(Seq(Byte)) /\ Len(Received) \in Nat /\ Len(Received) = Cardinality(Ends(stream, b))
      /\ b \in Nat /\ b <= Len(stream)
  BY <1>2, <1>3, ReceivedIs DEF GotStrings
<1>5. Len(Received) <= total
  BY <1>3, <1>4, EndsGrow DEF total
<1>6. Expected = [k \in 1 .. total |-> Terminated(StringAt(stream, k))]
  <2> DEFINE strings == [k \in 1 .. total |-> StringAt(stream, k)]
  <2>1. StringsIn(stream) = strings
    BY DEF StringsIn, total
  <2>2. DOMAIN strings = 1 .. total /\ \A k \in 1 .. total : strings[k] = StringAt(stream, k)
    OBVIOUS
  <2> HIDE DEF strings
  <2> QED
    BY <2>1, <2>2 DEF Expected, Seen, Shown
<1>7. ASSUME NEW k \in 1 .. Len(Received) PROVE k \in 1 .. total /\ Received[k] = Terminated(StringAt(stream, k))
  <2>1. PICK e \in Ends(stream, b) : /\ Cardinality(Ends(stream, e)) = k
               /\ Received[k] = Terminated(SubSeq(stream, Start(stream, e) + 1, e))
    BY <1>2 DEF GotStrings
  <2>2. e \in 1 .. Len(stream) /\ EndsString(stream, e)
    BY <1>3, <1>4 DEF Ends
  <2>3. StringAt(stream, k) = SubSeq(stream, Start(stream, e) + 1, e)
    BY <1>3, <2>1, <2>2, StringAtIs
  <2> QED
    BY <1>3, <1>4, <1>5, <2>1, <2>3
<1> DEFINE S == Seq(Byte) \cup {Terminated(StringAt(stream, k)) : k \in 1 .. total}
<1>8. Expected \in Seq(S) /\ Len(Expected) = total /\ \A k \in 1 .. total : Expected[k] = Terminated(StringAt(stream, k))
  <2>1. \A k \in 1 .. total : Terminated(StringAt(stream, k)) \in S
    OBVIOUS
  <2> HIDE DEF S
  <2>2. Expected \in [1 .. total -> S] /\ \A k \in 1 .. total : Expected[k] = Terminated(StringAt(stream, k))
    BY <1>6, <2>1
  <2> QED
    BY <1>3, <2>2
<1>9. Received \in Seq(S)
  <2>1. ASSUME NEW A, NEW B, A \subseteq B, NEW r \in Seq(A) PROVE r \in Seq(B)
    BY <2>1
  <2>2. Seq(Byte) \subseteq S
    OBVIOUS
  <2> HIDE DEF S
  <2> QED
    BY <1>4, <2>1, <2>2
<1> HIDE DEF S
<1>10. IsPrefix(Received, Expected) /\ (Len(Received) = Len(Expected) => Received = Expected)
  <2>1. Len(Received) <= Len(Expected) /\ \A k \in 1 .. Len(Received) : Received[k] = Expected[k]
    BY <1>5, <1>7, <1>8
  <2> QED
    BY <1>8, <1>9, <2>1, PrefixIs
<1>11. ASSUME wire = <<>>, step = "idle" PROVE Len(Received) = total
  <2>1. Left(round) = 0 /\ PieceIsCached(l, b, m)
    BY <1>1, <1>11 DEF StringInv
  <2>2. ReadTo = Len(stream)
    <3>1. Arrived = Len(stream)
      BY <1>2, <1>3, <1>11 DEF Arrived
    <3> QED
      BY <1>3, <2>1, <3>1 DEF ReadTo
  <2>3. CASE Len(stream) = 0
    <3>1. b = Len(stream)
      BY <1>4, <2>3
    <3> QED
      BY <1>4, <3>1 DEF total
  <2>4. CASE Len(stream) > 0
    <3>1. stream[Len(stream)] = codec.separator
      BY <1>2, <2>4 DEF Lines
    <3>2. LineBegins(stream, l, Len(stream)) /\ Len(stream) = b + Size(cache) /\ CutAt(l, b, m)
      BY <2>1, <2>2 DEF PieceIsCached
    <3>3. l = Len(stream)
      BY <1>3, <2>4, <3>1, <3>2 DEF LineBegins
    <3>4. l <= b
      <4>1. LongestString \in Nat \ {0}
        BY LongestIs DEF Settled, IsMessage, IsMessageCodec
      <4> DEFINE p == LongestString * m
      <4>2. p \in Nat /\ b = l + p
        BY <3>2, <4>1 DEF CutAt
      <4> HIDE DEF p
      <4> QED
        BY <4>2
    <3>5. b = Len(stream)
      BY <1>3, <1>4, <3>3, <3>4
    <3> QED
      BY <1>4, <3>5 DEF total
  <2> QED
    BY <1>3, <2>3, <2>4
<1> QED
  BY <1>8, <1>10, <1>11

(* However the network cuts the stream, and though memory may run out for  *)
(* a body, OnRead (ClientSession.cpp) and the codecs give the handler the  *)
(* messages that were sent, whole and in order, in any session that framing *)
(* can survive: for any codec, limits, messages, and number of sessions.   *)
THEOREM FramingMessagesIntact == FramingSpec => []MessagesIntact
<1>1. FramingInv => MessagesIntact
  BY MessagesAreIntact, StringsAreIntact DEF FramingInv, MessagesIntact, Sound
<1> QED
  BY <1>1, FramingInvHolds, PTL

(* None of them waits in m_roundcache or in m_readcache for bytes of the   *)
(* next message: when all bytes have arrived, all messages are extracted.  *)
THEOREM FramingNothingHeldBack == FramingSpec => []NothingHeldBack
<1>1. FramingInv => NothingHeldBack
  <2> SUFFICES ASSUME FramingInv, faults = {}, wire = <<>>, step = "idle" PROVE Received = Expected
    BY DEF NothingHeldBack
  <2>1. Sound
    BY DEF Sound
  <2> QED
    BY <2>1, MessagesAreIntact, StringsAreIntact DEF FramingInv
<1> QED
  BY <1>1, FramingInvHolds, PTL
=============================================================================
