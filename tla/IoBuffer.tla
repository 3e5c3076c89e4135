------------------------------ MODULE IoBuffer ------------------------------
(***************************************************************************)
(* The buffer of src/src/IoBuffer.cpp as a value: its bytes (m_data up to  *)
(* m_size), the positions of the next Get and the next Put, and the state  *)
(* and flag a codec keeps in it.  Positions count from 0, as in the code.  *)
(* What m_data holds past the bytes put into it is Junk.  m_max only       *)
(* decides when memory is allocated again, and is left out.                *)
(***************************************************************************)
EXTENDS Integers, Sequences

CONSTANTS
  ByteBase,       (* how many values a byte has: 256                         *)
  MaxBufferSize,  (* ESN_MAX_IOBUF_SIZE                                      *)
  Junk            (* a byte nobody wrote                                     *)

Smaller(a, b) == IF a < b THEN a ELSE b
Larger(a, b) == IF a < b THEN b ELSE a

(* Two's complement, for the char, short and int of the code. *)
Char == -(ByteBase \div 2) .. (ByteBase \div 2 - 1)
Unsigned(b) == b % ByteBase
Signed(u, base) == IF 2 * u < base THEN u ELSE u - base

(* IoBuffer(size): as many bytes as asked for, up to the largest size. *)
NewBuffer(size) ==
  [bytes |-> [i \in 1 .. Smaller(size, MaxBufferSize) |-> Junk],
   readpos |-> 0, writepos |-> 0, state |-> 0, flag |-> 0]

Size(buf) == Len(buf.bytes)
Left(buf) == Size(buf) - buf.readpos

(* size(value): keeps the bytes that still fit; more of them are Junk. *)
Resize(buf, value) ==
  IF value < 0 THEN buf
  ELSE [buf EXCEPT !.bytes = [i \in 1 .. Smaller(value, MaxBufferSize) |->
                                IF i <= Size(buf) THEN buf.bytes[i] ELSE Junk]]

Rewind(buf) == [buf EXCEPT !.readpos = 0, !.writepos = 0]

(* The values of so many bytes. *)
Values(width) ==
  <<ByteBase, ByteBase * ByteBase, ByteBase * (ByteBase * ByteBase),
    ByteBase * (ByteBase * (ByteBase * ByteBase))>>[width]

(* GetByte, GetShort, GetInt: a signed value of 1, 2 or 4 bytes, the least *)
(* significant first, or 0 when there are not so many.                     *)
Digit(buf, i) == Unsigned(buf.bytes[buf.readpos + i])

GetByte(buf) == IF Left(buf) < 1 THEN 0 ELSE Signed(Digit(buf, 1), Values(1))
GetShort(buf) ==
  IF Left(buf) < 2 THEN 0 ELSE Signed(Digit(buf, 1) + ByteBase * Digit(buf, 2), Values(2))
GetInt(buf) ==
  IF Left(buf) < 4 THEN 0
  ELSE Signed(Digit(buf, 1) + ByteBase * (Digit(buf, 2) + ByteBase * (Digit(buf, 3) + ByteBase * Digit(buf, 4))),
              Values(4))

(* PutByte, PutShort, PutInt of a value: its low bytes. *)
Low(value) == Signed(value % ByteBase, ByteBase)
Rest(value) == value \div ByteBase

(* PutBuf: the bytes at the write position, or nothing if they do not fit. *)
PutBuf(buf, bytes) ==
  LET to == buf.writepos + Len(bytes)
  IN  IF to > Size(buf) THEN buf
      ELSE [buf EXCEPT !.bytes = [i \in 1 .. Size(buf) |->
                         IF i \in buf.writepos + 1 .. to THEN bytes[i - buf.writepos]
                         ELSE buf.bytes[i]],
                       !.writepos = to]

PutByte(buf, b) == PutBuf(buf, <<b>>)
PutShort(buf, value) == PutBuf(buf, <<Low(value), Low(Rest(value))>>)
PutInt(buf, value) ==
  PutBuf(buf, <<Low(value), Low(Rest(value)), Low(Rest(Rest(value))), Low(Rest(Rest(Rest(value))))>>)
=============================================================================
