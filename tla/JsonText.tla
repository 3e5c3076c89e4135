------------------------------ MODULE JsonText ------------------------------
(***************************************************************************)
(* How the sample's messages become text and values again: Serialize and   *)
(* Deserialize of json.cpp, between JsonMessageCodec::Encode of one side   *)
(* and JsonMessageProcess::Handle of the other.                            *)
(*                                                                         *)
(* A text is a sequence of characters, in which a number or the name of a  *)
(* literal is a single one.  depth_stack is left out where it changes      *)
(* nothing: what is pushed before GetEndOfArrayOrObj never shows in what   *)
(* it returns, and a closing bracket in a number ends in an error whether  *)
(* the stack expects it or not.                                            *)
(***************************************************************************)
EXTENDS Integers, Sequences, FiniteSets, SequencesExt, FiniteSetsExt, Functions

CONSTANT Message  (* the objects that are sent *)

VARIABLES
  message,   (* what is sent, Null before                                     *)
  wire,      (* its text                                                      *)
  read       (* what Deserialize makes of it                                  *)

textVars == <<message, wire, read>>

Quote == "\""
Slash == "\\"
Nul == "NUL"
Blank == " "
Opening == {"[", "{"}
Closing == {"]", "}"}
Closer(c) == IF c = "[" THEN "]" ELSE "}"

-----------------------------------------------------------------------------
(* Values: a scalar has a word, an array its items, an object its members. *)

Scalar(type, word) == [type |-> type, word |-> word, items |-> <<>>, members |-> <<>>]
Null == Scalar("null", <<"null">>)
JsonArray(items) == [type |-> "array", word |-> <<>>, items |-> items, members |-> <<>>]
JsonObject(members) == [type |-> "object", word |-> <<>>, items |-> <<>>, members |-> members]

(* "%f" keeps six digits behind the point. *)
Printed(word) == IF word = <<"1e-9">> THEN <<"0.0">> ELSE word

Separated(texts) ==
  FoldLeft(LAMBDA text, t : IF text = <<>> THEN t ELSE text \o <<",">> \o t, <<>>, texts)

RECURSIVE SerializeValue(_)

SerializeArray(a) ==
  <<"[">> \o Separated([i \in DOMAIN a |-> SerializeValue(a[i])]) \o <<"]">>

(* The members of an object in some order, which is that of the map.       *)
SerializeObject(members) ==
  LET keys == SetToSeq(DOMAIN members)
      Member(i) == <<Quote>> \o keys[i] \o <<Quote, ":">> \o SerializeValue(members[keys[i]])
  IN  <<"{">> \o Separated([i \in DOMAIN keys |-> Member(i)]) \o <<"}">>

(* A string is written as it is, its quotes too. *)
SerializeValue(v) ==
  CASE v.type = "object" -> SerializeObject(v.members)
    [] v.type = "array" -> SerializeArray(v.items)
    [] v.type = "string" -> <<Quote>> \o v.word \o <<Quote>>
    [] v.type \in {"float", "double"} -> Printed(v.word)
    [] OTHER -> v.word

Serialize(v) == IF v.type \in {"object", "array"} THEN SerializeValue(v) ELSE <<>>

-----------------------------------------------------------------------------
(* Reading.  Positions are from 1 on, and 0 is npos. *)

Trim(text) ==
  LET ink == {i \in DOMAIN text : text[i] # Blank}
  IN  IF ink = {} THEN <<>> ELSE SubSeq(text, Min(ink), Max(ink))

From(text, i) == SubSeq(text, i, Len(text))

FirstIn(text, start, chars) ==
  LET found == {i \in start .. Len(text) : text[i] \in chars}
  IN  IF found = {} THEN 0 ELSE Min(found)

(* A quote counts unless an odd number of slashes precedes it.             *)
GetQuotePos(text, start) ==
  LET Slashes(i) == Max({n \in 0 .. i - start : \A k \in 1 .. n : text[i - k] = Slash})
      found == {i \in start .. Len(text) : text[i] = Quote /\ Slashes(i) % 2 = 0}
  IN  IF found = {} THEN 0 ELSE Min(found)

(* Fault: the brackets in strings count. *)
EndFromUnquoted(text, i, quoted, open) ==
  LET RECURSIVE Go(_, _)
      Go(k, waiting) ==
        IF k > Len(text) THEN k
        ELSE IF text[k] \in Opening THEN Go(k + 1, Append(waiting, Closer(text[k])))
        ELSE IF text[k] \notin Closing THEN Go(k + 1, waiting)
        ELSE IF text[k] # Last(waiting) THEN 0
        ELSE IF Len(waiting) = 1 THEN k ELSE Go(k + 1, Front(waiting))
  IN  Go(i, open)

(* Where the bracket at the start of a text is closed: behind the text     *)
(* when it is not.  Any slash before a quote hides the quote.              *)
RECURSIVE EndFrom(_, _, _, _)
EndFrom(text, i, quoted, open) ==
  LET c == text[i] IN
  IF i > Len(text) THEN i
  ELSE IF c = Quote THEN EndFrom(text, i + 1, quoted # (text[i - 1] # Slash), open)
  ELSE IF quoted \/ c \notin Opening \cup Closing THEN EndFrom(text, i + 1, quoted, open)
  ELSE IF c \in Opening THEN EndFrom(text, i + 1, quoted, Append(open, Closer(c)))
  ELSE IF c # Last(open) THEN 0
  ELSE IF Len(open) = 1 THEN i ELSE EndFrom(text, i + 1, quoted, Front(open))

GetEndOfArrayOrObj(text) == EndFrom(text, 2, FALSE, <<Closer(text[1])>>)

(* A slash and what it stands for; an unknown escape stands for nothing.   *)
RECURSIVE Unescaped(_)
Unescaped(text) ==
  IF Len(text) < 2 THEN text
  ELSE IF text[1] # Slash THEN <<text[1]>> \o Unescaped(Tail(text))
  ELSE (IF text[2] \in {Quote, Slash} THEN <<text[2]>> ELSE <<>>) \o Unescaped(From(text, 3))

UnescapeJSONString(text) == Trim(Unescaped(text))

(* What reading a value comes to: the value and the text behind it, an     *)
(* error, or an exception.                                                 *)
Ok(v, rest) == [out |-> "ok", v |-> v, rest |-> rest]
HadError == [out |-> "error", v |-> Null, rest |-> <<>>]
Thrown == [out |-> "thrown", v |-> Null, rest |-> <<>>]

WordTypes ==
  [true |-> "bool", false |-> "bool", null |-> "null"] @@ ("1" :> "int") @@
  [w \in {"1.5", "0.0"} |-> "double"]

(* Neither string nor array nor object: up to the next comma, and nothing  *)
(* at all is the number 0.                                                 *)
DeserializeLiteral(text) ==
  LET comma == FirstIn(text, 1, {","})
      end == IF comma = 0 THEN Len(text) + 1 ELSE comma
      word == SelectSeq(SubSeq(text, 1, end - 1), LAMBDA c : c # Blank)
  IN  IF word = <<>> THEN Ok(Scalar("int", <<"0">>), From(text, end))
      ELSE IF Len(word) = 1 /\ word[1] \in DOMAIN WordTypes
        THEN Ok(Scalar(WordTypes[word[1]], word), From(text, end))
      ELSE HadError

DeserializeString(text) ==
  LET end == GetQuotePos(text, 2) IN
  IF end = 0 THEN HadError
  ELSE Ok(Scalar("string", UnescapeJSONString(SubSeq(text, 2, end - 1))), From(text, end + 1))

RECURSIVE DeserializeArray(_), DeserializeInternal(_)

(* substr throws when the end was not found. *)
DeserializeNested(text) ==
  LET end == GetEndOfArrayOrObj(text)
      body == SubSeq(text, 1, end)
      r == IF text[1] = "[" THEN DeserializeArray(body) ELSE DeserializeInternal(body)
  IN  IF end = 0 THEN HadError
      ELSE IF end > Len(text) \/ r.out = "thrown" THEN Thrown
      ELSE Ok(r.v, From(text, end + 1))

DeserializeValue(untrimmed) ==
  LET text == Trim(untrimmed) IN
  IF text = <<>> THEN Ok(Null, <<>>)
  ELSE IF text[1] \in Opening THEN DeserializeNested(text)
  ELSE IF text[1] = Quote THEN DeserializeString(text)
  ELSE DeserializeLiteral(text)

(* The items of an array: an item ends at the next comma or bracket, also  *)
(* in a string, and null is left out.                                      *)
RECURSIVE Items(_, _)
Items(text, sofar) ==
  LET stop == FirstIn(text, 1, Opening \cup {",", "]"})
      nested == stop # 0 /\ text[stop] \in Opening
      r == IF nested THEN DeserializeValue(text)
           ELSE DeserializeValue(IF stop = 0 THEN text ELSE SubSeq(text, 1, stop - 1))
      rest == IF nested THEN r.rest ELSE IF stop = 0 THEN <<>> ELSE From(text, stop + 1)
  IN  IF text = <<>> THEN Ok(JsonArray(sofar), <<>>)
      ELSE IF r.out = "thrown" THEN Thrown
      ELSE IF r.out = "error" THEN Ok(Null, <<>>)
      ELSE Items(rest, IF r.v = Null THEN sofar ELSE Append(sofar, r.v))

DeserializeArray(untrimmed) ==
  LET text == Trim(untrimmed) IN
  IF text # <<>> /\ text[1] = "[" /\ Last(text) = "]"
    THEN Items(SubSeq(text, 2, Len(text) - 1), <<>>)
    ELSE Ok(Null, <<>>)

(* The members of an object, as long as there is text: each a key in       *)
(* quotes, a colon and a value.                                            *)
RECURSIVE Members(_, _)
Members(text, sofar) ==
  LET start == GetQuotePos(text, 1)
      end == GetQuotePos(text, start + 1)
      colon == IF end = 0 THEN 0 ELSE FirstIn(text, end, {":"})
      key == SubSeq(text, start + 1, end - 1)
      r == DeserializeValue(From(text, colon + 1))
  IN  IF text = <<>> THEN Ok(JsonObject(sofar), <<>>)
      ELSE IF 0 \in {start, end, colon} \/ key = <<>> THEN Ok(Null, <<>>)
      ELSE IF r.out = "thrown" THEN Thrown
      ELSE IF r.out = "error" THEN Ok(Null, <<>>)
      ELSE Members(r.rest, (key :> r.v) @@ sofar)

DeserializeObj(text) == Members(SubSeq(text, 2, Len(text) - 1), <<>>)

DeserializeInternal(untrimmed) ==
  LET text == Trim(untrimmed) IN
  IF text = <<>> \/ text[1] \notin Opening \/ Last(text) # Closer(text[1]) THEN Ok(Null, <<>>)
  ELSE IF text[1] = "[" THEN DeserializeArray(text) ELSE DeserializeObj(text)

Deserialize(text) == DeserializeInternal(text)

-----------------------------------------------------------------------------
(* A message on its way. *)

TextInit == message = Null /\ wire = <<>> /\ read = Ok(Null, <<>>)

Encode ==
  /\ message = Null
  /\ \E obj \in Message : message' = obj /\ wire' = Serialize(obj)
  /\ UNCHANGED read

(* Decode returns the address of the text, which so ends at the first NUL. *)
Decode ==
  LET nul == FirstIn(wire, 1, {Nul})
  IN  IF nul = 0 THEN wire ELSE SubSeq(wire, 1, nul - 1)

(* What is thrown is caught, and the message is not processed.             *)
HandleText ==
  /\ wire # <<>> /\ wire' = <<>>
  /\ read' = Deserialize(Decode)
  /\ UNCHANGED message

TextNext == Encode \/ HandleText

TextSpec == TextInit /\ [][TextNext]_textVars

-----------------------------------------------------------------------------
(* What can be sent: no null, comma or bracket directly in an array, no    *)
(* quote, slash or NUL in a string, no blanks at its ends.                 *)
Fits(word) == Trim(word) = word /\ {Quote, Slash, Nul} \cap Range(word) = {}

RECURSIVE Faithful(_), AsRead(_), Cut(_)
Faithful(v) ==
  /\ v.type = "string" => Fits(v.word)
  /\ Printed(v.word) = v.word
  /\ \A i \in DOMAIN v.items :
       /\ Faithful(v.items[i]) /\ v.items[i] # Null
       /\ v.items[i].type = "string" =>
            Range(v.items[i].word) \cap (Opening \cup {",", "]"}) = {}
  /\ \A k \in DOMAIN v.members : Fits(k) /\ k # <<>> /\ Faithful(v.members[k])

(* The text of a float is that of a double. *)
AsRead(v) ==
  [v EXCEPT !.type = IF @ = "float" THEN "double" ELSE @,
            !.items = [i \in DOMAIN @ |-> AsRead(@[i])],
            !.members = [k \in DOMAIN @ |-> AsRead(@[k])]]

(* There is a NUL in the text. *)
Cut(v) ==
  \/ Nul \in Range(v.word)
  \/ \E i \in DOMAIN v.items : Cut(v.items[i])
  \/ \E k \in DOMAIN v.members : Nul \in Range(k) \/ Cut(v.members[k])

(* The reader never takes a message for another one: one that can be sent  *)
(* is read as it was, however arrays, objects and strings with brackets    *)
(* are nested, and of one that a NUL cuts nothing is read (Serialize and   *)
(* Deserialize of json.cpp, JsonMessageProcess::Handle).                   *)
ReadRight ==
  (message # Null /\ wire = <<>>) =>
    /\ Faithful(message) => read = Ok(AsRead(message), <<>>)
    /\ Cut(message) => read.v = Null

=============================================================================
