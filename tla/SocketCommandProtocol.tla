------------------------ MODULE SocketCommandProtocol ------------------------
(***************************************************************************)
(* SocketCommandProtocol, the binary encoding of structured Commands and   *)
(* their responses, and the frames that carry it.                          *)
(*                                                                         *)
(* A field is a single byte, whatever its width in the code, except the    *)
(* length of a frame, which is two and so may be cut in the middle.  The   *)
(* bounds that the widths put on counts and lengths are a constant.        *)
(***************************************************************************)
EXTENDS Integers, Sequences, SequencesExt

CONSTANTS Null,     \* a CommandValue without a value
          Invalid,  \* what is not encoded, or not decoded
          Widest    \* the largest count or length a field holds

RequestMagic == 81
ResponseMagic == 82
Version == 1

\* A value as the Command library keeps it: its type, and ToString of it.
Value(type, text) == [type |-> type, text |-> text]

\* SocketCommandResponse: the result of a command, under the number of its request.
Response(id, result) ==
  [id |-> id, success |-> result.success, code |-> result.code, message |-> result.message]

\* What a caller asks the Command library for: a path, and arguments of any
\* type, the named ones in a map.
Request ==
  LET CommandValue == [type : STRING, text : Seq(Nat)]
  IN  [id : Nat, path : Seq(Seq(Nat)), positional : Seq(CommandValue),
       named : SUBSET [key : Seq(Nat), value : CommandValue], raw : Seq(Nat)]

IsMap(pairs) == IsFiniteSet(pairs) /\ \A p, q \in pairs : p.key = q.key => p = q

\* What arrives of it: the arguments are text, whatever they were.
Context ==
  LET CommandValue == [type : {"String"}, text : Seq(Nat)]
  IN  [id : Nat, path : Seq(Seq(Nat)), positional : Seq(CommandValue),
       named : SUBSET [key : Seq(Nat), value : CommandValue], raw : Seq(Nat)]

ASSUME ProtocolAssumption == Widest \in Nat /\ Invalid \notin Seq(Nat) \cup Nat \cup Context

-----------------------------------------------------------------------------
(* Encoding: fields appended in order, or nothing when one does not fit.   *)

Join(parts) == IF Invalid \in ToSet(parts) THEN Invalid ELSE FlattenSeq(parts)

AppendString(s) == IF Len(s) > Widest THEN Invalid ELSE <<Len(s)>> \o s

AppendCommandValue(v) == IF v = Null THEN Invalid ELSE AppendString(v.text)

AppendList(items, Encode(_)) ==
  IF Len(items) > Widest THEN Invalid
  ELSE Join(<<<<Len(items)>>>> \o [i \in DOMAIN items |-> Encode(items[i])])

AppendPair(p) == Join(<<AppendString(p.key), AppendCommandValue(p.value)>>)

EncodeRequest(c) ==
  Join(<<<<RequestMagic, Version, c.id>>, AppendList(c.path, AppendString),
         AppendList(c.positional, AppendCommandValue),
         AppendList(SetToSeq(c.named), AppendPair),
         AppendString(c.raw)>>)

EncodeResponse(r) ==
  Join(<<<<ResponseMagic, Version, r.id, IF r.success THEN 1 ELSE 0, r.code>>,
         AppendString(r.message)>>)

HeaderBytes == 2
FrameStructuredPayload(payload) == <<Len(payload) \div 256, Len(payload) % 256>> \o payload
ReadFrameLength(data) == 256 * data[1] + data[2]

-----------------------------------------------------------------------------
(* Decoding, with a Reader: what was read, and the bytes left.  A read that *)
(* fails leaves nothing, so that those after it fail as well.              *)

NoRead == [value |-> Invalid, left |-> <<>>]

Byte ==
  [data \in Seq(Nat) |->
     IF data = <<>> THEN NoRead ELSE [value |-> Head(data), left |-> Tail(data)]]

ReadString ==
  [data \in Seq(Nat) |->
     IF data = <<>> THEN NoRead
     ELSE IF Head(data) > Len(data) - 1 THEN NoRead
     ELSE [value |-> SubSeq(data, 2, Head(data) + 1),
           left |-> SubSeq(data, Head(data) + 2, Len(data))]]

\* The next string, after those of a list.
ReadNext(list) ==
  LET item == ReadString[list.left]
  IN  IF item = NoRead THEN NoRead
      ELSE [value |-> Append(list.value, item.value), left |-> item.left]

ReadStrings(n, data) ==
  LET list[i \in 0..n] == IF i = 0 THEN [value |-> <<>>, left |-> data] ELSE ReadNext(list[i - 1])
  IN  list[n]

\* A count of items, each of so many strings.
ReadList(strings, data) ==
  LET count == Byte[data]
  IN  IF count = NoRead THEN NoRead ELSE ReadStrings(strings * count.value, count.left)

Text(string) == Value("String", string)

\* std::map::emplace keeps the first value of a key.
Emplace(strings) ==
  LET Key(i) == strings[2 * i - 1]
      pairs == 1..(Len(strings) \div 2)
  IN  {[key |-> Key(i), value |-> Text(strings[2 * i])] :
         i \in {i \in pairs : \A j \in 1..(i - 1) : Key(j) # Key(i)}}

DecodeRequest ==
  [data \in Seq(Nat) |->
     LET magic == Byte[data]
         version == Byte[magic.left]
         id == Byte[version.left]
         path == ReadList(1, id.left)
         positional == ReadList(1, path.left)
         named == ReadList(2, positional.left)
         raw == ReadString[named.left]
     IN  IF raw = NoRead THEN Invalid
         ELSE IF \/ magic.value # RequestMagic \/ version.value # Version
                 \/ raw.left # <<>> \/ path.value = <<>>
         THEN Invalid
         ELSE [id |-> id.value, path |-> path.value,
               positional |-> [i \in DOMAIN positional.value |-> Text(positional.value[i])],
               named |-> Emplace(named.value), raw |-> raw.value]]

DecodeResponse ==
  [data \in Seq(Nat) |->
     LET magic == Byte[data]
         version == Byte[magic.left]
         id == Byte[version.left]
         success == Byte[id.left]
         code == Byte[success.left]
         message == ReadString[code.left]
     IN  IF message = NoRead THEN Invalid
         ELSE IF \/ magic.value # ResponseMagic \/ version.value # Version
                 \/ success.value > 1 \/ message.left # <<>>
         THEN Invalid
         ELSE [id |-> id.value, success |-> success.value = 1, code |-> code.value,
               message |-> message.value]]

\* The types of the arguments do not travel: all arrive as text.
AsDecoded(c) ==
  [c EXCEPT !.positional = [i \in DOMAIN @ |-> Text(@[i].text)],
            !.named = {[p EXCEPT !.value = Text(@.text)] : p \in @}]
=============================================================================
