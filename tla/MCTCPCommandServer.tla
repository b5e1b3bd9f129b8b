------------------------- MODULE MCTCPCommandServer -------------------------
(***************************************************************************)
(* The instance TLC checks: two connections after one another in a slot,   *)
(* each with requests of several kinds, in both modes.                     *)
(***************************************************************************)
EXTENDS TCPCommandServer

CONSTANTS first, second

a == 97
b == 98

Plain(id, word) ==
  [id |-> id, path |-> <<word>>, positional |-> <<>>, named |-> {}, raw |-> word]

\* A call with a longer path and arguments of other types, one of them named
\* and its text empty.
Rich(id, word) ==
  [Plain(id, word) EXCEPT !.path = <<word, <<a>>>>,
                          !.positional = <<Value("Int", <<b>>)>>,
                          !.named = {[key |-> <<a>>, value |-> Value("Bool", <<>>)]}]

Sent(kind, text, payload) ==
  [kind |-> kind, text |-> text, payload |-> payload, request |-> Null]

Asked(word, c) == [Sent("command", word, EncodeRequest(c)) EXCEPT !.request = c]
Command(id, word) == Asked(word, Plain(id, word))
Spaced(id, word) == Asked(<<Space>> \o word \o <<Space>>, Plain(id, word))
RichCommand(id, word) == Asked(word, Rich(id, word))
Cut(word) == Sent("malformed", <<Quote>> \o word, Front(EncodeRequest(Plain(1, word))))
Padded(word) == Sent("malformed", word \o <<Quote>>, Append(EncodeRequest(Plain(1, word)), 0))
Blank == Sent("blank", <<Space>>, <<>>)

\* The whole of a request, and more.
Long(word) ==
  LET whole == FrameStructuredPayload(EncodeRequest(Plain(1, word)))
      filler == [i \in 1..(MaximumRequestBytes + 1 - Len(whole)) |-> b]
  IN  Sent("oversize", [i \in 1..(MaximumRequestBytes + 1) |-> a], whole \o filler)

Scripts ==
  [k \in Connections |->
     IF k = first THEN <<Command(5, <<b>>), Cut(<<a>>), Long(<<a>>), Spaced(6, <<a>>)>>
     ELSE <<Command(7, <<a, a>>), Padded(<<b>>), RichCommand(8, <<b>>), Blank>>]

\* What a structured session never looks at has one value.
AllConfigs == {c \in Config : c.mode = "StructuredBinary" => c.ignoreEmptyLines}

KnownWords == {<<a>>, <<b>>}
GuardedWords == {<<b>>}
=============================================================================
