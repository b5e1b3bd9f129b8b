------------------------ MODULE SocketCommandSession ------------------------
(***************************************************************************)
(* SocketCommandSession: the requests found in a byte stream, the policy   *)
(* and the observer asked about them, the answers written.                 *)
(*                                                                         *)
(* A session is a record, Feed an operator on it: nothing else of the      *)
(* session runs during a call.  While Feed runs, the record also holds     *)
(* what the call does: the requests it has done away with, in log, the     *)
(* payloads or lines it has written, in answers, and how many more the     *)
(* writer takes.  The Command library is external: which text it refuses   *)
(* to tokenize, which commands it knows and what they return.              *)
(***************************************************************************)
EXTENDS SocketCommandProtocol

CONSTANTS MaximumRequestBytes,
          Known,      \* the first words of the commands in the registry
          Guarded     \* those of the commands that a policy denies

\* SocketCommandSessionConfig; MaximumRequestBytes is the same for all.
Config == [mode : {"Line", "StructuredBinary"}, disconnectOnProtocolError : BOOLEAN,
           ignoreEmptyLines : BOOLEAN]

Hooks == [policy : BOOLEAN, observer : BOOLEAN]
NoHooks == [policy |-> FALSE, observer |-> FALSE]

Session ==
  [config : Config, hooks : Hooks, requestID : Nat, line : Seq(Nat), structured : Seq(Nat),
   discardUntilNewline : BOOLEAN, expectedStructuredBytes : Nat]

\* After Initialize: whose config is this one, nothing accumulated, no hooks.
NewSession(config) ==
  [config |-> config, hooks |-> NoHooks, requestID |-> 0, line |-> <<>>, structured |-> <<>>,
   discardUntilNewline |-> FALSE, expectedStructuredBytes |-> 0]

CR == 13
LF == 10
Space == 32
Quote == 34

-----------------------------------------------------------------------------
(* The Command library.  A message is a text of one byte.                  *)

\* Quotes come in pairs.
Tokenizes(text) == Len(SelectSeq(text, LAMBDA b : b = Quote)) % 2 = 0
FirstWord(text) ==
  SubSeq(text, 1, SelectInSeq(Append(text, Space), LAMBDA b : b = Space) - 1)

Ok(message) == [success |-> TRUE, code |-> 0, message |-> message]
Error(code) == [success |-> FALSE, code |-> code, message |-> <<>>]
Malformed == Error(1)
TooLong == Error(2)
Empty == Error(3)
Unknown == Error(4)
Denied == Error(5)

\* The context of a line, and of a structured request.
LineContext(id, text) ==
  [id |-> id, path |-> <<FirstWord(text)>>, positional |-> <<>>, named |-> {}, raw |-> text]

Invoke(context) == IF context.path[1] \in Known THEN Ok(context.raw) ELSE Unknown

-----------------------------------------------------------------------------
(* What a call does.                                                       *)

Entry == [did : {"refused", "denied", "executed"}, context : Context \cup {Null},
          result : [success : BOOLEAN, code : Nat, message : Seq(Nat)], observed : BOOLEAN]

Calls == [session : Session, log : Seq(Entry), answers : Seq(Seq(Nat)), writable : Nat,
          wrote : BOOLEAN, success : BOOLEAN, returned : BOOLEAN]

Begin(session, writable) ==
  [session |-> session, log |-> <<>>, answers |-> <<>>, writable |-> writable, wrote |-> TRUE,
   success |-> TRUE, returned |-> FALSE]

Set(f, field, value) == [f EXCEPT !.session[field] = value]

\* The writer, whose connection may end during the call.  What is not encoded
\* is not handed to it.
Write(f, answer) ==
  IF answer = Invalid \/ f.writable = 0 THEN [f EXCEPT !.wrote = FALSE]
  ELSE [f EXCEPT !.wrote = TRUE, !.writable = @ - 1, !.answers = Append(@, answer)]

Log(f, did, context, result) ==
  [f EXCEPT !.log = Append(@, [did |-> did, context |-> context, result |-> result,
                               observed |-> did \in {"denied", "executed"} /\ f.session.hooks.observer])]

\* Execute, and its counterpart in HandleLine.
Execute(f, context) ==
  IF f.session.hooks.policy /\ context.path[1] \in Guarded
  THEN Log(f, "denied", context, Denied)
  ELSE Log(f, "executed", context, Invoke(context))

And(f) == [f EXCEPT !.success = f.wrote /\ @]
Return(f, success) == [f EXCEPT !.success = success, !.returned = TRUE]

-----------------------------------------------------------------------------
(* Line mode.                                                              *)

\* OK or ERR, the code and the message.
LineResult(result) == <<IF result.success THEN 79 ELSE 69, result.code>> \o result.message
WriteLineResult(f, result) == Write(f, LineResult(result))

Trim(text) ==
  LET visible == {i \in DOMAIN text : text[i] # Space}
  IN  IF visible = {} THEN <<>> ELSE SubSeq(text, Min(visible), Max(visible))

HandleLine(f, line) ==
  LET text == Trim(line)
      id == f.session.requestID + 1
      numbered == Set(f, "requestID", id)
      Refuse(result) == WriteLineResult(Log(numbered, "refused", Null, result), result)
      done == Execute(numbered, LineContext(id, text))
  IN  IF text = <<>> /\ f.session.config.ignoreEmptyLines THEN [f EXCEPT !.wrote = TRUE]
      ELSE IF ~Tokenizes(text) THEN Refuse(Malformed)
      ELSE IF text = <<>> THEN Refuse(Empty)
      ELSE WriteLineResult(done, Last(done.log).result)

RefuseLongLine(f) ==
  LET refused == WriteLineResult(Log(f, "refused", Null, TooLong), TooLong)
  IN  IF f.session.config.disconnectOnProtocolError THEN Return(refused, FALSE) ELSE And(refused)

\* Mutation: room for one byte too many.
FitsOneMore(line) == Len(line) =< MaximumRequestBytes
Fits(line) == Len(line) < MaximumRequestBytes

\* One turn of FeedLine's loop.
FeedByte(f, c) ==
  LET s == f.session
  IN  IF f.returned \/ c = CR THEN f
      ELSE IF c = LF /\ s.discardUntilNewline
      THEN RefuseLongLine(Set(Set(f, "discardUntilNewline", FALSE), "line", <<>>))
      ELSE IF c = LF THEN And(HandleLine(Set(f, "line", <<>>), s.line))
      ELSE IF s.discardUntilNewline THEN f
      ELSE IF Fits(s.line) THEN Set(f, "line", Append(s.line, c))
      ELSE Set(Set(f, "line", <<>>), "discardUntilNewline", TRUE)

FeedLine(f, data) ==
  LET after[n \in 0..Len(data)] == IF n = 0 THEN f ELSE FeedByte(after[n - 1], data[n])
  IN  after[Len(data)]

-----------------------------------------------------------------------------
(* Structured mode.                                                        *)

EmitStructuredError(f, result) == Write(f, EncodeResponse(Response(0, result)))

\* Mutation: a response goes out before the number of the request is taken over.
HandleUnnumbered(f, context) ==
  LET done == Execute(f, context)
  IN  IF context = Invalid
      THEN EmitStructuredError(Log(f, "refused", Null, Malformed), Malformed)
      ELSE Write(done, EncodeResponse(Response(f.session.requestID, Last(done.log).result)))

HandleDecoded(f, context) ==
  LET done == Execute(Set(f, "requestID", context.id), context)
  IN  IF context = Invalid
      THEN EmitStructuredError(Log(f, "refused", Null, Malformed), Malformed)
      ELSE Write(done, EncodeResponse(Response(context.id, Last(done.log).result)))

HandleStructuredFrame(f, payload) == HandleDecoded(f, DecodeRequest[payload])

Take(f, n) == Set(f, "structured", SubSeq(f.session.structured, n + 1, Len(f.session.structured)))

\* The length ahead is of no request: what came with it is dropped.
RefuseLength(f) ==
  LET dropped == Set(Set(f, "structured", <<>>), "expectedStructuredBytes", 0)
      refused == EmitStructuredError(Log(dropped, "refused", Null, TooLong), TooLong)
  IN  Return(refused, refused.wrote /\ ~f.session.config.disconnectOnProtocolError)

\* One turn of FeedStructured's loop, or none where it ends.
FeedFrame(f) ==
  LET s == f.session
      length == ReadFrameLength(s.structured)
      payload == SubSeq(s.structured, 1, s.expectedStructuredBytes)
  IN  IF f.returned THEN f
      ELSE IF s.expectedStructuredBytes = 0
      THEN IF Len(s.structured) < HeaderBytes THEN f
           ELSE IF length = 0 \/ length > MaximumRequestBytes THEN RefuseLength(f)
           ELSE Set(Take(f, HeaderBytes), "expectedStructuredBytes", length)
      ELSE IF Len(s.structured) < s.expectedStructuredBytes THEN f
      ELSE Set(Take(And(HandleStructuredFrame(f, payload)), s.expectedStructuredBytes),
               "expectedStructuredBytes", 0)

\* Each turn takes a byte or more.
FeedFrames(f) ==
  LET turns == Len(f.session.structured)
      after[n \in 0..turns] == IF n = 0 THEN f ELSE FeedFrame(after[n - 1])
  IN  after[turns]

FeedStructured(f, data) ==
  LET s == f.session
      fed == FeedFrames(Set(f, "structured", s.structured \o data))
      dropped == Set(Set(fed, "structured", <<>>), "expectedStructuredBytes", 0)
  IN  IF Len(data) > MaximumRequestBytes + HeaderBytes /\ s.structured = <<>>
      THEN Return(f, FALSE)
      ELSE IF ~fed.returned /\ Len(fed.session.structured) > MaximumRequestBytes
      THEN Return(dropped, FALSE)
      ELSE fed

\* What was read is fed to the session, whose writer takes so many answers.
Feed(session, data, writable) ==
  IF session.config.mode = "Line"
  THEN FeedLine(Begin(session, writable), data)
  ELSE FeedStructured(Begin(session, writable), data)
=============================================================================
