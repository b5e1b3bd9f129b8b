-------------------------- MODULE TCPCommandServer --------------------------
(***************************************************************************)
(* TCPCommandServer: connections, the slots that serve them, each with a   *)
(* session, and the hooks that the application sets.                       *)
(*                                                                         *)
(* Every operation of the server holds _clientsMutex from end to end, the  *)
(* worker's iteration too, so an iteration's steps, one acceptance and one *)
(* read at a time, are actions, and the application's calls are actions    *)
(* between iterations.  A connection is lost at any time, also while its   *)
(* requests are being answered, and connected() may tell so late.          *)
(*                                                                         *)
(* A client sends the requests of its script, whose bytes are read in any  *)
(* pieces.                                                                 *)
(***************************************************************************)
EXTENDS SocketCommandSession, FiniteSets, FiniteSetsExt

CONSTANTS Connections,
          Script,          \* the requests each connection sends, in order
          Configs,         \* the configurations a server may have
          HookChanges,     \* calls of SetPolicy and SetResultObserver (model bound)
          MaximumClients,
          ReadSizes,       \* how much a read brings, at most the worker's buffer
          None             \* no connection

\* What makes a request of its kind, as a line and as a frame.
IsOfItsKind(r) ==
  /\ \A i \in DOMAIN r.text : r.text[i] \notin {CR, LF}
  /\ r.kind = "oversize" => Len(r.text) > MaximumRequestBytes /\ Len(r.payload) > MaximumRequestBytes
  /\ r.kind # "oversize" => Len(r.text) =< MaximumRequestBytes /\ Len(r.payload) =< MaximumRequestBytes
  /\ r.kind = "blank" => Trim(r.text) = <<>> /\ r.payload = <<>>
  /\ r.kind = "malformed" =>
       Trim(r.text) # <<>> /\ ~Tokenizes(Trim(r.text)) /\ DecodeRequest[r.payload] = Invalid
  /\ r.kind = "command" =>
       /\ Trim(r.text) # <<>> /\ Tokenizes(Trim(r.text))
       /\ r.request \in Request /\ r.request.path # <<>> /\ IsMap(r.request.named)
       /\ r.payload = EncodeRequest(r.request)

ASSUME ServerAssumption ==
  /\ Configs \subseteq Config
  /\ MaximumRequestBytes \in Nat \ {0} /\ MaximumClients \in Nat \ {0} /\ HookChanges \in Nat
  /\ ReadSizes \subseteq Nat \ {0}
  /\ None \notin Connections
  /\ \A k \in Connections :
       /\ Script[k] \in Seq(ToSet(Script[k]))
       /\ \A r \in ToSet(Script[k]) : r.text \in Seq(Nat) /\ r.payload \in Seq(Nat)

\* What RequestsInOrder says of requests it says by their kinds.
ASSUME KindsAssumption ==
  \A k \in Connections : \A r \in ToSet(Script[k]) :
    r.kind \in {"command", "malformed", "oversize", "blank"} /\ IsOfItsKind(r)

Slots == 1..MaximumClients

VARIABLES
  config,    \* of the server, the same for all sessions
  running,   \* _initialized, and with it the worker
  hooks,     \* _policy and _observer
  changes,   \* how often they were set
  status,    \* of each connection
  slots,     \* _clients: the connection and its session
  history    \* what became of each connection's requests

vars == <<config, running, hooks, changes, status, slots, history>>

Free == [of |-> None, session |-> NewSession(config)]

\* How many bytes the session was fed, the requests it has done away with,
\* what it wrote, until it could not write an answer, and whether it has
\* dropped bytes in the midst of the stream.
NoHistory == [fed |-> 0, log |-> <<>>, answers |-> <<>>, silent |-> FALSE, astray |-> FALSE]

-----------------------------------------------------------------------------
(* What a client sends.  A request has a kind, the text it is in a line,   *)
(* and the payload it is in a frame.                                       *)

SentBytes(mode, r) ==
  IF mode = "Line" THEN r.text \o <<CR, LF>> ELSE FrameStructuredPayload(r.payload)

\* Constants, so that they are evaluated once: what is sent, and where the
\* requests end in it.
Streams ==
  [mode \in {"Line", "StructuredBinary"} |-> [k \in Connections |->
     FlattenSeq([i \in DOMAIN Script[k] |-> SentBytes(mode, Script[k][i])])]]

Ends ==
  [mode \in {"Line", "StructuredBinary"} |-> [k \in Connections |-> [i \in DOMAIN Script[k] |->
     Len(FlattenSeq([j \in 1..i |-> SentBytes(mode, Script[k][j])]))]]]

Stream(k) == Streams[config.mode][k]

\* The requests whose last byte is among the first n.
Whole(mode, k, n) == Cardinality({i \in DOMAIN Script[k] : Ends[mode][k][i] =< n})

-----------------------------------------------------------------------------
Init ==
  /\ config \in Configs
  /\ running = TRUE
  /\ hooks = NoHooks
  /\ changes = 0
  /\ status = [k \in Connections |-> "new"]
  /\ slots = [i \in Slots |-> Free]
  /\ history = [k \in Connections |-> NoHistory]

Become(k, s) == status' = [status EXCEPT ![k] = s]

Connect(k) ==
  /\ status[k] = "new" /\ running
  /\ Become(k, "waiting")
  /\ UNCHANGED <<config, running, hooks, changes, slots, history>>

Lose(k) ==
  /\ status[k] \in {"waiting", "open"}
  /\ Become(k, IF status[k] = "open" THEN "lost" ELSE "closed")
  /\ UNCHANGED <<config, running, hooks, changes, slots, history>>

Serves(i, k) == slots[i].of = k

\* Mutation: a slot is vacant when it was never used.
VacantIfUnused(i) == Serves(i, None)

\* Inactive, or of a connection that connected() tells is gone.
Vacant(i) == IF Serves(i, None) THEN TRUE ELSE status[slots[i].of] = "lost"

\* What is common to the mutations of AcceptClient and itself.  The history
\* of connections served before is forgotten (it would only multiply states).
Accept(k, i) ==
  /\ running /\ status[k] = "waiting" /\ Vacant(i)
  /\ \A j \in 1..(i - 1) : ~Vacant(j)
  /\ status' = [c \in Connections |-> IF c = k THEN "open" ELSE IF Serves(i, c) THEN "closed"
                                      ELSE status[c]]
  /\ history' = [c \in Connections |-> IF \E j \in Slots \ {i} : Serves(j, c) THEN history[c]
                                       ELSE NoHistory]
  /\ UNCHANGED <<config, running, hooks, changes>>

\* Mutation: the session goes on where the last connection left it.
AcceptWithOldSession(k, i) ==
  /\ Accept(k, i)
  /\ slots' = [slots EXCEPT ![i] = [of |-> k, session |-> [@.session EXCEPT !.hooks = hooks]]]

\* Mutation: only SetPolicy and SetResultObserver hand the hooks on.
AcceptWithoutHooks(k, i) ==
  /\ Accept(k, i)
  /\ slots' = [slots EXCEPT ![i] = [of |-> k, session |-> NewSession(config)]]

\* AcceptClientLocked: the first vacant slot.
AcceptClient(k, i) ==
  /\ Accept(k, i)
  /\ slots' = [slots EXCEPT ![i] = [of |-> k, session |-> [NewSession(config) EXCEPT !.hooks = hooks]]]

RefuseClient(k) ==
  /\ running /\ status[k] = "waiting" /\ \A i \in Slots : ~Vacant(i)
  /\ Become(k, "closed")
  /\ UNCHANGED <<config, running, hooks, changes, slots, history>>

Lost(i) == running /\ ~Serves(i, None) /\ Vacant(i)

\* Mutation: the connection is stopped, and its slot remains active.
ReapWithoutRelease(i) ==
  /\ Lost(i)
  /\ Become(slots[i].of, "closed")
  /\ UNCHANGED <<config, running, hooks, changes, slots, history>>

\* ResetClient, of a connection found lost.
ReapClient(i) ==
  /\ Lost(i)
  /\ Become(slots[i].of, "closed")
  /\ slots' = [slots EXCEPT ![i] = Free]
  /\ UNCHANGED <<config, running, hooks, changes, history>>

\* What Feed does with data, when the connection takes all the answers, or
\* only some of them.
Outcomes(session, data) ==
  UNION {{[fed |-> all, failed |-> FALSE]} \cup
         {[fed |-> Feed(session, data, taken), failed |-> TRUE] : taken \in 0..(Len(all.answers) - 1)} :
           all \in {Feed(session, data, Len(data))}}

Left(k) == SubSeq(Stream(k), history[k].fed + 1, Len(Stream(k)))
HasInput(i) == running /\ ~Serves(i, None) /\ Left(slots[i].of) # <<>>

\* A request done away with, and the hooks there were then.
Noted(entry) ==
  [under |-> hooks, did |-> entry.did, context |-> entry.context, result |-> entry.result,
   observed |-> entry.observed]

\* One read, and Feed of it.
ServeClient(i) ==
  LET k == slots[i].of
  IN  /\ HasInput(i)
      /\ \E size \in ReadSizes : \E n \in {Min({size, Len(Left(k))})} :
           \E o \in Outcomes(slots[i].session, SubSeq(Left(k), 1, n)) :
             LET f == o.fed
                 reset == ~f.success /\ config.disconnectOnProtocolError
             IN  /\ status[k] = "lost" => o.failed \/ f.answers = <<>>
                 /\ slots' = [slots EXCEPT ![i] = IF reset THEN Free
                                                  ELSE [of |-> k, session |-> f.session]]
                 /\ \/ ~reset /\ UNCHANGED status
                    \/ ~reset /\ o.failed /\ Become(k, "lost")
                    \/ reset /\ Become(k, "closed")
                 /\ history' = [history EXCEPT ![k] =
                      [fed |-> @.fed + n,
                       log |-> @.log \o [j \in DOMAIN f.log |-> Noted(f.log[j])],
                       answers |-> IF @.silent \/ o.failed THEN <<>> ELSE @.answers \o f.answers,
                       silent |-> @.silent \/ o.failed,
                       astray |-> @.astray \/ f.returned]]
      /\ UNCHANGED <<config, running, hooks, changes>>

\* The hooks are also those of the sessions.
SetHooks(h) ==
  /\ changes < HookChanges /\ changes' = changes + 1
  /\ hooks' = h
  /\ slots' = [i \in Slots |-> IF Serves(i, None) THEN slots[i]
                               ELSE [slots[i] EXCEPT !.session.hooks = h]]
  /\ UNCHANGED <<config, running, status, history>>

SetPolicy(p) == SetHooks([hooks EXCEPT !.policy = p])
SetResultObserver(o) == SetHooks([hooks EXCEPT !.observer = o])

Shutdown ==
  /\ running /\ running' = FALSE
  /\ status' = [k \in Connections |-> IF status[k] = "new" THEN "new" ELSE "closed"]
  /\ slots' = [i \in Slots |-> Free]
  /\ UNCHANGED <<config, hooks, changes, history>>

Initialize ==
  /\ ~running /\ running' = TRUE
  /\ UNCHANGED <<config, hooks, changes, status, slots, history>>

Iterate ==
  \/ \E k \in Connections : RefuseClient(k) \/ \E i \in Slots : AcceptClient(k, i)
  \/ \E i \in Slots : ReapClient(i) \/ ServeClient(i)

Next ==
  \/ Iterate \/ Shutdown \/ Initialize
  \/ \E k \in Connections : Connect(k) \/ Lose(k)
  \/ \E set \in BOOLEAN : SetPolicy(set) \/ SetResultObserver(set)

\* The worker's iterations come to every slot, and to the backlog.  Input is
\* what enables ServeClient.
Fairness ==
  /\ \A k \in Connections : WF_vars(RefuseClient(k) \/ \E i \in Slots : AcceptClient(k, i))
  /\ \A i \in Slots : WF_vars(ReapClient(i))
  /\ \A i \in Slots : []<>~HasInput(i) \/ []<><<ServeClient(i)>>_vars

Spec == Init /\ [][Next]_vars /\ Fairness

-----------------------------------------------------------------------------
TypeOK ==
  /\ config \in Configs /\ running \in BOOLEAN /\ hooks \in Hooks /\ changes \in 0..HookChanges
  /\ status \in [Connections -> {"new", "waiting", "open", "lost", "closed"}]
  /\ \A i \in Slots :
       /\ slots[i].of \in Connections \cup {None}
       /\ slots[i].of = None \/ status[slots[i].of] \in {"open", "lost"}
       /\ \A j \in Slots \ {i} : slots[i].of = None \/ slots[i].of # slots[j].of
       /\ ~running => slots[i].of = None
  /\ \A k \in Connections : history[k].fed \in 0..Len(Stream(k))

(* What a connection has sent is done away with request by request, in     *)
(* order, each once and as what it was, however it was cut into reads and  *)
(* whatever its slot served before: commands run with the arguments sent,  *)
(* and what is malformed, oversize or empty never runs.  After the last    *)
(* byte of a request its turn has come.  Excepted is what follows the      *)
(* bytes a structured session drops without disconnecting.                 *)
Fate(c, k, i) ==
  LET r == Script[k][i]
  IN  IF r.kind = "command" THEN "run"
      ELSE IF r.kind = "blank" /\ c.mode = "Line" /\ c.ignoreEmptyLines THEN "ignored"
      ELSE "refused"

\* The requests that leave a trace, of the first n.
Handled(c, k, n) ==
  LET of[m \in 0..n] == IF m = 0 THEN <<>>
                        ELSE IF Fate(c, k, m) = "ignored" THEN of[m - 1] ELSE Append(of[m - 1], m)
  IN  of[n]

Does(c, entry, k, i) ==
  IF Fate(c, k, i) = "refused" THEN entry.did = "refused"
  ELSE /\ entry.did \in {"executed", "denied"}
       /\ IF c.mode = "Line" THEN entry.context.raw = Trim(Script[k][i].text)
          ELSE entry.context = AsDecoded(Script[k][i].request)

RequestsInOrder ==
  \A k \in Connections :
    LET log == history[k].log
    IN  \/ history[k].astray /\ ~config.disconnectOnProtocolError
        \/ \E n \in 0..Len(Script[k]) :
             /\ Len(Handled(config, k, n)) = Len(log)
             /\ \A j \in DOMAIN log : Does(config, log[j], k, Handled(config, k, n)[j])
             /\ status[k] \in {"open", "lost"} => n = Whole(config.mode, k, history[k].fed)

(* Every request done away with is answered, in order, with what came of   *)
(* it, under the number it came with, unless a write has failed.           *)
Answers(entry, answer) ==
  IF config.mode = "Line" THEN answer = LineResult(entry.result)
  ELSE DecodeResponse[answer] =
         Response(IF entry.did = "refused" THEN 0 ELSE entry.context.id, entry.result)

AnswersMatch ==
  \A k \in Connections :
    LET h == history[k]
    IN  ~h.silent =>
          /\ Len(h.answers) = Len(h.log)
          /\ \A j \in DOMAIN h.log : Answers(h.log[j], h.answers[j])

(* No command that the server's policy denies runs, and whatever becomes   *)
(* of one is observed, as the hooks are from the moment they are set,      *)
(* whenever the connection came.                                           *)
HooksInForce ==
  \A k \in Connections : \A j \in DOMAIN history[k].log :
    LET e == history[k].log[j]
    IN  e.did # "refused" =>
          /\ (e.did = "denied") = (e.under.policy /\ e.context.path[1] \in Guarded)
          /\ e.observed = e.under.observer

(* However its input was cut and refused, between reads a session holds no *)
(* more than the bound and waits for no more.                              *)
BoundedInput ==
  \A i \in Slots :
    LET s == slots[i].session
    IN  /\ Len(s.line) =< MaximumRequestBytes
        /\ Len(s.structured) =< MaximumRequestBytes
        /\ s.expectedStructuredBytes =< MaximumRequestBytes

(* A client that connects is served or turned away, one that stays is      *)
(* served to the end of what it sends, whatever it sends, and the slot of  *)
(* one that is gone becomes vacant.                                        *)
EventuallyServed ==
  \A k \in Connections :
    /\ [](status[k] = "waiting" => <>(status[k] # "waiting" \/ ~running))
    /\ [](status[k] = "open" => <>(status[k] # "open" \/ history[k].fed = Len(Stream(k))))
    /\ [](status[k] = "lost" => <>(status[k] = "closed"))
=============================================================================
