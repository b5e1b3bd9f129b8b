----------------------- MODULE TCPClockSynchronization -----------------------
(***************************************************************************)
(* Clock synchronization over TCP: TCPClockSynchronizationClients of one   *)
(* TCPClockSynchronizationServer, and the frames between them.             *)
(*                                                                         *)
(* A client's worker reads under the client's mutex, handles what it has   *)
(* read without it, and, like the application, builds and sends requests   *)
(* under it.  The server accepts, reads, answers and lets go of clients in *)
(* the iterations of its only thread.                                      *)
(*                                                                         *)
(* A stream is a sequence of frames, each written whole or torn: WriteAll  *)
(* gives up after a part of it, the server does not look at the result and *)
(* writes the next frame behind the part.  A decoder that holds such a     *)
(* part completes it with bytes of what follows, to a garbled message,     *)
(* reads on from the middle of a frame, and sooner or later meets bytes    *)
(* that are no header.  If the frame was torn before its number was        *)
(* written, the message has a number made of other bytes, which may be the *)
(* one pending: the client then mistakes it for its answer.  A client that *)
(* fails to write closes the connection instead.  Which bytes of a closed  *)
(* connection were read is unknown.  The server's way out for a stream     *)
(* that is out of step has no place here: no client of this library takes  *)
(* it there, see DecodersOwn.                                              *)
(***************************************************************************)
EXTENDS SocketClockSynchronizationProtocol, SequencesExt

CONSTANTS Server,
          Dead,           \* a connection that ended, still in its slot
          AppThreads,     \* clients whose application requests synchronization
          MaximumClients, \* of the server
          MaxFailures     \* connections lost, writes failed, server restarts (model bound)

ASSUME CarrierAssumption ==
  /\ References = {Server} /\ Server \notin Clients
  /\ Dead \notin Clients /\ None # Dead /\ None \notin {"worker", "app"}
  /\ AppThreads \subseteq Clients
  /\ MaximumClients \in Nat \ {0} /\ MaxFailures \in Nat

Threads == Clients \X {"worker", "app"}
Worker(c) == <<c, "worker">>
Slots == 1..MaximumClients

VARIABLES
  running,    \* _initialized, and with it the worker
  pc,         \* where each thread is
  mutex,      \* the thread that holds a client's _mutex, None if it is free
  request,    \* the request being sent under it
  completed,  \* the messages an iteration of the worker has yet to handle
  received,   \* receiveTime of the first of them
  link,       \* what a client's connection is, whatever the client knows of it
  decoder,    \* what a client's _decoder holds
  requests,   \* frames on their way to the server
  responses,  \* frames on their way to a client
  slots,      \* _clients of the server
  leftover,   \* whether the Decoder of a slot holds a part of a frame
  failures,
  latest,     \* the number last requested on the connection (history)
  overtaken,  \* the number was cleared by another message than its answer (history)
  taken,      \* the numbers that samples were taken for (history)
  spoiled     \* the server has torn a frame on the connection (history)

client  == <<running, pc, mutex, request, completed, received>>
streams == <<link, decoder, requests, responses>>
server  == <<slots, leftover>>
history == <<latest, overtaken, taken, spoiled>>
vars == <<protocolVars, client, streams, server, failures, history>>

\* A decoder holds nothing, a part of the response of a number, or bytes
\* from the middle of a frame.
Clean == [holds |-> "nothing", sequence |-> 0]
Part(s) == [holds |-> "part", sequence |-> s]
Astray == [holds |-> "astray", sequence |-> 0]

\* What other bytes read as a time are: none that a clock has shown.
Noise == [by |-> Server, at |-> 0]

\* What a part becomes of a response torn behind its number s, whatever times
\* it has, and of one torn before the end of its number.
Garbled(s) == [type |-> "Response", sequence |-> s, t1 |-> None, t2 |-> None, t3 |-> None]
Foreign(n) == [type |-> "Response", sequence |-> n, t1 |-> Noise, t2 |-> Noise, t3 |-> Noise]

Completions(s) == {Garbled(s)} \cup {Foreign(n) : n \in Sequences}

Frame == [message : Message, whole : BOOLEAN]

TypeOK ==
  /\ ProtocolTypeOK
  /\ running \in [Clients -> BOOLEAN]
  /\ pc \in [Threads -> {"idle", "lock", "publish", "send", "read", "accept"}]
  /\ mutex \in [Clients -> {"worker", "app", None}]
  /\ request \in [Clients -> Message]
  /\ completed \in [Clients -> Seq(Message)]
  /\ received \in [Clients -> Stamps]
  /\ link \in [Clients -> {"down", "waiting", "open", "lost"}]
  /\ decoder \in [Clients -> {Clean, Astray} \cup {Part(s) : s \in Sequences}]
  /\ requests \in [Clients -> Seq(Message)]
  /\ responses \in [Clients -> Seq(Frame)]
  /\ slots \in [Slots -> Clients \cup {None, Dead}]
  /\ leftover \in [Slots -> BOOLEAN]
  /\ failures \in 0..MaxFailures
  /\ latest \in [Clients -> Sequences]
  /\ overtaken \in [Clients -> BOOLEAN] /\ taken \in [Clients -> SUBSET Sequences]
  /\ spoiled \in [Clients -> BOOLEAN]

Init ==
  /\ ProtocolInit
  /\ running = [c \in Clients |-> TRUE]
  /\ pc = [t \in Threads |-> "idle"]
  /\ mutex = [c \in Clients |-> None]
  /\ request = [c \in Clients |-> Request(0, None)]
  /\ completed = [c \in Clients |-> <<>>]
  /\ received = [c \in Clients |-> None]
  /\ link = [c \in Clients |-> "down"]
  /\ decoder = [c \in Clients |-> Clean]
  /\ requests = [c \in Clients |-> <<>>]
  /\ responses = [c \in Clients |-> <<>>]
  /\ slots = [i \in Slots |-> None]
  /\ leftover = [i \in Slots |-> FALSE]
  /\ failures = 0
  /\ latest = [c \in Clients |-> 0]
  /\ overtaken = [c \in Clients |-> FALSE]
  /\ taken = [c \in Clients |-> {}]
  /\ spoiled = [c \in Clients |-> FALSE]

Goto(t, step) == pc' = [pc EXCEPT ![t] = step]

Lock(t) == mutex[t[1]] = None /\ mutex' = [mutex EXCEPT ![t[1]] = t[2]]
Unlock(t) == mutex' = [mutex EXCEPT ![t[1]] = None]

Fail(n) == failures + n =< MaxFailures /\ failures' = failures + n

\* A slot whose connection ends may be left with a part of a frame.
Forget(c) ==
  /\ slots' = [i \in Slots |-> IF slots[i] = c THEN Dead ELSE slots[i]]
  /\ leftover' \in [Slots -> BOOLEAN]
  /\ \A i \in Slots : slots[i] # c => leftover'[i] = leftover[i]

\* _client.stop().
Stop(c) ==
  /\ link' = [link EXCEPT ![c] = "down"]
  /\ requests' = [requests EXCEPT ![c] = <<>>]
  /\ responses' = [responses EXCEPT ![c] = <<>>]
  /\ Forget(c)

ResetDecoder(c) == decoder' = [decoder EXCEPT ![c] = Clean]

-----------------------------------------------------------------------------
(* The client.  EnsureConnectedLocked: a connection lost is one that       *)
(* connected() may already tell, or not yet.                               *)

Connected(c) == link[c] \in {"waiting", "open", "lost"}

\* A thread on its way to the mutex in RequestSynchronization, or the worker.
Calling(t) == pc[t] = "lock" \/ (t = Worker(t[1]) /\ pc[t] = "idle" /\ running[t[1]]
                                 /\ completed[t[1]] = <<>>)

\* The reconnect interval is over; connect succeeds or not.
Reopen(t, up) ==
  LET c == t[1]
  IN  /\ Calling(t) /\ mutex[c] = None
      /\ link[c] \in {"down", "lost"}
      /\ link' = [link EXCEPT ![c] = IF up THEN "waiting" ELSE "down"]
      /\ responses' = [responses EXCEPT ![c] = <<>>]
      /\ ResetDecoder(c)
      /\ latest' = [latest EXCEPT ![c] = 0]
      /\ spoiled' = [spoiled EXCEPT ![c] = FALSE]
      /\ IF up THEN UNCHANGED pc ELSE Goto(t, "idle")
      /\ UNCHANGED <<clock, nextSequence, asked, samples, running, mutex, request, completed,
                     received, requests, server, failures, overtaken, taken>>

\* Mutation: the new connection inherits the pending request of the old one.
ReconnectWithoutCancel(t, up) == Reopen(t, up) /\ UNCHANGED pendingSequence

\* Mutation: only a connection the client itself has stopped is replaced.
ReconnectIfStopped(t, up) == link[t[1]] = "down" /\ Reopen(t, up) /\ SetPending(t[1], 0)

Reconnect(t, up) == Reopen(t, up) /\ SetPending(t[1], 0)

\* RequestSynchronization looks at _initialized before it takes the mutex.
EnterRequest(t) ==
  LET c == t[1]
  IN  /\ pc[t] = "idle" /\ running[c]
      /\ t = Worker(c) \/ c \in AppThreads
      /\ t = Worker(c) => completed[c] = <<>>
      /\ Goto(t, "lock")
      /\ UNCHANGED <<protocolVars, running, mutex, request, completed, received, streams, server,
                     failures, history>>

\* The reconnect interval is not over.
GiveUp(t) ==
  /\ pc[t] = "lock" /\ mutex[t[1]] = None
  /\ link[t[1]] \in {"down", "lost"}
  /\ Goto(t, "idle")
  /\ UNCHANGED <<protocolVars, running, mutex, request, completed, received, streams, server,
                 failures, history>>

\* Mutation: RequestSynchronization does not take the mutex.
BuildRequestUnlocked(t) ==
  LET c == t[1]
  IN  /\ pc[t] = "lock" /\ Connected(c)
      /\ NumberRequest(c)
      /\ request' = [request EXCEPT ![c] = Request(Sequence(c), Now(c))]
      /\ latest' = [latest EXCEPT ![c] = Sequence(c)]
      /\ overtaken' = [overtaken EXCEPT ![c] = FALSE]
      /\ Goto(t, "publish")
      /\ UNCHANGED <<pendingSequence, running, mutex, completed, received, streams, server,
                     failures, taken, spoiled>>

BuildRequest(t) ==
  LET c == t[1]
  IN  /\ pc[t] = "lock" /\ Lock(t) /\ Connected(c)
      /\ NumberRequest(c)
      /\ request' = [request EXCEPT ![c] = Request(Sequence(c), Now(c))]
      /\ latest' = [latest EXCEPT ![c] = Sequence(c)]
      /\ overtaken' = [overtaken EXCEPT ![c] = FALSE]
      /\ Goto(t, "publish")
      /\ UNCHANGED <<pendingSequence, running, completed, received, streams, server, failures,
                     taken, spoiled>>

StorePending(t) ==
  LET c == t[1]
  IN  /\ pc[t] = "publish"
      /\ SetPending(c, request[c].sequence)
      /\ Goto(t, "send")
      /\ UNCHANGED <<clock, nextSequence, asked, samples, running, mutex, request, completed,
                     received, streams, server, failures, history>>

\* What is written to a connection already lost goes nowhere.
SendMessage(t) ==
  LET c == t[1]
  IN  /\ pc[t] = "send"
      /\ requests' = IF link[c] = "lost" THEN requests
                     ELSE [requests EXCEPT ![c] = Append(@, request[c])]
      /\ Unlock(t) /\ Goto(t, "idle")
      /\ UNCHANGED <<protocolVars, running, request, completed, received, link, decoder,
                     responses, server, failures, history>>

SendFails(t) ==
  LET c == t[1]
  IN  /\ pc[t] = "send"
      /\ IF link[c] = "lost" THEN UNCHANGED failures ELSE Fail(1)
      /\ SetPending(c, 0)
      /\ Stop(c)
      /\ Unlock(t) /\ Goto(t, "idle")
      /\ UNCHANGED <<clock, nextSequence, asked, samples, running, request, completed, received,
                     decoder, history>>

-----------------------------------------------------------------------------
(* The worker's iteration: it reads under the mutex, then handles what was *)
(* completed.                                                              *)

BeginRead(c) ==
  LET t == Worker(c)
  IN  /\ pc[t] = "idle" /\ running[c] /\ completed[c] = <<>>
      /\ Lock(t) /\ Connected(c)
      /\ Goto(t, "read")
      /\ UNCHANGED <<protocolVars, running, request, completed, received, streams, server,
                     failures, history>>

\* Push, of a frame or a part.  What a part is completed to may be no response,
\* and is ignored then.
Decode(c, f, messages, next) ==
  CASE decoder[c] = Clean /\ f.whole  -> messages = <<f.message>> /\ next = Clean
    [] decoder[c] = Clean /\ ~f.whole -> messages = <<>> /\ next = Part(f.message.sequence)
    [] decoder[c].holds = "part"      ->
         \/ messages = <<>> /\ next \in {decoder[c], Clean, Astray}
         \/ /\ \E m \in Completions(decoder[c].sequence) : messages = <<m>>
            /\ next = Astray \/ (~f.whole /\ next = Clean)
    [] OTHER -> messages = <<>> /\ next = Astray

ReadFrame(c) ==
  LET f == Head(responses[c])
  IN  /\ pc[Worker(c)] = "read" /\ responses[c] # <<>>
      /\ \E messages \in {<<>>, <<f.message>>} \cup {<<m>> : m \in Completions(decoder[c].sequence)},
            next \in {Clean, Astray, decoder[c], Part(f.message.sequence)} :
           /\ Decode(c, f, messages, next)
           /\ completed' = [completed EXCEPT ![c] = @ \o messages]
           /\ decoder' = [decoder EXCEPT ![c] = next]
      /\ responses' = [responses EXCEPT ![c] = Tail(@)]
      /\ UNCHANGED <<protocolVars, running, pc, mutex, request, received, link, requests, server,
                     failures, history>>

\* Push meets bytes that are no header, perhaps behind a garbled message.
Reject(c) ==
  LET t == Worker(c)
  IN  /\ pc[t] = "read" /\ decoder[c] # Clean /\ responses[c] # <<>>
      /\ \/ UNCHANGED completed
         \/ /\ decoder[c].holds = "part"
            /\ \E m \in Completions(decoder[c].sequence) :
                 completed' = [completed EXCEPT ![c] = Append(@, m)]
      /\ Stop(c) /\ ResetDecoder(c)
      /\ SetPending(c, 0)
      /\ Unlock(t) /\ Goto(t, "idle")
      /\ UNCHANGED <<clock, nextSequence, asked, samples, running, request, received, failures,
                     history>>

EndRead(c) ==
  LET t == Worker(c)
  IN  /\ pc[t] = "read"
      /\ Unlock(t) /\ Goto(t, "idle")
      /\ UNCHANGED <<protocolVars, running, request, completed, received, streams, server,
                     failures, history>>

\* The time is taken for each message, then ProcessResponse compares.
HandleMessage(c) ==
  LET t == Worker(c)
  IN  /\ pc[t] = "idle" /\ completed[c] # <<>>
      /\ Read(c)
      /\ IF Matches(c, Head(completed[c]))
         THEN /\ Goto(t, "accept")
              /\ received' = [received EXCEPT ![c] = Now(c)]
              /\ UNCHANGED completed
         ELSE /\ completed' = [completed EXCEPT ![c] = Tail(@)]
              /\ UNCHANGED <<pc, received>>
      /\ UNCHANGED <<nextSequence, pendingSequence, asked, samples, running, mutex, request,
                     streams, server, failures, history>>

AcceptResponse(c) ==
  LET t == Worker(c)
      m == Head(completed[c])
  IN  /\ pc[t] = "accept"
      /\ Accept(c, m, received[c])
      /\ overtaken' = [overtaken EXCEPT ![c] = @ \/ m.sequence # latest[c] \/ m.t1 = Noise]
      /\ taken' = [taken EXCEPT ![c] = @ \cup {m.sequence}]
      /\ completed' = [completed EXCEPT ![c] = Tail(@)]
      /\ Goto(t, "idle")
      /\ UNCHANGED <<running, mutex, request, received, streams, server, failures, latest,
                     spoiled>>

\* Shutdown, which has joined the worker; a RequestSynchronization that has
\* passed its look at _initialized goes on.
Shutdown(c) ==
  LET t == Worker(c)
  IN  /\ running[c] /\ pc[t] = "idle" /\ completed[c] = <<>> /\ mutex[c] = None
      /\ running' = [running EXCEPT ![c] = FALSE]
      /\ Stop(c) /\ ResetDecoder(c)
      /\ SetPending(c, 0)
      /\ UNCHANGED <<clock, nextSequence, asked, samples, pc, mutex, request, completed, received,
                     failures, history>>

Initialize(c) ==
  /\ ~running[c]
  /\ running' = [running EXCEPT ![c] = TRUE]
  /\ UNCHANGED <<protocolVars, pc, mutex, request, completed, received, streams, server, failures,
                 history>>

-----------------------------------------------------------------------------
(* The server's iteration: AcceptClientLocked, then each slot.  A dead     *)
(* connection is one connected() may already tell, or not yet.             *)

\* Mutation: the slot keeps the decoder's contents.
AcceptWithoutReset(c, i) ==
  /\ link[c] = "waiting" /\ slots[i] \in {None, Dead}
  /\ \A j \in 1..(i - 1) : slots[j] # None
  /\ link' = [link EXCEPT ![c] = "open"]
  /\ slots' = [slots EXCEPT ![i] = c]
  /\ UNCHANGED <<protocolVars, client, decoder, requests, responses, leftover, failures, history>>

AcceptClient(c, i) ==
  /\ link[c] = "waiting" /\ slots[i] \in {None, Dead}
  /\ \A j \in 1..(i - 1) : slots[j] # None
  /\ link' = [link EXCEPT ![c] = "open"]
  /\ slots' = [slots EXCEPT ![i] = c]
  /\ leftover' = [leftover EXCEPT ![i] = FALSE]
  /\ UNCHANGED <<protocolVars, client, decoder, requests, responses, failures, history>>

RefuseClient(c) ==
  /\ link[c] = "waiting" /\ \A i \in Slots : slots[i] # None
  /\ link' = [link EXCEPT ![c] = "lost"]
  /\ requests' = [requests EXCEPT ![c] = <<>>]
  /\ UNCHANGED <<protocolVars, client, decoder, responses, server, failures, history>>

ReapClient(i) ==
  /\ slots[i] = Dead
  /\ slots' = [slots EXCEPT ![i] = None]
  /\ leftover' = [leftover EXCEPT ![i] = FALSE]
  /\ UNCHANGED <<protocolVars, client, streams, failures, history>>

\* One read, of n requests: ReceiveTime is taken once, T3 before each response
\* is written.  The result of writing one is ignored: some are not written,
\* and some in part.
AnswerRequests(i) ==
  LET c == slots[i]
      At(k) == [by |-> Server, at |-> clock[Server] + k]
      Answer(k) == [Response(requests[c][k], At(1)) EXCEPT !.t3 = At(k + 1)]
  IN  /\ c \in Clients /\ ~leftover[i]
      /\ \E n \in 1..Len(requests[c]) : \E m \in 0..n :
           \E written \in [1..m -> 1..n], torn \in SUBSET (1..m) :
             /\ \A j, k \in 1..m : j < k => written[j] < written[k]
             /\ clock[Server] + n + 1 =< MaxReadings[Server]
             /\ clock' = [clock EXCEPT ![Server] = @ + n + 1]
             /\ Fail(n - m + Cardinality(torn))
             /\ requests' = [requests EXCEPT ![c] = SubSeq(@, n + 1, Len(@))]
             /\ responses' = [responses EXCEPT ![c] = @ \o
                  [j \in 1..m |-> [message |-> Answer(written[j]), whole |-> j \notin torn]]]
             /\ spoiled' = [spoiled EXCEPT ![c] = @ \/ torn # {}]
      /\ UNCHANGED <<nextSequence, pendingSequence, asked, samples, client, link, decoder, server,
                     latest, overtaken, taken>>

\* A connection is lost; what had come by then can be read.
Drop(c) ==
  /\ link[c] \in {"waiting", "open"} /\ Fail(1)
  /\ link' = [link EXCEPT ![c] = "lost"]
  /\ requests' = [requests EXCEPT ![c] = <<>>]
  /\ \E n \in 0..Len(responses[c]) :
       responses' = [responses EXCEPT ![c] = SubSeq(@, 1, n)]
  /\ Forget(c)
  /\ UNCHANGED <<protocolVars, client, decoder, history>>

\* Shutdown of the server, and Initialize again.
RestartServer ==
  /\ Fail(1)
  /\ link' = [c \in Clients |-> IF link[c] = "down" THEN "down" ELSE "lost"]
  /\ requests' = [c \in Clients |-> <<>>]
  /\ slots' = [i \in Slots |-> None]
  /\ leftover' = [i \in Slots |-> FALSE]
  /\ UNCHANGED <<protocolVars, client, decoder, responses, history>>

-----------------------------------------------------------------------------
RequestSynchronization(t) ==
  \/ \E up \in BOOLEAN : Reconnect(t, up)
  \/ EnterRequest(t) \/ GiveUp(t) \/ BuildRequest(t) \/ StorePending(t)
  \/ SendMessage(t) \/ SendFails(t)

Iterate(c) ==
  \/ BeginRead(c) \/ ReadFrame(c) \/ Reject(c) \/ EndRead(c)
  \/ HandleMessage(c) \/ AcceptResponse(c)

Serve ==
  \/ \E c \in Clients : RefuseClient(c) \/ \E i \in Slots : AcceptClient(c, i)
  \/ \E i \in Slots : ReapClient(i) \/ AnswerRequests(i)

Next ==
  \/ \E t \in Threads : RequestSynchronization(t)
  \/ \E c \in Clients : Iterate(c) \/ Shutdown(c) \/ Initialize(c) \/ Drop(c)
  \/ Serve \/ RestartServer

Spec == Init /\ [][Next]_vars

\* Threads that hold a mutex go on, the workers iterate, and attempts to
\* connect do not all fail.
Fairness ==
  /\ \A t \in Threads : WF_vars(StorePending(t)) /\ WF_vars(SendMessage(t) \/ SendFails(t))
                        /\ WF_vars(BuildRequest(t) \/ GiveUp(t))
  /\ \A c \in Clients :
       /\ WF_vars(EndRead(c)) /\ WF_vars(HandleMessage(c)) /\ WF_vars(AcceptResponse(c))
       /\ SF_vars(Reconnect(Worker(c), TRUE))
       /\ WF_vars(\E i \in Slots : AcceptClient(c, i))
  /\ \A i \in Slots : WF_vars(ReapClient(i))

FairSpec == Spec /\ Fairness

-----------------------------------------------------------------------------
(* Between calls a pending number is the last one requested, and requested *)
(* on the connection there is: nothing that an earlier connection left     *)
(* behind, in the worker's hands or its own, can match it.                 *)
PendingIsCurrent ==
  \A c \in Clients : mutex[c] = None => pendingSequence[c] \in {0, latest[c]}

(* The answer to a client's latest request is awaited for as long as it is *)
(* on its way, unless the number wrapped to 0, a response to an earlier    *)
(* request was being accepted when the number was stored, or a garbled     *)
(* message was mistaken for it.                                            *)
OnItsWay(c) ==
  {m \in ToSet(completed[c]) : m.t1 \notin {None, Noise}} \cup
  (IF decoder[c] = Clean
   THEN {responses[c][k].message : k \in {k \in 1..Len(responses[c]) :
           \A j \in 1..k : responses[c][j].whole}}
   ELSE {})

AnswerAwaited ==
  \A c \in Clients :
    (\E m \in OnItsWay(c) : m.sequence = latest[c]) =>
      pendingSequence[c] = latest[c] \/ overtaken[c]

(* Each sample uses up a number that was requested: neither a second       *)
(* answer nor, beside the answer, a garbled message mistaken for it yields *)
(* another sample of the same request.                                     *)
EachNumberOnce ==
  [][\A c \in Clients : samples'[c] # samples[c] => taken'[c] # taken[c]]_vars

(* But for the samples of garbled messages whose number was torn and came  *)
(* out as the one pending, which may be of any times, what Timing targets  *)
(* learn over TCP is what they would by the abstract exchange: neither a   *)
(* message garbled behind its number nor what a lost connection left       *)
(* becomes a sample.                                                       *)
Mistaken(d) == {s \in samples[d] : s.t1 = Noise}

Sound == INSTANCE ClockExchange WITH
           samples <- [d \in Devices |-> samples[d] \ Mistaken(d)]

ImplementsExchangeUnlessMistaken == Sound!Spec

(* A decoder holds the rest of no other connection: one out of step has    *)
(* been put so by a frame torn on this connection, and the server's, whose *)
(* clients close after a torn frame, is never out of step.                 *)
DecodersOwn ==
  /\ \A c \in Clients : decoder[c] # Clean => spoiled[c]
  /\ \A i \in Slots : slots[i] \in Clients => ~leftover[i]

(* A running client has a place at the server in the end and for good,     *)
(* once connections no longer fail and clients no longer shut down:        *)
(* neither the dead connections of clients nor a torn frame keep it away.  *)
EventuallyServed ==
  (\A c \in Clients : <>[]running[c] \/ <>[]~running[c]) =>
    \A c \in Clients : <>[]running[c] => <>[](link[c] = "open")
=============================================================================
