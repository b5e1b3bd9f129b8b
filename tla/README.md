# A verification project for ESPressio-Sockets

These TLA+ modules model the parts of ESPressio-Sockets that keep state and run
concurrently. TLC checks them on small instances; TLAPS proves, for every value
of the constants, what matters most about the parts everything else stands on.
Paths below are relative to the repository.

## 1. The system

ESPressio-Sockets is a header-only C++ library for microcontrollers. Its
adapters own a socket and a background worker; under them are sessions and
protocols that know nothing of sockets. Other ESPressio packages supply the
meaning: State (publishers, registries, copies of remote states), Command,
Security, Event, Timing. They are external here and are modelled as the code of
this repository uses them.

| Part | State it keeps | Operations | What makes it correct |
|---|---|---|---|
| `SocketWorker` | `_running`, `_executionHandle`, the task | StartWorker, StopWorker, Run, destructor | one task runs the iterations; Shutdown joins it before members are destroyed; Started and Stopped alternate; StopWorker returns |
| `SocketStateFrameDecoder` | `_buffer`, its bound | Push (re-entrant), Reset, BuildSocketStateFrame | frames come out once, in order, none withheld; the buffer is bounded; a legal stream is not rejected |
| `SocketStateSession` | bound peer, its subscriptions, observers | Initialize, Feed, Shutdown, notifications | each side is subscribed to what the other's registry asks; copies become and stay current, never go back; availability tells the truth |
| `TCPStateServer`, `TCPStateClient` | slots; the connection | iterations that accept, feed, reset, reconnect | healthy connections are not reset; a lost one is replaced |
| `SocketClockSynchronizationProtocol` | next and pending sequence | build and process requests, responses, broadcasts | a request yields at most one sample, and that from its own exchange |
| `UDPClockSynchronizer`, `TCPClockSynchronizer` | socket, intervals, decoder; the server's slots | iterations; requests and broadcasts of the application | the same over a network that loses and reorders, or connections that end in the midst of a frame; a running TCP client is served again |
| `SocketCommandProtocol` | none | encode and decode a request or a response, frame it | what is decoded is what was encoded, and nothing else decodes |
| `SocketCommandSession`, `TCPCommandServer` | the line, the structured buffer, what is expected, hooks; slots | Feed of lines or structured requests; SetPolicy, SetResultObserver | each request executed and answered once, in order, under the hooks in force; nothing outlives its connection |
| `SocketSecuritySession` | buffer of envelopes | Feed, ProcessEnvelope, Reset | each envelope opened once, none after a failure |
| `SocketSecurityDatagram` | none | protect, open | the codec of one datagram |
| `SocketEventFrameDecoder` | buffer | Push, Reset | as the state decoder, but calls back before it consumes |
| `SNTPClockSyncProvider` | a static pointer to the active instance, its target | Initialize, Shutdown, the SNTP callback | one instance at a time; what follows Shutdown |
| event bridges, types | none | turn notifications into events | no behaviour of their own |

How they interact: an adapter derives from `SocketWorker`, whose task runs its
`OnWorkerIteration`. An iteration reads bytes and feeds them to a session, which
pushes them into a decoder, whose callback is the session's message handler. The
handler calls the external repositories and sends through a callback into the
adapter. Application threads enter from the other side: publishing a state or
changing a registry notifies the sessions, which take their own lock and send;
the application also starts, stops and destroys the adapters and may do so from a
callback that runs on the worker itself.

The hard parts are those meetings: a Shutdown from a callback against the
owner's; a notification against the message the session is handling; two
publishing threads against each other; a lost connection against what is in
flight; a re-entrant Push; two threads in one `WiFiUDP` object; messages handled
outside the lock they were read under; a write that gives up in the midst of a
frame; requests cut anywhere, refused, and followed by more. The hazards, each at
its line, are in `PROJECT.json`.

## 2. Modules

| Module | Models | Lines up with the code |
|---|---|---|
| `SocketWorker` | `ESPressio_SocketWorker.hpp` and the Initialize, Shutdown and destructor of an adapter | one action per atomic access of StartWorker, StopWorker, Run; `pc` tells where each caller is, `task` where each task is |
| `SocketWorker_proofs` | | theorems about it |
| `SocketStateFrame` | `ESPressio_SocketStateFrame.hpp` with the reads of an adapter | `Push`/`PushRejected` the entry of Push, `Deliver`, `BadHeader`, `FinishPush` the turns of its loop, `EndCallback` the return of the callback; `depth` counts nested calls |
| `SocketStateFrame_proofs` | | theorems about it |
| `SocketStateSession` | `ESPressio_SocketStateSession.hpp`, `ESPressio_TCPStateServer.hpp`, `ESPressio_TCPStateClient.hpp` composed | `Receive...`, `ApplyUpdate`, `RejectUpdate` the branches of HandleProtocolMessageLocked, each with BindPeerLocked and what it sends; `Open` Initialize, `EndSession` ShutdownLocked; `Connect`, `Accept`, `Refuse`, `ResetSession` the iterations; `Notify...` the observers |
| `SocketStateSession_proofs` | | theorems about it |
| `StateReplication` | what replication promises | an abstract specification, implemented by `SocketStateSession` |
| `SocketClockSynchronizationProtocol` | the numbering, matching and sampling of `timing/ESPressio_SocketClockSynchronizationProtocol.hpp` | the operators both carriers build their steps from: `NumberRequest` and `SetPending` are the two halves of BuildRequest, `Matches` and `Accept` those of ProcessResponse |
| `SocketClockSynchronizationProtocol_proofs` | | theorems about every carrier of it |
| `ClockExchange` | what clock synchronization promises: a device asks, and learns from one visit of its request to a reference, at most once | an abstract specification; UDP implements it, and TCP but for the samples of mistaken messages |
| `UDPClockSynchronization` | `timing/ESPressio_UDPClockSynchronizer.hpp` over that protocol | `BuildRequest`, `StorePending`, `MatchPending`, `AcceptResponse` the accesses of the protocol, `BeginPacket`, `Write`, `EndPacket` those of SendDatagram |
| `UDPClockSynchronization_proofs` | | theorems about it |
| `TCPClockSynchronization` | `timing/ESPressio_TCPClockSynchronizer.hpp`, client and server, over that protocol, with the decoder of `ESPressio_SocketEventFrame.hpp` at either end | `Reconnect`, `GiveUp`, `BuildRequest`, `StorePending`, `SendMessage`, `SendFails` are RequestSynchronization and EnsureConnectedLocked; `BeginRead`, `ReadFrame`, `Reject`, `EndRead` the locked part of an iteration, `HandleMessage`, `AcceptResponse` the unlocked one; `AcceptClient`, `RefuseClient`, `ReapClient`, `AnswerRequests` the server's |
| `TCPClockSynchronization_proofs` | | theorems about it |
| `SocketCommandProtocol` | `ESPressio_SocketCommandProtocol.hpp`, byte by byte | `EncodeRequest`, `DecodeRequest`, `DecodeResponse`, `FrameStructuredPayload` under their names |
| `SocketCommandSession` | `ESPressio_SocketCommandSession.hpp` | a session is a record of its members, and `Feed` the function from it and the bytes to what becomes of both; one operator for each branch |
| `SocketCommandSession_proofs` | | theorems about the codec and `Feed` |
| `TCPCommandServer` | `ESPressio_TCPCommandServer.hpp`, with the session above in each slot | `AcceptClient`, `RefuseClient`, `ReapClient`, `ServeClient` the steps of an iteration, `SetHooks` the calls of the application, `Shutdown` and `Initialize` |
| `TCPCommandServer_proofs` | | theorems about it |
| `MC...` | | the instances TLC checks, with a configuration for each run |

An operator whose comment starts with *Mutation* is no part of a model: it is the
neighbouring definition with a plausible mistake, used to see that a property
notices it.

Abstractions worth knowing:

* `SocketWorker`: the owner is one thread, as the adapters' unguarded
  `_initialized` requires; tasks are handles the platform may hand out again once
  destroyed. Memory is sequentially consistent: each atomic is read and written
  with acquire and release, and no property relates two of them across threads
  in another way than through the handle.
* `SocketStateFrame`: bytes are positions of the stream, the buffer is an
  interval of it, a frame is its start and length. A torn write is not modelled.
* `SocketStateSession`: a version stands for an epoch and revision of a device
  that does not reboot; values are their versions. A connection keeps order. Its
  loss is noticed by either end at any later time, and of what is in flight to
  each end only a first part arrives. A chunk fed is any number of messages. Types
  belong to both contracts and capacities suffice.
* The clocks: a device reads its own clock, which advances between readings, and
  a stamp carries the device that read it. A response counts however late it
  comes, as in the code, which never reads `RequestTimeoutMilliseconds`.
* `UDPClockSynchronization`: `WiFiUDP` is modelled by what its three calls do; the
  data race on it is the interleaving of those calls.
* `TCPClockSynchronization`: a stream is a sequence of frames, each whole or torn by
  a WriteAll that gave up. A decoder that holds a part is completed by bytes of what
  follows, to a garbled message, and is out of step then. Torn behind its number,
  the message keeps it (`Garbled`); torn before the end of it, it may have any
  number at all, made of the next frame's bytes, and times no clock has shown
  (`Foreign`, `Noise`); torn before its type, it is no response and is ignored. A
  decoder out of step meets bytes that are no header: that the bytes of a time
  happen to read as a whole header is left out. How much
  of a frame an ended connection left behind is unknown.
* The commands: a field of a frame has one byte and a length two, so that widths
  differ and a frame can be cut inside either; texts are sequences of a few
  characters. A command does nothing of its own. What became of a connection is
  forgotten when another is accepted in its place, which only saves states.

## 3. Runs

| Run | Instance | Shows |
|---|---|---|
| `worker` | 2 tasks, callbacks may call Shutdown | the worker's invariants and that every StopWorker returns |
| `frame` | header 1, bound 7, frames up to 8, reads up to 3, 3 frames, nesting 2 | order, bounded buffer, nothing held back, when a stream is accepted, every frame answered |
| `frame_coalesced` | bound 3, reads up to 3 | a legal stream rejected (finding) |
| `session_reconnect` | 1 client, 1 slot, both publish and subscribe, 1 connection lost | subscriptions, copies and availability right on every settled connection; nothing healthy is reset |
| `session_fan_out` | 2 clients that subscribe and unsubscribe, 2 slots, 2 publishing threads | the implementation of `StateReplication`, with notifications in any order; subscriptions follow the registry; Connected is never recorded without a session; no update follows the acknowledgement of an Unsubscribe |
| `session_liveness` | 1 client, 1 slot, 2 connections lost, 1 resynchronization, unsubscribing allowed | every client is served in the end and replication converges |
| `session_overlap` | overlapping scopes | a subscription withdrawn too early (finding) |
| `session_unbound` | a Device-scoped subscription of the server | a subscription never sent (finding) |
| `clock_udp` | a client with two calling threads, a broadcasting reference, 3 sequence numbers | a sample is of its own exchange, one per request, also across the wrap: `ClockExchange` is implemented |
| `clock_udp_race` | 2 clients, a reference whose application broadcasts | another client's exchange taken as one's own (finding) |
| `clock_tcp` | a client with two calling threads, 1 slot, 4 sequence numbers, 2 failures | the pending number is of the connection there is, an answer on its way is awaited, no decoder inherits a part of a frame, a number yields one sample at most, `ClockExchange` is implemented but for the samples of messages whose number was torn and taken for the pending one, and a running client is served for good once failures end |
| `commands` | 2 connections after one another in 1 slot, 4 requests each (commands, malformed, oversize, blank, one among spaces), reads of 3 and 20 bytes, 6 configurations, 1 change of the hooks | requests run once and in order, each answered, under the hooks in force; input bounded; every connection served or turned away |

Bounds. Two tasks are what an early restart needs; three were tried and add nothing
but states. Three frames let one be consumed, one be complete and one be partial; a
read may end a frame and hold the whole of the next, and reads of a byte cut headers
and payloads anywhere; the longest frame is one byte beyond the bound, and the
shortest are roomy. In the sessions one type suffices since types do not interact,
two versions distinguish old from new and three let two notifications race; one loss
gives a connection before and one after, a second one finds the slot taken by the
session before; with two slots a client that reset its connection returns before its
old session has ended. Three sequence numbers reach the number zero, which means
"none pending"; over UDP four readings of the client's clock are an exchange, a
second request, and a late duplicate of the first answer. Over TCP one client
suffices, as clients share nothing but slots: its own dead connection is what fills
the only slot. Two failures are a torn frame and the loss of its connection, or two
torn frames. With four sequence numbers there are a request whose answer is torn,
one whose answer the part is completed with, and another that is pending when the
message comes out with its number; and the client's clock has a reading for every
request and every answer. Of the commands, a bound of 17 bytes admits the largest
request and frames just beyond it; reads of 3 bytes cut headers, lengths and line
ends, reads of 20 hold the end of a request, a whole one and the beginning of a
third; one slot makes the second connection take over what the first has left. The
runs of the sessions and of the clocks turn deadlock checking off because bounded
applications come to rest; the worker's because an early restart may leave a
StopWorker waiting, which is what `StopReturns` excepts. The server of commands
never stops: its worker may always be restarted.

Fairness. The worker's tasks and the calls in progress are weakly fair: the
platform schedules every task, and the callbacks are assumed to return. Nothing
is assumed about whether anybody calls anything. The frame adapter reads what has
arrived, as its iteration loops while `available()`. For the sessions the workers'
handling, resetting, connecting and accepting are weakly fair, as iterations
repeat for ever, and so are notifications, which wait only for a lock that is
released; publishing, subscribing, and the loss of connections are not, and are
bounded, so `Converges` says what happens once they stop.

The threads of a TCP clock client go on while they hold its mutex, and workers
iterate. Attempts to connect may fail, so a client that keeps trying is given a
connection in the end by strong fairness of the successful attempt
(`Reconnect(..., TRUE)`); whether it stays one is up to the server's slots, and
`EventuallyServed` says that they are freed. Nothing makes a client run:
the property is about clients that run for ever, once failures, which are
bounded, have ended. The iterations of the server of commands come to every slot
and to the backlog. The fairness of `ServeClient` is written out as weak fairness,
with `HasInput` for its guard, because ENABLED of the step would compute what Feed
does with the bytes.

`restartedEarly` and `selfStopped` in `SocketWorker` are history: a Shutdown on the
worker's own task cannot wait for that task, and the code lets the owner start
again before it has left. The properties say exactly what holds until the owner
does, and `BaseDestructorJoins` what holds even after a Shutdown from a callback.

## 4. Findings

* `frame_coalesced`: Push bounds the bytes buffered, not a frame, so two legal
  frames that arrive in one read may be rejected
  (`src/ESPressio_SocketStateFrame.hpp:46`, against `README.md:60`).
  `RoomyStreamAccepted` gives the size up to which frames are safe.
* `session_overlap`: dropping one of two overlapping subscriptions withdraws the
  type from the peer (`src/ESPressio_SocketStateSession.hpp:183`, against
  `README.md:62`).
* `session_unbound`: a server's Device-scoped subscription waits for a binding
  that a silent client never causes (`src/ESPressio_TCPStateServer.hpp:181`,
  against `README.md:62`).
* `clock_udp_race`: a broadcast of the application redirects the worker's response
  (`src/timing/ESPressio_UDPClockSynchronizer.hpp:46`, against
  `tests/test_clock_sync_protocol.cpp:92`).

## 5. Proofs

`SocketWorker_proofs` is about any set of execution handles, with or without
callbacks that shut the adapter down. It assumes `WorkerAssumption`: the owner and
the invalid handle are no tasks and differ. An invariant such as `OneWorker` is
not inductive: that no second task runs depends on the handle naming the only live
one, that on `_running` and `_initialized` never being set at the wrong step of
the other caller, and the notifications on who exchanged `_running`. So the
inductive invariant is

    IInv == TypeOK /\ Shape /\ (~restartedEarly => Discipline)
    Discipline == Identity /\ Flags /\ Ownership /\ Announced

`Shape` (which step goes with which state) holds always, the discipline until the
owner restarts under a task that shut its own adapter down: from then on two tasks
may share `_running`, and the code promises no more. There is one lemma for each
part, and in it one step for each action. From it follow `Typing`,
`WorkerIsUnique`, `TeardownIsJoined`, `DestructorJoins` and
`NotificationsAlternate`.

`SocketStateFrame_proofs` is about any sizes of header, bound, read and frame, any
depth of nested pushes and any number of frames, as far as `FrameAssumption` says
that sizes and depth are positive numbers. What was delivered is a prefix of what
was sent only because the buffer begins where the next frame does, and that frame
is found at the front only because frames lie in the stream without a gap:

    IInv == TypeOK /\ Stream /\ Decoder /\ Exhausted /\ BoundedBuffer

`Stream` orders the frames, `Decoder` ties `delivered` to `consumed`, `Exhausted`
says that a Push which returned left less than a frame. `FrontIsNext` (a header at
the front is that of the next frame) is the lemma the others turn on. From the
invariant follow `Typing`, `FramesInOrder`, `BufferIsBounded` and
`NoFrameHeldBack`. `RejectedOnlyIfCrowded` needs an invariant of its own, `Room`: in
a stream of roomy frames the buffer keeps a reserve of one read for every level of
nesting still free. Push uses a read of the reserve, and the loop gives it back
before the Push returns, since it leaves less than a frame.

`TCPClockSynchronization_proofs` is about any number of clients and slots, any
width of the sequence numbers and any number of failures. It assumes
`ClockAssumption` and `CarrierAssumption`: the server is no client, and the values
that stand for nothing are no devices, stamps or threads. What a sample is made of
was decided several steps and two threads earlier, so the inductive invariant says
where each number is, from the request that got it to the sample it ends in:

    IInv == TypeOK /\ \A c \in Clients : ClientInv(c)
            /\ \A t \in Threads : Sending(t) /\ Unspoiled
    ClientInv(c) == Numbering(c) /\ Contents(c) /\ Rising(c) /\ Below(c, nextSequence[c])
                    /\ Awaited(c) /\ Accepting(c) /\ Current(c) /\ Torn(c)

`Numbering` and `Contents` tie numbers to times and messages to requests, `Rising`
orders the numbers on their way, back, and begun in the decoder. `Awaited` is what
rejects messages garbled behind their number: it is that of a frame torn before the
one that garbled it, hence below the pending number, and so are those of samples.
A foreign number is under no such bound, so a message that carries one may match;
the invariant follows it as far as that what it yields is marked by its times, and
leaves it out of what it says of numbers in hand (`InHand`, `Accepting`). `Sending`
and `Current` say what the mutex guards, `Accepting` what remains true of a message
that has matched, outside of it. Most steps only take messages away (`Shrinks`), and
are dealt with at once by `ShrinkKeeps`; each of the others (`Grows`) has its lemma.
From the invariant follow `Typing`, `PendingStaysCurrent`, `DecodersStayOwn` and
`Refinement`, that the steps are those of `ClockExchange` over the samples that are
not `Mistaken`: accepting a mistaken message is a stutter, every other acceptance
learns. `TCPSamples` says in the terms of the carrier what follows for these samples.

There are no more samples than requests even so: `NumbersUsedOnce`
holds of all samples. Its invariant `Spent` says that the numbers taken and the one
in the worker's hands were given before, and that neither what is pending nor what a
thread is about to store is one of those taken.

`AnswersStayAwaited` says that an answer is not missed. It needs more of the same
invariant, `AnswerInv`: messages on a connection are in the order of their numbers
(`InOrder`), the newest is of the last request (`Newest`), and that number is
pending from the store on, or about to be (`Waiting`, `Stored`).

`SocketClockSynchronizationProtocol_proofs` takes it from there for every carrier:
`SamplesAreOwn` and `RequestsAreSampledOnce` are consequences of the exchange, for
carriers that implement all of it, as UDP does. TCP has them for the samples that
are not mistaken, see `TCPSamples`.

`UDPClockSynchronization_proofs` needs no order, since the network keeps none. The
types hold whoever shares a packet (`Typing`, by `TInv`, which also types what a
thread carries). The exchange is implemented (`Refinement`) under `Apart`: no
application of a reference broadcasts. The hypothesis is the finding
`clock_udp_race`, without it the theorem is false. Its invariant `IInv` says that
numbers and times of requests go together (`Numbered`), that a number pending or
about to be has no sample yet and no second thread holds it (`Unsampled`), that a
reference's outgoing packet is its worker's, to whom the worker answers, while a
client's may mix the requests of two threads (`Built`), and that whatever is on its
way is genuine (`Carries`, `Delivers`). `UDPSamples` draws the two consequences.

`SocketStateSession_proofs` is about any number of clients, slots, types, versions
and publishing threads. Besides that the named sets are apart, `SessionAssumption`
says that the bounds are numbers. Everything rests on

    BaseInv == Typed /\ ChangesSound /\ Joined /\ Published

`Joined` pairs the ends of a connection and says whose messages are in an inbox,
`Published` that no version anywhere is newer than what its device published, and
`ChangesSound` that notifications of the registry under way are of what it holds.
From it alone follows `Refinement`: an update is applied only when it is newer than
the copy, and it was published. Each of the other theorems adds what its property
is about:

* `ConnectedHasSession`: the property itself, inductive on top of `BaseInv`.
* `CurrentAvailability`: `Recorded`, that a bound session of a live connection is
  recorded as Connected. For clients it holds however many slots there are
  (`ClientAvailability`). On the server's side it takes a single slot: with two, the
  session of a dead connection ends after its successor was recorded, and overwrites
  the record.
* `UnsubscribeIsLast`: `EndsKnown`, the property for connections not accepted yet as well.
* `CurrentCopies`: `OnWay`, that of every state subscribed to the newest version
  is at the peer, in its inbox, or in a notification that has still to pass the
  session.
* `HealthyConnections`, where nobody unsubscribes and one thread publishes on a
  device: `Wanted`, that an update on its way is asked for, and `Ordered`, that
  updates on their way are in the order of their versions, the copy behind them and
  the notification ahead. Each hypothesis excludes a reset that the code performs:
  an update that crosses an Unsubscribe is refused, and so is one that two
  publishing threads have put behind a newer one.
* `PropagatedSubscriptions`, where all scopes are the same (`Uniform`): `Propagates`,
  that a peer agrees with the registry or something under way will make it agree.
  `session_overlap` and `session_unbound` show what happens otherwise.

`SocketCommandSession_proofs` is about what `Feed` computes. Its loops are recursive
functions on their turns. That such a function exists, and what holds after each of
its turns, follows by induction, which is stated for sets of numbers
(`SetInduction`, `TurnInduction`) and derived from the pigeonhole principle, so that
no operator is a parameter; `Turns` is the recursion theorem. For the codec,
`RequestDecoded` says that whatever bytes DecodeRequest is given it yields a context
or nothing, `ResponseDecoded` that DecodeResponse reads back what EncodeResponse wrote
when the message fits its length field, and `RequestTravels` that DecodeRequest reads
back what EncodeRequest wrote, for a path and arguments of any length and number: all
but the types of arguments, which the wire does not carry. A turn of a loop is quiet, or does away with
one request and writes one answer (`Quiet`, `Told`). `Fed` collects what a call leaves:

* `Settled`: no more than the bound is held or waited for, and nothing is held that
  is a request already (`Resting`). The loop of the model takes as many turns as
  there are bytes, the code's ends by a break: each turn takes a byte or more, so
  that the last turn has found nothing to do.
* `Sound`: hooks and configuration are those of before, each request was judged and
  observed under them.
* `Matched`: each request has its answer, if the writer takes as many answers as
  there are bytes. It is never asked to take more, because what is answered and what
  there is room for in the buffer (`Room`) never exceed the bytes read.

`TCPCommandServer_proofs` takes `Fed` from call to call, for any connections, slots,
scripts of any bytes, sizes of reads, and failures. Its invariant is `IInv`, that
sessions are ones `Feed` can take and have the server's hooks (`Attended`), and that
histories are made of its calls (`Kept`). From it follow `Typing`, `Bounded`,
`UnderHooks` and `RequestsAnswered`. The last assumes `MaximumRequestBytes =< Widest`,
that a message as long as a request fits the length field of a response, which has 32
bits in the code where the bound is a `std::size_t` with the default 1024.

That a request found in the bytes is judged and answered does not say that what is
found is what was sent. `InOrder` does: `RequestsInOrder` for any script. A history
alone cannot tell what the next byte will make of it, so the invariant

    Orderly == \A k \in Connections : Furthered(config, k, status[k], slots, history[k])

on top of `IInv` says where the session stands in the script: unless it went astray, the
history tells of the first `m` requests (`Reached`), as many as have come whole
(`Within`), and the session holds the beginning of the next, or waits for its payload,
or for the end of the line it gave up (`Here`). `LinesInOrder` takes that through a read
byte by byte, `FramesInOrder` frame by frame (`LineTurns` and `FrameTurns` make a
function of their turns), and `FedInOrder` joins both for a read cut anywhere. Only this
theorem uses `KindsAssumption`, which says what makes a request of its kind: a text is
one line, an oversize request is beyond the bound in either form, a blank one trims to
nothing, a malformed one neither tokenizes nor decodes, and a command is a line that
tokenizes when trimmed and the payload of a request with a path, whose named arguments
are a map.

## 6. Only model-checked

Everything temporal under fairness (`StopReturns`, `FramesAnswered`, `Converges`,
both `EventuallyServed`): the prover handles neither liveness under fairness nor
ENABLED. Every invariant of the passing runs is proved, some under the hypotheses that
section 5 names, and every action property but these.
The library's theorems of induction take operators as parameters, which the installed
provers cannot instantiate; the two modules about commands show what can be done
without. No module declares a RECURSIVE operator.

## 7. Not modelled, and the plan

Behaviour the models show, which no documentation denies:

* A structured request beyond the bound is refused by its header; unless the
  server disconnects on protocol errors, its payload is then read as further
  requests (`src/ESPressio_SocketCommandSession.hpp:219`). `RequestsInOrder`
  excepts what follows, and so after a read larger than the bound and a header,
  which is dropped whole (line 209).
* A response that the server's `WriteAll` leaves torn (its result is not looked at,
  `src/src/ESPressio_SocketStreamHelpers.hpp:24`) is completed with the beginning of
  the next frame. Cut after 18 to 23 of its bytes, its Sequence is made of that
  frame's header: after 18, where the bytes that land in the unchecked Reserved are
  half of the header's magic, it is 83286. If that is the number pending,
  ProcessResponse takes the message for the answer and submits bytes of other
  fields as T1 to T3 (`Mistaken` in `TCPClockSynchronization`). Cut earlier, the
  header, magic, version or type is wrong, and the message is rejected or ignored;
  cut later, the number is that of an earlier request.
* A request whose number wraps to zero is never answered; the next one is.
* A request built while a response to an earlier one is being accepted loses its
  pending number, and its answer is in vain (`overtaken` in
  `TCPClockSynchronization`).

Not modelled:

* `SocketSecuritySession` frames the envelopes of an external security context,
  which decides what is opened; it keeps a buffer and a flag. Its callback runs
  before the envelope leaves the buffer: one that calls Reset or Feed is a hazard
  on the list, and undefined behaviour rather than a state.
* `SNTPClockSyncProvider` hands over samples of the platform's SNTP client. It waits
  for no callback in progress, so a sample may follow Shutdown, which is a hazard
  on the list; there is nothing else in it to model.
* `SocketSecurityDatagram`, the event bridges, configuration structures and
  umbrella headers keep no state and run no steps; the Arduino sketches under
  `examples/` only wire parts together.
* Mutex misuse (an application callback that calls back into a locked adapter) is
  undefined behaviour, listed as a hazard. So are a device that reboots, with its
  epochs and a clock that starts again, types outside a contract, and
  repositories that are full: the models' devices do not reboot, and capacities
  suffice.
* Torn writes are modelled over TCP clocks only; the state sessions, which ignore
  the result of a publication as well, have whole messages.

What is left to do:

* `CurrentAvailability` for more than one slot, in the form that is true there: the
  record is that of the session which changed it last.
