------------------- MODULE TCPClockSynchronization_proofs -------------------
(***************************************************************************)
(* Proofs about TCPClockSynchronization, for any number of clients and     *)
(* slots, any width of the sequence numbers, and any failures.             *)
(***************************************************************************)
EXTENDS TCPClockSynchronization, SocketClockSynchronizationProtocol_proofs, SequenceTheorems,
        FiniteSetTheorems, TLAPS

Visited(m) ==
  /\ m.t2 \in Stamp /\ m.t2.by = Server
  /\ m.t3 \in Stamp /\ m.t3.by = Server
  /\ m.t2.at < m.t3.at

\* Numbers are given once, and with them times of the client's own clock; a
\* sample is of such a time.
Numbering(c) ==
  /\ \A q \in asked[c] :
       Ordinal(q.sequence) < nextSequence[c] /\ q.t1.by = c /\ q.t1.at =< clock[c]
  /\ \A p, q \in asked[c] : p.t1 = q.t1 => p = q
  /\ \A s \in samples[c] : s.t1 = Noise \/ \E q \in asked[c] : q.t1 = s.t1

\* What a decoder made of torn frames carries no stamps of a clock.
Contents(c) ==
  /\ \A k \in 1..Len(requests[c]) : Genuine(c, requests[c][k])
  /\ \A k \in 1..Len(responses[c]) :
       Genuine(c, responses[c][k].message) /\ Visited(responses[c][k].message)
  /\ \A k \in 1..Len(completed[c]) :
       \/ completed[c][k].t1 = None
       \/ completed[c][k] = Foreign(completed[c][k].sequence)
       \/ Genuine(c, completed[c][k]) /\ Visited(completed[c][k])

\* The numbers on the way to the server, back from it, in the decoder, in the
\* worker's hands but for those of foreign bytes, and those of samples.
Sent(c) == {requests[c][k].sequence : k \in 1..Len(requests[c])}
Returned(c) == {responses[c][k].message.sequence : k \in 1..Len(responses[c])}
Begun(c) == IF decoder[c].holds = "part" THEN {decoder[c].sequence} ELSE {}
InHand(c) ==
  {completed[c][k].sequence : k \in {j \in 1..Len(completed[c]) : completed[c][j].t1 # Noise}}
Sampled(c) == {q.sequence : q \in {r \in asked[c] : \E s \in samples[c] : s.t1 = r.t1}}

\* Those of messages garbled behind their number.
Lost(c) == {completed[c][k].sequence : k \in {j \in 1..Len(completed[c]) : completed[c][j].t1 = None}}

Numbers(c) == Sent(c) \cup Returned(c) \cup Begun(c) \cup InHand(c) \cup Sampled(c)

\* A connection keeps the order of the requests, and answers them in it.
Rising(c) ==
  /\ \A j, k \in 1..Len(requests[c]) :
       j < k => Ordinal(requests[c][j].sequence) < Ordinal(requests[c][k].sequence)
  /\ \A j, k \in 1..Len(responses[c]) :
       j < k => Ordinal(responses[c][j].message.sequence) < Ordinal(responses[c][k].message.sequence)
  /\ \A r \in Returned(c), s \in Sent(c) : Ordinal(r) < Ordinal(s)
  /\ \A b \in Begun(c), s \in Returned(c) \cup Sent(c) : Ordinal(b) < Ordinal(s)

Below(c, n) == \A s \in Numbers(c) : Ordinal(s) < n

\* The pending number is not the own one of a torn frame, or that of a sample.
Awaited(c) ==
  pendingSequence[c] # 0 =>
    /\ \A s \in Sent(c) \cup Returned(c) : Ordinal(s) =< pendingSequence[c]
    /\ \A s \in Lost(c) \cup Sampled(c) : Ordinal(s) < pendingSequence[c]

\* A thread that sends a request holds the mutex, and the request is newer
\* than all before it.
Sending(t) ==
  LET c == t[1]
  IN  /\ pc[t] \in {"publish", "send", "read"} => mutex[c] = t[2]
      /\ pc[t] \in {"publish", "send"} =>
           /\ request[c].sequence = latest[c]
           /\ Genuine(c, request[c]) /\ Below(c, Ordinal(latest[c]))
      /\ pc[t] = "send" => pendingSequence[c] \in {0, latest[c]}

\* A response being accepted is genuine, and the first to its request, or its
\* number is foreign.
Accepting(c) ==
  pc[Worker(c)] = "accept" =>
    /\ completed[c] # <<>> /\ Head(completed[c]).t1 # None
    /\ received[c] \in Stamp /\ received[c].by = c
    /\ Head(completed[c]).t1 # Noise =>
         /\ Head(completed[c]).t1.at < received[c].at
         /\ \A s \in samples[c] : s.t1 # Head(completed[c]).t1

Current(c) ==
  pendingSequence[c] \in {0, latest[c]} \/ \E w \in {"worker", "app"} : pc[<<c, w>>] = "publish"

\* Only frames torn on the connection put its decoder out of step.
Torn(c) ==
  \/ spoiled[c]
  \/ decoder[c] = Clean /\ \A k \in 1..Len(responses[c]) : responses[c][k].whole

Unspoiled == \A i \in Slots : slots[i] \in Clients => ~leftover[i]

ClientInv(c) ==
  /\ Numbering(c) /\ Contents(c) /\ Rising(c) /\ Below(c, nextSequence[c])
  /\ Awaited(c) /\ Accepting(c) /\ Current(c) /\ Torn(c)

IInv ==
  /\ TypeOK
  /\ \A c \in Clients : ClientInv(c)
  /\ \A t \in Threads : Sending(t)
  /\ Unspoiled

-----------------------------------------------------------------------------
(* A thread is a client's worker or its application's. *)
LEMMA ThreadFacts ==
  /\ \A t \in Threads : t[1] \in Clients /\ t[2] \in {"worker", "app"} /\ t = <<t[1], t[2]>>
  /\ \A c \in Clients : Worker(c) \in Threads /\ Worker(c)[1] = c /\ Worker(c)[2] = "worker"
  /\ Server \in Devices /\ Clients \subseteq Devices
BY CarrierAssumption DEF Threads, Worker, Devices

(* The typing of what the protocol holds. *)
LEMMA MessageFacts ==
  /\ \A d \in Devices, n \in Nat : [by |-> d, at |-> n] \in Stamp
  /\ \A s \in Sequences, t \in Stamps : Request(s, t) \in Message
  /\ None \in Stamps /\ None \notin Stamp
BY ClockAssumption DEF Stamp, Stamps, Message, Request

(* What other bytes read as a time is typed like one, but is no time of a  *)
(* client's clock, and what becomes of torn frames is typed like messages. *)
LEMMA CompletionFacts ==
  /\ Noise \in Stamp /\ Noise # None /\ Noise.by \notin Clients
  /\ \A s \in Sequences : Garbled(s) \in Message
  /\ \A n \in Sequences : Foreign(n) \in Message
  /\ \A s \in Sequences : \A m \in Completions(s) :
       m \in Message /\ (m = Garbled(s) \/ m = Foreign(m.sequence))
  /\ \A s : Garbled(s).sequence = s /\ Garbled(s).t1 = None
  /\ \A n : Foreign(n).sequence = n /\ Foreign(n).t1 = Noise
<1>1. Noise \in Stamp /\ Noise # None /\ Noise.by \notin Clients
  BY ThreadFacts, MessageFacts, CarrierAssumption DEF Noise
<1>2. \A s \in Sequences : Garbled(s) \in Message
  BY MessageFacts DEF Garbled, Message
<1>3. \A n \in Sequences : Foreign(n) \in Message
  BY <1>1 DEF Foreign, Message, Stamps
<1>4. /\ \A s : Garbled(s).sequence = s /\ Garbled(s).t1 = None
      /\ \A n : Foreign(n).sequence = n /\ Foreign(n).t1 = Noise
  BY DEF Garbled, Foreign
<1>5. \A s \in Sequences : \A m \in Completions(s) :
        m \in Message /\ (m = Garbled(s) \/ m = Foreign(m.sequence))
  BY <1>2, <1>3, <1>4 DEF Completions
<1> QED
  BY <1>1, <1>2, <1>3, <1>4, <1>5

(* The types hold at the start.                                            *)
LEMMA TypeInit == Init => TypeOK
<1> SUFFICES ASSUME Init PROVE TypeOK
  OBVIOUS
<1>1. ProtocolTypeOK
  BY ClockAssumption, OrdinalType DEF Init, ProtocolInit, ProtocolTypeOK
<1> QED
  BY <1>1, CarrierAssumption, OrdinalType, MessageFacts
  DEF Init, TypeOK, Clean, Threads, Slots

(* What Stop and Forget do to the types they touch. *)
LEMMA StopType ==
  ASSUME TypeOK, NEW c \in Clients, Stop(c) \/ Forget(c)
  PROVE  /\ slots' \in [Slots -> Clients \cup {None, Dead}]
         /\ leftover' \in [Slots -> BOOLEAN]
BY DEF TypeOK, Stop, Forget

(* What it leaves of the connection.                                       *)
LEMMA StopStreamsType ==
  ASSUME TypeOK, NEW c \in Clients, Stop(c)
  PROVE  /\ link' \in [Clients -> {"down", "waiting", "open", "lost"}]
         /\ requests' \in [Clients -> Seq(Message)]
         /\ responses' \in [Clients -> Seq(Frame)]
BY DEF TypeOK, Stop

(* What a reset leaves in the decoders.                                    *)
LEMMA DecoderType ==
  ASSUME TypeOK, NEW c \in Clients, ResetDecoder(c)
  PROVE  decoder' \in [Clients -> {Clean, Astray} \cup {Part(s) : s \in Sequences}]
BY DEF TypeOK, ResetDecoder

(* The pending number is set to a sequence number.                         *)
LEMMA PendingType ==
  ASSUME TypeOK, NEW c \in Clients, NEW s \in Sequences, SetPending(c, s)
  PROVE  pendingSequence' \in [Devices -> Sequences]
BY DEF TypeOK, ProtocolTypeOK, SetPending

(* A thread goes to one of its places.                                     *)
LEMMA PcType ==
  ASSUME TypeOK, NEW t \in Threads,
         NEW s \in {"idle", "lock", "publish", "send", "read", "accept"},
         Goto(t, s) \/ UNCHANGED pc
  PROVE  pc' \in [Threads -> {"idle", "lock", "publish", "send", "read", "accept"}]
BY DEF TypeOK, Goto

(* A mutex is taken by a thread of its client, or free.                    *)
LEMMA MutexType ==
  ASSUME TypeOK, NEW t \in Threads, Lock(t) \/ Unlock(t)
  PROVE  mutex' \in [Clients -> {"worker", "app", None}]
<1>1. t[1] \in Clients /\ t[2] \in {"worker", "app"}
  BY ThreadFacts
<1>2. mutex' = [mutex EXCEPT ![t[1]] = t[2]] \/ mutex' = [mutex EXCEPT ![t[1]] = None]
  BY DEF Lock, Unlock
<1> QED
  BY <1>1, <1>2 DEF TypeOK

(* A clock that is read stays within its readings.                         *)
LEMMA ReadType ==
  ASSUME TypeOK, NEW d \in Devices, Read(d)
  PROVE  /\ clock' \in [Devices -> Nat] /\ \A e \in Devices : clock'[e] =< MaxReadings[e]
         /\ Now(d) \in Stamp
<1>1. clock \in [Devices -> Nat] /\ \A e \in Devices : clock[e] =< MaxReadings[e]
  BY DEF TypeOK, ProtocolTypeOK
<1>2. clock[d] < MaxReadings[d] /\ clock' = [clock EXCEPT ![d] = @ + 1]
  BY DEF Read
<1>3. \A e \in Devices : MaxReadings[e] \in Nat
  BY ClockAssumption
<1>4. \A e \in Devices : clock'[e] \in Nat /\ clock'[e] =< MaxReadings[e]
  BY <1>1, <1>2, <1>3
<1>5. clock' \in [Devices -> Nat]
  BY <1>1, <1>2, <1>4
<1>6. Now(d) \in Stamp
  BY <1>1, MessageFacts DEF Now
<1> QED
  BY <1>4, <1>5, <1>6

(* Failures stay within their number.                                      *)
LEMMA FailType ==
  ASSUME TypeOK, NEW n \in Nat, Fail(n)
  PROVE  failures' \in 0..MaxFailures
BY CarrierAssumption DEF TypeOK, Fail

(* A request keeps the types.                                              *)
LEMMA TypeRequesting ==
  ASSUME TypeOK, NEW t \in Threads, RequestSynchronization(t)
  PROVE  TypeOK'
<1> DEFINE c == t[1]
<1> USE ThreadFacts, OrdinalType
<1>1. ASSUME NEW up \in BOOLEAN, Reconnect(t, up)
      PROVE  TypeOK'
  <2>1. UNCHANGED <<clock, nextSequence, asked, samples, running, mutex, request, completed,
                    received, requests, slots, leftover, failures, overtaken, taken>>
    BY <1>1 DEF Reconnect, Reopen, server
  <2>2. /\ link' \in [Clients -> {"down", "waiting", "open", "lost"}]
        /\ responses' \in [Clients -> Seq(Frame)]
        /\ latest' \in [Clients -> Sequences] /\ spoiled' \in [Clients -> BOOLEAN]
    BY <1>1 DEF Reconnect, Reopen, TypeOK
  <2>3. Goto(t, "idle") \/ UNCHANGED pc
    BY <1>1 DEF Reconnect, Reopen
  <2>4. pc' \in [Threads -> {"idle", "lock", "publish", "send", "read", "accept"}]
    BY <2>3, PcType
  <2>5. decoder' \in [Clients -> {Clean, Astray} \cup {Part(s) : s \in Sequences}]
    BY <1>1, DecoderType DEF Reconnect, Reopen
  <2>6. pendingSequence' \in [Devices -> Sequences]
    BY <1>1, PendingType DEF Reconnect
  <2> QED
    BY <2>1, <2>2, <2>4, <2>5, <2>6 DEF TypeOK, ProtocolTypeOK
<1>2. CASE EnterRequest(t) \/ GiveUp(t)
  <2>1. UNCHANGED <<protocolVars, running, mutex, request, completed, received, streams, server,
                    failures, history>>
    BY <1>2 DEF EnterRequest, GiveUp
  <2>2. Goto(t, "lock") \/ Goto(t, "idle")
    BY <1>2 DEF EnterRequest, GiveUp
  <2>3. pc' \in [Threads -> {"idle", "lock", "publish", "send", "read", "accept"}]
    BY <2>2, PcType
  <2> QED
    BY <2>1, <2>3 DEF TypeOK, ProtocolTypeOK, protocolVars, streams, server, history
<1>3. CASE BuildRequest(t)
  <2>1. UNCHANGED <<pendingSequence, samples, running, completed, received, link, decoder,
                    requests, responses, slots, leftover, failures, taken, spoiled>>
    BY <1>3 DEF BuildRequest, NumberRequest, streams, server
  <2>2. Number(c) /\ Read(c) /\ Lock(t) /\ Goto(t, "publish")
    BY <1>3 DEF BuildRequest, NumberRequest
  <2>3. nextSequence[c] \in 1..Modulus /\ nextSequence' \in [Devices -> 1..(Modulus + 1)]
    <3>1. /\ nextSequence \in [Devices -> 1..(Modulus + 1)] /\ Modulus \in Nat
          /\ c \in Devices
      BY ClockAssumption DEF TypeOK, ProtocolTypeOK
    <3>2. nextSequence[c] =< Modulus /\ nextSequence' = [nextSequence EXCEPT ![c] = @ + 1]
      BY <2>2 DEF Number
    <3>3. nextSequence[c] \in 1..Modulus /\ nextSequence[c] + 1 \in 1..(Modulus + 1)
      BY <3>1, <3>2
    <3> QED
      BY <3>1, <3>2, <3>3
  <2>4. Sequence(c) \in Sequences
    BY <2>3, NumberFacts DEF Sequence
  <2>5. Now(c) \in Stamp /\ clock' \in [Devices -> Nat]
        /\ \A e \in Devices : clock'[e] =< MaxReadings[e]
    BY <2>2, ReadType
  <2>6. Request(Sequence(c), Now(c)) \in Message
    BY <2>4, <2>5, MessageFacts DEF Stamps
  <2>7. asked' = [asked EXCEPT ![c] = @ \cup {[sequence |-> Sequence(c), t1 |-> Now(c)]}]
    BY <1>3 DEF BuildRequest, NumberRequest
  <2>8. asked' \in [Devices -> SUBSET [sequence : Sequences, t1 : Stamp]]
    BY <2>4, <2>5, <2>7, SMTT(30) DEF TypeOK, ProtocolTypeOK
  <2>9. /\ request' \in [Clients -> Message]
        /\ latest' \in [Clients -> Sequences] /\ overtaken' \in [Clients -> BOOLEAN]
    BY <1>3, <2>4, <2>6 DEF BuildRequest, TypeOK
  <2>10. /\ pc' \in [Threads -> {"idle", "lock", "publish", "send", "read", "accept"}]
         /\ mutex' \in [Clients -> {"worker", "app", None}]
    BY <2>2, PcType, MutexType
  <2> QED
    BY <2>1, <2>3, <2>5, <2>8, <2>9, <2>10 DEF TypeOK, ProtocolTypeOK
<1>4. CASE StorePending(t)
  <2>1. UNCHANGED <<clock, nextSequence, asked, samples, running, mutex, request, completed,
                    received, link, decoder, requests, responses, slots, leftover, failures,
                    latest, overtaken, taken, spoiled>>
    BY <1>4 DEF StorePending, streams, server, history
  <2>2. request[c].sequence \in Sequences
    BY DEF TypeOK, Message
  <2>3. pendingSequence' \in [Devices -> Sequences]
    BY <1>4, <2>2, PendingType DEF StorePending
  <2>4. pc' \in [Threads -> {"idle", "lock", "publish", "send", "read", "accept"}]
    BY <1>4, PcType DEF StorePending
  <2> QED
    BY <2>1, <2>3, <2>4 DEF TypeOK, ProtocolTypeOK
<1>5. CASE SendMessage(t)
  <2>1. UNCHANGED <<clock, nextSequence, pendingSequence, asked, samples, running, request,
                    completed, received, link, decoder, responses, slots, leftover, failures,
                    latest, overtaken, taken, spoiled>>
    BY <1>5 DEF SendMessage, protocolVars, server, history
  <2>2. requests' \in [Clients -> Seq(Message)]
    BY <1>5 DEF SendMessage, TypeOK
  <2>3. /\ pc' \in [Threads -> {"idle", "lock", "publish", "send", "read", "accept"}]
        /\ mutex' \in [Clients -> {"worker", "app", None}]
    BY <1>5, PcType, MutexType DEF SendMessage
  <2> QED
    BY <2>1, <2>2, <2>3 DEF TypeOK, ProtocolTypeOK
<1>6. CASE SendFails(t)
  <2>1. UNCHANGED <<clock, nextSequence, asked, samples, running, request, completed, received,
                    decoder, latest, overtaken, taken, spoiled>>
    BY <1>6 DEF SendFails, history
  <2>2. Stop(c) /\ SetPending(c, 0) /\ Goto(t, "idle") /\ Unlock(t)
    BY <1>6 DEF SendFails
  <2>3. failures' \in 0..MaxFailures
    BY <1>6, FailType DEF SendFails, TypeOK
  <2>4. /\ pc' \in [Threads -> {"idle", "lock", "publish", "send", "read", "accept"}]
        /\ mutex' \in [Clients -> {"worker", "app", None}]
        /\ pendingSequence' \in [Devices -> Sequences]
    BY <2>2, PcType, MutexType, PendingType
  <2> QED
    BY <2>1, <2>2, <2>3, <2>4, StopType, StopStreamsType DEF TypeOK, ProtocolTypeOK
<1> QED
  BY <1>1, <1>2, <1>3, <1>4, <1>5, <1>6 DEF RequestSynchronization

(* What a decoder makes of a frame is a message, and a state of it. *)
LEMMA DecodeType ==
  ASSUME TypeOK, NEW c \in Clients, decoder[c].holds = "part"
  PROVE  /\ decoder[c].sequence \in Sequences
         /\ \A m \in Completions(decoder[c].sequence) :
              /\ m \in Message
              /\ m = Garbled(decoder[c].sequence) \/ m = Foreign(m.sequence)
<1>1. decoder[c] \in {Clean, Astray} \/ \E s \in Sequences : decoder[c] = Part(s)
  BY DEF TypeOK
<1>2. Clean.holds # "part" /\ Astray.holds # "part"
  BY DEF Clean, Astray
<1>3. PICK s \in Sequences : decoder[c] = Part(s)
  BY <1>1, <1>2
<1> QED
  BY <1>3, CompletionFacts DEF Part

(* So does the worker's iteration.                                         *)
LEMMA TypeIterating ==
  ASSUME TypeOK, NEW c \in Clients, Contents(c), Accepting(c), Iterate(c)
  PROVE  TypeOK'
<1> DEFINE t == Worker(c)
<1> USE ThreadFacts, OrdinalType
<1>0. t \in Threads
  OBVIOUS
<1> HIDE DEF t
<1>1. CASE BeginRead(c) \/ EndRead(c)
  <2>1. UNCHANGED <<clock, nextSequence, pendingSequence, asked, samples, running, request,
                    completed, received, link, decoder, requests, responses, slots, leftover,
                    failures, latest, overtaken, taken, spoiled>>
    BY <1>1 DEF BeginRead, EndRead, protocolVars, streams, server, history
  <2>2. (Lock(t) \/ Unlock(t)) /\ (Goto(t, "read") \/ Goto(t, "idle"))
    BY <1>1 DEF BeginRead, EndRead, t
  <2>3. /\ pc' \in [Threads -> {"idle", "lock", "publish", "send", "read", "accept"}]
        /\ mutex' \in [Clients -> {"worker", "app", None}]
    BY <1>0, <2>2, PcType, MutexType
  <2> QED
    BY <2>1, <2>3 DEF TypeOK, ProtocolTypeOK
<1>2. CASE ReadFrame(c)
  <2> DEFINE f == Head(responses[c])
  <2>1. UNCHANGED <<clock, nextSequence, pendingSequence, asked, samples, running, pc, mutex,
                    request, received, link, requests, slots, leftover, failures, latest,
                    overtaken, taken, spoiled>>
    BY <1>2 DEF ReadFrame, protocolVars, server, history
  <2>2. responses[c] # <<>> /\ responses[c] \in Seq(Frame)
    BY <1>2 DEF ReadFrame, TypeOK
  <2>a. f \in Frame
    BY <2>2, HeadTailProperties
  <2>3. f.message \in Message /\ f.message.sequence \in Sequences
    BY <2>a DEF Frame, Message
  <2>4. responses' = [responses EXCEPT ![c] = Tail(@)]
    BY <1>2 DEF ReadFrame
  <2>5. responses' \in [Clients -> Seq(Frame)]
    BY <2>2, <2>4 DEF TypeOK
  <2>6. PICK messages \in {<<>>, <<f.message>>}
                              \cup {<<m>> : m \in Completions(decoder[c].sequence)},
             next \in {Clean, Astray, decoder[c], Part(f.message.sequence)} :
          /\ Decode(c, f, messages, next)
          /\ completed' = [completed EXCEPT ![c] = @ \o messages]
          /\ decoder' = [decoder EXCEPT ![c] = next]
    BY <1>2 DEF ReadFrame
  <2>7. messages = <<>> \/ messages = <<f.message>> \/ decoder[c].holds = "part"
    BY <2>6 DEF Decode, Clean
  <2>8. messages \in Seq(Message)
    <3>1. CASE messages = <<>>
      BY <3>1
    <3>2. CASE messages = <<f.message>>
      BY <2>3, <3>2
    <3>3. ASSUME decoder[c].holds = "part",
                 NEW m \in Completions(decoder[c].sequence), messages = <<m>>
          PROVE  messages \in Seq(Message)
      <4>1. m \in Message
        BY <3>3, DecodeType
      <4> QED
        BY <3>3, <4>1
    <3> QED
      BY <2>6, <2>7, <3>1, <3>2, <3>3
  <2>9. next \in {Clean, Astray} \cup {Part(s) : s \in Sequences}
    BY <2>3, <2>6 DEF TypeOK
  <2>10. completed' \in [Clients -> Seq(Message)]
    BY <2>6, <2>8 DEF TypeOK
  <2>11. decoder' \in [Clients -> {Clean, Astray} \cup {Part(s) : s \in Sequences}]
    BY <2>6, <2>9 DEF TypeOK
  <2> QED
    BY <2>1, <2>5, <2>10, <2>11 DEF TypeOK, ProtocolTypeOK
<1>3. CASE Reject(c)
  <2>1. UNCHANGED <<clock, nextSequence, asked, samples, running, request, received, failures,
                    latest, overtaken, taken, spoiled>>
    BY <1>3 DEF Reject, history
  <2>2. Stop(c) /\ ResetDecoder(c) /\ SetPending(c, 0) /\ Unlock(t) /\ Goto(t, "idle")
    BY <1>3 DEF Reject, t
  <2>3. \/ UNCHANGED completed
        \/ /\ decoder[c].holds = "part"
           /\ \E m \in Completions(decoder[c].sequence) :
                completed' = [completed EXCEPT ![c] = Append(@, m)]
    BY <1>3 DEF Reject
  <2>4. completed' \in [Clients -> Seq(Message)]
    <3>1. completed[c] \in Seq(Message) /\ completed \in [Clients -> Seq(Message)]
      BY DEF TypeOK
    <3>2. ASSUME NEW m \in Completions(decoder[c].sequence), decoder[c].holds = "part",
                 completed' = [completed EXCEPT ![c] = Append(@, m)]
          PROVE  completed' \in [Clients -> Seq(Message)]
      <4>1. Append(completed[c], m) \in Seq(Message)
        BY <3>1, <3>2, DecodeType, AppendProperties
      <4> QED
        BY <3>1, <3>2, <4>1
    <3> QED
      BY <2>3, <3>1, <3>2
  <2>5. /\ pc' \in [Threads -> {"idle", "lock", "publish", "send", "read", "accept"}]
        /\ mutex' \in [Clients -> {"worker", "app", None}]
        /\ pendingSequence' \in [Devices -> Sequences]
        /\ decoder' \in [Clients -> {Clean, Astray} \cup {Part(s) : s \in Sequences}]
    BY <1>0, <2>2, PcType, MutexType, PendingType, DecoderType
  <2> QED
    BY <2>1, <2>2, <2>4, <2>5, StopType, StopStreamsType DEF TypeOK, ProtocolTypeOK
<1>4. CASE HandleMessage(c)
  <2>1. UNCHANGED <<nextSequence, pendingSequence, asked, samples, running, mutex, request,
                    link, decoder, requests, responses, slots, leftover, failures, latest,
                    overtaken, taken, spoiled>>
    BY <1>4 DEF HandleMessage, streams, server, history
  <2>2. /\ Read(c) /\ completed[c] # <<>>
        /\ \/ /\ Goto(t, "accept") /\ received' = [received EXCEPT ![c] = Now(c)]
              /\ UNCHANGED completed
           \/ /\ completed' = [completed EXCEPT ![c] = Tail(@)]
              /\ UNCHANGED <<pc, received>>
    BY <1>4 DEF HandleMessage, t
  <2>3. clock' \in [Devices -> Nat] /\ (\A e \in Devices : clock'[e] =< MaxReadings[e])
        /\ Now(c) \in Stamps
    BY <2>2, ReadType DEF Stamps
  <2>a. completed[c] \in Seq(Message) /\ Tail(completed[c]) \in Seq(Message)
    BY <2>2, HeadTailProperties DEF TypeOK
  <2>4. received' \in [Clients -> Stamps] /\ completed' \in [Clients -> Seq(Message)]
    <3>1. received \in [Clients -> Stamps] /\ completed \in [Clients -> Seq(Message)]
      BY DEF TypeOK
    <3>2. CASE received' = [received EXCEPT ![c] = Now(c)] /\ UNCHANGED completed
      BY <2>3, <3>1, <3>2
    <3>3. CASE completed' = [completed EXCEPT ![c] = Tail(@)] /\ UNCHANGED received
      BY <2>a, <3>1, <3>3
    <3> QED
      BY <2>2, <3>2, <3>3
  <2>5. Goto(t, "accept") \/ UNCHANGED pc
    BY <2>2
  <2>6. pc' \in [Threads -> {"idle", "lock", "publish", "send", "read", "accept"}]
    BY <1>0, <2>5, PcType
  <2> QED
    BY <2>1, <2>3, <2>4, <2>6 DEF TypeOK, ProtocolTypeOK
<1>5. CASE AcceptResponse(c)
  <2> DEFINE m == Head(completed[c])
  <2>1. UNCHANGED <<clock, nextSequence, asked, running, mutex, request, received, link, decoder,
                    requests, responses, slots, leftover, failures, latest, spoiled>>
    BY <1>5 DEF AcceptResponse, Accept, streams, server
  <2>2. pc[Worker(c)] = "accept"
    BY <1>5 DEF AcceptResponse
  <2>3. /\ completed[c] # <<>> /\ completed[c] \in Seq(Message) /\ m.t1 # None
        /\ received[c] \in Stamp
    BY <2>2 DEF Accepting, TypeOK
  <2>4. Len(completed[c]) \in Nat /\ 1 \in 1..Len(completed[c]) /\ m = completed[c][1]
    BY <2>3
  <2>5. m = Foreign(m.sequence) \/ (Genuine(c, m) /\ Visited(m))
    BY <2>3, <2>4 DEF Contents
  <2>6. m.t1 \in Stamp /\ m.t2 \in Stamp /\ m.t3 \in Stamp
    <3>1. CASE m = Foreign(m.sequence)
      <4>1. m.t1 = Noise /\ m.t2 = Noise /\ m.t3 = Noise
        BY <3>1 DEF Foreign
      <4> QED
        BY <4>1, CompletionFacts
    <3>2. CASE Genuine(c, m) /\ Visited(m)
      <4>1. m.t1 \in Stamp
        BY <3>2, SMTT(30) DEF Genuine, TypeOK, ProtocolTypeOK
      <4> QED
        BY <3>2, <4>1 DEF Visited
    <3> QED
      BY <2>5, <3>1, <3>2
  <2>7. [t1 |-> m.t1, t2 |-> m.t2, t3 |-> m.t3, t4 |-> received[c]] \in Sample
    BY <2>3, <2>6 DEF Sample
  <2>8. samples' = [samples EXCEPT ![c] =
                      @ \cup {[t1 |-> m.t1, t2 |-> m.t2, t3 |-> m.t3, t4 |-> received[c]]}]
    BY <1>5 DEF AcceptResponse, Accept, Submit
  <2>9. samples' \in [Devices -> SUBSET Sample]
    BY <2>7, <2>8, SMTT(30) DEF TypeOK, ProtocolTypeOK
  <2>10. completed' \in [Clients -> Seq(Message)] /\ overtaken' \in [Clients -> BOOLEAN]
    BY <1>5, <2>3 DEF AcceptResponse, TypeOK
  <2>12. taken' \in [Clients -> SUBSET Sequences]
    <3>1. m.sequence \in Sequences
      <4>1. m \in Message
        BY <2>3, <2>4, ElementOfSeq
      <4> QED
        BY <4>1 DEF Message
    <3>2. taken' = [taken EXCEPT ![c] = @ \cup {m.sequence}]
      BY <1>5 DEF AcceptResponse
    <3> QED
      BY <3>1, <3>2 DEF TypeOK
  <2>11. /\ pc' \in [Threads -> {"idle", "lock", "publish", "send", "read", "accept"}]
         /\ pendingSequence' \in [Devices -> Sequences]
    BY <1>0, <1>5, PcType, PendingType DEF AcceptResponse, Accept, t
  <2> QED
    BY <2>1, <2>9, <2>10, <2>11, <2>12 DEF TypeOK, ProtocolTypeOK
<1> QED
  BY <1>1, <1>2, <1>3, <1>4, <1>5 DEF Iterate

\* The answer to q, received and sent at times of the server's clock.
AnswerTo(q, a, b) ==
  [Response(q, [by |-> Server, at |-> a]) EXCEPT !.t3 = [by |-> Server, at |-> b]]

(* It keeps the number and time of the request, and carries times of one   *)
(* visit.                                                                  *)
LEMMA AnswerFacts ==
  ASSUME NEW q \in Message, NEW a \in Nat, NEW b \in Nat, a < b
  PROVE  /\ AnswerTo(q, a, b) \in Message /\ Visited(AnswerTo(q, a, b))
         /\ AnswerTo(q, a, b).sequence = q.sequence /\ AnswerTo(q, a, b).t1 = q.t1
<1>1. [by |-> Server, at |-> a] \in Stamp /\ [by |-> Server, at |-> b] \in Stamp
  BY ThreadFacts, MessageFacts
<1> QED
  BY <1>1 DEF AnswerTo, Response, Message, Visited, Stamps

(* One read of the server, of a client's first n requests, and the frames  *)
(* it answers them with, in their order.                                   *)
Answered(c, n, written, frames) ==
  /\ n \in 1..Len(requests[c]) /\ frames \in Seq(Frame)
  /\ written \in [1..Len(frames) -> 1..n]
  /\ \A j, k \in 1..Len(frames) : j < k => written[j] < written[k]
  /\ \A j \in 1..Len(frames) :
       /\ Visited(frames[j].message)
       /\ frames[j].message.sequence = requests[c][written[j]].sequence
       /\ frames[j].message.t1 = requests[c][written[j]].t1

(* What AnswerRequests does, put in these terms.                           *)
LEMMA AnswerRequestsFacts ==
  ASSUME TypeOK, NEW i \in Slots, AnswerRequests(i)
  PROVE  /\ slots[i] \in Clients
         /\ clock' \in [Devices -> Nat] /\ \A d \in Devices : clock'[d] =< MaxReadings[d]
         /\ \A d \in Devices \ {Server} : clock'[d] = clock[d]
         /\ failures' \in 0..MaxFailures
         /\ \E n, written, frames :
              /\ Answered(slots[i], n, written, frames)
              /\ requests' = [requests EXCEPT ![slots[i]] = SubSeq(@, n + 1, Len(@))]
              /\ responses' = [responses EXCEPT ![slots[i]] = @ \o frames]
              /\ spoiled' = [spoiled EXCEPT ![slots[i]] =
                               @ \/ \E j \in 1..Len(frames) : ~frames[j].whole]
<1> DEFINE c == slots[i]
<1>1. c \in Clients
  BY DEF AnswerRequests
<1> DEFINE At(k) == [by |-> Server, at |-> clock[Server] + k]
           Answer(k) == [Response(requests[c][k], At(1)) EXCEPT !.t3 = At(k + 1)]
           Taken(n, m, written, torn) ==
             /\ \A j, k \in 1..m : j < k => written[j] < written[k]
             /\ clock[Server] + n + 1 =< MaxReadings[Server]
             /\ clock' = [clock EXCEPT ![Server] = @ + n + 1]
             /\ Fail(n - m + Cardinality(torn))
             /\ requests' = [requests EXCEPT ![c] = SubSeq(@, n + 1, Len(@))]
             /\ responses' = [responses EXCEPT ![c] = @ \o
                  [j \in 1..m |-> [message |-> Answer(written[j]), whole |-> j \notin torn]]]
             /\ spoiled' = [spoiled EXCEPT ![c] = @ \/ torn # {}]
<1>a. \E n \in 1..Len(requests[c]) : \E m \in 0..n :
         \E written \in [1..m -> 1..n], torn \in SUBSET (1..m) : Taken(n, m, written, torn)
  BY Zenon DEF AnswerRequests
<1> HIDE DEF Taken
<1>b. PICK n \in 1..Len(requests[c]) : \E m \in 0..n :
         \E written \in [1..m -> 1..n], torn \in SUBSET (1..m) : Taken(n, m, written, torn)
  BY <1>a, SMTT(30)
<1>c. PICK m \in 0..n : \E written \in [1..m -> 1..n], torn \in SUBSET (1..m) :
                           Taken(n, m, written, torn)
  BY <1>b
<1>d. PICK written \in [1..m -> 1..n], torn \in SUBSET (1..m) : Taken(n, m, written, torn)
  BY <1>c
<1>2. /\ \A j, k \in 1..m : j < k => written[j] < written[k]
      /\ clock[Server] + n + 1 =< MaxReadings[Server]
      /\ clock' = [clock EXCEPT ![Server] = @ + n + 1]
      /\ Fail(n - m + Cardinality(torn))
      /\ requests' = [requests EXCEPT ![c] = SubSeq(@, n + 1, Len(@))]
      /\ responses' = [responses EXCEPT ![c] = @ \o
           [j \in 1..m |-> [message |-> Answer(written[j]), whole |-> j \notin torn]]]
      /\ spoiled' = [spoiled EXCEPT ![c] = @ \/ torn # {}]
  BY <1>d DEF Taken
<1> DEFINE frames == [j \in 1..m |-> [message |-> Answer(written[j]), whole |-> j \notin torn]]
<1>3. requests[c] \in Seq(Message) /\ Len(requests[c]) \in Nat /\ n \in Nat /\ m \in Nat
  BY <1>1 DEF TypeOK
<1>4. clock[Server] \in Nat /\ Server \in Devices /\ clock \in [Devices -> Nat]
      /\ \A d \in Devices : clock[d] =< MaxReadings[d]
  BY ThreadFacts DEF TypeOK, ProtocolTypeOK
<1>5. \A j \in 1..m : /\ requests[c][written[j]] \in Message
                      /\ clock[Server] + 1 \in Nat /\ clock[Server] + (written[j] + 1) \in Nat
                      /\ clock[Server] + 1 < clock[Server] + (written[j] + 1)
  <2>1. \A j \in 1..m : written[j] \in 1..n /\ written[j] \in 1..Len(requests[c])
    BY <1>3
  <2>2. \A j \in 1..m : requests[c][written[j]] \in Message
    BY <1>3, <2>1
  <2>3. \A j \in 1..m : written[j] \in Nat /\ written[j] > 0
    BY <1>3, <2>1
  <2> QED
    BY <1>4, <2>2, <2>3
<1>6. \A j \in 1..m : /\ Answer(written[j]) \in Message /\ Visited(Answer(written[j]))
                      /\ Answer(written[j]).sequence = requests[c][written[j]].sequence
                      /\ Answer(written[j]).t1 = requests[c][written[j]].t1
  <2> SUFFICES ASSUME NEW j \in 1..m
               PROVE  /\ Answer(written[j]) \in Message /\ Visited(Answer(written[j]))
                      /\ Answer(written[j]).sequence = requests[c][written[j]].sequence
                      /\ Answer(written[j]).t1 = requests[c][written[j]].t1
    OBVIOUS
  <2>1. /\ requests[c][written[j]] \in Message
        /\ clock[Server] + 1 \in Nat /\ clock[Server] + (written[j] + 1) \in Nat
        /\ clock[Server] + 1 < clock[Server] + (written[j] + 1)
    BY <1>5
  <2> DEFINE q == requests[c][written[j]]
             a == clock[Server] + 1
             b == clock[Server] + (written[j] + 1)
  <2>2. Answer(written[j]) = AnswerTo(q, a, b)
    BY DEF AnswerTo
  <2>3. q \in Message /\ a \in Nat /\ b \in Nat /\ a < b
    BY <2>1
  <2> HIDE DEF Answer, q, a, b
  <2>4. /\ AnswerTo(q, a, b) \in Message /\ Visited(AnswerTo(q, a, b))
        /\ AnswerTo(q, a, b).sequence = q.sequence /\ AnswerTo(q, a, b).t1 = q.t1
    BY <2>3, AnswerFacts
  <2> QED
    BY <2>2, <2>4 DEF q
<1>7. \A j \in 1..m : frames[j] = [message |-> Answer(written[j]), whole |-> j \notin torn]
  OBVIOUS
<1> HIDE DEF Answer
<1>8. frames \in [1..m -> Frame]
  BY <1>6 DEF Frame
<1>9. frames \in Seq(Frame) /\ Len(frames) = m
  BY <1>3, <1>8
<1>10. Answered(c, n, written, frames)
  BY <1>2, <1>6, <1>7, <1>9 DEF Answered
<1>11. (torn # {}) = (\E j \in 1..m : ~frames[j].whole)
  BY <1>2, <1>7
<1>12. Cardinality(torn) \in Nat
  <2>1. IsFiniteSet(1..m)
    <3>1. 1 \in Int /\ m \in Int
      BY <1>3
    <3> HIDE DEF frames, c
    <3> QED
      BY <3>1, FS_Interval
  <2>2. IsFiniteSet(torn)
    BY <2>1, FS_Subset
  <2> QED
    BY <2>2, FS_CardinalityType
<1>13. n - m + Cardinality(torn) \in Nat
  BY <1>2, <1>3, <1>12
<1>14. failures' \in 0..MaxFailures
  BY <1>2, <1>13, FailType
<1>15. /\ \A d \in Devices : clock'[d] \in Nat /\ clock'[d] =< MaxReadings[d]
       /\ \A d \in Devices \ {Server} : clock'[d] = clock[d]
       /\ clock' \in [Devices -> Nat]
  BY <1>2, <1>3, <1>4
<1>16. responses' = [responses EXCEPT ![c] = @ \o frames]
  BY <1>2 DEF Answer
<1> HIDE DEF frames
<1>17. spoiled' = [spoiled EXCEPT ![c] = @ \/ \E j \in 1..Len(frames) : ~frames[j].whole]
  BY <1>2, <1>9, <1>11
<1> QED
  BY <1>1, <1>2, <1>10, <1>14, <1>15, <1>16, <1>17

(* The types of a client that shuts down, starts or loses its connection.  *)
LEMMA TypeLifeCycle ==
  ASSUME TypeOK, NEW c \in Clients, Shutdown(c) \/ Initialize(c) \/ Drop(c)
  PROVE  TypeOK'
<1>1. CASE Shutdown(c)
  <2>1. UNCHANGED <<clock, nextSequence, asked, samples, pc, mutex, request, completed, received,
                    failures, latest, overtaken, taken, spoiled>>
    BY <1>1 DEF Shutdown, history
  <2>2. Stop(c) /\ ResetDecoder(c) /\ SetPending(c, 0)
    BY <1>1 DEF Shutdown
  <2>3. /\ decoder' \in [Clients -> {Clean, Astray} \cup {Part(s) : s \in Sequences}]
        /\ pendingSequence' \in [Devices -> Sequences]
    BY <2>2, DecoderType, PendingType, OrdinalType
  <2>4. running' \in [Clients -> BOOLEAN]
    BY <1>1 DEF Shutdown, TypeOK
  <2> QED
    BY <2>1, <2>2, <2>3, <2>4, StopType, StopStreamsType DEF TypeOK, ProtocolTypeOK
<1>2. CASE Initialize(c)
  <2>1. UNCHANGED <<protocolVars, pc, mutex, request, completed, received, streams, server,
                    failures, history>>
    BY <1>2 DEF Initialize
  <2>2. running' \in [Clients -> BOOLEAN]
    BY <1>2 DEF Initialize, TypeOK
  <2> QED
    BY <2>1, <2>2 DEF TypeOK, ProtocolTypeOK, protocolVars, streams, server, history
<1>3. CASE Drop(c)
  <2>1. UNCHANGED <<protocolVars, running, pc, mutex, request, completed, received, decoder, history>>
    BY <1>3 DEF Drop, client
  <2>2. Forget(c) /\ failures' \in 0..MaxFailures
    BY <1>3, FailType DEF Drop
  <2>3. PICK n \in 0..Len(responses[c]) : responses' = [responses EXCEPT ![c] = SubSeq(@, 1, n)]
    BY <1>3 DEF Drop
  <2>4. responses[c] \in Seq(Frame) /\ SubSeq(responses[c], 1, n) \in Seq(Frame)
    BY <2>3, SubSeqProperties DEF TypeOK
  <2>5. /\ link' \in [Clients -> {"down", "waiting", "open", "lost"}]
        /\ requests' \in [Clients -> Seq(Message)] /\ responses' \in [Clients -> Seq(Frame)]
    BY <1>3, <2>3, <2>4 DEF Drop, TypeOK
  <2> QED
    BY <2>1, <2>2, <2>5, StopType DEF TypeOK, ProtocolTypeOK, protocolVars, history
<1> QED
  BY <1>1, <1>2, <1>3

(* The types of a server that accepts, refuses and lets go of clients.     *)
LEMMA TypeAccepting ==
  ASSUME TypeOK, NEW c \in Clients, RefuseClient(c) \/ \E i \in Slots : AcceptClient(c, i)
  PROVE  TypeOK'
<1>1. CASE RefuseClient(c)
  <2>1. UNCHANGED <<protocolVars, client, decoder, responses, server, failures, history>>
    BY <1>1 DEF RefuseClient
  <2>2. /\ link' \in [Clients -> {"down", "waiting", "open", "lost"}]
        /\ requests' \in [Clients -> Seq(Message)]
    BY <1>1 DEF RefuseClient, TypeOK
  <2> QED
    BY <2>1, <2>2 DEF TypeOK, ProtocolTypeOK, protocolVars, client, server, history
<1>2. ASSUME NEW i \in Slots, AcceptClient(c, i)
      PROVE  TypeOK'
  <2>1. UNCHANGED <<protocolVars, client, decoder, requests, responses, failures, history>>
    BY <1>2 DEF AcceptClient
  <2>2. /\ link' \in [Clients -> {"down", "waiting", "open", "lost"}]
        /\ slots' \in [Slots -> Clients \cup {None, Dead}]
        /\ leftover' \in [Slots -> BOOLEAN]
    BY <1>2 DEF AcceptClient, TypeOK
  <2> QED
    BY <2>1, <2>2 DEF TypeOK, ProtocolTypeOK, protocolVars, client, history
<1> QED
  BY <1>1, <1>2

(* The types of a server that answers, or restarts.                        *)
LEMMA TypeServing ==
  ASSUME TypeOK, RestartServer \/ \E i \in Slots : ReapClient(i) \/ AnswerRequests(i)
  PROVE  TypeOK'
<1>1. CASE RestartServer
  <2>1. UNCHANGED <<protocolVars, client, decoder, responses, history>>
    BY <1>1 DEF RestartServer
  <2>2. /\ link' \in [Clients -> {"down", "waiting", "open", "lost"}]
        /\ requests' \in [Clients -> Seq(Message)]
        /\ slots' \in [Slots -> Clients \cup {None, Dead}]
        /\ leftover' \in [Slots -> BOOLEAN]
    BY <1>1 DEF RestartServer, TypeOK
  <2>3. failures' \in 0..MaxFailures
    BY <1>1, FailType DEF RestartServer
  <2> QED
    BY <2>1, <2>2, <2>3 DEF TypeOK, ProtocolTypeOK, protocolVars, client, history
<1>2. ASSUME NEW i \in Slots, ReapClient(i)
      PROVE  TypeOK'
  <2>1. UNCHANGED <<protocolVars, client, streams, failures, history>>
    BY <1>2 DEF ReapClient
  <2>2. /\ slots' \in [Slots -> Clients \cup {None, Dead}]
        /\ leftover' \in [Slots -> BOOLEAN]
    BY <1>2 DEF ReapClient, TypeOK
  <2> QED
    BY <2>1, <2>2 DEF TypeOK, ProtocolTypeOK, protocolVars, client, streams, history
<1>3. ASSUME NEW i \in Slots, AnswerRequests(i)
      PROVE  TypeOK'
  <2> DEFINE c == slots[i]
  <2>1. UNCHANGED <<nextSequence, pendingSequence, asked, samples, running, pc, mutex, request,
                    completed, received, link, decoder, slots, leftover, latest, overtaken,
                    taken>>
    BY <1>3, Zenon DEF AnswerRequests, client, server
  <2>2. PICK n, written, frames :
          /\ Answered(c, n, written, frames)
          /\ requests' = [requests EXCEPT ![c] = SubSeq(@, n + 1, Len(@))]
          /\ responses' = [responses EXCEPT ![c] = @ \o frames]
          /\ spoiled' = [spoiled EXCEPT ![c] = @ \/ \E j \in 1..Len(frames) : ~frames[j].whole]
    BY <1>3, AnswerRequestsFacts
  <2>3. /\ c \in Clients /\ clock' \in [Devices -> Nat]
        /\ \A d \in Devices : clock'[d] =< MaxReadings[d]
        /\ failures' \in 0..MaxFailures
    BY <1>3, AnswerRequestsFacts
  <2> HIDE DEF c
  <2>4. frames \in Seq(Frame) /\ requests[c] \in Seq(Message) /\ responses[c] \in Seq(Frame)
        /\ n \in 1..Len(requests[c])
    BY <2>2, <2>3 DEF Answered, TypeOK
  <2>5. SubSeq(requests[c], n + 1, Len(requests[c])) \in Seq(Message)
    BY <2>4, SubSeqProperties
  <2>6. responses[c] \o frames \in Seq(Frame)
    BY <2>4, ConcatProperties
  <2>7. requests' \in [Clients -> Seq(Message)] /\ responses' \in [Clients -> Seq(Frame)]
        /\ spoiled' \in [Clients -> BOOLEAN]
    BY <2>2, <2>3, <2>5, <2>6 DEF TypeOK
  <2> QED
    BY <2>1, <2>3, <2>7, SMTT(30) DEF TypeOK, ProtocolTypeOK
<1> QED
  BY <1>1, <1>2, <1>3

(* Every step keeps the types.                                             *)
LEMMA TypeStep ==
  ASSUME TypeOK, \A c \in Clients : Contents(c) /\ Accepting(c), [Next]_vars
  PROVE  TypeOK'
<1>1. CASE Next
  BY <1>1, TypeRequesting, TypeIterating, TypeLifeCycle, TypeAccepting, TypeServing
  DEF Next, Serve
<1>2. CASE UNCHANGED vars
  BY <1>2 DEF TypeOK, ProtocolTypeOK, vars, protocolVars, client, streams, server, history
<1> QED
  BY <1>1, <1>2

-----------------------------------------------------------------------------
(* A step that takes messages away, or hands them on to nobody, and may    *)
(* give up what is pending.                                                *)
Shrinks(c) ==
  /\ nextSequence'[c] = nextSequence[c] /\ asked'[c] = asked[c] /\ samples'[c] = samples[c]
  /\ clock'[c] >= clock[c]
  /\ requests'[c] = requests[c] \/ requests'[c] = <<>>
  /\ \/ responses'[c] = responses[c] \/ responses'[c] = <<>>
     \/ \E n \in 0..Len(responses[c]) : responses'[c] = SubSeq(responses[c], 1, n)
  /\ \/ completed'[c] = completed[c]
     \/ completed[c] # <<>> /\ completed'[c] = Tail(completed[c])
  /\ decoder'[c] = decoder[c] \/ decoder'[c] = Clean
  /\ pendingSequence'[c] = pendingSequence[c] \/ pendingSequence'[c] = 0

(* The sequences of a client are sequences. *)
LEMMA LinesType ==
  ASSUME TypeOK, NEW c \in Clients
  PROVE  /\ requests[c] \in Seq(Message) /\ Len(requests[c]) \in Nat
         /\ responses[c] \in Seq(Frame) /\ Len(responses[c]) \in Nat
         /\ completed[c] \in Seq(Message) /\ Len(completed[c]) \in Nat
BY DEF TypeOK

(* All the numbers are sequence numbers. *)
LEMMA NumbersType ==
  ASSUME TypeOK, NEW c \in Clients
  PROVE  Numbers(c) \subseteq Sequences
<1>1. Sent(c) \subseteq Sequences /\ InHand(c) \subseteq Sequences
  <2>1. /\ \A k \in 1..Len(requests[c]) : requests[c][k] \in Message
        /\ \A k \in 1..Len(completed[c]) : completed[c][k] \in Message
    BY LinesType
  <2>2. \A m \in Message : m.sequence \in Sequences
    BY DEF Message
  <2> QED
    BY <2>1, <2>2 DEF Sent, InHand
<1>2. Returned(c) \subseteq Sequences
  <2>1. \A k \in 1..Len(responses[c]) : responses[c][k] \in Frame
    BY LinesType
  <2>2. \A f \in Frame : f.message.sequence \in Sequences
    BY DEF Frame, Message
  <2> QED
    BY <2>1, <2>2 DEF Returned
<1>3. Begun(c) \subseteq Sequences
  BY DecodeType DEF Begun
<1>4. Sampled(c) \subseteq Sequences
  <2>1. asked[c] \subseteq [sequence : Sequences, t1 : Stamp]
    BY ThreadFacts DEF TypeOK, ProtocolTypeOK
  <2> QED
    BY <2>1 DEF Sampled
<1> QED
  BY <1>1, <1>2, <1>3, <1>4 DEF Numbers

(* A prefix of the frames. *)
LEMMA PrefixFacts ==
  ASSUME TypeOK, NEW c \in Clients, Shrinks(c)
  PROVE  /\ Len(responses'[c]) \in Nat /\ Len(responses'[c]) =< Len(responses[c])
         /\ \A k \in 1..Len(responses'[c]) : responses'[c][k] = responses[c][k]
<1>1. CASE responses'[c] = responses[c]
  BY <1>1, LinesType
<1>2. CASE responses'[c] = <<>>
  BY <1>2, LinesType
<1>3. ASSUME NEW n \in 0..Len(responses[c]), responses'[c] = SubSeq(responses[c], 1, n)
      PROVE  /\ Len(responses'[c]) \in Nat /\ Len(responses'[c]) =< Len(responses[c])
             /\ \A k \in 1..Len(responses'[c]) : responses'[c][k] = responses[c][k]
  BY <1>3, LinesType, SubSeqProperties
<1> QED
  BY <1>1, <1>2, <1>3 DEF Shrinks

(* What the worker has yet to handle after a step. *)
LEMMA RestFacts ==
  ASSUME TypeOK, NEW c \in Clients, Shrinks(c)
  PROVE  /\ Len(completed'[c]) \in Nat
         /\ \A k \in 1..Len(completed'[c]) :
              \E j \in 1..Len(completed[c]) : completed'[c][k] = completed[c][j]
<1>1. CASE completed'[c] = completed[c]
  BY <1>1, LinesType
<1>2. CASE completed[c] # <<>> /\ completed'[c] = Tail(completed[c])
  <2>1. /\ Len(completed'[c]) = Len(completed[c]) - 1
        /\ \A k \in 1..Len(completed'[c]) : completed'[c][k] = completed[c][k + 1]
    BY <1>2, LinesType, HeadTailProperties
  <2>2. Len(completed[c]) > 0
    BY <1>2, LinesType
  <2> QED
    BY <2>1, <2>2, LinesType
<1> QED
  BY <1>1, <1>2 DEF Shrinks

(* Nothing gets a number where messages are only taken away.               *)
LEMMA ShrinkNumbers ==
  ASSUME TypeOK, NEW c \in Clients, Shrinks(c)
  PROVE  /\ Sent(c)' \subseteq Sent(c) /\ Returned(c)' \subseteq Returned(c)
         /\ Begun(c)' \subseteq Begun(c) /\ InHand(c)' \subseteq InHand(c)
         /\ Lost(c)' \subseteq Lost(c) /\ Sampled(c)' = Sampled(c)
         /\ Numbers(c)' \subseteq Numbers(c)
<1>1. Sent(c)' \subseteq Sent(c)
  BY LinesType DEF Shrinks, Sent
<1>2. Returned(c)' \subseteq Returned(c)
  <2>1. \A k \in 1..Len(responses'[c]) : k \in 1..Len(responses[c])
    BY PrefixFacts, LinesType
  <2> QED
    BY <2>1, PrefixFacts DEF Returned
<1>3. Begun(c)' \subseteq Begun(c)
  <2>1. Clean.holds # "part"
    BY DEF Clean
  <2>2. decoder'[c] = decoder[c] \/ decoder'[c] = Clean
    BY DEF Shrinks
  <2> QED
    BY <2>1, <2>2 DEF Begun
<1>4. InHand(c)' \subseteq InHand(c)
  <2>1. \A k \in 1..Len(completed'[c]) :
          \E j \in 1..Len(completed[c]) : completed'[c][k] = completed[c][j]
    BY RestFacts
  <2>2. \A k \in 1..Len(completed'[c]) :
          completed'[c][k].t1 # Noise => completed'[c][k].sequence \in InHand(c)
    BY <2>1 DEF InHand
  <2> QED
    BY <2>2 DEF InHand
<1>5. Lost(c)' \subseteq Lost(c)
  BY RestFacts DEF Lost
<1>6. Sampled(c)' = Sampled(c)
  BY DEF Shrinks, Sampled
<1> QED
  BY <1>1, <1>2, <1>3, <1>4, <1>5, <1>6 DEF Numbers

(* Nor does this break what is said of the messages.                       *)
LEMMA ShrinkKeeps ==
  ASSUME TypeOK, TypeOK', NEW c \in Clients, Shrinks(c),
         Numbering(c), Contents(c), Rising(c), Below(c, nextSequence[c]), Awaited(c)
  PROVE  /\ Numbering(c)' /\ Contents(c)' /\ Rising(c)' /\ Awaited(c)'
         /\ Below(c, nextSequence[c])'
<1>1. Numbering(c)'
  <2>1. asked[c] \subseteq [sequence : Sequences, t1 : Stamp] /\ clock[c] \in Nat /\ clock'[c] \in Nat
    BY ThreadFacts DEF TypeOK, ProtocolTypeOK
  <2>2. clock'[c] >= clock[c] /\ asked'[c] = asked[c] /\ samples'[c] = samples[c]
        /\ nextSequence'[c] = nextSequence[c]
    BY DEF Shrinks
  <2>3. \A q \in asked[c] : q.t1.at =< clock'[c]
    BY <2>1, <2>2 DEF Numbering, Stamp
  <2> QED
    BY <2>2, <2>3 DEF Numbering
<1>2. Contents(c)'
  <2>1. asked'[c] = asked[c] /\ (requests'[c] = requests[c] \/ requests'[c] = <<>>)
    BY DEF Shrinks
  <2>2. \A k \in 1..Len(responses'[c]) : k \in 1..Len(responses[c])
    BY PrefixFacts, LinesType
  <2>3. \A k \in 1..Len(requests'[c]) : Genuine(c, requests[c][k]) /\ requests'[c] = requests[c]
    BY <2>1 DEF Contents
  <2>4. \A m : Genuine(c, m)' <=> Genuine(c, m)
    BY <2>1 DEF Genuine
  <2>5. \A k \in 1..Len(requests'[c]) : [sequence |-> requests'[c][k].sequence,
                                         t1 |-> requests'[c][k].t1] \in asked'[c]
    BY <2>1, <2>3 DEF Genuine
  <2>6. \A k \in 1..Len(responses'[c]) :
          [sequence |-> responses'[c][k].message.sequence,
           t1 |-> responses'[c][k].message.t1] \in asked'[c] /\ Visited(responses'[c][k].message)
    BY <2>1, <2>2, PrefixFacts DEF Genuine, Contents
  <2>7. \A k \in 1..Len(completed'[c]) : completed'[c][k].t1 = None
          \/ completed'[c][k] = Foreign(completed'[c][k].sequence)
          \/ ([sequence |-> completed'[c][k].sequence, t1 |-> completed'[c][k].t1] \in asked'[c]
              /\ Visited(completed'[c][k]))
    BY <2>1, RestFacts DEF Genuine, Contents
  <2> QED
    BY <2>5, <2>6, <2>7 DEF Contents, Genuine, Visited
<1>3. Rising(c)'
  <2>1. \A j, k \in 1..Len(requests'[c]) :
          j < k => Ordinal(requests'[c][j].sequence) < Ordinal(requests'[c][k].sequence)
    BY DEF Rising, Shrinks
  <2>2. \A k \in 1..Len(responses'[c]) : k \in 1..Len(responses[c])
    BY PrefixFacts, LinesType
  <2>3. \A j, k \in 1..Len(responses'[c]) :
          j < k => Ordinal(responses'[c][j].message.sequence) < Ordinal(responses'[c][k].message.sequence)
    BY <2>2, PrefixFacts DEF Rising
  <2> QED
    BY <2>1, <2>3, ShrinkNumbers DEF Rising, Ordinal
<1>4. Awaited(c)'
  BY ShrinkNumbers DEF Awaited, Shrinks, Ordinal
<1>5. Below(c, nextSequence[c])'
  BY ShrinkNumbers DEF Below, Shrinks, Ordinal
<1> QED
  BY <1>1, <1>2, <1>3, <1>4, <1>5

\* The steps that do more than that to a client.
Grows(c) ==
  \/ \E t \in Threads : t[1] = c /\ (BuildRequest(t) \/ StorePending(t) \/ SendMessage(t))
  \/ ReadFrame(c) \/ Reject(c) \/ AcceptResponse(c)
  \/ \E i \in Slots : slots[i] = c /\ AnswerRequests(i)

(* Nothing that Shrinks looks at changes. *)
LEMMA UnchangedShrinks ==
  ASSUME TypeOK, NEW c \in Clients,
         nextSequence'[c] = nextSequence[c], asked'[c] = asked[c], samples'[c] = samples[c],
         clock'[c] = clock[c], requests'[c] = requests[c], responses'[c] = responses[c],
         completed'[c] = completed[c], decoder'[c] = decoder[c],
         pendingSequence'[c] = pendingSequence[c]
  PROVE  Shrinks(c)
<1>1. clock[c] \in Nat
  BY ThreadFacts DEF TypeOK, ProtocolTypeOK
<1> QED
  BY <1>1 DEF Shrinks

(* A client's connection is stopped. *)
LEMMA StopShrinks ==
  ASSUME TypeOK, NEW c \in Clients, NEW d \in Clients, Stop(d),
         \/ SetPending(d, 0)
         \/ UNCHANGED pendingSequence,
         ResetDecoder(d) \/ UNCHANGED decoder,
         UNCHANGED <<clock, nextSequence, asked, samples>>,
         completed'[c] = completed[c]
  PROVE  Shrinks(c)
<1>1. clock[c] \in Nat /\ pendingSequence \in [Devices -> Sequences] /\ c \in Devices /\ d \in Devices
  BY ThreadFacts DEF TypeOK, ProtocolTypeOK
<1>2. /\ requests'[c] = requests[c] \/ requests'[c] = <<>>
      /\ responses'[c] = responses[c] \/ responses'[c] = <<>>
  BY DEF Stop, TypeOK
<1>3. decoder'[c] = decoder[c] \/ decoder'[c] = Clean
  BY DEF ResetDecoder, TypeOK
<1>4. pendingSequence'[c] = pendingSequence[c] \/ pendingSequence'[c] = 0
  BY <1>1 DEF SetPending
<1>5. nextSequence'[c] = nextSequence[c] /\ asked'[c] = asked[c] /\ samples'[c] = samples[c]
      /\ clock'[c] = clock[c]
  OBVIOUS
<1> QED
  BY <1>1, <1>2, <1>3, <1>4, <1>5 DEF Shrinks

(* The steps of a request that put no message anywhere.                    *)
LEMMA RequestingShrinks ==
  ASSUME TypeOK, NEW c \in Clients, NEW t \in Threads, RequestSynchronization(t), ~Grows(c)
  PROVE  Shrinks(c)
<1> DEFINE d == t[1]
<1> HIDE DEF d
<1>1. d \in Clients /\ d \in Devices /\ c \in Devices /\ clock[c] \in Nat
  BY ThreadFacts DEF d, TypeOK, ProtocolTypeOK
<1>2. ASSUME NEW up \in BOOLEAN, Reconnect(t, up)
      PROVE  Shrinks(c)
  <2>1. UNCHANGED <<clock, nextSequence, asked, samples, completed, requests>>
    BY <1>2 DEF Reconnect, Reopen
  <2>2. responses'[c] = responses[c] \/ responses'[c] = <<>>
    BY <1>2, <1>1 DEF Reconnect, Reopen, TypeOK
  <2>3. decoder'[c] = decoder[c] \/ decoder'[c] = Clean
    BY <1>2, <1>1 DEF Reconnect, Reopen, ResetDecoder, TypeOK
  <2>4. pendingSequence'[c] = pendingSequence[c] \/ pendingSequence'[c] = 0
    BY <1>2, <1>1 DEF Reconnect, SetPending, TypeOK, ProtocolTypeOK
  <2> QED
    BY <1>1, <2>1, <2>2, <2>3, <2>4 DEF Shrinks
<1>3. CASE EnterRequest(t) \/ GiveUp(t)
  <2>1. UNCHANGED <<clock, nextSequence, pendingSequence, asked, samples, completed, requests,
                    responses, decoder>>
    BY <1>3 DEF EnterRequest, GiveUp, protocolVars, streams
  <2> QED
    BY <2>1, UnchangedShrinks
<1>4. CASE BuildRequest(t) \/ StorePending(t) \/ SendMessage(t)
  <2>1. d # c
    BY <1>4 DEF Grows, d
  <2>2. CASE BuildRequest(t)
    <3>1. UNCHANGED <<pendingSequence, samples, completed, requests, responses, decoder>>
      BY <2>2 DEF BuildRequest, NumberRequest, streams
    <3>2. nextSequence'[c] = nextSequence[c] /\ asked'[c] = asked[c] /\ clock'[c] = clock[c]
      BY <1>1, <2>1, <2>2
      DEF BuildRequest, NumberRequest, Number, Read, d, TypeOK, ProtocolTypeOK
    <3> QED
      BY <3>1, <3>2, UnchangedShrinks
  <2>3. CASE StorePending(t)
    <3>1. UNCHANGED <<clock, nextSequence, asked, samples, completed, requests, responses, decoder>>
      BY <2>3 DEF StorePending, streams
    <3>2. pendingSequence'[c] = pendingSequence[c]
      BY <1>1, <2>1, <2>3 DEF StorePending, SetPending, d, TypeOK, ProtocolTypeOK
    <3> QED
      BY <3>1, <3>2, UnchangedShrinks
  <2>4. CASE SendMessage(t)
    <3>1. UNCHANGED <<clock, nextSequence, pendingSequence, asked, samples, completed, responses,
                      decoder>>
      BY <2>4 DEF SendMessage, protocolVars
    <3>2. requests'[c] = requests[c]
      BY <1>1, <2>1, <2>4 DEF SendMessage, d, TypeOK
    <3> QED
      BY <3>1, <3>2, UnchangedShrinks
  <2> QED
    BY <1>4, <2>2, <2>3, <2>4
<1>5. CASE SendFails(t)
  BY <1>1, <1>5, StopShrinks DEF SendFails, d
<1> QED
  BY <1>2, <1>3, <1>4, <1>5 DEF RequestSynchronization

(* The steps of a worker that take none from the connection.               *)
LEMMA IteratingShrinks ==
  ASSUME TypeOK, NEW c \in Clients, NEW d \in Clients, Iterate(d), ~Grows(c)
  PROVE  Shrinks(c)
<1>1. d \in Devices /\ c \in Devices /\ clock[c] \in Nat
  BY ThreadFacts DEF TypeOK, ProtocolTypeOK
<1>2. CASE BeginRead(d) \/ EndRead(d)
  <2>1. UNCHANGED <<clock, nextSequence, pendingSequence, asked, samples, completed, requests,
                    responses, decoder>>
    BY <1>2 DEF BeginRead, EndRead, protocolVars, streams
  <2> QED
    BY <2>1, UnchangedShrinks
<1>3. CASE ReadFrame(d)
  <2>1. d # c
    BY <1>3 DEF Grows
  <2>2. UNCHANGED <<clock, nextSequence, pendingSequence, asked, samples, requests>>
    BY <1>3 DEF ReadFrame, protocolVars
  <2>3. completed'[c] = completed[c] /\ decoder'[c] = decoder[c] /\ responses'[c] = responses[c]
    BY <1>3, <2>1 DEF ReadFrame, TypeOK
  <2> QED
    BY <2>2, <2>3, UnchangedShrinks
<1>4. CASE Reject(d)
  <2>1. d # c
    BY <1>4 DEF Grows
  <2>2. completed'[c] = completed[c]
    BY <1>4, <2>1 DEF Reject, TypeOK
  <2>3. Stop(d) /\ SetPending(d, 0) /\ ResetDecoder(d) /\ UNCHANGED <<clock, nextSequence, asked, samples>>
    BY <1>4 DEF Reject
  <2> QED
    BY <2>2, <2>3, StopShrinks
<1>5. CASE HandleMessage(d)
  <2>1. UNCHANGED <<nextSequence, pendingSequence, asked, samples, requests, responses, decoder>>
    BY <1>5 DEF HandleMessage, streams
  <2>2. clock'[c] >= clock[c]
    BY <1>1, <1>5, SMTT(30) DEF HandleMessage, Read, TypeOK, ProtocolTypeOK
  <2>3. completed[d] # <<>>
        /\ (UNCHANGED completed \/ completed' = [completed EXCEPT ![d] = Tail(@)])
    BY <1>5 DEF HandleMessage
  <2>4. completed'[c] = completed[c] \/ (completed[c] # <<>> /\ completed'[c] = Tail(completed[c]))
    BY <2>3 DEF TypeOK
  <2> QED
    BY <2>1, <2>2, <2>4 DEF Shrinks
<1>6. CASE AcceptResponse(d)
  <2>1. d # c
    BY <1>6 DEF Grows
  <2>2. UNCHANGED <<clock, nextSequence, asked, requests, responses, decoder>>
    BY <1>6 DEF AcceptResponse, Accept, streams
  <2>3. samples'[c] = samples[c] /\ pendingSequence'[c] = pendingSequence[c]
        /\ completed'[c] = completed[c]
    BY <1>1, <1>6, <2>1
    DEF AcceptResponse, Accept, Submit, SetPending, TypeOK, ProtocolTypeOK
  <2> QED
    BY <2>2, <2>3, UnchangedShrinks
<1> QED
  BY <1>2, <1>3, <1>4, <1>5, <1>6 DEF Iterate

(* The steps of server and network that answer this client nothing.        *)
LEMMA ServingShrinks ==
  ASSUME TypeOK, NEW c \in Clients, ~Grows(c),
         \/ RestartServer \/ (\E i \in Slots : ReapClient(i) \/ AnswerRequests(i))
         \/ \E d \in Clients : \/ Shutdown(d) \/ Initialize(d) \/ Drop(d) \/ RefuseClient(d)
                               \/ \E i \in Slots : AcceptClient(d, i)
  PROVE  Shrinks(c)
<1>1. c \in Devices /\ c # Server /\ clock[c] \in Nat
  BY ThreadFacts, CarrierAssumption DEF TypeOK, ProtocolTypeOK
<1>2. ASSUME NEW d \in Clients, Shutdown(d)
      PROVE  Shrinks(c)
  BY <1>2, StopShrinks DEF Shutdown
<1>3. ASSUME NEW d \in Clients, Drop(d)
      PROVE  Shrinks(c)
  <2>1. UNCHANGED <<clock, nextSequence, pendingSequence, asked, samples, completed, decoder>>
    BY <1>3 DEF Drop, protocolVars, client
  <2>2. requests'[c] = requests[c] \/ requests'[c] = <<>>
    BY <1>3 DEF Drop, TypeOK
  <2>3. PICK n \in 0..Len(responses[d]) : responses' = [responses EXCEPT ![d] = SubSeq(@, 1, n)]
    BY <1>3 DEF Drop
  <2>4. responses'[c] = responses[c]
          \/ \E k \in 0..Len(responses[c]) : responses'[c] = SubSeq(responses[c], 1, k)
    BY <2>3 DEF TypeOK
  <2> QED
    BY <1>1, <2>1, <2>2, <2>4 DEF Shrinks
<1>4. ASSUME NEW i \in Slots, AnswerRequests(i)
      PROVE  Shrinks(c)
  <2>1. slots[i] # c /\ slots[i] \in Clients
    BY <1>4, AnswerRequestsFacts, SMTT(30) DEF Grows
  <2>2. UNCHANGED <<nextSequence, pendingSequence, asked, samples, completed, decoder>>
    BY <1>4, Zenon DEF AnswerRequests, client
  <2>3. clock'[c] = clock[c]
    BY <1>1, <1>4, AnswerRequestsFacts
  <2>4. requests'[c] = requests[c] /\ responses'[c] = responses[c]
    BY <1>4, <2>1, AnswerRequestsFacts DEF TypeOK
  <2> QED
    BY <2>2, <2>3, <2>4, UnchangedShrinks
<1>5. CASE RestartServer \/ \E d \in Clients : RefuseClient(d)
  <2>1. UNCHANGED <<clock, nextSequence, pendingSequence, asked, samples, completed, decoder,
                    responses>>
    BY <1>5 DEF RestartServer, RefuseClient, protocolVars, client
  <2>2. requests'[c] = requests[c] \/ requests'[c] = <<>>
    BY <1>5 DEF RestartServer, RefuseClient, TypeOK
  <2> QED
    BY <1>1, <2>1, <2>2 DEF Shrinks
<1>6. CASE (\E i \in Slots : ReapClient(i))
           \/ \E d \in Clients : Initialize(d) \/ \E i \in Slots : AcceptClient(d, i)
  <2>1. UNCHANGED <<clock, nextSequence, pendingSequence, asked, samples, completed, decoder,
                    requests, responses>>
    BY <1>6 DEF ReapClient, Initialize, AcceptClient, protocolVars, client, streams
  <2> QED
    BY <2>1, UnchangedShrinks
<1> QED
  BY <1>2, <1>3, <1>4, <1>5, <1>6

(* A step that does not shrink a client is one of those that grow it. *)
LEMMA ShrinksOrGrows ==
  ASSUME TypeOK, NEW c \in Clients, [Next]_vars
  PROVE  Shrinks(c) \/ Grows(c)
<1>1. CASE Next
  BY <1>1, RequestingShrinks, IteratingShrinks, ServingShrinks DEF Next, Serve
<1>2. CASE UNCHANGED vars
  <2>1. UNCHANGED <<clock, nextSequence, pendingSequence, asked, samples, completed, decoder,
                    requests, responses>>
    BY <1>2 DEF vars, protocolVars, client, streams
  <2> QED
    BY <2>1, UnchangedShrinks
<1> QED
  BY <1>1, <1>2

-----------------------------------------------------------------------------
\* What of the invariant is about the messages of a client.
DataInv(c) ==
  Numbering(c) /\ Contents(c) /\ Rising(c) /\ Below(c, nextSequence[c]) /\ Awaited(c)

(* What is asked of a client has a sequence number and a time. *)
LEMMA AskedType ==
  ASSUME TypeOK, NEW c \in Clients
  PROVE  /\ asked[c] \subseteq [sequence : Sequences, t1 : Stamp]
         /\ clock[c] \in Nat /\ nextSequence[c] \in 1..(Modulus + 1)
         /\ pendingSequence[c] \in Sequences /\ request[c] \in Message
         /\ request[c].sequence \in Sequences
BY ThreadFacts DEF TypeOK, ProtocolTypeOK, Message

(* What a client asks at, and what is answered, is no noise. *)
LEMMA NoNoise ==
  ASSUME TypeOK, NEW c \in Clients, Numbering(c)
  PROVE  /\ \A q \in asked[c] : q.t1 # Noise
         /\ \A m : Genuine(c, m) => m.t1 # Noise
<1>1. \A q \in asked[c] : q.t1 # Noise
  BY CompletionFacts DEF Numbering
<1>2. ASSUME NEW m, Genuine(c, m)
      PROVE  m.t1 # Noise
  <2>1. [sequence |-> m.sequence, t1 |-> m.t1].t1 # Noise
    BY <1>1, <1>2 DEF Genuine
  <2> QED
    BY <2>1
<1> QED
  BY <1>1, <1>2

(* The number that is given is above all before it, and so is the time:    *)
(* what is built is above all that is known of the client.                 *)
LEMMA BuildRequestKeeps ==
  ASSUME TypeOK, TypeOK', NEW t \in Threads, NEW c, c = t[1], BuildRequest(t), DataInv(c)
  PROVE  /\ DataInv(c)'
         /\ request'[c].sequence = latest'[c] /\ Genuine(c, request[c])'
         /\ Below(c, Ordinal(latest[c]))'
<1>1. c \in Clients /\ c \in Devices
  BY ThreadFacts
<1>2. Number(c) /\ Read(c)
  BY DEF BuildRequest, NumberRequest
<1> DEFINE n == nextSequence[c]
           q == [sequence |-> Sequence(c), t1 |-> Now(c)]
<1>3. n \in 1..Modulus /\ nextSequence'[c] = n + 1 /\ clock[c] \in Nat /\ clock'[c] = clock[c] + 1
  BY <1>1, <1>2, AskedType, ClockAssumption DEF Number, Read, TypeOK, ProtocolTypeOK
<1>4. Sequence(c) \in Sequences /\ Ordinal(Sequence(c)) = n
  BY <1>3, NumberFacts DEF Sequence
<1>5. /\ Now(c).by = c /\ Now(c).at = clock[c] + 1
      /\ q.sequence = Sequence(c) /\ q.t1 = Now(c)
  BY DEF Now
<1>6. asked'[c] = asked[c] \cup {q}
  BY <1>1 DEF BuildRequest, NumberRequest, TypeOK, ProtocolTypeOK
<1>7. request'[c].sequence = Sequence(c) /\ request'[c].t1 = Now(c) /\ latest'[c] = Sequence(c)
  BY <1>1 DEF BuildRequest, Request, TypeOK
<1>8. UNCHANGED <<pendingSequence, samples, completed, decoder, requests, responses>>
  BY DEF BuildRequest, NumberRequest, streams
<1>9. asked[c] \subseteq [sequence : Sequences, t1 : Stamp]
  BY <1>1, AskedType
<1>10. \A p \in asked[c] : p.t1 # q.t1
  BY <1>3, <1>5, <1>9 DEF DataInv, Numbering, Stamp
<1> HIDE DEF n, q
<1>11. Numbering(c)'
  <2>1. \A p \in asked'[c] : Ordinal(p.sequence) < nextSequence'[c]
    <3>1. \A p \in asked[c] : Ordinal(p.sequence) < n /\ Ordinal(p.sequence) \in Nat
      BY <1>9, OrdinalType DEF DataInv, Numbering, n
    <3> QED
      BY <3>1, <1>3, <1>4, <1>5, <1>6
  <2>2. \A p \in asked'[c] : p.t1.by = c /\ p.t1.at =< clock'[c]
    <3>1. \A p \in asked[c] : p.t1.by = c /\ p.t1.at =< clock[c] /\ p.t1.at \in Nat
      BY <1>9 DEF DataInv, Numbering, Stamp
    <3> QED
      BY <3>1, <1>3, <1>5, <1>6
  <2>3. \A p, r \in asked'[c] : p.t1 = r.t1 => p = r
    BY <1>6, <1>10 DEF DataInv, Numbering
  <2>4. \A s \in samples'[c] : s.t1 = Noise \/ \E p \in asked'[c] : p.t1 = s.t1
    BY <1>6, <1>8, SMTT(30) DEF DataInv, Numbering
  <2> QED
    BY <2>1, <2>2, <2>3, <2>4 DEF Numbering
<1>12. Contents(c)'
  BY <1>6, <1>8, ZenonT(60) DEF DataInv, Contents, Genuine, Visited
<1>13. Sampled(c)' = Sampled(c)
  <2>1. \A s \in samples[c] : s.t1 # q.t1
    BY <1>1, <1>5, <1>10, CompletionFacts DEF DataInv, Numbering
  <2> QED
    BY <2>1, <1>6, <1>8 DEF Sampled
<1>14. /\ Sent(c)' = Sent(c) /\ Returned(c)' = Returned(c) /\ Begun(c)' = Begun(c)
       /\ InHand(c)' = InHand(c) /\ Lost(c)' = Lost(c) /\ Numbers(c)' = Numbers(c)
  BY <1>8, <1>13 DEF Sent, Returned, Begun, InHand, Lost, Numbers
<1>15. Rising(c)'
  BY <1>8, <1>14 DEF DataInv, Rising
<1>16. Awaited(c)'
  BY <1>8, <1>13, <1>14 DEF DataInv, Awaited
<1>17. Below(c, nextSequence[c])' /\ Below(c, Ordinal(latest[c]))'
  <2>1. \A s \in Numbers(c) : Ordinal(s) < n /\ Ordinal(s) \in Nat
    BY <1>1, NumbersType, OrdinalType DEF DataInv, Below, n
  <2> QED
    BY <2>1, <1>3, <1>4, <1>7, <1>14 DEF Below
<1>18. Genuine(c, request[c])'
  BY <1>6, <1>7 DEF Genuine, q
<1> QED
  BY <1>7, <1>11, <1>12, <1>15, <1>16, <1>17, <1>18 DEF DataInv

(* The number stored is above those of all that is sent, sampled, garbled, *)
(* for it was so when it was given and nobody else has sent since.         *)
LEMMA StorePendingKeeps ==
  ASSUME TypeOK, NEW t \in Threads, NEW c, c = t[1], StorePending(t), Sending(t), DataInv(c)
  PROVE  DataInv(c)' /\ Numbers(c)' \subseteq Numbers(c)
<1>1. c \in Clients /\ c \in Devices
  BY ThreadFacts
<1>2. UNCHANGED <<clock, nextSequence, asked, samples, completed, decoder, requests, responses>>
  BY DEF StorePending, streams
<1>3. /\ Sent(c)' = Sent(c) /\ Returned(c)' = Returned(c) /\ Begun(c)' = Begun(c)
      /\ InHand(c)' = InHand(c) /\ Lost(c)' = Lost(c) /\ Sampled(c)' = Sampled(c)
      /\ Numbers(c)' = Numbers(c)
  BY <1>2 DEF Sent, Returned, Begun, InHand, Lost, Sampled, Numbers
<1>4. Numbering(c)' /\ Contents(c)' /\ Rising(c)' /\ Below(c, nextSequence[c])'
  <2>1. Numbering(c)'
    BY <1>2, <1>3 DEF DataInv, Numbering
  <2>2. Contents(c)'
    BY <1>2, <1>3, ZenonT(60) DEF DataInv, Contents, Genuine, Visited
  <2>3. Rising(c)'
    BY <1>2, <1>3 DEF DataInv, Rising
  <2>4. Below(c, nextSequence[c])'
    BY <1>2, <1>3 DEF DataInv, Below
  <2> QED
    BY <2>1, <2>2, <2>3, <2>4
<1>5. pendingSequence'[c] = request[c].sequence /\ request[c].sequence \in Sequences
  BY <1>1, AskedType DEF StorePending, SetPending, TypeOK, ProtocolTypeOK
<1>6. Below(c, Ordinal(request[c].sequence))
  BY DEF Sending, StorePending
<1>7. Lost(c) \subseteq Numbers(c)
  BY CompletionFacts DEF Lost, InHand, Numbers
<1>8. Awaited(c)'
  <2> SUFFICES ASSUME pendingSequence'[c] # 0
               PROVE  /\ \A s \in Sent(c) \cup Returned(c) : Ordinal(s) =< pendingSequence'[c]
                      /\ \A s \in Lost(c) \cup Sampled(c) : Ordinal(s) < pendingSequence'[c]
    BY <1>3 DEF Awaited
  <2>1. Ordinal(request[c].sequence) = pendingSequence'[c]
    BY <1>5, OrdinalType
  <2>2. \A s \in Numbers(c) : Ordinal(s) < pendingSequence'[c]
    BY <1>6, <2>1 DEF Below
  <2>3. \A s \in Numbers(c) : Ordinal(s) \in Nat
    BY <1>1, NumbersType, OrdinalType
  <2>4. pendingSequence'[c] \in Nat
    BY <1>5 DEF Sequences
  <2> QED
    BY <1>7, <2>2, <2>3, <2>4 DEF Numbers
<1> QED
  BY <1>3, <1>4, <1>8 DEF DataInv

(* What is sent is behind all that has been, and above it.                 *)
LEMMA SendMessageKeeps ==
  ASSUME TypeOK, NEW t \in Threads, NEW c, c = t[1], SendMessage(t), Sending(t), DataInv(c)
  PROVE  DataInv(c)'
<1>1. c \in Clients
  BY ThreadFacts
<1>2. UNCHANGED <<clock, nextSequence, asked, samples, pendingSequence, completed, decoder, responses>>
  BY DEF SendMessage, protocolVars
<1>3. CASE requests'[c] = requests[c]
  <2>1. /\ Sent(c)' = Sent(c) /\ Returned(c)' = Returned(c) /\ Begun(c)' = Begun(c)
        /\ InHand(c)' = InHand(c) /\ Lost(c)' = Lost(c) /\ Sampled(c)' = Sampled(c)
        /\ Numbers(c)' = Numbers(c)
    BY <1>2, <1>3 DEF Sent, Returned, Begun, InHand, Lost, Sampled, Numbers
  <2>2. Numbering(c)' /\ Below(c, nextSequence[c])' /\ Awaited(c)'
    BY <1>2, <2>1, SMTT(30) DEF DataInv, Numbering, Below, Awaited
  <2>3. Contents(c)'
    BY <1>2, <1>3, ZenonT(40) DEF DataInv, Contents, Genuine, Visited
  <2>4. Rising(c)'
    BY <1>2, <1>3, <2>1 DEF DataInv, Rising
  <2> QED
    BY <2>2, <2>3, <2>4 DEF DataInv
<1>4. CASE requests'[c] = Append(requests[c], request[c])
  <2> DEFINE s == request[c].sequence
             k == Len(requests[c])
  <2>1. s \in Sequences /\ request[c] \in Message /\ requests[c] \in Seq(Message) /\ k \in Nat
    BY <1>1, AskedType, LinesType
  <2>2. /\ Len(requests'[c]) = k + 1 /\ requests'[c][k + 1] = request[c]
        /\ \A j \in 1..k : requests'[c][j] = requests[c][j]
    BY <1>4, <2>1, AppendProperties
  <2>3. Genuine(c, request[c]) /\ Below(c, Ordinal(s)) /\ pendingSequence[c] \in {0, s}
    BY DEF Sending, SendMessage
  <2>4. \A r \in Numbers(c) : Ordinal(r) < Ordinal(s) /\ Ordinal(r) \in Nat
    BY <1>1, <2>3, NumbersType, OrdinalType DEF Below
  <2>5. Ordinal(s) \in Nat /\ Ordinal(s) < nextSequence[c]
    BY <2>1, <2>3, OrdinalType DEF Genuine, DataInv, Numbering
  <2>6. Sent(c)' = Sent(c) \cup {s}
    <3>1. \A j \in 1..(k + 1) : requests'[c][j].sequence \in Sent(c) \cup {s}
      <4>1. \A j \in 1..(k + 1) : j \in 1..k \/ j = k + 1
        BY <2>1
      <4> QED
        BY <4>1, <2>2 DEF Sent
    <3>2. \A j \in 1..k : j \in 1..(k + 1) /\ requests'[c][j].sequence = requests[c][j].sequence
      BY <2>1, <2>2
    <3>3. k + 1 \in 1..(k + 1) /\ requests'[c][k + 1].sequence = s
      BY <2>1, <2>2
    <3>4. Sent(c)' = {requests'[c][j].sequence : j \in 1..(k + 1)}
      BY <2>2 DEF Sent
    <3>5. Sent(c)' \subseteq Sent(c) \cup {s}
      BY <3>1, <3>4
    <3>6. Sent(c) \subseteq Sent(c)'
      BY <3>2, <3>4 DEF Sent
    <3>7. s \in Sent(c)'
      BY <3>3, <3>4
    <3> HIDE DEF s
    <3> QED
      BY <3>5, <3>6, <3>7
  <2>7. /\ Returned(c)' = Returned(c) /\ Begun(c)' = Begun(c) /\ InHand(c)' = InHand(c)
        /\ Lost(c)' = Lost(c) /\ Sampled(c)' = Sampled(c) /\ Numbers(c)' = Numbers(c) \cup {s}
    BY <1>2, <2>6 DEF Returned, Begun, InHand, Lost, Sampled, Numbers
  <2>8. Numbering(c)'
    BY <1>2, SMTT(30) DEF DataInv, Numbering
  <2>9. Contents(c)'
    <3>1. \A j \in 1..Len(requests'[c]) : j \in 1..k \/ j = k + 1
      BY <2>1, <2>2
    <3>2. \A j \in 1..Len(requests'[c]) : Genuine(c, requests'[c][j])
      BY <2>2, <2>3, <3>1 DEF DataInv, Contents
    <3> QED
      BY <1>2, <3>2, ZenonT(60) DEF DataInv, Contents, Genuine, Visited
  <2>10. Rising(c)'
    <3>1. \A i, j \in 1..Len(requests'[c]) :
            i < j => Ordinal(requests'[c][i].sequence) < Ordinal(requests'[c][j].sequence)
      <4> SUFFICES ASSUME NEW i \in 1..(k + 1), NEW j \in 1..(k + 1), i < j
                   PROVE  Ordinal(requests'[c][i].sequence) < Ordinal(requests'[c][j].sequence)
        BY <2>2
      <4>1. i \in 1..k /\ requests[c][i].sequence \in Numbers(c)
            /\ requests'[c][i].sequence = requests[c][i].sequence
        BY <2>1, <2>2 DEF Numbers, Sent
      <4>2. CASE j \in 1..k
        BY <4>1, <4>2, <2>2 DEF DataInv, Rising
      <4>3. CASE j = k + 1
        BY <4>1, <4>3, <2>2, <2>4
      <4> QED
        BY <2>1, <4>2, <4>3
    <3>2. \A r \in Returned(c) \cup Begun(c) \cup Sent(c) : Ordinal(r) < Ordinal(s)
      BY <2>4 DEF Numbers
    <3> QED
      BY <1>2, <2>6, <2>7, <3>1, <3>2 DEF DataInv, Rising
  <2>11. Below(c, nextSequence[c])'
    BY <1>2, <2>5, <2>7 DEF DataInv, Below
  <2>12. Awaited(c)'
    <3>1. pendingSequence[c] # 0 => Ordinal(s) = pendingSequence[c]
      BY <2>1, <2>3, OrdinalType
    <3>2. pendingSequence[c] # 0 => Ordinal(s) =< pendingSequence[c]
      BY <2>5, <3>1
    <3> QED
      BY <1>2, <2>6, <2>7, <3>2 DEF DataInv, Awaited
  <2> QED
    BY <2>8, <2>9, <2>10, <2>11, <2>12 DEF DataInv
<1>5. requests'[c] = requests[c] \/ requests'[c] = Append(requests[c], request[c])
  BY <1>1 DEF SendMessage, TypeOK
<1> QED
  BY <1>3, <1>4, <1>5

(* What the worker takes from the messages it has read adds nothing. *)
LEMMA TailFacts ==
  ASSUME TypeOK, NEW c \in Clients, completed[c] # <<>>, completed'[c] = Tail(completed[c])
  PROVE  \A k \in 1..Len(completed'[c]) :
           \E j \in 1..Len(completed[c]) : completed'[c][k] = completed[c][j]
<1>1. /\ Len(completed'[c]) = Len(completed[c]) - 1
      /\ \A k \in 1..Len(completed'[c]) : completed'[c][k] = completed[c][k + 1]
  BY LinesType, HeadTailProperties
<1>2. Len(completed[c]) > 0
  BY LinesType
<1> QED
  BY <1>1, <1>2, LinesType

(* The message goes from the worker's hands into a sample of its request,  *)
(* and the pending number is cleared.                                      *)
LEMMA AcceptResponseKeeps ==
  ASSUME TypeOK, NEW c \in Clients, AcceptResponse(c), Accepting(c), DataInv(c)
  PROVE  DataInv(c)' /\ Numbers(c)' \subseteq Numbers(c)
<1> DEFINE m == Head(completed[c])
           x == [t1 |-> m.t1, t2 |-> m.t2, t3 |-> m.t3, t4 |-> received[c]]
<1>1. c \in Devices
  BY ThreadFacts
<1>2. UNCHANGED <<clock, nextSequence, asked, requests, responses, decoder>>
  BY DEF AcceptResponse, Accept, streams
<1>3. completed[c] # <<>> /\ m.t1 # None
  BY DEF AcceptResponse, Accepting
<1>4. Len(completed[c]) \in Nat /\ 1 \in 1..Len(completed[c]) /\ m = completed[c][1]
  BY <1>3, LinesType
<1>5. m.t1 = Noise \/ Genuine(c, m)
  BY <1>3, <1>4, CompletionFacts DEF DataInv, Contents
<1>6. samples'[c] = samples[c] \cup {x} /\ pendingSequence'[c] = 0
  BY <1>1 DEF AcceptResponse, Accept, Submit, SetPending, TypeOK, ProtocolTypeOK
<1>7. completed'[c] = Tail(completed[c])
  BY DEF AcceptResponse, TypeOK
<1>8. \A k \in 1..Len(completed'[c]) :
        \E j \in 1..Len(completed[c]) : completed'[c][k] = completed[c][j]
  BY <1>3, <1>7, TailFacts
<1>9. (m.t1 # Noise => m.sequence \in InHand(c)) /\ x.t1 = m.t1
  BY <1>4 DEF InHand
<1> HIDE DEF m, x
<1>10. InHand(c)' \subseteq InHand(c)
  <2>1. \A k \in 1..Len(completed'[c]) :
          completed'[c][k].t1 # Noise => completed'[c][k].sequence \in InHand(c)
    BY <1>8 DEF InHand
  <2> QED
    BY <2>1 DEF InHand
<1>11. Sampled(c)' \subseteq Sampled(c) \cup InHand(c)
  <2>1. \A q \in asked[c] : q.t1 = m.t1 => q.sequence = m.sequence /\ q.sequence \in InHand(c)
    <3> SUFFICES ASSUME NEW q \in asked[c], q.t1 = m.t1
                 PROVE  q.sequence = m.sequence /\ q.sequence \in InHand(c)
      OBVIOUS
    <3>1. m.t1 # Noise
      BY NoNoise DEF DataInv
    <3>2. Genuine(c, m)
      BY <3>1, <1>5
    <3>3. q.sequence = m.sequence
      BY <3>2 DEF Genuine, DataInv, Numbering
    <3> QED
      BY <3>1, <3>3, <1>9
  <2> QED
    BY <2>1, <1>2, <1>6, <1>9 DEF Sampled
<1>12. /\ Sent(c)' = Sent(c) /\ Returned(c)' = Returned(c) /\ Begun(c)' = Begun(c)
  BY <1>2 DEF Sent, Returned, Begun
<1>13. Numbers(c)' \subseteq Numbers(c)
  BY <1>10, <1>11, <1>12 DEF Numbers
<1>14. Numbering(c)'
  <2>1. x.t1 = Noise \/ \E q \in asked[c] : q.t1 = x.t1
    BY <1>5, <1>9 DEF Genuine
  <2> QED
    BY <2>1, <1>2, <1>6 DEF DataInv, Numbering
<1>15. Contents(c)'
  <2>1. \A k \in 1..Len(completed'[c]) :
          completed'[c][k].t1 = None
            \/ completed'[c][k] = Foreign(completed'[c][k].sequence)
            \/ (Genuine(c, completed'[c][k]) /\ Visited(completed'[c][k]))
    BY <1>8 DEF DataInv, Contents
  <2> QED
    BY <2>1, <1>2 DEF DataInv, Contents, Genuine, Visited
<1>16. Rising(c)'
  BY <1>2, <1>12 DEF DataInv, Rising
<1>17. Below(c, nextSequence[c])'
  BY <1>2, <1>13 DEF DataInv, Below
<1>18. Awaited(c)'
  BY <1>6 DEF Awaited
<1> QED
  BY <1>13, <1>14, <1>15, <1>16, <1>17, <1>18 DEF DataInv

(* What the worker makes of a frame: nothing, the frame's message, or of   *)
(* the part it held a garbled one or one with a foreign number.            *)
LEMMA ReadFrameFacts ==
  ASSUME TypeOK, NEW c \in Clients, ReadFrame(c), NEW f, f = Head(responses[c])
  PROVE  /\ responses[c] # <<>> /\ responses'[c] = Tail(responses[c])
         /\ UNCHANGED <<protocolVars, requests>>
         /\ \/ completed'[c] = completed[c] /\ decoder'[c] \in {decoder[c], Clean, Astray}
            \/ /\ completed'[c] = completed[c] /\ decoder[c] = Clean /\ ~f.whole
               /\ decoder'[c] = Part(f.message.sequence)
            \/ /\ completed'[c] = Append(completed[c], f.message)
               /\ decoder[c] = Clean /\ f.whole /\ decoder'[c] = Clean
            \/ /\ completed'[c] = Append(completed[c], Garbled(decoder[c].sequence))
               /\ decoder[c].holds = "part" /\ decoder'[c] \in {Clean, Astray}
            \/ /\ \E n \in Sequences : completed'[c] = Append(completed[c], Foreign(n))
               /\ decoder[c].holds = "part" /\ decoder'[c] \in {Clean, Astray}
<1>1. responses[c] # <<>> /\ responses'[c] = Tail(responses[c])
      /\ UNCHANGED <<protocolVars, requests>>
  BY DEF ReadFrame, TypeOK
<1>2. f.message \in Message /\ f.whole \in BOOLEAN
  <2>1. f \in Frame
    BY <1>1, LinesType, HeadTailProperties
  <2> QED
    BY <2>1 DEF Frame
<1>3. PICK messages \in {<<>>, <<f.message>>} \cup {<<m>> : m \in Completions(decoder[c].sequence)} :
        \E next \in {Clean, Astray, decoder[c], Part(f.message.sequence)} :
          /\ Decode(c, f, messages, next)
          /\ completed' = [completed EXCEPT ![c] = @ \o messages]
          /\ decoder' = [decoder EXCEPT ![c] = next]
  BY Zenon DEF ReadFrame
<1>4. PICK next \in {Clean, Astray, decoder[c], Part(f.message.sequence)} :
          /\ Decode(c, f, messages, next)
          /\ completed' = [completed EXCEPT ![c] = @ \o messages]
          /\ decoder' = [decoder EXCEPT ![c] = next]
  BY <1>3
<1>5. completed'[c] = completed[c] \o messages /\ decoder'[c] = next
  BY <1>4 DEF TypeOK
<1>6. completed[c] \o <<>> = completed[c] /\ completed[c] \in Seq(Message)
  BY LinesType, ConcatEmptySeq
<1>7. \A m \in Message : completed[c] \o <<m>> = Append(completed[c], m)
  BY <1>6, AppendIsConcat
<1>8. Clean.holds # "part" /\ (Clean = Astray) = FALSE
  BY DEF Clean, Astray
<1>9. \/ messages = <<>> /\ next \in {decoder[c], Clean, Astray}
      \/ messages = <<>> /\ decoder[c] = Clean /\ ~f.whole /\ next = Part(f.message.sequence)
      \/ messages = <<f.message>> /\ decoder[c] = Clean /\ f.whole /\ next = Clean
      \/ /\ \E m \in Completions(decoder[c].sequence) : messages = <<m>>
         /\ decoder[c].holds = "part" /\ next \in {Clean, Astray}
  <2>1. CASE decoder[c] = Clean /\ f.whole
    BY <1>4, <1>8, <2>1 DEF Decode
  <2>2. CASE decoder[c] = Clean /\ ~f.whole
    BY <1>4, <1>8, <2>2 DEF Decode
  <2>3. CASE decoder[c].holds = "part"
    BY <1>4, <1>8, <2>3 DEF Decode
  <2>4. CASE decoder[c] # Clean /\ decoder[c].holds # "part"
    BY <1>4, <2>4 DEF Decode
  <2> QED
    BY <1>2, <2>1, <2>2, <2>3, <2>4
<1>10. ASSUME NEW m \in Completions(decoder[c].sequence), messages = <<m>>,
              decoder[c].holds = "part"
       PROVE  \/ completed'[c] = Append(completed[c], Garbled(decoder[c].sequence))
              \/ \E n \in Sequences : completed'[c] = Append(completed[c], Foreign(n))
  <2>1. m \in Message /\ (m = Garbled(decoder[c].sequence) \/ m = Foreign(m.sequence))
    BY <1>10, DecodeType
  <2>2. completed'[c] = Append(completed[c], m) /\ m.sequence \in Sequences
    BY <1>5, <1>7, <1>10, <2>1 DEF Message
  <2> QED
    BY <2>1, <2>2
<1> QED
  BY <1>1, <1>2, <1>5, <1>6, <1>7, <1>9, <1>10

(* What the worker has in hand after it completed a message. *)
LEMMA HandFacts ==
  ASSUME TypeOK, NEW c \in Clients, NEW m \in Message,
         completed'[c] = Append(completed[c], m)
  PROVE  /\ \A k \in 1..Len(completed'[c]) :
              completed'[c][k] = m
                \/ \E j \in 1..Len(completed[c]) : completed'[c][k] = completed[c][j]
         /\ InHand(c)' \subseteq InHand(c) \cup (IF m.t1 # Noise THEN {m.sequence} ELSE {})
         /\ Lost(c)' \subseteq Lost(c) \cup (IF m.t1 = None THEN {m.sequence} ELSE {})
<1>1. completed[c] \in Seq(Message) /\ Len(completed[c]) \in Nat
  BY LinesType
<1>2. /\ Len(completed'[c]) = Len(completed[c]) + 1
      /\ completed'[c][Len(completed[c]) + 1] = m
      /\ \A k \in 1..Len(completed[c]) : completed'[c][k] = completed[c][k]
  BY <1>1, AppendProperties
<1>3. \A k \in 1..Len(completed'[c]) :
        completed'[c][k] = m \/ \E j \in 1..Len(completed[c]) : completed'[c][k] = completed[c][j]
  BY <1>1, <1>2
<1>4. InHand(c)' \subseteq InHand(c) \cup (IF m.t1 # Noise THEN {m.sequence} ELSE {})
  <2>1. \A k \in 1..Len(completed'[c]) : completed'[c][k].t1 # Noise =>
          completed'[c][k].sequence \in InHand(c) \cup (IF m.t1 # Noise THEN {m.sequence} ELSE {})
    BY <1>3 DEF InHand
  <2> QED
    BY <2>1 DEF InHand
<1>5. Lost(c)' \subseteq Lost(c) \cup (IF m.t1 = None THEN {m.sequence} ELSE {})
  <2>1. \A k \in 1..Len(completed'[c]) : completed'[c][k].t1 = None =>
          completed'[c][k].sequence \in Lost(c) \cup (IF m.t1 = None THEN {m.sequence} ELSE {})
    BY <1>3 DEF Lost
  <2> QED
    BY <2>1 DEF Lost
<1> QED
  BY <1>3, <1>4, <1>5

(* Bytes with a foreign number leave the numbers in hand as they are.      *)
LEMMA ForeignFacts ==
  ASSUME TypeOK, NEW c \in Clients, NEW n \in Sequences,
         completed'[c] = Append(completed[c], Foreign(n))
  PROVE  /\ \A k \in 1..Len(completed'[c]) :
              completed'[c][k] = Foreign(completed'[c][k].sequence)
                \/ \E j \in 1..Len(completed[c]) : completed'[c][k] = completed[c][j]
         /\ InHand(c)' \subseteq InHand(c) /\ Lost(c)' \subseteq Lost(c)
<1> DEFINE m == Foreign(n)
<1>1. m \in Message /\ m.t1 = Noise /\ m.t1 # None /\ m = Foreign(m.sequence)
  BY CompletionFacts
<1> HIDE DEF m
<1>2. completed'[c] = Append(completed[c], m)
  BY DEF m
<1> QED
  BY <1>1, <1>2, HandFacts

(* The worker reads a frame: its number moves from the way back into the   *)
(* decoder or the worker's hands, and a garbled message is of a frame that *)
(* came before the one that garbled it.                                    *)
LEMMA ReadFrameKeeps ==
  ASSUME TypeOK, NEW c \in Clients, ReadFrame(c), DataInv(c)
  PROVE  /\ DataInv(c)' /\ Numbers(c)' \subseteq Numbers(c)
         /\ Returned(c)' \subseteq Returned(c) /\ Sent(c)' = Sent(c)
         /\ Head(responses[c]).message.sequence \in Returned(c)
         /\ Begun(c)' \subseteq Begun(c) \cup {Head(responses[c]).message.sequence}
         /\ \A s \in Returned(c)' \cup Sent(c)' :
              Ordinal(Head(responses[c]).message.sequence) < Ordinal(s)
<1> DEFINE f == Head(responses[c])
           n == Len(responses[c])
<1>1. /\ responses[c] # <<>> /\ responses'[c] = Tail(responses[c])
      /\ UNCHANGED <<clock, nextSequence, pendingSequence, asked, samples, requests>>
  BY ReadFrameFacts DEF protocolVars
<1>2. responses[c] \in Seq(Frame) /\ n \in Nat /\ n > 0 /\ f = responses[c][1] /\ f \in Frame
  BY <1>1, LinesType, HeadTailProperties
<1>3. /\ Len(responses'[c]) = n - 1
      /\ \A k \in 1..(n - 1) : responses'[c][k] = responses[c][k + 1]
  BY <1>1, <1>2, HeadTailProperties
<1>4. f.message \in Message /\ f.whole \in BOOLEAN
  BY <1>2 DEF Frame
<1>5. \/ completed'[c] = completed[c] /\ decoder'[c] \in {decoder[c], Clean, Astray}
      \/ completed'[c] = completed[c] /\ decoder'[c] = Part(f.message.sequence)
      \/ completed'[c] = Append(completed[c], f.message) /\ decoder'[c] = Clean
      \/ /\ completed'[c] = Append(completed[c], Garbled(decoder[c].sequence))
         /\ decoder[c].holds = "part" /\ decoder'[c] \in {Clean, Astray}
      \/ /\ \E k \in Sequences : completed'[c] = Append(completed[c], Foreign(k))
         /\ decoder'[c] \in {Clean, Astray}
  BY ReadFrameFacts
<1>6. /\ Genuine(c, f.message) /\ Visited(f.message) /\ f.message.sequence \in Returned(c)
  BY <1>2 DEF DataInv, Contents, Returned
<1>7. f.message.t1 # None
  <2>1. [sequence |-> f.message.sequence, t1 |-> f.message.t1].t1 \in Stamp
    BY <1>6, AskedType DEF Genuine
  <2> QED
    BY <2>1, MessageFacts
<1>8. Clean.holds # "part" /\ Astray.holds # "part"
      /\ \A s \in Sequences : Part(s).holds = "part" /\ Part(s).sequence = s
  BY DEF Clean, Astray, Part
<1>9. decoder[c].holds = "part" =>
        /\ Garbled(decoder[c].sequence) \in Message
        /\ Garbled(decoder[c].sequence).sequence = decoder[c].sequence
        /\ Garbled(decoder[c].sequence).t1 = None
        /\ Begun(c) = {decoder[c].sequence}
  BY DecodeType, CompletionFacts DEF Begun
<1> HIDE DEF f, n
<1>10. \A k \in 1..Len(completed'[c]) :
          completed'[c][k].t1 = None
            \/ completed'[c][k] = Foreign(completed'[c][k].sequence)
            \/ (Genuine(c, completed'[c][k]) /\ Visited(completed'[c][k]))
  <2>1. CASE completed'[c] = completed[c]
    BY <2>1 DEF DataInv, Contents
  <2>2. CASE completed'[c] = Append(completed[c], f.message)
    BY <2>2, <1>4, <1>6, HandFacts DEF DataInv, Contents
  <2>3. CASE completed'[c] = Append(completed[c], Garbled(decoder[c].sequence))
             /\ decoder[c].holds = "part"
    BY <2>3, <1>9, HandFacts DEF DataInv, Contents
  <2>4. ASSUME NEW k \in Sequences, completed'[c] = Append(completed[c], Foreign(k))
        PROVE  \A j \in 1..Len(completed'[c]) :
                 completed'[c][j].t1 = None
                   \/ completed'[c][j] = Foreign(completed'[c][j].sequence)
                   \/ (Genuine(c, completed'[c][j]) /\ Visited(completed'[c][j]))
    BY <2>4, ForeignFacts DEF DataInv, Contents
  <2> QED
    BY <1>5, <2>1, <2>2, <2>3, <2>4
<1>11. InHand(c)' \subseteq InHand(c) \cup Returned(c) \cup Begun(c)
       /\ Lost(c)' \subseteq Lost(c) \cup Begun(c)
  <2>1. CASE completed'[c] = completed[c]
    BY <2>1 DEF InHand, Lost
  <2>2. CASE completed'[c] = Append(completed[c], f.message)
    BY <2>2, <1>4, <1>6, <1>7, HandFacts
  <2>3. CASE completed'[c] = Append(completed[c], Garbled(decoder[c].sequence))
             /\ decoder[c].holds = "part"
    BY <2>3, <1>9, HandFacts
  <2>4. ASSUME NEW k \in Sequences, completed'[c] = Append(completed[c], Foreign(k))
        PROVE  InHand(c)' \subseteq InHand(c) /\ Lost(c)' \subseteq Lost(c)
    BY <2>4, ForeignFacts
  <2> QED
    BY <1>5, <2>1, <2>2, <2>3, <2>4
<1>12. Begun(c)' \subseteq Begun(c) \cup {f.message.sequence}
  <2>1. f.message.sequence \in Sequences
    BY <1>4 DEF Message
  <2> QED
    BY <1>5, <1>8, <2>1 DEF Begun
<1>13. /\ \A k \in 1..Len(responses'[c]) :
            k \in 1..n /\ k + 1 \in 1..n /\ responses'[c][k] = responses[c][k + 1]
       /\ 1 \in 1..n /\ f = responses[c][1]
  BY <1>2, <1>3
<1>14. Returned(c)' \subseteq Returned(c)
  <2>1. \A k \in 1..Len(responses'[c]) : responses'[c][k].message.sequence \in Returned(c)
    BY <1>13 DEF Returned, n
  <2> QED
    BY <2>1 DEF Returned
<1>15. Sent(c)' = Sent(c) /\ Sampled(c)' = Sampled(c)
  BY <1>1 DEF Sent, Sampled
<1>21. \A s \in Returned(c)' \cup Sent(c)' : Ordinal(f.message.sequence) < Ordinal(s)
  <2>1. \A k \in 1..Len(responses'[c]) :
          Ordinal(f.message.sequence) < Ordinal(responses'[c][k].message.sequence)
    <3> SUFFICES ASSUME NEW k \in 1..Len(responses'[c])
                 PROVE  Ordinal(f.message.sequence) < Ordinal(responses'[c][k].message.sequence)
      OBVIOUS
    <3>1. 1 \in 1..n /\ k + 1 \in 1..n /\ 1 < k + 1
      BY <1>13
    <3>2. Ordinal(responses[c][1].message.sequence) < Ordinal(responses[c][k + 1].message.sequence)
      BY <3>1 DEF DataInv, Rising, n
    <3> QED
      BY <3>2, <1>13
  <2>2. \A s \in Returned(c)' : Ordinal(f.message.sequence) < Ordinal(s)
    BY <2>1 DEF Returned
  <2>3. \A s \in Sent(c) : Ordinal(f.message.sequence) < Ordinal(s)
    BY <1>6 DEF DataInv, Rising
  <2> QED
    BY <2>2, <2>3, <1>15
<1>16. Numbers(c)' \subseteq Numbers(c)
  BY <1>6, <1>11, <1>12, <1>14, <1>15 DEF Numbers
<1>17. Numbering(c)' /\ Below(c, nextSequence[c])'
  BY <1>1, <1>16 DEF DataInv, Numbering, Below
<1>18. Contents(c)'
  <2>1. \A k \in 1..Len(responses'[c]) :
          Genuine(c, responses'[c][k].message) /\ Visited(responses'[c][k].message)
    BY <1>13 DEF DataInv, Contents, n
  <2> QED
    BY <2>1, <1>1, <1>10 DEF DataInv, Contents, Genuine, Visited
<1>19. Rising(c)'
  <2>1. \A j, k \in 1..Len(responses'[c]) : j < k =>
          Ordinal(responses'[c][j].message.sequence) < Ordinal(responses'[c][k].message.sequence)
    <3> SUFFICES ASSUME NEW j \in 1..Len(responses'[c]), NEW k \in 1..Len(responses'[c]), j < k
                 PROVE  Ordinal(responses'[c][j].message.sequence)
                          < Ordinal(responses'[c][k].message.sequence)
      OBVIOUS
    <3>1. j + 1 \in 1..n /\ k + 1 \in 1..n /\ j + 1 < k + 1
      BY <1>13
    <3>2. responses'[c][j] = responses[c][j + 1] /\ responses'[c][k] = responses[c][k + 1]
      BY <1>13
    <3>3. Ordinal(responses[c][j + 1].message.sequence) < Ordinal(responses[c][k + 1].message.sequence)
      BY <3>1 DEF DataInv, Rising, n
    <3> QED
      BY <3>2, <3>3
  <2>4. \A b \in Begun(c)', s \in Returned(c)' \cup Sent(c)' : Ordinal(b) < Ordinal(s)
    BY <1>12, <1>14, <1>15, <1>21 DEF DataInv, Rising
  <2>5. \A r \in Returned(c)', s \in Sent(c)' : Ordinal(r) < Ordinal(s)
    BY <1>14, <1>15 DEF DataInv, Rising
  <2> QED
    BY <1>1, <2>1, <2>4, <2>5 DEF DataInv, Rising, Ordinal
<1>20. Awaited(c)'
  <2> SUFFICES ASSUME pendingSequence[c] # 0
               PROVE  /\ \A s \in Sent(c)' \cup Returned(c)' : Ordinal(s) =< pendingSequence[c]
                      /\ \A s \in Lost(c)' \cup Sampled(c)' : Ordinal(s) < pendingSequence[c]
    BY <1>1 DEF Awaited, Ordinal
  <2>1. \A b \in Begun(c) : Ordinal(b) < Ordinal(f.message.sequence)
    BY <1>6 DEF DataInv, Rising
  <2>2. Ordinal(f.message.sequence) =< pendingSequence[c]
    BY <1>6 DEF DataInv, Awaited
  <2>3. pendingSequence[c] \in Nat /\ Ordinal(f.message.sequence) \in Nat
        /\ \A b \in Begun(c) : Ordinal(b) \in Nat
    BY <1>4, AskedType, NumbersType, OrdinalType DEF Numbers, Sequences, Message
  <2>4. \A b \in Begun(c) : Ordinal(b) < pendingSequence[c]
    BY <2>1, <2>2, <2>3
  <2> QED
    BY <2>4, <1>11, <1>14, <1>15 DEF DataInv, Awaited
<1> QED
  BY <1>6, <1>12, <1>14, <1>15, <1>16, <1>17, <1>18, <1>19, <1>20, <1>21 DEF DataInv, f

(* A stream that is out of step is given up: what is left are messages in  *)
(* the worker's hands, perhaps a garbled last one, and nothing pending.    *)
LEMMA RejectKeeps ==
  ASSUME TypeOK, NEW c \in Clients, Reject(c), DataInv(c)
  PROVE  /\ DataInv(c)' /\ Numbers(c)' \subseteq Numbers(c)
         /\ Sent(c)' = {} /\ Returned(c)' = {} /\ Begun(c)' = {}
         /\ \/ completed'[c] = completed[c]
            \/ /\ decoder[c].holds = "part" /\ Begun(c) = {decoder[c].sequence}
               /\ completed'[c] = Append(completed[c], Garbled(decoder[c].sequence))
            \/ \E n \in Sequences : completed'[c] = Append(completed[c], Foreign(n))
<1>1. c \in Devices
  BY ThreadFacts
<1>2. UNCHANGED <<clock, nextSequence, asked, samples>>
  BY DEF Reject
<1>3. /\ requests'[c] = <<>> /\ responses'[c] = <<>> /\ decoder'[c] = Clean
      /\ pendingSequence'[c] = 0
  BY <1>1 DEF Reject, Stop, ResetDecoder, SetPending, TypeOK, ProtocolTypeOK
<1>4. \/ completed'[c] = completed[c]
      \/ /\ decoder[c].holds = "part"
         /\ completed'[c] = Append(completed[c], Garbled(decoder[c].sequence))
      \/ \E n \in Sequences : completed'[c] = Append(completed[c], Foreign(n))
  <2>1. ASSUME decoder[c].holds = "part", NEW m \in Completions(decoder[c].sequence),
               completed' = [completed EXCEPT ![c] = Append(@, m)]
        PROVE  \/ completed'[c] = Append(completed[c], Garbled(decoder[c].sequence))
               \/ \E n \in Sequences : completed'[c] = Append(completed[c], Foreign(n))
    <3>1. /\ m \in Message /\ m.sequence \in Sequences
          /\ m = Garbled(decoder[c].sequence) \/ m = Foreign(m.sequence)
      BY <2>1, DecodeType DEF Message
    <3>2. completed'[c] = Append(completed[c], m)
      BY <2>1 DEF TypeOK
    <3> QED
      BY <3>1, <3>2
  <2> QED
    BY <2>1 DEF Reject
<1>5. decoder[c].holds = "part" =>
        /\ Garbled(decoder[c].sequence) \in Message
        /\ Garbled(decoder[c].sequence).sequence = decoder[c].sequence
        /\ Garbled(decoder[c].sequence).t1 = None
        /\ Begun(c) = {decoder[c].sequence}
  BY DecodeType, CompletionFacts DEF Begun
<1>6. /\ \A k \in 1..Len(completed'[c]) :
           completed'[c][k].t1 = None
             \/ completed'[c][k] = Foreign(completed'[c][k].sequence)
             \/ (Genuine(c, completed'[c][k]) /\ Visited(completed'[c][k]))
      /\ InHand(c)' \subseteq InHand(c) \cup Begun(c)
  <2>1. CASE completed'[c] = completed[c]
    BY <2>1 DEF DataInv, Contents, InHand
  <2>2. CASE /\ decoder[c].holds = "part"
             /\ completed'[c] = Append(completed[c], Garbled(decoder[c].sequence))
    BY <2>2, <1>5, HandFacts DEF DataInv, Contents
  <2>3. ASSUME NEW n \in Sequences, completed'[c] = Append(completed[c], Foreign(n))
        PROVE  /\ \A k \in 1..Len(completed'[c]) :
                    completed'[c][k].t1 = None
                      \/ completed'[c][k] = Foreign(completed'[c][k].sequence)
                      \/ (Genuine(c, completed'[c][k]) /\ Visited(completed'[c][k]))
               /\ InHand(c)' \subseteq InHand(c)
    BY <2>3, ForeignFacts DEF DataInv, Contents
  <2> QED
    BY <1>4, <2>1, <2>2, <2>3
<1>7. /\ Sent(c)' = {} /\ Returned(c)' = {} /\ Begun(c)' = {}
      /\ Sampled(c)' = Sampled(c)
  BY <1>2, <1>3 DEF Sent, Returned, Begun, Sampled, Clean
<1>8. Numbers(c)' \subseteq Numbers(c)
  BY <1>6, <1>7 DEF Numbers
<1>9. Numbering(c)' /\ Below(c, nextSequence[c])'
  BY <1>2, <1>8 DEF DataInv, Numbering, Below
<1>10. Contents(c)'
  <2>1. 1..Len(requests'[c]) = {} /\ 1..Len(responses'[c]) = {}
    BY <1>3
  <2>2. (\A k \in 1..Len(requests[c]) : Genuine(c, requests[c][k]))'
    BY <2>1
  <2>3. (\A k \in 1..Len(responses[c]) :
           Genuine(c, responses[c][k].message) /\ Visited(responses[c][k].message))'
    BY <2>1
  <2>4. (\A k \in 1..Len(completed[c]) :
           \/ completed[c][k].t1 = None
           \/ completed[c][k] = Foreign(completed[c][k].sequence)
           \/ Genuine(c, completed[c][k]) /\ Visited(completed[c][k]))'
    BY <1>2, <1>6 DEF Genuine, Visited
  <2> QED
    BY <2>2, <2>3, <2>4 DEF Contents
<1>11. Rising(c)'
  BY <1>3, <1>7 DEF Rising
<1>12. Awaited(c)'
  BY <1>3 DEF Awaited
<1> QED
  BY <1>4, <1>5, <1>7, <1>8, <1>9, <1>10, <1>11, <1>12 DEF DataInv

(* The server answers requests in their order, each at most once: their    *)
(* numbers move from the way to it to the way back, behind those that are  *)
(* there already.                                                          *)
LEMMA AnswerRequestsKeeps ==
  ASSUME TypeOK, NEW c \in Clients, NEW i \in Slots, slots[i] = c, AnswerRequests(i), DataInv(c)
  PROVE  /\ DataInv(c)' /\ Numbers(c)' \subseteq Numbers(c)
         /\ Sent(c)' \subseteq Sent(c) /\ Returned(c)' \subseteq Returned(c) \cup Sent(c)
         /\ Begun(c)' = Begun(c) /\ completed'[c] = completed[c]
<1>1. c \in Devices /\ c # Server
  BY ThreadFacts, CarrierAssumption
<1>2. UNCHANGED <<nextSequence, pendingSequence, asked, samples, completed, decoder>>
  BY DEF AnswerRequests, client
<1>3. clock'[c] = clock[c]
  BY <1>1, AnswerRequestsFacts
<1>4. PICK n, written, frames :
        /\ Answered(c, n, written, frames)
        /\ requests' = [requests EXCEPT ![c] = SubSeq(@, n + 1, Len(@))]
        /\ responses' = [responses EXCEPT ![c] = @ \o frames]
  <2>1. PICK n, written, frames :
          /\ Answered(slots[i], n, written, frames)
          /\ requests' = [requests EXCEPT ![slots[i]] = SubSeq(@, n + 1, Len(@))]
          /\ responses' = [responses EXCEPT ![slots[i]] = @ \o frames]
          /\ spoiled' = [spoiled EXCEPT ![slots[i]] =
                           @ \/ \E j \in 1..Len(frames) : ~frames[j].whole]
    BY AnswerRequestsFacts
  <2> QED
    BY <2>1
<1> DEFINE old == requests[c]
           back == responses[c]
           rest == requests'[c]
           now == responses'[c]
<1>5. /\ rest = SubSeq(old, n + 1, Len(old)) /\ now = back \o frames
      /\ old \in Seq(Message) /\ back \in Seq(Frame)
      /\ Len(old) \in Nat /\ Len(back) \in Nat
  BY <1>4, LinesType DEF TypeOK
<1>6. /\ n \in 1..Len(old) /\ frames \in Seq(Frame) /\ Len(frames) \in Nat
      /\ written \in [1..Len(frames) -> 1..n]
  BY <1>4 DEF Answered
<1>7. /\ Len(rest) = Len(old) - n
      /\ \A k \in 1..Len(rest) : rest[k] = old[n + k]
  <2>1. n + 1 \in 1..(Len(old) + 1) /\ Len(old) \in n..Len(old)
    BY <1>5, <1>6
  <2>2. \A k \in 1..Len(old) - n : n + 1 + k - 1 = n + k
    BY <1>5, <1>6
  <2> QED
    BY <2>1, <2>2, <1>5, <1>6, SubSeqProperties, SMTT(30)
<1>8. /\ Len(now) = Len(back) + Len(frames)
      /\ \A k \in 1..Len(back) : now[k] = back[k]
      /\ \A k \in (Len(back) + 1)..Len(now) : now[k] = frames[k - Len(back)]
  BY <1>5, <1>6, ConcatProperties
<1> DEFINE O(k) == Ordinal(old[k].sequence)
           N(k) == Ordinal(now[k].message.sequence)
           W(k) == written[k - Len(back)]
<1>9. \A k \in (Len(back) + 1)..Len(now) :
        /\ W(k) \in 1..n /\ W(k) \in 1..Len(old)
        /\ now[k].message.sequence = old[W(k)].sequence
        /\ now[k].message.t1 = old[W(k)].t1
        /\ Visited(now[k].message)
  <2> SUFFICES ASSUME NEW k \in (Len(back) + 1)..Len(now)
               PROVE  /\ W(k) \in 1..n /\ W(k) \in 1..Len(old)
                      /\ now[k].message.sequence = old[W(k)].sequence
                      /\ now[k].message.t1 = old[W(k)].t1
                      /\ Visited(now[k].message)
    OBVIOUS
  <2> DEFINE j == k - Len(back)
  <2>1. j \in 1..Len(frames) /\ now[k] = frames[j]
    BY <1>5, <1>6, <1>8, SMTT(30)
  <2>2. W(k) = written[j]
    OBVIOUS
  <2> HIDE DEF j, W
  <2>3. W(k) \in 1..n /\ W(k) \in 1..Len(old)
    <3>1. W(k) \in 1..n
      BY <1>6, <2>1, <2>2
    <3>2. \A x \in 1..n : x \in 1..Len(old)
      BY <1>5, <1>6
    <3> QED
      BY <3>1, <3>2
  <2>4. /\ Visited(frames[j].message)
        /\ frames[j].message.sequence = old[written[j]].sequence
        /\ frames[j].message.t1 = old[written[j]].t1
    BY <1>4, <2>1 DEF Answered
  <2> HIDE DEF now, old, back
  <2> QED
    BY <2>1, <2>2, <2>3, <2>4
<1>10. \A j, k \in (Len(back) + 1)..Len(now) : j < k => W(j) < W(k)
  <2> SUFFICES ASSUME NEW j \in (Len(back) + 1)..Len(now), NEW k \in (Len(back) + 1)..Len(now), j < k
               PROVE  W(j) < W(k)
    OBVIOUS
  <2> DEFINE x == j - Len(back)
             y == k - Len(back)
  <2>1. x \in 1..Len(frames) /\ y \in 1..Len(frames) /\ x < y
    BY <1>5, <1>6, <1>8
  <2>2. W(j) = written[x] /\ W(k) = written[y]
    OBVIOUS
  <2> HIDE DEF x, y, W
  <2> QED
    BY <1>4, <2>1, <2>2 DEF Answered
<1> HIDE DEF W
<1>11. \A j, k \in 1..Len(old) : j < k => O(j) < O(k)
  BY DEF DataInv, Rising
<1>12. /\ \A k \in 1..Len(old) : old[k].sequence \in Sent(c)
       /\ \A k \in 1..Len(back) : back[k].message.sequence \in Returned(c)
  BY DEF Sent, Returned
<1>13. \A k \in 1..Len(rest) : n + k \in 1..Len(old)
  BY <1>5, <1>6, <1>7
<1>14. Sent(c)' \subseteq Sent(c)
  <2>1. \A k \in 1..Len(rest) : rest[k].sequence \in Sent(c)
    BY <1>7, <1>12, <1>13
  <2> QED
    BY <2>1 DEF Sent
<1>15. \A k \in 1..Len(now) : k \in 1..Len(back) \/ k \in (Len(back) + 1)..Len(now)
  BY <1>5, <1>8
<1>16. Returned(c)' \subseteq Returned(c) \cup Sent(c)
  <2>1. \A k \in 1..Len(now) : now[k].message.sequence \in Returned(c) \cup Sent(c)
    <3>1. \A k \in 1..Len(back) : now[k].message.sequence \in Returned(c)
      BY <1>8, <1>12
    <3>2. \A k \in (Len(back) + 1)..Len(now) : now[k].message.sequence \in Sent(c)
      BY <1>9, <1>12
    <3> QED
      BY <3>1, <3>2, <1>15
  <2> QED
    BY <2>1 DEF Returned
<1>17. /\ Begun(c)' = Begun(c) /\ InHand(c)' = InHand(c) /\ Lost(c)' = Lost(c)
       /\ Sampled(c)' = Sampled(c)
  BY <1>2 DEF Begun, InHand, Lost, Sampled
<1>18. Numbers(c)' \subseteq Numbers(c)
  BY <1>14, <1>16, <1>17 DEF Numbers
<1>19. Numbering(c)' /\ Below(c, nextSequence[c])'
  BY <1>2, <1>3, <1>18 DEF DataInv, Numbering, Below
<1>20. Awaited(c)'
  BY <1>2, <1>14, <1>16, <1>17 DEF DataInv, Awaited
<1>21. Contents(c)'
  <2>1. \A k \in 1..Len(rest) : Genuine(c, rest[k])
    BY <1>7, <1>13 DEF DataInv, Contents
  <2>2. \A k \in 1..Len(now) : Genuine(c, now[k].message) /\ Visited(now[k].message)
    <3>1. \A k \in 1..Len(back) : Genuine(c, now[k].message) /\ Visited(now[k].message)
      BY <1>8 DEF DataInv, Contents
    <3>2. \A k \in (Len(back) + 1)..Len(now) : Genuine(c, now[k].message) /\ Visited(now[k].message)
      BY <1>9, SMTT(60) DEF DataInv, Contents, Genuine
    <3> QED
      BY <3>1, <3>2, <1>15
  <2> QED
    BY <2>1, <2>2, <1>2, ZenonT(60) DEF DataInv, Contents, Genuine, Visited
<1>22. \A j, k \in 1..Len(rest) :
         j < k => Ordinal(rest[j].sequence) < Ordinal(rest[k].sequence)
  <2> SUFFICES ASSUME NEW j \in 1..Len(rest), NEW k \in 1..Len(rest), j < k
               PROVE  Ordinal(rest[j].sequence) < Ordinal(rest[k].sequence)
    OBVIOUS
  <2>1. n + j < n + k
    BY <1>6
  <2> QED
    BY <2>1, <1>7, <1>11, <1>13
<1>23. \A j, k \in 1..Len(now) : j < k => N(j) < N(k)
  <2> SUFFICES ASSUME NEW j \in 1..Len(now), NEW k \in 1..Len(now), j < k
               PROVE  N(j) < N(k)
    OBVIOUS
  <2>1. CASE j \in 1..Len(back) /\ k \in 1..Len(back)
    BY <2>1, <1>8 DEF DataInv, Rising
  <2>2. CASE j \in 1..Len(back) /\ k \in (Len(back) + 1)..Len(now)
    <3>1. now[j].message.sequence \in Returned(c) /\ now[k].message.sequence \in Sent(c)
      BY <2>2, <1>8, <1>9, <1>12
    <3> QED
      BY <3>1 DEF DataInv, Rising
  <2>3. CASE j \in (Len(back) + 1)..Len(now) /\ k \in (Len(back) + 1)..Len(now)
    BY <2>3, <1>9, <1>10, <1>11
  <2>4. ~(j \in (Len(back) + 1)..Len(now) /\ k \in 1..Len(back))
    BY <1>5
  <2> QED
    BY <1>15, <2>1, <2>2, <2>3, <2>4
<1>24. \A r \in Returned(c)', s \in Sent(c)' : Ordinal(r) < Ordinal(s)
  <2>1. \A j \in 1..Len(now), k \in 1..Len(rest) : N(j) < Ordinal(rest[k].sequence)
    <3> SUFFICES ASSUME NEW j \in 1..Len(now), NEW k \in 1..Len(rest)
                 PROVE  N(j) < Ordinal(rest[k].sequence)
      OBVIOUS
    <3>1. CASE j \in 1..Len(back)
      <4>1. now[j].message.sequence \in Returned(c) /\ rest[k].sequence \in Sent(c)
        BY <3>1, <1>7, <1>8, <1>12, <1>13
      <4> QED
        BY <4>1 DEF DataInv, Rising
    <3>2. CASE j \in (Len(back) + 1)..Len(now)
      <4>1. W(j) < n + k
        <5>1. W(j) \in 1..n
          BY <3>2, <1>9
        <5>2. Len(old) - n \in Int /\ n \in Int
          BY <1>5, <1>6
        <5>3. k \in Int /\ 1 =< k
          BY <1>7, <5>2
        <5> QED
          BY <5>1, <5>2, <5>3
      <4> QED
        BY <4>1, <3>2, <1>7, <1>9, <1>11, <1>13
    <3> QED
      BY <3>1, <3>2, <1>15
  <2> QED
    BY <2>1 DEF Returned, Sent
<1>25. Rising(c)'
  BY <1>14, <1>16, <1>17, <1>22, <1>23, <1>24 DEF DataInv, Rising, Ordinal
<1> QED
  BY <1>2, <1>14, <1>16, <1>17, <1>18, <1>19, <1>20, <1>21, <1>25 DEF DataInv

\* The steps that put a number on its way.
NumbersGrow(c) == \E t \in Threads : t[1] = c /\ (BuildRequest(t) \/ SendMessage(t))

(* What the invariant says of a client's messages outlives every step.     *)
LEMMA DataStep ==
  ASSUME TypeOK, TypeOK', NEW c \in Clients, [Next]_vars, DataInv(c), Accepting(c),
         \A t \in Threads : Sending(t)
  PROVE  DataInv(c)' /\ (Numbers(c)' \subseteq Numbers(c) \/ NumbersGrow(c))
<1>1. CASE Shrinks(c)
  BY <1>1, ShrinkKeeps, ShrinkNumbers DEF DataInv
<1>2. ASSUME NEW t \in Threads, t[1] = c, BuildRequest(t)
      PROVE  DataInv(c)' /\ NumbersGrow(c)
  <2>1. DataInv(c)'
    BY <1>2, BuildRequestKeeps
  <2> QED
    BY <1>2, <2>1 DEF NumbersGrow
<1>3. ASSUME NEW t \in Threads, t[1] = c, StorePending(t)
      PROVE  DataInv(c)' /\ Numbers(c)' \subseteq Numbers(c)
  BY <1>3, StorePendingKeeps
<1>4. ASSUME NEW t \in Threads, t[1] = c, SendMessage(t)
      PROVE  DataInv(c)' /\ NumbersGrow(c)
  <2>1. DataInv(c)'
    BY <1>4, SendMessageKeeps
  <2> QED
    BY <1>4, <2>1 DEF NumbersGrow
<1>5. CASE ReadFrame(c)
  BY <1>5, ReadFrameKeeps
<1>6. CASE Reject(c)
  BY <1>6, RejectKeeps
<1>7. CASE AcceptResponse(c)
  BY <1>7, AcceptResponseKeeps
<1>8. ASSUME NEW i \in Slots, slots[i] = c, AnswerRequests(i)
      PROVE  DataInv(c)' /\ Numbers(c)' \subseteq Numbers(c)
  BY <1>8, AnswerRequestsKeeps
<1>9. CASE Grows(c)
  BY <1>2, <1>3, <1>4, <1>5, <1>6, <1>7, <1>8, <1>9 DEF Grows
<1> QED
  BY <1>1, <1>9, ShrinksOrGrows

-----------------------------------------------------------------------------
\* A step that leaves a client's threads where they are.
Quiet(c) ==
  /\ \A w \in {"worker", "app"} : pc'[<<c, w>>] = pc[<<c, w>>]
  /\ mutex'[c] = mutex[c] /\ request'[c] = request[c] /\ latest'[c] = latest[c]
  /\ pendingSequence'[c] \in {pendingSequence[c], 0}
  /\ asked'[c] = asked[c] /\ samples'[c] = samples[c]
  /\ completed'[c] = completed[c] /\ received'[c] = received[c]

(* A thread of another client does nothing to these. *)
LEMMA OtherClient ==
  ASSUME TypeOK, NEW c \in Clients, NEW d \in Clients, d # c,
         Iterate(d) \/ \E t \in Threads : t[1] = d /\ RequestSynchronization(t)
  PROVE  Quiet(c)
<1>1. c \in Devices /\ d \in Devices
  BY ThreadFacts
<1>2. \A w \in {"worker", "app"} : <<c, w>> \in Threads /\ <<c, w>> # Worker(d)
        /\ \A t \in Threads : t[1] = d => <<c, w>> # t
  BY DEF Threads, Worker
<1>3. ASSUME NEW t \in Threads, t[1] = d, RequestSynchronization(t)
      PROVE  Quiet(c)
  <2>1. \A w \in {"worker", "app"} : pc'[<<c, w>>] = pc[<<c, w>>]
    BY <1>2, <1>3, ZenonT(60) DEF RequestSynchronization, Reconnect, Reopen, EnterRequest, GiveUp, BuildRequest,
                      StorePending, SendMessage, SendFails, Goto, TypeOK
  <2>2. mutex'[c] = mutex[c] /\ request'[c] = request[c] /\ latest'[c] = latest[c]
    BY <1>3 DEF RequestSynchronization, Reconnect, Reopen, EnterRequest, GiveUp, BuildRequest,
                StorePending, SendMessage, SendFails, Lock, Unlock, history, TypeOK
  <2>3. pendingSequence'[c] = pendingSequence[c] /\ asked'[c] = asked[c] /\ samples'[c] = samples[c]
    BY <1>1, <1>3 DEF RequestSynchronization, Reconnect, Reopen, EnterRequest, GiveUp, BuildRequest,
                      StorePending, SendMessage, SendFails, SetPending, NumberRequest, protocolVars,
                      TypeOK, ProtocolTypeOK
  <2>4. completed'[c] = completed[c] /\ received'[c] = received[c]
    BY <1>3 DEF RequestSynchronization, Reconnect, Reopen, EnterRequest, GiveUp, BuildRequest,
                StorePending, SendMessage, SendFails
  <2> QED
    BY <2>1, <2>2, <2>3, <2>4 DEF Quiet
<1>4. CASE Iterate(d)
  <2>1. \A w \in {"worker", "app"} : pc'[<<c, w>>] = pc[<<c, w>>]
    BY <1>2, <1>4, ZenonT(60) DEF Iterate, BeginRead, ReadFrame, Reject, EndRead, HandleMessage, AcceptResponse,
                      Goto, TypeOK
  <2>2. mutex'[c] = mutex[c] /\ request'[c] = request[c] /\ latest'[c] = latest[c]
    <3>1. Worker(d)[1] = d /\ Worker(d)[2] = "worker"
      BY ThreadFacts
    <3> QED
      BY <1>4, <3>1, ZenonT(60) DEF Iterate, BeginRead, ReadFrame, Reject, EndRead, HandleMessage,
                        AcceptResponse, Lock, Unlock, history, TypeOK
  <2>3. pendingSequence'[c] = pendingSequence[c] /\ asked'[c] = asked[c] /\ samples'[c] = samples[c]
    BY <1>1, <1>4, ZenonT(60) DEF Iterate, BeginRead, ReadFrame, Reject, EndRead, HandleMessage, AcceptResponse,
                      SetPending, Accept, Submit, protocolVars, TypeOK, ProtocolTypeOK
  <2>4. completed'[c] = completed[c] /\ received'[c] = received[c]
    BY <1>4, Zenon DEF Iterate, BeginRead, ReadFrame, Reject, EndRead, HandleMessage, AcceptResponse, TypeOK
  <2> QED
    BY <2>1, <2>2, <2>3, <2>4, SMTT(30) DEF Quiet
<1> QED
  BY <1>3, <1>4

(* A step leaves a client's threads alone, or is one of theirs. *)
LEMMA ControlStep ==
  ASSUME TypeOK, NEW c \in Clients, [Next]_vars
  PROVE  \/ Quiet(c) \/ Iterate(c)
         \/ \E t \in Threads : t[1] = c /\ RequestSynchronization(t)
<1>1. c \in Devices
  BY ThreadFacts
<1>2. ASSUME NEW t \in Threads, RequestSynchronization(t), t[1] # c
      PROVE  Quiet(c)
  BY <1>2, OtherClient, ThreadFacts
<1>3. ASSUME NEW d \in Clients, Iterate(d), d # c
      PROVE  Quiet(c)
  BY <1>3, OtherClient
<1>4. ASSUME NEW d \in Clients, Shutdown(d) \/ Initialize(d) \/ Drop(d)
      PROVE  Quiet(c)
  BY <1>1, <1>4, SMTT(30) DEF Shutdown, Initialize, Drop, Quiet, SetPending, protocolVars, client, history,
                    TypeOK, ProtocolTypeOK
<1>5. CASE Serve \/ RestartServer \/ UNCHANGED vars
  BY <1>5, Zenon DEF Serve, RefuseClient, AcceptClient, ReapClient, AnswerRequests, RestartServer, Quiet,
              vars, protocolVars, client, history
<1> QED
  BY <1>2, <1>3, <1>4, <1>5 DEF Next

Holding(t) == pc[t] \in {"publish", "send", "read"}

(* Only the thread that holds a client's mutex is inside the section that  *)
(* it guards.                                                              *)
LEMMA OneHolds ==
  ASSUME NEW u \in Threads, Sending(u)
  PROVE  /\ mutex[u[1]] = None => ~Holding(u)
         /\ \A t \in Threads : t[1] = u[1] /\ t # u /\ mutex[u[1]] = t[2] => ~Holding(u)
<1>1. \A t \in Threads : t[1] = u[1] /\ t # u => t[2] # u[2]
  BY ThreadFacts
<1>2. u[2] # None
  BY ThreadFacts, CarrierAssumption
<1> QED
  BY <1>1, <1>2 DEF Sending, Holding

(* A thread that nothing happens to, or that is outside.                   *)
LEMMA SendingStays ==
  ASSUME TypeOK, NEW u \in Threads, NEW c, c = u[1], Sending(u),
         pc'[u] = pc[u], mutex'[c] = mutex[c], request'[c] = request[c], latest'[c] = latest[c],
         pendingSequence'[c] \in {pendingSequence[c], 0}, asked[c] \subseteq asked'[c],
         Holding(u) => Numbers(c)' \subseteq Numbers(c)
  PROVE  Sending(u)'
<1>1. Below(c, Ordinal(latest[c])) /\ Numbers(c)' \subseteq Numbers(c)
        => \A s \in Numbers(c)' : Ordinal(s) < Ordinal(latest[c])
  BY DEF Below
<1>2. CASE Holding(u)
  BY <1>1, <1>2 DEF Sending, Below, Genuine, Holding, Ordinal
<1>3. CASE ~Holding(u)
  BY <1>3 DEF Sending, Holding
<1> QED
  BY <1>2, <1>3

(* A thread outside the section relies on nothing.                         *)
LEMMA SendingOutside ==
  ASSUME NEW u \in Threads, ~Holding(u)'
  PROVE  Sending(u)'
BY DEF Sending, Holding

(* No other thread gives numbers or sends while one holds the mutex.       *)
LEMMA HolderAlone ==
  ASSUME NEW c \in Clients, NEW u \in Threads, u[1] = c, Holding(u),
         \A t \in Threads : Sending(t), NumbersGrow(c)
  PROVE  pc[u] = "send" /\ SendMessage(u)
<1>1. PICK t \in Threads : t[1] = c /\ (BuildRequest(t) \/ SendMessage(t))
  BY DEF NumbersGrow
<1>2. ~BuildRequest(t)
  BY <1>1, OneHolds DEF BuildRequest, Lock
<1>3. mutex[c] = t[2] /\ pc[t] = "send"
  BY <1>1, <1>2 DEF SendMessage, Sending
<1>4. t = u
  BY <1>1, <1>3, OneHolds
<1> QED
  BY <1>1, <1>2, <1>3, <1>4

(* What a thread that sends a request relies on outlives every step.       *)
LEMMA SendingStep ==
  ASSUME TypeOK, TypeOK', NEW u \in Threads, [Next]_vars,
         \A t \in Threads : Sending(t), \A c \in Clients : DataInv(c) /\ Accepting(c)
  PROVE  Sending(u)'
<1> DEFINE c == u[1]
<1>1. c \in Clients /\ c \in Devices /\ u = <<c, u[2]>> /\ u[2] \in {"worker", "app"}
  BY ThreadFacts
<1>2. Numbers(c)' \subseteq Numbers(c) \/ NumbersGrow(c)
  BY <1>1, DataStep
<1>3. Sending(u)
  OBVIOUS
<1> HIDE DEF c
<1>c. c = u[1]
  BY DEF c
<1>4. CASE Quiet(c)
  <2>1. pc'[u] = pc[u]
    BY <1>1, <1>4 DEF Quiet
  <2>2. Holding(u) => Numbers(c)' \subseteq Numbers(c)
    <3> SUFFICES ASSUME Holding(u) PROVE ~NumbersGrow(c)
      BY <1>2
    <3>1. NumbersGrow(c) => pc[u] = "send" /\ SendMessage(u)
      BY <1>1, <1>c, HolderAlone
    <3>2. SendMessage(u) => pc'[u] = "idle"
      BY DEF SendMessage, Goto, TypeOK
    <3> QED
      BY <2>1, <3>1, <3>2
  <2> QED
    BY <1>3, <1>4, <1>c, <2>1, <2>2, SendingStays DEF Quiet
<1>5. ASSUME NEW t \in Threads, t[1] = c, RequestSynchronization(t)
      PROVE  Sending(u)'
  <2>1. Holding(t) => t = u \/ ~Holding(u)
    BY <1>5, <1>c, OneHolds DEF Sending, Holding
  <2>2. CASE BuildRequest(t)
    <3>1. mutex[c] = None /\ mutex'[c] = t[2] /\ pc' = [pc EXCEPT ![t] = "publish"]
      BY <1>1, <1>5, <2>2 DEF BuildRequest, Lock, Goto, TypeOK
    <3>2. ~Holding(u)
      BY <1>c, <3>1, OneHolds
    <3>3. CASE u # t
      BY <3>1, <3>2, <3>3, SendingOutside DEF Holding, TypeOK
    <3>4. CASE u = t
      <4>1. /\ request'[c].sequence = latest'[c] /\ Genuine(c, request[c])'
            /\ Below(c, Ordinal(latest[c]))'
        BY <1>1, <1>5, <2>2, BuildRequestKeeps
      <4>2. pc'[u] = "publish"
        BY <3>1, <3>4 DEF TypeOK
      <4>3. u[1] = c /\ mutex'[c] = u[2]
        BY <1>c, <3>1, <3>4
      <4> QED
        BY <4>1, <4>2, <4>3 DEF Sending
    <3> QED
      BY <3>3, <3>4
  <2>3. CASE StorePending(t)
    <3>1. pc[t] = "publish" /\ pc' = [pc EXCEPT ![t] = "send"] /\ Holding(t)
      BY <2>3 DEF StorePending, Goto, Holding
    <3>2. CASE u # t
      <4>1. ~Holding(u)
        BY <2>1, <3>1, <3>2
      <4> QED
        BY <3>1, <3>2, <4>1, SendingOutside DEF Holding, TypeOK
    <3>3. CASE u = t
      <4>1. Numbers(c)' \subseteq Numbers(c)
        BY <1>1, <1>5, <2>3, StorePendingKeeps
      <4>2. UNCHANGED <<mutex, request, latest, asked>>
        BY <2>3 DEF StorePending, history
      <4>3. pendingSequence'[c] = request[c].sequence
        BY <1>1, <1>5, <2>3 DEF StorePending, SetPending, TypeOK, ProtocolTypeOK
      <4>4. /\ mutex[c] = u[2] /\ request[c].sequence = latest[c]
            /\ Genuine(c, request[c]) /\ Below(c, Ordinal(latest[c]))
        BY <1>3, <1>c, <3>1, <3>3 DEF Sending
      <4>5. Below(c, Ordinal(latest[c]))' /\ Genuine(c, request[c])'
        BY <4>1, <4>2, <4>4 DEF Below, Genuine, Ordinal
      <4> QED
        BY <1>c, <4>2, <4>3, <4>4, <4>5 DEF Sending
    <3> QED
      BY <3>2, <3>3
  <2>4. CASE SendMessage(t) \/ SendFails(t)
    <3>1. pc[t] = "send" /\ pc' = [pc EXCEPT ![t] = "idle"] /\ Holding(t)
      BY <2>4 DEF SendMessage, SendFails, Goto, Holding
    <3>2. ~Holding(u)'
      BY <2>1, <3>1 DEF Holding, TypeOK
    <3> QED
      BY <3>2, SendingOutside
  <2>5. CASE EnterRequest(t) \/ GiveUp(t)
    <3>1. /\ pc' = [pc EXCEPT ![t] = "lock"] \/ pc' = [pc EXCEPT ![t] = "idle"]
          /\ UNCHANGED <<mutex, request, latest, pendingSequence, asked>>
          /\ pc[t] \in {"idle", "lock"}
      BY <2>5 DEF EnterRequest, GiveUp, Goto, protocolVars, history
    <3>2. CASE u = t
      BY <3>1, <3>2, SendingOutside DEF Holding, TypeOK
    <3>3. CASE u # t
      <4>1. pc'[u] = pc[u]
        BY <3>1, <3>3 DEF TypeOK
      <4>2. Holding(u) => Numbers(c)' \subseteq Numbers(c)
        <5>1. SendMessage(u) => pc'[u] = "idle"
          BY DEF SendMessage, Goto, TypeOK
        <5> QED
          BY <1>1, <1>2, <1>c, <4>1, <5>1, HolderAlone
      <4> QED
        BY <1>3, <1>c, <3>1, <4>1, <4>2, SendingStays
    <3> QED
      BY <3>2, <3>3
  <2>6. ASSUME NEW up \in BOOLEAN, Reconnect(t, up)
        PROVE  Sending(u)'
    <3>1. mutex[c] = None /\ (pc' = pc \/ pc' = [pc EXCEPT ![t] = "idle"])
      BY <1>5, <2>6 DEF Reconnect, Reopen, Goto
    <3>2. ~Holding(u)
      BY <1>c, <3>1, OneHolds
    <3> QED
      BY <3>1, <3>2, SendingOutside DEF Holding, TypeOK
  <2> QED
    BY <1>5, <2>2, <2>3, <2>4, <2>5, <2>6 DEF RequestSynchronization
<1>6. CASE Iterate(c)
  <2> DEFINE t == Worker(c)
  <2>1. t \in Threads /\ t[1] = c /\ t[2] = "worker"
    BY <1>1, ThreadFacts
  <2>2. Holding(t) => t = u \/ ~Holding(u)
    BY <1>c, <2>1, OneHolds DEF Sending, Holding
  <2>3. ~NumbersGrow(c) \/ ~Holding(u) \/ pc'[u] = "idle"
    <3>1. SendMessage(u) => pc'[u] = "idle"
      BY DEF SendMessage, Goto, TypeOK
    <3> QED
      BY <1>1, <1>c, <3>1, HolderAlone
  <2>4. CASE BeginRead(c)
    <3>1. /\ mutex[c] = None /\ mutex'[c] = "worker" /\ pc' = [pc EXCEPT ![t] = "read"]
      BY <1>1, <2>1, <2>4 DEF BeginRead, Lock, Goto, TypeOK
    <3>2. ~Holding(u)
      BY <1>c, <3>1, OneHolds
    <3>3. CASE u # t
      BY <3>1, <3>2, <3>3, SendingOutside DEF Holding, TypeOK
    <3>4. CASE u = t
      <4>1. pc'[u] = "read"
        BY <3>1, <3>4 DEF TypeOK
      <4> QED
        BY <1>c, <2>1, <3>1, <3>4, <4>1 DEF Sending
    <3> QED
      BY <3>3, <3>4
  <2>5. CASE ReadFrame(c)
    <3>1. UNCHANGED <<pc, mutex, request, latest, pendingSequence, asked>>
      BY <2>5 DEF ReadFrame, protocolVars, history
    <3>2. Numbers(c)' \subseteq Numbers(c)
      BY <1>1, <2>5, ReadFrameKeeps
    <3> QED
      BY <1>3, <1>c, <3>1, <3>2, SendingStays
  <2>6. CASE Reject(c) \/ EndRead(c)
    <3>1. pc[t] = "read" /\ pc' = [pc EXCEPT ![t] = "idle"] /\ Holding(t)
      BY <2>6 DEF Reject, EndRead, Goto, Holding
    <3>2. ~Holding(u)'
      BY <2>1, <2>2, <3>1 DEF Holding, TypeOK
    <3> QED
      BY <3>2, SendingOutside
  <2>7. CASE HandleMessage(c) \/ AcceptResponse(c)
    <3>1. /\ UNCHANGED <<mutex, request, latest, asked>>
          /\ pendingSequence'[c] \in {pendingSequence[c], 0}
          /\ pc' \in {pc, [pc EXCEPT ![t] = "accept"], [pc EXCEPT ![t] = "idle"]}
      BY <1>1, <2>7 DEF HandleMessage, AcceptResponse, Accept, SetPending, Goto,
                    history, TypeOK, ProtocolTypeOK
    <3>2. ~Holding(t)
      BY <2>7 DEF HandleMessage, AcceptResponse, Holding
    <3>3. CASE u = t
      BY <2>1, <3>1, <3>2, <3>3, SendingOutside DEF Holding, TypeOK
    <3>4. CASE u # t
      <4>1. pc'[u] = pc[u]
        BY <2>1, <3>1, <3>4 DEF TypeOK
      <4>2. Holding(u) => Numbers(c)' \subseteq Numbers(c)
        BY <1>2, <2>3, <4>1 DEF Holding
      <4> QED
        BY <1>3, <1>c, <3>1, <4>1, <4>2, SendingStays
    <3> QED
      BY <3>3, <3>4
  <2> QED
    BY <1>6, <2>4, <2>5, <2>6, <2>7 DEF Iterate
<1> QED
  BY <1>1, <1>4, <1>5, <1>6, ControlStep

(* A message that matches is genuine, and the first answer to its request, *)
(* or its number is foreign: the pending one is not the own number of a    *)
(* torn frame, or of a sample.                                             *)
LEMMA AcceptingStep ==
  ASSUME TypeOK, NEW c \in Clients, [Next]_vars, DataInv(c), Accepting(c)
  PROVE  Accepting(c)'
<1> DEFINE t == Worker(c)
           m == Head(completed[c])
<1>1. t \in Threads /\ t = <<c, "worker">> /\ c \in Devices
  BY ThreadFacts DEF Worker
<1>2. CASE Quiet(c)
  BY <1>1, <1>2 DEF Quiet, Accepting
<1>3. ASSUME NEW u \in Threads, u[1] = c, RequestSynchronization(u)
      PROVE  Accepting(c)'
  <2>1. completed'[c] = completed[c] /\ received'[c] = received[c] /\ samples' = samples
    BY <1>3 DEF RequestSynchronization, Reconnect, Reopen, EnterRequest, GiveUp, BuildRequest,
                StorePending, SendMessage, SendFails, NumberRequest, protocolVars
  <2>2. pc'[t] = pc[t] \/ pc'[t] # "accept"
    BY <1>1, <1>3 DEF RequestSynchronization, Reconnect, Reopen, EnterRequest, GiveUp, BuildRequest,
                      StorePending, SendMessage, SendFails, Goto, TypeOK
  <2> QED
    BY <2>1, <2>2 DEF Accepting
<1>4. CASE BeginRead(c) \/ ReadFrame(c) \/ Reject(c) \/ EndRead(c) \/ AcceptResponse(c)
  <2>1. pc'[t] # "accept"
    BY <1>1, <1>4 DEF BeginRead, ReadFrame, Reject, EndRead, AcceptResponse, Goto, TypeOK
  <2> QED
    BY <2>1, SMTT(30) DEF Accepting
<1>5. CASE HandleMessage(c) /\ ~Matches(c, m)
  <2>1. pc'[t] # "accept"
    BY <1>5 DEF HandleMessage
  <2> QED
    BY <2>1, SMTT(30) DEF Accepting
<1>6. CASE HandleMessage(c) /\ Matches(c, m)
  <2>1. /\ completed[c] # <<>> /\ UNCHANGED <<completed, asked, samples>>
        /\ received'[c] = Now(c)
    BY <1>6 DEF HandleMessage, TypeOK
  <2>2. Len(completed[c]) \in Nat /\ 1 \in 1..Len(completed[c]) /\ m = completed[c][1]
    BY <2>1, LinesType
  <2>3. m.sequence \in Sequences
    <3>1. m \in Message
      BY <2>1, LinesType, HeadTailProperties
    <3> QED
      BY <3>1 DEF Message
  <2>4. pendingSequence[c] # 0 /\ Ordinal(m.sequence) = pendingSequence[c]
        /\ pendingSequence[c] \in Nat
    BY <1>1, <1>6, <2>3, OrdinalType DEF Matches, Sequences
  <2>5. m.sequence \notin Lost(c) /\ m.sequence \notin Sampled(c)
    BY <2>4 DEF DataInv, Awaited
  <2>6. m.t1 # None
    BY <2>2, <2>5 DEF Lost
  <2>7. clock[c] \in Nat
    BY AskedType
  <2>8. Now(c) \in Stamp /\ Now(c).by = c /\ Now(c).at = clock[c] + 1
    BY <1>1, <2>7 DEF Now, Stamp
  <2>9. ASSUME m.t1 # Noise
        PROVE  m.t1.at < Now(c).at /\ \A s \in samples[c] : s.t1 # m.t1
    <3>1. Genuine(c, m)
      BY <2>2, <2>6, <2>9, CompletionFacts DEF DataInv, Contents
    <3> DEFINE q == [sequence |-> m.sequence, t1 |-> m.t1]
    <3>2. q \in asked[c] /\ q.sequence = m.sequence /\ q.t1 = m.t1
      BY <3>1 DEF Genuine
    <3>3. q.t1.at =< clock[c] /\ q.t1.at \in Nat
      BY <3>2, AskedType DEF DataInv, Numbering, Stamp
    <3>4. \A s \in samples[c] : s.t1 # m.t1
      BY <2>5, <3>2 DEF Sampled
    <3>5. m.t1.at < Now(c).at
      BY <2>7, <2>8, <3>2, <3>3
    <3> QED
      BY <3>4, <3>5
  <2> QED
    BY <2>1, <2>6, <2>8, <2>9 DEF Accepting
<1> QED
  BY <1>2, <1>3, <1>4, <1>5, <1>6, ControlStep DEF Iterate

(* The pending number is the latest of the connection, unless a thread is  *)
(* about to store it.                                                      *)
LEMMA CurrentStep ==
  ASSUME TypeOK, NEW c \in Clients, [Next]_vars, Current(c), \A t \in Threads : Sending(t)
  PROVE  Current(c)'
<1>1. c \in Devices /\ \A w \in {"worker", "app"} : <<c, w>> \in Threads
  BY ThreadFacts DEF Threads
<1>2. CASE Quiet(c)
  BY <1>2 DEF Quiet, Current
<1>3. ASSUME NEW t \in Threads, t[1] = c, RequestSynchronization(t)
      PROVE  Current(c)'
  <2>1. t = <<c, t[2]>> /\ t[2] \in {"worker", "app"}
    BY <1>3, ThreadFacts
  <2>2. CASE BuildRequest(t)
    <3>1. pc'[t] = "publish"
      BY <2>2 DEF BuildRequest, Goto, TypeOK
    <3> QED
      BY <2>1, <3>1 DEF Current
  <2>3. CASE StorePending(t)
    <3>1. pendingSequence'[c] = request[c].sequence /\ latest'[c] = latest[c]
      BY <1>1, <1>3, <2>3 DEF StorePending, SetPending, history, TypeOK, ProtocolTypeOK
    <3>2. request[c].sequence = latest[c]
      BY <1>3, <2>3 DEF StorePending, Sending
    <3> QED
      BY <3>1, <3>2 DEF Current
  <2>4. CASE SendFails(t) \/ \E up \in BOOLEAN : Reconnect(t, up)
    <3>1. pendingSequence'[c] = 0
      BY <1>1, <1>3, <2>4 DEF SendFails, Reconnect, SetPending, TypeOK, ProtocolTypeOK
    <3> QED
      BY <3>1 DEF Current
  <2>5. CASE EnterRequest(t) \/ GiveUp(t) \/ SendMessage(t)
    <3>1. UNCHANGED <<pendingSequence, latest>> /\ pc[t] # "publish"
      BY <2>5 DEF EnterRequest, GiveUp, SendMessage, protocolVars, history
    <3>2. \A u \in Threads : u # t => pc'[u] = pc[u]
      BY <2>5 DEF EnterRequest, GiveUp, SendMessage, Goto, TypeOK
    <3> QED
      BY <1>1, <3>1, <3>2 DEF Current
  <2> QED
    BY <1>3, <2>2, <2>3, <2>4, <2>5 DEF RequestSynchronization
<1>4. CASE Iterate(c)
  <2>1. pc[Worker(c)] # "publish" /\ \A u \in Threads : u # Worker(c) => pc'[u] = pc[u]
    <3>1. /\ pc[Worker(c)] # "publish"
          /\ pc' = pc \/ \E step : pc' = [pc EXCEPT ![Worker(c)] = step]
      BY <1>4, Zenon DEF Iterate, BeginRead, ReadFrame, Reject, EndRead, HandleMessage, AcceptResponse, Goto
    <3>2. DOMAIN pc = Threads
      BY DEF TypeOK
    <3> QED
      BY <3>1, <3>2
  <2>2. latest' = latest
    BY <1>4, Zenon DEF Iterate, BeginRead, ReadFrame, Reject, EndRead, HandleMessage, AcceptResponse, history
  <2>3. pendingSequence'[c] = pendingSequence[c] \/ pendingSequence'[c] = 0
    BY <1>1, <1>4, Zenon DEF Iterate, BeginRead, ReadFrame, Reject, EndRead, HandleMessage, AcceptResponse,
                      Accept, SetPending, protocolVars, TypeOK, ProtocolTypeOK
  <2> QED
    BY <1>1, <2>1, <2>2, <2>3, SMTT(30) DEF Current
<1> QED
  BY <1>2, <1>3, <1>4, ControlStep

(* A client's connection is reopened, the server tears a frame on it, or   *)
(* what the server has torn stays as it was.                               *)
LEMMA SpoiledStep ==
  ASSUME TypeOK, NEW c \in Clients, [Next]_vars
  PROVE  \/ spoiled'[c] = spoiled[c]
         \/ decoder'[c] = Clean /\ responses'[c] = <<>>
         \/ \E i \in Slots : slots[i] = c /\ AnswerRequests(i)
<1>1. ASSUME NEW t \in Threads, RequestSynchronization(t)
      PROVE  spoiled'[c] = spoiled[c] \/ (decoder'[c] = Clean /\ responses'[c] = <<>>)
  <2>1. ASSUME NEW up \in BOOLEAN, Reconnect(t, up)
        PROVE  spoiled'[c] = spoiled[c] \/ (decoder'[c] = Clean /\ responses'[c] = <<>>)
    BY <2>1, ThreadFacts DEF Reconnect, Reopen, ResetDecoder, TypeOK
  <2> QED
    BY <1>1, <2>1 DEF RequestSynchronization, EnterRequest, GiveUp, BuildRequest, StorePending,
                      SendMessage, SendFails, history
<1>2. ASSUME NEW i \in Slots, AnswerRequests(i), slots[i] # c
      PROVE  spoiled'[c] = spoiled[c]
  BY <1>2, AnswerRequestsFacts, SMTT(30) DEF TypeOK
<1>3. ASSUME NEW d \in Clients, Iterate(d) \/ Shutdown(d) \/ Initialize(d) \/ Drop(d)
      PROVE  spoiled'[c] = spoiled[c]
  BY <1>3, Zenon DEF Iterate, BeginRead, ReadFrame, Reject, EndRead, HandleMessage, AcceptResponse,
              Shutdown, Initialize, Drop, history
<1>4. CASE RestartServer \/ UNCHANGED vars \/ (\E i \in Slots : ReapClient(i))
           \/ \E d \in Clients : RefuseClient(d) \/ \E i \in Slots : AcceptClient(d, i)
  BY <1>4 DEF RestartServer, ReapClient, RefuseClient, AcceptClient, vars, history
<1> QED
  BY <1>1, <1>2, <1>3, <1>4 DEF Next, Serve

(* A decoder is out of step with its stream, or about to be, only where    *)
(* the server has torn a frame.                                            *)
LEMMA TornStep ==
  ASSUME TypeOK, TypeOK', NEW c \in Clients, [Next]_vars, Torn(c)
  PROVE  Torn(c)'
<1>1. CASE decoder'[c] = Clean /\ responses'[c] = <<>>
  BY <1>1 DEF Torn
<1>2. CASE spoiled'[c] = spoiled[c] /\ Shrinks(c)
  <2>1. \A k \in 1..Len(responses'[c]) : k \in 1..Len(responses[c])
    BY <1>2, PrefixFacts, LinesType
  <2> QED
    BY <1>2, <2>1, PrefixFacts DEF Torn, Shrinks
<1>3. CASE spoiled'[c] = spoiled[c] /\ ReadFrame(c)
  <2>1. CASE spoiled[c]
    BY <1>3, <2>1 DEF Torn
  <2>2. CASE decoder[c] = Clean /\ \A k \in 1..Len(responses[c]) : responses[c][k].whole
    <3>1. responses[c] # <<>> /\ responses'[c] = Tail(responses[c])
      BY <1>3, ReadFrameFacts
    <3>2. /\ Head(responses[c]) = responses[c][1] /\ 1 \in 1..Len(responses[c])
          /\ Len(responses'[c]) = Len(responses[c]) - 1
          /\ \A k \in 1..Len(responses'[c]) : responses'[c][k] = responses[c][k + 1]
          /\ Len(responses[c]) \in Nat
      BY <3>1, LinesType, HeadTailProperties
    <3>3. Head(responses[c]).whole
      BY <2>2, <3>2
    <3>4. Clean.holds # "part" /\ \E messages, next : Decode(c, Head(responses[c]), messages, next)
            /\ decoder' = [decoder EXCEPT ![c] = next]
      BY <1>3 DEF ReadFrame, Clean
    <3>5. decoder'[c] = Clean
      BY <2>2, <3>3, <3>4 DEF Decode, TypeOK
    <3>6. \A k \in 1..Len(responses'[c]) : k + 1 \in 1..Len(responses[c])
      BY <3>2
    <3> QED
      BY <2>2, <3>2, <3>5, <3>6 DEF Torn
  <2> QED
    BY <2>1, <2>2 DEF Torn
<1>4. CASE spoiled'[c] = spoiled[c] /\ Reject(c)
  BY <1>4 DEF Reject, Torn
<1>5. CASE /\ spoiled'[c] = spoiled[c]
           /\ AcceptResponse(c) \/ \E t \in Threads : BuildRequest(t) \/ StorePending(t) \/ SendMessage(t)
  <2>1. decoder' = decoder /\ responses' = responses
    BY <1>5 DEF AcceptResponse, BuildRequest, StorePending, SendMessage, streams
  <2> QED
    BY <1>5, <2>1 DEF Torn
<1>6. ASSUME NEW i \in Slots, slots[i] = c, AnswerRequests(i)
      PROVE  Torn(c)'
  <2>1. PICK n, written, frames :
          /\ Answered(slots[i], n, written, frames)
          /\ requests' = [requests EXCEPT ![slots[i]] = SubSeq(@, n + 1, Len(@))]
          /\ responses' = [responses EXCEPT ![slots[i]] = @ \o frames]
          /\ spoiled' = [spoiled EXCEPT ![slots[i]] =
                           @ \/ \E j \in 1..Len(frames) : ~frames[j].whole]
    BY <1>6, AnswerRequestsFacts
  <2>2. /\ frames \in Seq(Frame) /\ decoder' = decoder
        /\ responses'[c] = responses[c] \o frames
    <3>1. frames \in Seq(Frame)
      BY <2>1 DEF Answered
    <3>2. decoder' = decoder
      BY <1>6 DEF AnswerRequests
    <3>3. responses'[c] = responses[c] \o frames
      BY <1>6, <2>1 DEF TypeOK
    <3> QED
      BY <3>1, <3>2, <3>3
  <2>3. spoiled'[c] <=> spoiled[c] \/ \E j \in 1..Len(frames) : ~frames[j].whole
    BY <1>6, <2>1 DEF TypeOK
  <2>4. CASE spoiled'[c]
    BY <2>4 DEF Torn
  <2>5. CASE ~spoiled'[c]
    <3>1. /\ Len(responses'[c]) = Len(responses[c]) + Len(frames)
          /\ \A k \in 1..(Len(responses[c]) + Len(frames)) : responses'[c][k] =
               IF k =< Len(responses[c]) THEN responses[c][k] ELSE frames[k - Len(responses[c])]
          /\ Len(responses[c]) \in Nat /\ Len(frames) \in Nat
      BY <2>2, LinesType, ConcatProperties
    <3>2. /\ decoder[c] = Clean /\ \A k \in 1..Len(responses[c]) : responses[c][k].whole
          /\ \A j \in 1..Len(frames) : frames[j].whole
      BY <2>3, <2>5 DEF Torn
    <3>3. ASSUME NEW k \in 1..Len(responses'[c])
          PROVE  responses'[c][k].whole
      <4>1. k =< Len(responses[c]) => k \in 1..Len(responses[c])
        BY <3>1
      <4>2. k > Len(responses[c]) => k - Len(responses[c]) \in 1..Len(frames)
        BY <3>1
      <4>3. CASE k =< Len(responses[c])
        BY <3>1, <3>2, <4>1, <4>3
      <4>4. CASE k > Len(responses[c])
        <5>1. responses'[c][k] = frames[k - Len(responses[c])]
          BY <3>1, <4>4
        <5> QED
          BY <3>2, <4>2, <4>4, <5>1
      <4> QED
        BY <3>1, <4>3, <4>4
    <3> QED
      BY <2>2, <3>2, <3>3 DEF Torn
  <2> QED
    BY <2>4, <2>5
<1> QED
  BY <1>1, <1>2, <1>3, <1>4, <1>5, <1>6, SpoiledStep, ShrinksOrGrows DEF Grows

(* A client's slot is empty of what another connection has left in it: the *)
(* slot is forgotten with the connection, and its decoder reset for the    *)
(* next.                                                                   *)
LEMMA UnspoiledStep ==
  ASSUME TypeOK, Unspoiled, [Next]_vars
  PROVE  Unspoiled'
<1>1. Dead \notin Clients /\ None \notin Clients
  BY CarrierAssumption, ClockAssumption DEF Devices
<1>2. ASSUME NEW c \in Clients, Forget(c)
      PROVE  Unspoiled'
  <2> SUFFICES ASSUME NEW i \in Slots, slots'[i] \in Clients
               PROVE  ~leftover'[i]
    BY DEF Unspoiled
  <2>1. slots'[i] = IF slots[i] = c THEN Dead ELSE slots[i]
    BY <1>2 DEF Forget
  <2>2. slots[i] # c /\ slots[i] \in Clients
    BY <1>1, <2>1
  <2>3. leftover'[i] = leftover[i]
    BY <1>2, <2>2 DEF Forget
  <2> QED
    BY <2>2, <2>3 DEF Unspoiled
<1>3. ASSUME NEW t \in Threads, RequestSynchronization(t)
      PROVE  Unspoiled'
  <2>1. CASE SendFails(t)
    BY <1>2, <2>1, ThreadFacts DEF SendFails, Stop
  <2>2. CASE UNCHANGED server
    BY <2>2, SMTT(30) DEF Unspoiled, server
  <2> QED
    BY <1>3, <2>1, <2>2 DEF RequestSynchronization, Reconnect, Reopen, EnterRequest, GiveUp,
                            BuildRequest, StorePending, SendMessage
<1>4. ASSUME NEW c \in Clients, Iterate(c)
      PROVE  Unspoiled'
  <2>1. CASE Reject(c)
    BY <1>2, <2>1 DEF Reject, Stop
  <2>2. CASE UNCHANGED server
    BY <2>2 DEF Unspoiled, server
  <2> QED
    BY <1>4, <2>1, <2>2 DEF Iterate, BeginRead, ReadFrame, EndRead, HandleMessage, AcceptResponse
<1>5. ASSUME NEW c \in Clients, Shutdown(c) \/ Drop(c)
      PROVE  Unspoiled'
  BY <1>2, <1>5 DEF Shutdown, Drop, Stop
<1>6. ASSUME NEW c \in Clients, NEW i \in Slots, AcceptClient(c, i)
      PROVE  Unspoiled'
  BY <1>6 DEF AcceptClient, Unspoiled, TypeOK
<1>7. ASSUME NEW i \in Slots, ReapClient(i)
      PROVE  Unspoiled'
  BY <1>7 DEF ReapClient, Unspoiled, TypeOK
<1>8. CASE RestartServer
  BY <1>8 DEF RestartServer, Unspoiled
<1>9. CASE UNCHANGED vars \/ (\E i \in Slots : AnswerRequests(i))
           \/ \E c \in Clients : RefuseClient(c) \/ Initialize(c)
  <2>1. UNCHANGED server
    BY <1>9, Zenon DEF vars, AnswerRequests, RefuseClient, Initialize
  <2> QED
    BY <2>1, SMTT(30) DEF server, Unspoiled
<1> QED
  BY <1>3, <1>4, <1>5, <1>6, <1>7, <1>8, <1>9 DEF Next, Serve

-----------------------------------------------------------------------------
(* Nothing has been asked or sent yet.                                     *)
LEMMA InvInit == Init => IInv
<1> SUFFICES ASSUME Init PROVE IInv
  OBVIOUS
<1>1. TypeOK
  BY TypeInit
<1>2. \A t \in Threads : Sending(t)
  BY DEF Init, Sending
<1>3. Unspoiled
  BY DEF Init, Unspoiled
<1>4. ASSUME NEW c \in Clients
      PROVE  ClientInv(c)
  <2>1. c \in Devices /\ Worker(c) \in Threads
    BY ThreadFacts
  <2>2. asked[c] = {} /\ samples[c] = {} /\ pendingSequence[c] = 0
    BY <2>1 DEF Init, ProtocolInit
  <2>3. /\ completed[c] = <<>> /\ requests[c] = <<>> /\ responses[c] = <<>>
        /\ decoder[c] = Clean /\ pc[Worker(c)] = "idle"
    BY <2>1 DEF Init
  <2>4. Sent(c) = {} /\ Returned(c) = {} /\ Begun(c) = {} /\ InHand(c) = {} /\ Sampled(c) = {}
    BY <2>2, <2>3 DEF Sent, Returned, Begun, InHand, Sampled, Clean
  <2>5. Numbering(c) /\ Contents(c) /\ Rising(c) /\ Below(c, nextSequence[c])
    BY <2>2, <2>3, <2>4 DEF Numbering, Contents, Rising, Below, Numbers
  <2>6. Awaited(c) /\ Accepting(c) /\ Current(c) /\ Torn(c)
    BY <2>2, <2>3 DEF Awaited, Accepting, Current, Torn
  <2> QED
    BY <2>5, <2>6 DEF ClientInv
<1> QED
  BY <1>1, <1>2, <1>3, <1>4 DEF IInv

(* The invariant is inductive.                                             *)
LEMMA InvStep == IInv /\ [Next]_vars => IInv'
<1> SUFFICES ASSUME IInv, [Next]_vars PROVE IInv'
  OBVIOUS
<1>1. TypeOK /\ (\A t \in Threads : Sending(t)) /\ Unspoiled
  BY DEF IInv
<1>2. \A c \in Clients : DataInv(c) /\ Contents(c) /\ Accepting(c) /\ Current(c) /\ Torn(c)
  BY DEF IInv, ClientInv, DataInv
<1>3. TypeOK'
  BY <1>1, <1>2, TypeStep
<1>4. ASSUME NEW c \in Clients
      PROVE  ClientInv(c)'
  <2>1. DataInv(c)'
    BY <1>1, <1>2, <1>3, DataStep
  <2>2. Accepting(c)'
    BY <1>1, <1>2, AcceptingStep
  <2>3. Current(c)'
    BY <1>1, <1>2, CurrentStep
  <2>4. Torn(c)'
    BY <1>1, <1>2, <1>3, TornStep
  <2> QED
    BY <2>1, <2>2, <2>3, <2>4 DEF ClientInv, DataInv
<1>5. \A t \in Threads : Sending(t)'
  BY <1>1, <1>2, <1>3, SendingStep
<1>6. Unspoiled'
  BY <1>1, UnspoiledStep
<1> QED
  BY <1>3, <1>4, <1>5, <1>6 DEF IInv

(* The invariant holds in every state that clients, server and connections *)
(* can come to.                                                            *)
THEOREM Invariance == Spec => []IInv
BY InvInit, InvStep, PTL DEF Spec

(* Every variable of the TCP synchronizers keeps to its type, whatever is  *)
(* lost or torn on the way.                                                *)
THEOREM Typing == Spec => []TypeOK
<1>1. IInv => TypeOK
  BY DEF IInv
<1> QED
  BY <1>1, Invariance, PTL

(* Between calls a client's pending number is the last it requested on the *)
(* connection it has, or none: the mutex is held from the number to the    *)
(* store, and a connection replaced takes the pending number along.        *)
THEOREM PendingStaysCurrent == Spec => []PendingIsCurrent
<1>1. IInv => PendingIsCurrent
  <2> SUFFICES ASSUME IInv, NEW c \in Clients, mutex[c] = None
               PROVE  pendingSequence[c] \in {0, latest[c]}
    BY DEF PendingIsCurrent
  <2>1. ASSUME NEW w \in {"worker", "app"}
        PROVE  pc[<<c, w>>] # "publish"
    <3>1. <<c, w>> \in Threads /\ <<c, w>>[1] = c
      BY DEF Threads
    <3>2. ~Holding(<<c, w>>)
      BY <3>1, OneHolds DEF IInv
    <3> QED
      BY <3>2 DEF Holding
  <2> QED
    BY <2>1 DEF IInv, ClientInv, Current
<1> QED
  BY <1>1, Invariance, PTL

(* No decoder ever holds the rest of another connection.                   *)
THEOREM DecodersStayOwn == Spec => []DecodersOwn
<1>1. IInv => DecodersOwn
  BY DEF IInv, ClientInv, Torn, Unspoiled, DecodersOwn
<1> QED
  BY <1>1, Invariance, PTL

-----------------------------------------------------------------------------
\* The samples of a client that are not of mistaken messages.
Heard(c) == samples[c] \ Mistaken(c)

(* What a client builds is new to the exchange: its time is none that the  *)
(* client has asked at before.                                             *)
LEMMA BuildRequestAsks ==
  ASSUME TypeOK, NEW t \in Threads, BuildRequest(t), Numbering(t[1])
  PROVE  Sound!Ask(t[1])
<1> DEFINE c == t[1]
           q == [sequence |-> Sequence(c), t1 |-> Now(c)]
<1>1. c \in Devices /\ c \in Clients
  BY ThreadFacts
<1>2. asked' = [asked EXCEPT ![c] = @ \cup {q}] /\ samples' = samples
  BY DEF BuildRequest, NumberRequest
<1>3. asked[c] \subseteq [sequence : Sequences, t1 : Stamp] /\ clock[c] \in Nat
  BY <1>1, AskedType
<1>4. q.t1 = [by |-> c, at |-> clock[c] + 1] /\ q.t1.at = clock[c] + 1
  BY DEF Now
<1> HIDE DEF q
<1>5. \A p \in asked[c] : p.t1 # q.t1
  <2>1. \A p \in asked[c] : p.t1.at =< clock[c] /\ p.t1.at \in Nat
    BY <1>3 DEF Numbering, Stamp
  <2> QED
    BY <1>3, <1>4, <2>1
<1>6. \A s \in Heard(c) : s.t1 # q.t1
  BY <1>5 DEF Numbering, Heard, Mistaken
<1>7. q.t1 \in Sound!On(c)
  BY <1>3, <1>4 DEF Sound!On
<1>8. q \in asked'[c] \ asked[c]
  BY <1>1, <1>2, <1>5 DEF TypeOK, ProtocolTypeOK
<1>9. [d \in Devices |-> samples[d] \ Mistaken(d)]'
        = [d \in Devices |-> samples[d] \ Mistaken(d)]
  BY <1>2 DEF Mistaken
<1>10. \A p \in asked[c] \cup [d \in Devices |-> samples[d] \ Mistaken(d)][c] : p.t1 # q.t1
  BY <1>1, <1>5, <1>6 DEF Heard
<1> QED
  BY <1>2, <1>7, <1>8, <1>9, <1>10 DEF Sound!Ask

\* A step that gives a client the sample s.
Yields(c, s) ==
  /\ samples' = [samples EXCEPT ![c] = @ \cup {s}] /\ asked' = asked
  /\ s.t1 # Noise =>
       /\ \E q \in asked[c] : q.t1 = s.t1
       /\ \A x \in samples[c] : x.t1 # s.t1
       /\ s.t4 \in Stamp /\ s.t4.by = c /\ s.t1.at < s.t4.at
       /\ Visited(s)

(* What a client accepts is of a request of its own, from which it has     *)
(* learned nothing yet, and of one visit of it to the server; or it is     *)
(* noise.                                                                  *)
LEMMA AcceptResponseFacts ==
  ASSUME TypeOK, NEW c \in Clients, AcceptResponse(c), Contents(c), Accepting(c)
  PROVE  \E s : Yields(c, s)
<1> DEFINE m == Head(completed[c])
           s == [t1 |-> m.t1, t2 |-> m.t2, t3 |-> m.t3, t4 |-> received[c]]
<1>1. /\ completed[c] # <<>> /\ m.t1 # None
      /\ received[c] \in Stamp /\ received[c].by = c
      /\ m.t1 # Noise => m.t1.at < received[c].at /\ \A x \in samples[c] : x.t1 # m.t1
  BY DEF AcceptResponse, Accepting
<1>2. Len(completed[c]) \in Nat /\ 1 \in 1..Len(completed[c]) /\ m = completed[c][1]
  BY <1>1, LinesType
<1>3. m.t1 # Noise => Genuine(c, m) /\ Visited(m)
  BY <1>1, <1>2, CompletionFacts DEF Contents
<1>4. samples' = [samples EXCEPT ![c] = @ \cup {s}] /\ asked' = asked
  BY DEF AcceptResponse, Accept, Submit
<1>5. s.t1 = m.t1 /\ s.t2 = m.t2 /\ s.t3 = m.t3 /\ s.t4 = received[c]
  OBVIOUS
<1> HIDE DEF m, s
<1>6. ASSUME s.t1 # Noise
      PROVE  /\ \E q \in asked[c] : q.t1 = s.t1
             /\ \A x \in samples[c] : x.t1 # s.t1
             /\ s.t4 \in Stamp /\ s.t4.by = c /\ s.t1.at < s.t4.at
             /\ Visited(s)
  <2>1. Genuine(c, m) /\ Visited(m)
    BY <1>3, <1>5, <1>6
  <2>2. (\E q \in asked[c] : q.t1 = s.t1) /\ Visited(s)
    BY <1>5, <2>1 DEF Genuine, Visited
  <2> QED
    BY <1>1, <1>5, <1>6, <2>2
<1>7. Yields(c, s)
  BY <1>4, <1>6 DEF Yields
<1> QED
  BY <1>7

(* So an acceptance that is not noise is learning, and noise is not heard. *)
LEMMA AcceptResponseLearns ==
  ASSUME TypeOK, NEW c \in Clients, AcceptResponse(c), Contents(c), Accepting(c)
  PROVE  Sound!Learn(c) \/ UNCHANGED Sound!vars
<1> DEFINE Heards == [d \in Devices |-> samples[d] \ Mistaken(d)]
<1>1. PICK s : Yields(c, s)
  BY AcceptResponseFacts
<1>2. /\ samples' = [samples EXCEPT ![c] = @ \cup {s}] /\ asked' = asked
      /\ s.t1 # Noise =>
           /\ \E q \in asked[c] : q.t1 = s.t1
           /\ \A x \in samples[c] : x.t1 # s.t1
           /\ s.t4 \in Stamp /\ s.t4.by = c /\ s.t1.at < s.t4.at
           /\ Visited(s)
  BY <1>1 DEF Yields
<1>3. c \in Devices /\ Server \in References
  BY ThreadFacts, CarrierAssumption
<1>4. /\ samples'[c] = samples[c] \cup {s}
      /\ \A d \in Devices : d # c => samples'[d] = samples[d]
  BY <1>2, <1>3 DEF TypeOK, ProtocolTypeOK
<1>5. CASE s.t1 = Noise
  <2>1. \A d \in Devices : samples'[d] \ Mistaken(d)' = samples[d] \ Mistaken(d)
    BY <1>4, <1>5 DEF Mistaken
  <2>2. Heards' = Heards
    BY <2>1
  <2> QED
    BY <1>2, <2>2 DEF Sound!vars
<1>6. CASE s.t1 # Noise
  <2>1. /\ samples'[c] \ Mistaken(c)' = (samples[c] \ Mistaken(c)) \cup {s}
        /\ \A d \in Devices : d # c => samples'[d] \ Mistaken(d)' = samples[d] \ Mistaken(d)
    BY <1>4, <1>6 DEF Mistaken
  <2>2. Heards' = [Heards EXCEPT ![c] = @ \cup {s}]
    BY <1>3, <2>1
  <2>3. s \in Heards'[c] \ Heards[c] /\ \A other \in Heards[c] : other.t1 # s.t1
    BY <1>2, <1>3, <1>6, <2>1
  <2>4. s.t4 \in Sound!On(c) /\ s.t1.at < s.t4.at
    BY <1>2, <1>6 DEF Stamp, Sound!On
  <2>5. {s.t2, s.t3} \subseteq Sound!On(Server) /\ s.t2.at < s.t3.at
    BY <1>2, <1>6 DEF Visited, Stamp, Sound!On
  <2>6. \E q \in asked[c] : q.t1 = s.t1
    BY <1>2, <1>6
  <2> QED
    BY <1>2, <1>3, <2>2, <2>3, <2>4, <2>5, <2>6 DEF Sound!Learn
<1> QED
  BY <1>5, <1>6

(* No other step is one of the exchange.                                   *)
LEMMA OtherStepsStutter ==
  ASSUME [Next]_vars, \A t \in Threads : ~BuildRequest(t), \A c \in Clients : ~AcceptResponse(c)
  PROVE  UNCHANGED <<asked, samples>>
<1>1. ASSUME NEW t \in Threads, RequestSynchronization(t)
      PROVE  UNCHANGED <<asked, samples>>
  BY <1>1, SMTT(30) DEF RequestSynchronization, Reconnect, Reopen, EnterRequest, GiveUp, StorePending,
              SendMessage, SendFails, protocolVars
<1>2. ASSUME NEW c \in Clients, Iterate(c)
      PROVE  UNCHANGED <<asked, samples>>
  BY <1>2 DEF Iterate, BeginRead, ReadFrame, Reject, EndRead, HandleMessage, protocolVars
<1>3. ASSUME NEW c \in Clients, Shutdown(c) \/ Initialize(c) \/ Drop(c)
      PROVE  UNCHANGED <<asked, samples>>
  BY <1>3, SMTT(30) DEF Shutdown, Initialize, Drop, protocolVars
<1>4. CASE Serve \/ RestartServer \/ UNCHANGED vars
  BY <1>4, Zenon DEF Serve, RefuseClient, AcceptClient, ReapClient, AnswerRequests, RestartServer, vars,
              protocolVars
<1> QED
  BY <1>1, <1>2, <1>3, <1>4 DEF Next

(* But for messages whose number was torn and mistaken for the pending     *)
(* one, clock synchronization over TCP implements the exchange, whatever   *)
(* is lost, torn, garbled, reconnected or restarted: every step asks,      *)
(* learns, or is none that a Timing target sees.                           *)
THEOREM Refinement == Spec => ImplementsExchangeUnlessMistaken
<1>1. Init => Sound!Init
  BY DEF Init, ProtocolInit, Sound!Init, Devices, Mistaken
<1>2. IInv /\ [Next]_vars => [Sound!Next]_(Sound!vars)
  <2> SUFFICES ASSUME IInv, [Next]_vars
               PROVE  Sound!Next \/ UNCHANGED Sound!vars
    OBVIOUS
  <2>1. TypeOK /\ \A c \in Clients : Numbering(c) /\ Contents(c) /\ Accepting(c)
    BY DEF IInv, ClientInv
  <2>2. ASSUME NEW t \in Threads, BuildRequest(t)
        PROVE  Sound!Next
    <3>1. t[1] \in Clients
      BY ThreadFacts
    <3>2. Sound!Ask(t[1])
      BY <2>1, <2>2, <3>1, BuildRequestAsks
    <3> QED
      BY <3>1, <3>2 DEF Sound!Next
  <2>3. ASSUME NEW c \in Clients, AcceptResponse(c)
        PROVE  Sound!Next \/ UNCHANGED Sound!vars
    <3>1. Sound!Learn(c) \/ UNCHANGED Sound!vars
      BY <2>1, <2>3, AcceptResponseLearns
    <3> QED
      BY <3>1 DEF Sound!Next
  <2>4. CASE UNCHANGED <<asked, samples>>
    BY <2>4 DEF Sound!vars, Mistaken
  <2> QED
    BY <2>2, <2>3, <2>4, OtherStepsStutter
<1> QED
  BY <1>1, <1>2, Invariance, PTL DEF Spec, ImplementsExchangeUnlessMistaken, Sound!Spec

\* A sample that is not of a mistaken message is of a request of the client's
\* own, answered in one visit to the server, and the only one of it.
SoundSamples ==
  \A c \in Clients : \A s \in Heard(c) :
    /\ \E q \in asked[c] : q.t1 = s.t1
    /\ s.t1.at < s.t4.at
    /\ s.t2.by = Server /\ s.t3.by = Server /\ s.t2.at < s.t3.at
    /\ \A u \in Heard(c) : u.t1 = s.t1 => u = s

(* Requests and accepted responses keep it.                                *)
LEMMA SoundSamplesStep == IInv /\ SoundSamples /\ [Next]_vars => SoundSamples'
<1> SUFFICES ASSUME IInv, SoundSamples, [Next]_vars PROVE SoundSamples'
  OBVIOUS
<1>1. TypeOK /\ \A c \in Clients : Contents(c) /\ Accepting(c)
  BY DEF IInv, ClientInv
<1>2. ASSUME NEW t \in Threads, BuildRequest(t)
      PROVE  SoundSamples'
  <2>1. samples' = samples
    BY <1>2 DEF BuildRequest, NumberRequest
  <2>2. \A c \in Clients : asked[c] \subseteq asked'[c]
    BY <1>1, <1>2, ThreadFacts DEF BuildRequest, NumberRequest, TypeOK, ProtocolTypeOK
  <2>3. \A c \in Clients : Heard(c)' = Heard(c)
    BY <2>1 DEF Heard, Mistaken
  <2> QED
    BY <2>2, <2>3, SMTT(30) DEF SoundSamples
<1>3. ASSUME NEW d \in Clients, AcceptResponse(d)
      PROVE  SoundSamples'
  <2>1. PICK x : Yields(d, x)
    BY <1>1, <1>3, AcceptResponseFacts
  <2>2. /\ samples' = [samples EXCEPT ![d] = @ \cup {x}] /\ asked' = asked
        /\ x.t1 # Noise =>
             /\ \E q \in asked[d] : q.t1 = x.t1
             /\ \A s \in samples[d] : s.t1 # x.t1
             /\ x.t4 \in Stamp /\ x.t4.by = d /\ x.t1.at < x.t4.at
             /\ Visited(x)
    BY <2>1 DEF Yields
  <2>3. /\ samples'[d] = samples[d] \cup {x}
        /\ \A c \in Clients : c # d => samples'[c] = samples[c]
    BY <1>1, <2>2, ThreadFacts DEF TypeOK, ProtocolTypeOK
  <2>4. \A c \in Clients : c # d => Heard(c)' = Heard(c)
    BY <2>3 DEF Heard, Mistaken
  <2>5. \A s \in Heard(d)' : s \in Heard(d) \/ (s = x /\ x.t1 # Noise)
    BY <2>3 DEF Heard, Mistaken
  <2>6. \A s \in Heard(d) : s \in samples[d]
    BY DEF Heard
  <2> SUFFICES ASSUME NEW c \in Clients, NEW s \in Heard(c)'
               PROVE  /\ \E q \in asked[c] : q.t1 = s.t1
                      /\ s.t1.at < s.t4.at
                      /\ s.t2.by = Server /\ s.t3.by = Server /\ s.t2.at < s.t3.at
                      /\ \A u \in Heard(c)' : u.t1 = s.t1 => u = s
    BY <2>2 DEF SoundSamples
  <2>7. CASE c # d
    BY <2>4, <2>7 DEF SoundSamples
  <2>8. CASE c = d /\ s \in Heard(d)
    BY <2>2, <2>5, <2>6, <2>8 DEF SoundSamples
  <2>9. CASE c = d /\ s = x /\ x.t1 # Noise
    BY <2>2, <2>5, <2>6, <2>9 DEF Visited
  <2> QED
    BY <2>5, <2>7, <2>8, <2>9
<1>4. CASE UNCHANGED <<asked, samples>>
  BY <1>4 DEF SoundSamples, Heard, Mistaken
<1> QED
  BY <1>2, <1>3, <1>4, OtherStepsStutter

(* So no torn frame, no lost connection and no late response gives a TCP   *)
(* client a sample of times that do not belong together, or two of one     *)
(* request, unless a torn number was mistaken for the pending one.         *)
THEOREM TCPSamples == Spec => []SoundSamples
<1>1. Init => SoundSamples
  BY ThreadFacts DEF Init, ProtocolInit, SoundSamples, Heard
<1> QED
  BY <1>1, SoundSamplesStep, Invariance, PTL DEF Spec

-----------------------------------------------------------------------------
\* The numbers between a client's call and the worker's hands.
Queued(c) == Sent(c) \cup Returned(c) \cup Begun(c)

\* A request is sent on a connection, and a connection that is gone holds none.
Linked(c) ==
  /\ link[c] \in {"down", "lost"} => requests[c] = <<>>
  /\ \A w \in {"worker", "app"} : pc[<<c, w>>] \in {"publish", "send"} => link[c] # "down"

\* What the worker has in hand came before what is still on its way, also
\* where that is of a later connection; foreign bytes have no place in it.
InOrder(c) ==
  /\ \A j, k \in 1..Len(completed[c]) :
       j < k /\ completed[c][j].t1 # Noise /\ completed[c][k].t1 # Noise =>
         Ordinal(completed[c][j].sequence) < Ordinal(completed[c][k].sequence)
  /\ \A i \in InHand(c), s \in Queued(c) : Ordinal(i) < Ordinal(s)

\* Nothing on its way is newer than the latest request of the connection.
Newest(c) == \A s \in Queued(c) : Ordinal(s) =< Ordinal(latest[c])

Waits(c) == pendingSequence[c] = latest[c] \/ overtaken[c]

Waiting(c) == latest[c] \in Queued(c) \cup InHand(c) => Waits(c)

\* The number was stored before the request is sent.
Stored(c) == \A w \in {"worker", "app"} : pc[<<c, w>>] = "send" => Waits(c)

AnswerInv ==
  \A c \in Clients : Linked(c) /\ InOrder(c) /\ Newest(c) /\ Waiting(c) /\ Stored(c)

\* A message is completed that came before all behind it, or a foreign one.
Completes(c, m) ==
  /\ completed'[c] = Append(completed[c], m)
  /\ m.t1 # Noise =>
       m.sequence \in Queued(c) /\ \A s \in Queued(c)' : Ordinal(m.sequence) < Ordinal(s)

(* A step moves the numbers of a client from call to hand: it takes some   *)
(* away, sends one, or completes one that came before all behind it.       *)
LEMMA NumbersMove ==
  ASSUME TypeOK, TypeOK', NEW c \in Clients, [Next]_vars, DataInv(c), Accepting(c),
         \A t \in Threads : Sending(t)
  PROVE  \/ /\ Queued(c)' \subseteq Queued(c)
            /\ \/ completed'[c] = completed[c]
               \/ completed[c] # <<>> /\ completed'[c] = Tail(completed[c])
         \/ /\ \E t \in Threads : t[1] = c /\ SendMessage(t)
            /\ Queued(c)' \subseteq Queued(c) \cup {latest[c]} /\ completed'[c] = completed[c]
         \/ Queued(c)' \subseteq Queued(c) /\ \E m \in Message : Completes(c, m)
<1>1. CASE Shrinks(c)
  <2>1. Queued(c)' \subseteq Queued(c)
    BY <1>1, ShrinkNumbers DEF Queued
  <2>2. \/ completed'[c] = completed[c]
        \/ completed[c] # <<>> /\ completed'[c] = Tail(completed[c])
    BY <1>1 DEF Shrinks
  <2> QED
    BY <2>1, <2>2
<1>2. ASSUME NEW t \in Threads, t[1] = c, BuildRequest(t) \/ StorePending(t)
      PROVE  Queued(c)' = Queued(c) /\ completed'[c] = completed[c]
  <2>1. UNCHANGED <<completed, streams>>
    BY <1>2 DEF BuildRequest, StorePending
  <2> QED
    BY <2>1 DEF streams, Queued, Sent, Returned, Begun
<1>3. ASSUME NEW t \in Threads, t[1] = c, SendMessage(t)
      PROVE  Queued(c)' \subseteq Queued(c) \cup {latest[c]} /\ completed'[c] = completed[c]
  <2>1. UNCHANGED <<completed, responses, decoder>>
    BY <1>3 DEF SendMessage
  <2>2. requests'[c] = requests[c] \/ requests'[c] = Append(requests[c], request[c])
    BY <1>3 DEF SendMessage, TypeOK
  <2>3. request[c].sequence = latest[c] /\ request[c] \in Message
    BY <1>3, AskedType DEF SendMessage, Sending
  <2>4. Sent(c)' \subseteq Sent(c) \cup {latest[c]}
    <3>1. CASE requests'[c] = requests[c]
      BY <3>1 DEF Sent
    <3>2. CASE requests'[c] = Append(requests[c], request[c])
      <4>1. \A k \in 1..Len(requests'[c]) :
              \/ k \in 1..Len(requests[c]) /\ requests'[c][k] = requests[c][k]
              \/ requests'[c][k] = request[c]
        BY <2>3, <3>2, LinesType, AppendProperties
      <4>2. \A k \in 1..Len(requests'[c]) : requests'[c][k].sequence \in Sent(c) \cup {latest[c]}
        BY <2>3, <4>1 DEF Sent
      <4> QED
        BY <4>2 DEF Sent
    <3> QED
      BY <2>2, <3>1, <3>2
  <2> QED
    BY <2>1, <2>4 DEF Queued, Returned, Begun
<1>4. ASSUME NEW n \in Sequences, completed'[c] = Append(completed[c], Foreign(n))
      PROVE  \E m \in Message : Completes(c, m)
  <2>1. Foreign(n) \in Message /\ Foreign(n).t1 = Noise
    BY CompletionFacts
  <2>2. Completes(c, Foreign(n))
    BY <1>4, <2>1 DEF Completes
  <2> QED
    BY <2>1, <2>2
<1>5. ASSUME ReadFrame(c)
      PROVE  /\ Queued(c)' \subseteq Queued(c)
             /\ completed'[c] = completed[c] \/ \E m \in Message : Completes(c, m)
  <2>1. PICK f : f = Head(responses[c])
    OBVIOUS
  <2>2. /\ Returned(c)' \subseteq Returned(c) /\ Sent(c)' = Sent(c)
        /\ f.message.sequence \in Returned(c)
        /\ Begun(c)' \subseteq Begun(c) \cup {f.message.sequence}
        /\ \A s \in Returned(c)' \cup Sent(c)' : Ordinal(f.message.sequence) < Ordinal(s)
    BY <1>5, <2>1, ReadFrameKeeps
  <2>3. Queued(c)' \subseteq Queued(c)
    BY <2>2 DEF Queued
  <2>4. CASE completed'[c] = Append(completed[c], f.message) /\ decoder'[c] = Clean
    <3>1. f.message \in Message
      <4>1. f \in Frame
        BY <1>5, <2>1, LinesType, HeadTailProperties DEF ReadFrame
      <4> QED
        BY <4>1 DEF Frame
    <3>2. Begun(c)' = {}
      BY <2>4 DEF Begun, Clean
    <3>3. \A s \in Queued(c)' : Ordinal(f.message.sequence) < Ordinal(s)
      BY <2>2, <3>2 DEF Queued
    <3>4. f.message.sequence \in Queued(c)
      BY <2>2 DEF Queued
    <3>5. Completes(c, f.message)
      BY <2>4, <3>3, <3>4 DEF Completes
    <3> QED
      BY <2>3, <3>1, <3>5
  <2>5. CASE /\ completed'[c] = Append(completed[c], Garbled(decoder[c].sequence))
             /\ decoder[c].holds = "part" /\ decoder'[c] \in {Clean, Astray}
    <3> DEFINE m == Garbled(decoder[c].sequence)
    <3>1. m \in Message /\ m.sequence = decoder[c].sequence /\ Begun(c) = {m.sequence}
      BY <2>5, DecodeType, CompletionFacts DEF Begun
    <3>2. Begun(c)' = {}
      BY <2>5 DEF Begun, Clean, Astray
    <3>3. \A s \in Queued(c)' : Ordinal(m.sequence) < Ordinal(s)
      BY <2>2, <3>1, <3>2 DEF Queued, DataInv, Rising
    <3>4. m.sequence \in Queued(c)
      BY <3>1 DEF Queued
    <3>5. Completes(c, m)
      BY <2>5, <3>3, <3>4 DEF Completes
    <3> QED
      BY <2>3, <3>1, <3>5
  <2>6. \/ completed'[c] = completed[c]
        \/ completed'[c] = Append(completed[c], f.message) /\ decoder'[c] = Clean
        \/ /\ completed'[c] = Append(completed[c], Garbled(decoder[c].sequence))
           /\ decoder[c].holds = "part" /\ decoder'[c] \in {Clean, Astray}
        \/ \E n \in Sequences : completed'[c] = Append(completed[c], Foreign(n))
    BY <1>5, <2>1, ReadFrameFacts
  <2> QED
    BY <1>4, <2>3, <2>4, <2>5, <2>6
<1>6. ASSUME Reject(c)
      PROVE  /\ Queued(c)' \subseteq Queued(c)
             /\ completed'[c] = completed[c] \/ \E m \in Message : Completes(c, m)
  <2>1. /\ Sent(c)' = {} /\ Returned(c)' = {} /\ Begun(c)' = {}
        /\ \/ completed'[c] = completed[c]
           \/ /\ decoder[c].holds = "part" /\ Begun(c) = {decoder[c].sequence}
              /\ completed'[c] = Append(completed[c], Garbled(decoder[c].sequence))
           \/ \E n \in Sequences : completed'[c] = Append(completed[c], Foreign(n))
    BY <1>6, RejectKeeps
  <2>2. Queued(c)' = {}
    BY <2>1 DEF Queued
  <2>3. CASE /\ decoder[c].holds = "part" /\ Begun(c) = {decoder[c].sequence}
             /\ completed'[c] = Append(completed[c], Garbled(decoder[c].sequence))
    <3>1. Garbled(decoder[c].sequence) \in Message
          /\ Garbled(decoder[c].sequence).sequence = decoder[c].sequence
      BY <2>3, DecodeType, CompletionFacts
    <3>2. decoder[c].sequence \in Queued(c)
      BY <2>3 DEF Queued
    <3>3. Completes(c, Garbled(decoder[c].sequence))
      BY <2>2, <2>3, <3>1, <3>2 DEF Completes
    <3> QED
      BY <2>2, <3>1, <3>3
  <2> QED
    BY <1>4, <2>1, <2>2, <2>3
<1>7. ASSUME AcceptResponse(c)
      PROVE  /\ Queued(c)' \subseteq Queued(c)
             /\ completed[c] # <<>> /\ completed'[c] = Tail(completed[c])
  <2>1. UNCHANGED streams /\ completed'[c] = Tail(completed[c]) /\ completed[c] # <<>>
    BY <1>7 DEF AcceptResponse, TypeOK, Accepting
  <2> QED
    BY <2>1 DEF streams, Queued, Sent, Returned, Begun
<1>8. ASSUME NEW i \in Slots, slots[i] = c, AnswerRequests(i)
      PROVE  Queued(c)' \subseteq Queued(c) /\ completed'[c] = completed[c]
  <2>1. /\ Sent(c)' \subseteq Sent(c) /\ Returned(c)' \subseteq Returned(c) \cup Sent(c)
        /\ Begun(c)' = Begun(c) /\ completed'[c] = completed[c]
    BY <1>8, AnswerRequestsKeeps
  <2> QED
    BY <2>1 DEF Queued
<1>9. ASSUME NEW t \in Threads, t[1] = c, BuildRequest(t) \/ StorePending(t) \/ SendMessage(t)
      PROVE  \/ Queued(c)' = Queued(c) /\ completed'[c] = completed[c]
             \/ /\ \E u \in Threads : u[1] = c /\ SendMessage(u)
                /\ Queued(c)' \subseteq Queued(c) \cup {latest[c]} /\ completed'[c] = completed[c]
  BY <1>2, <1>3, <1>9
<1>10. CASE \E t \in Threads : t[1] = c /\ (BuildRequest(t) \/ StorePending(t) \/ SendMessage(t))
  BY <1>9, <1>10
<1>11. CASE ReadFrame(c)
  BY <1>5, <1>11
<1>12. CASE Reject(c)
  BY <1>6, <1>12
<1>13. CASE AcceptResponse(c)
  BY <1>7, <1>13
<1>14. CASE \E i \in Slots : slots[i] = c /\ AnswerRequests(i)
  BY <1>8, <1>14
<1>15. CASE Grows(c)
  BY <1>10, <1>11, <1>12, <1>13, <1>14, <1>15 DEF Grows
<1> QED
  BY <1>1, <1>15, ShrinksOrGrows

\* The steps that touch what a client's latest request is, or whether its
\* answer is awaited.
Turns(c) ==
  \/ \E t \in Threads : /\ t[1] = c
                        /\ \/ BuildRequest(t) \/ StorePending(t) \/ SendFails(t)
                           \/ \E up \in BOOLEAN : Reconnect(t, up)
  \/ Reject(c) \/ AcceptResponse(c) \/ Shutdown(c)

(* All others leave these alone. *)
LEMMA TurnsStep ==
  ASSUME TypeOK, NEW c \in Clients, [Next]_vars, ~Turns(c)
  PROVE  /\ latest'[c] = latest[c] /\ overtaken'[c] = overtaken[c]
         /\ pendingSequence'[c] = pendingSequence[c]
<1> DEFINE Same == /\ latest'[c] = latest[c] /\ overtaken'[c] = overtaken[c]
                   /\ pendingSequence'[c] = pendingSequence[c]
<1>0. c \in Devices /\ \A d \in Clients : d \in Devices
  BY ThreadFacts
<1>1. ASSUME NEW t \in Threads, RequestSynchronization(t)
      PROVE  Same
  <2>1. CASE EnterRequest(t) \/ GiveUp(t) \/ SendMessage(t)
    BY <2>1 DEF EnterRequest, GiveUp, SendMessage, protocolVars, history
  <2>2. ASSUME t[1] # c, BuildRequest(t)
        PROVE  Same
    BY <2>2, ThreadFacts DEF BuildRequest, TypeOK
  <2>3. ASSUME t[1] # c, StorePending(t) \/ SendFails(t)
        PROVE  Same
    BY <2>3, <1>0, ThreadFacts DEF StorePending, SendFails, SetPending, history, TypeOK, ProtocolTypeOK
  <2>4. ASSUME t[1] # c, NEW up \in BOOLEAN, Reconnect(t, up)
        PROVE  Same
    BY <2>4, <1>0, ThreadFacts DEF Reconnect, Reopen, SetPending, TypeOK, ProtocolTypeOK
  <2> QED
    BY <1>1, <2>1, <2>2, <2>3, <2>4 DEF RequestSynchronization, Turns
<1>2. ASSUME NEW d \in Clients, BeginRead(d) \/ ReadFrame(d) \/ EndRead(d) \/ HandleMessage(d)
      PROVE  Same
  BY <1>2 DEF BeginRead, ReadFrame, EndRead, HandleMessage, protocolVars, history
<1>3. ASSUME NEW d \in Clients, d # c, Reject(d) \/ Shutdown(d)
      PROVE  Same
  BY <1>0, <1>3 DEF Reject, Shutdown, SetPending, history, TypeOK, ProtocolTypeOK
<1>4. ASSUME NEW d \in Clients, d # c, AcceptResponse(d)
      PROVE  Same
  BY <1>0, <1>4 DEF AcceptResponse, Accept, SetPending, TypeOK, ProtocolTypeOK
<1>5. ASSUME NEW d \in Clients, Initialize(d) \/ Drop(d)
      PROVE  Same
  BY <1>5 DEF Initialize, Drop, protocolVars, history
<1>6. CASE Serve
  <2>1. ASSUME NEW d \in Clients, RefuseClient(d) \/ \E i \in Slots : AcceptClient(d, i)
        PROVE  Same
    BY <2>1 DEF RefuseClient, AcceptClient, protocolVars, history
  <2>2. ASSUME NEW i \in Slots, ReapClient(i) \/ AnswerRequests(i)
        PROVE  Same
    <3>1. UNCHANGED <<pendingSequence, latest, overtaken>>
      BY <2>2, Zenon DEF ReapClient, AnswerRequests, protocolVars, history
    <3> QED
      BY <3>1
  <2> QED
    BY <1>6, <2>1, <2>2 DEF Serve
<1>7. CASE RestartServer \/ UNCHANGED vars
  BY <1>7 DEF RestartServer, vars, protocolVars, history
<1>8. ASSUME NEW d \in Clients, Iterate(d)
      PROVE  Same
  BY <1>2, <1>3, <1>4, <1>8 DEF Iterate, Turns
<1>9. ASSUME NEW d \in Clients, Shutdown(d)
      PROVE  Same
  BY <1>3, <1>9 DEF Turns
<1> QED
  BY <1>1, <1>5, <1>6, <1>7, <1>8, <1>9 DEF Next

(* A connection that goes takes the requests along, and a thread that      *)
(* sends keeps the others from closing it.                                 *)
LEMMA LinkedStep ==
  ASSUME TypeOK, TypeOK', NEW c \in Clients, [Next]_vars, Linked(c), \A t \in Threads : Sending(t)
  PROVE  Linked(c)'
<1>0. \A w \in {"worker", "app"} : <<c, w>> \in Threads /\ <<c, w>>[1] = c
  BY DEF Threads
<1>1. ASSUME NEW t \in Threads, t[1] = c, NEW up \in BOOLEAN, Reconnect(t, up)
      PROVE  Linked(c)'
  <2>1. link[c] \in {"down", "lost"} /\ requests'[c] = requests[c] /\ mutex[c] = None
    BY <1>1 DEF Reconnect, Reopen
  <2>2. \A w \in {"worker", "app"} : pc[<<c, w>>] \notin {"publish", "send"}
    BY <1>0, <2>1, OneHolds DEF Holding
  <2>3. \A w \in {"worker", "app"} : pc'[<<c, w>>] \notin {"publish", "send"}
    <3>1. \A u \in Threads : pc'[u] = pc[u] \/ pc'[u] = "idle"
      BY <1>1 DEF Reconnect, Reopen, Goto, TypeOK
    <3> QED
      BY <1>0, <2>2, <3>1
  <2> QED
    BY <2>1, <2>3 DEF Linked
<1>2. ASSUME NEW t \in Threads, t[1] = c, EnterRequest(t) \/ GiveUp(t) \/ BuildRequest(t)
                                            \/ StorePending(t) \/ SendMessage(t)
      PROVE  Linked(c)'
  <2>1. link'[c] = link[c]
    BY <1>2 DEF EnterRequest, GiveUp, BuildRequest, StorePending, SendMessage, streams
  <2>2. requests'[c] = requests[c] \/ (link[c] # "lost" /\ SendMessage(t))
    BY <1>2 DEF EnterRequest, GiveUp, BuildRequest, StorePending, SendMessage, streams
  <2>3. SendMessage(t) => link[c] # "down"
    BY <1>2, ThreadFacts DEF SendMessage, Linked
  <2>4. \A u \in Threads : pc'[u] = pc[u] \/ (u = t /\ pc'[u] \in {"lock", "idle", "publish", "send"})
    <3>1. \E s \in {"lock", "idle", "publish", "send"} : Goto(t, s)
      BY <1>2 DEF EnterRequest, GiveUp, BuildRequest, StorePending, SendMessage
    <3> QED
      BY <3>1 DEF Goto, TypeOK
  <2>5. pc'[t] \in {"publish", "send"} => link[c] # "down"
    <3>1. CASE BuildRequest(t)
      BY <1>2, <3>1 DEF BuildRequest, Connected
    <3>2. CASE StorePending(t)
      BY <1>2, <3>2, ThreadFacts DEF StorePending, Linked
    <3>3. CASE EnterRequest(t) \/ GiveUp(t) \/ SendMessage(t)
      BY <3>3 DEF EnterRequest, GiveUp, SendMessage, Goto, TypeOK
    <3> QED
      BY <1>2, <3>1, <3>2, <3>3
  <2>6. \A w \in {"worker", "app"} : pc'[<<c, w>>] \in {"publish", "send"} => link'[c] # "down"
    BY <1>0, <2>1, <2>4, <2>5 DEF Linked
  <2> QED
    BY <2>1, <2>2, <2>3, <2>6 DEF Linked
<1>3. ASSUME Stop(c), \A w \in {"worker", "app"} : pc'[<<c, w>>] \notin {"publish", "send"}
      PROVE  Linked(c)'
  BY <1>3 DEF Stop, Linked, TypeOK
<1>4. ASSUME NEW t \in Threads, t[1] = c, SendFails(t)
      PROVE  Linked(c)'
  <2>1. pc[t] = "send" /\ mutex[c] = t[2] /\ pc' = [pc EXCEPT ![t] = "idle"] /\ Stop(c)
    BY <1>4 DEF SendFails, Sending, Goto
  <2>2. \A w \in {"worker", "app"} : pc'[<<c, w>>] \notin {"publish", "send"}
    <3>1. \A u \in Threads : u[1] = c /\ u # t => ~Holding(u)
      BY <1>4, <2>1, OneHolds
    <3> QED
      BY <1>0, <2>1, <3>1 DEF Holding, TypeOK
  <2> QED
    BY <1>3, <2>1, <2>2
<1>5. ASSUME Reject(c)
      PROVE  Linked(c)'
  <2>1. PICK t : t = Worker(c)
    OBVIOUS
  <2>2. t \in Threads /\ t[1] = c
    BY <2>1, ThreadFacts
  <2>3. pc[t] = "read" /\ mutex[c] = t[2] /\ pc' = [pc EXCEPT ![t] = "idle"] /\ Stop(c)
    BY <1>5, <2>1, <2>2 DEF Reject, Sending, Goto
  <2>4. \A w \in {"worker", "app"} : pc'[<<c, w>>] \notin {"publish", "send"}
    <3>1. \A u \in Threads : u[1] = c /\ u # t => ~Holding(u)
      BY <2>2, <2>3, OneHolds
    <3> QED
      BY <1>0, <2>2, <2>3, <3>1 DEF Holding, TypeOK
  <2> QED
    BY <1>3, <2>3, <2>4
<1>6. ASSUME Shutdown(c)
      PROVE  Linked(c)'
  <2>1. mutex[c] = None /\ pc' = pc /\ Stop(c)
    BY <1>6 DEF Shutdown
  <2>2. \A w \in {"worker", "app"} : pc'[<<c, w>>] \notin {"publish", "send"}
    BY <1>0, <2>1, OneHolds DEF Holding
  <2> QED
    BY <1>3, <2>1, <2>2
<1>7. ASSUME link'[c] = link[c], requests'[c] = requests[c],
             \A w \in {"worker", "app"} :
               pc'[<<c, w>>] = pc[<<c, w>>] \/ pc'[<<c, w>>] \notin {"publish", "send"}
      PROVE  Linked(c)'
  BY <1>7 DEF Linked
<1>8. ASSUME NEW d \in Clients, d # c,
             Iterate(d) \/ \E t \in Threads : t[1] = d /\ RequestSynchronization(t)
      PROVE  Linked(c)'
  <2>1. \A w \in {"worker", "app"} : pc'[<<c, w>>] = pc[<<c, w>>]
    BY <1>8, OtherClient DEF Quiet
  <2>2. ASSUME NEW t \in Threads, t[1] = d, RequestSynchronization(t)
        PROVE  link'[c] = link[c] /\ requests'[c] = requests[c]
    <3>1. CASE \E up \in BOOLEAN : Reconnect(t, up)
      BY <1>8, <2>2, <3>1 DEF Reconnect, Reopen, TypeOK
    <3>2. CASE EnterRequest(t) \/ GiveUp(t) \/ BuildRequest(t) \/ StorePending(t)
      BY <3>2 DEF EnterRequest, GiveUp, BuildRequest, StorePending, streams
    <3>3. CASE SendMessage(t) \/ SendFails(t)
      BY <1>8, <2>2, <3>3 DEF SendMessage, SendFails, Stop, TypeOK
    <3> QED
      BY <2>2, <3>1, <3>2, <3>3 DEF RequestSynchronization
  <2>3. CASE Iterate(d)
    <3>1. Stop(d) \/ UNCHANGED <<link, requests>>
      BY <2>3, Zenon DEF Iterate, BeginRead, ReadFrame, Reject, EndRead, HandleMessage, AcceptResponse,
                         streams
    <3> QED
      BY <1>8, <2>1, <3>1, <1>7 DEF Stop, TypeOK
  <2> QED
    BY <1>7, <1>8, <2>1, <2>2, <2>3
<1>9. CASE BeginRead(c) \/ ReadFrame(c) \/ EndRead(c) \/ HandleMessage(c) \/ AcceptResponse(c)
  <2>1. UNCHANGED <<link, requests>>
    BY <1>9, Zenon DEF BeginRead, ReadFrame, EndRead, HandleMessage, AcceptResponse, streams
  <2>2. UNCHANGED pc \/ \E s \in {"read", "idle", "accept"} : Goto(Worker(c), s)
    BY <1>9 DEF BeginRead, ReadFrame, EndRead, HandleMessage, AcceptResponse
  <2>3. \A u \in Threads : pc'[u] = pc[u] \/ pc'[u] \in {"read", "idle", "accept"}
    BY <2>2 DEF Goto, TypeOK
  <2> QED
    BY <1>0, <1>7, <2>1, <2>3
<1>10. ASSUME NEW d \in Clients, Shutdown(d), d # c
       PROVE  Linked(c)'
  BY <1>7, <1>10 DEF Shutdown, Stop, TypeOK
<1>11. ASSUME NEW d \in Clients, Initialize(d)
       PROVE  Linked(c)'
  BY <1>7, <1>11 DEF Initialize, streams
<1>12. ASSUME pc' = pc, link'[c] # "down" \/ link'[c] = link[c],
              requests'[c] = <<>> \/ (requests'[c] = requests[c]
                                        /\ (link'[c] = link[c] \/ link'[c] = "open"))
       PROVE  Linked(c)'
  BY <1>12 DEF Linked
<1>13. ASSUME NEW d \in Clients, Drop(d) \/ RefuseClient(d)
       PROVE  Linked(c)'
  <2>1. /\ pc' = pc /\ link' = [link EXCEPT ![d] = "lost"]
        /\ requests' = [requests EXCEPT ![d] = <<>>]
    BY <1>13 DEF Drop, RefuseClient, client
  <2> QED
    BY <1>12, <2>1 DEF TypeOK
<1>14. ASSUME NEW d \in Clients, NEW i \in Slots, AcceptClient(d, i)
       PROVE  Linked(c)'
  <2>1. pc' = pc /\ link' = [link EXCEPT ![d] = "open"] /\ requests' = requests
    BY <1>14 DEF AcceptClient, client
  <2> QED
    BY <1>12, <2>1 DEF TypeOK
<1>15. CASE RestartServer
  <2>1. pc' = pc /\ requests'[c] = <<>> /\ (link'[c] # "down" \/ link'[c] = link[c])
    BY <1>15 DEF RestartServer, client
  <2> QED
    BY <1>12, <2>1
<1>16. ASSUME NEW i \in Slots, AnswerRequests(i)
       PROVE  Linked(c)'
  <2>1. pc' = pc /\ link' = link
    BY <1>16, Zenon DEF AnswerRequests, client
  <2>2. requests'[c] = requests[c] \/ (requests[c] # <<>> /\ slots[i] = c)
    <3>1. PICK n, written, frames :
            /\ Answered(slots[i], n, written, frames)
            /\ requests' = [requests EXCEPT ![slots[i]] = SubSeq(@, n + 1, Len(@))]
      BY <1>16, AnswerRequestsFacts
    <3>2. slots[i] = c => requests[c] # <<>>
      BY <3>1, LinesType DEF Answered
    <3> QED
      BY <3>1, <3>2 DEF TypeOK
  <2> QED
    BY <2>1, <2>2 DEF Linked
<1>17. ASSUME NEW i \in Slots, ReapClient(i)
       PROVE  Linked(c)'
  BY <1>12, <1>17 DEF ReapClient, client, streams
<1>18. CASE UNCHANGED vars
  BY <1>12, <1>18 DEF vars, client, streams
<1>19. ASSUME NEW t \in Threads, RequestSynchronization(t)
       PROVE  Linked(c)'
  BY <1>1, <1>2, <1>4, <1>8, <1>19, ThreadFacts DEF RequestSynchronization
<1>20. ASSUME NEW d \in Clients, Iterate(d)
       PROVE  Linked(c)'
  BY <1>5, <1>8, <1>9, <1>20 DEF Iterate
<1>21. ASSUME NEW d \in Clients, Shutdown(d)
       PROVE  Linked(c)'
  BY <1>6, <1>10, <1>21
<1>22. CASE Serve
  BY <1>13, <1>14, <1>16, <1>17, <1>22 DEF Serve
<1> QED
  BY <1>11, <1>13, <1>15, <1>18, <1>19, <1>20, <1>21, <1>22 DEF Next

(* What the worker has in hand is in the order in which it was asked for,  *)
(* and older than all that is still to come.                               *)
LEMMA InOrderStep ==
  ASSUME TypeOK, TypeOK', NEW c \in Clients, [Next]_vars, DataInv(c), Accepting(c), InOrder(c),
         \A t \in Threads : Sending(t)
  PROVE  InOrder(c)'
<1> DEFINE F(k) == Ordinal(completed[c][k].sequence)
           G(k) == Ordinal(completed'[c][k].sequence)
           Own == {k \in 1..Len(completed[c]) : completed[c][k].t1 # Noise}
           OwnNext == {k \in 1..Len(completed'[c]) : completed'[c][k].t1 # Noise}
<1>1. completed[c] \in Seq(Message) /\ Len(completed[c]) \in Nat
  BY LinesType
<1>2. ASSUME \A j, k \in OwnNext : j < k => G(j) < G(k),
             \A k \in OwnNext, s \in Queued(c)' : G(k) < Ordinal(s)
      PROVE  InOrder(c)'
  BY <1>2 DEF InOrder, InHand, Ordinal
<1>3. /\ \A j, k \in Own : j < k => F(j) < F(k)
      /\ \A k \in Own, s \in Queued(c) : F(k) < Ordinal(s)
  BY DEF InOrder, InHand
<1>4. ASSUME completed'[c] = completed[c], NEW N, Queued(c)' \subseteq Queued(c) \cup N,
             \A k \in Own, s \in N : F(k) < Ordinal(s)
      PROVE  InOrder(c)'
  BY <1>2, <1>3, <1>4
<1>5. ASSUME completed[c] # <<>>, completed'[c] = Tail(completed[c]), Queued(c)' \subseteq Queued(c)
      PROVE  InOrder(c)'
  <2>1. /\ Len(completed'[c]) = Len(completed[c]) - 1
        /\ \A k \in 1..Len(completed'[c]) : completed'[c][k] = completed[c][k + 1]
    BY <1>1, <1>5, HeadTailProperties
  <2>2. \A k \in OwnNext : k + 1 \in Own /\ G(k) = F(k + 1)
    BY <1>1, <2>1
  <2>3. \A j, k \in OwnNext : j < k => j + 1 < k + 1
    OBVIOUS
  <2> HIDE DEF F, G, Own, OwnNext
  <2>4. \A j, k \in OwnNext : j < k => G(j) < G(k)
    BY <1>3, <2>2, <2>3
  <2>5. \A k \in OwnNext, s \in Queued(c)' : G(k) < Ordinal(s)
    BY <1>3, <1>5, <2>2
  <2> QED
    BY <1>2, <2>4, <2>5
<1>6. ASSUME NEW m \in Message, Completes(c, m), Queued(c)' \subseteq Queued(c)
      PROVE  InOrder(c)'
  <2> DEFINE n == Len(completed[c])
  <2>1. /\ Len(completed'[c]) = n + 1 /\ completed'[c][n + 1] = m
        /\ \A k \in 1..n : completed'[c][k] = completed[c][k]
    BY <1>1, <1>6, AppendProperties DEF Completes
  <2>2. \A k \in OwnNext : (k \in Own /\ G(k) = F(k)) \/ (k = n + 1 /\ m.t1 # Noise)
    BY <1>1, <2>1
  <2>3. ASSUME m.t1 # Noise
        PROVE  /\ \A k \in Own : F(k) < G(n + 1)
               /\ \A s \in Queued(c)' : G(n + 1) < Ordinal(s)
    BY <1>3, <1>6, <2>1, <2>3 DEF Completes
  <2>4. Own \subseteq 1..n /\ OwnNext \subseteq 1..(n + 1)
    BY <2>1
  <2> HIDE DEF F, G, Own, OwnNext
  <2>5. \A j, k \in OwnNext : j < k => G(j) < G(k)
    <3> SUFFICES ASSUME NEW j \in OwnNext, NEW k \in OwnNext, j < k
                 PROVE  G(j) < G(k)
      OBVIOUS
    <3>1. j \in Own /\ G(j) = F(j)
      BY <1>1, <2>2, <2>4
    <3>2. CASE k \in Own /\ G(k) = F(k)
      BY <1>3, <3>1, <3>2
    <3>3. CASE k = n + 1 /\ m.t1 # Noise
      BY <2>3, <3>1, <3>3
    <3> QED
      BY <2>2, <3>2, <3>3
  <2>6. \A k \in OwnNext, s \in Queued(c)' : G(k) < Ordinal(s)
    BY <1>3, <1>6, <2>2, <2>3
  <2> QED
    BY <1>2, <2>5, <2>6
<1>7. ASSUME NEW t \in Threads, t[1] = c, SendMessage(t), completed'[c] = completed[c],
             Queued(c)' \subseteq Queued(c) \cup {latest[c]}
      PROVE  InOrder(c)'
  <2>1. Below(c, Ordinal(latest[c]))
    BY <1>7 DEF SendMessage, Sending
  <2>2. \A k \in Own : completed[c][k].sequence \in Numbers(c)
    BY DEF Numbers, InHand
  <2>3. \A k \in Own, s \in {latest[c]} : F(k) < Ordinal(s)
    BY <2>1, <2>2 DEF Below
  <2> QED
    BY <1>4, <1>7, <2>3
<1>8. ASSUME completed'[c] = completed[c], Queued(c)' \subseteq Queued(c)
      PROVE  InOrder(c)'
  BY <1>2, <1>3, <1>8
<1> HIDE DEF F, G, Own, OwnNext
<1> QED
  BY <1>5, <1>6, <1>7, <1>8, NumbersMove

(* What is on its way is no newer than the latest request. *)
LEMMA NewestStep ==
  ASSUME TypeOK, TypeOK', NEW c \in Clients, [Next]_vars, DataInv(c), Accepting(c), Newest(c),
         Linked(c), \A t \in Threads : Sending(t)
  PROVE  Newest(c)'
<1>1. ASSUME NEW t \in Threads, t[1] = c, BuildRequest(t)
      PROVE  Newest(c)'
  <2>1. Below(c, Ordinal(latest[c]))'
    BY <1>1, BuildRequestKeeps
  <2>2. UNCHANGED streams
    BY <1>1 DEF BuildRequest
  <2>3. Queued(c)' \subseteq Sequences
    <3>1. Queued(c) \subseteq Sequences
      BY NumbersType DEF Numbers, Queued
    <3> QED
      BY <2>2, <3>1 DEF streams, Queued, Sent, Returned, Begun
  <2>4. latest'[c] \in Sequences
    BY DEF TypeOK
  <2>5. \A s \in Queued(c)' : Ordinal(s) < Ordinal(latest'[c])
    BY <2>1 DEF Below, Ordinal, Numbers, Queued
  <2>6. \A s \in Queued(c)' : Ordinal(s) =< Ordinal(latest'[c])
    BY <2>3, <2>4, <2>5, OrdinalType
  <2> QED
    BY <2>6 DEF Newest, Ordinal
<1>2. ASSUME NEW t \in Threads, t[1] = c, NEW up \in BOOLEAN, Reconnect(t, up)
      PROVE  Newest(c)'
  <2>1. requests'[c] = <<>> /\ responses'[c] = <<>> /\ decoder'[c] = Clean
    BY <1>2 DEF Reconnect, Reopen, ResetDecoder, Linked, TypeOK
  <2>2. Queued(c)' = {}
    BY <2>1 DEF Queued, Sent, Returned, Begun, Clean
  <2> QED
    BY <2>2 DEF Newest
<1>3. ASSUME latest'[c] = latest[c]
      PROVE  Newest(c)'
  <2>1. Queued(c)' \subseteq Queued(c) \cup {latest[c]}
    BY NumbersMove
  <2>2. Ordinal(latest[c]) =< Ordinal(latest[c])
    BY OrdinalType DEF TypeOK
  <2> QED
    BY <1>3, <2>1, <2>2 DEF Newest, Ordinal
<1>4. ASSUME NEW t \in Threads, t[1] = c, StorePending(t) \/ SendFails(t)
      PROVE  Newest(c)'
  BY <1>3, <1>4 DEF StorePending, SendFails, history
<1>5. CASE Reject(c) \/ AcceptResponse(c) \/ Shutdown(c)
  BY <1>3, <1>5 DEF Reject, AcceptResponse, Shutdown, history
<1>6. CASE Turns(c)
  BY <1>1, <1>2, <1>4, <1>5, <1>6 DEF Turns
<1> QED
  BY <1>3, <1>6, TurnsStep

(* Once the answer to the latest request is handled, no other carries its  *)
(* number; until then the number stays pending, or an older answer has     *)
(* cleared it.                                                             *)
LEMMA WaitingStep ==
  ASSUME TypeOK, TypeOK', NEW c \in Clients, [Next]_vars, DataInv(c), Accepting(c), InOrder(c),
         Newest(c), Waiting(c), Stored(c), \A t \in Threads : Sending(t)
  PROVE  Waiting(c)'
<1>0. c \in Devices /\ latest[c] \in Sequences
  BY ThreadFacts DEF TypeOK
<1>1. ASSUME NEW t \in Threads, t[1] = c, BuildRequest(t)
      PROVE  Waiting(c)'
  <2>1. Below(c, Ordinal(latest[c]))'
    BY <1>1, BuildRequestKeeps
  <2>2. latest'[c] \notin Numbers(c)'
    <3>1. \A s \in Numbers(c)' : Ordinal(s) < Ordinal(latest'[c])
      BY <2>1 DEF Below, Ordinal
    <3>2. ~(Ordinal(latest'[c]) < Ordinal(latest'[c]))
      BY OrdinalType DEF TypeOK
    <3> QED
      BY <3>1, <3>2
  <2> QED
    BY <2>2 DEF Waiting, Numbers, Queued
<1>2. ASSUME NEW t \in Threads, t[1] = c, StorePending(t)
      PROVE  Waiting(c)'
  <2>1. pendingSequence'[c] = request[c].sequence /\ latest' = latest
    BY <1>0, <1>2 DEF StorePending, SetPending, history, TypeOK, ProtocolTypeOK
  <2>2. request[c].sequence = latest[c]
    BY <1>2 DEF StorePending, Sending
  <2> QED
    BY <2>1, <2>2 DEF Waiting, Waits
<1>3. ASSUME NEW t \in Threads, t[1] = c, SendFails(t)
      PROVE  Waiting(c)'
  <2>1. Below(c, Ordinal(latest[c]))
    BY <1>3 DEF SendFails, Sending
  <2>2. latest[c] \notin Numbers(c)
    BY <1>0, <2>1, OrdinalType DEF Below
  <2>3. /\ latest' = latest /\ requests'[c] = <<>> /\ responses'[c] = <<>>
        /\ decoder' = decoder /\ completed' = completed
    BY <1>3 DEF SendFails, Stop, history, TypeOK
  <2>4. Queued(c)' \subseteq Queued(c) /\ InHand(c)' = InHand(c)
    BY <2>3 DEF Queued, Sent, Returned, Begun, InHand
  <2> QED
    BY <2>2, <2>3, <2>4 DEF Waiting, Numbers, Queued
<1>4. ASSUME NEW t \in Threads, t[1] = c, NEW up \in BOOLEAN, Reconnect(t, up)
      PROVE  Waiting(c)'
  <2>1. pendingSequence'[c] = 0 /\ latest'[c] = 0
    BY <1>0, <1>4 DEF Reconnect, Reopen, SetPending, TypeOK, ProtocolTypeOK
  <2> QED
    BY <2>1 DEF Waiting, Waits
<1>5. ASSUME Reject(c)
      PROVE  Waiting(c)'
  <2>1. PICK r : r = Head(responses[c]).message.sequence
    OBVIOUS
  <2>2. r \in Returned(c)
    <3>1. 1 \in 1..Len(responses[c]) /\ Head(responses[c]) = responses[c][1]
      BY <1>5, LinesType DEF Reject
    <3> QED
      BY <2>1, <3>1 DEF Returned
  <2>3. \A s \in InHand(c) \cup Begun(c) : Ordinal(s) < Ordinal(r)
    BY <2>2 DEF InOrder, Queued, DataInv, Rising
  <2>4. Ordinal(r) =< Ordinal(latest[c]) /\ Ordinal(r) \in Int /\ Ordinal(latest[c]) \in Int
    BY <1>0, <2>2, NumbersType, OrdinalType DEF Newest, Queued, Numbers
  <2>5. latest[c] \notin InHand(c) \cup Begun(c)
    BY <2>3, <2>4
  <2>6. /\ Sent(c)' = {} /\ Returned(c)' = {} /\ Begun(c)' = {}
        /\ \/ completed'[c] = completed[c]
           \/ /\ decoder[c].holds = "part" /\ Begun(c) = {decoder[c].sequence}
              /\ completed'[c] = Append(completed[c], Garbled(decoder[c].sequence))
           \/ \E n \in Sequences : completed'[c] = Append(completed[c], Foreign(n))
    BY <1>5, RejectKeeps
  <2>7. InHand(c)' \subseteq InHand(c) \cup Begun(c)
    <3>1. CASE completed'[c] = completed[c]
      BY <3>1 DEF InHand
    <3>2. CASE /\ decoder[c].holds = "part" /\ Begun(c) = {decoder[c].sequence}
               /\ completed'[c] = Append(completed[c], Garbled(decoder[c].sequence))
      <4>1. Garbled(decoder[c].sequence) \in Message
            /\ Garbled(decoder[c].sequence).sequence = decoder[c].sequence
        BY <3>2, DecodeType, CompletionFacts
      <4> QED
        BY <3>2, <4>1, HandFacts
    <3>3. ASSUME NEW n \in Sequences, completed'[c] = Append(completed[c], Foreign(n))
          PROVE  InHand(c)' \subseteq InHand(c)
      BY <3>3, ForeignFacts
    <3> QED
      BY <2>6, <3>1, <3>2, <3>3
  <2>8. latest' = latest
    BY <1>5 DEF Reject, history
  <2> QED
    BY <2>5, <2>6, <2>7, <2>8 DEF Waiting, Queued
<1>6. ASSUME AcceptResponse(c)
      PROVE  Waiting(c)'
  <2>1. PICK m : m = Head(completed[c])
    OBVIOUS
  <2>2. /\ latest' = latest /\ completed'[c] = Tail(completed[c]) /\ UNCHANGED streams
        /\ overtaken'[c] = (overtaken[c] \/ m.sequence # latest[c] \/ m.t1 = Noise)
        /\ completed[c] # <<>>
    BY <1>6, <2>1 DEF AcceptResponse, Accepting, TypeOK
  <2>3. CASE m.sequence # latest[c] \/ m.t1 = Noise
    BY <2>2, <2>3 DEF Waiting, Waits
  <2>4. CASE m.sequence = latest[c] /\ m.t1 # Noise
    <3>1. completed[c] \in Seq(Message) /\ Len(completed[c]) \in Nat
      BY LinesType
    <3>2. 1 \in 1..Len(completed[c]) /\ m = completed[c][1]
      BY <2>1, <2>2, <3>1
    <3>3. \A s \in Queued(c) : Ordinal(latest[c]) < Ordinal(s)
      BY <2>4, <3>2 DEF InOrder, InHand
    <3>4. latest[c] \notin Queued(c)
      BY <1>0, <3>3, OrdinalType
    <3>5. \A k \in 1..Len(completed'[c]) :
            /\ completed'[c][k] = completed[c][k + 1] /\ k + 1 \in 1..Len(completed[c]) /\ 1 < k + 1
      BY <2>2, <3>1, HeadTailProperties
    <3>6. \A k \in 1..Len(completed'[c]) : completed'[c][k].t1 # Noise =>
            Ordinal(latest[c]) < Ordinal(completed'[c][k].sequence)
      BY <2>4, <3>2, <3>5 DEF InOrder
    <3>7. \A k \in 1..Len(completed'[c]) : completed'[c][k].t1 # Noise =>
            completed'[c][k].sequence # latest[c]
      BY <1>0, <3>6, OrdinalType
    <3>8. latest[c] \notin InHand(c)'
      BY <3>7 DEF InHand
    <3>9. Queued(c)' = Queued(c)
      BY <2>2 DEF streams, Queued, Sent, Returned, Begun
    <3> QED
      BY <2>2, <3>4, <3>8, <3>9 DEF Waiting
  <2> QED
    BY <2>3, <2>4
<1>7. ASSUME Shutdown(c)
      PROVE  Waiting(c)'
  <2>1. /\ requests'[c] = <<>> /\ responses'[c] = <<>> /\ decoder'[c] = Clean
        /\ completed'[c] = <<>>
    BY <1>7 DEF Shutdown, Stop, ResetDecoder, TypeOK
  <2>2. Queued(c)' = {} /\ InHand(c)' = {}
    BY <2>1 DEF Queued, Sent, Returned, Begun, InHand, Clean
  <2> QED
    BY <2>2 DEF Waiting
<1>8. ASSUME ~Turns(c)
      PROVE  Waiting(c)'
  <2>1. /\ latest'[c] = latest[c] /\ overtaken'[c] = overtaken[c]
        /\ pendingSequence'[c] = pendingSequence[c]
    BY <1>8, TurnsStep
  <2>2. Waits(c)' = Waits(c)
    BY <2>1 DEF Waits
  <2>3. ASSUME NEW t \in Threads, t[1] = c, SendMessage(t)
        PROVE  Waits(c)
    <3>1. t = <<c, t[2]>> /\ t[2] \in {"worker", "app"} /\ pc[t] = "send"
      BY <2>3, ThreadFacts DEF SendMessage
    <3> QED
      BY <3>1 DEF Stored
  <2>4. ASSUME Queued(c)' \subseteq Queued(c), InHand(c)' \subseteq InHand(c) \cup Queued(c)
        PROVE  Waiting(c)'
    BY <2>1, <2>2, <2>4 DEF Waiting
  <2>5. ASSUME completed[c] # <<>>, completed'[c] = Tail(completed[c])
        PROVE  InHand(c)' \subseteq InHand(c)
    BY <2>5, TailFacts DEF InHand
  <2>6. completed'[c] = completed[c] => InHand(c)' = InHand(c)
    BY DEF InHand
  <2>7. ASSUME NEW m \in Message, Completes(c, m)
        PROVE  InHand(c)' \subseteq InHand(c) \cup Queued(c)
    BY <2>7, HandFacts DEF Completes
  <2> QED
    BY <2>2, <2>3, <2>4, <2>5, <2>6, <2>7, NumbersMove DEF Waiting
<1> QED
  BY <1>1, <1>2, <1>3, <1>4, <1>5, <1>6, <1>7, <1>8 DEF Turns

(* From the store to the sending of a request its number stays pending, or *)
(* a response that was being accepted clears it.                           *)
LEMMA StoredStep ==
  ASSUME TypeOK, NEW c \in Clients, [Next]_vars, Accepting(c), Stored(c),
         \A t \in Threads : Sending(t)
  PROVE  Stored(c)'
<1>0. c \in Devices /\ \A w \in {"worker", "app"} : <<c, w>> \in Threads /\ <<c, w>>[1] = c
  BY ThreadFacts DEF Threads
<1>1. ASSUME \A w \in {"worker", "app"} : pc'[<<c, w>>] # "send"
      PROVE  Stored(c)'
  BY <1>1 DEF Stored
<1>2. ASSUME mutex[c] = None, \A u \in Threads : pc'[u] = pc[u] \/ pc'[u] # "send"
      PROVE  Stored(c)'
  <2>1. \A w \in {"worker", "app"} : ~Holding(<<c, w>>)
    BY <1>0, <1>2, OneHolds
  <2> QED
    BY <1>0, <1>1, <1>2, <2>1 DEF Holding
<1>3. ASSUME NEW t \in Threads, t[1] = c, Holding(t), mutex[c] = t[2],
             pc' = [pc EXCEPT ![t] = "idle"]
      PROVE  Stored(c)'
  <2>1. \A u \in Threads : u[1] = c /\ u # t => ~Holding(u)
    BY <1>3, OneHolds
  <2> QED
    BY <1>0, <1>1, <1>3, <2>1 DEF Holding, TypeOK
<1>4. ASSUME NEW t \in Threads, t[1] = c, BuildRequest(t)
      PROVE  Stored(c)'
  <2>1. mutex[c] = None /\ pc' = [pc EXCEPT ![t] = "publish"]
    BY <1>4 DEF BuildRequest, Lock, Goto
  <2> QED
    BY <1>2, <2>1 DEF TypeOK
<1>5. ASSUME NEW t \in Threads, t[1] = c, StorePending(t)
      PROVE  Stored(c)'
  <2>1. pendingSequence'[c] = request[c].sequence /\ latest' = latest
    BY <1>0, <1>5 DEF StorePending, SetPending, history, TypeOK, ProtocolTypeOK
  <2>2. request[c].sequence = latest[c]
    BY <1>5 DEF StorePending, Sending
  <2> QED
    BY <2>1, <2>2 DEF Stored, Waits
<1>6. ASSUME NEW t \in Threads, t[1] = c, SendFails(t)
      PROVE  Stored(c)'
  <2>1. Holding(t) /\ mutex[c] = t[2] /\ pc' = [pc EXCEPT ![t] = "idle"]
    BY <1>6 DEF SendFails, Sending, Goto, Holding
  <2> QED
    BY <1>3, <1>6, <2>1
<1>7. ASSUME NEW t \in Threads, t[1] = c, NEW up \in BOOLEAN, Reconnect(t, up)
      PROVE  Stored(c)'
  <2>1. mutex[c] = None /\ (UNCHANGED pc \/ Goto(t, "idle"))
    BY <1>7 DEF Reconnect, Reopen
  <2> QED
    BY <1>2, <2>1 DEF Goto, TypeOK
<1>8. ASSUME Reject(c)
      PROVE  Stored(c)'
  <2>1. PICK t : t = Worker(c)
    OBVIOUS
  <2>2. t \in Threads /\ t[1] = c
    BY <2>1, ThreadFacts
  <2>3. Holding(t) /\ mutex[c] = t[2] /\ pc' = [pc EXCEPT ![t] = "idle"]
    BY <1>8, <2>1, <2>2 DEF Reject, Sending, Goto, Holding
  <2> QED
    BY <1>3, <2>2, <2>3
<1>9. ASSUME Shutdown(c)
      PROVE  Stored(c)'
  BY <1>2, <1>9 DEF Shutdown
<1>10. ASSUME AcceptResponse(c)
       PROVE  Stored(c)'
  <2>1. PICK m : m = Head(completed[c])
    OBVIOUS
  <2>2. /\ latest' = latest
        /\ overtaken'[c] = (overtaken[c] \/ m.sequence # latest[c] \/ m.t1 = Noise)
        /\ completed[c] # <<>> /\ pc' = [pc EXCEPT ![Worker(c)] = "idle"]
    BY <1>10, <2>1 DEF AcceptResponse, Accepting, Goto, TypeOK
  <2>3. CASE m.sequence # latest[c] \/ m.t1 = Noise
    BY <2>2, <2>3 DEF Stored, Waits
  <2>4. CASE m.sequence = latest[c] /\ m.t1 # Noise
    <3>1. 1 \in 1..Len(completed[c]) /\ m = completed[c][1]
      BY <2>1, <2>2, LinesType
    <3>2. latest[c] \in Numbers(c) /\ latest[c] \in Sequences
      BY <2>4, <3>1 DEF Numbers, InHand, TypeOK
    <3>3. ~Below(c, Ordinal(latest[c]))
      BY <3>2, OrdinalType DEF Below
    <3>4. \A w \in {"worker", "app"} : pc[<<c, w>>] # "send"
      BY <1>0, <3>3 DEF Sending
    <3>5. \A u \in Threads : pc'[u] = pc[u] \/ pc'[u] = "idle"
      BY <2>2 DEF TypeOK
    <3> QED
      BY <1>0, <1>1, <3>4, <3>5
  <2> QED
    BY <2>3, <2>4
<1>11. ASSUME ~Turns(c)
       PROVE  Stored(c)'
  <2>1. Waits(c)' = Waits(c)
    BY <1>11, TurnsStep DEF Waits
  <2>2. ASSUME NEW w \in {"worker", "app"}, pc'[<<c, w>>] = "send"
        PROVE  pc[<<c, w>>] = "send"
    <3>1. CASE Quiet(c)
      BY <2>2, <3>1 DEF Quiet
    <3>2. CASE Iterate(c)
      <4>1. UNCHANGED pc \/ \E s \in {"read", "idle", "accept"} : Goto(Worker(c), s)
        BY <3>2 DEF Iterate, BeginRead, ReadFrame, Reject, EndRead, HandleMessage, AcceptResponse
      <4> QED
        BY <1>0, <2>2, <4>1 DEF Goto, TypeOK
    <3>3. ASSUME NEW t \in Threads, t[1] = c, RequestSynchronization(t)
          PROVE  pc[<<c, w>>] = "send"
      <4>1. EnterRequest(t) \/ GiveUp(t) \/ SendMessage(t)
        BY <1>11, <3>3 DEF RequestSynchronization, Turns
      <4>2. \E s \in {"lock", "idle"} : Goto(t, s)
        BY <4>1 DEF EnterRequest, GiveUp, SendMessage
      <4> QED
        BY <1>0, <2>2, <4>2 DEF Goto, TypeOK
    <3> QED
      BY <3>1, <3>2, <3>3, ControlStep
  <2> QED
    BY <2>1, <2>2 DEF Stored
<1> QED
  BY <1>4, <1>5, <1>6, <1>7, <1>8, <1>9, <1>10, <1>11 DEF Turns

(* Nothing is on its way at the start.                                     *)
LEMMA AnswerInit == Init => AnswerInv
<1> SUFFICES ASSUME Init, NEW c \in Clients
             PROVE  Linked(c) /\ InOrder(c) /\ Newest(c) /\ Waiting(c) /\ Stored(c)
  BY DEF AnswerInv
<1>1. \A w \in {"worker", "app"} : pc[<<c, w>>] = "idle"
  BY DEF Init, Threads
<1>2. /\ completed[c] = <<>> /\ requests[c] = <<>> /\ responses[c] = <<>> /\ decoder[c] = Clean
  BY DEF Init
<1>3. Queued(c) = {} /\ InHand(c) = {}
  BY <1>2 DEF Queued, Sent, Returned, Begun, InHand, Clean
<1> QED
  BY <1>1, <1>2, <1>3 DEF Linked, InOrder, Newest, Waiting, Stored

(* With the invariant before and after it, a step keeps this one too.      *)
LEMMA AnswerStep == IInv /\ IInv' /\ AnswerInv /\ [Next]_vars => AnswerInv'
<1> SUFFICES ASSUME IInv, IInv', AnswerInv, [Next]_vars, NEW c \in Clients
             PROVE  Linked(c)' /\ InOrder(c)' /\ Newest(c)' /\ Waiting(c)' /\ Stored(c)'
  BY DEF AnswerInv
<1>1. TypeOK /\ TypeOK' /\ \A t \in Threads : Sending(t)
  BY DEF IInv
<1>2. DataInv(c) /\ Accepting(c)
  BY DEF IInv, ClientInv, DataInv
<1>3. Linked(c) /\ InOrder(c) /\ Newest(c) /\ Waiting(c) /\ Stored(c)
  BY DEF AnswerInv
<1> QED
  BY <1>1, <1>2, <1>3, LinkedStep, InOrderStep, NewestStep, WaitingStep, StoredStep

(* The answer to a client's latest request is awaited for as long as it is *)
(* on its way: neither the worker that handles older responses nor a       *)
(* connection that is replaced clears the number of a request whose answer *)
(* can still be read, save for the response being accepted as it is        *)
(* stored, or a garbled message mistaken for the answer.                   *)
THEOREM AnswersStayAwaited == Spec => []AnswerAwaited
<1>1. AnswerInv => AnswerAwaited
  <2> SUFFICES ASSUME AnswerInv, NEW c \in Clients, NEW m \in OnItsWay(c), m.sequence = latest[c]
               PROVE  Waits(c)
    BY DEF AnswerAwaited, Waits
  <2>1. \/ m \in ToSet(completed[c]) /\ m.t1 # Noise
        \/ \E k \in 1..Len(responses[c]) : m = responses[c][k].message
    BY DEF OnItsWay
  <2>2. m \in ToSet(completed[c]) => \E k \in 1..Len(completed[c]) : m = completed[c][k]
    BY DEF ToSet
  <2>3. m.sequence \in InHand(c) \cup Returned(c)
    BY <2>1, <2>2 DEF InHand, Returned
  <2> QED
    BY <2>3 DEF AnswerInv, Waiting, Queued
<1> QED
  BY <1>1, AnswerInit, AnswerStep, Invariance, PTL DEF Spec

-----------------------------------------------------------------------------
\* The number of the message being accepted.
Held(c) == IF pc[Worker(c)] = "accept" THEN {Head(completed[c]).sequence} ELSE {}

\* The numbers taken or being taken were given, and neither the pending one
\* nor that about to be stored is of them, save a pending one being taken.
Spent(c) ==
  /\ \A n \in taken[c] \cup Held(c) : Ordinal(n) < nextSequence[c]
  /\ Held(c) \cap taken[c] = {}
  /\ pendingSequence[c] # 0 =>
       pendingSequence[c] \notin taken[c] /\ Ordinal(pendingSequence[c]) < nextSequence[c]
  /\ \A w \in {"worker", "app"} : pc[<<c, w>>] = "publish" =>
       /\ request[c].sequence \notin taken[c] \cup Held(c)
       /\ pendingSequence[c] # 0 => request[c].sequence # pendingSequence[c]

(* Numbers are given in building requests, and taken in accepting.         *)
LEMMA GivenAndTaken ==
  ASSUME TypeOK, NEW c \in Clients, [Next]_vars
  PROVE  /\ ~AcceptResponse(c) => taken'[c] = taken[c] /\ samples'[c] = samples[c]
         /\ (\A t \in Threads : t[1] = c => ~BuildRequest(t)) => nextSequence'[c] = nextSequence[c]
<1>1. c \in Devices /\ \A d \in Clients : d \in Devices
  BY ThreadFacts
<1>2. ASSUME NEW t \in Threads, RequestSynchronization(t)
      PROVE  /\ taken' = taken /\ samples' = samples
             /\ t[1] # c \/ ~BuildRequest(t) => nextSequence'[c] = nextSequence[c]
  <2>1. CASE BuildRequest(t)
    BY <1>1, <2>1, ThreadFacts DEF BuildRequest, NumberRequest, Number, TypeOK, ProtocolTypeOK
  <2>2. CASE ~BuildRequest(t)
    BY <1>2, <2>2, SMTT(30) DEF RequestSynchronization, Reconnect, Reopen, EnterRequest, GiveUp,
                    StorePending, SendMessage, SendFails, protocolVars, history
  <2> QED
    BY <2>1, <2>2
<1>3. ASSUME NEW d \in Clients, AcceptResponse(d)
      PROVE  /\ d # c => taken'[c] = taken[c] /\ samples'[c] = samples[c]
             /\ nextSequence' = nextSequence
  BY <1>1, <1>3 DEF AcceptResponse, Accept, Submit, TypeOK, ProtocolTypeOK
<1>4. ASSUME NEW d \in Clients, Iterate(d), ~AcceptResponse(d)
      PROVE  UNCHANGED <<taken, samples, nextSequence>>
  BY <1>4 DEF Iterate, BeginRead, ReadFrame, Reject, EndRead, HandleMessage, protocolVars, history
<1>5. ASSUME NEW d \in Clients, Shutdown(d) \/ Initialize(d) \/ Drop(d)
      PROVE  UNCHANGED <<taken, samples, nextSequence>>
  BY <1>5, SMTT(30) DEF Shutdown, Initialize, Drop, protocolVars, history
<1>6. CASE Serve \/ RestartServer \/ UNCHANGED vars
  <2>1. UNCHANGED <<taken, samples, nextSequence>>
    BY <1>6, Zenon DEF Serve, RefuseClient, AcceptClient, ReapClient, AnswerRequests, RestartServer, vars,
                protocolVars, history
  <2> QED
    BY <2>1
<1> QED
  BY <1>2, <1>3, <1>4, <1>5, <1>6 DEF Next

(* A step that gives and takes no number, and stores none, keeps this.     *)
LEMMA SpentKept ==
  ASSUME NEW c \in Clients, Spent(c), taken'[c] = taken[c], nextSequence'[c] = nextSequence[c],
         pendingSequence'[c] \in {pendingSequence[c], 0}, request'[c] = request[c],
         Held(c)' \subseteq Held(c),
         \A w \in {"worker", "app"} : pc'[<<c, w>>] = "publish" => pc[<<c, w>>] = "publish"
  PROVE  Spent(c)'
<1>1. \A n \in taken[c]' \cup Held(c)' : Ordinal(n)' < nextSequence[c]'
  BY DEF Spent, Ordinal
<1>2. Held(c)' \cap taken[c]' = {}
  BY DEF Spent
<1>3. pendingSequence'[c] # 0 =>
        pendingSequence'[c] \notin taken'[c] /\ Ordinal(pendingSequence[c])' < nextSequence'[c]
  BY DEF Spent, Ordinal
<1>4. \A w \in {"worker", "app"} : pc'[<<c, w>>] = "publish" =>
        /\ request'[c].sequence \notin taken'[c] \cup Held(c)'
        /\ pendingSequence'[c] # 0 => request'[c].sequence # pendingSequence'[c]
  BY DEF Spent
<1> QED
  BY <1>1, <1>2, <1>3, <1>4 DEF Spent

(* A number is given anew, pending only until a message is accepted, and   *)
(* taken only where it is pending: so it is taken once.                    *)
LEMMA SpentStep ==
  ASSUME TypeOK, TypeOK', NEW c \in Clients, [Next]_vars, Spent(c), DataInv(c), Accepting(c),
         \A t \in Threads : Sending(t)
  PROVE  Spent(c)'
<1>1. /\ c \in Devices /\ Worker(c) = <<c, "worker">>
      /\ \A w \in {"worker", "app"} : <<c, w>> \in Threads /\ <<c, w>>[1] = c
  BY ThreadFacts DEF Threads, Worker
<1>2. /\ ~AcceptResponse(c) => taken'[c] = taken[c]
      /\ (\A t \in Threads : t[1] = c => ~BuildRequest(t)) => nextSequence'[c] = nextSequence[c]
  BY GivenAndTaken
<1>3. taken[c] \subseteq Sequences /\ nextSequence[c] \in 1..(Modulus + 1) /\ Modulus \in Nat
  BY AskedType, ClockAssumption DEF TypeOK
<1>4. ASSUME NEW t \in Threads, t[1] = c, BuildRequest(t)
      PROVE  Spent(c)'
  <2>1. Number(c) /\ mutex[c] = None
    BY <1>4 DEF BuildRequest, NumberRequest, Lock
  <2>2. nextSequence[c] \in 1..Modulus /\ nextSequence'[c] = nextSequence[c] + 1
    BY <1>1, <1>3, <2>1 DEF Number, TypeOK, ProtocolTypeOK
  <2>3. Ordinal(Sequence(c)) = nextSequence[c] /\ Sequence(c) \in Sequences
    BY <2>2, NumberFacts DEF Sequence
  <2>4. /\ request'[c].sequence = Sequence(c) /\ pendingSequence' = pendingSequence
        /\ completed' = completed /\ pc' = [pc EXCEPT ![t] = "publish"]
    BY <1>4 DEF BuildRequest, Request, Goto, TypeOK
  <2>5. taken'[c] = taken[c]
    BY <1>4 DEF BuildRequest
  <2>6. Held(c)' \subseteq Held(c)
    BY <1>1, <2>4 DEF Held, TypeOK
  <2>7. \A n \in Sequences : Ordinal(n) < nextSequence[c] => Ordinal(n) < nextSequence[c] + 1 /\ n # Sequence(c)
    BY <2>2, <2>3, OrdinalType, ClockAssumption
  <2>8. Held(c) \subseteq Sequences
    <3>1. pc[Worker(c)] = "accept" => Head(completed[c]) \in Message
      BY LinesType, HeadTailProperties DEF Accepting
    <3> QED
      BY <3>1 DEF Held, Message
  <2>9. pendingSequence[c] \in Sequences
    BY AskedType
  <2>10. \A n \in taken'[c] \cup Held(c)' : Ordinal(n) < nextSequence'[c] /\ n # Sequence(c)
    BY <1>3, <2>2, <2>5, <2>6, <2>7, <2>8 DEF Spent
  <2>11. Held(c)' \cap taken'[c] = {}
    BY <2>5, <2>6 DEF Spent
  <2>12. pendingSequence[c] # 0 =>
           /\ pendingSequence[c] \notin taken'[c] /\ Ordinal(pendingSequence[c]) < nextSequence'[c]
           /\ pendingSequence[c] # Sequence(c)
    BY <2>2, <2>5, <2>7, <2>9 DEF Spent
  <2> QED
    BY <2>4, <2>10, <2>11, <2>12 DEF Spent, Ordinal
<1>5. ASSUME NEW t \in Threads, t[1] = c, StorePending(t)
      PROVE  Spent(c)'
  <2>1. /\ pendingSequence'[c] = request[c].sequence /\ request' = request
        /\ nextSequence' = nextSequence /\ taken' = taken /\ completed' = completed
        /\ pc[t] = "publish" /\ pc' = [pc EXCEPT ![t] = "send"]
    BY <1>1, <1>5 DEF StorePending, SetPending, Goto, history, TypeOK, ProtocolTypeOK
  <2>2. t = <<c, t[2]>> /\ t[2] \in {"worker", "app"}
    BY <1>5, ThreadFacts
  <2>3. request[c].sequence \notin taken[c]
    BY <2>1, <2>2 DEF Spent
  <2>4. Genuine(c, request[c])
    BY <1>5, <2>1 DEF Sending
  <2>5. Ordinal(request[c].sequence) < nextSequence[c]
    BY <2>4 DEF Genuine, DataInv, Numbering
  <2>6. Held(c)' \subseteq Held(c)
    BY <1>1, <2>1 DEF Held, TypeOK
  <2>7. \A w \in {"worker", "app"} : pc'[<<c, w>>] # "publish"
    <3>1. mutex[c] = t[2]
      BY <1>5, <2>1 DEF Sending
    <3>2. \A u \in Threads : u[1] = c /\ u # t => ~Holding(u)
      BY <1>5, <3>1, OneHolds
    <3> QED
      BY <1>1, <2>1, <3>2 DEF Holding, TypeOK
  <2>8. \A n \in taken'[c] \cup Held(c)' : Ordinal(n) < nextSequence'[c]
    BY <2>1, <2>6 DEF Spent
  <2>9. Held(c)' \cap taken'[c] = {}
    BY <2>1, <2>6 DEF Spent
  <2> QED
    BY <2>1, <2>3, <2>5, <2>7, <2>8, <2>9 DEF Spent, Ordinal
<1>6. ASSUME NEW t \in Threads, t[1] = c,
             EnterRequest(t) \/ GiveUp(t) \/ SendMessage(t) \/ SendFails(t)
               \/ \E up \in BOOLEAN : Reconnect(t, up)
      PROVE  Spent(c)'
  <2>1. /\ taken' = taken /\ nextSequence' = nextSequence /\ request' = request
        /\ completed' = completed
    BY <1>6 DEF EnterRequest, GiveUp, SendMessage, SendFails, Reconnect, Reopen, protocolVars, history
  <2>2. pendingSequence'[c] \in {pendingSequence[c], 0}
    BY <1>1, <1>6 DEF EnterRequest, GiveUp, SendMessage, SendFails, Reconnect, Reopen, SetPending,
                      protocolVars, TypeOK, ProtocolTypeOK
  <2>3. \A u \in Threads : pc'[u] = pc[u] \/ pc'[u] \in {"lock", "idle"}
    BY <1>6 DEF EnterRequest, GiveUp, SendMessage, SendFails, Reconnect, Reopen, Goto, TypeOK
  <2>4. Held(c)' \subseteq Held(c)
    BY <1>1, <2>1, <2>3 DEF Held
  <2> QED
    BY <1>1, <2>1, <2>2, <2>3, <2>4, SpentKept
<1>7. CASE HandleMessage(c) /\ Matches(c, Head(completed[c]))
  <2>1. /\ UNCHANGED <<nextSequence, pendingSequence, request, taken, completed>>
        /\ pc' = [pc EXCEPT ![Worker(c)] = "accept"] /\ pc[Worker(c)] = "idle"
    BY <1>7 DEF HandleMessage, Goto, history
  <2>2. Head(completed[c]).sequence = pendingSequence[c] /\ pendingSequence[c] # 0
    BY <1>7 DEF Matches
  <2>3. Held(c)' = {pendingSequence[c]}
    BY <1>1, <2>1, <2>2 DEF Held, TypeOK
  <2>4. \A w \in {"worker", "app"} : pc'[<<c, w>>] = "publish" => pc[<<c, w>>] = "publish"
    BY <1>1, <2>1 DEF TypeOK
  <2> QED
    BY <2>1, <2>2, <2>3, <2>4 DEF Spent, Ordinal
<1>8. CASE AcceptResponse(c)
  <2>1. /\ UNCHANGED <<nextSequence, request>> /\ pendingSequence'[c] = 0
        /\ taken'[c] = taken[c] \cup {Head(completed[c]).sequence}
        /\ pc[Worker(c)] = "accept" /\ pc' = [pc EXCEPT ![Worker(c)] = "idle"]
    BY <1>1, <1>8 DEF AcceptResponse, Accept, SetPending, Goto, TypeOK, ProtocolTypeOK
  <2>2. taken'[c] = taken[c] \cup Held(c) /\ Held(c)' = {}
    BY <1>1, <2>1 DEF Held, TypeOK
  <2>3. \A w \in {"worker", "app"} : pc'[<<c, w>>] = "publish" => pc[<<c, w>>] = "publish"
    BY <1>1, <2>1 DEF TypeOK
  <2> QED
    BY <2>1, <2>2, <2>3 DEF Spent, Ordinal
<1>9. CASE \/ BeginRead(c) \/ ReadFrame(c) \/ Reject(c) \/ EndRead(c)
           \/ HandleMessage(c) /\ ~Matches(c, Head(completed[c]))
  <2>1. taken' = taken /\ nextSequence' = nextSequence /\ request' = request
    BY <1>9 DEF BeginRead, ReadFrame, Reject, EndRead, HandleMessage, protocolVars, history
  <2>2. pendingSequence'[c] \in {pendingSequence[c], 0}
    BY <1>1, <1>9 DEF BeginRead, ReadFrame, Reject, EndRead, HandleMessage, SetPending, protocolVars,
                      TypeOK, ProtocolTypeOK
  <2>3. \A u \in Threads : pc'[u] = pc[u] \/ pc'[u] \in {"read", "idle"}
    BY <1>9 DEF BeginRead, ReadFrame, Reject, EndRead, HandleMessage, Goto, TypeOK
  <2>4. pc[Worker(c)] # "accept"
    BY <1>9 DEF BeginRead, ReadFrame, Reject, EndRead, HandleMessage
  <2>5. Held(c)' \subseteq Held(c)
    BY <1>1, <2>3, <2>4 DEF Held
  <2> QED
    BY <1>1, <2>1, <2>2, <2>3, <2>5, SpentKept
<1>10. CASE Quiet(c)
  <2>1. ~AcceptResponse(c) /\ \A t \in Threads : t[1] = c => ~BuildRequest(t)
    <3>1. ASSUME AcceptResponse(c)
          PROVE  FALSE
      BY <1>1, <1>10, <3>1 DEF AcceptResponse, Goto, Quiet, TypeOK
    <3>2. ASSUME NEW t \in Threads, t[1] = c, BuildRequest(t)
          PROVE  FALSE
      <4>1. t = <<c, t[2]>> /\ t[2] \in {"worker", "app"}
        BY <3>2, ThreadFacts
      <4>2. pc[t] = "lock" /\ pc'[t] = "publish"
        BY <3>2 DEF BuildRequest, Goto, TypeOK
      <4> QED
        BY <1>10, <4>1, <4>2 DEF Quiet
    <3> QED
      BY <3>1, <3>2
  <2>2. Held(c)' \subseteq Held(c)
    BY <1>1, <1>10 DEF Held, Quiet
  <2> QED
    BY <1>2, <1>10, <2>1, <2>2, SpentKept DEF Quiet
<1>11. ASSUME NEW t \in Threads, t[1] = c, RequestSynchronization(t)
       PROVE  Spent(c)'
  BY <1>4, <1>5, <1>6, <1>11 DEF RequestSynchronization
<1> QED
  BY <1>7, <1>8, <1>9, <1>10, <1>11, ControlStep DEF Iterate

(* A client takes at most one sample for each number it gives: neither a   *)
(* second answer nor a garbled message that is mistaken for one yields     *)
(* another of the same request.                                            *)
THEOREM NumbersUsedOnce == Spec => EachNumberOnce
<1> DEFINE SpentInv == \A c \in Clients : Spent(c)
<1>1. Init => SpentInv
  <2> SUFFICES ASSUME Init, NEW c \in Clients
               PROVE  Spent(c)
    OBVIOUS
  <2>1. c \in Devices /\ Worker(c) \in Threads /\ \A w \in {"worker", "app"} : <<c, w>> \in Threads
    BY ThreadFacts DEF Threads
  <2>2. /\ taken[c] = {} /\ pendingSequence[c] = 0 /\ pc[Worker(c)] = "idle"
        /\ \A w \in {"worker", "app"} : pc[<<c, w>>] = "idle"
    BY <2>1 DEF Init, ProtocolInit
  <2>3. Held(c) = {}
    BY <2>2 DEF Held
  <2> QED
    BY <2>2, <2>3 DEF Spent
<1>2. IInv /\ IInv' /\ SpentInv /\ [Next]_vars => SpentInv'
  BY SpentStep DEF IInv, ClientInv, DataInv
<1>3. IInv /\ SpentInv /\ [Next]_vars
        => [\A c \in Clients : samples'[c] # samples[c] => taken'[c] # taken[c]]_vars
  <2> SUFFICES ASSUME IInv, SpentInv, [Next]_vars, NEW c \in Clients, samples'[c] # samples[c]
               PROVE  taken'[c] # taken[c]
    OBVIOUS
  <2>1. AcceptResponse(c) /\ TypeOK
    BY GivenAndTaken DEF IInv
  <2>2. /\ taken'[c] = taken[c] \cup {Head(completed[c]).sequence}
        /\ Held(c) = {Head(completed[c]).sequence}
    BY <2>1 DEF AcceptResponse, Held, TypeOK
  <2> QED
    BY <2>2 DEF Spent
<1> QED
  BY <1>1, <1>2, <1>3, Invariance, PTL DEF Spec, EachNumberOnce

=============================================================================
