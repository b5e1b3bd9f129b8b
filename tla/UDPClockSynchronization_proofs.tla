------------------ MODULE UDPClockSynchronization_proofs ------------------
(***************************************************************************)
(* Proofs about UDPClockSynchronization, for any number of devices in any  *)
(* modes, any width of the sequence numbers, and packets that are lost,    *)
(* duplicated and reordered.  That the carrier implements the exchange     *)
(* needs the application of a reference to stay out of the synchronizer:   *)
(* its broadcast may otherwise be written into the packet the worker       *)
(* builds for a client.                                                    *)
(***************************************************************************)
EXTENDS UDPClockSynchronization, SocketClockSynchronizationProtocol_proofs, SequenceTheorems,
        TLAPS

Visited(m, r) ==
  /\ m.t2 \in Stamp /\ m.t2.by = r
  /\ m.t3 \in Stamp /\ m.t3.by = r
  /\ m.t2.at < m.t3.at

\* What d may send to an address: a request of its own, the answer to one of
\* the addressee, its time.
Sound(d, to, m) ==
  /\ m.type = "Request" => Genuine(d, m)
  /\ m.type = "Response" =>
       d \in References /\ to \in Devices /\ Genuine(to, m) /\ Visited(m, d)
  /\ m.type = "AuthoritativeBroadcast" => d \in References /\ m.t3 \in Stamp /\ m.t3.by = d

\* Numbers are given once, and with them times of the device's own clock.
Numbered(d) ==
  /\ \A q \in asked[d] :
       Ordinal(q.sequence) < nextSequence[d] /\ q.t1.by = d /\ q.t1.at =< clock[d]
  /\ \A p, q \in asked[d] : p.t1 = q.t1 <=> p.sequence = q.sequence
  /\ \A s \in samples[d] : s.t1.by = d /\ s.t1.at =< clock[d]
  /\ pendingSequence[d] < nextSequence[d]

\* No sample is of the request with this number.
Fresh(d, n) == \A q \in asked[d], s \in samples[d] : q.sequence = n => s.t1 # q.t1

\* The number of a message a thread is about to publish or to accept.
Holds(t, n) == pc[t] \in {"publish", "accept"} /\ job[t].message.sequence = n

\* A number is published once, and no response to it was accepted before.
Unsampled(d) ==
  /\ pendingSequence[d] # 0 => Fresh(d, pendingSequence[d])
  /\ \A t \in Threads : t[1] = d /\ pc[t] \in {"publish", "accept"} =>
       Fresh(d, job[t].message.sequence)
  /\ \A t \in Threads : t[1] = d /\ pc[t] = "publish" =>
       /\ pendingSequence[d] \in {0} \/ pendingSequence[d] # job[t].message.sequence
       /\ \A u \in Threads : u[1] = d /\ u # t => ~Holds(u, job[t].message.sequence)

\* A thread sends what it may.
Sending(t) ==
  /\ pc[t] \in {"publish", "begin", "write", "end"} => Sound(t[1], job[t].to, job[t].message)
  /\ pc[t] = "publish" => job[t].message.type = "Request"

\* A reference answers a request of the device it was sent by.
Answering(t) ==
  pc[t] = "respond" =>
    /\ t = Worker(t[1]) /\ t[1] \in References
    /\ job[t].message.type = "Response"
    /\ job[t].to \in Devices /\ Genuine(job[t].to, job[t].message)
    /\ job[t].message.t2 \in Stamp
    /\ job[t].message.t2.by = t[1] /\ job[t].message.t2.at =< clock[t[1]]

\* A client examines an answer to a request of its own.
Examining(t) ==
  pc[t] \in {"match", "accept"} =>
    /\ t = Worker(t[1]) /\ t[1] \in Clients
    /\ Genuine(t[1], job[t].message)
    /\ \E r \in References : Visited(job[t].message, r)
    /\ job[t].at \in Stamp /\ job[t].at.by = t[1]
    /\ job[t].message.t1.at < job[t].at.at
    /\ pc[t] = "accept" => job[t].message.sequence # 0

\* The packet of a reference is the one its worker builds; that of another
\* device may be mixed up by its threads, and holds its requests.
Built(d) ==
  IF d \in References
  THEN /\ pc[<<d, "app">>] = "idle"
       /\ pc[Worker(d)] = "write" => packet[d] = [to |-> job[Worker(d)].to, contents |-> <<>>]
       /\ pc[Worker(d)] = "end" =>
            packet[d] = [to |-> job[Worker(d)].to, contents |-> <<job[Worker(d)].message>>]
  ELSE \A k \in 1..Len(packet[d].contents) :
         packet[d].contents[k].type = "Request" /\ Genuine(d, packet[d].contents[k])

\* Whatever becomes of packets, a message carries the stamps of its type.
Stamped(m) ==
  /\ m.type \in {"Request", "Response"} => m.t1 \in Stamp
  /\ m.type = "Response" => m.t2 \in Stamp /\ m.t3 \in Stamp
  /\ m.type = "AuthoritativeBroadcast" => m.t3 \in Stamp

Loaded(t) ==
  /\ pc[t] \in {"publish", "begin", "write", "end"} => Stamped(job[t].message)
  /\ pc[t] = "respond" =>
       job[t].message.type = "Response" /\ {job[t].message.t1, job[t].message.t2} \subseteq Stamp
  /\ pc[t] \in {"match", "accept"} =>
       job[t].message.type = "Response" /\ Stamped(job[t].message) /\ job[t].at \in Stamp

Contents(p) == \A k \in 1..Len(p.contents) : Stamped(p.contents[k])

TInv ==
  /\ TypeOK
  /\ \A t \in Threads : Loaded(t)
  /\ \A d \in Devices : Contents(packet[d])
  /\ \A p \in network : Contents(p)

Carries(t) == Sending(t) /\ Answering(t) /\ Examining(t)

Delivers(p) == \A k \in 1..Len(p.contents) : Sound(p.from, p.to, p.contents[k])

IInv ==
  /\ TypeOK
  /\ \A d \in Devices : Numbered(d) /\ Unsampled(d) /\ Built(d)
  /\ \A t \in Threads : Carries(t)
  /\ \A p \in network : Delivers(p)

-----------------------------------------------------------------------------
(* Threads, addresses and the types of what the protocol holds.            *)
LEMMA ThreadFacts ==
  /\ \A t \in Threads : t[1] \in Devices /\ t[2] \in {"worker", "app"} /\ t = <<t[1], t[2]>>
  /\ \A d \in Devices : Worker(d) \in Threads /\ Worker(d)[1] = d /\ Worker(d)[2] = "worker"
                        /\ <<d, "app">> \in Threads /\ <<d, "app">> # Worker(d)
  /\ \A d, e \in Devices : d # e => Worker(d) # Worker(e)
  /\ Clients \subseteq Devices /\ References \subseteq Devices /\ None \notin Devices
  /\ Devices \subseteq Addresses /\ All \in Addresses /\ None \in Addresses
BY CarrierAssumption, ClockAssumption DEF Threads, Worker, Devices, Addresses

(* A device's stamps, the messages built from them, and the empty job.     *)
LEMMA MessageFacts ==
  /\ \A d \in Devices, n \in Nat : [by |-> d, at |-> n] \in Stamp
  /\ \A s \in Sequences, t \in Stamps : Request(s, t) \in Message /\ Broadcast(s, t) \in Message
  /\ \A m \in Message, t \in Stamps :
       Response(m, t) \in Message /\ [m EXCEPT !.t3 = t] \in Message
  /\ None \in Stamps /\ None \notin Stamp /\ Stamp \subseteq Stamps
  /\ Idle.message \in Message /\ Idle.to \in Addresses /\ Idle.at \in Stamps
  /\ Idle \in [message : Message, to : Addresses, at : Stamps]
<1>1. /\ \A d \in Devices, n \in Nat : [by |-> d, at |-> n] \in Stamp
      /\ None \in Stamps /\ None \notin Stamp /\ Stamp \subseteq Stamps
  BY ClockAssumption DEF Stamp, Stamps
<1>2. \A s \in Sequences, t \in Stamps : Request(s, t) \in Message /\ Broadcast(s, t) \in Message
  BY <1>1 DEF Message, Request, Broadcast
<1>3. \A m \in Message, t \in Stamps : Response(m, t) \in Message /\ [m EXCEPT !.t3 = t] \in Message
  BY DEF Message, Response
<1>4. Request(0, None) \in Message
  BY <1>1, <1>2, OrdinalType
<1> QED
  BY <1>1, <1>2, <1>3, <1>4 DEF Idle, Addresses

(* The types hold at the start.                                            *)
LEMMA TypeInit == Init => TypeOK
<1> SUFFICES ASSUME Init PROVE TypeOK
  OBVIOUS
<1>1. ProtocolTypeOK
  BY ClockAssumption, OrdinalType DEF Init, ProtocolInit, ProtocolTypeOK
<1>2. [d \in Devices |-> [to |-> None, contents |-> <<>>]]
        \in [Devices -> [to : Addresses, contents : Seq(Message)]]
  BY DEF Addresses
<1> QED
  BY <1>1, <1>2, MessageFacts DEF Init, TypeOK, Steps

(* Reading a clock gives a stamp, and leaves it within its bound.          *)
LEMMA ReadType ==
  ASSUME TypeOK, NEW d \in Devices
  PROVE  /\ Now(d) \in Stamp /\ Now(d).by = d /\ Now(d).at = clock[d] + 1
         /\ clock[d] \in Nat
         /\ Read(d) => /\ clock' \in [Devices -> Nat]
                       /\ \A e \in Devices : clock'[e] =< MaxReadings[e]
                       /\ clock'[d] = clock[d] + 1
                       /\ \A e \in Devices : e # d => clock'[e] = clock[e]
<1>1. clock \in [Devices -> Nat] /\ MaxReadings \in [Devices -> Nat]
      /\ \A e \in Devices : clock[e] =< MaxReadings[e]
  BY ClockAssumption DEF TypeOK, ProtocolTypeOK
<1>2. Now(d) \in Stamp /\ Now(d).by = d /\ Now(d).at = clock[d] + 1
  BY <1>1, MessageFacts DEF Now
<1> QED
  BY <1>1, <1>2 DEF Read

(* Giving a number keeps the counter within its bound.                     *)
LEMMA NumberType ==
  ASSUME TypeOK, NEW d \in Devices, Number(d)
  PROVE  /\ Sequence(d) \in Sequences /\ Ordinal(Sequence(d)) = nextSequence[d]
         /\ nextSequence' \in [Devices -> 1..(Modulus + 1)]
         /\ nextSequence'[d] = nextSequence[d] + 1
         /\ \A e \in Devices : e # d => nextSequence'[e] = nextSequence[e]
<1>1. nextSequence \in [Devices -> 1..(Modulus + 1)] /\ Modulus \in Nat
  BY ClockAssumption DEF TypeOK, ProtocolTypeOK
<1>2. nextSequence[d] \in 1..Modulus
  BY <1>1 DEF Number
<1> QED
  BY <1>1, <1>2, NumberFacts DEF Number, Sequence

-----------------------------------------------------------------------------
(* The steps of an operation, and of those only these change what an       *)
(* invariant of the numbers is about.                                      *)

\* What the step leaves of the other threads and of the other devices.
Moves(t) ==
  /\ \A u \in Threads : u # t => pc'[u] = pc[u] /\ job'[u] = job[u]
  /\ \A e \in Devices : e # t[1] =>
       /\ clock'[e] = clock[e] /\ nextSequence'[e] = nextSequence[e]
       /\ pendingSequence'[e] = pendingSequence[e] /\ packet'[e] = packet[e]
       /\ asked'[e] = asked[e] /\ samples'[e] = samples[e]

\* Nothing is asked or sampled; time passes, and numbers are given.
Calm(d) ==
  /\ asked' = asked /\ samples' = samples
  /\ clock'[d] >= clock[d] /\ nextSequence'[d] >= nextSequence[d]
  /\ pendingSequence'[d] \in {0, pendingSequence[d]}

(* A thread that goes to a step, and one that rests.                       *)
LEMMA GotoFacts ==
  ASSUME TypeOK, NEW t \in Threads, NEW s \in Steps
  PROVE  /\ Goto(t, s) => /\ pc' \in [Threads -> Steps] /\ pc'[t] = s
                          /\ \A u \in Threads : u # t => pc'[u] = pc[u]
         /\ Rest(t) => /\ pc' \in [Threads -> Steps] /\ pc'[t] = "idle"
                       /\ \A u \in Threads : u # t => pc'[u] = pc[u] /\ job'[u] = job[u]
                       /\ job' \in [Threads -> [message : Message, to : Addresses, at : Stamps]]
<1>1. pc \in [Threads -> Steps] /\ "idle" \in Steps
      /\ job \in [Threads -> [message : Message, to : Addresses, at : Stamps]]
  BY DEF TypeOK, Steps
<1>2. ASSUME NEW r \in Steps, Goto(t, r)
      PROVE  pc' \in [Threads -> Steps] /\ pc'[t] = r
             /\ \A u \in Threads : u # t => pc'[u] = pc[u]
  BY <1>1, <1>2 DEF Goto
<1>3. ASSUME Rest(t)
      PROVE  /\ \A u \in Threads : u # t => job'[u] = job[u]
             /\ job' \in [Threads -> [message : Message, to : Addresses, at : Stamps]]
             /\ Goto(t, "idle")
  <2>1. job' = [job EXCEPT ![t] = Idle] /\ Goto(t, "idle")
    BY <1>3 DEF Rest
  <2> QED
    BY <1>1, <2>1, MessageFacts
<1> QED
  BY <1>1, <1>2, <1>3

(* The types of what a carrier adds to the protocol.                       *)
LEMMA Types ==
  ASSUME TypeOK
  PROVE  /\ pc \in [Threads -> Steps]
         /\ job \in [Threads -> [message : Message, to : Addresses, at : Stamps]]
         /\ \A t \in Threads : job[t].message \in Message /\ job[t].to \in Addresses
                               /\ job[t].at \in Stamps /\ job[t].message.sequence \in Sequences
         /\ packet \in [Devices -> [to : Addresses, contents : Seq(Message)]]
         /\ \A d \in Devices : packet[d].to \in Addresses /\ packet[d].contents \in Seq(Message)
         /\ \A p \in network : p.from \in Devices /\ p.to \in Addresses /\ p.contents \in Seq(Message)
         /\ \A p \in network : Len(p.contents) = 1 =>
              Head(p.contents) = p.contents[1] /\ p.contents[1] \in Message
         /\ clock \in [Devices -> Nat] /\ \A d \in Devices : clock[d] =< MaxReadings[d]
         /\ nextSequence \in [Devices -> 1..(Modulus + 1)]
         /\ pendingSequence \in [Devices -> Sequences]
         /\ asked \in [Devices -> SUBSET [sequence : Sequences, t1 : Stamp]]
         /\ samples \in [Devices -> SUBSET Sample]
<1>1. \A t \in Threads : job[t] \in [message : Message, to : Addresses, at : Stamps]
  BY DEF TypeOK
<1>2. \A m \in Message : m.sequence \in Sequences
  BY DEF Message
<1>3. \A d \in Devices : packet[d] \in [to : Addresses, contents : Seq(Message)]
  BY DEF TypeOK
<1>4. \A p \in network : p.from \in Devices /\ p.to \in Addresses /\ p.contents \in Seq(Message)
  BY DEF TypeOK, Packet
<1>5. \A p \in network : Len(p.contents) = 1 =>
        Head(p.contents) = p.contents[1] /\ p.contents[1] \in Message
  BY <1>4
<1> QED
  BY <1>1, <1>2, <1>3, <1>4, <1>5 DEF TypeOK, ProtocolTypeOK

(* The steps that call.                                                    *)
LEMMA CallType ==
  ASSUME TypeOK, NEW t \in Threads, Call(t)
  PROVE  TypeOK'
<1> DEFINE d == t[1]
           Jobs == [message : Message, to : Addresses, at : Stamps]
<1>1. d \in Devices /\ \A s \in Steps : Goto(t, s) => pc' \in [Threads -> Steps]
  BY ThreadFacts, GotoFacts
<1>2. ASSUME BuildRequest(t) PROVE TypeOK'
  <2>1. /\ Now(d) \in Stamp /\ Sequence(d) \in Sequences
        /\ clock' \in [Devices -> Nat] /\ \A e \in Devices : clock'[e] =< MaxReadings[e]
        /\ nextSequence' \in [Devices -> 1..(Modulus + 1)]
    BY <1>1, <1>2, ReadType, NumberType DEF BuildRequest, NumberRequest
  <2>2. asked' \in [Devices -> SUBSET [sequence : Sequences, t1 : Stamp]]
        /\ samples' \in [Devices -> SUBSET Sample]
    BY <1>1, <1>2, <2>1, Types DEF BuildRequest, NumberRequest
  <2>3. [message |-> Request(Sequence(d), Now(d)), to |-> ReferenceOf[d], at |-> None] \in Jobs
    <3>1. ReferenceOf[d] \in Addresses
      BY <1>2, CarrierAssumption, ThreadFacts DEF BuildRequest
    <3> QED
      BY <2>1, <3>1, MessageFacts
  <2>4. job' \in [Threads -> Jobs]
    BY <1>2, <2>3, Types DEF BuildRequest
  <2>5. pc' \in [Threads -> Steps]
    BY <1>1, <1>2 DEF BuildRequest, Steps
  <2> QED
    BY <1>2, <2>1, <2>2, <2>4, <2>5, Types DEF BuildRequest, TypeOK, ProtocolTypeOK
<1>3. ASSUME StorePending(t) PROVE TypeOK'
  <2>1. pendingSequence' \in [Devices -> Sequences]
    BY <1>1, <1>3, Types DEF StorePending, SetPending
  <2>2. pc' \in [Threads -> Steps]
    BY <1>1, <1>3 DEF StorePending, Steps
  <2> QED
    BY <1>3, <2>1, <2>2 DEF StorePending, TypeOK, ProtocolTypeOK
<1>4. ASSUME BuildBroadcast(t) PROVE TypeOK'
  <2>1. /\ Now(d) \in Stamp /\ Sequence(d) \in Sequences
        /\ clock' \in [Devices -> Nat] /\ \A e \in Devices : clock'[e] =< MaxReadings[e]
        /\ nextSequence' \in [Devices -> 1..(Modulus + 1)]
    BY <1>1, <1>4, ReadType, NumberType DEF BuildBroadcast
  <2>2. [message |-> Broadcast(Sequence(d), Now(d)), to |-> All, at |-> None] \in Jobs
    BY <2>1, MessageFacts, ThreadFacts
  <2>3. job' \in [Threads -> Jobs]
    BY <1>4, <2>2, Types DEF BuildBroadcast
  <2>4. pc' \in [Threads -> Steps]
    BY <1>1, <1>4 DEF BuildBroadcast, Steps
  <2> QED
    BY <1>4, <2>1, <2>3, <2>4, Types DEF BuildBroadcast, TypeOK, ProtocolTypeOK
<1>5. ASSUME BeginPacket(t) PROVE TypeOK'
  <2>1. packet' \in [Devices -> [to : Addresses, contents : Seq(Message)]]
    <3>1. [to |-> job[t].to, contents |-> <<>>] \in [to : Addresses, contents : Seq(Message)]
      BY Types
    <3> QED
      BY <1>5, <3>1, Types DEF BeginPacket
  <2>2. pc' \in [Threads -> Steps]
    BY <1>1, <1>5 DEF BeginPacket, Steps
  <2> QED
    BY <1>5, <2>1, <2>2 DEF BeginPacket, TypeOK, ProtocolTypeOK
<1>6. ASSUME Write(t) PROVE TypeOK'
  <2>1. Append(packet[d].contents, job[t].message) \in Seq(Message)
    BY <1>1, Types
  <2>2. packet' \in [Devices -> [to : Addresses, contents : Seq(Message)]]
    BY <1>6, <2>1, Types, ZenonT(40) DEF Write
  <2>3. pc' \in [Threads -> Steps]
    BY <1>1, <1>6 DEF Write, Steps
  <2> QED
    BY <1>6, <2>2, <2>3 DEF Write, TypeOK, ProtocolTypeOK
<1>7. ASSUME EndPacket(t) PROVE TypeOK'
  <2>1. [from |-> d, to |-> packet[d].to, contents |-> packet[d].contents] \in Packet
    BY <1>1, Types DEF Packet
  <2>2. network' \subseteq Packet
    BY <1>7, <2>1 DEF EndPacket, TypeOK
  <2>3. pc' \in [Threads -> Steps] /\ job' \in [Threads -> Jobs]
    BY <1>7, GotoFacts DEF EndPacket, Steps
  <2> QED
    BY <1>7, <2>2, <2>3 DEF EndPacket, TypeOK, ProtocolTypeOK
<1>8. ASSUME SendFails(t) PROVE TypeOK'
  <2>1. pc' \in [Threads -> Steps] /\ job' \in [Threads -> Jobs]
    BY <1>8, GotoFacts, Types DEF SendFails, Steps
  <2> QED
    BY <1>8, <2>1 DEF SendFails, TypeOK, ProtocolTypeOK
<1>9. ASSUME CancelPendingRequest(t) PROVE TypeOK'
  <2>1. pendingSequence' \in [Devices -> Sequences]
    BY <1>1, <1>9, Types, OrdinalType DEF CancelPendingRequest, SetPending
  <2>2. pc' \in [Threads -> Steps] /\ job' \in [Threads -> Jobs]
    BY <1>9, GotoFacts DEF CancelPendingRequest, Steps
  <2> QED
    BY <1>9, <2>1, <2>2 DEF CancelPendingRequest, TypeOK, ProtocolTypeOK
<1> QED
  BY <1>2, <1>3, <1>4, <1>5, <1>6, <1>7, <1>8, <1>9 DEF Call, Send

(* The steps that handle a packet.                                         *)
LEMMA HandleType ==
  ASSUME TInv, NEW d \in Devices, HandlePacket(d)
  PROVE  TypeOK'
<1> TypeOK
  BY DEF TInv
<1> DEFINE t == Worker(d)
           Jobs == [message : Message, to : Addresses, at : Stamps]
<1>1. t \in Threads /\ \A s \in Steps : Goto(t, s) => pc' \in [Threads -> Steps]
  BY ThreadFacts, GotoFacts
<1>2. Now(d) \in Stamp /\ Now(d) \in Stamps
      /\ (Read(d) => /\ clock' \in [Devices -> Nat]
                     /\ \A e \in Devices : clock'[e] =< MaxReadings[e])
  BY ReadType, MessageFacts
<1>3. \A p \in network : Len(p.contents) = 1 =>
        Head(p.contents) \in Message /\ p.from \in Addresses
  BY Types, ThreadFacts
<1>4. ASSUME NEW p \in network, ReceiveRequest(d, p) PROVE TypeOK'
  <2>1. [message |-> Response(Head(p.contents), Now(d)), to |-> p.from, at |-> Now(d)] \in Jobs
    BY <1>2, <1>3, <1>4, MessageFacts DEF ReceiveRequest, Arrives
  <2>2. job' \in [Threads -> Jobs]
    BY <1>4, <2>1, Types DEF ReceiveRequest
  <2>3. pc' \in [Threads -> Steps]
    BY <1>1, <1>4 DEF ReceiveRequest, Steps
  <2> QED
    BY <1>2, <1>4, <2>2, <2>3 DEF ReceiveRequest, Arrives, TypeOK, ProtocolTypeOK
<1>5. ASSUME NEW p \in network, ReceiveResponse(d, p) PROVE TypeOK'
  <2>1. [message |-> Head(p.contents), to |-> p.from, at |-> Now(d)] \in Jobs
    BY <1>2, <1>3, <1>5 DEF ReceiveResponse, Arrives
  <2>2. job' \in [Threads -> Jobs]
    BY <1>5, <2>1, Types DEF ReceiveResponse
  <2>3. pc' \in [Threads -> Steps]
    BY <1>1, <1>5 DEF ReceiveResponse, Steps
  <2> QED
    BY <1>2, <1>5, <2>2, <2>3 DEF ReceiveResponse, Arrives, TypeOK, ProtocolTypeOK
<1>6. ASSUME NEW p \in network, ReceiveBroadcast(d, p) PROVE TypeOK'
  <2>1. Head(p.contents).t3 \in Stamp
    <3>1. Head(p.contents) = p.contents[1] /\ Len(p.contents) = 1
      BY <1>6, Types DEF ReceiveBroadcast, Arrives
    <3>2. Stamped(p.contents[1])
      BY <1>6, <3>1 DEF TInv, Contents
    <3> QED
      BY <1>6, <3>1, <3>2 DEF ReceiveBroadcast, Stamped
  <2>2. samples' \in [Devices -> SUBSET Sample]
    <3>1. [t1 |-> Now(d), t2 |-> Head(p.contents).t3, t3 |-> Head(p.contents).t3, t4 |-> Now(d)]
            \in Sample
      BY <1>2, <2>1 DEF Sample
    <3> QED
      BY <1>6, <3>1, Types DEF ReceiveBroadcast, Submit
  <2> QED
    BY <1>2, <1>6, <2>2 DEF ReceiveBroadcast, Arrives, TypeOK, ProtocolTypeOK
<1>7. ASSUME BuildResponse(d) PROVE TypeOK'
  <2>1. job' \in [Threads -> Jobs]
    <3>1. [job[t].message EXCEPT !.t3 = Now(d)] \in Message
      BY <1>1, <1>2, Types, MessageFacts
    <3>2. job' = [job EXCEPT ![t] = [message |-> [job[t].message EXCEPT !.t3 = Now(d)],
                                     to |-> job[t].to, at |-> job[t].at]]
      <4>1. job[t] \in Jobs
        BY <1>1, Types
      <4>2. [job[t] EXCEPT !.message.t3 = Now(d)]
              = [message |-> [job[t].message EXCEPT !.t3 = Now(d)], to |-> job[t].to, at |-> job[t].at]
        BY <4>1
      <4>3. job' = [job EXCEPT ![t] = [job[t] EXCEPT !.message.t3 = Now(d)]]
        BY <1>7 DEF BuildResponse
      <4> QED
        BY <4>2, <4>3
    <3> QED
      BY <1>1, <3>1, <3>2, Types
  <2>2. pc' \in [Threads -> Steps]
    BY <1>1, <1>7 DEF BuildResponse, Steps
  <2> QED
    BY <1>2, <1>7, <2>1, <2>2 DEF BuildResponse, TypeOK, ProtocolTypeOK
<1>8. ASSUME MatchPending(d) PROVE TypeOK'
  <2>1. pc' \in [Threads -> Steps] /\ job' \in [Threads -> Jobs]
    BY <1>1, <1>8, GotoFacts, Types DEF MatchPending, Steps
  <2> QED
    BY <1>8, <2>1 DEF MatchPending, TypeOK, ProtocolTypeOK
<1>9. ASSUME AcceptResponse(d) PROVE TypeOK'
  <2> DEFINE m == job[t].message
  <2>2. m.t1 \in Stamp /\ m.t2 \in Stamp /\ m.t3 \in Stamp /\ job[t].at \in Stamp
    <3>1. Loaded(t) /\ pc[t] = "accept"
      BY <1>1, <1>9 DEF AcceptResponse, TInv
    <3> QED
      BY <3>1 DEF Loaded, Stamped
  <2>3. [t1 |-> m.t1, t2 |-> m.t2, t3 |-> m.t3, t4 |-> job[t].at] \in Sample
    BY <2>2 DEF Sample
  <2>4. samples' \in [Devices -> SUBSET Sample] /\ pendingSequence' \in [Devices -> Sequences]
    BY <1>9, <2>3, Types, OrdinalType DEF AcceptResponse, Accept, Submit, SetPending
  <2>5. pc' \in [Threads -> Steps] /\ job' \in [Threads -> Jobs]
    BY <1>1, <1>9, GotoFacts DEF AcceptResponse, Steps
  <2> QED
    BY <1>9, <2>4, <2>5 DEF AcceptResponse, Accept, TypeOK, ProtocolTypeOK
<1> QED
  BY <1>4, <1>5, <1>6, <1>7, <1>8, <1>9 DEF HandlePacket

(* Shutdown and Initialize.                                                *)
LEMMA RestartType ==
  ASSUME TypeOK, NEW d \in Devices, Restart(d)
  PROVE  TypeOK'
<1>1. pendingSequence' \in [Devices -> Sequences]
  BY Types, OrdinalType DEF Restart, SetPending
<1>2. packet' \in [Devices -> [to : Addresses, contents : Seq(Message)]]
  <2>1. [to |-> None, contents |-> <<>>] \in [to : Addresses, contents : Seq(Message)]
    BY ThreadFacts
  <2> QED
    BY <2>1, Types DEF Restart
<1> QED
  BY <1>1, <1>2 DEF Restart, TypeOK, ProtocolTypeOK

-----------------------------------------------------------------------------
(* What steps leave alone.                                                 *)

\* A device's requests and times are kept.
Grows(d) == asked[d] \subseteq asked'[d] /\ clock'[d] >= clock[d]

(* An operation of a thread is its alone, and takes nothing back.          *)
LEMMA CallMoves ==
  ASSUME TypeOK, NEW t \in Threads, Call(t)
  PROVE  Moves(t) /\ Grows(t[1])
<1> DEFINE d == t[1]
<1>1. d \in Devices /\ clock[d] \in Nat
      /\ \A s \in Steps : Goto(t, s) => \A u \in Threads : u # t => pc'[u] = pc[u]
  BY ThreadFacts, GotoFacts, Types
<1>2. Rest(t) => \A u \in Threads : u # t => pc'[u] = pc[u] /\ job'[u] = job[u]
  BY GotoFacts, Types DEF Steps
<1>3. \A x : job' = [job EXCEPT ![t] = x] => \A u \in Threads : u # t => job'[u] = job[u]
  BY Types
<1>4. ASSUME BuildRequest(t) PROVE Moves(t) /\ Grows(d)
  <2>1. /\ clock'[d] = clock[d] + 1
        /\ \A e \in Devices : e # d => clock'[e] = clock[e] /\ nextSequence'[e] = nextSequence[e]
    BY <1>1, <1>4, ReadType, NumberType DEF BuildRequest, NumberRequest
  <2>2. asked[d] \subseteq asked'[d] /\ \A e \in Devices : e # d => asked'[e] = asked[e]
    BY <1>1, <1>4, Types DEF BuildRequest, NumberRequest
  <2>3. /\ \A u \in Threads : u # t => pc'[u] = pc[u]
        /\ \A u \in Threads : u # t => job'[u] = job[u]
    BY <1>1, <1>3, <1>4 DEF BuildRequest, Steps
  <2> QED
    BY <1>1, <1>4, <2>1, <2>2, <2>3 DEF BuildRequest, NumberRequest, Moves, Grows
<1>5. ASSUME StorePending(t) PROVE Moves(t) /\ Grows(d)
  BY <1>1, <1>5, Types DEF StorePending, SetPending, Moves, Grows, Steps
<1>6. ASSUME BuildBroadcast(t) PROVE Moves(t) /\ Grows(d)
  <2>1. /\ clock'[d] = clock[d] + 1
        /\ \A e \in Devices : e # d => clock'[e] = clock[e] /\ nextSequence'[e] = nextSequence[e]
    BY <1>1, <1>6, ReadType, NumberType DEF BuildBroadcast
  <2>2. /\ \A u \in Threads : u # t => pc'[u] = pc[u]
        /\ \A u \in Threads : u # t => job'[u] = job[u]
    BY <1>1, <1>3, <1>6 DEF BuildBroadcast, Steps
  <2> QED
    BY <1>1, <1>6, <2>1, <2>2 DEF BuildBroadcast, Moves, Grows
<1>7. ASSUME BeginPacket(t) PROVE Moves(t) /\ Grows(d)
  <2>1. \A e \in Devices : e # d => packet'[e] = packet[e]
    BY <1>7 DEF BeginPacket, TypeOK
  <2>2. \A u \in Threads : u # t => pc'[u] = pc[u]
    BY <1>1, <1>7 DEF BeginPacket, Steps
  <2> QED
    BY <1>1, <1>7, <2>1, <2>2 DEF BeginPacket, Moves, Grows
<1>8. ASSUME Write(t) PROVE Moves(t) /\ Grows(d)
  <2>1. \A e \in Devices : e # d => packet'[e] = packet[e]
    BY <1>8 DEF Write, TypeOK
  <2>2. \A u \in Threads : u # t => pc'[u] = pc[u]
    BY <1>1, <1>8 DEF Write, Steps
  <2> QED
    BY <1>1, <1>8, <2>1, <2>2 DEF Write, Moves, Grows
<1>9. ASSUME EndPacket(t) PROVE Moves(t) /\ Grows(d)
  BY <1>1, <1>2, <1>9 DEF EndPacket, Moves, Grows
<1>10. ASSUME SendFails(t) PROVE Moves(t) /\ Grows(d)
  BY <1>1, <1>2, <1>10 DEF SendFails, Moves, Grows, Steps
<1>11. ASSUME CancelPendingRequest(t) PROVE Moves(t) /\ Grows(d)
  BY <1>1, <1>2, <1>11, Types DEF CancelPendingRequest, SetPending, Moves, Grows
<1> QED
  BY <1>4, <1>5, <1>6, <1>7, <1>8, <1>9, <1>10, <1>11 DEF Call, Send

(* What is handled is handled by the worker.                               *)
LEMMA HandleMoves ==
  ASSUME TypeOK, NEW d \in Devices, HandlePacket(d)
  PROVE  Moves(Worker(d)) /\ Grows(d)
<1> DEFINE t == Worker(d)
<1>0. t \in Threads /\ t[1] = d /\ clock[d] \in Nat
  BY ThreadFacts, Types
<1>1. /\ t \in Threads /\ t[1] = d /\ clock[d] \in Nat
      /\ \A s \in Steps : Goto(t, s) => \A u \in Threads : u # t => pc'[u] = pc[u]
  <2> HIDE DEF t
  <2> QED
    BY <1>0, GotoFacts
<1>2. Rest(t) => \A u \in Threads : u # t => pc'[u] = pc[u] /\ job'[u] = job[u]
  <2> HIDE DEF t
  <2>1. "idle" \in Steps
    BY DEF Steps
  <2> QED
    BY <1>0, <2>1, GotoFacts
<1>3. \A x : job' = [job EXCEPT ![t] = x] => \A u \in Threads : u # t => job'[u] = job[u]
  BY Types
<1>4. Read(d) => /\ clock'[d] = clock[d] + 1
                 /\ \A e \in Devices : e # d => clock'[e] = clock[e]
  BY ReadType
<1>5. ASSUME NEW p \in network, ReceiveRequest(d, p) PROVE Moves(t) /\ Grows(d)
  <2>1. /\ \A u \in Threads : u # t => pc'[u] = pc[u]
        /\ \A u \in Threads : u # t => job'[u] = job[u]
    BY <1>1, <1>3, <1>5 DEF ReceiveRequest, Steps
  <2> QED
    BY <1>1, <1>4, <1>5, <2>1 DEF ReceiveRequest, Arrives, Moves, Grows
<1>6. ASSUME NEW p \in network, ReceiveResponse(d, p) PROVE Moves(t) /\ Grows(d)
  <2>1. /\ \A u \in Threads : u # t => pc'[u] = pc[u]
        /\ \A u \in Threads : u # t => job'[u] = job[u]
    BY <1>1, <1>3, <1>6 DEF ReceiveResponse, Steps
  <2> QED
    BY <1>1, <1>4, <1>6, <2>1 DEF ReceiveResponse, Arrives, Moves, Grows
<1>7. ASSUME NEW p \in network, ReceiveBroadcast(d, p) PROVE Moves(t) /\ Grows(d)
  <2>1. \A e \in Devices : e # d => samples'[e] = samples[e]
    BY <1>7, Types DEF ReceiveBroadcast, Submit
  <2> QED
    BY <1>1, <1>4, <1>7, <2>1 DEF ReceiveBroadcast, Arrives, Moves, Grows
<1>8. ASSUME BuildResponse(d) PROVE Moves(t) /\ Grows(d)
  <2>1. /\ \A u \in Threads : u # t => pc'[u] = pc[u]
        /\ \A u \in Threads : u # t => job'[u] = job[u]
    BY <1>1, <1>8, Types DEF BuildResponse, Steps
  <2> QED
    BY <1>1, <1>4, <1>8, <2>1 DEF BuildResponse, Moves, Grows
<1>9. ASSUME MatchPending(d) PROVE Moves(t) /\ Grows(d)
  BY <1>1, <1>2, <1>9 DEF MatchPending, Moves, Grows, Steps
<1>10. ASSUME AcceptResponse(d) PROVE Moves(t) /\ Grows(d)
  <2>1. \A e \in Devices : e # d => samples'[e] = samples[e] /\ pendingSequence'[e] = pendingSequence[e]
    BY <1>10, Types DEF AcceptResponse, Accept, Submit, SetPending
  <2>2. \A u \in Threads : u # t => pc'[u] = pc[u] /\ job'[u] = job[u]
    BY <1>2, <1>10 DEF AcceptResponse
  <2> QED
    BY <1>1, <1>10, <2>1, <2>2 DEF AcceptResponse, Accept, Moves, Grows
<1> QED
  BY <1>5, <1>6, <1>7, <1>8, <1>9, <1>10 DEF HandlePacket

(* So is what is restarted.                                                *)
LEMMA RestartMoves ==
  ASSUME TypeOK, NEW d \in Devices, Restart(d)
  PROVE  Moves(Worker(d)) /\ Grows(d)
<1>1. Worker(d)[1] = d /\ clock[d] \in Nat
  BY ThreadFacts, Types
<1>2. \A e \in Devices : e # d => pendingSequence'[e] = pendingSequence[e] /\ packet'[e] = packet[e]
  BY Types DEF Restart, SetPending
<1> QED
  BY <1>1, <1>2 DEF Restart, Moves, Grows

(* What a device may send, it may send from then on.                       *)
LEMMA SoundKept ==
  ASSUME \A e \in Devices : asked[e] \subseteq asked'[e],
         NEW d \in Devices, NEW to, NEW m, Sound(d, to, m)
  PROVE  Sound(d, to, m)'
BY DEF Sound, Genuine

(* What a thread works on, it may work on until it acts.                   *)
LEMMA CarriesKept ==
  ASSUME \A e \in Devices : asked[e] \subseteq asked'[e] /\ clock'[e] >= clock[e],
         TypeOK, TypeOK',
         NEW u \in Threads, pc'[u] = pc[u], job'[u] = job[u], Carries(u)
  PROVE  Carries(u)'
<1> DEFINE e == u[1]
<1>1. e \in Devices
  BY ThreadFacts
<1>2. Sending(u)'
  <2>1. Sending(u)
    BY DEF Carries
  <2>2. Sound(e, job[u].to, job[u].message) => Sound(e, job[u].to, job[u].message)'
    BY <1>1 DEF Sound, Genuine
  <2> QED
    BY <2>1, <2>2 DEF Sending
<1>3. Answering(u)'
  <2>1. Answering(u)
    BY DEF Carries
  <2>2. job[u].message.t2 \in Stamp => job[u].message.t2.at \in Nat
    BY DEF Stamp
  <2>3. clock[e] \in Nat /\ clock'[e] \in Nat /\ clock'[e] >= clock[e]
    BY <1>1 DEF TypeOK, ProtocolTypeOK
  <2> QED
    BY <1>1, <2>1, <2>2, <2>3 DEF Answering, Genuine
<1>4. Examining(u)'
  <2>1. Examining(u)
    BY DEF Carries
  <2> QED
    BY <1>1, <2>1 DEF Examining, Genuine, Visited
<1> QED
  BY <1>2, <1>3, <1>4 DEF Carries

(* The packets under way deliver what they would have.                     *)
LEMMA DeliversKept ==
  ASSUME \A e \in Devices : asked[e] \subseteq asked'[e],
         TypeOK, NEW p \in network, Delivers(p)
  PROVE  Delivers(p)'
<1> SUFFICES ASSUME NEW k \in 1..Len(p.contents)
             PROVE  Sound(p.from, p.to, p.contents[k])'
  BY DEF Delivers
<1>1. Sound(p.from, p.to, p.contents[k]) /\ p.from \in Devices
  BY Types DEF Delivers
<1> QED
  BY <1>1, SoundKept

(* A step of one device leaves the others as they were.                    *)
LEMMA OthersKept ==
  ASSUME IInv, TypeOK', NEW t \in Threads, Moves(t), Grows(t[1]),
         NEW e \in Devices, e # t[1]
  PROVE  Numbered(e)' /\ Unsampled(e)' /\ Built(e)'
<1>1. /\ clock'[e] = clock[e] /\ nextSequence'[e] = nextSequence[e]
      /\ pendingSequence'[e] = pendingSequence[e] /\ packet'[e] = packet[e]
      /\ asked'[e] = asked[e] /\ samples'[e] = samples[e]
  BY DEF Moves
<1>2. \A u \in Threads : u[1] = e => pc'[u] = pc[u] /\ job'[u] = job[u]
  BY DEF Moves
<1>3. Numbered(e)'
  BY <1>1 DEF IInv, Numbered
<1>4. Unsampled(e)'
  <2>1. Unsampled(e)
    BY DEF IInv
  <2>3. pendingSequence'[e] # 0 => Fresh(e, pendingSequence[e])'
    BY <1>1, <2>1 DEF Unsampled, Fresh
  <2>4. ASSUME NEW u \in Threads, u[1] = e, pc'[u] \in {"publish", "accept"}
        PROVE  Fresh(e, job[u].message.sequence)'
    BY <1>1, <1>2, <2>1, <2>4 DEF Unsampled, Fresh
  <2>5. ASSUME NEW u \in Threads, u[1] = e, pc'[u] = "publish"
        PROVE  /\ pendingSequence'[e] \in {0} \/ pendingSequence'[e] # job'[u].message.sequence
               /\ \A v \in Threads : v[1] = e /\ v # u => ~Holds(v, job[u].message.sequence)'
    BY <1>1, <1>2, <2>1, <2>5 DEF Unsampled, Holds
  <2> QED
    BY <2>3, <2>4, <2>5 DEF Unsampled
<1>5. Built(e)'
  <2>1. Built(e)
    BY DEF IInv
  <2>2. /\ <<e, "app">> \in Threads /\ <<e, "app">>[1] = e
        /\ Worker(e) \in Threads /\ Worker(e)[1] = e
    BY ThreadFacts
  <2>3. /\ pc'[<<e, "app">>] = pc[<<e, "app">>]
        /\ pc'[Worker(e)] = pc[Worker(e)] /\ job'[Worker(e)] = job[Worker(e)]
    BY <1>2, <2>2
  <2> QED
    BY <1>1, <2>1, <2>3 DEF Built, Genuine
<1> QED
  BY <1>3, <1>4, <1>5

(* Where nothing is asked, sampled or published, the numbers are as sound  *)
(* as before.                                                              *)
LEMMA CalmNumbered ==
  ASSUME TypeOK, TypeOK', NEW d \in Devices, Numbered(d), Calm(d)
  PROVE  Numbered(d)'
<1>1. /\ asked'[d] = asked[d] /\ samples'[d] = samples[d]
      /\ clock'[d] >= clock[d] /\ nextSequence'[d] >= nextSequence[d]
      /\ pendingSequence'[d] = 0 \/ pendingSequence'[d] = pendingSequence[d]
  BY DEF Calm
<1>2. /\ clock[d] \in Nat /\ clock'[d] \in Nat /\ pendingSequence[d] \in Nat
      /\ nextSequence[d] \in Nat \ {0} /\ nextSequence'[d] \in Nat
      /\ \A q \in asked[d] : q.t1.at \in Nat /\ Ordinal(q.sequence) \in Nat
      /\ \A s \in samples[d] : s.t1.at \in Nat
  <2>1. \A q \in asked[d] : q.t1 \in Stamp /\ q.sequence \in Sequences
    BY Types
  <2>2. \A s \in samples[d] : s.t1 \in Stamp
    BY Types DEF Sample
  <2>3. clock'[d] \in Nat /\ nextSequence'[d] \in Nat
    BY ClockAssumption DEF TypeOK, ProtocolTypeOK
  <2>4. clock[d] \in Nat /\ pendingSequence[d] \in Nat /\ nextSequence[d] \in Nat \ {0}
    BY ClockAssumption DEF TypeOK, ProtocolTypeOK, Sequences
  <2> QED
    BY <2>1, <2>2, <2>3, <2>4, OrdinalType DEF Stamp
<1>3. /\ \A q \in asked'[d] :
           Ordinal(q.sequence) < nextSequence'[d] /\ q.t1.by = d /\ q.t1.at =< clock'[d]
      /\ \A s \in samples'[d] : s.t1.by = d /\ s.t1.at =< clock'[d]
      /\ pendingSequence'[d] < nextSequence'[d]
  BY <1>1, <1>2 DEF Numbered
<1>4. \A p, q \in asked'[d] : p.t1 = q.t1 <=> p.sequence = q.sequence
  BY <1>1 DEF Numbered
<1> QED
  BY <1>3, <1>4 DEF Numbered

(* Nor is a number used again that was not.                                *)
LEMMA CalmUnsampled ==
  ASSUME NEW d \in Devices, Unsampled(d), Calm(d), NEW t \in Threads, Moves(t),
         pc'[t] \notin {"publish", "accept"}
  PROVE  Unsampled(d)'
<1>1. /\ asked' = asked /\ samples' = samples
      /\ pendingSequence'[d] = 0 \/ pendingSequence'[d] = pendingSequence[d]
  BY DEF Calm
<1>2. \A u \in Threads : pc'[u] \in {"publish", "accept"} =>
        pc'[u] = pc[u] /\ job'[u] = job[u]
  BY DEF Moves
<1>3. pendingSequence'[d] # 0 => Fresh(d, pendingSequence[d])'
  BY <1>1 DEF Unsampled, Fresh
<1>4. ASSUME NEW u \in Threads, u[1] = d, pc'[u] \in {"publish", "accept"}
      PROVE  Fresh(d, job[u].message.sequence)'
  BY <1>1, <1>2, <1>4 DEF Unsampled, Fresh
<1>5. ASSUME NEW u \in Threads, u[1] = d, pc'[u] = "publish"
      PROVE  /\ pendingSequence'[d] \in {0} \/ pendingSequence'[d] # job'[u].message.sequence
             /\ \A v \in Threads : v[1] = d /\ v # u => ~Holds(v, job[u].message.sequence)'
  <2>1. pc[u] = "publish" /\ job'[u] = job[u]
    BY <1>2, <1>5
  <2>2. /\ pendingSequence[d] \in {0} \/ pendingSequence[d] # job[u].message.sequence
        /\ \A v \in Threads : v[1] = d /\ v # u => ~Holds(v, job[u].message.sequence)
    BY <1>5, <2>1 DEF Unsampled
  <2>3. \A v \in Threads : v[1] = d /\ v # u => ~Holds(v, job[u].message.sequence)'
    BY <1>2, <2>1, <2>2 DEF Holds
  <2> QED
    BY <1>1, <2>1, <2>2, <2>3
<1> QED
  BY <1>3, <1>4, <1>5 DEF Unsampled

(* Every step keeps the stamps of messages: those of the thread that acts, *)
(* of the packet its device builds, and of what it sends.                  *)
LEMMA StampsKept ==
  ASSUME TInv, TypeOK', NEW t \in Threads, Moves(t), Loaded(t)', Contents(packet[t[1]])',
         \A p \in network' \ network : Contents(p)
  PROVE  TInv'
<1>1. \A u \in Threads : Loaded(u)'
  BY DEF TInv, Moves, Loaded
<1>2. \A d \in Devices : Contents(packet[d])'
  <2>1. \A d \in Devices : d # t[1] => packet'[d] = packet[d]
    BY DEF Moves
  <2> QED
    BY <2>1 DEF TInv, Contents
<1>3. \A p \in network' : Contents(p)'
  BY DEF TInv, Contents
<1> QED
  BY <1>1, <1>2, <1>3 DEF TInv

(* Operations do.                                                          *)
LEMMA CallStamps ==
  ASSUME TInv, NEW t \in Threads, Call(t)
  PROVE  TInv'
<1> DEFINE d == t[1]
<1>1. TypeOK /\ TypeOK' /\ Moves(t) /\ d \in Devices /\ Loaded(t) /\ Contents(packet[d])
  BY CallType, CallMoves, ThreadFacts DEF TInv
<1>2. Now(d) \in Stamp
  BY <1>1, ReadType
<1>3. ASSUME BuildRequest(t) \/ BuildBroadcast(t) PROVE TInv'
  <2>1. /\ job'[t].message = Request(Sequence(d), Now(d))
           \/ job'[t].message = Broadcast(Sequence(d), Now(d))
        /\ pc'[t] \in {"publish", "begin"} /\ packet' = packet /\ network' = network
    BY <1>1, <1>3, Types DEF BuildRequest, BuildBroadcast, Goto
  <2>2. Loaded(t)'
    BY <1>2, <2>1 DEF Loaded, Stamped, Request, Broadcast
  <2>3. Contents(packet[d])'
    BY <1>1, <2>1 DEF Contents
  <2> QED
    BY <1>1, <2>1, <2>2, <2>3, StampsKept
<1>4. ASSUME BeginPacket(t) PROVE TInv'
  <2>1. /\ pc[t] = "begin" /\ pc'[t] = "write" /\ job' = job /\ network' = network
        /\ packet'[d] = [to |-> job[t].to, contents |-> <<>>]
    BY <1>1, <1>4, Types DEF BeginPacket, Goto
  <2>2. Loaded(t)'
    BY <1>1, <2>1 DEF Loaded
  <2>3. Contents(packet[d])'
    BY <2>1 DEF Contents
  <2> QED
    BY <1>1, <2>1, <2>2, <2>3, StampsKept
<1>5. ASSUME Write(t) PROVE TInv'
  <2>1. /\ pc[t] = "write" /\ pc'[t] = "end" /\ job' = job /\ network' = network
        /\ packet'[d].contents = Append(packet[d].contents, job[t].message)
    BY <1>1, <1>5, Types DEF Write, Goto
  <2>2. Loaded(t)'
    BY <1>1, <2>1 DEF Loaded
  <2>3. Contents(packet[d])'
    <3> PICK c \in Seq(Message), m \in Message : c = packet[d].contents /\ m = job[t].message
      BY <1>1, Types
    <3>1. /\ Len(c) \in Nat /\ Len(Append(c, m)) = Len(c) + 1
          /\ \A j \in 1..Len(c) : Append(c, m)[j] = c[j]
          /\ Append(c, m)[Len(c) + 1] = m
      BY AppendProperties
    <3>2. Stamped(m) /\ \A j \in 1..Len(c) : Stamped(c[j])
      BY <1>1, <2>1 DEF Loaded, Contents
    <3>3. \A j \in 1..Len(Append(c, m)) : j \in 1..Len(c) \/ j = Len(c) + 1
      BY <3>1
    <3>4. \A j \in 1..Len(Append(c, m)) : Stamped(Append(c, m)[j])
      BY <3>1, <3>2, <3>3
    <3> QED
      BY <2>1, <3>4 DEF Contents
  <2> QED
    BY <1>1, <2>1, <2>2, <2>3, StampsKept
<1>6. ASSUME EndPacket(t) PROVE TInv'
  <2>1. /\ pc'[t] = "idle" /\ packet' = packet
        /\ network' = network \cup {[from |-> d, to |-> packet[d].to, contents |-> packet[d].contents]}
    BY <1>1, <1>6, Types DEF EndPacket, Rest, Goto
  <2>2. Loaded(t)'
    BY <2>1 DEF Loaded
  <2>3. Contents(packet[d])'
    BY <1>1, <2>1 DEF Contents
  <2>4. \A p \in network' \ network : Contents(p)
    BY <1>1, <2>1 DEF Contents
  <2> QED
    BY <1>1, <2>2, <2>3, <2>4, StampsKept
<1>7. ASSUME StorePending(t) \/ SendFails(t) \/ CancelPendingRequest(t) PROVE TInv'
  <2>1. /\ \/ pc[t] = "publish" /\ pc'[t] = "begin" /\ job' = job
           \/ pc'[t] \in {"idle", "cancel"}
        /\ packet' = packet /\ network' = network
    BY <1>1, <1>7, Types DEF StorePending, SendFails, CancelPendingRequest, Rest, Goto
  <2>2. Loaded(t)'
    BY <1>1, <2>1 DEF Loaded
  <2>3. Contents(packet[d])'
    BY <1>1, <2>1 DEF Contents
  <2> QED
    BY <1>1, <2>1, <2>2, <2>3, StampsKept
<1> QED
  BY <1>3, <1>4, <1>5, <1>6, <1>7 DEF Call, Send

(* So does what is handled.                                                *)
LEMMA HandleStamps ==
  ASSUME TInv, NEW d \in Devices, HandlePacket(d)
  PROVE  TInv'
<1> DEFINE t == Worker(d)
<1>1. TypeOK /\ TypeOK' /\ Moves(t) /\ t \in Threads /\ t[1] = d /\ Loaded(t) /\ Contents(packet[d])
  BY HandleType, HandleMoves, ThreadFacts DEF TInv
<1>2. Now(d) \in Stamp
  BY <1>1, ReadType
<1>3. packet' = packet /\ network' = network
  BY DEF HandlePacket, ReceiveRequest, ReceiveResponse, ReceiveBroadcast, BuildResponse, MatchPending,
         AcceptResponse
<1>4. \A p \in network : Len(p.contents) = 1 =>
        Head(p.contents) \in Message /\ Stamped(Head(p.contents))
  <2>1. \A p \in network : Len(p.contents) = 1 =>
          Head(p.contents) \in Message /\ Head(p.contents) = p.contents[1]
    BY <1>1, Types
  <2>2. \A p \in network : Len(p.contents) = 1 => Stamped(p.contents[1])
    BY DEF TInv, Contents
  <2> QED
    BY <2>1, <2>2
<1>5. ASSUME NEW p \in network, ReceiveRequest(d, p) PROVE Loaded(t)'
  <2>1. Head(p.contents) \in Message /\ Head(p.contents).t1 \in Stamp
    BY <1>4, <1>5 DEF ReceiveRequest, Arrives, Stamped
  <2>2. pc'[t] = "respond" /\ job'[t].message = Response(Head(p.contents), Now(d))
    BY <1>1, <1>5, Types DEF ReceiveRequest, Goto
  <2>3. /\ Response(Head(p.contents), Now(d)).type = "Response"
        /\ Response(Head(p.contents), Now(d)).t1 = Head(p.contents).t1
        /\ Response(Head(p.contents), Now(d)).t2 = Now(d)
    BY <2>1 DEF Message, Response
  <2> QED
    BY <1>2, <2>1, <2>2, <2>3 DEF Loaded
<1>6. ASSUME NEW p \in network, ReceiveResponse(d, p) PROVE Loaded(t)'
  <2>1. Stamped(Head(p.contents)) /\ Head(p.contents).type = "Response"
    BY <1>4, <1>6 DEF ReceiveResponse, Arrives
  <2>2. pc'[t] = "match" /\ job'[t].message = Head(p.contents) /\ job'[t].at = Now(d)
    BY <1>1, <1>6, Types DEF ReceiveResponse, Goto
  <2> QED
    BY <1>2, <2>1, <2>2 DEF Loaded, Stamped
<1>7. ASSUME NEW p \in network, ReceiveBroadcast(d, p) PROVE Loaded(t)'
  BY <1>1, <1>7 DEF ReceiveBroadcast, Loaded
<1>8. ASSUME BuildResponse(d) PROVE Loaded(t)'
  <2>1. job[t] \in [message : Message, to : Addresses, at : Stamps] /\ job[t].message \in Message
    BY <1>1, Types
  <2>2. job'[t] = [job[t] EXCEPT !.message.t3 = Now(d)] /\ pc[t] = "respond" /\ pc'[t] = "begin"
    BY <1>1, <1>8, Types DEF BuildResponse, Goto
  <2>3. job'[t].message = [job[t].message EXCEPT !.t3 = Now(d)]
    BY <2>1, <2>2
  <2>4. /\ job'[t].message.type = job[t].message.type /\ job'[t].message.t1 = job[t].message.t1
        /\ job'[t].message.t2 = job[t].message.t2 /\ job'[t].message.t3 = Now(d)
    BY <2>1, <2>3 DEF Message
  <2> QED
    BY <1>1, <1>2, <2>2, <2>4 DEF Loaded, Stamped
<1>9. ASSUME MatchPending(d) PROVE Loaded(t)'
  <2>1. pc[t] = "match" /\ ((pc'[t] = "accept" /\ job' = job) \/ pc'[t] = "idle")
    BY <1>1, <1>9, Types DEF MatchPending, Rest, Goto
  <2> QED
    BY <1>1, <2>1 DEF Loaded
<1>10. ASSUME AcceptResponse(d) PROVE Loaded(t)'
  <2>1. pc'[t] = "idle"
    BY <1>1, <1>10, Types DEF AcceptResponse, Rest, Goto
  <2> QED
    BY <2>1 DEF Loaded
<1>11. Loaded(t)'
  BY <1>5, <1>6, <1>7, <1>8, <1>9, <1>10 DEF HandlePacket
<1>12. Contents(packet[t[1]])' /\ \A p \in network' \ network : Contents(p)
  BY <1>1, <1>3 DEF Contents
<1> HIDE DEF t
<1> QED
  BY <1>1, <1>11, <1>12, StampsKept DEF t

(* Messages carry the stamps of their types, whoever shares a packet.      *)
LEMMA TypeInvariance == Spec => []TInv
<1>1. Init => TInv
  <2> SUFFICES ASSUME Init PROVE TInv
    OBVIOUS
  <2>1. /\ \A t \in Threads : pc[t] = "idle"
        /\ \A d \in Devices : packet[d].contents = <<>>
        /\ network = {}
    BY DEF Init
  <2> QED
    BY <2>1, TypeInit DEF TInv, Loaded, Contents
<1>2. TInv /\ [Next]_vars => TInv'
  <2> SUFFICES ASSUME TInv, [Next]_vars PROVE TInv'
    OBVIOUS
  <2>1. ASSUME NEW d \in Devices, Restart(d) PROVE TInv'
    <3>1. /\ TypeOK /\ TypeOK' /\ Moves(Worker(d)) /\ Worker(d) \in Threads /\ Worker(d)[1] = d
      BY <2>1, RestartType, RestartMoves, ThreadFacts DEF TInv
    <3>2. /\ pc' = pc /\ job' = job /\ network' = network
          /\ packet'[d] = [to |-> None, contents |-> <<>>]
      BY <2>1, <3>1, Types DEF Restart
    <3>3. Loaded(Worker(d))'
      BY <3>1, <3>2 DEF TInv, Loaded
    <3>4. Contents(packet[d])'
      BY <3>2 DEF Contents
    <3> QED
      BY <3>1, <3>2, <3>3, <3>4, StampsKept
  <2>2. CASE UNCHANGED vars
    <3>1. TypeOK'
      BY <2>2 DEF TInv, vars, TypeOK, ProtocolTypeOK
    <3> QED
      BY <2>2, <3>1 DEF TInv, vars, Loaded, Contents
  <2> QED
    BY <2>1, <2>2, CallStamps, HandleStamps DEF Next
<1> QED
  BY <1>1, <1>2, PTL DEF Spec

(* The types hold, whoever shares a packet.                                *)
THEOREM Typing == Spec => []TypeOK
<1>1. TInv => TypeOK
  BY DEF TInv
<1> QED
  BY <1>1, TypeInvariance, PTL

-----------------------------------------------------------------------------
(* Each step keeps what the invariant says of its own device and thread.   *)

Keeps(t) ==
  /\ Numbered(t[1])' /\ Unsampled(t[1])' /\ Built(t[1])' /\ Carries(t)'
  /\ \A p \in network' \ network : Delivers(p)'

(* The application of a reference stays out of the synchronizer.           *)
Apart == AppThreads \cap References = {}

(* The thread of a reference that acts is its worker.                      *)
LEMMA OnlyWorker ==
  ASSUME Apart, IInv, NEW t \in Threads, t[1] \in References, MayCall(t) \/ pc[t] # "idle"
  PROVE  t = Worker(t[1])
<1>1. pc[<<t[1], "app">>] = "idle" /\ t = <<t[1], t[2]>> /\ t[2] \in {"worker", "app"}
  BY ThreadFacts DEF IInv, Built
<1>2. CASE t[2] = "worker"
  BY <1>1, <1>2 DEF Worker
<1>3. CASE t[2] = "app"
  BY <1>1, <1>3 DEF Apart, MayCall
<1> QED
  BY <1>1, <1>2, <1>3

(* A packet nobody touches is as good as before, unless it is to be sent.  *)
LEMMA BuiltKept ==
  ASSUME IInv, NEW t \in Threads, Moves(t), Grows(t[1]), packet'[t[1]] = packet[t[1]],
         t[1] \in References => t = Worker(t[1]), pc'[t] \notin {"write", "end"}
  PROVE  Built(t[1])'
<1> DEFINE d == t[1]
<1>1. Built(d) /\ asked[d] \subseteq asked'[d]
  BY ThreadFacts DEF IInv, Grows
<1>2. CASE d \in References
  <2>1. pc'[<<d, "app">>] = pc[<<d, "app">>] /\ pc'[Worker(d)] \notin {"write", "end"}
    BY <1>2, ThreadFacts DEF Moves
  <2> QED
    BY <1>1, <1>2, <2>1 DEF Built
<1>3. CASE d \notin References
  BY <1>1, <1>3 DEF Built, Genuine
<1> QED
  BY <1>2, <1>3

(* A thread that has nothing in hand carries nothing unsound.              *)
LEMMA CarriesNothing ==
  ASSUME NEW t \in Threads, pc'[t] \in {"idle", "cancel"}
  PROVE  Carries(t)'
BY DEF Carries, Sending, Answering, Examining

(* A new request has a number and a time that none had before.             *)
LEMMA BuildRequestKeeps ==
  ASSUME Apart, IInv, TypeOK', NEW t \in Threads, BuildRequest(t), Moves(t), Grows(t[1])
  PROVE  Keeps(t)
<1> DEFINE d == t[1]
<1> PICK n : n = Sequence(d)
  OBVIOUS
<1> DEFINE q0 == [sequence |-> n, t1 |-> Now(d)]
<1>1. d \in Devices /\ TypeOK /\ Numbered(d) /\ Unsampled(d)
  BY ThreadFacts DEF IInv
<1>2. /\ Now(d).by = d /\ Now(d).at = clock[d] + 1 /\ clock'[d] = clock[d] + 1 /\ clock[d] \in Nat
      /\ n \in Sequences /\ Ordinal(n) = nextSequence[d] /\ nextSequence'[d] = nextSequence[d] + 1
      /\ Now(d) \in Stamp
  BY <1>1, ReadType, NumberType DEF BuildRequest, NumberRequest
<1>3. /\ asked'[d] = asked[d] \cup {q0} /\ samples' = samples
      /\ pendingSequence'[d] = pendingSequence[d] /\ packet' = packet /\ network' = network
      /\ pc[t] = "idle"
  BY <1>1, Types DEF BuildRequest, NumberRequest, MayCall
<1>4. /\ job'[t].message = Request(n, Now(d)) /\ job'[t].message.sequence = n
      /\ job'[t].message.t1 = Now(d) /\ job'[t].message.type = "Request" /\ pc'[t] = "publish"
  BY <1>1, Types DEF BuildRequest, Goto, Request
<1>5. /\ nextSequence[d] \in Nat \ {0} /\ pendingSequence[d] \in Sequences
      /\ \A q \in asked[d] : q.t1.at \in Nat /\ Ordinal(q.sequence) \in Nat
      /\ \A s \in samples[d] : s.t1.at \in Nat
  <2>1. \A q \in asked[d] : q.t1 \in Stamp /\ q.sequence \in Sequences
    BY <1>1, Types
  <2>2. \A s \in samples[d] : s.t1 \in Stamp
    BY <1>1, Types DEF Sample
  <2>3. nextSequence[d] \in Nat \ {0} /\ pendingSequence[d] \in Sequences
    BY <1>1, ClockAssumption DEF TypeOK, ProtocolTypeOK
  <2> QED
    BY <2>1, <2>2, <2>3, OrdinalType DEF Stamp
<1>6. \A q \in asked[d] : q.t1 # Now(d) /\ q.sequence # n
  <2> SUFFICES ASSUME NEW q \in asked[d] PROVE q.t1 # Now(d) /\ q.sequence # n
    OBVIOUS
  <2>1. Ordinal(q.sequence) < nextSequence[d] /\ q.t1.at =< clock[d]
    BY <1>1 DEF Numbered
  <2> QED
    BY <1>2, <1>5, <2>1
<1>7. Numbered(d)'
  <2>1. \A q \in asked'[d] :
          Ordinal(q.sequence) < nextSequence'[d] /\ q.t1.by = d /\ q.t1.at =< clock'[d]
    BY <1>1, <1>2, <1>3, <1>5 DEF Numbered
  <2>2. \A p, q \in asked'[d] : p.t1 = q.t1 <=> p.sequence = q.sequence
    BY <1>1, <1>3, <1>6 DEF Numbered
  <2>3. \A s \in samples'[d] : s.t1.by = d /\ s.t1.at =< clock'[d]
    BY <1>1, <1>2, <1>3, <1>5 DEF Numbered
  <2>4. pendingSequence'[d] < nextSequence'[d]
    BY <1>1, <1>2, <1>3, <1>5 DEF Numbered, Sequences
  <2> QED
    BY <2>1, <2>2, <2>3, <2>4 DEF Numbered
<1>8. \A k : Fresh(d, k) => Fresh(d, k)'
  <2>1. \A s \in samples[d] : s.t1 # Now(d)
    BY <1>1, <1>2, <1>5 DEF Numbered
  <2> QED
    BY <1>3, <2>1 DEF Fresh
<1>9. Fresh(d, n)'
  <2>1. \A s \in samples[d] : s.t1 # Now(d)
    BY <1>1, <1>2, <1>5 DEF Numbered
  <2> QED
    BY <1>3, <1>6, <2>1 DEF Fresh
<1>10. ASSUME NEW u \in Threads, u[1] = d, pc[u] \in {"publish", "accept"}
       PROVE  job[u].message.sequence # n
  <2>1. Genuine(d, job[u].message)
    <3>1. Carries(u)
      BY DEF IInv
    <3> QED
      BY <1>10, <3>1 DEF Carries, Sending, Examining, Sound
  <2> QED
    BY <1>6, <2>1 DEF Genuine
<1>11. pendingSequence[d] \in {0} \/ pendingSequence[d] # n
  <2>1. pendingSequence[d] # 0 => Ordinal(pendingSequence[d]) = pendingSequence[d]
    BY <1>5, OrdinalType
  <2>2. /\ pendingSequence[d] < nextSequence[d]
        /\ pendingSequence[d] \in Nat /\ nextSequence[d] \in Nat
    BY <1>1, <1>5, ClockAssumption DEF Numbered, Sequences
  <2> QED
    <3>1. ASSUME pendingSequence[d] # 0, pendingSequence[d] = n PROVE FALSE
      <4>1. Ordinal(n) = nextSequence[d] /\ Ordinal(n) = pendingSequence[d]
        BY <1>2, <2>1, <3>1
      <4> QED
        BY <2>2, <4>1
    <3> QED
      BY <3>1
<1>12. Unsampled(d)'
  <2>1. pendingSequence'[d] # 0 => Fresh(d, pendingSequence[d])'
    <3>1. pendingSequence[d] # 0 => Fresh(d, pendingSequence[d])
      BY <1>1 DEF Unsampled
    <3> QED
      BY <1>3, <1>8, <3>1 DEF Fresh
  <2>2. ASSUME NEW u \in Threads, u[1] = d, pc'[u] \in {"publish", "accept"}
        PROVE  Fresh(d, job[u].message.sequence)'
    <3>1. CASE u = t
      BY <1>4, <1>9, <3>1 DEF Fresh
    <3>2. CASE u # t
      <4>1. pc'[u] = pc[u] /\ job'[u] = job[u]
        BY <3>2 DEF Moves
      <4>2. Fresh(d, job[u].message.sequence)
        BY <1>1, <2>2, <4>1 DEF Unsampled
      <4> QED
        BY <1>8, <4>1, <4>2 DEF Fresh
    <3> QED
      BY <3>1, <3>2
  <2>3. ASSUME NEW u \in Threads, u[1] = d, pc'[u] = "publish"
        PROVE  /\ pendingSequence'[d] \in {0} \/ pendingSequence'[d] # job'[u].message.sequence
               /\ \A v \in Threads : v[1] = d /\ v # u => ~Holds(v, job[u].message.sequence)'
    <3>1. CASE u = t
      <4>1. \A v \in Threads : v # t => pc'[v] = pc[v] /\ job'[v] = job[v]
        BY DEF Moves
      <4>2. ASSUME NEW v \in Threads, v[1] = d, v # t
            PROVE  ~Holds(v, job[t].message.sequence)'
        BY <1>4, <1>10, <4>1, <4>2 DEF Holds
      <4>3. pendingSequence'[d] \in {0} \/ pendingSequence'[d] # job'[t].message.sequence
        BY <1>3, <1>4, <1>11
      <4>4. \A v \in Threads : v[1] = d /\ v # t => ~Holds(v, job[t].message.sequence)'
        BY <4>2
      <4> QED
        BY <3>1, <4>3, <4>4
    <3>2. CASE u # t
      <4>1. pc'[u] = pc[u] /\ job'[u] = job[u] /\ pc[u] = "publish"
        BY <2>3, <3>2 DEF Moves
      <4>2. /\ pendingSequence[d] \in {0} \/ pendingSequence[d] # job[u].message.sequence
            /\ \A v \in Threads : v[1] = d /\ v # u => ~Holds(v, job[u].message.sequence)
        BY <1>1, <2>3, <4>1 DEF Unsampled
      <4>3. ~Holds(t, job[u].message.sequence)'
        BY <1>4, <1>10, <2>3, <4>1 DEF Holds
      <4>4. \A v \in Threads : v[1] = d /\ v # u => ~Holds(v, job[u].message.sequence)'
        BY <4>1, <4>2, <4>3 DEF Moves, Holds
      <4> QED
        BY <1>3, <4>1, <4>2, <4>4
    <3> QED
      BY <3>1, <3>2
  <2> QED
    BY <2>1, <2>2, <2>3 DEF Unsampled
<1>13. Built(d)'
  <2>1. d \in References => t = Worker(d)
    BY OnlyWorker DEF BuildRequest
  <2> QED
    BY <1>3, <1>4, <2>1, BuiltKept
<1>14. Carries(t)'
  <2>1. q0 \in asked'[d]
    BY <1>3
  <2> QED
    BY <1>4, <2>1 DEF Carries, Sending, Answering, Examining, Sound, Genuine
<1> QED
  BY <1>3, <1>7, <1>12, <1>13, <1>14 DEF Keeps

(* Once published, a number is pending and no thread will publish it again. *)
LEMMA StorePendingKeeps ==
  ASSUME Apart, IInv, TypeOK', NEW t \in Threads, StorePending(t), Moves(t), Grows(t[1])
  PROVE  Keeps(t)
<1> DEFINE d == t[1]
           n == job[t].message.sequence
<1>1. d \in Devices /\ TypeOK /\ Numbered(d) /\ Unsampled(d) /\ Carries(t)
  BY ThreadFacts DEF IInv
<1>2. /\ asked' = asked /\ samples' = samples /\ clock' = clock /\ nextSequence' = nextSequence
      /\ pendingSequence'[d] = n /\ packet' = packet /\ network' = network /\ job' = job
      /\ pc[t] = "publish" /\ pc'[t] = "begin"
  BY <1>1, Types DEF StorePending, SetPending, Goto
<1>3. Genuine(d, job[t].message)
  BY <1>1, <1>2 DEF Carries, Sending, Sound
<1>4. n < nextSequence[d]
  <2>1. Ordinal(n) < nextSequence[d] /\ n \in Sequences
    BY <1>1, <1>3, Types DEF Numbered, Genuine
  <2>2. nextSequence[d] \in Nat \ {0}
    BY <1>1, ClockAssumption DEF TypeOK, ProtocolTypeOK
  <2> QED
    BY <2>1, <2>2, OrdinalType
<1>5. Numbered(d)'
  BY <1>1, <1>2, <1>4 DEF Numbered
<1>6. Unsampled(d)'
  <2>1. Fresh(d, n)
    BY <1>1, <1>2 DEF Unsampled
  <2>2. pendingSequence'[d] # 0 => Fresh(d, pendingSequence[d])'
    BY <1>2, <2>1 DEF Fresh
  <2>3. ASSUME NEW u \in Threads, u[1] = d, pc'[u] \in {"publish", "accept"}
        PROVE  u # t /\ pc'[u] = pc[u] /\ job'[u] = job[u]
               /\ Fresh(d, job[u].message.sequence)'
    <3>1. u # t /\ pc'[u] = pc[u] /\ job'[u] = job[u]
      BY <1>2, <2>3 DEF Moves
    <3>2. Fresh(d, job[u].message.sequence)
      BY <1>1, <2>3, <3>1 DEF Unsampled
    <3> QED
      BY <1>2, <3>1, <3>2 DEF Fresh
  <2>4. ASSUME NEW u \in Threads, u[1] = d, pc'[u] = "publish"
        PROVE  /\ pendingSequence'[d] \in {0} \/ pendingSequence'[d] # job'[u].message.sequence
               /\ \A v \in Threads : v[1] = d /\ v # u => ~Holds(v, job[u].message.sequence)'
    <3>1. u # t /\ pc'[u] = pc[u] /\ job'[u] = job[u]
      BY <2>3, <2>4
    <3>2. \A v \in Threads : v[1] = d /\ v # u => ~Holds(v, job[u].message.sequence)
      BY <1>1, <2>4, <3>1 DEF Unsampled
    <3>3. job[u].message.sequence # n
      <4>1. ~Holds(u, n)
        BY <1>1, <1>2, <2>4, <3>1 DEF Unsampled
      <4> QED
        BY <2>4, <3>1, <4>1 DEF Holds
    <3>4. \A v \in Threads : v[1] = d /\ v # u => ~Holds(v, job[u].message.sequence)'
      BY <1>2, <3>1, <3>2 DEF Moves, Holds
    <3> QED
      BY <1>2, <3>1, <3>3, <3>4
  <2> QED
    BY <2>2, <2>3, <2>4 DEF Unsampled
<1>7. Built(d)'
  <2>1. d \in References => t = Worker(d)
    BY <1>2, OnlyWorker
  <2> QED
    BY <1>2, <2>1, BuiltKept
<1>8. Carries(t)'
  BY <1>1, <1>2 DEF Carries, Sending, Answering, Examining, Sound, Genuine
<1> QED
  BY <1>2, <1>5, <1>6, <1>7, <1>8 DEF Keeps

(* A calm step keeps the numbers.                                          *)
LEMMA CalmKeeps ==
  ASSUME IInv, TypeOK', NEW t \in Threads, Moves(t), Calm(t[1]),
         pc'[t] \notin {"publish", "accept"},
         Built(t[1])', Carries(t)', \A p \in network' \ network : Delivers(p)'
  PROVE  Keeps(t)
<1>1. t[1] \in Devices /\ Numbered(t[1]) /\ Unsampled(t[1]) /\ TypeOK
  BY ThreadFacts DEF IInv
<1>2. Numbered(t[1])'
  BY <1>1, CalmNumbered
<1>3. Unsampled(t[1])'
  BY <1>1, CalmUnsampled
<1> QED
  BY <1>2, <1>3 DEF Keeps

(* A reference announces its own time.                                     *)
LEMMA BuildBroadcastKeeps ==
  ASSUME Apart, IInv, TypeOK', NEW t \in Threads, BuildBroadcast(t), Moves(t), Grows(t[1])
  PROVE  Keeps(t)
<1> DEFINE d == t[1]
<1>1. d \in Devices /\ TypeOK /\ d \in References
  BY ThreadFacts, CarrierAssumption DEF IInv, BuildBroadcast
<1>2. /\ Now(d) \in Stamp /\ Now(d).by = d /\ clock[d] \in Nat /\ clock'[d] = clock[d] + 1
      /\ nextSequence'[d] = nextSequence[d] + 1 /\ nextSequence[d] \in Nat
  BY <1>1, ReadType, NumberType, ClockAssumption, SMTT(30) DEF BuildBroadcast, TypeOK, ProtocolTypeOK
<1>3. /\ job'[t].message = Broadcast(Sequence(d), Now(d)) /\ pc'[t] = "begin"
      /\ packet' = packet /\ network' = network
      /\ asked' = asked /\ samples' = samples /\ pendingSequence' = pendingSequence
  BY <1>1, Types DEF BuildBroadcast, Goto
<1>4. Calm(d)
  BY <1>2, <1>3 DEF Calm
<1>5. Built(d)'
  <2>1. d \in References => t = Worker(d)
    BY OnlyWorker DEF BuildBroadcast
  <2> QED
    BY <1>3, <2>1, BuiltKept
<1>6. Carries(t)'
  <2>1. job'[t].message.type = "AuthoritativeBroadcast" /\ job'[t].message.t3 = Now(d)
    BY <1>3 DEF Broadcast
  <2> QED
    BY <1>1, <1>2, <1>3, <2>1 DEF Carries, Sending, Answering, Examining, Sound
<1> QED
  BY <1>3, <1>4, <1>5, <1>6, CalmKeeps

(* beginPacket gives the packet to the thread, and discards what it held.  *)
LEMMA BeginPacketKeeps ==
  ASSUME Apart, IInv, TypeOK', NEW t \in Threads, BeginPacket(t), Moves(t), Grows(t[1])
  PROVE  Keeps(t)
<1> DEFINE d == t[1]
<1>1. d \in Devices /\ TypeOK /\ Carries(t) /\ Built(d)
  BY ThreadFacts DEF IInv
<1>2. /\ pc[t] = "begin" /\ pc'[t] = "write" /\ job' = job /\ network' = network
      /\ packet'[d] = [to |-> job[t].to, contents |-> <<>>]
      /\ asked' = asked /\ samples' = samples /\ pendingSequence' = pendingSequence
      /\ clock' = clock /\ nextSequence' = nextSequence
      /\ clock[d] \in Nat /\ nextSequence[d] \in Int
  BY <1>1, Types DEF BeginPacket, Goto
<1>3. Calm(d)
  BY <1>2 DEF Calm
<1>4. Built(d)'
  <2>1. CASE d \in References
    <3>1. t = Worker(d)
      BY <1>2, <2>1, OnlyWorker
    <3>2. pc'[<<d, "app">>] = pc[<<d, "app">>]
      BY <1>1, <3>1, ThreadFacts DEF Moves
    <3> QED
      BY <1>1, <1>2, <2>1, <3>1, <3>2 DEF Built
  <2>2. CASE d \notin References
    BY <1>2, <2>2 DEF Built
  <2> QED
    BY <2>1, <2>2
<1>5. Carries(t)'
  BY <1>1, <1>2 DEF Carries, Sending, Answering, Examining, Sound, Genuine, Visited
<1> QED
  BY <1>2, <1>3, <1>4, <1>5, CalmKeeps

(* write appends to whatever the packet holds by now.                      *)
LEMMA WriteKeeps ==
  ASSUME Apart, IInv, TypeOK', NEW t \in Threads, Write(t), Moves(t), Grows(t[1])
  PROVE  Keeps(t)
<1> DEFINE d == t[1]
<1>1. d \in Devices /\ TypeOK /\ Carries(t) /\ Built(d)
  BY ThreadFacts DEF IInv
<1>2. /\ pc[t] = "write" /\ pc'[t] = "end" /\ job' = job /\ network' = network
      /\ asked' = asked /\ samples' = samples /\ pendingSequence' = pendingSequence
      /\ clock' = clock /\ nextSequence' = nextSequence
      /\ clock[d] \in Nat /\ nextSequence[d] \in Int
  BY <1>1, Types DEF Write, Goto
<1>3. packet'[d] = [to |-> packet[d].to, contents |-> Append(packet[d].contents, job[t].message)]
  <2>1. packet[d] \in [to : Addresses, contents : Seq(Message)]
    BY <1>1, Types
  <2> QED
    BY <1>1, <2>1, Types DEF Write
<1>4. Calm(d)
  BY <1>2 DEF Calm
<1>5. Built(d)'
  <2>1. CASE d \in References
    <3>1. t = Worker(d)
      BY <1>2, <2>1, OnlyWorker
    <3>2. pc'[<<d, "app">>] = "idle"
      BY <1>1, <2>1, <3>1, ThreadFacts DEF Moves, Built
    <3>3. packet[d] = [to |-> job[t].to, contents |-> <<>>]
      BY <1>1, <1>2, <2>1, <3>1 DEF Built
    <3>4. packet'[d] = [to |-> job[t].to, contents |-> <<job[t].message>>]
      BY <1>3, <3>3
    <3> QED
      BY <1>2, <2>1, <3>1, <3>2, <3>4 DEF Built
  <2>2. CASE d \notin References
    <3> DEFINE c == packet[d].contents
               m == job[t].message
    <3>1. c \in Seq(Message) /\ m \in Message
      BY <1>1, Types
    <3>2. m.type = "Request" /\ Genuine(d, m)
      <4>1. m.type \in {"Request", "Response", "AuthoritativeBroadcast"}
        BY <3>1 DEF Message
      <4> QED
        BY <1>1, <1>2, <2>2, <4>1 DEF Carries, Sending, Sound
    <3>3. \A k \in 1..Len(c) : c[k].type = "Request" /\ Genuine(d, c[k])
      BY <1>1, <2>2 DEF Built
    <3>4. \A k \in 1..Len(Append(c, m)) :
            Append(c, m)[k].type = "Request" /\ Genuine(d, Append(c, m)[k])
      <4> SUFFICES ASSUME NEW k \in 1..Len(Append(c, m))
                   PROVE  Append(c, m)[k].type = "Request" /\ Genuine(d, Append(c, m)[k])
        OBVIOUS
      <4> HIDE DEF c, m
      <4>0. /\ Len(c) \in Nat /\ Len(Append(c, m)) = Len(c) + 1
            /\ \A j \in 1..Len(c) : Append(c, m)[j] = c[j]
            /\ Append(c, m)[Len(c) + 1] = m
        BY <3>1, AppendProperties
      <4>1. CASE k \in 1..Len(c)
        <5>1. Append(c, m)[k] = c[k]
          BY <4>0, <4>1
        <5> QED
          BY <3>3, <4>1, <5>1
      <4>2. CASE k = Len(c) + 1
        <5>1. Append(c, m)[k] = m
          BY <4>0, <4>2
        <5> QED
          BY <3>2, <5>1
      <4> QED
        BY <4>0, <4>1, <4>2
    <3>5. packet'[d].contents = Append(c, m)
      BY <1>3
    <3> QED
      BY <1>2, <2>2, <3>4, <3>5 DEF Built, Genuine
  <2> QED
    BY <2>1, <2>2
<1>6. Carries(t)'
  BY <1>1, <1>2 DEF Carries, Sending, Answering, Examining, Sound, Genuine, Visited
<1> QED
  BY <1>2, <1>4, <1>5, <1>6, CalmKeeps

(* endPacket sends what the packet holds, for whom it is addressed to.     *)
LEMMA EndPacketKeeps ==
  ASSUME Apart, IInv, TypeOK', NEW t \in Threads, EndPacket(t), Moves(t), Grows(t[1])
  PROVE  Keeps(t)
<1> DEFINE d == t[1]
<1>1. d \in Devices /\ TypeOK /\ Carries(t) /\ Built(d)
  BY ThreadFacts DEF IInv
<1>2. /\ pc[t] = "end" /\ pc'[t] = "idle" /\ packet' = packet
      /\ network' = network \cup {[from |-> d, to |-> packet[d].to, contents |-> packet[d].contents]}
      /\ asked' = asked /\ samples' = samples /\ pendingSequence' = pendingSequence
      /\ clock' = clock /\ nextSequence' = nextSequence
      /\ clock[d] \in Nat /\ nextSequence[d] \in Int
  BY <1>1, Types DEF EndPacket, Rest, Goto
<1>3. Calm(d)
  BY <1>2 DEF Calm
<1>4. Built(d)'
  <2>1. d \in References => t = Worker(d)
    BY <1>2, OnlyWorker
  <2> QED
    BY <1>2, <2>1, BuiltKept
<1>5. Carries(t)'
  BY <1>2, CarriesNothing
<1>6. \A k \in 1..Len(packet[d].contents) : Sound(d, packet[d].to, packet[d].contents[k])
  <2>1. CASE d \in References
    <3>1. packet[d] = [to |-> job[t].to, contents |-> <<job[t].message>>]
      BY <1>1, <1>2, <2>1, OnlyWorker DEF Built
    <3>2. Sound(d, job[t].to, job[t].message)
      BY <1>1, <1>2 DEF Carries, Sending
    <3>3. /\ packet[d].to = job[t].to /\ Len(packet[d].contents) = 1
          /\ packet[d].contents[1] = job[t].message
      BY <3>1
    <3> QED
      BY <3>2, <3>3
  <2>2. CASE d \notin References
    BY <1>1, <2>2 DEF Built, Sound
  <2> QED
    BY <2>1, <2>2
<1>7. \A p \in network' \ network : Delivers(p)'
  <2> SUFFICES ASSUME NEW p \in network' \ network PROVE Delivers(p)'
    OBVIOUS
  <2>1. /\ p.from = d /\ p.to = packet[d].to /\ p.contents = packet[d].contents
    BY <1>2
  <2>2. Delivers(p)
    BY <1>6, <2>1 DEF Delivers
  <2> QED
    BY <1>2, <2>2 DEF Delivers, Sound, Genuine
<1> QED
  BY <1>2, <1>3, <1>4, <1>5, <1>7, CalmKeeps

(* A send that fails leaves the packet, and the request still to cancel.   *)
LEMMA SendFailsKeeps ==
  ASSUME Apart, IInv, TypeOK', NEW t \in Threads, SendFails(t), Moves(t), Grows(t[1])
  PROVE  Keeps(t)
<1> DEFINE d == t[1]
<1>1. d \in Devices /\ TypeOK
  BY ThreadFacts DEF IInv
<1>2. /\ pc[t] # "idle" /\ pc'[t] \in {"idle", "cancel"} /\ packet' = packet /\ network' = network
      /\ asked' = asked /\ samples' = samples /\ pendingSequence' = pendingSequence
      /\ clock' = clock /\ nextSequence' = nextSequence
      /\ clock[d] \in Nat /\ nextSequence[d] \in Int
  BY <1>1, Types DEF SendFails, Rest, Goto
<1>3. Calm(d)
  BY <1>2 DEF Calm
<1>4. Built(d)'
  <2>1. d \in References => t = Worker(d)
    BY <1>2, OnlyWorker
  <2> QED
    BY <1>2, <2>1, BuiltKept
<1>5. Carries(t)'
  BY <1>2, CarriesNothing
<1> QED
  BY <1>2, <1>3, <1>4, <1>5, CalmKeeps

(* Cancelling forgets whichever request is pending.                        *)
LEMMA CancelKeeps ==
  ASSUME Apart, IInv, TypeOK', NEW t \in Threads, CancelPendingRequest(t), Moves(t), Grows(t[1])
  PROVE  Keeps(t)
<1> DEFINE d == t[1]
<1>1. d \in Devices /\ TypeOK
  BY ThreadFacts DEF IInv
<1>2. /\ pc[t] # "idle" /\ pc'[t] = "idle" /\ packet' = packet /\ network' = network
      /\ asked' = asked /\ samples' = samples /\ pendingSequence'[d] = 0
      /\ clock' = clock /\ nextSequence' = nextSequence
      /\ clock[d] \in Nat /\ nextSequence[d] \in Int
  BY <1>1, Types DEF CancelPendingRequest, SetPending, Rest, Goto
<1>3. Calm(d)
  BY <1>2 DEF Calm
<1>4. Built(d)'
  <2>1. d \in References => t = Worker(d)
    BY <1>2, OnlyWorker
  <2> QED
    BY <1>2, <2>1, BuiltKept
<1>5. Carries(t)'
  BY <1>2, CarriesNothing
<1> QED
  BY <1>2, <1>3, <1>4, <1>5, CalmKeeps

(* Neither does a restart find anything of the threads to leave behind.    *)
LEMMA RestartKeeps ==
  ASSUME IInv, TypeOK', NEW d \in Devices, Restart(d), Moves(Worker(d)), Grows(d)
  PROVE  Keeps(Worker(d))
<1> DEFINE t == Worker(d)
<1>1. t \in Threads /\ t[1] = d /\ TypeOK /\ Built(d)
  BY ThreadFacts DEF IInv
<1>2. /\ pc' = pc /\ pc[t] = "idle" /\ network' = network
      /\ packet'[d] = [to |-> None, contents |-> <<>>]
      /\ asked' = asked /\ samples' = samples /\ pendingSequence'[d] = 0
      /\ clock' = clock /\ nextSequence' = nextSequence
      /\ clock[d] \in Nat /\ nextSequence[d] \in Int
  BY <1>1, Types DEF Restart, SetPending
<1>3. Calm(t[1])
  BY <1>1, <1>2 DEF Calm
<1>4. Built(t[1])'
  BY <1>1, <1>2 DEF Built
<1>5. Carries(t)'
  BY <1>1, <1>2, CarriesNothing
<1>6. /\ pc'[t] \notin {"publish", "accept"}
      /\ \A p \in network' \ network : Delivers(p)'
  BY <1>2
<1> HIDE DEF t
<1> QED
  BY <1>1, <1>3, <1>4, <1>5, <1>6, CalmKeeps DEF t

(* A message under way, when it has arrived.                               *)
LEMMA Arrival ==
  ASSUME IInv, NEW d \in Devices, NEW p \in network, Arrives(d, p)
  PROVE  /\ pc[Worker(d)] = "idle" /\ p.from \in Devices /\ p.to \in {d, All}
         /\ Head(p.contents) \in Message /\ Sound(p.from, p.to, Head(p.contents))
         /\ Now(d) \in Stamp /\ Now(d).by = d /\ Now(d).at = clock[d] + 1
         /\ clock[d] \in Nat /\ clock'[d] = clock[d] + 1
         /\ \A e \in Devices : e # d => clock'[e] = clock[e]
<1>1. TypeOK
  BY DEF IInv
<1>2. Len(p.contents) = 1 /\ Read(d) /\ pc[Worker(d)] = "idle" /\ p.to \in {d, All}
  BY DEF Arrives
<1>3. Head(p.contents) = p.contents[1] /\ p.contents[1] \in Message /\ p.from \in Devices
  BY <1>1, <1>2, Types
<1>4. Sound(p.from, p.to, p.contents[1])
  BY <1>2 DEF IInv, Delivers
<1> QED
  BY <1>1, <1>2, <1>3, <1>4, ReadType

(* A reference takes up a request of the device the packet is from.        *)
LEMMA ReceiveRequestKeeps ==
  ASSUME Apart, IInv, TypeOK', NEW d \in Devices, NEW p \in network, ReceiveRequest(d, p),
         Moves(Worker(d)), Grows(d)
  PROVE  Keeps(Worker(d))
<1> DEFINE t == Worker(d)
           m == Head(p.contents)
<1>1. t \in Threads /\ t[1] = d /\ TypeOK
  BY ThreadFacts DEF IInv
<1>2. Arrives(d, p) /\ m.type = "Request" /\ d \in References
  BY DEF ReceiveRequest
<1>3. /\ p.from \in Devices /\ m \in Message /\ Genuine(p.from, m)
      /\ Now(d) \in Stamp /\ Now(d).by = d /\ Now(d).at = clock[d] + 1
      /\ clock[d] \in Nat /\ clock'[d] = clock[d] + 1
  BY <1>2, Arrival DEF Sound
<1>4. /\ pc'[t] = "respond" /\ job'[t] = [message |-> Response(m, Now(d)), to |-> p.from, at |-> Now(d)]
      /\ packet' = packet /\ network' = network /\ nextSequence[d] \in Int
      /\ asked' = asked /\ samples' = samples /\ pendingSequence' = pendingSequence
      /\ nextSequence' = nextSequence
  BY <1>1, Types DEF ReceiveRequest, Goto
<1>5. Calm(t[1])
  BY <1>1, <1>3, <1>4 DEF Calm
<1>6. Built(t[1])'
  <2> HIDE DEF t
  <2> QED
    BY <1>1, <1>4, BuiltKept DEF t
<1>7. Carries(t)'
  <2>1. /\ Response(m, Now(d)).type = "Response" /\ Response(m, Now(d)).t2 = Now(d)
        /\ Response(m, Now(d)).sequence = m.sequence /\ Response(m, Now(d)).t1 = m.t1
    BY <1>3 DEF Message, Response
  <2>2. /\ job'[t].to = p.from /\ job'[t].message.type = "Response" /\ job'[t].message.t2 = Now(d)
        /\ job'[t].message.sequence = m.sequence /\ job'[t].message.t1 = m.t1
    BY <1>4, <2>1
  <2>3. Answering(t)'
    BY <1>1, <1>2, <1>3, <1>4, <2>2 DEF Answering, Genuine
  <2> QED
    BY <1>4, <2>3 DEF Carries, Sending, Examining
<1>8. /\ pc'[t] \notin {"publish", "accept"}
      /\ \A q \in network' \ network : Delivers(q)'
  BY <1>4
<1> HIDE DEF t
<1> QED
  BY <1>1, <1>5, <1>6, <1>7, <1>8, CalmKeeps DEF t

(* The answer leaves the reference after the request was received.         *)
LEMMA BuildResponseKeeps ==
  ASSUME Apart, IInv, TypeOK', NEW d \in Devices, BuildResponse(d), Moves(Worker(d)), Grows(d)
  PROVE  Keeps(Worker(d))
<1> DEFINE t == Worker(d)
           m == job[t].message
<1>1. t \in Threads /\ t[1] = d /\ TypeOK /\ Carries(t)
  BY ThreadFacts DEF IInv
<1>2. /\ Now(d) \in Stamp /\ Now(d).by = d /\ Now(d).at = clock[d] + 1
      /\ clock[d] \in Nat /\ clock'[d] = clock[d] + 1
  BY <1>1, ReadType DEF BuildResponse
<1>3. /\ pc[t] = "respond" /\ pc'[t] = "begin"
      /\ packet' = packet /\ network' = network /\ nextSequence[d] \in Int
      /\ asked' = asked /\ samples' = samples /\ pendingSequence' = pendingSequence
      /\ nextSequence' = nextSequence
  BY <1>1, Types DEF BuildResponse, Goto
<1>4. /\ job'[t].to = job[t].to /\ job'[t].message.type = m.type
      /\ job'[t].message.sequence = m.sequence /\ job'[t].message.t1 = m.t1
      /\ job'[t].message.t2 = m.t2 /\ job'[t].message.t3 = Now(d)
  <2>1. job[t] \in [message : Message, to : Addresses, at : Stamps] /\ m \in Message
    BY <1>1, Types
  <2>2. job'[t] = [job[t] EXCEPT !.message.t3 = Now(d)]
    BY <1>1, Types DEF BuildResponse
  <2>3. job'[t].to = job[t].to /\ job'[t].message = [m EXCEPT !.t3 = Now(d)]
    BY <2>1, <2>2
  <2> QED
    BY <2>1, <2>3 DEF Message
<1>5. Calm(t[1])
  BY <1>1, <1>2, <1>3 DEF Calm
<1>6. Built(t[1])'
  <2> HIDE DEF t
  <2> QED
    BY <1>1, <1>3, BuiltKept DEF t
<1>7. Carries(t)'
  <2>1. /\ d \in References /\ m.type = "Response" /\ job[t].to \in Devices
        /\ Genuine(job[t].to, m) /\ m.t2 \in Stamp /\ m.t2.by = d /\ m.t2.at =< clock[d]
    BY <1>1, <1>3 DEF Carries, Answering
  <2>2. m.t2.at < Now(d).at
    BY <1>2, <2>1 DEF Stamp
  <2>3. Sending(t)'
    BY <1>1, <1>2, <1>3, <1>4, <2>1, <2>2 DEF Sending, Sound, Genuine, Visited
  <2> QED
    BY <1>3, <2>3 DEF Carries, Answering, Examining
<1>8. /\ pc'[t] \notin {"publish", "accept"}
      /\ \A q \in network' \ network : Delivers(q)'
  BY <1>3
<1> HIDE DEF t
<1> QED
  BY <1>1, <1>5, <1>6, <1>7, <1>8, CalmKeeps DEF t

(* A client takes up a response only to a request of its own.              *)
LEMMA ReceiveResponseKeeps ==
  ASSUME Apart, IInv, TypeOK', NEW d \in Devices, NEW p \in network, ReceiveResponse(d, p),
         Moves(Worker(d)), Grows(d)
  PROVE  Keeps(Worker(d))
<1> DEFINE t == Worker(d)
           m == Head(p.contents)
<1>1. t \in Threads /\ t[1] = d /\ TypeOK /\ Numbered(d)
  BY ThreadFacts DEF IInv
<1>2. Arrives(d, p) /\ m.type = "Response" /\ d \in Clients
  BY DEF ReceiveResponse
<1>3. /\ Now(d) \in Stamp /\ Now(d).by = d /\ Now(d).at = clock[d] + 1
      /\ clock[d] \in Nat /\ clock'[d] = clock[d] + 1
  BY <1>2, Arrival
<1>4. p.from \in References /\ Genuine(d, m) /\ Visited(m, p.from)
  <2>1. p.from \in References /\ p.to \in Devices /\ Genuine(p.to, m) /\ Visited(m, p.from)
    BY <1>2, Arrival DEF Sound
  <2>2. p.to = d
    BY <1>2, <2>1, Arrival, CarrierAssumption
  <2> QED
    BY <2>1, <2>2
<1>5. m.t1.at < Now(d).at
  <2>1. [sequence |-> m.sequence, t1 |-> m.t1] \in asked[d]
    BY <1>4 DEF Genuine
  <2>2. m.t1 \in Stamp /\ m.t1.at =< clock[d]
    BY <1>1, <2>1, Types DEF Numbered
  <2> QED
    BY <1>3, <2>2 DEF Stamp
<1>6. /\ pc'[t] = "match" /\ job'[t] = [message |-> m, to |-> p.from, at |-> Now(d)]
      /\ packet' = packet /\ network' = network /\ nextSequence[d] \in Int
      /\ asked' = asked /\ samples' = samples /\ pendingSequence' = pendingSequence
      /\ nextSequence' = nextSequence
  BY <1>1, Types DEF ReceiveResponse, Goto
<1>7. Calm(t[1])
  BY <1>1, <1>3, <1>6 DEF Calm
<1>8. Built(t[1])'
  <2> HIDE DEF t
  <2> QED
    BY <1>1, <1>6, BuiltKept DEF t
<1>9. Carries(t)'
  <2>1. job'[t].message = m /\ job'[t].at = Now(d)
    BY <1>6
  <2>2. Examining(t)'
    BY <1>1, <1>2, <1>3, <1>4, <1>5, <1>6, <2>1 DEF Examining, Genuine, Visited
  <2> QED
    BY <1>6, <2>2 DEF Carries, Sending, Answering
<1>10. /\ pc'[t] \notin {"publish", "accept"}
       /\ \A q \in network' \ network : Delivers(q)'
  BY <1>6
<1> HIDE DEF t
<1> QED
  BY <1>1, <1>7, <1>8, <1>9, <1>10, CalmKeeps DEF t

(* The response whose number is pending is the first to its request.       *)
LEMMA MatchPendingKeeps ==
  ASSUME Apart, IInv, TypeOK', NEW d \in Devices, MatchPending(d), Moves(Worker(d)), Grows(d)
  PROVE  Keeps(Worker(d))
<1> DEFINE t == Worker(d)
           n == job[t].message.sequence
<1>1. t \in Threads /\ t[1] = d /\ TypeOK /\ Carries(t) /\ Numbered(d) /\ Unsampled(d)
  BY ThreadFacts DEF IInv
<1>2. /\ pc[t] = "match" /\ pc'[t] \in {"idle", "accept"}
      /\ pc'[t] = "accept" => job' = job /\ pendingSequence[d] # 0 /\ pendingSequence[d] = n
      /\ packet' = packet /\ network' = network
      /\ asked' = asked /\ samples' = samples /\ pendingSequence' = pendingSequence
      /\ clock' = clock /\ nextSequence' = nextSequence
      /\ clock[d] \in Nat /\ nextSequence[d] \in Int
  BY <1>1, Types DEF MatchPending, Matches, Rest, Goto
<1>3. Calm(t[1])
  BY <1>1, <1>2 DEF Calm
<1>4. Numbered(t[1])'
  BY <1>1, <1>3, CalmNumbered
<1>5. Unsampled(t[1])'
  <2>1. CASE pc'[t] = "idle"
    <3>1. pc'[t] \notin {"publish", "accept"}
      BY <2>1
    <3> QED
      BY <1>1, <1>3, <3>1, CalmUnsampled
  <2>2. CASE pc'[t] = "accept"
    <3>1. job' = job /\ pendingSequence[d] # 0 /\ pendingSequence[d] = n
      BY <1>2, <2>2
    <3>2. Fresh(d, n)
      BY <1>1, <3>1 DEF Unsampled
    <3>3. pendingSequence'[d] # 0 => Fresh(d, pendingSequence[d])'
      BY <1>2, <3>1, <3>2 DEF Fresh
    <3>4. ASSUME NEW u \in Threads, u[1] = d, pc'[u] \in {"publish", "accept"}
          PROVE  Fresh(d, job[u].message.sequence)'
      <4>1. CASE u = t
        BY <1>2, <3>1, <3>2, <4>1 DEF Fresh
      <4>2. CASE u # t
        <5>1. pc'[u] = pc[u]
          BY <4>2 DEF Moves
        <5>2. Fresh(d, job[u].message.sequence)
          BY <1>1, <3>4, <5>1 DEF Unsampled
        <5> QED
          BY <1>2, <3>1, <5>2 DEF Fresh
      <4> QED
        BY <4>1, <4>2
    <3>5. ASSUME NEW u \in Threads, u[1] = d, pc'[u] = "publish"
          PROVE  /\ pendingSequence'[d] \in {0} \/ pendingSequence'[d] # job'[u].message.sequence
                 /\ \A v \in Threads : v[1] = d /\ v # u => ~Holds(v, job[u].message.sequence)'
      <4>1. u # t /\ pc[u] = "publish"
        BY <2>2, <3>5 DEF Moves
      <4>2. /\ pendingSequence[d] \in {0} \/ pendingSequence[d] # job[u].message.sequence
            /\ \A v \in Threads : v[1] = d /\ v # u => ~Holds(v, job[u].message.sequence)
        BY <1>1, <3>5, <4>1 DEF Unsampled
      <4>3. job[u].message.sequence # n
        BY <3>1, <4>2
      <4>4. ~Holds(t, job[u].message.sequence)'
        BY <3>1, <4>3 DEF Holds
      <4>5. \A v \in Threads : v # t => pc'[v] = pc[v]
        BY DEF Moves
      <4>6. \A v \in Threads : v[1] = d /\ v # u => ~Holds(v, job[u].message.sequence)'
        BY <3>1, <4>2, <4>4, <4>5 DEF Holds
      <4> QED
        BY <1>2, <3>1, <4>2, <4>6
    <3> QED
      BY <1>1, <3>3, <3>4, <3>5 DEF Unsampled
  <2> QED
    BY <1>2, <2>1, <2>2
<1>6. Built(t[1])'
  <2>1. pc'[t] \notin {"write", "end"} /\ packet'[t[1]] = packet[t[1]]
    BY <1>2
  <2> HIDE DEF t
  <2> QED
    BY <1>1, <2>1, BuiltKept DEF t
<1>7. Carries(t)'
  <2>1. CASE pc'[t] = "idle"
    BY <1>1, <2>1, CarriesNothing
  <2>2. CASE pc'[t] = "accept"
    <3>1. Examining(t) /\ n # 0 /\ job' = job
      BY <1>1, <1>2, <2>2 DEF Carries
    <3>2. Examining(t)'
      BY <1>2, <2>2, <3>1 DEF Examining, Genuine, Visited
    <3> QED
      BY <2>2, <3>2 DEF Carries, Sending, Answering
  <2> QED
    BY <1>2, <2>1, <2>2
<1> QED
  BY <1>2, <1>4, <1>5, <1>6, <1>7 DEF Keeps

(* A sample is of a request that is pending no longer, and that no thread  *)
(* will publish.                                                           *)
LEMMA AcceptResponseKeeps ==
  ASSUME Apart, IInv, TypeOK', NEW d \in Devices, AcceptResponse(d), Moves(Worker(d)), Grows(d)
  PROVE  Keeps(Worker(d))
<1> DEFINE t == Worker(d)
           m == job[t].message
<1>1. t \in Threads /\ t[1] = d /\ TypeOK /\ Carries(t) /\ Numbered(d) /\ Unsampled(d)
  BY ThreadFacts DEF IInv
<1> PICK s : s = [t1 |-> m.t1, t2 |-> m.t2, t3 |-> m.t3, t4 |-> job[t].at]
  OBVIOUS
<1>2. /\ pc[t] = "accept" /\ pc'[t] = "idle"
      /\ packet' = packet /\ network' = network
      /\ asked' = asked /\ samples'[d] = samples[d] \cup {s} /\ pendingSequence'[d] = 0
      /\ clock' = clock /\ nextSequence' = nextSequence
      /\ clock[d] \in Nat /\ nextSequence[d] \in Nat \ {0}
  BY <1>1, Types, ClockAssumption DEF AcceptResponse, Accept, SetPending, Submit, Rest, Goto
<1>3. Genuine(d, m) /\ s.t1 = m.t1
  BY <1>1, <1>2 DEF Carries, Examining
<1>4. m.t1.by = d /\ m.t1.at =< clock[d]
      /\ \A q \in asked[d] : q.t1 = m.t1 <=> q.sequence = m.sequence
  BY <1>1, <1>3 DEF Numbered, Genuine
<1>5. Numbered(t[1])'
  <2>1. \A x \in samples'[d] : x.t1.by = d /\ x.t1.at =< clock'[d]
    BY <1>1, <1>2, <1>3, <1>4 DEF Numbered
  <2> QED
    BY <1>1, <1>2, <2>1 DEF Numbered
<1>6. Unsampled(t[1])'
  <2>1. ASSUME NEW u \in Threads, u[1] = d, pc'[u] \in {"publish", "accept"}
        PROVE  /\ u # t /\ pc[u] = "publish" /\ pc'[u] = pc[u] /\ job'[u] = job[u]
               /\ Fresh(d, job[u].message.sequence)'
    <3>1. u # t /\ pc'[u] = pc[u] /\ job'[u] = job[u]
      BY <1>2, <2>1 DEF Moves
    <3>2. pc[u] = "publish"
      <4>1. pc[u] = "accept" => u = Worker(u[1])
        BY DEF IInv, Carries, Examining
      <4> QED
        BY <2>1, <3>1, <4>1
    <3>3. ~Holds(t, job[u].message.sequence) /\ Fresh(d, job[u].message.sequence)
      BY <1>1, <2>1, <3>1, <3>2 DEF Unsampled
    <3>4. job[u].message.sequence # m.sequence
      BY <1>2, <3>3 DEF Holds
    <3>5. \A q \in asked[d] : q.sequence = job[u].message.sequence => q.t1 # s.t1
      BY <1>3, <1>4, <3>4
    <3>6. Fresh(d, job[u].message.sequence)'
      BY <1>2, <3>1, <3>3, <3>5 DEF Fresh
    <3> QED
      BY <3>1, <3>2, <3>6
  <2>2. ASSUME NEW u \in Threads, u[1] = d, pc'[u] = "publish"
        PROVE  \A v \in Threads : v[1] = d /\ v # u => ~Holds(v, job[u].message.sequence)'
    <3>1. /\ pc[u] = "publish" /\ job'[u] = job[u]
          /\ \A v \in Threads : v[1] = d /\ v # u => ~Holds(v, job[u].message.sequence)
      BY <1>1, <2>1, <2>2 DEF Unsampled
    <3>2. ~Holds(t, job[u].message.sequence)'
      BY <1>2 DEF Holds
    <3> QED
      BY <3>1, <3>2 DEF Moves, Holds
  <2> QED
    BY <1>1, <1>2, <2>1, <2>2 DEF Unsampled
<1>7. Built(t[1])'
  <2>1. pc'[t] \notin {"write", "end"} /\ packet'[t[1]] = packet[t[1]]
    BY <1>2
  <2> HIDE DEF t
  <2> QED
    BY <1>1, <2>1, BuiltKept DEF t
<1>8. Carries(t)'
  BY <1>1, <1>2, CarriesNothing
<1> QED
  BY <1>2, <1>5, <1>6, <1>7, <1>8 DEF Keeps

(* A broadcast makes a sample of a time at which nothing was asked.        *)
LEMMA ReceiveBroadcastKeeps ==
  ASSUME Apart, IInv, TypeOK', NEW d \in Devices, NEW p \in network, ReceiveBroadcast(d, p),
         Moves(Worker(d)), Grows(d)
  PROVE  Keeps(Worker(d))
<1> DEFINE t == Worker(d)
<1>1. t \in Threads /\ t[1] = d /\ TypeOK /\ Carries(t) /\ Numbered(d) /\ Unsampled(d)
  BY ThreadFacts DEF IInv
<1> PICK s : s = [t1 |-> Now(d), t2 |-> Head(p.contents).t3, t3 |-> Head(p.contents).t3,
                  t4 |-> Now(d)]
  OBVIOUS
<1>2. /\ pc[t] = "idle" /\ s.t1.by = d /\ s.t1.at = clock[d] + 1
      /\ clock[d] \in Nat /\ clock'[d] = clock[d] + 1
  BY Arrival DEF ReceiveBroadcast
<1>3. /\ pc' = pc /\ job' = job /\ packet' = packet /\ network' = network
      /\ asked' = asked /\ samples'[d] = samples[d] \cup {s}
      /\ pendingSequence' = pendingSequence /\ nextSequence' = nextSequence
  BY <1>1, Types DEF ReceiveBroadcast, Submit
<1>4. /\ \A q \in asked[d] : q.t1.at \in Nat /\ q.t1.at =< clock[d]
      /\ \A x \in samples[d] : x.t1.at \in Nat
  <2>1. \A q \in asked[d] : q.t1 \in Stamp
    BY <1>1, Types
  <2>2. \A x \in samples[d] : x.t1 \in Stamp
    BY <1>1, Types DEF Sample
  <2> QED
    BY <1>1, <2>1, <2>2 DEF Stamp, Numbered
<1>5. Numbered(t[1])'
  <2>1. \A x \in samples'[d] : x.t1.by = d /\ x.t1.at =< clock'[d]
    BY <1>1, <1>2, <1>3, <1>4 DEF Numbered
  <2>2. \A q \in asked[d] : q.t1.at =< clock'[d]
    BY <1>2, <1>4
  <2> QED
    BY <1>1, <1>3, <2>1, <2>2 DEF Numbered
<1>6. \A q \in asked[d] : q.t1 # s.t1
  BY <1>2, <1>4
<1>7. Unsampled(t[1])'
  <2>1. pendingSequence'[d] # 0 => Fresh(d, pendingSequence[d])'
    BY <1>1, <1>3, <1>6 DEF Unsampled, Fresh
  <2>2. ASSUME NEW u \in Threads, u[1] = d, pc'[u] \in {"publish", "accept"}
        PROVE  Fresh(d, job[u].message.sequence)'
    BY <1>1, <1>3, <1>6, <2>2 DEF Unsampled, Fresh
  <2>3. ASSUME NEW u \in Threads, u[1] = d, pc'[u] = "publish"
        PROVE  /\ pendingSequence'[d] \in {0} \/ pendingSequence'[d] # job'[u].message.sequence
               /\ \A v \in Threads : v[1] = d /\ v # u => ~Holds(v, job[u].message.sequence)'
    BY <1>1, <1>3, <2>3 DEF Unsampled, Holds
  <2> QED
    BY <1>1, <2>1, <2>2, <2>3 DEF Unsampled
<1>8. Built(t[1])'
  <2>1. pc'[t] \notin {"write", "end"} /\ packet'[t[1]] = packet[t[1]]
    BY <1>2, <1>3
  <2> HIDE DEF t
  <2> QED
    BY <1>1, <2>1, BuiltKept DEF t
<1>9. Carries(t)'
  BY <1>1, <1>2, <1>3, CarriesNothing
<1> QED
  BY <1>3, <1>5, <1>7, <1>8, <1>9 DEF Keeps

-----------------------------------------------------------------------------
(* The invariant.                                                          *)

(* It holds at the start.                                                  *)
LEMMA InvInit == Init => IInv
<1> SUFFICES ASSUME Init PROVE IInv
  OBVIOUS
<1>1. TypeOK
  BY TypeInit
<1>2. \A t \in Threads : pc[t] = "idle"
  BY DEF Init
<1>3. ASSUME NEW d \in Devices PROVE Numbered(d) /\ Unsampled(d) /\ Built(d)
  <2>1. /\ asked[d] = {} /\ samples[d] = {} /\ pendingSequence[d] = 0 /\ nextSequence[d] = 1
        /\ packet[d].contents = <<>>
    BY DEF Init, ProtocolInit
  <2>2. Numbered(d)
    BY <2>1 DEF Numbered
  <2>3. Unsampled(d)
    BY <1>2, <2>1 DEF Unsampled
  <2>4. Built(d)
    BY <1>2, <2>1, ThreadFacts DEF Built
  <2> QED
    BY <2>2, <2>3, <2>4
<1>4. \A t \in Threads : Carries(t)
  BY <1>2 DEF Carries, Sending, Answering, Examining
<1>5. network = {}
  BY DEF Init
<1> QED
  BY <1>1, <1>3, <1>4, <1>5 DEF IInv

(* A step of a thread that keeps its own keeps all.                        *)
LEMMA KeepsAll ==
  ASSUME IInv, TypeOK', NEW t \in Threads, Moves(t), Grows(t[1]), Keeps(t)
  PROVE  IInv'
<1>1. t[1] \in Devices /\ TypeOK
  BY ThreadFacts DEF IInv
<1>2. \A e \in Devices : asked[e] \subseteq asked'[e] /\ clock'[e] >= clock[e]
  <2> SUFFICES ASSUME NEW e \in Devices PROVE asked[e] \subseteq asked'[e] /\ clock'[e] >= clock[e]
    OBVIOUS
  <2>1. CASE e = t[1]
    BY <2>1 DEF Grows
  <2>2. CASE e # t[1]
    <3>1. asked'[e] = asked[e] /\ clock'[e] = clock[e] /\ clock[e] \in Nat
      BY <1>1, <2>2, Types DEF Moves
    <3> QED
      BY <3>1
  <2> QED
    BY <2>1, <2>2
<1>3. ASSUME NEW e \in Devices PROVE (Numbered(e) /\ Unsampled(e) /\ Built(e))'
  <2>1. CASE e = t[1]
    BY <2>1 DEF Keeps
  <2>2. CASE e # t[1]
    BY <2>2, OthersKept
  <2> QED
    BY <2>1, <2>2
<1>4. ASSUME NEW u \in Threads PROVE Carries(u)'
  <2>1. CASE u = t
    BY <2>1 DEF Keeps
  <2>2. CASE u # t
    <3>1. pc'[u] = pc[u] /\ job'[u] = job[u] /\ Carries(u)
      BY <2>2 DEF Moves, IInv
    <3> QED
      BY <1>1, <1>2, <3>1, CarriesKept
  <2> QED
    BY <2>1, <2>2
<1>5. ASSUME NEW p \in network' PROVE Delivers(p)'
  <2>1. CASE p \in network
    BY <1>1, <1>2, <2>1, DeliversKept DEF IInv
  <2>2. CASE p \notin network
    BY <2>2 DEF Keeps
  <2> QED
    BY <2>1, <2>2
<1> QED
  BY <1>3, <1>4, <1>5 DEF IInv

(* Every operation keeps it.                                               *)
LEMMA CallInv ==
  ASSUME Apart, IInv, NEW t \in Threads, Call(t)
  PROVE  IInv'
<1>1. TypeOK /\ TypeOK' /\ Moves(t) /\ Grows(t[1])
  BY CallType, CallMoves DEF IInv
<1>2. Keeps(t)
  BY <1>1, BuildRequestKeeps, StorePendingKeeps, BuildBroadcastKeeps, BeginPacketKeeps, WriteKeeps,
     EndPacketKeeps, SendFailsKeeps, CancelKeeps DEF Call, Send
<1> QED
  BY <1>1, <1>2, KeepsAll

(* Every packet handled keeps it.                                          *)
LEMMA HandleInv ==
  ASSUME Apart, TInv, IInv, NEW d \in Devices, HandlePacket(d)
  PROVE  IInv'
<1>1. /\ TypeOK /\ TypeOK' /\ Moves(Worker(d)) /\ Grows(d)
      /\ Worker(d) \in Threads /\ Worker(d)[1] = d
  BY HandleType, HandleMoves, ThreadFacts DEF IInv
<1>2. Keeps(Worker(d))
  BY <1>1, ReceiveRequestKeeps, ReceiveResponseKeeps, ReceiveBroadcastKeeps, BuildResponseKeeps,
     MatchPendingKeeps, AcceptResponseKeeps DEF HandlePacket
<1> QED
  BY <1>1, <1>2, KeepsAll

(* A restart keeps it.                                                     *)
LEMMA RestartInv ==
  ASSUME IInv, NEW d \in Devices, Restart(d)
  PROVE  IInv'
<1>1. /\ TypeOK /\ TypeOK' /\ Moves(Worker(d)) /\ Grows(d)
      /\ Worker(d) \in Threads /\ Worker(d)[1] = d
  BY RestartType, RestartMoves, ThreadFacts DEF IInv
<1>2. Keeps(Worker(d))
  BY <1>1, RestartKeeps
<1> QED
  BY <1>1, <1>2, KeepsAll

(* And so does every step.                                                 *)
LEMMA InvStep == Apart /\ TInv /\ IInv /\ [Next]_vars => IInv'
<1> SUFFICES ASSUME Apart, TInv, IInv, [Next]_vars PROVE IInv'
  OBVIOUS
<1>1. CASE Next
  BY <1>1, CallInv, HandleInv, RestartInv DEF Next
<1>2. CASE UNCHANGED vars
  <2>1. TypeOK'
    BY <1>2 DEF IInv, vars, TypeOK, ProtocolTypeOK
  <2>2. ASSUME NEW d \in Devices PROVE (Numbered(d) /\ Unsampled(d) /\ Built(d))'
    BY <1>2, <2>2 DEF IInv, vars, Numbered, Unsampled, Built, Fresh, Holds, Genuine
  <2>3. ASSUME NEW t \in Threads PROVE Carries(t)'
    BY <1>2, <2>3
    DEF IInv, vars, Carries, Sending, Answering, Examining, Sound, Genuine, Visited
  <2>4. ASSUME NEW p \in network' PROVE Delivers(p)'
    BY <1>2, <2>4 DEF IInv, vars, Delivers, Sound, Genuine
  <2> QED
    BY <2>1, <2>2, <2>3, <2>4 DEF IInv
<1> QED
  BY <1>1, <1>2

(* Numbers are published once, messages are genuine, and a reference sends *)
(* its packets to whom they are for.                                       *)
THEOREM Invariance == ASSUME Apart PROVE Spec => []IInv
<1>1. TInv /\ IInv /\ [Next]_vars => IInv'
  BY InvStep
<1> QED
  BY <1>1, InvInit, TypeInvariance, PTL DEF Spec

-----------------------------------------------------------------------------
(* The carrier implements the exchange.                                    *)

(* Building a request is asking.                                           *)
LEMMA BuildRequestAsks ==
  ASSUME IInv, NEW t \in Threads, BuildRequest(t)
  PROVE  t[1] \in Clients /\ Exchange!Ask(t[1])
<1> DEFINE d == t[1]
<1> PICK q : q = [sequence |-> Sequence(d), t1 |-> Now(d)]
  OBVIOUS
<1>1. d \in Devices /\ TypeOK /\ Numbered(d) /\ d \in Clients
  BY ThreadFacts DEF IInv, BuildRequest
<1>2. q.t1 \in Stamp /\ q.t1.by = d /\ q.t1.at = clock[d] + 1 /\ clock[d] \in Nat
  BY <1>1, ReadType
<1>3. asked' = [asked EXCEPT ![d] = @ \cup {q}] /\ samples' = samples
  BY DEF BuildRequest, NumberRequest
<1>4. \A p \in asked[d] \cup samples[d] : p.t1 # q.t1
  <2>1. \A p \in asked[d] \cup samples[d] : p.t1 \in Stamp
    BY <1>1, Types DEF Sample
  <2>2. \A p \in asked[d] \cup samples[d] : p.t1.at =< clock[d]
    BY <1>1 DEF Numbered
  <2> QED
    BY <1>2, <2>1, <2>2 DEF Stamp
<1>5. q \in asked'[d] \ asked[d]
  BY <1>1, <1>3, <1>4, Types
<1>6. q.t1 \in Exchange!On(d)
  BY <1>2 DEF Stamp, Exchange!On
<1> QED
  BY <1>1, <1>3, <1>4, <1>5, <1>6 DEF Exchange!Ask

(* Accepting a response is learning from it.                               *)
LEMMA AcceptResponseLearns ==
  ASSUME IInv, NEW d \in Devices, AcceptResponse(d)
  PROVE  d \in Clients /\ Exchange!Learn(d)
<1> DEFINE t == Worker(d)
           m == job[t].message
<1> PICK s : s = [t1 |-> m.t1, t2 |-> m.t2, t3 |-> m.t3, t4 |-> job[t].at]
  OBVIOUS
<1>1. t \in Threads /\ t[1] = d /\ TypeOK /\ Numbered(d) /\ Unsampled(d) /\ Examining(t)
      /\ pc[t] = "accept"
  BY ThreadFacts DEF IInv, Carries, AcceptResponse
<1>2. /\ d \in Clients /\ Genuine(d, m) /\ job[t].at \in Stamp /\ job[t].at.by = d
      /\ m.t1.at < job[t].at.at
  BY <1>1 DEF Examining
<1>3. PICK r \in References : Visited(m, r)
  BY <1>1 DEF Examining
<1>4. samples' = [samples EXCEPT ![d] = @ \cup {s}] /\ asked' = asked
  BY DEF AcceptResponse, Accept, Submit
<1>5. \E q \in asked[d] : q.t1 = s.t1
  BY <1>2 DEF Genuine
<1>6. \A other \in samples[d] : other.t1 # s.t1
  <2>1. Fresh(d, m.sequence)
    BY <1>1 DEF Unsampled
  <2> QED
    BY <1>2, <2>1 DEF Fresh, Genuine
<1>7. s \in samples'[d] \ samples[d]
  BY <1>1, <1>4, <1>6, Types
<1>8. s.t4 \in Exchange!On(d) /\ s.t1.at < s.t4.at
  BY <1>2 DEF Stamp, Exchange!On
<1>9. {s.t2, s.t3} \subseteq Exchange!On(r) /\ s.t2.at < s.t3.at
  BY <1>3 DEF Visited, Stamp, Exchange!On
<1> QED
  BY <1>2, <1>3, <1>4, <1>5, <1>6, <1>7, <1>8, <1>9 DEF Exchange!Learn

(* Receiving a broadcast is listening.                                     *)
LEMMA ReceiveBroadcastListens ==
  ASSUME IInv, NEW d \in Devices, NEW p \in network, ReceiveBroadcast(d, p)
  PROVE  d \in Clients /\ Exchange!Listen(d)
<1> DEFINE m == Head(p.contents)
<1> PICK s : s = [t1 |-> Now(d), t2 |-> m.t3, t3 |-> m.t3, t4 |-> Now(d)]
  OBVIOUS
<1>1. TypeOK /\ Numbered(d) /\ d \in Clients
  BY DEF IInv, ReceiveBroadcast
<1>2. /\ Now(d) \in Stamp /\ Now(d).by = d /\ Now(d).at = clock[d] + 1 /\ clock[d] \in Nat
      /\ Sound(p.from, p.to, m) /\ m.type = "AuthoritativeBroadcast"
  BY Arrival DEF ReceiveBroadcast
<1>3. p.from \in References /\ m.t3 \in Stamp /\ m.t3.by = p.from
  BY <1>2 DEF Sound
<1>4. samples' = [samples EXCEPT ![d] = @ \cup {s}] /\ asked' = asked
  BY DEF ReceiveBroadcast, Submit
<1>5. \A q \in asked[d] \cup samples[d] : q.t1 # s.t1
  <2>1. \A q \in asked[d] \cup samples[d] : q.t1 \in Stamp
    BY <1>1, Types DEF Sample
  <2>2. \A q \in asked[d] \cup samples[d] : q.t1.at =< clock[d]
    BY <1>1 DEF Numbered
  <2> QED
    BY <1>2, <2>1, <2>2 DEF Stamp
<1>6. s \in samples'[d] \ samples[d]
  BY <1>1, <1>4, <1>5, Types
<1>7. s.t1 \in Exchange!On(d) /\ s.t4 = s.t1
  BY <1>2 DEF Stamp, Exchange!On
<1>8. s.t2 \in Exchange!On(p.from) /\ s.t3 = s.t2
  BY <1>3 DEF Stamp, Exchange!On
<1> QED
  BY <1>1, <1>3, <1>4, <1>5, <1>6, <1>7, <1>8 DEF Exchange!Listen

(* Whatever packets are lost, duplicated or late, the carrier is a channel *)
(* of the exchange.                                                        *)
THEOREM Refinement == ASSUME Apart PROVE Spec => ImplementsExchange
<1>1. Init => Exchange!Init
  BY DEF Init, ProtocolInit, Exchange!Init, Devices
<1>2. IInv /\ [Next]_vars => [Exchange!Next]_(Exchange!vars)
  <2> SUFFICES ASSUME IInv, [Next]_vars
               PROVE  Exchange!Next \/ UNCHANGED <<asked, samples>>
    BY DEF Exchange!vars
  <2>1. ASSUME NEW t \in Threads, Call(t) PROVE Exchange!Next \/ UNCHANGED <<asked, samples>>
    <3>1. CASE BuildRequest(t)
      BY <3>1, BuildRequestAsks DEF Exchange!Next
    <3>2. CASE ~BuildRequest(t)
      BY <2>1, <3>2 DEF Call, Send, StorePending, BuildBroadcast, BeginPacket, Write, EndPacket,
                        SendFails, CancelPendingRequest
    <3> QED
      BY <3>1, <3>2
  <2>2. ASSUME NEW d \in Devices, HandlePacket(d)
        PROVE  Exchange!Next \/ UNCHANGED <<asked, samples>>
    <3>1. CASE AcceptResponse(d)
      BY <3>1, AcceptResponseLearns DEF Exchange!Next
    <3>2. ASSUME NEW p \in network, ReceiveBroadcast(d, p) PROVE Exchange!Next
      BY <3>2, ReceiveBroadcastListens DEF Exchange!Next
    <3>3. CASE ~AcceptResponse(d) /\ ~\E p \in network : ReceiveBroadcast(d, p)
      BY <2>2, <3>3 DEF HandlePacket, ReceiveRequest, ReceiveResponse, BuildResponse, MatchPending
    <3> QED
      BY <3>1, <3>2, <3>3
  <2>3. ASSUME NEW d \in Devices, Restart(d) PROVE UNCHANGED <<asked, samples>>
    BY <2>3 DEF Restart
  <2>4. CASE UNCHANGED vars
    BY <2>4 DEF vars
  <2> QED
    BY <2>1, <2>2, <2>3, <2>4 DEF Next
<1> QED
  BY <1>1, <1>2, Invariance, PTL DEF Spec, ImplementsExchange, Exchange!Spec

(* Over UDP, each sample is of a request of its own, answered in one visit *)
(* to one reference, and no request yields two, whatever the network does. *)
THEOREM UDPSamples == ASSUME Apart PROVE Spec => []OwnSamples /\ []OneSamplePerRequest
BY Refinement, SamplesAreOwn, RequestsAreSampledOnce

=============================================================================
