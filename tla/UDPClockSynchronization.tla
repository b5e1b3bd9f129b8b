----------------------- MODULE UDPClockSynchronization -----------------------
(***************************************************************************)
(* Clock synchronization over UDP: the UDPClockSynchronizer.  Clients ask  *)
(* their reference for its time, references answer and may broadcast       *)
(* theirs.                                                                 *)
(*                                                                         *)
(* A device has a worker, which receives packets and sends, and perhaps an *)
(* application thread that calls RequestSynchronization or BroadcastTime.  *)
(* Both share the protocol's two atomic numbers and, with no lock around   *)
(* it, the outgoing packet of the WiFiUDP object.  Packets, once sent, may *)
(* be received late, in any order, more than once, or never.               *)
(***************************************************************************)
EXTENDS SocketClockSynchronizationProtocol

CONSTANTS ReferenceOf,    \* each client's ReferenceAddress, None where it is 0.0.0.0
          Broadcasters,   \* devices with EnableAuthoritativeBroadcast
          AppThreads,     \* devices whose application calls the synchronizer
          All             \* the broadcast address

ASSUME CarrierAssumption ==
  /\ ReferenceOf \in [Clients -> Devices \cup {None}]
  /\ Broadcasters \subseteq References /\ AppThreads \subseteq Devices
  /\ All \notin Devices /\ None # All

Threads == Devices \X {"worker", "app"}
Worker(d) == <<d, "worker">>

VARIABLES
  pc,               \* where each thread is in its call
  job,              \* the message a thread handles, whom it is for, when it came
  packet,           \* the packet WiFiUDP is building: its address and contents
  network           \* packets sent

vars == <<clock, nextSequence, pendingSequence, pc, job, packet, network, asked, samples>>

Addresses == Devices \cup {None, All}
Packet == [from : Devices, to : Addresses, contents : Seq(Message)]

Steps == {"idle", "publish", "begin", "write", "end", "cancel", "respond", "match", "accept"}

TypeOK ==
  /\ ProtocolTypeOK
  /\ pc \in [Threads -> Steps]
  /\ job \in [Threads -> [message : Message, to : Addresses, at : Stamps]]
  /\ packet \in [Devices -> [to : Addresses, contents : Seq(Message)]]
  /\ network \subseteq Packet

Idle == [message |-> Request(0, None), to |-> None, at |-> None]

Init ==
  /\ ProtocolInit
  /\ pc = [t \in Threads |-> "idle"]
  /\ job = [t \in Threads |-> Idle]
  /\ packet = [d \in Devices |-> [to |-> None, contents |-> <<>>]]
  /\ network = {}

\* The thread may act: the worker always, the application where it has a thread.
MayCall(t) == pc[t] = "idle" /\ (t[2] = "app" => t[1] \in AppThreads)

Goto(t, step) == pc' = [pc EXCEPT ![t] = step]
Rest(t) == Goto(t, "idle") /\ job' = [job EXCEPT ![t] = Idle]

-----------------------------------------------------------------------------
(* RequestSynchronization, of the worker when the interval is over or of   *)
(* the application; BroadcastTime.                                         *)

BuildRequest(t) ==
  LET d == t[1]
      r == Request(Sequence(d), Now(d))
  IN  /\ MayCall(t)
      /\ d \in Clients /\ ReferenceOf[d] # None
      /\ NumberRequest(d)
      /\ job' = [job EXCEPT ![t] = [message |-> r, to |-> ReferenceOf[d], at |-> None]]
      /\ Goto(t, "publish")
      /\ UNCHANGED <<pendingSequence, packet, network>>

StorePending(t) ==
  /\ pc[t] = "publish"
  /\ SetPending(t[1], job[t].message.sequence)
  /\ Goto(t, "begin")
  /\ UNCHANGED <<clock, nextSequence, job, packet, network, asked, samples>>

BuildBroadcast(t) ==
  LET d == t[1]
      b == Broadcast(Sequence(d), Now(d))
  IN  /\ MayCall(t)
      /\ d \in Broadcasters
      /\ Number(d) /\ Read(d)
      /\ job' = [job EXCEPT ![t] = [message |-> b, to |-> All, at |-> None]]
      /\ Goto(t, "begin")
      /\ UNCHANGED <<pendingSequence, packet, network, asked, samples>>

-----------------------------------------------------------------------------
(* SendDatagram: beginPacket sets the address and discards what was        *)
(* written, write appends, endPacket sends what has been written.          *)

BeginPacket(t) ==
  /\ pc[t] = "begin"
  /\ packet' = [packet EXCEPT ![t[1]] = [to |-> job[t].to, contents |-> <<>>]]
  /\ Goto(t, "write")
  /\ UNCHANGED <<clock, nextSequence, pendingSequence, job, network, asked, samples>>

Write(t) ==
  /\ pc[t] = "write"
  /\ packet' = [packet EXCEPT ![t[1]].contents = Append(@, job[t].message)]
  /\ Goto(t, "end")
  /\ UNCHANGED <<clock, nextSequence, pendingSequence, job, network, asked, samples>>

EndPacket(t) ==
  LET d == t[1]
  IN  /\ pc[t] = "end"
      /\ network' = network \cup {[from |-> d, to |-> packet[d].to, contents |-> packet[d].contents]}
      /\ Rest(t)
      /\ UNCHANGED <<clock, nextSequence, pendingSequence, packet, asked, samples>>

\* Only RequestSynchronization looks at the result.
SendFails(t) ==
  /\ pc[t] \in {"begin", "write", "end"}
  /\ IF job[t].message.type = "Request"
     THEN Goto(t, "cancel") /\ UNCHANGED job
     ELSE Rest(t)
  /\ UNCHANGED <<clock, nextSequence, pendingSequence, packet, network, asked, samples>>

CancelPendingRequest(t) ==
  /\ pc[t] = "cancel"
  /\ SetPending(t[1], 0)
  /\ Rest(t)
  /\ UNCHANGED <<clock, nextSequence, packet, network, asked, samples>>

-----------------------------------------------------------------------------
(* OnWorkerIteration and HandlePacket.  A packet that a device is not      *)
(* addressed by, or of another size than a message, leaves no trace.       *)

Arrives(d, p) ==
  /\ pc[Worker(d)] = "idle"
  /\ p.to \in {d, All} /\ p.from # d
  /\ Len(p.contents) = 1
  /\ Read(d)

ReceiveRequest(d, p) ==
  LET m == Head(p.contents)
  IN  /\ Arrives(d, p)
      /\ m.type = "Request" /\ d \in References
      /\ job' = [job EXCEPT ![Worker(d)] =
                   [message |-> Response(m, Now(d)), to |-> p.from, at |-> Now(d)]]
      /\ Goto(Worker(d), "respond")
      /\ UNCHANGED <<nextSequence, pendingSequence, packet, network, asked, samples>>

\* Mutation: the response carries the time the request was received twice.
BuildResponseWithoutReading(d) ==
  LET t == Worker(d)
  IN  /\ pc[t] = "respond"
      /\ job' = [job EXCEPT ![t].message.t3 = job[t].at]
      /\ Goto(t, "begin")
      /\ UNCHANGED <<clock, nextSequence, pendingSequence, packet, network, asked, samples>>

\* The rest of ProcessRequest: T3 is read just before the packet is built.
BuildResponse(d) ==
  LET t == Worker(d)
  IN  /\ pc[t] = "respond"
      /\ Read(d)
      /\ job' = [job EXCEPT ![t].message.t3 = Now(d)]
      /\ Goto(t, "begin")
      /\ UNCHANGED <<nextSequence, pendingSequence, packet, network, asked, samples>>

ReceiveResponse(d, p) ==
  LET m == Head(p.contents)
  IN  /\ Arrives(d, p)
      /\ m.type = "Response" /\ d \in Clients
      /\ ReferenceOf[d] \in {None, p.from}
      /\ job' = [job EXCEPT ![Worker(d)] = [message |-> m, to |-> p.from, at |-> Now(d)]]
      /\ Goto(Worker(d), "match")
      /\ UNCHANGED <<nextSequence, pendingSequence, packet, network, asked, samples>>

\* ProcessResponse, up to its comparison.
MatchPending(d) ==
  LET t == Worker(d)
  IN  /\ pc[t] = "match"
      /\ IF Matches(d, job[t].message)
         THEN Goto(t, "accept") /\ UNCHANGED job
         ELSE Rest(t)
      /\ UNCHANGED <<clock, nextSequence, pendingSequence, packet, network, asked, samples>>

AcceptResponse(d) ==
  LET t == Worker(d)
  IN  /\ pc[t] = "accept"
      /\ Accept(d, job[t].message, job[t].at)
      /\ Rest(t)
      /\ UNCHANGED <<packet, network>>

\* A broadcast is submitted as an exchange of no duration.
ReceiveBroadcast(d, p) ==
  LET m == Head(p.contents)
  IN  /\ Arrives(d, p)
      /\ m.type = "AuthoritativeBroadcast" /\ d \in Clients
      /\ Submit(d, Now(d), m.t3, m.t3, Now(d))
      /\ UNCHANGED <<nextSequence, pendingSequence, pc, job, packet, network, asked>>

-----------------------------------------------------------------------------
\* Shutdown, which has joined the worker, and Initialize again.
Restart(d) ==
  /\ \A t \in Threads : t[1] = d => pc[t] = "idle"
  /\ SetPending(d, 0)
  /\ packet' = [packet EXCEPT ![d] = [to |-> None, contents |-> <<>>]]
  /\ UNCHANGED <<clock, nextSequence, pc, job, network, asked, samples>>

Send(t) == BeginPacket(t) \/ Write(t) \/ EndPacket(t) \/ SendFails(t)

Call(t) == BuildRequest(t) \/ StorePending(t) \/ BuildBroadcast(t) \/ Send(t)
           \/ CancelPendingRequest(t)

HandlePacket(d) ==
  \/ \E p \in network : ReceiveRequest(d, p) \/ ReceiveResponse(d, p) \/ ReceiveBroadcast(d, p)
  \/ BuildResponse(d) \/ MatchPending(d) \/ AcceptResponse(d)

Next == (\E t \in Threads : Call(t)) \/ (\E d \in Devices : HandlePacket(d) \/ Restart(d))

Spec == Init /\ [][Next]_vars

=============================================================================
