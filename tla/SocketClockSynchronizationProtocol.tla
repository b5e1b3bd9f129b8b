-------------------- MODULE SocketClockSynchronizationProtocol --------------------
(***************************************************************************)
(* SocketClockSynchronizationProtocol, the numbering, matching and sampling *)
(* that the UDP and the TCP synchronizers share: its two atomic numbers,   *)
(* and what the device's Timing target sees of it.                         *)
(*                                                                         *)
(* A device reads its own clock, which advances between two readings.  A   *)
(* time stamp carries the device that read it, though the code sends the   *)
(* time alone.                                                             *)
(***************************************************************************)
EXTENDS Integers, Sequences, FiniteSets

CONSTANTS Clients,        \* devices in Client or ClientAndReference mode
          References,     \* devices in Reference or ClientAndReference mode
          None,           \* no stamp, no address
          Modulus,        \* sequence numbers a uint32_t can hold
          MaxReadings     \* readings of each device's clock (model bound)

Devices == Clients \cup References

\* The bound on sequence numbers keeps one from being used again.
ASSUME ClockAssumption ==
  /\ None \notin Devices /\ None \notin [by : Devices, at : Nat]
  /\ Modulus \in Nat \ {0} /\ MaxReadings \in [Devices -> Nat]

Stamp  == [by : Devices, at : Nat]
Stamps == Stamp \cup {None}
Sequences == 0..(Modulus - 1)

VARIABLES
  clock,            \* the time each device has read last
  nextSequence,     \* _nextSequence, before it is cut to its width
  pendingSequence,  \* _pendingSequence
  asked,            \* the requests a device has built
  samples           \* the samples submitted to a device's Timing target

protocolVars == <<clock, nextSequence, pendingSequence, asked, samples>>

Message == [type : {"Request", "Response", "AuthoritativeBroadcast"},
            sequence : Sequences, t1 : Stamps, t2 : Stamps, t3 : Stamps]
Sample == [t1 : Stamp, t2 : Stamp, t3 : Stamp, t4 : Stamp]

Request(s, t) == [type |-> "Request", sequence |-> s, t1 |-> t, t2 |-> None, t3 |-> None]
Response(m, t2) == [m EXCEPT !.type = "Response", !.t2 = t2]
Broadcast(s, t) ==
  [type |-> "AuthoritativeBroadcast", sequence |-> s, t1 |-> None, t2 |-> None, t3 |-> t]

ProtocolTypeOK ==
  /\ clock \in [Devices -> Nat] /\ \A d \in Devices : clock[d] =< MaxReadings[d]
  /\ nextSequence \in [Devices -> 1..(Modulus + 1)]
  /\ pendingSequence \in [Devices -> Sequences]
  /\ asked \in [Devices -> SUBSET [sequence : Sequences, t1 : Stamp]]
  /\ samples \in [Devices -> SUBSET Sample]

ProtocolInit ==
  /\ clock = [d \in Devices |-> 0]
  /\ nextSequence = [d \in Devices |-> 1]
  /\ pendingSequence = [d \in Devices |-> 0]
  /\ asked = [d \in Devices |-> {}]
  /\ samples = [d \in Devices |-> {}]

\* GetLocalTimestamp, and the time it returns.
Read(d) == clock[d] < MaxReadings[d] /\ clock' = [clock EXCEPT ![d] = @ + 1]
Now(d) == [by |-> d, at |-> clock[d] + 1]

\* fetch_add on _nextSequence.
Number(d) ==
  /\ nextSequence[d] =< Modulus
  /\ nextSequence' = [nextSequence EXCEPT ![d] = @ + 1]

\* Mutation: the number is not cut to its width.
UncutSequence(d) == nextSequence[d]

Sequence(d) == nextSequence[d] % Modulus

\* The first half of BuildRequest: the number and T1.
NumberRequest(d) ==
  /\ Number(d) /\ Read(d)
  /\ asked' = [asked EXCEPT ![d] = @ \cup {[sequence |-> Sequence(d), t1 |-> Now(d)]}]
  /\ UNCHANGED samples

\* The other half, and CancelPendingRequest for 0.
SetPending(d, s) == pendingSequence' = [pendingSequence EXCEPT ![d] = s]

\* Mutation: any response passes while a request is pending.
MatchesAnything(d, m) == pendingSequence[d] # 0

\* ProcessResponse loads the pending number and compares.
Matches(d, m) == pendingSequence[d] # 0 /\ pendingSequence[d] = m.sequence

Submit(d, t1, t2, t3, t4) ==
  samples' = [samples EXCEPT ![d] = @ \cup {[t1 |-> t1, t2 |-> t2, t3 |-> t3, t4 |-> t4]}]

\* Mutation: the request stays pending.
AcceptKeepingPending(d, m, t4) ==
  /\ Submit(d, m.t1, m.t2, m.t3, t4)
  /\ UNCHANGED <<clock, nextSequence, pendingSequence, asked>>

\* It then clears the number, whichever it is by now, and submits the sample.
Accept(d, m, t4) ==
  /\ SetPending(d, 0)
  /\ Submit(d, m.t1, m.t2, m.t3, t4)
  /\ UNCHANGED <<clock, nextSequence, asked>>

-----------------------------------------------------------------------------
Exchanges(d) == {s \in samples[d] : s.t1 # s.t4}

(* A sample is taken from a request the device itself has built, before it *)
(* received the response, and from one visit of it to a reference, however *)
(* late or often messages arrive, and whatever became of the others.       *)
OwnSamples ==
  \A d \in Devices : \A s \in Exchanges(d) :
    /\ \E q \in asked[d] : q.t1 = s.t1
    /\ s.t1.at < s.t4.at
    /\ s.t2.by \in References /\ s.t3.by = s.t2.by /\ s.t2.at < s.t3.at

(* However often its response arrives, a request yields at most a sample.  *)
OneSamplePerRequest ==
  \A d \in Devices : \A s, u \in Exchanges(d) : s.t1 = u.t1 => s = u

(* The carrier implements ClockExchange: what its Timing targets learn of  *)
(* each other's clocks is what they would over a channel that can do no    *)
(* worse than stay silent.                                                 *)
Exchange == INSTANCE ClockExchange

ImplementsExchange == Exchange!Spec
=============================================================================
