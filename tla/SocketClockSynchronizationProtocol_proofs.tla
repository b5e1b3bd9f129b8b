------------- MODULE SocketClockSynchronizationProtocol_proofs -------------
(***************************************************************************)
(* What every carrier of the clock synchronization protocol has from the   *)
(* abstract exchange it implements: for any devices and any sequence       *)
(* numbers, samples are a device's own and at most one is of a request;    *)
(* and what the proofs that carriers implement it share.                   *)
(***************************************************************************)
EXTENDS SocketClockSynchronizationProtocol, TLAPS

\* The order in which the numbers of a device are given.
Ordinal(s) == IF s = 0 THEN Modulus ELSE s

\* The device has built the request that m carries, or answers.
Genuine(d, m) == [sequence |-> m.sequence, t1 |-> m.t1] \in asked[d]

(* Sequence numbers and their ordinals. *)
LEMMA NumberFacts ==
  ASSUME NEW n \in 1..Modulus
  PROVE  /\ n % Modulus \in Sequences
         /\ Ordinal(n % Modulus) = n
BY ClockAssumption DEF Ordinal, Sequences

(* Every sequence number has an ordinal, its own unless it is 0.           *)
LEMMA OrdinalType ==
  /\ \A s \in Sequences : Ordinal(s) \in 1..Modulus /\ (s # 0 => Ordinal(s) = s)
  /\ 0 \in Sequences
BY ClockAssumption DEF Ordinal, Sequences

-----------------------------------------------------------------------------
(* What the exchange has.                                                  *)

\* The variables of the exchange are functions on the devices.
OnDevices ==
  /\ asked = [d \in Devices |-> asked[d]]
  /\ samples = [d \in Devices |-> samples[d]]

ExchangeInv == OnDevices /\ OwnSamples /\ OneSamplePerRequest

(* Nothing has been asked, nothing learned.                                *)
LEMMA ExchangeInit == Exchange!Init => ExchangeInv
BY DEF Exchange!Init, ExchangeInv, OnDevices, OwnSamples, OneSamplePerRequest, Exchanges, Devices

(* A request makes no sample anyone else's.                                *)
LEMMA AskKeeps ==
  ASSUME NEW d \in Clients, ExchangeInv, Exchange!Ask(d)
  PROVE  ExchangeInv'
<1>1. PICK q : asked' = [asked EXCEPT ![d] = @ \cup {q}] /\ samples' = samples
  BY DEF Exchange!Ask
<1>2. OnDevices'
  BY <1>1 DEF ExchangeInv, OnDevices
<1>3. \A e \in Devices : asked[e] \subseteq asked'[e] /\ samples'[e] = samples[e]
  BY <1>1 DEF ExchangeInv, OnDevices
<1>4. OwnSamples'
  BY <1>3 DEF ExchangeInv, OwnSamples, Exchanges
<1>5. OneSamplePerRequest'
  BY <1>3 DEF ExchangeInv, OneSamplePerRequest, Exchanges
<1> QED
  BY <1>2, <1>4, <1>5 DEF ExchangeInv

(* The sample learned is of a request that none was learned from.          *)
LEMMA LearnKeeps ==
  ASSUME NEW d \in Clients, ExchangeInv, Exchange!Learn(d)
  PROVE  ExchangeInv'
<1>1. PICK s \in samples'[d] \ samples[d] :
        /\ \E q \in asked[d] : q.t1 = s.t1
        /\ \A other \in samples[d] : other.t1 # s.t1
        /\ s.t4 \in Exchange!On(d) /\ s.t1.at < s.t4.at
        /\ \E r \in References : {s.t2, s.t3} \subseteq Exchange!On(r) /\ s.t2.at < s.t3.at
        /\ samples' = [samples EXCEPT ![d] = @ \cup {s}]
        /\ asked' = asked
  BY DEF Exchange!Learn
<1>2. s.t2.by \in References /\ s.t3.by = s.t2.by /\ s.t2.at < s.t3.at
  BY <1>1 DEF Exchange!On
<1>3. OnDevices'
  BY <1>1 DEF ExchangeInv, OnDevices
<1>4. /\ d \in Devices /\ samples'[d] = samples[d] \cup {s}
      /\ \A e \in Devices : e # d => samples'[e] = samples[e]
  BY <1>1 DEF ExchangeInv, OnDevices, Devices
<1>5. OwnSamples'
  <2> SUFFICES ASSUME NEW e \in Devices, NEW x \in Exchanges(e)'
               PROVE  /\ \E q \in asked[e] : q.t1 = x.t1
                      /\ x.t1.at < x.t4.at
                      /\ x.t2.by \in References /\ x.t3.by = x.t2.by /\ x.t2.at < x.t3.at
    BY <1>1 DEF OwnSamples
  <2>1. CASE e = d /\ x = s
    BY <1>1, <1>2, <2>1
  <2>2. CASE x \in Exchanges(e)
    BY <2>2 DEF ExchangeInv, OwnSamples
  <2> QED
    BY <1>4, <2>1, <2>2 DEF Exchanges
<1>6. OneSamplePerRequest'
  BY <1>1, <1>4 DEF ExchangeInv, OneSamplePerRequest, Exchanges
<1> QED
  BY <1>3, <1>5, <1>6 DEF ExchangeInv

(* What a device hears announced is no exchange.                           *)
LEMMA ListenKeeps ==
  ASSUME NEW d \in Clients, ExchangeInv, Exchange!Listen(d)
  PROVE  ExchangeInv'
<1>1. PICK s : /\ s.t4 = s.t1 /\ asked' = asked
               /\ samples' = [samples EXCEPT ![d] = @ \cup {s}]
  BY DEF Exchange!Listen
<1>2. OnDevices'
  BY <1>1 DEF ExchangeInv, OnDevices
<1>3. /\ d \in Devices /\ samples'[d] = samples[d] \cup {s}
      /\ \A e \in Devices : e # d => samples'[e] = samples[e]
  BY <1>1 DEF ExchangeInv, OnDevices, Devices
<1>4. \A e \in Devices : Exchanges(e)' = Exchanges(e)
  BY <1>1, <1>3 DEF Exchanges
<1>5. OwnSamples' /\ OneSamplePerRequest'
  BY <1>1, <1>4 DEF ExchangeInv, OwnSamples, OneSamplePerRequest
<1> QED
  BY <1>2, <1>5 DEF ExchangeInv

(* The exchange keeps the invariant.                                       *)
LEMMA ExchangeInvariance == ImplementsExchange => []ExchangeInv
<1>1. ExchangeInv /\ [Exchange!Next]_(Exchange!vars) => ExchangeInv'
  <2> SUFFICES ASSUME ExchangeInv, [Exchange!Next]_(Exchange!vars) PROVE ExchangeInv'
    OBVIOUS
  <2>1. CASE Exchange!Next
    BY <2>1, AskKeeps, LearnKeeps, ListenKeeps DEF Exchange!Next
  <2>2. CASE UNCHANGED Exchange!vars
    BY <2>2 DEF Exchange!vars, ExchangeInv, OnDevices, OwnSamples, OneSamplePerRequest, Exchanges
  <2> QED
    BY <2>1, <2>2
<1> QED
  BY <1>1, ExchangeInit, PTL DEF ImplementsExchange, Exchange!Spec

(* Over every carrier that implements the exchange, the samples of a       *)
(* device are of requests of its own, each answered in one visit to a      *)
(* reference and received after it was asked.                              *)
THEOREM SamplesAreOwn == ImplementsExchange => []OwnSamples
<1>1. ExchangeInv => OwnSamples
  BY DEF ExchangeInv
<1> QED
  BY <1>1, ExchangeInvariance, PTL

(* Over every such carrier, at most one sample is of a request, however    *)
(* often its response arrives.                                             *)
THEOREM RequestsAreSampledOnce == ImplementsExchange => []OneSamplePerRequest
<1>1. ExchangeInv => OneSamplePerRequest
  BY DEF ExchangeInv
<1> QED
  BY <1>1, ExchangeInvariance, PTL
=============================================================================
