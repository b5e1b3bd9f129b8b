---------------------------- MODULE ClockExchange ----------------------------
(***************************************************************************)
(* What clock synchronization promises to a device's Timing target,        *)
(* whichever transport carries it and whatever happens to the messages.    *)
(* A device asks at a time its clock shows.  From one request it learns at *)
(* most once: when it asked, when a reference received and left one visit  *)
(* of the request, and when the answer came.  Or it listens to a reference *)
(* that announces its time, which yields a sample of no duration.          *)
(***************************************************************************)
EXTENDS Integers

CONSTANTS Clients, References

VARIABLES
  asked,    \* the requests of a device: their numbers and times
  samples   \* what it has submitted

vars == <<asked, samples>>

On(d) == [by : {d}, at : Nat]

Init ==
  /\ asked = [d \in Clients \cup References |-> {}]
  /\ samples = [d \in Clients \cup References |-> {}]

\* No two requests, and no request and announcement, are of one time.
Ask(d) ==
  \E q \in asked'[d] \ asked[d] :
    /\ q.t1 \in On(d)
    /\ \A p \in asked[d] \cup samples[d] : p.t1 # q.t1
    /\ asked' = [asked EXCEPT ![d] = @ \cup {q}]
    /\ UNCHANGED samples

Learn(d) ==
  \E s \in samples'[d] \ samples[d] :
    /\ \E q \in asked[d] : q.t1 = s.t1
    /\ \A other \in samples[d] : other.t1 # s.t1
    /\ s.t4 \in On(d) /\ s.t1.at < s.t4.at
    /\ \E r \in References : {s.t2, s.t3} \subseteq On(r) /\ s.t2.at < s.t3.at
    /\ samples' = [samples EXCEPT ![d] = @ \cup {s}]
    /\ UNCHANGED asked

Listen(d) ==
  \E s \in samples'[d] \ samples[d] :
    /\ s.t1 \in On(d) /\ s.t4 = s.t1
    /\ \A q \in asked[d] : q.t1 # s.t1
    /\ \E r \in References : s.t2 \in On(r) /\ s.t3 = s.t2
    /\ samples' = [samples EXCEPT ![d] = @ \cup {s}]
    /\ UNCHANGED asked

Next == \E d \in Clients : Ask(d) \/ Learn(d) \/ Listen(d)

Spec == Init /\ [][Next]_vars
=============================================================================
