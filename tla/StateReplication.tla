-------------------------- MODULE StateReplication --------------------------
(***************************************************************************)
(* What state replication promises, whatever carries it: every device      *)
(* publishes ever newer versions of its states, and the copy another       *)
(* device holds is a version that was published and only moves forward.    *)
(***************************************************************************)
EXTENDS Naturals

CONSTANTS Devices, Types

VARIABLES version, remote

vars == <<version, remote>>

Init ==
  /\ version = [d \in Devices |-> [t \in Types |-> 1]]
  /\ remote = [d \in Devices |-> [o \in Devices |-> [t \in Types |-> 0]]]

Publish(d, t) ==
  /\ version' = [version EXCEPT ![d][t] = @ + 1]
  /\ UNCHANGED remote

\* Device d learns a newer version of o's state t, perhaps skipping some.
Learn(d, o, t) ==
  /\ \E v \in (remote[d][o][t] + 1)..version[o][t] :
       remote' = [remote EXCEPT ![d][o][t] = v]
  /\ UNCHANGED version

Next == \E d \in Devices, t \in Types :
          Publish(d, t) \/ \E o \in Devices \ {d} : Learn(d, o, t)

Spec == Init /\ [][Next]_vars
=============================================================================
