---------------------- MODULE MCUDPClockSynchronization ----------------------
(***************************************************************************)
(* The instances TLC checks: a client, whose application asks for the time *)
(* as well, of a broadcasting reference; and two clients of a reference    *)
(* whose application broadcasts.                                           *)
(***************************************************************************)
EXTENDS UDPClockSynchronization

CONSTANTS near, far, source

Star == [d \in Clients |-> source]

PairReadings == [d \in Devices |-> IF d = near THEN 4 ELSE 3]
StarReadings == [d \in Devices |-> IF d = near THEN 1 ELSE IF d = far THEN 2 ELSE 3]
=============================================================================
