---------------------- MODULE MCTCPClockSynchronization ----------------------
EXTENDS TCPClockSynchronization

\* A client's are enough for every request and every message it is sent, the
\* server's for the answers to all requests, or to three in two reads.
Readings == [d \in Devices |-> IF d = Server THEN Modulus + 1 ELSE 2 * Modulus]
=============================================================================
