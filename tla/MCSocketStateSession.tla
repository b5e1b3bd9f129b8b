------------------------ MODULE MCSocketStateSession ------------------------
(***************************************************************************)
(* The instances TLC checks: see the configurations of the same name.      *)
(***************************************************************************)
EXTENDS SocketStateSession

\* Clients are alike, and so are slots.
Symmetry == Permutations(Clients) \cup Permutations(Slots)
=============================================================================
