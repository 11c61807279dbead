---------------------------- MODULE MCHttpClients ----------------------------
(* Connections are interchangeable, so TLC checks one of each permutation.   *)
EXTENDS HttpClients, TLC

Symmetry == Permutations(Pcbs)
=============================================================================
