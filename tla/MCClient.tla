------------------------------ MODULE MCClient ------------------------------
(***************************************************************************)
(* Instances of Client for TLC.                                            *)
(***************************************************************************)
EXTENDS Client, TLC

\* Clients and shards are interchangeable.
Symmetry == Permutations(Clients) \cup Permutations(Shards)
=============================================================================
