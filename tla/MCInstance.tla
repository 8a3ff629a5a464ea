----------------------------- MODULE MCInstance -----------------------------
(***************************************************************************)
(* Instances of Instance for TLC.                                          *)
(***************************************************************************)
EXTENDS Instance, TLC

CONSTANTS set, get

SetAndGet == {set, get}
OnlySet == {set}
OnlyGet == {get}

\* Connections and triggering goroutines are interchangeable.
Symmetry == Permutations(Conns) \cup Permutations(Triggers)
=============================================================================
