------------------------------ MODULE MCPlacer ------------------------------
(* Instances of Placer for TLC. *)
EXTENDS Placer, TLC

CONSTANTS k1, k2, k3, k4, c1, c2

OneClient == {c1}
TwoClients == {c1, c2}
ThreeKeys == {k1, k2, k3}
FourKeys == {k1, k2, k3, k4}
UniformSize == {1}
TwoSizes == {1, 2}

KeyClientSymmetry == Permutations(Keys) \cup Permutations(Clients)

(***************************************************************************)
(* A state with a stale entry on the clock's list.  The behaviour that     *)
(* violates ListExact with two clients leads here once its SETs are        *)
(* answered: k1 evicted k2 and got on the list twice, k3 evicted k1 at one *)
(* of the two slots, the SET of k1 was refused, and k2 was SET again,      *)
(* which filled both instances.  k1 is evicted and still on the list; k4   *)
(* was never SET.                                                          *)
(***************************************************************************)
StaleInit ==
    /\ inStore = [k \in Keys |-> k # k4]
    /\ placement = [k \in Keys |-> IF k \in {k2, k3} THEN (0 :> 0 @@ 1 :> 1)
                                                    ELSE (0 :> 0 @@ 1 :> 0)]
    /\ chunkSize = [k \in Keys |-> IF k = k4 THEN 0 ELSE 1]
    /\ deleted = [k \in Keys |-> k = k1]
    /\ base = [k \in Keys |-> IF k = k4 THEN Nil ELSE 0]
    /\ metaMu = [k \in Keys |-> Nil]
    /\ confirmed = [k \in Keys |-> IF k = k4 THEN {} ELSE Chunks]
    /\ visited = [k \in Keys |-> k \in {k2, k3}]
    /\ pos = (k1 :> (0 :> 2 @@ 1 :> 1) @@ k2 :> (0 :> 4 @@ 1 :> 0)
              @@ k3 :> (0 :> 2 @@ 1 :> 2) @@ k4 :> (0 :> 0 @@ 1 :> 0))
    /\ swapMap = (k1 :> (0 :> 0 @@ 1 :> 1) @@ k2 :> Nil
                  @@ k3 :> (0 :> 0 @@ 1 :> 0) @@ k4 :> Nil)
    /\ objects = (0 :> <<k1, k3, Nil, k2>> @@ 1 :> <<k1, k3>>)
    /\ cursor = 3
    /\ cursorBound = 4
    /\ primary = 0
    /\ placerMu = Nil
    /\ sliceBase = 0
    /\ size = [i \in Instances |-> 3]
    /\ pc = [h \in Handlers |-> "idle"]
    /\ post = [h \in Handlers |-> Nil]
    /\ idx = [h \in Handlers |-> 0]
    /\ ec = [cl \in Clients |-> [key |-> IF cl = c1 THEN k1 ELSE k2, size |-> 1,
                                 index |-> IF cl = c1 THEN (0 :> 1 @@ 1 :> 0)
                                                      ELSE (0 :> 0 @@ 1 :> 1)]]
    /\ ops = 1
    /\ stored = [i \in Instances |-> [kc \in Keys \X Chunks |->
                    IF kc[1] \in {k2, k3} /\ kc[2] = i THEN 1 ELSE 0]]

\* Keys are symmetric, and a temporal property allows no SYMMETRY: new keys are taken in turn.
InTurn ==
    \A cl \in Clients : ec'[cl] # Nil =>
        /\ ec'[cl].key = k2 => inStore[k1]
        /\ ec'[cl].key = k3 => inStore[k2]
        /\ ec'[cl].key = k4 => inStore[k3]

OneSpec == Init /\ [][Next /\ InTurn]_vars /\ \A h \in Handlers : WF_vars(HandleSet(h))

\* From the beginning, or from the state with a stale entry.
TwoSpec == (Init \/ StaleInit) /\ [][Next]_vars
=============================================================================
