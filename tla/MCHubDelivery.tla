---------------------------- MODULE MCHubDelivery ----------------------------
(* TLC instance: two devices, two connections, a message for any device and *)
(* messages for d1.  Every row may also end in memory (the database fails). *)
EXTENDS HubDelivery, TLC
CONSTANTS d1, toAny, toD1, alsoToD1
AllTargets == (toAny :> None) @@ (toD1 :> d1) @@ (alsoToD1 :> d1)
MCTarget == [m \in Msgs |-> AllTargets[m]]
Symmetry == Permutations(Conns)
=============================================================================
