--------------------------- MODULE MCHubSessions ---------------------------
(* TLC instances: two devices of one user, or two users, on two connections. *)
EXTENDS HubSessions, TLC
Symmetry == Permutations(Conns)
=============================================================================
