--------------------------- MODULE OnlineDirectory ---------------------------
(***************************************************************************)
(* What the Hub's connection manager promises its callers: a directory     *)
(* that gives every key (a user and one of the user's devices) at most one *)
(* connection, and every connection at most one key.  Binding a connection *)
(* to a key displaces whatever that key and that connection were bound to; *)
(* nothing else changes hands.                                             *)
(***************************************************************************)
CONSTANTS
    Keys,       \* user/device pairs a connection can be listed under
    Conns,      \* connections
    None        \* "no connection"

VARIABLE
    online      \* [Keys -> Conns \cup {None}]

Init == online = [k \in Keys |-> None]

\* Connection c takes key k; its earlier key, and k's earlier connection, go.
Bind(k, c) ==
    online' = [j \in Keys |-> IF j = k THEN c
                              ELSE IF online[j] = c THEN None ELSE online[j]]

\* The entries of K leave the directory.
Drop(K) ==
    online' = [j \in Keys |-> IF j \in K THEN None ELSE online[j]]

Next == \/ \E k \in Keys, c \in Conns : Bind(k, c)
        \/ \E K \in SUBSET Keys : Drop(K)

Spec == Init /\ [][Next]_online

\* No connection is listed under two keys.
OneKeyPerConnection ==
    \A j, k \in Keys : online[j] # None /\ online[j] = online[k] => j = k
=============================================================================
