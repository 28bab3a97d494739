-------------------------- MODULE ConnectionManager --------------------------
(***************************************************************************)
(* The Hub's online directory, network/connection_manager.py: two          *)
(* dictionaries that must stay inverse to each other, the per-connection   *)
(* record, and an asyncio lock.  Every public coroutine is one critical    *)
(* section of that lock and so one action here, except broadcast, which    *)
(* awaits each peer's drain() while it holds the lock: it is a start, one  *)
(* step per receiver and an end, and it excludes everything else between.  *)
(* Any caller may run any operation at any moment: HubSessions restricts   *)
(* the callers to what network/hub.py does.                                *)
(***************************************************************************)
EXTENDS Integers, FiniteSets

CONSTANTS
    Users,      \* user ids
    Devices,    \* device ids a client may send
    Conns,      \* client connections (a StreamWriter and its ClientConnection)
    None        \* Python's None, and "no device id sent"

ASSUME ConnectionAssumption ==
    /\ None \notin Conns \cup Users
    /\ Conns \cap Devices = {}
    /\ None \notin Users \X (Devices \cup Conns)

\* online_key(user, device).  A client that sends no device id is given the
\* one made of its writer's identity ("legacy:<id>"), here the connection.
Keys == Users \X (Devices \cup Conns)

OnlineKey(c, u, d) == <<u, IF d = None THEN c ELSE d>>

VARIABLES
    connections,    \* _connections: [Keys -> Conns \cup {None}]
    writerToKey,    \* _writer_to_key: [Conns -> Keys \cup {None}]
    identity,       \* user_id/device_id of the record: [Conns -> Keys \cup {None}]
    before,         \* insertion order of _connections, as pairs of keys
    overdue,        \* connections whose last heartbeat is past the timeout
    locked,         \* is a broadcast holding _lock?
    remaining       \* the keys that broadcast has still to write to

cmVars == <<connections, writerToKey, identity, before, overdue, locked, remaining>>

Registered == {k \in Keys : connections[k] # None}
EntriesOf(u) == {k \in Registered : k[1] = u}

CMInit ==
    /\ connections = [k \in Keys |-> None]
    /\ writerToKey = [c \in Conns |-> None]
    /\ identity = [c \in Conns |-> None]
    /\ before = {}
    /\ overdue = {}
    /\ locked = FALSE
    /\ remaining = {}

-----------------------------------------------------------------------------
(* Critical sections. *)

\* Mutants of Register: the replaced connection keeps its reverse entry, and
\* the connection that registers again keeps its earlier key.
RegisterKeepingReplaced(c, u, d) ==
    LET key == OnlineKey(c, u, d)
        old == IF connections[key] = c THEN None ELSE writerToKey[c]
    IN  /\ ~locked
        /\ connections' = [k \in Keys |-> IF k = key THEN c
                                          ELSE IF k = old THEN None
                                          ELSE connections[k]]
        /\ writerToKey' = [writerToKey EXCEPT ![c] = key]
        /\ identity' = [identity EXCEPT ![c] = key]
        /\ before' = {p \in before : old \notin {p[1], p[2]}}
                     \cup (IF key \in Registered \ {old} THEN {}
                           ELSE (Registered \ {old}) \X {key})
        /\ UNCHANGED <<overdue, locked, remaining>>

RegisterKeepingKey(c, u, d) ==
    LET key == OnlineKey(c, u, d)
    IN  /\ ~locked
        /\ connections' = [connections EXCEPT ![key] = c]
        /\ writerToKey' = [x \in Conns |-> IF x = c THEN key
                                           ELSE IF x = connections[key] THEN None
                                           ELSE writerToKey[x]]
        /\ identity' = [identity EXCEPT ![c] = key]
        /\ before' = before \cup (IF key \in Registered THEN {} ELSE Registered \X {key})
        /\ UNCHANGED <<overdue, locked, remaining>>

\* register: take the key, drop the reverse entry of the connection it
\* replaces, and drop the key this connection held before.  An existing key
\* keeps its place in the dictionary's order.
Register(c, u, d) ==
    LET key == OnlineKey(c, u, d)
        old == IF connections[key] = c THEN None ELSE writerToKey[c]
    IN  /\ ~locked
        /\ connections' = [k \in Keys |-> IF k = key THEN c
                                          ELSE IF k = old THEN None
                                          ELSE connections[k]]
        /\ writerToKey' = [x \in Conns |-> IF x = c THEN key
                                           ELSE IF x = connections[key] THEN None
                                           ELSE writerToKey[x]]
        /\ identity' = [identity EXCEPT ![c] = key]
        /\ before' = {p \in before : old \notin {p[1], p[2]}}
                     \cup (IF key \in Registered \ {old} THEN {}
                           ELSE (Registered \ {old}) \X {key})
        /\ UNCHANGED <<overdue, locked, remaining>>

\* Removing entries, and their writers, from both dictionaries.
Remove(K) ==
    /\ connections' = [k \in Keys |-> IF k \in K THEN None ELSE connections[k]]
    /\ writerToKey' = [c \in Conns |-> IF \E k \in K : connections[k] = c
                                       THEN None ELSE writerToKey[c]]
    /\ before' = {p \in before : p[1] \notin K /\ p[2] \notin K}

\* Mutant of FirstOf: the first entry, whoever's it is.
FirstOfAny(u) == {k \in Registered : \A j \in Registered \ {k} : <<k, j>> \in before}

\* unregister(user): the first entry, in insertion order, of a record with
\* that user id; no effect when there is none.
FirstOf(u) == {k \in Registered :
                 /\ identity[connections[k]][1] = u
                 /\ \A j \in Registered \ {k} :
                        identity[connections[j]][1] = u => <<k, j>> \in before}

Unregister(u) ==
    /\ ~locked
    /\ Remove(FirstOf(u))
    /\ UNCHANGED <<identity, overdue, locked, remaining>>

\* unregister_by_writer: by the reverse index.
UnregisterByWriter(c) ==
    /\ ~locked
    /\ writerToKey' = [writerToKey EXCEPT ![c] = None]
    /\ connections' = [k \in Keys |-> IF k = writerToKey[c] THEN None ELSE connections[k]]
    /\ before' = {p \in before : writerToKey[c] \notin {p[1], p[2]}}
    /\ UNCHANGED <<identity, overdue, locked, remaining>>

\* get_user_id(writer), through both dictionaries.
UserOf(c) == IF writerToKey[c] = None THEN None
             ELSE IF connections[writerToKey[c]] = None THEN None
             ELSE identity[connections[writerToKey[c]]][1]

\* update_heartbeat(user, device): one entry, or every entry of the user when
\* the heartbeat names no device.
HeartbeatTargets(u, d) ==
    IF d # None THEN {<<u, d>>} \cap Registered
    ELSE {k \in Registered : identity[connections[k]][1] = u}

UpdateHeartbeat(u, d) ==
    /\ ~locked
    /\ overdue' = overdue \ {connections[k] : k \in HeartbeatTargets(u, d)}
    /\ UNCHANGED <<connections, writerToKey, identity, before, locked, remaining>>

\* update_heartbeat_by_writer
UpdateHeartbeatByWriter(c) ==
    /\ ~locked
    /\ overdue' = IF UserOf(c) = None THEN overdue
                  ELSE overdue \ {connections[writerToKey[c]]}
    /\ UNCHANGED <<connections, writerToKey, identity, before, locked, remaining>>

\* cleanup_stale_connections: the sockets are not closed.
Stale == {k \in Registered : connections[k] \in overdue}

\* Mutant of CleanupStale: without taking the lock.
CleanupUnlocked ==
    /\ Remove(Stale)
    /\ UNCHANGED <<identity, overdue, locked, remaining>>

CleanupStale ==
    /\ ~locked
    /\ Remove(Stale)
    /\ UNCHANGED <<identity, overdue, locked, remaining>>

\* broadcast: the lock is held from the start to the end, and every receiver's
\* drain() is awaited in between.
BroadcastStart(exclude) ==
    /\ ~locked
    /\ locked' = TRUE
    /\ remaining' = {k \in Registered : identity[connections[k]][1] # exclude}
    /\ UNCHANGED <<connections, writerToKey, identity, before, overdue>>

NextReceiver == {k \in remaining : \A j \in remaining \ {k} : <<k, j>> \in before}

BroadcastWrite(k) ==
    /\ locked
    /\ k \in NextReceiver
    /\ remaining' = remaining \ {k}
    /\ UNCHANGED <<connections, writerToKey, identity, before, overdue, locked>>

BroadcastEnd ==
    /\ locked /\ remaining = {}
    /\ locked' = FALSE
    /\ UNCHANGED <<connections, writerToKey, identity, before, overdue, remaining>>

\* Time: a connection's last heartbeat falls behind the timeout.
Age(c) ==
    /\ c \notin overdue
    /\ overdue' = overdue \cup {c}
    /\ UNCHANGED <<connections, writerToKey, identity, before, locked, remaining>>

CMNext ==
    \/ \E c \in Conns, u \in Users, d \in Devices \cup {None} : Register(c, u, d)
    \/ \E u \in Users : Unregister(u)
    \/ \E c \in Conns : UnregisterByWriter(c)
    \/ \E u \in Users, d \in Devices \cup {None} : UpdateHeartbeat(u, d)
    \/ \E c \in Conns : UpdateHeartbeatByWriter(c)
    \/ CleanupStale
    \/ \E exclude \in Users \cup {None} : BroadcastStart(exclude)
    \/ \E k \in Keys : BroadcastWrite(k)
    \/ BroadcastEnd
    \/ \E c \in Conns : Age(c)

CMSpec == CMInit /\ [][CMNext]_cmVars

-----------------------------------------------------------------------------
(* Properties *)

CMTypeOK ==
    /\ connections \in [Keys -> Conns \cup {None}]
    /\ writerToKey \in [Conns -> Keys \cup {None}]
    /\ identity \in [Conns -> Keys \cup {None}]
    /\ before \in SUBSET (Keys \X Keys)
    /\ overdue \in SUBSET Conns
    /\ locked \in BOOLEAN
    /\ remaining \in SUBSET Keys

\* The two dictionaries of connection_manager.py:55-58 are inverse to each
\* other, and the record each entry holds carries the key it is filed under:
\* otherwise a lookup by writer answers for somebody else's connection.
IndexAgrees ==
    /\ \A k \in Keys : connections[k] # None =>
            writerToKey[connections[k]] = k /\ identity[connections[k]] = k
    /\ \A c \in Conns : writerToKey[c] # None => connections[writerToKey[c]] = c

\* A broadcast iterates _connections across awaits (connection_manager.py:352):
\* no entry may appear or vanish under it ("dictionary changed size during
\* iteration" would abort it half way).
IterationStable ==
    [][locked /\ locked' => connections' = connections]_cmVars

\* The pair of dictionaries is one directory (module OnlineDirectory).
Directory == INSTANCE OnlineDirectory WITH online <- connections
DirectorySpec == Directory!Spec
=============================================================================
