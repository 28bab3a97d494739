----------------------------- MODULE HubDelivery -----------------------------
(***************************************************************************)
(* How the Hub forwards, stores and redelivers the messages of one         *)
(* recipient (network/hub.py, network/hub_storage.py): the persistent      *)
(* offline queue, the in-memory queues behind it, the delivery run every   *)
(* REGISTER starts, and the live forwarding of the senders' handlers.      *)
(* Each of these is a coroutine that can be overtaken while it waits in    *)
(* drain().                                                                *)
(*                                                                         *)
(* The online directory (HubSessions) is kept as far as delivery sees it:  *)
(* the connection each device is listed with, which any other task may     *)
(* remove at any time.  Every connection registers once.                   *)
(***************************************************************************)
EXTENDS Integers, Sequences, FiniteSets

CONSTANTS
    Devices,        \* the recipient's devices
    Conns,          \* the recipient's connections over time
    Msgs,           \* messages sent to the recipient
    Target,         \* the device a message names, or None: [Msgs -> Devices \cup {None}]
    Persistable,    \* the messages _safe_to_persist_offline accepts
    MaxMemory,      \* _max_offline_messages_per_user
    Limit,          \* LIMIT of pending_offline
    MaxCrashes,     \* bound on Hub restarts
    None            \* no device named ("*"), no connection

ASSUME DeliveryAssumption ==
    /\ IsFiniteSet(Msgs)
    /\ None \notin Devices \cup Conns
    /\ Target \in [Msgs -> Devices \cup {None}]
    /\ Persistable \subseteq Msgs
    /\ MaxMemory \in Nat \ {0} /\ Limit \in Nat \ {0} /\ MaxCrashes \in Nat

VARIABLES
    online,     \* directory: [Devices -> Conns \cup {None}]
    sock,       \* [Conns -> {"unused", "open", "broken"}]
    device,     \* the device a connection registered as
    pc,         \* the REGISTER handler of each connection
    batch,      \* the fetched rows it still has to write: [Conns -> SUBSET Msgs]
    left,       \* what its in-memory loop still has to write: [Conns -> Seq(Msgs)]
    wrote,      \* delivered_count > 0 in that loop
    rows,       \* undelivered rows of offline_queue
    createdAt,  \* their created_at: [Msgs -> Nat]
    memory,     \* _offline_messages by key: [Devices \cup {None} -> Seq(Msgs)]
    unsent,     \* messages whose sender's handler has not read them
    routing,    \* live forwarding: connections still to be written: [Msgs -> SUBSET Conns]
    written,    \* pairs of a connection and a message handed to its transport
    stored,     \* messages that were put into offline_queue
    parked,     \* messages that were put into _offline_messages
    expired,    \* rows deleted at the end of their time to live
    dropped,    \* messages a full in-memory queue threw away
    truncated,  \* connections whose fetch left rows behind at LIMIT
    crashes

queues == <<rows, createdAt, memory, stored, parked, expired, dropped>>
run == <<device, pc, batch, left, wrote, truncated>>
vars == <<online, sock, run, queues, unsent, routing, written, crashes>>

PC == {"none", "fetch", "row", "rowDrain", "memory", "mem", "memDrain", "done", "failed"}

Addressed(m, d) == Target[m] \in {None, d}

Init ==
    /\ online = [d \in Devices |-> None]
    /\ sock = [c \in Conns |-> "unused"]
    /\ device = [c \in Conns |-> None]
    /\ pc = [c \in Conns |-> "none"]
    /\ batch = [c \in Conns |-> {}]
    /\ left = [c \in Conns |-> <<>>]
    /\ wrote = {}
    /\ rows = {}
    /\ createdAt = [m \in Msgs |-> 0]
    /\ memory = [k \in Devices \cup {None} |-> <<>>]
    /\ unsent = Msgs
    /\ routing = [m \in Msgs |-> {}]
    /\ written = {}
    /\ stored = {} /\ parked = {} /\ expired = {} /\ dropped = {}
    /\ truncated = {}
    /\ crashes = 0

Goto(c, from, to) == pc[c] = from /\ pc' = [pc EXCEPT ![c] = to]

-----------------------------------------------------------------------------
(* Senders: MESSAGE and the per-user part of _fanout_to_users. *)

Targets(m) == {c \in Conns : \E d \in Devices : online[d] = c /\ Addressed(m, d)}

\* _store_offline_message: the database, or, for what may not be persisted and
\* when the database fails, the bounded queue in memory.
StoreRow(m) ==
    /\ m \in Persistable
    /\ rows' = rows \cup {m}
    /\ createdAt' = [createdAt EXCEPT ![m] = Cardinality(stored)]
    /\ stored' = stored \cup {m}
    /\ UNCHANGED <<memory, parked, expired, dropped>>

StoreMemory(m) ==
    /\ LET key == Target[m]
           full == Len(memory[key]) >= MaxMemory
       IN  /\ memory' = [memory EXCEPT ![key] =
                            Append(IF full THEN Tail(@) ELSE @, m)]
           /\ dropped' = dropped \cup (IF full THEN {Head(memory[key])} ELSE {})
    /\ parked' = parked \cup {m}
    /\ UNCHANGED <<rows, createdAt, stored, expired>>

\* The message is read: get_connections and the decision to store or forward
\* have no await between them.
Route(m) ==
    /\ m \in unsent
    /\ unsent' = unsent \ {m}
    /\ IF Targets(m) = {}
       THEN (StoreRow(m) \/ StoreMemory(m)) /\ UNCHANGED routing
       ELSE routing' = [routing EXCEPT ![m] = Targets(m)] /\ UNCHANGED queues
    /\ UNCHANGED <<online, sock, run, written, crashes>>

\* One target connection: an exception is logged, and the message not stored.
Forward(m, c) ==
    /\ c \in routing[m]
    /\ routing' = [routing EXCEPT ![m] = @ \ {c}]
    /\ written' = IF sock[c] = "open" THEN written \cup {<<c, m>>} ELSE written
    /\ UNCHANGED <<online, sock, run, queues, unsent, crashes>>

-----------------------------------------------------------------------------
(* The recipient's REGISTER: list the connection, then deliver what waits. *)

Register(c, d) ==
    /\ sock[c] = "unused"
    /\ sock' = [sock EXCEPT ![c] = "open"]
    /\ device' = [device EXCEPT ![c] = d]
    /\ online' = [online EXCEPT ![d] = c]
    /\ Goto(c, "none", "fetch")
    /\ UNCHANGED <<batch, left, wrote, truncated, queues, unsent, routing, written, crashes>>

\* drain() of the reply, or the database, raised: the handler ends before it
\* delivers.
Abandon(c) ==
    /\ Goto(c, "fetch", "failed")
    /\ UNCHANGED <<device, batch, left, wrote, truncated, queues, written>>

\* Mutant of Fetch: a query that forgets the rows that name no device.
FetchNamed(c, dead) ==
    LET mine == {m \in rows \ dead : Target[m] = device[c]}
        oldest == {m \in mine :
                     Cardinality({n \in mine : createdAt[n] < createdAt[m]}) < Limit}
    IN  /\ Goto(c, "fetch", "row")
        /\ rows' = rows \ dead
        /\ expired' = expired \cup dead
        /\ batch' = [batch EXCEPT ![c] = oldest]
        /\ truncated' = IF oldest # mine THEN truncated \cup {c} ELSE truncated
        /\ UNCHANGED <<device, left, wrote, createdAt, memory, stored, parked, dropped, written>>

\* pending_offline: delete what is past its time to live (any row may be), and
\* take the Limit oldest rows for the device.
Fetch(c, dead) ==
    LET mine == {m \in rows \ dead : Addressed(m, device[c])}
        oldest == {m \in mine :
                     Cardinality({n \in mine : createdAt[n] < createdAt[m]}) < Limit}
    IN  /\ Goto(c, "fetch", "row")
        /\ rows' = rows \ dead
        /\ expired' = expired \cup dead
        /\ batch' = [batch EXCEPT ![c] = oldest]
        /\ truncated' = IF oldest # mine THEN truncated \cup {c} ELSE truncated
        /\ UNCHANGED <<device, left, wrote, createdAt, memory, stored, parked, dropped, written>>

\* The loop's next row, oldest first (created_at tells rows apart).
NextRow(c) == {m \in batch[c] : \A n \in batch[c] : createdAt[m] <= createdAt[n]}

WriteRow(c) ==
    /\ batch[c] # {}
    /\ Goto(c, "row", "rowDrain")
    /\ written' = IF sock[c] = "open" THEN written \cup ({c} \X NextRow(c)) ELSE written
    /\ UNCHANGED <<device, batch, left, wrote, truncated, queues>>

\* Mutant of MarkRow: the row is marked though drain() raised.
MarkUndrained(c) ==
    /\ Goto(c, "rowDrain", "row")
    /\ rows' = rows \ NextRow(c)
    /\ batch' = [batch EXCEPT ![c] = @ \ NextRow(c)]
    /\ UNCHANGED <<device, left, wrote, truncated, createdAt, memory, stored, parked, expired,
                   dropped, written>>

\* drain() returned: mark_offline_delivered.
MarkRow(c) ==
    /\ sock[c] = "open"
    /\ Goto(c, "rowDrain", "row")
    /\ rows' = rows \ NextRow(c)
    /\ batch' = [batch EXCEPT ![c] = @ \ NextRow(c)]
    /\ UNCHANGED <<device, left, wrote, truncated, createdAt, memory, stored, parked, expired,
                   dropped, written>>

\* The loop is over, or broken off by drain() or by the database.
EndRows(c) ==
    /\ \/ batch[c] = {} /\ Goto(c, "row", "memory") /\ UNCHANGED truncated
       \/ Goto(c, "rowDrain", "memory") /\ truncated' = truncated \cup {c}
    /\ batch' = [batch EXCEPT ![c] = {}]
    /\ UNCHANGED <<device, left, wrote, queues, written>>

\* The two in-memory queues, in either order (the keys are a set).
FetchMemory(c) ==
    /\ Goto(c, "memory", "mem")
    /\ \/ left' = [left EXCEPT ![c] = memory[device[c]] \o memory[None]]
       \/ left' = [left EXCEPT ![c] = memory[None] \o memory[device[c]]]
    /\ UNCHANGED <<device, batch, wrote, truncated, queues, written>>

WriteMemory(c) ==
    /\ left[c] # <<>>
    /\ Goto(c, "mem", "memDrain")
    /\ written' = IF sock[c] = "open" THEN written \cup {<<c, Head(left[c])>>} ELSE written
    /\ UNCHANGED <<device, batch, left, wrote, truncated, queues>>

MemoryDrained(c) ==
    /\ sock[c] = "open"
    /\ Goto(c, "memDrain", "mem")
    /\ left' = [left EXCEPT ![c] = Tail(@)]
    /\ wrote' = wrote \cup {c}
    /\ UNCHANGED <<device, batch, truncated, queues, written>>

\* All written: both queues go.  There was nothing to write: both stay.
EndMemory(c) ==
    /\ left[c] = <<>>
    /\ Goto(c, "mem", "done")
    /\ memory' = IF c \in wrote THEN [memory EXCEPT ![device[c]] = <<>>, ![None] = <<>>]
                 ELSE memory
    /\ UNCHANGED <<device, batch, left, wrote, truncated, rows, createdAt, stored, parked,
                   expired, dropped, written>>

\* Broken off: the rest replaces the device's queue if something was written.
AbortMemory(c) ==
    /\ sock[c] = "broken"
    /\ Goto(c, "memDrain", "done")
    /\ memory' = IF c \in wrote THEN [memory EXCEPT ![device[c]] = left[c]] ELSE memory
    /\ left' = [left EXCEPT ![c] = <<>>]
    /\ UNCHANGED <<device, batch, wrote, truncated, rows, createdAt, stored, parked, expired,
                   dropped, written>>

\* The rest of the handler's REGISTER, up to the end of its delivery run.
Deliver(c) ==
    /\ \/ Abandon(c) \/ \E dead \in SUBSET rows : Fetch(c, dead)
       \/ WriteRow(c) \/ MarkRow(c) \/ EndRows(c)
       \/ FetchMemory(c) \/ WriteMemory(c) \/ MemoryDrained(c)
       \/ EndMemory(c) \/ AbortMemory(c)
    /\ UNCHANGED <<online, sock, unsent, routing, crashes>>

-----------------------------------------------------------------------------
(* The environment: connections break, other tasks unlist devices, the Hub  *)
(* process restarts with the database only.                                  *)

Break(c) ==
    /\ sock[c] = "open"
    /\ sock' = [sock EXCEPT ![c] = "broken"]
    /\ UNCHANGED <<online, run, queues, unsent, routing, written, crashes>>

Unlist(d) ==
    /\ online[d] # None
    /\ online' = [online EXCEPT ![d] = None]
    /\ UNCHANGED <<sock, run, queues, unsent, routing, written, crashes>>

Crash ==
    /\ crashes < MaxCrashes
    /\ crashes' = crashes + 1
    /\ online' = [d \in Devices |-> None]
    /\ sock' = [c \in Conns |-> IF sock[c] = "open" THEN "broken" ELSE sock[c]]
    /\ pc' = [c \in Conns |-> IF pc[c] = "none" THEN "none" ELSE "failed"]
    /\ batch' = [c \in Conns |-> {}]
    /\ left' = [c \in Conns |-> <<>>]
    /\ memory' = [k \in Devices \cup {None} |-> <<>>]
    /\ routing' = [m \in Msgs |-> {}]
    /\ UNCHANGED <<device, wrote, truncated, rows, createdAt, stored, parked, expired, dropped,
                   unsent, written>>

Next ==
    \/ \E m \in Msgs : Route(m) \/ \E c \in Conns : Forward(m, c)
    \/ \E c \in Conns, d \in Devices : Register(c, d)
    \/ \E c \in Conns : Deliver(c) \/ Break(c)
    \/ \E d \in Devices : Unlist(d)
    \/ Crash

Spec == Init /\ [][Next]_vars

-----------------------------------------------------------------------------
(* Properties *)

TypeOK ==
    /\ online \in [Devices -> Conns \cup {None}]
    /\ sock \in [Conns -> {"unused", "open", "broken"}]
    /\ device \in [Conns -> Devices \cup {None}]
    /\ pc \in [Conns -> PC]
    /\ batch \in [Conns -> SUBSET Msgs]
    /\ left \in [Conns -> Seq(Msgs)]
    /\ wrote \in SUBSET Conns
    /\ rows \in SUBSET Msgs
    /\ createdAt \in [Msgs -> Nat]
    /\ memory \in [Devices \cup {None} -> Seq(Msgs)]
    /\ unsent \in SUBSET Msgs
    /\ routing \in [Msgs -> SUBSET Conns]
    /\ written \in SUBSET (Conns \X Msgs)
    /\ stored \in SUBSET Msgs /\ parked \in SUBSET Msgs
    /\ expired \in SUBSET Msgs /\ dropped \in SUBSET Msgs
    /\ truncated \in SUBSET Conns
    /\ crashes \in 0..MaxCrashes

\* The persistent queue lets go of a message only when it was handed to a
\* device it is for, or expired, whatever fails and whenever the Hub restarts
\* (mark_offline_delivered after drain(), hub.py:366-367).
Box == [m \in Msgs |-> IF m \in rows THEN "held"
                       ELSE IF m \in expired THEN "expired"
                       ELSE IF m \in stored THEN "released" ELSE "new"]
Handed == {<<p[2], device[p[1]]>> : p \in written}

Mailbox == INSTANCE OfflineMailbox WITH box <- Box, handed <- Handed
MailboxSpec == Mailbox!Spec

\* No gap between storing and forwarding: once a device's connection has run
\* its delivery to the end, no row for the device waits in the database as long
\* as the device stays listed with that connection (hub.py:505 registers before
\* :536 delivers; a sender decides at hub.py:671-674 without a pause).
HandoverComplete ==
    \A d \in Devices, m \in rows :
        LET c == online[d]
        IN  c # None /\ Addressed(m, d) =>
                \/ pc[c] \in {"fetch", "row", "rowDrain"}
                \/ c \in truncated \/ pc[c] = "failed"

\* What hub.py:406-408 says of the end of a delivery run: delivered messages are
\* removed, and undelivered ones kept.
UndeliveredKept ==
    crashes = 0 =>
        \A m \in parked \ dropped :
            \/ \E c \in Conns : <<c, m>> \in written
            \/ \E k \in DOMAIN memory : \E i \in DOMAIN memory[k] : memory[k][i] = m
=============================================================================
