-------------------------- MODULE HubDelivery_proofs --------------------------
(***************************************************************************)
(* For any devices, connections, messages and limits: the delivery state   *)
(* stays well typed, and the persistent offline queue implements           *)
(* OfflineMailbox, i.e. it lets go of a row only after the row's message   *)
(* was handed to a device it is for, or when it expired.  Last comes what  *)
(* holds of the in-memory queues.                                          *)
(***************************************************************************)
EXTENDS HubDelivery, TLAPS, FiniteSetTheorems, SequenceTheorems

\* The messages a connection registered as device d may be sent.
For(d) == {m \in Msgs : Addressed(m, d)}

\* A row is a stored message that has not expired; nothing is stored before
\* its sender's handler has read it.
RowsKept ==
    /\ rows \subseteq stored /\ expired \subseteq stored
    /\ rows \cap expired = {}
    /\ stored \cap unsent = {}

\* Whatever a task is about to write, waits in memory or was written is for
\* the device it goes to.
BatchDirected == \A c \in Conns : batch[c] \subseteq For(device[c]) \cap stored
LeftDirected == \A c \in Conns : left[c] \in Seq(For(device[c]))
MemoryDirected == \A k \in Devices \cup {None} : memory[k] \in Seq(For(k))
RoutingDirected ==
    \A m \in Msgs : \A c \in routing[m] : sock[c] # "unused" /\ m \in For(device[c])
WrittenDirected ==
    \A p \in written : sock[p[1]] # "unused" /\ p[2] \in For(device[p[1]])

Directed ==
    /\ BatchDirected
    /\ LeftDirected
    /\ MemoryDirected
    /\ RoutingDirected
    /\ WrittenDirected

\* A connection has a device from its REGISTER on, and does nothing before it;
\* the directory lists it under that device.
Identified ==
    /\ \A c \in Conns :
          IF sock[c] = "unused" THEN pc[c] = "none" /\ batch[c] = {} /\ left[c] = <<>>
                                ELSE device[c] \in Devices
    /\ \A d \in Devices : online[d] # None => sock[online[d]] # "unused" /\ device[online[d]] = d

\* A task that waits in drain() has written what it is about to check off: a
\* row (unless the connection broke, and then drain() raises), or the head of
\* what is left of the memory queues.
DrainAwaited ==
    \A c \in Conns :
        /\ pc[c] = "rowDrain" /\ sock[c] = "open" =>
               \A m \in NextRow(c) : <<c, m>> \in written
        /\ pc[c] = "memDrain" => left[c] # <<>>

DInv == TypeOK /\ RowsKept /\ Directed /\ Identified /\ DrainAwaited

-----------------------------------------------------------------------------
(* Lemmas on sequences and finite sets *)

LEMMA SeqLarger ==
    ASSUME NEW S, NEW T, S \subseteq T, NEW s \in Seq(S) PROVE s \in Seq(T)
  OBVIOUS

LEMMA SeqParts ==
    ASSUME NEW S, NEW s \in Seq(S), s # <<>>
    PROVE  Head(s) \in S /\ Tail(s) \in Seq(S)
  BY HeadTailProperties

LEMMA CountIsNat ==
    ASSUME NEW S \in SUBSET Msgs PROVE Cardinality(S) \in Nat
  BY DeliveryAssumption, FS_Subset, FS_CardinalityType

LEMMA ForSome ==
    ASSUME NEW d \in Devices PROVE For(None) \subseteq For(d)
  BY DeliveryAssumption DEF For, Addressed

-----------------------------------------------------------------------------
(* Every action keeps the invariant *)

LEMMA StoreRowStep ==
    ASSUME DInv, NEW m \in Msgs, m \in unsent, unsent' = unsent \ {m}, StoreRow(m),
           UNCHANGED <<online, sock, run, routing, written, crashes>>
    PROVE  DInv'
<1> USE DeliveryAssumption DEF DInv, queues, run
<1>1. TypeOK'
  <2>1. Cardinality(stored) \in Nat
    BY CountIsNat DEF TypeOK
  <2> QED BY <2>1 DEF TypeOK, PC, StoreRow
<1>2. RowsKept'
  BY DEF RowsKept, TypeOK, StoreRow
<1>3. Directed'
  BY DEF Directed, BatchDirected, LeftDirected, MemoryDirected, RoutingDirected, WrittenDirected,
         TypeOK, RowsKept, StoreRow
<1>4. Identified'
  BY DEF Identified, TypeOK
<1>5. DrainAwaited'
  <2>1. \A c \in Conns : NextRow(c)' = NextRow(c)
    <3> TAKE c \in Conns
    <3>1. m \notin batch[c] /\ batch[c] \subseteq Msgs
      BY DEF RowsKept, Directed, BatchDirected, TypeOK
    <3>2. \A n \in batch[c] : createdAt'[n] = createdAt[n]
      BY <3>1 DEF StoreRow, TypeOK
    <3>3. batch'[c] = batch[c]
      OBVIOUS
    <3> QED BY <3>2, <3>3 DEF NextRow
  <2> QED BY <2>1 DEF DrainAwaited
<1> QED BY <1>1, <1>2, <1>3, <1>4, <1>5

LEMMA StoreMemoryStep ==
    ASSUME DInv, NEW m \in Msgs, m \in unsent, unsent' = unsent \ {m}, StoreMemory(m),
           UNCHANGED <<online, sock, run, routing, written, crashes>>
    PROVE  DInv'
<1> USE DeliveryAssumption DEF DInv, queues, run
<1> DEFINE key == Target[m]
           full == Len(memory[key]) >= MaxMemory
<1>0. key \in Devices \cup {None} /\ m \in For(key)
  BY DEF For, Addressed
<1>a. memory[key] \in Seq(For(key)) /\ memory[key] \in Seq(Msgs)
  BY <1>0 DEF Directed, MemoryDirected, TypeOK
<1>b. full => memory[key] # <<>>
  BY <1>a
<1>c. full => /\ Tail(memory[key]) \in Seq(For(key)) /\ Tail(memory[key]) \in Seq(Msgs)
              /\ Head(memory[key]) \in Msgs
  BY <1>a, <1>b, SeqParts
<1>d. /\ Append(IF full THEN Tail(memory[key]) ELSE memory[key], m) \in Seq(For(key))
      /\ Append(IF full THEN Tail(memory[key]) ELSE memory[key], m) \in Seq(Msgs)
  BY <1>0, <1>a, <1>c, AppendProperties
<1>e. /\ memory' = [memory EXCEPT ![key] =
                        Append(IF full THEN Tail(memory[key]) ELSE memory[key], m)]
      /\ dropped' = dropped \cup (IF full THEN {Head(memory[key])} ELSE {})
      /\ parked' = parked \cup {m}
      /\ UNCHANGED <<rows, createdAt, stored, expired>>
  BY DEF StoreMemory
<1> HIDE DEF key, full
<1>1. TypeOK'
  BY <1>0, <1>c, <1>d, <1>e DEF TypeOK, PC
<1>2. RowsKept'
  BY <1>e DEF RowsKept, TypeOK
<1>3. Directed'
  <2>1. MemoryDirected'
    BY <1>0, <1>d, <1>e DEF Directed, MemoryDirected, TypeOK
  <2> QED BY <2>1, <1>e DEF Directed, BatchDirected, LeftDirected, RoutingDirected, WrittenDirected
<1>4. Identified'
  BY DEF Identified, TypeOK
<1>5. DrainAwaited'
  BY <1>e DEF DrainAwaited, NextRow
<1> QED BY <1>1, <1>2, <1>3, <1>4, <1>5

LEMMA RouteStep ==
    ASSUME DInv, NEW m \in Msgs, Route(m)
    PROVE  DInv'
<1> USE DeliveryAssumption DEF DInv, queues, run
<1>1. CASE Targets(m) = {}
  BY <1>1, StoreRowStep, StoreMemoryStep DEF Route
<1>2. CASE Targets(m) # {}
  <2>1. /\ routing' = [routing EXCEPT ![m] = Targets(m)]
        /\ unsent' = unsent \ {m}
        /\ UNCHANGED <<online, sock, run, queues, written, crashes>>
    BY <1>2 DEF Route
  <2>2. ASSUME NEW c \in Targets(m)
        PROVE  c \in Conns /\ sock[c] # "unused" /\ m \in For(device[c])
    <3>1. PICK d \in Devices : online[d] = c /\ Addressed(m, d)
      BY <2>2 DEF Targets
    <3>2. c \in Conns /\ c # None
      BY <2>2 DEF Targets
    <3> QED BY <3>1, <3>2 DEF Identified, For
  <2> HIDE DEF DInv
  <2>3. TypeOK'
    BY <2>1, <2>2 DEF DInv, TypeOK, PC
  <2>4. RowsKept'
    BY <2>1 DEF DInv, RowsKept, TypeOK
  <2>5. Directed'
    BY <2>1, <2>2 DEF DInv, Directed, BatchDirected, LeftDirected, MemoryDirected, RoutingDirected,
                      WrittenDirected, TypeOK
  <2>6. Identified'
    BY <2>1 DEF DInv, Identified, TypeOK
  <2>7. DrainAwaited'
    BY <2>1 DEF DInv, DrainAwaited, NextRow
  <2> QED BY <2>3, <2>4, <2>5, <2>6, <2>7 DEF DInv
<1> QED BY <1>1, <1>2

LEMMA ForwardStep ==
    ASSUME DInv, NEW m \in Msgs, NEW c \in Conns, Forward(m, c)
    PROVE  DInv'
<1> USE DeliveryAssumption DEF DInv, queues, run
<1>1. TypeOK'
  BY DEF TypeOK, PC, Forward
<1>2. RowsKept'
  BY DEF RowsKept, TypeOK, Forward
<1>3. Directed'
  BY DEF Directed, BatchDirected, LeftDirected, MemoryDirected, RoutingDirected, WrittenDirected,
         TypeOK, RowsKept, Identified, Forward
<1>4. Identified'
  BY DEF Identified, TypeOK, Forward
<1>5. DrainAwaited'
  BY DEF DrainAwaited, TypeOK, RowsKept, Identified, NextRow, Directed, BatchDirected,
         Forward
<1> QED BY <1>1, <1>2, <1>3, <1>4, <1>5

LEMMA RegisterStep ==
    ASSUME DInv, NEW c \in Conns, NEW d \in Devices, Register(c, d)
    PROVE  DInv'
<1> USE DeliveryAssumption DEF DInv, queues, run
<1>1. TypeOK'
  BY DEF TypeOK, PC, Register, Goto
<1>2. RowsKept'
  BY DEF RowsKept, TypeOK, Register, Goto
<1>3. Directed'
  <2>1. BatchDirected'
    BY DEF Directed, BatchDirected, TypeOK, RowsKept, Identified, Register, Goto
  <2>2. LeftDirected'
    BY DEF Directed, LeftDirected, TypeOK, RowsKept, Identified, Register, Goto
  <2>3. MemoryDirected'
    BY DEF Directed, MemoryDirected, TypeOK, RowsKept, Identified, Register, Goto
  <2>4. RoutingDirected'
    BY DEF Directed, RoutingDirected, TypeOK, RowsKept, Identified, Register, Goto
  <2>5. WrittenDirected'
    BY DEF Directed, WrittenDirected, TypeOK, RowsKept, Identified, Register, Goto
  <2> QED BY <2>1, <2>2, <2>3, <2>4, <2>5 DEF Directed
<1>4. Identified'
  BY DEF Identified, TypeOK, Register, Goto
<1>5. DrainAwaited'
  BY DEF DrainAwaited, TypeOK, RowsKept, Identified, NextRow, Directed, BatchDirected,
         Register, Goto
<1> QED BY <1>1, <1>2, <1>3, <1>4, <1>5

LEMMA AbandonStep ==
    ASSUME DInv, NEW c \in Conns, Abandon(c),
           UNCHANGED <<online, sock, unsent, routing, crashes>>
    PROVE  DInv'
<1> USE DeliveryAssumption DEF DInv, queues, run
<1>1. TypeOK'
  BY DEF TypeOK, PC, Abandon, Goto
<1>2. RowsKept'
  BY DEF RowsKept, TypeOK, Abandon, Goto
<1>3. Directed'
  BY DEF Directed, BatchDirected, LeftDirected, MemoryDirected, RoutingDirected, WrittenDirected,
         TypeOK, RowsKept, Identified, Abandon, Goto
<1>4. Identified'
  BY DEF Identified, TypeOK, Abandon, Goto
<1>5. DrainAwaited'
  BY DEF DrainAwaited, TypeOK, RowsKept, Identified, NextRow, Directed, BatchDirected,
         Abandon, Goto
<1> QED BY <1>1, <1>2, <1>3, <1>4, <1>5

LEMMA EndRowsStep ==
    ASSUME DInv, NEW c \in Conns, EndRows(c),
           UNCHANGED <<online, sock, unsent, routing, crashes>>
    PROVE  DInv'
<1> USE DeliveryAssumption DEF DInv, queues, run
<1>1. TypeOK'
  BY DEF TypeOK, PC, EndRows, Goto
<1>2. RowsKept'
  BY DEF RowsKept, TypeOK, EndRows, Goto
<1>3. Directed'
  BY DEF Directed, BatchDirected, LeftDirected, MemoryDirected, RoutingDirected, WrittenDirected,
         TypeOK, RowsKept, Identified, EndRows, Goto
<1>4. Identified'
  BY DEF Identified, TypeOK, EndRows, Goto
<1>5. DrainAwaited'
  BY DEF DrainAwaited, TypeOK, RowsKept, Identified, NextRow, Directed, BatchDirected,
         EndRows, Goto
<1> QED BY <1>1, <1>2, <1>3, <1>4, <1>5

LEMMA MarkRowStep ==
    ASSUME DInv, NEW c \in Conns, MarkRow(c),
           UNCHANGED <<online, sock, unsent, routing, crashes>>
    PROVE  DInv'
<1> USE DeliveryAssumption DEF DInv, queues, run
<1>1. TypeOK'
  BY DEF TypeOK, PC, MarkRow, Goto
<1>2. RowsKept'
  BY DEF RowsKept, TypeOK, MarkRow, Goto
<1>3. Directed'
  BY DEF Directed, BatchDirected, LeftDirected, MemoryDirected, RoutingDirected, WrittenDirected,
         TypeOK, RowsKept, Identified, MarkRow, Goto
<1>4. Identified'
  BY DEF Identified, TypeOK, MarkRow, Goto
<1>5. DrainAwaited'
  BY DEF DrainAwaited, TypeOK, RowsKept, Identified, NextRow, Directed, BatchDirected,
         MarkRow, Goto
<1> QED BY <1>1, <1>2, <1>3, <1>4, <1>5

LEMMA FetchStep ==
    ASSUME DInv, NEW c \in Conns, NEW dead \in SUBSET rows, Fetch(c, dead),
           UNCHANGED <<online, sock, unsent, routing, crashes>>
    PROVE  DInv'
<1> USE DeliveryAssumption DEF DInv, queues, run
<1>1. TypeOK'
  BY DEF TypeOK, PC, Fetch, Goto, For
<1>2. RowsKept'
  BY DEF RowsKept, TypeOK, Fetch, Goto, For
<1>3. Directed'
  BY DEF Directed, BatchDirected, LeftDirected, MemoryDirected, RoutingDirected, WrittenDirected,
         TypeOK, RowsKept, Identified, Fetch, Goto, For
<1>4. Identified'
  BY DEF Identified, TypeOK, Fetch, Goto, For
<1>5. DrainAwaited'
  BY DEF DrainAwaited, TypeOK, RowsKept, Identified, NextRow, Directed, BatchDirected,
         Fetch, Goto, For
<1> QED BY <1>1, <1>2, <1>3, <1>4, <1>5

LEMMA WriteRowStep ==
    ASSUME DInv, NEW c \in Conns, WriteRow(c),
           UNCHANGED <<online, sock, unsent, routing, crashes>>
    PROVE  DInv'
<1> USE DeliveryAssumption DEF DInv, queues, run
<1>0. NextRow(c) \subseteq Msgs /\ NextRow(c) \subseteq For(device[c]) /\ sock[c] # "unused"
  BY DEF NextRow, TypeOK, Directed, BatchDirected, Identified, WriteRow, Goto
<1>1. TypeOK'
  BY <1>0 DEF TypeOK, PC, WriteRow, Goto
<1>2. RowsKept'
  BY DEF RowsKept, TypeOK, WriteRow, Goto
<1>3. Directed'
  <2>1. BatchDirected'
    BY DEF Directed, BatchDirected, TypeOK, RowsKept, Identified, WriteRow, Goto
  <2>2. LeftDirected'
    BY DEF Directed, LeftDirected, TypeOK, RowsKept, Identified, WriteRow, Goto
  <2>3. MemoryDirected'
    BY DEF Directed, MemoryDirected, TypeOK, RowsKept, Identified, WriteRow, Goto
  <2>4. RoutingDirected'
    BY DEF Directed, RoutingDirected, TypeOK, RowsKept, Identified, WriteRow, Goto
  <2>5. WrittenDirected'
    BY <1>0 DEF Directed, WrittenDirected, TypeOK, RowsKept, Identified, WriteRow, Goto
  <2> QED BY <2>1, <2>2, <2>3, <2>4, <2>5 DEF Directed
<1>4. Identified'
  BY DEF Identified, TypeOK, WriteRow, Goto
<1>5. DrainAwaited'
  BY DEF DrainAwaited, TypeOK, RowsKept, Identified, NextRow, Directed, BatchDirected,
         WriteRow, Goto
<1> QED BY <1>1, <1>2, <1>3, <1>4, <1>5

LEMMA FetchMemoryStep ==
    ASSUME DInv, NEW c \in Conns, FetchMemory(c),
           UNCHANGED <<online, sock, unsent, routing, crashes>>
    PROVE  DInv'
<1> USE DeliveryAssumption DEF DInv, queues, run
<1> DEFINE D == device[c]
<1>a. D \in Devices
  BY DEF TypeOK, Identified, FetchMemory, Goto
<1>b. memory[D] \in Seq(For(D)) /\ memory[None] \in Seq(For(D))
  BY <1>a, ForSome, SeqLarger DEF Directed, MemoryDirected
<1>c. /\ memory[D] \o memory[None] \in Seq(For(D))
      /\ memory[None] \o memory[D] \in Seq(For(D))
  BY <1>b, ConcatProperties
<1>0. left'[c] \in Seq(For(device[c])) /\ left'[c] \in Seq(Msgs)
  <2>1. left'[c] \in Seq(For(device[c]))
    BY <1>c DEF FetchMemory, TypeOK
  <2> QED BY <2>1, SeqLarger DEF For
<1> HIDE DEF D
<1>1. TypeOK'
  BY <1>0 DEF TypeOK, PC, FetchMemory, Goto
<1>2. RowsKept'
  BY DEF RowsKept, TypeOK, FetchMemory, Goto
<1>3. Directed'
  <2>1. BatchDirected'
    BY DEF Directed, BatchDirected, TypeOK, RowsKept, Identified, FetchMemory, Goto
  <2>2. LeftDirected'
    BY <1>0 DEF Directed, LeftDirected, TypeOK, RowsKept, Identified, FetchMemory, Goto
  <2>3. MemoryDirected'
    BY DEF Directed, MemoryDirected, TypeOK, RowsKept, Identified, FetchMemory, Goto
  <2>4. RoutingDirected'
    BY DEF Directed, RoutingDirected, TypeOK, RowsKept, Identified, FetchMemory, Goto
  <2>5. WrittenDirected'
    BY DEF Directed, WrittenDirected, TypeOK, RowsKept, Identified, FetchMemory, Goto
  <2> QED BY <2>1, <2>2, <2>3, <2>4, <2>5 DEF Directed
<1>4. Identified'
  BY DEF Identified, TypeOK, FetchMemory, Goto
<1>5. DrainAwaited'
  BY DEF DrainAwaited, TypeOK, RowsKept, Identified, NextRow, Directed, BatchDirected,
         FetchMemory, Goto
<1> QED BY <1>1, <1>2, <1>3, <1>4, <1>5

LEMMA WriteMemoryStep ==
    ASSUME DInv, NEW c \in Conns, WriteMemory(c),
           UNCHANGED <<online, sock, unsent, routing, crashes>>
    PROVE  DInv'
<1> USE DeliveryAssumption DEF DInv, queues, run
<1>0. Head(left[c]) \in For(device[c]) /\ Head(left[c]) \in Msgs
  BY SeqParts DEF WriteMemory, Directed, LeftDirected, For
<1>1. TypeOK'
  BY <1>0 DEF TypeOK, PC, WriteMemory, Goto
<1>2. RowsKept'
  BY DEF RowsKept, TypeOK, WriteMemory, Goto
<1>3. Directed'
  <2>1. BatchDirected'
    BY DEF Directed, BatchDirected, TypeOK, RowsKept, Identified, WriteMemory, Goto
  <2>2. LeftDirected'
    BY DEF Directed, LeftDirected, TypeOK, RowsKept, Identified, WriteMemory, Goto
  <2>3. MemoryDirected'
    BY DEF Directed, MemoryDirected, TypeOK, RowsKept, Identified, WriteMemory, Goto
  <2>4. RoutingDirected'
    BY DEF Directed, RoutingDirected, TypeOK, RowsKept, Identified, WriteMemory, Goto
  <2>5. WrittenDirected'
    BY <1>0 DEF Directed, WrittenDirected, TypeOK, RowsKept, Identified, WriteMemory, Goto
  <2> QED BY <2>1, <2>2, <2>3, <2>4, <2>5 DEF Directed
<1>4. Identified'
  BY DEF Identified, TypeOK, WriteMemory, Goto
<1>5. DrainAwaited'
  BY DEF DrainAwaited, TypeOK, RowsKept, Identified, NextRow, Directed, BatchDirected,
         WriteMemory, Goto
<1> QED BY <1>1, <1>2, <1>3, <1>4, <1>5

LEMMA MemoryDrainedStep ==
    ASSUME DInv, NEW c \in Conns, MemoryDrained(c),
           UNCHANGED <<online, sock, unsent, routing, crashes>>
    PROVE  DInv'
<1> USE DeliveryAssumption DEF DInv, queues, run
<1>0. Tail(left[c]) \in Seq(For(device[c])) /\ Tail(left[c]) \in Seq(Msgs)
  BY SeqParts DEF MemoryDrained, Goto, DrainAwaited, Directed, LeftDirected, TypeOK
<1>1. TypeOK'
  BY <1>0 DEF TypeOK, PC, MemoryDrained, Goto
<1>2. RowsKept'
  BY DEF RowsKept, TypeOK, MemoryDrained, Goto
<1>3. Directed'
  <2>1. BatchDirected'
    BY DEF Directed, BatchDirected, TypeOK, RowsKept, Identified, MemoryDrained, Goto
  <2>2. LeftDirected'
    BY <1>0 DEF Directed, LeftDirected, TypeOK, RowsKept, Identified, MemoryDrained, Goto
  <2>3. MemoryDirected'
    BY DEF Directed, MemoryDirected, TypeOK, RowsKept, Identified, MemoryDrained, Goto
  <2>4. RoutingDirected'
    BY DEF Directed, RoutingDirected, TypeOK, RowsKept, Identified, MemoryDrained, Goto
  <2>5. WrittenDirected'
    BY DEF Directed, WrittenDirected, TypeOK, RowsKept, Identified, MemoryDrained, Goto
  <2> QED BY <2>1, <2>2, <2>3, <2>4, <2>5 DEF Directed
<1>4. Identified'
  BY DEF Identified, TypeOK, MemoryDrained, Goto
<1>5. DrainAwaited'
  BY DEF DrainAwaited, TypeOK, RowsKept, Identified, NextRow, Directed, BatchDirected,
         MemoryDrained, Goto
<1> QED BY <1>1, <1>2, <1>3, <1>4, <1>5

LEMMA EndMemoryStep ==
    ASSUME DInv, NEW c \in Conns, EndMemory(c),
           UNCHANGED <<online, sock, unsent, routing, crashes>>
    PROVE  DInv'
<1> USE DeliveryAssumption DEF DInv, queues, run
<1>0. \A k \in Devices \cup {None} : memory'[k] \in Seq(For(k))
  <2> TAKE k \in Devices \cup {None}
  <2>1. memory'[k] = memory[k] \/ memory'[k] = <<>>
    BY DEF EndMemory, TypeOK
  <2> QED BY <2>1, EmptySeq DEF Directed, MemoryDirected
<1>1. TypeOK'
  BY DEF TypeOK, PC, EndMemory, Goto
<1>2. RowsKept'
  BY DEF RowsKept, TypeOK, EndMemory, Goto
<1>3. Directed'
  <2>1. BatchDirected'
    BY DEF Directed, BatchDirected, TypeOK, RowsKept, Identified, EndMemory, Goto
  <2>2. LeftDirected'
    BY DEF Directed, LeftDirected, TypeOK, RowsKept, Identified, EndMemory, Goto
  <2>3. MemoryDirected'
    BY <1>0 DEF Directed, MemoryDirected, TypeOK, RowsKept, Identified, EndMemory, Goto
  <2>4. RoutingDirected'
    BY DEF Directed, RoutingDirected, TypeOK, RowsKept, Identified, EndMemory, Goto
  <2>5. WrittenDirected'
    BY DEF Directed, WrittenDirected, TypeOK, RowsKept, Identified, EndMemory, Goto
  <2> QED BY <2>1, <2>2, <2>3, <2>4, <2>5 DEF Directed
<1>4. Identified'
  BY DEF Identified, TypeOK, EndMemory, Goto
<1>5. DrainAwaited'
  BY DEF DrainAwaited, TypeOK, RowsKept, Identified, NextRow, Directed, BatchDirected,
         EndMemory, Goto
<1> QED BY <1>1, <1>2, <1>3, <1>4, <1>5

LEMMA AbortMemoryStep ==
    ASSUME DInv, NEW c \in Conns, AbortMemory(c),
           UNCHANGED <<online, sock, unsent, routing, crashes>>
    PROVE  DInv'
<1> USE DeliveryAssumption DEF DInv, queues, run
<1>0. \A k \in Devices \cup {None} : memory'[k] \in Seq(For(k))
  <2> TAKE k \in Devices \cup {None}
  <2>1. memory'[k] = memory[k] \/ (memory'[k] = left[c] /\ k = device[c])
    <3>1. CASE memory' = memory
      BY <3>1
    <3>2. CASE memory' = [memory EXCEPT ![device[c]] = left[c]]
      BY <3>2 DEF TypeOK
    <3> QED BY <3>1, <3>2 DEF AbortMemory
  <2> QED BY <2>1 DEF Directed, MemoryDirected, LeftDirected
<1>1. TypeOK'
  BY DEF TypeOK, PC, AbortMemory, Goto
<1>2. RowsKept'
  BY DEF RowsKept, TypeOK, AbortMemory, Goto
<1>3. Directed'
  <2>1. BatchDirected'
    BY DEF Directed, BatchDirected, TypeOK, RowsKept, Identified, AbortMemory, Goto
  <2>2. LeftDirected'
    BY DEF Directed, LeftDirected, TypeOK, RowsKept, Identified, AbortMemory, Goto
  <2>3. MemoryDirected'
    BY <1>0 DEF Directed, MemoryDirected, TypeOK, RowsKept, Identified, AbortMemory, Goto
  <2>4. RoutingDirected'
    BY DEF Directed, RoutingDirected, TypeOK, RowsKept, Identified, AbortMemory, Goto
  <2>5. WrittenDirected'
    BY DEF Directed, WrittenDirected, TypeOK, RowsKept, Identified, AbortMemory, Goto
  <2> QED BY <2>1, <2>2, <2>3, <2>4, <2>5 DEF Directed
<1>4. Identified'
  BY DEF Identified, TypeOK, AbortMemory, Goto
<1>5. DrainAwaited'
  BY DEF DrainAwaited, TypeOK, RowsKept, Identified, NextRow, Directed, BatchDirected,
         AbortMemory, Goto
<1> QED BY <1>1, <1>2, <1>3, <1>4, <1>5

LEMMA BreakStep ==
    ASSUME DInv, NEW c \in Conns, Break(c)
    PROVE  DInv'
<1> USE DeliveryAssumption DEF DInv, queues, run
<1>1. TypeOK'
  BY DEF TypeOK, PC, Break
<1>2. RowsKept'
  BY DEF RowsKept, TypeOK, Break
<1>3. Directed'
  BY DEF Directed, BatchDirected, LeftDirected, MemoryDirected, RoutingDirected, WrittenDirected,
         TypeOK, RowsKept, Identified, Break
<1>4. Identified'
  BY DEF Identified, TypeOK, Break
<1>5. DrainAwaited'
  BY DEF DrainAwaited, TypeOK, RowsKept, Identified, NextRow, Directed, BatchDirected,
         Break
<1> QED BY <1>1, <1>2, <1>3, <1>4, <1>5

LEMMA UnlistStep ==
    ASSUME DInv, NEW d \in Devices, Unlist(d)
    PROVE  DInv'
<1> USE DeliveryAssumption DEF DInv, queues, run
<1>1. TypeOK'
  BY DEF TypeOK, PC, Unlist
<1>2. RowsKept'
  BY DEF RowsKept, TypeOK, Unlist
<1>3. Directed'
  BY DEF Directed, BatchDirected, LeftDirected, MemoryDirected, RoutingDirected, WrittenDirected,
         TypeOK, RowsKept, Identified, Unlist
<1>4. Identified'
  BY DEF Identified, TypeOK, Unlist
<1>5. DrainAwaited'
  BY DEF DrainAwaited, TypeOK, RowsKept, Identified, NextRow, Directed, BatchDirected,
         Unlist
<1> QED BY <1>1, <1>2, <1>3, <1>4, <1>5

LEMMA CrashStep ==
    ASSUME DInv, Crash
    PROVE  DInv'
<1> USE DeliveryAssumption DEF DInv, queues, run
<1>1. TypeOK'
  BY DEF TypeOK, PC, Crash
<1>2. RowsKept'
  BY DEF RowsKept, TypeOK, Crash
<1>3. Directed'
  BY DEF Directed, BatchDirected, LeftDirected, MemoryDirected, RoutingDirected, WrittenDirected,
         TypeOK, RowsKept, Identified, Crash
<1>4. Identified'
  BY DEF Identified, TypeOK, Crash
<1>5. DrainAwaited'
  BY DEF DrainAwaited, TypeOK, RowsKept, Identified, NextRow, Directed, BatchDirected,
         Crash
<1> QED BY <1>1, <1>2, <1>3, <1>4, <1>5


-----------------------------------------------------------------------------
(* The invariant, and the type invariant *)

LEMMA InvInit == ASSUME Init PROVE DInv
<1> USE DeliveryAssumption DEF Init
<1>1. TypeOK
  <2>1. \A c \in Conns : left[c] \in Seq(Msgs)
    BY EmptySeq
  <2>2. \A k \in Devices \cup {None} : memory[k] \in Seq(Msgs)
    BY EmptySeq
  <2> QED BY <2>1, <2>2 DEF TypeOK, PC
<1>2. RowsKept
  BY DEF RowsKept
<1>3. Directed
  BY EmptySeq DEF Directed, BatchDirected, LeftDirected, MemoryDirected, RoutingDirected,
                  WrittenDirected
<1>4. Identified
  BY DEF Identified
<1>5. DrainAwaited
  BY DEF DrainAwaited
<1> QED BY <1>1, <1>2, <1>3, <1>4, <1>5 DEF DInv

LEMMA InvStutter == ASSUME DInv, UNCHANGED vars PROVE DInv'
BY DEF vars, run, queues, DInv, TypeOK, PC, RowsKept, Directed, BatchDirected, LeftDirected,
       MemoryDirected, RoutingDirected, WrittenDirected, Identified, DrainAwaited, NextRow

LEMMA InvStep == ASSUME DInv, [Next]_vars PROVE DInv'
<1>1. CASE UNCHANGED vars
  BY <1>1, InvStutter
<1>2. ASSUME NEW m \in Msgs, Route(m) PROVE DInv'
  BY <1>2, RouteStep
<1>3. ASSUME NEW m \in Msgs, NEW c \in Conns, Forward(m, c) PROVE DInv'
  BY <1>3, ForwardStep
<1>4. ASSUME NEW c \in Conns, NEW d \in Devices, Register(c, d) PROVE DInv'
  BY <1>4, RegisterStep
<1>5. ASSUME NEW c \in Conns, Deliver(c) PROVE DInv'
  BY <1>5, AbandonStep, FetchStep, WriteRowStep, MarkRowStep, EndRowsStep, FetchMemoryStep,
     WriteMemoryStep, MemoryDrainedStep, EndMemoryStep, AbortMemoryStep DEF Deliver
<1>6. ASSUME NEW c \in Conns, Break(c) PROVE DInv'
  BY <1>6, BreakStep
<1>7. ASSUME NEW d \in Devices, Unlist(d) PROVE DInv'
  BY <1>7, UnlistStep
<1>8. CASE Crash
  BY <1>8, CrashStep
<1> QED BY <1>1, <1>2, <1>3, <1>4, <1>5, <1>6, <1>7, <1>8 DEF Next

LEMMA Invariance == Spec => []DInv
<1> QED BY InvInit, InvStep, PTL DEF Spec

\* The delivery state of hub.py and hub_storage.py stays well typed: in
\* particular every fetched row, every in-memory queue and every live target
\* is a message, and no loop takes the head of an empty list (hub.py:395-399).
THEOREM DeliveryTypeCorrect == Spec => []TypeOK
<1> QED BY Invariance, PTL DEF DInv

-----------------------------------------------------------------------------
(* The refinement *)

LEMMA MailboxInit == ASSUME Init PROVE Mailbox!Init
BY DEF Init, Mailbox!Init, Box, Handed

\* Registering does not change what earlier connections were handed.
LEMMA HandedByRegister ==
    ASSUME DInv, NEW c \in Conns, NEW d \in Devices, Register(c, d)
    PROVE  Handed' = Handed
<1>1. \A p \in written : device'[p[1]] = device[p[1]]
  BY DEF DInv, TypeOK, Directed, WrittenDirected, Register
<1> QED BY <1>1 DEF Handed, Register

\* A message written to an open connection is handed to its device.
LEMMA HandedByWrite ==
    ASSUME DInv, NEW c \in Conns, NEW M \in SUBSET For(device[c]), device[c] \in Devices,
           written' = written \cup ({c} \X M), UNCHANGED <<device, rows, expired, stored>>
    PROVE  Mailbox!Next
<1> DEFINE H(p) == <<p[2], device[p[1]]>>
<1>1. Handed' = Handed \cup (M \X {device[c]})
  <2>1. Handed' = Handed \cup {H(p) : p \in {c} \X M}
    BY DEF Handed
  <2>2. \A m \in M : <<c, m>> \in {c} \X M /\ H(<<c, m>>) = <<m, device[c]>>
    OBVIOUS
  <2>3. \A p \in {c} \X M : H(p) \in M \X {device[c]}
    OBVIOUS
  <2>4. {H(p) : p \in {c} \X M} = M \X {device[c]}
    <3> HIDE DEF H
    <3>1. ASSUME NEW q \in M \X {device[c]} PROVE \E p \in {c} \X M : H(p) = q
      <4>1. PICK m \in M : q = <<m, device[c]>>
        OBVIOUS
      <4> QED BY <4>1, <2>2
    <3> QED BY <3>1, <2>3
  <2> QED BY <2>1, <2>4
<1>2. Box' = Box
  BY DEF Box
<1>3. \A m \in M : m \in Msgs /\ Addressed(m, device[c])
  BY DEF For
<1>4. Mailbox!Hand(M, device[c])
  BY <1>1, <1>2, <1>3 DEF Mailbox!Hand
<1> QED BY <1>3, <1>4 DEF Mailbox!Next

LEMMA ReleasedRows ==
    ASSUME DInv, NEW c \in Conns, MarkRow(c), UNCHANGED <<sock>>
    PROVE  Mailbox!Next
<1> DEFINE M == NextRow(c) \cap rows
<1>1. M \in SUBSET Msgs
  BY DEF DInv, TypeOK
<1>2. rows' = rows \ M /\ UNCHANGED <<device, expired, stored, written>>
  BY DEF MarkRow
<1>3. device[c] \in Devices
  BY DEF DInv, Identified, MarkRow
<1>4. \A m \in M : <<m, device[c]>> \in Handed
  <2> TAKE m \in M
  <2>1. <<c, m>> \in written
    BY DEF DInv, DrainAwaited, MarkRow, Goto
  <2>2. <<(<<c, m>>)[2], device[(<<c, m>>)[1]]>> \in Handed
    BY <2>1 DEF Handed
  <2> QED BY <2>2
<1>5. \A m \in M : Box[m] = "held"
  BY <1>1 DEF Box
<1>6. Box' = [m \in Msgs |-> IF m \in M THEN "released" ELSE Box[m]]
  BY <1>1, <1>2 DEF Box, DInv, RowsKept
<1>7. Handed' = Handed
  BY <1>2 DEF Handed
<1>8. Mailbox!Release(M)
  BY <1>3, <1>4, <1>5, <1>6, <1>7 DEF Mailbox!Release
<1> QED BY <1>1, <1>8 DEF Mailbox!Next

LEMMA ExpiredRows ==
    ASSUME DInv, NEW c \in Conns, NEW dead \in SUBSET rows, Fetch(c, dead)
    PROVE  Mailbox!Next
<1>1. dead \in SUBSET Msgs
  BY DEF DInv, TypeOK
<1>2. rows' = rows \ dead /\ expired' = expired \cup dead
      /\ UNCHANGED <<device, stored, written>>
  BY DEF Fetch
<1>3. Box' = [m \in Msgs |-> IF m \in dead THEN "expired" ELSE Box[m]]
  BY <1>2 DEF Box
<1>4. \A m \in dead : Box[m] = "held"
  BY <1>1 DEF Box
<1>5. Handed' = Handed
  BY <1>2 DEF Handed
<1>6. Mailbox!Expire(dead)
  BY <1>3, <1>4, <1>5 DEF Mailbox!Expire
<1> QED BY <1>1, <1>6 DEF Mailbox!Next

LEMMA StoredRow ==
    ASSUME DInv, NEW m \in Msgs, m \in unsent, StoreRow(m), UNCHANGED <<device, written>>
    PROVE  Mailbox!Next
<1>1. rows' = rows \cup {m} /\ stored' = stored \cup {m} /\ UNCHANGED expired
  BY DEF StoreRow
<1>2. m \notin stored /\ m \notin rows /\ m \notin expired
  BY DEF DInv, RowsKept
<1>3. Box[m] = "new" /\ Box' = [Box EXCEPT ![m] = "held"]
  BY <1>1, <1>2 DEF Box
<1>4. Handed' = Handed
  BY DEF Handed
<1>5. Mailbox!Hold(m)
  BY <1>3, <1>4 DEF Mailbox!Hold
<1> QED BY <1>5 DEF Mailbox!Next

LEMMA MailboxStutter ==
    ASSUME UNCHANGED <<rows, expired, stored, written, device>>
    PROVE  UNCHANGED Mailbox!vars
BY DEF Mailbox!vars, Box, Handed


LEMMA DeliveryRefines ==
    ASSUME DInv, NEW c \in Conns, Deliver(c)
    PROVE  [Mailbox!Next]_(Mailbox!vars)
<1>1. UNCHANGED sock
  BY DEF Deliver
<1>2. CASE Abandon(c) \/ EndRows(c) \/ FetchMemory(c) \/ MemoryDrained(c) \/ EndMemory(c)
           \/ AbortMemory(c)
  <2>1. UNCHANGED <<rows, expired, stored, written, device>>
    BY <1>2 DEF Abandon, EndRows, FetchMemory, MemoryDrained, EndMemory, AbortMemory, queues
  <2> QED BY <2>1, MailboxStutter
<1>3. ASSUME NEW dead \in SUBSET rows, Fetch(c, dead) PROVE Mailbox!Next
  BY <1>3, ExpiredRows
<1>4. CASE MarkRow(c)
  BY <1>1, <1>4, ReleasedRows
<1>5. ASSUME WriteRow(c) \/ WriteMemory(c), sock[c] # "open"
      PROVE  UNCHANGED Mailbox!vars
  BY <1>5, MailboxStutter DEF WriteRow, WriteMemory, queues
<1>6. ASSUME WriteRow(c), sock[c] = "open" PROVE Mailbox!Next
  <2>1. NextRow(c) \in SUBSET For(device[c]) /\ device[c] \in Devices
    BY <1>6 DEF DInv, Directed, BatchDirected, Identified, WriteRow, NextRow
  <2>2. written' = written \cup ({c} \X NextRow(c))
        /\ UNCHANGED <<device, rows, expired, stored>>
    BY <1>6 DEF WriteRow, queues
  <2> QED BY <2>1, <2>2, HandedByWrite
<1>7. ASSUME WriteMemory(c), sock[c] = "open" PROVE Mailbox!Next
  <2>1. {Head(left[c])} \in SUBSET For(device[c]) /\ device[c] \in Devices
    BY <1>7, SeqParts DEF DInv, Directed, LeftDirected, Identified, WriteMemory
  <2>2. written' = written \cup ({c} \X {Head(left[c])})
        /\ UNCHANGED <<device, rows, expired, stored>>
    BY <1>7 DEF WriteMemory, queues
  <2> QED BY <2>1, <2>2, HandedByWrite
<1> QED BY <1>2, <1>3, <1>4, <1>5, <1>6, <1>7 DEF Deliver

LEMMA RouteRefines ==
    ASSUME DInv, NEW m \in Msgs, Route(m)
    PROVE  [Mailbox!Next]_(Mailbox!vars)
<1>1. m \in unsent /\ UNCHANGED <<device, written>>
  BY DEF Route, run
<1>2. CASE StoreRow(m)
  BY <1>1, <1>2, StoredRow
<1>3. CASE StoreMemory(m)
  BY <1>1, <1>3, MailboxStutter DEF StoreMemory
<1>4. CASE UNCHANGED queues
  BY <1>1, <1>4, MailboxStutter DEF queues
<1> QED BY <1>2, <1>3, <1>4 DEF Route

LEMMA ForwardRefines ==
    ASSUME DInv, NEW m \in Msgs, NEW c \in Conns, Forward(m, c)
    PROVE  [Mailbox!Next]_(Mailbox!vars)
<1>1. UNCHANGED <<device, rows, expired, stored>>
  BY DEF Forward, run, queues
<1>2. CASE sock[c] = "open"
  <2>1. {m} \in SUBSET For(device[c]) /\ device[c] \in Devices
    BY DEF DInv, Directed, RoutingDirected, Identified, Forward
  <2>2. written' = written \cup ({c} \X {m})
    BY <1>2 DEF Forward
  <2> QED BY <1>1, <2>1, <2>2, HandedByWrite
<1>3. CASE sock[c] # "open"
  BY <1>1, <1>3, MailboxStutter DEF Forward
<1> QED BY <1>2, <1>3

LEMMA StepRefines ==
    ASSUME DInv, [Next]_vars
    PROVE  [Mailbox!Next]_(Mailbox!vars)
<1>1. CASE UNCHANGED vars
  BY <1>1, MailboxStutter DEF vars, run, queues
<1>2. ASSUME NEW m \in Msgs, Route(m) PROVE [Mailbox!Next]_(Mailbox!vars)
  BY <1>2, RouteRefines
<1>3. ASSUME NEW m \in Msgs, NEW c \in Conns, Forward(m, c)
      PROVE  [Mailbox!Next]_(Mailbox!vars)
  BY <1>3, ForwardRefines
<1>4. ASSUME NEW c \in Conns, NEW d \in Devices, Register(c, d)
      PROVE  UNCHANGED Mailbox!vars
  BY <1>4, HandedByRegister DEF Register, queues, Mailbox!vars, Box
<1>5. ASSUME NEW c \in Conns, Deliver(c) PROVE [Mailbox!Next]_(Mailbox!vars)
  BY <1>5, DeliveryRefines
<1>6. ASSUME NEW c \in Conns, Break(c) PROVE UNCHANGED Mailbox!vars
  BY <1>6, MailboxStutter DEF Break, run, queues
<1>7. ASSUME NEW d \in Devices, Unlist(d) PROVE UNCHANGED Mailbox!vars
  BY <1>7, MailboxStutter DEF Unlist, run, queues
<1>8. CASE Crash
  BY <1>8, MailboxStutter DEF Crash
<1> QED BY <1>1, <1>2, <1>3, <1>4, <1>5, <1>6, <1>7, <1>8 DEF Next

\* The persistent offline queue implements OfflineMailbox: whatever breaks,
\* and whenever the Hub restarts, a row leaves the queue only after its message
\* was handed to a device it is for, or by its time to live (hub.py:363-371,
\* hub_storage.py:195-225).
THEOREM PersistentQueueIsMailbox == Spec => MailboxSpec
<1>1. Init => Mailbox!Init
  BY MailboxInit
<1>2. DInv /\ [Next]_vars => [Mailbox!Next]_(Mailbox!vars)
  BY StepRefines
<1> QED BY <1>1, <1>2, Invariance, PTL DEF Spec, MailboxSpec, Mailbox!Spec

-----------------------------------------------------------------------------
(* No row is forgotten *)

\* HandoverComplete is not inductive: a row that waits while its device is
\* listed must moreover be in the batch of the delivery run that is under way.
RunHasRow ==
    \A d \in Devices, m \in rows :
        LET c == online[d]
        IN  c # None /\ Addressed(m, d) =>
                \/ pc[c] \in {"fetch", "failed"} \/ c \in truncated
                \/ pc[c] \in {"row", "rowDrain"} /\ m \in batch[c]

LEMMA RouteKeepsRows ==
    ASSUME DInv, RunHasRow, NEW n \in Msgs, Route(n)
    PROVE  RunHasRow'
<1>1. UNCHANGED <<online, pc, truncated, batch>>
  BY DEF Route, run
<1>2. CASE UNCHANGED rows
  BY <1>1, <1>2 DEF RunHasRow
<1>3. CASE Targets(n) = {} /\ rows' = rows \cup {n}
  <2>1. \A d \in Devices : online[d] = None \/ ~Addressed(n, d)
    BY <1>3, DeliveryAssumption DEF Targets, DInv, TypeOK
  <2> QED BY <1>1, <1>3, <2>1 DEF RunHasRow
<1> QED BY <1>2, <1>3 DEF Route, StoreRow, StoreMemory, queues

LEMMA RegisterKeepsRows ==
    ASSUME DInv, RunHasRow, NEW c \in Conns, NEW d \in Devices, Register(c, d)
    PROVE  RunHasRow'
<1>1. online' = [online EXCEPT ![d] = c] /\ pc' = [pc EXCEPT ![c] = "fetch"]
      /\ UNCHANGED <<rows, truncated, batch>>
  BY DEF Register, Goto, queues
<1>2. \A e \in Devices : online[e] # c
  BY DeliveryAssumption DEF DInv, Identified, Register
<1> QED BY <1>1, <1>2, DeliveryAssumption DEF RunHasRow, DInv, TypeOK

LEMMA FetchKeepsRows ==
    ASSUME DInv, RunHasRow, NEW c \in Conns, NEW dead \in SUBSET rows, Fetch(c, dead),
           UNCHANGED online
    PROVE  RunHasRow'
<1> DEFINE mine == {m \in rows \ dead : Addressed(m, device[c])}
<1>1. c \in truncated' \/ batch'[c] = mine
  BY DEF Fetch, DInv, TypeOK
<1>2. /\ pc' = [pc EXCEPT ![c] = "row"] /\ rows' = rows \ dead
      /\ truncated \subseteq truncated' /\ \A x \in Conns \ {c} : batch'[x] = batch[x]
  BY DEF Fetch, Goto, DInv, TypeOK
<1>3. \A d \in Devices : online[d] = c => device[c] = d
  BY DeliveryAssumption DEF DInv, Identified
<1> QED BY <1>1, <1>2, <1>3, DeliveryAssumption DEF RunHasRow, DInv, TypeOK

LEMMA DeliverKeepsRows ==
    ASSUME DInv, RunHasRow, NEW c \in Conns, Deliver(c)
    PROVE  RunHasRow'
<1> USE DeliveryAssumption DEF DInv, TypeOK, RunHasRow
<1>1. UNCHANGED online
  BY DEF Deliver
<1>2. CASE Abandon(c) \/ WriteRow(c) \/ FetchMemory(c) \/ WriteMemory(c) \/ MemoryDrained(c)
           \/ EndMemory(c) \/ AbortMemory(c)
  BY <1>1, <1>2 DEF Abandon, WriteRow, FetchMemory, WriteMemory, MemoryDrained, EndMemory,
                    AbortMemory, Goto, queues
<1>3. ASSUME NEW dead \in SUBSET rows, Fetch(c, dead) PROVE RunHasRow'
  BY <1>1, <1>3, FetchKeepsRows
<1>4. CASE MarkRow(c)
  BY <1>1, <1>4 DEF MarkRow, Goto
<1>5. CASE EndRows(c)
  BY <1>1, <1>5 DEF EndRows, Goto, queues
<1> QED BY <1>2, <1>3, <1>4, <1>5 DEF Deliver

LEMMA RowsKeptStep ==
    ASSUME DInv, RunHasRow, [Next]_vars
    PROVE  RunHasRow'
<1>1. CASE UNCHANGED vars
  BY <1>1 DEF vars, run, queues, RunHasRow
<1>2. ASSUME NEW m \in Msgs, Route(m) PROVE RunHasRow'
  BY <1>2, RouteKeepsRows
<1>3. ASSUME NEW m \in Msgs, NEW c \in Conns, Forward(m, c) PROVE RunHasRow'
  BY <1>3 DEF Forward, run, queues, RunHasRow
<1>4. ASSUME NEW c \in Conns, NEW d \in Devices, Register(c, d) PROVE RunHasRow'
  BY <1>4, RegisterKeepsRows
<1>5. ASSUME NEW c \in Conns, Deliver(c) PROVE RunHasRow'
  BY <1>5, DeliverKeepsRows
<1>6. ASSUME NEW c \in Conns, Break(c) PROVE RunHasRow'
  BY <1>6 DEF Break, run, queues, RunHasRow
<1>7. ASSUME NEW d \in Devices, Unlist(d) PROVE RunHasRow'
  BY <1>7 DEF Unlist, run, queues, RunHasRow, DInv, TypeOK
<1>8. CASE Crash
  BY <1>8 DEF Crash, RunHasRow
<1> QED BY <1>1, <1>2, <1>3, <1>4, <1>5, <1>6, <1>7, <1>8 DEF Next

\* No row for a device waits in the database while the device is listed with a
\* connection whose delivery run ended without a failure and without reaching
\* LIMIT: REGISTER lists the connection before it fetches (hub.py:505, :536),
\* and a sender decides between storing and forwarding without a pause
\* (hub.py:671-674).
THEOREM NoRowForgotten == Spec => []HandoverComplete
<1>1. Init => RunHasRow
  BY DEF Init, RunHasRow
<1>2. DInv /\ RunHasRow /\ [Next]_vars => RunHasRow'
  BY RowsKeptStep
<1>3. RunHasRow => HandoverComplete
  BY DEF RunHasRow, HandoverComplete
<1> QED BY <1>1, <1>2, <1>3, Invariance, PTL DEF Spec

-----------------------------------------------------------------------------
(* What is kept in memory.  UndeliveredKept fails in the Hub because a run    *)
(* walks over a copy of the two in-memory queues and replaces the queues at   *)
(* its end, whatever was put into them, or taken out of them by another run,  *)
(* meanwhile.  That is the only reason: while no run is overtaken like that,  *)
(* a connection that breaks at any point loses nothing.                       *)

InMemory(c) == pc[c] \in {"mem", "memDrain"}

\* The queues change during a run only by that run's own end.
RunsUndisturbed == [][memory' # memory => \A c \in Conns : InMemory(c) => ~InMemory(c)']_vars

Has(s, m) == \E i \in DOMAIN s : s[i] = m

\* What a run walks over covers the queues it will replace, and what it is
\* about to check off was written.
RunCovers ==
    \A c \in Conns : InMemory(c) =>
        \A k \in {device[c], None} : \A i \in DOMAIN memory[k] :
            <<c, memory[k][i]>> \in written \/ Has(left[c], memory[k][i])
HeadWritten ==
    \A c \in Conns : pc[c] = "memDrain" /\ sock[c] = "open" => <<c, Head(left[c])>> \in written
MemoryInv == RunCovers /\ HeadWritten /\ UndeliveredKept

LEMMA HasOfParts ==
    ASSUME NEW S, NEW s \in Seq(S), NEW t \in Seq(S)
    PROVE  /\ \A m : Has(s, m) => Has(s \o t, m) /\ Has(t \o s, m)
           /\ \A m \in S : Has(Append(s, m), m)
           /\ \A n \in S : \A m : Has(s, m) => Has(Append(s, n), m)
           /\ s # <<>> => \A m : Has(s, m) => m = Head(s) \/ Has(Tail(s), m)
<1>1. ASSUME NEW m, Has(s, m) PROVE Has(s \o t, m)
  <2>1. PICK i \in 1..Len(s) : s[i] = m
    BY <1>1 DEF Has
  <2>2. (s \o t)[i] = m /\ i \in DOMAIN (s \o t)
    BY <2>1, ConcatProperties
  <2> QED BY <2>2 DEF Has
<1>2. ASSUME NEW m, Has(s, m) PROVE Has(t \o s, m)
  <2>1. PICK i \in 1..Len(s) : s[i] = m
    BY <1>2 DEF Has
  <2>2. (t \o s)[Len(t) + i] = m /\ Len(t) + i \in DOMAIN (t \o s)
    BY <2>1, ConcatProperties
  <2> QED BY <2>2 DEF Has
<1>3. ASSUME NEW m \in S PROVE Has(Append(s, m), m)
  <2>1. Append(s, m)[Len(s) + 1] = m /\ Len(s) + 1 \in DOMAIN Append(s, m)
    BY AppendProperties
  <2> QED BY <2>1 DEF Has
<1>4. ASSUME NEW n \in S, NEW m, Has(s, m) PROVE Has(Append(s, n), m)
  <2>1. PICK i \in 1..Len(s) : s[i] = m
    BY <1>4 DEF Has
  <2>2. Append(s, n)[i] = m /\ i \in DOMAIN Append(s, n)
    BY <2>1, AppendProperties
  <2> QED BY <2>2 DEF Has
<1>5. ASSUME s # <<>>, NEW m, Has(s, m) PROVE m = Head(s) \/ Has(Tail(s), m)
  <2>1. PICK i \in 1..Len(s) : s[i] = m
    BY <1>5 DEF Has
  <2>2. CASE i = 1
    BY <1>5, <2>1, <2>2, HeadTailProperties
  <2>3. CASE i # 1
    <3>1. i - 1 \in 1..Len(Tail(s)) /\ Tail(s)[i - 1] = s[i]
      BY <1>5, <2>1, <2>3, HeadTailProperties
    <3>2. i - 1 \in DOMAIN Tail(s)
      BY <1>5, <3>1, HeadTailProperties
    <3> QED BY <2>1, <3>1, <3>2 DEF Has
  <2> QED BY <2>2, <2>3
<1> QED BY <1>1, <1>2, <1>3, <1>4, <1>5

\* Steps that leave the queues and the runs over them alone.
LEMMA MemoryAlone ==
    ASSUME DInv, MemoryInv, UNCHANGED <<device, left, memory, parked>>,
           written \subseteq written', dropped \subseteq dropped', crashes' = 0 => crashes = 0,
           \A c \in Conns : InMemory(c)' \/ pc'[c] = "memDrain" => pc'[c] = pc[c],
           \A c \in Conns : sock'[c] = "open" /\ pc'[c] = "memDrain" => sock[c] = "open"
    PROVE  MemoryInv'
<1>1. RunCovers'
  BY DEF MemoryInv, RunCovers, InMemory
<1>2. HeadWritten'
  BY DEF MemoryInv, HeadWritten
<1>3. UndeliveredKept'
  BY DEF MemoryInv, UndeliveredKept
<1> QED BY <1>1, <1>2, <1>3 DEF MemoryInv

\* No run is under way over queues that change, unless it is its own end.
LEMMA MemoryReplaced ==
    ASSUME DInv, MemoryInv, memory' # memory, UNCHANGED <<device, written>>,
           \A c \in Conns : InMemory(c) => ~InMemory(c)',
           \A c \in Conns : InMemory(c)' => InMemory(c)
    PROVE  RunCovers' /\ HeadWritten'
BY DEF RunCovers, HeadWritten, InMemory

LEMMA ParkedKept ==
    ASSUME DInv, MemoryInv, NEW m \in Msgs, StoreMemory(m),
           UNCHANGED <<device, written, pc, sock, left, crashes>>,
           memory' # memory => \A c \in Conns : InMemory(c) => ~InMemory(c)'
    PROVE  MemoryInv'
<1> DEFINE key == Target[m]
           full == Len(memory[key]) >= MaxMemory
           base == IF full THEN Tail(memory[key]) ELSE memory[key]
<1>0. key \in Devices \cup {None} /\ memory[key] \in Seq(Msgs) /\ DOMAIN memory = Devices \cup {None}
  BY DeliveryAssumption DEF DInv, TypeOK
<1>1. full => memory[key] # <<>>
  BY <1>0, DeliveryAssumption
<1>2. base \in Seq(Msgs)
  BY <1>0, <1>1, SeqParts
<1>3. /\ memory' = [memory EXCEPT ![key] = Append(base, m)]
      /\ dropped' = dropped \cup (IF full THEN {Head(memory[key])} ELSE {})
      /\ parked' = parked \cup {m}
  BY DEF StoreMemory
<1> HIDE DEF key, full
<1>4. \A n \in Msgs : Has(memory[key], n) => n \in dropped' \/ Has(Append(base, m), n)
  <2> SUFFICES ASSUME NEW n \in Msgs, Has(memory[key], n), n \notin dropped' PROVE Has(Append(base, m), n)
    OBVIOUS
  <2>1. Has(base, n)
    BY <1>0, <1>1, <1>3, HasOfParts
  <2> QED BY <1>2, <2>1, HasOfParts
<1>5. Has(Append(base, m), m)
  BY <1>2, HasOfParts
<1>6. UndeliveredKept'
  <2> SUFFICES ASSUME crashes = 0, NEW n \in parked' \ dropped', \A c \in Conns : <<c, n>> \notin written
               PROVE  \E k \in DOMAIN memory' : Has(memory'[k], n)
    BY DEF UndeliveredKept, Has
  <2>1. key \in DOMAIN memory' /\ memory'[key] = Append(base, m)
        /\ \A k \in DOMAIN memory \ {key} : k \in DOMAIN memory' /\ memory'[k] = memory[k]
    BY <1>0, <1>3
  <2>2. CASE n = m
    BY <1>5, <2>1, <2>2
  <2>3. CASE n # m
    <3>1. n \in parked \ dropped /\ n \in Msgs
      BY <1>3, <2>3 DEF DInv, TypeOK
    <3>2. PICK k \in DOMAIN memory : Has(memory[k], n)
      BY <3>1 DEF MemoryInv, UndeliveredKept, Has
    <3> QED BY <1>4, <2>1, <3>1, <3>2
  <2> QED BY <2>2, <2>3
<1>7. RunCovers'
  <2>1. CASE memory' = memory
    BY <2>1 DEF MemoryInv, RunCovers, InMemory
  <2>2. CASE memory' # memory
    <3>1. \A c \in Conns : ~InMemory(c)'
      BY <2>2 DEF InMemory
    <3> QED BY <3>1 DEF RunCovers
  <2> QED BY <2>1, <2>2
<1>8. HeadWritten'
  BY DEF MemoryInv, HeadWritten
<1> QED BY <1>6, <1>7, <1>8 DEF MemoryInv

LEMMA FetchedCovers ==
    ASSUME DInv, MemoryInv, NEW c \in Conns, FetchMemory(c), UNCHANGED <<sock, crashes>>
    PROVE  MemoryInv'
<1> DEFINE a == memory[device[c]]
           b == memory[None]
<1>1. a \in Seq(Msgs) /\ b \in Seq(Msgs)
  BY DEF DInv, TypeOK
<1>2. /\ pc'[c] = "mem" /\ \A x \in Conns \ {c} : pc'[x] = pc[x] /\ left'[x] = left[x]
      /\ left'[c] \in {a \o b, b \o a}
      /\ UNCHANGED <<device, memory, parked, dropped, written>>
  BY DEF FetchMemory, Goto, DInv, TypeOK, queues
<1> HIDE DEF a, b
<1>3. \A m : Has(a, m) \/ Has(b, m) => Has(left'[c], m)
  <2>1. \A m : Has(a, m) => Has(a \o b, m) /\ Has(b \o a, m)
    BY <1>1, HasOfParts
  <2>2. \A m : Has(b, m) => Has(a \o b, m) /\ Has(b \o a, m)
    BY <1>1, HasOfParts
  <2> QED BY <1>2, <2>1, <2>2
<1>4. RunCovers'
  <2> SUFFICES ASSUME NEW x \in Conns, InMemory(x)', NEW k \in {device[x], None},
                      NEW i \in DOMAIN memory[k]
               PROVE  <<x, memory[k][i]>> \in written \/ Has(left'[x], memory[k][i])
    BY <1>2 DEF RunCovers
  <2>1. CASE x = c
    BY <1>3, <2>1 DEF Has, a, b
  <2>2. CASE x # c
    BY <1>2, <2>2 DEF MemoryInv, RunCovers, InMemory
  <2> QED BY <2>1, <2>2
<1>5. HeadWritten'
  BY <1>2 DEF MemoryInv, HeadWritten
<1>6. UndeliveredKept'
  BY <1>2 DEF MemoryInv, UndeliveredKept
<1> QED BY <1>4, <1>5, <1>6 DEF MemoryInv

LEMMA MemoryWritten ==
    ASSUME DInv, MemoryInv, NEW c \in Conns, WriteMemory(c), UNCHANGED <<sock, crashes>>
    PROVE  MemoryInv'
<1>1. /\ pc[c] = "mem" /\ pc'[c] = "memDrain" /\ \A x \in Conns \ {c} : pc'[x] = pc[x]
      /\ written \subseteq written' /\ (sock[c] = "open" => <<c, Head(left[c])>> \in written')
      /\ UNCHANGED <<device, left, memory, parked, dropped>>
  BY DEF WriteMemory, Goto, DInv, TypeOK, queues
<1>2. RunCovers'
  BY <1>1 DEF MemoryInv, RunCovers, InMemory
<1>3. HeadWritten'
  BY <1>1 DEF MemoryInv, HeadWritten
<1>4. UndeliveredKept'
  BY <1>1 DEF MemoryInv, UndeliveredKept
<1> QED BY <1>2, <1>3, <1>4 DEF MemoryInv

LEMMA MemoryCheckedOff ==
    ASSUME DInv, MemoryInv, NEW c \in Conns, MemoryDrained(c), UNCHANGED <<sock, crashes>>
    PROVE  MemoryInv'
<1>1. /\ pc[c] = "memDrain" /\ sock[c] = "open" /\ pc'[c] = "mem"
      /\ \A x \in Conns \ {c} : pc'[x] = pc[x] /\ left'[x] = left[x]
      /\ left'[c] = Tail(left[c])
      /\ UNCHANGED <<device, memory, parked, dropped, written>>
  BY DEF MemoryDrained, Goto, DInv, TypeOK, queues
<1>2. left[c] \in Seq(Msgs) /\ left[c] # <<>> /\ <<c, Head(left[c])>> \in written
  BY <1>1 DEF DInv, TypeOK, DrainAwaited, MemoryInv, HeadWritten
<1>3. \A m : Has(left[c], m) => <<c, m>> \in written \/ Has(left'[c], m)
  BY <1>1, <1>2, HasOfParts
<1>4. RunCovers'
  <2> SUFFICES ASSUME NEW x \in Conns, InMemory(x)', NEW k \in {device[x], None},
                      NEW i \in DOMAIN memory[k]
               PROVE  <<x, memory[k][i]>> \in written \/ Has(left'[x], memory[k][i])
    BY <1>1 DEF RunCovers
  <2>1. InMemory(x)
    BY <1>1 DEF InMemory
  <2>2. <<x, memory[k][i]>> \in written \/ Has(left[x], memory[k][i])
    BY <2>1 DEF MemoryInv, RunCovers
  <2> QED BY <1>1, <1>3, <2>2
<1>5. HeadWritten'
  BY <1>1 DEF MemoryInv, HeadWritten
<1>6. UndeliveredKept'
  BY <1>1 DEF MemoryInv, UndeliveredKept
<1> QED BY <1>4, <1>5, <1>6 DEF MemoryInv

\* At its end a run replaces the queues: all they held was written, or is what
\* the run puts back under the device's key.
LEMMA MemoryEndKept ==
    ASSUME DInv, MemoryInv, NEW c \in Conns, EndMemory(c) \/ AbortMemory(c), UNCHANGED <<sock, crashes>>,
           memory' # memory => \A x \in Conns : InMemory(x) => ~InMemory(x)'
    PROVE  MemoryInv'
<1>1. /\ InMemory(c) /\ pc' = [pc EXCEPT ![c] = "done"]
      /\ UNCHANGED <<device, parked, dropped, written>>
      /\ \A x \in Conns \ {c} : left'[x] = left[x]
  BY DEF EndMemory, AbortMemory, Goto, InMemory, DInv, TypeOK
<1>2. \A x \in Conns : InMemory(x)' \/ pc'[x] = "memDrain" => x # c /\ pc'[x] = pc[x]
  BY <1>1 DEF DInv, TypeOK, InMemory
<1>3. RunCovers' /\ HeadWritten'
  <2>1. CASE memory' = memory
    <3>1. RunCovers'
      BY <1>1, <1>2, <2>1 DEF MemoryInv, RunCovers, InMemory
    <3>2. HeadWritten'
      BY <1>1, <1>2 DEF MemoryInv, HeadWritten
    <3> QED BY <3>1, <3>2
  <2>2. CASE memory' # memory
    <3>1. \A x \in Conns : InMemory(x)' => InMemory(x)
      BY <1>2 DEF InMemory
    <3> QED BY <1>1, <2>2, <3>1, MemoryReplaced
  <2> QED BY <2>1, <2>2
<1>4. \A k \in DOMAIN memory : \A m : Has(memory[k], m) =>
          <<c, m>> \in written \/ (k \in DOMAIN memory' /\ Has(memory'[k], m))
  <2> SUFFICES ASSUME NEW k \in DOMAIN memory, NEW m, Has(memory[k], m), <<c, m>> \notin written
               PROVE  k \in DOMAIN memory' /\ Has(memory'[k], m)
    OBVIOUS
  <2>0. k \in Devices \cup {None} /\ device[c] \in Devices \cup {None}
    BY DEF DInv, TypeOK
  <2>1. k \in {device[c], None} => Has(left[c], m)
    BY <1>1 DEF MemoryInv, RunCovers, Has
  <2>2. CASE EndMemory(c)
    <3>1. left[c] = <<>> /\ ~Has(left[c], m)
      BY <2>2 DEF EndMemory, Has
    <3>2. memory' \in {memory, [memory EXCEPT ![device[c]] = <<>>, ![None] = <<>>]}
      BY <2>2 DEF EndMemory
    <3> QED BY <2>0, <2>1, <3>1, <3>2
  <2>3. CASE AbortMemory(c)
    <3>1. memory' \in {memory, [memory EXCEPT ![device[c]] = left[c]]}
      BY <2>3 DEF AbortMemory
    <3>2. k = device[c] => Has(left[c], m)
      BY <2>1
    <3> QED BY <3>1, <3>2
  <2> QED BY <2>2, <2>3
<1>5. UndeliveredKept'
  BY <1>1, <1>4 DEF MemoryInv, UndeliveredKept, Has
<1> QED BY <1>3, <1>5 DEF MemoryInv

LEMMA DeliverKeepsMemory ==
    ASSUME DInv, MemoryInv, NEW c \in Conns, Deliver(c),
           memory' # memory => \A x \in Conns : InMemory(x) => ~InMemory(x)'
    PROVE  MemoryInv'
<1>1. UNCHANGED <<sock, crashes>>
  BY DEF Deliver
<1>2. CASE Abandon(c) \/ (\E dead \in SUBSET rows : Fetch(c, dead)) \/ WriteRow(c) \/ MarkRow(c)
           \/ EndRows(c)
  <2>1. UNCHANGED <<device, left, memory, parked, dropped>> /\ written \subseteq written'
    BY <1>2 DEF Abandon, Fetch, WriteRow, MarkRow, EndRows, queues
  <2>2. \E to \in {"failed", "row", "rowDrain", "memory"} : pc' = [pc EXCEPT ![c] = to]
    BY <1>2 DEF Abandon, Fetch, WriteRow, MarkRow, EndRows, Goto
  <2>3. \A x \in Conns : InMemory(x)' \/ pc'[x] = "memDrain" => pc'[x] = pc[x]
    BY <2>2 DEF InMemory, DInv, TypeOK
  <2> QED BY <1>1, <2>1, <2>3, MemoryAlone
<1> QED
  BY <1>1, <1>2, FetchedCovers, MemoryWritten, MemoryCheckedOff, MemoryEndKept DEF Deliver

LEMMA MemoryKeptStep ==
    ASSUME DInv, MemoryInv, [Next]_vars,
           [memory' # memory => \A c \in Conns : InMemory(c) => ~InMemory(c)']_vars
    PROVE  MemoryInv'
<1>0. CASE UNCHANGED vars
  BY <1>0, MemoryAlone DEF vars, run, queues
<1>1. SUFFICES ASSUME Next, memory' # memory => \A c \in Conns : InMemory(c) => ~InMemory(c)'
      PROVE  MemoryInv'
  BY <1>0
<1>2. ASSUME NEW m \in Msgs, Route(m) PROVE MemoryInv'
  <2>1. UNCHANGED <<sock, device, pc, left, written, crashes>>
    BY <1>2 DEF Route, run
  <2>2. CASE UNCHANGED <<memory, parked, dropped>>
    BY <2>1, <2>2, MemoryAlone
  <2>3. CASE StoreMemory(m)
    BY <1>1, <2>1, <2>3, ParkedKept
  <2> QED BY <1>2, <2>2, <2>3 DEF Route, StoreRow, queues
<1>3. ASSUME NEW m \in Msgs, NEW c \in Conns, Forward(m, c) PROVE MemoryInv'
  BY <1>3, MemoryAlone DEF Forward, run, queues
<1>4. ASSUME NEW c \in Conns, NEW d \in Devices, Register(c, d) PROVE MemoryInv'
  <2>1. /\ pc[c] = "none" /\ pc' = [pc EXCEPT ![c] = "fetch"] /\ sock' = [sock EXCEPT ![c] = "open"]
        /\ device' = [device EXCEPT ![c] = d]
        /\ UNCHANGED <<left, memory, parked, dropped, written, crashes>>
    BY <1>4 DEF Register, Goto, queues
  <2>2. pc'[c] = "fetch" /\ \A x \in Conns \ {c} : pc'[x] = pc[x] /\ sock'[x] = sock[x] /\ device'[x] = device[x]
    BY <2>1 DEF DInv, TypeOK
  <2>3. RunCovers'
    BY <2>1, <2>2 DEF MemoryInv, RunCovers, InMemory
  <2>4. HeadWritten'
    BY <2>1, <2>2 DEF MemoryInv, HeadWritten
  <2>5. UndeliveredKept'
    BY <2>1 DEF MemoryInv, UndeliveredKept
  <2> QED BY <2>3, <2>4, <2>5 DEF MemoryInv
<1>5. ASSUME NEW c \in Conns, Deliver(c) PROVE MemoryInv'
  BY <1>1, <1>5, DeliverKeepsMemory
<1>6. ASSUME NEW c \in Conns, Break(c) PROVE MemoryInv'
  <2>1. \A x \in Conns : sock'[x] = "open" => sock[x] = "open"
    BY <1>6 DEF Break, DInv, TypeOK
  <2> QED BY <1>6, <2>1, MemoryAlone DEF Break, run, queues
<1>7. ASSUME NEW d \in Devices, Unlist(d) PROVE MemoryInv'
  BY <1>7, MemoryAlone DEF Unlist, run, queues
<1>8. CASE Crash
  <2>1. crashes' # 0 /\ \A c \in Conns : ~InMemory(c)' /\ pc'[c] # "memDrain"
    BY <1>8 DEF Crash, InMemory, DInv, TypeOK
  <2> QED BY <2>1 DEF MemoryInv, RunCovers, HeadWritten, UndeliveredKept
<1> QED BY <1>1, <1>2, <1>3, <1>4, <1>5, <1>6, <1>7, <1>8 DEF Next

\* What hub.py:406-408 says of the end of a delivery run holds as long as the
\* in-memory queues change under no run: then a message kept in memory is in a
\* queue or was written to a connection, wherever a run breaks off.
THEOREM LoneRunsKeepMemory == Spec /\ RunsUndisturbed => []UndeliveredKept
<1>1. Init => MemoryInv
  BY DEF Init, MemoryInv, RunCovers, HeadWritten, UndeliveredKept, InMemory
<1>2. MemoryInv => UndeliveredKept
  BY DEF MemoryInv
<1> QED BY <1>1, <1>2, MemoryKeptStep, Invariance, PTL DEF Spec, RunsUndisturbed
=============================================================================
