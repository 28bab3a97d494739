-------------------------- MODULE HubSessions_proofs --------------------------
(* Proofs about the Hub's online directory and its sessions, for any sets of  *)
(* users, devices and connections.                                            *)
EXTENDS HubSessions, SequenceTheorems, TLAPS

-----------------------------------------------------------------------------
(* The connection manager.  The inductive invariant is the type invariant     *)
(* with IndexAgrees: register finds the key to drop through the reverse       *)
(* index, so it preserves the agreement of the two dictionaries only because  *)
(* they agreed before.                                                        *)

IInv == CMTypeOK /\ IndexAgrees

LEMMA OnlineKeyType ==
    ASSUME NEW c \in Conns, NEW u \in Users, NEW d \in Devices \cup {None}
    PROVE  OnlineKey(c, u, d) \in Keys
BY DEF OnlineKey, Keys

LEMMA NoneIsNoKey == None \notin Keys /\ None \notin Conns
BY ConnectionAssumption DEF Keys

LEMMA FirstOfRegistered == \A u : FirstOf(u) \subseteq Registered
BY DEF FirstOf

\* Removing entries through Remove keeps the two dictionaries inverse.
LEMMA RemovePreserves ==
    ASSUME CMTypeOK, IndexAgrees, NEW K \in SUBSET Registered, Remove(K),
           UNCHANGED <<identity, overdue, locked, remaining>>
    PROVE  CMTypeOK' /\ IndexAgrees'
<1> USE NoneIsNoKey
<1>1. CMTypeOK'
  BY DEF CMTypeOK, Remove, Registered
<1>2. ASSUME NEW k \in Keys, connections'[k] # None
      PROVE  writerToKey'[connections'[k]] = k /\ identity'[connections'[k]] = k
  <2>1. k \notin K /\ connections'[k] = connections[k]
    BY <1>2 DEF Remove
  <2>2. connections[k] \in Conns /\ writerToKey[connections[k]] = k /\ identity[connections[k]] = k
    BY <1>2, <2>1 DEF CMTypeOK, IndexAgrees
  <2>3. ~ \E j \in K : connections[j] = connections[k]
    BY <2>1, <2>2 DEF IndexAgrees, Registered
  <2> QED BY <2>1, <2>2, <2>3 DEF Remove
<1>3. ASSUME NEW c \in Conns, writerToKey'[c] # None
      PROVE  connections'[writerToKey'[c]] = c
  <2>1. writerToKey'[c] = writerToKey[c] /\ ~ \E k \in K : connections[k] = c
    BY <1>3 DEF Remove
  <2>2. writerToKey[c] \in Keys /\ connections[writerToKey[c]] = c
    BY <1>3, <2>1 DEF CMTypeOK, IndexAgrees
  <2> QED BY <2>1, <2>2 DEF Remove
<1> QED BY <1>1, <1>2, <1>3 DEF IndexAgrees

LEMMA RegisterPreserves ==
    ASSUME CMTypeOK, IndexAgrees, NEW c \in Conns, NEW u \in Users,
           NEW d \in Devices \cup {None}, Register(c, u, d)
    PROVE  CMTypeOK' /\ IndexAgrees'
<1> DEFINE key == OnlineKey(c, u, d)
           old == IF connections[key] = c THEN None ELSE writerToKey[c]
<1>0. key \in Keys
  BY OnlineKeyType
<1> USE NoneIsNoKey, <1>0
<1>1. connections' = [k \in Keys |-> IF k = key THEN c ELSE IF k = old THEN None ELSE connections[k]]
  BY DEF Register
<1>2. writerToKey' = [x \in Conns |-> IF x = c THEN key ELSE IF x = connections[key] THEN None ELSE writerToKey[x]]
  BY DEF Register
<1>3. identity' = [identity EXCEPT ![c] = key] /\ UNCHANGED <<overdue, locked, remaining>>
  BY DEF Register
<1>4. before' \in SUBSET (Keys \X Keys)
  BY DEF Register, CMTypeOK, Registered
<1> HIDE DEF key
<1>5. CMTypeOK'
  BY <1>1, <1>2, <1>3, <1>4 DEF CMTypeOK
<1>6. ASSUME NEW k \in Keys, connections'[k] # None
      PROVE  writerToKey'[connections'[k]] = k /\ identity'[connections'[k]] = k
  <2>1. CASE k = key
    BY <2>1, <1>1, <1>2, <1>3 DEF CMTypeOK
  <2>2. CASE k # key
    <3>1. k # old /\ connections'[k] = connections[k] /\ connections[k] \in Conns
      BY <2>2, <1>1, <1>6 DEF CMTypeOK
    <3>2. writerToKey[connections[k]] = k /\ identity[connections[k]] = k
      BY <3>1 DEF IndexAgrees
    <3>3. connections[k] # c /\ connections[k] # connections[key]
      BY <3>1, <3>2, <2>2 DEF IndexAgrees
    <3> QED BY <3>1, <3>2, <3>3, <1>2, <1>3 DEF CMTypeOK
  <2> QED BY <2>1, <2>2
<1>7. ASSUME NEW x \in Conns, writerToKey'[x] # None
      PROVE  connections'[writerToKey'[x]] = x
  <2>1. CASE x = c
    BY <2>1, <1>1, <1>2
  <2>2. CASE x # c
    <3>1. x # connections[key] /\ writerToKey'[x] = writerToKey[x]
      BY <2>2, <1>2, <1>7
    <3>2. writerToKey[x] \in Keys /\ connections[writerToKey[x]] = x
      BY <3>1, <1>7 DEF CMTypeOK, IndexAgrees
    <3>3. writerToKey[x] # key
      BY <3>1, <3>2
    <3>4. writerToKey[x] # old
      BY <2>2, <3>2 DEF IndexAgrees
    <3> QED BY <3>1, <3>2, <3>3, <3>4, <1>1
  <2> QED BY <2>1, <2>2
<1> QED BY <1>5, <1>6, <1>7 DEF IndexAgrees

LEMMA UnregisterByWriterPreserves ==
    ASSUME CMTypeOK, IndexAgrees, NEW c \in Conns, UnregisterByWriter(c)
    PROVE  CMTypeOK' /\ IndexAgrees'
<1> USE NoneIsNoKey
<1>1. CMTypeOK'
  BY DEF CMTypeOK, UnregisterByWriter
<1>2. ASSUME NEW k \in Keys, connections'[k] # None
      PROVE  writerToKey'[connections'[k]] = k /\ identity'[connections'[k]] = k
  <2>1. k # writerToKey[c] /\ connections'[k] = connections[k] /\ connections[k] \in Conns
    BY <1>2 DEF UnregisterByWriter, CMTypeOK
  <2> QED BY <2>1 DEF UnregisterByWriter, IndexAgrees, CMTypeOK
<1>3. ASSUME NEW x \in Conns, writerToKey'[x] # None
      PROVE  connections'[writerToKey'[x]] = x
  <2>1. x # c /\ writerToKey'[x] = writerToKey[x]
    BY <1>3 DEF UnregisterByWriter, CMTypeOK
  <2>2. writerToKey[x] \in Keys /\ connections[writerToKey[x]] = x
    BY <2>1, <1>3 DEF CMTypeOK, IndexAgrees
  <2>3. writerToKey[x] # writerToKey[c]
    BY <2>1, <2>2, <1>3 DEF IndexAgrees
  <2> QED BY <2>1, <2>2, <2>3 DEF UnregisterByWriter
<1> QED BY <1>1, <1>2, <1>3 DEF IndexAgrees

LEMMA IInvInit == CMInit => IInv
BY DEF CMInit, IInv, CMTypeOK, IndexAgrees

LEMMA IInvStep == IInv /\ [CMNext]_cmVars => IInv'
<1> SUFFICES ASSUME CMTypeOK, IndexAgrees, [CMNext]_cmVars
             PROVE  CMTypeOK' /\ IndexAgrees'
  BY DEF IInv
<1>1. ASSUME NEW c \in Conns, NEW u \in Users, NEW d \in Devices \cup {None}, Register(c, u, d)
      PROVE  CMTypeOK' /\ IndexAgrees'
  BY <1>1, RegisterPreserves
<1>2. ASSUME NEW u \in Users, Unregister(u)
      PROVE  CMTypeOK' /\ IndexAgrees'
  BY <1>2, RemovePreserves, FirstOfRegistered DEF Unregister
<1>3. ASSUME NEW c \in Conns, UnregisterByWriter(c)
      PROVE  CMTypeOK' /\ IndexAgrees'
  BY <1>3, UnregisterByWriterPreserves
<1>4. ASSUME NEW u \in Users, NEW d \in Devices \cup {None}, UpdateHeartbeat(u, d)
      PROVE  CMTypeOK' /\ IndexAgrees'
  BY <1>4 DEF UpdateHeartbeat, CMTypeOK, IndexAgrees
<1>5. ASSUME NEW c \in Conns, UpdateHeartbeatByWriter(c)
      PROVE  CMTypeOK' /\ IndexAgrees'
  BY <1>5 DEF UpdateHeartbeatByWriter, CMTypeOK, IndexAgrees
<1>6. ASSUME CleanupStale
      PROVE  CMTypeOK' /\ IndexAgrees'
  BY <1>6, RemovePreserves DEF CleanupStale, Stale
<1>7. ASSUME NEW exclude \in Users \cup {None}, BroadcastStart(exclude)
      PROVE  CMTypeOK' /\ IndexAgrees'
  BY <1>7 DEF BroadcastStart, CMTypeOK, IndexAgrees, Registered
<1>8. ASSUME NEW k \in Keys, BroadcastWrite(k)
      PROVE  CMTypeOK' /\ IndexAgrees'
  BY <1>8 DEF BroadcastWrite, CMTypeOK, IndexAgrees
<1>9. ASSUME BroadcastEnd
      PROVE  CMTypeOK' /\ IndexAgrees'
  BY <1>9 DEF BroadcastEnd, CMTypeOK, IndexAgrees
<1>10. ASSUME NEW c \in Conns, Age(c)
       PROVE  CMTypeOK' /\ IndexAgrees'
  BY <1>10 DEF Age, CMTypeOK, IndexAgrees
<1>11. CASE UNCHANGED cmVars
  BY <1>11 DEF cmVars, CMTypeOK, IndexAgrees
<1> QED BY <1>1, <1>2, <1>3, <1>4, <1>5, <1>6, <1>7, <1>8, <1>9, <1>10, <1>11 DEF CMNext

\* Whatever sequence of operations the Hub runs, _connections and
\* _writer_to_key stay inverse to each other and each record carries the key
\* it is filed under.
THEOREM IndexAgreement == CMSpec => [](CMTypeOK /\ IndexAgrees)
<1>1. CMInit => IInv  BY IInvInit
<1>2. IInv /\ [CMNext]_cmVars => IInv'  BY IInvStep
<1>3. IInv => CMTypeOK /\ IndexAgrees  BY DEF IInv
<1> QED BY <1>1, <1>2, <1>3, PTL DEF CMSpec

-----------------------------------------------------------------------------
\* While a broadcast is between its first and its last write no operation can
\* add or remove an entry: all of them wait for its lock.
THEOREM IterationIsStable == CMSpec => IterationStable
<1>1. CMInit => IInv  BY IInvInit
<1>2. IInv /\ [CMNext]_cmVars => IInv'  BY IInvStep
<1>3. [CMNext]_cmVars => [locked /\ locked' => connections' = connections]_cmVars
  BY DEF CMNext, cmVars, Register, Unregister, UnregisterByWriter, UpdateHeartbeat,
         UpdateHeartbeatByWriter, CleanupStale, BroadcastStart, BroadcastWrite,
         BroadcastEnd, Age
<1> QED BY <1>1, <1>2, <1>3, PTL DEF CMSpec, IterationStable

\* Under the agreement of the two dictionaries a connection that registers
\* again gives up exactly the entry it held, so register is a Bind of the
\* abstract directory; every other operation drops entries or keeps them all.
LEMMA RegisterBinds ==
    ASSUME CMTypeOK, IndexAgrees, NEW c \in Conns, NEW u \in Users,
           NEW d \in Devices \cup {None}, Register(c, u, d)
    PROVE  Directory!Bind(OnlineKey(c, u, d), c)
<1> DEFINE key == OnlineKey(c, u, d)
           old == IF connections[key] = c THEN None ELSE writerToKey[c]
<1>0. key \in Keys
  BY OnlineKeyType
<1> USE NoneIsNoKey, <1>0
<1>1. connections' = [k \in Keys |-> IF k = key THEN c ELSE IF k = old THEN None ELSE connections[k]]
  BY DEF Register
<1> HIDE DEF key
<1>2. ASSUME NEW k \in Keys, k # key
      PROVE  (k = old) <=> (connections[k] = c)
  <2>1. CASE connections[key] = c
    BY <2>1, <1>2 DEF IndexAgrees
  <2>2. CASE connections[key] # c
    BY <2>2, <1>2 DEF IndexAgrees, CMTypeOK
  <2> QED BY <2>1, <2>2
<1>3. connections' = [k \in Keys |-> IF k = key THEN c ELSE IF connections[k] = c THEN None ELSE connections[k]]
  BY <1>1, <1>2
<1> QED BY <1>3 DEF Directory!Bind, key

LEMMA DirectoryStep ==
    IInv /\ [CMNext]_cmVars => [Directory!Next]_connections
<1> SUFFICES ASSUME CMTypeOK, IndexAgrees, [CMNext]_cmVars
             PROVE  (\E k \in Keys, c \in Conns : Directory!Bind(k, c))
                    \/ (\E K \in SUBSET Keys : Directory!Drop(K))
                    \/ UNCHANGED connections
  BY DEF IInv, Directory!Next
<1>1. ASSUME NEW c \in Conns, NEW u \in Users, NEW d \in Devices \cup {None}, Register(c, u, d)
      PROVE  \E k \in Keys, x \in Conns : Directory!Bind(k, x)
  BY <1>1, RegisterBinds, OnlineKeyType
<1>2. ASSUME NEW K \in SUBSET Registered, Remove(K)
      PROVE  \E S \in SUBSET Keys : Directory!Drop(S)
  BY <1>2 DEF Remove, Directory!Drop, Registered
<1>3. ASSUME NEW u \in Users, Unregister(u)
      PROVE  \E S \in SUBSET Keys : Directory!Drop(S)
  BY <1>2, <1>3, FirstOfRegistered DEF Unregister
<1>4. ASSUME NEW c \in Conns, UnregisterByWriter(c)
      PROVE  \E S \in SUBSET Keys : Directory!Drop(S)
  <2>1. Directory!Drop({writerToKey[c]} \cap Keys)
    BY <1>4 DEF UnregisterByWriter, Directory!Drop
  <2> QED BY <2>1
<1>5. ASSUME CleanupStale
      PROVE  \E S \in SUBSET Keys : Directory!Drop(S)
  BY <1>2, <1>5 DEF CleanupStale, Stale
<1>6. CASE \/ \E u \in Users, d \in Devices \cup {None} : UpdateHeartbeat(u, d)
           \/ \E c \in Conns : UpdateHeartbeatByWriter(c) \/ Age(c)
           \/ \E exclude \in Users \cup {None} : BroadcastStart(exclude)
           \/ \E k \in Keys : BroadcastWrite(k)
           \/ BroadcastEnd
           \/ UNCHANGED cmVars
  BY <1>6 DEF UpdateHeartbeat, UpdateHeartbeatByWriter, Age, BroadcastStart,
              BroadcastWrite, BroadcastEnd, cmVars
<1> QED BY <1>1, <1>3, <1>4, <1>5, <1>6 DEF CMNext

\* The two dictionaries together implement the one-entry-per-connection
\* directory of module OnlineDirectory.
THEOREM ImplementsDirectory == CMSpec => DirectorySpec
<1>1. CMInit => IInv  BY IInvInit
<1>2. IInv /\ [CMNext]_cmVars => IInv'  BY IInvStep
<1>3. CMInit => Directory!Init  BY DEF CMInit, Directory!Init
<1>4. IInv /\ [CMNext]_cmVars => [Directory!Next]_connections  BY DirectoryStep
<1> QED BY <1>1, <1>2, <1>3, <1>4, PTL DEF CMSpec, DirectorySpec, Directory!Spec

-----------------------------------------------------------------------------
(* The sessions: every use of the connection manager is one of its            *)
(* operations, so what is proved of the manager holds of the running Hub, and *)
(* no user's connection takes another user's entry away.                      *)

Entries == [task : Tasks, current : BOOLEAN]

\* The parts of the type invariant that are the sessions' own.
SessionTypes ==
    /\ peer \in [Conns -> {"unused", "reading", "stalled", "gone"}]
    /\ pc \in [Tasks -> PC]
    /\ ending \in SUBSET Conns
    /\ leaving \in [Conns -> Users \cup {None}]
    /\ fresh \in SUBSET Watched
    /\ queue \in Seq(Entries)
    /\ current \in BOOLEAN

\* cleanup_connection comes to its "unknown user" branch only for a connection
\* that is not in the reverse index: only a connection's own handler, which is
\* past its loop by then, could have put it there again.
UnknownIsUnlisted ==
    \A c \in Conns : pc[c] = "unregister" /\ leaving[c] = None => writerToKey[c] = None

HInv == IInv /\ SessionTypes /\ UnknownIsUnlisted

LEMMA TasksDiffer == Conns \subseteq Tasks /\ Cleaner \in Tasks /\ Cleaner \notin Conns
BY SessionAssumption DEF Tasks

LEMMA UserOfType ==
    ASSUME IInv, NEW c \in Conns
    PROVE  UserOf(c) \in Users \cup {None}
BY DEF IInv, IndexAgrees, CMTypeOK, UserOf, Keys

LEMMA UnknownUser ==
    ASSUME IInv, NEW c \in Conns, UserOf(c) = None
    PROVE  writerToKey[c] = None
<1>1. SUFFICES ASSUME writerToKey[c] # None PROVE FALSE
  OBVIOUS
<1>2. writerToKey[c] \in Keys /\ connections[writerToKey[c]] = c
  BY <1>1 DEF IInv, IndexAgrees, CMTypeOK
<1>3. identity[c] = writerToKey[c]
  BY <1>2, NoneIsNoKey DEF IInv, IndexAgrees
<1>4. UserOf(c) = writerToKey[c][1] /\ writerToKey[c][1] \in Users
  BY <1>1, <1>2, <1>3, NoneIsNoKey DEF UserOf, Keys
<1> QED BY <1>4, ConnectionAssumption

-----------------------------------------------------------------------------
LEMMA ClientStepsUseManager ==
    ASSUME HInv, NEW c \in Conns,
           \/ Connect(c) \/ Stall(c) \/ Resume(c) \/ Leave(c) \/ Silence(c)
           \/ Receive(c) \/ UpsertFails(c) \/ Handler(c)
    PROVE  [CMNext]_cmVars
<1>1. CASE Connect(c) \/ Stall(c) \/ Resume(c) \/ Leave(c) \/ UpsertFails(c)
  BY <1>1 DEF Connect, Stall, Resume, Leave, PeerMoves, UpsertFails
<1>2. CASE Silence(c)
  BY <1>2 DEF Silence, CMNext
<1>3. ASSUME NEW u \in Users, NEW d \in SentIds, ReceiveRegister(c, u, d)
      PROVE  CMNext
  BY <1>3, SessionAssumption DEF ReceiveRegister, CMNext
<1>4. CASE ReceiveOnlineUsers(c)
  BY <1>4 DEF ReceiveOnlineUsers
<1>5. CASE ReceiveHeartbeat(c)
  <2> DEFINE u == identity[c][1]
             d == IF identity[c][2] \in Devices THEN identity[c][2] ELSE None
  <2>1. u \in Users /\ d \in Devices \cup {None}
    BY <1>5 DEF ReceiveHeartbeat, HInv, IInv, CMTypeOK, Keys
  <2>2. UpdateHeartbeat(u, d) \/ UpdateHeartbeatByWriter(c)
    BY <1>5 DEF ReceiveHeartbeat
  <2> HIDE DEF u, d
  <2> QED BY <2>1, <2>2 DEF CMNext
<1>6. CASE Handler(c)
  <2>1. CASE WriteReply(c) \/ ReplyDrained(c) \/ ReplyLost(c) \/ EndOfStream(c) \/ Lookup(c)
    BY <2>1 DEF WriteReply, ReplyDrained, ReplyLost, EndOfStream, Lookup
  <2>2. CASE UnregisterUser(c)
    BY <2>2 DEF UnregisterUser, CMNext, HInv, SessionTypes
  <2>3. CASE UnregisterUnknown(c)
    BY <2>3 DEF UnregisterUnknown, CMNext
  <2> QED BY <1>6, <2>1, <2>2, <2>3 DEF Handler
<1> QED BY <1>1, <1>2, <1>3, <1>4, <1>5, <1>6 DEF Receive

LEMMA StepUsesManager == HInv /\ [Next]_vars => [CMNext]_cmVars
<1> SUFFICES ASSUME HInv, [Next]_vars PROVE [CMNext]_cmVars
  OBVIOUS
<1>1. CASE \E c \in Conns :
              \/ Connect(c) \/ Stall(c) \/ Resume(c) \/ Leave(c) \/ Silence(c)
              \/ Receive(c) \/ UpsertFails(c) \/ Handler(c)
  BY <1>1, ClientStepsUseManager
<1>2. CASE Sweep
  BY <1>2 DEF Sweep, CMNext
<1>3. ASSUME NEW t \in Tasks, Broadcasting(t)
      PROVE  [CMNext]_cmVars
  <2>1. CASE TakeSnapshot(t)
    BY <2>1 DEF TakeSnapshot
  <2>2. CASE StartBroadcast(t)
    BY <2>2 DEF StartBroadcast, CMNext
  <2>3. CASE EndBroadcast(t)
    BY <2>3 DEF EndBroadcast, CMNext
  <2>4. CASE \E k \in Keys : Send(t, k)
    BY <2>4 DEF Send, CMNext
  <2> QED BY <1>3, <2>1, <2>2, <2>3, <2>4 DEF Broadcasting
<1>4. CASE UNCHANGED vars
  BY <1>4 DEF vars
<1> QED BY <1>1, <1>2, <1>3, <1>4 DEF Next

-----------------------------------------------------------------------------
LEMMA OutdateTypes ==
    ASSUME queue \in Seq(Entries), Outdate
    PROVE  queue' \in Seq(Entries)
<1> DEFINE n == Len(queue)
           e(i) == [queue[i] EXCEPT !.current = (Watched = {})]
<1>1. n \in Nat /\ DOMAIN queue = 1..n /\ \A i \in 1..n : queue[i] \in Entries
  BY LenProperties, ElementOfSeq
<1>2. \A i \in 1..n : e(i) \in Entries
  BY <1>1 DEF Entries
<1>3. queue' = [i \in 1..n |-> e(i)]
  BY <1>1 DEF Outdate
<1> QED BY <1>1, <1>2, <1>3

LEMMA TypesStep ==
    ASSUME HInv, [Next]_vars
    PROVE  SessionTypes'
<1> USE TasksDiffer DEF HInv, SessionTypes, PC
<1>1. ASSUME NEW c \in Conns, Connect(c) \/ Stall(c) \/ Resume(c) \/ Leave(c) \/ Silence(c)
      PROVE  SessionTypes'
  BY <1>1 DEF Connect, Stall, Resume, Leave, Silence, PeerMoves, Goto
<1>2. ASSUME NEW c \in Conns, UpsertFails(c) \/ WriteReply(c) \/ ReplyDrained(c) \/ ReplyLost(c)
                              \/ EndOfStream(c) \/ ReceiveOnlineUsers(c) \/ ReceiveHeartbeat(c)
      PROVE  SessionTypes'
  BY <1>2 DEF UpsertFails, WriteReply, ReplyDrained, ReplyLost, EndOfStream,
              ReceiveOnlineUsers, ReceiveHeartbeat, Goto, Show
<1>3. ASSUME NEW c \in Conns, Lookup(c)
      PROVE  SessionTypes'
  BY <1>3, UserOfType DEF Lookup, Goto
<1>4. ASSUME NEW c \in Conns, NEW u \in Users, NEW d \in SentIds, ReceiveRegister(c, u, d)
      PROVE  SessionTypes'
  <2>1. queue' \in Seq(Entries)
    BY <1>4, OutdateTypes DEF ReceiveRegister
  <2> QED BY <1>4, <2>1 DEF ReceiveRegister, Goto, Outdate
<1>5. ASSUME NEW c \in Conns, UnregisterUser(c)
      PROVE  SessionTypes'
  <2>1. queue' \in Seq(Entries)
    BY <1>5, OutdateTypes DEF UnregisterUser, KeepDirectory
  <2> QED BY <1>5, <2>1 DEF UnregisterUser, Goto, Outdate, KeepDirectory
<1>6. ASSUME NEW c \in Conns, UnregisterUnknown(c)
      PROVE  SessionTypes'
  <2>1. queue' \in Seq(Entries)
    BY <1>6, OutdateTypes DEF UnregisterUnknown, KeepDirectory
  <2> QED BY <1>6, <2>1 DEF UnregisterUnknown, Goto, Outdate, KeepDirectory, CloseWriter
<1>7. ASSUME Sweep
      PROVE  SessionTypes'
  <2>1. queue' \in Seq(Entries)
    BY <1>7, OutdateTypes DEF Sweep
  <2> QED BY <1>7, <2>1 DEF Sweep, Goto, Outdate
<1>8. ASSUME NEW t \in Tasks, TakeSnapshot(t)
      PROVE  SessionTypes'
  <2>1. [task |-> t, current |-> TRUE] \in Entries
    BY DEF Entries
  <2>2. queue' \in Seq(Entries)
    BY <1>8, <2>1, AppendProperties DEF TakeSnapshot
  <2> QED BY <1>8, <2>2 DEF TakeSnapshot, Goto
<1>9. ASSUME NEW t \in Tasks, StartBroadcast(t)
      PROVE  SessionTypes'
  <2>1. Head(queue) \in Entries /\ Tail(queue) \in Seq(Entries)
    BY <1>9, HeadTailProperties DEF StartBroadcast
  <2>2. Head(queue).current \in BOOLEAN
    BY <2>1 DEF Entries
  <2> QED BY <1>9, <2>1, <2>2 DEF StartBroadcast, Goto
<1>10. ASSUME NEW t \in Tasks, EndBroadcast(t)
       PROVE  SessionTypes'
  BY <1>10 DEF EndBroadcast, Goto, CloseWriter
<1>11. ASSUME NEW t \in Tasks, NEW k \in Keys, Send(t, k)
       PROVE  SessionTypes'
  BY <1>11 DEF Send, Show
<1>12. CASE UNCHANGED vars
  BY <1>12 DEF vars
<1> QED BY <1>1, <1>2, <1>3, <1>4, <1>5, <1>6, <1>7, <1>8, <1>9, <1>10, <1>11, <1>12
        DEF Next, Receive, Handler, Broadcasting

-----------------------------------------------------------------------------
\* Only a REGISTER read by a connection's own handler lists the connection.
LEMMA ListedOnlyByRegister ==
    ASSUME HInv, [Next]_vars, NEW c \in Conns, writerToKey[c] = None
    PROVE  writerToKey'[c] = None \/ pc[c] = "reading"
<1> USE TasksDiffer, NoneIsNoKey DEF HInv, IInv, CMTypeOK
<1>1. ASSUME NEW x \in Conns, NEW u \in Users, NEW d \in SentIds, ReceiveRegister(x, u, d)
      PROVE  writerToKey'[c] = None \/ pc[c] = "reading"
  <2>1. CASE x = c
    BY <1>1, <2>1 DEF ReceiveRegister, Goto
  <2>2. CASE x # c
    BY <1>1, <2>2 DEF ReceiveRegister, Register
  <2> QED BY <2>1, <2>2
<1>2. ASSUME NEW x \in Conns, UnregisterUser(x)
      PROVE  writerToKey'[c] = None
  BY <1>2 DEF UnregisterUser, Unregister, Remove
<1>3. ASSUME NEW x \in Conns, UnregisterUnknown(x)
      PROVE  writerToKey'[c] = None
  BY <1>3 DEF UnregisterUnknown, UnregisterByWriter
<1>4. ASSUME Sweep
      PROVE  writerToKey'[c] = None
  BY <1>4 DEF Sweep, CleanupStale, Remove
<1>5. ASSUME NEW x \in Conns,
             \/ Connect(x) \/ Stall(x) \/ Resume(x) \/ Leave(x) \/ Silence(x)
             \/ UpsertFails(x) \/ ReceiveOnlineUsers(x) \/ ReceiveHeartbeat(x)
             \/ WriteReply(x) \/ ReplyDrained(x) \/ ReplyLost(x) \/ EndOfStream(x) \/ Lookup(x)
      PROVE  UNCHANGED writerToKey
  BY <1>5 DEF Connect, Stall, Resume, Leave, PeerMoves, Silence, Age, UpsertFails,
              ReceiveOnlineUsers, ReceiveHeartbeat, UpdateHeartbeat, UpdateHeartbeatByWriter,
              WriteReply, ReplyDrained, ReplyLost, EndOfStream, Lookup, cmVars
<1>6. ASSUME NEW t \in Tasks, Broadcasting(t)
      PROVE  UNCHANGED writerToKey
  BY <1>6 DEF Broadcasting, TakeSnapshot, StartBroadcast, BroadcastStart, Send, BroadcastWrite,
              EndBroadcast, BroadcastEnd, cmVars
<1>7. CASE UNCHANGED vars
  BY <1>7 DEF vars, cmVars
<1> QED BY <1>1, <1>2, <1>3, <1>4, <1>5, <1>6, <1>7 DEF Next, Receive, Handler

LEMMA UnknownStep ==
    ASSUME HInv, [Next]_vars
    PROVE  UnknownIsUnlisted'
<1> SUFFICES ASSUME NEW c \in Conns, pc'[c] = "unregister", leaving'[c] = None
             PROVE  writerToKey'[c] = None
  BY DEF UnknownIsUnlisted
<1> USE TasksDiffer DEF HInv, SessionTypes, Goto
<1>1. CASE Lookup(c)
  <2>1. UserOf(c) = None
    BY <1>1 DEF Lookup
  <2>2. writerToKey[c] = None
    BY <2>1, UnknownUser
  <2> QED BY <1>1, <2>2 DEF Lookup, cmVars
<1>2. CASE ~Lookup(c)
  <2>1. pc[c] = "unregister" /\ leaving[c] = None
    <3>1. ASSUME NEW x \in Conns,
                 \/ Connect(x) \/ Stall(x) \/ Resume(x) \/ Leave(x) \/ Silence(x)
                 \/ UpsertFails(x) \/ ReceiveOnlineUsers(x) \/ ReceiveHeartbeat(x)
                 \/ WriteReply(x) \/ ReplyDrained(x) \/ ReplyLost(x) \/ EndOfStream(x)
                 \/ UnregisterUnknown(x)
          PROVE  pc[c] = "unregister" /\ leaving[c] = None
      BY <3>1 DEF Connect, Stall, Resume, Leave, PeerMoves, Silence, UpsertFails,
                  ReceiveOnlineUsers, ReceiveHeartbeat, WriteReply, ReplyDrained, ReplyLost,
                  EndOfStream, UnregisterUnknown
    <3>2. ASSUME NEW x \in Conns, Lookup(x) \/ UnregisterUser(x)
          PROVE  pc[c] = "unregister" /\ leaving[c] = None
      BY <3>2, <1>2 DEF Lookup, UnregisterUser
    <3>3. ASSUME NEW x \in Conns, NEW u \in Users, NEW d \in SentIds, ReceiveRegister(x, u, d)
          PROVE  pc[c] = "unregister" /\ leaving[c] = None
      BY <3>3 DEF ReceiveRegister
    <3>4. ASSUME Sweep \/ \E t \in Tasks : Broadcasting(t)
          PROVE  pc[c] = "unregister" /\ leaving[c] = None
      BY <3>4 DEF Sweep, Broadcasting, TakeSnapshot, StartBroadcast, Send, EndBroadcast
    <3>5. CASE UNCHANGED vars
      BY <3>5 DEF vars
    <3> QED BY <3>1, <3>2, <3>3, <3>4, <3>5, <1>2 DEF Next, Receive, Handler
  <2>2. writerToKey[c] = None
    BY <2>1 DEF UnknownIsUnlisted
  <2> QED BY <2>1, <2>2, ListedOnlyByRegister
<1> QED BY <1>1, <1>2

LEMMA HInvInit == Init => HInv
<1> SUFFICES ASSUME Init PROVE HInv
  OBVIOUS
<1>1. IInv
  BY IInvInit DEF Init
<1>2. queue \in Seq(Entries)
  BY EmptySeq DEF Init
<1>3. SessionTypes
  BY <1>2, TasksDiffer DEF Init, SessionTypes, PC
<1>4. UnknownIsUnlisted
  BY TasksDiffer DEF Init, UnknownIsUnlisted
<1> QED BY <1>1, <1>3, <1>4 DEF HInv

LEMMA HInvStep == HInv /\ [Next]_vars => HInv'
<1> SUFFICES ASSUME HInv, [Next]_vars PROVE HInv'
  OBVIOUS
<1>1. IInv'
  BY StepUsesManager, IInvStep DEF HInv
<1> QED BY <1>1, TypesStep, UnknownStep DEF HInv

\* Type correctness of the whole Hub session state.
THEOREM SessionTypeCorrect == Spec => []TypeOK
<1>1. HInv => TypeOK
  BY DEF HInv, IInv, SessionTypes, TypeOK, Entries
<1> QED BY <1>1, HInvInit, HInvStep, PTL DEF Spec

\* Composition step: the Hub's steps taken one after the other are a run of the
\* connection manager, so what is proved of the manager holds of the Hub.
LEMMA HubUsesManager == Spec => CMSpec
<1>1. Init => CMInit
  BY DEF Init
<1> QED BY <1>1, HInvInit, HInvStep, StepUsesManager, PTL DEF Spec, CMSpec

\* So the running Hub implements the one-entry-per-connection directory, and no
\* broadcast of it ever meets a dictionary that changes under its iteration.
THEOREM HubImplementsDirectory == Spec => DirectorySpec /\ IterationStable
BY HubUsesManager, ImplementsDirectory, IterationIsStable, PTL

\* So the two dictionaries agree in every reachable state of the Hub.
THEOREM HubIndexAgreement == Spec => []IndexAgrees
<1>1. HInv => IndexAgrees
  BY DEF HInv, IInv
<1> QED BY <1>1, HInvInit, HInvStep, PTL DEF Spec

-----------------------------------------------------------------------------
\* Why an entry can leave the directory.
Removal(k) ==
    \/ connections[k] \in overdue /\ pc'[Cleaner] # pc[Cleaner]
    \/ pc[connections[k]] = "reading" /\ pc'[connections[k]] = "reply"
    \/ \E c \in Conns : leaving[c] = k[1] /\ pc[c] = "unregister" /\ pc'[c] = "announce"

LEMMA RemovalStep ==
    ASSUME HInv, [Next]_vars, NEW k \in Registered, connections'[k] = None
    PROVE  Removal(k)
<1> USE TasksDiffer, NoneIsNoKey DEF HInv, IInv, SessionTypes, Goto, Registered
<1>0. /\ k \in Keys /\ connections[k] \in Conns /\ connections[k] # None
      /\ writerToKey[connections[k]] = k /\ identity[connections[k]] = k
  BY DEF CMTypeOK, IndexAgrees
<1>1. ASSUME NEW c \in Conns, NEW u \in Users, NEW d \in SentIds, ReceiveRegister(c, u, d)
      PROVE  Removal(k)
  <2>1. k = writerToKey[c]
    BY <1>0, <1>1 DEF ReceiveRegister, Register
  <2>2. connections[k] = c
    BY <1>0, <2>1 DEF IndexAgrees
  <2> QED BY <1>1, <2>2 DEF ReceiveRegister, Removal
<1>2. ASSUME NEW c \in Conns, UnregisterUser(c)
      PROVE  Removal(k)
  <2>1. k \in FirstOf(leaving[c])
    BY <1>0, <1>2 DEF UnregisterUser, Unregister, Remove
  <2>2. k[1] = leaving[c]
    BY <1>0, <2>1 DEF FirstOf
  <2> QED BY <1>2, <2>2 DEF UnregisterUser, Removal
<1>3. ASSUME NEW c \in Conns, UnregisterUnknown(c)
      PROVE  Removal(k)
  <2>1. writerToKey[c] = None
    BY <1>3 DEF UnregisterUnknown, UnknownIsUnlisted
  <2> QED BY <1>0, <1>3, <2>1 DEF UnregisterUnknown, UnregisterByWriter
<1>4. ASSUME Sweep
      PROVE  Removal(k)
  <2>1. k \in Stale
    BY <1>0, <1>4 DEF Sweep, CleanupStale, Remove
  <2> QED BY <1>4, <2>1 DEF Sweep, Stale, Removal
<1>5. ASSUME NEW c \in Conns,
             \/ Connect(c) \/ Stall(c) \/ Resume(c) \/ Leave(c) \/ Silence(c)
             \/ UpsertFails(c) \/ ReceiveOnlineUsers(c) \/ ReceiveHeartbeat(c)
             \/ WriteReply(c) \/ ReplyDrained(c) \/ ReplyLost(c) \/ EndOfStream(c) \/ Lookup(c)
      PROVE  UNCHANGED connections
  BY <1>5 DEF Connect, Stall, Resume, Leave, PeerMoves, Silence, Age, UpsertFails,
              ReceiveOnlineUsers, ReceiveHeartbeat, UpdateHeartbeat, UpdateHeartbeatByWriter,
              WriteReply, ReplyDrained, ReplyLost, EndOfStream, Lookup, cmVars
<1>6. ASSUME NEW t \in Tasks, Broadcasting(t)
      PROVE  UNCHANGED connections
  BY <1>6 DEF Broadcasting, TakeSnapshot, StartBroadcast, BroadcastStart, Send, BroadcastWrite,
              EndBroadcast, BroadcastEnd, cmVars
<1>7. CASE UNCHANGED vars
  BY <1>0, <1>7 DEF vars, cmVars
<1> QED BY <1>0, <1>1, <1>2, <1>3, <1>4, <1>5, <1>6, <1>7 DEF Next, Receive, Handler

\* No connection of one user ever takes away another user's entry, although
\* the end of a connection unregisters by user id and not by connection.
THEOREM UserIsolation == Spec => UsersAreIsolated
<1>1. HInv /\ [Next]_vars =>
        [\A k \in Registered : connections'[k] = None =>
          \/ connections[k] \in overdue /\ pc'[Cleaner] # pc[Cleaner]
          \/ pc[connections[k]] = "reading" /\ pc'[connections[k]] = "reply"
          \/ \E c \in Conns : leaving[c] = k[1] /\ pc[c] = "unregister" /\ pc'[c] = "announce"]_vars
  BY RemovalStep DEF Removal
<1> QED BY <1>1, HInvInit, HInvStep, PTL DEF Spec, UsersAreIsolated

-----------------------------------------------------------------------------
(* Every change of the directory reaches every client.  A change is followed  *)
(* by a task that will announce it: its own, or one whose handler ends and    *)
(* finds its connection still listed.  A snapshot that was overtaken may      *)
(* still be sent, and spoil what a client knew, but one of the current        *)
(* directory, or a task that will take it, comes after it.                    *)

WillAnnounce(t) ==
    \/ pc[t] = "announce"
    \/ t \in Conns /\ pc[t] \in {"reply", "replied", "lookup"} /\ writerToKey[t] # None
    \/ t \in Conns /\ pc[t] = "unregister" /\ leaving[t] # None
Announced == \E t \in Tasks : WillAnnounce(t)
CurrentQueued == \E i \in DOMAIN queue : queue[i].current

\* Broadcasts run in the order of their snapshots, one at a time.
QueueOrder ==
    /\ \A i, j \in DOMAIN queue :
          i < j => (queue[i].current => queue[j].current) /\ queue[i].task # queue[j].task
    /\ locked /\ current => \A i \in DOMAIN queue : queue[i].current
    /\ \A i \in DOMAIN queue : pc[queue[i].task] = "queued"
    /\ locked => \E t \in Tasks : pc[t] = "sending"
OutdatedFollowed ==
    (\E i \in DOMAIN queue : ~queue[i].current) \/ (locked /\ ~current) => Announced \/ CurrentQueued
Reached ==
    \A c \in Watched : writerToKey[c] # None /\ c \notin fresh =>
        Announced \/ CurrentQueued \/ (locked /\ current /\ writerToKey[c] \in remaining)
FollowInv == QueueOrder /\ OutdatedFollowed /\ Reached

LEMMA FollowStart == Init => FollowInv
<1> SUFFICES ASSUME Init PROVE FollowInv
  OBVIOUS
<1>1. queue = <<>> /\ DOMAIN queue = {} /\ ~locked
  BY DEF Init, CMInit
<1>2. \A c \in Watched : writerToKey[c] = None
  BY SessionAssumption DEF Init, CMInit
<1> QED BY <1>1, <1>2 DEF FollowInv, QueueOrder, OutdatedFollowed, Reached

\* A queue's entries have their types.
LEMMA QueueEntries ==
    ASSUME HInv
    PROVE  /\ DOMAIN queue = 1 .. Len(queue) /\ Len(queue) \in Nat
           /\ \A i \in DOMAIN queue : queue[i].task \in Tasks /\ queue[i].current \in BOOLEAN
<1>1. queue \in Seq(Entries)
  BY DEF HInv, SessionTypes
<1>2. DOMAIN queue = 1 .. Len(queue) /\ Len(queue) \in Nat
  BY <1>1, LenProperties
<1>3. \A i \in 1 .. Len(queue) : queue[i] \in Entries
  BY <1>1, ElementOfSeq
<1> QED BY <1>2, <1>3 DEF Entries

\* A step that changes the directory leaves a task that will announce it.
LEMMA OutdateFollowed ==
    ASSUME HInv, QueueOrder, Outdate, ~locked, ~locked', Announced',
           \A t \in Tasks : pc[t] = "queued" => pc'[t] = "queued"
    PROVE  FollowInv'
<1>1. \A i \in DOMAIN queue : queue[i].task \in Tasks
  BY QueueEntries
<1>2. /\ DOMAIN queue' = DOMAIN queue
      /\ \A i \in DOMAIN queue : queue'[i] = [queue[i] EXCEPT !.current = (Watched = {})]
  BY DEF Outdate
<1>3. \A i \in DOMAIN queue : queue[i] \in Entries
  BY QueueEntries, ElementOfSeq DEF HInv, SessionTypes
<1>4. ASSUME NEW i \in DOMAIN queue
      PROVE  queue'[i].task = queue[i].task /\ queue'[i].current = (Watched = {})
  BY <1>2, <1>3 DEF Entries
<1>5. QueueOrder'
  BY <1>1, <1>2, <1>4 DEF QueueOrder
<1> QED BY <1>5 DEF FollowInv, OutdatedFollowed, Reached

\* A step that leaves the directory and the broadcasts alone.
LEMMA KeptFollowed ==
    ASSUME HInv, FollowInv, UNCHANGED <<queue, locked, current, remaining>>, fresh \subseteq fresh',
           Announced => Announced', \A c \in Conns : writerToKey'[c] = writerToKey[c],
           \A t \in Tasks : pc[t] \in {"queued", "sending"} => pc'[t] = pc[t]
    PROVE  FollowInv'
<1>1. \A i \in DOMAIN queue : queue[i].task \in Tasks
  BY QueueEntries
<1>2. QueueOrder'
  BY <1>1 DEF FollowInv, QueueOrder
<1>3. OutdatedFollowed'
  BY DEF FollowInv, OutdatedFollowed, CurrentQueued
<1>4. Reached'
  BY SessionAssumption DEF FollowInv, Reached, CurrentQueued
<1> QED BY <1>2, <1>3, <1>4 DEF FollowInv

LEMMA SnapshotFollowed ==
    ASSUME HInv, FollowInv, NEW t \in Tasks, TakeSnapshot(t)
    PROVE  FollowInv'
<1> DEFINE n == Len(queue)
           e == [task |-> t, current |-> TRUE]
<1>1. /\ ~locked /\ pc[t] = "announce" /\ pc' = [pc EXCEPT ![t] = "queued"] /\ queue' = Append(queue, e)
      /\ UNCHANGED locked
  BY DEF TakeSnapshot, Goto, cmVars
<1>2. pc'[t] = "queued" /\ \A s \in Tasks \ {t} : pc'[s] = pc[s]
  BY <1>1 DEF HInv, SessionTypes
<1>3. n \in Nat /\ DOMAIN queue = 1 .. n /\ \A i \in 1 .. n : queue[i].task \in Tasks
  BY QueueEntries
<1>4. queue \in Seq(Entries) /\ e \in Entries
  BY DEF HInv, SessionTypes, Entries
<1>5. DOMAIN queue' = 1 .. n + 1 /\ queue'[n + 1] = e /\ \A i \in 1 .. n : queue'[i] = queue[i]
  <2>1. Len(queue') = n + 1 /\ queue' \in Seq(Entries)
    BY <1>1, <1>4, AppendProperties
  <2>2. DOMAIN queue' = 1 .. n + 1
    BY <2>1, LenProperties
  <2> QED BY <1>1, <1>4, <2>2, AppendProperties
<1>6. e.current /\ e.task = t
  OBVIOUS
<1> HIDE DEF e, n
<1>7. CurrentQueued'
  <2>1. n + 1 \in DOMAIN queue'
    BY <1>3, <1>5
  <2> QED BY <1>5, <1>6, <2>1 DEF CurrentQueued
<1>8. \A i \in 1 .. n : pc[queue[i].task] = "queued" /\ queue[i].task # t
  BY <1>1, <1>3 DEF FollowInv, QueueOrder
<1>9. ASSUME NEW i \in 1 .. n + 1, NEW j \in 1 .. n + 1, i < j
      PROVE  (queue'[i].current => queue'[j].current) /\ queue'[i].task # queue'[j].task
  <2>1. i \in 1 .. n
    BY <1>3, <1>9
  <2>2. CASE j = n + 1
    BY <1>5, <1>6, <1>8, <2>1, <2>2
  <2>3. CASE j # n + 1
    <3>1. j \in 1 .. n
      BY <1>3, <2>3
    <3> QED BY <1>3, <1>5, <1>9, <2>1, <3>1 DEF FollowInv, QueueOrder
  <2> QED BY <2>2, <2>3
<1>10. \A i \in 1 .. n + 1 : pc'[queue'[i].task] = "queued"
  <2> SUFFICES ASSUME NEW i \in 1 .. n + 1 PROVE pc'[queue'[i].task] = "queued"
    OBVIOUS
  <2>1. CASE i = n + 1
    BY <1>2, <1>5, <1>6, <2>1
  <2>2. CASE i # n + 1
    <3>1. i \in 1 .. n
      BY <1>3, <2>2
    <3> QED BY <1>2, <1>3, <1>5, <1>8, <3>1
  <2> QED BY <2>1, <2>2
<1>11. QueueOrder'
  BY <1>1, <1>5, <1>9, <1>10 DEF QueueOrder
<1> QED BY <1>7, <1>11 DEF FollowInv, OutdatedFollowed, Reached

LEMMA StartFollowed ==
    ASSUME HInv, FollowInv, NEW t \in Tasks, StartBroadcast(t)
    PROVE  FollowInv'
<1> DEFINE n == Len(queue)
<1> USE NoneIsNoKey
<1>1. /\ queue # <<>> /\ t = Head(queue).task /\ pc[t] = "queued" /\ pc' = [pc EXCEPT ![t] = "sending"]
      /\ ~locked /\ locked' /\ current' = Head(queue).current /\ queue' = Tail(queue)
      /\ UNCHANGED <<fresh, writerToKey, leaving>>
      /\ remaining' = {k \in Registered : identity[connections[k]][1] # None}
  BY DEF StartBroadcast, BroadcastStart, Goto
<1>2. pc'[t] = "sending" /\ \A s \in Tasks \ {t} : pc'[s] = pc[s]
  BY <1>1 DEF HInv, SessionTypes
<1>3. n \in Nat /\ DOMAIN queue = 1 .. n /\ \A i \in 1 .. n : queue[i].task \in Tasks
  BY QueueEntries
<1>4. /\ n >= 1 /\ Head(queue) = queue[1] /\ DOMAIN queue' = 1 .. n - 1
      /\ \A i \in 1 .. n - 1 : queue'[i] = queue[i + 1]
  <2>1. queue \in Seq(Entries)
    BY DEF HInv, SessionTypes
  <2>2. n # 0
    BY <1>1, <2>1, EmptySeq
  <2>3. Tail(queue) \in Seq(Entries) /\ Len(Tail(queue)) = n - 1
    BY <1>1, <2>1, HeadTailProperties
  <2>4. DOMAIN queue' = 1 .. n - 1
    BY <1>1, <2>3, LenProperties
  <2> QED BY <1>1, <1>3, <2>1, <2>2, <2>4, HeadTailProperties
<1> HIDE DEF n
<1>5. \A i \in 1 .. n - 1 : i + 1 \in 1 .. n /\ 1 < i + 1
  BY <1>3, <1>4
<1>6. 1 \in 1 .. n /\ t = queue[1].task /\ current' = queue[1].current
  BY <1>1, <1>3, <1>4
<1>7. ASSUME NEW i \in 1 .. n - 1
      PROVE  /\ queue'[i].task # t /\ queue'[i].task \in Tasks /\ pc[queue'[i].task] = "queued"
             /\ current' => queue'[i].current
  <2>1. i + 1 \in DOMAIN queue /\ 1 \in DOMAIN queue /\ 1 < i + 1
    BY <1>3, <1>5, <1>6
  <2>2. queue'[i] = queue[i + 1] /\ queue[i + 1].task \in Tasks
    BY <1>3, <1>4, <2>1
  <2>3. /\ queue[1].current => queue[i + 1].current
        /\ queue[1].task # queue[i + 1].task
        /\ pc[queue[i + 1].task] = "queued"
    BY <2>1 DEF FollowInv, QueueOrder
  <2> QED BY <1>6, <2>2, <2>3
<1>8. QueueOrder'
  <2>1. ASSUME NEW i \in 1 .. n - 1, NEW j \in 1 .. n - 1, i < j
        PROVE  (queue'[i].current => queue'[j].current) /\ queue'[i].task # queue'[j].task
    <3>1. i + 1 < j + 1
      BY <1>3, <2>1
    <3>2. i + 1 \in DOMAIN queue /\ j + 1 \in DOMAIN queue
      BY <1>3, <1>5
    <3>3. (queue[i + 1].current => queue[j + 1].current) /\ queue[i + 1].task # queue[j + 1].task
      BY <3>1, <3>2 DEF FollowInv, QueueOrder
    <3>4. queue'[i] = queue[i + 1] /\ queue'[j] = queue[j + 1]
      BY <1>4
    <3> QED BY <3>3, <3>4
  <2>2. \A i \in 1 .. n - 1 : pc'[queue'[i].task] = "queued"
    BY <1>2, <1>7
  <2> QED BY <1>2, <1>4, <1>7, <2>1, <2>2 DEF QueueOrder
<1>9. Announced => Announced'
  <2> SUFFICES ASSUME NEW s \in Tasks, WillAnnounce(s) PROVE WillAnnounce(s)'
    BY DEF Announced
  <2>1. s # t
    BY <1>1 DEF WillAnnounce
  <2> QED BY <1>1, <1>2, <2>1 DEF WillAnnounce
<1>10. CurrentQueued => CurrentQueued' \/ current'
  <2> SUFFICES ASSUME NEW i \in 1 .. n, queue[i].current, ~current' PROVE CurrentQueued'
    BY <1>3 DEF CurrentQueued
  <2>1. i # 1
    BY <1>6
  <2>2. i - 1 \in 1 .. n - 1 /\ (i - 1) + 1 = i
    BY <1>3, <1>4, <2>1
  <2> QED BY <1>4, <2>2 DEF CurrentQueued
<1>11. OutdatedFollowed'
  <2> SUFFICES ASSUME (\E i \in 1 .. n - 1 : ~queue'[i].current) \/ ~current'
               PROVE  Announced' \/ CurrentQueued'
    BY <1>4 DEF OutdatedFollowed
  <2>1. ~current'
    BY <1>7
  <2>2. \E i \in DOMAIN queue : ~queue[i].current
    BY <1>3, <1>6, <2>1
  <2> QED BY <1>9, <1>10, <2>1, <2>2 DEF FollowInv, OutdatedFollowed
<1>12. Reached'
  <2> SUFFICES ASSUME NEW c \in Watched, writerToKey[c] # None, c \notin fresh, ~Announced', ~CurrentQueued'
               PROVE  current' /\ writerToKey[c] \in remaining'
    BY <1>1 DEF Reached
  <2>1. CurrentQueued
    BY <1>1, <1>9 DEF FollowInv, Reached
  <2>2. current'
    BY <1>10, <2>1
  <2>3. c \in Conns
    BY SessionAssumption
  <2>4. writerToKey[c] \in Keys /\ connections[writerToKey[c]] = c
    BY <2>3 DEF HInv, IInv, CMTypeOK, IndexAgrees
  <2>5. writerToKey[c] \in Registered /\ identity[c] = writerToKey[c]
    BY <2>3, <2>4 DEF HInv, IInv, IndexAgrees, Registered
  <2>6. writerToKey[c][1] # None
    BY <2>4, ConnectionAssumption DEF Keys
  <2> QED BY <1>1, <2>2, <2>4, <2>5, <2>6
<1> QED BY <1>8, <1>11, <1>12 DEF FollowInv

LEMMA SendFollowed ==
    ASSUME HInv, FollowInv, NEW t \in Tasks, NEW k \in Keys, Send(t, k)
    PROVE  FollowInv'
<1> USE NoneIsNoKey
<1>1. /\ locked /\ k \in remaining /\ remaining' = remaining \ {k}
      /\ UNCHANGED <<pc, leaving, queue, current, locked, writerToKey>>
      /\ fresh' = IF current THEN fresh \cup ({connections[k]} \cap Watched) ELSE fresh \ {connections[k]}
  BY DEF Send, BroadcastWrite, NextReceiver, Show
<1>2. UNCHANGED <<Announced, CurrentQueued>>
  BY <1>1 DEF Announced, WillAnnounce, CurrentQueued
<1>3. QueueOrder'
  BY <1>1 DEF FollowInv, QueueOrder
<1>4. OutdatedFollowed'
  BY <1>1, <1>2 DEF FollowInv, OutdatedFollowed
<1>5. Reached'
  <2> SUFFICES ASSUME NEW c \in Watched, writerToKey[c] # None, c \notin fresh', ~Announced, ~CurrentQueued
               PROVE  current /\ writerToKey[c] \in remaining'
    BY <1>1, <1>2 DEF Reached
  <2>1. current
    BY <1>1 DEF FollowInv, OutdatedFollowed, HInv, SessionTypes
  <2>2. c \notin fresh /\ c # connections[k]
    BY <1>1, <2>1
  <2>3. writerToKey[c] \in remaining
    BY <2>2 DEF FollowInv, Reached
  <2>4. c \in Conns
    BY SessionAssumption
  <2>5. writerToKey[c] # k
    BY <2>2, <2>4 DEF HInv, IInv, IndexAgrees
  <2> QED BY <1>1, <2>1, <2>3, <2>5
<1> QED BY <1>3, <1>4, <1>5 DEF FollowInv

LEMMA EndFollowed ==
    ASSUME HInv, FollowInv, NEW t \in Tasks, EndBroadcast(t)
    PROVE  FollowInv'
<1>1. /\ locked /\ remaining = {} /\ ~locked' /\ UNCHANGED <<queue, fresh, leaving, writerToKey>>
      /\ \E s \in {"sleep", "reading", "closed"} : pc' = [pc EXCEPT ![t] = s]
      /\ pc[t] = "sending"
  BY DEF EndBroadcast, BroadcastEnd, Goto
<1>2. \A s \in Tasks : pc[s] # "sending" => pc'[s] = pc[s]
  BY <1>1 DEF HInv, SessionTypes
<1>3. Announced => Announced'
  BY <1>1, <1>2, TasksDiffer DEF Announced, WillAnnounce
<1>4. CurrentQueued => CurrentQueued'
  BY <1>1 DEF CurrentQueued
<1>5. QueueOrder'
  BY <1>1, <1>2, QueueEntries DEF FollowInv, QueueOrder
<1>6. OutdatedFollowed'
  BY <1>1, <1>3, <1>4 DEF FollowInv, OutdatedFollowed
<1>7. Reached'
  BY <1>1, <1>3, <1>4 DEF FollowInv, Reached
<1> QED BY <1>5, <1>6, <1>7 DEF FollowInv

\* A step of c's handler that leaves the directory alone: unless it is the end
\* of a handler that is no longer listed, it comes nearer to an announcement.
LEMMA HandlerFollowed ==
    ASSUME HInv, FollowInv, NEW c \in Conns, NEW from, NEW to, Goto(c, from, to),
           UNCHANGED <<queue, locked, current, remaining>>, fresh \subseteq fresh',
           \A x \in Conns : writerToKey'[x] = writerToKey[x],
           \A x \in Conns \ {c} : leaving'[x] = leaving[x],
           WillAnnounce(c) => WillAnnounce(c)', from \notin {"queued", "sending"}
    PROVE  FollowInv'
<1>1. pc[c] = from /\ \A t \in Tasks \ {c} : pc'[t] = pc[t]
  BY TasksDiffer DEF Goto, HInv, SessionTypes
<1>2. ASSUME NEW t \in Tasks, WillAnnounce(t) PROVE WillAnnounce(t)'
  <2>1. CASE t = c
    BY <1>2, <2>1
  <2>2. CASE t # c
    BY <1>1, <1>2, <2>2 DEF WillAnnounce
  <2> QED BY <2>1, <2>2
<1>3. Announced => Announced'
  BY <1>2 DEF Announced
<1>4. \A t \in Tasks : pc[t] \in {"queued", "sending"} => pc'[t] = pc[t]
  BY <1>1
<1> QED BY <1>3, <1>4, KeptFollowed

LEMMA FollowStep == HInv /\ FollowInv /\ [Next]_vars => FollowInv'
<1> SUFFICES ASSUME HInv, FollowInv, [Next]_vars PROVE FollowInv'
  OBVIOUS
<1> USE TasksDiffer, NoneIsNoKey
<1>0. pc \in [Tasks -> PC] /\ leaving \in [Conns -> Users \cup {None}]
  BY DEF HInv, SessionTypes
<1>1. ASSUME UNCHANGED <<pc, leaving, queue, locked, current, remaining, writerToKey>>, fresh \subseteq fresh'
      PROVE  FollowInv'
  <2>1. Announced => Announced'
    BY <1>1 DEF Announced, WillAnnounce
  <2> QED BY <1>1, <2>1, KeptFollowed
<1>2. ASSUME NEW c \in Conns, Stall(c) \/ Resume(c) \/ Leave(c) \/ Silence(c) \/ ReceiveHeartbeat(c)
                              \/ ReceiveOnlineUsers(c)
      PROVE  FollowInv'
  BY <1>1, <1>2 DEF Stall, Resume, Leave, PeerMoves, Silence, Age, ReceiveHeartbeat, UpdateHeartbeat,
                    UpdateHeartbeatByWriter, ReceiveOnlineUsers, Show, cmVars
<1>3. CASE UNCHANGED vars
  BY <1>1, <1>3 DEF vars, cmVars
<1>4. ASSUME NEW c \in Conns, Connect(c) \/ WriteReply(c) \/ UpsertFails(c) \/ ReplyLost(c) \/ ReplyDrained(c)
                              \/ EndOfStream(c)
      PROVE  FollowInv'
  <2>1. /\ UNCHANGED <<queue, locked, current, remaining, writerToKey, leaving>> /\ fresh \subseteq fresh'
        /\ \/ Goto(c, "none", "reading") \/ Goto(c, "reply", "replied") \/ Goto(c, "reply", "lookup")
           \/ Goto(c, "replied", "lookup") \/ Goto(c, "replied", "announce") \/ Goto(c, "reading", "lookup")
    BY <1>4 DEF Connect, WriteReply, UpsertFails, ReplyLost, ReplyDrained, EndOfStream, Show, cmVars
  <2>2. PICK from \in {"none", "reply", "replied", "reading"},
             to \in {"reading", "replied", "lookup", "announce"} :
          Goto(c, from, to) /\ (from \in {"reply", "replied"} => to \in {"replied", "lookup", "announce"})
    BY <2>1
  <2>3. pc[c] = from /\ pc'[c] = to
    BY <1>0, <2>2 DEF Goto
  <2>4. WillAnnounce(c) => WillAnnounce(c)'
    BY <2>1, <2>2, <2>3 DEF WillAnnounce
  <2> QED BY <2>1, <2>2, <2>4, HandlerFollowed
<1>5. ASSUME NEW c \in Conns, Lookup(c) PROVE FollowInv'
  <2>1. /\ Goto(c, "lookup", "unregister") /\ leaving' = [leaving EXCEPT ![c] = UserOf(c)]
        /\ UNCHANGED <<queue, locked, current, remaining, writerToKey, fresh>>
    BY <1>5 DEF Lookup, cmVars
  <2>2. pc[c] = "lookup" /\ pc'[c] = "unregister" /\ leaving'[c] = UserOf(c)
    BY <1>0, <2>1 DEF Goto
  <2>3. WillAnnounce(c) => UserOf(c) # None
    BY <2>2, UnknownUser DEF WillAnnounce, HInv
  <2>4. WillAnnounce(c) => WillAnnounce(c)'
    BY <2>2, <2>3 DEF WillAnnounce
  <2>5. \A x \in Conns \ {c} : leaving'[x] = leaving[x]
    BY <1>0, <2>1
  <2> QED BY <2>1, <2>4, <2>5, HandlerFollowed
<1>6. ASSUME NEW t \in Tasks, NEW from, NEW to, Goto(t, from, to), from # "queued", Outdate, ~locked, ~locked',
             WillAnnounce(t)'
      PROVE  FollowInv'
  <2>1. \A s \in Tasks : pc[s] = "queued" => pc'[s] = "queued"
    BY <1>0, <1>6 DEF Goto
  <2> QED BY <1>6, <2>1, OutdateFollowed DEF FollowInv, Announced
<1>7. ASSUME NEW c \in Conns, NEW u \in Users, NEW d \in SentIds, ReceiveRegister(c, u, d) PROVE FollowInv'
  <2>1. Goto(c, "reading", "reply") /\ Outdate /\ ~locked /\ ~locked'
    BY <1>7 DEF ReceiveRegister, Register
  <2>2. pc'[c] = "reply"
    BY <1>0, <2>1 DEF Goto
  <2>3. writerToKey'[c] \in Keys
    BY <1>7, OnlineKeyType, SessionAssumption DEF ReceiveRegister, Register
  <2>4. WillAnnounce(c)'
    BY <2>2, <2>3 DEF WillAnnounce
  <2> QED BY <1>6, <2>1, <2>4
<1>8. ASSUME NEW c \in Conns, UnregisterUser(c) PROVE FollowInv'
  <2>1. /\ Goto(c, "unregister", "announce") /\ ~locked /\ UNCHANGED <<locked, remaining, current>>
        /\ Remove(FirstOf(leaving[c])) /\ leaving' = [leaving EXCEPT ![c] = None]
        /\ IF FirstOf(leaving[c]) = {} THEN UNCHANGED <<fresh, queue>> ELSE Outdate
    BY <1>8 DEF UnregisterUser, Unregister, KeepDirectory
  <2>2. pc'[c] = "announce"
    BY <1>0, <2>1 DEF Goto
  <2>3. WillAnnounce(c)'
    BY <2>2 DEF WillAnnounce
  <2>4. CASE FirstOf(leaving[c]) = {}
    <3>1. \A x \in Conns : writerToKey'[x] = writerToKey[x]
      BY <2>1, <2>4 DEF Remove
    <3>2. \A x \in Conns \ {c} : leaving'[x] = leaving[x]
      BY <1>0, <2>1
    <3> QED BY <2>1, <2>3, <2>4, <3>1, <3>2, HandlerFollowed
  <2>5. CASE FirstOf(leaving[c]) # {}
    BY <1>6, <2>1, <2>3, <2>5
  <2> QED BY <2>4, <2>5
<1>9. ASSUME NEW c \in Conns, UnregisterUnknown(c) PROVE FollowInv'
  <2>1. /\ leaving[c] = None /\ ~locked /\ UNCHANGED <<leaving, locked, remaining, current>>
        /\ pc[c] = "unregister" /\ writerToKey' = [writerToKey EXCEPT ![c] = None]
    BY <1>9 DEF UnregisterUnknown, UnregisterByWriter, Goto
  <2>2. writerToKey[c] = None
    BY <2>1 DEF HInv, UnknownIsUnlisted
  <2>3. UserOf(c) = None
    BY <2>2 DEF UserOf
  <2>4. Goto(c, "unregister", "closed") /\ UNCHANGED <<fresh, queue>>
    BY <1>9, <2>3 DEF UnregisterUnknown, KeepDirectory
  <2>5. \A x \in Conns : writerToKey'[x] = writerToKey[x]
    BY <2>1, <2>2 DEF HInv, IInv, CMTypeOK
  <2>6. ~WillAnnounce(c)
    BY <2>1 DEF WillAnnounce
  <2> QED BY <2>1, <2>4, <2>5, <2>6, HandlerFollowed
<1>10. CASE Sweep
  <2>1. Goto(Cleaner, "sleep", "announce") /\ Outdate /\ ~locked /\ ~locked'
    BY <1>10 DEF Sweep, CleanupStale
  <2>2. pc'[Cleaner] = "announce"
    BY <1>0, <2>1 DEF Goto
  <2>3. WillAnnounce(Cleaner)'
    BY <2>2 DEF WillAnnounce
  <2> QED BY <1>6, <2>1, <2>3
<1>11. ASSUME NEW t \in Tasks, Broadcasting(t) PROVE FollowInv'
  BY <1>11, SnapshotFollowed, StartFollowed, SendFollowed, EndFollowed DEF Broadcasting
<1> QED BY <1>2, <1>3, <1>4, <1>5, <1>7, <1>8, <1>9, <1>10, <1>11 DEF Next, Receive, Handler

\* Every change of the directory reaches every client: when no task has
\* anything left to do, each listed client that is still there has been sent
\* the directory as it is, for any number of clients that come, stall, leave
\* and register over each other.
THEOREM ChangesReachEveryone == Spec => []DirectoryConverges
<1>1. HInv /\ FollowInv => DirectoryConverges
  <2> SUFFICES ASSUME HInv, FollowInv, \A t \in Tasks : pc[t] \in {"none", "reading", "closed", "sleep"},
                      NEW c \in Watched, Listed(c)
               PROVE  c \in fresh
    BY DEF DirectoryConverges, Quiet
  <2>1. c \in Conns
    BY SessionAssumption
  <2>2. writerToKey[c] # None
    BY <2>1, NoneIsNoKey DEF Listed, HInv, IInv, IndexAgrees, Registered
  <2>3. ~Announced
    BY TasksDiffer DEF Announced, WillAnnounce
  <2>4. ~CurrentQueued
    BY QueueEntries DEF CurrentQueued, FollowInv, QueueOrder
  <2>5. ~locked
    BY DEF FollowInv, QueueOrder
  <2> QED BY <2>2, <2>3, <2>4, <2>5 DEF FollowInv, Reached
<1> QED BY <1>1, HInvInit, HInvStep, FollowStart, FollowStep, PTL DEF Spec

-----------------------------------------------------------------------------
(* With one entry per user the end of a handler takes its own connection out  *)
(* of the directory: the user it looked up is that of the entry its           *)
(* connection is listed with, if it still is, and unregister finds no other.  *)

EndSteps == {"lookup", "unregister", "announce", "queued", "sending", "closed"}

\* A handler past its loop is on its way to the end, and from its unregister on
\* its connection is not listed.
EndedUnlisted ==
    /\ \A c \in ending : pc[c] \in EndSteps
    /\ \A c \in Conns : pc[c] \in {"lookup", "unregister", "closed"} => c \in ending
    /\ \A c \in ending : pc[c] \notin {"lookup", "unregister"} => writerToKey[c] = None

\* get_user_id answered for the connection's own entry.
LookedUpOwn ==
    \A c \in Conns : pc[c] = "unregister" /\ leaving[c] # None /\ writerToKey[c] # None =>
        writerToKey[c][1] = leaving[c]

GhostInv == EndedUnlisted /\ LookedUpOwn

\* Only REGISTER gives a connection a key.
LEMMA KeyOnlyByRegister ==
    ASSUME HInv, [Next]_vars, NEW c \in Conns
    PROVE  writerToKey'[c] \in {writerToKey[c], None} \/ (pc[c] = "reading" /\ pc'[c] = "reply")
<1> USE TasksDiffer, NoneIsNoKey DEF HInv, IInv, CMTypeOK, SessionTypes
<1>1. ASSUME NEW x \in Conns, NEW u \in Users, NEW d \in SentIds, ReceiveRegister(x, u, d)
      PROVE  writerToKey'[c] \in {writerToKey[c], None} \/ (pc[c] = "reading" /\ pc'[c] = "reply")
  <2>1. CASE x = c
    BY <1>1, <2>1 DEF ReceiveRegister, Goto
  <2>2. CASE x # c
    BY <1>1, <2>2 DEF ReceiveRegister, Register
  <2> QED BY <2>1, <2>2
<1>2. ASSUME NEW x \in Conns, UnregisterUser(x)
      PROVE  writerToKey'[c] \in {writerToKey[c], None}
  BY <1>2 DEF UnregisterUser, Unregister, Remove
<1>3. ASSUME NEW x \in Conns, UnregisterUnknown(x)
      PROVE  writerToKey'[c] \in {writerToKey[c], None}
  BY <1>3 DEF UnregisterUnknown, UnregisterByWriter
<1>4. ASSUME Sweep
      PROVE  writerToKey'[c] \in {writerToKey[c], None}
  BY <1>4 DEF Sweep, CleanupStale, Remove
<1>5. ASSUME NEW x \in Conns,
             \/ Connect(x) \/ Stall(x) \/ Resume(x) \/ Leave(x) \/ Silence(x)
             \/ UpsertFails(x) \/ ReceiveOnlineUsers(x) \/ ReceiveHeartbeat(x)
             \/ WriteReply(x) \/ ReplyDrained(x) \/ ReplyLost(x) \/ EndOfStream(x) \/ Lookup(x)
      PROVE  UNCHANGED writerToKey
  BY <1>5 DEF Connect, Stall, Resume, Leave, PeerMoves, Silence, Age, UpsertFails,
              ReceiveOnlineUsers, ReceiveHeartbeat, UpdateHeartbeat, UpdateHeartbeatByWriter,
              WriteReply, ReplyDrained, ReplyLost, EndOfStream, Lookup, cmVars
<1>6. ASSUME NEW t \in Tasks, Broadcasting(t)
      PROVE  UNCHANGED writerToKey
  BY <1>6 DEF Broadcasting, TakeSnapshot, StartBroadcast, BroadcastStart, Send, BroadcastWrite,
              EndBroadcast, BroadcastEnd, cmVars
<1>7. CASE UNCHANGED vars
  BY <1>7 DEF vars, cmVars
<1> QED BY <1>1, <1>2, <1>3, <1>4, <1>5, <1>6, <1>7 DEF Next, Receive, Handler

\* A step that moves no task of the end on, and ends no handler.
LEMMA EndingKept ==
    ASSUME HInv, GhostInv, [Next]_vars, UNCHANGED ending,
           \A c \in Conns : pc'[c] \in {"lookup", "unregister", "closed"} \/ c \in ending =>
               pc'[c] = pc[c] /\ leaving'[c] = leaving[c]
    PROVE  GhostInv'
<1>1. ASSUME NEW c \in Conns, pc[c] # "reading" PROVE writerToKey'[c] \in {writerToKey[c], None}
  BY <1>1, KeyOnlyByRegister
<1>2. \A c \in ending : c \in Conns /\ pc[c] # "reading"
  BY DEF GhostInv, EndedUnlisted, EndSteps, HInv, SessionTypes
<1>3. EndedUnlisted'
  BY <1>1, <1>2 DEF GhostInv, EndedUnlisted
<1>4. LookedUpOwn'
  BY <1>1 DEF GhostInv, LookedUpOwn
<1> QED BY <1>3, <1>4 DEF GhostInv

\* The handler of c goes on to its next step; the others stay where they are.
LEMMA EndingMoves ==
    ASSUME HInv, GhostInv, [Next]_vars, NEW c \in Conns, NEW to \in PC,
           pc' = [pc EXCEPT ![c] = to], pc[c] # "reading" \/ to # "reply",
           ending' \in {ending, ending \cup {c}},
           \A x \in Conns \ {c} : leaving'[x] = leaving[x],
           c \in ending' => to \in EndSteps,
           to \in {"lookup", "unregister", "closed"} => c \in ending',
           c \in ending' /\ to \notin {"lookup", "unregister"} => writerToKey'[c] = None,
           to = "unregister" /\ leaving'[c] # None /\ writerToKey'[c] # None =>
               writerToKey'[c][1] = leaving'[c]
    PROVE  GhostInv'
<1>1. pc \in [Tasks -> PC] /\ c \in Tasks /\ Conns \subseteq Tasks /\ ending \subseteq Conns
  BY TasksDiffer DEF HInv, SessionTypes
<1>2. pc'[c] = to /\ \A x \in Conns \ {c} : pc'[x] = pc[x]
  BY <1>1
<1>3. ASSUME NEW x \in Conns \ {c}, pc[x] # "reading" PROVE writerToKey'[x] \in {writerToKey[x], None}
  BY <1>3, KeyOnlyByRegister
<1>4. \A x \in ending : x \in Conns /\ pc[x] # "reading"
  BY <1>1 DEF GhostInv, EndedUnlisted, EndSteps
<1>5. EndedUnlisted'
  BY <1>1, <1>2, <1>3, <1>4 DEF GhostInv, EndedUnlisted
<1>6. LookedUpOwn'
  BY <1>2, <1>3 DEF GhostInv, LookedUpOwn
<1> QED BY <1>5, <1>6 DEF GhostInv

\* unregister by the user looked up takes the connection's entry when the user
\* has no other.
LEMMA OwnEntryGoes ==
    ASSUME HInv, GhostInv, OneEntryPerUser, NEW c \in Conns, UnregisterUser(c)
    PROVE  writerToKey'[c] = None
<1>1. pc[c] = "unregister" /\ leaving[c] # None /\ Unregister(leaving[c])
  BY DEF UnregisterUser, Goto
<1>2. CASE writerToKey[c] = None
  BY <1>1, <1>2 DEF Unregister, Remove
<1>3. CASE writerToKey[c] # None
  <2> DEFINE k == writerToKey[c]
  <2>1. /\ k \in Keys /\ connections[k] = c /\ c # None /\ k \in Registered
        /\ identity[c] = k /\ k[1] = leaving[c]
    BY <1>1, <1>3, NoneIsNoKey
    DEF HInv, IInv, CMTypeOK, IndexAgrees, Registered, GhostInv, LookedUpOwn
  <2>2. ASSUME NEW j \in Registered, identity[connections[j]][1] = leaving[c] PROVE j = k
    <3>1. identity[connections[j]] = j /\ j[1] = leaving[c]
      BY <2>2 DEF HInv, IInv, IndexAgrees, Registered
    <3> QED BY <2>1, <3>1 DEF OneEntryPerUser
  <2>3. k \in FirstOf(leaving[c])
    BY <2>1, <2>2 DEF FirstOf
  <2> QED BY <1>1, <2>1, <2>3 DEF Unregister, Remove
<1> QED BY <1>2, <1>3

LEMMA GhostStart == Init => GhostInv
BY TasksDiffer DEF Init, GhostInv, EndedUnlisted, LookedUpOwn

LEMMA GhostStep == HInv /\ GhostInv /\ OneEntryPerUser /\ [Next]_vars => GhostInv'
<1> SUFFICES ASSUME HInv, GhostInv, OneEntryPerUser, [Next]_vars PROVE GhostInv'
  OBVIOUS
<1>0. /\ pc \in [Tasks -> PC] /\ leaving \in [Conns -> Users \cup {None}] /\ ending \subseteq Conns
      /\ Conns \subseteq Tasks /\ Cleaner \in Tasks /\ Cleaner \notin Conns
  BY TasksDiffer DEF HInv, SessionTypes
<1>1. ASSUME NEW c \in Conns, Stall(c) \/ Resume(c) \/ Leave(c) \/ Silence(c)
                              \/ ReceiveOnlineUsers(c) \/ ReceiveHeartbeat(c)
      PROVE  GhostInv'
  <2>1. UNCHANGED <<pc, ending, leaving>>
    BY <1>1 DEF Stall, Resume, Leave, PeerMoves, Silence, ReceiveOnlineUsers, ReceiveHeartbeat
  <2> QED BY <2>1, EndingKept
<1>2. ASSUME NEW c \in Conns, NEW from, NEW to \in PC \ EndSteps, Goto(c, from, to),
             from \notin EndSteps, UNCHANGED <<ending, leaving>>
      PROVE  GhostInv'
  <2>1. c \notin ending /\ to \notin {"lookup", "unregister", "closed"}
    BY <1>2 DEF GhostInv, EndedUnlisted, Goto, EndSteps
  <2>2. \A x \in Conns : pc'[x] = IF x = c THEN to ELSE pc[x]
    BY <1>0, <1>2 DEF Goto
  <2> QED BY <1>2, <2>1, <2>2, EndingKept
<1>3. ASSUME NEW c \in Conns, Connect(c) PROVE GhostInv'
  <2>1. Goto(c, "none", "reading") /\ UNCHANGED <<ending, leaving>>
    BY <1>3 DEF Connect
  <2> QED BY <1>2, <2>1 DEF PC, EndSteps
<1>4. ASSUME NEW c \in Conns, NEW u \in Users, NEW d \in SentIds, ReceiveRegister(c, u, d)
      PROVE  GhostInv'
  <2>1. Goto(c, "reading", "reply") /\ UNCHANGED <<ending, leaving>>
    BY <1>4 DEF ReceiveRegister
  <2> QED BY <1>2, <2>1 DEF PC, EndSteps
<1>5. ASSUME NEW c \in Conns, WriteReply(c) PROVE GhostInv'
  <2>1. Goto(c, "reply", "replied") /\ UNCHANGED <<ending, leaving>>
    BY <1>5 DEF WriteReply
  <2> QED BY <1>2, <2>1 DEF PC, EndSteps
<1>6. ASSUME NEW c \in Conns, UpsertFails(c) \/ ReplyLost(c) \/ EndOfStream(c) PROVE GhostInv'
  <2>1. /\ pc' = [pc EXCEPT ![c] = "lookup"] /\ ending' = ending \cup {c} /\ UNCHANGED leaving
    BY <1>6 DEF UpsertFails, ReplyLost, EndOfStream, Goto
  <2>2. "lookup" \in PC /\ "lookup" \in EndSteps
    BY DEF PC, EndSteps
  <2> QED BY <2>1, <2>2, EndingMoves
<1>7. ASSUME NEW c \in Conns, ReplyDrained(c) PROVE GhostInv'
  <2>1. /\ pc[c] = "replied" /\ pc' = [pc EXCEPT ![c] = "announce"] /\ UNCHANGED <<ending, leaving>>
    BY <1>7 DEF ReplyDrained, Goto
  <2>2. c \notin ending /\ "announce" \in PC
    BY <2>1 DEF GhostInv, EndedUnlisted, EndSteps, PC
  <2> QED BY <2>1, <2>2, EndingMoves
<1>8. ASSUME NEW c \in Conns, Lookup(c) PROVE GhostInv'
  <2>1. /\ pc[c] = "lookup" /\ pc' = [pc EXCEPT ![c] = "unregister"] /\ UNCHANGED ending
        /\ leaving' = [leaving EXCEPT ![c] = UserOf(c)] /\ UNCHANGED cmVars
    BY <1>8 DEF Lookup, Goto
  <2>2. c \in ending /\ "unregister" \in PC /\ "unregister" \in EndSteps
    BY <2>1 DEF GhostInv, EndedUnlisted, EndSteps, PC
  <2>3. leaving'[c] = UserOf(c) /\ \A x \in Conns \ {c} : leaving'[x] = leaving[x]
    BY <1>0, <2>1
  <2>4. ASSUME writerToKey[c] # None PROVE writerToKey[c][1] = UserOf(c)
    <3>1. writerToKey[c] \in Keys /\ connections[writerToKey[c]] = c /\ c # None
      BY <2>4, NoneIsNoKey DEF HInv, IInv, CMTypeOK, IndexAgrees
    <3>2. identity[c] = writerToKey[c]
      BY <3>1 DEF HInv, IInv, IndexAgrees
    <3> QED BY <2>4, <3>1, <3>2 DEF UserOf
  <2>5. writerToKey'[c] = writerToKey[c]
    BY <2>1 DEF cmVars
  <2> QED BY <2>1, <2>2, <2>3, <2>4, <2>5, EndingMoves
<1>9. ASSUME NEW c \in Conns, UnregisterUser(c) PROVE GhostInv'
  <2>1. /\ pc[c] = "unregister" /\ pc' = [pc EXCEPT ![c] = "announce"] /\ UNCHANGED ending
        /\ leaving' = [leaving EXCEPT ![c] = None]
    BY <1>9 DEF UnregisterUser, Goto
  <2>2. c \in ending /\ "announce" \in PC /\ "announce" \in EndSteps
    BY <2>1 DEF GhostInv, EndedUnlisted, EndSteps, PC
  <2>3. writerToKey'[c] = None
    BY <1>9, OwnEntryGoes
  <2>4. \A x \in Conns \ {c} : leaving'[x] = leaving[x]
    BY <1>0, <2>1
  <2> QED BY <2>1, <2>2, <2>3, <2>4, EndingMoves
<1>10. ASSUME NEW c \in Conns, UnregisterUnknown(c) PROVE GhostInv'
  <2>1. /\ pc[c] = "unregister" /\ leaving[c] = None /\ UNCHANGED <<ending, leaving>>
        /\ writerToKey' = [writerToKey EXCEPT ![c] = None]
        /\ \E to \in {"closed", "announce"} : pc' = [pc EXCEPT ![c] = to]
    BY <1>10 DEF UnregisterUnknown, UnregisterByWriter, Goto
  <2>2. c \in ending /\ writerToKey'[c] = None
    BY <2>1 DEF GhostInv, EndedUnlisted, HInv, IInv, CMTypeOK
  <2>3. {"closed", "announce"} \subseteq PC \cap EndSteps
    BY DEF EndSteps, PC
  <2> QED BY <2>1, <2>2, <2>3, EndingMoves
<1>11. ASSUME NEW t \in Tasks, NEW from, NEW to \in PC, Goto(t, from, to),
              UNCHANGED <<ending, leaving, writerToKey>>, from \in {"announce", "queued", "sending"},
              t \in ending => to \in EndSteps \ {"lookup", "unregister"},
              t \in Conns \ ending => to \notin {"lookup", "unregister", "closed"}
       PROVE  GhostInv'
  <2>1. CASE t \in Conns
    <3>1. pc[t] = from /\ pc' = [pc EXCEPT ![t] = to]
      BY <1>11 DEF Goto
    <3>2. t \in ending => writerToKey[t] = None
      BY <1>11, <3>1 DEF GhostInv, EndedUnlisted
    <3>3. to \notin {"lookup", "unregister"} /\ (to = "closed" => t \in ending)
      BY <1>11, <2>1
    <3> QED BY <1>11, <2>1, <3>1, <3>2, <3>3, EndingMoves
  <2>2. CASE t \notin Conns
    <3>1. \A x \in Conns : pc'[x] = pc[x]
      BY <1>0, <1>11, <2>2 DEF Goto
    <3> QED BY <1>11, <3>1, EndingKept
  <2> QED BY <2>1, <2>2
<1>12. CASE Sweep
  <2>1. \A x \in Conns : pc'[x] = pc[x]
    BY <1>0, <1>12 DEF Sweep, Goto
  <2>2. UNCHANGED <<ending, leaving>>
    BY <1>12 DEF Sweep
  <2> QED BY <2>1, <2>2, EndingKept
<1>13. ASSUME NEW t \in Tasks, Broadcasting(t) PROVE GhostInv'
  <2>1. CASE TakeSnapshot(t)
    BY <1>11, <2>1 DEF TakeSnapshot, cmVars, PC, EndSteps
  <2>2. CASE StartBroadcast(t)
    BY <1>11, <2>2 DEF StartBroadcast, BroadcastStart, PC, EndSteps
  <2>3. CASE EndBroadcast(t)
    <3>1. UNCHANGED <<ending, leaving, writerToKey>>
      BY <2>3 DEF EndBroadcast, BroadcastEnd
    <3>2. CASE t \notin ending /\ Goto(t, "sending", IF t = Cleaner THEN "sleep" ELSE "reading")
      <4>1. (IF t = Cleaner THEN "sleep" ELSE "reading") \in PC \ {"lookup", "unregister", "closed"}
        BY DEF PC
      <4> QED BY <1>11, <3>1, <3>2, <4>1
    <3>3. CASE t \in ending /\ Goto(t, "sending", "closed")
      BY <1>11, <3>1, <3>3 DEF PC, EndSteps
    <3> QED BY <2>3, <3>2, <3>3 DEF EndBroadcast
  <2>4. CASE \E k \in Keys : Send(t, k)
    <3>1. UNCHANGED <<pc, ending, leaving>>
      BY <2>4 DEF Send
    <3> QED BY <3>1, EndingKept
  <2> QED BY <1>13, <2>1, <2>2, <2>3, <2>4 DEF Broadcasting
<1>14. CASE UNCHANGED vars
  <2>1. UNCHANGED <<pc, ending, leaving>>
    BY <1>14 DEF vars
  <2> QED BY <2>1, EndingKept
<1> QED BY <1>1, <1>3, <1>4, <1>5, <1>6, <1>7, <1>8, <1>9, <1>10, <1>12, <1>13, <1>14
        DEF Next, Receive, Handler

\* The end of a handler leaves no ghost behind as long as no user has two entries
\* at once, whatever overtakes it between get_user_id and unregister: what the
\* Hub is known to leave listed is due to unregister going by the user id alone.
THEOREM NoGhostOfOneEntry == Spec => GhostsNeedTwoEntries
<1>1. HInv /\ GhostInv => NoGhostOnline
  <2> SUFFICES ASSUME HInv, GhostInv, NEW k \in Registered, pc[connections[k]] = "closed"
               PROVE  FALSE
    BY DEF NoGhostOnline
  <2>1. connections[k] \in Conns /\ writerToKey[connections[k]] = k /\ k \in Keys
    BY DEF Registered, HInv, IInv, CMTypeOK, IndexAgrees
  <2>2. writerToKey[connections[k]] = None
    BY <2>1 DEF GhostInv, EndedUnlisted
  <2> QED BY <2>1, <2>2, NoneIsNoKey
<1>2. Spec /\ []OneEntryPerUser => []NoGhostOnline
  BY <1>1, HInvInit, HInvStep, GhostStart, GhostStep, PTL DEF Spec
<1> QED BY <1>2, PTL DEF GhostsNeedTwoEntries
=============================================================================
