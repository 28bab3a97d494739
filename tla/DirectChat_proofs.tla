---------------------------- MODULE DirectChat_proofs ----------------------------
(* Proofs about the conversations of one client, for any number of peers,     *)
(* devices, conversations, messages and crashes: a conversation in memory is  *)
(* stored, sequences are never used twice, what counts as sent went out to    *)
(* every device, sending is that of a DeviceOutbox, and groups keep their     *)
(* messages if the contacts have conversations of their own.  An operation of *)
(* the UI thread carries what it read (a stored conversation, an id to purge, *)
(* envelopes) from step to step while the network thread goes on; the         *)
(* invariants say that it stays valid.                                        *)
EXTENDS DirectChat, SequenceTheorems, TLAPS

Counts == (0 .. MaxUnread) \cup {None}
SealedEnvelopes == Outgoing \X Peers \X Devices \X Nat

\* Where an operation goes on once its conversation is there.
Continuations ==
    [at : {"select"}, conv : Convs] \cup [at : {"sync"}, p : Peers, promoted : 0 .. 1]
    \cup [at : {"seal"}, n : Outgoing, p : Peers]
Attaching == [at : {"attach"}, p : Peers, stored : Counts, next : Continuations]
Purging == [at : {"purge"}, old : Convs, next : Continuations]
Delivering == [at : {"deliver"}, n : Outgoing, p : Peers, envelopes : SUBSET SealedEnvelopes]

ChatTypes ==
    /\ mem \in [Convs -> Counts] /\ db \in [Convs -> Counts]
    /\ rows \subseteq Convs \X (Incoming \cup Outgoing \cup {OldRow})
    /\ current \in Convs \cup {None}
    /\ net \in {Idle} \cup [at : {"conversation"}, m : Incoming]
    /\ ui \in {Idle, [at |-> "start"]} \cup Continuations \cup Attaching \cup Purging \cup Delivering
    /\ events \in Seq(Incoming)
    /\ sequence \in [Peers \X Devices -> Nat]
    /\ outbox \subseteq SealedEnvelopes
    /\ sent \in [Outgoing -> {"no", "failed", "sent"}]
    /\ sealed \in [Outgoing -> SUBSET Devices]

\* What the UI thread found in the store is still there, and the id it is about
\* to delete cannot come back to memory: no contact has it as its own.
CarriedStaysValid ==
    /\ ui.at = "attach" => (ui.stored # None => db[Direct[ui.p]] # None)
    /\ ui.at = "purge" => mem[ui.old] = None /\ \A p \in Peers : ui.old # Direct[p]

\* Every envelope made, gone or not.
Made == outbox \cup (IF ui.at = "deliver" THEN ui.envelopes ELSE {})

\* The session's counter is at or above every sequence used.
CounterAhead == \A e \in Made : e[4] <= sequence[<<e[2], e[3]>>]

MadeUnique == \A e, f \in Made : e[2] = f[2] /\ e[3] = f[3] /\ e[4] = f[4] => e = f

\* A message that will be sealed was neither sent nor given up.
Unsent(then) == then.at = "seal" => sent[then.n] = "no"
ToSealUnsent == /\ Unsent(ui)
                /\ ui.at \in {"attach", "purge"} => Unsent(ui.next)

\* The message being delivered has an envelope for each device.
AllAddressed ==
    ui.at = "deliver" =>
        /\ sent[ui.n] = "no" /\ ui.envelopes # {} /\ sealed[ui.n] # {}
        /\ \A d \in sealed[ui.n] : \E e \in ui.envelopes : e[1] = ui.n /\ e[3] = d

StoredInv == ChatTypes /\ ShownIsStored /\ CarriedStaysValid
SendingInv == ChatTypes /\ CounterAhead /\ MadeUnique /\ ToSealUnsent /\ AllAddressed /\ SentToAll

-----------------------------------------------------------------------------
(* What the steps are made of. *)

LEMMA AddIsCount == ASSUME NEW a, NEW b PROVE Add(a, b) \in Counts \ {None}
  BY DirectChatAssumption DEF DirectChatAssumption, Add, Counts

LEMMA DirectIsConv == ASSUME NEW p \in Peers PROVE Direct[p] \in Convs /\ Members[Direct[p]] = {p}
  BY DirectChatAssumption DEF DirectChatAssumption

\* The value of `at` tells which kind of record the UI thread is at.
LEMMA UiShape ==
    ASSUME ChatTypes
    PROVE  /\ ui.at = "attach" => ui \in Attaching
           /\ ui.at = "purge" => ui \in Purging
           /\ ui.at = "deliver" => ui \in Delivering
           /\ ui.at \in {"select", "sync", "seal"} => ui \in Continuations
           /\ ui.at = "select" => ui.conv \in Convs
           /\ ui.at = "sync" => ui.p \in Peers
           /\ ui.at = "seal" => ui.n \in Outgoing /\ ui.p \in Peers
  BY DEF ChatTypes, Idle, Attaching, Purging, Delivering, Continuations

LEMMA ContinuationShape ==
    ASSUME NEW then \in Continuations
    PROVE  /\ then.at \in {"select", "sync", "seal"}
           /\ then.at = "seal" => then.n \in Outgoing /\ then.p \in Peers
  BY DEF Continuations

\* An operation goes on at once or reads the store for the conversation first.
LEMMA Ensured ==
    ASSUME ChatTypes, NEW p \in Peers, NEW then \in Continuations, Ensure(p, then)
    PROVE  /\ ui' \in Continuations \cup Attaching
           /\ \/ ui' = then
              \/ /\ ui' \in Attaching /\ ui'.next = then
                 /\ ui'.p = p /\ ui'.stored = db[Direct[p]]
<1>1. db[Direct[p]] \in Counts
  BY DirectIsConv DEF ChatTypes
<1>2. CASE ui' = [at |-> "attach", p |-> p, stored |-> db[Direct[p]], next |-> then]
  BY <1>1, <1>2 DEF Attaching
<1> QED BY <1>2 DEF Ensure, Stored

\* A conversation kept is in memory and in the store, the others are as before.
LEMMA Kept ==
    ASSUME ChatTypes, NEW c \in Convs, NEW unread \in Counts \ {None}, Keep(c, unread)
    PROVE  /\ mem' \in [Convs -> Counts] /\ db' \in [Convs -> Counts]
           /\ mem'[c] # None /\ db'[c] # None
           /\ \A e \in Convs \ {c} : mem'[e] = mem[e] /\ db'[e] = db[e]
  BY DEF ChatTypes, Keep

\* What the start leaves in memory is what the store has of it.
LEMMA Loaded ==
    ASSUME ChatTypes, LoadConversations
    PROVE  /\ mem' \in [Convs -> Counts] /\ db' \in [Convs -> Counts]
           /\ \A c \in Convs : mem'[c] # None => db'[c] # None
           /\ rows' \subseteq rows
<1>1. CASE mem' = MadeUp /\ db' = MadeUp /\ UNCHANGED rows
  <2>1. MadeUp \in [Convs -> Counts]
    BY AddIsCount DEF MadeUp, Counts
  <2> QED BY <1>1, <2>1
<1>2. ASSUME NEW loaded \in Recent, NEW kept \in SUBSET loaded, Dedup(loaded, kept)
      PROVE  /\ mem' \in [Convs -> Counts] /\ db' \in [Convs -> Counts]
             /\ \A c \in Convs : mem'[c] # None => db'[c] # None
             /\ rows' \subseteq rows
  <2> DEFINE same(c) == {e \in loaded \ Groups : Members[e] = Members[c]}
             total(c) == MapThenSumSet(LAMBDA e : db[e], same(c))
  <2>1. mem' = [c \in Convs |-> IF c \notin kept THEN None
                                ELSE IF c \in Groups THEN db[c] ELSE Add(total(c), 0)]
    BY <1>2 DEF Dedup
  <2> HIDE DEF total, same
  <2>2. \A c \in Convs : Add(total(c), 0) \in Counts
    BY AddIsCount
  <2>3. mem' \in [Convs -> Counts]
    BY <2>1, <2>2 DEF ChatTypes, Counts
  <2>4. /\ db' = [c \in Convs |-> IF c \in loaded \ kept THEN None
                                  ELSE IF c \in kept THEN mem'[c] ELSE db[c]]
        /\ rows' = {r \in rows : r[1] \notin loaded \ kept}
    BY <1>2 DEF Dedup
  <2>5. db' \in [Convs -> Counts]
    BY <2>3, <2>4 DEF ChatTypes, Counts
  <2>6. ASSUME NEW c \in Convs, mem'[c] # None PROVE db'[c] # None
    BY <2>1, <2>4, <2>6
  <2> QED BY <2>3, <2>4, <2>5, <2>6
<1> QED BY <1>1, <1>2 DEF LoadConversations

-----------------------------------------------------------------------------
(* Types. *)

LEMMA StartTypes == Init => ChatTypes
<1> SUFFICES ASSUME Init PROVE ChatTypes
  OBVIOUS
<1>1. mem \in [Convs -> Counts] /\ db \in [Convs -> Counts]
  BY DirectChatAssumption DEF Init, Counts, DirectChatAssumption
<1>2. rows \subseteq Convs \X (Incoming \cup Outgoing \cup {OldRow})
  BY DEF Init
<1>3. events \in Seq(Incoming)
  BY DEF Init
<1>4. /\ sequence \in [Peers \X Devices -> Nat] /\ outbox \subseteq SealedEnvelopes
      /\ sent \in [Outgoing -> {"no", "failed", "sent"}] /\ sealed \in [Outgoing -> SUBSET Devices]
  BY DEF Init
<1>5. current = None /\ net = Idle /\ ui = [at |-> "start"]
  BY DEF Init
<1> QED BY <1>1, <1>2, <1>3, <1>4, <1>5 DEF ChatTypes

\* The envelopes of a message are new ones of the session.
LEMMA NewEnvelopes ==
    ASSUME ChatTypes, NEW n \in Outgoing, NEW p \in Peers, NEW to \in SUBSET Devices,
           sequence' = NextSequence(p, to)
    PROVE  /\ sequence' \in [Peers \X Devices -> Nat]
           /\ \A s \in Peers \X Devices : sequence[s] <= sequence'[s]
           /\ \A d \in to : sequence'[<<p, d>>] = sequence[<<p, d>>] + 1
           /\ Envelopes(n, p, to) \subseteq SealedEnvelopes
<1>1. /\ sequence \in [Peers \X Devices -> Nat]
      /\ sequence' = [s \in Peers \X Devices |->
                        sequence[s] + IF s[1] = p /\ s[2] \in to THEN 1 ELSE 0]
  BY DEF ChatTypes, NextSequence
<1>2. sequence' \in [Peers \X Devices -> Nat]
  BY <1>1
<1>3. \A s \in Peers \X Devices : sequence[s] <= sequence'[s]
  BY <1>1
<1>4. ASSUME NEW d \in to PROVE sequence'[<<p, d>>] = sequence[<<p, d>>] + 1
  BY <1>1
<1>5. ASSUME NEW d \in to PROVE <<n, p, d, sequence'[<<p, d>>]>> \in SealedEnvelopes
  BY <1>2 DEF SealedEnvelopes
<1> QED BY <1>2, <1>3, <1>4, <1>5 DEF Envelopes

\* Seal: the devices are a set of Devices, and the thread goes on to deliver
\* for them or is done.
LEMMA Sealing ==
    ASSUME ChatTypes, Seal
    PROVE  /\ ui.n \in Outgoing /\ ui.p \in Peers
           /\ \E to \in SUBSET Devices :
                 /\ sealed' = [sealed EXCEPT ![ui.n] = to]
                 /\ sequence' = NextSequence(ui.p, to)
                 /\ \/ to = {} /\ ui' = Idle /\ sent' = [sent EXCEPT ![ui.n] = "failed"]
                    \/ /\ to # {} /\ UNCHANGED sent
                       /\ ui' = [at |-> "deliver", n |-> ui.n, p |-> ui.p,
                                 envelopes |-> Envelopes(ui.n, ui.p, to)]
<1>1. ui.n \in Outgoing /\ ui.p \in Peers
  BY UiShape DEF Seal
<1>2. PICK devices \in DeviceLists :
        LET to == IF ui.n \in Files /\ devices # <<>> THEN {Head(devices)} ELSE ToSet(devices) IN
        /\ sealed' = [sealed EXCEPT ![ui.n] = to]
        /\ sequence' = NextSequence(ui.p, to)
        /\ IF to = {} THEN ui' = Idle /\ sent' = [sent EXCEPT ![ui.n] = "failed"]
           ELSE /\ ui' = [at |-> "deliver", n |-> ui.n, p |-> ui.p,
                          envelopes |-> Envelopes(ui.n, ui.p, to)]
                /\ UNCHANGED sent
  BY DEF Seal
<1> DEFINE to == IF ui.n \in Files /\ devices # <<>> THEN {Head(devices)} ELSE ToSet(devices)
<1>3. devices \in Seq(Devices)
  BY DirectChatAssumption DEF DirectChatAssumption
<1>4. ToSet(devices) \subseteq Devices
  BY <1>3 DEF ToSet
<1>5. to \in SUBSET Devices
  BY <1>3, <1>4
<1> QED BY <1>1, <1>2, <1>5

LEMMA UiTypes ==
    ASSUME ChatTypes,
           UNCHANGED <<rows, current, net, events, sending>>
    PROVE  (/\ mem' \in [Convs -> Counts] /\ db' \in [Convs -> Counts]
            /\ ui' \in {Idle, [at |-> "start"]} \cup Continuations \cup Attaching
                       \cup Purging \cup Delivering) => ChatTypes'
  BY DEF ChatTypes, sending

LEMMA AttachTypes == ASSUME ChatTypes, Attach PROVE ChatTypes'
<1> DEFINE c == Direct[ui.p]
<1>1. /\ ui.at = "attach" /\ ui.p \in Peers /\ ui.stored \in Counts /\ ui.next \in Continuations
      /\ c \in Convs
  BY UiShape, DirectIsConv DEF Attach, Attaching
<1>2. mem \in [Convs -> Counts] /\ db \in [Convs -> Counts]
  BY DEF ChatTypes
<1>3. CASE /\ mem' = [mem EXCEPT ![c] = ui.stored] /\ ui' = ui.next /\ UNCHANGED db
  BY <1>1, <1>2, <1>3, UiTypes DEF Attach
<1>4. ASSUME NEW e \in Present(mem),
             mem' = [mem EXCEPT ![e] = IF e = c THEN @ ELSE None, ![c] = mem[e]],
             db' = [db EXCEPT ![c] = mem[e]],
             ui' = IF e = c THEN ui.next ELSE [at |-> "purge", old |-> e, next |-> ui.next]
      PROVE  ChatTypes'
  <2>1. e \in Convs /\ mem[e] \in Counts
    BY <1>2 DEF Present
  <2>2. mem' \in [Convs -> Counts]
    BY <1>1, <1>2, <1>4, <2>1 DEF Counts
  <2>3. db' \in [Convs -> Counts]
    BY <1>1, <1>2, <1>4, <2>1
  <2>4. [at |-> "purge", old |-> e, next |-> ui.next] \in Purging
    BY <1>1, <2>1 DEF Purging
  <2> QED BY <1>1, <1>4, <2>2, <2>3, <2>4, UiTypes DEF Attach
<1>5. CASE Keep(c, 0) /\ ui' = ui.next
  <2>1. 0 \in Counts \ {None}
    BY DirectChatAssumption DEF DirectChatAssumption, Counts
  <2> HIDE DEF c
  <2> QED BY <1>1, <1>5, <2>1, Kept, UiTypes DEF Attach
<1> QED BY <1>3, <1>4, <1>5 DEF Attach

LEMMA TypesStep == ASSUME ChatTypes, [Next]_vars PROVE ChatTypes'
<1>0. CASE UNCHANGED vars
  BY <1>0 DEF vars, ChatTypes
<1>1. CASE Start
  <2>1. rows' \subseteq Convs \X (Incoming \cup Outgoing \cup {OldRow})
    BY <1>1, Loaded DEF Start, ChatTypes
  <2>2. mem' \in [Convs -> Counts] /\ db' \in [Convs -> Counts]
    BY <1>1, Loaded DEF Start
  <2> QED BY <1>1, <2>1, <2>2 DEF Start, ChatTypes, sending
<1>2. CASE Attach
  BY <1>2, AttachTypes
<1>3. CASE Purge
  <2>1. ui.old \in Convs /\ ui.next \in Continuations
    BY <1>3, UiShape DEF Purge, Purging
  <2>2. db' \in [Convs -> Counts]
    BY <1>3, <2>1 DEF Purge, ChatTypes, Counts
  <2>3. rows' \subseteq rows
    BY <1>3 DEF Purge
  <2> QED BY <1>3, <2>1, <2>2, <2>3 DEF Purge, ChatTypes, sending
<1>4. CASE Select
  <2>1. ui.conv \in Convs
    BY <1>4, UiShape DEF Select
  <2>2. 0 \in Counts
    BY DirectChatAssumption DEF DirectChatAssumption, Counts
  <2>3. mem' \in [Convs -> Counts] /\ db' \in [Convs -> Counts] /\ current' \in Convs \cup {None}
    BY <1>4, <2>1, <2>2 DEF Select, ChatTypes
  <2> QED BY <1>4, <2>3 DEF Select, ChatTypes, sending
<1>5. CASE AcceptSync
  <2> DEFINE c == Direct[ui.p]
             unread == IF current = c THEN 0
                       ELSE Add(IF mem[c] = None THEN 0 ELSE mem[c], ui.promoted)
  <2>1. c \in Convs
    BY <1>5, UiShape, DirectIsConv DEF AcceptSync
  <2>2. unread \in Counts \ {None}
    BY AddIsCount, DirectChatAssumption DEF DirectChatAssumption, Counts
  <2>3. Keep(c, unread)
    BY <1>5 DEF AcceptSync
  <2> HIDE DEF c, unread
  <2>4. mem' \in [Convs -> Counts] /\ db' \in [Convs -> Counts]
    BY <2>1, <2>2, <2>3, Kept
  <2> QED BY <1>5, <2>4, UiTypes DEF AcceptSync
<1>6. CASE Seal
  <2>1. PICK to \in SUBSET Devices :
          /\ sealed' = [sealed EXCEPT ![ui.n] = to]
          /\ sequence' = NextSequence(ui.p, to)
          /\ \/ ui' = Idle /\ sent' = [sent EXCEPT ![ui.n] = "failed"]
             \/ /\ UNCHANGED sent
                /\ ui' = [at |-> "deliver", n |-> ui.n, p |-> ui.p,
                          envelopes |-> Envelopes(ui.n, ui.p, to)]
    BY <1>6, Sealing
  <2>2. ui.n \in Outgoing /\ ui.p \in Peers
    BY <1>6, Sealing
  <2>3. sequence' \in [Peers \X Devices -> Nat] /\ Envelopes(ui.n, ui.p, to) \subseteq SealedEnvelopes
    BY <2>1, <2>2, NewEnvelopes
  <2>4. ui' \in {Idle} \cup Delivering
    BY <2>1, <2>2, <2>3 DEF Delivering
  <2>5. sent' \in [Outgoing -> {"no", "failed", "sent"}] /\ sealed' \in [Outgoing -> SUBSET Devices]
    BY <2>1, <2>2 DEF ChatTypes
  <2>6. db' \in [Convs -> Counts]
    BY <1>6, <2>2, DirectIsConv DEF Seal, ChatTypes
  <2> QED BY <1>6, <2>3, <2>4, <2>5, <2>6 DEF Seal, ChatTypes
<1>7. CASE Deliver
  <2>1. PICK ok \in SUBSET ui.envelopes :
          /\ outbox' = outbox \cup ok
          /\ \/ /\ sent' = [sent EXCEPT ![ui.n] = "sent"]
                /\ rows' = rows \cup {<<Direct[ui.p], ui.n>>}
             \/ sent' = [sent EXCEPT ![ui.n] = "failed"] /\ UNCHANGED rows
    BY <1>7 DEF Deliver
  <2>2. ui.n \in Outgoing /\ ui.p \in Peers /\ ui.envelopes \subseteq SealedEnvelopes
    BY <1>7, UiShape DEF Deliver, Delivering
  <2>3. outbox' \subseteq SealedEnvelopes
    BY <2>1, <2>2 DEF ChatTypes
  <2>4. sent' \in [Outgoing -> {"no", "failed", "sent"}]
    BY <2>1, <2>2 DEF ChatTypes
  <2>5. rows' \subseteq Convs \X (Incoming \cup Outgoing \cup {OldRow})
    BY <2>1, <2>2, DirectIsConv DEF ChatTypes
  <2> QED BY <1>7, <2>3, <2>4, <2>5 DEF Deliver, ChatTypes
<1>8. CASE ShowReceived
  <2>1. Head(events) \in Incoming /\ events' \in Seq(Incoming)
    BY <1>8 DEF ShowReceived, ChatTypes
  <2> DEFINE p == From[Head(events)]
             then == [at |-> "select", conv |-> Direct[p]]
  <2>2. p \in Peers
    BY <2>1, DirectChatAssumption DEF DirectChatAssumption
  <2>3. then \in Continuations
    BY <2>2, DirectIsConv DEF Continuations
  <2>4. UNCHANGED ui \/ Ensure(p, then)
    BY <1>8 DEF ShowReceived
  <2> HIDE DEF p, then
  <2>5. UNCHANGED ui \/ ui' \in Continuations \cup Attaching
    BY <2>2, <2>3, <2>4, Ensured
  <2> QED BY <1>8, <2>1, <2>5 DEF ShowReceived, ChatTypes, sending
<1>9. CASE ReceiveConversation
  <2> DEFINE c == Direct[From[net.m]]
  <2>1. net.m \in Incoming /\ c \in Convs
    BY <1>9, DirectIsConv, DirectChatAssumption DEF DirectChatAssumption, ReceiveConversation, ChatTypes, Idle
  <2>2. PICK unread \in Counts \ {None} : Keep(c, unread)
    BY <1>9, AddIsCount DEF ReceiveConversation
  <2>3. mem' \in [Convs -> Counts] /\ db' \in [Convs -> Counts]
    BY <2>1, <2>2, Kept
  <2>4. events' \in Seq(Incoming)
    BY <1>9, <2>1 DEF ReceiveConversation, ChatTypes
  <2> QED BY <1>9, <2>3, <2>4 DEF ReceiveConversation, ChatTypes, sending
<1>10. CASE Crash
  <2>1. /\ mem' \in [Convs -> Counts] /\ events' \in Seq(Incoming)
        /\ sent' \in [Outgoing -> {"no", "failed", "sent"}]
    BY <1>10 DEF Crash, ChatTypes, Counts
  <2> QED BY <1>10, <2>1 DEF Crash, ChatTypes
<1>11. ASSUME NEW m \in Incoming, ReceiveRow(m) PROVE ChatTypes'
  <2>1. Direct[From[m]] \in Convs
    BY DirectIsConv, DirectChatAssumption DEF DirectChatAssumption
  <2> QED BY <1>11, <2>1 DEF ReceiveRow, ChatTypes, sending
<1>12. ASSUME NEW p \in Peers, OpenChat(p) PROVE ChatTypes'
  <2>1. [at |-> "select", conv |-> Direct[p]] \in Continuations
    BY DirectIsConv DEF Continuations
  <2>2. ui' \in Continuations \cup Attaching
    BY <1>12, <2>1, Ensured DEF OpenChat
  <2> QED BY <1>12, <2>2, UiTypes DEF OpenChat, ChatTypes
<1>13. ASSUME NEW p \in Peers, Accept(p) PROVE ChatTypes'
  <2>1. PICK promoted \in 0 .. 1 : Ensure(p, [at |-> "sync", p |-> p, promoted |-> promoted])
    BY <1>13 DEF Accept
  <2>2. [at |-> "sync", p |-> p, promoted |-> promoted] \in Continuations
    BY DEF Continuations
  <2>3. ui' \in Continuations \cup Attaching
    BY <2>1, <2>2, Ensured
  <2> QED BY <1>13, <2>3, UiTypes DEF Accept, ChatTypes
<1>14. ASSUME NEW p \in Peers, NEW n \in Outgoing, Send(n, p) PROVE ChatTypes'
  <2>1. [at |-> "seal", n |-> n, p |-> p] \in Continuations
    BY DEF Continuations
  <2>2. UNCHANGED ui \/ ui' \in Continuations \cup Attaching
    BY <1>14, <2>1, Ensured DEF Send
  <2>3. sent' \in [Outgoing -> {"no", "failed", "sent"}]
    BY <1>14 DEF Send, ChatTypes
  <2> QED BY <1>14, <2>2, <2>3 DEF Send, ChatTypes
<1> QED
  BY <1>0, <1>1, <1>2, <1>3, <1>4, <1>5, <1>6, <1>7, <1>8, <1>9, <1>10, <1>11, <1>12, <1>13, <1>14
  DEF Next, UiStep

-----------------------------------------------------------------------------
(* What is in memory is stored. *)

\* Only the UI thread deletes; a step that leaves both tables alone and carries
\* nothing new keeps the invariant.
LEMMA StoredUnchanged ==
    ASSUME StoredInv, ChatTypes', UNCHANGED <<mem, db>>,
           ui' = ui \/ ui' \in {Idle, [at |-> "start"]} \cup Continuations \cup Delivering
    PROVE  StoredInv'
<1>1. CASE ui' = ui
  BY <1>1 DEF StoredInv, ShownIsStored, CarriedStaysValid
<1>2. CASE ui' \in {Idle, [at |-> "start"]} \cup Continuations \cup Delivering
  <2>1. ui'.at \notin {"attach", "purge"}
    BY <1>2 DEF Idle, Continuations, Delivering
  <2> QED BY <2>1 DEF StoredInv, ShownIsStored, CarriedStaysValid
<1> QED BY <1>1, <1>2

\* An operation that begins carries what the store has.
LEMMA EnsureStored ==
    ASSUME StoredInv, ChatTypes', UNCHANGED <<mem, db>>,
           NEW p \in Peers, NEW then \in Continuations, Ensure(p, then)
    PROVE  StoredInv'
<1>1. CASE ui' = then
  BY <1>1, StoredUnchanged
<1>2. CASE ui' \in Attaching /\ ui'.p = p /\ ui'.stored = db[Direct[p]]
  <2>1. ui'.at = "attach"
    BY <1>2 DEF Attaching
  <2> QED BY <1>2, <2>1 DEF StoredInv, ShownIsStored, CarriedStaysValid
<1> QED BY <1>1, <1>2, Ensured DEF StoredInv

LEMMA AttachStored == ASSUME StoredInv, ChatTypes', Attach PROVE StoredInv'
<1> DEFINE c == Direct[ui.p]
<1>1. /\ ui.at = "attach" /\ ui.p \in Peers /\ ui.stored \in Counts /\ ui.next \in Continuations
      /\ c \in Convs /\ Members[c] = {ui.p}
  BY UiShape, DirectIsConv DEF Attach, Attaching, StoredInv
<1>2. mem \in [Convs -> Counts] /\ db \in [Convs -> Counts]
  BY DEF ChatTypes, StoredInv
<1>3. ui.next.at \notin {"attach", "purge"}
  BY <1>1, ContinuationShape
<1>4. CASE ui.stored # None /\ mem' = [mem EXCEPT ![c] = ui.stored] /\ ui' = ui.next /\ UNCHANGED db
  <2>1. db[c] # None
    BY <1>1, <1>4 DEF StoredInv, CarriedStaysValid
  <2> QED BY <1>1, <1>2, <1>3, <1>4, <2>1 DEF StoredInv, ShownIsStored, CarriedStaysValid
<1>5. ASSUME NEW e \in Present(mem), ui.p \in Members[e],
             mem' = [mem EXCEPT ![e] = IF e = c THEN @ ELSE None, ![c] = mem[e]],
             db' = [db EXCEPT ![c] = mem[e]],
             ui' = IF e = c THEN ui.next ELSE [at |-> "purge", old |-> e, next |-> ui.next]
      PROVE  StoredInv'
  <2>1. e \in Convs /\ mem[e] # None
    BY DEF Present
  <2>2. mem'[c] = mem[e] /\ db'[c] = mem[e]
    BY <1>1, <1>2, <1>5, <2>1
  <2>3. \A f \in Convs \ {c} : (mem'[f] = mem[f] \/ mem'[f] = None) /\ db'[f] = db[f]
    BY <1>1, <1>2, <1>5, <2>1
  <2>4. ShownIsStored'
    BY <2>1, <2>2, <2>3 DEF StoredInv, ShownIsStored
  <2>5. CASE e = c
    BY <1>3, <1>5, <2>4, <2>5 DEF StoredInv, CarriedStaysValid
  <2>6. CASE e # c
    <3>1. ui' = [at |-> "purge", old |-> e, next |-> ui.next]
      BY <1>5, <2>6
    <3>2. mem'[e] = None
      BY <1>1, <1>2, <1>5, <2>1, <2>6
    <3>3. ASSUME NEW p \in Peers PROVE e # Direct[p]
      <4>1. SUFFICES ASSUME e = Direct[p] PROVE FALSE
        OBVIOUS
      <4>2. ui.p = p
        BY <1>5, <4>1, DirectIsConv
      <4> QED BY <2>6, <4>1, <4>2
    <3> QED BY <2>4, <3>1, <3>2, <3>3 DEF StoredInv, CarriedStaysValid
  <2> QED BY <2>5, <2>6
<1>6. CASE Keep(c, 0) /\ ui' = ui.next
  <2>1. 0 \in Counts \ {None}
    BY DirectChatAssumption DEF DirectChatAssumption, Counts
  <2> HIDE DEF c
  <2>2. /\ mem'[c] # None /\ db'[c] # None
        /\ \A e \in Convs \ {c} : mem'[e] = mem[e] /\ db'[e] = db[e]
    BY <1>1, <1>6, <2>1, Kept DEF StoredInv
  <2> QED BY <1>3, <1>6, <2>2 DEF StoredInv, ShownIsStored, CarriedStaysValid
<1> QED BY <1>4, <1>5, <1>6 DEF Attach

\* The network thread keeps a contact's conversation; no id being purged is one.
LEMMA ReceiveStored == ASSUME StoredInv, ChatTypes', ReceiveConversation PROVE StoredInv'
<1> DEFINE q == From[net.m]
           c == Direct[q]
<1>1. net.m \in Incoming /\ q \in Peers
  BY DirectChatAssumption DEF DirectChatAssumption, ReceiveConversation, StoredInv, ChatTypes, Idle
<1>2. c \in Convs
  BY <1>1, DirectIsConv
<1>3. PICK unread \in Counts \ {None} : Keep(c, unread)
  BY AddIsCount DEF ReceiveConversation
<1>4. UNCHANGED ui
  BY DEF ReceiveConversation
<1>5. /\ mem'[c] # None /\ db'[c] # None
      /\ \A e \in Convs \ {c} : mem'[e] = mem[e] /\ db'[e] = db[e]
  BY <1>2, <1>3, Kept DEF StoredInv
<1>6. ShownIsStored'
  BY <1>5 DEF StoredInv, ShownIsStored
<1>7. ASSUME ui.at = "attach", ui.stored # None PROVE db'[Direct[ui.p]] # None
  <2>1. Direct[ui.p] \in Convs
    BY <1>7, UiShape, DirectIsConv DEF StoredInv, Attaching
  <2> QED BY <1>5, <1>7, <2>1 DEF StoredInv, CarriedStaysValid
<1>8. ASSUME ui.at = "purge" PROVE mem'[ui.old] = None /\ \A p \in Peers : ui.old # Direct[p]
  <2>1. ui.old \in Convs /\ ui.old # c
    BY <1>1, <1>8, UiShape DEF StoredInv, CarriedStaysValid, Purging
  <2> QED BY <1>5, <1>8, <2>1 DEF StoredInv, CarriedStaysValid
<1> QED BY <1>4, <1>6, <1>7, <1>8 DEF StoredInv, CarriedStaysValid

LEMMA StoredStart == Init => StoredInv
<1> SUFFICES ASSUME Init PROVE StoredInv
  OBVIOUS
<1>1. ui.at = "start" /\ \A c \in Convs : mem[c] = None
  BY DEF Init
<1> QED BY <1>1, StartTypes DEF StoredInv, ShownIsStored, CarriedStaysValid

LEMMA StoredStep == ASSUME StoredInv, [Next]_vars PROVE StoredInv'
<1>0. ChatTypes /\ ChatTypes'
  BY TypesStep DEF StoredInv
<1>01. mem \in [Convs -> Counts] /\ db \in [Convs -> Counts]
  BY <1>0 DEF ChatTypes
<1>02. CASE UNCHANGED vars
  BY <1>0, <1>02, StoredUnchanged DEF vars
<1>1. CASE Start
  BY <1>0, <1>1, Loaded DEF Start, Idle, StoredInv, ShownIsStored, CarriedStaysValid
<1>2. CASE Attach
  BY <1>0, <1>2, AttachStored
<1>3. CASE Purge
  <2>1. ui.old \in Convs /\ ui.next.at \notin {"attach", "purge"}
    BY <1>0, <1>3, UiShape, ContinuationShape DEF Purge, Purging
  <2>2. mem[ui.old] = None
    BY <1>3 DEF Purge, StoredInv, CarriedStaysValid
  <2>3. \A c \in Convs \ {ui.old} : db'[c] = db[c]
    BY <1>01, <1>3 DEF Purge
  <2> QED BY <1>0, <1>3, <2>1, <2>2, <2>3 DEF Purge, StoredInv, ShownIsStored, CarriedStaysValid
<1>4. CASE Select
  <2>1. ui.conv \in Convs
    BY <1>0, <1>4, UiShape DEF Select
  <2>2. ui'.at = "idle"
    BY <1>4 DEF Select, Idle
  <2>3. CASE UNCHANGED <<mem, db>>
    BY <1>0, <1>4, <2>3, StoredUnchanged DEF Select
  <2>4. CASE /\ mem[ui.conv] # None /\ mem' = [mem EXCEPT ![ui.conv] = 0]
             /\ db' \in {db, [db EXCEPT ![ui.conv] = 0]}
    <3>1. 0 # None
      BY DirectChatAssumption DEF DirectChatAssumption
    <3>2. \A c \in Convs : (mem'[c] # None => mem[c] # None) /\ (db[c] # None => db'[c] # None)
      BY <1>01, <2>1, <2>4, <3>1
    <3> QED BY <1>0, <2>2, <3>2 DEF StoredInv, ShownIsStored, CarriedStaysValid
  <2> QED BY <1>4, <2>3, <2>4 DEF Select
<1>5. CASE AcceptSync
  <2> DEFINE c == Direct[ui.p]
  <2>1. c \in Convs
    BY <1>0, <1>5, UiShape, DirectIsConv DEF AcceptSync
  <2>2. PICK unread \in Counts \ {None} : Keep(c, unread)
    BY <1>5, AddIsCount, DirectChatAssumption DEF AcceptSync, DirectChatAssumption, Counts
  <2> HIDE DEF c
  <2>3. /\ mem'[c] # None /\ db'[c] # None
        /\ \A e \in Convs \ {c} : mem'[e] = mem[e] /\ db'[e] = db[e]
    BY <1>0, <2>1, <2>2, Kept
  <2>4. ui'.at = "idle"
    BY <1>5 DEF AcceptSync, Idle
  <2> QED BY <1>0, <2>3, <2>4 DEF StoredInv, ShownIsStored, CarriedStaysValid
<1>6. CASE Seal
  <2>1. ui.p \in Peers /\ ui'.at \in {"idle", "deliver"}
    BY <1>0, <1>6, Sealing DEF Idle
  <2>2. UNCHANGED mem /\ (db' = db \/ (/\ mem[Direct[ui.p]] # None
                                       /\ db' = [db EXCEPT ![Direct[ui.p]] = mem[Direct[ui.p]]]))
    BY <1>6 DEF Seal
  <2>3. \A c \in Convs : db[c] # None => db'[c] # None
    BY <1>01, <2>1, <2>2, DirectIsConv
  <2> QED BY <1>0, <2>1, <2>2, <2>3 DEF StoredInv, ShownIsStored, CarriedStaysValid
<1>7. CASE Deliver
  BY <1>0, <1>7, StoredUnchanged DEF Deliver
<1>8. CASE ShowReceived
  <2> DEFINE p == From[Head(events)]
             then == [at |-> "select", conv |-> Direct[p]]
  <2>1. p \in Peers
    BY <1>0, <1>8, DirectChatAssumption DEF DirectChatAssumption, ShowReceived, ChatTypes
  <2>2. then \in Continuations
    BY <2>1, DirectIsConv DEF Continuations
  <2>3. UNCHANGED ui \/ Ensure(p, then)
    BY <1>8 DEF ShowReceived
  <2>4. UNCHANGED <<mem, db>>
    BY <1>8 DEF ShowReceived
  <2> HIDE DEF p, then
  <2> QED BY <1>0, <2>1, <2>2, <2>3, <2>4, StoredUnchanged, EnsureStored
<1>9. CASE ReceiveConversation
  BY <1>0, <1>9, ReceiveStored
<1>10. CASE Crash
  BY <1>0, <1>10 DEF Crash, StoredInv, ShownIsStored, CarriedStaysValid
<1>11. ASSUME NEW m \in Incoming, ReceiveRow(m) PROVE StoredInv'
  BY <1>0, <1>11, StoredUnchanged DEF ReceiveRow
<1>12. ASSUME NEW p \in Peers, OpenChat(p) PROVE StoredInv'
  <2>1. [at |-> "select", conv |-> Direct[p]] \in Continuations
    BY DirectIsConv DEF Continuations
  <2> QED BY <1>0, <1>12, <2>1, EnsureStored DEF OpenChat
<1>13. ASSUME NEW p \in Peers, Accept(p) PROVE StoredInv'
  <2>1. PICK promoted \in 0 .. 1 : Ensure(p, [at |-> "sync", p |-> p, promoted |-> promoted])
    BY <1>13 DEF Accept
  <2>2. [at |-> "sync", p |-> p, promoted |-> promoted] \in Continuations
    BY DEF Continuations
  <2> QED BY <1>0, <1>13, <2>1, <2>2, EnsureStored DEF Accept
<1>14. ASSUME NEW p \in Peers, NEW n \in Outgoing, Send(n, p) PROVE StoredInv'
  <2>1. [at |-> "seal", n |-> n, p |-> p] \in Continuations
    BY DEF Continuations
  <2>2. UNCHANGED ui \/ Ensure(p, [at |-> "seal", n |-> n, p |-> p])
    BY <1>14 DEF Send
  <2> QED BY <1>0, <1>14, <2>1, <2>2, StoredUnchanged, EnsureStored DEF Send
<1> QED
  BY <1>02, <1>1, <1>2, <1>3, <1>4, <1>5, <1>6, <1>7, <1>8, <1>9, <1>10, <1>11, <1>12, <1>13, <1>14
  DEF Next, UiStep

\* A conversation the user sees survives a restart, also while the UI thread
\* moves one to another id (_get_or_create_conversation_id, outside the lock)
\* and the network thread creates one (_on_message_received).
THEOREM ConversationsAreStored == Spec => []ShownIsStored
<1>1. StoredInv => ShownIsStored
  BY DEF StoredInv
<1>2. StoredInv /\ [Next]_vars => StoredInv'
  BY StoredStep
<1> QED BY <1>1, <1>2, StoredStart, PTL DEF Spec

-----------------------------------------------------------------------------
(* Sequences and delivery. *)

LEMMA SendingStart == Init => SendingInv
<1> SUFFICES ASSUME Init PROVE SendingInv
  OBVIOUS
<1>1. /\ ui.at = "start" /\ outbox = {} /\ Made = {}
      /\ \A n \in Outgoing : sent[n] = "no"
  BY DEF Init, Made
<1> QED BY <1>1, StartTypes
  DEF SendingInv, CounterAhead, MadeUnique, ToSealUnsent, Unsent, AllAddressed, SentToAll

\* The steps of the other operations leave what is sent alone, and the UI
\* thread neither begins nor ends a delivery.
LEMMA SendingUnchanged ==
    ASSUME SendingInv, ChatTypes', UNCHANGED sending,
           ui.at # "deliver" \/ ui' = ui, ui'.at # "deliver" \/ ui' = ui,
           ui' = ui \/ ToSealUnsent'
    PROVE  SendingInv'
<1>1. Made' = Made
  BY DEF Made, sending
<1>2. UNCHANGED <<sequence, outbox, sent, sealed>>
  BY DEF sending
<1>3. CounterAhead' /\ MadeUnique'
  BY <1>1, <1>2 DEF SendingInv, CounterAhead, MadeUnique
<1>4. ToSealUnsent'
  BY <1>2 DEF SendingInv, ToSealUnsent, Unsent
<1>5. AllAddressed' /\ SentToAll'
  BY <1>2 DEF SendingInv, AllAddressed, SentToAll
<1> QED BY <1>3, <1>4, <1>5 DEF SendingInv

\* An operation begins or ends without a message to send.
LEMMA EnsureSending ==
    ASSUME SendingInv, ChatTypes', UNCHANGED sending, ui = Idle,
           NEW p \in Peers, NEW then \in Continuations, then.at # "seal", Ensure(p, then)
    PROVE  SendingInv'
<1>1. CASE ui' = then
  <2>1. then.at \in {"select", "sync"}
    BY ContinuationShape
  <2>2. ToSealUnsent'
    BY <1>1, <2>1 DEF ToSealUnsent, Unsent
  <2> QED BY <1>1, <2>1, <2>2, SendingUnchanged DEF Idle
<1>2. CASE ui' \in Attaching /\ ui'.next = then
  <2>1. ui'.at = "attach"
    BY <1>2 DEF Attaching
  <2>2. ToSealUnsent'
    BY <1>2, <2>1 DEF ToSealUnsent, Unsent
  <2> QED BY <2>1, <2>2, SendingUnchanged DEF Idle
<1> QED BY <1>1, <1>2, Ensured DEF SendingInv

\* A conversation found, the operation goes on with the message it had.
LEMMA GoesOn ==
    ASSUME SendingInv, ChatTypes', UNCHANGED sending, ui.at \in {"attach", "purge"},
           ui' = ui.next \/ (ui'.at = "purge" /\ ui'.next = ui.next)
    PROVE  SendingInv'
<1>1. ui.next \in Continuations
  BY UiShape DEF SendingInv, Attaching, Purging
<1>2. (ui.next.at = "seal" => sent[ui.next.n] = "no") /\ UNCHANGED sent
  BY DEF SendingInv, ToSealUnsent, Unsent, sending
<1>3. CASE ui' = ui.next
  <2>1. ui'.at \in {"select", "sync", "seal"}
    BY <1>1, <1>3, ContinuationShape
  <2>2. ToSealUnsent'
    BY <1>2, <1>3, <2>1 DEF ToSealUnsent, Unsent, sending
  <2> QED BY <2>1, <2>2, SendingUnchanged
<1>4. CASE ui'.at = "purge" /\ ui'.next = ui.next
  <2>1. ToSealUnsent'
    BY <1>2, <1>4 DEF ToSealUnsent, Unsent, sending
  <2> QED BY <1>4, <2>1, SendingUnchanged
<1> QED BY <1>3, <1>4

LEMMA SendSending ==
    ASSUME SendingInv, ChatTypes', NEW n \in Outgoing, NEW p \in Peers, Send(n, p)
    PROVE  SendingInv'
<1> DEFINE then == [at |-> "seal", n |-> n, p |-> p]
<1>1. ui = Idle /\ ui.at = "idle" /\ sent[n] = "no"
  BY DEF Send, Idle
<1>2. UNCHANGED <<sequence, outbox, sealed>>
  BY DEF Send
<1>3. CASE sent' = [sent EXCEPT ![n] = "failed"] /\ UNCHANGED ui
  <2>1. \A k \in Outgoing : sent'[k] = "sent" => sent[k] = "sent"
    BY <1>3 DEF SendingInv, ChatTypes
  <2>2. SentToAll'
    BY <1>2, <2>1 DEF SendingInv, SentToAll
  <2>3. Made' = Made
    BY <1>2, <1>3 DEF Made
  <2>4. CounterAhead' /\ MadeUnique'
    BY <1>2, <2>3 DEF SendingInv, CounterAhead, MadeUnique
  <2>5. ToSealUnsent' /\ AllAddressed'
    BY <1>1, <1>3 DEF ToSealUnsent, Unsent, AllAddressed
  <2> QED BY <2>2, <2>4, <2>5 DEF SendingInv
<1>4. CASE Ensure(p, then) /\ UNCHANGED sent
  <2>1. then \in Continuations
    BY DEF Continuations
  <2>2. Unsent(then)' /\ Unsent(then)
    BY <1>1, <1>4 DEF Unsent
  <2>3. UNCHANGED sending
    BY <1>2, <1>4 DEF sending
  <2>4. CASE ui' = then
    <3>1. ToSealUnsent'
      BY <2>2, <2>4 DEF ToSealUnsent, Unsent
    <3> QED BY <1>1, <2>3, <2>4, <3>1, SendingUnchanged
  <2>5. CASE ui' \in Attaching /\ ui'.next = then
    <3>1. ui'.at = "attach"
      BY <2>5 DEF Attaching
    <3>2. ToSealUnsent'
      BY <2>2, <2>5, <3>1 DEF ToSealUnsent, Unsent
    <3> QED BY <1>1, <2>3, <3>1, <3>2, SendingUnchanged
  <2> HIDE DEF then
  <2> QED BY <1>4, <2>1, <2>4, <2>5, Ensured DEF SendingInv
<1> QED BY <1>3, <1>4 DEF Send

\* Every envelope of the message sealed carries the next sequence of its
\* session, above all those made before.
LEMMA SealSending == ASSUME SendingInv, ChatTypes', Seal PROVE SendingInv'
<1>1. ui.n \in Outgoing /\ ui.p \in Peers
  BY Sealing DEF SendingInv
<1>2. PICK to \in SUBSET Devices :
        /\ sealed' = [sealed EXCEPT ![ui.n] = to]
        /\ sequence' = NextSequence(ui.p, to)
        /\ \/ to = {} /\ ui' = Idle /\ sent' = [sent EXCEPT ![ui.n] = "failed"]
           \/ /\ to # {} /\ UNCHANGED sent
              /\ ui' = [at |-> "deliver", n |-> ui.n, p |-> ui.p,
                        envelopes |-> Envelopes(ui.n, ui.p, to)]
  BY Sealing DEF SendingInv
<1> DEFINE new == Envelopes(ui.n, ui.p, to)
<1>3. /\ \A s \in Peers \X Devices : sequence[s] <= sequence'[s]
      /\ \A d \in to : sequence'[<<ui.p, d>>] = sequence[<<ui.p, d>>] + 1
      /\ sequence \in [Peers \X Devices -> Nat] /\ sequence' \in [Peers \X Devices -> Nat]
  BY <1>1, <1>2, NewEnvelopes DEF SendingInv, ChatTypes
<1>4. Made = outbox /\ outbox' = outbox /\ outbox \subseteq SealedEnvelopes
  BY DEF Seal, Made, SendingInv, ChatTypes
<1>5. Made' \subseteq outbox \cup new
  BY <1>2, <1>4 DEF Made, Idle
<1>6. ASSUME NEW e \in new
      PROVE  \E d \in to : e = <<ui.n, ui.p, d, sequence'[<<ui.p, d>>]>>
  BY <1>6 DEF Envelopes
<1>7. ASSUME NEW e \in outbox
      PROVE  /\ e[2] \in Peers /\ e[3] \in Devices /\ e[4] \in Nat
             /\ e[4] <= sequence[<<e[2], e[3]>>] /\ e[4] <= sequence'[<<e[2], e[3]>>]
  <2>1. e[2] \in Peers /\ e[3] \in Devices /\ e[4] \in Nat
    BY <1>4 DEF SealedEnvelopes
  <2>2. e[4] <= sequence[<<e[2], e[3]>>]
    BY <1>4 DEF SendingInv, CounterAhead
  <2>3. <<e[2], e[3]>> \in Peers \X Devices
    BY <2>1
  <2>4. sequence[<<e[2], e[3]>>] \in Nat /\ sequence'[<<e[2], e[3]>>] \in Nat
        /\ sequence[<<e[2], e[3]>>] <= sequence'[<<e[2], e[3]>>]
    BY <1>3, <2>3
  <2> QED BY <2>1, <2>2, <2>4
<1>8. CounterAhead'
  <2>1. ASSUME NEW e \in new PROVE e[4] <= sequence'[<<e[2], e[3]>>]
    <3>1. PICK d \in to : e = <<ui.n, ui.p, d, sequence'[<<ui.p, d>>]>>
      BY <1>6
    <3>2. sequence'[<<ui.p, d>>] \in Nat
      BY <1>1, <1>3
    <3> QED BY <3>1, <3>2
  <2> QED BY <1>5, <1>7, <2>1 DEF CounterAhead
<1>9. ASSUME NEW e \in new, NEW f \in outbox, e[2] = f[2], e[3] = f[3] PROVE e[4] # f[4]
  <2>1. PICK d \in to : e = <<ui.n, ui.p, d, sequence'[<<ui.p, d>>]>>
    BY <1>6
  <2>2. f[2] = ui.p /\ f[3] = d /\ e[4] = sequence[<<ui.p, d>>] + 1
    BY <1>3, <1>9, <2>1
  <2>3. sequence[<<ui.p, d>>] \in Nat
    BY <1>1, <1>3
  <2>4. f[4] \in Nat /\ f[4] <= sequence[<<ui.p, d>>]
    BY <1>7, <2>2
  <2> QED BY <2>2, <2>3, <2>4
<1>10. ASSUME NEW e \in new, NEW f \in new, e[3] = f[3] PROVE e = f
  <2>1. PICK d \in to : e = <<ui.n, ui.p, d, sequence'[<<ui.p, d>>]>>
    BY <1>6
  <2>2. PICK h \in to : f = <<ui.n, ui.p, h, sequence'[<<ui.p, h>>]>>
    BY <1>6
  <2>3. d = h
    BY <1>10, <2>1, <2>2
  <2> QED BY <2>1, <2>2, <2>3
<1>11. \A e, f \in outbox : e[2] = f[2] /\ e[3] = f[3] /\ e[4] = f[4] => e = f
  BY <1>4 DEF SendingInv, MadeUnique
<1>12. MadeUnique'
  BY <1>5, <1>9, <1>10, <1>11 DEF MadeUnique
<1>13. sent[ui.n] = "no"
  BY DEF Seal, SendingInv, ToSealUnsent, Unsent
<1>14. \A k \in Outgoing : sent'[k] = "sent" => sent[k] = "sent" /\ k # ui.n
  BY <1>1, <1>2, <1>13 DEF SendingInv, ChatTypes
<1>15. \A k \in Outgoing \ {ui.n} : sealed'[k] = sealed[k]
  BY <1>1, <1>2 DEF SendingInv, ChatTypes
<1>16. SentToAll'
  BY <1>4, <1>14, <1>15 DEF SendingInv, SentToAll
<1>17. ToSealUnsent'
  BY <1>2 DEF ToSealUnsent, Unsent, Idle
<1>18. AllAddressed'
  <2>1. CASE ui' = Idle
    BY <2>1 DEF AllAddressed, Idle
  <2>2. CASE /\ to # {} /\ UNCHANGED sent
             /\ ui' = [at |-> "deliver", n |-> ui.n, p |-> ui.p, envelopes |-> new]
    <3>1. sealed'[ui.n] = to
      BY <1>1, <1>2 DEF SendingInv, ChatTypes
    <3>2. ASSUME NEW d \in to PROVE \E e \in new : e[1] = ui.n /\ e[3] = d
      <4>1. <<ui.n, ui.p, d, sequence'[<<ui.p, d>>]>> \in new
        BY DEF Envelopes
      <4> QED BY <4>1
    <3>3. ui'.n = ui.n /\ ui'.envelopes = new /\ sent'[ui.n] = "no"
      BY <1>13, <2>2
    <3> HIDE DEF new
    <3> QED BY <2>2, <3>1, <3>2, <3>3 DEF AllAddressed
  <2> QED BY <1>2, <2>1, <2>2
<1> QED BY <1>8, <1>12, <1>16, <1>17, <1>18 DEF SendingInv

LEMMA DeliverSending == ASSUME SendingInv, ChatTypes', Deliver PROVE SendingInv'
<1>1. ui.at = "deliver" /\ ui.n \in Outgoing /\ ui' = Idle
  BY UiShape DEF Deliver, Delivering, SendingInv
<1>2. PICK ok \in SUBSET ui.envelopes :
        /\ outbox' = outbox \cup ok
        /\ \/ ok = ui.envelopes /\ sent' = [sent EXCEPT ![ui.n] = "sent"]
           \/ sent' = [sent EXCEPT ![ui.n] = "failed"]
  BY DEF Deliver, Succeeds
<1>3. UNCHANGED <<sequence, sealed>>
  BY DEF Deliver
<1>4. Made' \subseteq Made
  BY <1>1, <1>2 DEF Made, Idle
<1>5. CounterAhead' /\ MadeUnique'
  BY <1>3, <1>4 DEF SendingInv, CounterAhead, MadeUnique
<1>6. ToSealUnsent' /\ AllAddressed'
  BY <1>1 DEF ToSealUnsent, Unsent, AllAddressed, Idle
<1>7. \A k \in Outgoing \ {ui.n} : sent'[k] = sent[k]
  BY <1>1, <1>2 DEF SendingInv, ChatTypes
<1>8. ASSUME sent'[ui.n] = "sent"
      PROVE  sealed[ui.n] # {} /\ \A d \in sealed[ui.n] : \E e \in outbox' : e[1] = ui.n /\ e[3] = d
  <2>1. ok = ui.envelopes
    BY <1>1, <1>2, <1>8 DEF SendingInv, ChatTypes
  <2> QED BY <1>1, <1>2, <2>1 DEF SendingInv, AllAddressed
<1>9. SentToAll'
  BY <1>2, <1>3, <1>7, <1>8 DEF SendingInv, SentToAll
<1> QED BY <1>5, <1>6, <1>9 DEF SendingInv

LEMMA SendingStep == ASSUME SendingInv, [Next]_vars PROVE SendingInv'
<1>0. ChatTypes /\ ChatTypes'
  BY TypesStep DEF SendingInv
<1>01. CASE UNCHANGED vars
  BY <1>0, <1>01, SendingUnchanged DEF vars, sending
<1>1. CASE Start \/ Select \/ AcceptSync
  <2>1. ui'.at = "idle" /\ ui.at \in {"start", "select", "sync"} /\ UNCHANGED sending
    BY <1>1 DEF Start, Select, AcceptSync, Idle
  <2>2. ToSealUnsent'
    BY <2>1 DEF ToSealUnsent, Unsent
  <2> QED BY <1>0, <2>1, <2>2, SendingUnchanged
<1>2. CASE Attach
  <2>1. ui' = ui.next \/ (ui'.at = "purge" /\ ui'.next = ui.next)
    BY <1>2 DEF Attach
  <2> QED BY <1>0, <1>2, <2>1, GoesOn DEF Attach
<1>3. CASE Purge
  BY <1>0, <1>3, GoesOn DEF Purge
<1>6. CASE Seal
  BY <1>0, <1>6, SealSending
<1>7. CASE Deliver
  BY <1>0, <1>7, DeliverSending
<1>8. CASE ShowReceived
  <2> DEFINE p == From[Head(events)]
             then == [at |-> "select", conv |-> Direct[p]]
  <2>1. p \in Peers
    BY <1>0, <1>8, DirectChatAssumption DEF DirectChatAssumption, ShowReceived, ChatTypes
  <2>2. then \in Continuations /\ then.at # "seal"
    BY <2>1, DirectIsConv DEF Continuations
  <2>3. UNCHANGED ui \/ Ensure(p, then)
    BY <1>8 DEF ShowReceived
  <2>4. UNCHANGED sending /\ ui = Idle
    BY <1>8 DEF ShowReceived
  <2> HIDE DEF p, then
  <2> QED BY <1>0, <2>1, <2>2, <2>3, <2>4, SendingUnchanged, EnsureSending
<1>9. CASE ReceiveConversation
  BY <1>0, <1>9, SendingUnchanged DEF ReceiveConversation
<1>10. CASE Crash
  <2>1. /\ ui'.at = "start" /\ UNCHANGED <<sequence, outbox, sealed>>
        /\ \A n \in Outgoing : sent'[n] = "sent" => sent[n] = "sent"
    BY <1>10 DEF Crash
  <2>2. Made' \subseteq Made
    BY <2>1 DEF Made
  <2>3. CounterAhead' /\ MadeUnique'
    BY <2>1, <2>2 DEF SendingInv, CounterAhead, MadeUnique
  <2>4. ToSealUnsent' /\ AllAddressed'
    BY <2>1 DEF ToSealUnsent, Unsent, AllAddressed
  <2>5. SentToAll'
    BY <2>1 DEF SendingInv, SentToAll
  <2> QED BY <1>0, <2>3, <2>4, <2>5 DEF SendingInv
<1>11. ASSUME NEW m \in Incoming, ReceiveRow(m) PROVE SendingInv'
  BY <1>0, <1>11, SendingUnchanged DEF ReceiveRow
<1>12. ASSUME NEW p \in Peers, OpenChat(p) PROVE SendingInv'
  <2>1. [at |-> "select", conv |-> Direct[p]] \in Continuations
    BY DirectIsConv DEF Continuations
  <2> QED BY <1>0, <1>12, <2>1, EnsureSending DEF OpenChat
<1>13. ASSUME NEW p \in Peers, Accept(p) PROVE SendingInv'
  <2>1. PICK promoted \in 0 .. 1 : Ensure(p, [at |-> "sync", p |-> p, promoted |-> promoted])
    BY <1>13 DEF Accept
  <2>2. [at |-> "sync", p |-> p, promoted |-> promoted] \in Continuations
    BY DEF Continuations
  <2> QED BY <1>0, <1>13, <2>1, <2>2, EnsureSending DEF Accept
<1>14. ASSUME NEW p \in Peers, NEW n \in Outgoing, Send(n, p) PROVE SendingInv'
  BY <1>0, <1>14, SendSending
<1> QED
  BY <1>01, <1>1, <1>2, <1>3, <1>6, <1>7, <1>8, <1>9, <1>10, <1>11, <1>12, <1>13, <1>14
  DEF Next, UiStep

\* No two envelopes for a device carry the same sequence, also when the process
\* died between next_crypto_send_sequence and the transport: the peer's replay
\* check never drops a text that was not sent before.
THEOREM SequencesNeverReused == Spec => []SequenceUnique
<1>1. SendingInv => SequenceUnique
  BY DEF SendingInv, MadeUnique, Made, SequenceUnique
<1>2. SendingInv /\ [Next]_vars => SendingInv'
  BY SendingStep
<1> QED BY <1>1, <1>2, SendingStart, PTL DEF Spec

\* What is shown as sent went out to every device it was sealed for
\* (_send_text_message counts the envelopes the transport took).
THEOREM SentReachesAll == Spec => []SentToAll
<1>1. SendingInv => SentToAll
  BY DEF SendingInv
<1>2. SendingInv /\ [Next]_vars => SendingInv'
  BY SendingStep
<1> QED BY <1>1, <1>2, SendingStart, PTL DEF Spec

\* The types, with the promise that a delivery under way is of a message not
\* yet sent and has an envelope to send.
THEOREM ChatTypeCorrect == Spec => []TypeOK
<1>1. SendingInv => TypeOK
  BY DEF SendingInv, ChatTypes, AllAddressed, TypeOK, Counts
<1>2. SendingInv /\ [Next]_vars => SendingInv'
  BY SendingStep
<1> QED BY <1>1, <1>2, SendingStart, PTL DEF Spec

-----------------------------------------------------------------------------
(* Sending as from a DeviceOutbox. *)

\* Only the message being delivered is sealed and not yet settled.
SealedIsSettled ==
    \A n \in Outgoing : sent[n] = "no" /\ sealed[n] # {} => ui.at = "deliver" /\ ui.n = n

\* The envelopes of the message being delivered are its own, one for a device,
\* and come after all that went there.
EnvelopesFit ==
    ui.at = "deliver" =>
        /\ ui.envelopes \subseteq {ui.n} \X {ui.p} \X sealed[ui.n] \X Nat
        /\ \A e, f \in ui.envelopes : e[3] = f[3] => e = f
        /\ \A e \in ui.envelopes, f \in outbox : f[2] = ui.p /\ f[3] = e[3] => f[4] < e[4]

OutboxInv == SendingInv /\ SealedIsSettled /\ EnvelopesFit

LEMMA OutboxUnchanged ==
    ASSUME OutboxInv, SendingInv', UNCHANGED <<outbox, sent, sealed>>,
           ui' = ui \/ (ui.at # "deliver" /\ ui'.at # "deliver")
    PROVE  OutboxInv' /\ UNCHANGED Promised!vars
<1>1. CASE ui' = ui
  BY <1>1 DEF OutboxInv, SealedIsSettled, EnvelopesFit, Promised!vars
<1>2. CASE ui.at # "deliver" /\ ui'.at # "deliver"
  BY <1>2 DEF OutboxInv, SealedIsSettled, EnvelopesFit, Promised!vars
<1> QED BY <1>1, <1>2

\* The texts of T are given up, none of which is sealed from now on.
LEMMA GivenUp ==
    ASSUME OutboxInv, SendingInv', NEW T \in SUBSET Outgoing, \A t \in T : sent[t] = "no",
           sent' = [n \in Outgoing |-> IF n \in T THEN "failed" ELSE sent[n]],
           UNCHANGED <<outbox, sealed>>, ui'.at # "deliver",
           \A n \in Outgoing : sent'[n] = "no" => sealed[n] = {}
    PROVE  OutboxInv' /\ Promised!Next
<1>1. Promised!GiveUp(T)
  BY DEF Promised!GiveUp
<1>2. SealedIsSettled' /\ EnvelopesFit'
  BY DEF SealedIsSettled, EnvelopesFit
<1> QED BY <1>1, <1>2 DEF OutboxInv, Promised!Next

LEMMA SealIsAim == ASSUME OutboxInv, SendingInv', Seal PROVE OutboxInv' /\ Promised!Next
<1>1. PICK n \in Outgoing, p \in Peers : ui.n = n /\ ui.p = p
  BY Sealing DEF OutboxInv, SendingInv
<1>2. PICK to \in SUBSET Devices :
        /\ sealed' = [sealed EXCEPT ![n] = to]
        /\ sequence' = NextSequence(p, to)
        /\ \/ to = {} /\ ui' = Idle /\ sent' = [sent EXCEPT ![n] = "failed"]
           \/ /\ to # {} /\ UNCHANGED sent
              /\ ui' = [at |-> "deliver", n |-> n, p |-> p, envelopes |-> Envelopes(n, p, to)]
  BY <1>1, Sealing DEF OutboxInv, SendingInv
<1>3. ui.at = "seal" /\ UNCHANGED outbox
  BY DEF Seal
<1>4. /\ sent \in [Outgoing -> {"no", "failed", "sent"}] /\ sealed \in [Outgoing -> SUBSET Devices]
      /\ sequence \in [Peers \X Devices -> Nat] /\ outbox \subseteq SealedEnvelopes
  BY DEF OutboxInv, SendingInv, ChatTypes
<1>5. sent[n] = "no"
  BY <1>1, <1>3 DEF OutboxInv, SendingInv, ToSealUnsent, Unsent
<1>6. \A k \in Outgoing : sent[k] = "no" => sealed[k] = {}
  BY <1>3 DEF OutboxInv, SealedIsSettled
<1>7. CASE to = {} /\ ui' = Idle /\ sent' = [sent EXCEPT ![n] = "failed"]
  <2>1. sealed' = sealed
    BY <1>2, <1>4, <1>5, <1>6, <1>7
  <2>2. sent' = [k \in Outgoing |-> IF k \in {n} THEN "failed" ELSE sent[k]]
    BY <1>4, <1>7
  <2>3. \A k \in Outgoing : sent'[k] = "no" => sealed[k] = {}
    BY <1>4, <1>6, <2>2
  <2> QED BY <1>3, <1>5, <1>7, <2>1, <2>2, <2>3, GivenUp DEF Idle
<1>8. CASE /\ to # {} /\ UNCHANGED sent
           /\ ui' = [at |-> "deliver", n |-> n, p |-> p, envelopes |-> Envelopes(n, p, to)]
  <2>1. Promised!Aim(n, to)
    BY <1>2, <1>3, <1>5, <1>6, <1>8 DEF Promised!Aim
  <2>2. SealedIsSettled'
    BY <1>2, <1>4, <1>6, <1>8 DEF SealedIsSettled
  <2>3. /\ \A d \in to : sequence'[<<p, d>>] = sequence[<<p, d>>] + 1
        /\ \A d \in to : sequence[<<p, d>>] \in Nat
    BY <1>2, <1>4, NewEnvelopes DEF OutboxInv, SendingInv
  <2>4. sealed'[n] = to /\ ui'.n = n /\ ui'.p = p /\ ui'.envelopes = Envelopes(n, p, to)
    BY <1>2, <1>4, <1>8
  <2>5. \A e \in Envelopes(n, p, to) : \E d \in to : e = <<n, p, d, sequence'[<<p, d>>]>>
    BY DEF Envelopes
  <2>6. Envelopes(n, p, to) \subseteq {n} \X {p} \X to \X Nat
    <3>1. SUFFICES ASSUME NEW e \in Envelopes(n, p, to) PROVE e \in {n} \X {p} \X to \X Nat
      OBVIOUS
    <3>2. PICK d \in to : e = <<n, p, d, sequence'[<<p, d>>]>>
      BY <2>5
    <3>3. sequence'[<<p, d>>] \in Nat
      BY <2>3
    <3> QED BY <3>2, <3>3
  <2>7. \A e, f \in Envelopes(n, p, to) : e[3] = f[3] => e = f
    <3>1. SUFFICES ASSUME NEW e \in Envelopes(n, p, to), NEW f \in Envelopes(n, p, to), e[3] = f[3]
                   PROVE  e = f
      OBVIOUS
    <3>2. PICK d \in to : e = <<n, p, d, sequence'[<<p, d>>]>>
      BY <2>5
    <3>3. PICK g \in to : f = <<n, p, g, sequence'[<<p, g>>]>>
      BY <2>5
    <3>4. d = g
      BY <3>1, <3>2, <3>3
    <3> QED BY <3>2, <3>3, <3>4
  <2>8. ASSUME NEW e \in Envelopes(n, p, to), NEW f \in outbox, f[2] = p, f[3] = e[3]
        PROVE  f[4] < e[4]
    <3>1. PICK d \in to : e = <<n, p, d, sequence'[<<p, d>>]>>
      BY <2>5
    <3>2. f[4] \in Nat
      BY <1>4 DEF SealedEnvelopes
    <3>3. f[4] <= sequence[<<p, d>>]
      <4>1. f \in Made
        BY DEF Made
      <4>2. f[4] <= sequence[<<f[2], f[3]>>]
        BY <4>1 DEF OutboxInv, SendingInv, CounterAhead
      <4>3. e[3] = d
        BY <3>1
      <4> QED BY <2>8, <4>2, <4>3
    <3>4. e[4] = sequence[<<p, d>>] + 1 /\ sequence[<<p, d>>] \in Nat
      BY <2>3, <3>1
    <3> QED BY <3>2, <3>3, <3>4
  <2>9. EnvelopesFit'
    BY <1>3, <2>4, <2>6, <2>7, <2>8 DEF EnvelopesFit
  <2> QED BY <2>1, <2>2, <2>9 DEF OutboxInv, Promised!Next
<1> QED BY <1>2, <1>7, <1>8

LEMMA DeliverIsSettle == ASSUME OutboxInv, SendingInv', Deliver PROVE OutboxInv' /\ Promised!Next
<1>1. /\ ui.at = "deliver" /\ ui' = Idle /\ UNCHANGED sealed
      /\ sent \in [Outgoing -> {"no", "failed", "sent"}]
  BY DEF Deliver, OutboxInv, SendingInv, ChatTypes
<1>2. PICK n \in Outgoing, p \in Peers : ui.n = n /\ ui.p = p
  BY <1>1, UiShape DEF OutboxInv, SendingInv, Delivering
<1>3. PICK ok \in SUBSET ui.envelopes, result \in {"sent", "failed"} :
        /\ outbox' = outbox \cup ok
        /\ sent' = [sent EXCEPT ![n] = result]
        /\ result = "sent" => ok = ui.envelopes
  BY <1>2 DEF Deliver, Succeeds
<1>4. /\ ui.envelopes \subseteq {n} \X {p} \X sealed[n] \X Nat
      /\ \A e, f \in ui.envelopes : e[3] = f[3] => e = f
      /\ \A e \in ui.envelopes, f \in outbox : f[2] = p /\ f[3] = e[3] => f[4] < e[4]
  BY <1>1, <1>2 DEF OutboxInv, EnvelopesFit
<1>5. /\ sent[n] = "no" /\ sealed[n] # {}
      /\ \A d \in sealed[n] : \E e \in ui.envelopes : e[1] = n /\ e[3] = d
  BY <1>1, <1>2 DEF OutboxInv, SendingInv, AllAddressed
<1>6. outbox' \ outbox = ok
  <2>1. ASSUME NEW e \in ok, e \in outbox PROVE FALSE
    <3>1. e \in ui.envelopes /\ e[2] = p /\ e[4] \in Nat
      BY <1>4
    <3>2. e[4] < e[4]
      BY <1>4, <2>1, <3>1
    <3> QED BY <3>1, <3>2
  <2> QED BY <1>3, <2>1
<1>7. Promised!Fits(ok, n, p)
  BY <1>4 DEF Promised!Fits
<1>8. result = "sent" => {e[3] : e \in ok} = sealed[n]
  <2>1. SUFFICES ASSUME ok = ui.envelopes PROVE {e[3] : e \in ok} = sealed[n]
    BY <1>3
  <2>2. \A e \in ok : e[3] \in sealed[n]
    BY <1>4
  <2>3. \A d \in sealed[n] : \E e \in ok : e[3] = d
    BY <1>5, <2>1
  <2> QED BY <2>2, <2>3
<1>9. Promised!Settle(n, p, result)
  BY <1>1, <1>3, <1>5, <1>6, <1>7, <1>8 DEF Promised!Settle
<1>10. SealedIsSettled'
  BY <1>1, <1>2, <1>3 DEF OutboxInv, SealedIsSettled
<1>11. EnvelopesFit'
  BY <1>1 DEF EnvelopesFit, Idle
<1> QED BY <1>9, <1>10, <1>11 DEF OutboxInv, Promised!Next

LEMMA SendIsGiveUp ==
    ASSUME OutboxInv, SendingInv', NEW n \in Outgoing, NEW p \in Peers, Send(n, p)
    PROVE  OutboxInv' /\ [Promised!Next]_(Promised!vars)
<1>1. ui.at = "idle" /\ sent[n] = "no" /\ UNCHANGED <<outbox, sealed>>
  BY DEF Send, Idle
<1>2. CASE sent' = [sent EXCEPT ![n] = "failed"] /\ UNCHANGED ui
  <2>1. sent' = [k \in Outgoing |-> IF k \in {n} THEN "failed" ELSE sent[k]]
    BY <1>2 DEF OutboxInv, SendingInv, ChatTypes
  <2>2. \A k \in Outgoing : sent'[k] = "no" => sealed[k] = {}
    BY <1>1, <2>1 DEF OutboxInv, SealedIsSettled
  <2> QED BY <1>1, <1>2, <2>1, <2>2, GivenUp
<1>3. CASE Ensure(p, [at |-> "seal", n |-> n, p |-> p]) /\ UNCHANGED sent
  <2>1. [at |-> "seal", n |-> n, p |-> p] \in Continuations
    BY DEF Continuations
  <2>2. ui' \in Continuations \cup Attaching
    BY <1>3, <2>1, Ensured DEF OutboxInv, SendingInv
  <2>3. ui'.at # "deliver"
    BY <2>2 DEF Continuations, Attaching
  <2> QED BY <1>1, <1>3, <2>3, OutboxUnchanged
<1> QED BY <1>2, <1>3 DEF Send

LEMMA CrashIsGiveUp == ASSUME OutboxInv, SendingInv', Crash PROVE OutboxInv' /\ Promised!Next
<1> DEFINE T == {n \in Outgoing : sent[n] = "no" /\ sealed[n] # {}}
<1>1. /\ sent' = [n \in Outgoing |-> IF n \in T THEN "failed" ELSE sent[n]]
      /\ ui'.at = "start" /\ UNCHANGED <<outbox, sealed>>
  BY DEF Crash
<1>2. \A n \in Outgoing : sent'[n] = "no" => sealed[n] = {}
  BY <1>1
<1>3. T \in SUBSET Outgoing /\ \A t \in T : sent[t] = "no"
  OBVIOUS
<1> HIDE DEF T
<1> QED BY <1>1, <1>2, <1>3, GivenUp

LEMMA OutboxStep ==
    ASSUME OutboxInv, [Next]_vars PROVE OutboxInv' /\ [Promised!Next]_(Promised!vars)
<1>0. SendingInv /\ SendingInv' /\ ChatTypes
  BY SendingStep DEF OutboxInv, SendingInv
<1>1. CASE UNCHANGED vars
  BY <1>0, <1>1, OutboxUnchanged DEF vars
<1>2. CASE Start \/ Select \/ AcceptSync
  <2>1. ui'.at = "idle" /\ ui.at \in {"start", "select", "sync"} /\ UNCHANGED sending
    BY <1>2 DEF Start, Select, AcceptSync, Idle
  <2> QED BY <1>0, <2>1, OutboxUnchanged DEF sending
<1>3. CASE Attach \/ Purge
  <2>1. /\ ui.at \in {"attach", "purge"} /\ UNCHANGED sending
        /\ ui' = ui.next \/ ui'.at = "purge"
    BY <1>3 DEF Attach, Purge
  <2>2. ui.next.at # "deliver"
    BY <1>0, <2>1, UiShape, ContinuationShape DEF Attaching, Purging
  <2> QED BY <1>0, <2>1, <2>2, OutboxUnchanged DEF sending
<1>4. ASSUME NEW p \in Peers, NEW then \in Continuations, UNCHANGED sending, ui = Idle,
             UNCHANGED ui \/ Ensure(p, then)
      PROVE  OutboxInv' /\ UNCHANGED Promised!vars
  <2>1. UNCHANGED ui \/ ui' \in Continuations \cup Attaching
    BY <1>0, <1>4, Ensured
  <2>2. UNCHANGED ui \/ (ui.at # "deliver" /\ ui'.at # "deliver")
    BY <1>4, <2>1 DEF Idle, Continuations, Attaching
  <2> QED BY <1>0, <1>4, <2>2, OutboxUnchanged DEF sending
<1>5. CASE ShowReceived
  <2> DEFINE p == From[Head(events)]
             then == [at |-> "select", conv |-> Direct[p]]
  <2>1. p \in Peers
    BY <1>0, <1>5, DirectChatAssumption DEF DirectChatAssumption, ShowReceived, ChatTypes
  <2>2. then \in Continuations
    BY <2>1, DirectIsConv DEF Continuations
  <2>3. (UNCHANGED ui \/ Ensure(p, then)) /\ UNCHANGED sending /\ ui = Idle
    BY <1>5 DEF ShowReceived
  <2> HIDE DEF p, then
  <2> QED BY <1>4, <2>1, <2>2, <2>3
<1>6. ASSUME NEW p \in Peers, OpenChat(p) PROVE OutboxInv' /\ UNCHANGED Promised!vars
  <2>1. [at |-> "select", conv |-> Direct[p]] \in Continuations
    BY DirectIsConv DEF Continuations
  <2> QED BY <1>4, <1>6, <2>1 DEF OpenChat
<1>7. ASSUME NEW p \in Peers, Accept(p) PROVE OutboxInv' /\ UNCHANGED Promised!vars
  <2>1. PICK promoted \in 0 .. 1 : Ensure(p, [at |-> "sync", p |-> p, promoted |-> promoted])
    BY <1>7 DEF Accept
  <2>2. [at |-> "sync", p |-> p, promoted |-> promoted] \in Continuations
    BY DEF Continuations
  <2> QED BY <1>4, <1>7, <2>1, <2>2 DEF Accept
<1>8. ASSUME NEW m \in Incoming, ReceiveRow(m) PROVE OutboxInv' /\ UNCHANGED Promised!vars
  BY <1>0, <1>8, OutboxUnchanged DEF ReceiveRow, sending
<1>9. CASE ReceiveConversation
  BY <1>0, <1>9, OutboxUnchanged DEF ReceiveConversation, sending
<1>10. CASE Seal \/ Deliver \/ Crash
  BY <1>0, <1>10, SealIsAim, DeliverIsSettle, CrashIsGiveUp
<1>11. ASSUME NEW p \in Peers, NEW n \in Outgoing, Send(n, p)
       PROVE  OutboxInv' /\ [Promised!Next]_(Promised!vars)
  BY <1>0, <1>11, SendIsGiveUp
<1> QED
  BY <1>1, <1>2, <1>3, <1>5, <1>6, <1>7, <1>8, <1>9, <1>10, <1>11 DEF Next, UiStep

\* What is sent goes out as from a DeviceOutbox: each text is settled once,
\* nothing of it goes out later, and the sequences a device gets go up, over any
\* number of crashes between next_crypto_send_sequence and the transport.
THEOREM SendsAsOutbox == Spec => OutboxSpec
<1>1. Init => OutboxInv /\ Promised!Init
  <2> SUFFICES ASSUME Init PROVE OutboxInv /\ Promised!Init
    OBVIOUS
  <2>1. /\ ui.at = "start" /\ outbox = {} /\ sent = [n \in Outgoing |-> "no"]
        /\ sealed = [n \in Outgoing |-> {}]
    BY DEF Init
  <2>2. SealedIsSettled /\ EnvelopesFit
    BY <2>1 DEF SealedIsSettled, EnvelopesFit
  <2> QED BY <2>1, <2>2, SendingStart DEF OutboxInv, Promised!Init
<1>2. OutboxInv /\ [Next]_vars => OutboxInv' /\ [Promised!Next]_(Promised!vars)
  BY OutboxStep
<1> QED BY <1>1, <1>2, PTL DEF Spec, OutboxSpec, Promised!Spec

-----------------------------------------------------------------------------
(* The history of groups. *)

\* Whoever shares a group the client has in memory has a conversation stored.
DirectsFirst ==
    \A p \in Peers, c \in Groups : mem[c] # None /\ p \in Members[c] => db[Direct[p]] # None

\* The UI thread found no conversation of the contact, and none of their common
\* groups is in memory; what it is about to delete is not a group's.
GroupsApart ==
    /\ ui.at = "attach" /\ ui.stored = None =>
          \A c \in Groups : mem[c] # None => ui.p \notin Members[c]
    /\ ui.at = "purge" => ui.old \notin Groups

GroupInv == ChatTypes /\ GroupsApart

LEMMA GroupsAreConvs == Groups \subseteq Convs /\ \A p \in Peers : Direct[p] \in Convs \ Groups
  BY DirectChatAssumption DEF DirectChatAssumption

\* Groups come to memory at a start only, and an operation that has begun keeps
\* what it carries.
LEMMA GroupsUnchanged ==
    ASSUME GroupInv, ChatTypes',
           \A c \in Groups : mem'[c] # None => mem[c] # None,
           ui' = ui \/ ui'.at \notin {"attach", "purge"}
    PROVE  GroupInv'
<1>1. CASE ui' = ui
  BY <1>1 DEF GroupInv, GroupsApart
<1>2. CASE ui'.at \notin {"attach", "purge"}
  BY <1>2 DEF GroupInv, GroupsApart
<1> QED BY <1>1, <1>2

LEMMA EnsureApart ==
    ASSUME GroupInv, DirectsFirst, ChatTypes', UNCHANGED mem,
           NEW p \in Peers, NEW then \in Continuations, Ensure(p, then)
    PROVE  GroupInv'
<1>1. CASE ui' = then
  BY <1>1, ContinuationShape, GroupsUnchanged
<1>2. CASE ui' \in Attaching /\ ui'.p = p /\ ui'.stored = db[Direct[p]]
  <2>1. ui'.at = "attach"
    BY <1>2 DEF Attaching
  <2>2. ASSUME ui'.stored = None, NEW c \in Groups, mem'[c] # None PROVE p \notin Members[c]
    BY <1>2, <2>2 DEF DirectsFirst
  <2> QED BY <1>2, <2>1, <2>2 DEF GroupInv, GroupsApart
<1> QED BY <1>1, <1>2, Ensured DEF GroupInv

LEMMA AttachApart == ASSUME GroupInv, ChatTypes', Attach PROVE GroupInv'
<1> DEFINE c == Direct[ui.p]
<1>1. /\ ui.at = "attach" /\ ui.p \in Peers /\ ui.next.at \notin {"attach", "purge"}
      /\ c \in Convs \ Groups /\ Groups \subseteq Convs
  BY UiShape, ContinuationShape, GroupsAreConvs DEF Attach, Attaching, GroupInv
<1>2. mem \in [Convs -> Counts]
  BY DEF GroupInv, ChatTypes
<1>3. CASE mem' = [mem EXCEPT ![c] = ui.stored] /\ ui' = ui.next
  <2>1. \A g \in Groups : mem'[g] = mem[g]
    BY <1>1, <1>2, <1>3
  <2> QED BY <1>1, <1>3, <2>1, GroupsUnchanged
<1>4. ASSUME NEW e \in Present(mem), ui.p \in Members[e], ui.stored = None,
             mem' = [mem EXCEPT ![e] = IF e = c THEN @ ELSE None, ![c] = mem[e]],
             ui' = IF e = c THEN ui.next ELSE [at |-> "purge", old |-> e, next |-> ui.next]
      PROVE  GroupInv'
  <2>1. e \in Convs /\ mem[e] # None
    BY DEF Present
  <2>2. e \notin Groups
    BY <1>1, <1>4, <2>1 DEF GroupInv, GroupsApart
  <2>3. \A g \in Groups : mem'[g] = mem[g]
    BY <1>1, <1>2, <1>4, <2>1, <2>2
  <2>4. CASE e = c
    BY <1>1, <1>4, <2>3, <2>4, GroupsUnchanged
  <2>5. CASE e # c
    BY <1>4, <2>2, <2>5 DEF GroupInv, GroupsApart
  <2> QED BY <2>4, <2>5
<1>5. CASE Keep(c, 0) /\ ui' = ui.next
  <2>1. \A g \in Groups : mem'[g] = mem[g]
    BY <1>1, <1>2, <1>5 DEF Keep
  <2> QED BY <1>1, <1>5, <2>1, GroupsUnchanged
<1> QED BY <1>3, <1>4, <1>5 DEF Attach

LEMMA GroupStep == ASSUME GroupInv, DirectsFirst, [Next]_vars PROVE GroupInv'
<1>0. ChatTypes /\ ChatTypes'
  BY TypesStep DEF GroupInv
<1>01. Groups \subseteq Convs /\ \A p \in Peers : Direct[p] \in Convs \ Groups
  BY GroupsAreConvs
<1>02. mem \in [Convs -> Counts]
  BY <1>0 DEF ChatTypes
<1>03. CASE UNCHANGED vars
  BY <1>0, <1>03, GroupsUnchanged DEF vars
<1>1. CASE Start
  BY <1>0, <1>1 DEF Start, Idle, GroupInv, GroupsApart
<1>2. CASE Attach
  BY <1>0, <1>2, AttachApart
<1>3. CASE Purge
  <2>1. ui.next.at \notin {"attach", "purge"}
    BY <1>0, <1>3, UiShape, ContinuationShape DEF Purge, Purging
  <2> QED BY <1>0, <1>3, <2>1, GroupsUnchanged DEF Purge
<1>4. CASE Select
  <2>1. ui.conv \in Convs
    BY <1>0, <1>4, UiShape DEF Select
  <2>2. \A g \in Groups : mem'[g] # None => mem[g] # None
    BY <1>01, <1>02, <1>4, <2>1 DEF Select
  <2> QED BY <1>0, <1>4, <2>2, GroupsUnchanged DEF Select, Idle
<1>5. CASE AcceptSync
  <2> DEFINE c == Direct[ui.p]
  <2>1. c \in Convs \ Groups
    BY <1>0, <1>01, <1>5, UiShape DEF AcceptSync
  <2>2. \A g \in Groups : mem'[g] = mem[g]
    BY <1>01, <1>02, <1>5, <2>1 DEF AcceptSync, Keep
  <2> QED BY <1>0, <1>5, <2>2, GroupsUnchanged DEF AcceptSync, Idle
<1>6. CASE Seal
  <2>1. ui'.at \in {"idle", "deliver"}
    BY <1>0, <1>6, Sealing DEF Idle
  <2> QED BY <1>0, <1>6, <2>1, GroupsUnchanged DEF Seal
<1>7. CASE Deliver
  BY <1>0, <1>7, GroupsUnchanged DEF Deliver, Idle
<1>8. CASE ShowReceived
  <2> DEFINE p == From[Head(events)]
             then == [at |-> "select", conv |-> Direct[p]]
  <2>1. Head(events) \in Incoming
    BY <1>0, <1>8 DEF ShowReceived, ChatTypes
  <2>2. p \in Peers
    BY <2>1, DirectChatAssumption DEF DirectChatAssumption
  <2>3. then \in Continuations
    BY <2>2, DirectIsConv DEF Continuations
  <2>4. (UNCHANGED ui \/ Ensure(p, then)) /\ UNCHANGED mem
    BY <1>8 DEF ShowReceived
  <2> HIDE DEF p, then
  <2> QED BY <1>0, <2>2, <2>3, <2>4, EnsureApart, GroupsUnchanged
<1>9. CASE ReceiveConversation
  <2> DEFINE c == Direct[From[net.m]]
  <2>1. c \in Convs \ Groups
    BY <1>0, <1>01, <1>9, DirectChatAssumption
    DEF DirectChatAssumption, ReceiveConversation, ChatTypes, Idle
  <2>2. \A g \in Groups : mem'[g] = mem[g]
    BY <1>01, <1>02, <1>9, <2>1 DEF ReceiveConversation, Keep
  <2> QED BY <1>0, <1>9, <2>2, GroupsUnchanged DEF ReceiveConversation
<1>10. CASE Crash
  BY <1>0, <1>10 DEF Crash, GroupInv, GroupsApart
<1>11. ASSUME NEW m \in Incoming, ReceiveRow(m) PROVE GroupInv'
  BY <1>0, <1>11, GroupsUnchanged DEF ReceiveRow
<1>12. ASSUME NEW p \in Peers, OpenChat(p) PROVE GroupInv'
  <2>1. [at |-> "select", conv |-> Direct[p]] \in Continuations
    BY DirectIsConv DEF Continuations
  <2> QED BY <1>0, <1>12, <2>1, EnsureApart DEF OpenChat
<1>13. ASSUME NEW p \in Peers, Accept(p) PROVE GroupInv'
  <2>1. PICK promoted \in 0 .. 1 : Ensure(p, [at |-> "sync", p |-> p, promoted |-> promoted])
    BY <1>13 DEF Accept
  <2>2. [at |-> "sync", p |-> p, promoted |-> promoted] \in Continuations
    BY DEF Continuations
  <2> QED BY <1>0, <1>13, <2>1, <2>2, EnsureApart DEF Accept
<1>14. ASSUME NEW p \in Peers, NEW n \in Outgoing, Send(n, p) PROVE GroupInv'
  <2>1. [at |-> "seal", n |-> n, p |-> p] \in Continuations
    BY DEF Continuations
  <2> QED BY <1>0, <1>14, <2>1, EnsureApart, GroupsUnchanged DEF Send
<1> QED
  BY <1>03, <1>1, <1>2, <1>3, <1>4, <1>5, <1>6, <1>7, <1>8, <1>9, <1>10, <1>11, <1>12, <1>13, <1>14
  DEF Next, UiStep

\* A start deletes messages of conversations with a single peer only.
LEMMA StartKeepsGroups ==
    ASSUME LoadConversations, NEW r \in rows, r[1] \in Groups PROVE r \in rows'
<1>1. ASSUME NEW loaded \in Recent, NEW kept \in SUBSET loaded, Dedup(loaded, kept)
      PROVE  r \in rows'
  BY <1>1 DEF Dedup
<1> QED BY <1>1 DEF LoadConversations

LEMMA RowsOfGroupsStay ==
    ASSUME GroupInv, [Next]_vars, NEW r \in rows, r[1] \in Groups PROVE r \in rows'
<1>1. CASE Purge
  BY <1>1 DEF Purge, GroupInv, GroupsApart
<1>2. CASE Start
  BY <1>2, StartKeepsGroups DEF Start
<1>3. CASE Deliver
  BY <1>3 DEF Deliver
<1> QED
  BY <1>1, <1>2, <1>3
  DEF Next, UiStep, vars, Attach, Select, AcceptSync, Seal, ShowReceived, ReceiveConversation,
      Crash, ReceiveRow, OpenChat, Accept, Send

\* The messages of groups are never lost, whichever chats are opened, as long as
\* each contact one shares a loaded group with has a stored conversation: the
\* search of _get_or_create_conversation_id for an old one (chat_service.py:3359)
\* then never gets to a group.
THEOREM GroupsKeepHistory == Spec /\ []DirectsFirst => GroupHistoryKept
<1>1. Init => GroupInv
  <2> SUFFICES ASSUME Init PROVE GroupInv
    OBVIOUS
  <2>1. ui.at = "start"
    BY DEF Init
  <2> QED BY <2>1, StartTypes DEF GroupInv, GroupsApart
<1>2. GroupInv /\ DirectsFirst /\ [Next]_vars => GroupInv'
  BY GroupStep
<1>3. GroupInv /\ [Next]_vars => [\A r \in rows : r[1] \in Groups => r \in rows']_rows
  BY RowsOfGroupsStay
<1> QED BY <1>1, <1>2, <1>3, PTL DEF Spec, GroupHistoryKept
=============================================================================
