------------------------------ MODULE DirectChat ------------------------------
(***************************************************************************)
(* The conversations of one client and the texts and files it sends.  The  *)
(* table in memory (_conversations) is shared by the network thread, which *)
(* takes _conversations_lock, and the UI thread, whose                     *)
(* _get_or_create_conversation_id does not.  Every change is written to    *)
(* the local store at once; the process may die between any two steps and  *)
(* is started again from the store.  Whether a contact may be written to   *)
(* is DirectInbox's business; here it is a choice of the environment.      *)
(***************************************************************************)
EXTENDS Naturals, FiniteSets, Sequences, SequencesExt, FiniteSetsExt

CONSTANTS
    Peers, Devices,
    Convs,          \* conversation ids
    Direct,         \* [Peers -> Convs]: the deterministic id
    Members,        \* [Convs -> SUBSET Peers]: everyone else in it
    Groups,         \* the ids of group conversations
    Mock,           \* [Peers -> Convs]: ids of conversations made up at start
    Incoming, From, \* texts peers send; [Incoming -> Peers]
    Outgoing,       \* texts and files the user sends
    Files,          \* those of them that are files
    DeviceLists,    \* what the directory may give for a peer, primary first
    OldRow,         \* a row stored before
    Limit,          \* conversations read at start (20 in the code)
    MaxUnread, MaxCrashes,
    None

ASSUME DirectChatAssumption ==
    /\ Direct \in [Peers -> Convs \ Groups]
    /\ Mock \in [Peers -> Convs \ Groups]
    /\ Members \in [Convs -> SUBSET Peers]
    /\ \A p \in Peers : Members[Direct[p]] = {p} /\ Members[Mock[p]] = {p}
    /\ Groups \subseteq Convs /\ Files \subseteq Outgoing
    /\ From \in [Incoming -> Peers]
    /\ DeviceLists \subseteq Seq(Devices)
    /\ None \notin Peers \cup Convs \cup Nat
    /\ Limit \in Nat \ {0} /\ MaxUnread \in Nat /\ MaxCrashes \in Nat

VARIABLES
    mem,        \* [Convs -> Nat \cup {None}]: unread count in memory, if there
    db,         \* the same, as stored
    rows,       \* stored messages: pairs of conversation and message
    current,    \* current_conversation_id
    net, ui,    \* where the two threads are
    events,     \* MESSAGE_RECEIVED events the UI has not handled
    sequence,   \* [Peers \X Devices -> Nat]: send_sequence of the session
    outbox,     \* envelopes handed over: <<message, peer, device, sequence>>
    sent,       \* [Outgoing -> {"no", "failed", "sent"}]
    sealed,     \* history: [Outgoing -> SUBSET Devices] it was sealed for
    crashes

vars == <<mem, db, rows, current, net, ui, events, sequence, outbox, sent, sealed, crashes>>
sending == <<sequence, outbox, sent, sealed>>

Idle == [at |-> "idle"]
Present(table) == {c \in Convs : table[c] # None}
\* unread counts stop at the bound
Add(a, b) == IF a + b \in 0 .. MaxUnread THEN a + b ELSE MaxUnread

\* Mutant of Keep: the store is not written.
KeepInMemory(c, unread) == mem' = [mem EXCEPT ![c] = unread] /\ UNCHANGED db

\* A conversation in memory is saved with every change (save_conversation).
Keep(c, unread) ==
    mem' = [mem EXCEPT ![c] = unread] /\ db' = [db EXCEPT ![c] = unread]

-----------------------------------------------------------------------------
(* Start: _load_conversations. *)

\* One conversation is kept of those with the same single peer (the latest;
\* times are not modelled), with the unread counts of all of them.  The
\* others go, with their messages: delete_conversation.
Dedup(loaded, kept) ==
    LET same(c) == {e \in loaded \ Groups : Members[e] = Members[c]} IN
    /\ kept \subseteq loaded
    /\ loaded \cap Groups \subseteq kept
    /\ \A c \in loaded \ Groups : Cardinality(kept \cap same(c)) = 1
    /\ mem' = [c \in Convs |->
          IF c \notin kept THEN None
          ELSE IF c \in Groups THEN db[c]
          ELSE LET total == MapThenSumSet(LAMBDA e : db[e], same(c)) IN Add(total, 0)]
    /\ db' = [c \in Convs |-> IF c \in loaded \ kept THEN None
                              ELSE IF c \in kept THEN mem'[c] ELSE db[c]]
    /\ rows' = {r \in rows : r[1] \notin loaded \ kept}

\* get_conversations_for_user: the most recent Limit of those stored.
Recent == kSubset(Min({Limit, Cardinality(Present(db))}), Present(db))

\* _create_mock_conversations: one per contact, with an unread text.
MadeUp == [c \in Convs |-> IF \E p \in Peers : Mock[p] = c THEN Add(1, 0) ELSE None]

\* The most recent Limit conversations are read (groups the limit left out are
\* built anew from the group table, with no unread); with nothing stored, one
\* conversation per contact is made up.
LoadConversations ==
    IF Present(db) = {}
    THEN /\ mem' = MadeUp /\ db' = MadeUp
         /\ UNCHANGED rows
    ELSE \E loaded \in Recent : \E kept \in SUBSET loaded : Dedup(loaded, kept)

\* ChatService.__init__ and start: whatever an earlier run left is loaded;
\* current_conversation_id is not stored.
Init ==
    /\ \E old \in SUBSET Convs :
          /\ db = [c \in Convs |-> IF c \in old THEN 0 ELSE None]
          /\ rows = {<<c, OldRow>> : c \in old}
    /\ mem = [c \in Convs |-> None]
    /\ current = None
    /\ net = Idle /\ ui = [at |-> "start"] /\ events = <<>>
    /\ sequence = [s \in Peers \X Devices |-> 0]
    /\ outbox = {} /\ sent = [n \in Outgoing |-> "no"]
    /\ sealed = [n \in Outgoing |-> {}] /\ crashes = 0

Start ==
    /\ ui.at = "start"
    /\ LoadConversations
    /\ ui' = Idle
    /\ UNCHANGED <<current, net, events, sending, crashes>>

-----------------------------------------------------------------------------
(* The network thread, for a text of a trusted contact. *)

ReceiveRow(m) ==
    /\ net = Idle /\ ui.at # "start"
    /\ \A c \in Convs : <<c, m>> \notin rows
    /\ rows' = rows \cup {<<Direct[From[m]], m>>}
    /\ net' = [at |-> "conversation", m |-> m]
    /\ UNCHANGED <<mem, db, current, ui, events, sending, crashes>>

\* Under the lock: the conversation is created if MEMORY does not have it.
ReceiveConversation ==
    LET c == Direct[From[net.m]] IN
    /\ net.at = "conversation"
    /\ Keep(c, Add(IF mem[c] = None THEN 0 ELSE mem[c], 1))
    /\ events' = Append(events, net.m)
    /\ net' = Idle
    /\ UNCHANGED <<rows, current, ui, sending, crashes>>

-----------------------------------------------------------------------------
(* The UI thread.  Each operation starts with _get_or_create_conversation_id*)
(* and goes on at `next`: select, sync, seal.                               *)

\* get_conversation of the deterministic id.
Stored(p) == db[Direct[p]]

\* In memory, or else what the store has is read.
Ensure(p, then) ==
    ui' = IF mem[Direct[p]] # None THEN then
          ELSE [at |-> "attach", p |-> p, stored |-> Stored(p), next |-> then]

\* The stored one, or any conversation both are in, taken over under the new
\* id, or a new one.
Attach ==
    LET c == Direct[ui.p]
        shared == {e \in Present(mem) : ui.p \in Members[e]}
    IN
    /\ ui.at = "attach"
    /\ \/ /\ ui.stored # None
          /\ mem' = [mem EXCEPT ![c] = ui.stored]
          /\ ui' = ui.next
          /\ UNCHANGED db
       \/ \E e \in shared :
             /\ ui.stored = None
             /\ mem' = [mem EXCEPT ![e] = IF e = c THEN @ ELSE None, ![c] = mem[e]]
             /\ db' = [db EXCEPT ![c] = mem[e]]
             /\ ui' = IF e = c THEN ui.next ELSE [at |-> "purge", old |-> e, next |-> ui.next]
       \/ /\ ui.stored = None /\ shared = {}
          /\ Keep(c, 0)
          /\ ui' = ui.next
    /\ UNCHANGED <<rows, current, net, events, sending, crashes>>

\* delete_conversation of the id taken over, with its messages.
Purge ==
    /\ ui.at = "purge"
    /\ db' = [db EXCEPT ![ui.old] = None]
    /\ rows' = {r \in rows : r[1] # ui.old}
    /\ ui' = ui.next
    /\ UNCHANGED <<mem, current, net, events, sending, crashes>>

\* on_contact_selected: the contact's conversation becomes the current one.
OpenChat(p) ==
    /\ ui = Idle
    /\ Ensure(p, [at |-> "select", conv |-> Direct[p]])
    /\ UNCHANGED <<mem, db, rows, current, net, events, sending, crashes>>

\* select_conversation: ignored if unknown, else current and read.
Select ==
    /\ ui.at = "select"
    /\ IF mem[ui.conv] = None THEN UNCHANGED <<mem, db, current>>
       ELSE /\ current' = ui.conv
            /\ mem' = [mem EXCEPT ![ui.conv] = 0]
            /\ db' = IF mem[ui.conv] > 0 THEN [db EXCEPT ![ui.conv] = 0] ELSE db
    /\ ui' = Idle
    /\ UNCHANGED <<rows, net, events, sending, crashes>>

\* Mutant of IsActive: the id a conversation had before it was deterministic.
IsActiveByOldId(p) == current = Mock[p]

\* is_message_for_active_contact
IsActive(p) == current = Direct[p]

\* on_message_received: a text of the open chat is shown and marks it as read,
\* any other raises a notification.
ShowReceived ==
    /\ ui = Idle /\ events # <<>>
    /\ events' = Tail(events)
    /\ LET p == From[Head(events)] IN
       IF IsActive(p) THEN Ensure(p, [at |-> "select", conv |-> Direct[p]])
       ELSE UNCHANGED ui
    /\ UNCHANGED <<mem, db, rows, current, net, sending, crashes>>

\* accept_contact with a number of rows promoted, then
\* _sync_conversation_after_accept under the lock.
Accept(p) ==
    /\ ui = Idle
    /\ \E promoted \in 0 .. 1 : Ensure(p, [at |-> "sync", p |-> p, promoted |-> promoted])
    /\ UNCHANGED <<mem, db, rows, current, net, events, sending, crashes>>

AcceptSync ==
    LET c == Direct[ui.p] IN
    /\ ui.at = "sync"
    /\ Keep(c, IF current = c THEN 0 ELSE Add(IF mem[c] = None THEN 0 ELSE mem[c], ui.promoted))
    /\ ui' = Idle
    /\ UNCHANGED <<rows, current, net, events, sending, crashes>>

-----------------------------------------------------------------------------
(* Sending: _send_text_message and _send_direct_temp_file. *)

\* Refused while not running or if the contact may not be written to;
\* otherwise the conversation first, and for a file the upload.
Send(n, p) ==
    /\ ui = Idle /\ sent[n] = "no"
    /\ \/ /\ sent' = [sent EXCEPT ![n] = "failed"]      \* blocked, or no upload
          /\ UNCHANGED ui
       \/ /\ Ensure(p, [at |-> "seal", n |-> n, p |-> p])
          /\ UNCHANGED sent
    /\ UNCHANGED <<mem, db, rows, current, net, events, sequence, outbox, sealed, crashes>>

\* Mutant of NextSequence: the counter is set up with the session and stays.
NextSequenceOnce(p, to) ==
    [s \in DOMAIN sequence |-> IF s[1] = p /\ s[2] \in to THEN 1 ELSE sequence[s]]

\* next_crypto_send_sequence, once for each device sealed for
NextSequence(p, to) ==
    [s \in DOMAIN sequence |-> sequence[s] + IF s[1] = p /\ s[2] \in to THEN 1 ELSE 0]

\* The envelopes of message n: one for each device, in the session's order.
Envelopes(n, p, to) == {<<n, p, d, sequence'[<<p, d>>]>> : d \in to}

\* Mutant of Seal: what is sealed counts as sent.
SealIsSent ==
    /\ ui.at = "seal"
    /\ \E devices \in DeviceLists \ {<<>>} :
          LET to == ToSet(devices) IN
          /\ sealed' = [sealed EXCEPT ![ui.n] = to]
          /\ sequence' = NextSequence(ui.p, to)
          /\ sent' = [sent EXCEPT ![ui.n] = "sent"]
          /\ ui' = [at |-> "deliver", n |-> ui.n, p |-> ui.p, envelopes |-> Envelopes(ui.n, ui.p, to)]
    /\ UNCHANGED <<mem, db, rows, current, net, events, outbox, crashes>>

\* encrypt_message for every device (a file: for the first): the session's next
\* sequence is stored before anything is sent.  Without a device it fails.
\* A text then becomes the conversation's last message, sent or not.
Seal ==
    /\ ui.at = "seal"
    /\ \E devices \in DeviceLists :
          LET n == ui.n
              to == IF n \in Files /\ devices # <<>> THEN {Head(devices)} ELSE ToSet(devices)
              c == Direct[ui.p]
          IN
          /\ sealed' = [sealed EXCEPT ![n] = to]
          /\ sequence' = NextSequence(ui.p, to)
          /\ IF to = {} THEN ui' = Idle /\ sent' = [sent EXCEPT ![n] = "failed"]
             ELSE /\ ui' = [at |-> "deliver", n |-> n, p |-> ui.p,
                            envelopes |-> Envelopes(n, ui.p, to)]
                  /\ UNCHANGED sent
          /\ db' = IF to = {} \/ n \in Files \/ mem[c] = None THEN db
                   ELSE [db EXCEPT ![c] = mem[c]]
    /\ UNCHANGED <<mem, rows, current, net, events, outbox, crashes>>

\* Mutant of Succeeds: one device reached is enough.
SucceedsOnce(ok, envelopes) == ok # {}

\* A message is sent when every envelope was taken by the transport.
Succeeds(ok, envelopes) == ok = envelopes

\* All envelopes are tried; kept as sent, with its row, only if all went out.
Deliver ==
    /\ ui.at = "deliver"
    /\ \E ok \in SUBSET ui.envelopes :
          /\ outbox' = outbox \cup ok
          /\ IF Succeeds(ok, ui.envelopes)
             THEN /\ sent' = [sent EXCEPT ![ui.n] = "sent"]
                  /\ rows' = rows \cup {<<Direct[ui.p], ui.n>>}
             ELSE sent' = [sent EXCEPT ![ui.n] = "failed"] /\ UNCHANGED rows
    /\ ui' = Idle
    /\ UNCHANGED <<mem, db, current, net, events, sequence, sealed, crashes>>

-----------------------------------------------------------------------------
Crash ==
    /\ crashes < MaxCrashes /\ crashes' = crashes + 1
    /\ mem' = [c \in Convs |-> None]
    /\ current' = None /\ net' = Idle /\ events' = <<>>
    /\ ui' = [at |-> "start"]
    /\ sent' = [n \in Outgoing |-> IF sent[n] = "no" /\ sealed[n] # {} THEN "failed" ELSE sent[n]]
    /\ UNCHANGED <<db, rows, sequence, outbox, sealed>>

UiStep == Start \/ Attach \/ Purge \/ Select \/ AcceptSync \/ Seal \/ Deliver

Next ==
    \/ UiStep \/ ShowReceived \/ ReceiveConversation \/ Crash
    \/ \E m \in Incoming : ReceiveRow(m)
    \/ \E p \in Peers :
          \/ OpenChat(p) \/ Accept(p)
          \/ \E n \in Outgoing : Send(n, p)

\* An operation begun is finished, and Qt's queue hands every event over once
\* the UI thread has come back to it often enough.
Spec == Init /\ [][Next]_vars /\ WF_vars(UiStep) /\ WF_vars(ReceiveConversation)
             /\ SF_vars(ShowReceived)

-----------------------------------------------------------------------------
TypeOK ==
    /\ mem \in [Convs -> 0 .. MaxUnread \cup {None}]
    /\ db \in [Convs -> 0 .. MaxUnread \cup {None}]
    /\ rows \subseteq Convs \X (Incoming \cup Outgoing \cup {OldRow})
    /\ current \in Convs \cup {None}
    /\ sequence \in [Peers \X Devices -> Nat]
    /\ sent \in [Outgoing -> {"no", "failed", "sent"}]
    /\ ui.at = "deliver" => sent[ui.n] = "no" /\ ui.envelopes # {}

\* ShownIsStored: a conversation the user sees survives a restart, also while
\* the UI thread moves one to another id and the network thread creates one.
ShownIsStored == \A c \in Convs : mem[c] # None => db[c] # None

\* SequenceUnique: no two envelopes for a device carry the same sequence, also
\* when the process died between sealing and sending.
SequenceUnique ==
    \A e, f \in outbox : e[2] = f[2] /\ e[3] = f[3] /\ e[4] = f[4] => e = f

\* SentToAll: what is shown as sent went out to every device it was sealed for.
SentToAll ==
    \A n \in Outgoing : sent[n] = "sent" =>
        sealed[n] # {} /\ \A d \in sealed[n] : \E e \in outbox : e[1] = n /\ e[3] = d

\* OutboxSpec: what is sent goes out as from a DeviceOutbox: a text is settled
\* once and nothing of it goes out later, also after the process died, and the
\* sequences a device gets go up.
Promised == INSTANCE DeviceOutbox WITH
    Texts <- Outgoing, outcome <- sent, meant <- sealed, wire <- outbox
OutboxSpec == Promised!Spec

\* ReadWhileOpen: what arrives for the open chat does not stay unread while the
\* chat stays open (events may be late, the process may die).
ReadWhileOpen ==
    \A p \in Peers :
        (current = Direct[p] /\ mem[Direct[p]] # 0) ~>
            (mem[Direct[p]] = 0 \/ current # Direct[p])

\* GroupHistoryKept: the messages of a group stay in the store, whichever direct
\* chats are opened ("looking for an old conversation with a non-deterministic
\* id", chat_service.py:3359).
GroupHistoryKept == [][\A r \in rows : r[1] \in Groups => r \in rows']_rows
=============================================================================
