------------------------------ MODULE DirectInbox ------------------------------
(***************************************************************************)
(* Direct messages of one client: the contact's authorisation, the rows of *)
(* the local store, the conversations they are kept in, the records        *)
(* against replay and the peers' device keys.                              *)
(* Four threads share them: the transport's network thread (receives), the *)
(* UI thread (the user), the presence worker (rewrites contacts from the   *)
(* Hub directory), and the process itself (it may die at any step; what    *)
(* the store and the configuration hold survives).  Which thread finds     *)
(* which conversation in memory is DirectChat's matter: here conversations *)
(* come and go with what is stored in them.                                *)
(***************************************************************************)
EXTENDS Naturals, Sequences, SequencesExt

CONSTANTS
    Peers, Devices,
    Msgs,           \* texts from peers
    From,           \* [Msgs -> Peers]
    Via,            \* [Msgs -> Devices \cup {Plain}]: the sealing device
    Plain,          \* an unsealed text (a contact request)
    Directories,    \* the lists of devices the Hub may show for a peer
    MaxDeliveries,  \* bounds: the Hub may deliver a text more than once
    MaxCrashes, MaxCount

ASSUME DirectInboxAssumption ==
    /\ IsFiniteSet(Peers) /\ IsFiniteSet(Devices)
    /\ Plain \notin Devices
    /\ From \in [Msgs -> Peers]
    /\ Via \in [Msgs -> Devices \cup {Plain}]
    /\ Directories \subseteq Seq(Devices)
    /\ MaxDeliveries \in Nat /\ MaxCrashes \in Nat /\ MaxCount \in Nat

VARIABLES
    contacts,   \* [Peers -> NoContact or [trust, count, online, keys]]
    directory,  \* [Peers -> Directories]: the online directory, primary first
    sessions,   \* [Peers -> SUBSET Devices]: devices a session is stored with
    convs,      \* [Peers -> SUBSET Folders]: the stored conversations with a peer
    rows,       \* [Msgs -> NoRow or [auth, text, conv]]: table messages
    seen,       \* texts recorded in table message_security_seen
    deliveries, \* bounded by MaxDeliveries
    net,        \* the network thread
    ui,         \* the UI thread
    asked,      \* peers with an authorisation dialog waiting
    presence,   \* the presence worker: contacts it copied and not yet written
    letIn,      \* history: peers the user has let in
    opened,     \* history: [Msgs -> Nat], how often the text was decrypted
    crashes

vars == <<contacts, directory, sessions, convs, rows, seen, deliveries, net, ui, asked,
          presence, letIn, opened, crashes>>
chats == <<convs, rows>>
stored == <<sessions, convs, rows, seen>>
history == <<letIn, opened, crashes>>

NoContact == [trust |-> "absent", count |-> 0, online |-> FALSE, keys |-> <<>>]
NoRow == [auth |-> "none", text |-> "none", conv |-> "none"]
Idle == [at |-> "idle"]
Trusts == {"absent", "unknown", "pending", "trusted", "rejected"}
Texts(p) == {m \in Msgs : From[m] = p}
\* The conversation with the deterministic id, and one that an earlier version
\* stored or that was made up at a start, with another id.
Folders == {"own", "old"}

\* chat_service.__init__: empty memory; the store of a new profile, or one in
\* which an earlier version kept unsealed texts of contacts that were let in; a
\* contact may have been added by name only (unknown).
Init ==
    /\ \E older \in SUBSET {m \in Msgs : Via[m] = Plain} :
          /\ rows = [m \in Msgs |-> IF m \in older
                       THEN [auth |-> "trusted", text |-> "plain", conv |-> "old"] ELSE NoRow]
          /\ letIn = {From[m] : m \in older}
          /\ convs \in [Peers -> {{}, {"old"}}]
          /\ \A m \in older : convs[From[m]] = {"old"}
    /\ contacts \in [Peers -> {NoContact} \cup
                          {[NoContact EXCEPT !.trust = t] : t \in {"unknown", "trusted"}}]
    /\ \A p \in Peers : contacts[p].trust = "trusted" => p \in letIn
    /\ directory \in [Peers -> Directories]
    /\ sessions = [p \in Peers |-> {}]
    /\ seen = {}
    /\ deliveries = 0
    /\ net = Idle /\ ui = Idle /\ asked = {} /\ presence = <<>>
    /\ opened = [m \in Msgs |-> 0] /\ crashes = 0

-----------------------------------------------------------------------------
(* Contacts and device keys. *)

\* A list of keys with newer ones in front; device ids are never forgotten.
Merge(new, old) ==
    LET Merged[i \in 0 .. Len(old)] ==
            IF i = 0 THEN new
            ELSE IF old[i] \in ToSet(new) THEN Merged[i - 1] ELSE Append(Merged[i - 1], old[i])
    IN Merged[Len(old)]

\* add_contact(user, auth): a new contact takes the status it is given, an
\* existing one only a status other than unknown; keys are merged.
AddContact(p, keys, online, trust) ==
    IF contacts[p].trust = "absent"
    THEN [trust |-> trust, count |-> 0, online |-> online, keys |-> keys]
    ELSE [contacts[p] EXCEPT
            !.trust = IF trust = "unknown" THEN @ ELSE trust,
            !.online = online,
            !.keys = Merge(keys, @)]

\* update_contact_auth_status: an answer also clears the pending count.
SetTrust(p, trust) ==
    IF contacts[p].trust = "absent" THEN contacts[p]
    ELSE [contacts[p] EXCEPT !.trust = trust,
             !.count = IF trust \in {"trusted", "rejected"} THEN 0 ELSE @]

\* _get_peer_device_profiles: the directory, else the contact's own keys, else
\* the devices a session exists with (in any order).
PeerDevices(p) ==
    IF directory[p] # <<>> THEN {directory[p]}
    ELSE IF contacts[p].keys # <<>> THEN {contacts[p].keys}
    ELSE SetToSeqs(sessions[p])

\* Mutant of CacheKeys: keys are kept with a contact that is gone.
CacheKeysAlways(p, found) == [contacts EXCEPT ![p].keys = Merge(found, @)]

\* _cache_peer_device_profiles: what was found is kept with the contact.
CacheKeys(p, found) ==
    IF contacts[p].trust = "absent" THEN contacts
    ELSE [contacts EXCEPT ![p].keys = Merge(found, @)]
-----------------------------------------------------------------------------
(* Opening a sealed text: _decrypt_message_if_needed with direct_v2.        *)

\* The sealed form is recognised by its metadata.
Form(m) == IF Via[m] = Plain THEN "plain" ELSE "sealed"

\* The key is derived from the FIRST device given, and the tag tells a wrong one.
KeyMatches(m, found) == found # <<>> /\ Head(found) = Via[m]

\* Mutant of Outcome: the record of what was opened before is not consulted.
OutcomeUnchecked(m, text, found) ==
    CASE text = "plain" -> "already"
      [] text = "sealed" /\ KeyMatches(m, found) -> "success"
      [] OTHER -> "failed"

\* The outcomes of opening text m, of which the row holds `text`, when the
\* peer's devices are `found`.
Outcome(m, text, found) ==
    CASE text = "plain" -> "already"
      [] text = "sealed" /\ ~KeyMatches(m, found) -> "failed"
      [] OTHER -> IF m \in seen THEN "replay" ELSE "success"

\* record_message_security_seen
Note(M) == seen' = seen \cup M

\* save_crypto_session with the device a text came from.
KeepSession(M) ==
    sessions' = [p \in Peers |-> sessions[p] \cup {Via[m] : m \in M \cap Texts(p)}]

\* decrypt_message: the record commits before the text is decrypted.
Open(M) ==
    /\ Note(M) /\ KeepSession(M)
    /\ opened' = [m \in Msgs |-> IF m \in M THEN opened[m] + 1 ELSE opened[m]]

\* INSERT OR REPLACE by message id: a second delivery replaces the row.  A
\* delivered text has the deterministic id of its conversation.
SaveRow(m, auth, text) ==
    rows' = [rows EXCEPT ![m] = [auth |-> auth, text |-> text, conv |-> "own"]]

-----------------------------------------------------------------------------
(* Conversations. *)

\* delete_conversation: a conversation that goes takes its messages with it.
Rearrange(new) ==
    /\ convs' = new
    /\ rows' = [m \in Msgs |-> IF rows[m].conv \in convs[From[m]] \ new[From[m]] THEN NoRow
                               ELSE rows[m]]

\* _get_or_create_conversation_id: if the one with the deterministic id is
\* missing, another one with the peer is taken over and deleted, or, if it is
\* not among those loaded, stays beside a new one.
OwnConversation(p) ==
    \E new \in {convs[p] \cup {"own"}} \cup IF "own" \in convs[p] THEN {} ELSE {{"own"}} :
        Rearrange([convs EXCEPT ![p] = new])

\* _deduplicate_conversations: of two that were loaded the later one is kept
\* (times are not modelled); the limit may leave one out.
Deduplicated(p) ==
    IF convs[p] = Folders THEN {{"own"}, {"old"}, Folders} ELSE {convs[p]}

\* _load_conversations: with none stored, some are made up for contacts.
LoadConversations ==
    \E new \in [Peers -> SUBSET Folders] :
        /\ IF \A p \in Peers : convs[p] = {}
           THEN \A p \in Peers : new[p] = {} \/ (new[p] = {"old"} /\ contacts[p].trust # "absent")
           ELSE \A p \in Peers : new[p] \in Deduplicated(p)
        /\ Rearrange(new)

-----------------------------------------------------------------------------
(* The network thread: _on_message_received, one action per store access.   *)

\* Mutant of RowAuth: only a rejected or waiting sender is kept out.
RowAuthLax(trust) == IF trust \in {"rejected", "pending"} THEN trust ELSE "trusted"

\* The status a text is stored with, from its sender's at that moment.
RowAuth(trust) == IF trust \in {"rejected", "trusted"} THEN trust ELSE "pending"

\* The contact is looked up, created as pending, or moved from unknown to
\* pending unless its display name has to be updated instead (elif).
Receive(m) ==
    LET p == From[m] IN
    /\ net = Idle /\ deliveries < MaxDeliveries /\ deliveries' = deliveries + 1
    /\ \E renamed \in BOOLEAN :
          contacts' = CASE contacts[p].trust = "absent" ->
                             [contacts EXCEPT ![p] = AddContact(p, <<>>, TRUE, "pending")]
                        [] contacts[p].trust = "unknown" /\ ~renamed ->
                             [contacts EXCEPT ![p] = SetTrust(p, "pending")]
                        [] OTHER -> contacts
    /\ net' = [at |-> IF contacts'[p].trust = "rejected" THEN "save" ELSE "open",
               m |-> m, text |-> Form(m),
               auth |-> RowAuth(contacts'[p].trust)]
    /\ UNCHANGED <<directory, stored, ui, asked, presence, history>>

\* A replay is dropped, a text that cannot be opened goes on as it is.
ReceiveOpen ==
    /\ net.at = "open"
    /\ \E found \in PeerDevices(From[net.m]) :
          LET result == Outcome(net.m, net.text, found) IN
          /\ contacts' = IF net.text = "sealed" THEN CacheKeys(From[net.m], found) ELSE contacts
          /\ Open(IF result = "success" THEN {net.m} ELSE {})
          /\ net' = IF result = "replay" THEN Idle
                    ELSE [net EXCEPT
                            !.at = IF net.auth = "trusted" THEN "save" ELSE "count",
                            !.text = IF result = "success" THEN "plain" ELSE @]
    /\ UNCHANGED <<directory, chats, deliveries, ui, asked, presence, letIn, crashes>>

\* increment_contact_pending_count (a contact removed meanwhile has none).
ReceiveCount ==
    /\ net.at = "count"
    /\ contacts' = [contacts EXCEPT ![From[net.m]].count =
                       IF contacts[From[net.m]].trust = "absent" \/ @ = MaxCount THEN @ ELSE @ + 1]
    /\ net' = [net EXCEPT !.at = "save"]
    /\ UNCHANGED <<directory, stored, deliveries, ui, asked, presence, history>>

\* CONTACT_AUTH_REQUIRED: a dialog is queued for the UI thread.
Ask(p) == asked' = asked \cup {p}

ReceiveSave ==
    /\ net.at = "save"
    /\ SaveRow(net.m, net.auth, net.text)
    /\ IF net.auth = "pending" THEN Ask(From[net.m]) ELSE UNCHANGED asked
    /\ net' = IF net.auth = "trusted" THEN [net EXCEPT !.at = "conversation"] ELSE Idle
    /\ UNCHANGED <<contacts, directory, sessions, convs, seen, deliveries, ui, presence, history>>

\* Of a trusted sender, under the lock: the conversation is created if memory
\* does not have it, whatever other one there is with the peer.
ReceiveConversation ==
    /\ net.at = "conversation"
    /\ convs' = [convs EXCEPT ![From[net.m]] = @ \cup {"own"}]
    /\ net' = Idle
    /\ UNCHANGED <<contacts, directory, sessions, rows, seen, deliveries, ui, asked, presence, history>>

-----------------------------------------------------------------------------
(* The UI thread. *)

\* Mutant of PromoteRows: rows the user had rejected are promoted as well.
PromoteAllRows(p, auth) ==
    rows' = [m \in Msgs |-> IF m \in Texts(p) /\ rows[m] # NoRow
                            THEN [rows[m] EXCEPT !.auth = auth] ELSE rows[m]]

\* bulk_update_message_auth_status_by_sender
PromoteRows(p, auth) ==
    rows' = [m \in Msgs |-> IF m \in Texts(p) /\ rows[m].auth = "pending"
                            THEN [rows[m] EXCEPT !.auth = auth] ELSE rows[m]]

\* _show_contact_auth_dialog: yes and no start accept_contact and
\* reject_contact with the rows still pending, cancel leaves all as it is.
Answer(p, reply) ==
    /\ ui = Idle /\ p \in asked
    /\ asked' = asked \ {p}
    /\ IF reply = "cancel" \/ contacts[p].trust = "absent"
       THEN UNCHANGED <<rows, ui, letIn>>
       ELSE /\ PromoteRows(p, reply)
            /\ ui' = [at |-> reply, p |-> p]
            /\ letIn' = letIn \cup IF reply = "trusted" THEN {p} ELSE {}
    /\ UNCHANGED <<contacts, directory, sessions, convs, seen, deliveries, net, presence, opened, crashes>>

\* update_contact_auth_status and clear_contact_pending_count.
AnswerStatus ==
    /\ ui.at \in {"trusted", "rejected"}
    /\ contacts' = [contacts EXCEPT ![ui.p] = SetTrust(ui.p, ui.at)]
    /\ ui' = IF ui.at = "trusted" THEN [ui EXCEPT !.at = "conversation"] ELSE Idle
    /\ UNCHANGED <<directory, stored, deliveries, net, asked, presence, history>>

\* What get_messages gives of a peer that is still sealed (what an earlier
\* version kept is not).
SealedRows(p) == {m \in Texts(p) : rows[m].text = "sealed"}

\* load_messages_for_contact: every row that is still sealed is opened for the
\* view and not written back, whatever its status.
LoadHistory(p) ==
    \E found \in PeerDevices(p) :
       /\ Open({m \in SealedRows(p) : Outcome(m, "sealed", found) = "success"})
       /\ contacts' = IF SealedRows(p) = {} THEN contacts ELSE CacheKeys(p, found)

\* _sync_conversation_after_accept and on_contact_selected: the conversation ...
EnsureConversation ==
    /\ ui.at = "conversation"
    /\ OwnConversation(ui.p)
    /\ ui' = [ui EXCEPT !.at = "history"]
    /\ UNCHANGED <<contacts, directory, sessions, seen, deliveries, net, asked, presence, history>>

\* ... then the history, for the preview or for the view.
ShowHistory ==
    /\ ui.at = "history"
    /\ LoadHistory(ui.p)
    /\ ui' = Idle
    /\ UNCHANGED <<directory, chats, deliveries, net, asked, presence, letIn, crashes>>

\* on_contact_selected
OpenChat(p) ==
    /\ ui = Idle /\ contacts[p].trust # "absent"
    /\ ui' = [at |-> "conversation", p |-> p]
    /\ UNCHANGED <<contacts, directory, stored, deliveries, net, asked, presence, history>>

\* A text or file to send, a text received in the open chat: the same lookup.
UseConversation(p) ==
    /\ ui = Idle
    /\ OwnConversation(p)
    /\ UNCHANGED <<contacts, directory, sessions, seen, deliveries, net, ui, asked, presence, history>>

\* A question to the assistant about the chat, in a thread of its own: its
\* latest messages are loaded the same way (_recent_chat_context_for_contact).
AskAssistant(p) ==
    /\ contacts[p].trust # "absent"
    /\ LoadHistory(p)
    /\ UNCHANGED <<directory, chats, deliveries, net, ui, asked, presence, letIn, crashes>>

\* The directory has a profile of the peer (get_online_user_profiles).
Listed(p) == directory[p] # <<>>

\* resolve_contact_input: only a peer the directory shows can be added (the
\* presence sync it starts with is the two Presence actions).
Resolves(p) == Listed(p)

\* start_chat_by_id: added as trusted; an existing contact is only selected.
AddById(p) ==
    /\ ui = Idle /\ Resolves(p) /\ contacts[p].trust = "absent"
    /\ contacts' = [contacts EXCEPT ![p] = AddContact(p, <<>>, TRUE, "trusted")]
    /\ letIn' = letIn \cup {p}
    /\ UNCHANGED <<directory, stored, deliveries, net, ui, asked, presence, opened, crashes>>

\* delete_contact: the rows stay.
DeleteContact(p) ==
    /\ ui = Idle /\ contacts[p].trust # "absent"
    /\ contacts' = [contacts EXCEPT ![p] = NoContact]
    /\ UNCHANGED <<directory, stored, deliveries, net, ui, asked, presence, history>>

-----------------------------------------------------------------------------
(* Presence: sync_contact_presence_from_online_profiles. *)

\* The Hub's directory changes (_apply_online_user_list).
DirectoryChange(p) ==
    /\ \E list \in Directories : list # directory[p] /\ directory' = [directory EXCEPT ![p] = list]
    /\ UNCHANGED <<contacts, stored, deliveries, net, ui, asked, presence, history>>

\* _schedule_presence_refresh: one worker at a time.
PresenceFree == presence = <<>>

\* get_contacts returns copies; those whose status or device changed are
\* written later, one by one, with the status of the copy.
PresenceRead ==
    LET stale(p) ==
            /\ contacts[p].trust # "absent"
            /\ \/ contacts[p].online # Listed(p)
               \/ /\ Listed(p)
                  /\ \/ contacts[p].keys = <<>>
                     \/ contacts[p].keys # <<>> /\ Head(contacts[p].keys) # Head(directory[p])
        copy(p) == [p |-> p, trust |-> contacts[p].trust, online |-> Listed(p),
                    keys |-> IF Listed(p) THEN Merge(<<Head(directory[p])>>, contacts[p].keys)
                             ELSE contacts[p].keys]
    IN
    /\ PresenceFree
    /\ \E work \in SetToSeqs({p \in Peers : stale(p)}) :
          /\ work # <<>>
          /\ presence' = [i \in 1 .. Len(work) |-> copy(work[i])]
    /\ UNCHANGED <<contacts, directory, stored, deliveries, net, ui, asked, history>>

PresenceWrite ==
    /\ presence # <<>>
    /\ LET w == Head(presence) IN
       contacts' = [contacts EXCEPT ![w.p] = AddContact(w.p, w.keys, w.online, w.trust)]
    /\ presence' = Tail(presence)
    /\ UNCHANGED <<directory, stored, deliveries, net, ui, asked, history>>

-----------------------------------------------------------------------------
\* The process dies and is started again: what its threads held is gone, and
\* the conversations are loaded.
Crash ==
    /\ crashes < MaxCrashes /\ crashes' = crashes + 1
    /\ net' = Idle /\ ui' = Idle /\ asked' = {} /\ presence' = <<>>
    /\ LoadConversations
    /\ UNCHANGED <<contacts, directory, sessions, seen, deliveries, letIn, opened>>

NetStep == ReceiveOpen \/ ReceiveCount \/ ReceiveSave \/ ReceiveConversation
UiStep == AnswerStatus \/ EnsureConversation \/ ShowHistory

Next ==
    \/ NetStep \/ UiStep \/ PresenceRead \/ PresenceWrite \/ Crash
    \/ \E m \in Msgs : Receive(m)
    \/ \E p \in Peers :
          \/ \E reply \in {"trusted", "rejected", "cancel"} : Answer(p, reply)
          \/ OpenChat(p) \/ UseConversation(p) \/ AskAssistant(p) \/ AddById(p) \/ DeleteContact(p) \/ DirectoryChange(p)

Spec == Init /\ [][Next]_vars

-----------------------------------------------------------------------------
TypeOK ==
    /\ contacts \in [Peers -> [trust : Trusts, count : 0 .. MaxCount, online : BOOLEAN,
                               keys : Seq(Devices)]]
    /\ \A p \in Peers : contacts[p].trust = "absent" => contacts[p] = NoContact
    /\ directory \in [Peers -> Directories]
    /\ sessions \in [Peers -> SUBSET Devices]
    /\ convs \in [Peers -> SUBSET Folders]
    /\ rows \in [Msgs -> [auth : {"none", "pending", "trusted", "rejected"},
                          text : {"none", "sealed", "plain"}, conv : Folders \cup {"none"}]]
    /\ seen \subseteq Msgs /\ asked \subseteq Peers
    /\ letIn \subseteq Peers
    /\ opened \in [Msgs -> Nat]

\* AuthorisedOnly: a text belongs to the formal chat only if the user has at
\* some time let its sender in, whatever threads and restarts come between.
AuthorisedOnly ==
    \A m \in Msgs : rows[m].auth = "trusted" => From[m] \in letIn

\* OpenedOnce: a sealed text is decrypted at most once, over redelivery by the
\* Hub, history loading by the UI thread and restarts.
OpenedOnce == \A m \in Msgs : opened[m] <= 1

\* InboxSpec: the rows, the conversations, the peers let in and the openings are a
\* GuardedInbox: an answer settles exactly the waiting rows of its peer, rows
\* settled before change only when their text is delivered again, and a row goes
\* only with the conversation it is kept in, when that one is merged away into
\* another with the same peer (_get_or_create_conversation_id,
\* _deduplicate_conversations).
Guarded == INSTANCE GuardedInbox WITH
    Places <- Folders, NoPlace <- "none",
    status <- [m \in Msgs |-> rows[m].auth],
    place <- [m \in Msgs |-> rows[m].conv], folders <- convs
InboxSpec == Guarded!Spec
=============================================================================
