------------------------------- MODULE GroupChat -------------------------------
(***************************************************************************)
(* One group: its members' clients, the Hub's routing table and the        *)
(* packets between them.  No packet carries a version of the membership,   *)
(* so whichever snapshot the Hub or a client handles last replaces what it *)
(* had.  Each client keeps group keys by version; a key travels only in    *)
(* the packets of an update, sealed for one member with the direct session *)
(* key (whose version is 1: nothing rotates direct sessions).  A key is     *)
(* told by its maker and version: one a member makes again after taking    *)
(* over version 1 is not told from its earlier one, which only lets more   *)
(* messages be opened than the code would.                                 *)
(***************************************************************************)
EXTENDS Naturals, FiniteSets, Sequences

CONSTANTS
    Users,
    Creator,        \* the user who creates the group
    Msgs,           \* group messages and files
    MaxOps,         \* bound on membership operations
    MaxRestarts,    \* bound on restarts of clients and of the Hub
    None

ASSUME GroupChatAssumption ==
    /\ Creator \in Users /\ None \notin Users
    /\ None \notin [by : Users, ver : Nat, key : Users, barred : SUBSET Users]
    /\ MaxOps \in Nat /\ MaxRestarts \in Nat

VARIABLES
    store,      \* [Users -> [Users -> Status]]: table group_members
    active,     \* [Users -> SUBSET Users \cup {None}]: _group_members in memory
    meta,       \* [Users -> packet or NoPackets]: key packets in the group record
    keys,       \* [Users -> [1 .. MaxOps + 1 -> Users \cup {None}]]: whose key
    current,    \* [Users -> 0 .. MaxOps + 1]: version of the active key
    imported,   \* [Users -> BOOLEAN]: the id of "its" key packet was seen
    route,      \* the Hub's routing table: SUBSET Users \cup {None}
    up, down,   \* [Users -> Seq(packet)]: to and from the Hub
    invited,    \* users with an invitation dialog waiting
    text,       \* [Users -> [Msgs -> {"none", "sealed", "plain"}]]: messages
    origin,     \* [Msgs -> None or [by, ver, key, barred]]: how it was sealed
    opens,      \* history: [Users -> [Msgs -> Nat]]: decryptions
    consented,  \* history: users who created the group or accepted
    ops, restarts

vars == <<store, active, meta, keys, current, imported, route, up, down, invited,
          text, origin, opens, consented, ops, restarts>>
members == <<store, active, meta, invited, consented>>
keyring == <<keys, current, imported>>
messages == <<text, origin, opens>>

Status == {"none", "invited", "active", "removed"}
Versions == 1 .. MaxOps + 1
NoPackets == [by |-> None, ver |-> 0, to |-> {}]
Active(view) == {u \in Users : view[u] = "active"}

Init ==
    /\ store = [u \in Users |-> [x \in Users |-> "none"]]
    /\ active = [u \in Users |-> None]
    /\ meta = [u \in Users |-> NoPackets]
    /\ keys = [u \in Users |-> [v \in Versions |-> None]]
    /\ current = [u \in Users |-> 0]
    /\ imported = [u \in Users |-> FALSE]
    /\ route = None
    /\ up = [u \in Users |-> <<>>] /\ down = [u \in Users |-> <<>>]
    /\ invited = {} /\ consented = {}
    /\ text = [u \in Users |-> [m \in Msgs |-> "none"]]
    /\ origin = [m \in Msgs |-> None]
    /\ opens = [u \in Users |-> [m \in Msgs |-> 0]]
    /\ ops = 0 /\ restarts = 0

-----------------------------------------------------------------------------
(* Keys. *)

\* save_group_key: it replaces a key of that version and becomes the active one.
SaveKey(u, version, by) ==
    /\ keys' = [keys EXCEPT ![u][version] = by]
    /\ current' = [current EXCEPT ![u] = version]

\* rotate_group_key: the version after the active one.
Rotate(u) == SaveKey(u, current[u] + 1, u)

\* The packet set of a snapshot: those of the known who are in it.
PacketsFor(view, known) == {x \in known : view[x] \in {"invited", "active"}}

\* Mutant of AttachKeys: only the first key is made, later ones are reused.
AttachOneKey(u, view) ==
    \E known \in SUBSET (Users \ {u}) :
       /\ IF current[u] = 0 THEN Rotate(u) ELSE UNCHANGED <<keys, current>>
       /\ UNCHANGED imported
       /\ meta' = [meta EXCEPT ![u] = [by |-> u, ver |-> current'[u], to |-> PacketsFor(view, known)]]

\* _attach_group_key_packets: a new key, and a packet for every other member
\* of the snapshot whose device is known.
AttachKeys(u, view) ==
    \E known \in SUBSET (Users \ {u}) :
       /\ Rotate(u)
       /\ UNCHANGED imported
       /\ meta' = [meta EXCEPT ![u] = [by |-> u, ver |-> current'[u], to |-> PacketsFor(view, known)]]

\* _import_group_key_packet_if_present with the update of `from`: only a packet
\* its sender sealed can be opened.  Its id names version 1 whatever the version
\* it carries: a later one is refused as seen, or fails after the id was noted.
ImportKey(u, from, packets) ==
    IF from = u \/ u \notin packets.to \/ packets.by # from \/ imported[u]
    THEN UNCHANGED keyring
    ELSE /\ imported' = [imported EXCEPT ![u] = TRUE]
         /\ IF packets.ver = 1 THEN SaveKey(u, 1, from) ELSE UNCHANGED <<keys, current>>

-----------------------------------------------------------------------------
(* The members' operations (UI thread). *)

\* The update goes to the Hub, then a snapshot of what is active in memory;
\* neither is repeated if the client is not connected at that moment.
Push(u, view, with) ==
    LET update == [kind |-> "update", from |-> u, view |-> view, packets |-> with]
        sync == [kind |-> "sync", from |-> u, view |->
                   [x \in Users |-> IF x \in active'[u] THEN "active" ELSE "none"]]
    IN \E sent \in {<<>>, <<update, sync>>} : up' = [up EXCEPT ![u] = @ \o sent]

\* save_group_members: the members of the snapshot are stored one by one,
\* others keep their row.
Stored(u, view) == [x \in Users |-> IF view[x] = "none" THEN store[u][x] ELSE view[x]]

\* _persist_group_state: memory holds the active ones of the snapshot.
Persist(u, view) ==
    /\ store' = [store EXCEPT ![u] = Stored(u, view)]
    /\ active' = [active EXCEPT ![u] = Active(view)]

\* _normalize_group_members and create_group
CreateGroup ==
    \E others \in SUBSET (Users \ {Creator}) :
       LET view == [x \in Users |-> IF x = Creator THEN "active"
                                    ELSE IF x \in others THEN "invited" ELSE "none"]
       IN
       /\ active[Creator] = None /\ current[Creator] = 0
       /\ AttachKeys(Creator, view) /\ Persist(Creator, view)
       /\ Push(Creator, view, meta'[Creator])
       /\ consented' = consented \cup {Creator}
       /\ UNCHANGED <<route, down, invited, messages, ops, restarts>>

\* add_group_member, remove_group_member: any active member may, from the
\* stored table; a member who is active already is not added again.
ChangeMember(u, x, status) ==
    LET view == [store[u] EXCEPT ![x] = status] IN
    /\ ops < MaxOps /\ ops' = ops + 1
    /\ active[u] # None /\ u \in active[u] /\ x # u
    /\ IF status = "invited" THEN store[u][x] # "active"
       ELSE store[u][x] \in {"invited", "active"}
    /\ AttachKeys(u, view) /\ Persist(u, view)
    /\ Push(u, view, meta'[u])
    /\ UNCHANGED <<route, down, invited, messages, consented, restarts>>

\* _show_group_invite_dialog: yes is accept_group_invite.
AcceptInvite(u) ==
    LET view == [store[u] EXCEPT ![u] = "active"] IN
    /\ u \in invited /\ invited' = invited \ {u}
    /\ IF store[u][u] # "invited" THEN UNCHANGED <<store, active, up, consented>>
       ELSE /\ Persist(u, view)
            /\ Push(u, view, meta[u])
            /\ consented' = consented \cup {u}
    /\ UNCHANGED <<meta, keyring, route, down, messages, ops, restarts>>

\* No is reject_group_invite: the row and the update, no snapshot; the group
\* in memory is left as it is.
RejectInvite(u) ==
    LET view == [store[u] EXCEPT ![u] = "removed"] IN
    /\ u \in invited /\ invited' = invited \ {u}
    /\ store' = [store EXCEPT ![u] = view]
    /\ \E sent \in {<<>>, <<[kind |-> "update", from |-> u, view |-> view, packets |-> meta[u]]>>} :
          up' = [up EXCEPT ![u] = @ \o sent]
    /\ UNCHANGED <<active, meta, keyring, route, down, messages, consented, ops, restarts>>

\* _get_active_group_for_current_user
MaySend(u) == active[u] # None /\ u \in active[u]

\* encrypt_payload takes the active key; one is made up if there is none.
SealWith(u) ==
    /\ IF current[u] = 0 THEN Rotate(u) ELSE UNCHANGED <<keys, current>>
    /\ UNCHANGED imported

\* Whom u has removed from the group with the key it now seals with: the key is
\* the one u made then, and they got none of its packets.
Barred(u, key) ==
    {x \in Users \ {u} : /\ store[u][x] = "removed" /\ x \notin meta[u].to
                         /\ meta[u].by = u /\ meta[u].ver = current'[u] /\ key = u}

\* What the transport takes counts as sent, and the own row holds the plain
\* text; it may still drop the frame.
HandOver(u, m) ==
    /\ LET key == keys'[u][current'[u]] IN
       origin' = [origin EXCEPT ![m] =
           [by |-> u, ver |-> current'[u], key |-> key, barred |-> Barred(u, key)]]
    /\ \E frames \in {<<>>, <<[kind |-> "message", from |-> u, m |-> m]>>} :
          up' = [up EXCEPT ![u] = @ \o frames]
    /\ text' = [text EXCEPT ![u][m] = "plain"]

\* Refused without a connection, after the key was made.
Sends(u, m) ==
    /\ origin[m] = None /\ MaySend(u)
    /\ SealWith(u)
    /\ HandOver(u, m) \/ UNCHANGED <<origin, up, text>>
    /\ UNCHANGED <<members, route, down, opens, ops, restarts>>

\* send_group_message, _send_group_temp_file (a failed upload ends it before
\* anything is sealed) and send_file_event_message.
SendMessage(u, m) == Sends(u, m)
SendTempFile(u, m) == Sends(u, m)
SendFileEvent(u, m) == Sends(u, m)

-----------------------------------------------------------------------------
(* The Hub. *)

\* Mutant of Routed: those who were only invited are routed to as well.
RoutedInvited(view) == {u \in Users : view[u] \in {"invited", "active"}}

\* _apply_group_payload: the active of a snapshot become the routing table.
Routed(view) == Active(view)

\* An update is handed to the active and invited of its snapshot, a message to
\* those in the table if its sender is one of them.  (HubDelivery has what may
\* happen on the way.)
Addressed(u, p) ==
    CASE p.kind = "update" -> {x \in Users : p.view[x] \in {"invited", "active"}} \ {u}
      [] p.kind = "sync" -> {}
      [] OTHER -> IF route = None \/ u \notin route THEN {} ELSE route \ {u}

HubHandle(u) ==
    LET p == Head(up[u])
        to == Addressed(u, p)
    IN
    /\ up[u] # <<>>
    /\ up' = [up EXCEPT ![u] = Tail(@)]
    /\ route' = IF p.kind \in {"update", "sync"} THEN Routed(p.view) ELSE route
    /\ down' = [x \in Users |-> IF x \in to THEN Append(down[x], p) ELSE down[x]]
    /\ UNCHANGED <<members, keyring, messages, ops, restarts>>

\* The table is in memory only; clients send theirs when they register again.
HubRestart ==
    /\ restarts < MaxRestarts /\ restarts' = restarts + 1
    /\ route' = None
    /\ up' = [u \in Users |-> IF active[u] = None THEN <<>>
                ELSE <<[kind |-> "sync", from |-> u, view |->
                        [x \in Users |-> IF x \in active[u] THEN "active" ELSE "none"]]>>]
    /\ UNCHANGED <<members, keyring, down, messages, ops>>

-----------------------------------------------------------------------------
(* The members' network threads. *)

\* _on_group_update_received: the key first; then nothing unless the snapshot
\* has the user, and its sender as active.  Still invited: stored only.
ReceiveUpdate(u) ==
    LET p == Head(down[u])
        valid == p.view[u] \in {"invited", "active"} /\ p.view[p.from] = "active"
    IN
    /\ down[u] # <<>> /\ p.kind = "update"
    /\ down' = [down EXCEPT ![u] = Tail(@)]
    /\ ImportKey(u, p.from, p.packets)
    /\ meta' = IF valid THEN [meta EXCEPT ![u] = p.packets] ELSE meta
    /\ CASE valid /\ p.view[u] = "active" -> Persist(u, p.view) /\ UNCHANGED invited
         [] valid /\ p.view[u] = "invited" ->
              /\ invited' = IF store[u][u] # "invited" THEN invited \cup {u} ELSE invited
              /\ store' = [store EXCEPT ![u] = Stored(u, p.view)]
              /\ UNCHANGED active
         [] OTHER -> UNCHANGED <<store, active, invited>>
    /\ UNCHANGED <<route, up, messages, consented, ops, restarts>>

\* get_group_key of the message's version must be the key it was sealed with.
HasKey(u, m) == keys[u][origin[m].ver] = origin[m].key

\* Mutant of Opening: without the record of messages seen.
OpeningUnchecked(u, m) ==
    IF ~HasKey(u, m) THEN "failed" ELSE "success"

\* decrypt_payload: a message that can be opened is noted, and refused if it was
\* noted before.
Opening(u, m) ==
    IF ~HasKey(u, m) THEN "failed"
    ELSE IF opens[u][m] > 0 THEN "replay" ELSE "success"

\* _on_group_message_received: a client that has no such group makes one of the
\* sender and itself, both active.  What cannot be opened is kept sealed, a
\* replay is dropped.
ReceiveMessage(u) ==
    LET p == Head(down[u])
        two == [x \in Users |-> IF x \in {u, p.from} THEN "active" ELSE "none"]
        result == Opening(u, p.m)
    IN
    /\ down[u] # <<>> /\ p.kind = "message"
    /\ down' = [down EXCEPT ![u] = Tail(@)]
    /\ IF active[u] = None THEN Persist(u, two) ELSE UNCHANGED <<store, active>>
    /\ text' = CASE result = "replay" -> text
                 [] result = "success" -> [text EXCEPT ![u][p.m] = "plain"]
                 [] OTHER -> [text EXCEPT ![u][p.m] = "sealed"]
    /\ opens' = IF result = "success" THEN [opens EXCEPT ![u][p.m] = @ + 1] ELSE opens
    /\ UNCHANGED <<meta, invited, keyring, route, up, origin, consented, ops, restarts>>

\* A message the Hub stored may be delivered a second time.
Redeliver(u) ==
    /\ restarts < MaxRestarts /\ restarts' = restarts + 1
    /\ \E m \in Msgs :
          /\ text[u][m] # "none" /\ origin[m] # None /\ origin[m].by # u
          /\ down' = [down EXCEPT ![u] =
                        Append(@, [kind |-> "message", from |-> origin[m].by, m |-> m])]
    /\ UNCHANGED <<members, keyring, route, up, messages, ops>>

\* get_groups_for_user: those whose row says the user is active.
Loaded(u) == IF store[u][u] = "active" THEN Active(store[u]) ELSE None

\* The client dies and is started: _load_groups; start() sends its snapshot.
Restart(u) ==
    /\ restarts < MaxRestarts /\ restarts' = restarts + 1
    /\ active' = [active EXCEPT ![u] = Loaded(u)]
    /\ invited' = invited \ {u}
    /\ up' = [up EXCEPT ![u] = IF active'[u] = None THEN @
                ELSE Append(@, [kind |-> "sync", from |-> u, view |->
                   [x \in Users |-> IF x \in active'[u] THEN "active" ELSE "none"]])]
    /\ UNCHANGED <<store, meta, keyring, route, down, messages, consented, ops>>

Next ==
    \/ CreateGroup \/ HubRestart
    \/ \E u \in Users :
          \/ AcceptInvite(u) \/ RejectInvite(u)
          \/ HubHandle(u) \/ ReceiveUpdate(u) \/ ReceiveMessage(u)
          \/ Redeliver(u) \/ Restart(u)
          \/ \E x \in Users : ChangeMember(u, x, "invited") \/ ChangeMember(u, x, "removed")
          \/ \E m \in Msgs : SendMessage(u, m) \/ SendTempFile(u, m) \/ SendFileEvent(u, m)

Spec == Init /\ [][Next]_vars

-----------------------------------------------------------------------------
TypeOK ==
    /\ store \in [Users -> [Users -> Status]]
    /\ \A u \in Users : active[u] = None \/ active[u] \subseteq Users
    /\ keys \in [Users -> [Versions -> Users \cup {None}]]
    /\ current \in [Users -> 0 .. MaxOps + 1]
    /\ imported \in [Users -> BOOLEAN]
    /\ \A u \in Users : current[u] # 0 => keys[u][current[u]] # None
    /\ route = None \/ route \subseteq Users
    /\ invited \subseteq Users /\ consented \subseteq Users
    /\ text \in [Users -> [Msgs -> {"none", "sealed", "plain"}]]

\* ActiveByConsent: nobody counts as active member, in any client's tables or in
\* the Hub's routing, who did not create the group or accept an invitation;
\* snapshots that arrive late or twice and placeholder groups included.
ActiveByConsent ==
    \A u \in Users :
        /\ Active(store[u]) \subseteq consented
        /\ active[u] # None => active[u] \subseteq consented
        /\ route # None => route \subseteq consented

\* ReadByMembers: whoever has a message in readable form consented to be in the
\* group, and nobody can read it whom its sender had removed with the key it is
\* sealed with.  (A key of version 1 another member made and whose packet comes
\* late replaces that key, and the removed may have it.)
ReadByMembers ==
    \A u \in Users, m \in Msgs : text[u][m] = "plain" =>
        u \in consented /\ u \notin origin[m].barred

\* OpenedOnce: a message is decrypted once, however often it is delivered.
OpenedOnce == \A u \in Users, m \in Msgs : opens[u][m] <= 1
=============================================================================
