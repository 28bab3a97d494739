--------------------------- MODULE DirectInbox_proofs ---------------------------
(* Proofs about the inbox, for any number of peers, devices, texts,           *)
(* deliveries and crashes: only what the user let in is in the formal chat,   *)
(* and no text is decrypted twice.  The status "trusted" is copied between    *)
(* threads (into the text a thread is storing, the contacts the presence      *)
(* worker writes back, the answer being carried out): each copy is backed by  *)
(* the user's having let the peer in, which is never forgotten.  The types follow, and last  *)
(* that the inbox is a GuardedInbox.                                          *)
EXTENDS DirectInbox, FiniteSetTheorems, WellFoundedInduction, TLAPS

Fields == {"trust", "count", "online", "keys"}
Auths == {"none", "pending", "trusted", "rejected"}
Forms == {"none", "sealed", "plain"}
Storing == [at : {"open", "count", "save", "conversation"}, m : Msgs, text : {"plain", "sealed"},
            auth : Auths \ {"none"}]
Answering == [at : {"trusted", "rejected", "conversation", "history"}, p : Peers]
Stored == [auth : Auths, text : Forms, conv : Folders \cup {"none"}]

Granted(p) == p \in letIn

InboxTypes ==
    /\ DOMAIN contacts = Peers /\ \A p \in Peers : DOMAIN contacts[p] = Fields
    /\ letIn \subseteq Peers
    /\ rows \in [Msgs -> Stored]
    /\ convs \in [Peers -> SUBSET Folders]
    /\ opened \in [Msgs -> Nat]
    /\ net \in Storing \cup {Idle}
    /\ ui \in Answering \cup {Idle}
    /\ \E S : presence \in Seq(S)

ContactsBacked == \A p \in Peers : contacts[p].trust = "trusted" => Granted(p)

PresenceBacked ==
    \A i \in 1 .. Len(presence) :
        presence[i].p \in Peers /\ (presence[i].trust = "trusted" => Granted(presence[i].p))

NetBacked == net # Idle /\ net.auth = "trusted" => Granted(From[net.m])

UiBacked == ui # Idle /\ ui.at = "trusted" => Granted(ui.p)

\* What was decrypted is on record.
OpenedIsSeen == \A m \in Msgs : opened[m] <= 1 /\ (m \notin seen => opened[m] = 0)

InboxInv ==
    /\ InboxTypes /\ ContactsBacked /\ PresenceBacked /\ NetBacked /\ UiBacked
    /\ AuthorisedOnly /\ OpenedIsSeen

LEMMA InboxStart == Init => InboxInv
<1> SUFFICES ASSUME Init PROVE InboxInv
  OBVIOUS
<1>1. contacts \in [Peers -> {NoContact} \cup
                          {[NoContact EXCEPT !.trust = t] : t \in {"unknown", "trusted"}}]
      /\ \A p \in Peers : contacts[p].trust = "trusted" => p \in letIn
  BY DEF Init
<1>2. ASSUME NEW p \in Peers PROVE DOMAIN contacts[p] = Fields
  BY <1>1 DEF NoContact, Fields
<1>3. presence \in Seq({}) /\ Len(presence) = 0
  BY DEF Init
<1>4. PICK older \in SUBSET {m \in Msgs : Via[m] = Plain} :
        /\ rows = [m \in Msgs |-> IF m \in older
                     THEN [auth |-> "trusted", text |-> "plain", conv |-> "old"] ELSE NoRow]
        /\ letIn = {From[m] : m \in older}
        /\ convs \in [Peers -> {{}, {"old"}}]
  BY DEF Init
<1>5. rows \in [Msgs -> Stored] /\ letIn \subseteq Peers /\ AuthorisedOnly
  <2>1. \A m \in Msgs : rows[m] \in Stored /\ (rows[m].auth = "trusted" => m \in older)
    BY <1>4 DEF NoRow, Auths, Forms, Stored, Folders
  <2> QED BY <1>4, <2>1, DirectInboxAssumption DEF AuthorisedOnly
<1>6. convs \in [Peers -> SUBSET Folders] /\ opened \in [Msgs -> Nat]
  <2>1. {} \in SUBSET Folders /\ {"old"} \in SUBSET Folders
    BY DEF Folders
  <2> QED BY <1>4, <2>1 DEF Init
<1>7. InboxTypes
  BY <1>1, <1>2, <1>3, <1>5, <1>6 DEF Init, InboxTypes
<1>8. ContactsBacked /\ PresenceBacked /\ NetBacked /\ UiBacked /\ OpenedIsSeen
  BY <1>1, <1>3 DEF Init, ContactsBacked, PresenceBacked, NetBacked, UiBacked, Granted, OpenedIsSeen
<1> QED BY <1>5, <1>7, <1>8 DEF InboxInv

-----------------------------------------------------------------------------
(* What the steps are made of. *)

\* Keys found for a peer are kept without a word about trust.
LEMMA CacheKeepsTrust ==
    ASSUME InboxInv, NEW p \in Peers, NEW found, contacts' = CacheKeys(p, found)
    PROVE  /\ DOMAIN contacts' = Peers
           /\ \A q \in Peers : DOMAIN contacts'[q] = Fields /\ contacts'[q].trust = contacts[q].trust
<1>1. DOMAIN contacts = Peers /\ \A q \in Peers : DOMAIN contacts[q] = Fields
  BY DEF InboxInv, InboxTypes
<1>2. CASE contacts' = contacts
  BY <1>1, <1>2
<1>3. CASE contacts' = [contacts EXCEPT ![p].keys = Merge(found, @)]
  BY <1>1, <1>3 DEF Fields
<1> QED BY <1>2, <1>3 DEF CacheKeys

\* A text is only opened when it is not on record.
LEMMA OpenKeeps ==
    ASSUME InboxInv, NEW M, \A m \in M : m \notin seen, Open(M)
    PROVE  opened' \in [Msgs -> Nat] /\ OpenedIsSeen'
<1>1. opened \in [Msgs -> Nat] /\ OpenedIsSeen
  BY DEF InboxInv, InboxTypes
<1>2. opened' = [m \in Msgs |-> IF m \in M THEN opened[m] + 1 ELSE opened[m]]
      /\ seen' = seen \cup M
  BY DEF Open, Note
<1> QED BY <1>1, <1>2 DEF OpenedIsSeen

LEMMA SuccessIsNew ==
    ASSUME NEW m, NEW text, NEW found, Outcome(m, text, found) = "success"
    PROVE  m \notin seen
BY DEF Outcome

LEMMA HistoryKeeps ==
    ASSUME InboxInv, NEW p \in Peers, LoadHistory(p)
    PROVE  /\ opened' \in [Msgs -> Nat] /\ OpenedIsSeen'
           /\ DOMAIN contacts' = Peers
           /\ \A q \in Peers : DOMAIN contacts'[q] = Fields /\ contacts'[q].trust = contacts[q].trust
<1>1. PICK found \in PeerDevices(p) :
        /\ Open({m \in SealedRows(p) : Outcome(m, "sealed", found) = "success"})
        /\ contacts' = contacts \/ contacts' = CacheKeys(p, found)
  BY DEF LoadHistory
<1>2. opened' \in [Msgs -> Nat] /\ OpenedIsSeen'
  BY <1>1, OpenKeeps, SuccessIsNew
<1>3. CASE contacts' = contacts
  BY <1>2, <1>3 DEF InboxInv, InboxTypes
<1>4. CASE contacts' = CacheKeys(p, found)
  BY <1>2, <1>4, CacheKeepsTrust
<1> QED BY <1>1, <1>3, <1>4

\* Conversations come and go: what stays of the rows is as it was.
LEMMA RearrangeKeeps ==
    ASSUME InboxInv, NEW new \in [Peers -> SUBSET Folders], Rearrange(new), UNCHANGED letIn
    PROVE  rows' \in [Msgs -> Stored] /\ convs' \in [Peers -> SUBSET Folders] /\ AuthorisedOnly'
<1>1. \A m \in Msgs : rows'[m] = NoRow \/ rows'[m] = rows[m]
  BY DEF Rearrange
<1>2. NoRow \in Stored /\ NoRow.auth # "trusted"
  BY DEF NoRow, Stored, Auths, Forms
<1>3. rows \in [Msgs -> Stored]
  BY DEF InboxInv, InboxTypes
<1> QED BY <1>1, <1>2, <1>3 DEF Rearrange, InboxInv, AuthorisedOnly

LEMMA OwnRearranges ==
    ASSUME InboxInv, NEW p \in Peers, OwnConversation(p)
    PROVE  \E new \in [Peers -> SUBSET Folders] :
              Rearrange(new) /\ new[p] # {} /\ \A q \in Peers \ {p} : new[q] = convs[q]
<1>1. convs \in [Peers -> SUBSET Folders]
  BY DEF InboxInv, InboxTypes
<1>2. PICK new \in {convs[p] \cup {"own"}, {"own"}} : Rearrange([convs EXCEPT ![p] = new])
  BY DEF OwnConversation
<1>3. new \in SUBSET Folders /\ new # {}
  BY <1>1, <1>2 DEF Folders
<1> QED BY <1>1, <1>2, <1>3

\* Steps that grant and copy nothing, whatever they do to keys and counts.
LEMMA QuietKeeps ==
    ASSUME InboxInv,
           DOMAIN contacts' = Peers,
           \A q \in Peers : DOMAIN contacts'[q] = Fields /\ contacts'[q].trust = contacts[q].trust,
           opened' \in [Msgs -> Nat] /\ OpenedIsSeen',
           UNCHANGED <<rows, convs, presence, letIn>>,
           net' = Idle \/ UNCHANGED net, ui' = Idle \/ UNCHANGED ui
    PROVE  InboxInv'
<1>1. InboxTypes'
  BY DEF InboxInv, InboxTypes
<1>2. ContactsBacked' /\ PresenceBacked' /\ AuthorisedOnly'
  BY DEF InboxInv, ContactsBacked, PresenceBacked, AuthorisedOnly, Granted
<1>3. NetBacked'
  BY DEF InboxInv, NetBacked, Granted, Idle
<1>4. UiBacked'
  BY DEF InboxInv, UiBacked, Granted, Idle
<1> QED BY <1>1, <1>2, <1>3, <1>4 DEF InboxInv

\* One contact is replaced: it may be trusted if its peer is let in.
LEMMA ContactKeeps ==
    ASSUME InboxInv, NEW p \in Peers, NEW c, DOMAIN c = Fields,
           contacts' = [contacts EXCEPT ![p] = c],
           \A q \in Peers : Granted(q) => Granted(q)',
           c.trust = "trusted" => Granted(p)'
    PROVE  /\ DOMAIN contacts' = Peers /\ \A q \in Peers : DOMAIN contacts'[q] = Fields
           /\ contacts'[p] = c /\ ContactsBacked'
<1>1. DOMAIN contacts = Peers /\ \A q \in Peers : DOMAIN contacts[q] = Fields
  BY DEF InboxInv, InboxTypes
<1>2. contacts'[p] = c /\ \A q \in Peers \ {p} : contacts'[q] = contacts[q]
  BY <1>1
<1>3. DOMAIN contacts' = Peers /\ \A q \in Peers : DOMAIN contacts'[q] = Fields
  BY <1>1, <1>2
<1>4. ContactsBacked'
  BY <1>2 DEF InboxInv, ContactsBacked
<1> QED BY <1>2, <1>3, <1>4

LEMMA AddedContact ==
    ASSUME InboxInv, NEW p \in Peers, NEW keys, NEW online, NEW trust
    PROVE  LET c == AddContact(p, keys, online, trust)
           IN DOMAIN c = Fields /\ (c.trust = "trusted" => trust = "trusted" \/ contacts[p].trust = "trusted")
<1>1. DOMAIN contacts[p] = Fields
  BY DEF InboxInv, InboxTypes
<1>2. CASE contacts[p].trust = "absent"
  BY <1>2 DEF AddContact, Fields
<1>3. CASE contacts[p].trust # "absent"
  <2>1. AddContact(p, keys, online, trust) =
          [contacts[p] EXCEPT !.trust = IF trust = "unknown" THEN @ ELSE trust,
                              !.online = online, !.keys = Merge(keys, @)]
    BY <1>3 DEF AddContact
  <2> QED BY <1>1, <2>1 DEF Fields
<1> QED BY <1>2, <1>3

LEMMA SetContact ==
    ASSUME InboxInv, NEW p \in Peers, NEW trust
    PROVE  LET c == SetTrust(p, trust)
           IN DOMAIN c = Fields /\ (c.trust = "trusted" => trust = "trusted" \/ contacts[p].trust = "trusted")
<1>1. DOMAIN contacts[p] = Fields
  BY DEF InboxInv, InboxTypes
<1>2. CASE contacts[p].trust = "absent"
  BY <1>1, <1>2 DEF SetTrust
<1>3. CASE contacts[p].trust # "absent"
  <2>1. SetTrust(p, trust) =
          [contacts[p] EXCEPT !.trust = trust,
             !.count = IF trust \in {"trusted", "rejected"} THEN 0 ELSE @]
    BY <1>3 DEF SetTrust
  <2> QED BY <1>1, <2>1 DEF Fields
<1> QED BY <1>2, <1>3

-----------------------------------------------------------------------------
(* The network thread. *)

LEMMA ReceiveKeeps ==
    ASSUME InboxInv, NEW m \in Msgs, Receive(m)
    PROVE  InboxInv'
<1> DEFINE p == From[m]
<1>1. p \in Peers
  BY DirectInboxAssumption
<1>2. UNCHANGED <<rows, convs, seen, opened, letIn, ui, presence>>
  BY DEF Receive, stored, history
<1>3. /\ DOMAIN contacts' = Peers /\ \A q \in Peers : DOMAIN contacts'[q] = Fields
      /\ ContactsBacked'
  <2>1. \A q \in Peers : Granted(q) => Granted(q)'
    BY <1>2 DEF Granted
  <2>2. CASE contacts' = [contacts EXCEPT ![p] = AddContact(p, <<>>, TRUE, "pending")]
             /\ contacts[p].trust = "absent"
    <3> DEFINE c == AddContact(p, <<>>, TRUE, "pending")
    <3>1. DOMAIN c = Fields /\ c.trust # "trusted"
      BY <2>2 DEF AddContact, Fields
    <3>2. contacts' = [contacts EXCEPT ![p] = c]
      BY <2>2
    <3> HIDE DEF c
    <3> QED BY <1>1, <2>1, <3>1, <3>2, ContactKeeps
  <2>3. CASE contacts' = [contacts EXCEPT ![p] = SetTrust(p, "pending")]
             /\ contacts[p].trust = "unknown"
    <3> DEFINE c == SetTrust(p, "pending")
    <3>1. DOMAIN c = Fields /\ c.trust # "trusted"
      BY <1>1, <2>3, SetContact
    <3>2. contacts' = [contacts EXCEPT ![p] = c]
      BY <2>3
    <3> HIDE DEF c
    <3> QED BY <1>1, <2>1, <3>1, <3>2, ContactKeeps
  <2>4. CASE contacts' = contacts
    BY <1>2, <2>4 DEF InboxInv, InboxTypes, ContactsBacked, Granted
  <2> QED BY <2>2, <2>3, <2>4 DEF Receive
<1>4. net' = [at |-> IF contacts'[p].trust = "rejected" THEN "save" ELSE "open",
              m |-> m, text |-> Form(m), auth |-> RowAuth(contacts'[p].trust)]
  BY DEF Receive
<1>5. net' \in Storing
  BY <1>4 DEF Storing, Form, RowAuth, Auths
<1>6. NetBacked'
  <2>1. net'.auth = "trusted" => contacts'[p].trust = "trusted"
    BY <1>4 DEF RowAuth
  <2>2. net'.m = m
    BY <1>4
  <2> QED BY <1>1, <1>3, <2>1, <2>2 DEF NetBacked, ContactsBacked
<1>7. InboxTypes'
  BY <1>2, <1>3, <1>5 DEF InboxInv, InboxTypes
<1>8. PresenceBacked' /\ UiBacked' /\ AuthorisedOnly' /\ OpenedIsSeen'
  BY <1>2 DEF InboxInv, PresenceBacked, UiBacked, AuthorisedOnly, OpenedIsSeen, Granted
<1> QED BY <1>3, <1>6, <1>7, <1>8 DEF InboxInv

LEMMA OpenStepKeeps ==
    ASSUME InboxInv, ReceiveOpen
    PROVE  InboxInv'
<1>1. net.at = "open" /\ UNCHANGED <<rows, convs, ui, presence, letIn>>
  BY DEF ReceiveOpen, chats
<1>2. net \in Storing /\ net # Idle /\ From[net.m] \in Peers
  BY <1>1, DirectInboxAssumption DEF InboxInv, InboxTypes, Storing, Idle
<1>3. PICK found \in PeerDevices(From[net.m]) :
        LET result == Outcome(net.m, net.text, found) IN
        /\ contacts' = contacts \/ contacts' = CacheKeys(From[net.m], found)
        /\ Open(IF result = "success" THEN {net.m} ELSE {})
        /\ net' = IF result = "replay" THEN Idle
                  ELSE [net EXCEPT
                          !.at = IF net.auth = "trusted" THEN "save" ELSE "count",
                          !.text = IF result = "success" THEN "plain" ELSE @]
  BY DEF ReceiveOpen
<1> DEFINE result == Outcome(net.m, net.text, found)
<1>4. opened' \in [Msgs -> Nat] /\ OpenedIsSeen'
  <2>1. \A m \in (IF result = "success" THEN {net.m} ELSE {}) : m \notin seen
    BY SuccessIsNew
  <2> QED BY <1>3, <2>1, OpenKeeps
<1>5. /\ DOMAIN contacts' = Peers
      /\ \A q \in Peers : DOMAIN contacts'[q] = Fields /\ contacts'[q].trust = contacts[q].trust
  <2>1. CASE contacts' = contacts
    BY <2>1 DEF InboxInv, InboxTypes
  <2>2. CASE contacts' = CacheKeys(From[net.m], found)
    BY <1>2, <2>2, CacheKeepsTrust
  <2> QED BY <1>3, <2>1, <2>2
<1>6. CASE result = "replay"
  <2>1. net' = Idle
    BY <1>3, <1>6
  <2> QED BY <1>1, <1>4, <1>5, <2>1, QuietKeeps
<1>7. CASE result # "replay"
  <2>1. net' = [net EXCEPT !.at = IF net.auth = "trusted" THEN "save" ELSE "count",
                           !.text = IF result = "success" THEN "plain" ELSE @]
    BY <1>3, <1>7
  <2> HIDE DEF result
  <2>2. net' \in Storing /\ net'.m = net.m /\ net'.auth = net.auth
    BY <1>2, <2>1 DEF Storing
  <2>3. InboxTypes'
    BY <1>1, <1>4, <1>5, <2>2 DEF InboxInv, InboxTypes
  <2>4. ContactsBacked' /\ PresenceBacked' /\ UiBacked' /\ AuthorisedOnly'
    BY <1>1, <1>5 DEF InboxInv, ContactsBacked, PresenceBacked, UiBacked, AuthorisedOnly, Granted
  <2>5. NetBacked'
    BY <1>1, <1>2, <2>2 DEF InboxInv, NetBacked, Granted
  <2> QED BY <1>4, <2>3, <2>4, <2>5 DEF InboxInv
<1> QED BY <1>6, <1>7

LEMMA CountKeeps ==
    ASSUME InboxInv, ReceiveCount
    PROVE  InboxInv'
<1>1. net.at = "count" /\ net' = [net EXCEPT !.at = "save"]
      /\ UNCHANGED <<rows, convs, seen, opened, ui, presence, letIn>>
  BY DEF ReceiveCount, stored, history
<1>2. net \in Storing /\ net # Idle
  BY <1>1 DEF InboxInv, InboxTypes, Storing, Idle
<1>3. net' \in Storing /\ net'.m = net.m /\ net'.auth = net.auth
  BY <1>1, <1>2 DEF Storing
<1>4. \E n : contacts' = [contacts EXCEPT ![From[net.m]].count = n]
  BY DEF ReceiveCount
<1>5. /\ DOMAIN contacts' = Peers
      /\ \A q \in Peers : DOMAIN contacts'[q] = Fields /\ contacts'[q].trust = contacts[q].trust
  BY <1>4 DEF InboxInv, InboxTypes, Fields
<1>6. InboxTypes'
  BY <1>1, <1>3, <1>5 DEF InboxInv, InboxTypes
<1>7. ContactsBacked' /\ PresenceBacked' /\ UiBacked' /\ AuthorisedOnly' /\ OpenedIsSeen'
  BY <1>1, <1>5 DEF InboxInv, ContactsBacked, PresenceBacked, UiBacked, AuthorisedOnly,
     OpenedIsSeen, Granted
<1>8. NetBacked'
  BY <1>1, <1>2, <1>3 DEF InboxInv, NetBacked, Granted
<1> QED BY <1>6, <1>7, <1>8 DEF InboxInv

LEMMA SaveKeeps ==
    ASSUME InboxInv, ReceiveSave
    PROVE  InboxInv'
<1>1. /\ net.at = "save"
      /\ net' = IF net.auth = "trusted" THEN [net EXCEPT !.at = "conversation"] ELSE Idle
      /\ rows' = [rows EXCEPT ![net.m] = [auth |-> net.auth, text |-> net.text, conv |-> "own"]]
      /\ UNCHANGED <<contacts, convs, seen, opened, ui, presence, letIn>>
  BY DEF ReceiveSave, SaveRow, history
<1>2. net \in Storing /\ net # Idle
  BY <1>1 DEF InboxInv, InboxTypes, Storing, Idle
<1>3. rows' \in [Msgs -> Stored]
  <2>1. [auth |-> net.auth, text |-> net.text, conv |-> "own"] \in Stored
    BY <1>2 DEF Storing, Forms, Stored, Folders
  <2> QED BY <1>1, <2>1 DEF InboxInv, InboxTypes
<1>4. net' = Idle \/ (net' \in Storing /\ net'.m = net.m /\ net'.auth = net.auth)
  BY <1>1, <1>2 DEF Storing
<1>5. InboxTypes'
  BY <1>1, <1>3, <1>4 DEF InboxInv, InboxTypes
<1>6. AuthorisedOnly'
  <2>1. \A m \in Msgs \ {net.m} : rows'[m] = rows[m]
    BY <1>1 DEF InboxInv, InboxTypes
  <2>2. rows'[net.m].auth = net.auth
    BY <1>1, <1>2 DEF InboxInv, InboxTypes, Storing
  <2> QED BY <1>1, <1>2, <2>1, <2>2 DEF InboxInv, AuthorisedOnly, NetBacked, Granted
<1>7. NetBacked'
  BY <1>1, <1>2, <1>4 DEF InboxInv, NetBacked, Granted
<1>8. ContactsBacked' /\ PresenceBacked' /\ UiBacked' /\ OpenedIsSeen'
  BY <1>1 DEF InboxInv, ContactsBacked, PresenceBacked, UiBacked, OpenedIsSeen, Granted
<1> QED BY <1>5, <1>6, <1>7, <1>8 DEF InboxInv

LEMMA ConversationKeeps ==
    ASSUME InboxInv, ReceiveConversation
    PROVE  InboxInv'
<1>1. /\ net.at = "conversation" /\ net' = Idle
      /\ convs' = [convs EXCEPT ![From[net.m]] = @ \cup {"own"}]
      /\ UNCHANGED <<contacts, rows, seen, opened, ui, presence, letIn>>
  BY DEF ReceiveConversation, history
<1>2. convs' \in [Peers -> SUBSET Folders]
  BY <1>1 DEF InboxInv, InboxTypes, Folders
<1>3. InboxTypes'
  BY <1>1, <1>2 DEF InboxInv, InboxTypes
<1>4. NetBacked'
  BY <1>1 DEF NetBacked
<1>5. ContactsBacked' /\ PresenceBacked' /\ UiBacked' /\ OpenedIsSeen' /\ AuthorisedOnly'
  BY <1>1 DEF InboxInv, ContactsBacked, PresenceBacked, UiBacked, OpenedIsSeen, AuthorisedOnly, Granted
<1> QED BY <1>3, <1>4, <1>5 DEF InboxInv

-----------------------------------------------------------------------------
(* The UI thread. *)

LEMMA AnswerKeeps ==
    ASSUME InboxInv, NEW p \in Peers, NEW reply \in {"trusted", "rejected", "cancel"},
           Answer(p, reply)
    PROVE  InboxInv'
<1>1. UNCHANGED <<contacts, convs, seen, net, presence, opened>>
  BY DEF Answer
<1>2. CASE UNCHANGED <<rows, ui, letIn>>
  BY <1>1, <1>2 DEF InboxInv, InboxTypes, ContactsBacked, PresenceBacked, NetBacked, UiBacked,
     AuthorisedOnly, OpenedIsSeen, Granted
<1>3. CASE /\ reply # "cancel" /\ PromoteRows(p, reply)
           /\ ui' = [at |-> reply, p |-> p]
           /\ letIn' = letIn \cup IF reply = "trusted" THEN {p} ELSE {}
  <2>1. letIn' \subseteq Peers
        /\ \A q \in Peers : Granted(q) => Granted(q)'
        /\ (reply = "trusted" => Granted(p)')
    BY <1>3 DEF InboxInv, InboxTypes, Granted
  <2>2. ui' \in Answering /\ ui'.p = p /\ ui'.at = reply
    BY <1>3 DEF Answering
  <2>3. rows' \in [Msgs -> Stored]
    <3>1. \A m \in Msgs : rows'[m] = rows[m] \/ rows'[m] = [rows[m] EXCEPT !.auth = reply]
      BY <1>3 DEF PromoteRows
    <3>2. \A m \in Msgs : rows[m] \in Stored
      BY DEF InboxInv, InboxTypes
    <3>3. \A m \in Msgs : rows'[m] \in Stored
      BY <1>3, <3>1, <3>2 DEF Stored, Auths
    <3> QED BY <1>3, <3>3 DEF PromoteRows
  <2>4. ASSUME NEW m \in Msgs, rows'[m].auth = "trusted" PROVE From[m] \in letIn'
    <3>1. rows[m] \in Stored /\ (rows'[m] = rows[m] \/ (From[m] = p /\ rows'[m] = [rows[m] EXCEPT !.auth = reply]))
      BY <1>3 DEF PromoteRows, InboxInv, InboxTypes, Texts
    <3>2. rows[m].auth = "trusted" \/ (From[m] = p /\ reply = "trusted")
      BY <2>4, <3>1 DEF Stored
    <3> QED BY <1>3, <3>2 DEF InboxInv, AuthorisedOnly
  <2>5. InboxTypes'
    BY <1>1, <2>1, <2>2, <2>3 DEF InboxInv, InboxTypes
  <2>6. ContactsBacked' /\ PresenceBacked' /\ OpenedIsSeen'
    BY <1>1, <2>1 DEF InboxInv, ContactsBacked, PresenceBacked, OpenedIsSeen
  <2>7. NetBacked'
    <3>1. net # Idle => From[net.m] \in Peers
      BY DirectInboxAssumption DEF InboxInv, InboxTypes, Storing
    <3> QED BY <1>1, <2>1, <3>1 DEF InboxInv, NetBacked
  <2>8. UiBacked'
    <3>1. reply = "trusted" => p \in letIn'
      BY <1>3
    <3> QED BY <2>2, <3>1 DEF UiBacked, Granted
  <2> QED BY <2>4, <2>5, <2>6, <2>7, <2>8 DEF InboxInv, AuthorisedOnly
<1> QED BY <1>2, <1>3 DEF Answer

LEMMA StatusKeeps ==
    ASSUME InboxInv, AnswerStatus
    PROVE  InboxInv'
<1>1. /\ ui.at \in {"trusted", "rejected"}
      /\ contacts' = [contacts EXCEPT ![ui.p] = SetTrust(ui.p, ui.at)]
      /\ ui' = IF ui.at = "trusted" THEN [ui EXCEPT !.at = "conversation"] ELSE Idle
      /\ UNCHANGED <<rows, convs, seen, opened, net, presence, letIn>>
  BY DEF AnswerStatus, stored, history
<1>2. ui \in Answering /\ ui # Idle /\ ui.p \in Peers
  BY <1>1 DEF InboxInv, InboxTypes, Answering, Idle
<1> PICK p \in Peers : p = ui.p
  BY <1>2
<1> DEFINE c == SetTrust(p, ui.at)
<1>3. DOMAIN c = Fields /\ (c.trust = "trusted" => ui.at = "trusted" \/ contacts[p].trust = "trusted")
  BY SetContact
<1>4. contacts' = [contacts EXCEPT ![p] = c]
  BY <1>1
<1> HIDE DEF c
<1>5. c.trust = "trusted" => Granted(p)
  BY <1>1, <1>2, <1>3 DEF InboxInv, UiBacked, ContactsBacked
<1>6. /\ DOMAIN contacts' = Peers /\ \A q \in Peers : DOMAIN contacts'[q] = Fields
      /\ ContactsBacked'
  BY <1>1, <1>3, <1>4, <1>5, ContactKeeps DEF Granted
<1>7. ui' = Idle \/ (ui' \in Answering /\ ui'.at = "conversation")
  BY <1>1, <1>2 DEF Answering
<1>8. UiBacked'
  BY <1>7 DEF UiBacked
<1>9. InboxTypes'
  BY <1>1, <1>6, <1>7 DEF InboxInv, InboxTypes
<1>10. PresenceBacked' /\ NetBacked' /\ AuthorisedOnly' /\ OpenedIsSeen'
  BY <1>1 DEF InboxInv, PresenceBacked, NetBacked, AuthorisedOnly, OpenedIsSeen, Granted
<1> QED BY <1>6, <1>8, <1>9, <1>10 DEF InboxInv

\* The three places that load a chat.
LEMMA LoadKeeps ==
    ASSUME InboxInv, NEW p \in Peers, AskAssistant(p)
    PROVE  InboxInv'
<1>1. LoadHistory(p) /\ UNCHANGED <<rows, convs, net, ui, presence, letIn>>
  BY DEF AskAssistant, chats
<1> QED BY <1>1, HistoryKeeps, QuietKeeps

LEMMA ShowKeeps ==
    ASSUME InboxInv, ShowHistory
    PROVE  InboxInv'
<1>1. LoadHistory(ui.p) /\ ui' = Idle /\ UNCHANGED <<rows, convs, net, presence, letIn>>
  BY DEF ShowHistory, chats
<1>2. ui.p \in Peers
  BY DEF ShowHistory, InboxInv, InboxTypes, Answering, Idle
<1> QED BY <1>1, <1>2, HistoryKeeps, QuietKeeps

LEMMA ChatKeeps ==
    ASSUME InboxInv, NEW p \in Peers, OpenChat(p)
    PROVE  InboxInv'
<1>1. /\ ui' = [at |-> "conversation", p |-> p]
      /\ UNCHANGED <<contacts, rows, convs, seen, opened, net, presence, letIn>>
  BY DEF OpenChat, stored, history
<1>2. ui' \in Answering /\ UiBacked'
  BY <1>1 DEF Answering, UiBacked
<1>3. InboxTypes'
  BY <1>1, <1>2 DEF InboxInv, InboxTypes
<1>4. ContactsBacked' /\ PresenceBacked' /\ NetBacked' /\ AuthorisedOnly' /\ OpenedIsSeen'
  BY <1>1 DEF InboxInv, ContactsBacked, PresenceBacked, NetBacked, AuthorisedOnly, OpenedIsSeen, Granted
<1> QED BY <1>2, <1>3, <1>4 DEF InboxInv

LEMMA LookupKeeps ==
    ASSUME InboxInv, NEW p \in Peers, OwnConversation(p),
           ui' = ui \/ ui' = [at |-> "history", p |-> p],
           UNCHANGED <<contacts, seen, opened, net, presence, letIn>>
    PROVE  InboxInv'
<1>1. rows' \in [Msgs -> Stored] /\ convs' \in [Peers -> SUBSET Folders] /\ AuthorisedOnly'
  BY OwnRearranges, RearrangeKeeps
<1>2. ui' \in Answering \cup {Idle} /\ UiBacked'
  BY DEF Answering, InboxInv, InboxTypes, UiBacked, Granted
<1>3. InboxTypes'
  BY <1>1, <1>2 DEF InboxInv, InboxTypes
<1>4. ContactsBacked' /\ PresenceBacked' /\ NetBacked' /\ OpenedIsSeen'
  BY DEF InboxInv, ContactsBacked, PresenceBacked, NetBacked, OpenedIsSeen, Granted
<1> QED BY <1>1, <1>2, <1>3, <1>4 DEF InboxInv

LEMMA EnsureKeeps ==
    ASSUME InboxInv, EnsureConversation
    PROVE  InboxInv'
<1>1. /\ ui.at = "conversation" /\ OwnConversation(ui.p)
      /\ ui' = [ui EXCEPT !.at = "history"]
      /\ UNCHANGED <<contacts, seen, opened, net, presence, letIn>>
  BY DEF EnsureConversation, history
<1>2. ui.p \in Peers /\ ui' = [at |-> "history", p |-> ui.p]
  BY <1>1 DEF InboxInv, InboxTypes, Answering, Idle
<1> QED BY <1>1, <1>2, LookupKeeps

LEMMA UseKeeps ==
    ASSUME InboxInv, NEW p \in Peers, UseConversation(p)
    PROVE  InboxInv'
BY LookupKeeps DEF UseConversation, history

LEMMA AddKeeps ==
    ASSUME InboxInv, NEW p \in Peers, AddById(p)
    PROVE  InboxInv'
<1> DEFINE c == AddContact(p, <<>>, TRUE, "trusted")
<1>1. /\ contacts' = [contacts EXCEPT ![p] = c]
      /\ letIn' = letIn \cup {p}
      /\ UNCHANGED <<rows, convs, seen, opened, net, ui, presence>>
  BY DEF AddById, stored
<1>2. DOMAIN c = Fields
  BY AddedContact
<1> HIDE DEF c
<1>3. letIn' \subseteq Peers
      /\ Granted(p)' /\ \A q \in Peers : Granted(q) => Granted(q)'
  BY <1>1 DEF InboxInv, InboxTypes, Granted
<1>4. /\ DOMAIN contacts' = Peers /\ \A q \in Peers : DOMAIN contacts'[q] = Fields
      /\ ContactsBacked'
  BY <1>1, <1>2, <1>3, ContactKeeps
<1>5. InboxTypes'
  BY <1>1, <1>3, <1>4 DEF InboxInv, InboxTypes
<1>6. PresenceBacked' /\ OpenedIsSeen'
  BY <1>1, <1>3 DEF InboxInv, PresenceBacked, OpenedIsSeen
<1>7. NetBacked'
  <2>1. net # Idle => From[net.m] \in Peers
    BY DirectInboxAssumption DEF InboxInv, InboxTypes, Storing
  <2> QED BY <1>1, <1>3, <2>1 DEF InboxInv, NetBacked
<1>8. UiBacked'
  <2>1. ui # Idle => ui.p \in Peers
    BY DEF InboxInv, InboxTypes, Answering
  <2> QED BY <1>1, <1>3, <2>1 DEF InboxInv, UiBacked
<1>9. AuthorisedOnly'
  <2>1. \A m \in Msgs : From[m] \in Peers
    BY DirectInboxAssumption
  <2> QED BY <1>1, <1>3, <2>1 DEF InboxInv, AuthorisedOnly, Granted
<1> QED BY <1>4, <1>5, <1>6, <1>7, <1>8, <1>9 DEF InboxInv

LEMMA DeleteKeeps ==
    ASSUME InboxInv, NEW p \in Peers, DeleteContact(p)
    PROVE  InboxInv'
<1>1. /\ contacts' = [contacts EXCEPT ![p] = NoContact]
      /\ UNCHANGED <<rows, convs, seen, opened, net, ui, presence, letIn>>
  BY DEF DeleteContact, stored, history
<1>2. DOMAIN NoContact = Fields /\ NoContact.trust # "trusted"
  BY DEF NoContact, Fields
<1>3. /\ DOMAIN contacts' = Peers /\ \A q \in Peers : DOMAIN contacts'[q] = Fields
      /\ ContactsBacked'
  BY <1>1, <1>2, ContactKeeps DEF Granted
<1>4. InboxTypes'
  BY <1>1, <1>3 DEF InboxInv, InboxTypes
<1>5. PresenceBacked' /\ NetBacked' /\ UiBacked' /\ AuthorisedOnly' /\ OpenedIsSeen'
  BY <1>1 DEF InboxInv, PresenceBacked, NetBacked, UiBacked, AuthorisedOnly, OpenedIsSeen, Granted
<1> QED BY <1>3, <1>4, <1>5 DEF InboxInv

-----------------------------------------------------------------------------
(* The presence worker. *)

\* A copy has the status of the contact it was made of.
LEMMA CopyKeeps ==
    ASSUME InboxInv, PresenceRead
    PROVE  InboxInv'
<1>1. UNCHANGED <<contacts, rows, convs, seen, opened, net, ui, letIn>>
  BY DEF PresenceRead, stored, history
<1>2. PICK S \in SUBSET Peers : \E work \in SetToSeqs(S) :
        /\ presence' = [i \in 1 .. Len(work) |-> presence'[i]]
        /\ \A i \in 1 .. Len(work) :
              presence'[i].p = work[i] /\ presence'[i].trust = contacts[work[i]].trust
  <2> DEFINE copyOf(p) == [p |-> p, trust |-> contacts[p].trust, online |-> Listed(p),
                           keys |-> IF Listed(p) THEN Merge(<<Head(directory[p])>>, contacts[p].keys)
                                    ELSE contacts[p].keys]
  <2>1. PICK S \in SUBSET Peers : \E work \in SetToSeqs(S) :
          presence' = [i \in 1 .. Len(work) |-> copyOf(work[i])]
    BY DEF PresenceRead
  <2>2. PICK work \in SetToSeqs(S) : presence' = [i \in 1 .. Len(work) |-> copyOf(work[i])]
    BY <2>1
  <2>3. \A p : copyOf(p).p = p /\ copyOf(p).trust = contacts[p].trust
    OBVIOUS
  <2> HIDE DEF copyOf
  <2>4. /\ presence' = [i \in 1 .. Len(work) |-> presence'[i]]
        /\ \A i \in 1 .. Len(work) :
              presence'[i].p = work[i] /\ presence'[i].trust = contacts[work[i]].trust
    BY <2>2, <2>3
  <2> QED BY <2>4
<1> PICK work \in SetToSeqs(S) :
        /\ presence' = [i \in 1 .. Len(work) |-> presence'[i]]
        /\ \A i \in 1 .. Len(work) :
              presence'[i].p = work[i] /\ presence'[i].trust = contacts[work[i]].trust
  BY <1>2
<1>3. Cardinality(S) \in Nat
  BY DirectInboxAssumption, FS_Subset, FS_CardinalityType
<1>4. work \in [1 .. Cardinality(S) -> S]
  BY DEF SetToSeqs
<1>5. Len(work) = Cardinality(S) /\ \A i \in 1 .. Len(work) : work[i] \in Peers
  <2>1. work \in Seq(S)
    BY <1>3, <1>4
  <2> QED BY <1>3, <1>4, <2>1
<1>6. presence' \in Seq({presence'[i] : i \in 1 .. Len(work)}) /\ Len(presence') = Len(work)
  BY <1>3, <1>5
<1>7. \A i \in 1 .. Len(presence') :
         presence'[i].p \in Peers /\ presence'[i].trust = contacts[presence'[i].p].trust
  BY <1>5, <1>6
<1>8. InboxTypes'
  BY <1>1, <1>6 DEF InboxInv, InboxTypes
<1>9. PresenceBacked'
  BY <1>1, <1>7 DEF InboxInv, ContactsBacked, PresenceBacked, Granted
<1>10. ContactsBacked' /\ NetBacked' /\ UiBacked' /\ AuthorisedOnly' /\ OpenedIsSeen'
  BY <1>1 DEF InboxInv, ContactsBacked, NetBacked, UiBacked, AuthorisedOnly, OpenedIsSeen, Granted
<1> QED BY <1>8, <1>9, <1>10 DEF InboxInv

LEMMA WriteKeeps ==
    ASSUME InboxInv, PresenceWrite
    PROVE  InboxInv'
<1> DEFINE w == Head(presence)
           c == AddContact(w.p, w.keys, w.online, w.trust)
<1>1. /\ presence # <<>> /\ presence' = Tail(presence)
      /\ contacts' = [contacts EXCEPT ![w.p] = c]
      /\ UNCHANGED <<rows, convs, seen, opened, net, ui, letIn>>
  BY DEF PresenceWrite, stored, history
<1>2. PICK S : presence \in Seq(S)
  BY DEF InboxInv, InboxTypes
<1>3. /\ w = presence[1] /\ 1 \in 1 .. Len(presence)
      /\ Tail(presence) \in Seq(S)
      /\ \A i \in 1 .. Len(Tail(presence)) :
            i + 1 \in 1 .. Len(presence) /\ Tail(presence)[i] = presence[i + 1]
  BY <1>1, <1>2
<1>4. w.p \in Peers /\ (w.trust = "trusted" => Granted(w.p))
  BY <1>3 DEF InboxInv, PresenceBacked
<1>5. DOMAIN c = Fields /\ (c.trust = "trusted" => w.trust = "trusted" \/ contacts[w.p].trust = "trusted")
  BY <1>4, AddedContact
<1> HIDE DEF c, w
<1>6. c.trust = "trusted" => Granted(w.p)
  BY <1>4, <1>5 DEF InboxInv, ContactsBacked
<1>7. /\ DOMAIN contacts' = Peers /\ \A q \in Peers : DOMAIN contacts'[q] = Fields
      /\ ContactsBacked'
  BY <1>1, <1>4, <1>5, <1>6, ContactKeeps DEF Granted
<1>8. InboxTypes'
  BY <1>1, <1>3, <1>7 DEF InboxInv, InboxTypes
<1>9. PresenceBacked'
  BY <1>1, <1>3 DEF InboxInv, PresenceBacked, Granted
<1>10. NetBacked' /\ UiBacked' /\ AuthorisedOnly' /\ OpenedIsSeen'
  BY <1>1 DEF InboxInv, NetBacked, UiBacked, AuthorisedOnly, OpenedIsSeen, Granted
<1> QED BY <1>7, <1>8, <1>9, <1>10 DEF InboxInv

-----------------------------------------------------------------------------
LEMMA CrashKeeps ==
    ASSUME InboxInv, Crash
    PROVE  InboxInv'
<1>1. /\ net' = Idle /\ ui' = Idle /\ presence' = <<>>
      /\ LoadConversations
      /\ UNCHANGED <<contacts, seen, opened, letIn>>
  BY DEF Crash
<1>2. presence' \in Seq({}) /\ Len(presence') = 0
  BY <1>1
<1>6. rows' \in [Msgs -> Stored] /\ convs' \in [Peers -> SUBSET Folders] /\ AuthorisedOnly'
  BY <1>1, RearrangeKeeps DEF LoadConversations
<1>3. InboxTypes'
  BY <1>1, <1>2, <1>6 DEF InboxInv, InboxTypes
<1>4. PresenceBacked' /\ NetBacked' /\ UiBacked'
  BY <1>1, <1>2 DEF PresenceBacked, NetBacked, UiBacked
<1>5. ContactsBacked' /\ OpenedIsSeen'
  BY <1>1 DEF InboxInv, ContactsBacked, OpenedIsSeen, Granted
<1> QED BY <1>3, <1>4, <1>5, <1>6 DEF InboxInv

LEMMA InboxStep == InboxInv /\ [Next]_vars => InboxInv'
<1> SUFFICES ASSUME InboxInv, [Next]_vars PROVE InboxInv'
  OBVIOUS
<1>1. ASSUME UNCHANGED <<contacts, rows, convs, seen, opened, net, ui, presence, letIn>>
      PROVE  InboxInv'
  BY <1>1 DEF InboxInv, InboxTypes, ContactsBacked, PresenceBacked, NetBacked, UiBacked,
     AuthorisedOnly, OpenedIsSeen, Granted
<1>2. CASE UNCHANGED vars
  BY <1>1, <1>2 DEF vars
<1>3. ASSUME NEW p \in Peers, DirectoryChange(p) PROVE InboxInv'
  BY <1>1, <1>3 DEF DirectoryChange, stored, history
<1>4. CASE NetStep \/ UiStep
  BY <1>4, OpenStepKeeps, CountKeeps, SaveKeeps, ConversationKeeps, StatusKeeps, EnsureKeeps,
     ShowKeeps DEF NetStep, UiStep
<1> QED
  BY <1>2, <1>3, <1>4, ReceiveKeeps, AnswerKeeps, ChatKeeps, UseKeeps, LoadKeeps, AddKeeps,
     DeleteKeeps, CopyKeeps, WriteKeeps, CrashKeeps DEF Next

\* InboxIsAuthorised: no text is in the formal chat whose sender the user never
\* let in, for any number of peers, texts, deliveries and crashes.
THEOREM InboxIsAuthorised == Spec => []AuthorisedOnly
<1>1. InboxInv => AuthorisedOnly
  BY DEF InboxInv
<1> QED BY <1>1, InboxStart, InboxStep, PTL DEF Spec

\* TextsOpenOnce: no text is decrypted twice, whichever threads load it and
\* however often the Hub delivers it.
THEOREM TextsOpenOnce == Spec => []OpenedOnce
<1>1. InboxInv => OpenedOnce
  BY DEF InboxInv, OpenedIsSeen, OpenedOnce
<1> QED BY <1>1, InboxStart, InboxStep, PTL DEF Spec

-----------------------------------------------------------------------------
(* The types: the keys of a contact and of its copies are lists of devices,   *)
(* and nothing is kept of a contact that was deleted.                         *)

\* Least elements, and with them induction, for sets of natural numbers.
LEMMA LeastNumber == ASSUME NEW T, T \subseteq Nat, T # {} PROVE \E x \in T : \A y \in T : x <= y
<1>1. PICK R : R = OpToRel(<, Nat)
  OBVIOUS
<1>2. IsWellFoundedOn(R, Nat)
  BY <1>1, NatLessThanWellFounded
<1>3. \A x, y \in Nat : x < y => <<x, y>> \in R
  BY <1>1 DEF OpToRel
<1>4. PICK x \in T : \A y \in T : ~ (<<y, x>> \in R)
  BY <1>2, WFMin
<1>5. ASSUME NEW y \in T PROVE x <= y
  <2>1. x \in Nat /\ y \in Nat /\ ~(y < x)
    BY <1>3, <1>4
  <2> QED BY <2>1
<1> QED BY <1>5

\* One more key of a merged list.
Longer(new, old, shorter, i) ==
    IF i = 0 THEN new
    ELSE IF old[i] \in ToSet(new) THEN shorter[i - 1] ELSE Append(shorter[i - 1], old[i])
MergedTo(new, old, n, f) == f = [i \in 0 .. n |-> Longer(new, old, f, i)]

LEMMA MergedExists ==
    ASSUME NEW new \in Seq(Devices), NEW old \in Seq(Devices)
    PROVE  \A n \in 0 .. Len(old) : \E f \in [0 .. n -> Seq(Devices)] : MergedTo(new, old, n, f)
<1> DEFINE T == {n \in 0 .. Len(old) : ~ \E f \in [0 .. n -> Seq(Devices)] : MergedTo(new, old, n, f)}
<1>1. SUFFICES ASSUME T # {} PROVE FALSE
  OBVIOUS
<1>2. T \subseteq Nat
  OBVIOUS
<1>3. PICK n \in T : \A k \in T : n <= k
  BY <1>1, <1>2, LeastNumber
<1>0. Len(old) \in Nat /\ n \in 0 .. Len(old)
  OBVIOUS
<1>4. CASE n = 0
  <2> DEFINE f == [i \in 0 .. 0 |-> new]
  <2>1. f \in [0 .. 0 -> Seq(Devices)] /\ MergedTo(new, old, 0, f)
    BY DEF MergedTo, Longer
  <2> QED BY <1>4, <2>1
<1>5. CASE n # 0
  <2>1. n \in 1 .. Len(old) /\ n - 1 \in 0 .. Len(old) /\ n - 1 \notin T
    <3>1. n \in 1 .. Len(old) /\ n - 1 \in 0 .. Len(old) /\ ~(n <= n - 1)
      BY <1>0, <1>5
    <3> HIDE DEF T
    <3> QED BY <1>3, <3>1
  <2>2. PICK f \in [0 .. n - 1 -> Seq(Devices)] : MergedTo(new, old, n - 1, f)
    BY <2>1
  <2> DEFINE g == [i \in 0 .. n |-> IF i = n THEN Longer(new, old, f, n) ELSE f[i]]
  <2>3. \A i \in 0 .. n - 1 : g[i] = f[i]
    BY <2>1
  <2>4. \A i \in 0 .. n : Longer(new, old, g, i) = Longer(new, old, f, i)
    <3>1. \A i \in 0 .. n : i # 0 => g[i - 1] = f[i - 1]
      BY <2>1, <2>3
    <3> QED BY <3>1 DEF Longer
  <2>5. \A i \in 0 .. n - 1 : f[i] = Longer(new, old, f, i)
    BY <2>2 DEF MergedTo
  <2>6. ASSUME NEW i \in 0 .. n PROVE g[i] = Longer(new, old, g, i)
    <3>1. CASE i = n
      BY <2>4, <3>1
    <3>2. CASE i # n
      <4>1. i \in 0 .. n - 1
        BY <1>0, <3>2
      <4> QED BY <2>3, <2>4, <2>5, <4>1
    <3> QED BY <3>1, <3>2
  <2>7. MergedTo(new, old, n, g)
    BY <2>6 DEF MergedTo
  <2>8. Longer(new, old, f, n) \in Seq(Devices)
    <3>1. f[n - 1] \in Seq(Devices) /\ old[n] \in Devices
      BY <2>1
    <3> QED BY <2>1, <3>1 DEF Longer
  <2>9. g \in [0 .. n -> Seq(Devices)]
    BY <2>1, <2>8
  <2> QED BY <1>3, <2>7, <2>9
<1> QED BY <1>4, <1>5

\* Any list that grows by these rules is one of keys.
LEMMA MergedValues ==
    ASSUME NEW new \in Seq(Devices), NEW old \in Seq(Devices), NEW f,
           MergedTo(new, old, Len(old), f)
    PROVE  \A i \in 0 .. Len(old) : f[i] \in Seq(Devices)
<1> DEFINE T == {i \in 0 .. Len(old) : f[i] \notin Seq(Devices)}
<1>1. SUFFICES ASSUME T # {} PROVE FALSE
  OBVIOUS
<1>2. T \subseteq Nat
  OBVIOUS
<1>3. PICK n \in T : \A k \in T : n <= k
  BY <1>1, <1>2, LeastNumber
<1>4. Len(old) \in Nat /\ n \in 0 .. Len(old) /\ f[n] \notin Seq(Devices)
  OBVIOUS
<1>5. f[n] = Longer(new, old, f, n)
  BY <1>4 DEF MergedTo
<1>6. CASE n = 0
  BY <1>4, <1>5, <1>6 DEF Longer
<1>7. CASE n # 0
  <2>1. n \in 1 .. Len(old) /\ n - 1 \in 0 .. Len(old) /\ ~(n <= n - 1)
    BY <1>4, <1>7
  <2>2. f[n - 1] \in Seq(Devices)
    BY <1>3, <2>1
  <2>3. old[n] \in Devices
    BY <2>1
  <2>4. f[n] \in {f[n - 1], Append(f[n - 1], old[n])}
    BY <1>5, <2>1 DEF Longer
  <2>5. \A k \in Seq(Devices), d \in Devices : Append(k, d) \in Seq(Devices)
    OBVIOUS
  <2> HIDE DEF T
  <2> QED BY <1>4, <2>2, <2>3, <2>4, <2>5
<1> QED BY <1>6, <1>7

LEMMA MergeIsKeys ==
    ASSUME NEW new \in Seq(Devices), NEW old \in Seq(Devices)
    PROVE  Merge(new, old) \in Seq(Devices)
<1> DEFINE F == CHOOSE f : f = [i \in 0 .. Len(old) |-> Longer(new, old, f, i)]
<1>1. Merge(new, old) = F[Len(old)]
  BY DEF Merge, Longer
<1>2. Len(old) \in Nat /\ Len(old) \in 0 .. Len(old)
  OBVIOUS
<1>3. PICK f \in [0 .. Len(old) -> Seq(Devices)] : MergedTo(new, old, Len(old), f)
  BY <1>2, MergedExists
<1>4. F = [i \in 0 .. Len(old) |-> Longer(new, old, F, i)]
  BY <1>3 DEF MergedTo
<1> HIDE DEF F
<1>5. MergedTo(new, old, Len(old), F)
  BY <1>4 DEF MergedTo
<1> QED BY <1>1, <1>2, <1>5, MergedValues

ContactType == [trust : Trusts, count : 0 .. MaxCount, online : BOOLEAN, keys : Seq(Devices)]
ContactsTyped ==
    /\ contacts \in [Peers -> ContactType]
    /\ \A p \in Peers : contacts[p].trust = "absent" => contacts[p] = NoContact
StoresTyped ==
    /\ directory \in [Peers -> Directories]
    /\ sessions \in [Peers -> SUBSET Devices]
    /\ seen \subseteq Msgs /\ asked \subseteq Peers
Copies == [p : Peers, trust : Trusts \ {"absent"}, online : BOOLEAN, keys : Seq(Devices)]
CopiesTyped == \A i \in 1 .. Len(presence) : presence[i] \in Copies
TypeInv == ContactsTyped /\ StoresTyped /\ CopiesTyped

LEMMA TypeStart == Init => TypeInv
<1> SUFFICES ASSUME Init PROVE TypeInv
  OBVIOUS
<1>1. 0 \in 0 .. MaxCount /\ <<>> \in Seq(Devices)
  BY DirectInboxAssumption
<1>2. NoContact \in ContactType
      /\ \A t \in {"unknown", "trusted"} : [NoContact EXCEPT !.trust = t] \in ContactType
  BY <1>1 DEF NoContact, ContactType, Trusts
<1>3. ContactsTyped
  <2>1. /\ contacts \in [Peers -> {NoContact} \cup
                             {[NoContact EXCEPT !.trust = t] : t \in {"unknown", "trusted"}}]
        /\ \A t \in {"unknown", "trusted"} : [NoContact EXCEPT !.trust = t].trust # "absent"
    BY DEF Init, NoContact
  <2>2. \A p \in Peers : contacts[p] \in ContactType
                         /\ (contacts[p].trust = "absent" => contacts[p] = NoContact)
    BY <1>2, <2>1
  <2> QED BY <2>1, <2>2 DEF ContactsTyped
<1>4. CopiesTyped
  BY DEF Init, CopiesTyped
<1> QED BY <1>3, <1>4 DEF Init, TypeInv, StoresTyped

LEMMA ContactPut ==
    ASSUME ContactsTyped, NEW p \in Peers, NEW c \in ContactType,
           c.trust = "absent" => c = NoContact, contacts' = [contacts EXCEPT ![p] = c]
    PROVE  ContactsTyped'
BY DEF ContactsTyped

LEMMA AddTyped ==
    ASSUME ContactsTyped, NEW p \in Peers, NEW keys \in Seq(Devices), NEW online \in BOOLEAN,
           NEW trust \in Trusts \ {"absent"}
    PROVE  LET c == AddContact(p, keys, online, trust) IN c \in ContactType /\ c.trust # "absent"
<1>1. contacts[p] \in ContactType /\ 0 \in 0 .. MaxCount
  BY DirectInboxAssumption DEF ContactsTyped
<1>2. CASE contacts[p].trust = "absent"
  BY <1>1, <1>2 DEF AddContact, ContactType
<1>3. CASE contacts[p].trust # "absent"
  <2>1. AddContact(p, keys, online, trust) =
          [contacts[p] EXCEPT !.trust = IF trust = "unknown" THEN @ ELSE trust,
                              !.online = online, !.keys = Merge(keys, @)]
    BY <1>3 DEF AddContact
  <2>2. Merge(keys, contacts[p].keys) \in Seq(Devices)
    BY <1>1, MergeIsKeys DEF ContactType
  <2> QED BY <1>1, <1>3, <2>1, <2>2 DEF ContactType
<1> QED BY <1>2, <1>3

LEMMA SetTyped ==
    ASSUME ContactsTyped, NEW p \in Peers, NEW trust \in Trusts \ {"absent"}
    PROVE  LET c == SetTrust(p, trust) IN c \in ContactType /\ (c.trust = "absent" => c = NoContact)
<1>1. contacts[p] \in ContactType /\ 0 \in 0 .. MaxCount
  BY DirectInboxAssumption DEF ContactsTyped
<1>2. CASE contacts[p].trust = "absent"
  BY <1>1, <1>2 DEF SetTrust, ContactsTyped
<1>3. CASE contacts[p].trust # "absent"
  BY <1>1, <1>3 DEF SetTrust, ContactType
<1> QED BY <1>2, <1>3

LEMMA CacheTyped ==
    ASSUME ContactsTyped, NEW p \in Peers, NEW found \in Seq(Devices),
           contacts' = contacts \/ contacts' = CacheKeys(p, found)
    PROVE  ContactsTyped'
<1>1. CASE contacts' = contacts
  BY <1>1 DEF ContactsTyped
<1>2. CASE contacts[p].trust # "absent" /\ contacts' = [contacts EXCEPT ![p].keys = Merge(found, @)]
  <2> DEFINE c == [contacts[p] EXCEPT !.keys = Merge(found, @)]
  <2>1. contacts[p] \in ContactType
    BY DEF ContactsTyped
  <2>2. Merge(found, contacts[p].keys) \in Seq(Devices)
    BY <2>1, MergeIsKeys DEF ContactType
  <2>3. c \in ContactType /\ c.trust # "absent"
    BY <1>2, <2>1, <2>2 DEF ContactType
  <2>4. contacts' = [contacts EXCEPT ![p] = c]
    BY <1>2
  <2> HIDE DEF c
  <2> QED BY <2>3, <2>4, ContactPut
<1> QED BY <1>1, <1>2 DEF CacheKeys

LEMMA FoundAreDevices ==
    ASSUME TypeInv, NEW p \in Peers, NEW found \in PeerDevices(p)
    PROVE  found \in Seq(Devices)
<1>1. CASE found = directory[p] \/ found = contacts[p].keys
  BY <1>1, DirectInboxAssumption DEF TypeInv, StoresTyped, ContactsTyped, ContactType
<1>2. CASE found \in SetToSeqs(sessions[p])
  <2>1. sessions[p] \subseteq Devices /\ Cardinality(sessions[p]) \in Nat
    BY DirectInboxAssumption, FS_Subset, FS_CardinalityType DEF TypeInv, StoresTyped
  <2>2. found \in [1 .. Cardinality(sessions[p]) -> Devices]
    BY <1>2, <2>1 DEF SetToSeqs
  <2> QED BY <2>1, <2>2
<1> QED BY <1>1, <1>2 DEF PeerDevices

\* A text that opens was sealed by a device.
LEMMA SuccessIsDevices ==
    ASSUME NEW m, NEW text, NEW found \in Seq(Devices), text \in {"plain", "sealed"},
           Outcome(m, text, found) = "success"
    PROVE  Via[m] \in Devices
<1>1. KeyMatches(m, found)
  BY DEF Outcome
<1> QED BY <1>1 DEF KeyMatches

LEMMA OpenTyped ==
    ASSUME StoresTyped, NEW M \in SUBSET Msgs, \A m \in M : Via[m] \in Devices, Open(M),
           UNCHANGED directory, asked' \subseteq Peers
    PROVE  StoresTyped'
<1>1. /\ seen' = seen \cup M
      /\ sessions' = [p \in Peers |-> sessions[p] \cup {Via[m] : m \in M \cap Texts(p)}]
  BY DEF Open, Note, KeepSession
<1>2. \A p \in Peers : sessions[p] \cup {Via[m] : m \in M \cap Texts(p)} \subseteq Devices
  BY DEF StoresTyped
<1> QED BY <1>1, <1>2 DEF StoresTyped

LEMMA LoadTyped ==
    ASSUME TypeInv, NEW p \in Peers, LoadHistory(p), UNCHANGED <<directory, presence>>,
           asked' \subseteq Peers
    PROVE  TypeInv'
<1> DEFINE M(found) == {m \in SealedRows(p) : Outcome(m, "sealed", found) = "success"}
<1>1. PICK found \in PeerDevices(p) :
        Open(M(found)) /\ (contacts' = contacts \/ contacts' = CacheKeys(p, found))
  BY DEF LoadHistory
<1>2. found \in Seq(Devices)
  BY FoundAreDevices
<1>3. ContactsTyped'
  BY <1>1, <1>2, CacheTyped DEF TypeInv
<1>4. M(found) \in SUBSET Msgs /\ \A m \in M(found) : Via[m] \in Devices
  BY <1>2, SuccessIsDevices DEF SealedRows, Texts
<1> HIDE DEF M
<1>5. StoresTyped'
  BY <1>1, <1>4, OpenTyped DEF TypeInv
<1> QED BY <1>3, <1>5 DEF TypeInv, CopiesTyped

LEMMA ReceiveTyped == ASSUME TypeInv, NEW m \in Msgs, Receive(m) PROVE TypeInv'
<1> DEFINE p == From[m]
<1>1. p \in Peers /\ UNCHANGED <<directory, sessions, seen, asked, presence>>
  BY DirectInboxAssumption DEF Receive, stored
<1>2. "pending" \in Trusts \ {"absent"} /\ <<>> \in Seq(Devices)
  BY DEF Trusts
<1>3. CASE contacts' = [contacts EXCEPT ![p] = AddContact(p, <<>>, TRUE, "pending")]
  <2> DEFINE c == AddContact(p, <<>>, TRUE, "pending")
  <2>1. c \in ContactType /\ c.trust # "absent"
    BY <1>1, <1>2, AddTyped DEF TypeInv
  <2> HIDE DEF c
  <2>2. ContactsTyped'
    BY <1>1, <1>3, <2>1, ContactPut DEF TypeInv, c
  <2> QED BY <1>1, <2>2 DEF TypeInv, StoresTyped, CopiesTyped
<1>4. CASE contacts' = [contacts EXCEPT ![p] = SetTrust(p, "pending")]
  <2> DEFINE c == SetTrust(p, "pending")
  <2>1. c \in ContactType /\ (c.trust = "absent" => c = NoContact)
    BY <1>1, <1>2, SetTyped DEF TypeInv
  <2> HIDE DEF c
  <2>2. ContactsTyped'
    BY <1>1, <1>4, <2>1, ContactPut DEF TypeInv, c
  <2> QED BY <1>1, <2>2 DEF TypeInv, StoresTyped, CopiesTyped
<1>5. CASE contacts' = contacts
  BY <1>1, <1>5 DEF TypeInv, ContactsTyped, StoresTyped, CopiesTyped
<1> QED BY <1>3, <1>4, <1>5 DEF Receive

LEMMA NetTyped == ASSUME InboxInv, TypeInv, NetStep PROVE TypeInv'
<1>1. net \in Storing /\ net # Idle /\ net.m \in Msgs /\ From[net.m] \in Peers
  <2>1. net.at \in {"open", "count", "save", "conversation"}
    BY DEF NetStep, ReceiveOpen, ReceiveCount, ReceiveSave, ReceiveConversation
  <2>2. net # Idle
    BY <2>1 DEF Idle
  <2>3. net \in Storing
    BY <2>2 DEF InboxInv, InboxTypes
  <2>4. net.m \in Msgs
    BY <2>3 DEF Storing
  <2> QED BY <2>2, <2>3, <2>4, DirectInboxAssumption
<1>2. CASE ReceiveOpen
  <2> DEFINE M(found) == IF Outcome(net.m, net.text, found) = "success" THEN {net.m} ELSE {}
  <2>1. PICK found \in PeerDevices(From[net.m]) :
          Open(M(found)) /\ (contacts' = contacts \/ contacts' = CacheKeys(From[net.m], found))
    BY <1>2 DEF ReceiveOpen
  <2>2. found \in Seq(Devices)
    BY <1>1, FoundAreDevices
  <2>3. M(found) \in SUBSET Msgs /\ \A m \in M(found) : Via[m] \in Devices
    BY <1>1, <2>2, SuccessIsDevices DEF Storing
  <2> HIDE DEF M
  <2>4. UNCHANGED <<directory, asked, presence>>
    BY <1>2 DEF ReceiveOpen
  <2>5. ContactsTyped'
    BY <1>1, <2>1, <2>2, CacheTyped DEF TypeInv
  <2>6. StoresTyped'
    BY <2>1, <2>3, <2>4, OpenTyped DEF TypeInv, StoresTyped
  <2> QED BY <2>4, <2>5, <2>6 DEF TypeInv, CopiesTyped
<1>3. CASE ReceiveCount
  <2> PICK p \in Peers : p = From[net.m]
    BY <1>1
  <2> DEFINE n == IF contacts[p].trust = "absent" \/ contacts[p].count = MaxCount
                  THEN contacts[p].count ELSE contacts[p].count + 1
             c == [contacts[p] EXCEPT !.count = n]
  <2>1. contacts[p] \in ContactType
    BY DEF TypeInv, ContactsTyped
  <2>2. n \in 0 .. MaxCount
    BY <2>1, DirectInboxAssumption DEF ContactType
  <2>3. contacts[p].trust = "absent" => contacts[p] = NoContact /\ n = contacts[p].count
    BY DEF TypeInv, ContactsTyped
  <2>4. contacts' = [contacts EXCEPT ![p] = c]
    BY <1>3 DEF ReceiveCount
  <2> HIDE DEF n
  <2>5. c \in ContactType /\ (c.trust = "absent" => c = NoContact)
    BY <2>1, <2>2, <2>3 DEF ContactType
  <2> HIDE DEF c
  <2>6. ContactsTyped'
    BY <2>4, <2>5, ContactPut DEF TypeInv
  <2> QED BY <1>3, <2>6 DEF ReceiveCount, stored, TypeInv, StoresTyped, CopiesTyped
<1>4. CASE ReceiveSave
  <2>1. UNCHANGED <<contacts, directory, sessions, seen, presence>> /\ asked' \subseteq asked \cup {From[net.m]}
    BY <1>4 DEF ReceiveSave, Ask
  <2> QED BY <1>1, <2>1 DEF TypeInv, ContactsTyped, StoresTyped, CopiesTyped
<1>5. CASE ReceiveConversation
  BY <1>5 DEF ReceiveConversation, TypeInv, ContactsTyped, StoresTyped, CopiesTyped
<1> QED BY <1>2, <1>3, <1>4, <1>5 DEF NetStep

LEMMA UiTyped == ASSUME InboxInv, TypeInv, UiStep PROVE TypeInv'
<1>1. ui \in Answering /\ ui.p \in Peers
  BY DEF UiStep, AnswerStatus, EnsureConversation, ShowHistory, InboxInv, InboxTypes, Answering, Idle
<1>2. CASE AnswerStatus
  <2> PICK p \in Peers : p = ui.p
    BY <1>1
  <2> DEFINE c == SetTrust(p, ui.at)
  <2>1. ui.at \in Trusts \ {"absent"} /\ contacts' = [contacts EXCEPT ![p] = c]
    BY <1>2 DEF AnswerStatus, Trusts
  <2>2. c \in ContactType /\ (c.trust = "absent" => c = NoContact)
    BY <2>1, SetTyped DEF TypeInv
  <2> HIDE DEF c
  <2>3. ContactsTyped'
    BY <2>1, <2>2, ContactPut DEF TypeInv
  <2> QED BY <1>2, <2>3 DEF AnswerStatus, stored, TypeInv, StoresTyped, CopiesTyped
<1>3. CASE ShowHistory
  <2>1. LoadHistory(ui.p) /\ UNCHANGED <<directory, presence, asked>>
    BY <1>3 DEF ShowHistory
  <2> QED BY <1>1, <2>1, LoadTyped DEF TypeInv, StoresTyped
<1>4. CASE EnsureConversation
  BY <1>4 DEF EnsureConversation, TypeInv, ContactsTyped, StoresTyped, CopiesTyped
<1> QED BY <1>2, <1>3, <1>4 DEF UiStep

LEMMA CommandsTyped ==
    ASSUME TypeInv, NEW p \in Peers,
           \/ \E reply \in {"trusted", "rejected", "cancel"} : Answer(p, reply)
           \/ OpenChat(p) \/ UseConversation(p) \/ AskAssistant(p) \/ AddById(p)
           \/ DeleteContact(p) \/ DirectoryChange(p)
    PROVE  TypeInv'
<1>1. CASE \E reply \in {"trusted", "rejected", "cancel"} : Answer(p, reply)
  <2>1. UNCHANGED <<contacts, directory, sessions, seen, presence>> /\ asked' \subseteq asked
    BY <1>1 DEF Answer
  <2> QED BY <2>1 DEF TypeInv, ContactsTyped, StoresTyped, CopiesTyped
<1>2. CASE AskAssistant(p)
  <2>1. LoadHistory(p) /\ UNCHANGED <<directory, presence, asked>>
    BY <1>2 DEF AskAssistant
  <2> QED BY <2>1, LoadTyped DEF TypeInv, StoresTyped
<1>3. CASE AddById(p)
  <2> DEFINE c == AddContact(p, <<>>, TRUE, "trusted")
  <2>1. contacts' = [contacts EXCEPT ![p] = c] /\ UNCHANGED <<directory, sessions, seen, asked, presence>>
    BY <1>3 DEF AddById, stored
  <2>2. c \in ContactType /\ c.trust # "absent"
    <3>1. <<>> \in Seq(Devices) /\ "trusted" \in Trusts \ {"absent"}
      BY DEF Trusts
    <3> QED BY <3>1, AddTyped DEF TypeInv
  <2> HIDE DEF c
  <2>3. ContactsTyped'
    BY <2>1, <2>2, ContactPut DEF TypeInv
  <2> QED BY <2>1, <2>3 DEF TypeInv, StoresTyped, CopiesTyped
<1>4. CASE DeleteContact(p)
  <2>1. contacts' = [contacts EXCEPT ![p] = NoContact] /\ UNCHANGED <<directory, sessions, seen, asked, presence>>
    BY <1>4 DEF DeleteContact, stored
  <2>2. NoContact \in ContactType
    BY DirectInboxAssumption DEF NoContact, ContactType, Trusts
  <2>3. ContactsTyped'
    BY <2>1, <2>2, ContactPut DEF TypeInv
  <2> QED BY <2>1, <2>3 DEF TypeInv, StoresTyped, CopiesTyped
<1>5. CASE DirectoryChange(p)
  <2>1. UNCHANGED <<contacts, sessions, seen, asked, presence>>
        /\ \E list \in Directories : directory' = [directory EXCEPT ![p] = list]
    BY <1>5 DEF DirectoryChange, stored
  <2> QED BY <2>1 DEF TypeInv, ContactsTyped, StoresTyped, CopiesTyped
<1>6. CASE OpenChat(p) \/ UseConversation(p)
  <2>1. UNCHANGED <<contacts, directory, sessions, seen, asked, presence>>
    BY <1>6 DEF OpenChat, UseConversation, stored
  <2> QED BY <2>1 DEF TypeInv, ContactsTyped, StoresTyped, CopiesTyped
<1> QED BY <1>1, <1>2, <1>3, <1>4, <1>5, <1>6

\* A copy holds what the contact holds, with the primary device in front.
LEMMA ReadTyped == ASSUME InboxInv, TypeInv, PresenceRead PROVE TypeInv'
<1> DEFINE copyOf(p) == [p |-> p, trust |-> contacts[p].trust, online |-> Listed(p),
                         keys |-> IF Listed(p) THEN Merge(<<Head(directory[p])>>, contacts[p].keys)
                                  ELSE contacts[p].keys]
           Known == {p \in Peers : contacts[p].trust # "absent"}
<1>1. UNCHANGED <<contacts, directory, sessions, seen, asked>>
  BY DEF PresenceRead, stored
<1>2. PICK S \in SUBSET Known : \E work \in SetToSeqs(S) :
        presence' = [i \in 1 .. Len(work) |-> copyOf(work[i])]
  BY DEF PresenceRead
<1>3. PICK work \in SetToSeqs(S) : presence' = [i \in 1 .. Len(work) |-> copyOf(work[i])]
  BY <1>2
<1>4. ASSUME NEW p \in Known PROVE copyOf(p) \in Copies
  <2>1. contacts[p] \in ContactType /\ directory[p] \in Seq(Devices)
    BY DirectInboxAssumption DEF TypeInv, ContactsTyped, StoresTyped
  <2>2. contacts[p].keys \in Seq(Devices) /\ contacts[p].trust \in Trusts \ {"absent"}
    BY <2>1 DEF ContactType
  <2>3. Listed(p) => Merge(<<Head(directory[p])>>, contacts[p].keys) \in Seq(Devices)
    <3>1. Listed(p) => <<Head(directory[p])>> \in Seq(Devices)
      BY <2>1 DEF Listed
    <3> QED BY <2>2, <3>1, MergeIsKeys
  <2>4. Listed(p) \in BOOLEAN
    BY DEF Listed
  <2> QED BY <2>2, <2>3, <2>4 DEF Copies
<1>5. Len(work) \in Nat /\ \A i \in 1 .. Len(work) : work[i] \in Known
  <2>1. IsFiniteSet(S) /\ Cardinality(S) \in Nat
    BY DirectInboxAssumption, FS_Subset, FS_CardinalityType
  <2>2. work \in [1 .. Cardinality(S) -> S]
    BY DEF SetToSeqs
  <2>3. work \in Seq(S)
    BY <2>1, <2>2
  <2> QED BY <2>3
<1> HIDE DEF copyOf, Known
<1>6. presence' \in Seq(Copies) /\ Len(presence') = Len(work)
  BY <1>3, <1>4, <1>5
<1>7. CopiesTyped'
  BY <1>6 DEF CopiesTyped
<1> QED BY <1>1, <1>7 DEF TypeInv, ContactsTyped, StoresTyped

LEMMA WriteTyped == ASSUME InboxInv, TypeInv, PresenceWrite PROVE TypeInv'
<1> DEFINE w == Head(presence)
           c == AddContact(w.p, w.keys, w.online, w.trust)
<1>1. /\ presence # <<>> /\ presence' = Tail(presence)
      /\ contacts' = [contacts EXCEPT ![w.p] = c]
      /\ UNCHANGED <<directory, sessions, seen, asked>>
  BY DEF PresenceWrite, stored
<1>2. PICK S : presence \in Seq(S)
  BY DEF InboxInv, InboxTypes
<1>3. /\ w = presence[1] /\ 1 \in 1 .. Len(presence)
      /\ Tail(presence) \in Seq(S)
      /\ \A i \in 1 .. Len(Tail(presence)) :
            i + 1 \in 1 .. Len(presence) /\ Tail(presence)[i] = presence[i + 1]
  BY <1>1, <1>2
<1>4. w \in Copies
  BY <1>3 DEF TypeInv, CopiesTyped
<1>5. w.p \in Peers /\ w.keys \in Seq(Devices) /\ w.online \in BOOLEAN /\ w.trust \in Trusts \ {"absent"}
  BY <1>4 DEF Copies
<1>6. c \in ContactType /\ c.trust # "absent"
  BY <1>5, AddTyped DEF TypeInv
<1> HIDE DEF c, w
<1>7. ContactsTyped'
  BY <1>1, <1>5, <1>6, ContactPut DEF TypeInv
<1>8. CopiesTyped'
  BY <1>1, <1>3 DEF TypeInv, CopiesTyped
<1> QED BY <1>1, <1>7, <1>8 DEF TypeInv, StoresTyped

LEMMA TypeStep == InboxInv /\ TypeInv /\ [Next]_vars => TypeInv'
<1> SUFFICES ASSUME InboxInv, TypeInv, [Next]_vars PROVE TypeInv'
  OBVIOUS
<1>1. CASE Crash
  <2>1. UNCHANGED <<contacts, directory, sessions, seen>> /\ presence' = <<>> /\ asked' = {}
    BY <1>1 DEF Crash
  <2>2. Len(presence') = 0
    BY <2>1
  <2> QED BY <2>1, <2>2 DEF TypeInv, ContactsTyped, StoresTyped, CopiesTyped
<1>2. CASE UNCHANGED vars
  BY <1>2 DEF vars, stored, TypeInv, ContactsTyped, StoresTyped, CopiesTyped
<1> QED BY <1>1, <1>2, ReceiveTyped, NetTyped, UiTyped, CommandsTyped, ReadTyped, WriteTyped DEF Next

\* InboxTypeCorrect: contacts, sessions and rows are well typed, keys are lists
\* of devices, and nothing is kept or brought back of a contact that is gone,
\* for any number of peers, texts, deliveries and crashes.
THEOREM InboxTypeCorrect == Spec => []TypeOK
<1>1. InboxInv /\ TypeInv => TypeOK
  BY DEF InboxInv, InboxTypes, Stored, Auths, Forms, TypeInv, ContactsTyped, ContactType, StoresTyped, TypeOK
<1> QED BY <1>1, InboxStart, InboxStep, TypeStart, TypeStep, PTL DEF Spec

-----------------------------------------------------------------------------
(* The inbox as a GuardedInbox: each commit to the table of messages is one   *)
(* of its operations, everything else is none.                                *)

LEMMA NothingGuarded ==
    ASSUME UNCHANGED <<rows, convs, letIn, opened>>
    PROVE  UNCHANGED Guarded!vars
  BY DEF Guarded!vars

\* Texts not on record were not opened, so opening them is opening them once.
LEMMA OpenIsOpen ==
    ASSUME InboxInv, NEW M, \A m \in M : m \notin seen, Open(M), UNCHANGED <<rows, convs, letIn>>
    PROVE  Guarded!Next
<1> DEFINE N == M \cap Msgs
<1>1. \A m \in N : opened[m] = 0
  BY DEF InboxInv, OpenedIsSeen
<1>2. opened' = [m \in Msgs |-> IF m \in N THEN 1 ELSE opened[m]]
  <2>1. opened' = [m \in Msgs |-> IF m \in M THEN opened[m] + 1 ELSE opened[m]]
    BY DEF Open
  <2> QED BY <1>1, <2>1
<1>3. /\ [m \in Msgs |-> rows[m].auth]' = [m \in Msgs |-> rows[m].auth]
      /\ [m \in Msgs |-> rows[m].conv]' = [m \in Msgs |-> rows[m].conv]
  OBVIOUS
<1> HIDE DEF N
<1>4. Guarded!Open(N)
  BY <1>1, <1>2, <1>3 DEF Guarded!Open
<1>5. N \in SUBSET Msgs
  BY DEF N
<1> QED BY <1>4, <1>5 DEF Guarded!Next

LEMMA HistoryIsOpen ==
    ASSUME InboxInv, NEW p \in Peers, LoadHistory(p), UNCHANGED <<rows, convs, letIn>>
    PROVE  Guarded!Next
<1>1. PICK found \in PeerDevices(p) :
        Open({m \in SealedRows(p) : Outcome(m, "sealed", found) = "success"})
  BY DEF LoadHistory
<1> QED BY <1>1, OpenIsOpen, SuccessIsNew

LEMMA ReceiveOpenIsOpen == ASSUME InboxInv, ReceiveOpen PROVE Guarded!Next
<1>1. PICK found \in PeerDevices(From[net.m]) :
        Open(IF Outcome(net.m, net.text, found) = "success" THEN {net.m} ELSE {})
  BY DEF ReceiveOpen
<1>2. \A m \in (IF Outcome(net.m, net.text, found) = "success" THEN {net.m} ELSE {}) : m \notin seen
  BY SuccessIsNew
<1>3. UNCHANGED <<rows, convs, letIn>>
  BY DEF ReceiveOpen, chats
<1> QED BY <1>1, <1>2, <1>3, OpenIsOpen

LEMMA SaveIsKeep == ASSUME InboxInv, ReceiveSave PROVE Guarded!Next
<1>1. /\ net.at = "save" /\ UNCHANGED <<opened, convs, letIn>>
      /\ rows' = [rows EXCEPT ![net.m] = [auth |-> net.auth, text |-> net.text, conv |-> "own"]]
  BY DEF ReceiveSave, SaveRow, history
<1>2. net \in Storing /\ net # Idle
  BY <1>1 DEF InboxInv, InboxTypes, Storing, Idle
<1>3. net.m \in Msgs /\ net.auth \in {"pending", "trusted", "rejected"} /\ From[net.m] \in Peers
  BY <1>2, DirectInboxAssumption DEF Storing, Auths
<1>4. PICK m \in Msgs, s \in {"pending", "trusted", "rejected"} : net.m = m /\ net.auth = s
  BY <1>3
<1>5. s = "trusted" => From[m] \in letIn
  BY <1>2, <1>4 DEF InboxInv, NetBacked, Granted
<1>6. /\ rows'[m].auth = s /\ rows'[m].conv = "own"
      /\ \A n \in Msgs \ {m} : rows'[n].auth = rows[n].auth /\ rows'[n].conv = rows[n].conv
  BY <1>1, <1>4 DEF InboxInv, InboxTypes
<1>7. /\ [n \in Msgs |-> rows[n].auth]' = [[n \in Msgs |-> rows[n].auth] EXCEPT ![m] = s]
      /\ [n \in Msgs |-> rows[n].conv]' = [[n \in Msgs |-> rows[n].conv] EXCEPT ![m] = "own"]
  BY <1>6
<1>8. "own" \in Folders
  BY DEF Folders
<1>9. Guarded!Keep(m, s)
  BY <1>1, <1>5, <1>7, <1>8 DEF Guarded!Keep
<1> QED BY <1>9 DEF Guarded!Next

\* What becomes of the conversations, if no peer is left without one.
LEMMA RearrangeIsMerge ==
    ASSUME NEW new \in [Peers -> SUBSET Folders], Rearrange(new), UNCHANGED <<letIn, opened>>,
           \A p \in Peers : convs[p] # {} => new[p] # {}
    PROVE  Guarded!Next
<1> DEFINE status == [m \in Msgs |-> rows[m].auth]
           place == [m \in Msgs |-> rows[m].conv]
<1>1. ASSUME NEW m \in Msgs
      PROVE  /\ rows'[m].auth = IF place[m] \in convs[From[m]] \ new[From[m]] THEN "none" ELSE status[m]
             /\ rows'[m].conv = IF place[m] \in convs[From[m]] \ new[From[m]] THEN "none" ELSE place[m]
  <2>1. rows'[m] = IF rows[m].conv \in convs[From[m]] \ new[From[m]] THEN NoRow ELSE rows[m]
    BY DEF Rearrange
  <2>2. NoRow.auth = "none" /\ NoRow.conv = "none"
    BY DEF NoRow
  <2> QED BY <2>1, <2>2
<1>2. /\ status' = [m \in Msgs |-> IF place[m] \in convs[From[m]] \ new[From[m]]
                                   THEN "none" ELSE status[m]]
      /\ place' = [m \in Msgs |-> IF place[m] \in convs[From[m]] \ new[From[m]]
                                  THEN "none" ELSE place[m]]
  BY <1>1
<1>3. convs' = new
  BY DEF Rearrange
<1>4. Guarded!Merge(new)
  BY <1>2, <1>3 DEF Guarded!Merge
<1> QED BY <1>4 DEF Guarded!Next

LEMMA OwnIsMerge ==
    ASSUME InboxInv, NEW p \in Peers, OwnConversation(p), UNCHANGED <<letIn, opened>>
    PROVE  Guarded!Next
<1>1. PICK new \in [Peers -> SUBSET Folders] :
        Rearrange(new) /\ new[p] # {} /\ \A q \in Peers \ {p} : new[q] = convs[q]
  BY OwnRearranges
<1>2. \A q \in Peers : convs[q] # {} => new[q] # {}
  BY <1>1
<1> QED BY <1>1, <1>2, RearrangeIsMerge

LEMMA CrashIsMerge == ASSUME InboxInv, Crash PROVE Guarded!Next
<1>1. PICK new \in [Peers -> SUBSET Folders] :
        /\ Rearrange(new)
        /\ (\A p \in Peers : convs[p] = {}) \/ (\A p \in Peers : new[p] \in Deduplicated(p))
  BY DEF Crash, LoadConversations
<1>2. ASSUME NEW p \in Peers, convs[p] # {} PROVE new[p] # {}
  BY <1>1, <1>2 DEF Deduplicated, Folders
<1> QED BY <1>1, <1>2, RearrangeIsMerge DEF Crash

\* The network thread only adds the conversation a text is kept in.
LEMMA ConversationIsMerge == ASSUME InboxInv, ReceiveConversation PROVE Guarded!Next
<1>1. net # Idle /\ net \in Storing
  BY DEF ReceiveConversation, InboxInv, InboxTypes, Idle
<1> PICK p \in Peers : p = From[net.m]
  BY <1>1, DirectInboxAssumption DEF Storing
<1> DEFINE new == [convs EXCEPT ![p] = @ \cup {"own"}]
<1>2. convs \in [Peers -> SUBSET Folders] /\ rows \in [Msgs -> Stored]
  BY DEF InboxInv, InboxTypes
<1>3. /\ new \in [Peers -> SUBSET Folders]
      /\ \A q \in Peers : convs[q] \subseteq new[q]
  BY <1>2 DEF Folders
<1>4. convs' = new /\ UNCHANGED <<rows, letIn, opened>>
  BY DEF ReceiveConversation, history
<1> HIDE DEF new
<1>5. \A m \in Msgs : From[m] \in Peers
  BY DirectInboxAssumption
<1>6. rows' = [m \in Msgs |-> IF rows[m].conv \in convs[From[m]] \ new[From[m]] THEN NoRow
                              ELSE rows[m]]
  BY <1>2, <1>3, <1>4, <1>5
<1>7. Rearrange(new)
  BY <1>4, <1>6 DEF Rearrange
<1> QED BY <1>3, <1>4, <1>7, RearrangeIsMerge

LEMMA AnswerIsAnswer ==
    ASSUME InboxInv, NEW p \in Peers, NEW reply \in {"trusted", "rejected", "cancel"},
           Answer(p, reply)
    PROVE  Guarded!Next \/ UNCHANGED Guarded!vars
<1>1. UNCHANGED <<convs, opened>>
  BY DEF Answer
<1>2. CASE UNCHANGED <<rows, ui, letIn>>
  BY <1>1, <1>2, NothingGuarded
<1>3. CASE /\ reply # "cancel" /\ PromoteRows(p, reply)
           /\ letIn' = letIn \cup IF reply = "trusted" THEN {p} ELSE {}
  <2>1. reply \in {"trusted", "rejected"}
    BY <1>3
  <2>2. rows' = [m \in Msgs |-> IF m \in Texts(p) /\ rows[m].auth = "pending"
                                THEN [rows[m] EXCEPT !.auth = reply] ELSE rows[m]]
    BY <1>3 DEF PromoteRows
  <2>3. \A m \in Msgs :
          /\ rows'[m].auth = IF From[m] = p /\ rows[m].auth = "pending" THEN reply ELSE rows[m].auth
          /\ rows'[m].conv = rows[m].conv
    BY <2>2 DEF Texts, InboxInv, InboxTypes, Stored
  <2>4. /\ [m \in Msgs |-> rows[m].auth]' =
             [m \in Msgs |-> IF From[m] = p /\ [n \in Msgs |-> rows[n].auth][m] = "pending"
                             THEN reply ELSE [n \in Msgs |-> rows[n].auth][m]]
        /\ [m \in Msgs |-> rows[m].conv]' = [m \in Msgs |-> rows[m].conv]
    BY <2>3
  <2>5. letIn' = IF reply = "trusted" THEN letIn \cup {p} ELSE letIn
    BY <1>3
  <2>6. Guarded!Answer(p, reply)
    BY <1>1, <2>4, <2>5 DEF Guarded!Answer
  <2> QED BY <2>1, <2>6 DEF Guarded!Next
<1> QED BY <1>2, <1>3 DEF Answer

LEMMA AddIsAdd == ASSUME InboxInv, NEW p \in Peers, AddById(p) PROVE Guarded!Next
<1>1. letIn' = letIn \cup {p} /\ UNCHANGED <<rows, convs, opened>>
  BY DEF AddById, stored
<1>2. Guarded!Add(p)
  BY <1>1 DEF Guarded!Add
<1> QED BY <1>2 DEF Guarded!Next

LEMMA GuardedStep ==
    ASSUME InboxInv, [Next]_vars
    PROVE  [Guarded!Next]_(Guarded!vars)
<1>1. CASE NetStep
  <2>1. CASE ReceiveCount
    BY <2>1, NothingGuarded DEF ReceiveCount, stored, history
  <2> QED BY <1>1, <2>1, ReceiveOpenIsOpen, SaveIsKeep, ConversationIsMerge DEF NetStep
<1>2. CASE UiStep
  <2>1. CASE AnswerStatus
    BY <2>1, NothingGuarded DEF AnswerStatus, stored, history
  <2>2. CASE EnsureConversation
    <3>1. ui.at = "conversation" /\ OwnConversation(ui.p) /\ UNCHANGED <<letIn, opened>>
      BY <2>2 DEF EnsureConversation, history
    <3>2. ui.p \in Peers
      BY <3>1 DEF InboxInv, InboxTypes, Answering, Idle
    <3> QED BY <3>1, <3>2, OwnIsMerge
  <2>3. CASE ShowHistory
    <3>1. ui.at = "history" /\ LoadHistory(ui.p) /\ UNCHANGED <<rows, convs, letIn>>
      BY <2>3 DEF ShowHistory, chats
    <3>2. ui.p \in Peers
      BY <3>1 DEF InboxInv, InboxTypes, Answering, Idle
    <3> QED BY <3>1, <3>2, HistoryIsOpen
  <2> QED BY <1>2, <2>1, <2>2, <2>3 DEF UiStep
<1>3. ASSUME NEW p \in Peers, AskAssistant(p) PROVE Guarded!Next
  BY <1>3, HistoryIsOpen DEF AskAssistant, chats
<1>5. ASSUME NEW p \in Peers, UseConversation(p) PROVE Guarded!Next
  BY <1>5, OwnIsMerge DEF UseConversation, history
<1>4. CASE \/ PresenceRead \/ PresenceWrite \/ UNCHANGED vars
           \/ \E m \in Msgs : Receive(m)
           \/ \E p \in Peers : OpenChat(p) \/ DeleteContact(p) \/ DirectoryChange(p)
  <2>1. UNCHANGED <<rows, convs, letIn, opened>>
    BY <1>4 DEF PresenceRead, PresenceWrite, Receive, OpenChat, DeleteContact, DirectoryChange,
       vars, stored, history
  <2> QED BY <2>1, NothingGuarded
<1> QED BY <1>1, <1>2, <1>3, <1>4, <1>5, AnswerIsAnswer, AddIsAdd, CrashIsMerge DEF Next

\* The table of messages keeps the promises of a GuardedInbox: no row is lost but
\* with the conversation it is kept in, when another one with its peer takes its
\* place, and none is moved by anything but an answer to its sender or its own
\* redelivery, whatever the network thread, the UI, the presence worker and a
\* crash do in between.
THEOREM InboxIsGuarded == Spec => InboxSpec
<1>1. Init => Guarded!Init
  <2> SUFFICES ASSUME Init PROVE Guarded!Init
    OBVIOUS
  <2>1. PICK older \in SUBSET {m \in Msgs : Via[m] = Plain} :
          /\ rows = [m \in Msgs |-> IF m \in older
                       THEN [auth |-> "trusted", text |-> "plain", conv |-> "old"] ELSE NoRow]
          /\ letIn = {From[m] : m \in older}
          /\ convs \in [Peers -> {{}, {"old"}}]
          /\ \A m \in older : convs[From[m]] = {"old"}
    BY DEF Init
  <2>2. ASSUME NEW m \in Msgs
        PROVE  IF m \in older THEN rows[m].auth = "trusted" /\ rows[m].conv = "old"
               ELSE rows[m].auth = "none" /\ rows[m].conv = "none"
    BY <2>1 DEF NoRow
  <2>3. letIn \subseteq Peers
    BY <2>1, DirectInboxAssumption
  <2>4. convs \in [Peers -> SUBSET Folders]
    <3>1. {} \in SUBSET Folders /\ {"old"} \in SUBSET Folders
      BY DEF Folders
    <3> QED BY <2>1, <3>1
  <2>5. /\ [m \in Msgs |-> rows[m].auth] \in [Msgs -> {"none", "trusted"}]
        /\ [m \in Msgs |-> rows[m].conv] \in [Msgs -> Folders \cup {"none"}]
    BY <2>2 DEF Folders
  <2>6. ASSUME NEW m \in Msgs
        PROVE  IF rows[m].auth = "none" THEN rows[m].conv = "none"
               ELSE From[m] \in letIn /\ rows[m].conv \in convs[From[m]]
    BY <2>1, <2>2
  <2> QED BY <2>3, <2>4, <2>5, <2>6 DEF Init, Guarded!Init
<1>2. InboxInv /\ [Next]_vars => [Guarded!Next]_(Guarded!vars)
  BY GuardedStep
<1> QED BY <1>1, <1>2, InboxStart, InboxStep, PTL DEF Spec, InboxSpec, Guarded!Spec
=================================================================================
