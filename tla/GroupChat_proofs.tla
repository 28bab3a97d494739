---------------------------- MODULE GroupChat_proofs ----------------------------
(* Proofs about a group, for any number of users, messages, membership        *)
(* operations and restarts: whoever counts as active, in any client or at the *)
(* Hub, consented, and a message is opened once; a client's active key is one *)
(* it has; and nobody reads a message whom its sender had removed with the    *)
(* key it is sealed with.  The snapshots under way have to satisfy the same   *)
(* as the tables they replace, late ones included, since consent is never     *)
(* taken back; and the placeholder group a client makes for a message without *)
(* a group is sound as messages are only routed to and from those who         *)
(* consented.                                                                 *)
EXTENDS GroupChat, TLAPS

Sealed == [by : Users \cup {None}, ver : Nat, to : SUBSET Users]
Views == [Users -> Status]
Updates == [kind : {"update"}, from : Users, view : Views, packets : Sealed]
Syncs == [kind : {"sync"}, from : Users, view : Views]
Texts == [kind : {"message"}, from : Users, m : Msgs]
Packets == Updates \cup Syncs \cup Texts

GroupTypes ==
    /\ store \in [Users -> Views]
    /\ active \in [Users -> (SUBSET Users) \cup {None}]
    /\ meta \in [Users -> Sealed]
    /\ current \in [Users -> Nat]
    /\ up \in [Users -> Seq(Packets)] /\ down \in [Users -> Seq(Packets)]
    /\ text \in [Users -> [Msgs -> {"none", "sealed", "plain"}]]
    /\ opens \in [Users -> [Msgs -> Nat]] /\ DOMAIN origin = Msgs
    /\ consented \subseteq Users

\* A packet shows as active, or has as its sender, only who consented.
Sound(p, who) ==
    /\ p.kind \in {"update", "sync"} => Active(p.view) \subseteq who
    /\ p.kind = "message" => p.from \in who

ClientsSound ==
    /\ \A u \in Users : Active(store[u]) \subseteq consented
    /\ \A u \in Users : active[u] # None => active[u] \subseteq consented

RouteSound == route # None => route \subseteq consented

UpSound == \A u \in Users : \A i \in 1 .. Len(up[u]) : Sound(up[u][i], consented)

\* Messages come down only to those who consented.
DownSound ==
    \A u \in Users : \A i \in 1 .. Len(down[u]) :
        /\ Sound(down[u][i], consented)
        /\ down[u][i].kind = "message" => u \in consented

\* Redelivery repeats what was delivered: to one who consented, from one who did.
TextSound ==
    /\ \A u \in Users, m \in Msgs : text[u][m] # "none" => u \in consented
    /\ \A m \in Msgs : origin[m] # None => origin[m].by \in consented

GroupInv ==
    GroupTypes /\ ClientsSound /\ RouteSound /\ UpSound /\ DownSound /\ TextSound /\ OpenedOnce

LEMMA ActiveOfView ==
    ASSUME NEW view \in Views
    PROVE  /\ Active(view) \subseteq Users
           /\ \A x \in Users : x \in Active(view) <=> view[x] = "active"
BY DEF Active

LEMMA SoundGrows ==
    ASSUME NEW p, NEW who, NEW more, Sound(p, who), who \subseteq more
    PROVE  Sound(p, more)
BY DEF Sound

LEMMA OneSequence ==
    ASSUME NEW S, NEW a \in S
    PROVE  <<a>> \in Seq(S) /\ Len(<<a>>) = 1 /\ <<a>>[1] = a
OBVIOUS

LEMMA PairSequence ==
    ASSUME NEW S, NEW a \in S, NEW b \in S
    PROVE  <<a, b>> \in Seq(S) /\ \A i \in 1 .. Len(<<a, b>>) : <<a, b>>[i] \in {a, b}
OBVIOUS

LEMMA GroupStart == Init => GroupInv
<1> SUFFICES ASSUME Init PROVE GroupInv
  OBVIOUS
<1>1. NoPackets \in Sealed /\ [x \in Users |-> "none"] \in Views
  BY DEF NoPackets, Sealed, Views, Status
<1>2. GroupTypes
  <2>1. <<>> \in Seq(Packets)
    OBVIOUS
  <2>2. store \in [Users -> Views] /\ meta \in [Users -> Sealed]
    BY <1>1 DEF Init
  <2>3. up \in [Users -> Seq(Packets)] /\ down \in [Users -> Seq(Packets)]
    BY <2>1 DEF Init
  <2>4. active \in [Users -> (SUBSET Users) \cup {None}] /\ current \in [Users -> Nat]
    <3>1. active = [u \in Users |-> None] /\ current = [u \in Users |-> 0]
      BY DEF Init
    <3> QED BY <3>1
  <2>5. /\ text \in [Users -> [Msgs -> {"none", "sealed", "plain"}]]
        /\ opens \in [Users -> [Msgs -> Nat]] /\ DOMAIN origin = Msgs /\ consented \subseteq Users
    BY DEF Init
  <2> QED BY <2>2, <2>3, <2>4, <2>5 DEF GroupTypes
<1>3. ClientsSound /\ RouteSound
  BY DEF Init, ClientsSound, RouteSound, Active
<1>4. UpSound /\ DownSound
  BY DEF Init, UpSound, DownSound
<1>5. TextSound /\ OpenedOnce
  BY DEF Init, TextSound, OpenedOnce
<1> QED BY <1>2, <1>3, <1>4, <1>5 DEF GroupInv

-----------------------------------------------------------------------------
(* What the operations are made of. *)

\* Frames put behind those that wait are sound if they are sound themselves.
LEMMA UpGrows ==
    ASSUME GroupInv, NEW u \in Users, NEW sent \in Seq(Packets),
           up' = [up EXCEPT ![u] = @ \o sent], consented \subseteq consented',
           \A i \in 1 .. Len(sent) : Sound(sent[i], consented')
    PROVE  up' \in [Users -> Seq(Packets)] /\ UpSound'
<1>1. up \in [Users -> Seq(Packets)]
  BY DEF GroupInv, GroupTypes
<1>2. up[u] \in Seq(Packets) /\ up[u] \o sent \in Seq(Packets)
      /\ up'[u] = up[u] \o sent /\ \A x \in Users \ {u} : up'[x] = up[x]
  BY <1>1
<1>3. up' \in [Users -> Seq(Packets)]
  BY <1>1, <1>2
<1>4. ASSUME NEW i \in 1 .. Len(up[u] \o sent) PROVE Sound((up[u] \o sent)[i], consented')
  <2>1. CASE i \in 1 .. Len(up[u])
    <3>1. (up[u] \o sent)[i] = up[u][i]
      BY <1>2, <2>1
    <3> QED BY <2>1, <3>1, SoundGrows DEF GroupInv, UpSound
  <2>2. CASE i \notin 1 .. Len(up[u])
    <3>1. i - Len(up[u]) \in 1 .. Len(sent) /\ (up[u] \o sent)[i] = sent[i - Len(up[u])]
      BY <1>2, <2>2
    <3> QED BY <3>1
  <2> QED BY <2>1, <2>2
<1>5. ASSUME NEW x \in Users \ {u}, NEW i \in 1 .. Len(up'[x]) PROVE Sound(up'[x][i], consented')
  BY <1>2, <1>5, SoundGrows DEF GroupInv, UpSound
<1> QED BY <1>2, <1>3, <1>4, <1>5 DEF UpSound

LEMMA DownGrows ==
    ASSUME GroupInv, UNCHANGED down, consented \subseteq consented'
    PROVE  DownSound'
BY SoundGrows DEF GroupInv, DownSound

\* The snapshot sent after an update has the members in memory.
LEMMA SyncIsSound ==
    ASSUME NEW u \in Users, NEW group, NEW who, group \subseteq who
    PROVE  LET sync == [kind |-> "sync", from |-> u, view |->
                          [x \in Users |-> IF x \in group THEN "active" ELSE "none"]]
           IN sync \in Packets /\ Sound(sync, who)
<1> DEFINE view == [x \in Users |-> IF x \in group THEN "active" ELSE "none"]
           sync == [kind |-> "sync", from |-> u, view |-> view]
<1>1. view \in Views /\ Active(view) \subseteq who
  BY DEF Views, Status, Active
<1> HIDE DEF view
<1>2. sync \in Packets /\ Sound(sync, who)
  BY <1>1 DEF Packets, Syncs, Sound
<1> QED BY <1>2 DEF view

LEMMA PushSound ==
    ASSUME GroupInv, NEW u \in Users, NEW view \in Views, NEW with \in Sealed,
           Push(u, view, with), consented \subseteq consented',
           Active(view) \subseteq consented', active'[u] \subseteq consented'
    PROVE  up' \in [Users -> Seq(Packets)] /\ UpSound'
<1> DEFINE update == [kind |-> "update", from |-> u, view |-> view, packets |-> with]
           sync == [kind |-> "sync", from |-> u, view |->
                      [x \in Users |-> IF x \in active'[u] THEN "active" ELSE "none"]]
<1>1. update \in Packets /\ Sound(update, consented')
  BY DEF Packets, Updates, Sound
<1>2. sync \in Packets /\ Sound(sync, consented')
  BY SyncIsSound
<1>3. PICK sent \in {<<>>, <<update, sync>>} : up' = [up EXCEPT ![u] = @ \o sent]
  BY DEF Push
<1> HIDE DEF update, sync
<1>4. sent \in Seq(Packets) /\ \A i \in 1 .. Len(sent) : Sound(sent[i], consented')
  <2>1. CASE sent = <<>>
    BY <2>1
  <2>2. CASE sent = <<update, sync>>
    BY <1>1, <1>2, <2>2, PairSequence
  <2> QED BY <1>3, <2>1, <2>2
<1> QED BY <1>3, <1>4, UpGrows

\* What a client takes over is as sound as the snapshot and its own table.
LEMMA PersistSound ==
    ASSUME GroupInv, NEW u \in Users, NEW view \in Views, Persist(u, view),
           consented \subseteq consented', Active(view) \subseteq consented'
    PROVE  /\ store' \in [Users -> Views]
           /\ active' \in [Users -> (SUBSET Users) \cup {None}]
           /\ ClientsSound' /\ active'[u] \subseteq consented'
<1>1. store \in [Users -> Views] /\ active \in [Users -> (SUBSET Users) \cup {None}]
  BY DEF GroupInv, GroupTypes
<1>2. Stored(u, view) \in Views
  BY <1>1 DEF Stored, Views
<1>3. Active(Stored(u, view)) \subseteq consented'
  BY <1>1, <1>2, ActiveOfView DEF Stored, GroupInv, ClientsSound, Active
<1>4. store' \in [Users -> Views] /\ active' \in [Users -> (SUBSET Users) \cup {None}]
  BY <1>1, <1>2, ActiveOfView DEF Persist
<1>5. store'[u] = Stored(u, view) /\ active'[u] = Active(view)
      /\ \A x \in Users \ {u} : store'[x] = store[x] /\ active'[x] = active[x]
  BY <1>1 DEF Persist
<1>6. ClientsSound'
  BY <1>3, <1>5 DEF GroupInv, ClientsSound
<1> QED BY <1>4, <1>5, <1>6

LEMMA AttachTypes ==
    ASSUME GroupInv, NEW u \in Users, NEW view \in Views, AttachKeys(u, view)
    PROVE  meta' \in [Users -> Sealed] /\ current' \in [Users -> Nat]
<1>1. PICK known \in SUBSET (Users \ {u}) :
        /\ Rotate(u)
        /\ meta' = [meta EXCEPT ![u] = [by |-> u, ver |-> current'[u], to |-> PacketsFor(view, known)]]
  BY DEF AttachKeys
<1>2. current' \in [Users -> Nat]
  BY <1>1 DEF Rotate, SaveKey, GroupInv, GroupTypes
<1>3. [by |-> u, ver |-> current'[u], to |-> PacketsFor(view, known)] \in Sealed
  BY <1>2 DEF Sealed, PacketsFor
<1> QED BY <1>1, <1>2, <1>3 DEF GroupInv, GroupTypes

-----------------------------------------------------------------------------
(* The members' operations. *)

LEMMA CreateKeeps ==
    ASSUME GroupInv, CreateGroup
    PROVE  GroupInv'
<1>1. PICK others \in SUBSET (Users \ {Creator}) :
        LET view == [x \in Users |-> IF x = Creator THEN "active"
                                     ELSE IF x \in others THEN "invited" ELSE "none"]
        IN AttachKeys(Creator, view) /\ Persist(Creator, view) /\ Push(Creator, view, meta'[Creator])
  BY DEF CreateGroup
<1> DEFINE view == [x \in Users |-> IF x = Creator THEN "active"
                                    ELSE IF x \in others THEN "invited" ELSE "none"]
<1>2. AttachKeys(Creator, view) /\ Persist(Creator, view) /\ Push(Creator, view, meta'[Creator])
  BY <1>1
<1>3. consented' = consented \cup {Creator} /\ Creator \in Users
      /\ UNCHANGED <<route, down, text, origin, opens>>
  BY GroupChatAssumption DEF CreateGroup, messages
<1>4. view \in Views /\ Active(view) \subseteq consented'
  BY <1>3 DEF Views, Status, Active
<1> HIDE DEF view
<1>5. meta' \in [Users -> Sealed] /\ current' \in [Users -> Nat]
  BY <1>2, <1>3, <1>4, AttachTypes
<1>6. /\ store' \in [Users -> Views] /\ active' \in [Users -> (SUBSET Users) \cup {None}]
      /\ ClientsSound' /\ active'[Creator] \subseteq consented'
  BY <1>2, <1>3, <1>4, PersistSound
<1>7. up' \in [Users -> Seq(Packets)] /\ UpSound'
  BY <1>2, <1>3, <1>4, <1>5, <1>6, PushSound
<1>8. GroupTypes'
  BY <1>3, <1>5, <1>6, <1>7 DEF GroupInv, GroupTypes
<1>9. RouteSound' /\ DownSound' /\ TextSound' /\ OpenedOnce'
  BY <1>3, DownGrows DEF GroupInv, RouteSound, TextSound, OpenedOnce
<1> QED BY <1>6, <1>7, <1>8, <1>9 DEF GroupInv

LEMMA ChangeKeeps ==
    ASSUME GroupInv, NEW u \in Users, NEW x \in Users, NEW status \in {"invited", "removed"},
           ChangeMember(u, x, status)
    PROVE  GroupInv'
<1> DEFINE view == [store[u] EXCEPT ![x] = status]
<1>1. AttachKeys(u, view) /\ Persist(u, view) /\ Push(u, view, meta'[u])
      /\ UNCHANGED <<route, down, text, origin, opens, consented>>
  BY DEF ChangeMember, messages
<1>2. view \in Views /\ Active(view) \subseteq consented
  <2>1. store[u] \in Views /\ Active(store[u]) \subseteq consented
    BY DEF GroupInv, GroupTypes, ClientsSound
  <2> QED BY <2>1 DEF Views, Status, Active
<1> HIDE DEF view
<1>3. meta' \in [Users -> Sealed] /\ current' \in [Users -> Nat]
  BY <1>1, <1>2, AttachTypes
<1>4. /\ store' \in [Users -> Views] /\ active' \in [Users -> (SUBSET Users) \cup {None}]
      /\ ClientsSound' /\ active'[u] \subseteq consented'
  BY <1>1, <1>2, PersistSound
<1>5. up' \in [Users -> Seq(Packets)] /\ UpSound'
  BY <1>1, <1>2, <1>3, <1>4, PushSound
<1>6. GroupTypes'
  BY <1>1, <1>3, <1>4, <1>5 DEF GroupInv, GroupTypes
<1>7. RouteSound' /\ DownSound' /\ TextSound' /\ OpenedOnce'
  BY <1>1, DownGrows DEF GroupInv, RouteSound, TextSound, OpenedOnce
<1> QED BY <1>4, <1>5, <1>6, <1>7 DEF GroupInv

LEMMA AcceptKeeps ==
    ASSUME GroupInv, NEW u \in Users, AcceptInvite(u)
    PROVE  GroupInv'
<1> DEFINE view == [store[u] EXCEPT ![u] = "active"]
<1>1. UNCHANGED <<meta, current, route, down, text, origin, opens>>
  BY DEF AcceptInvite, keyring, messages
<1>2. CASE UNCHANGED <<store, active, up, consented>>
  BY <1>1, <1>2 DEF GroupInv, GroupTypes, ClientsSound, RouteSound, UpSound, DownSound,
     TextSound, OpenedOnce
<1>3. CASE Persist(u, view) /\ Push(u, view, meta[u]) /\ consented' = consented \cup {u}
  <2>1. view \in Views /\ Active(view) \subseteq consented'
    <3>1. store[u] \in Views /\ Active(store[u]) \subseteq consented
      BY DEF GroupInv, GroupTypes, ClientsSound
    <3> QED BY <1>3, <3>1 DEF Views, Status, Active
  <2> HIDE DEF view
  <2>2. meta[u] \in Sealed
    BY DEF GroupInv, GroupTypes
  <2>3. /\ store' \in [Users -> Views] /\ active' \in [Users -> (SUBSET Users) \cup {None}]
        /\ ClientsSound' /\ active'[u] \subseteq consented'
    BY <1>3, <2>1, PersistSound
  <2>4. up' \in [Users -> Seq(Packets)] /\ UpSound'
    BY <1>3, <2>1, <2>2, <2>3, PushSound
  <2>5. GroupTypes'
    BY <1>1, <1>3, <2>3, <2>4 DEF GroupInv, GroupTypes
  <2>6. RouteSound' /\ DownSound' /\ TextSound' /\ OpenedOnce'
    BY <1>1, <1>3, DownGrows DEF GroupInv, RouteSound, TextSound, OpenedOnce
  <2> QED BY <2>3, <2>4, <2>5, <2>6 DEF GroupInv
<1> QED BY <1>2, <1>3 DEF AcceptInvite

LEMMA RejectKeeps ==
    ASSUME GroupInv, NEW u \in Users, RejectInvite(u)
    PROVE  GroupInv'
<1> DEFINE view == [store[u] EXCEPT ![u] = "removed"]
           update == [kind |-> "update", from |-> u, view |-> view, packets |-> meta[u]]
<1>1. /\ store' = [store EXCEPT ![u] = view]
      /\ UNCHANGED <<active, meta, current, route, down, text, origin, opens, consented>>
  BY DEF RejectInvite, keyring, messages
<1>2. PICK sent \in {<<>>, <<update>>} : up' = [up EXCEPT ![u] = @ \o sent]
  BY DEF RejectInvite
<1>3. view \in Views /\ Active(view) \subseteq consented
  <2>1. store[u] \in Views /\ Active(store[u]) \subseteq consented
    BY DEF GroupInv, GroupTypes, ClientsSound
  <2> QED BY <2>1 DEF Views, Status, Active
<1> HIDE DEF view
<1>4. update \in Packets /\ Sound(update, consented)
  <2>1. meta[u] \in Sealed
    BY DEF GroupInv, GroupTypes
  <2> QED BY <1>3, <2>1 DEF Packets, Updates, Sound
<1> HIDE DEF update
<1>5. sent \in Seq(Packets) /\ \A i \in 1 .. Len(sent) : Sound(sent[i], consented')
  <2>1. CASE sent = <<>>
    BY <2>1
  <2>2. CASE sent = <<update>>
    BY <1>1, <1>4, <2>2, OneSequence
  <2> QED BY <1>2, <2>1, <2>2
<1>6. up' \in [Users -> Seq(Packets)] /\ UpSound'
  BY <1>1, <1>2, <1>5, UpGrows
<1>7. GroupTypes' /\ ClientsSound'
  BY <1>1, <1>3, <1>6 DEF GroupInv, GroupTypes, ClientsSound
<1>8. RouteSound' /\ DownSound' /\ TextSound' /\ OpenedOnce'
  BY <1>1, DownGrows DEF GroupInv, RouteSound, TextSound, OpenedOnce
<1> QED BY <1>6, <1>7, <1>8 DEF GroupInv

LEMMA SendKeeps ==
    ASSUME GroupInv, NEW u \in Users, NEW m \in Msgs, Sends(u, m)
    PROVE  GroupInv'
<1>1. UNCHANGED <<store, active, meta, route, down, opens, consented>>
  BY DEF Sends, members
<1>2. u \in consented
  BY DEF Sends, MaySend, GroupInv, ClientsSound
<1>3. current' \in [Users -> Nat]
  <2>1. current \in [Users -> Nat]
    BY DEF GroupInv, GroupTypes
  <2>2. current' = [current EXCEPT ![u] = current[u] + 1] \/ current' = current
    BY DEF Sends, SealWith, Rotate, SaveKey
  <2> QED BY <2>1, <2>2
<1>4. CASE UNCHANGED <<origin, up, text>>
  BY <1>1, <1>3, <1>4 DEF GroupInv, GroupTypes, ClientsSound, RouteSound, UpSound, DownSound,
     TextSound, OpenedOnce
<1>5. CASE HandOver(u, m)
  <2> DEFINE p == [kind |-> "message", from |-> u, m |-> m]
  <2>1. PICK frames \in {<<>>, <<p>>} : up' = [up EXCEPT ![u] = @ \o frames]
    BY <1>5 DEF HandOver
  <2>2. p \in Packets /\ Sound(p, consented)
    BY <1>2 DEF Packets, Texts, Sound
  <2> HIDE DEF p
  <2>3. frames \in Seq(Packets) /\ \A i \in 1 .. Len(frames) : Sound(frames[i], consented')
    <3>1. CASE frames = <<>>
      BY <3>1
    <3>2. CASE frames = <<p>>
      BY <1>1, <2>2, <3>2, OneSequence
    <3> QED BY <2>1, <3>1, <3>2
  <2>4. up' \in [Users -> Seq(Packets)] /\ UpSound'
    BY <1>1, <2>1, <2>3, UpGrows
  <2>5. text' = [text EXCEPT ![u][m] = "plain"]
        /\ DOMAIN origin' = Msgs /\ origin'[m].by = u
        /\ \A n \in Msgs \ {m} : origin'[n] = origin[n]
    BY <1>5 DEF HandOver, GroupInv, GroupTypes
  <2>6. text' \in [Users -> [Msgs -> {"none", "sealed", "plain"}]]
        /\ \A x \in Users, n \in Msgs : text'[x][n] # "none" => x = u \/ text[x][n] # "none"
    BY <2>5 DEF GroupInv, GroupTypes
  <2>7. GroupTypes'
    BY <1>1, <1>3, <2>4, <2>5, <2>6 DEF GroupInv, GroupTypes
  <2>8. TextSound'
    BY <1>1, <1>2, <2>5, <2>6 DEF GroupInv, TextSound
  <2>9. ClientsSound' /\ RouteSound' /\ DownSound' /\ OpenedOnce'
    BY <1>1, DownGrows DEF GroupInv, ClientsSound, RouteSound, OpenedOnce
  <2> QED BY <2>4, <2>7, <2>8, <2>9 DEF GroupInv
<1> QED BY <1>4, <1>5 DEF Sends

-----------------------------------------------------------------------------
(* The Hub. *)

LEMMA HeadOfQueue ==
    ASSUME NEW S, NEW q \in Seq(S), q # <<>>
    PROVE  /\ Head(q) \in S /\ Tail(q) \in Seq(S)
           /\ 1 \in 1 .. Len(q) /\ Head(q) = q[1]
           /\ \A i \in 1 .. Len(Tail(q)) : i + 1 \in 1 .. Len(q) /\ Tail(q)[i] = q[i + 1]
OBVIOUS

LEMMA LastOfQueue ==
    ASSUME NEW S, NEW q \in Seq(S), NEW e \in S
    PROVE  /\ Append(q, e) \in Seq(S) /\ Append(q, e)[Len(q) + 1] = e
           /\ \A i \in 1 .. Len(Append(q, e)) :
                 i = Len(q) + 1 \/ (i \in 1 .. Len(q) /\ Append(q, e)[i] = q[i])
OBVIOUS

LEMMA UpTaken ==
    ASSUME GroupInv, NEW u \in Users, up[u] # <<>>, up' = [up EXCEPT ![u] = Tail(@)],
           consented' = consented
    PROVE  /\ up' \in [Users -> Seq(Packets)] /\ UpSound'
           /\ Head(up[u]) \in Packets /\ Sound(Head(up[u]), consented)
<1>1. up \in [Users -> Seq(Packets)]
  BY DEF GroupInv, GroupTypes
<1>2. up[u] \in Seq(Packets)
  BY <1>1
<1>3. Head(up[u]) \in Packets /\ Sound(Head(up[u]), consented) /\ Tail(up[u]) \in Seq(Packets)
  BY <1>2, HeadOfQueue DEF GroupInv, UpSound
<1>4. up' \in [Users -> Seq(Packets)] /\ up'[u] = Tail(up[u])
      /\ \A x \in Users \ {u} : up'[x] = up[x]
  BY <1>1, <1>3
<1>5. ASSUME NEW i \in 1 .. Len(Tail(up[u])) PROVE Sound(Tail(up[u])[i], consented)
  BY <1>2, HeadOfQueue DEF GroupInv, UpSound
<1> QED BY <1>3, <1>4, <1>5 DEF GroupInv, UpSound

LEMMA DownTaken ==
    ASSUME GroupInv, NEW u \in Users, down[u] # <<>>, down' = [down EXCEPT ![u] = Tail(@)],
           consented' = consented
    PROVE  /\ down' \in [Users -> Seq(Packets)] /\ DownSound'
           /\ Head(down[u]) \in Packets /\ Sound(Head(down[u]), consented)
           /\ Head(down[u]).kind = "message" => u \in consented
<1>1. down \in [Users -> Seq(Packets)]
  BY DEF GroupInv, GroupTypes
<1>2. down[u] \in Seq(Packets)
  BY <1>1
<1>3. /\ Head(down[u]) \in Packets /\ Tail(down[u]) \in Seq(Packets)
      /\ Sound(Head(down[u]), consented) /\ (Head(down[u]).kind = "message" => u \in consented)
  BY <1>2, HeadOfQueue DEF GroupInv, DownSound
<1>4. down' \in [Users -> Seq(Packets)] /\ down'[u] = Tail(down[u])
      /\ \A x \in Users \ {u} : down'[x] = down[x]
  BY <1>1, <1>3
<1>5. ASSUME NEW i \in 1 .. Len(Tail(down[u]))
      PROVE  /\ Sound(Tail(down[u])[i], consented)
             /\ Tail(down[u])[i].kind = "message" => u \in consented
  BY <1>2, HeadOfQueue DEF GroupInv, DownSound
<1> QED BY <1>3, <1>4, <1>5 DEF GroupInv, DownSound

LEMMA DownAppended ==
    ASSUME GroupInv, NEW to \in SUBSET Users, NEW p \in Packets, Sound(p, consented),
           p.kind = "message" => to \subseteq consented,
           down' = [x \in Users |-> IF x \in to THEN Append(down[x], p) ELSE down[x]],
           consented' = consented
    PROVE  down' \in [Users -> Seq(Packets)] /\ DownSound'
<1>1. down \in [Users -> Seq(Packets)]
  BY DEF GroupInv, GroupTypes
<1>2. ASSUME NEW x \in Users
      PROVE  /\ down'[x] \in Seq(Packets)
             /\ \A i \in 1 .. Len(down'[x]) :
                   /\ Sound(down'[x][i], consented)
                   /\ down'[x][i].kind = "message" => x \in consented
  <2>1. CASE x \in to
    <3>1. down'[x] = Append(down[x], p) /\ down[x] \in Seq(Packets)
      BY <1>1, <2>1
    <3>2. down'[x] \in Seq(Packets)
      BY <3>1, LastOfQueue
    <3>3. ASSUME NEW i \in 1 .. Len(Append(down[x], p))
          PROVE  /\ Sound(Append(down[x], p)[i], consented)
                 /\ Append(down[x], p)[i].kind = "message" => x \in consented
      <4>1. CASE Append(down[x], p)[i] = p
        BY <2>1, <4>1
      <4>2. CASE i \in 1 .. Len(down[x]) /\ Append(down[x], p)[i] = down[x][i]
        BY <4>2 DEF GroupInv, DownSound
      <4> QED BY <3>1, <4>1, <4>2, LastOfQueue
    <3> QED BY <3>1, <3>2, <3>3
  <2>2. CASE x \notin to
    <3>1. down'[x] = down[x] /\ down[x] \in Seq(Packets)
      BY <1>1, <2>2
    <3> QED BY <3>1 DEF GroupInv, DownSound
  <2> QED BY <2>1, <2>2
<1> QED BY <1>2 DEF DownSound

LEMMA HubKeeps ==
    ASSUME GroupInv, NEW u \in Users, HubHandle(u)
    PROVE  GroupInv'
<1> DEFINE p == Head(up[u])
           to == Addressed(u, p)
<1>1. /\ up[u] # <<>> /\ up' = [up EXCEPT ![u] = Tail(@)]
      /\ route' = IF p.kind \in {"update", "sync"} THEN Routed(p.view) ELSE route
      /\ down' = [x \in Users |-> IF x \in to THEN Append(down[x], p) ELSE down[x]]
      /\ UNCHANGED <<store, active, meta, current, text, origin, opens, consented>>
  BY DEF HubHandle, members, keyring, messages
<1>2. up' \in [Users -> Seq(Packets)] /\ UpSound' /\ p \in Packets /\ Sound(p, consented)
  BY <1>1, UpTaken
<1>3. RouteSound'
  BY <1>1, <1>2 DEF Routed, Sound, GroupInv, RouteSound
<1>4. to \in SUBSET Users /\ (p.kind = "message" => to \subseteq consented)
  <2>1. CASE p.kind = "update"
    BY <2>1 DEF Addressed
  <2>2. CASE p.kind = "sync"
    BY <2>2 DEF Addressed
  <2>3. CASE p.kind = "message"
    <3>1. to \subseteq consented
      BY <2>3 DEF Addressed, GroupInv, RouteSound
    <3> QED BY <3>1 DEF GroupInv, GroupTypes
  <2> QED BY <1>2, <2>1, <2>2, <2>3 DEF Packets, Updates, Syncs, Texts
<1> HIDE DEF p, to
<1>5. down' \in [Users -> Seq(Packets)] /\ DownSound'
  BY <1>1, <1>2, <1>4, DownAppended
<1>6. GroupTypes' /\ ClientsSound' /\ TextSound' /\ OpenedOnce'
  BY <1>1, <1>2, <1>5 DEF GroupInv, GroupTypes, ClientsSound, TextSound, OpenedOnce
<1> QED BY <1>2, <1>3, <1>5, <1>6 DEF GroupInv

LEMMA HubRestartKeeps ==
    ASSUME GroupInv, HubRestart
    PROVE  GroupInv'
<1>1. UNCHANGED <<store, active, meta, current, down, text, origin, opens, consented>>
      /\ route' = None
  BY DEF HubRestart, members, keyring, messages
<1>2. ASSUME NEW u \in Users
      PROVE  up'[u] \in Seq(Packets) /\ \A i \in 1 .. Len(up'[u]) : Sound(up'[u][i], consented)
  <2> DEFINE sync == [kind |-> "sync", from |-> u, view |->
                        [x \in Users |-> IF x \in active[u] THEN "active" ELSE "none"]]
  <2>1. up'[u] = IF active[u] = None THEN <<>> ELSE <<sync>>
    BY DEF HubRestart
  <2>2. active[u] # None => sync \in Packets /\ Sound(sync, consented)
    BY SyncIsSound DEF GroupInv, ClientsSound
  <2> HIDE DEF sync
  <2>3. CASE active[u] = None
    BY <2>1, <2>3
  <2>4. CASE active[u] # None
    BY <2>1, <2>2, <2>4, OneSequence
  <2> QED BY <2>3, <2>4
<1>3. up' \in [Users -> Seq(Packets)] /\ UpSound'
  <2>1. up' = [u \in Users |-> up'[u]]
    BY DEF HubRestart
  <2>2. up' \in [Users -> Seq(Packets)]
    BY <1>2, <2>1
  <2> QED BY <1>1, <1>2, <2>2 DEF UpSound
<1>4. GroupTypes' /\ ClientsSound' /\ RouteSound' /\ DownSound' /\ TextSound' /\ OpenedOnce'
  BY <1>1, <1>3, DownGrows DEF GroupInv, GroupTypes, ClientsSound, RouteSound, TextSound, OpenedOnce
<1> QED BY <1>3, <1>4 DEF GroupInv

-----------------------------------------------------------------------------
(* The members' network threads. *)

LEMMA UpdateKeeps ==
    ASSUME GroupInv, NEW u \in Users, ReceiveUpdate(u)
    PROVE  GroupInv'
<1> DEFINE p == Head(down[u])
<1>1. /\ down[u] # <<>> /\ p.kind = "update" /\ down' = [down EXCEPT ![u] = Tail(@)]
      /\ ImportKey(u, p.from, p.packets)
      /\ \/ meta' = [meta EXCEPT ![u] = p.packets] \/ UNCHANGED meta
      /\ UNCHANGED <<route, up, text, origin, opens, consented>>
  BY DEF ReceiveUpdate, messages
<1>2. /\ down' \in [Users -> Seq(Packets)] /\ DownSound' /\ p \in Packets
      /\ Sound(p, consented)
  BY <1>1, DownTaken
<1>3. p.view \in Views /\ p.packets \in Sealed /\ Active(p.view) \subseteq consented
  BY <1>1, <1>2 DEF Packets, Updates, Syncs, Texts, Sound
<1>4. \/ Persist(u, p.view)
      \/ store' = [store EXCEPT ![u] = Stored(u, p.view)] /\ UNCHANGED active
      \/ UNCHANGED <<store, active>>
  BY DEF ReceiveUpdate
<1> HIDE DEF p
<1>5. /\ store' \in [Users -> Views] /\ active' \in [Users -> (SUBSET Users) \cup {None}]
      /\ ClientsSound'
  <2>1. CASE Persist(u, p.view)
    BY <1>1, <1>3, <2>1, PersistSound
  <2>2. CASE store' = [store EXCEPT ![u] = Stored(u, p.view)] /\ UNCHANGED active
    <3>1. store \in [Users -> Views]
      BY DEF GroupInv, GroupTypes
    <3>2. Stored(u, p.view) \in Views
      BY <1>3, <3>1 DEF Stored, Views
    <3>3. Active(Stored(u, p.view)) \subseteq consented
      BY <1>3, <3>1, <3>2, ActiveOfView DEF Stored, GroupInv, ClientsSound, Active
    <3>4. store' \in [Users -> Views] /\ store'[u] = Stored(u, p.view)
          /\ \A x \in Users \ {u} : store'[x] = store[x]
      BY <2>2, <3>1, <3>2
    <3> QED BY <1>1, <2>2, <3>3, <3>4 DEF GroupInv, GroupTypes, ClientsSound
  <2>3. CASE UNCHANGED <<store, active>>
    BY <1>1, <2>3 DEF GroupInv, GroupTypes, ClientsSound
  <2> QED BY <1>4, <2>1, <2>2, <2>3
<1>6. meta' \in [Users -> Sealed]
  BY <1>1, <1>3 DEF GroupInv, GroupTypes
<1>7. current' \in [Users -> Nat]
  <2>1. current' = [current EXCEPT ![u] = 1] \/ current' = current
    BY <1>1 DEF ImportKey, SaveKey, keyring
  <2>2. current \in [Users -> Nat]
    BY DEF GroupInv, GroupTypes
  <2>3. CASE current' = [current EXCEPT ![u] = 1]
    BY <2>2, <2>3
  <2>4. CASE current' = current
    BY <2>2, <2>4
  <2> QED BY <2>1, <2>3, <2>4
<1>8. GroupTypes'
  BY <1>1, <1>2, <1>5, <1>6, <1>7 DEF GroupInv, GroupTypes
<1>9. RouteSound' /\ UpSound' /\ TextSound' /\ OpenedOnce'
  BY <1>1 DEF GroupInv, RouteSound, UpSound, TextSound, OpenedOnce
<1> QED BY <1>2, <1>5, <1>8, <1>9 DEF GroupInv

LEMMA MessageKeeps ==
    ASSUME GroupInv, NEW u \in Users, ReceiveMessage(u)
    PROVE  GroupInv'
<1> DEFINE p == Head(down[u])
           two == [x \in Users |-> IF x \in {u, p.from} THEN "active" ELSE "none"]
           result == Opening(u, p.m)
<1>1. /\ down[u] # <<>> /\ p.kind = "message" /\ down' = [down EXCEPT ![u] = Tail(@)]
      /\ Persist(u, two) \/ UNCHANGED <<store, active>>
      /\ text' = CASE result = "replay" -> text
                   [] result = "success" -> [text EXCEPT ![u][p.m] = "plain"]
                   [] OTHER -> [text EXCEPT ![u][p.m] = "sealed"]
      /\ opens' = IF result = "success" THEN [opens EXCEPT ![u][p.m] = @ + 1] ELSE opens
      /\ UNCHANGED <<meta, current, route, up, origin, consented>>
  BY DEF ReceiveMessage, keyring
<1>2. /\ down' \in [Users -> Seq(Packets)] /\ DownSound' /\ p \in Packets
      /\ Sound(p, consented) /\ u \in consented
  BY <1>1, DownTaken
<1>3. p.from \in consented /\ p.m \in Msgs
  BY <1>1, <1>2 DEF Packets, Updates, Syncs, Texts, Sound
<1>4. two \in Views /\ Active(two) \subseteq consented
  BY <1>2, <1>3 DEF Views, Status, Active
<1>5. result = "success" => opens[u][p.m] = 0
  <2>1. opens[u][p.m] \in Nat
    BY <1>3 DEF GroupInv, GroupTypes
  <2> QED BY <2>1 DEF Opening
<1> HIDE DEF p, two, result
<1>6. /\ store' \in [Users -> Views] /\ active' \in [Users -> (SUBSET Users) \cup {None}]
      /\ ClientsSound'
  <2>1. CASE Persist(u, two)
    BY <1>1, <1>4, <2>1, PersistSound
  <2>2. CASE UNCHANGED <<store, active>>
    BY <1>1, <2>2 DEF GroupInv, GroupTypes, ClientsSound
  <2> QED BY <1>1, <2>1, <2>2
<1>7. /\ text' \in [Users -> [Msgs -> {"none", "sealed", "plain"}]]
      /\ \A x \in Users, n \in Msgs : text'[x][n] # "none" => x = u \/ text[x][n] # "none"
  <2>1. \/ text' = text \/ text' = [text EXCEPT ![u][p.m] = "plain"]
        \/ text' = [text EXCEPT ![u][p.m] = "sealed"]
    BY <1>1
  <2>2. text \in [Users -> [Msgs -> {"none", "sealed", "plain"}]]
    BY DEF GroupInv, GroupTypes
  <2>3. CASE text' = text
    BY <2>2, <2>3
  <2>4. CASE text' = [text EXCEPT ![u][p.m] = "plain"]
    BY <1>3, <2>2, <2>4
  <2>5. CASE text' = [text EXCEPT ![u][p.m] = "sealed"]
    BY <1>3, <2>2, <2>5
  <2> QED BY <2>1, <2>3, <2>4, <2>5
<1>8. opens' \in [Users -> [Msgs -> Nat]] /\ OpenedOnce'
  BY <1>1, <1>3, <1>5 DEF GroupInv, GroupTypes, OpenedOnce
<1>9. GroupTypes'
  BY <1>1, <1>2, <1>6, <1>7, <1>8 DEF GroupInv, GroupTypes
<1>10. TextSound'
  BY <1>1, <1>2, <1>7 DEF GroupInv, TextSound
<1>11. RouteSound' /\ UpSound'
  BY <1>1 DEF GroupInv, RouteSound, UpSound
<1> QED BY <1>2, <1>6, <1>8, <1>9, <1>10, <1>11 DEF GroupInv

LEMMA RedeliverKeeps ==
    ASSUME GroupInv, NEW u \in Users, Redeliver(u)
    PROVE  GroupInv'
<1>1. PICK m \in Msgs :
        /\ text[u][m] # "none" /\ origin[m] # None
        /\ down' = [down EXCEPT ![u] =
                      Append(@, [kind |-> "message", from |-> origin[m].by, m |-> m])]
  BY DEF Redeliver
<1> DEFINE p == [kind |-> "message", from |-> origin[m].by, m |-> m]
<1>2. UNCHANGED <<store, active, meta, current, route, up, text, origin, opens, consented>>
  BY DEF Redeliver, members, keyring, messages
<1>3. u \in consented /\ origin[m].by \in consented
  BY <1>1 DEF GroupInv, TextSound
<1>4. p \in Packets /\ Sound(p, consented)
  <2>1. origin[m].by \in Users
    BY <1>3 DEF GroupInv, GroupTypes
  <2> QED BY <1>3, <2>1 DEF Packets, Texts, Sound
<1>5. down' = [x \in Users |-> IF x \in {u} THEN Append(down[x], p) ELSE down[x]]
  BY <1>1 DEF GroupInv, GroupTypes
<1> HIDE DEF p
<1>6. down' \in [Users -> Seq(Packets)] /\ DownSound'
  <2>1. {u} \in SUBSET Users /\ {u} \subseteq consented
    BY <1>3
  <2> QED BY <1>2, <1>4, <1>5, <2>1, DownAppended
<1>7. GroupTypes' /\ ClientsSound' /\ RouteSound' /\ UpSound' /\ TextSound' /\ OpenedOnce'
  BY <1>2, <1>6 DEF GroupInv, GroupTypes, ClientsSound, RouteSound, UpSound, TextSound, OpenedOnce
<1> QED BY <1>6, <1>7 DEF GroupInv

LEMMA RestartKeeps ==
    ASSUME GroupInv, NEW u \in Users, Restart(u)
    PROVE  GroupInv'
<1>1. /\ active' = [active EXCEPT ![u] = Loaded(u)]
      /\ UNCHANGED <<store, meta, current, route, down, text, origin, opens, consented>>
  BY DEF Restart, keyring, messages
<1>2. store[u] \in Views /\ Active(store[u]) \subseteq consented /\ Active(store[u]) \subseteq Users
  BY ActiveOfView DEF GroupInv, GroupTypes, ClientsSound
<1>3. active' \in [Users -> (SUBSET Users) \cup {None}] /\ ClientsSound'
  BY <1>1, <1>2 DEF Loaded, GroupInv, GroupTypes, ClientsSound
<1> DEFINE sync == [kind |-> "sync", from |-> u, view |->
                      [x \in Users |-> IF x \in active'[u] THEN "active" ELSE "none"]]
<1>4. up' = [up EXCEPT ![u] = IF active'[u] = None THEN @ ELSE Append(@, sync)]
  BY DEF Restart
<1>5. active'[u] # None => sync \in Packets /\ Sound(sync, consented')
  BY <1>3, SyncIsSound DEF ClientsSound
<1> HIDE DEF sync
<1>6. up' \in [Users -> Seq(Packets)] /\ UpSound'
  <2>1. up \in [Users -> Seq(Packets)]
    BY DEF GroupInv, GroupTypes
  <2>2. CASE active'[u] = None
    <3>1. up' = up
      BY <1>4, <2>1, <2>2
    <3> QED BY <1>1, <2>1, <3>1 DEF GroupInv, UpSound
  <2>3. CASE active'[u] # None
    <3>1. <<sync>> \in Seq(Packets) /\ \A i \in 1 .. Len(<<sync>>) : Sound(<<sync>>[i], consented')
      BY <1>5, <2>3, OneSequence
    <3>2. up' = [up EXCEPT ![u] = @ \o <<sync>>]
      <4>1. Append(up[u], sync) = up[u] \o <<sync>>
        BY <1>5, <2>1, <2>3
      <4> QED BY <1>4, <2>3, <4>1
    <3> QED BY <1>1, <3>1, <3>2, UpGrows
  <2> QED BY <2>2, <2>3
<1>7. GroupTypes' /\ RouteSound' /\ DownSound' /\ TextSound' /\ OpenedOnce'
  BY <1>1, <1>3, <1>6, DownGrows DEF GroupInv, GroupTypes, RouteSound, TextSound, OpenedOnce
<1> QED BY <1>3, <1>6, <1>7 DEF GroupInv

-----------------------------------------------------------------------------
LEMMA GroupStep == GroupInv /\ [Next]_vars => GroupInv'
<1> SUFFICES ASSUME GroupInv, [Next]_vars PROVE GroupInv'
  OBVIOUS
<1>1. CASE UNCHANGED vars
  BY <1>1 DEF vars, GroupInv, GroupTypes, ClientsSound, RouteSound, UpSound, DownSound,
     TextSound, OpenedOnce
<1>2. ASSUME NEW u \in Users, NEW m \in Msgs,
             SendMessage(u, m) \/ SendTempFile(u, m) \/ SendFileEvent(u, m)
      PROVE  GroupInv'
  BY <1>2, SendKeeps DEF SendMessage, SendTempFile, SendFileEvent
<1>3. ASSUME NEW u \in Users, NEW x \in Users,
             ChangeMember(u, x, "invited") \/ ChangeMember(u, x, "removed")
      PROVE  GroupInv'
  BY <1>3, ChangeKeeps
<1> QED
  BY <1>1, <1>2, <1>3, CreateKeeps, HubRestartKeeps, AcceptKeeps, RejectKeeps, HubKeeps,
     UpdateKeeps, MessageKeeps, RedeliverKeeps, RestartKeeps DEF Next

\* MembersConsented: nobody is an active member anywhere without having created
\* the group or accepted, for any number of members, changes and restarts.
THEOREM MembersConsented == Spec => []ActiveByConsent
<1>1. GroupInv => ActiveByConsent
  BY DEF GroupInv, ClientsSound, RouteSound, ActiveByConsent
<1> QED BY <1>1, GroupStart, GroupStep, PTL DEF Spec

\* MessagesOpenOnce: no message is decrypted twice, whatever is delivered again.
THEOREM MessagesOpenOnce == Spec => []OpenedOnce
<1>1. GroupInv => OpenedOnce
  BY DEF GroupInv
<1> QED BY <1>1, GroupStart, GroupStep, PTL DEF Spec

-----------------------------------------------------------------------------
(* The key ring: the active version is one there is a key of, and versions    *)
(* are made by the first key, by changes of the membership, and no faster.    *)

KeyTypes ==
    /\ keys \in [Users -> [Versions -> Users \cup {None}]]
    /\ imported \in [Users -> BOOLEAN]
    /\ invited \subseteq Users
    /\ ops \in 0 .. MaxOps

VersionMade(u) == current[u] \in 0 .. ops + 1 /\ (current[u] # 0 => keys[u][current[u]] # None)

KeyInv == KeyTypes /\ \A u \in Users : VersionMade(u)

LEMMA SaveKeyKeeps ==
    ASSUME GroupInv, KeyInv, NEW u \in Users, NEW by \in Users, NEW n \in Nat, 1 <= n, n <= ops' + 1,
           ops' \in ops .. MaxOps, SaveKey(u, n, by)
    PROVE  /\ keys' \in [Users -> [Versions -> Users \cup {None}]]
           /\ \A x \in Users : VersionMade(x)'
<1>1. /\ keys \in [Users -> [Versions -> Users \cup {None}]] /\ current \in [Users -> Nat]
      /\ ops \in Nat /\ ops' \in Nat /\ MaxOps \in Nat /\ ops <= ops' /\ ops' <= MaxOps
  BY GroupChatAssumption DEF KeyInv, KeyTypes, GroupInv, GroupTypes
<1>2. n \in Versions /\ n \in 0 .. ops' + 1
  <2>1. ops' \in Nat /\ ops' <= MaxOps /\ MaxOps \in Nat
    BY <1>1
  <2>2. PICK k \in Nat : k = ops'
    BY <2>1
  <2>3. n <= k + 1
    BY <2>2
  <2>4. k <= MaxOps
    BY <2>1, <2>2
  <2>5. n \in 1 .. MaxOps + 1 /\ n \in 0 .. k + 1
    BY <2>1, <2>3, <2>4
  <2> QED BY <2>2, <2>5 DEF Versions
<1>3. keys[u] \in [Versions -> Users \cup {None}]
  BY <1>1
<1>4. /\ keys' = [keys EXCEPT ![u] = [keys[u] EXCEPT ![n] = by]]
      /\ current' = [current EXCEPT ![u] = n]
  BY DEF SaveKey
<1>5. [keys[u] EXCEPT ![n] = by] \in [Versions -> Users \cup {None}]
  BY <1>2, <1>3
<1>6. /\ keys' \in [Users -> [Versions -> Users \cup {None}]]
      /\ keys'[u][n] = by /\ current'[u] = n
      /\ \A x \in Users \ {u} : keys'[x] = keys[x] /\ current'[x] = current[x]
  BY <1>1, <1>2, <1>3, <1>4, <1>5
<1>7. VersionMade(u)'
  <2>1. by # None
    BY GroupChatAssumption
  <2> QED BY <1>2, <1>6, <2>1 DEF VersionMade
<1>8. ASSUME NEW x \in Users \ {u} PROVE VersionMade(x)'
  <2>1. current[x] \in 0 .. ops + 1 /\ (current[x] # 0 => keys[x][current[x]] # None)
    BY DEF KeyInv, VersionMade
  <2>2. current'[x] \in 0 .. ops' + 1
    BY <1>1, <1>6, <2>1
  <2> QED BY <1>6, <2>1, <2>2 DEF VersionMade
<1> QED BY <1>6, <1>7, <1>8

\* A version more than the active one is allowed by the first key, which needs
\* none, and by an operation.
LEMMA RotateKeeps ==
    ASSUME GroupInv, KeyInv, NEW u \in Users, Rotate(u),
           ops' \in ops .. MaxOps, current[u] = 0 \/ ops' = ops + 1
    PROVE  /\ keys' \in [Users -> [Versions -> Users \cup {None}]]
           /\ \A x \in Users : VersionMade(x)'
<1>1. ops \in Nat /\ ops' \in Nat /\ current[u] \in 0 .. ops + 1
  BY GroupChatAssumption DEF KeyInv, KeyTypes, VersionMade
<1>2. current[u] + 1 \in Nat /\ 1 <= current[u] + 1 /\ current[u] + 1 <= ops' + 1
  BY <1>1
<1> QED BY <1>2, SaveKeyKeeps DEF Rotate

\* Steps that leave keys alone.
LEMMA SameKeys ==
    ASSUME KeyInv, UNCHANGED <<keyring, ops>>, invited' \subseteq Users
    PROVE  KeyInv'
BY DEF KeyInv, KeyTypes, VersionMade, keyring

LEMMA KeyStart == Init => KeyInv
<1> SUFFICES ASSUME Init PROVE KeyInv
  OBVIOUS
<1>1. keys \in [Users -> [Versions -> Users \cup {None}]]
  BY DEF Init
<1>2. imported \in [Users -> BOOLEAN] /\ invited \subseteq Users /\ ops = 0 /\ ops \in 0 .. MaxOps
  BY GroupChatAssumption DEF Init
<1>3. ASSUME NEW u \in Users PROVE VersionMade(u)
  <2>1. current[u] = 0
    BY DEF Init
  <2> QED BY <1>2, <2>1 DEF VersionMade
<1> QED BY <1>1, <1>2, <1>3 DEF KeyInv, KeyTypes

LEMMA KeyStep == GroupInv /\ KeyInv /\ [Next]_vars => KeyInv'
<1> SUFFICES ASSUME GroupInv, KeyInv, [Next]_vars PROVE KeyInv'
  OBVIOUS
<1>1. ops \in Nat /\ ops <= MaxOps /\ MaxOps \in Nat /\ invited \subseteq Users
  BY GroupChatAssumption DEF KeyInv, KeyTypes
<1>2. CASE UNCHANGED vars
  BY <1>1, <1>2, SameKeys DEF vars, keyring
<1>3. CASE CreateGroup
  <2>1. Rotate(Creator) /\ current[Creator] = 0 /\ Creator \in Users
        /\ UNCHANGED <<imported, invited, ops>>
    BY <1>3, GroupChatAssumption DEF CreateGroup, AttachKeys
  <2>2. keys' \in [Users -> [Versions -> Users \cup {None}]] /\ \A x \in Users : VersionMade(x)'
    BY <1>1, <2>1, RotateKeeps
  <2> QED BY <2>1, <2>2 DEF KeyInv, KeyTypes
<1>4. ASSUME NEW u \in Users, NEW x \in Users,
             ChangeMember(u, x, "invited") \/ ChangeMember(u, x, "removed")
      PROVE  KeyInv'
  <2>1. Rotate(u) /\ ops < MaxOps /\ ops' = ops + 1 /\ UNCHANGED <<imported, invited>>
    BY <1>4 DEF ChangeMember, AttachKeys
  <2>2. ops' \in ops .. MaxOps
    BY <1>1, <2>1
  <2>3. keys' \in [Users -> [Versions -> Users \cup {None}]] /\ \A y \in Users : VersionMade(y)'
    BY <2>1, <2>2, RotateKeeps
  <2> QED BY <1>1, <2>1, <2>2, <2>3 DEF KeyInv, KeyTypes
<1>5. ASSUME NEW u \in Users, NEW m \in Msgs, Sends(u, m) PROVE KeyInv'
  <2>1. SealWith(u) /\ UNCHANGED <<imported, invited, ops>>
    BY <1>5 DEF Sends, SealWith, members
  <2>2. CASE Rotate(u) /\ current[u] = 0
    <3>1. keys' \in [Users -> [Versions -> Users \cup {None}]] /\ \A x \in Users : VersionMade(x)'
      BY <1>1, <2>1, <2>2, RotateKeeps
    <3> QED BY <2>1, <3>1 DEF KeyInv, KeyTypes
  <2>3. CASE UNCHANGED <<keys, current>>
    BY <1>1, <2>1, <2>3, SameKeys DEF keyring
  <2> QED BY <2>1, <2>2, <2>3 DEF SealWith
<1>6. ASSUME NEW u \in Users, ReceiveUpdate(u) PROVE KeyInv'
  <2> DEFINE p == Head(down[u])
  <2>1. /\ down[u] # <<>> /\ p.kind = "update" /\ down' = [down EXCEPT ![u] = Tail(@)]
        /\ ImportKey(u, p.from, p.packets) /\ UNCHANGED <<consented, ops>>
        /\ invited' \subseteq invited \cup {u}
    BY <1>6 DEF ReceiveUpdate, messages
  <2>2. p \in Packets
    BY <2>1, DownTaken
  <2>3. p.from \in Users
    BY <2>1, <2>2 DEF Packets, Updates, Syncs, Texts
  <2>4. CASE UNCHANGED <<keys, current>>
             /\ (UNCHANGED imported \/ imported' = [imported EXCEPT ![u] = TRUE])
    BY <1>1, <2>1, <2>4 DEF KeyInv, KeyTypes, VersionMade
  <2>5. CASE SaveKey(u, 1, p.from) /\ imported' = [imported EXCEPT ![u] = TRUE]
    <3>1. 1 \in Nat /\ 1 <= 1 /\ 1 <= ops' + 1 /\ ops' \in ops .. MaxOps
      BY <1>1, <2>1
    <3>2. keys' \in [Users -> [Versions -> Users \cup {None}]] /\ \A x \in Users : VersionMade(x)'
      BY <2>3, <2>5, <3>1, SaveKeyKeeps
    <3> QED BY <1>1, <2>1, <2>5, <3>2 DEF KeyInv, KeyTypes
  <2> HIDE DEF p
  <2> QED BY <2>1, <2>4, <2>5 DEF ImportKey, keyring
<1>7. ASSUME NEW u \in Users,
             \/ AcceptInvite(u) \/ RejectInvite(u) \/ HubHandle(u)
             \/ ReceiveMessage(u) \/ Redeliver(u) \/ Restart(u)
      PROVE  KeyInv'
  <2>1. UNCHANGED <<keyring, ops>> /\ invited' \subseteq invited
    BY <1>7 DEF AcceptInvite, RejectInvite, HubHandle, ReceiveMessage, Redeliver, Restart, members
  <2> QED BY <1>1, <2>1, SameKeys
<1>8. CASE HubRestart
  BY <1>1, <1>8, SameKeys DEF HubRestart, members
<1> QED
  BY <1>2, <1>3, <1>4, <1>5, <1>6, <1>7, <1>8 DEF Next, SendMessage, SendTempFile, SendFileEvent

\* GroupTypeCorrect: in every reachable state the tables, the routing and the
\* messages have their types, and every client that seals with a version has its
\* key, for any number of members, changes and restarts.
THEOREM GroupTypeCorrect == Spec => []TypeOK
<1>1. GroupInv /\ KeyInv => TypeOK
  <2> SUFFICES ASSUME GroupInv, KeyInv PROVE TypeOK
    OBVIOUS
  <2>1. ops \in Nat /\ ops <= MaxOps /\ MaxOps \in Nat
    BY GroupChatAssumption DEF KeyInv, KeyTypes
  <2>2. current \in [Users -> 0 .. MaxOps + 1]
    <3>1. \A u \in Users : current[u] \in 0 .. MaxOps + 1
      BY <2>1 DEF KeyInv, VersionMade
    <3> QED BY <3>1 DEF GroupInv, GroupTypes
  <2>3. \A u \in Users : active[u] = None \/ active[u] \subseteq Users
    BY DEF GroupInv, GroupTypes
  <2>4. route = None \/ route \subseteq Users
    BY DEF GroupInv, GroupTypes, RouteSound
  <2>5. \A u \in Users : current[u] # 0 => keys[u][current[u]] # None
    BY DEF KeyInv, VersionMade
  <2> QED BY <2>2, <2>3, <2>4, <2>5 DEF GroupInv, GroupTypes, KeyInv, KeyTypes, TypeOK, Views
<1> QED BY <1>1, GroupStart, GroupStep, KeyStart, KeyStep, PTL DEF Spec

-----------------------------------------------------------------------------
(* Who has which key.  A key of version 1 is made once by each user, and only  *)
(* such keys are taken over; a later version stays with its maker.  So F, the  *)
(* users the first packets of each maker were for, says who can ever have the  *)
(* first keys: the packets on the way, the rings and the messages agree on it. *)

Made == {s \in Users : current[s] # 0}
Sent == {m \in Msgs : origin[m] # None}

\* The packets in flight to or from the Hub.
Flying(queues) == UNION {{queues[u][i] : i \in 1 .. Len(queues[u])} : u \in Users}

FirstSet(q, F, made) == q.by \in Users => q.by \in made /\ (q.ver = 1 => q.to = F[q.by])

Honest(p, F, made, sent) ==
    /\ p.kind = "update" => FirstSet(p.packets, F, made)
    /\ p.kind = "message" => p.m \in sent

SealedFor(o, F, made) ==
    /\ o.by \in Users /\ o.by \notin o.barred
    /\ o.barred # {} => /\ o.key = o.by /\ o.ver \in Versions /\ o.by \in made
                        /\ o.ver = 1 => o.barred \cap F[o.by] = {}

PacketsHonest(F) ==
    /\ \A w \in Users : FirstSet(meta[w], F, Made)
    /\ \A p \in Flying(up) : Honest(p, F, Made, Sent)
    /\ \A p \in Flying(down) : Honest(p, F, Made, Sent)

KeysHonest(F) ==
    \A x, s \in Users : x # s /\ keys[x][1] = s => s \in Made /\ x \in F[s]

OriginsHonest(F) == \A m \in Sent : SealedFor(origin[m], F, Made)

LaterKeysOwn == \A x \in Users, v \in Versions : v # 1 => keys[x][v] \in {None, x}

ReadersHonest ==
    \A u \in Users, m \in Msgs : text[u][m] = "plain" => m \in Sent /\ u \notin origin[m].barred

HonestFor(F) == PacketsHonest(F) /\ KeysHonest(F) /\ OriginsHonest(F)

ReadInv ==
    /\ \E F \in [Users -> SUBSET Users] : HonestFor(F)
    /\ LaterKeysOwn /\ ReadersHonest

\* Facts about who made a first key stay true as more users make one.
LEMMA FirstSetGrows ==
    ASSUME NEW F, NEW G, NEW made, NEW more, made \subseteq more, \A s \in made : G[s] = F[s],
           NEW q, FirstSet(q, F, made)
    PROVE  FirstSet(q, G, more)
BY DEF FirstSet

LEMMA HonestGrows ==
    ASSUME NEW F, NEW G, NEW made, NEW more, made \subseteq more, \A s \in made : G[s] = F[s],
           NEW sent, NEW sentMore, sent \subseteq sentMore, NEW p, Honest(p, F, made, sent)
    PROVE  Honest(p, G, more, sentMore)
BY FirstSetGrows DEF Honest

LEMMA SealedGrows ==
    ASSUME NEW F, NEW G, NEW made, NEW more, made \subseteq more, \A s \in made : G[s] = F[s],
           NEW o, SealedFor(o, F, made)
    PROVE  SealedFor(o, G, more)
<1>1. CASE o.barred = {}
  BY <1>1 DEF SealedFor
<1>2. CASE o.barred # {}
  BY <1>2 DEF SealedFor
<1> QED BY <1>1, <1>2

\* What a step has to show: each packet, key and message was there or is honest.
LEMMA HonestKept ==
    ASSUME NEW F, NEW G, HonestFor(F), Made \subseteq Made', Sent \subseteq Sent',
           \A s \in Made : G[s] = F[s],
           \A w \in Users : meta'[w] = meta[w] \/ FirstSet(meta'[w], G, Made'),
           \A p \in Flying(up)' \cup Flying(down)' :
               p \in Flying(up) \cup Flying(down) \/ Honest(p, G, Made', Sent'),
           \A x, s \in Users : x # s /\ keys'[x][1] = s =>
               keys[x][1] = s \/ (s \in Made' /\ x \in G[s]),
           \A m \in Sent' : (m \in Sent /\ origin'[m] = origin[m]) \/ SealedFor(origin'[m], G, Made')
    PROVE  HonestFor(G)'
<1>1. ASSUME NEW w \in Users PROVE FirstSet(meta'[w], G, Made')
  <2>1. FirstSet(meta[w], F, Made)
    BY DEF HonestFor, PacketsHonest
  <2>2. FirstSet(meta[w], G, Made')
    BY <2>1, FirstSetGrows
  <2> QED BY <2>2
<1>2. ASSUME NEW p \in Flying(up)' \cup Flying(down)' PROVE Honest(p, G, Made', Sent')
  <2>1. CASE p \in Flying(up) \cup Flying(down)
    <3>1. Honest(p, F, Made, Sent)
      BY <2>1 DEF HonestFor, PacketsHonest
    <3> QED BY <3>1, HonestGrows
  <2> QED BY <1>2, <2>1
<1>3. PacketsHonest(G)'
  BY <1>1, <1>2 DEF PacketsHonest
<1>4. ASSUME NEW x \in Users, NEW s \in Users, x # s, keys'[x][1] = s
      PROVE  s \in Made' /\ x \in G[s]
  BY <1>4 DEF HonestFor, KeysHonest
<1>5. KeysHonest(G)'
  BY <1>4 DEF KeysHonest
<1>6. ASSUME NEW m \in Sent' PROVE SealedFor(origin'[m], G, Made')
  <2>1. CASE m \in Sent /\ origin'[m] = origin[m]
    <3>1. SealedFor(origin[m], F, Made)
      BY <2>1 DEF HonestFor, OriginsHonest
    <3>2. SealedFor(origin[m], G, Made')
      BY <3>1, SealedGrows
    <3> QED BY <2>1, <3>2
  <2> QED BY <1>6, <2>1
<1>7. OriginsHonest(G)'
  BY <1>6 DEF OriginsHonest
<1> QED BY <1>3, <1>5, <1>7 DEF HonestFor

LEMMA Flies ==
    ASSUME NEW q, NEW u \in Users, NEW i \in 1 .. Len(q[u])
    PROVE  q[u][i] \in Flying(q)
BY DEF Flying

LEMMA PushedFlies ==
    ASSUME NEW q \in [Users -> Seq(Packets)], NEW u \in Users, NEW sent \in Seq(Packets),
           NEW r, r = [q EXCEPT ![u] = @ \o sent]
    PROVE  Flying(r) \subseteq Flying(q) \cup {sent[i] : i \in 1 .. Len(sent)}
<1> SUFFICES ASSUME NEW x \in Users, NEW i \in 1 .. Len(r[x])
             PROVE  r[x][i] \in Flying(q) \cup {sent[j] : j \in 1 .. Len(sent)}
  BY DEF Flying
<1>1. CASE x = u
  <2>1. r[x] = q[u] \o sent /\ q[u] \in Seq(Packets)
    BY <1>1
  <2>2. CASE i \in 1 .. Len(q[u])
    <3>1. r[x][i] = q[u][i]
      BY <2>1, <2>2
    <3> QED BY <2>2, <3>1 DEF Flying
  <2>3. CASE i \notin 1 .. Len(q[u])
    <3>1. i - Len(q[u]) \in 1 .. Len(sent) /\ r[x][i] = sent[i - Len(q[u])]
      BY <2>1, <2>3
    <3> QED BY <3>1
  <2> QED BY <2>2, <2>3
<1>2. CASE x # u
  <2>1. r[x] = q[x]
    BY <1>2
  <2> QED BY <2>1 DEF Flying
<1> QED BY <1>1, <1>2

LEMMA TakenFlies ==
    ASSUME NEW q \in [Users -> Seq(Packets)], NEW u \in Users, q[u] # <<>>,
           NEW r, r = [q EXCEPT ![u] = Tail(@)]
    PROVE  Flying(r) \subseteq Flying(q) /\ Head(q[u]) \in Flying(q)
<1>1. q[u] \in Seq(Packets)
  OBVIOUS
<1>2. Head(q[u]) \in Flying(q)
  BY <1>1, HeadOfQueue DEF Flying
<1>3. ASSUME NEW x \in Users, NEW i \in 1 .. Len(r[x]) PROVE r[x][i] \in Flying(q)
  <2>1. CASE x = u
    <3>1. r[x] = Tail(q[u])
      BY <2>1
    <3>2. i \in 1 .. Len(Tail(q[u]))
      BY <3>1
    <3>3. i + 1 \in 1 .. Len(q[u]) /\ Tail(q[u])[i] = q[u][i + 1]
      BY <1>1, <3>2, HeadOfQueue
    <3> QED BY <3>1, <3>3, Flies
  <2>2. CASE x # u
    <3>1. r[x] = q[x]
      BY <2>2
    <3> QED BY <3>1, Flies
  <2> QED BY <2>1, <2>2
<1> QED BY <1>2, <1>3 DEF Flying

LEMMA HandedFlies ==
    ASSUME NEW q \in [Users -> Seq(Packets)], NEW p \in Packets,
           NEW r, \A x \in Users : r[x] = q[x] \/ r[x] = Append(q[x], p)
    PROVE  Flying(r) \subseteq Flying(q) \cup {p}
<1>1. ASSUME NEW x \in Users, NEW i \in 1 .. Len(r[x]) PROVE r[x][i] \in Flying(q) \cup {p}
  <2>1. CASE r[x] = Append(q[x], p)
    <3>1. q[x] \in Seq(Packets)
      OBVIOUS
    <3>2. CASE i = Len(q[x]) + 1
      BY <2>1, <3>1, <3>2, LastOfQueue
    <3>3. CASE i \in 1 .. Len(q[x]) /\ Append(q[x], p)[i] = q[x][i]
      BY <2>1, <3>3, Flies
    <3> QED BY <2>1, <3>1, <3>2, <3>3, LastOfQueue
  <2>2. CASE r[x] = q[x]
    BY <2>2, Flies
  <2> QED BY <2>1, <2>2
<1>2. ASSUME NEW e \in Flying(r) PROVE e \in Flying(q) \cup {p}
  <2>1. PICK x \in Users : \E i \in 1 .. Len(r[x]) : e = r[x][i]
    BY <1>2 DEF Flying
  <2> QED BY <1>1, <2>1
<1> QED BY <1>2

LEMMA UpPushed ==
    ASSUME GroupInv, NEW u \in Users, NEW sent \in Seq(Packets),
           up' = [up EXCEPT ![u] = @ \o sent]
    PROVE  Flying(up)' \subseteq Flying(up) \cup {sent[i] : i \in 1 .. Len(sent)}
<1>1. PICK q \in [Users -> Seq(Packets)] : q = up
  BY DEF GroupInv, GroupTypes
<1>2. PICK r : r = up'
  OBVIOUS
<1>3. r = [q EXCEPT ![u] = @ \o sent]
  BY <1>1, <1>2
<1>4. Flying(r) \subseteq Flying(q) \cup {sent[i] : i \in 1 .. Len(sent)}
  BY <1>3, PushedFlies
<1>5. Flying(up)' = Flying(up')
  BY DEF Flying
<1> QED BY <1>1, <1>2, <1>4, <1>5

LEMMA UpDrawn ==
    ASSUME GroupInv, NEW u \in Users, up[u] # <<>>, up' = [up EXCEPT ![u] = Tail(@)]
    PROVE  Flying(up)' \subseteq Flying(up) /\ Head(up[u]) \in Flying(up)
<1>1. PICK q \in [Users -> Seq(Packets)] : q = up
  BY DEF GroupInv, GroupTypes
<1>2. PICK r : r = up'
  OBVIOUS
<1>3. q[u] # <<>> /\ r = [q EXCEPT ![u] = Tail(@)]
  BY <1>1, <1>2
<1>4. Flying(r) \subseteq Flying(q) /\ Head(q[u]) \in Flying(q)
  BY <1>3, TakenFlies
<1>5. Flying(up)' = Flying(up')
  BY DEF Flying
<1> QED BY <1>1, <1>2, <1>4, <1>5

LEMMA DownDrawn ==
    ASSUME GroupInv, NEW u \in Users, down[u] # <<>>, down' = [down EXCEPT ![u] = Tail(@)]
    PROVE  Flying(down)' \subseteq Flying(down) /\ Head(down[u]) \in Flying(down)
<1>1. PICK q \in [Users -> Seq(Packets)] : q = down
  BY DEF GroupInv, GroupTypes
<1>2. PICK r : r = down'
  OBVIOUS
<1>3. q[u] # <<>> /\ r = [q EXCEPT ![u] = Tail(@)]
  BY <1>1, <1>2
<1>4. Flying(r) \subseteq Flying(q) /\ Head(q[u]) \in Flying(q)
  BY <1>3, TakenFlies
<1>5. Flying(down)' = Flying(down')
  BY DEF Flying
<1> QED BY <1>1, <1>2, <1>4, <1>5

LEMMA DownHanded ==
    ASSUME GroupInv, NEW to, NEW p \in Packets,
           down' = [x \in Users |-> IF x \in to THEN Append(down[x], p) ELSE down[x]]
    PROVE  Flying(down)' \subseteq Flying(down) \cup {p}
<1>1. PICK q \in [Users -> Seq(Packets)] : q = down
  BY DEF GroupInv, GroupTypes
<1>2. PICK r : r = down'
  OBVIOUS
<1>3. \A x \in Users : r[x] = q[x] \/ r[x] = Append(q[x], p)
  BY <1>1, <1>2
<1>4. Flying(r) \subseteq Flying(q) \cup {p}
  BY <1>3, HandedFlies
<1>5. Flying(down)' = Flying(down')
  BY DEF Flying
<1> QED BY <1>1, <1>2, <1>4, <1>5

\* A snapshot carries neither keys nor messages.
LEMMA SyncIsHonest ==
    ASSUME NEW F, NEW made, NEW sent, NEW p, p.kind = "sync"
    PROVE  Honest(p, F, made, sent)
BY DEF Honest

\* An operation sends its packets, and a snapshot.
LEMMA PushHonest ==
    ASSUME GroupInv, NEW u \in Users, NEW view \in Views, NEW with \in Sealed,
           Push(u, view, with), NEW G, NEW made, NEW sent, FirstSet(with, G, made)
    PROVE  \A p \in Flying(up)' : p \in Flying(up) \/ Honest(p, G, made, sent)
<1> DEFINE update == [kind |-> "update", from |-> u, view |-> view, packets |-> with]
           sync == [kind |-> "sync", from |-> u, view |->
                      [x \in Users |-> IF x \in active'[u] THEN "active" ELSE "none"]]
<1>1. update \in Packets /\ Honest(update, G, made, sent)
  BY DEF Packets, Updates, Honest
<1>2. sync \in Packets /\ Honest(sync, G, made, sent)
  <2>1. sync \in Syncs
    BY DEF Syncs, Views, Status
  <2> QED BY <2>1, SyncIsHonest DEF Packets
<1>3. PICK new \in {<<>>, <<update, sync>>} : up' = [up EXCEPT ![u] = @ \o new]
  BY DEF Push
<1> HIDE DEF update, sync
<1>4. new \in Seq(Packets) /\ \A i \in 1 .. Len(new) : Honest(new[i], G, made, sent)
  <2>1. CASE new = <<>>
    BY <2>1
  <2>2. CASE new = <<update, sync>>
    BY <1>1, <1>2, <2>2, PairSequence
  <2> QED BY <1>3, <2>1, <2>2
<1>5. Flying(up)' \subseteq Flying(up) \cup {new[i] : i \in 1 .. Len(new)}
  BY <1>3, <1>4, UpPushed
<1> QED BY <1>4, <1>5

-----------------------------------------------------------------------------
(* The steps and who has which key. *)

\* A key the client makes itself: its first, or a later one that stays its own.
LEMMA RotateOwn ==
    ASSUME GroupInv, KeyInv, LaterKeysOwn, NEW u \in Users, Rotate(u)
    PROVE  /\ Made' = Made \cup {u} /\ current'[u] = current[u] + 1 /\ current[u] \in Nat
           /\ \A x, s \in Users : x # s /\ keys'[x][1] = s => keys[x][1] = s
           /\ LaterKeysOwn'
<1>1. current \in [Users -> Nat] /\ keys \in [Users -> [Versions -> Users \cup {None}]]
  BY DEF GroupInv, GroupTypes, KeyInv, KeyTypes
<1> DEFINE n == current[u] + 1
<1>2. /\ n \in Nat /\ n # 0 /\ current'[u] = n
      /\ \A x \in Users \ {u} : current'[x] = current[x]
  BY <1>1 DEF Rotate, SaveKey
<1>3. keys'[u] = [keys[u] EXCEPT ![n] = u] /\ \A x \in Users \ {u} : keys'[x] = keys[x]
  BY <1>1 DEF Rotate, SaveKey
<1> HIDE DEF n
<1>4. Made' = Made \cup {u}
  BY <1>2 DEF Made
<1>5. \A v \in Versions : keys'[u][v] = u \/ keys'[u][v] = keys[u][v]
  BY <1>1, <1>3
<1>6. 1 \in Versions
  BY GroupChatAssumption DEF Versions
<1>7. ASSUME NEW x \in Users, NEW s \in Users, x # s, keys'[x][1] = s PROVE keys[x][1] = s
  BY <1>3, <1>5, <1>6, <1>7
<1>8. LaterKeysOwn'
  BY <1>3, <1>5 DEF LaterKeysOwn
<1> QED BY <1>1, <1>2, <1>4, <1>7, <1>8 DEF n

\* An operation on the members makes a key and sends its packets.
LEMMA AttachReads ==
    ASSUME GroupInv, KeyInv, ReadInv, NEW u \in Users, NEW view \in Views,
           AttachKeys(u, view), Push(u, view, meta'[u]), UNCHANGED <<down, messages>>
    PROVE  ReadInv'
<1>1. PICK F \in [Users -> SUBSET Users] : HonestFor(F)
  BY DEF ReadInv
<1>2. PICK known \in SUBSET (Users \ {u}) :
        /\ Rotate(u)
        /\ meta' = [meta EXCEPT ![u] = [by |-> u, ver |-> current'[u], to |-> PacketsFor(view, known)]]
  BY DEF AttachKeys
<1>3. /\ Made' = Made \cup {u} /\ current'[u] = current[u] + 1 /\ current[u] \in Nat
      /\ \A x, s \in Users : x # s /\ keys'[x][1] = s => keys[x][1] = s
      /\ LaterKeysOwn'
  BY <1>2, RotateOwn DEF ReadInv
<1>4. PICK to \in SUBSET Users : to = PacketsFor(view, known)
  BY DEF PacketsFor
<1>5. meta' = [meta EXCEPT ![u] = [by |-> u, ver |-> current[u] + 1, to |-> to]]
  BY <1>2, <1>3, <1>4
<1>6. PICK q \in Sealed : q = [by |-> u, ver |-> current[u] + 1, to |-> to]
  <2>1. [by |-> u, ver |-> current[u] + 1, to |-> to] \in Sealed
    BY <1>3 DEF Sealed
  <2> QED BY <2>1
<1>7. meta'[u] = q /\ q.by = u /\ q.ver = current[u] + 1 /\ q.to = to
      /\ \A w \in Users \ {u} : meta'[w] = meta[w]
  BY <1>5, <1>6 DEF GroupInv, GroupTypes
<1>8. PICK G \in [Users -> SUBSET Users] :
        G = IF current[u] = 0 THEN [F EXCEPT ![u] = to] ELSE F
  OBVIOUS
<1>9. \A s \in Made : G[s] = F[s]
  BY <1>8 DEF Made
<1>10. FirstSet(q, G, Made')
  BY <1>3, <1>7, <1>8 DEF FirstSet
<1>11. \A p \in Flying(up)' : p \in Flying(up) \/ Honest(p, G, Made', Sent')
  <2>1. PICK made : made = Made'
    OBVIOUS
  <2>2. PICK sent : sent = Sent'
    OBVIOUS
  <2>3. Push(u, view, q) /\ FirstSet(q, G, made)
    BY <1>7, <1>10, <2>1
  <2>4. \A p \in Flying(up)' : p \in Flying(up) \/ Honest(p, G, made, sent)
    BY <2>3, PushHonest
  <2> QED BY <2>1, <2>2, <2>4
<1>12. Flying(down)' = Flying(down) /\ Sent' = Sent /\ origin' = origin /\ text' = text
  BY DEF Flying, Sent, messages
<1>13. HonestFor(G)'
  BY <1>1, <1>3, <1>7, <1>9, <1>10, <1>11, <1>12, HonestKept
<1>14. ReadersHonest'
  BY <1>12 DEF ReadInv, ReadersHonest
<1> QED BY <1>3, <1>13, <1>14 DEF ReadInv

\* Steps that make no key and send no message: the packets they keep and pass on
\* were there.
LEMMA QuietReads ==
    ASSUME GroupInv, ReadInv, UNCHANGED <<keys, current, origin>>,
           \A F : HonestFor(F) =>
               /\ \A w \in Users : meta'[w] = meta[w] \/ FirstSet(meta'[w], F, Made)
               /\ \A p \in Flying(up)' \cup Flying(down)' :
                     p \in Flying(up) \cup Flying(down) \/ Honest(p, F, Made, Sent),
           ReadersHonest'
    PROVE  ReadInv'
<1>1. PICK F \in [Users -> SUBSET Users] : HonestFor(F)
  BY DEF ReadInv
<1>2. Made' = Made /\ Sent' = Sent
  BY DEF Made, Sent
<1>3. HonestFor(F)'
  BY <1>1, <1>2, HonestKept
<1>4. LaterKeysOwn'
  BY DEF ReadInv, LaterKeysOwn
<1> QED BY <1>3, <1>4 DEF ReadInv

LEMMA AcceptReads ==
    ASSUME GroupInv, ReadInv, NEW u \in Users, AcceptInvite(u)
    PROVE  ReadInv'
<1> DEFINE view == [store[u] EXCEPT ![u] = "active"]
<1>1. UNCHANGED <<meta, keys, current, down, text, origin>>
  BY DEF AcceptInvite, keyring, messages
<1>2. Flying(down)' = Flying(down) /\ ReadersHonest'
  BY <1>1 DEF Flying, ReadInv, ReadersHonest, Sent
<1>3. CASE up' = up
  <2>1. Flying(up)' = Flying(up)
    BY <1>3 DEF Flying
  <2> QED BY <1>1, <1>2, <2>1, QuietReads
<1>4. CASE Push(u, view, meta[u])
  <2>1. view \in Views /\ meta[u] \in Sealed
    BY DEF GroupInv, GroupTypes, Views, Status
  <2> HIDE DEF view
  <2>2. ASSUME NEW F, HonestFor(F)
        PROVE  \A p \in Flying(up)' : p \in Flying(up) \/ Honest(p, F, Made, Sent)
    <3>1. PICK q \in Sealed : q = meta[u]
      BY <2>1
    <3>2. PICK made : made = Made
      OBVIOUS
    <3>3. PICK sent : sent = Sent
      OBVIOUS
    <3>4. Push(u, view, q) /\ FirstSet(q, F, made)
      BY <1>4, <2>2, <3>1, <3>2 DEF HonestFor, PacketsHonest
    <3>5. \A p \in Flying(up)' : p \in Flying(up) \/ Honest(p, F, made, sent)
      <4>1. PICK v \in Views : v = view
        BY <2>1
      <4>2. Push(u, v, q)
        BY <3>4, <4>1
      <4> QED BY <3>4, <4>2, PushHonest
    <3> QED BY <3>2, <3>3, <3>5
  <2> QED BY <1>1, <1>2, <2>2, QuietReads
<1> QED BY <1>3, <1>4 DEF AcceptInvite

LEMMA RejectReads ==
    ASSUME GroupInv, ReadInv, NEW u \in Users, RejectInvite(u)
    PROVE  ReadInv'
<1> DEFINE view == [store[u] EXCEPT ![u] = "removed"]
           update == [kind |-> "update", from |-> u, view |-> view, packets |-> meta[u]]
<1>1. UNCHANGED <<meta, keys, current, down, text, origin>>
  BY DEF RejectInvite, keyring, messages
<1>2. Flying(down)' = Flying(down) /\ ReadersHonest'
  BY <1>1 DEF Flying, ReadInv, ReadersHonest, Sent
<1>3. PICK new \in {<<>>, <<update>>} : up' = [up EXCEPT ![u] = @ \o new]
  BY DEF RejectInvite
<1>4. update \in Packets
  <2>1. view \in Views /\ meta[u] \in Sealed
    BY DEF GroupInv, GroupTypes, Views, Status
  <2> HIDE DEF view
  <2> QED BY <2>1 DEF Packets, Updates
<1>5. ASSUME NEW F, HonestFor(F) PROVE Honest(update, F, Made, Sent)
  BY <1>5 DEF HonestFor, PacketsHonest, Honest
<1> HIDE DEF update
<1>6. new \in Seq(Packets) /\ \A i \in 1 .. Len(new) : new[i] = update
  <2>1. CASE new = <<>>
    BY <2>1
  <2>2. CASE new = <<update>>
    BY <1>4, <2>2, OneSequence
  <2> QED BY <1>3, <2>1, <2>2
<1>7. Flying(up)' \subseteq Flying(up) \cup {new[i] : i \in 1 .. Len(new)}
  BY <1>3, <1>6, UpPushed
<1>8. \A p \in Flying(up)' : p \in Flying(up) \/ p = update
  BY <1>6, <1>7
<1> QED BY <1>1, <1>2, <1>5, <1>8, QuietReads

LEMMA HubReads ==
    ASSUME GroupInv, ReadInv, NEW u \in Users, HubHandle(u)
    PROVE  ReadInv'
<1> DEFINE p == Head(up[u])
           to == Addressed(u, p)
<1>1. /\ up[u] # <<>> /\ up' = [up EXCEPT ![u] = Tail(@)]
      /\ down' = [x \in Users |-> IF x \in to THEN Append(down[x], p) ELSE down[x]]
      /\ UNCHANGED <<meta, keys, current, text, origin, consented>>
  BY DEF HubHandle, members, keyring, messages
<1>2. p \in Packets
  BY <1>1, UpTaken
<1>3. Flying(up)' \subseteq Flying(up) /\ p \in Flying(up)
  BY <1>1, UpDrawn
<1> HIDE DEF p, to
<1>4. Flying(down)' \subseteq Flying(down) \cup {p}
  BY <1>1, <1>2, DownHanded
<1>5. ReadersHonest'
  BY <1>1 DEF ReadInv, ReadersHonest, Sent
<1> QED BY <1>1, <1>3, <1>4, <1>5, QuietReads

LEMMA SyncReads ==
    ASSUME GroupInv, ReadInv, UNCHANGED <<meta, keyring, down, messages>>,
           \A p \in Flying(up)' : p \in Flying(up) \/ p.kind = "sync"
    PROVE  ReadInv'
<1>1. ReadersHonest' /\ Flying(down)' = Flying(down)
  BY DEF ReadInv, ReadersHonest, Sent, Flying, messages
<1>2. UNCHANGED <<keys, current, origin>>
  BY DEF keyring, messages
<1> QED BY <1>1, <1>2, SyncIsHonest, QuietReads

LEMMA HubRestartReads ==
    ASSUME GroupInv, ReadInv, HubRestart
    PROVE  ReadInv'
<1>1. ASSUME NEW u \in Users, NEW i \in 1 .. Len(up'[u]) PROVE up'[u][i].kind = "sync"
  <2>1. CASE active[u] = None
    <3>1. up'[u] = <<>>
      BY <2>1 DEF HubRestart
    <3> QED BY <3>1
  <2>2. CASE active[u] # None
    <3> DEFINE p == [kind |-> "sync", from |-> u, view |->
                       [x \in Users |-> IF x \in active[u] THEN "active" ELSE "none"]]
    <3>1. up'[u] = <<p>> /\ p.kind = "sync"
      BY <2>2 DEF HubRestart
    <3> HIDE DEF p
    <3> QED BY <3>1
  <2> QED BY <2>1, <2>2
<1>2. \A p \in Flying(up)' : p.kind = "sync"
  BY <1>1 DEF Flying
<1> QED BY <1>2, SyncReads DEF HubRestart, members

LEMMA RestartReads ==
    ASSUME GroupInv, ReadInv, NEW u \in Users, Restart(u)
    PROVE  ReadInv'
<1> DEFINE sync == [kind |-> "sync", from |-> u, view |->
                      [x \in Users |-> IF x \in active'[u] THEN "active" ELSE "none"]]
<1>1. up' = [up EXCEPT ![u] = IF active'[u] = None THEN @ ELSE Append(@, sync)]
      /\ UNCHANGED <<meta, keyring, down, messages>>
  BY DEF Restart
<1>2. sync \in Packets /\ sync.kind = "sync"
  BY DEF Packets, Syncs, Views, Status
<1> HIDE DEF sync
<1>3. up \in [Users -> Seq(Packets)]
  BY DEF GroupInv, GroupTypes
<1>4. CASE active'[u] = None
  <2>1. up' = up
    BY <1>1, <1>3, <1>4
  <2>2. Flying(up)' = Flying(up)
    BY <2>1 DEF Flying
  <2> QED BY <1>1, <2>2, SyncReads
<1>5. CASE active'[u] # None
  <2>1. <<sync>> \in Seq(Packets) /\ \A i \in 1 .. Len(<<sync>>) : <<sync>>[i] = sync
    BY <1>2
  <2>2. Append(up[u], sync) = up[u] \o <<sync>>
    BY <1>2, <1>3
  <2>3. up' = [up EXCEPT ![u] = @ \o <<sync>>]
    BY <1>1, <1>5, <2>2
  <2>4. Flying(up)' \subseteq Flying(up) \cup {<<sync>>[i] : i \in 1 .. Len(<<sync>>)}
    BY <2>1, <2>3, UpPushed
  <2> QED BY <1>1, <1>2, <2>1, <2>4, SyncReads
<1> QED BY <1>4, <1>5

LEMMA UpdateReads ==
    ASSUME GroupInv, KeyInv, ReadInv, NEW u \in Users, ReceiveUpdate(u)
    PROVE  ReadInv'
<1> DEFINE p == Head(down[u])
           q == p.packets
<1>1. /\ down[u] # <<>> /\ p.kind = "update" /\ down' = [down EXCEPT ![u] = Tail(@)]
      /\ ImportKey(u, p.from, q)
      /\ \/ meta' = [meta EXCEPT ![u] = q] \/ UNCHANGED meta
      /\ UNCHANGED <<route, up, text, origin, opens, consented>>
  BY DEF ReceiveUpdate, messages
<1>2. p \in Packets
  BY <1>1, DownTaken
<1>3. p.from \in Users /\ q \in Sealed
  BY <1>1, <1>2 DEF Packets, Updates, Syncs, Texts
<1>4. Flying(down)' \subseteq Flying(down) /\ p \in Flying(down)
  BY <1>1, DownDrawn
<1>5. PICK F \in [Users -> SUBSET Users] : HonestFor(F)
  BY DEF ReadInv
<1>6. FirstSet(q, F, Made)
  <2>1. Honest(p, F, Made, Sent)
    BY <1>4, <1>5 DEF HonestFor, PacketsHonest
  <2> QED BY <1>1, <2>1 DEF Honest
<1> PICK from \in Users : from = p.from
  BY <1>3
<1>7. /\ ImportKey(u, from, q)
      /\ \/ meta' = [meta EXCEPT ![u] = q] \/ UNCHANGED meta
  BY <1>1
<1> HIDE DEF p, q
<1>8. /\ Flying(up)' = Flying(up) /\ Sent' = Sent /\ origin' = origin
      /\ ReadersHonest'
  BY <1>1 DEF Flying, Sent, ReadInv, ReadersHonest
<1>9. \A w \in Users : meta'[w] = meta[w] \/ meta'[w] = q
  BY <1>7 DEF GroupInv, GroupTypes
<1>10. CASE UNCHANGED <<keys, current>>
  <2>1. Made' = Made
    BY <1>10 DEF Made
  <2>2. HonestFor(F)'
    BY <1>4, <1>5, <1>6, <1>8, <1>9, <1>10, <2>1, HonestKept
  <2>3. LaterKeysOwn'
    BY <1>10 DEF ReadInv, LaterKeysOwn
  <2> QED BY <1>8, <2>2, <2>3 DEF ReadInv
<1>11. CASE SaveKey(u, 1, from) /\ from # u /\ u \in q.to /\ q.by = from /\ q.ver = 1
  <2>1. keys \in [Users -> [Versions -> Users \cup {None}]] /\ current \in [Users -> Nat]
    BY DEF KeyInv, KeyTypes, GroupInv, GroupTypes
  <2>2. /\ keys' = [keys EXCEPT ![u][1] = from] /\ current' = [current EXCEPT ![u] = 1]
    BY <1>11 DEF SaveKey
  <2>3. from \in Made /\ u \in F[from]
    BY <1>6, <1>11 DEF FirstSet
  <2>4. Made \subseteq Made'
    BY <2>1, <2>2 DEF Made
  <2>5. \A x, s \in Users : x # s /\ keys'[x][1] = s =>
            keys[x][1] = s \/ (s \in Made' /\ x \in F[s])
    BY <2>1, <2>2, <2>3, <2>4
  <2>6. FirstSet(q, F, Made')
    BY <1>6, <2>4 DEF FirstSet
  <2>7. HonestFor(F)'
    BY <1>4, <1>5, <1>8, <1>9, <2>4, <2>5, <2>6, HonestKept
  <2>8. LaterKeysOwn'
    BY <2>1, <2>2 DEF ReadInv, LaterKeysOwn
  <2> QED BY <1>8, <2>7, <2>8 DEF ReadInv
<1> QED BY <1>7, <1>10, <1>11 DEF ImportKey, keyring

LEMMA MessageReads ==
    ASSUME GroupInv, KeyInv, ReadInv, NEW u \in Users, ReceiveMessage(u)
    PROVE  ReadInv'
<1> DEFINE p == Head(down[u])
           result == Opening(u, p.m)
<1>1. /\ down[u] # <<>> /\ p.kind = "message" /\ down' = [down EXCEPT ![u] = Tail(@)]
      /\ text' = CASE result = "replay" -> text
                   [] result = "success" -> [text EXCEPT ![u][p.m] = "plain"]
                   [] OTHER -> [text EXCEPT ![u][p.m] = "sealed"]
      /\ UNCHANGED <<meta, keys, current, up, origin, consented>>
  BY DEF ReceiveMessage, keyring
<1>2. p \in Packets
  BY <1>1, DownTaken
<1>3. p.m \in Msgs
  BY <1>1, <1>2 DEF Packets, Updates, Syncs, Texts
<1>4. Flying(down)' \subseteq Flying(down) /\ p \in Flying(down)
  BY <1>1, DownDrawn
<1>5. PICK F \in [Users -> SUBSET Users] : HonestFor(F)
  BY DEF ReadInv
<1>6. p.m \in Sent
  <2>1. Honest(p, F, Made, Sent)
    BY <1>4, <1>5 DEF HonestFor, PacketsHonest
  <2> QED BY <1>1, <2>1 DEF Honest
<1>7. result = "success" => HasKey(u, p.m)
  BY DEF Opening
<1> PICK m \in Msgs : m = p.m
  BY <1>3
<1> DEFINE o == origin[m]
<1>8. keys[u][o.ver] = o.key => u \notin o.barred
  <2> SUFFICES ASSUME keys[u][o.ver] = o.key, u \in o.barred PROVE FALSE
    OBVIOUS
  <2>1. SealedFor(o, F, Made)
    BY <1>5, <1>6 DEF HonestFor, OriginsHonest
  <2> HIDE DEF o
  <2>2. /\ o.by \in Users /\ o.by # u /\ o.key = o.by /\ o.ver \in Versions
        /\ o.ver = 1 => u \notin F[o.by]
    BY <2>1 DEF SealedFor
  <2>3. CASE o.ver = 1
    BY <1>5, <2>2, <2>3 DEF HonestFor, KeysHonest
  <2>4. CASE o.ver # 1
    <3>1. keys[u][o.ver] \in {None, u}
      BY <2>2, <2>4 DEF ReadInv, LaterKeysOwn
    <3>2. o.by # None
      BY <2>2, GroupChatAssumption
    <3> QED BY <2>2, <3>1, <3>2
  <2> QED BY <2>3, <2>4
<1>9. result = "success" => u \notin origin[m].barred
  BY <1>7, <1>8 DEF HasKey
<1>10. Sent' = Sent
  BY <1>1 DEF Sent
<1> HIDE DEF p, result, o
<1>11. ASSUME NEW x \in Users, NEW n \in Msgs, text'[x][n] = "plain"
       PROVE  text[x][n] = "plain" \/ (x = u /\ n = m /\ result = "success")
  <2>1. text \in [Users -> [Msgs -> {"none", "sealed", "plain"}]]
    BY DEF GroupInv, GroupTypes
  <2>2. CASE text' = text
    BY <1>11, <2>2
  <2>3. CASE text' = [text EXCEPT ![u][m] = "plain"] /\ result = "success"
    BY <1>11, <2>1, <2>3
  <2>4. CASE text' = [text EXCEPT ![u][m] = "sealed"]
    BY <1>11, <2>1, <2>4
  <2> QED BY <1>1, <2>2, <2>3, <2>4
<1>12. ReadersHonest'
  BY <1>1, <1>6, <1>9, <1>10, <1>11 DEF ReadInv, ReadersHonest
<1>13. Flying(up)' = Flying(up)
  BY <1>1 DEF Flying
<1> QED BY <1>1, <1>4, <1>12, <1>13, QuietReads

LEMMA RedeliverReads ==
    ASSUME GroupInv, ReadInv, NEW u \in Users, Redeliver(u)
    PROVE  ReadInv'
<1>1. PICK m \in Msgs :
        /\ text[u][m] # "none" /\ origin[m] # None
        /\ down' = [down EXCEPT ![u] =
                      Append(@, [kind |-> "message", from |-> origin[m].by, m |-> m])]
  BY DEF Redeliver
<1> DEFINE p == [kind |-> "message", from |-> origin[m].by, m |-> m]
<1>2. UNCHANGED <<meta, keys, current, up, text, origin, consented>>
  BY DEF Redeliver, members, keyring, messages
<1>3. p \in Packets
  <2>1. origin[m].by \in Users
    BY <1>1 DEF GroupInv, GroupTypes, TextSound
  <2> QED BY <2>1 DEF Packets, Texts
<1>4. down' = [x \in Users |-> IF x \in {u} THEN Append(down[x], p) ELSE down[x]]
  BY <1>1 DEF GroupInv, GroupTypes
<1>5. p.kind = "message" /\ p.m = m /\ m \in Sent
  BY <1>1 DEF Sent
<1> HIDE DEF p
<1>6. Flying(down)' \subseteq Flying(down) \cup {p}
  BY <1>3, <1>4, DownHanded
<1>7. \A F : Honest(p, F, Made, Sent)
  BY <1>5 DEF Honest
<1>8. ReadersHonest' /\ Flying(up)' = Flying(up)
  BY <1>2 DEF ReadInv, ReadersHonest, Sent, Flying
<1> QED BY <1>2, <1>6, <1>7, <1>8, QuietReads

\* A message is sealed with the active key, whose maker and version say who of
\* the removed cannot have it.
LEMMA SendReads ==
    ASSUME GroupInv, KeyInv, KeyInv', ReadInv, NEW u \in Users, NEW m \in Msgs, Sends(u, m)
    PROVE  ReadInv'
<1>1. UNCHANGED <<store, meta, down>> /\ origin[m] = None
  BY DEF Sends, members
<1>2. PICK F \in [Users -> SUBSET Users] : HonestFor(F)
  BY DEF ReadInv
<1>3. /\ Made \subseteq Made'
      /\ \A x, s \in Users : x # s /\ keys'[x][1] = s => keys[x][1] = s
      /\ LaterKeysOwn'
  <2>1. CASE Rotate(u)
    BY <2>1, RotateOwn DEF ReadInv
  <2>2. CASE UNCHANGED <<keys, current>>
    BY <2>2 DEF Made, ReadInv, LaterKeysOwn
  <2> QED BY <2>1, <2>2 DEF Sends, SealWith
<1>4. u \in Made'
  <2>1. current \in [Users -> Nat]
    BY DEF GroupInv, GroupTypes
  <2>2. CASE Rotate(u)
    BY <2>2, RotateOwn DEF ReadInv
  <2>3. CASE current[u] # 0 /\ UNCHANGED <<keys, current>>
    BY <2>3 DEF Made
  <2> QED BY <2>2, <2>3 DEF Sends, SealWith
<1>5. Flying(down)' = Flying(down)
  BY <1>1 DEF Flying
<1>6. CASE UNCHANGED <<origin, up, text>>
  <2>1. Sent' = Sent /\ Flying(up)' = Flying(up) /\ ReadersHonest'
    BY <1>6 DEF Sent, Flying, ReadInv, ReadersHonest
  <2>2. HonestFor(F)'
    BY <1>1, <1>2, <1>3, <1>5, <1>6, <2>1, HonestKept
  <2> QED BY <1>3, <2>1, <2>2 DEF ReadInv
<1>7. CASE HandOver(u, m)
  <2>1. PICK n \in Versions : n = current'[u]
    <3>1. current'[u] \in 0 .. ops' + 1 /\ ops' \in 0 .. MaxOps /\ MaxOps \in Nat
      BY GroupChatAssumption DEF KeyInv, KeyTypes, VersionMade
    <3>2. current'[u] # 0
      BY <1>4 DEF Made
    <3>3. current'[u] \in 1 .. MaxOps + 1
      BY <3>1, <3>2
    <3> QED BY <3>3 DEF Versions
  <2>2. PICK key \in Users : key = keys'[u][n]
    <3>1. keys'[u][n] \in Users \cup {None} /\ keys'[u][n] # None
      BY <1>4, <2>1 DEF KeyInv, KeyTypes, VersionMade, Made
    <3> QED BY <3>1
  <2>3. PICK barred \in SUBSET Users : barred = Barred(u, key)
    BY DEF Barred
  <2>4. /\ u \notin barred
        /\ barred # {} => meta[u].by = u /\ meta[u].ver = n /\ key = u /\ barred \cap meta[u].to = {}
    BY <2>1, <2>3 DEF Barred
  <2>5. n \in Nat
    BY GroupChatAssumption DEF Versions
  <2>6. PICK o \in [by : Users, ver : Nat, key : Users, barred : SUBSET Users] :
          o = [by |-> u, ver |-> n, key |-> key, barred |-> barred]
    <3>1. [by |-> u, ver |-> n, key |-> key, barred |-> barred]
             \in [by : Users, ver : Nat, key : Users, barred : SUBSET Users]
      BY <2>5
    <3> QED BY <3>1
  <2>7. o.by = u /\ o.ver = n /\ o.key = key /\ o.barred = barred /\ o # None
    BY <2>6, GroupChatAssumption
  <2>8. origin' = [origin EXCEPT ![m] = o]
    BY <1>7, <2>1, <2>2, <2>3, <2>6 DEF HandOver
  <2>9. origin'[m] = o /\ \A k \in Msgs \ {m} : origin'[k] = origin[k]
    BY <2>8 DEF GroupInv, GroupTypes
  <2>10. Sent' = Sent \cup {m} /\ m \notin Sent
    BY <1>1, <2>7, <2>9 DEF Sent
  <2>11. SealedFor(o, F, Made')
    <3>1. FirstSet(meta[u], F, Made)
      BY <1>2 DEF HonestFor, PacketsHonest
    <3> QED BY <1>4, <2>4, <2>7, <3>1 DEF SealedFor, FirstSet
  <2>12. \A p \in Flying(up)' : p \in Flying(up) \/ Honest(p, F, Made', Sent')
    <3> DEFINE frame == [kind |-> "message", from |-> u, m |-> m]
    <3>1. PICK frames \in {<<>>, <<frame>>} : up' = [up EXCEPT ![u] = @ \o frames]
      BY <1>7 DEF HandOver
    <3>2. frame \in Packets /\ frame.kind = "message" /\ frame.m \in Sent'
      BY <2>10 DEF Packets, Texts
    <3> HIDE DEF frame
    <3>3. frames \in Seq(Packets) /\ \A i \in 1 .. Len(frames) : frames[i] = frame
      <4>1. CASE frames = <<>>
        BY <4>1
      <4>2. CASE frames = <<frame>>
        BY <3>2, <4>2, OneSequence
      <4> QED BY <3>1, <4>1, <4>2
    <3>4. Flying(up)' \subseteq Flying(up) \cup {frames[i] : i \in 1 .. Len(frames)}
      BY <3>1, <3>3, UpPushed
    <3>5. Honest(frame, F, Made', Sent')
      BY <3>2 DEF Honest
    <3> QED BY <3>3, <3>4, <3>5
  <2>13. \A k \in Sent' : (k \in Sent /\ origin'[k] = origin[k]) \/ SealedFor(origin'[k], F, Made')
    BY <2>9, <2>10, <2>11 DEF Sent
  <2>14. HonestFor(F)'
    <3>1. \A w \in Users : meta'[w] = meta[w] \/ FirstSet(meta'[w], F, Made')
      BY <1>1
    <3>2. \A p \in Flying(up)' \cup Flying(down)' :
              p \in Flying(up) \cup Flying(down) \/ Honest(p, F, Made', Sent')
      BY <1>5, <2>12
    <3>3. Sent \subseteq Sent' /\ \A s \in Made : F[s] = F[s]
      BY <2>10
    <3>4. \A x, s \in Users : x # s /\ keys'[x][1] = s =>
              keys[x][1] = s \/ (s \in Made' /\ x \in F[s])
      BY <1>3
    <3> QED BY <1>2, <1>3, <2>13, <3>1, <3>2, <3>3, <3>4, HonestKept
  <2>15. text' = [text EXCEPT ![u][m] = "plain"]
    BY <1>7 DEF HandOver
  <2>16. ASSUME NEW x \in Users, NEW k \in Msgs, text'[x][k] = "plain"
         PROVE  k \in Sent' /\ x \notin origin'[k].barred
    <3>1. text \in [Users -> [Msgs -> {"none", "sealed", "plain"}]]
      BY DEF GroupInv, GroupTypes
    <3>2. text[x][k] = "plain" \/ (x = u /\ k = m)
      BY <2>15, <2>16, <3>1
    <3>3. CASE text[x][k] = "plain"
      <4>1. k \in Sent /\ x \notin origin[k].barred
        BY <3>3 DEF ReadInv, ReadersHonest
      <4> QED BY <2>9, <2>10, <4>1
    <3>4. CASE x = u /\ k = m
      BY <2>4, <2>7, <2>9, <2>10, <3>4
    <3> QED BY <3>2, <3>3, <3>4
  <2>17. ReadersHonest'
    BY <2>16 DEF ReadersHonest
  <2> QED BY <1>3, <2>14, <2>17 DEF ReadInv
<1> QED BY <1>6, <1>7 DEF Sends

LEMMA ReadStart == Init => ReadInv
<1> SUFFICES ASSUME Init PROVE ReadInv
  OBVIOUS
<1>1. PICK F \in [Users -> SUBSET Users] : F = [u \in Users |-> {}]
  OBVIOUS
<1>2. Made = {} /\ Sent = {}
  BY DEF Init, Made, Sent
<1>3. Flying(up) = {} /\ Flying(down) = {}
  BY DEF Init, Flying
<1>4. \A w \in Users : meta[w].by \notin Users
  BY GroupChatAssumption DEF Init, NoPackets
<1>5. \A x \in Users, v \in Versions : keys[x][v] = None
  BY DEF Init
<1>6. 1 \in Versions /\ None \notin Users
  BY GroupChatAssumption DEF Versions
<1>7. PacketsHonest(F)
  BY <1>3, <1>4 DEF PacketsHonest, FirstSet
<1>8. KeysHonest(F) /\ OriginsHonest(F)
  BY <1>2, <1>5, <1>6 DEF KeysHonest, OriginsHonest
<1>9. LaterKeysOwn /\ ReadersHonest
  BY <1>5 DEF Init, LaterKeysOwn, ReadersHonest
<1> QED BY <1>7, <1>8, <1>9 DEF ReadInv, HonestFor

LEMMA ReadStep == GroupInv /\ KeyInv /\ KeyInv' /\ ReadInv /\ [Next]_vars => ReadInv'
<1> SUFFICES ASSUME GroupInv, KeyInv, KeyInv', ReadInv, [Next]_vars PROVE ReadInv'
  OBVIOUS
<1>1. CASE UNCHANGED vars
  <2>1. UNCHANGED <<meta, keyring, down, messages>> /\ Flying(up)' = Flying(up)
    BY <1>1 DEF vars, keyring, messages, Flying
  <2> QED BY <2>1, SyncReads
<1>2. CASE CreateGroup
  <2>1. PICK others \in SUBSET (Users \ {Creator}) :
          LET view == [x \in Users |-> IF x = Creator THEN "active"
                                       ELSE IF x \in others THEN "invited" ELSE "none"]
          IN AttachKeys(Creator, view) /\ Push(Creator, view, meta'[Creator])
    BY <1>2 DEF CreateGroup
  <2> DEFINE view == [x \in Users |-> IF x = Creator THEN "active"
                                      ELSE IF x \in others THEN "invited" ELSE "none"]
  <2>2. AttachKeys(Creator, view) /\ Push(Creator, view, meta'[Creator])
    BY <2>1
  <2>3. view \in Views /\ Creator \in Users /\ UNCHANGED <<down, messages>>
    BY <1>2, GroupChatAssumption DEF CreateGroup, Views, Status
  <2> HIDE DEF view
  <2> QED BY <2>2, <2>3, AttachReads
<1>3. ASSUME NEW u \in Users, NEW x \in Users, NEW status \in {"invited", "removed"},
             ChangeMember(u, x, status)
      PROVE  ReadInv'
  <2> DEFINE view == [store[u] EXCEPT ![x] = status]
  <2>1. AttachKeys(u, view) /\ Push(u, view, meta'[u]) /\ UNCHANGED <<down, messages>>
    BY <1>3 DEF ChangeMember
  <2>2. view \in Views
    BY DEF GroupInv, GroupTypes, Views, Status
  <2> HIDE DEF view
  <2> QED BY <2>1, <2>2, AttachReads
<1>4. ASSUME NEW u \in Users, NEW m \in Msgs,
             SendMessage(u, m) \/ SendTempFile(u, m) \/ SendFileEvent(u, m)
      PROVE  ReadInv'
  BY <1>4, SendReads DEF SendMessage, SendTempFile, SendFileEvent
<1> QED
  BY <1>1, <1>2, <1>3, <1>4, AcceptReads, RejectReads, HubReads, HubRestartReads, UpdateReads,
     MessageReads, RedeliverReads, RestartReads DEF Next

\* MessagesReadByMembers: no message is readable to one who did not consent to be
\* in the group, or whom its sender had removed with the key it is sealed with;
\* whatever keys and snapshots cross, come late or twice.
THEOREM MessagesReadByMembers == Spec => []ReadByMembers
<1>1. GroupInv /\ ReadInv => ReadByMembers
  BY DEF GroupInv, TextSound, ReadInv, ReadersHonest, ReadByMembers
<1> QED BY <1>1, GroupStart, GroupStep, KeyStart, KeyStep, ReadStart, ReadStep, PTL DEF Spec
=================================================================================
