----------------------------- MODULE Station_proofs -----------------------------
(* Proofs about what runs on the machines besides the messages: a profile, the *)
(* launch tickets and a local model, for any ids, passwords, tickets, clients, *)
(* changes, crashes and questions; and that a behaviour of the whole station   *)
(* is one of each of its parts, so that what is proved of the parts holds of it. *)
EXTENDS MCStation, Endpoints_proofs, Workspace_proofs, TLAPS

-----------------------------------------------------------------------------
(* A profile: its user id never changes as long as no save of identity.json is *)
(* disturbed, and nobody is trusted whom the user did not let in.              *)

Checks == [id : Ids, pw : Passwords, found : BOOLEAN]

ProfileTypes ==
    /\ file \in Record \cup {NoFile, Corrupt}
    /\ mem \in Record \cup {None}
    /\ saving \in [Writers -> Record \cup {None}]
    /\ checked \in [Initialisers -> Checks \cup {None}]
    /\ held \in [Initialisers -> Record \cup {None}]
    /\ owner \in Ids \cup {None}
    /\ at \in {"off", "dialog", "entering", "in"}
    /\ issued \subseteq Ids
    /\ device \in {"none", "unknown", "trusted", "blocked"}
    /\ answering \in {"no", "trusted", "rejected"}
    /\ disturbed \in BOOLEAN /\ letIn \in BOOLEAN

\* What the steps of an entry rely on.
EntryTypes ==
    /\ at = "dialog" => offered \in Ids /\ (mode = "login" => mem \in Record)
    /\ at \in {"entering", "in"} => mem \in Record
    /\ answering # "no" => at = "in"
    /\ checked["ui"] # None \/ held["ui"] # None => at = "dialog"

\* While nothing disturbed a save, one writer at most is at it, the file is
\* torn only then, before the first save there is nothing anywhere, and a
\* program that found no identity goes on only until the first save.
SavesApart ==
    /\ \A v, w \in Writers : saving[v] # None /\ saving[w] # None => v = w
    /\ file = Corrupt => Busy
    /\ file = NoFile => owner = None
    /\ owner = None => /\ file = NoFile /\ mem = None
                       /\ \A w \in Writers : saving[w] = None
                       /\ \A w \in Initialisers : held[w] = None
    /\ \A w \in Initialisers : checked[w] # None /\ ~checked[w].found => owner = None

\* All there is of an identity has the owner's id.
OneId ==
    /\ file \in Record => file.id = owner
    /\ mem \in Record => mem.id = owner
    /\ \A w \in Writers : saving[w] # None => saving[w].id = owner
    /\ \A w \in Initialisers : held[w] # None => held[w].id = owner

Backed(record) == record \in Record /\ record.trust = "trusted" => letIn

\* Every place the trust of the contact is kept in.
TrustBacked ==
    /\ Backed(file) /\ Backed(mem)
    /\ \A w \in Writers : Backed(saving[w])
    /\ \A w \in Initialisers : Backed(held[w])
    /\ device = "trusted" => letIn
    /\ answering = "trusted" => letIn

IdentityInv ==
    /\ ProfileTypes /\ EntryTypes /\ TrustBacked
    /\ ~disturbed => SavesApart /\ OneId

LEMMA Distinct ==
    /\ None \notin Record /\ None \notin Ids
    /\ NoFile \notin Record /\ Corrupt \notin Record /\ Corrupt # NoFile
BY LocalProfileAssumption

LEMMA ProfileStart == ProfileInit => IdentityInv
<1> SUFFICES ASSUME ProfileInit PROVE IdentityInv
  OBVIOUS
<1>1. (CHOOSE i \in Ids : TRUE) \in Ids /\ (CHOOSE p \in Passwords : TRUE) \in Passwords
  BY LocalProfileAssumption
<1>2. file = NoFile \/ (file \in Record /\ file.trust = "unknown")
  BY <1>1 DEF ProfileInit, Record, Kinds, Trust
<1>3. owner = IF file = NoFile THEN None ELSE file.id
  BY DEF ProfileInit
<1>4. owner \in Ids \cup {None}
  BY <1>2, <1>3 DEF Record
<1>5. ProfileTypes /\ EntryTypes
  <2>1. /\ checked \in [Initialisers -> Checks \cup {None}] /\ checked["ui"] = None
        /\ held \in [Initialisers -> Record \cup {None}] /\ held["ui"] = None
    BY DEF ProfileInit, Initialisers
  <2>2. saving \in [Writers -> Record \cup {None}]
    BY DEF ProfileInit
  <2> QED BY <1>2, <1>4, <2>1, <2>2 DEF ProfileInit, ProfileTypes, EntryTypes
<1>6. SavesApart /\ OneId
  <2>1. /\ mem = None /\ \A w \in Writers : saving[w] = None
        /\ \A w \in Initialisers : checked[w] = None /\ held[w] = None
    BY DEF ProfileInit
  <2>2. owner = None <=> file = NoFile
    BY <1>2, <1>3, Distinct DEF Record
  <2> QED BY <1>2, <1>3, <2>1, <2>2, Distinct DEF SavesApart, OneId
<1>7. TrustBacked
  BY <1>2, Distinct DEF ProfileInit, TrustBacked, Backed
<1> QED BY <1>5, <1>6, <1>7 DEF IdentityInv

-----------------------------------------------------------------------------
\* What a program holds back between two steps of an initialisation goes away
\* or stays.
StepsShrink ==
    /\ checked' \in [Initialisers -> Checks \cup {None}]
    /\ held' \in [Initialisers -> Record \cup {None}]
    /\ \A v \in Initialisers : checked'[v] \in {checked[v], None} /\ held'[v] \in {held[v], None}

LEMMA StepsStay == IdentityInv /\ UNCHANGED <<checked, held>> => StepsShrink
BY DEF IdentityInv, ProfileTypes, StepsShrink

\* The start of a save by any writer; a dialog's or a session's record may be
\* taken over in memory at the same time.
LEMMA SaveStarts ==
    ASSUME IdentityInv, NEW w \in Writers, NEW record \in Record, SaveStart(w, record),
           mem' \in {mem, record}, StepsShrink,
           ~disturbed /\ ~Busy => \/ owner # None /\ record.id = owner
                                  \/ owner = None /\ w \in Initialisers /\ checked'[w] = None
    PROVE  /\ file' = Corrupt /\ saving' \in [Writers -> Record \cup {None}]
           /\ owner' \in Ids \cup {None} /\ disturbed' \in BOOLEAN
           /\ ~disturbed' => SavesApart' /\ OneId'
           /\ \A v \in Writers : saving'[v] \in {saving[v], record}
<1>1. /\ saving' = [saving EXCEPT ![w] = record] /\ file' = Corrupt
      /\ owner' = IF owner = None THEN record.id ELSE owner
      /\ disturbed' = (\/ disturbed \/ Busy
                       \/ \E v \in Initialisers \ {w} : checked[v] # None /\ ~checked[v].found)
  BY DEF SaveStart
<1>2. saving \in [Writers -> Record \cup {None}] /\ mem \in Record \cup {None}
      /\ owner \in Ids \cup {None} /\ record.id \in Ids
  BY DEF IdentityInv, ProfileTypes, Record
<1>3. /\ saving' \in [Writers -> Record \cup {None}] /\ saving'[w] = record
      /\ \A v \in Writers \ {w} : saving'[v] = saving[v]
  BY <1>1, <1>2
<1>4. owner' \in Ids /\ disturbed' \in BOOLEAN
  BY <1>1, <1>2 DEF IdentityInv, ProfileTypes
<1>5. ASSUME ~disturbed' PROVE SavesApart' /\ OneId'
  <2>1. /\ ~disturbed /\ ~Busy /\ SavesApart /\ OneId /\ \A v \in Writers : saving[v] = None
        /\ \A v \in Initialisers \ {w} : checked[v] # None => checked[v].found
    BY <1>1, <1>5 DEF IdentityInv, Busy
  <2>2. /\ record.id = owner' /\ (mem' # None => mem'.id = owner')
        /\ owner' # None /\ (owner # None => owner' = owner)
    BY <1>1, <1>2, <2>1, <1>4, Distinct DEF SavesApart, OneId
  <2>3. \A v \in Initialisers : checked'[v] # None => checked'[v].found
    <3> SUFFICES ASSUME NEW v \in Initialisers, checked'[v] # None PROVE checked'[v].found
      OBVIOUS
    <3>1. checked'[v] = checked[v]
      BY DEF StepsShrink
    <3>2. CASE v = w
      BY <2>1, <3>1, <3>2 DEF SavesApart
    <3> QED BY <2>1, <3>1, <3>2
  <2>4. SavesApart'
    <3>1. Busy'
      BY <1>3, Distinct DEF Busy
    <3> QED BY <1>1, <1>3, <2>1, <2>2, <2>3, <3>1, Distinct DEF SavesApart
  <2>5. \A v \in Initialisers : held'[v] # None => held'[v].id = owner'
    BY <2>1, <2>2 DEF StepsShrink, SavesApart, OneId
  <2>6. OneId'
    BY <1>1, <1>3, <2>1, <2>2, <2>5, Distinct DEF OneId
  <2> QED BY <2>4, <2>6
<1> QED BY <1>1, <1>3, <1>4, <1>5

LEMMA SavingKeeps ==
    ASSUME IdentityInv, NEW w \in Writers, NEW record \in Record, SaveStart(w, record),
           mem' \in {mem, record}, StepsShrink,
           ~disturbed /\ ~Busy => \/ owner # None /\ record.id = owner
                                  \/ owner = None /\ w \in Initialisers /\ checked'[w] = None,
           record.trust = "trusted" => letIn',
           letIn => letIn', letIn' \in BOOLEAN,
           at' \in {"off", "dialog", "entering", "in"}, EntryTypes',
           answering' \in {answering, "no"},
           UNCHANGED <<device, issued>>
    PROVE  IdentityInv'
<1>1. /\ file' = Corrupt /\ saving' \in [Writers -> Record \cup {None}]
      /\ owner' \in Ids \cup {None} /\ disturbed' \in BOOLEAN
      /\ ~disturbed' => SavesApart' /\ OneId'
      /\ \A v \in Writers : saving'[v] \in {saving[v], record}
  BY SaveStarts
<1>2. ProfileTypes'
  BY <1>1 DEF IdentityInv, ProfileTypes, StepsShrink
<1>3. TrustBacked'
  <2>1. \A v \in Initialisers : Backed(held[v])'
    BY Distinct DEF IdentityInv, TrustBacked, Backed, StepsShrink
  <2> QED BY <1>1, <2>1, Distinct DEF IdentityInv, TrustBacked, Backed
<1> QED BY <1>1, <1>2, <1>3 DEF IdentityInv

\* Steps that save nothing: what memory or an initialisation takes over was on
\* disk, and what is read while a save is under way counts as disturbed.
LEMMA ReadingKeeps ==
    ASSUME IdentityInv, UNCHANGED <<file, saving, owner>>,
           mem' \in {mem, None} \/ (mem' = file /\ file \in Record),
           checked' \in [Initialisers -> Checks \cup {None}],
           held' \in [Initialisers -> Record \cup {None}],
           \A v \in Initialisers :
              /\ \/ checked'[v] \in {checked[v], None}
                 \/ ~disturbed' /\ ~checked'[v].found => owner = None
              /\ \/ held'[v] \in {held[v], None}
                 \/ file \in Record /\ held'[v].id = file.id /\ held'[v].trust = file.trust,
           disturbed' \in BOOLEAN, disturbed => disturbed',
           letIn => letIn', letIn' \in BOOLEAN,
           device' \in {"none", "unknown", "trusted", "blocked"}, device' = "trusted" => letIn',
           answering' \in {"no", "trusted", "rejected"}, answering' = "trusted" => letIn',
           at' \in {"off", "dialog", "entering", "in"}, EntryTypes', issued' \subseteq Ids
    PROVE  IdentityInv'
<1>1. ProfileTypes'
  BY DEF IdentityInv, ProfileTypes
<1>2. TrustBacked'
  <2>1. \A v \in Initialisers : Backed(held[v])'
    BY Distinct DEF IdentityInv, TrustBacked, Backed
  <2> QED BY <2>1, Distinct DEF IdentityInv, TrustBacked, Backed
<1>3. ~disturbed' => SavesApart' /\ OneId'
  <2> SUFFICES ASSUME ~disturbed' PROVE SavesApart' /\ OneId'
    OBVIOUS
  <2>1. SavesApart /\ OneId
    BY DEF IdentityInv
  <2>2. \A v \in Initialisers : checked'[v] # None /\ ~checked'[v].found => owner = None
    BY <2>1 DEF SavesApart
  <2>3. \A v \in Initialisers : /\ owner = None => held'[v] = None
                                /\ held'[v] # None => held'[v].id = owner
    BY <2>1, Distinct DEF SavesApart, OneId
  <2>4. SavesApart'
    BY <2>1, <2>2, <2>3, Distinct DEF SavesApart, Busy
  <2>5. OneId'
    BY <2>1, <2>3, Distinct DEF OneId
  <2> QED BY <2>4, <2>5
<1> QED BY <1>1, <1>2, <1>3 DEF IdentityInv

-----------------------------------------------------------------------------
(* Saving. *)

LEMMA SaveEndKeeps ==
    ASSUME IdentityInv, NEW w \in Writers, SaveEnd(w)
    PROVE  IdentityInv'
<1>1. /\ saving[w] # None /\ saving' = [saving EXCEPT ![w] = None]
      /\ file' \in {saving[w]} \cup IF disturbed THEN {Corrupt} ELSE {}
      /\ at' = IF w = "ui" /\ at = "entering" THEN "in" ELSE at
      /\ issued' = issued \cup IF w = "control" THEN {saving[w].id} ELSE {}
      /\ UNCHANGED <<mem, mode, offered, checked, held, device, answering, owner, disturbed, letIn>>
  BY DEF SaveEnd, pairing, steps
<1>2. /\ saving \in [Writers -> Record \cup {None}] /\ saving[w] \in Record /\ saving[w].id \in Ids
      /\ mem \in Record \cup {None}
  BY <1>1 DEF IdentityInv, ProfileTypes, Record
<1>3. /\ saving' \in [Writers -> Record \cup {None}] /\ saving'[w] = None
      /\ \A v \in Writers \ {w} : saving'[v] = saving[v]
  BY <1>1, <1>2
<1>4. ProfileTypes' /\ EntryTypes'
  BY <1>1, <1>2, <1>3 DEF IdentityInv, ProfileTypes, EntryTypes
<1>5. TrustBacked'
  BY <1>1, <1>2, <1>3, Distinct DEF IdentityInv, TrustBacked, Backed
<1>6. ASSUME ~disturbed' PROVE SavesApart' /\ OneId'
  <2>1. ~disturbed /\ SavesApart /\ OneId /\ file' = saving[w]
    BY <1>1, <1>6 DEF IdentityInv
  <2>2. file' \in Record /\ owner # None
    BY <1>1, <1>2, <2>1 DEF SavesApart
  <2>3. SavesApart'
    BY <1>1, <1>3, <2>1, <2>2, Distinct DEF SavesApart
  <2>4. OneId'
    BY <1>1, <1>3, <2>1 DEF OneId
  <2> QED BY <2>3, <2>4
<1> QED BY <1>1, <1>4, <1>5, <1>6 DEF IdentityInv

\* A program that loads or finds no identity while none is being saved has none
\* before it.
LEMMA FoundNothing ==
    ASSUME IdentityInv, ~Loads, ~disturbed, ~Busy
    PROVE  owner = None
BY DEF IdentityInv, SavesApart, Loads

LEMMA InitializeKeeps ==
    ASSUME IdentityInv, NEW w \in Initialisers, NEW id \in Ids, NEW pw \in Passwords,
           InitializeIdentity(w, id, pw)
    PROVE  IdentityInv'
<1>1. /\ checked' = [checked EXCEPT ![w] = [id |-> id, pw |-> pw, found |-> HasIdentity]]
      /\ disturbed' = (disturbed \/ Busy)
      /\ UNCHANGED <<file, saving, owner, mem, at, mode, offered, held, issued, device, answering, letIn>>
  BY DEF InitializeIdentity, Reading, session, pairing
<1>0. w = "ui" => at = "dialog"
  BY DEF InitializeIdentity
<1>2. checked \in [Initialisers -> Checks \cup {None}]
  BY DEF IdentityInv, ProfileTypes
<1>3. [id |-> id, pw |-> pw, found |-> HasIdentity] \in Checks
  BY DEF Checks, HasIdentity, Loads
<1>4. /\ checked' \in [Initialisers -> Checks \cup {None}]
      /\ checked'[w].found = HasIdentity
      /\ \A v \in Initialisers \ {w} : checked'[v] = checked[v]
  BY <1>1, <1>2, <1>3
<1>5. ~disturbed' /\ ~checked'[w].found => owner = None
  BY <1>1, <1>4, FoundNothing DEF HasIdentity, IdentityInv, ProfileTypes
<1>6. EntryTypes' /\ disturbed' \in BOOLEAN /\ (disturbed => disturbed')
  <2>1. checked'["ui"] # None \/ held'["ui"] # None => at = "dialog"
    BY <1>0, <1>1, <1>4 DEF IdentityInv, EntryTypes, Initialisers
  <2> QED BY <1>1, <2>1 DEF IdentityInv, EntryTypes, ProfileTypes, Busy
<1> QED
  BY <1>1, <1>4, <1>5, <1>6, ReadingKeeps DEF IdentityInv, ProfileTypes, TrustBacked

LEMMA LoadKeeps ==
    ASSUME IdentityInv, NEW w \in Initialisers, LoadStored(w)
    PROVE  IdentityInv'
<1>1. /\ checked[w] # None /\ checked' = [checked EXCEPT ![w] = None]
      /\ disturbed' = (disturbed \/ Busy)
      /\ mem' = IF w = "ui" /\ Loads THEN file ELSE mem
      /\ UNCHANGED <<file, saving, owner, at, mode, offered, issued, device, answering, letIn>>
  BY DEF LoadStored, Reading, pairing
<1>2. \/ UNCHANGED held
      \/ Loads /\ held' = [held EXCEPT ![w] = [file EXCEPT !.pw = checked[w].pw, !.kind = "pbkdf2"]]
  BY DEF LoadStored
<1>3. /\ checked \in [Initialisers -> Checks \cup {None}] /\ checked[w] \in Checks
      /\ held \in [Initialisers -> Record \cup {None}] /\ (Loads => file \in Record)
  BY <1>1 DEF IdentityInv, ProfileTypes, Loads
<1>4. /\ checked' \in [Initialisers -> Checks \cup {None}]
      /\ \A v \in Initialisers : checked'[v] \in {checked[v], None}
  BY <1>1, <1>3
<1>5. /\ held' \in [Initialisers -> Record \cup {None}]
      /\ \A v \in Initialisers :
            \/ held'[v] \in {held[v], None}
            \/ file \in Record /\ held'[v].id = file.id /\ held'[v].trust = file.trust
  <2>1. CASE UNCHANGED held
    BY <1>3, <2>1
  <2>2. CASE Loads /\ held' = [held EXCEPT ![w] = [file EXCEPT !.pw = checked[w].pw, !.kind = "pbkdf2"]]
    <3>1. PICK record \in Record : record = [file EXCEPT !.pw = checked[w].pw, !.kind = "pbkdf2"]
      BY <1>3, <2>2 DEF Record, Kinds, Checks
    <3>2. record.id = file.id /\ record.trust = file.trust
      BY <1>3, <2>2, <3>1 DEF Record
    <3>3. held' = [held EXCEPT ![w] = record]
      BY <2>2, <3>1
    <3> QED BY <1>3, <2>2, <3>2, <3>3
  <2> QED BY <1>2, <2>1, <2>2
<1>6. EntryTypes' /\ disturbed' \in BOOLEAN /\ (disturbed => disturbed')
  <2>1. w # "ui" => held'["ui"] = held["ui"]
    BY <1>2, <1>3 DEF Initialisers
  <2>2. checked'["ui"] # None \/ held'["ui"] # None => at = "dialog"
    BY <1>1, <1>4, <2>1 DEF IdentityInv, EntryTypes, Initialisers
  <2> QED BY <1>1, <1>3, <2>2 DEF IdentityInv, EntryTypes, ProfileTypes, Busy
<1> QED
  BY <1>1, <1>3, <1>4, <1>5, <1>6, ReadingKeeps DEF IdentityInv, ProfileTypes, TrustBacked

LEMMA SaveIdentityKeeps ==
    ASSUME IdentityInv, NEW w \in Initialisers, SaveIdentity(w)
    PROVE  IdentityInv'
<1>1. PICK record \in Record :
         /\ \/ checked[w] = None /\ record = held[w]
            \/ /\ checked[w] # None /\ ~checked[w].found
               /\ record = [id |-> checked[w].id, pw |-> checked[w].pw,
                            kind |-> "pbkdf2", trust |-> "absent"]
         /\ SaveStart(w, record)
         /\ mem' = IF w = "ui" THEN record ELSE mem
  BY DEF SaveIdentity
<1>2. /\ at' = IF w = "ui" THEN "entering" ELSE at
      /\ checked' = [checked EXCEPT ![w] = None] /\ held' = [held EXCEPT ![w] = None]
      /\ UNCHANGED <<mode, offered, issued, device, answering, letIn>>
  BY DEF SaveIdentity, pairing
<1>3. /\ checked \in [Initialisers -> Checks \cup {None}]
      /\ held \in [Initialisers -> Record \cup {None}]
      /\ w \in Writers /\ letIn \in BOOLEAN /\ at \in {"off", "dialog", "entering", "in"}
  BY DEF IdentityInv, ProfileTypes, Writers, Initialisers
<1>4. StepsShrink /\ checked'[w] = None
  BY <1>2, <1>3 DEF StepsShrink
<1>5. ~disturbed /\ ~Busy => \/ owner # None /\ record.id = owner
                             \/ owner = None /\ w \in Initialisers /\ checked'[w] = None
  BY <1>1, <1>4, Distinct DEF IdentityInv, SavesApart, OneId
<1>6. record.trust = "trusted" => letIn
  BY <1>1 DEF IdentityInv, TrustBacked, Backed
<1>7. w = "ui" => answering = "no"
  BY <1>1, Distinct DEF IdentityInv, EntryTypes
<1>8. EntryTypes' /\ at' \in {"off", "dialog", "entering", "in"}
  BY <1>1, <1>2, <1>3, <1>7 DEF IdentityInv, EntryTypes
<1> QED BY <1>1, <1>2, <1>3, <1>4, <1>5, <1>6, <1>8, SavingKeeps

LEMMA LoginKeeps ==
    ASSUME IdentityInv, NEW pw \in Passwords, SubmitLogin(pw)
    PROVE  IdentityInv'
<1>1. /\ at = "dialog" /\ mode = "login" /\ checked["ui"] = None /\ held["ui"] = None
      /\ UNCHANGED <<mode, offered, checked, held, issued, device, answering, letIn>>
  BY DEF SubmitLogin, Ready, steps, pairing
<1>2. mem \in Record /\ letIn \in BOOLEAN /\ StepsShrink
  BY <1>1, StepsStay DEF IdentityInv, EntryTypes, ProfileTypes
<1>3. CASE at' = "in" /\ UNCHANGED <<mem, disk>>
  <2>1. UNCHANGED <<mem, file, saving, owner, disturbed>>
    BY <1>3 DEF disk
  <2>2. EntryTypes'
    BY <1>1, <1>2, <1>3 DEF IdentityInv, EntryTypes
  <2> QED
    BY <1>1, <1>2, <1>3, <2>1, <2>2, ReadingKeeps DEF IdentityInv, ProfileTypes, TrustBacked
<1>4. CASE mem' = [mem EXCEPT !.kind = "pbkdf2"] /\ SaveStart("ui", mem') /\ at' = "entering"
  <2>1. PICK record \in Record : record = [mem EXCEPT !.kind = "pbkdf2"]
    BY <1>2 DEF Record, Kinds
  <2>2. record.id = mem.id /\ record.trust = mem.trust
    BY <1>2, <2>1 DEF Record
  <2>3. (record.trust = "trusted" => letIn)
        /\ (~disturbed /\ ~Busy => owner # None /\ record.id = owner)
    BY <1>2, <2>2, Distinct DEF IdentityInv, TrustBacked, Backed, OneId, SavesApart
  <2>4. mem' = record /\ SaveStart("ui", record)
    BY <1>4, <2>1
  <2>5. EntryTypes' /\ "ui" \in Writers
    BY <1>1, <1>4, <2>4 DEF IdentityInv, EntryTypes, Writers
  <2> QED BY <1>1, <1>2, <1>4, <2>3, <2>4, <2>5, SavingKeeps
<1> QED BY <1>3, <1>4 DEF SubmitLogin

LEMMA AuthLoginKeeps ==
    ASSUME IdentityInv, NEW pw \in Passwords, AuthLogin(pw)
    PROVE  IdentityInv'
<1>1. /\ Loads /\ disturbed' = (disturbed \/ Busy)
      /\ UNCHANGED <<file, saving, owner, mem, at, mode, offered, checked, device, answering, letIn>>
  BY DEF AuthLogin, Reading, session, pairing
<1>2. \/ issued' = issued \cup {file.id} /\ UNCHANGED held
      \/ held' = [held EXCEPT !["control"] = [file EXCEPT !.kind = "pbkdf2"]] /\ UNCHANGED issued
  BY DEF AuthLogin
<1>3. /\ file \in Record /\ file.id \in Ids /\ issued \subseteq Ids
      /\ held \in [Initialisers -> Record \cup {None}]
  BY <1>1 DEF Loads, IdentityInv, ProfileTypes, Record
<1>4. /\ held' \in [Initialisers -> Record \cup {None}] /\ held'["ui"] = held["ui"]
      /\ \A v \in Initialisers :
            \/ held'[v] \in {held[v], None}
            \/ file \in Record /\ held'[v].id = file.id /\ held'[v].trust = file.trust
  <2>1. CASE UNCHANGED held
    BY <1>3, <2>1
  <2>2. CASE held' = [held EXCEPT !["control"] = [file EXCEPT !.kind = "pbkdf2"]]
    <3>1. PICK record \in Record : record = [file EXCEPT !.kind = "pbkdf2"]
      BY <1>3 DEF Record, Kinds
    <3>2. record.id = file.id /\ record.trust = file.trust
      BY <1>3, <3>1 DEF Record
    <3>3. held' = [held EXCEPT !["control"] = record]
      BY <2>2, <3>1
    <3> QED BY <1>3, <3>2, <3>3 DEF Initialisers
  <2> QED BY <1>2, <2>1, <2>2
<1>5. /\ EntryTypes' /\ disturbed' \in BOOLEAN /\ (disturbed => disturbed')
      /\ issued' \subseteq Ids
  BY <1>1, <1>2, <1>3, <1>4 DEF IdentityInv, EntryTypes, ProfileTypes, Busy
<1> QED
  BY <1>1, <1>4, <1>5, ReadingKeeps DEF IdentityInv, ProfileTypes, TrustBacked

-----------------------------------------------------------------------------
(* Entering. *)

LEMMA DialogKeeps ==
    ASSUME IdentityInv, NEW asked \in Ids \cup {None}, OpenDialog(asked)
    PROVE  IdentityInv'
<1>1. /\ at = "off" /\ at' = "dialog" /\ disturbed' = (disturbed \/ Busy)
      /\ UNCHANGED <<file, saving, owner, checked, held, issued, device, answering, letIn>>
  BY DEF OpenDialog, Reading, steps, pairing
<1>2. \/ Loads /\ mem' = file /\ offered' = file.id
      \/ ~Loads /\ mem' = None /\ mode' = "initialize" /\ offered' \in Ids
  BY DEF OpenDialog
<1>3. Loads => file \in Record
  BY DEF Loads, IdentityInv, ProfileTypes
<1>4. EntryTypes'
  BY <1>1, <1>2, <1>3 DEF IdentityInv, EntryTypes, Record
<1>5. disturbed' \in BOOLEAN /\ (disturbed => disturbed')
  BY <1>1 DEF IdentityInv, ProfileTypes, Busy
<1> QED
  BY <1>1, <1>2, <1>3, <1>4, <1>5, ReadingKeeps DEF IdentityInv, ProfileTypes, TrustBacked

LEMMA EnterKeeps ==
    ASSUME IdentityInv, NEW id \in Ids, EnterByTicket(id)
    PROVE  IdentityInv'
<1>1. /\ at = "off" /\ disturbed' = (disturbed \/ Busy)
      /\ UNCHANGED <<file, saving, owner, mode, offered, checked, held, issued, device, answering, letIn>>
  BY DEF EnterByTicket, Reading, steps, pairing
<1>2. (Loads /\ mem' = file /\ at' = "in") \/ UNCHANGED <<mem, at>>
  BY DEF EnterByTicket
<1>3. Loads => file \in Record
  BY DEF Loads, IdentityInv, ProfileTypes
<1>4. EntryTypes' /\ disturbed' \in BOOLEAN /\ (disturbed => disturbed')
  BY <1>1, <1>2, <1>3 DEF IdentityInv, EntryTypes, ProfileTypes, Busy
<1> QED
  BY <1>1, <1>2, <1>3, <1>4, ReadingKeeps DEF IdentityInv, ProfileTypes, TrustBacked

-----------------------------------------------------------------------------
(* The session. *)

LEMMA ChangeKeeps ==
    ASSUME IdentityInv, NEW w \in {"ui", "net"}, NEW trust \in Trust, ChangeContact(w, trust)
    PROVE  IdentityInv'
<1>1. /\ at = "in" /\ mem' = [mem EXCEPT !.trust = trust] /\ SaveStart(w, mem')
      /\ letIn' = (letIn \/ trust = "trusted")
      /\ UNCHANGED <<at, mode, offered, checked, held, issued, device, answering>>
  BY DEF ChangeContact, steps, pairing
<1>2. mem \in Record /\ letIn \in BOOLEAN /\ w \in Writers /\ StepsShrink
  BY <1>1, StepsStay DEF IdentityInv, EntryTypes, ProfileTypes, Writers
<1>3. PICK record \in Record : record = [mem EXCEPT !.trust = trust]
  BY <1>2 DEF Record
<1>4. record.id = mem.id /\ record.trust = trust
  BY <1>2, <1>3 DEF Record
<1>5. /\ record.trust = "trusted" => letIn'
      /\ ~disturbed /\ ~Busy => owner # None /\ record.id = owner
  BY <1>1, <1>2, <1>4, Distinct DEF IdentityInv, OneId, SavesApart
<1>6. mem' = record /\ SaveStart(w, record)
  BY <1>1, <1>3
<1>7. EntryTypes'
  BY <1>1, <1>6 DEF IdentityInv, EntryTypes
<1>8. at' \in {"off", "dialog", "entering", "in"} /\ (letIn => letIn') /\ letIn' \in BOOLEAN
  BY <1>1, <1>2
<1> QED BY <1>1, <1>2, <1>5, <1>6, <1>7, <1>8, SavingKeeps

LEMMA CheckKeeps ==
    ASSUME IdentityInv, CheckTrust
    PROVE  IdentityInv'
<1>1. at = "in" /\ UNCHANGED <<at, mode, offered, checked, held, issued, answering, letIn>>
  BY DEF CheckTrust, steps
<1>2. mem \in Record /\ letIn \in BOOLEAN /\ StepsShrink
  BY <1>1, StepsStay DEF IdentityInv, EntryTypes, ProfileTypes
<1>3. CASE device = "trusted"
  <2>1. mem' = [mem EXCEPT !.trust = "trusted"] /\ SaveStart("net", mem') /\ UNCHANGED device
    BY <1>3 DEF CheckTrust
  <2>2. PICK record \in Record : record = [mem EXCEPT !.trust = "trusted"]
    BY <1>2 DEF Record, Trust
  <2>3. record.id = mem.id
    BY <1>2, <2>2 DEF Record
  <2>4. letIn /\ (~disturbed /\ ~Busy => owner # None /\ record.id = owner)
    BY <1>2, <1>3, <2>3, Distinct DEF IdentityInv, TrustBacked, OneId, SavesApart
  <2>5. mem' = record /\ SaveStart("net", record) /\ "net" \in Writers
    BY <2>1, <2>2 DEF Writers
  <2>6. EntryTypes'
    BY <1>1, <2>5 DEF IdentityInv, EntryTypes
  <2> QED BY <1>1, <1>2, <2>1, <2>4, <2>5, <2>6, SavingKeeps
<1>4. CASE device # "trusted"
  <2>1. UNCHANGED <<mem, file, saving, owner, disturbed>> /\ device' \in {device, "unknown"}
    BY <1>4 DEF CheckTrust, SaveDevice, NewDevice, disk
  <2>2. EntryTypes'
    BY <1>1, <2>1 DEF IdentityInv, EntryTypes
  <2> QED
    BY <1>1, <1>2, <1>4, <2>1, <2>2, ReadingKeeps DEF IdentityInv, ProfileTypes, TrustBacked
<1> QED BY <1>3, <1>4

LEMMA AnswerKeeps ==
    ASSUME IdentityInv, NEW reply \in {"trusted", "rejected", "cancelled"}, Answer(reply)
    PROVE  IdentityInv'
<1>1. /\ at = "in" /\ answering' = IF reply = "cancelled" THEN "no" ELSE reply
      /\ device' = DeviceAfter(reply) /\ letIn' = (letIn \/ reply = "trusted")
      /\ UNCHANGED <<file, saving, owner, disturbed, mem, at, mode, offered, checked, held, issued>>
  BY DEF Answer, disk, session, steps
<1>2. /\ device' \in {device, "trusted", "blocked"}
      /\ device' = "trusted" => device = "trusted" \/ reply = "trusted"
  BY <1>1 DEF DeviceAfter
<1>3. EntryTypes'
  BY <1>1 DEF IdentityInv, EntryTypes
<1> QED
  BY <1>1, <1>2, <1>3, ReadingKeeps DEF IdentityInv, ProfileTypes, TrustBacked

LEMMA AnswerContactKeeps ==
    ASSUME IdentityInv, AnswerContact
    PROVE  IdentityInv'
<1>1. /\ answering # "no" /\ answering' = "no" /\ mem' = [mem EXCEPT !.trust = answering]
      /\ UNCHANGED <<at, mode, offered, checked, held, issued, device, letIn>>
  BY DEF AnswerContact, steps
<1>2. /\ at = "in" /\ mem \in Record /\ letIn \in BOOLEAN /\ answering \in {"trusted", "rejected"}
      /\ StepsShrink
  BY <1>1, StepsStay DEF IdentityInv, EntryTypes, ProfileTypes
<1>3. PICK record \in Record : record = [mem EXCEPT !.trust = answering]
  BY <1>2 DEF Record, Trust
<1>4. record.id = mem.id /\ record.trust = answering /\ mem' = record
  BY <1>1, <1>2, <1>3 DEF Record
<1>5. /\ record.trust = "trusted" => letIn
      /\ ~disturbed => owner # None /\ record.id = owner
  BY <1>2, <1>4, Distinct DEF IdentityInv, TrustBacked, OneId, SavesApart
<1>6. EntryTypes'
  BY <1>1, <1>2, <1>4 DEF IdentityInv, EntryTypes
<1>7. CASE SaveStart("ui", mem')
  <2>1. SaveStart("ui", record) /\ "ui" \in Writers
    BY <1>4, <1>7 DEF Writers
  <2> QED BY <1>1, <1>2, <1>4, <1>5, <1>6, <2>1, SavingKeeps
<1>8. CASE UNCHANGED disk
  <2>1. UNCHANGED <<file, saving, owner, disturbed>>
    BY <1>8 DEF disk
  <2>2. ProfileTypes'
    BY <1>1, <1>4, <2>1 DEF IdentityInv, ProfileTypes
  <2>3. TrustBacked'
    BY <1>1, <1>4, <1>5, <2>1 DEF IdentityInv, TrustBacked, Backed
  <2>4. ~disturbed' => SavesApart' /\ OneId'
    <3> SUFFICES ASSUME ~disturbed' PROVE SavesApart' /\ OneId'
      OBVIOUS
    <3>1. SavesApart /\ OneId /\ owner # None
      BY <1>2, <2>1, Distinct DEF IdentityInv, SavesApart
    <3>2. SavesApart'
      BY <1>1, <2>1, <3>1 DEF SavesApart, Busy
    <3>3. OneId'
      BY <1>1, <1>4, <1>5, <2>1, <3>1 DEF OneId
    <3> QED BY <3>2, <3>3
  <2> QED BY <1>6, <2>2, <2>3, <2>4 DEF IdentityInv
<1> QED BY <1>7, <1>8 DEF AnswerContact

LEMMA LeaveKeeps ==
    ASSUME IdentityInv, Leave
    PROVE  IdentityInv'
<1>1. /\ mem' = None /\ at' = "off" /\ answering' = "no"
      /\ saving' = [saving EXCEPT !["ui"] = None, !["net"] = None]
      /\ checked' = [checked EXCEPT !["ui"] = None] /\ held' = [held EXCEPT !["ui"] = None]
      /\ disturbed' = (disturbed \/ saving["ui"] # None \/ saving["net"] # None)
      /\ UNCHANGED <<file, mode, offered, issued, device, owner, letIn>>
  BY DEF Leave
<1>2. /\ saving \in [Writers -> Record \cup {None}]
      /\ checked \in [Initialisers -> Checks \cup {None}]
      /\ held \in [Initialisers -> Record \cup {None}]
  BY DEF IdentityInv, ProfileTypes
<1>3. /\ saving' \in [Writers -> Record \cup {None}]
      /\ \A w \in Writers : saving'[w] \in {saving[w], None}
  BY <1>1, <1>2
<1>4. StepsShrink /\ checked'["ui"] = None /\ held'["ui"] = None
  BY <1>1, <1>2 DEF StepsShrink, Initialisers
<1>5. ProfileTypes' /\ EntryTypes'
  BY <1>1, <1>3, <1>4 DEF IdentityInv, ProfileTypes, EntryTypes, StepsShrink
<1>6. TrustBacked'
  <2>1. \A v \in Initialisers : Backed(held[v])'
    BY <1>1, <1>4, Distinct DEF IdentityInv, TrustBacked, Backed, StepsShrink
  <2> QED BY <1>1, <1>3, <2>1, Distinct DEF IdentityInv, TrustBacked, Backed
<1>7. ~disturbed' => SavesApart' /\ OneId'
  <2> SUFFICES ASSUME ~disturbed' PROVE SavesApart' /\ OneId'
    OBVIOUS
  <2>1. SavesApart /\ OneId
    BY <1>1 DEF IdentityInv
  <2>2. \A w \in Writers : saving'[w] = saving[w]
    BY <1>1, <1>2 DEF Writers
  <2>3. SavesApart'
    BY <1>1, <1>4, <2>1, <2>2 DEF SavesApart, Busy, StepsShrink
  <2>4. OneId'
    BY <1>1, <1>4, <2>1, <2>2, Distinct DEF OneId, StepsShrink
  <2> QED BY <2>3, <2>4
<1> QED BY <1>5, <1>6, <1>7 DEF IdentityInv

LEMMA IdentityStep == IdentityInv /\ [ProfileNext]_profileVars => IdentityInv'
<1> SUFFICES ASSUME IdentityInv, [ProfileNext]_profileVars PROVE IdentityInv'
  OBVIOUS
<1>1. CASE UNCHANGED profileVars
  <2>1. UNCHANGED <<file, mem, at, mode, offered, checked, held, saving, issued, device, answering,
                    owner, disturbed, letIn>>
    BY <1>1 DEF profileVars
  <2>2. EntryTypes'
    BY <2>1 DEF IdentityInv, EntryTypes
  <2> QED
    BY <2>1, <2>2, ReadingKeeps DEF IdentityInv, ProfileTypes, TrustBacked
<1>2. CASE \E w \in Writers : SaveEnd(w)
  BY <1>2, SaveEndKeeps
<1>3. CASE \E id \in Ids \cup {None} : OpenDialog(id)
  BY <1>3, DialogKeeps
<1>4. CASE \E pw \in Passwords : \/ SubmitLogin(pw) \/ AuthLogin(pw)
                                 \/ \E w \in Initialisers, id \in Ids : InitializeIdentity(w, id, pw)
  BY <1>4, InitializeKeeps, LoginKeeps, AuthLoginKeeps
<1>5. CASE \E w \in Initialisers : LoadStored(w) \/ SaveIdentity(w)
  BY <1>5, LoadKeeps, SaveIdentityKeeps
<1>6. CASE \E id \in Ids : EnterByTicket(id)
  BY <1>6, EnterKeeps
<1>7. CASE CheckTrust \/ AnswerContact \/ Leave
  BY <1>7, CheckKeeps, AnswerContactKeeps, LeaveKeeps
<1>8. CASE \E w \in {"ui", "net"}, trust \in Trust : ChangeContact(w, trust)
  BY <1>8, ChangeKeeps
<1>9. CASE \E reply \in {"trusted", "rejected", "cancelled"} : Answer(reply)
  BY <1>9, AnswerKeeps
<1> QED BY <1>1, <1>2, <1>3, <1>4, <1>5, <1>6, <1>7, <1>8, <1>9 DEF ProfileNext

LEMMA IdentityAlways == ProfileSpec => []IdentityInv
BY ProfileStart, IdentityStep, PTL DEF ProfileSpec

\* The user id of a profile never changes, whichever of the login dialog and
\* the control commands initialises it with whichever id and whatever happens
\* between the check of the stored id and the save, while no save of
\* identity.json is disturbed (initialize_identity, _save_config).
THEOREM ProfileIdFixed == ProfileSpec => []IdentityFixed
<1>1. IdentityInv => IdentityFixed
  <2> SUFFICES ASSUME IdentityInv, ~disturbed,
                      NEW r \in {file, mem} \cup {saving[w] : w \in Writers}
                                            \cup {held[w] : w \in Initialisers},
                      r \notin {NoFile, Corrupt, None}
               PROVE  r.id = owner
    BY DEF IdentityFixed
  <2>1. OneId /\ ProfileTypes
    BY DEF IdentityInv
  <2> QED BY <2>1 DEF OneId, ProfileTypes
<1> QED BY <1>1, IdentityAlways, PTL

\* check_contact_trust answers "trusted" only of a contact the user let in, over
\* crashes between the device's row and the contact's.
THEOREM TrustNeedsConsent == ProfileSpec => []PairingByConsent
<1>1. IdentityInv => PairingByConsent
  <2> SUFFICES ASSUME IdentityInv, at = "in", CheckResult = "trusted" PROVE letIn
    BY DEF PairingByConsent
  <2>1. mem \in Record /\ Backed(mem) /\ (device = "trusted" => letIn)
    BY DEF IdentityInv, EntryTypes, TrustBacked
  <2>2. mem.trust = "trusted" \/ device = "trusted"
    BY DEF CheckResult
  <2> QED BY <2>1, <2>2 DEF Backed
<1> QED BY <1>1, IdentityAlways, PTL

\* The profile's state has its types, over saves that meet and clients that die.
THEOREM ProfileTypeCorrect == ProfileSpec => []ProfileTypeOK
<1>1. IdentityInv => ProfileTypeOK
  <2> SUFFICES ASSUME IdentityInv PROVE ProfileTypeOK
    OBVIOUS
  <2>1. at \in {"entering", "in"} => mem # None
    BY Distinct DEF IdentityInv, EntryTypes
  <2> QED BY <2>1 DEF IdentityInv, ProfileTypes, ProfileTypeOK
<1> QED BY <1>1, IdentityAlways, PTL

-----------------------------------------------------------------------------
(* The launch tickets, for any number of clients that redeem any number of     *)
(* tickets at the same time.                                                   *)

\* A client that has read the ticket's file and not yet opened its session.
Redeeming(c, t) == phase[c] \in {"read", "writing", "written"} /\ given[c] = t

\* A ticket no two clients had read together is redeemed by one client at a time;
\* once that client has truncated its file nobody can redeem it again.
TicketOk(t) ==
    /\ \A c, d \in Clients : Redeeming(c, t) /\ Redeeming(d, t) => c = d
    /\ \A c \in Clients :
          Redeeming(c, t) => /\ opened[t] = 0
                             /\ phase[c] = "read" => ticket[t] # "none"
                             /\ phase[c] # "read" => ticket[t] \in {"torn", "consumed"}
    /\ opened[t] <= 1
    /\ opened[t] = 1 => ticket[t] \in {"torn", "consumed"}

TicketsInv ==
    /\ TicketsTypeOK
    /\ opened \in [Tickets -> Nat]
    /\ \A t \in Tickets \ contended : TicketOk(t)

LEMMA TicketsStart == TicketsInit => TicketsInv
BY DEF TicketsInit, TicketsInv, TicketsTypeOK, TicketOk, Redeeming

\* What a step leaves to show: the tickets that are still uncontended keep TicketOk.
LEMMA TicketReadKeeps ==
    ASSUME TicketsInv, NEW c \in Clients, NEW t \in Tickets, ReadTicket(c, t)
    PROVE  TicketsInv'
<1>1. /\ phase[c] = "off" /\ ticket[t] = "issued"
      /\ UNCHANGED <<ticket, expired, opened>>
      /\ phase' = [phase EXCEPT ![c] = "read"] /\ given' = [given EXCEPT ![c] = t]
      /\ contended \subseteq contended' /\ contended' \subseteq contended \cup {t}
      /\ (\E d \in Clients : phase[d] = "read" /\ given[d] = t) => t \in contended'
  BY DEF ReadTicket, Redeemable
<1>2. /\ \A d \in Clients \ {c} : phase'[d] = phase[d] /\ given'[d] = given[d]
      /\ phase'[c] = "read" /\ given'[c] = t
  BY <1>1 DEF TicketsInv, TicketsTypeOK
<1>3. TicketsTypeOK'
  BY <1>1, <1>2 DEF TicketsInv, TicketsTypeOK
<1>4. ASSUME NEW u \in Tickets, u \notin contended' PROVE TicketOk(u)'
  <2>1. TicketOk(u) /\ (u = t => \A d \in Clients : phase[d] = "read" => given[d] # t)
    BY <1>1, <1>4 DEF TicketsInv
  <2>2. CASE u = t
    <3>1. \A d \in Clients : ~Redeeming(d, t)
      BY <1>1, <2>1, <2>2 DEF TicketOk, Redeeming
    <3>2. opened[t] = 0
      BY <1>1, <2>1, <2>2 DEF TicketOk, TicketsInv
    <3>3. \A d \in Clients : Redeeming(d, t)' => d = c
      BY <1>2, <3>1 DEF Redeeming
    <3> QED BY <1>1, <1>2, <2>2, <3>2, <3>3 DEF TicketOk, Redeeming
  <2>3. CASE u # t
    <3>1. \A d \in Clients : Redeeming(d, u)' => Redeeming(d, u) /\ phase'[d] = phase[d]
      BY <1>2, <2>3 DEF Redeeming
    <3> QED BY <1>1, <2>1, <3>1 DEF TicketOk
  <2> QED BY <2>2, <2>3
<1> QED BY <1>1, <1>3, <1>4 DEF TicketsInv

LEMMA IssueKeeps ==
    ASSUME TicketsInv, NEW t \in Tickets, IssueTicket(t) \/ ExpireTicket(t)
    PROVE  TicketsInv'
<1>1. /\ UNCHANGED <<phase, given, opened, contended>> /\ expired' \subseteq Tickets
      /\ \/ ticket' = ticket
         \/ ticket[t] = "none" /\ ticket' = [ticket EXCEPT ![t] = "issued"]
  BY DEF IssueTicket, ExpireTicket, TicketsInv, TicketsTypeOK
<1>2. /\ ticket' \in [Tickets -> {"none", "issued", "torn", "consumed"}]
      /\ \A u \in Tickets : ticket'[u] = ticket[u] \/ (ticket[u] = "none" /\ ticket'[u] = "issued")
  BY <1>1 DEF TicketsInv, TicketsTypeOK
<1>3. ASSUME NEW u \in Tickets, u \notin contended PROVE TicketOk(u)'
  <2>1. TicketOk(u)
    BY <1>3 DEF TicketsInv
  <2> QED BY <1>1, <1>2, <2>1 DEF TicketOk, Redeeming
<1> QED BY <1>1, <1>2, <1>3 DEF TicketsInv, TicketsTypeOK

\* A client goes on: it holds its ticket alone, if the ticket is uncontended.
LEMMA RedeemKeeps ==
    ASSUME TicketsInv, NEW c \in Clients, TruncateTicket(c) \/ WriteTicket(c)
    PROVE  TicketsInv'
<1>1. /\ phase[c] \in {"read", "writing"} /\ UNCHANGED <<expired, given, opened, contended>>
      /\ \E p \in {"writing", "written"} : phase' = [phase EXCEPT ![c] = p]
      /\ \E content \in {"torn", "consumed"} : ticket' = [ticket EXCEPT ![given[c]] = content]
  BY DEF TruncateTicket, WriteTicket
<1>2. /\ given[c] \in Tickets /\ Redeeming(c, given[c])
      /\ phase'[c] \in {"writing", "written"} /\ \A d \in Clients \ {c} : phase'[d] = phase[d]
      /\ ticket'[given[c]] \in {"torn", "consumed"}
      /\ \A u \in Tickets \ {given[c]} : ticket'[u] = ticket[u]
      /\ ticket' \in [Tickets -> {"none", "issued", "torn", "consumed"}]
      /\ phase' \in [Clients -> {"off", "read", "writing", "written", "in"}]
  BY <1>1 DEF TicketsInv, TicketsTypeOK, Redeeming
<1>3. ASSUME NEW u \in Tickets, u \notin contended PROVE TicketOk(u)'
  <2>1. TicketOk(u)
    BY <1>3 DEF TicketsInv
  <2>2. \A d \in Clients : Redeeming(d, u)' => Redeeming(d, u)
    BY <1>1, <1>2 DEF Redeeming
  <2>3. CASE u = given[c]
    BY <1>1, <1>2, <2>1, <2>2, <2>3 DEF TicketOk
  <2>4. CASE u # given[c]
    <3>1. \A d \in Clients : Redeeming(d, u)' => phase'[d] = phase[d]
      BY <1>1, <1>2, <2>4 DEF Redeeming
    <3> QED BY <1>1, <1>2, <2>1, <2>2, <2>4, <3>1 DEF TicketOk
  <2> QED BY <2>3, <2>4
<1>4. TicketsTypeOK'
  BY <1>1, <1>2 DEF TicketsInv, TicketsTypeOK
<1> QED BY <1>1, <1>3, <1>4 DEF TicketsInv

LEMMA OpenKeeps ==
    ASSUME TicketsInv, NEW c \in Clients, OpenSession(c)
    PROVE  TicketsInv'
<1>1. /\ phase[c] = "written" /\ phase' = [phase EXCEPT ![c] = "in"]
      /\ opened' = [opened EXCEPT ![given[c]] = @ + 1]
      /\ UNCHANGED <<ticket, expired, given, contended>>
  BY DEF OpenSession
<1>2. /\ given[c] \in Tickets /\ Redeeming(c, given[c])
      /\ phase'[c] = "in" /\ \A d \in Clients \ {c} : phase'[d] = phase[d]
      /\ phase' \in [Clients -> {"off", "read", "writing", "written", "in"}]
      /\ opened' \in [Tickets -> Nat] /\ opened'[given[c]] = opened[given[c]] + 1
      /\ \A u \in Tickets \ {given[c]} : opened'[u] = opened[u]
  BY <1>1 DEF TicketsInv, TicketsTypeOK, Redeeming
<1>3. ASSUME NEW u \in Tickets, u \notin contended PROVE TicketOk(u)'
  <2>1. TicketOk(u)
    BY <1>3 DEF TicketsInv
  <2>2. \A d \in Clients : Redeeming(d, u)' => Redeeming(d, u) /\ phase'[d] = phase[d] /\ d # c
    BY <1>1, <1>2 DEF Redeeming
  <2>3. CASE u = given[c]
    <3>1. /\ opened'[u] = 1 /\ ticket'[u] \in {"torn", "consumed"}
          /\ \A d \in Clients : ~Redeeming(d, u)'
      BY <1>1, <1>2, <2>1, <2>2, <2>3 DEF TicketOk
    <3> QED BY <3>1 DEF TicketOk
  <2>4. CASE u # given[c]
    BY <1>1, <1>2, <2>1, <2>2, <2>4 DEF TicketOk
  <2> QED BY <2>3, <2>4
<1>4. TicketsTypeOK'
  BY <1>1, <1>2 DEF TicketsInv, TicketsTypeOK
<1> QED BY <1>1, <1>2, <1>3, <1>4 DEF TicketsInv

LEMMA EndKeeps ==
    ASSUME TicketsInv, NEW c \in Clients, EndClient(c)
    PROVE  TicketsInv'
<1>1. /\ phase' = [phase EXCEPT ![c] = "off"] /\ given' = [given EXCEPT ![c] = NoTicket]
      /\ UNCHANGED <<ticket, expired, opened, contended>>
  BY DEF EndClient
<1>2. /\ phase'[c] = "off" /\ \A d \in Clients \ {c} : phase'[d] = phase[d] /\ given'[d] = given[d]
      /\ phase' \in [Clients -> {"off", "read", "writing", "written", "in"}]
      /\ given' \in [Clients -> Tickets \cup {NoTicket}]
  BY <1>1 DEF TicketsInv, TicketsTypeOK
<1>3. ASSUME NEW u \in Tickets, u \notin contended PROVE TicketOk(u)'
  <2>1. TicketOk(u) /\ \A d \in Clients : Redeeming(d, u)' => Redeeming(d, u) /\ phase'[d] = phase[d]
    BY <1>2, <1>3 DEF TicketsInv, Redeeming
  <2> QED BY <1>1, <2>1 DEF TicketOk
<1>4. TicketsTypeOK'
  BY <1>1, <1>2 DEF TicketsInv, TicketsTypeOK
<1> QED BY <1>1, <1>3, <1>4 DEF TicketsInv

LEMMA TicketsStep == TicketsInv /\ [TicketsNext]_ticketVars => TicketsInv'
<1> SUFFICES ASSUME TicketsInv, [TicketsNext]_ticketVars PROVE TicketsInv'
  OBVIOUS
<1>1. CASE UNCHANGED ticketVars
  BY <1>1 DEF ticketVars, TicketsInv, TicketsTypeOK, TicketOk, Redeeming
<1>2. CASE \E t \in Tickets : IssueTicket(t) \/ ExpireTicket(t)
  BY <1>2, IssueKeeps
<1>3. CASE \E t \in Tickets, c \in Clients : ReadTicket(c, t)
  BY <1>3, TicketReadKeeps
<1>4. CASE \E c \in Clients : TruncateTicket(c) \/ WriteTicket(c) \/ OpenSession(c) \/ EndClient(c)
  BY <1>4, RedeemKeeps, OpenKeeps, EndKeeps
<1> QED BY <1>1, <1>2, <1>3, <1>4 DEF TicketsNext

LEMMA TicketsAlways == TicketsSpec => []TicketsInv
BY TicketsStart, TicketsStep, PTL DEF TicketsSpec

\* A launch ticket opens one session at most, however many clients are started
\* with it and wherever they die, unless two of them read its file before one of
\* them had truncated it (LaunchTicketStore.consume, main).
THEOREM TicketsOpenOnce == TicketsSpec => []TicketOnce
<1>1. TicketsInv => TicketOnce
  BY DEF TicketsInv, TicketOk, TicketOnce
<1> QED BY <1>1, TicketsAlways, PTL

\* A ticket's file and the clients that redeem it have their types.
THEOREM TicketsTypeCorrect == TicketsSpec => []TicketsTypeOK
<1>1. TicketsInv => TicketsTypeOK
  BY DEF TicketsInv
<1> QED BY <1>1, TicketsAlways, PTL

-----------------------------------------------------------------------------
(* The local model, for any questions.                                         *)

LEMMA ModelGoesTyped ==
    ASSUME question \in [Questions -> Steps], NEW q \in Questions, NEW S \in SUBSET Steps, GoesTo(q, S)
    PROVE  question' \in [Questions -> Steps]
BY DEF GoesTo

LEMMA ModelTypesStep == LocalModelTypeOK /\ [LocalModelNext]_localModelVars => LocalModelTypeOK'
<1> SUFFICES ASSUME LocalModelTypeOK, [LocalModelNext]_localModelVars PROVE LocalModelTypeOK'
  OBVIOUS
<1> USE DEF LocalModelTypeOK
<1>1. ASSUME NEW q \in Questions, AskModel(q) \/ EnsureReady(q) \/ Post(q)
      PROVE  question' \in [Questions -> Steps]
  <2>1. \E S \in SUBSET Steps : GoesTo(q, S)
    BY <1>1 DEF AskModel, EnsureReady, LmsAvailable, ServerStatus, StartServer, CheckLoaded,
       ModelExists, LoadModel, WaitLoaded, Post, Steps
  <2> QED BY <2>1, ModelGoesTyped
<1>2. ASSUME NEW q \in Questions, StartServer(q) \/ LoadModel(q)
      PROVE  /\ UNCHANGED retried
             /\ \/ server' = "up" /\ model' \in {model, "loading", "loaded"}
                \/ UNCHANGED <<server, model>>
  BY <1>2 DEF StartServer, LoadModel
<1>3. ASSUME NEW q \in Questions,
             \/ AskModel(q) \/ LmsAvailable(q) \/ ServerStatus(q) \/ CheckLoaded(q)
             \/ ModelExists(q) \/ WaitLoaded(q)
      PROVE  UNCHANGED <<server, model, retried>>
  BY <1>3 DEF AskModel, LmsAvailable, ServerStatus, CheckLoaded, ModelExists, WaitLoaded
<1>4. ASSUME NEW q \in Questions, Post(q)
      PROVE  UNCHANGED <<server, model>> /\ retried' \in [Questions -> BOOLEAN]
  BY <1>4 DEF Post
<1>5. ASSUME NEW q \in Questions, AskModel(q) \/ EnsureReady(q) \/ Post(q) PROVE LocalModelTypeOK'
  BY <1>1, <1>2, <1>3, <1>4, <1>5 DEF EnsureReady
<1>6. CASE LmStudio
  BY <1>6 DEF LmStudio
<1>7. CASE UNCHANGED localModelVars
  BY <1>7 DEF localModelVars
<1> QED BY <1>5, <1>6, <1>7 DEF LocalModelNext

\* The questions and LM Studio have their types; without its server there is no
\* model, however commands that time out still have their effect.
THEOREM ModelTypeCorrect == LocalModelInit /\ [][LocalModelNext]_localModelVars => []LocalModelTypeOK
<1>1. LocalModelInit => LocalModelTypeOK
  BY DEF LocalModelInit, LocalModelTypeOK, Steps
<1> QED BY <1>1, ModelTypesStep, PTL

-----------------------------------------------------------------------------
(* The station.  Its steps are those of one part while the others stay as they *)
(* are, so a behaviour of it is a behaviour of every part.                     *)

LEMMA StationInit ==
    Init => /\ FramesInit /\ TransportInit /\ ProfileInit /\ TicketsInit /\ WorkspaceInit
            /\ AssistantInit /\ HubHostInit /\ LocalModelInit
BY DEF Init

LEMMA StationStep ==
    [Next]_<<component, transportVars, profileVars, ticketVars, workspaceVars, assistantVars,
             localModelVars, hubHostVars, frameVars>>
    => /\ [TransportNext]_transportVars /\ [ProfileNext]_profileVars /\ [TicketsNext]_ticketVars
       /\ [WorkspaceNext]_workspaceVars /\ [AssistantNext]_assistantVars
       /\ [LocalModelNext]_localModelVars /\ [HubHostNext]_hubHostVars /\ [FramesNext]_frameVars
BY DEF Next

LEMMA StationHasItsParts ==
    Spec => /\ TransportSpec /\ ProfileSpec /\ TicketsSpec /\ WorkspaceSpec /\ AssistantSpec
            /\ HostSpec /\ FramesSpec /\ LocalModelInit /\ [][LocalModelNext]_localModelVars
BY StationInit, StationStep, PTL
DEF Spec, TransportSpec, ProfileSpec, TicketsSpec, WorkspaceSpec, AssistantSpec, HostSpec, FramesSpec

\* All parts of the machines keep their types, for every value of the constants.
THEOREM StationTypeCorrect == Spec => []TypeOK
<1>1. TransportTypeOK /\ ProfileTypeOK /\ TicketsTypeOK /\ WorkspaceTypeOK /\ AssistantTypeOK
      /\ LocalModelTypeOK /\ HubHostTypeOK /\ FramesTypeOK => TypeOK
  BY DEF TypeOK
<1> QED
  BY <1>1, StationHasItsParts, TransportTypeCorrect, ProfileTypeCorrect, TicketsTypeCorrect, RowsAreUnique,
     AssistantTypeCorrect, ModelTypeCorrect, HostTypeCorrect, FramesTypeCorrect, PTL
=============================================================================
