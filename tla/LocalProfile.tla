----------------------------- MODULE LocalProfile -----------------------------
(***************************************************************************)
(* One profile on disk and the programs that use it: identity.json and the *)
(* table of trusted devices; the client (login dialog or launch ticket,    *)
(* then a session whose UI and network threads both change contacts) and   *)
(* the launcher's control commands, one at a time.  identity.json is       *)
(* written by truncating and filling it, without a lock, and no program    *)
(* holds one between what it reads and what it saves.  The data is one     *)
(* contact and its device.  LaunchTickets has the tickets' files.          *)
(***************************************************************************)
EXTENDS Naturals

CONSTANTS
    Ids,            \* user ids
    Passwords,
    MaxChanges,     \* bound on contact changes, pairings and control commands
    MaxCrashes,
    Corrupt,        \* identity.json while it is being written, or torn
    NoFile, None

Kinds == {"none", "legacy", "saltless", "pbkdf2"}
Trust == {"absent", "unknown", "pending", "trusted", "rejected"}
Record == [id : Ids, pw : Passwords, kind : Kinds, trust : Trust]

ASSUME LocalProfileAssumption ==
    /\ MaxChanges \in Nat /\ MaxCrashes \in Nat
    /\ Ids # {} /\ Passwords # {} /\ Corrupt # NoFile
    /\ {Corrupt, NoFile, None} \cap (Ids \cup Passwords \cup Record) = {}

VARIABLES
    file,       \* identity.json
    mem,        \* the client's current_identity and _contacts, or None
    at,         \* the client: off, dialog, entering, in
    mode,       \* of the dialog: initialize or login
    offered,    \* the id the dialog shows
    checked,    \* [Initialisers -> None or the [id, pw, found] it goes on with]
    held,       \* [Initialisers -> None or the record it is about to save]
    saving,     \* [Writers -> None or what the writer is writing]
    issued,     \* ids for which a control command issued a launch ticket
    device,     \* the device's row in device_trust
    request,    \* a pairing request is waiting
    answering,  \* the answer to it that is being carried out
    owner,      \* history: the first id of the profile
    disturbed,  \* history: a save was cut off, or met another save, a reader or
                \* an initialisation that had found no identity
    letIn,      \* history: the user let the contact in
    changes, crashes

profileVars == <<file, mem, at, mode, offered, checked, held, saving, issued, device,
                 request, answering, owner, disturbed, letIn, changes, crashes>>
pairing == <<device, request, answering>>
session == <<mem, at, mode, offered>>
disk == <<file, saving, owner, disturbed>>
steps == <<checked, held>>
bounds == <<changes, crashes>>

Writers == {"ui", "net", "control"}
Initialisers == {"ui", "control"}
Loads == file \notin {NoFile, Corrupt}
Busy == \E w \in Writers : saving[w] # None
Ready(w) == checked[w] = None /\ held[w] = None /\ saving[w] = None

\* A directory that is new, or has an identity of some earlier version.
ProfileInit ==
    /\ file \in {NoFile} \cup
          {[id |-> CHOOSE i \in Ids : TRUE, pw |-> CHOOSE p \in Passwords : TRUE,
            kind |-> k, trust |-> "unknown"] : k \in Kinds}
    /\ owner = IF file = NoFile THEN None ELSE file.id
    /\ mem = None /\ at = "off" /\ mode = "login" /\ offered = None
    /\ checked = [w \in Initialisers |-> None] /\ held = [w \in Initialisers |-> None]
    /\ saving = [w \in Writers |-> None] /\ issued = {}
    /\ device = "none" /\ request = FALSE /\ answering = "no"
    /\ disturbed = FALSE /\ letIn = FALSE /\ changes = 0 /\ crashes = 0

-----------------------------------------------------------------------------
(* identity.json: _save_config and the readers. *)

\* open(..., 'w') truncates: until the dump is written there is nothing to load.
SaveStart(w, record) ==
    /\ saving[w] = None
    /\ saving' = [saving EXCEPT ![w] = record]
    /\ file' = Corrupt
    /\ owner' = IF owner = None THEN record.id ELSE owner
    /\ disturbed' = \/ disturbed \/ Busy
                     \/ \E v \in Initialisers \ {w} : checked[v] # None /\ ~checked[v].found

\* Two dumps into one file may leave a mixture.  A dialog that waited for the
\* save goes on; a control command issues its ticket.
SaveEnd(w) ==
    /\ saving[w] # None
    /\ saving' = [saving EXCEPT ![w] = None]
    /\ file' \in {saving[w]} \cup IF disturbed THEN {Corrupt} ELSE {}
    /\ at' = IF w = "ui" /\ at = "entering" THEN "in" ELSE at
    /\ issued' = issued \cup IF w = "control" THEN {saving[w].id} ELSE {}
    /\ UNCHANGED <<mem, mode, offered, steps, pairing, owner, disturbed, letIn, bounds>>

\* has_password and verify_password.
Usable(record) == record.kind \in {"legacy", "pbkdf2"}
Verifies(record, pw) == Usable(record) /\ record.pw = pw

Reading == disturbed' = (disturbed \/ Busy)
Change == changes < MaxChanges /\ changes' = changes + 1

-----------------------------------------------------------------------------
(* initialize_identity, of the login dialog and of cmd_auth_init: the stored *)
(* id is checked, the password hashed, the identity loaded again or made     *)
(* anew, and saved, while other programs go on.                              *)

\* Mutant of HasIdentity: an identity without a password counts as none.
HasUsableIdentity == Loads /\ Usable(file)

\* get_stored_identity_summary: there is an identity.
HasIdentity == Loads

\* The id of a profile is fixed: another one is refused.
InitializeIdentity(w, id, pw) ==
    /\ Ready(w)
    /\ IF w = "ui" THEN at = "dialog" /\ mode = "initialize" /\ id = offered /\ UNCHANGED changes
       ELSE Change
    /\ HasIdentity => file.id = id
    /\ checked' = [checked EXCEPT ![w] = [id |-> id, pw |-> pw, found |-> HasIdentity]]
    /\ Reading
    /\ UNCHANGED <<file, saving, owner, session, held, issued, pairing, letIn, crashes>>

\* With the hash: the identity that was found is loaded; it may be unreadable or
\* another one by now, and then nothing is saved.
LoadStored(w) ==
    /\ checked[w] # None /\ checked[w].found
    /\ checked' = [checked EXCEPT ![w] = None]
    /\ IF Loads /\ file.id = checked[w].id
       THEN held' = [held EXCEPT ![w] = [file EXCEPT !.pw = checked[w].pw, !.kind = "pbkdf2"]]
       ELSE UNCHANGED held
    /\ mem' = IF w = "ui" /\ Loads THEN file ELSE mem
    /\ Reading
    /\ UNCHANGED <<file, saving, owner, at, mode, offered, issued, pairing, letIn, bounds>>

\* What it saves: the identity it loaded, or a new one if it had found none,
\* whatever is stored by now.
SaveIdentity(w) ==
    /\ \E record \in Record :
          /\ \/ checked[w] = None /\ record = held[w]
             \/ /\ checked[w] # None /\ ~checked[w].found
                /\ record = [id |-> checked[w].id, pw |-> checked[w].pw,
                             kind |-> "pbkdf2", trust |-> "absent"]
          /\ SaveStart(w, record)
          /\ mem' = IF w = "ui" THEN record ELSE mem
    /\ at' = IF w = "ui" THEN "entering" ELSE at
    /\ checked' = [checked EXCEPT ![w] = None] /\ held' = [held EXCEPT ![w] = None]
    /\ UNCHANGED <<mode, offered, issued, pairing, letIn, bounds>>

-----------------------------------------------------------------------------
(* Entering: the login dialog and the launch ticket. *)

\* configure_mode, with the user id asked for, if any.
OpenDialog(asked) ==
    /\ at = "off"
    /\ IF Loads
       THEN /\ asked \in {None, file.id}
            /\ mem' = file /\ offered' = file.id
            /\ mode' = IF Usable(file) THEN "login" ELSE "initialize"
       ELSE /\ mem' = None /\ mode' = "initialize"
            /\ offered' \in IF asked = None THEN Ids ELSE {asked}
    /\ at' = "dialog"
    /\ Reading
    /\ UNCHANGED <<file, saving, owner, steps, issued, pairing, letIn, bounds>>

\* on_submit_clicked in mode login: an old hash is replaced and saved.
SubmitLogin(pw) ==
    /\ at = "dialog" /\ mode = "login" /\ Ready("ui") /\ Verifies(mem, pw)
    /\ IF mem.kind = "pbkdf2" THEN at' = "in" /\ UNCHANGED <<mem, disk>>
       ELSE /\ mem' = [mem EXCEPT !.kind = "pbkdf2"]
            /\ SaveStart("ui", mem') /\ at' = "entering"
    /\ UNCHANGED <<mode, offered, steps, issued, pairing, letIn, bounds>>

\* main, with a ticket issued for an id: the identity must load and have it.
EnterByTicket(id) ==
    /\ at = "off" /\ id \in issued
    /\ IF Loads /\ file.id = id THEN mem' = file /\ at' = "in" ELSE UNCHANGED <<mem, at>>
    /\ Reading
    /\ UNCHANGED <<file, saving, owner, mode, offered, steps, issued, pairing, letIn, bounds>>

-----------------------------------------------------------------------------
(* The launcher's commands, each a process of its own. *)

\* cmd_auth_login: the password of the record it loaded; a ticket, after an old
\* hash is replaced in that record and saved.
AuthLogin(pw) ==
    /\ Change /\ Ready("control")
    /\ Loads /\ Verifies(file, pw)
    /\ IF file.kind = "pbkdf2" THEN issued' = issued \cup {file.id} /\ UNCHANGED held
       ELSE /\ held' = [held EXCEPT !["control"] = [file EXCEPT !.kind = "pbkdf2"]]
            /\ UNCHANGED issued
    /\ Reading
    /\ UNCHANGED <<file, saving, owner, session, checked, pairing, letIn, crashes>>

-----------------------------------------------------------------------------
(* The session. *)

\* add_contact, update_contact_auth_status, remove_contact of the UI thread
\* (set_trust), and of the network thread for a text or the presence.
ChangeContact(w, trust) ==
    /\ at = "in" /\ Change
    /\ trust # mem.trust
    /\ w = "net" => trust = "pending" /\ mem.trust \in {"absent", "unknown"}
    /\ w = "ui" => trust \in {"absent", "trusted", "rejected"} /\ answering = "no"
    /\ mem' = [mem EXCEPT !.trust = trust]
    /\ letIn' = (letIn \/ trust = "trusted")
    /\ SaveStart(w, mem')
    /\ UNCHANGED <<at, mode, offered, steps, issued, pairing, crashes>>

\* What check_contact_trust answers: the contact first, then the device.
CheckResult ==
    CASE mem.trust \in {"trusted", "pending", "rejected"} -> mem.trust
      [] OTHER -> IF device = "trusted" THEN "trusted"
                  ELSE IF device = "blocked" THEN "rejected" ELSE "pending"

\* Mutant of NewDevice: a device seen for the first time is trusted.
NewDeviceTrusted == "trusted"

\* What _create_pairing_request stores of a device it has no row of.
NewDevice == "unknown"

\* save_device_trust of such a device; an earlier row is left as it is.
SaveDevice == device' = IF device = "none" THEN NewDevice ELSE device

\* update_trust_status after an answer.
DeviceAfter(reply) ==
    CASE reply = "trusted" -> "trusted"
      [] reply = "rejected" -> "blocked"
      [] OTHER -> device

\* check_contact_trust: a trusted device brings its contact back, an unknown
\* one makes a request, unless one is waiting already.
CheckTrust ==
    /\ at = "in" /\ mem.trust \in {"absent", "unknown"}
    /\ IF device = "trusted"
       THEN /\ mem.trust = "absent"
            /\ mem' = [mem EXCEPT !.trust = "trusted"] /\ SaveStart("net", mem')
            /\ UNCHANGED <<device, request>>
       ELSE /\ device # "blocked" /\ ~request
            /\ request' = TRUE
            /\ SaveDevice
            /\ UNCHANGED <<mem, disk>>
    /\ UNCHANGED <<at, mode, offered, steps, issued, answering, letIn, bounds>>

\* handle_pairing_response: the device's row is committed first ...
Answer(reply) ==
    /\ at = "in" /\ request /\ answering = "no" /\ Change
    /\ request' = FALSE
    /\ answering' = IF reply = "cancelled" THEN "no" ELSE reply
    /\ device' = DeviceAfter(reply)
    /\ letIn' = (letIn \/ reply = "trusted")
    /\ UNCHANGED <<disk, session, steps, issued, crashes>>

\* ... then the contact: a missing one is added and saved; an existing one is
\* changed before add_contact compares it with itself, so nothing is saved.
AnswerContact ==
    /\ answering # "no" /\ answering' = "no"
    /\ mem' = [mem EXCEPT !.trust = answering]
    /\ IF mem.trust = "absent" THEN SaveStart("ui", mem') ELSE UNCHANGED disk
    /\ UNCHANGED <<at, mode, offered, steps, issued, device, request, letIn, bounds>>

\* The client is closed or dies; a save it was in stays cut off.
Leave ==
    /\ at # "off" /\ crashes < MaxCrashes /\ crashes' = crashes + 1
    /\ mem' = None /\ at' = "off" /\ request' = FALSE /\ answering' = "no"
    /\ saving' = [saving EXCEPT !["ui"] = None, !["net"] = None]
    /\ checked' = [checked EXCEPT !["ui"] = None] /\ held' = [held EXCEPT !["ui"] = None]
    /\ disturbed' = (disturbed \/ saving["ui"] # None \/ saving["net"] # None)
    /\ UNCHANGED <<file, mode, offered, issued, device, owner, letIn, changes>>

ProfileNext ==
    \/ \E w \in Writers : SaveEnd(w)
    \/ \E id \in Ids \cup {None} : OpenDialog(id)
    \/ \E pw \in Passwords :
          \/ SubmitLogin(pw) \/ AuthLogin(pw)
          \/ \E w \in Initialisers, id \in Ids : InitializeIdentity(w, id, pw)
    \/ \E w \in Initialisers : LoadStored(w) \/ SaveIdentity(w)
    \/ \E id \in Ids : EnterByTicket(id)
    \/ CheckTrust \/ AnswerContact \/ Leave
    \/ \E w \in {"ui", "net"}, trust \in Trust : ChangeContact(w, trust)
    \/ \E reply \in {"trusted", "rejected", "cancelled"} : Answer(reply)

ProfileSpec == ProfileInit /\ [][ProfileNext]_profileVars

-----------------------------------------------------------------------------
ProfileTypeOK ==
    /\ file \in Record \cup {NoFile, Corrupt}
    /\ mem \in Record \cup {None}
    /\ at \in {"off", "dialog", "entering", "in"}
    /\ \A w \in Writers : saving[w] \in Record \cup {None}
    /\ device \in {"none", "unknown", "trusted", "blocked"}
    /\ at \in {"entering", "in"} => mem # None

\* IdentityFixed: the user id of a profile never changes ("the system's main
\* identity, fixed for good", local_identity.py:181), whichever program
\* initialises it with whichever id and whatever happens between the check of
\* the stored id and the save, as long as no save of identity.json was cut off,
\* met another save or was read half written, and none was begun while another
\* program had checked, found no identity and was about to save a new one.
IdentityFixed ==
    owner # None /\ ~disturbed =>
        \A r \in {file, mem} \cup {saving[w] : w \in Writers} \cup {held[w] : w \in Initialisers} :
            r \notin {NoFile, Corrupt, None} => r.id = owner

\* PairingByConsent: a contact is never reported as trusted unless the user let
\* the contact in or trusted the device, over crashes between the two writes.
PairingByConsent == at = "in" /\ CheckResult = "trusted" => letIn
=============================================================================
