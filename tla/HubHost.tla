-------------------------------- MODULE HubHost --------------------------------
(***************************************************************************)
(* The machine a Hub runs on: the processes started on one Hub directory,  *)
(* the runtime marker they leave there, the admin commands of the launcher *)
(* that trust it, and the encrypted temporary files clients put on the     *)
(* disk for others to fetch until they expire.                             *)
(***************************************************************************)
EXTENDS Naturals, FiniteSets

CONSTANTS
    Hubs,       \* Hub processes, each started at most once; a process id
    Temps,      \* temporary files
    Machines,   \* what local_machine_id() may return
    MaxLogins,  \* bound on admin logins
    NoMarker

ASSUME HubHostAssumption ==
    /\ MaxLogins \in Nat
    /\ NoMarker \notin Hubs \cup Machines
    /\ NoMarker \notin [hub : Hubs, machine : Machines, status : {"running", "stopped"}]

VARIABLES
    proc,       \* [Hubs -> new, starting, on, stopping, gone]
    marker,     \* hub_runtime.json: NoMarker or [hub, machine, status]
    machine,    \* the id of this machine, as read now
    recycled,   \* ids of dead Hubs the system has given to another process
    admin,      \* an admin password is stored
    token,      \* the last token issued, 0 for none; numbered
    dir,        \* the temp_files directory is there
    part, bin,  \* files being written, and written
    manifest,   \* [Temps -> none, torn, ok]
    old,        \* temporary files past their expires_at
    upload,     \* [Hubs -> the upload that holds the store's lock, and its step]
    sender,     \* [Temps -> what the sending client knows]
    host,       \* history: the machine id a Hub wrote down, while it runs
    overlap,    \* history: two Hubs ran on the directory at once
    destroyed   \* history: the Hub's data was destroyed

temps == <<dir, part, bin, manifest, old>>
ids == <<machine, host>>
hubHostVars == <<proc, marker, ids, recycled, admin, token, temps, upload, sender,
                 overlap, destroyed>>

Serving(h) == proc[h] \in {"on", "stopping"}
NoUpload == [file |-> NoMarker, step |-> "idle"]

HubHostInit ==
    /\ proc = [h \in Hubs |-> "new"] /\ marker = NoMarker /\ recycled = {}
    /\ admin = FALSE /\ token = 0
    /\ dir = TRUE /\ part = {} /\ bin = {} /\ manifest = [f \in Temps |-> "none"] /\ old = {}
    /\ upload = [h \in Hubs |-> NoUpload]
    /\ sender = [f \in Temps |-> "none"]
    /\ machine \in Machines /\ host = [h \in Hubs |-> NoMarker]
    /\ overlap = FALSE /\ destroyed = FALSE

-----------------------------------------------------------------------------
(* HubServer.start and stop, main_async *)

\* The constructor makes the directories; start listens.
StartHub(h) ==
    /\ proc[h] = "new"
    /\ proc' = [proc EXCEPT ![h] = "starting"]
    /\ dir' = TRUE
    /\ overlap' = (overlap \/ \E k \in Hubs : proc[k] \in {"starting", "on", "stopping"})
    /\ UNCHANGED <<marker, ids, recycled, admin, token, part, bin, manifest, old, upload, sender, destroyed>>

\* cleanup_expired: an unreadable manifest goes, its ciphertext stays.
Stale(f) == manifest[f] = "ok" /\ (f \in old \/ f \notin bin)

Clean ==
    /\ bin' = {f \in bin : ~Stale(f)} /\ part' = {f \in part : ~Stale(f)}
    /\ manifest' = [f \in Temps |-> IF Stale(f) \/ manifest[f] = "torn" THEN "none" ELSE manifest[f]]

\* write_runtime_marker and mark_runtime_stopped.
WriteMarker(h) ==
    /\ marker' = [hub |-> h, machine |-> machine, status |-> "running"]
    /\ host' = [host EXCEPT ![h] = machine]
MarkStopped == marker' = IF marker = NoMarker THEN marker ELSE [marker EXCEPT !.status = "stopped"]

\* The file service starts and the marker is written; or a port is taken and
\* the process ends without a word to the marker.
StartResult(h) ==
    /\ proc[h] = "starting"
    /\ Clean
    /\ \/ proc' = [proc EXCEPT ![h] = "on"] /\ WriteMarker(h)
       \/ proc' = [proc EXCEPT ![h] = "gone"] /\ UNCHANGED <<marker, host>>
    /\ UNCHANGED <<machine, recycled, admin, token, dir, old, upload, sender, overlap, destroyed>>

\* main_async: the signal handler.
StopHub(h) ==
    /\ proc[h] = "on" /\ proc' = [proc EXCEPT ![h] = "stopping"]
    /\ UNCHANGED <<marker, ids, recycled, admin, token, temps, upload, sender, overlap,
                   destroyed>>

\* stop, whoever wrote the marker; uploads die with the process.
StopResult(h) ==
    /\ proc[h] = "stopping" /\ proc' = [proc EXCEPT ![h] = "gone"]
    /\ MarkStopped
    /\ upload' = [upload EXCEPT ![h] = NoUpload] /\ host' = [host EXCEPT ![h] = NoMarker]
    /\ UNCHANGED <<machine, recycled, admin, token, temps, sender, overlap, destroyed>>

KillHub(h) ==
    /\ proc[h] \in {"starting", "on", "stopping"} /\ proc' = [proc EXCEPT ![h] = "gone"]
    /\ upload' = [upload EXCEPT ![h] = NoUpload] /\ host' = [host EXCEPT ![h] = NoMarker]
    /\ UNCHANGED <<marker, machine, recycled, admin, token, temps, sender, overlap, destroyed>>

Recycle(h) ==
    /\ proc[h] = "gone" /\ recycled' = recycled \cup {h}
    /\ UNCHANGED <<proc, marker, ids, admin, token, temps, upload, sender, overlap, destroyed>>

\* Without /etc/machine-id the id is the host's name and a network address,
\* which may change while a Hub serves.
RenameMachine(id) ==
    /\ id # machine /\ machine' = id
    /\ UNCHANGED <<proc, marker, host, recycled, admin, token, temps, upload, sender, overlap,
                   destroyed>>

-----------------------------------------------------------------------------
(* runtime_status and the admin commands *)

\* Mutant of PidAlive: the marker is believed.
PidAssumed(h) == TRUE

PidAlive(h) == proc[h] \in {"starting", "on", "stopping"} \/ h \in recycled

LocalHubRunning ==
    /\ marker # NoMarker
    /\ marker.machine = machine /\ marker.status = "running" /\ PidAlive(marker.hub)

\* init_admin and admin_login: a new token replaces the last.
NewToken(first) ==
    /\ admin = ~first
    /\ admin' = TRUE /\ token' = token + 1

\* cmd_hub_admin_init and cmd_hub_admin_login
IssueToken(first) ==
    /\ LocalHubRunning /\ token < MaxLogins
    /\ NewToken(first)
    /\ UNCHANGED <<proc, marker, ids, recycled, temps, upload, sender, overlap, destroyed>>

\* destroy_hub: the database and the directory of files go; a Hub that runs
\* keeps its connection to the deleted database.
DestroyHub ==
    /\ admin' = FALSE /\ token' = 0
    /\ dir' = FALSE /\ part' = {} /\ bin' = {} /\ manifest' = [f \in Temps |-> "none"]

\* cmd_hub_admin_destroy --execute
Destroy(given) ==
    /\ LocalHubRunning /\ given = token /\ given # 0
    /\ DestroyHub /\ destroyed' = TRUE
    /\ UNCHANGED <<proc, marker, ids, recycled, old, upload, sender, overlap>>

-----------------------------------------------------------------------------
(* Temporary files: the sender, TempFileStore under its lock, the readers. *)

Prepare(f) ==
    /\ sender[f] = "none" /\ sender' = [sender EXCEPT ![f] = "prepared"]
    /\ UNCHANGED <<proc, marker, ids, recycled, admin, token, temps, upload, overlap, destroyed>>

\* Mutant of LockFree: the store is used without its lock.
LockIgnored(h) == TRUE

LockFree(h) == upload[h] = NoUpload

\* create: what exists is refused; without the directory the write raises.
UploadPart(h, f) ==
    /\ Serving(h) /\ LockFree(h) /\ sender[f] = "prepared"
    /\ IF dir /\ f \notin bin /\ manifest[f] = "none"
       THEN /\ part' = part \cup {f}
            /\ upload' = [upload EXCEPT ![h] = [file |-> f, step |-> "part"]]
            /\ sender' = [sender EXCEPT ![f] = "uploading"]
       ELSE sender' = [sender EXCEPT ![f] = "failed"] /\ UNCHANGED <<part, upload>>
    /\ UNCHANGED <<proc, marker, ids, recycled, admin, token, dir, bin, manifest, old,
                   overlap, destroyed>>

\* The rename, the truncated manifest, its text.
UploadStep(h) ==
    LET f == upload[h].file IN
    /\ Serving(h)
    /\ \/ /\ upload[h].step = "part"
          /\ upload' = [upload EXCEPT ![h] = IF f \in part THEN [@ EXCEPT !.step = "bin"] ELSE NoUpload]
          /\ part' = part \ {f} /\ bin' = IF f \in part THEN bin \cup {f} ELSE bin
          /\ UNCHANGED manifest
       \/ /\ upload[h].step = "bin"
          /\ upload' = [upload EXCEPT ![h] = IF dir THEN [@ EXCEPT !.step = "torn"] ELSE NoUpload]
          /\ manifest' = IF dir THEN [manifest EXCEPT ![f] = "torn"] ELSE manifest
          /\ UNCHANGED <<part, bin>>
       \/ /\ upload[h].step = "torn"
          /\ upload' = [upload EXCEPT ![h].step = "answer"]
          /\ manifest' = IF manifest[f] = "torn" THEN [manifest EXCEPT ![f] = "ok"] ELSE manifest
          /\ UNCHANGED <<part, bin>>
    /\ UNCHANGED <<proc, marker, ids, recycled, admin, token, dir, old, sender, overlap, destroyed>>

UploadAnswer(h) ==
    /\ Serving(h) /\ upload[h].step = "answer"
    /\ upload' = [upload EXCEPT ![h] = NoUpload]
    /\ sender' = [sender EXCEPT ![upload[h].file] = IF @ = "uploading" THEN "uploaded" ELSE @]
    /\ UNCHANGED <<proc, marker, ids, recycled, admin, token, temps, overlap, destroyed>>

\* The client gives up: the connection broke or timed out.
UploadFails(f) ==
    /\ sender[f] \in {"prepared", "uploading"} /\ sender' = [sender EXCEPT ![f] = "failed"]
    /\ UNCHANGED <<proc, marker, ids, recycled, admin, token, temps, upload, overlap, destroyed>>

\* The message that carries key, token and address; it may not be sendable,
\* and the file stays until it expires.
SendNotice(f) ==
    /\ sender[f] = "uploaded"
    /\ \E result \in {"sent", "failed"} : sender' = [sender EXCEPT ![f] = result]
    /\ UNCHANGED <<proc, marker, ids, recycled, admin, token, temps, upload, overlap, destroyed>>

ExpireFile(f) ==
    /\ f \notin old /\ manifest[f] = "ok" /\ old' = old \cup {f}
    /\ UNCHANGED <<proc, marker, ids, recycled, admin, token, dir, part, bin, manifest, upload, sender, overlap, destroyed>>

\* What GET /temp-files/<id> serves; nothing changes then.
Served(f) == f \in bin /\ manifest[f] = "ok"

\* TempFileStore.read of what expired: it is removed and refused.
ReadStale(h, f) ==
    /\ Serving(h) /\ LockFree(h) /\ sender[f] = "sent" /\ Stale(f)
    /\ bin' = bin \ {f} /\ part' = part \ {f}
    /\ manifest' = [manifest EXCEPT ![f] = "none"]
    /\ UNCHANGED <<proc, marker, ids, recycled, admin, token, dir, old, upload, sender, overlap, destroyed>>

\* The periodic cleanup, and GET /status.
Cleanup(h) ==
    /\ Serving(h) /\ LockFree(h)
    /\ Clean
    /\ UNCHANGED <<proc, marker, ids, recycled, admin, token, dir, old, upload, sender,
                   overlap, destroyed>>

HubHostNext ==
    \/ \E h \in Hubs :
          \/ StartHub(h) \/ StartResult(h) \/ StopHub(h) \/ StopResult(h) \/ KillHub(h) \/ Recycle(h)
          \/ UploadStep(h) \/ UploadAnswer(h) \/ Cleanup(h)
          \/ \E f \in Temps : UploadPart(h, f) \/ ReadStale(h, f)
    \/ \E id \in Machines : RenameMachine(id)
    \/ \E first \in BOOLEAN : IssueToken(first)
    \/ \E given \in 0 .. MaxLogins : Destroy(given)
    \/ \E f \in Temps : Prepare(f) \/ UploadFails(f) \/ SendNotice(f) \/ ExpireFile(f)

HostSpec == HubHostInit /\ [][HubHostNext]_hubHostVars

-----------------------------------------------------------------------------
HubHostTypeOK ==
    /\ proc \in [Hubs -> {"new", "starting", "on", "stopping", "gone"}]
    /\ marker = NoMarker \/ marker \in [hub : Hubs, machine : Machines, status : {"running", "stopped"}]
    /\ machine \in Machines /\ host \in [Hubs -> Machines \cup {NoMarker}]
    /\ recycled \subseteq Hubs /\ token \in 0 .. MaxLogins
    /\ part \cup bin \cup old \subseteq Temps
    /\ manifest \in [Temps -> {"none", "torn", "ok"}]
    /\ sender \in [Temps -> {"none", "prepared", "uploading", "uploaded", "failed", "sent"}]

\* SentIsReadable: a file whose message was sent can be fetched until it
\* expires, over restarts and crashes of the Hub, other uploads and cleanups,
\* as long as one Hub at a time uses the directory and nobody destroys it.
SentIsReadable ==
    ~overlap /\ ~destroyed =>
        \A f \in Temps : sender[f] = "sent" /\ f \notin old => Served(f)

\* MarkerHonest: the admin commands take a Hub to be running on this host
\* exactly when one is that knew the machine by the id it has now, over crashes
\* that leave the marker behind and starts that fail, while one Hub at a time
\* uses the directory and no process id is used again.  A Hub whose machine got
\* another id while it serves is denied ("belongs to another host").
MarkerHonest ==
    ~overlap /\ recycled = {} =>
        (LocalHubRunning <=> \E h \in Hubs : Serving(h) /\ host[h] = machine)
=============================================================================
