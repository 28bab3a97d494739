------------------------------- MODULE Workspace -------------------------------
(***************************************************************************)
(* The project of one group on one machine: the binding to a local folder  *)
(* and to Syncthing (SyncService), the index of its files                  *)
(* (ProjectIndexService) and the AI document library built from the index  *)
(* (DocumentLibraryService).  The client and the launcher's commands are   *)
(* separate processes on one SQLite file; each operation is a series of    *)
(* commits with no transaction or lock around them.  A document is one     *)
(* chunk; a row's identifier is a number never used before.                *)
(***************************************************************************)
EXTENDS Naturals, FiniteSets

CONSTANTS
    Files,      \* paths below the folder
    Workers,    \* processes
    MaxOps,     \* bound on operations begun
    MaxEdits,   \* bound on changes of the files
    MaxDeaths,  \* bound on processes that die
    NoRow

ASSUME WorkspaceAssumption ==
    MaxOps \in Nat /\ MaxEdits \in Nat /\ MaxDeaths \in Nat
    /\ NoRow \notin Nat /\ "old" \notin Workers /\ IsFiniteSet(Files)

VARIABLES
    files,      \* [Files -> version]: what is in the folder, 0 is nothing
    projects,   \* ids of the group's rows in projects
    folders,    \* its rows in shared_folders
    shared,     \* ids of the folders Syncthing shares
    index,      \* project_index_files
    sources,    \* ai_document_sources
    chunks,     \* source ids of the rows of ai_document_chunks
    fts,        \* [sid, project] of the rows of ai_document_chunks_fts
    op,         \* [Workers -> the operation it is in]
    fresh,      \* the next row identifier
    raced,      \* history: a binding operation met another operation
    cut,        \* history: kinds of operations a death cut off, or an error
                \* after its request to Syncthing was carried out
    kept,       \* history: a --local-only unbind left Syncthing alone
    hidden,     \* history: file ids whose document the user deleted, until an
                \* unbind forgets it
    vanished,   \* history: file ids whose document was then marked missing
    named,      \* history: the source ids made for a file id, as [id, sid]
    edits, begun, deaths

library == <<sources, chunks, fts>>
binding == <<projects, folders, shared>>
notes == <<kept, hidden, vanished, named>>
workspaceVars == <<files, binding, index, library, op, fresh, raced, cut, notes,
                   edits, begun, deaths>>

\* Rows of shared_folders (sync: a Syncthing id is set), project_index_files
\* (seen: last_seen_scan_id) and ai_document_sources.
FolderRow == [id : Nat, project : Nat, sync : BOOLEAN]
IndexRow == [file : Files, project : Nat, id : Nat, ver : Nat \ {0}, exists : BOOLEAN,
             seen : Workers \cup {"old"}]
SourceRow == [id : Nat, sid : Nat, project : Nat, ver : Nat \ {0},
              status : {"indexed", "skipped", "error", "missing", "deleted_local", "pending"}]

\* The row a build is at, with the source id it gives it.
TakenRow == [row : IndexRow, sid : Nat, insert : BOOLEAN]

ASSUME NoRowAssumption == NoRow \notin FolderRow \cup TakenRow

Idle == [kind |-> "idle"]
Binders == {"bind", "configure", "stop", "poll", "unbind"}

\* A group that was never bound, or one that is bound, shared, and built.
WorkspaceInit ==
    /\ files = [f \in Files |-> 1]
    /\ \/ /\ projects = {} /\ folders = {} /\ shared = {}
          /\ index = {} /\ sources = {} /\ chunks = {} /\ fts = {} /\ fresh = 1 /\ named = {}
       \/ /\ projects = {1} /\ folders = {[id |-> 2, project |-> 1, sync |-> TRUE]} /\ shared = {2}
          /\ \E number \in [Files -> 3 .. Cardinality(Files) + 2] :
                /\ \A f, g \in Files : number[f] = number[g] => f = g
                /\ index = {[file |-> f, project |-> 1, id |-> number[f], ver |-> 1,
                             exists |-> TRUE, seen |-> "old"] : f \in Files}
                /\ sources = {[id |-> number[f], sid |-> number[f], project |-> 1, ver |-> 1,
                               status |-> "indexed"] : f \in Files}
                /\ chunks = {number[f] : f \in Files}
                /\ fts = {[sid |-> number[f], project |-> 1] : f \in Files}
                /\ named = {[id |-> number[f], sid |-> number[f]] : f \in Files}
          /\ fresh = Cardinality(Files) + 3
    /\ op = [w \in Workers |-> Idle]
    /\ raced = FALSE /\ cut = {} /\ kept = FALSE
    /\ hidden = {} /\ vanished = {}
    /\ edits = 0 /\ begun = 0 /\ deaths = 0

\* The kinds of operations that leave something undone for good when a death
\* cuts them off; the others are made good when they are repeated.
Unmended == {"build", "mark", "bind", "configure"}

Running(kinds) == \E w \in Workers : op[w].kind \in kinds

\* w begins an operation; a scan or an unbind disturbs the scans there are.
Disturbs == {"scan", "unbind"}

Begin(w, record) ==
    /\ op[w] = Idle /\ begun < MaxOps /\ begun' = begun + 1
    /\ op' = [v \in Workers |->
                 IF v = w THEN record
                 ELSE IF op[v].kind = "scan" /\ record.kind \in Disturbs
                 THEN [op[v] EXCEPT !.calm = FALSE] ELSE op[v]]
    /\ raced' = (raced \/ \E v \in Workers \ {w} :
                    op[v] # Idle /\ {record.kind, op[v].kind} \cap Binders # {})
    /\ UNCHANGED <<files, cut, edits, deaths>>

\* w goes on with, or ends, its operation.
Goes(w, kind, record) ==
    /\ op[w].kind = kind
    /\ op' = [op EXCEPT ![w] = record]
    /\ UNCHANGED <<files, raced, cut, edits, begun, deaths>>

-----------------------------------------------------------------------------
(* SyncService *)

\* get_project_by_group, get_shared_folder_by_group: the latest row, if any.
ReadProject(p) == p \in projects \/ (projects = {} /\ p = NoRow)
ReadFolder(f) == f \in folders \/ (folders = {} /\ f = NoRow)
SaveFolder(f) == folders' = {g \in folders : g.id # f.id} \cup {f}

BindStart(w, p, f) ==
    LET id == IF p = NoRow THEN fresh ELSE p IN
    /\ ReadProject(p) /\ ReadFolder(f)
    /\ Begin(w, [kind |-> "bind", pc |-> "folder", project |-> id,
                 folder |-> IF f = NoRow THEN [id |-> fresh + 1, project |-> id, sync |-> FALSE]
                            ELSE [f EXCEPT !.project = id]])
    /\ fresh' = fresh + 2
    /\ UNCHANGED <<binding, index, library, notes>>

\* Configure, stop, poll and unbind begin with the rows they read.
SyncStart(w, kind, p, f) ==
    /\ kind \in {"configure", "stop", "poll", "unbind"}
    /\ ReadProject(p) /\ ReadFolder(f)
    /\ f = NoRow => kind = "unbind"
    /\ kind = "poll" => f.sync
    /\ Begin(w, [kind |-> kind, pc |-> IF kind = "poll" THEN "folder" ELSE "call",
                 project |-> p, folder |-> f])
    /\ UNCHANGED <<binding, index, library, notes, fresh>>

\* upsert_folder and delete_folder of the REST API (a missing one is no error).
Share(id) == shared' = shared \cup {id}
Unshare(id) == shared' = shared \ {id}

\* configure_syncthing_folder; when Syncthing cannot be reached the operation
\* ends here.
ConfigureCall(w) ==
    LET f == op[w].folder IN
    /\ op[w].kind = "configure" /\ op[w].pc = "call"
    /\ \/ /\ Share(f.id)
          /\ Goes(w, "configure", [op[w] EXCEPT !.pc = "folder", !.folder.sync = TRUE])
       \/ Goes(w, "configure", Idle) /\ UNCHANGED shared
    /\ UNCHANGED <<projects, folders, index, library, notes, fresh>>

\* The folder is shared and the operation ends without its row: the request was
\* carried out and timed out, or get_restart_required after it raised.
ConfigureFails(w) ==
    LET f == op[w].folder IN
    /\ op[w].kind = "configure" /\ op[w].pc = "call"
    /\ Share(f.id)
    /\ op' = [op EXCEPT ![w] = Idle]
    /\ cut' = IF f.sync THEN cut ELSE cut \cup {"configure"}
    /\ UNCHANGED <<files, projects, folders, index, library, notes, fresh, raced, edits, begun, deaths>>

\* Mutant of StopCall: only the row forgets the folder.
StopRowOnly(w) ==
    /\ op[w].kind = "stop" /\ op[w].pc = "call"
    /\ Goes(w, "stop", [op[w] EXCEPT !.pc = "folder", !.folder.sync = FALSE])
    /\ UNCHANGED <<binding, index, library, notes, fresh>>

\* Syncthing's folder is deleted before the row forgets its id; a request that
\* fails may have been carried out.
StopCall(w) ==
    LET f == op[w].folder IN
    /\ op[w].kind = "stop" /\ op[w].pc = "call"
    /\ \/ /\ IF f.sync THEN Unshare(f.id) ELSE UNCHANGED shared
          /\ Goes(w, "stop", [op[w] EXCEPT !.pc = "folder", !.folder.sync = FALSE])
       \/ f.sync /\ Goes(w, "stop", Idle) /\ (Unshare(f.id) \/ UNCHANGED shared)
    /\ UNCHANGED <<projects, folders, index, library, notes, fresh>>

\* INSERT OR REPLACE of the row as it was read, with the changes.
WriteFolder(w) ==
    /\ op[w].kind \in Binders \ {"unbind"} /\ op[w].pc = "folder"
    /\ SaveFolder(op[w].folder)
    /\ Goes(w, op[w].kind, IF op[w].kind = "poll" \/ op[w].project = NoRow THEN Idle
                           ELSE [op[w] EXCEPT !.pc = "project"])
    /\ UNCHANGED <<projects, shared, index, library, notes, fresh>>

WriteProject(w) ==
    /\ op[w].kind \in Binders \ {"unbind"} /\ op[w].pc = "project"
    /\ projects' = projects \cup {op[w].project}
    /\ Goes(w, op[w].kind, Idle)
    /\ UNCHANGED <<folders, shared, index, library, notes, fresh>>

\* unbind_group_project: Syncthing, the index, the library, the binding.
UnbindCall(w, localOnly) ==
    LET f == op[w].folder
        asks == f # NoRow /\ f.sync /\ ~localOnly IN
    /\ op[w].kind = "unbind" /\ op[w].pc = "call"
    /\ kept' = (kept \/ localOnly)
    /\ \/ /\ IF asks THEN Unshare(f.id) ELSE UNCHANGED shared
          /\ Goes(w, "unbind", [op[w] EXCEPT !.pc = "index"])
       \/ asks /\ Goes(w, "unbind", Idle) /\ (Unshare(f.id) \/ UNCHANGED shared)
    /\ UNCHANGED <<projects, folders, index, library, hidden, vanished, named, fresh>>

\* The rows an unbind clears are those of the project it read.
InScope(w, project) ==
    LET p == IF op[w].project # NoRow THEN op[w].project
             ELSE IF op[w].folder # NoRow THEN op[w].folder.project ELSE NoRow
    IN p \in {project, NoRow}

\* Mutant of UnbindIndex: rows of files that are missing stay.
UnbindExisting(w) ==
    /\ op[w].kind = "unbind" /\ op[w].pc = "index"
    /\ index' = {r \in index : ~(InScope(w, r.project) /\ r.exists)}
    /\ Goes(w, "unbind", [op[w] EXCEPT !.pc = "library"])
    /\ UNCHANGED <<binding, library, notes, fresh>>

\* ProjectIndexService.clear_group
UnbindIndex(w) ==
    /\ op[w].kind = "unbind" /\ op[w].pc = "index"
    /\ index' = {r \in index : ~InScope(w, r.project)}
    /\ Goes(w, "unbind", [op[w] EXCEPT !.pc = "library"])
    /\ UNCHANGED <<binding, library, notes, fresh>>

\* DocumentLibraryService.clear_group: the chunks go by their source.
UnbindLibrary(w) ==
    LET gone == {s \in sources : InScope(w, s.project)}
        sids == {s.sid : s \in gone} IN
    /\ op[w].kind = "unbind" /\ op[w].pc = "library"
    /\ sources' = sources \ gone
    /\ chunks' = chunks \ sids
    /\ fts' = {r \in fts : r.sid \notin sids /\ ~InScope(w, r.project)}
    /\ hidden' = hidden \ {s.id : s \in gone}
    /\ Goes(w, "unbind", [op[w] EXCEPT !.pc = "binding"])
    /\ UNCHANGED <<binding, index, kept, vanished, named, fresh>>

\* delete_project_sync_binding
UnbindBinding(w) ==
    /\ op[w].kind = "unbind" /\ op[w].pc = "binding"
    /\ projects' = {} /\ folders' = {}
    /\ Goes(w, "unbind", Idle)
    /\ UNCHANGED <<shared, index, library, notes, fresh>>

-----------------------------------------------------------------------------
(* ProjectIndexService.scan of one folder, a commit per file. *)

\* The run ids are renamed: rows an earlier scan of w saw are now "old".
ScanStart(w, f) ==
    /\ f \in folders
    /\ Begin(w, [kind |-> "scan", pc |-> "files", project |-> f.project, left |-> Files, ok |-> TRUE,
                 unlisted |-> {}, calm |-> ~\E v \in Workers : op[v].kind \in Disturbs])
    /\ index' = {[r EXCEPT !.seen = IF @ = w THEN "old" ELSE @] : r \in index}
    /\ UNCHANGED <<binding, library, notes, fresh>>

\* Mutant of Seen: a file that did not change is not marked as seen.
SeenBefore(row, w) == row

\* What _index_file makes of a row it finds with the same size and time.
Seen(row, w) == [row EXCEPT !.seen = w]

IndexFile(w, f) ==
    LET old == {r \in index : r.file = f /\ r.project = op[w].project}
        same == {r \in old : r.exists /\ r.ver = files[f]} IN
    /\ op[w].kind = "scan" /\ op[w].pc = "files" /\ f \in op[w].left /\ files[f] # 0
    /\ IF same # {}
       THEN index' = (index \ same) \cup {Seen(r, w) : r \in same} /\ UNCHANGED fresh
       ELSE /\ index' = (index \ old) \cup
                  {[file |-> f, project |-> op[w].project, ver |-> files[f], exists |-> TRUE,
                    seen |-> w, id |-> IF old = {} THEN fresh ELSE (CHOOSE r \in old : TRUE).id]}
            /\ fresh' = IF old = {} THEN fresh + 1 ELSE fresh
    /\ Goes(w, "scan", [op[w] EXCEPT !.left = @ \ {f}])
    /\ UNCHANGED <<binding, library, notes>>

\* A file that is gone is not walked; one that raises is skipped.
SkipFile(w, f) ==
    /\ op[w].kind = "scan" /\ op[w].pc = "files" /\ f \in op[w].left
    /\ Goes(w, "scan", [op[w] EXCEPT !.left = @ \ {f}, !.ok = @ /\ files[f] = 0])
    /\ UNCHANGED <<binding, index, library, notes, fresh>>

\* os.walk passes over a directory it cannot list, without an error.
PassOver(w, f) ==
    /\ op[w].kind = "scan" /\ op[w].pc = "files" /\ f \in op[w].left
    /\ Goes(w, "scan", [op[w] EXCEPT !.left = @ \ {f}, !.unlisted = @ \cup {f}])
    /\ UNCHANGED <<binding, index, library, notes, fresh>>

\* The folder is not there, or the database raises: nothing is marked.
ScanFails(w) ==
    /\ op[w].kind = "scan" /\ op[w].pc = "files"
    /\ Goes(w, "scan", [op[w] EXCEPT !.pc = "finish", !.ok = FALSE])
    /\ UNCHANGED <<binding, index, library, notes, fresh>>

\* _mark_missing: every row of the project this run did not see.
MarkMissing(w) ==
    /\ op[w].kind = "scan" /\ op[w].pc = "files" /\ op[w].left = {}
    /\ index' = {[r EXCEPT !.exists = @ /\ ~(r.project = op[w].project /\ r.seen # w)] : r \in index}
    /\ Goes(w, "scan", [op[w] EXCEPT !.pc = "finish"])
    /\ UNCHANGED <<binding, library, notes, fresh>>

FinishRun(w) ==
    /\ op[w].kind = "scan" /\ op[w].pc = "finish"
    /\ Goes(w, "scan", Idle)
    /\ UNCHANGED <<binding, index, library, notes, fresh>>

-----------------------------------------------------------------------------
(* DocumentLibraryService *)

DeleteChunks(sid) ==
    chunks' = chunks \ {sid} /\ fts' = {r \in fts : r.sid # sid}

\* Mutant of Upsert: no ON CONFLICT, a second row is inserted.
InsertSource(row, sid, status) ==
    sources' = sources \cup
        {[id |-> row.id, project |-> row.project, ver |-> row.ver, status |-> status,
          sid |-> sid]}

\* _upsert_source: ON CONFLICT(file_id) the row keeps its source id.
Upsert(row, sid, status) ==
    LET old == {s \in sources : s.id = row.id} IN
    sources' = (sources \ old) \cup
        {[id |-> row.id, project |-> row.project, ver |-> row.ver, status |-> status,
          sid |-> IF old = {} THEN sid ELSE (CHOOSE s \in old : TRUE).sid]}

\* build: the rows and then the sources it will work from are read once.
BuildStart(w) ==
    /\ Begin(w, [kind |-> "build", pc |-> "known", rows |-> index, known |-> {}, at |-> NoRow,
                 gone |-> {}])
    /\ UNCHANGED <<binding, index, library, notes, fresh>>

ReadSources(w) ==
    /\ op[w].kind = "build" /\ op[w].pc = "known"
    /\ Goes(w, "build", [op[w] EXCEPT !.pc = "files", !.known = sources,
                            !.gone = {s \in sources : \A r \in op[w].rows : r.id # s.id}])
    /\ UNCHANGED <<binding, index, library, notes, fresh>>

\* Mutant of LeftAlone: what the user deleted is not told from other states.
LeftAloneByVersion(row, source) == source.ver = row.ver /\ source.status \in {"indexed", "skipped"}

\* Whether build leaves the document of an existing file as it is.
LeftAlone(row, source) ==
    \/ source.status = "deleted_local"
    \/ source.ver = row.ver /\ source.status \in {"indexed", "skipped"}

SkipRow(w, row) ==
    /\ op[w].kind = "build" /\ op[w].pc = "files" /\ op[w].at = NoRow /\ row \in op[w].rows
    /\ row.exists /\ \E s \in op[w].known : s.id = row.id /\ LeftAlone(row, s)
    /\ Goes(w, "build", [op[w] EXCEPT !.rows = @ \ {row}])
    /\ UNCHANGED <<binding, index, library, notes, fresh>>

\* The old chunks of a row that is missing or to be rebuilt go first.
TakeRow(w, row) ==
    LET source == {s \in op[w].known : s.id = row.id}
        sid == IF source = {} THEN fresh ELSE (CHOOSE s \in source : TRUE).sid IN
    /\ op[w].kind = "build" /\ op[w].pc = "files" /\ op[w].at = NoRow /\ row \in op[w].rows
    /\ row.exists => \A s \in source : ~LeftAlone(row, s)
    /\ DeleteChunks(sid)
    /\ fresh' = IF source = {} THEN fresh + 1 ELSE fresh
    /\ named' = IF source = {} THEN named \cup {[id |-> row.id, sid |-> sid]} ELSE named
    /\ Goes(w, "build", [op[w] EXCEPT !.rows = @ \ {row},
                            !.at = [row |-> row, sid |-> sid, insert |-> FALSE]])
    /\ UNCHANGED <<binding, index, sources, kept, hidden, vanished>>

\* What reading the file comes to (_read_indexed_text, chunk_text).
Content(row) ==
    IF ~row.exists THEN {"missing"}
    ELSE IF files[row.file] = 0 THEN {"skipped"} ELSE {"indexed", "skipped", "error"}

WriteSource(w) ==
    LET at == op[w].at IN
    /\ op[w].kind = "build" /\ at # NoRow /\ ~at.insert
    /\ \E status \in Content(at.row) :
          /\ Upsert(at.row, at.sid, status)
          /\ vanished' = IF status = "missing" THEN vanished \cup {at.row.id} ELSE vanished
          /\ Goes(w, "build", [op[w] EXCEPT !.at = IF status = "indexed"
                                                   THEN [at EXCEPT !.insert = TRUE] ELSE NoRow])
    /\ UNCHANGED <<binding, index, chunks, fts, kept, hidden, named, fresh>>

\* _insert_chunks; UNIQUE(source_id, chunk_index) makes the document an error.
InsertChunks(w) ==
    LET at == op[w].at IN
    /\ op[w].kind = "build" /\ at # NoRow /\ at.insert
    /\ IF at.sid \in chunks
       THEN Upsert(at.row, at.sid, "error") /\ UNCHANGED <<chunks, fts>>
       ELSE /\ chunks' = chunks \cup {at.sid}
            /\ fts' = fts \cup {[sid |-> at.sid, project |-> at.row.project]}
            /\ UNCHANGED sources
    /\ Goes(w, "build", [op[w] EXCEPT !.at = NoRow])
    /\ UNCHANGED <<binding, index, notes, fresh>>

Mark(sid, status) == sources' = {[s EXCEPT !.status = IF s.sid = sid THEN status ELSE @] : s \in sources}

\* Sources whose file left the index; its chunks and its row, two commits.
DropGone(w, s) ==
    /\ op[w].kind = "build" /\ op[w].pc = "files" /\ op[w].rows = {} /\ op[w].at = NoRow
    /\ s \in op[w].gone
    /\ \/ s.status # "dropping"
          /\ DeleteChunks(s.sid) /\ UNCHANGED <<sources, vanished>>
          /\ Goes(w, "build", [op[w] EXCEPT !.gone = (@ \ {s}) \cup {[s EXCEPT !.status = "dropping"]}])
       \/ s.status = "dropping"
          /\ Mark(s.sid, "missing") /\ UNCHANGED <<chunks, fts>>
          /\ vanished' = vanished \cup {s.id}
          /\ Goes(w, "build", [op[w] EXCEPT !.gone = @ \ {s}])
    /\ UNCHANGED <<binding, index, kept, hidden, named, fresh>>

BuildEnd(w) ==
    /\ op[w].kind = "build" /\ op[w].pc = "files" /\ op[w].rows = {} /\ op[w].at = NoRow
    /\ op[w].gone = {}
    /\ Goes(w, "build", Idle)
    /\ UNCHANGED <<binding, index, library, notes, fresh>>

\* Mutant of Restored: the document counts as indexed at once.
RestoredIndexed == "indexed"

\* What restore_source makes of a document: the next build takes it up.
Restored == "pending"

\* delete_source and restore_source: the chunks, then the row.
MarkStart(w, s, status) ==
    /\ s \in sources
    /\ DeleteChunks(s.sid)
    /\ Begin(w, [kind |-> "mark", source |-> s, status |-> status])
    /\ UNCHANGED <<binding, index, sources, notes, fresh>>

MarkWrite(w) ==
    LET own == {s.id : s \in {t \in sources : t.sid = op[w].source.sid}} IN
    /\ op[w].kind = "mark"
    /\ Mark(op[w].source.sid, op[w].status)
    /\ IF op[w].status = Restored THEN hidden' = hidden \ own /\ UNCHANGED vanished
       ELSE IF Running({"build"}) THEN UNCHANGED <<hidden, vanished>>
       ELSE hidden' = hidden \cup own /\ vanished' = vanished \ own
    /\ Goes(w, "mark", Idle)
    /\ UNCHANGED <<binding, index, chunks, fts, kept, named, fresh>>

-----------------------------------------------------------------------------
\* Syncthing or the user changes a file.
Edit(f, there) ==
    /\ edits < MaxEdits /\ edits' = edits + 1
    /\ files' = [files EXCEPT ![f] = IF there THEN edits + 2 ELSE 0]
    /\ files[f] # 0 \/ there
    /\ op' = [w \in Workers |->
                 IF op[w].kind = "scan" THEN [op[w] EXCEPT !.calm = FALSE] ELSE op[w]]
    /\ UNCHANGED <<binding, index, library, fresh, raced, cut, notes, begun, deaths>>

Die(w) ==
    /\ op[w] # Idle /\ deaths < MaxDeaths /\ deaths' = deaths + 1
    /\ op' = [op EXCEPT ![w] = Idle]
    /\ cut' = cut \cup ({op[w].kind} \cap Unmended)
    /\ UNCHANGED <<files, binding, index, library, fresh, raced, notes, edits, begun>>

SyncStep(w) ==
    \/ \E p \in projects \cup {NoRow}, f \in folders \cup {NoRow} :
          BindStart(w, p, f) \/ \E kind \in Binders : SyncStart(w, kind, p, f)
    \/ ConfigureCall(w) \/ ConfigureFails(w) \/ StopCall(w) \/ WriteFolder(w) \/ WriteProject(w)
    \/ \E localOnly \in BOOLEAN : UnbindCall(w, localOnly)
    \/ UnbindIndex(w) \/ UnbindLibrary(w) \/ UnbindBinding(w)

ScanStep(w) ==
    \/ \E f \in folders : ScanStart(w, f)
    \/ \E f \in Files : IndexFile(w, f) \/ SkipFile(w, f) \/ PassOver(w, f)
    \/ MarkMissing(w) \/ ScanFails(w) \/ FinishRun(w)

LibraryStep(w) ==
    \/ BuildStart(w) \/ ReadSources(w) \/ WriteSource(w) \/ InsertChunks(w) \/ BuildEnd(w) \/ MarkWrite(w)
    \/ \E row \in IF op[w].kind = "build" THEN op[w].rows ELSE {} : SkipRow(w, row) \/ TakeRow(w, row)
    \/ \E s \in IF op[w].kind = "build" THEN op[w].gone ELSE {} : DropGone(w, s)
    \/ \E s \in sources, status \in {"deleted_local", Restored} : MarkStart(w, s, status)

WorkspaceNext ==
    \/ \E w \in Workers : SyncStep(w) \/ ScanStep(w) \/ LibraryStep(w) \/ Die(w)
    \/ \E f \in Files, there \in BOOLEAN : Edit(f, there)

WorkspaceSpec == WorkspaceInit /\ [][WorkspaceNext]_workspaceVars

-----------------------------------------------------------------------------
WorkspaceTypeOK ==
    /\ files \in [Files -> Nat]
    /\ projects \subseteq Nat /\ shared \subseteq Nat /\ chunks \subseteq Nat
    /\ folders \subseteq FolderRow
    /\ index \subseteq IndexRow
    /\ sources \subseteq SourceRow
    /\ fts \subseteq [sid : Nat, project : Nat]
    /\ \A r, q \in index : (r.file = q.file /\ r.project = q.project) \/ r.id = q.id => r = q
    /\ \A s, t \in sources : s.id = t.id \/ s.sid = t.sid => s = t

\* What search returns: documents in state "indexed" with a chunk and its row.
Found == {s \in sources : s.status = "indexed" /\ s.sid \in chunks /\ \E r \in fts : r.sid = s.sid}

\* IndexedIsFound: when nothing runs, every document that counts as indexed is
\* found by search, however the builds, deletions and restores of the client
\* and of the launcher met, unless a process died in the middle of one or two
\* builds made a source id each for its file: the row keeps the first, and the
\* chunks of the second build are under an id that no row has.
NamedOnce(id) == \A p, q \in named : p.id = id /\ q.id = id => p = q

IndexedIsFound ==
    (\A w \in Workers : op[w] = Idle) /\ cut \cap {"build", "mark"} = {} =>
        \A s \in sources : s.status = "indexed" /\ NamedOnce(s.id) => s \in Found

\* DeletedStaysOut: a document the user deleted while no build ran is not found
\* again before it is restored, whatever later builds make of its file, as long
\* as the file is not missing for a while.
HiddenFound == {s.id : s \in Found} \cap hidden
DeletedStaysOut == HiddenFound \subseteq vanished

\* ScanExact: when a scan that no other scan, unbind or change of the files met
\* reports "ok", the project's index has exactly the files of the folder, but
\* for those in a directory the walk could not list: these count as missing.
ScanExact ==
    \A w \in Workers :
        op[w].kind = "scan" /\ op[w].pc = "finish" /\ op[w].ok /\ op[w].calm =>
            \A f \in Files :
                {r.ver : r \in {q \in index : q.file = f /\ q.project = op[w].project /\ q.exists}}
                    = IF f \in op[w].unlisted THEN {} ELSE {files[f]} \ {0}

\* UnboundIsClean: once the binding is gone nothing of the project is left in
\* the index and the library, even when an unbind was cut off and repeated, if
\* no other operation met a binding operation and no bind was cut off.
UnboundIsClean ==
    folders = {} /\ ~raced /\ "bind" \notin cut => index = {} /\ sources = {} /\ fts = {}

\* SharingIsRecorded: Syncthing shares no folder the profile does not know to
\* be shared (and could not stop): deaths and failed requests in the middle of a
\* stop or an unbind included, those of a configure after it shared the folder
\* and --local-only unbinds excepted.
SharingIsRecorded ==
    ~raced /\ "configure" \notin cut /\ ~kept =>
        \A id \in shared :
            \/ \E f \in folders : f.id = id /\ f.sync
            \/ \E w \in Workers : op[w].kind = "configure" /\ op[w].folder.id = id
=============================================================================
