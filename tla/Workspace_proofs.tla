--------------------------- MODULE Workspace_proofs ---------------------------
(* Proofs about the project of a group on one machine and about the           *)
(* assistant beside the chat.                                                 *)
EXTENDS Workspace, Assistant, FiniteSetTheorems, TLAPS

-----------------------------------------------------------------------------
(* The workspace, for any number of files, processes, operations, changes and *)
(* deaths.  What an operation carries between its commits is typed first; of  *)
(* every source id that is stored or carried it is known for which file id it *)
(* was made, and no id was made twice.                                        *)

BinderOps == [kind : Binders, pc : {"call", "folder", "project", "index", "library", "binding"},
              project : Nat \cup {NoRow}, folder : FolderRow \cup {NoRow}]
ScanOps == [kind : {"scan"}, pc : {"files", "finish"}, project : Nat, left : SUBSET Files,
            ok : BOOLEAN, unlisted : SUBSET Files, calm : BOOLEAN]
GoneRow == [id : Nat, sid : Nat, project : Nat, ver : Nat \ {0},
            status : {"indexed", "skipped", "error", "missing", "deleted_local", "pending", "dropping"}]
BuildOps == [kind : {"build"}, pc : {"known", "files"}, rows : SUBSET IndexRow,
             known : SUBSET SourceRow, at : TakenRow \cup {NoRow}, gone : SUBSET GoneRow]
MarkOps == [kind : {"mark"}, source : SourceRow, status : {"deleted_local", "pending"}]
Ops == {Idle} \cup BinderOps \cup ScanOps \cup BuildOps \cup MarkOps

DataTypes ==
    /\ files \in [Files -> Nat] /\ projects \subseteq Nat /\ folders \subseteq FolderRow
    /\ shared \subseteq Nat /\ index \subseteq IndexRow /\ sources \subseteq SourceRow
    /\ chunks \subseteq Nat /\ fts \subseteq [sid : Nat, project : Nat]
    /\ named \subseteq [id : Nat, sid : Nat] /\ hidden \subseteq Nat /\ vanished \subseteq Nat
    /\ fresh \in Nat /\ edits \in Nat /\ raced \in BOOLEAN /\ kept \in BOOLEAN

BindFolder ==
    \A w \in Workers : /\ op[w].kind \in Binders \ {"unbind"} => op[w].folder # NoRow
                       /\ op[w].kind = "bind" => op[w].project # NoRow /\ op[w].pc \in {"folder", "project"}
                       /\ op[w].kind \in Binders \ {"unbind"} /\ op[w].pc = "project" => op[w].project # NoRow

WTypes == DataTypes /\ op \in [Workers -> Ops] /\ BindFolder

\* What the kind of an operation says of its record.
LEMMA OpKinds ==
    ASSUME NEW o \in Ops
    PROVE  /\ o.kind \in Binders => o \in BinderOps
           /\ o.kind = "scan" => o \in ScanOps
           /\ o.kind = "build" => o \in BuildOps
           /\ o.kind = "mark" => o \in MarkOps
           /\ o.kind = "idle" => o = Idle
           /\ o = Idle => o.kind = "idle"
           /\ o.kind \in Binders \cup {"scan", "build", "mark", "idle"}
  BY DEF Ops, BinderOps, ScanOps, BuildOps, MarkOps, Binders, Idle

LEMMA GoesTyped ==
    ASSUME op \in [Workers -> Ops], NEW w \in Workers, NEW kind, NEW record \in Ops, Goes(w, kind, record)
    PROVE  /\ op' \in [Workers -> Ops] /\ op'[w] = record /\ op[w].kind = kind
           /\ \A v \in Workers \ {w} : op'[v] = op[v]
           /\ UNCHANGED <<files, raced, cut, edits, begun, deaths>>
  BY DEF Goes

\* A scan that is disturbed forgets that it was calm, and nothing else.
LEMMA DisturbedScan ==
    ASSUME NEW o \in ScanOps, NEW q, q = [o EXCEPT !.calm = FALSE]
    PROVE  /\ q \in ScanOps /\ q.kind = o.kind /\ q.pc = o.pc /\ q.project = o.project
           /\ q.left = o.left /\ q.ok = o.ok /\ q.unlisted = o.unlisted /\ ~q.calm
  BY DEF ScanOps

LEMMA BeginTyped ==
    ASSUME op \in [Workers -> Ops], NEW w \in Workers, NEW record \in Ops, Begin(w, record)
    PROVE  /\ op' \in [Workers -> Ops] /\ op'[w] = record /\ op[w] = Idle
           /\ \A v \in Workers \ {w} : op'[v].kind = op[v].kind
           /\ \A v \in Workers \ {w} : op[v].kind # "scan" => op'[v] = op[v]
           /\ \A v \in Workers \ {w} : op[v].kind = "scan" => op'[v].project = op[v].project
           /\ raced' = (raced \/ \E v \in Workers \ {w} :
                    op[v] # Idle /\ {record.kind, op[v].kind} \cap Binders # {})
           /\ UNCHANGED <<files, cut, edits, deaths>>
<1>1. ASSUME NEW v \in Workers PROVE op'[v] \in Ops
  <2>1. CASE v # w /\ op[v].kind = "scan" /\ record.kind \in Disturbs
    <3>1. op[v] \in ScanOps
      BY <2>1, OpKinds
    <3>2. op'[v] = [op[v] EXCEPT !.calm = FALSE]
      BY <2>1 DEF Begin
    <3> QED BY <3>1, <3>2, DisturbedScan DEF Ops
  <2>2. CASE ~(v # w /\ op[v].kind = "scan" /\ record.kind \in Disturbs)
    <3>1. op'[v] = IF v = w THEN record ELSE op[v]
      BY <2>2 DEF Begin
    <3> QED BY <3>1
  <2> QED BY <2>1, <2>2
<1>2. ASSUME NEW v \in Workers \ {w} 
      PROVE  /\ op'[v].kind = op[v].kind /\ (op[v].kind # "scan" => op'[v] = op[v])
             /\ op'[v] # op[v] => op'[v].project = op[v].project
  <2>1. CASE op[v].kind = "scan" /\ record.kind \in Disturbs
    <3>1. op[v] \in ScanOps
      BY <2>1, OpKinds
    <3>2. op'[v] = [op[v] EXCEPT !.calm = FALSE]
      BY <2>1 DEF Begin
    <3> QED BY <2>1, <3>1, <3>2, DisturbedScan
  <2>2. CASE ~(op[v].kind = "scan" /\ record.kind \in Disturbs)
    <3>1. op'[v] = op[v]
      BY <2>2 DEF Begin
    <3> QED BY <3>1
  <2> QED BY <2>1, <2>2
<1>3. op' \in [Workers -> Ops] /\ op'[w] = record
  BY <1>1 DEF Begin
<1> QED BY <1>2, <1>3 DEF Begin

LEMMA Chosen == ASSUME NEW S, S # {} PROVE (CHOOSE x \in S : TRUE) \in S
  OBVIOUS

LEMMA TypesStart == WorkspaceInit => WTypes
<1> SUFFICES ASSUME WorkspaceInit PROVE WTypes
  OBVIOUS
<1>1. op = [w \in Workers |-> Idle] /\ Idle \in Ops /\ Idle.kind = "idle"
  BY DEF WorkspaceInit, Ops, Idle
<1>2. op \in [Workers -> Ops] /\ BindFolder
  BY <1>1 DEF BindFolder, Binders
<1>3. DataTypes
  <2>1. Cardinality(Files) \in Nat
    BY FS_CardinalityType, WorkspaceAssumption DEF WorkspaceAssumption
  <2>2. CASE projects = {}
    <3>1. /\ folders = {} /\ shared = {} /\ index = {} /\ sources = {} /\ chunks = {}
          /\ fts = {} /\ fresh = 1 /\ named = {}
      BY <2>2 DEF WorkspaceInit
    <3>2. files \in [Files -> Nat]
      BY DEF WorkspaceInit
    <3> QED BY <2>2, <3>1, <3>2 DEF WorkspaceInit, DataTypes
  <2>3. CASE projects # {}
    <3>1. PICK number \in [Files -> 3 .. Cardinality(Files) + 2] :
            /\ index = {[file |-> f, project |-> 1, id |-> number[f], ver |-> 1,
                         exists |-> TRUE, seen |-> "old"] : f \in Files}
            /\ sources = {[id |-> number[f], sid |-> number[f], project |-> 1, ver |-> 1,
                           status |-> "indexed"] : f \in Files}
            /\ chunks = {number[f] : f \in Files}
            /\ fts = {[sid |-> number[f], project |-> 1] : f \in Files}
            /\ named = {[id |-> number[f], sid |-> number[f]] : f \in Files}
      BY <2>3 DEF WorkspaceInit
    <3>2. \A f \in Files : number[f] \in Nat
      BY <2>1
    <3>3. index \subseteq IndexRow
      <4> SUFFICES ASSUME NEW f \in Files
                   PROVE  [file |-> f, project |-> 1, id |-> number[f], ver |-> 1,
                           exists |-> TRUE, seen |-> "old"] \in IndexRow
        BY <3>1
      <4> QED BY <3>2 DEF IndexRow
    <3>4. sources \subseteq SourceRow
      <4> SUFFICES ASSUME NEW f \in Files
                   PROVE  [id |-> number[f], sid |-> number[f], project |-> 1, ver |-> 1,
                           status |-> "indexed"] \in SourceRow
        BY <3>1
      <4> QED BY <3>2 DEF SourceRow
    <3>5. chunks \subseteq Nat /\ fts \subseteq [sid : Nat, project : Nat]
          /\ named \subseteq [id : Nat, sid : Nat]
      BY <3>1, <3>2
    <3>6. files \in [Files -> Nat] /\ fresh \in Nat /\ projects = {1} /\ shared = {2}
          /\ folders = {[id |-> 2, project |-> 1, sync |-> TRUE]}
      BY <2>1, <2>3 DEF WorkspaceInit
    <3>7. folders \subseteq FolderRow /\ projects \subseteq Nat /\ shared \subseteq Nat
      <4>1. [id |-> 2, project |-> 1, sync |-> TRUE] \in FolderRow
        BY DEF FolderRow
      <4> QED BY <3>6, <4>1
    <3>9. files \in [Files -> Nat] /\ fresh \in Nat
      BY <3>6
    <3>8. hidden = {} /\ vanished = {} /\ edits = 0 /\ raced = FALSE /\ kept = FALSE
      BY DEF WorkspaceInit
    <3> QED BY <3>3, <3>4, <3>5, <3>7, <3>8, <3>9 DEF DataTypes
  <2> QED BY <2>2, <2>3
<1> QED BY <1>2, <1>3 DEF WTypes

\* A step of one operation that keeps the types of the data and of its record.
LEMMA GoesKeepsTypes ==
    ASSUME WTypes, NEW w \in Workers, NEW kind, NEW record \in Ops, Goes(w, kind, record), DataTypes',
           record.kind \in Binders \ {"unbind"} =>
              record.folder # NoRow /\ (record.pc = "project" => record.project # NoRow),
           record.kind = "bind" => record.project # NoRow /\ record.pc \in {"folder", "project"}
    PROVE  WTypes'
<1>1. /\ op' \in [Workers -> Ops] /\ op'[w] = record
      /\ \A v \in Workers \ {w} : op'[v] = op[v]
  BY GoesTyped DEF WTypes
<1>2. BindFolder'
  BY <1>1 DEF WTypes, BindFolder
<1> QED BY <1>1, <1>2 DEF WTypes

LEMMA BeginKeepsTypes ==
    ASSUME WTypes, NEW w \in Workers, NEW record \in Ops, Begin(w, record), DataTypes',
           record.kind \in Binders \ {"unbind"} =>
              record.folder # NoRow /\ (record.pc = "project" => record.project # NoRow),
           record.kind = "bind" => record.project # NoRow /\ record.pc \in {"folder", "project"}
    PROVE  WTypes'
<1>1. /\ op' \in [Workers -> Ops] /\ op'[w] = record
      /\ \A v \in Workers \ {w} : op'[v].kind = op[v].kind /\ (op[v].kind # "scan" => op'[v] = op[v])
  BY BeginTyped DEF WTypes
<1>2. BindFolder'
  BY <1>1 DEF WTypes, BindFolder, Binders
<1> QED BY <1>1, <1>2 DEF WTypes

LEMMA BindStartTypes ==
    ASSUME WTypes, NEW w \in Workers, NEW p \in projects \cup {NoRow}, NEW f \in folders \cup {NoRow},
           BindStart(w, p, f)
    PROVE  WTypes'
<1> DEFINE id == IF p = NoRow THEN fresh ELSE p
           new == IF f = NoRow THEN [id |-> fresh + 1, project |-> id, sync |-> FALSE]
                  ELSE [f EXCEPT !.project = id]
           record == [kind |-> "bind", pc |-> "folder", project |-> id, folder |-> new]
<1>1. id \in Nat /\ NoRow \notin Nat
  BY WorkspaceAssumption DEF WorkspaceAssumption, WTypes, DataTypes
<1>2. new \in FolderRow
  BY <1>1 DEF FolderRow, WTypes, DataTypes
<1>3. NoRow \notin FolderRow
  BY NoRowAssumption
<1>4. Begin(w, record) /\ fresh' = fresh + 2 /\ UNCHANGED <<binding, index, library, notes>>
  BY DEF BindStart
<1> HIDE DEF new, id
<1>5. record \in Ops
  BY <1>1, <1>2 DEF Ops, BinderOps, Binders
<1>6. /\ record.kind = "bind" /\ record.folder # NoRow /\ record.project # NoRow
      /\ record.pc = "folder"
  BY <1>1, <1>2, <1>3
<1> HIDE DEF record
<1>7. raced' \in BOOLEAN /\ UNCHANGED <<files, edits>>
  BY <1>4, <1>5, BeginTyped DEF WTypes, DataTypes
<1>8. DataTypes'
  BY <1>4, <1>7 DEF WTypes, DataTypes, binding, library, notes
<1> QED BY <1>4, <1>5, <1>6, <1>8, BeginKeepsTypes

LEMMA SyncStartTypes ==
    ASSUME WTypes, NEW w \in Workers, NEW kind \in Binders,
           NEW p \in projects \cup {NoRow}, NEW f \in folders \cup {NoRow}, SyncStart(w, kind, p, f)
    PROVE  WTypes'
<1> DEFINE record == [kind |-> kind, pc |-> IF kind = "poll" THEN "folder" ELSE "call",
                      project |-> p, folder |-> f]
<1>1. /\ Begin(w, record) /\ UNCHANGED <<binding, index, library, notes, fresh>>
      /\ kind # "bind" /\ (f = NoRow => kind = "unbind")
  BY DEF SyncStart
<1>2. record \in Ops
  BY DEF Ops, BinderOps, WTypes, DataTypes
<1>3. record.kind = kind /\ record.folder = f /\ record.pc # "project"
  OBVIOUS
<1> HIDE DEF record
<1>4. raced' \in BOOLEAN /\ UNCHANGED <<files, edits>>
  BY <1>1, <1>2, BeginTyped DEF WTypes, DataTypes
<1>5. DataTypes'
  BY <1>1, <1>4 DEF WTypes, DataTypes, binding, library, notes
<1> QED BY <1>1, <1>2, <1>3, <1>5, BeginKeepsTypes

\* A binding operation's next record.
LEMMA BinderNext ==
    ASSUME NEW o \in BinderOps, NEW q, NEW pc \in {"folder", "project", "index", "library", "binding"},
           q = [o EXCEPT !.pc = pc]
    PROVE  /\ q \in BinderOps /\ q.kind = o.kind /\ q.pc = pc
           /\ q.project = o.project /\ q.folder = o.folder
  BY DEF BinderOps

-----------------------------------------------------------------------------
(* What each step does, with the records written out.                         *)

\* Only w's operation goes on; the rest of the operations stay.
OthersKeep(w) == \A v \in Workers \ {w} : op'[v] = op[v]

\* A scan's next record.
LEMMA ScanNext ==
    ASSUME NEW o \in ScanOps, NEW q, NEW f, NEW ok \in BOOLEAN, q = [o EXCEPT !.left = @ \ {f}, !.ok = ok]
    PROVE  /\ q \in ScanOps /\ q.kind = "scan" /\ q.pc = o.pc /\ q.project = o.project
           /\ q.left = o.left \ {f} /\ q.ok = ok /\ q.unlisted = o.unlisted /\ q.calm = o.calm
  BY DEF ScanOps

\* A step of w's scan, which stays w's operation.
ScanGoes(w) ==
    /\ op[w] \in ScanOps /\ op[w].pc = "files" /\ op'[w] \in ScanOps
    /\ op'[w].project = op[w].project /\ op'[w].calm = op[w].calm
    /\ op' \in [Workers -> Ops] /\ OthersKeep(w)
    /\ UNCHANGED <<files, raced, cut, edits, begun, deaths, binding, library, notes>>

LEMMA PassOverDoes ==
    ASSUME WTypes, NEW w \in Workers, NEW f \in Files, PassOver(w, f)
    PROVE  /\ ScanGoes(w) /\ f \in op[w].left /\ op'[w].pc = "files"
           /\ op'[w].left = op[w].left \ {f} /\ op'[w].ok = op[w].ok
           /\ op'[w].unlisted = op[w].unlisted \cup {f}
           /\ UNCHANGED <<index, fresh>>
<1>1. op[w].kind = "scan" /\ op[w] \in Ops
  BY DEF PassOver, WTypes
<1>2. op[w] \in ScanOps
  BY <1>1, OpKinds
<1>3. PICK q : q = [op[w] EXCEPT !.left = @ \ {f}, !.unlisted = @ \cup {f}] /\ Goes(w, "scan", q)
  BY DEF PassOver
<1>4. q \in ScanOps /\ q.pc = op[w].pc /\ q.project = op[w].project /\ q.left = op[w].left \ {f}
      /\ q.ok = op[w].ok /\ q.unlisted = op[w].unlisted \cup {f} /\ q.calm = op[w].calm
  BY <1>2, <1>3 DEF ScanOps
<1>5. q \in Ops
  BY <1>4 DEF Ops
<1>6. /\ op' \in [Workers -> Ops] /\ op'[w] = q /\ OthersKeep(w)
      /\ UNCHANGED <<files, raced, cut, edits, begun, deaths>>
  BY <1>3, <1>5, GoesTyped DEF WTypes, OthersKeep
<1>7. UNCHANGED <<binding, library, notes, index, fresh>> /\ op[w].pc = "files" /\ f \in op[w].left
  BY DEF PassOver
<1> QED BY <1>2, <1>4, <1>6, <1>7 DEF ScanGoes

LEMMA ScanFailsDoes ==
    ASSUME WTypes, NEW w \in Workers, ScanFails(w)
    PROVE  /\ ScanGoes(w) /\ op'[w].pc = "finish" /\ ~op'[w].ok /\ op'[w].left = op[w].left
           /\ op'[w].unlisted = op[w].unlisted /\ UNCHANGED <<index, fresh>>
<1>1. op[w].kind = "scan" /\ op[w] \in Ops
  BY DEF ScanFails, WTypes
<1>2. op[w] \in ScanOps
  BY <1>1, OpKinds
<1>3. PICK q : q = [op[w] EXCEPT !.pc = "finish", !.ok = FALSE] /\ Goes(w, "scan", q)
  BY DEF ScanFails
<1>4. q \in ScanOps /\ q.pc = "finish" /\ q.project = op[w].project /\ q.left = op[w].left
      /\ ~q.ok /\ q.unlisted = op[w].unlisted /\ q.calm = op[w].calm
  BY <1>2, <1>3 DEF ScanOps
<1>5. q \in Ops
  BY <1>4 DEF Ops
<1>6. /\ op' \in [Workers -> Ops] /\ op'[w] = q /\ OthersKeep(w)
      /\ UNCHANGED <<files, raced, cut, edits, begun, deaths>>
  BY <1>3, <1>5, GoesTyped DEF WTypes, OthersKeep
<1>7. UNCHANGED <<binding, library, notes, index, fresh>> /\ op[w].pc = "files"
  BY DEF ScanFails
<1> QED BY <1>2, <1>4, <1>6, <1>7 DEF ScanGoes

LEMMA IndexFileDoes ==
    ASSUME WTypes, NEW w \in Workers, NEW f \in Files, IndexFile(w, f)
    PROVE  /\ op[w] \in ScanOps /\ op[w].pc = "files" /\ f \in op[w].left /\ files[f] # 0
           /\ op'[w] \in ScanOps /\ op'[w].pc = "files" /\ op'[w].project = op[w].project
           /\ op'[w].left = op[w].left \ {f} /\ op'[w].ok = op[w].ok /\ op'[w].calm = op[w].calm
           /\ op'[w].unlisted = op[w].unlisted
           /\ op' \in [Workers -> Ops] /\ OthersKeep(w)
           /\ UNCHANGED <<files, raced, cut, edits, begun, deaths, binding, library, notes>>
<1>1. op[w].kind = "scan" /\ op[w] \in Ops
  BY DEF IndexFile, WTypes
<1>2. op[w] \in ScanOps
  BY <1>1, OpKinds
<1>3. PICK q : q = [op[w] EXCEPT !.left = @ \ {f}] /\ Goes(w, "scan", q)
  BY DEF IndexFile
<1>4. q \in ScanOps /\ q.pc = op[w].pc /\ q.project = op[w].project
      /\ q.left = op[w].left \ {f} /\ q.ok = op[w].ok /\ q.calm = op[w].calm
      /\ q.unlisted = op[w].unlisted
  BY <1>2, <1>3 DEF ScanOps
<1>5. q \in Ops
  BY <1>4 DEF Ops
<1>6. /\ op' \in [Workers -> Ops] /\ op'[w] = q /\ OthersKeep(w)
      /\ UNCHANGED <<files, raced, cut, edits, begun, deaths>>
  BY <1>3, <1>5, GoesTyped DEF WTypes, OthersKeep
<1>7. UNCHANGED <<binding, library, notes>> /\ op[w].pc = "files" /\ f \in op[w].left /\ files[f] # 0
  BY DEF IndexFile
<1> QED BY <1>2, <1>4, <1>6, <1>7

LEMMA SkipFileDoes ==
    ASSUME WTypes, NEW w \in Workers, NEW f \in Files, SkipFile(w, f)
    PROVE  /\ op[w] \in ScanOps /\ op[w].pc = "files" /\ f \in op[w].left
           /\ op'[w] \in ScanOps /\ op'[w].pc = "files" /\ op'[w].project = op[w].project
           /\ op'[w].left = op[w].left \ {f} /\ op'[w].ok = (op[w].ok /\ files[f] = 0)
           /\ op'[w].calm = op[w].calm /\ op'[w].unlisted = op[w].unlisted
           /\ op' \in [Workers -> Ops] /\ OthersKeep(w)
           /\ UNCHANGED <<files, raced, cut, edits, begun, deaths, binding, library, notes, index, fresh>>
<1>1. op[w].kind = "scan" /\ op[w] \in Ops
  BY DEF SkipFile, WTypes
<1>2. op[w] \in ScanOps
  BY <1>1, OpKinds
<1>3. PICK q : q = [op[w] EXCEPT !.left = @ \ {f}, !.ok = @ /\ files[f] = 0] /\ Goes(w, "scan", q)
  BY DEF SkipFile
<1>4. q \in ScanOps /\ q.pc = op[w].pc /\ q.project = op[w].project
      /\ q.left = op[w].left \ {f} /\ q.ok = (op[w].ok /\ files[f] = 0) /\ q.calm = op[w].calm
      /\ q.unlisted = op[w].unlisted
  BY <1>2, <1>3 DEF ScanOps
<1>5. q \in Ops
  BY <1>4 DEF Ops
<1>6. /\ op' \in [Workers -> Ops] /\ op'[w] = q /\ OthersKeep(w)
      /\ UNCHANGED <<files, raced, cut, edits, begun, deaths>>
  BY <1>3, <1>5, GoesTyped DEF WTypes, OthersKeep
<1>7. UNCHANGED <<binding, library, notes, index, fresh>> /\ op[w].pc = "files" /\ f \in op[w].left
  BY DEF SkipFile
<1> QED BY <1>2, <1>4, <1>6, <1>7

LEMMA MarkMissingDoes ==
    ASSUME WTypes, NEW w \in Workers, MarkMissing(w)
    PROVE  /\ op[w] \in ScanOps /\ op[w].pc = "files" /\ op[w].left = {}
           /\ op'[w] \in ScanOps /\ op'[w].pc = "finish" /\ op'[w].project = op[w].project
           /\ op'[w].left = {} /\ op'[w].ok = op[w].ok /\ op'[w].calm = op[w].calm
           /\ op'[w].unlisted = op[w].unlisted
           /\ op' \in [Workers -> Ops] /\ OthersKeep(w)
           /\ index' = {[r EXCEPT !.exists = @ /\ ~(r.project = op[w].project /\ r.seen # w)] : r \in index}
           /\ UNCHANGED <<files, raced, cut, edits, begun, deaths, binding, library, notes, fresh>>
<1>1. op[w].kind = "scan" /\ op[w] \in Ops
  BY DEF MarkMissing, WTypes
<1>2. op[w] \in ScanOps
  BY <1>1, OpKinds
<1>3. PICK q : q = [op[w] EXCEPT !.pc = "finish"] /\ Goes(w, "scan", q)
  BY DEF MarkMissing
<1>4. q \in ScanOps /\ q.pc = "finish" /\ q.project = op[w].project
      /\ q.left = op[w].left /\ q.ok = op[w].ok /\ q.calm = op[w].calm
      /\ q.unlisted = op[w].unlisted
  BY <1>2, <1>3 DEF ScanOps
<1>5. q \in Ops
  BY <1>4 DEF Ops
<1>6. /\ op' \in [Workers -> Ops] /\ op'[w] = q /\ OthersKeep(w)
      /\ UNCHANGED <<files, raced, cut, edits, begun, deaths>>
  BY <1>3, <1>5, GoesTyped DEF WTypes, OthersKeep
<1>7. /\ UNCHANGED <<binding, library, notes, fresh>> /\ op[w].pc = "files" /\ op[w].left = {}
      /\ index' = {[r EXCEPT !.exists = @ /\ ~(r.project = op[w].project /\ r.seen # w)] : r \in index}
  BY DEF MarkMissing
<1> QED BY <1>2, <1>4, <1>6, <1>7

\* An operation that ends, however it ends.
LEMMA EndDoes ==
    ASSUME WTypes, NEW w \in Workers, NEW kind, Goes(w, kind, Idle)
    PROVE  /\ op[w].kind = kind /\ op'[w] = Idle /\ op' \in [Workers -> Ops] /\ OthersKeep(w)
           /\ UNCHANGED <<files, raced, cut, edits, begun, deaths>>
<1>1. Idle \in Ops
  BY DEF Ops
<1> QED BY <1>1, GoesTyped DEF WTypes, OthersKeep

\* An operation begins.  Those of the others stay, but for what a scan that is
\* disturbed remembers of it.
BeginDoes(w) ==
    /\ op[w] = Idle /\ op' \in [Workers -> Ops]
    /\ \A v \in Workers \ {w} : op'[v].kind = op[v].kind /\ (op[v].kind # "scan" => op'[v] = op[v])
    /\ \A v \in Workers \ {w} : op[v].kind = "scan" => op'[v].project = op[v].project
    /\ raced' = (raced \/ \E v \in Workers \ {w} :
                    op[v] # Idle /\ {op'[w].kind, op[v].kind} \cap Binders # {})
    /\ raced' \in BOOLEAN
    /\ UNCHANGED <<files, cut, edits, deaths>>

LEMMA BeginsAs ==
    ASSUME WTypes, NEW w \in Workers, NEW record \in Ops, Begin(w, record)
    PROVE  BeginDoes(w) /\ op'[w] = record
<1>1. /\ op' \in [Workers -> Ops] /\ op'[w] = record /\ op[w] = Idle
      /\ \A v \in Workers \ {w} : op'[v].kind = op[v].kind
      /\ \A v \in Workers \ {w} : op[v].kind # "scan" => op'[v] = op[v]
      /\ \A v \in Workers \ {w} : op[v].kind = "scan" => op'[v].project = op[v].project
      /\ UNCHANGED <<files, cut, edits, deaths>>
  BY BeginTyped DEF WTypes
<1>2. raced' = (raced \/ \E v \in Workers \ {w} :
                    op[v] # Idle /\ {record.kind, op[v].kind} \cap Binders # {})
  BY DEF Begin
<1>3. raced \in BOOLEAN
  BY DEF WTypes, DataTypes
<1>4. raced' \in BOOLEAN
  BY <1>2, <1>3
<1> QED BY <1>1, <1>2, <1>4 DEF BeginDoes

LEMMA ScanStartDoes ==
    ASSUME WTypes, NEW w \in Workers, NEW f \in folders, ScanStart(w, f)
    PROVE  /\ BeginDoes(w) /\ op'[w] \in ScanOps /\ op'[w].pc = "files" /\ op'[w].project = f.project
           /\ op'[w].left = Files /\ op'[w].ok /\ op'[w].unlisted = {} /\ f \in FolderRow
           /\ op'[w].calm = ~\E v \in Workers : op[v].kind \in Disturbs
           /\ index' = {[r EXCEPT !.seen = IF @ = w THEN "old" ELSE @] : r \in index}
           /\ UNCHANGED <<binding, library, notes, fresh>>
<1> DEFINE record == [kind |-> "scan", pc |-> "files", project |-> f.project, left |-> Files, ok |-> TRUE,
                      unlisted |-> {}, calm |-> ~\E v \in Workers : op[v].kind \in Disturbs]
<1>1. /\ Begin(w, record) /\ UNCHANGED <<binding, library, notes, fresh>>
      /\ index' = {[r EXCEPT !.seen = IF @ = w THEN "old" ELSE @] : r \in index}
  BY DEF ScanStart
<1>2. f \in FolderRow
  BY DEF WTypes, DataTypes
<1>3. record \in ScanOps
  BY <1>2 DEF ScanOps, FolderRow
<1>4. record \in Ops
  BY <1>3 DEF Ops
<1>5. /\ record.pc = "files" /\ record.project = f.project /\ record.left = Files /\ record.ok /\ record.unlisted = {}
      /\ record.calm = ~\E v \in Workers : op[v].kind \in Disturbs
  OBVIOUS
<1> HIDE DEF record
<1> QED BY <1>1, <1>2, <1>3, <1>4, <1>5, BeginsAs

LEMMA BuildStartDoes ==
    ASSUME WTypes, NEW w \in Workers, BuildStart(w)
    PROVE  /\ BeginDoes(w) /\ op'[w] \in BuildOps /\ op'[w].pc = "known" /\ op'[w].rows = index
           /\ op'[w].known = {} /\ op'[w].gone = {} /\ op'[w].at = NoRow
           /\ UNCHANGED <<binding, index, library, notes, fresh>>
<1> DEFINE record == [kind |-> "build", pc |-> "known", rows |-> index, known |-> {}, at |-> NoRow,
                      gone |-> {}]
<1>1. Begin(w, record) /\ UNCHANGED <<binding, index, library, notes, fresh>>
  BY DEF BuildStart
<1>2. record \in BuildOps
  BY DEF BuildOps, WTypes, DataTypes
<1>3. record \in Ops
  BY <1>2 DEF Ops
<1>4. /\ record.pc = "known" /\ record.rows = index /\ record.known = {} /\ record.gone = {}
      /\ record.at = NoRow
  OBVIOUS
<1> HIDE DEF record
<1> QED BY <1>1, <1>2, <1>3, <1>4, BeginsAs

\* A build's next record.
BuildGoes(w) ==
    /\ op[w] \in BuildOps /\ op'[w] \in BuildOps /\ op' \in [Workers -> Ops] /\ OthersKeep(w)
    /\ UNCHANGED <<files, raced, cut, edits, begun, deaths>>

LEMMA BuildGoesAs ==
    ASSUME WTypes, NEW w \in Workers, NEW q \in BuildOps, Goes(w, "build", q)
    PROVE  BuildGoes(w) /\ op'[w] = q
<1>1. q \in Ops
  BY DEF Ops
<1>2. op[w] \in Ops /\ op[w].kind = "build"
  BY DEF Goes, WTypes
<1> QED BY <1>1, <1>2, GoesTyped, OpKinds DEF WTypes, BuildGoes, OthersKeep

LEMMA BuildOf == ASSUME WTypes, NEW w \in Workers, op[w].kind = "build" PROVE op[w] \in BuildOps
  BY OpKinds DEF WTypes

LEMMA ReadSourcesDoes ==
    ASSUME WTypes, NEW w \in Workers, ReadSources(w)
    PROVE  /\ BuildGoes(w) /\ op[w].pc = "known"
           /\ op'[w].pc = "files" /\ op'[w].rows = op[w].rows /\ op'[w].at = op[w].at
           /\ op'[w].known = sources /\ op'[w].gone \subseteq sources
           /\ UNCHANGED <<binding, index, library, notes, fresh>>
<1> DEFINE gone == {s \in sources : \A r \in op[w].rows : r.id # s.id}
<1>1. PICK q : q = [op[w] EXCEPT !.pc = "files", !.known = sources, !.gone = gone] /\ Goes(w, "build", q)
  BY DEF ReadSources
<1>2. op[w] \in BuildOps
  BY BuildOf DEF ReadSources
<1>3. gone \subseteq sources /\ gone \subseteq GoneRow
  BY DEF WTypes, DataTypes, SourceRow, GoneRow
<1> HIDE DEF gone
<1>4. /\ q \in BuildOps /\ q.pc = "files" /\ q.rows = op[w].rows /\ q.at = op[w].at /\ q.known = sources
      /\ q.gone = gone
  BY <1>1, <1>2, <1>3 DEF BuildOps, WTypes, DataTypes
<1>5. op[w].pc = "known" /\ UNCHANGED <<binding, index, library, notes, fresh>>
  BY DEF ReadSources
<1> QED BY <1>1, <1>3, <1>4, <1>5, BuildGoesAs

LEMMA SkipRowDoes ==
    ASSUME WTypes, NEW w \in Workers, NEW row, SkipRow(w, row)
    PROVE  /\ BuildGoes(w) /\ op[w].pc = "files" /\ op'[w].pc = "files"
           /\ op'[w].rows = op[w].rows \ {row} /\ op'[w].at = op[w].at /\ op'[w].known = op[w].known
           /\ op'[w].gone = op[w].gone
           /\ UNCHANGED <<binding, index, library, notes, fresh>>
<1>1. PICK q : q = [op[w] EXCEPT !.rows = @ \ {row}] /\ Goes(w, "build", q)
  BY DEF SkipRow
<1>2. op[w] \in BuildOps
  BY BuildOf DEF SkipRow
<1>3. /\ q \in BuildOps /\ q.pc = op[w].pc /\ q.rows = op[w].rows \ {row} /\ q.at = op[w].at
      /\ q.known = op[w].known /\ q.gone = op[w].gone
  BY <1>1, <1>2 DEF BuildOps
<1>4. op[w].pc = "files" /\ UNCHANGED <<binding, index, library, notes, fresh>>
  BY DEF SkipRow
<1> QED BY <1>1, <1>3, <1>4, BuildGoesAs

\* The source id that w gives a row it takes: that of the source it read, or new.
LEMMA TakeRowDoes ==
    ASSUME WTypes, NEW w \in Workers, op[w].kind = "build", NEW row \in op[w].rows, TakeRow(w, row)
    PROVE  \E sid \in Nat :
             /\ BuildGoes(w) /\ op[w].pc = "files" /\ op'[w].pc = "files" /\ op[w].at = NoRow
             /\ row \in IndexRow
             /\ op'[w].rows = op[w].rows \ {row} /\ op'[w].known = op[w].known
             /\ op'[w].gone = op[w].gone
             /\ op'[w].at \in TakenRow /\ op'[w].at.row = row /\ op'[w].at.sid = sid
             /\ ~op'[w].at.insert /\ op'[w].at # NoRow
             /\ row.exists => \A s \in op[w].known : s.id = row.id => s.status # "deleted_local"
             /\ \/ /\ \A s \in op[w].known : s.id # row.id
                   /\ sid = fresh /\ fresh' = fresh + 1
                   /\ named' = named \cup {[id |-> row.id, sid |-> sid]}
                \/ /\ \E s \in op[w].known : s.id = row.id /\ s.sid = sid
                   /\ UNCHANGED <<fresh, named>>
             /\ chunks' = chunks \ {sid} /\ fts' = {r \in fts : r.sid # sid}
             /\ UNCHANGED <<binding, index, sources, kept, hidden, vanished>>
<1> DEFINE source == {s \in op[w].known : s.id = row.id}
           sid == IF source = {} THEN fresh ELSE (CHOOSE s \in source : TRUE).sid
           at == [row |-> row, sid |-> sid, insert |-> FALSE]
<1>1. PICK q : q = [op[w] EXCEPT !.rows = @ \ {row}, !.at = at] /\ Goes(w, "build", q)
  BY DEF TakeRow
<1>2. op[w] \in BuildOps
  BY BuildOf
<1>3. op[w].known \subseteq SourceRow /\ row \in IndexRow /\ fresh \in Nat
  BY <1>2 DEF BuildOps, WTypes, DataTypes
<1>4. source # {} => (CHOOSE s \in source : TRUE) \in source
  BY Chosen
<1>5. /\ sid \in Nat
      /\ \/ source = {} /\ sid = fresh
         \/ source # {} /\ \E s \in source : s.sid = sid
  BY <1>3, <1>4 DEF SourceRow
<1>6. /\ op[w].pc = "files" /\ op[w].at = NoRow
      /\ row.exists => \A s \in source : ~LeftAlone(row, s)
      /\ chunks' = chunks \ {sid} /\ fts' = {r \in fts : r.sid # sid}
      /\ fresh' = IF source = {} THEN fresh + 1 ELSE fresh
      /\ named' = IF source = {} THEN named \cup {[id |-> row.id, sid |-> sid]} ELSE named
      /\ UNCHANGED <<binding, index, sources, kept, hidden, vanished>>
  BY DEF TakeRow, DeleteChunks
<1> HIDE DEF sid
<1>7. at \in TakenRow /\ at.row = row /\ at.sid = sid /\ ~at.insert
  BY <1>3, <1>5 DEF TakenRow
<1>8. at # NoRow
  BY <1>7, NoRowAssumption
<1> HIDE DEF at
<1>9. /\ q \in BuildOps /\ q.pc = op[w].pc /\ q.rows = op[w].rows \ {row} /\ q.at = at
      /\ q.known = op[w].known /\ q.gone = op[w].gone
  BY <1>1, <1>2, <1>7 DEF BuildOps
<1>10. BuildGoes(w) /\ op'[w] = q
  BY <1>1, <1>9, BuildGoesAs
<1>11. row.exists => \A s \in op[w].known : s.id = row.id => s.status # "deleted_local"
  BY <1>6 DEF LeftAlone
<1> QED BY <1>3, <1>5, <1>6, <1>7, <1>8, <1>9, <1>10, <1>11

\* The source row that _upsert_source leaves for an index row.
LEMMA UpsertDoes ==
    ASSUME DataTypes, NEW row \in IndexRow, NEW sid \in Nat,
           NEW status \in {"indexed", "skipped", "error", "missing"}, Upsert(row, sid, status)
    PROVE  \E new \in SourceRow :
             /\ new.id = row.id /\ new.project = row.project /\ new.status = status
             /\ \/ new.sid = sid /\ \A s \in sources : s.id # row.id
                \/ \E s \in sources : s.id = row.id /\ s.sid = new.sid
             /\ sources' = {s \in sources : s.id # row.id} \cup {new}
<1> DEFINE old == {s \in sources : s.id = row.id}
           kept_sid == IF old = {} THEN sid ELSE (CHOOSE s \in old : TRUE).sid
           new == [id |-> row.id, project |-> row.project, ver |-> row.ver, status |-> status,
                   sid |-> kept_sid]
<1>1. old # {} => (CHOOSE s \in old : TRUE) \in old
  BY Chosen
<1>2. /\ kept_sid \in Nat
      /\ \/ old = {} /\ kept_sid = sid
         \/ \E s \in old : s.sid = kept_sid
  BY <1>1 DEF DataTypes, SourceRow
<1>3. sources' = (sources \ old) \cup {new}
  BY DEF Upsert
<1> HIDE DEF kept_sid
<1>4. new \in SourceRow
  BY <1>2 DEF IndexRow, SourceRow
<1> QED BY <1>2, <1>3, <1>4

LEMMA AtTyped ==
    ASSUME WTypes, NEW w \in Workers, op[w].kind = "build", op[w].at # NoRow
    PROVE  /\ op[w] \in BuildOps /\ op[w].at \in TakenRow /\ op[w].at.row \in IndexRow
           /\ op[w].at.sid \in Nat
  BY BuildOf DEF BuildOps, TakenRow

LEMMA WriteSourceDoes ==
    ASSUME WTypes, NEW w \in Workers, WriteSource(w)
    PROVE  /\ BuildGoes(w) /\ op[w].at # NoRow /\ op[w].at \in TakenRow /\ ~op[w].at.insert
           /\ op'[w].pc = op[w].pc /\ op'[w].rows = op[w].rows /\ op'[w].known = op[w].known
           /\ op'[w].gone = op[w].gone
           /\ \E status \in {"indexed", "skipped", "error", "missing"} :
                 /\ Upsert(op[w].at.row, op[w].at.sid, status)
                 /\ status = "missing" <=> ~op[w].at.row.exists
                 /\ status # "indexed" => op'[w].at = NoRow
                 /\ status = "indexed" => /\ op'[w].at \in TakenRow /\ op'[w].at.row = op[w].at.row
                                          /\ op'[w].at.sid = op[w].at.sid /\ op'[w].at.insert
                                          /\ op'[w].at # NoRow
                 /\ vanished' = IF status = "missing" THEN vanished \cup {op[w].at.row.id} ELSE vanished
           /\ UNCHANGED <<binding, index, chunks, fts, kept, hidden, named, fresh>>
<1>1. PICK status \in Content(op[w].at.row) :
         /\ Upsert(op[w].at.row, op[w].at.sid, status)
         /\ vanished' = IF status = "missing" THEN vanished \cup {op[w].at.row.id} ELSE vanished
         /\ Goes(w, "build", [op[w] EXCEPT !.at = IF status = "indexed"
                                                  THEN [op[w].at EXCEPT !.insert = TRUE] ELSE NoRow])
  BY DEF WriteSource
<1>2. /\ op[w].kind = "build" /\ op[w].at # NoRow /\ ~op[w].at.insert
      /\ UNCHANGED <<binding, index, chunks, fts, kept, hidden, named, fresh>>
  BY DEF WriteSource
<1>3. op[w] \in BuildOps /\ op[w].at \in TakenRow /\ op[w].at.row \in IndexRow
  BY <1>2, AtTyped
<1>4. status \in {"indexed", "skipped", "error", "missing"} /\ (status = "missing" <=> ~op[w].at.row.exists)
  BY DEF Content
<1>5. PICK at : at = IF status = "indexed" THEN [op[w].at EXCEPT !.insert = TRUE] ELSE NoRow
  OBVIOUS
<1>6. PICK q : q = [op[w] EXCEPT !.at = at] /\ Goes(w, "build", q)
  BY <1>1, <1>5
<1>7. status = "indexed" => at \in TakenRow /\ at.row = op[w].at.row /\ at.sid = op[w].at.sid /\ at.insert
  BY <1>3, <1>5 DEF TakenRow
<1>8. at \in TakenRow \cup {NoRow} /\ (status # "indexed" => at = NoRow)
      /\ (status = "indexed" => at # NoRow)
  BY <1>5, <1>7, NoRowAssumption
<1>9. /\ q \in BuildOps /\ q.pc = op[w].pc /\ q.rows = op[w].rows /\ q.at = at
      /\ q.known = op[w].known /\ q.gone = op[w].gone
  BY <1>3, <1>6, <1>8 DEF BuildOps
<1>10. BuildGoes(w) /\ op'[w] = q
  BY <1>6, <1>9, BuildGoesAs
<1> QED BY <1>1, <1>2, <1>3, <1>4, <1>7, <1>8, <1>9, <1>10

LEMMA InsertChunksDoes ==
    ASSUME WTypes, NEW w \in Workers, InsertChunks(w)
    PROVE  /\ BuildGoes(w) /\ op[w].at # NoRow /\ op[w].at \in TakenRow /\ op[w].at.insert
           /\ op'[w].pc = op[w].pc /\ op'[w].rows = op[w].rows /\ op'[w].known = op[w].known
           /\ op'[w].gone = op[w].gone /\ op'[w].at = NoRow
           /\ \/ /\ op[w].at.sid \in chunks /\ Upsert(op[w].at.row, op[w].at.sid, "error")
                 /\ UNCHANGED <<chunks, fts>>
              \/ /\ chunks' = chunks \cup {op[w].at.sid} /\ UNCHANGED sources
                 /\ fts' = fts \cup {[sid |-> op[w].at.sid, project |-> op[w].at.row.project]}
           /\ UNCHANGED <<binding, index, notes, fresh>>
<1>1. /\ op[w].kind = "build" /\ op[w].at # NoRow /\ op[w].at.insert
      /\ UNCHANGED <<binding, index, notes, fresh>>
      /\ \/ /\ op[w].at.sid \in chunks /\ Upsert(op[w].at.row, op[w].at.sid, "error")
            /\ UNCHANGED <<chunks, fts>>
         \/ /\ chunks' = chunks \cup {op[w].at.sid} /\ UNCHANGED sources
            /\ fts' = fts \cup {[sid |-> op[w].at.sid, project |-> op[w].at.row.project]}
  BY DEF InsertChunks
<1>2. op[w] \in BuildOps /\ op[w].at \in TakenRow
  BY <1>1, AtTyped
<1>3. PICK q : q = [op[w] EXCEPT !.at = NoRow] /\ Goes(w, "build", q)
  BY DEF InsertChunks
<1>4. /\ q \in BuildOps /\ q.pc = op[w].pc /\ q.rows = op[w].rows /\ q.at = NoRow
      /\ q.known = op[w].known /\ q.gone = op[w].gone
  BY <1>2, <1>3 DEF BuildOps
<1> QED BY <1>1, <1>2, <1>3, <1>4, BuildGoesAs

\* A source that left the index: its chunks, then its row.
LEMMA DropGoneDoes ==
    ASSUME WTypes, NEW w \in Workers, op[w].kind = "build", NEW s \in op[w].gone, DropGone(w, s)
    PROVE  /\ BuildGoes(w) /\ s \in GoneRow /\ op[w].pc = "files" /\ op[w].rows = {} /\ op[w].at = NoRow
           /\ op'[w].pc = "files" /\ op'[w].rows = {} /\ op'[w].known = op[w].known /\ op'[w].at = NoRow
           /\ \/ /\ s.status # "dropping"
                 /\ chunks' = chunks \ {s.sid} /\ fts' = {r \in fts : r.sid # s.sid}
                 /\ UNCHANGED <<sources, vanished>>
                 /\ \E t \in GoneRow : /\ t.id = s.id /\ t.sid = s.sid /\ t.status = "dropping"
                                       /\ op'[w].gone = (op[w].gone \ {s}) \cup {t}
              \/ /\ s.status = "dropping" /\ Mark(s.sid, "missing") /\ UNCHANGED <<chunks, fts>>
                 /\ vanished' = vanished \cup {s.id}
                 /\ op'[w].gone = op[w].gone \ {s}
           /\ UNCHANGED <<binding, index, kept, hidden, named, fresh>>
<1>1. op[w] \in BuildOps /\ s \in GoneRow
  BY BuildOf DEF BuildOps
<1>2. /\ op[w].pc = "files" /\ op[w].rows = {} /\ op[w].at = NoRow
      /\ UNCHANGED <<binding, index, kept, hidden, named, fresh>>
  BY DEF DropGone
<1>3. PICK t : t = [s EXCEPT !.status = "dropping"]
  OBVIOUS
<1>4. t \in GoneRow /\ t.id = s.id /\ t.sid = s.sid /\ t.status = "dropping"
  BY <1>1, <1>3 DEF GoneRow
<1>5. CASE /\ s.status # "dropping"
           /\ DeleteChunks(s.sid) /\ UNCHANGED <<sources, vanished>>
           /\ Goes(w, "build", [op[w] EXCEPT !.gone = (@ \ {s}) \cup {t}])
  <2>1. PICK q : q = [op[w] EXCEPT !.gone = (@ \ {s}) \cup {t}] /\ Goes(w, "build", q)
    BY <1>5
  <2>2. /\ q \in BuildOps /\ q.pc = op[w].pc /\ q.rows = op[w].rows /\ q.at = op[w].at
        /\ q.known = op[w].known /\ q.gone = (op[w].gone \ {s}) \cup {t}
    BY <1>1, <1>4, <2>1 DEF BuildOps
  <2> QED BY <1>1, <1>2, <1>4, <1>5, <2>1, <2>2, BuildGoesAs DEF DeleteChunks
<1>6. CASE /\ s.status = "dropping"
           /\ Mark(s.sid, "missing") /\ UNCHANGED <<chunks, fts>> /\ vanished' = vanished \cup {s.id}
           /\ Goes(w, "build", [op[w] EXCEPT !.gone = @ \ {s}])
  <2>1. PICK q : q = [op[w] EXCEPT !.gone = @ \ {s}] /\ Goes(w, "build", q)
    BY <1>6
  <2>2. /\ q \in BuildOps /\ q.pc = op[w].pc /\ q.rows = op[w].rows /\ q.at = op[w].at
        /\ q.known = op[w].known /\ q.gone = op[w].gone \ {s}
    BY <1>1, <2>1 DEF BuildOps
  <2> QED BY <1>1, <1>2, <1>6, <2>1, <2>2, BuildGoesAs
<1> QED BY <1>3, <1>5, <1>6 DEF DropGone

\* What a mark makes of the sources.
LEMMA MarkDoes ==
    ASSUME DataTypes, NEW sid, NEW status \in {"missing", "deleted_local", "pending"}, Mark(sid, status)
    PROVE  /\ sources' \subseteq SourceRow
           /\ \A t \in sources' : \E s \in sources : /\ t.id = s.id /\ t.sid = s.sid /\ t.project = s.project
                                                     /\ t.status = IF s.sid = sid THEN status ELSE s.status
           /\ \A s \in sources : \E t \in sources' : /\ t.id = s.id /\ t.sid = s.sid /\ t.project = s.project
                                                     /\ t.status = IF s.sid = sid THEN status ELSE s.status
<1>1. ASSUME NEW s \in sources, NEW t, t = [s EXCEPT !.status = IF s.sid = sid THEN status ELSE @]
      PROVE  /\ t \in SourceRow /\ t.id = s.id /\ t.sid = s.sid /\ t.project = s.project
             /\ t.status = IF s.sid = sid THEN status ELSE s.status
  BY <1>1 DEF SourceRow, DataTypes
<1>2. sources' = {[s EXCEPT !.status = IF s.sid = sid THEN status ELSE @] : s \in sources}
  BY DEF Mark
<1>3. ASSUME NEW t \in sources'
      PROVE  t \in SourceRow /\ \E s \in sources : /\ t.id = s.id /\ t.sid = s.sid /\ t.project = s.project
                                                   /\ t.status = IF s.sid = sid THEN status ELSE s.status
  <2>1. PICK s \in sources : t = [s EXCEPT !.status = IF s.sid = sid THEN status ELSE @]
    BY <1>2
  <2> QED BY <1>1, <2>1
<1>4. ASSUME NEW s \in sources
      PROVE  \E t \in sources' : /\ t.id = s.id /\ t.sid = s.sid /\ t.project = s.project
                                 /\ t.status = IF s.sid = sid THEN status ELSE s.status
  <2>1. PICK t \in sources' : t = [s EXCEPT !.status = IF s.sid = sid THEN status ELSE @]
    BY <1>2
  <2> QED BY <1>1, <2>1
<1> QED BY <1>3, <1>4

LEMMA MarkStartDoes ==
    ASSUME WTypes, NEW w \in Workers, NEW s \in sources, NEW status \in {"deleted_local", Restored},
           MarkStart(w, s, status)
    PROVE  /\ BeginDoes(w) /\ op'[w] \in MarkOps /\ op'[w].source = s /\ op'[w].status = status
           /\ chunks' = chunks \ {s.sid} /\ fts' = {r \in fts : r.sid # s.sid}
           /\ UNCHANGED <<binding, index, sources, notes, fresh>>
<1> DEFINE record == [kind |-> "mark", source |-> s, status |-> status]
<1>1. /\ Begin(w, record) /\ UNCHANGED <<binding, index, sources, notes, fresh>>
      /\ chunks' = chunks \ {s.sid} /\ fts' = {r \in fts : r.sid # s.sid}
  BY DEF MarkStart, DeleteChunks
<1>2. record \in MarkOps /\ record.source = s /\ record.status = status
  BY DEF MarkOps, WTypes, DataTypes, Restored
<1>3. record \in Ops
  BY <1>2 DEF Ops
<1> HIDE DEF record
<1> QED BY <1>1, <1>2, <1>3, BeginsAs

\* The file ids of the sources that a mark changes.
Marked(w) == {s.id : s \in {t \in sources : t.sid = op[w].source.sid}}

LEMMA MarkWriteDoes ==
    ASSUME WTypes, NEW w \in Workers, MarkWrite(w)
    PROVE  /\ op[w] \in MarkOps /\ op[w].source \in SourceRow /\ op'[w] = Idle
           /\ op' \in [Workers -> Ops] /\ OthersKeep(w)
           /\ UNCHANGED <<files, raced, cut, edits, begun, deaths>>
           /\ Mark(op[w].source.sid, op[w].status) /\ op[w].status \in {"deleted_local", "pending"}
           /\ \/ op[w].status = "pending" /\ hidden' = hidden \ Marked(w) /\ UNCHANGED vanished
              \/ UNCHANGED <<hidden, vanished>> /\ op[w].status = "deleted_local"
              \/ /\ op[w].status = "deleted_local" /\ \A v \in Workers : op[v].kind # "build"
                 /\ hidden' = hidden \cup Marked(w) /\ vanished' = vanished \ Marked(w)
           /\ UNCHANGED <<binding, index, chunks, fts, kept, named, fresh>>
<1>1. op[w].kind = "mark" /\ Goes(w, "mark", Idle)
  BY DEF MarkWrite
<1>2. op[w] \in MarkOps
  BY <1>1, OpKinds DEF WTypes
<1>3. /\ op'[w] = Idle /\ op' \in [Workers -> Ops] /\ OthersKeep(w)
      /\ UNCHANGED <<files, raced, cut, edits, begun, deaths>>
  BY <1>1, EndDoes
<1>4. op[w].source \in SourceRow /\ op[w].status \in {"deleted_local", "pending"}
  BY <1>2 DEF MarkOps
<1>5. /\ Mark(op[w].source.sid, op[w].status)
      /\ IF op[w].status = Restored THEN hidden' = hidden \ Marked(w) /\ UNCHANGED vanished
         ELSE IF Running({"build"}) THEN UNCHANGED <<hidden, vanished>>
         ELSE hidden' = hidden \cup Marked(w) /\ vanished' = vanished \ Marked(w)
      /\ UNCHANGED <<binding, index, chunks, fts, kept, named, fresh>>
  BY DEF MarkWrite, Marked
<1> QED BY <1>2, <1>3, <1>4, <1>5 DEF Restored, Running

\* The steps of the binding operations.
BinderOf(w) == op[w] \in BinderOps /\ OthersKeep(w) /\ op' \in [Workers -> Ops]
               /\ UNCHANGED <<files, raced, cut, edits, begun, deaths>>

\* w's binding operation goes on at pc.
BinderGoes(w, pc) ==
    /\ op'[w] \in BinderOps /\ op'[w].kind = op[w].kind /\ op'[w].pc = pc
    /\ op'[w].project = op[w].project /\ op'[w].folder = op[w].folder

LEMMA BinderAt == ASSUME WTypes, NEW w \in Workers, op[w].kind \in Binders PROVE op[w] \in BinderOps
  BY OpKinds DEF WTypes

LEMMA BinderGoesAs ==
    ASSUME WTypes, NEW w \in Workers, NEW kind \in Binders,
           NEW pc \in {"folder", "project", "index", "library", "binding"},
           Goes(w, kind, [op[w] EXCEPT !.pc = pc])
    PROVE  BinderOf(w) /\ BinderGoes(w, pc)
<1>1. op[w].kind = kind /\ op[w] \in BinderOps
  BY BinderAt DEF Goes
<1>2. PICK q : q = [op[w] EXCEPT !.pc = pc] /\ Goes(w, kind, q)
  OBVIOUS
<1>3. /\ q \in BinderOps /\ q.kind = op[w].kind /\ q.pc = pc
      /\ q.project = op[w].project /\ q.folder = op[w].folder
  BY <1>1, <1>2, BinderNext
<1>4. q \in Ops
  BY <1>3 DEF Ops
<1> QED BY <1>1, <1>2, <1>3, <1>4, GoesTyped DEF WTypes, BinderOf, BinderGoes, OthersKeep

LEMMA SyncedGoesAs ==
    ASSUME WTypes, NEW w \in Workers, NEW kind \in Binders \ {"unbind"}, NEW sync \in BOOLEAN,
           Goes(w, kind, [op[w] EXCEPT !.pc = "folder", !.folder.sync = sync])
    PROVE  /\ BinderOf(w) /\ op[w].folder \in FolderRow /\ op'[w] \in BinderOps /\ op'[w].kind = kind
           /\ op'[w].pc = "folder" /\ op'[w].project = op[w].project /\ op'[w].folder \in FolderRow
           /\ op'[w].folder.id = op[w].folder.id /\ op'[w].folder.sync = sync
           /\ op'[w].folder.project = op[w].folder.project
<1>1. op[w].kind = kind /\ op[w] \in BinderOps
  BY BinderAt DEF Goes
<1>2. op[w].folder \in FolderRow
  BY <1>1 DEF WTypes, BindFolder, BinderOps
<1>3. PICK q : q = [op[w] EXCEPT !.pc = "folder", !.folder.sync = sync] /\ Goes(w, kind, q)
  OBVIOUS
<1>4. /\ q \in BinderOps /\ q.kind = op[w].kind /\ q.pc = "folder" /\ q.project = op[w].project
      /\ q.folder \in FolderRow /\ q.folder.id = op[w].folder.id /\ q.folder.sync = sync
      /\ q.folder.project = op[w].folder.project
  BY <1>1, <1>2, <1>3 DEF BinderOps, FolderRow
<1>5. q \in Ops
  BY <1>4 DEF Ops
<1> QED BY <1>1, <1>2, <1>3, <1>4, <1>5, GoesTyped DEF WTypes, BinderOf, OthersKeep

LEMMA BinderEnds ==
    ASSUME WTypes, NEW w \in Workers, NEW kind \in Binders, Goes(w, kind, Idle)
    PROVE  BinderOf(w) /\ op'[w] = Idle
<1>1. op[w].kind = kind /\ op[w] \in BinderOps
  BY BinderAt DEF Goes
<1> QED BY <1>1, EndDoes DEF BinderOf

\* A configure that ends after the folder was shared.
LEMMA ConfigureFailsDoes ==
    ASSUME WTypes, NEW w \in Workers, ConfigureFails(w)
    PROVE  /\ op[w] \in BinderOps /\ op[w].kind = "configure" /\ op[w].pc = "call"
           /\ op[w].folder \in FolderRow /\ op'[w] = Idle /\ OthersKeep(w) /\ op' \in [Workers -> Ops]
           /\ shared' = shared \cup {op[w].folder.id} /\ shared' \subseteq Nat
           /\ cut' = IF op[w].folder.sync THEN cut ELSE cut \cup {"configure"}
           /\ UNCHANGED <<files, projects, folders, index, library, notes, fresh, raced, edits, begun, deaths>>
<1>1. /\ op[w].kind = "configure" /\ op[w].pc = "call" /\ op' = [op EXCEPT ![w] = Idle]
      /\ shared' = shared \cup {op[w].folder.id}
      /\ cut' = IF op[w].folder.sync THEN cut ELSE cut \cup {"configure"}
      /\ UNCHANGED <<files, projects, folders, index, library, notes, fresh, raced, edits, begun, deaths>>
  BY DEF ConfigureFails, Share
<1>2. op[w] \in BinderOps
  BY <1>1, BinderAt DEF Binders
<1>3. op[w].folder \in FolderRow
  BY <1>1, <1>2 DEF WTypes, BindFolder, BinderOps, Binders
<1>4. shared' \subseteq Nat
  BY <1>1, <1>3 DEF WTypes, DataTypes, FolderRow
<1>5. op'[w] = Idle /\ OthersKeep(w) /\ op' \in [Workers -> Ops]
  BY <1>1 DEF WTypes, Ops, OthersKeep
<1> QED BY <1>1, <1>2, <1>3, <1>4, <1>5

-----------------------------------------------------------------------------
(* The types.                                                                 *)

\* A step after which every operation that changed is none of the binding ones.
LEMMA OtherOpTypes ==
    ASSUME WTypes, DataTypes', op' \in [Workers -> Ops], NEW w \in Workers,
           \A v \in Workers \ {w} : op'[v] = op[v] \/ (op'[v].kind = op[v].kind /\ op[v].kind = "scan"),
           op'[w].kind \notin Binders
    PROVE  WTypes'
<1>1. ASSUME NEW v \in Workers PROVE op'[v] = op[v] \/ op'[v].kind \notin Binders
  BY DEF Binders
<1>0. BindFolder
  BY DEF WTypes
<1>2. BindFolder'
  BY <1>0, <1>1 DEF BindFolder, Binders
<1> QED BY <1>2 DEF WTypes

LEMMA BeginOtherTypes ==
    ASSUME WTypes, NEW w \in Workers, BeginDoes(w), DataTypes', op'[w].kind \notin Binders
    PROVE  WTypes'
  BY OtherOpTypes DEF BeginDoes

LEMMA LibraryTypes == ASSUME WTypes, NEW w \in Workers, LibraryStep(w) PROVE WTypes'
<1> USE DEF library, binding, notes
<1>0. /\ \A o \in BuildOps : o.kind = "build"
      /\ \A o \in MarkOps : o.kind = "mark"
      /\ Idle.kind = "idle" /\ {"build", "mark", "idle"} \cap Binders = {}
  BY DEF BuildOps, MarkOps, Idle, Binders
<1>1. ASSUME BuildGoes(w), DataTypes' PROVE WTypes'
  BY <1>0, <1>1, OtherOpTypes DEF BuildGoes, OthersKeep
<1>2. CASE BuildStart(w)
  <2>1. DataTypes'
    BY <1>2, BuildStartDoes DEF WTypes, DataTypes, BeginDoes
  <2> QED BY <1>0, <1>2, <2>1, BuildStartDoes, BeginOtherTypes
<1>3. CASE ReadSources(w)
  BY <1>1, <1>3, ReadSourcesDoes DEF WTypes, DataTypes, BuildGoes
<1>4. CASE WriteSource(w)
  <2>1. PICK status \in {"indexed", "skipped", "error", "missing"} :
          /\ Upsert(op[w].at.row, op[w].at.sid, status)
          /\ vanished' = IF status = "missing" THEN vanished \cup {op[w].at.row.id} ELSE vanished
    BY <1>4, WriteSourceDoes
  <2>2. op[w].at.row \in IndexRow /\ op[w].at.sid \in Nat
    BY <1>4, WriteSourceDoes DEF TakenRow
  <2>3. sources' \subseteq SourceRow
    BY <2>1, <2>2, UpsertDoes DEF WTypes, DataTypes
  <2>4. vanished' \subseteq Nat
    BY <2>1, <2>2 DEF WTypes, DataTypes, IndexRow
  <2>5. /\ BuildGoes(w) /\ UNCHANGED <<binding, index, chunks, fts, kept, hidden, named, fresh>>
    BY <1>4, WriteSourceDoes
  <2> QED BY <1>1, <2>3, <2>4, <2>5 DEF WTypes, DataTypes, BuildGoes
<1>5. CASE InsertChunks(w)
  <2>1. op[w].at.row \in IndexRow /\ op[w].at.sid \in Nat
    BY <1>5, InsertChunksDoes DEF TakenRow
  <2>2. sources' \subseteq SourceRow
    BY <1>5, <2>1, InsertChunksDoes, UpsertDoes DEF WTypes, DataTypes
  <2>3. chunks' \subseteq Nat /\ fts' \subseteq [sid : Nat, project : Nat]
    <3>1. [sid |-> op[w].at.sid, project |-> op[w].at.row.project] \in [sid : Nat, project : Nat]
      BY <2>1 DEF IndexRow
    <3>2. chunks \subseteq Nat /\ fts \subseteq [sid : Nat, project : Nat]
      BY DEF WTypes, DataTypes
    <3>3. \/ UNCHANGED <<chunks, fts>>
          \/ /\ chunks' = chunks \cup {op[w].at.sid}
             /\ fts' = fts \cup {[sid |-> op[w].at.sid, project |-> op[w].at.row.project]}
      BY <1>5, InsertChunksDoes
    <3> QED BY <2>1, <3>1, <3>2, <3>3
  <2>4. BuildGoes(w) /\ UNCHANGED <<binding, index, notes, fresh>>
    BY <1>5, InsertChunksDoes
  <2> QED BY <1>1, <2>2, <2>3, <2>4 DEF WTypes, DataTypes, BuildGoes
<1>6. CASE BuildEnd(w)
  <2>1. Goes(w, "build", Idle) /\ UNCHANGED <<binding, index, library, notes, fresh>>
    BY <1>6 DEF BuildEnd
  <2>2. DataTypes'
    BY <2>1, EndDoes DEF WTypes, DataTypes
  <2> QED BY <1>0, <2>1, <2>2, EndDoes, OtherOpTypes DEF OthersKeep
<1>7. CASE MarkWrite(w)
  <2>1. sources' \subseteq SourceRow
    BY <1>7, MarkWriteDoes, MarkDoes DEF WTypes
  <2>2. Marked(w) \subseteq Nat
    BY DEF Marked, WTypes, DataTypes, SourceRow
  <2>3. hidden' \subseteq Nat /\ vanished' \subseteq Nat
    BY <1>7, <2>2, MarkWriteDoes DEF WTypes, DataTypes
  <2>4. DataTypes'
    BY <1>7, <2>1, <2>3, MarkWriteDoes DEF WTypes, DataTypes
  <2> QED BY <1>0, <1>7, <2>4, MarkWriteDoes, OtherOpTypes DEF OthersKeep
<1>8. ASSUME NEW row \in IF op[w].kind = "build" THEN op[w].rows ELSE {}, SkipRow(w, row) PROVE WTypes'
  BY <1>1, <1>8, SkipRowDoes DEF WTypes, DataTypes, BuildGoes
<1>9. ASSUME NEW row \in IF op[w].kind = "build" THEN op[w].rows ELSE {}, TakeRow(w, row) PROVE WTypes'
  <2>1. PICK sid \in Nat :
          /\ BuildGoes(w) /\ row \in IndexRow
          /\ \/ /\ fresh' = fresh + 1
                /\ named' = named \cup {[id |-> row.id, sid |-> sid]}
             \/ UNCHANGED <<fresh, named>>
          /\ chunks' = chunks \ {sid} /\ fts' = {r \in fts : r.sid # sid}
          /\ UNCHANGED <<binding, index, sources, kept, hidden, vanished>>
    BY <1>9, TakeRowDoes
  <2>2. named' \subseteq [id : Nat, sid : Nat] /\ fresh' \in Nat
    BY <2>1 DEF WTypes, DataTypes, IndexRow
  <2> QED BY <1>1, <2>1, <2>2 DEF WTypes, DataTypes, BuildGoes
<1>10. ASSUME NEW s \in IF op[w].kind = "build" THEN op[w].gone ELSE {}, DropGone(w, s) PROVE WTypes'
  <2>1. s.id \in Nat
    BY <1>10, DropGoneDoes DEF GoneRow
  <2>2. sources' \subseteq SourceRow /\ vanished' \subseteq Nat
    <3>1. \/ UNCHANGED <<sources, vanished>>
          \/ Mark(s.sid, "missing") /\ vanished' = vanished \cup {s.id}
      BY <1>10, DropGoneDoes
    <3>2. Mark(s.sid, "missing") => sources' \subseteq SourceRow
      BY MarkDoes DEF WTypes
    <3> QED BY <2>1, <3>1, <3>2 DEF WTypes, DataTypes
  <2>3. chunks' \subseteq Nat /\ fts' \subseteq [sid : Nat, project : Nat]
    BY <1>10, DropGoneDoes DEF WTypes, DataTypes
  <2>4. BuildGoes(w) /\ UNCHANGED <<binding, index, kept, hidden, named, fresh>>
    BY <1>10, DropGoneDoes
  <2> QED BY <1>1, <2>2, <2>3, <2>4 DEF WTypes, DataTypes, BuildGoes
<1>11. ASSUME NEW s \in sources, NEW status \in {"deleted_local", Restored}, MarkStart(w, s, status)
       PROVE  WTypes'
  <2>1. DataTypes'
    BY <1>11, MarkStartDoes DEF WTypes, DataTypes, BeginDoes
  <2> QED BY <1>0, <1>11, <2>1, MarkStartDoes, BeginOtherTypes
<1> QED BY <1>2, <1>3, <1>4, <1>5, <1>6, <1>7, <1>8, <1>9, <1>10, <1>11 DEF LibraryStep

LEMMA IndexRowsKept ==
    ASSUME DataTypes, NEW w \in Workers, NEW p,
           \/ index' = {[r EXCEPT !.seen = IF @ = w THEN "old" ELSE @] : r \in index}
           \/ index' = {[r EXCEPT !.exists = @ /\ ~(r.project = p /\ r.seen # w)] : r \in index}
    PROVE  /\ index' \subseteq IndexRow
           /\ \A q \in index' : \E r \in index : q.id = r.id /\ q.file = r.file /\ q.project = r.project
                                              /\ q.ver = r.ver
<1>1. CASE index' = {[r EXCEPT !.seen = IF @ = w THEN "old" ELSE @] : r \in index}
  <2> SUFFICES ASSUME NEW r \in index, NEW q, q = [r EXCEPT !.seen = IF @ = w THEN "old" ELSE @]
               PROVE  /\ q \in IndexRow /\ q.id = r.id /\ q.file = r.file /\ q.project = r.project
                      /\ q.ver = r.ver
    BY <1>1
  <2> QED BY DEF DataTypes, IndexRow
<1>2. CASE index' = {[r EXCEPT !.exists = @ /\ ~(r.project = p /\ r.seen # w)] : r \in index}
  <2> SUFFICES ASSUME NEW r \in index, NEW q, q = [r EXCEPT !.exists = @ /\ ~(r.project = p /\ r.seen # w)]
               PROVE  /\ q \in IndexRow /\ q.id = r.id /\ q.file = r.file /\ q.project = r.project
                      /\ q.ver = r.ver
    BY <1>2
  <2> QED BY DEF DataTypes, IndexRow
<1> QED BY <1>1, <1>2

\* The rows of a file that a scan looks at.
OldRows(w, f) == {r \in index : r.file = f /\ r.project = op[w].project}
SameRows(w, f) == {r \in OldRows(w, f) : r.exists /\ r.ver = files[f]}

\* A file indexed: its rows are marked as seen, or replaced by one new row.
LEMMA IndexFileRows ==
    ASSUME WTypes, NEW w \in Workers, NEW f \in Files, IndexFile(w, f)
    PROVE  \/ /\ SameRows(w, f) # {} /\ UNCHANGED fresh /\ index' \subseteq IndexRow
              /\ \A r \in index \ SameRows(w, f) : r \in index'
              /\ \E r \in index' : r.file = f /\ r.project = op[w].project /\ r.seen = w
              /\ \A q \in index' :
                    \/ q \in index \ SameRows(w, f)
                    \/ \E r \in SameRows(w, f) : q = Seen(r, w) /\ q.id = r.id /\ q.file = f
                          /\ q.project = r.project /\ q.exists /\ q.ver = files[f] /\ q.seen = w
           \/ \E new \in IndexRow :
              /\ new.file = f /\ new.project = op[w].project /\ new.ver = files[f] /\ new.exists
              /\ new.seen = w
              /\ \/ OldRows(w, f) = {} /\ new.id = fresh /\ fresh' = fresh + 1
                 \/ (\E r \in OldRows(w, f) : new.id = r.id) /\ fresh' = fresh
              /\ index' = (index \ OldRows(w, f)) \cup {new}
<1> DEFINE old == OldRows(w, f)
           same == SameRows(w, f)
           new == [file |-> f, project |-> op[w].project, ver |-> files[f], exists |-> TRUE,
                   seen |-> w, id |-> IF old = {} THEN fresh ELSE (CHOOSE r \in old : TRUE).id]
<1>1. IF same # {}
      THEN index' = (index \ same) \cup {Seen(r, w) : r \in same} /\ UNCHANGED fresh
      ELSE /\ index' = (index \ old) \cup {new}
           /\ fresh' = IF old = {} THEN fresh + 1 ELSE fresh
  BY DEF IndexFile, SameRows, OldRows
<1>2. index \subseteq IndexRow /\ files[f] \in Nat /\ fresh \in Nat
  BY DEF WTypes, DataTypes
<1>3. op[w] \in ScanOps /\ files[f] # 0
  BY IndexFileDoes
<1>4. op[w].project \in Nat
  BY <1>3 DEF ScanOps
<1>5. ASSUME NEW r \in same
      PROVE  /\ Seen(r, w) \in IndexRow /\ Seen(r, w).id = r.id /\ Seen(r, w).file = f
             /\ Seen(r, w).project = r.project /\ r.project = op[w].project /\ Seen(r, w).exists
             /\ Seen(r, w).ver = files[f] /\ Seen(r, w).seen = w
  BY <1>2 DEF Seen, SameRows, OldRows, IndexRow
<1>6. CASE same # {}
  <2>1. index' = (index \ same) \cup {Seen(r, w) : r \in same}
    BY <1>1, <1>6
  <2>2. index' \subseteq IndexRow
    BY <1>2, <1>5, <2>1
  <2>3. PICK r \in same : TRUE
    BY <1>6
  <2>4. Seen(r, w) \in index'
    BY <2>1
  <2> QED BY <1>1, <1>5, <1>6, <2>1, <2>2, <2>4
<1>7. CASE same = {}
  <2>1. old # {} => (CHOOSE r \in old : TRUE) \in old
    BY Chosen
  <2>2. /\ \/ old = {} /\ new.id = fresh /\ fresh' = fresh + 1
           \/ (\E r \in old : new.id = r.id) /\ fresh' = fresh
        /\ new.id \in Nat
    BY <1>1, <1>2, <1>7, <2>1 DEF OldRows, IndexRow
  <2>3. new \in IndexRow
    BY <1>2, <1>3, <1>4, <2>2 DEF IndexRow
  <2> QED BY <1>1, <1>7, <2>2, <2>3
<1> QED BY <1>6, <1>7

LEMMA ScanTypes == ASSUME WTypes, NEW w \in Workers, ScanStep(w) PROVE WTypes'
<1> USE DEF library, binding, notes
<1>0. (\A o \in ScanOps : o.kind = "scan") /\ Idle.kind = "idle" /\ {"scan", "idle"} \cap Binders = {}
  BY DEF ScanOps, Idle, Binders
<1>1. ASSUME NEW f \in folders, ScanStart(w, f) PROVE WTypes'
  <2>1. index' \subseteq IndexRow
    <3>1. index' = {[r EXCEPT !.seen = IF @ = w THEN "old" ELSE @] : r \in index}
      BY <1>1, ScanStartDoes
    <3>2. DataTypes
      BY DEF WTypes
    <3> QED BY <3>1, <3>2, IndexRowsKept
  <2>2. DataTypes'
    BY <1>1, <2>1, ScanStartDoes DEF WTypes, DataTypes, BeginDoes
  <2> QED BY <1>0, <1>1, <2>2, ScanStartDoes, BeginOtherTypes
<1>2. ASSUME NEW f \in Files, IndexFile(w, f) PROVE WTypes'
  <2>1. index' \subseteq IndexRow /\ fresh' \in Nat
    BY <1>2, IndexFileRows DEF WTypes, DataTypes, OldRows
  <2>2. DataTypes'
    BY <1>2, <2>1, IndexFileDoes DEF WTypes, DataTypes
  <2> QED BY <1>0, <1>2, <2>2, IndexFileDoes, OtherOpTypes DEF OthersKeep
<1>3. ASSUME NEW f \in Files, SkipFile(w, f) PROVE WTypes'
  <2>1. DataTypes'
    BY <1>3, SkipFileDoes DEF WTypes, DataTypes
  <2> QED BY <1>0, <1>3, <2>1, SkipFileDoes, OtherOpTypes DEF OthersKeep
<1>4. CASE MarkMissing(w)
  <2>1. index' \subseteq IndexRow
    <3>1. index' = {[r EXCEPT !.exists = @ /\ ~(r.project = op[w].project /\ r.seen # w)] : r \in index}
      BY <1>4, MarkMissingDoes
    <3>2. DataTypes
      BY DEF WTypes
    <3> QED BY <3>1, <3>2, IndexRowsKept
  <2>2. DataTypes'
    BY <1>4, <2>1, MarkMissingDoes DEF WTypes, DataTypes
  <2> QED BY <1>0, <1>4, <2>2, MarkMissingDoes, OtherOpTypes DEF OthersKeep
<1>5. CASE FinishRun(w)
  <2>1. Goes(w, "scan", Idle) /\ UNCHANGED <<binding, index, library, notes, fresh>>
    BY <1>5 DEF FinishRun
  <2>2. DataTypes'
    BY <2>1, EndDoes DEF WTypes, DataTypes
  <2> QED BY <1>0, <2>1, <2>2, EndDoes, OtherOpTypes DEF OthersKeep
<1>6. ASSUME ScanGoes(w), UNCHANGED <<index, fresh>> PROVE WTypes'
  <2>1. DataTypes'
    BY <1>6 DEF WTypes, DataTypes, ScanGoes
  <2> QED BY <1>0, <1>6, <2>1, OtherOpTypes DEF OthersKeep, ScanGoes
<1>7. ASSUME NEW f \in Files, PassOver(w, f) PROVE WTypes'
  BY <1>6, <1>7, PassOverDoes
<1>8. CASE ScanFails(w)
  BY <1>6, <1>8, ScanFailsDoes
<1> QED BY <1>1, <1>2, <1>3, <1>4, <1>5, <1>7, <1>8 DEF ScanStep

LEMMA SyncTypes == ASSUME WTypes, NEW w \in Workers, SyncStep(w) PROVE WTypes'
<1> USE DEF library, binding, notes
<1>0. /\ Idle.kind = "idle" /\ "idle" \notin Binders
      /\ \A kind \in {"bind", "configure", "stop", "poll", "unbind"} : kind \in Binders
      /\ \A kind \in Binders \ {"unbind"} : kind \in Binders
  BY DEF Idle, Binders
\* The operation goes on with the same rows, or ends.
<1>1. ASSUME BinderOf(w), DataTypes', \/ op'[w] = Idle
                                     \/ \E pc \in {"index", "library", "binding"} : BinderGoes(w, pc) /\ op[w].kind = "unbind"
      PROVE  WTypes'
  <2>1. BindFolder
    BY DEF WTypes
  <2>2. BindFolder'
    BY <1>0, <1>1, <2>1 DEF BindFolder, BinderOf, BinderGoes, OthersKeep
  <2> QED BY <1>1, <2>2 DEF WTypes, BinderOf
<1>2. ASSUME NEW p \in projects \cup {NoRow}, NEW f \in folders \cup {NoRow}, BindStart(w, p, f) PROVE WTypes'
  BY <1>2, BindStartTypes
<1>3. ASSUME NEW p \in projects \cup {NoRow}, NEW f \in folders \cup {NoRow}, NEW kind \in Binders,
             SyncStart(w, kind, p, f)
      PROVE  WTypes'
  BY <1>3, SyncStartTypes
<1>4. ASSUME NEW kind \in {"configure", "stop"}, NEW sync \in BOOLEAN, shared' \subseteq Nat,
             Goes(w, kind, [op[w] EXCEPT !.pc = "folder", !.folder.sync = sync]),
             UNCHANGED <<projects, folders, index, library, notes, fresh>>
      PROVE  WTypes'
  <2>1. /\ BinderOf(w) /\ op'[w].kind = kind /\ op'[w].pc = "folder" /\ op'[w].folder \in FolderRow
        /\ op'[w] \in BinderOps
    BY <1>4, SyncedGoesAs DEF Binders
  <2>2. BindFolder
    BY DEF WTypes
  <2>3. BindFolder'
    BY <1>4, <2>1, <2>2, NoRowAssumption DEF BindFolder, BinderOf, OthersKeep
  <2>4. DataTypes'
    BY <1>4, <2>1 DEF WTypes, DataTypes, BinderOf
  <2> QED BY <2>1, <2>3, <2>4 DEF WTypes, BinderOf
<1>5. CASE ConfigureCall(w)
  <2>1. op[w].kind = "configure" /\ UNCHANGED <<projects, folders, index, library, notes, fresh>>
    BY <1>5 DEF ConfigureCall
  <2>2. op[w].folder \in FolderRow
    BY <1>0, <2>1, BinderAt DEF BinderOps, WTypes, BindFolder
  <2>3. CASE Share(op[w].folder.id) /\ Goes(w, "configure", [op[w] EXCEPT !.pc = "folder", !.folder.sync = TRUE])
    <3>1. shared' \subseteq Nat
      BY <2>2, <2>3 DEF Share, FolderRow, WTypes, DataTypes
    <3> QED BY <1>4, <2>1, <2>3, <3>1
  <2>4. CASE Goes(w, "configure", Idle) /\ UNCHANGED shared
    <3>1. BinderOf(w) /\ op'[w] = Idle
      BY <1>0, <2>4, BinderEnds
    <3>2. DataTypes'
      BY <2>1, <2>4, <3>1 DEF WTypes, DataTypes, BinderOf
    <3> QED BY <1>1, <3>1, <3>2
  <2> QED BY <1>5, <2>3, <2>4 DEF ConfigureCall
<1>6. CASE StopCall(w)
  <2>1. /\ op[w].kind = "stop" /\ UNCHANGED <<projects, folders, index, library, notes, fresh>>
        /\ shared' \subseteq Nat
    BY <1>6 DEF StopCall, Unshare, WTypes, DataTypes
  <2>2. CASE Goes(w, "stop", [op[w] EXCEPT !.pc = "folder", !.folder.sync = FALSE])
    BY <1>4, <2>1, <2>2
  <2>3. CASE Goes(w, "stop", Idle)
    <3>1. BinderOf(w) /\ op'[w] = Idle
      BY <1>0, <2>3, BinderEnds
    <3>2. DataTypes'
      BY <2>1, <3>1 DEF WTypes, DataTypes, BinderOf
    <3> QED BY <1>1, <3>1, <3>2
  <2> QED BY <1>6, <2>2, <2>3 DEF StopCall
<1>7. CASE WriteFolder(w)
  <2>1. /\ op[w].kind \in Binders \ {"unbind"} /\ SaveFolder(op[w].folder)
        /\ UNCHANGED <<projects, shared, index, library, notes, fresh>>
        /\ Goes(w, op[w].kind, IF op[w].kind = "poll" \/ op[w].project = NoRow THEN Idle
                               ELSE [op[w] EXCEPT !.pc = "project"])
    BY <1>7 DEF WriteFolder
  <2>2. op[w].folder \in FolderRow /\ op[w].kind \in Binders
    BY <1>0, <2>1, BinderAt DEF BinderOps, WTypes, BindFolder
  <2>3. folders' \subseteq FolderRow
    BY <2>1, <2>2 DEF SaveFolder, WTypes, DataTypes
  <2>4. CASE Goes(w, op[w].kind, Idle)
    <3>1. BinderOf(w) /\ op'[w] = Idle
      BY <2>2, <2>4, BinderEnds
    <3>2. DataTypes'
      BY <2>1, <2>3, <3>1 DEF WTypes, DataTypes, BinderOf
    <3> QED BY <1>1, <3>1, <3>2
  <2>5. CASE op[w].project # NoRow /\ Goes(w, op[w].kind, [op[w] EXCEPT !.pc = "project"])
    <3>1. BinderOf(w) /\ BinderGoes(w, "project")
      BY <2>2, <2>5, BinderGoesAs
    <3>2. DataTypes'
      BY <2>1, <2>3, <3>1 DEF WTypes, DataTypes, BinderOf
    <3>3. BindFolder
      BY DEF WTypes
    <3>4. BindFolder'
      BY <2>1, <2>5, <3>1, <3>3 DEF BindFolder, BinderOf, BinderGoes, OthersKeep
    <3> QED BY <3>1, <3>2, <3>4 DEF WTypes, BinderOf
  <2> QED BY <2>1, <2>4, <2>5
<1>8. CASE WriteProject(w)
  <2>1. /\ op[w].kind \in Binders \ {"unbind"} /\ op[w].pc = "project" /\ Goes(w, op[w].kind, Idle)
        /\ projects' = projects \cup {op[w].project}
        /\ UNCHANGED <<folders, shared, index, library, notes, fresh>>
    BY <1>8 DEF WriteProject
  <2>2. op[w].project \in Nat /\ op[w].kind \in Binders
    BY <1>0, <2>1, BinderAt DEF BinderOps, WTypes, BindFolder
  <2>3. BinderOf(w) /\ op'[w] = Idle
    BY <2>1, <2>2, BinderEnds
  <2>4. DataTypes'
    BY <2>1, <2>2, <2>3 DEF WTypes, DataTypes, BinderOf
  <2> QED BY <1>1, <2>3, <2>4
<1>9. ASSUME NEW localOnly \in BOOLEAN, UnbindCall(w, localOnly) PROVE WTypes'
  <2>1. /\ op[w].kind = "unbind" /\ kept' \in BOOLEAN /\ shared' \subseteq Nat
        /\ UNCHANGED <<projects, folders, index, library, hidden, vanished, named, fresh>>
    BY <1>9 DEF UnbindCall, Unshare, WTypes, DataTypes
  <2>2. CASE Goes(w, "unbind", [op[w] EXCEPT !.pc = "index"])
    <3>1. BinderOf(w) /\ BinderGoes(w, "index")
      BY <1>0, <2>2, BinderGoesAs
    <3>2. DataTypes'
      BY <2>1, <3>1 DEF WTypes, DataTypes, BinderOf
    <3> QED BY <1>1, <2>1, <3>1, <3>2
  <2>3. CASE Goes(w, "unbind", Idle)
    <3>1. BinderOf(w) /\ op'[w] = Idle
      BY <1>0, <2>3, BinderEnds
    <3>2. DataTypes'
      BY <2>1, <3>1 DEF WTypes, DataTypes, BinderOf
    <3> QED BY <1>1, <3>1, <3>2
  <2> QED BY <1>9, <2>2, <2>3 DEF UnbindCall
<1>10. CASE UnbindIndex(w)
  <2>1. /\ op[w].kind = "unbind" /\ index' \subseteq IndexRow
        /\ UNCHANGED <<binding, library, notes, fresh>>
    BY <1>10 DEF UnbindIndex, WTypes, DataTypes
  <2>2. BinderOf(w) /\ BinderGoes(w, "library")
    BY <1>0, <1>10, BinderGoesAs DEF UnbindIndex
  <2>3. DataTypes'
    BY <2>1, <2>2 DEF WTypes, DataTypes, BinderOf
  <2> QED BY <1>1, <2>1, <2>2, <2>3
<1>11. CASE UnbindLibrary(w)
  <2>1. /\ op[w].kind = "unbind" /\ sources' \subseteq SourceRow /\ chunks' \subseteq Nat
        /\ fts' \subseteq [sid : Nat, project : Nat] /\ hidden' \subseteq Nat
        /\ UNCHANGED <<binding, index, kept, vanished, named, fresh>>
    BY <1>11 DEF UnbindLibrary, WTypes, DataTypes
  <2>2. BinderOf(w) /\ BinderGoes(w, "binding")
    BY <1>0, <1>11, BinderGoesAs DEF UnbindLibrary
  <2>3. DataTypes'
    BY <2>1, <2>2 DEF WTypes, DataTypes, BinderOf
  <2> QED BY <1>1, <2>1, <2>2, <2>3
<1>12. CASE UnbindBinding(w)
  <2>1. /\ op[w].kind = "unbind" /\ projects' = {} /\ folders' = {}
        /\ UNCHANGED <<shared, index, library, notes, fresh>>
    BY <1>12 DEF UnbindBinding
  <2>2. BinderOf(w) /\ op'[w] = Idle
    BY <1>0, <1>12, BinderEnds DEF UnbindBinding
  <2>3. DataTypes'
    BY <2>1, <2>2 DEF WTypes, DataTypes, BinderOf
  <2> QED BY <1>1, <2>2, <2>3
<1>13. CASE ConfigureFails(w)
  <2>1. DataTypes'
    BY <1>13, ConfigureFailsDoes DEF WTypes, DataTypes
  <2>2. BindFolder
    BY DEF WTypes
  <2>3. BindFolder'
    BY <1>0, <1>13, <2>2, ConfigureFailsDoes DEF BindFolder, OthersKeep
  <2> QED BY <1>13, <2>1, <2>3, ConfigureFailsDoes DEF WTypes
<1> QED BY <1>2, <1>3, <1>5, <1>6, <1>7, <1>8, <1>9, <1>10, <1>11, <1>12, <1>13 DEF SyncStep

LEMMA DieDoes ==
    ASSUME WTypes, NEW w \in Workers, Die(w)
    PROVE  /\ op'[w] = Idle /\ op' \in [Workers -> Ops] /\ OthersKeep(w) /\ op[w] # Idle
           /\ cut' = cut \cup ({op[w].kind} \cap Unmended)
           /\ UNCHANGED <<files, binding, index, library, fresh, raced, notes, edits, begun>>
<1>1. Idle \in Ops
  BY DEF Ops
<1> QED BY <1>1 DEF Die, WTypes, OthersKeep

\* A change of the files disturbs the scans.
LEMMA EditDoes ==
    ASSUME WTypes, NEW f \in Files, NEW there \in BOOLEAN, Edit(f, there)
    PROVE  /\ op' \in [Workers -> Ops] /\ files' \in [Files -> Nat] /\ edits' \in Nat
           /\ \A v \in Workers :
                 /\ op[v].kind # "scan" => op'[v] = op[v]
                 /\ op[v].kind = "scan" => /\ op'[v] \in ScanOps /\ ~op'[v].calm
                                           /\ op'[v].project = op[v].project
                 /\ op'[v].kind = op[v].kind
           /\ UNCHANGED <<binding, index, library, fresh, raced, cut, notes, begun, deaths>>
<1>1. ASSUME NEW v \in Workers
      PROVE  /\ op'[v] \in Ops /\ (op[v].kind # "scan" => op'[v] = op[v]) /\ op'[v].kind = op[v].kind
             /\ op[v].kind = "scan" => op'[v] \in ScanOps /\ ~op'[v].calm /\ op'[v].project = op[v].project
  <2>1. op'[v] = IF op[v].kind = "scan" THEN [op[v] EXCEPT !.calm = FALSE] ELSE op[v]
    BY DEF Edit
  <2>2. CASE op[v].kind = "scan"
    <3>1. op[v] \in ScanOps
      BY <2>2, OpKinds DEF WTypes
    <3> QED BY <2>1, <2>2, <3>1, DisturbedScan DEF Ops
  <2>3. CASE op[v].kind # "scan"
    BY <2>1, <2>3 DEF WTypes
  <2> QED BY <2>2, <2>3
<1>2. op' \in [Workers -> Ops]
  BY <1>1 DEF Edit
<1>3. files' \in [Files -> Nat] /\ edits' \in Nat
  BY DEF Edit, WTypes, DataTypes
<1>4. UNCHANGED <<binding, index, library, fresh, raced, cut, notes, begun, deaths>>
  BY DEF Edit
<1> QED BY <1>1, <1>2, <1>3, <1>4

LEMMA TypesStep == ASSUME WTypes, [WorkspaceNext]_workspaceVars PROVE WTypes'
<1> USE DEF library, binding, notes
<1>1. CASE UNCHANGED workspaceVars
  BY <1>1 DEF workspaceVars, WTypes, DataTypes, BindFolder
<1>2. ASSUME NEW w \in Workers, SyncStep(w) \/ ScanStep(w) \/ LibraryStep(w) PROVE WTypes'
  BY <1>2, SyncTypes, ScanTypes, LibraryTypes
<1>3. ASSUME NEW w \in Workers, Die(w) PROVE WTypes'
  <2>1. DataTypes'
    BY <1>3, DieDoes DEF WTypes, DataTypes
  <2> QED BY <1>3, <2>1, DieDoes, OtherOpTypes DEF OthersKeep, Idle, Binders
<1>4. ASSUME NEW f \in Files, NEW there \in BOOLEAN, Edit(f, there) PROVE WTypes'
  <2>1. DataTypes'
    BY <1>4, EditDoes DEF WTypes, DataTypes
  <2>2. BindFolder
    BY DEF WTypes
  <2>3. BindFolder'
    <3>0. \A v \in Workers : (op[v].kind # "scan" => op'[v] = op[v]) /\ op'[v].kind = op[v].kind
      BY <1>4, EditDoes
    <3>1. \A v \in Workers : op'[v] = op[v] \/ op'[v].kind = "scan"
      BY <3>0
    <3> QED BY <2>2, <3>1 DEF BindFolder, Binders
  <2> QED BY <1>4, <2>1, <2>3, EditDoes DEF WTypes
<1> QED BY <1>1, <1>2, <1>3, <1>4 DEF WorkspaceNext

-----------------------------------------------------------------------------
(* What the steps of one service leave alone.                                 *)

\* The records of builds and marks stay.
LibraryOpsStay == \A v \in Workers : (op'[v].kind \in {"build", "mark"} \/ op[v].kind \in {"build", "mark"})
                                        => op'[v] = op[v]

LEMMA SyncFrame ==
    ASSUME WTypes, NEW w \in Workers, SyncStep(w)
    PROVE  /\ LibraryOpsStay
           /\ op[w].kind \in Binders \cup {"idle"} /\ op'[w].kind \in Binders \cup {"idle"}
           /\ index' \subseteq index /\ fresh' \in {fresh, fresh + 2}
           /\ UNCHANGED <<files, named, vanished>> /\ cut' \in {cut, cut \cup {"configure"}}
           /\ UNCHANGED <<library, hidden>> \/ UnbindLibrary(w)
<1> USE DEF library, binding, notes
<1>0. /\ Idle.kind = "idle" /\ "idle" \notin Binders /\ (Binders \cup {"idle"}) \cap {"build", "mark"} = {}
      /\ \A kind \in {"bind", "configure", "stop", "poll", "unbind"} : kind \in Binders
  BY DEF Idle, Binders
<1>1. ASSUME op[w].kind \in Binders \cup {"idle"}, op'[w].kind \in Binders \cup {"idle"},
             \A v \in Workers \ {w} : op'[v].kind = op[v].kind /\ (op[v].kind # "scan" => op'[v] = op[v])
      PROVE  LibraryOpsStay
  <2> SUFFICES ASSUME NEW v \in Workers, op'[v].kind \in {"build", "mark"} \/ op[v].kind \in {"build", "mark"}
               PROVE  op'[v] = op[v]
    BY DEF LibraryOpsStay
  <2>1. v # w
    BY <1>0, <1>1
  <2> QED BY <1>1, <2>1
<1>2. ASSUME NEW record \in Ops, Begin(w, record), record.kind \in Binders
      PROVE  /\ LibraryOpsStay /\ UNCHANGED <<files, cut>>
             /\ op[w].kind \in Binders \cup {"idle"} /\ op'[w].kind \in Binders \cup {"idle"}
  BY <1>0, <1>1, <1>2, BeginsAs DEF BeginDoes
<1>3. ASSUME BinderOf(w), op'[w] \in BinderOps \/ op'[w] = Idle
      PROVE  /\ LibraryOpsStay /\ UNCHANGED <<files, cut>>
             /\ op[w].kind \in Binders \cup {"idle"} /\ op'[w].kind \in Binders \cup {"idle"}
  <2>1. op[w].kind \in Binders /\ op'[w].kind \in Binders \cup {"idle"}
    BY <1>0, <1>3 DEF BinderOf, BinderOps
  <2> QED BY <1>1, <1>3, <2>1 DEF BinderOf, OthersKeep
<1>4. ASSUME NEW p \in projects \cup {NoRow}, NEW f \in folders \cup {NoRow}, BindStart(w, p, f)
      PROVE  /\ LibraryOpsStay /\ UNCHANGED <<files, cut, index, named, vanished, library, hidden>>
             /\ op[w].kind \in Binders \cup {"idle"} /\ op'[w].kind \in Binders \cup {"idle"}
             /\ fresh' \in {fresh, fresh + 2}
  <2> DEFINE id == IF p = NoRow THEN fresh ELSE p
             new == IF f = NoRow THEN [id |-> fresh + 1, project |-> id, sync |-> FALSE]
                    ELSE [f EXCEPT !.project = id]
             record == [kind |-> "bind", pc |-> "folder", project |-> id, folder |-> new]
  <2>1. Begin(w, record) /\ fresh' = fresh + 2 /\ UNCHANGED <<binding, index, library, notes>>
    BY <1>4 DEF BindStart
  <2>2. id \in Nat
    BY DEF WTypes, DataTypes
  <2>3. new \in FolderRow
    BY <2>2 DEF FolderRow, WTypes, DataTypes
  <2> HIDE DEF new, id
  <2>4. record \in Ops /\ record.kind = "bind"
    BY <2>2, <2>3 DEF Ops, BinderOps, Binders
  <2> HIDE DEF record
  <2> QED BY <1>0, <1>2, <2>1, <2>4
<1>5. ASSUME NEW p \in projects \cup {NoRow}, NEW f \in folders \cup {NoRow}, NEW kind \in Binders,
             SyncStart(w, kind, p, f)
      PROVE  /\ LibraryOpsStay /\ UNCHANGED <<files, cut, index, named, vanished, library, hidden, fresh>>
             /\ op[w].kind \in Binders \cup {"idle"} /\ op'[w].kind \in Binders \cup {"idle"}
  <2> DEFINE record == [kind |-> kind, pc |-> IF kind = "poll" THEN "folder" ELSE "call",
                        project |-> p, folder |-> f]
  <2>1. Begin(w, record) /\ UNCHANGED <<binding, index, library, notes, fresh>>
    BY <1>5 DEF SyncStart
  <2>2. record \in Ops /\ record.kind = kind
    BY DEF Ops, BinderOps, WTypes, DataTypes
  <2> HIDE DEF record
  <2> QED BY <1>2, <2>1, <2>2
<1>6. CASE ConfigureCall(w) \/ StopCall(w)
  <2>1. UNCHANGED <<index, library, notes, fresh>>
    BY <1>6 DEF ConfigureCall, StopCall
  <2>2. \/ \E kind \in {"configure", "stop"}, sync \in BOOLEAN :
             Goes(w, kind, [op[w] EXCEPT !.pc = "folder", !.folder.sync = sync])
        \/ Goes(w, "configure", Idle) \/ Goes(w, "stop", Idle)
    BY <1>6 DEF ConfigureCall, StopCall
  <2>3. BinderOf(w) /\ (op'[w] \in BinderOps \/ op'[w] = Idle)
    <3>1. ASSUME NEW kind \in {"configure", "stop"}, NEW sync \in BOOLEAN,
                 Goes(w, kind, [op[w] EXCEPT !.pc = "folder", !.folder.sync = sync])
          PROVE  BinderOf(w) /\ op'[w] \in BinderOps
      <4>1. kind \in Binders \ {"unbind"}
        BY DEF Binders
      <4> QED BY <3>1, <4>1, SyncedGoesAs
    <3>2. ASSUME NEW kind \in {"configure", "stop"}, Goes(w, kind, Idle) PROVE BinderOf(w) /\ op'[w] = Idle
      BY <1>0, <3>2, BinderEnds
    <3> QED BY <2>2, <3>1, <3>2
  <2> QED BY <1>3, <2>1, <2>3
<1>7. CASE WriteFolder(w) \/ WriteProject(w)
  <2>1. op[w].kind \in Binders /\ UNCHANGED <<index, library, notes, fresh>>
    BY <1>7 DEF WriteFolder, WriteProject
  <2>2. \/ Goes(w, op[w].kind, Idle)
        \/ Goes(w, op[w].kind, [op[w] EXCEPT !.pc = "project"])
    BY <1>7 DEF WriteFolder, WriteProject
  <2>3. BinderOf(w) /\ (op'[w] \in BinderOps \/ op'[w] = Idle)
    BY <2>1, <2>2, BinderEnds, BinderGoesAs DEF BinderGoes
  <2> QED BY <1>3, <2>1, <2>3
<1>8. ASSUME NEW localOnly \in BOOLEAN, UnbindCall(w, localOnly)
      PROVE  /\ LibraryOpsStay /\ UNCHANGED <<files, cut, index, named, vanished, library, hidden, fresh>>
             /\ op[w].kind \in Binders \cup {"idle"} /\ op'[w].kind \in Binders \cup {"idle"}
  <2>1. UNCHANGED <<index, library, hidden, vanished, named, fresh>>
    BY <1>8 DEF UnbindCall
  <2>2. Goes(w, "unbind", Idle) \/ Goes(w, "unbind", [op[w] EXCEPT !.pc = "index"])
    BY <1>8 DEF UnbindCall
  <2>3. BinderOf(w) /\ (op'[w] \in BinderOps \/ op'[w] = Idle)
    BY <1>0, <2>2, BinderEnds, BinderGoesAs DEF BinderGoes
  <2> QED BY <1>3, <2>1, <2>3
<1>9. CASE UnbindIndex(w)
  <2>1. BinderOf(w) /\ op'[w] \in BinderOps
    BY <1>0, <1>9, BinderGoesAs DEF UnbindIndex, BinderGoes
  <2>2. index' \subseteq index /\ UNCHANGED <<library, notes, fresh>>
    BY <1>9 DEF UnbindIndex
  <2> QED BY <1>3, <2>1, <2>2
<1>10. CASE UnbindLibrary(w)
  <2>1. BinderOf(w) /\ op'[w] \in BinderOps
    BY <1>0, <1>10, BinderGoesAs DEF UnbindLibrary, BinderGoes
  <2>2. UNCHANGED <<index, vanished, named, fresh>>
    BY <1>10 DEF UnbindLibrary
  <2> QED BY <1>3, <1>10, <2>1, <2>2
<1>11. CASE UnbindBinding(w)
  <2>1. BinderOf(w) /\ op'[w] = Idle
    BY <1>0, <1>11, BinderEnds DEF UnbindBinding
  <2>2. UNCHANGED <<index, library, notes, fresh>>
    BY <1>11 DEF UnbindBinding
  <2> QED BY <1>3, <2>1, <2>2
<1>12. CASE ConfigureFails(w)
  <2>1. op[w].kind \in Binders \cup {"idle"} /\ op'[w].kind \in Binders \cup {"idle"}
    BY <1>0, <1>12, ConfigureFailsDoes
  <2> QED BY <1>1, <1>12, <2>1, ConfigureFailsDoes DEF OthersKeep
<1> QED BY <1>4, <1>5, <1>6, <1>7, <1>8, <1>9, <1>10, <1>11, <1>12 DEF SyncStep

LEMMA ScanFrame ==
    ASSUME WTypes, NEW w \in Workers, ScanStep(w)
    PROVE  /\ LibraryOpsStay /\ fresh' \in {fresh, fresh + 1}
           /\ op[w].kind \in {"scan", "idle"} /\ op'[w].kind \in {"scan", "idle"}
           /\ UNCHANGED <<files, cut, binding, library, notes>>
<1> USE DEF LibraryOpsStay
<1>0. Idle.kind = "idle" /\ \A o \in ScanOps : o.kind = "scan"
  BY DEF Idle, ScanOps
<1>1. ASSUME NEW f \in folders, ScanStart(w, f) PROVE LibraryOpsStay /\ UNCHANGED <<cut, files>> /\ op[w] = Idle
  BY <1>0, <1>1, ScanStartDoes DEF BeginDoes
<1>2. ASSUME NEW f \in Files, IndexFile(w, f) PROVE LibraryOpsStay /\ fresh' \in {fresh, fresh + 1}
  BY <1>0, <1>2, IndexFileDoes, IndexFileRows DEF OthersKeep
<1>3. ASSUME NEW f \in Files, SkipFile(w, f) PROVE LibraryOpsStay
  BY <1>0, <1>3, SkipFileDoes DEF OthersKeep
<1>4. ASSUME MarkMissing(w) PROVE LibraryOpsStay
  BY <1>0, <1>4, MarkMissingDoes DEF OthersKeep
<1>5. ASSUME FinishRun(w)
      PROVE  /\ LibraryOpsStay /\ op[w].kind = "scan" /\ op'[w] = Idle
             /\ UNCHANGED <<files, cut, binding, library, notes, fresh>>
  BY <1>0, <1>5, EndDoes DEF FinishRun, OthersKeep
<1>6. CASE \E f \in folders : ScanStart(w, f)
  BY <1>0, <1>1, <1>6, ScanStartDoes
<1>7. CASE \E f \in Files : IndexFile(w, f)
  BY <1>0, <1>2, <1>7, IndexFileDoes
<1>8. CASE \E f \in Files : SkipFile(w, f)
  BY <1>0, <1>3, <1>8, SkipFileDoes
<1>9. CASE MarkMissing(w)
  BY <1>0, <1>4, <1>9, MarkMissingDoes
<1>10. CASE FinishRun(w)
  BY <1>0, <1>5, <1>10
<1>11. ASSUME ScanGoes(w), UNCHANGED fresh, op'[w].kind = "scan"
       PROVE  /\ LibraryOpsStay /\ op[w].kind = "scan"
              /\ UNCHANGED <<files, cut, binding, library, notes>>
  BY <1>0, <1>11 DEF ScanGoes, OthersKeep
<1>12. CASE ScanFails(w) \/ \E f \in Files : PassOver(w, f)
  <2>1. ScanGoes(w) /\ UNCHANGED fresh
    BY <1>12, ScanFailsDoes, PassOverDoes
  <2>2. op'[w].kind = "scan"
    BY <1>0, <2>1 DEF ScanGoes
  <2> QED BY <1>11, <2>1, <2>2
<1> QED BY <1>6, <1>7, <1>8, <1>9, <1>10, <1>12 DEF ScanStep

-----------------------------------------------------------------------------
(* The identifiers: a row of a file in a project, a source of a file, and a   *)
(* source id, wherever it is carried, made for one file id only.              *)

Named(id, sid) == [id |-> id, sid |-> sid] \in named

NamedApart == \A p, q \in named : p.sid = q.sid => p = q
Below == /\ \A p \in named : p.id < fresh /\ p.sid < fresh
         /\ \A r \in index : r.id < fresh
         /\ \A w \in Workers : op[w].kind = "build" => \A r \in op[w].rows : r.id < fresh
RowsApart ==
    /\ \A r, q \in index : (r.file = q.file /\ r.project = q.project) \/ r.id = q.id => r = q
    /\ \A s, t \in sources : s.id = t.id => s = t
Carried(w) ==
    /\ op[w].kind = "build" => /\ \A s \in op[w].known \cup op[w].gone : Named(s.id, s.sid)
                               /\ op[w].at # NoRow => Named(op[w].at.row.id, op[w].at.sid)
    /\ op[w].kind = "mark" => Named(op[w].source.id, op[w].source.sid)
AllNamed == (\A s \in sources : Named(s.id, s.sid)) /\ \A w \in Workers : Carried(w)

NamesInv == NamedApart /\ Below /\ RowsApart /\ AllNamed

\* A source id tells its file id.
LEMMA OneOwner ==
    ASSUME NamedApart, NEW i, NEW j, NEW sid, Named(i, sid), Named(j, sid)
    PROVE  i = j
<1>1. [id |-> i, sid |-> sid] = [id |-> j, sid |-> sid]
  BY DEF NamedApart, Named
<1> QED BY <1>1

LEMMA NamesStart == WorkspaceInit => NamesInv
<1> SUFFICES ASSUME WorkspaceInit PROVE NamesInv
  OBVIOUS
<1>1. \A w \in Workers : op[w].kind = "idle"
  BY DEF WorkspaceInit, Idle
<1>2. \A w \in Workers : Carried(w)
  BY <1>1 DEF Carried
<1>3. Cardinality(Files) \in Nat
  BY FS_CardinalityType, WorkspaceAssumption DEF WorkspaceAssumption
<1>4. CASE projects = {}
  <2>1. index = {} /\ sources = {} /\ named = {}
    BY <1>4 DEF WorkspaceInit
  <2> QED BY <1>1, <1>2, <2>1 DEF NamesInv, NamedApart, Below, RowsApart, AllNamed
<1>5. CASE projects # {}
  <2>1. PICK number \in [Files -> 3 .. Cardinality(Files) + 2] :
          /\ \A f, g \in Files : number[f] = number[g] => f = g
          /\ index = {[file |-> f, project |-> 1, id |-> number[f], ver |-> 1,
                       exists |-> TRUE, seen |-> "old"] : f \in Files}
          /\ sources = {[id |-> number[f], sid |-> number[f], project |-> 1, ver |-> 1,
                         status |-> "indexed"] : f \in Files}
          /\ named = {[id |-> number[f], sid |-> number[f]] : f \in Files}
    BY <1>5 DEF WorkspaceInit
  <2>2. fresh = Cardinality(Files) + 3 /\ \A f \in Files : number[f] < fresh
    BY <1>3, <1>5 DEF WorkspaceInit
  <2>3. NamedApart
    BY <2>1 DEF NamedApart
  <2>4. Below
    BY <1>1, <2>1, <2>2 DEF Below
  <2>5. RowsApart
    <3>1. ASSUME NEW r \in index, NEW q \in index, (r.file = q.file /\ r.project = q.project) \/ r.id = q.id
          PROVE  r = q
      <4>1. PICK f \in Files, g \in Files :
              /\ r = [file |-> f, project |-> 1, id |-> number[f], ver |-> 1, exists |-> TRUE, seen |-> "old"]
              /\ q = [file |-> g, project |-> 1, id |-> number[g], ver |-> 1, exists |-> TRUE, seen |-> "old"]
        BY <2>1
      <4>2. f = g
        BY <2>1, <3>1, <4>1
      <4> QED BY <4>1, <4>2
    <3>2. ASSUME NEW s \in sources, NEW t \in sources, s.id = t.id PROVE s = t
      BY <2>1, <3>2
    <3> QED BY <3>1, <3>2 DEF RowsApart
  <2>6. \A s \in sources : Named(s.id, s.sid)
    BY <2>1 DEF Named
  <2> QED BY <1>2, <2>3, <2>4, <2>5, <2>6 DEF NamesInv, AllNamed
<1> QED BY <1>4, <1>5

\* A step that names nothing, adds no row, and whose operations carry what they
\* carried.
LEMMA NamesQuiet ==
    ASSUME WTypes, NamesInv, UNCHANGED named, index' \subseteq index, sources' \subseteq sources,
           fresh' \in {fresh, fresh + 1, fresh + 2}, LibraryOpsStay
    PROVE  NamesInv'
<1>1. fresh \in Nat /\ named \subseteq [id : Nat, sid : Nat] /\ index \subseteq IndexRow
  BY DEF WTypes, DataTypes
<1>2. \A w \in Workers : op'[w].kind = "build" => op'[w] = op[w] /\ op[w].rows \subseteq IndexRow
  BY BuildOf DEF LibraryOpsStay, BuildOps
<1>3. Below'
  BY <1>1, <1>2 DEF Below, NamesInv, IndexRow
<1>4. \A w \in Workers : Carried(w)'
  <2> SUFFICES ASSUME NEW w \in Workers PROVE Carried(w)'
    OBVIOUS
  <2>1. op'[w].kind \in {"build", "mark"} => op'[w] = op[w]
    BY DEF LibraryOpsStay
  <2> QED BY <2>1 DEF NamesInv, AllNamed, Carried, Named
<1>5. AllNamed' /\ NamedApart' /\ RowsApart'
  BY <1>4 DEF NamesInv, AllNamed, NamedApart, RowsApart, Named
<1> QED BY <1>3, <1>5 DEF NamesInv

LEMMA SyncNames == ASSUME WTypes, NamesInv, NEW w \in Workers, SyncStep(w) PROVE NamesInv'
<1>1. sources' \subseteq sources
  BY SyncFrame DEF UnbindLibrary, library
<1> QED BY <1>1, SyncFrame, NamesQuiet

\* A scan numbers the row of a file that has none.
LEMMA ScanNames == ASSUME WTypes, NamesInv, NEW w \in Workers, ScanStep(w) PROVE NamesInv'
<1>1. fresh \in Nat /\ named \subseteq [id : Nat, sid : Nat] /\ index \subseteq IndexRow
  BY DEF WTypes, DataTypes
<1>2. UNCHANGED <<named, sources>> /\ fresh' \in {fresh, fresh + 1} /\ LibraryOpsStay
  BY ScanFrame DEF library, notes
<1>3. ASSUME NEW touched \in SUBSET IndexRow, index' = touched,
             \A q \in touched : q.id < fresh',
             \A r, q \in touched : (r.file = q.file /\ r.project = q.project) \/ r.id = q.id => r = q
      PROVE  NamesInv'
  <2>1. \A v \in Workers : op'[v].kind = "build" => op'[v] = op[v] /\ op[v].rows \subseteq IndexRow
    BY <1>2, BuildOf DEF LibraryOpsStay, BuildOps
  <2>2. Below'
    BY <1>1, <1>2, <1>3, <2>1 DEF Below, NamesInv, IndexRow
  <2>3. \A v \in Workers : Carried(v)'
    <3> SUFFICES ASSUME NEW v \in Workers PROVE Carried(v)'
      OBVIOUS
    <3>1. op'[v].kind \in {"build", "mark"} => op'[v] = op[v]
      BY <1>2 DEF LibraryOpsStay
    <3> QED BY <1>2, <3>1 DEF NamesInv, AllNamed, Carried, Named
  <2>4. AllNamed' /\ NamedApart'
    BY <1>2, <2>3 DEF NamesInv, AllNamed, NamedApart, Named
  <2>5. RowsApart'
    BY <1>2, <1>3 DEF NamesInv, RowsApart
  <2> QED BY <2>2, <2>4, <2>5 DEF NamesInv
<1>4. ASSUME NEW p, \/ index' = {[r EXCEPT !.seen = IF @ = w THEN "old" ELSE @] : r \in index}
                    \/ index' = {[r EXCEPT !.exists = @ /\ ~(r.project = p /\ r.seen # w)] : r \in index}
      PROVE  NamesInv'
  <2>1. /\ index' \subseteq IndexRow
        /\ \A q \in index' : \E r \in index : q.id = r.id /\ q.file = r.file /\ q.project = r.project
    <3>1. DataTypes
      BY DEF WTypes
    <3> QED BY <1>4, <3>1, IndexRowsKept
  <2>2. \A q \in index' : q.id < fresh'
    BY <1>1, <1>2, <2>1 DEF NamesInv, Below, IndexRow
  <2>3. ASSUME NEW r \in index, NEW s \in index,
               (r.file = s.file /\ r.project = s.project) \/ r.id = s.id
        PROVE  r = s
    BY <2>3 DEF NamesInv, RowsApart
  <2>4. ASSUME NEW q \in index', NEW t \in index',
               (q.file = t.file /\ q.project = t.project) \/ q.id = t.id
        PROVE  q = t
    <3>1. CASE index' = {[r EXCEPT !.seen = IF @ = w THEN "old" ELSE @] : r \in index}
      <4>1. PICK r \in index, s \in index : /\ q = [r EXCEPT !.seen = IF @ = w THEN "old" ELSE @]
                                            /\ t = [s EXCEPT !.seen = IF @ = w THEN "old" ELSE @]
        BY <3>1
      <4>2. q.id = r.id /\ q.file = r.file /\ q.project = r.project
            /\ t.id = s.id /\ t.file = s.file /\ t.project = s.project
        BY <1>1, <4>1 DEF IndexRow
      <4> QED BY <2>3, <2>4, <4>1, <4>2
    <3>2. CASE index' = {[r EXCEPT !.exists = @ /\ ~(r.project = p /\ r.seen # w)] : r \in index}
      <4>1. PICK r \in index, s \in index : /\ q = [r EXCEPT !.exists = @ /\ ~(r.project = p /\ r.seen # w)]
                                            /\ t = [s EXCEPT !.exists = @ /\ ~(s.project = p /\ s.seen # w)]
        BY <3>2
      <4>2. q.id = r.id /\ q.file = r.file /\ q.project = r.project
            /\ t.id = s.id /\ t.file = s.file /\ t.project = s.project
        BY <1>1, <4>1 DEF IndexRow
      <4> QED BY <2>3, <2>4, <4>1, <4>2
    <3> QED BY <1>4, <3>1, <3>2
  <2> QED BY <1>3, <2>1, <2>2, <2>4
<1>5. ASSUME NEW f \in Files, IndexFile(w, f) PROVE NamesInv'
  <2>0. RowsApart /\ \A r \in index : r.id < fresh
    BY DEF NamesInv, Below
  <2>1. CASE /\ SameRows(w, f) # {} /\ index' \subseteq IndexRow /\ UNCHANGED fresh
             /\ \A q \in index' :
                   \/ q \in index \ SameRows(w, f)
                   \/ \E r \in SameRows(w, f) : q = Seen(r, w) /\ q.id = r.id /\ q.file = f
                         /\ q.project = r.project
    <3>1. ASSUME NEW q \in index'
          PROVE  \E r \in index : /\ q.id = r.id /\ q.file = r.file /\ q.project = r.project
                                  /\ (q = r /\ r \notin SameRows(w, f)) \/ (q = Seen(r, w) /\ r \in SameRows(w, f))
      BY <2>1 DEF SameRows, OldRows
    <3>2. \A q \in index' : q.id < fresh'
      BY <2>0, <2>1, <3>1
    <3>3. ASSUME NEW q \in index', NEW t \in index',
                 (q.file = t.file /\ q.project = t.project) \/ q.id = t.id
          PROVE  q = t
      <4>1. PICK r \in index : /\ q.id = r.id /\ q.file = r.file /\ q.project = r.project
                               /\ (q = r /\ r \notin SameRows(w, f)) \/ (q = Seen(r, w) /\ r \in SameRows(w, f))
        BY <3>1
      <4>2. PICK s \in index : /\ t.id = s.id /\ t.file = s.file /\ t.project = s.project
                               /\ (t = s /\ s \notin SameRows(w, f)) \/ (t = Seen(s, w) /\ s \in SameRows(w, f))
        BY <3>1
      <4>3. r = s
        BY <2>0, <3>3, <4>1, <4>2 DEF RowsApart
      <4> QED BY <4>1, <4>2, <4>3
    <3> QED BY <1>3, <2>1, <3>2, <3>3
  <2>2. ASSUME NEW new \in IndexRow, new.file = f, new.project = op[w].project,
               \/ OldRows(w, f) = {} /\ new.id = fresh /\ fresh' = fresh + 1
               \/ (\E r \in OldRows(w, f) : new.id = r.id) /\ fresh' = fresh,
               index' = (index \ OldRows(w, f)) \cup {new}
        PROVE  NamesInv'
    <3>1. index' \subseteq IndexRow
      BY <1>1, <2>2
    <3>2. \A q \in index' : q.id < fresh'
      BY <1>1, <2>0, <2>2 DEF OldRows, IndexRow
    <3>3. ASSUME NEW q \in index \ OldRows(w, f)
          PROVE  q.id # new.id /\ ~(q.file = new.file /\ q.project = new.project)
      <4>1. ~(q.file = new.file /\ q.project = new.project)
        BY <2>2, <3>3 DEF OldRows
      <4>2. CASE new.id = fresh
        BY <1>1, <2>0, <4>1, <4>2 DEF IndexRow
      <4>3. CASE \E r \in OldRows(w, f) : new.id = r.id
        BY <2>0, <3>3, <4>1, <4>3 DEF RowsApart, OldRows
      <4> QED BY <2>2, <4>1, <4>2, <4>3
    <3>4. ASSUME NEW q \in index', NEW t \in index',
                 (q.file = t.file /\ q.project = t.project) \/ q.id = t.id
          PROVE  q = t
      <4>1. CASE q = new \/ t = new
        BY <2>2, <3>3, <3>4, <4>1
      <4>2. CASE q # new /\ t # new
        BY <2>0, <2>2, <3>4, <4>2 DEF RowsApart
      <4> QED BY <4>1, <4>2
    <3> QED BY <1>3, <3>1, <3>2, <3>4
  <2> QED BY <1>5, <2>1, <2>2, IndexFileRows
<1>6. ASSUME UNCHANGED index PROVE NamesInv'
  BY <1>2, <1>6, NamesQuiet
<1>7. ASSUME NEW f \in folders, ScanStart(w, f) PROVE NamesInv'
  BY <1>4, <1>7, ScanStartDoes
<1>8. ASSUME NEW f \in Files, SkipFile(w, f) PROVE NamesInv'
  BY <1>6, <1>8, SkipFileDoes
<1>9. CASE MarkMissing(w)
  <2>1. index' = {[r EXCEPT !.exists = @ /\ ~(r.project = op[w].project /\ r.seen # w)] : r \in index}
    BY <1>9, MarkMissingDoes
  <2> QED BY <1>4, <2>1
<1>10. CASE FinishRun(w) \/ ScanFails(w) \/ \E f \in Files : PassOver(w, f)
  BY <1>6, <1>10 DEF FinishRun, ScanFails, PassOver
<1> QED BY <1>5, <1>7, <1>8, <1>9, <1>10 DEF ScanStep

\* The library's records of the others stay while w goes on.
OthersStay(w) == \A v \in Workers \ {w} : (op'[v].kind \in {"build", "mark"} \/ op[v].kind \in {"build", "mark"})
                                            => op'[v] = op[v]

\* A step of the library keeps the names when the sources and what w carries do.
LEMMA NamesGoOn ==
    ASSUME WTypes, NamesInv, NEW w \in Workers, OthersStay(w), UNCHANGED index,
           \/ UNCHANGED <<named, fresh>>
           \/ \E id \in Nat : id < fresh /\ named' = named \cup {[id |-> id, sid |-> fresh]} /\ fresh' = fresh + 1,
           \A s \in sources' : Named(s.id, s.sid)', \A s, t \in sources' : s.id = t.id => s = t,
           Carried(w)', op'[w].kind = "build" => \A r \in op'[w].rows : r \in IndexRow /\ r.id < fresh
    PROVE  NamesInv'
<1>1. /\ fresh \in Nat /\ fresh' \in {fresh, fresh + 1} /\ named \subseteq [id : Nat, sid : Nat]
      /\ index \subseteq IndexRow
  BY DEF WTypes, DataTypes
<1>2. /\ named \subseteq named'
      /\ \A p \in named' : p \in named \/ (p.id < fresh /\ p.sid = fresh /\ fresh' = fresh + 1)
      /\ \A p, q \in named' : p \notin named /\ q \notin named => p = q
  OBVIOUS
<1>3. NamedApart /\ \A p \in named : p.id < fresh /\ p.sid < fresh
  BY DEF NamesInv, Below
<1>4. NamedApart'
  BY <1>1, <1>2, <1>3 DEF NamedApart
<1>5. ASSUME NEW v \in Workers, op'[v].kind = "build"
      PROVE  \A r \in op'[v].rows : (r.id < fresh /\ r \in IndexRow) \/ v = w
  BY <1>5, BuildOf DEF OthersStay, NamesInv, Below, BuildOps
<1>6. Below'
  <2>1. \A p \in named' : p.id < fresh' /\ p.sid < fresh'
    <3> SUFFICES ASSUME NEW p \in named' PROVE p.id < fresh' /\ p.sid < fresh'
      OBVIOUS
    <3>1. CASE p \in named
      BY <1>1, <1>3, <3>1
    <3>2. CASE p \notin named
      <4>1. PICK id \in Nat : id < fresh /\ p = [id |-> id, sid |-> fresh] /\ fresh' = fresh + 1
        BY <3>2
      <4> QED BY <1>1, <4>1
    <3> QED BY <3>1, <3>2
  <2>2. \A r \in index' : r.id < fresh'
    BY <1>1 DEF NamesInv, Below, IndexRow
  <2>3. ASSUME NEW v \in Workers, op'[v].kind = "build" PROVE \A r \in op'[v].rows : r.id < fresh'
    <3>1. CASE v = w
      <4> SUFFICES ASSUME NEW r \in op'[w].rows PROVE r.id < fresh'
        BY <3>1
      <4>1. r.id < fresh /\ r \in IndexRow
        BY <2>3, <3>1
      <4> QED BY <1>1, <4>1 DEF IndexRow
    <3>2. CASE v # w
      BY <1>1, <1>5, <2>3, <3>2 DEF IndexRow
    <3> QED BY <3>1, <3>2
  <2> QED BY <2>1, <2>2, <2>3 DEF Below
<1>7. ASSUME NEW v \in Workers PROVE Carried(v)'
  <2>1. CASE v = w
    BY <2>1
  <2>2. CASE v # w
    <3>1. op'[v].kind \in {"build", "mark"} => op'[v] = op[v] /\ Carried(v)
      BY <2>2 DEF OthersStay, NamesInv, AllNamed
    <3> QED BY <1>2, <3>1 DEF Carried, Named
  <2> QED BY <2>1, <2>2
<1>8. AllNamed' /\ RowsApart'
  BY <1>7 DEF NamesInv, AllNamed, RowsApart
<1> QED BY <1>4, <1>6, <1>8 DEF NamesInv

LEMMA BeginOthersStay == ASSUME WTypes, NEW w \in Workers, BeginDoes(w) PROVE OthersStay(w)
  BY DEF BeginDoes, OthersStay

LEMMA BuildOthersStay ==
    ASSUME WTypes, NEW w \in Workers, BuildGoes(w)
    PROVE  /\ OthersStay(w) /\ op[w].kind = "build" /\ op'[w].kind = "build"
           /\ op'[w].rows \subseteq IndexRow
  BY DEF BuildGoes, OthersStay, OthersKeep, BuildOps

\* The sources after an upsert or a mark are named, and apart.
LEMMA UpsertNames ==
    ASSUME WTypes, NamesInv, NEW row \in IndexRow, NEW sid \in Nat, Named(row.id, sid), UNCHANGED named,
           NEW status \in {"indexed", "skipped", "error", "missing"}, Upsert(row, sid, status)
    PROVE  (\A s \in sources' : Named(s.id, s.sid)') /\ \A s, t \in sources' : s.id = t.id => s = t
<1>1. PICK new \in SourceRow :
        /\ new.id = row.id
        /\ \/ new.sid = sid
           \/ \E s \in sources : s.id = row.id /\ s.sid = new.sid
        /\ sources' = {s \in sources : s.id # row.id} \cup {new}
  BY UpsertDoes DEF WTypes
<1>2. /\ \A s \in sources : Named(s.id, s.sid)
      /\ \A s, t \in sources : s.id = t.id => s = t
  BY DEF NamesInv, AllNamed, RowsApart
<1>3. Named(new.id, new.sid)
  BY <1>1, <1>2
<1> QED BY <1>1, <1>2, <1>3 DEF Named

LEMMA MarkNames ==
    ASSUME WTypes, NamesInv, NEW sid, UNCHANGED named,
           NEW status \in {"missing", "deleted_local", "pending"}, Mark(sid, status)
    PROVE  (\A s \in sources' : Named(s.id, s.sid)') /\ \A s, t \in sources' : s.id = t.id => s = t
<1>1. /\ \A s \in sources : Named(s.id, s.sid)
      /\ \A s, t \in sources : s.id = t.id => s = t
  BY DEF NamesInv, AllNamed, RowsApart
<1>2. \A s \in sources' : Named(s.id, s.sid)'
  <2>1. \A t \in sources' : \E s \in sources : t.id = s.id /\ t.sid = s.sid
    BY MarkDoes DEF WTypes
  <2> QED BY <1>1, <2>1 DEF Named
<1>3. ASSUME NEW p \in sources', NEW q \in sources', p.id = q.id PROVE p = q
  <2>1. PICK s \in sources, t \in sources :
          /\ p = [s EXCEPT !.status = IF s.sid = sid THEN status ELSE @]
          /\ q = [t EXCEPT !.status = IF t.sid = sid THEN status ELSE @]
    BY DEF Mark
  <2>2. s \in SourceRow /\ t \in SourceRow
    BY DEF WTypes, DataTypes
  <2>3. p.id = s.id /\ q.id = t.id
    BY <2>1, <2>2 DEF SourceRow
  <2>4. s = t
    BY <1>1, <1>3, <2>3
  <2> QED BY <2>1, <2>4
<1> QED BY <1>2, <1>3

LEMMA LibraryNames == ASSUME WTypes, NamesInv, NEW w \in Workers, LibraryStep(w) PROVE NamesInv'
<1>0. /\ \A s \in sources : Named(s.id, s.sid)
      /\ \A s, t \in sources : s.id = t.id => s = t
      /\ \A r \in index : r.id < fresh
      /\ Carried(w) /\ (op[w].kind = "build" => \A r \in op[w].rows : r.id < fresh)
      /\ index \subseteq IndexRow
  BY DEF NamesInv, AllNamed, RowsApart, Below, WTypes, DataTypes
<1>1. CASE BuildStart(w)
  <2>1. /\ BeginDoes(w) /\ op'[w] \in BuildOps /\ op'[w].rows = index /\ op'[w].known = {}
        /\ op'[w].gone = {} /\ op'[w].at = NoRow /\ UNCHANGED <<index, sources, named, fresh>>
    BY <1>1, BuildStartDoes DEF library, notes
  <2>2. op'[w].kind = "build"
    BY <2>1 DEF BuildOps
  <2>3. Carried(w)'
    BY <2>1, <2>2 DEF Carried
  <2>4. OthersStay(w)
    BY <2>1, BeginOthersStay
  <2>5. \A s \in sources' : Named(s.id, s.sid)'
    BY <1>0, <2>1 DEF Named
  <2> QED BY <1>0, <2>1, <2>3, <2>4, <2>5, NamesGoOn
<1>2. CASE ReadSources(w)
  <2>1. /\ BuildGoes(w) /\ op'[w].rows = op[w].rows /\ op'[w].at = op[w].at
        /\ op'[w].known = sources /\ op'[w].gone \subseteq sources /\ UNCHANGED <<index, sources, named, fresh>>
    BY <1>2, ReadSourcesDoes DEF library, notes
  <2>2. OthersStay(w) /\ op[w].kind = "build" /\ op'[w].kind = "build" /\ op'[w].rows \subseteq IndexRow
    BY <2>1, BuildOthersStay
  <2>3. Carried(w)'
    BY <1>0, <2>1, <2>2 DEF Carried, Named
  <2>4. \A s \in sources' : Named(s.id, s.sid)'
    BY <1>0, <2>1 DEF Named
  <2> QED BY <1>0, <2>1, <2>2, <2>3, <2>4, NamesGoOn
<1>3. CASE WriteSource(w)
  <2>1. PICK status \in {"indexed", "skipped", "error", "missing"} :
          /\ Upsert(op[w].at.row, op[w].at.sid, status)
          /\ status # "indexed" => op'[w].at = NoRow
          /\ status = "indexed" => op'[w].at.row = op[w].at.row /\ op'[w].at.sid = op[w].at.sid
    BY <1>3, WriteSourceDoes
  <2>2. /\ BuildGoes(w) /\ op[w].at # NoRow /\ op[w].at \in TakenRow /\ op'[w].rows = op[w].rows
        /\ op'[w].known = op[w].known /\ op'[w].gone = op[w].gone /\ UNCHANGED <<index, named, fresh>>
    BY <1>3, WriteSourceDoes
  <2>3. OthersStay(w) /\ op[w].kind = "build" /\ op'[w].kind = "build" /\ op'[w].rows \subseteq IndexRow
    BY <2>2, BuildOthersStay
  <2>4. Named(op[w].at.row.id, op[w].at.sid) /\ op[w].at.row \in IndexRow /\ op[w].at.sid \in Nat
    BY <1>0, <2>2, <2>3 DEF Carried, TakenRow
  <2>5. (\A s \in sources' : Named(s.id, s.sid)') /\ \A s, t \in sources' : s.id = t.id => s = t
    BY <2>1, <2>2, <2>4, UpsertNames
  <2>6. Carried(w)'
    BY <1>0, <2>1, <2>2, <2>3, <2>4 DEF Carried, Named
  <2> QED BY <1>0, <2>2, <2>3, <2>5, <2>6, NamesGoOn
<1>4. CASE InsertChunks(w)
  <2>1. /\ BuildGoes(w) /\ op[w].at # NoRow /\ op[w].at \in TakenRow /\ op'[w].rows = op[w].rows
        /\ op'[w].known = op[w].known /\ op'[w].gone = op[w].gone /\ op'[w].at = NoRow
        /\ UNCHANGED <<index, named, fresh>>
        /\ Upsert(op[w].at.row, op[w].at.sid, "error") \/ UNCHANGED sources
    BY <1>4, InsertChunksDoes DEF notes
  <2>2. OthersStay(w) /\ op[w].kind = "build" /\ op'[w].kind = "build" /\ op'[w].rows \subseteq IndexRow
    BY <2>1, BuildOthersStay
  <2>3. Named(op[w].at.row.id, op[w].at.sid) /\ op[w].at.row \in IndexRow /\ op[w].at.sid \in Nat
    BY <1>0, <2>1, <2>2 DEF Carried, TakenRow
  <2>4. (\A s \in sources' : Named(s.id, s.sid)') /\ \A s, t \in sources' : s.id = t.id => s = t
    <3>1. CASE UNCHANGED sources
      BY <1>0, <2>1, <3>1 DEF Named
    <3>2. CASE Upsert(op[w].at.row, op[w].at.sid, "error")
      BY <2>1, <2>3, <3>2, UpsertNames
    <3> QED BY <2>1, <3>1, <3>2
  <2>5. Carried(w)'
    BY <1>0, <2>1, <2>2 DEF Carried, Named
  <2> QED BY <1>0, <2>1, <2>2, <2>4, <2>5, NamesGoOn
<1>5. CASE BuildEnd(w)
  <2>1. op'[w] = Idle /\ OthersKeep(w) /\ UNCHANGED <<index, sources, named, fresh>>
    BY <1>5, EndDoes DEF BuildEnd, library, notes
  <2>2. Carried(w)' /\ OthersStay(w) /\ op'[w].kind # "build"
    BY <2>1 DEF Carried, Idle, OthersKeep, OthersStay
  <2>3. \A s \in sources' : Named(s.id, s.sid)'
    BY <1>0, <2>1 DEF Named
  <2> QED BY <1>0, <2>1, <2>2, <2>3, NamesGoOn
<1>6. CASE MarkWrite(w)
  <2>1. /\ op'[w] = Idle /\ OthersKeep(w) /\ UNCHANGED <<index, named, fresh>>
        /\ Mark(op[w].source.sid, op[w].status) /\ op[w].status \in {"deleted_local", "pending"}
    BY <1>6, MarkWriteDoes
  <2>2. Carried(w)' /\ OthersStay(w) /\ op'[w].kind # "build"
    BY <2>1 DEF Carried, Idle, OthersKeep, OthersStay
  <2>3. (\A s \in sources' : Named(s.id, s.sid)') /\ \A s, t \in sources' : s.id = t.id => s = t
    BY <2>1, MarkNames
  <2> QED BY <2>1, <2>2, <2>3, NamesGoOn
<1>7. ASSUME NEW row \in IF op[w].kind = "build" THEN op[w].rows ELSE {}, SkipRow(w, row) PROVE NamesInv'
  <2>1. /\ BuildGoes(w) /\ op'[w].rows = op[w].rows \ {row} /\ op'[w].at = op[w].at
        /\ op'[w].known = op[w].known /\ op'[w].gone = op[w].gone /\ UNCHANGED <<index, sources, named, fresh>>
    BY <1>7, SkipRowDoes DEF library, notes
  <2>2. OthersStay(w) /\ op[w].kind = "build" /\ op'[w].kind = "build" /\ op'[w].rows \subseteq IndexRow
    BY <2>1, BuildOthersStay
  <2>3. Carried(w)'
    BY <1>0, <2>1, <2>2 DEF Carried, Named
  <2>4. \A s \in sources' : Named(s.id, s.sid)'
    BY <1>0, <2>1 DEF Named
  <2> QED BY <1>0, <2>1, <2>2, <2>3, <2>4, NamesGoOn
<1>8. ASSUME NEW row \in IF op[w].kind = "build" THEN op[w].rows ELSE {}, TakeRow(w, row) PROVE NamesInv'
  <2>0. op[w].kind = "build" /\ row \in op[w].rows
    BY <1>8
  <2>1. PICK sid \in Nat :
          /\ BuildGoes(w) /\ row \in IndexRow
          /\ op'[w].rows = op[w].rows \ {row} /\ op'[w].known = op[w].known /\ op'[w].gone = op[w].gone
          /\ op'[w].at.row = row /\ op'[w].at.sid = sid
          /\ \/ /\ sid = fresh /\ fresh' = fresh + 1
                /\ named' = named \cup {[id |-> row.id, sid |-> sid]}
             \/ /\ \E s \in op[w].known : s.id = row.id /\ s.sid = sid
                /\ UNCHANGED <<fresh, named>>
          /\ UNCHANGED <<index, sources>>
    BY <1>8, <2>0, TakeRowDoes
  <2>2. OthersStay(w) /\ op'[w].kind = "build" /\ op'[w].rows \subseteq IndexRow
    BY <2>1, BuildOthersStay
  <2>3. Named(row.id, sid)' /\ named \subseteq named'
    BY <1>0, <2>0, <2>1 DEF Carried, Named
  <2>4. Carried(w)'
    BY <1>0, <2>0, <2>1, <2>2, <2>3 DEF Carried, Named
  <2>5. \A s \in sources' : Named(s.id, s.sid)'
    BY <1>0, <2>1, <2>3 DEF Named
  <2>6. row.id < fresh /\ row.id \in Nat
    BY <1>0, <2>0, <2>1 DEF IndexRow
  <2>7. \/ UNCHANGED <<named, fresh>>
        \/ \E id \in Nat : id < fresh /\ named' = named \cup {[id |-> id, sid |-> fresh]} /\ fresh' = fresh + 1
    BY <2>1, <2>6
  <2> QED BY <1>0, <2>0, <2>1, <2>2, <2>4, <2>5, <2>7, NamesGoOn
<1>9. ASSUME NEW s \in IF op[w].kind = "build" THEN op[w].gone ELSE {}, DropGone(w, s) PROVE NamesInv'
  <2>0. op[w].kind = "build" /\ s \in op[w].gone
    BY <1>9
  <2>1. /\ BuildGoes(w) /\ op'[w].rows = {} /\ op'[w].known = op[w].known /\ op'[w].at = NoRow
        /\ \/ /\ UNCHANGED sources
              /\ \E t \in GoneRow : /\ t.id = s.id /\ t.sid = s.sid
                                    /\ op'[w].gone = (op[w].gone \ {s}) \cup {t}
           \/ Mark(s.sid, "missing") /\ op'[w].gone = op[w].gone \ {s}
        /\ UNCHANGED <<index, named, fresh>>
    BY <1>9, <2>0, DropGoneDoes
  <2>2. OthersStay(w) /\ op'[w].kind = "build"
    BY <2>1, BuildOthersStay
  <2>3. Carried(w)'
    BY <1>0, <2>0, <2>1, <2>2 DEF Carried, Named
  <2>4. (\A t \in sources' : Named(t.id, t.sid)') /\ \A p, q \in sources' : p.id = q.id => p = q
    <3>1. CASE UNCHANGED sources
      BY <1>0, <2>1, <3>1 DEF Named
    <3>2. CASE Mark(s.sid, "missing")
      BY <2>1, <3>2, MarkNames
    <3> QED BY <2>1, <3>1, <3>2
  <2> QED BY <2>1, <2>2, <2>3, <2>4, NamesGoOn
<1>10. ASSUME NEW s \in sources, NEW status \in {"deleted_local", Restored}, MarkStart(w, s, status)
       PROVE  NamesInv'
  <2>1. /\ BeginDoes(w) /\ op'[w] \in MarkOps /\ op'[w].source = s /\ UNCHANGED <<index, sources, named, fresh>>
    BY <1>10, MarkStartDoes DEF notes
  <2>2. op'[w].kind = "mark" /\ Carried(w)'
    BY <1>0, <2>1 DEF MarkOps, Carried, Named
  <2>3. OthersStay(w)
    BY <2>1, BeginOthersStay
  <2>4. \A t \in sources' : Named(t.id, t.sid)'
    BY <1>0, <2>1 DEF Named
  <2> QED BY <1>0, <2>1, <2>2, <2>3, <2>4, NamesGoOn
<1> QED BY <1>1, <1>2, <1>3, <1>4, <1>5, <1>6, <1>7, <1>8, <1>9, <1>10 DEF LibraryStep

LEMMA NamesStep == ASSUME WTypes, NamesInv, [WorkspaceNext]_workspaceVars PROVE NamesInv'
<1>0. \A v \in Workers : Idle.kind \notin {"build", "mark"}
  BY DEF Idle
<1>1. CASE UNCHANGED workspaceVars
  <2>1. UNCHANGED <<named, index, sources, fresh, op>>
    BY <1>1 DEF workspaceVars, library, notes
  <2> QED BY <2>1, NamesQuiet DEF LibraryOpsStay
<1>2. ASSUME NEW w \in Workers, SyncStep(w) \/ ScanStep(w) \/ LibraryStep(w) PROVE NamesInv'
  BY <1>2, SyncNames, ScanNames, LibraryNames
<1>3. ASSUME NEW w \in Workers, Die(w) PROVE NamesInv'
  <2>1. op'[w] = Idle /\ OthersKeep(w) /\ UNCHANGED <<named, index, sources, fresh>>
    BY <1>3, DieDoes DEF library, notes
  <2>2. OthersStay(w) /\ Carried(w)' /\ op'[w].kind # "build"
    BY <1>0, <2>1 DEF OthersStay, OthersKeep, Carried
  <2>3. (\A s \in sources' : Named(s.id, s.sid)') /\ \A p, q \in sources' : p.id = q.id => p = q
    BY <2>1 DEF NamesInv, AllNamed, RowsApart, Named
  <2> QED BY <2>1, <2>2, <2>3, NamesGoOn
<1>4. ASSUME NEW f \in Files, NEW there \in BOOLEAN, Edit(f, there) PROVE NamesInv'
  <2>1. UNCHANGED <<named, index, sources, fresh>>
    BY <1>4, EditDoes DEF library, notes
  <2>2. \A v \in Workers : (op[v].kind # "scan" => op'[v] = op[v]) /\ op'[v].kind = op[v].kind
    BY <1>4, EditDoes
  <2>3. LibraryOpsStay
    BY <2>2 DEF LibraryOpsStay
  <2> QED BY <2>1, <2>3, NamesQuiet
<1> QED BY <1>1, <1>2, <1>3, <1>4 DEF WorkspaceNext

\* Rows stay rows, a file of a project has one index row, a file one source,
\* and a source id is the id of one source (the UNIQUE columns of the schema,
\* and uuid4).
THEOREM RowsAreUnique == WorkspaceSpec => []WorkspaceTypeOK
<1>1. WTypes /\ NamesInv => WorkspaceTypeOK
  <2> SUFFICES ASSUME WTypes, NamesInv PROVE WorkspaceTypeOK
    OBVIOUS
  <2>1. ASSUME NEW s \in sources, NEW t \in sources, s.id = t.id \/ s.sid = t.sid PROVE s = t
    <3>1. Named(s.id, s.sid) /\ Named(t.id, t.sid) /\ NamedApart
      BY DEF NamesInv, AllNamed
    <3>2. s.id = t.id
      BY <2>1, <3>1, OneOwner
    <3> QED BY <3>2 DEF NamesInv, RowsApart
  <2>2. \A r, q \in index : (r.file = q.file /\ r.project = q.project) \/ r.id = q.id => r = q
    BY DEF NamesInv, RowsApart
  <2> QED BY <2>1, <2>2 DEF WTypes, DataTypes, WorkspaceTypeOK
<1>2. WTypes /\ NamesInv /\ [WorkspaceNext]_workspaceVars => WTypes' /\ NamesInv'
  BY TypesStep, NamesStep
<1> QED BY <1>1, <1>2, TypesStart, NamesStart, PTL DEF WorkspaceSpec

-----------------------------------------------------------------------------
(* The project of a file: one for each file id, in the index, in the library, *)
(* in the rows a build took, and in the search rows of its source ids.        *)

CarriedOwn(w, owner) ==
    op[w].kind = "build" => /\ \A r \in op[w].rows : r.project = owner[r.id]
                            /\ op[w].at # NoRow => op[w].at.row.project = owner[op[w].at.row.id]
SearchedOwn(owner) == \A r \in fts : \E p \in named : p.sid = r.sid /\ r.project = owner[p.id]
OwnedBy(owner) ==
    /\ \A r \in index : r.project = owner[r.id]
    /\ \A s \in sources : s.project = owner[s.id]
    /\ \A w \in Workers : CarriedOwn(w, owner)
    /\ SearchedOwn(owner)
OwnerInv == \E owner \in [Nat -> Nat] : OwnedBy(owner)

LEMMA OwnerStart == WorkspaceInit => OwnerInv
<1> SUFFICES ASSUME WorkspaceInit PROVE OwnerInv
  OBVIOUS
<1>1. PICK owner : owner = [i \in Nat |-> 1]
  OBVIOUS
<1>2. owner \in [Nat -> Nat] /\ \A i \in Nat : owner[i] = 1
  BY <1>1
<1>3. \A w \in Workers : CarriedOwn(w, owner)
  BY DEF WorkspaceInit, Idle, CarriedOwn
<1>4. CASE projects = {}
  BY <1>2, <1>3, <1>4 DEF WorkspaceInit, OwnerInv, OwnedBy, SearchedOwn
<1>5. CASE projects # {}
  <2>1. PICK number \in [Files -> 3 .. Cardinality(Files) + 2] :
          /\ index = {[file |-> f, project |-> 1, id |-> number[f], ver |-> 1,
                       exists |-> TRUE, seen |-> "old"] : f \in Files}
          /\ sources = {[id |-> number[f], sid |-> number[f], project |-> 1, ver |-> 1,
                         status |-> "indexed"] : f \in Files}
          /\ fts = {[sid |-> number[f], project |-> 1] : f \in Files}
          /\ named = {[id |-> number[f], sid |-> number[f]] : f \in Files}
    BY <1>5 DEF WorkspaceInit
  <2>2. Cardinality(Files) \in Nat
    BY FS_CardinalityType, WorkspaceAssumption DEF WorkspaceAssumption
  <2>3. \A f \in Files : number[f] \in Nat /\ owner[number[f]] = 1
    BY <1>2, <2>2
  <2>4. SearchedOwn(owner)
    <3> SUFFICES ASSUME NEW f \in Files
                 PROVE  \E p \in named : p.sid = number[f] /\ 1 = owner[p.id]
      BY <2>1 DEF SearchedOwn
    <3>1. [id |-> number[f], sid |-> number[f]] \in named
      BY <2>1
    <3> QED BY <2>3, <3>1
  <2>5. (\A r \in index : r.project = owner[r.id]) /\ \A s \in sources : s.project = owner[s.id]
    BY <2>1, <2>3
  <2> QED BY <1>2, <1>3, <2>4, <2>5 DEF OwnerInv, OwnedBy
<1> QED BY <1>4, <1>5

\* Names are kept, and what is new has the project of its file id.
LEMMA OwnerKept ==
    ASSUME NEW owner \in [Nat -> Nat], OwnedBy(owner), NEW w \in Workers, OthersStay(w), named \subseteq named',
           \A r \in index' : r.project = owner[r.id], \A s \in sources' : s.project = owner[s.id],
           CarriedOwn(w, owner)', fts' \subseteq fts
    PROVE  OwnerInv'
<1>1. ASSUME NEW v \in Workers PROVE CarriedOwn(v, owner)'
  <2>1. CASE v = w
    BY <2>1
  <2>2. CASE v # w
    <3>1. op'[v].kind = "build" => op'[v] = op[v]
      BY <2>2 DEF OthersStay
    <3> QED BY <3>1 DEF OwnedBy, CarriedOwn
  <2> QED BY <2>1, <2>2
<1>2. SearchedOwn(owner)'
  BY DEF OwnedBy, SearchedOwn
<1>3. OwnedBy(owner)'
  BY <1>1, <1>2 DEF OwnedBy
<1> QED BY <1>3 DEF OwnerInv

\* Whatever changes only how rows were seen keeps their projects.
LEMMA OwnerQuiet ==
    ASSUME WTypes, NamesInv, OwnerInv, UNCHANGED named, LibraryOpsStay,
           sources' \subseteq sources, fts' \subseteq fts,
           \A q \in index' : \E r \in index : q.id = r.id /\ q.project = r.project
    PROVE  OwnerInv'
<1>1. PICK owner \in [Nat -> Nat] : OwnedBy(owner)
  BY DEF OwnerInv
<1>2. ASSUME NEW v \in Workers PROVE CarriedOwn(v, owner)'
  <2>1. op'[v].kind = "build" => op'[v] = op[v]
    BY DEF LibraryOpsStay
  <2> QED BY <1>1, <2>1 DEF OwnedBy, CarriedOwn
<1>3. SearchedOwn(owner)'
  BY <1>1 DEF OwnedBy, SearchedOwn
<1>4. OwnedBy(owner)'
  BY <1>1, <1>2, <1>3 DEF OwnedBy
<1> QED BY <1>4 DEF OwnerInv

LEMMA SyncOwner == ASSUME WTypes, NamesInv, OwnerInv, NEW w \in Workers, SyncStep(w) PROVE OwnerInv'
<1>1. sources' \subseteq sources /\ fts' \subseteq fts
  BY SyncFrame DEF UnbindLibrary, library
<1> QED BY <1>1, SyncFrame, OwnerQuiet

\* The file id a scan makes is new, so its project is free to choose.
LEMMA ScanOwner == ASSUME WTypes, NamesInv, OwnerInv, NEW w \in Workers, ScanStep(w) PROVE OwnerInv'
<1>1. UNCHANGED <<named, sources, chunks, fts>> /\ LibraryOpsStay
  BY ScanFrame DEF library, notes
<1>2. ASSUME \A q \in index' : \E r \in index : q.id = r.id /\ q.project = r.project PROVE OwnerInv'
  BY <1>1, <1>2, OwnerQuiet
<1>3. ASSUME NEW p, \/ index' = {[r EXCEPT !.seen = IF @ = w THEN "old" ELSE @] : r \in index}
                    \/ index' = {[r EXCEPT !.exists = @ /\ ~(r.project = p /\ r.seen # w)] : r \in index}
      PROVE  OwnerInv'
  <2>1. DataTypes
    BY DEF WTypes
  <2> QED BY <1>2, <1>3, <2>1, IndexRowsKept
<1>4. ASSUME NEW f \in Files, IndexFile(w, f) PROVE OwnerInv'
  <2>1. CASE \A q \in index' : \E r \in index : q.id = r.id /\ q.project = r.project
    BY <1>2, <2>1
  <2>2. ASSUME NEW new \in IndexRow, new.project = op[w].project,
               index' = (index \ OldRows(w, f)) \cup {new},
               \E r \in OldRows(w, f) : new.id = r.id
        PROVE  OwnerInv'
    BY <1>2, <2>2 DEF OldRows
  <2>3. ASSUME NEW new \in IndexRow, new.id = fresh, index' = (index \ OldRows(w, f)) \cup {new}
        PROVE  OwnerInv'
    <3>1. PICK owner \in [Nat -> Nat] : OwnedBy(owner)
      BY DEF OwnerInv
    <3>2. PICK mine : mine = [owner EXCEPT ![fresh] = new.project]
      OBVIOUS
    <3>3. fresh \in Nat /\ new.project \in Nat
      BY DEF WTypes, DataTypes, IndexRow
    <3>4. mine \in [Nat -> Nat] /\ mine[fresh] = new.project
          /\ \A i \in Nat : i < fresh => mine[i] = owner[i]
      BY <3>2, <3>3
    <3>5. \A p \in named : p.id \in Nat /\ p.id < fresh /\ mine[p.id] = owner[p.id]
      BY <3>4 DEF NamesInv, Below, WTypes, DataTypes
    <3>6. \A s \in sources : mine[s.id] = owner[s.id]
      <4>1. ASSUME NEW s \in sources PROVE [id |-> s.id, sid |-> s.sid] \in named
        BY DEF NamesInv, AllNamed, Named
      <4> QED BY <3>5, <4>1
    <3>7. \A r \in index : r.id \in Nat /\ r.id < fresh /\ mine[r.id] = owner[r.id]
      BY <3>4 DEF NamesInv, Below, WTypes, DataTypes, IndexRow
    <3>8. \A r \in index' : r.project = mine[r.id]
      BY <2>3, <3>1, <3>4, <3>7 DEF OwnedBy
    <3>9. ASSUME NEW v \in Workers PROVE CarriedOwn(v, mine)'
      <4> SUFFICES ASSUME op'[v].kind = "build" PROVE CarriedOwn(v, mine)'
        BY DEF CarriedOwn
      <4>1. op'[v] = op[v] /\ op[v] \in BuildOps
        BY <1>1, BuildOf DEF LibraryOpsStay
      <4>2. \A r \in op[v].rows : r.project = mine[r.id]
        <5>1. \A r \in op[v].rows : r.id \in Nat /\ r.id < fresh
          BY <4>1 DEF BuildOps, IndexRow, NamesInv, Below
        <5> QED BY <3>1, <3>4, <4>1, <5>1 DEF OwnedBy, CarriedOwn
      <4>3. op[v].at # NoRow => op[v].at.row.project = mine[op[v].at.row.id]
        <5> SUFFICES ASSUME op[v].at # NoRow PROVE op[v].at.row.project = mine[op[v].at.row.id]
          OBVIOUS
        <5>1. [id |-> op[v].at.row.id, sid |-> op[v].at.sid] \in named
          BY <4>1 DEF NamesInv, AllNamed, Carried, Named
        <5> QED BY <3>1, <3>5, <4>1, <5>1 DEF OwnedBy, CarriedOwn
      <4> QED BY <4>1, <4>2, <4>3 DEF CarriedOwn
    <3>10. SearchedOwn(mine)'
      BY <1>1, <3>1, <3>5 DEF OwnedBy, SearchedOwn
    <3>11. OwnedBy(mine)'
      BY <1>1, <3>1, <3>6, <3>8, <3>9, <3>10 DEF OwnedBy
    <3> QED BY <3>4, <3>11 DEF OwnerInv
  <2>4. \/ \A q \in index' : \/ q \in index \ SameRows(w, f)
                             \/ \E r \in SameRows(w, f) : q.id = r.id /\ q.project = r.project
        \/ \E new \in IndexRow :
              /\ new.project = op[w].project /\ index' = (index \ OldRows(w, f)) \cup {new}
              /\ new.id = fresh \/ \E r \in OldRows(w, f) : new.id = r.id
    BY <1>4, IndexFileRows
  <2>5. SameRows(w, f) \subseteq index
    BY DEF SameRows, OldRows
  <2>6. CASE \E new \in IndexRow :
               /\ new.project = op[w].project /\ index' = (index \ OldRows(w, f)) \cup {new}
               /\ new.id = fresh \/ \E r \in OldRows(w, f) : new.id = r.id
    BY <2>2, <2>3, <2>6
  <2>7. CASE \A q \in index' : \/ q \in index \ SameRows(w, f)
                               \/ \E r \in SameRows(w, f) : q.id = r.id /\ q.project = r.project
    BY <2>1, <2>5, <2>7
  <2> QED BY <2>4, <2>6, <2>7
<1>5. ASSUME UNCHANGED index PROVE OwnerInv'
  BY <1>2, <1>5
<1>6. ASSUME NEW f \in folders, ScanStart(w, f) PROVE OwnerInv'
  BY <1>3, <1>6, ScanStartDoes
<1>7. ASSUME NEW f \in Files, SkipFile(w, f) PROVE OwnerInv'
  BY <1>5, <1>7, SkipFileDoes
<1>8. CASE MarkMissing(w)
  <2>1. index' = {[r EXCEPT !.exists = @ /\ ~(r.project = op[w].project /\ r.seen # w)] : r \in index}
    BY <1>8, MarkMissingDoes
  <2> QED BY <1>3, <2>1
<1>9. CASE FinishRun(w) \/ ScanFails(w) \/ \E f \in Files : PassOver(w, f)
  BY <1>5, <1>9 DEF FinishRun, ScanFails, PassOver
<1> QED BY <1>4, <1>6, <1>7, <1>8, <1>9 DEF ScanStep

LEMMA UpsertOwner ==
    ASSUME WTypes, NEW owner, \A s \in sources : s.project = owner[s.id],
           NEW row \in IndexRow, row.project = owner[row.id], NEW sid \in Nat,
           NEW status \in {"indexed", "skipped", "error", "missing"}, Upsert(row, sid, status)
    PROVE  \A s \in sources' : s.project = owner[s.id]
<1>1. DataTypes
  BY DEF WTypes
<1> QED BY <1>1, UpsertDoes

LEMMA MarkOwner ==
    ASSUME WTypes, NEW owner, \A s \in sources : s.project = owner[s.id], NEW sid,
           NEW status \in {"missing", "deleted_local", "pending"}, Mark(sid, status)
    PROVE  \A s \in sources' : s.project = owner[s.id]
<1>1. \A t \in sources' : \E s \in sources : t.id = s.id /\ t.project = s.project
  BY MarkDoes DEF WTypes
<1> QED BY <1>1

LEMMA LibraryOwner == ASSUME WTypes, NamesInv, OwnerInv, NEW w \in Workers, LibraryStep(w) PROVE OwnerInv'
<1>1. PICK owner \in [Nat -> Nat] : OwnedBy(owner)
  BY DEF OwnerInv
<1>2. /\ \A r \in index : r.project = owner[r.id]
      /\ \A s \in sources : s.project = owner[s.id]
      /\ CarriedOwn(w, owner)
  BY <1>1 DEF OwnedBy
<1>3. ASSUME BuildGoes(w), named \subseteq named', UNCHANGED index, \A s \in sources' : s.project = owner[s.id],
             op'[w].rows \subseteq op[w].rows, fts' \subseteq fts,
             op'[w].at # NoRow => \/ op'[w].at.row \in op[w].rows
                                  \/ op[w].at # NoRow /\ op'[w].at.row = op[w].at.row
      PROVE  OwnerInv'
  <2>1. OthersStay(w) /\ op[w].kind = "build"
    BY <1>3, BuildOthersStay
  <2>2. CarriedOwn(w, owner)'
    BY <1>2, <1>3, <2>1 DEF CarriedOwn
  <2>3. \A r \in index' : r.project = owner[r.id]
    BY <1>2, <1>3
  <2> QED BY <1>1, <1>3, <2>1, <2>2, <2>3, OwnerKept
<1>4. ASSUME OthersStay(w), op'[w].kind # "build", UNCHANGED <<index, named>>,
             \A s \in sources' : s.project = owner[s.id], fts' \subseteq fts
      PROVE  OwnerInv'
  <2>1. CarriedOwn(w, owner)' /\ \A r \in index' : r.project = owner[r.id]
    BY <1>2, <1>4 DEF CarriedOwn
  <2> QED BY <1>1, <1>4, <2>1, OwnerKept
<1>5. CASE BuildStart(w)
  <2>1. /\ BeginDoes(w) /\ op'[w].rows = index /\ op'[w].at = NoRow
        /\ UNCHANGED <<index, sources, fts, named>>
    BY <1>5, BuildStartDoes DEF library, notes
  <2>2. OthersStay(w) /\ CarriedOwn(w, owner)'
    BY <1>2, <2>1, BeginOthersStay DEF CarriedOwn
  <2>3. (\A r \in index' : r.project = owner[r.id]) /\ \A s \in sources' : s.project = owner[s.id]
    BY <1>2, <2>1
  <2> QED BY <1>1, <2>1, <2>2, <2>3, OwnerKept
<1>6. CASE ReadSources(w)
  <2>1. /\ BuildGoes(w) /\ op'[w].rows = op[w].rows /\ op'[w].at = op[w].at
        /\ UNCHANGED <<index, sources, fts, named>>
    BY <1>6, ReadSourcesDoes DEF library, notes
  <2> QED BY <1>2, <1>3, <2>1
<1>7. CASE WriteSource(w)
  <2>1. PICK status \in {"indexed", "skipped", "error", "missing"} :
          /\ Upsert(op[w].at.row, op[w].at.sid, status)
          /\ status # "indexed" => op'[w].at = NoRow
          /\ status = "indexed" => op'[w].at.row = op[w].at.row
    BY <1>7, WriteSourceDoes
  <2>2. /\ BuildGoes(w) /\ op[w].at # NoRow /\ op[w].at \in TakenRow /\ op'[w].rows = op[w].rows
        /\ UNCHANGED <<index, fts, named>>
    BY <1>7, WriteSourceDoes
  <2>3. op[w].kind = "build" /\ op[w].at.row \in IndexRow /\ op[w].at.sid \in Nat
    BY <2>2, BuildOthersStay DEF TakenRow
  <2>4. \A s \in sources' : s.project = owner[s.id]
    BY <1>2, <2>1, <2>2, <2>3, UpsertOwner DEF CarriedOwn
  <2> QED BY <1>3, <2>1, <2>2, <2>4
<1>8. CASE InsertChunks(w)
  <2>1. /\ BuildGoes(w) /\ op[w].at # NoRow /\ op[w].at \in TakenRow /\ op'[w].rows = op[w].rows
        /\ op'[w].at = NoRow /\ UNCHANGED <<index, named>>
        /\ \/ Upsert(op[w].at.row, op[w].at.sid, "error") /\ UNCHANGED fts
           \/ /\ UNCHANGED sources
              /\ fts' = fts \cup {[sid |-> op[w].at.sid, project |-> op[w].at.row.project]}
    BY <1>8, InsertChunksDoes DEF notes
  <2>2. op[w].kind = "build" /\ op[w].at.row \in IndexRow /\ op[w].at.sid \in Nat /\ OthersStay(w)
    BY <2>1, BuildOthersStay DEF TakenRow
  <2>3. op[w].at.row.project = owner[op[w].at.row.id]
    BY <1>2, <2>1, <2>2 DEF CarriedOwn
  <2>4. CASE Upsert(op[w].at.row, op[w].at.sid, "error") /\ UNCHANGED fts
    <3>1. \A s \in sources' : s.project = owner[s.id]
      BY <1>2, <2>2, <2>3, <2>4, UpsertOwner
    <3> QED BY <1>3, <2>1, <2>4, <3>1
  <2>5. CASE /\ UNCHANGED sources
             /\ fts' = fts \cup {[sid |-> op[w].at.sid, project |-> op[w].at.row.project]}
    <3>1. Named(op[w].at.row.id, op[w].at.sid)
      BY <2>1, <2>2 DEF NamesInv, AllNamed, Carried
    <3>2. SearchedOwn(owner)'
      <4> SUFFICES ASSUME NEW r \in fts' PROVE \E p \in named : p.sid = r.sid /\ r.project = owner[p.id]
        BY <2>1 DEF SearchedOwn
      <4>1. CASE r \in fts
        BY <1>1, <4>1 DEF OwnedBy, SearchedOwn
      <4>2. CASE r = [sid |-> op[w].at.sid, project |-> op[w].at.row.project]
        BY <2>3, <3>1, <4>2 DEF Named
      <4> QED BY <2>5, <4>1, <4>2
    <3>3. ASSUME NEW v \in Workers PROVE CarriedOwn(v, owner)'
      <4>1. op'[v].kind = "build" => op'[v].rows = op[v].rows /\ op[v].kind = "build"
                                     /\ (op'[v].at = NoRow \/ op'[v].at = op[v].at)
        BY <2>1, <2>2 DEF OthersStay
      <4>2. CarriedOwn(v, owner)
        BY <1>1 DEF OwnedBy
      <4> QED BY <4>1, <4>2 DEF CarriedOwn
    <3>4. OwnedBy(owner)'
      BY <1>2, <2>1, <2>5, <3>2, <3>3 DEF OwnedBy
    <3> QED BY <3>4 DEF OwnerInv
  <2> QED BY <2>1, <2>4, <2>5
<1>9. CASE BuildEnd(w)
  <2>1. op'[w] = Idle /\ OthersKeep(w) /\ UNCHANGED <<index, sources, fts, named>>
    BY <1>9, EndDoes DEF BuildEnd, library, notes
  <2> QED BY <1>2, <1>4, <2>1 DEF Idle, OthersKeep, OthersStay
<1>10. CASE MarkWrite(w)
  <2>1. /\ op'[w] = Idle /\ OthersKeep(w) /\ UNCHANGED <<index, fts, named>>
        /\ Mark(op[w].source.sid, op[w].status) /\ op[w].status \in {"deleted_local", "pending"}
    BY <1>10, MarkWriteDoes
  <2>2. \A s \in sources' : s.project = owner[s.id]
    BY <1>2, <2>1, MarkOwner
  <2> QED BY <1>4, <2>1, <2>2 DEF Idle, OthersKeep, OthersStay
<1>11. ASSUME NEW row \in IF op[w].kind = "build" THEN op[w].rows ELSE {}, SkipRow(w, row) PROVE OwnerInv'
  <2>1. /\ BuildGoes(w) /\ op'[w].rows = op[w].rows \ {row} /\ op'[w].at = op[w].at
        /\ UNCHANGED <<index, sources, fts, named>>
    BY <1>11, SkipRowDoes DEF library, notes
  <2> QED BY <1>2, <1>3, <2>1
<1>12. ASSUME NEW row \in IF op[w].kind = "build" THEN op[w].rows ELSE {}, TakeRow(w, row) PROVE OwnerInv'
  <2>0. op[w].kind = "build" /\ row \in op[w].rows
    BY <1>12
  <2>1. /\ BuildGoes(w) /\ op'[w].rows = op[w].rows \ {row} /\ op'[w].at.row = row
        /\ named \subseteq named' /\ fts' \subseteq fts /\ UNCHANGED <<index, sources>>
    BY <1>12, <2>0, TakeRowDoes
  <2> QED BY <1>2, <1>3, <2>0, <2>1
<1>13. ASSUME NEW s \in IF op[w].kind = "build" THEN op[w].gone ELSE {}, DropGone(w, s) PROVE OwnerInv'
  <2>0. op[w].kind = "build" /\ s \in op[w].gone
    BY <1>13
  <2>1. /\ BuildGoes(w) /\ op'[w].rows = {} /\ op'[w].at = NoRow /\ UNCHANGED <<index, named>>
        /\ fts' \subseteq fts /\ (UNCHANGED sources \/ Mark(s.sid, "missing"))
    BY <1>13, <2>0, DropGoneDoes
  <2>2. \A t \in sources' : t.project = owner[t.id]
    <3>1. CASE UNCHANGED sources
      BY <1>2, <3>1
    <3>2. CASE Mark(s.sid, "missing")
      BY <1>2, <3>2, MarkOwner
    <3> QED BY <2>1, <3>1, <3>2
  <2> QED BY <1>3, <2>1, <2>2
<1>14. ASSUME NEW s \in sources, NEW status \in {"deleted_local", Restored}, MarkStart(w, s, status)
       PROVE  OwnerInv'
  <2>1. /\ BeginDoes(w) /\ op'[w] \in MarkOps /\ fts' \subseteq fts /\ UNCHANGED <<index, sources, named>>
    BY <1>14, MarkStartDoes DEF notes
  <2> QED BY <1>2, <1>4, <2>1, BeginOthersStay DEF MarkOps
<1> QED BY <1>5, <1>6, <1>7, <1>8, <1>9, <1>10, <1>11, <1>12, <1>13, <1>14 DEF LibraryStep

LEMMA OwnerStep == ASSUME WTypes, NamesInv, OwnerInv, [WorkspaceNext]_workspaceVars PROVE OwnerInv'
<1>1. ASSUME LibraryOpsStay, UNCHANGED <<index, sources, fts, named>> PROVE OwnerInv'
  BY <1>1, OwnerQuiet
<1>2. CASE UNCHANGED workspaceVars
  BY <1>1, <1>2 DEF workspaceVars, library, notes, LibraryOpsStay
<1>3. ASSUME NEW w \in Workers, SyncStep(w) \/ ScanStep(w) \/ LibraryStep(w) PROVE OwnerInv'
  BY <1>3, SyncOwner, ScanOwner, LibraryOwner
<1>4. ASSUME NEW w \in Workers, Die(w) PROVE OwnerInv'
  <2>1. op'[w] = Idle /\ OthersKeep(w) /\ UNCHANGED <<index, sources, fts, named>>
    BY <1>4, DieDoes DEF library, notes
  <2>2. PICK owner \in [Nat -> Nat] : OwnedBy(owner)
    BY DEF OwnerInv
  <2>3. OthersStay(w) /\ CarriedOwn(w, owner)'
    BY <2>1 DEF Idle, OthersKeep, OthersStay, CarriedOwn
  <2>4. (\A r \in index' : r.project = owner[r.id]) /\ \A s \in sources' : s.project = owner[s.id]
    BY <2>1, <2>2 DEF OwnedBy
  <2> QED BY <2>1, <2>2, <2>3, <2>4, OwnerKept
<1>5. ASSUME NEW f \in Files, NEW there \in BOOLEAN, Edit(f, there) PROVE OwnerInv'
  <2>1. \A v \in Workers : (op[v].kind # "scan" => op'[v] = op[v]) /\ op'[v].kind = op[v].kind
    BY <1>5, EditDoes
  <2>2. LibraryOpsStay /\ UNCHANGED <<index, sources, fts, named>>
    BY <1>5, <2>1, EditDoes DEF LibraryOpsStay, library, notes
  <2> QED BY <1>1, <2>2
<1> QED BY <1>2, <1>3, <1>4, <1>5 DEF WorkspaceNext

-----------------------------------------------------------------------------
(* Found by search.  A document that counts as indexed has its chunks, or the *)
(* operation that took them is still to write the row or the chunks.          *)

\* An operation that has yet to settle the document of a source id.
Settles(w, sid) ==
    \/ op[w].kind = "build" /\ op[w].at # NoRow /\ op[w].at.sid = sid
    \/ op[w].kind = "build" /\ \E g \in op[w].gone : g.sid = sid /\ g.status = "dropping"
    \/ op[w].kind = "mark" /\ op[w].source.sid = sid
Searchable(sid) == sid \in chunks /\ \E r \in fts : r.sid = sid
Sound(s) == s.status = "indexed" /\ NamedOnce(s.id) =>
               Searchable(s.sid) \/ \E w \in Workers : Settles(w, s.sid)
FoundInv == cut \cap {"build", "mark"} = {} => \A s \in sources : Sound(s)

\* A build that has not read the sources has nothing in hand.
BuildsBegin == \A w \in Workers : op[w].kind = "build" /\ op[w].pc = "known" =>
                                     op[w].gone = {} /\ op[w].at = NoRow

LEMMA BeginsStart == WorkspaceInit => BuildsBegin /\ FoundInv
<1> SUFFICES ASSUME WorkspaceInit PROVE BuildsBegin /\ FoundInv
  OBVIOUS
<1>1. BuildsBegin
  BY DEF WorkspaceInit, Idle, BuildsBegin
<1>2. CASE projects = {}
  BY <1>1, <1>2 DEF WorkspaceInit, FoundInv
<1>3. CASE projects # {}
  <2>1. PICK number \in [Files -> 3 .. Cardinality(Files) + 2] :
          /\ sources = {[id |-> number[f], sid |-> number[f], project |-> 1, ver |-> 1,
                         status |-> "indexed"] : f \in Files}
          /\ chunks = {number[f] : f \in Files}
          /\ fts = {[sid |-> number[f], project |-> 1] : f \in Files}
    BY <1>3 DEF WorkspaceInit
  <2>2. ASSUME NEW s \in sources PROVE Searchable(s.sid)
    <3>1. PICK f \in Files : s.sid = number[f]
      BY <2>1
    <3>2. [sid |-> number[f], project |-> 1] \in fts
      BY <2>1
    <3> QED BY <2>1, <3>1, <3>2 DEF Searchable
  <2> QED BY <1>1, <2>2 DEF FoundInv, Sound
<1> QED BY <1>2, <1>3

LEMMA BeginsStep == ASSUME WTypes, BuildsBegin, [WorkspaceNext]_workspaceVars PROVE BuildsBegin'
<1>1. ASSUME LibraryOpsStay PROVE BuildsBegin'
  BY <1>1 DEF LibraryOpsStay, BuildsBegin
<1>2. ASSUME NEW w \in Workers, OthersStay(w),
             op'[w].kind = "build" /\ op'[w].pc = "known" => op'[w].gone = {} /\ op'[w].at = NoRow
      PROVE  BuildsBegin'
  BY <1>2 DEF OthersStay, BuildsBegin
<1>3. CASE UNCHANGED workspaceVars
  BY <1>3 DEF workspaceVars, BuildsBegin
<1>4. ASSUME NEW w \in Workers, SyncStep(w) \/ ScanStep(w) PROVE BuildsBegin'
  BY <1>1, <1>4, SyncFrame, ScanFrame
<1>5. ASSUME NEW w \in Workers, LibraryStep(w) PROVE BuildsBegin'
  <2>1. ASSUME BuildGoes(w), op[w].at # NoRow, op'[w].pc = op[w].pc PROVE BuildsBegin'
    BY <1>2, <2>1, BuildOthersStay DEF BuildsBegin
  <2>2. ASSUME BuildGoes(w), op'[w].pc = "files" PROVE BuildsBegin'
    BY <1>2, <2>2, BuildOthersStay
  <2>3. CASE BuildStart(w)
    BY <1>2, <2>3, BuildStartDoes, BeginOthersStay
  <2>4. CASE ReadSources(w)
    BY <2>2, <2>4, ReadSourcesDoes
  <2>5. CASE WriteSource(w)
    BY <2>1, <2>5, WriteSourceDoes
  <2>6. CASE InsertChunks(w)
    BY <2>1, <2>6, InsertChunksDoes
  <2>7. CASE BuildEnd(w)
    BY <1>2, <2>7, EndDoes DEF BuildEnd, Idle, OthersKeep, OthersStay
  <2>8. CASE MarkWrite(w)
    BY <1>2, <2>8, MarkWriteDoes DEF Idle, OthersKeep, OthersStay
  <2>9. ASSUME NEW row \in IF op[w].kind = "build" THEN op[w].rows ELSE {}, SkipRow(w, row) PROVE BuildsBegin'
    BY <2>2, <2>9, SkipRowDoes
  <2>10. ASSUME NEW row \in IF op[w].kind = "build" THEN op[w].rows ELSE {}, TakeRow(w, row) PROVE BuildsBegin'
    BY <2>2, <2>10, TakeRowDoes
  <2>11. ASSUME NEW s \in IF op[w].kind = "build" THEN op[w].gone ELSE {}, DropGone(w, s) PROVE BuildsBegin'
    BY <2>2, <2>11, DropGoneDoes
  <2>12. ASSUME NEW s \in sources, NEW status \in {"deleted_local", Restored}, MarkStart(w, s, status)
         PROVE  BuildsBegin'
    BY <1>2, <2>12, MarkStartDoes, BeginOthersStay DEF MarkOps
  <2> QED BY <1>5, <2>3, <2>4, <2>5, <2>6, <2>7, <2>8, <2>9, <2>10, <2>11, <2>12 DEF LibraryStep
<1>6. ASSUME NEW w \in Workers, Die(w) PROVE BuildsBegin'
  BY <1>2, <1>6, DieDoes DEF Idle, OthersKeep, OthersStay
<1>7. ASSUME NEW f \in Files, NEW there \in BOOLEAN, Edit(f, there) PROVE BuildsBegin'
  <2>1. \A v \in Workers : (op[v].kind # "scan" => op'[v] = op[v]) /\ op'[v].kind = op[v].kind
    BY <1>7, EditDoes
  <2> QED BY <1>1, <2>1 DEF LibraryOpsStay
<1> QED BY <1>3, <1>4, <1>5, <1>6, <1>7 DEF WorkspaceNext

\* The operations that settle a document go on doing so, or it is searchable.
LEMMA SettledGoesOn ==
    ASSUME NEW w \in Workers, OthersStay(w), NEW sid, Searchable(sid) \/ \E v \in Workers : Settles(v, sid),
           Searchable(sid) => Searchable(sid)' \/ Settles(w, sid)',
           Settles(w, sid) => Searchable(sid)' \/ Settles(w, sid)'
    PROVE  Searchable(sid)' \/ \E v \in Workers : Settles(v, sid)'
<1>1. ASSUME NEW v \in Workers \ {w}, Settles(v, sid) PROVE Settles(v, sid)'
  <2>1. op[v].kind \in {"build", "mark"}
    BY <1>1 DEF Settles
  <2>2. op'[v] = op[v]
    BY <2>1 DEF OthersStay
  <2> QED BY <1>1, <2>2 DEF Settles
<1> QED BY <1>1

\* Documents with the same ids and state as before are as sound as before.
LEMMA FoundGoesOn ==
    ASSUME FoundInv, cut \cap {"build", "mark"} = {}, NEW w \in Workers, OthersStay(w), named \subseteq named',
           NEW s \in sources, NEW t, t.id = s.id, t.sid = s.sid, t.status = "indexed" => s.status = "indexed",
           t.status = "indexed" /\ Searchable(t.sid) => Searchable(t.sid)' \/ Settles(w, t.sid)',
           t.status = "indexed" /\ Settles(w, t.sid) => Searchable(t.sid)' \/ Settles(w, t.sid)'
    PROVE  Sound(t)'
<1> SUFFICES ASSUME t.status = "indexed", NamedOnce(t.id)'
             PROVE  Searchable(t.sid)' \/ \E v \in Workers : Settles(v, t.sid)'
  BY DEF Sound
<1>1. NamedOnce(s.id)
  BY DEF NamedOnce
<1>2. Searchable(t.sid) \/ \E v \in Workers : Settles(v, t.sid)
  BY <1>1 DEF FoundInv, Sound
<1> QED BY <1>2, SettledGoesOn

\* A step that leaves the sources, the chunks and the library's operations alone.
LEMMA FoundQuiet ==
    ASSUME FoundInv, LibraryOpsStay, UNCHANGED <<library, named>>, cut \subseteq cut'
    PROVE  FoundInv'
<1> SUFFICES ASSUME cut \cap {"build", "mark"} = {}, NEW s \in sources PROVE Sound(s)'
  BY DEF FoundInv, library
<1>1. Sound(s)
  BY DEF FoundInv
<1>2. NamedOnce(s.id)' <=> NamedOnce(s.id)
  BY DEF NamedOnce
<1>3. Searchable(s.sid)' <=> Searchable(s.sid)
  BY DEF Searchable, library
<1>4. ASSUME NEW v \in Workers, Settles(v, s.sid) PROVE Settles(v, s.sid)'
  <2>1. op[v].kind \in {"build", "mark"}
    BY <1>4 DEF Settles
  <2>2. op'[v] = op[v]
    BY <2>1 DEF LibraryOpsStay
  <2> QED BY <1>4, <2>2 DEF Settles
<1> QED BY <1>1, <1>2, <1>3, <1>4 DEF Sound

\* An unbind takes the search rows of the documents it takes, and no others.
LEMMA UnbindFound ==
    ASSUME WTypes, NamesInv, OwnerInv, FoundInv, NEW w \in Workers, UnbindLibrary(w), LibraryOpsStay,
           UNCHANGED named, cut \subseteq cut'
    PROVE  FoundInv'
<1> DEFINE gone == {s \in sources : InScope(w, s.project)}
           sids == {s.sid : s \in gone}
<1>1. /\ sources' = sources \ gone /\ chunks' = chunks \ sids
      /\ fts' = {r \in fts : r.sid \notin sids /\ ~InScope(w, r.project)}
  BY DEF UnbindLibrary
<1> SUFFICES ASSUME cut \cap {"build", "mark"} = {}, NEW s \in sources' PROVE Sound(s)'
  BY DEF FoundInv
<1>2. s \in sources /\ s \notin gone /\ ~InScope(w, s.project)
  BY <1>1
<1>3. NamedApart /\ \A t \in sources : Named(t.id, t.sid)
  BY DEF NamesInv, AllNamed
<1>4. s.sid \notin sids
  <2> SUFFICES ASSUME NEW t \in gone, t.sid = s.sid PROVE FALSE
    OBVIOUS
  <2>1. t.id = s.id
    BY <1>2, <1>3, OneOwner
  <2>2. t = s
    BY <1>2, <2>1 DEF NamesInv, RowsApart
  <2> QED BY <1>2, <2>2
<1>5. ASSUME NEW r \in fts, r.sid = s.sid PROVE r \in fts'
  <2>1. PICK owner \in [Nat -> Nat] : OwnedBy(owner)
    BY DEF OwnerInv
  <2>2. PICK p \in named : p.sid = r.sid /\ r.project = owner[p.id]
    BY <2>1 DEF OwnedBy, SearchedOwn
  <2>3. p = [id |-> s.id, sid |-> s.sid]
    BY <1>2, <1>3, <1>5, <2>2 DEF NamedApart, Named
  <2>4. p.id = s.id
    BY <2>3
  <2>5. r.project = s.project
    BY <1>2, <2>1, <2>2, <2>4 DEF OwnedBy
  <2> QED BY <1>1, <1>2, <1>4, <1>5, <2>5
<1>6. Searchable(s.sid) => Searchable(s.sid)'
  BY <1>1, <1>4, <1>5 DEF Searchable
<1>7. ASSUME NEW v \in Workers, Settles(v, s.sid) PROVE Settles(v, s.sid)'
  <2>1. op[v].kind \in {"build", "mark"}
    BY <1>7 DEF Settles
  <2>2. op'[v] = op[v]
    BY <2>1 DEF LibraryOpsStay
  <2> QED BY <1>7, <2>2 DEF Settles
<1>8. NamedOnce(s.id)' <=> NamedOnce(s.id)
  BY DEF NamedOnce
<1>9. Sound(s)
  BY <1>2 DEF FoundInv
<1> QED BY <1>6, <1>7, <1>8, <1>9 DEF Sound

\* What is marked is not indexed any more; the others stay as they are.
LEMMA MarkedSources ==
    ASSUME WTypes, NEW sid, NEW status \in {"missing", "deleted_local", "pending"}, Mark(sid, status),
           NEW t \in sources'
    PROVE  \E s \in sources : /\ t.id = s.id /\ t.sid = s.sid
                              /\ t.status = "indexed" => s.status = "indexed" /\ s.sid # sid
<1>1. PICK s \in sources : /\ t.id = s.id /\ t.sid = s.sid
                           /\ t.status = IF s.sid = sid THEN status ELSE s.status
  BY MarkDoes DEF WTypes
<1> QED BY <1>1

LEMMA LibraryFound ==
    ASSUME WTypes, NamesInv, BuildsBegin, FoundInv, NEW w \in Workers, LibraryStep(w)
    PROVE  FoundInv'
<1>0. \A s \in sources : Named(s.id, s.sid)
  BY DEF NamesInv, AllNamed
<1>1. ASSUME BuildStart(w) \/ ReadSources(w) \/ BuildEnd(w)
             \/ (\E row \in IF op[w].kind = "build" THEN op[w].rows ELSE {} : SkipRow(w, row))
      PROVE  FoundInv'
  <2>1. OthersStay(w) /\ UNCHANGED <<sources, chunks, fts, named, cut>>
        /\ \A sid : Settles(w, sid) => Settles(w, sid)'
    <3>1. CASE BuildStart(w)
      BY <3>1, BuildStartDoes, BeginOthersStay DEF BeginDoes, Idle, Settles, library, notes
    <3>2. CASE ReadSources(w)
      <4>1. /\ BuildGoes(w) /\ op[w].pc = "known" /\ op'[w].at = op[w].at
            /\ UNCHANGED <<sources, chunks, fts, named, cut>>
        BY <3>2, ReadSourcesDoes DEF library, notes, BuildGoes
      <4>2. op[w].gone = {} /\ op[w].at = NoRow /\ op[w].kind = "build"
        BY <4>1, BuildOthersStay DEF BuildsBegin
      <4> QED BY <4>1, <4>2, BuildOthersStay DEF Settles
    <3>3. CASE BuildEnd(w)
      <4>1. op'[w] = Idle /\ OthersKeep(w) /\ UNCHANGED <<sources, chunks, fts, named, cut>>
        BY <3>3, EndDoes DEF BuildEnd, library, notes
      <4>2. op[w].kind = "build" /\ op[w].at = NoRow /\ op[w].gone = {}
        BY <3>3 DEF BuildEnd
      <4> QED BY <4>1, <4>2 DEF Settles, OthersKeep, OthersStay, Idle
    <3>4. ASSUME NEW row, SkipRow(w, row)
          PROVE  OthersStay(w) /\ UNCHANGED <<sources, chunks, fts, named, cut>>
                 /\ \A sid : Settles(w, sid) => Settles(w, sid)'
      <4>1. /\ BuildGoes(w) /\ op'[w].at = op[w].at /\ op'[w].gone = op[w].gone
            /\ UNCHANGED <<sources, chunks, fts, named, cut>>
        BY <3>4, SkipRowDoes DEF library, notes, BuildGoes
      <4> QED BY <4>1, BuildOthersStay DEF Settles
    <3> QED BY <1>1, <3>1, <3>2, <3>3, <3>4
  <2> SUFFICES ASSUME cut \cap {"build", "mark"} = {}, NEW s \in sources PROVE Sound(s)'
    BY <2>1 DEF FoundInv
  <2>2. Searchable(s.sid) => Searchable(s.sid)'
    BY <2>1 DEF Searchable
  <2> QED BY <2>1, <2>2, FoundGoesOn
<1>2. CASE WriteSource(w)
  <2>1. PICK status \in {"indexed", "skipped", "error", "missing"} :
          /\ Upsert(op[w].at.row, op[w].at.sid, status)
          /\ status = "indexed" => op'[w].at.sid = op[w].at.sid /\ op'[w].at # NoRow
    BY <1>2, WriteSourceDoes
  <2>2. /\ BuildGoes(w) /\ op[w].at # NoRow /\ op[w].at \in TakenRow /\ op'[w].gone = op[w].gone
        /\ UNCHANGED <<chunks, fts, named, cut>>
    BY <1>2, WriteSourceDoes DEF BuildGoes
  <2>3. /\ OthersStay(w) /\ op[w].kind = "build" /\ op'[w].kind = "build"
        /\ op[w].at.row \in IndexRow /\ op[w].at.sid \in Nat
    BY <2>2, BuildOthersStay DEF TakenRow
  <2>4. PICK new \in SourceRow :
          /\ new.id = op[w].at.row.id /\ new.status = status
          /\ sources' = {s \in sources : s.id # op[w].at.row.id} \cup {new}
    <3>1. DataTypes
      BY DEF WTypes
    <3> QED BY <2>1, <2>3, <3>1, UpsertDoes
  <2>5. Named(op[w].at.row.id, op[w].at.sid) /\ NamedApart
    BY <2>2, <2>3 DEF NamesInv, AllNamed, Carried
  <2> SUFFICES ASSUME cut \cap {"build", "mark"} = {}, NEW t \in sources' PROVE Sound(t)'
    BY <2>2 DEF FoundInv
  <2>6. CASE t \in sources /\ t.id # op[w].at.row.id
    <3>1. t.sid # op[w].at.sid
      BY <1>0, <2>5, <2>6, OneOwner
    <3>2. Settles(w, t.sid) => Settles(w, t.sid)'
      BY <2>2, <2>3, <3>1 DEF Settles
    <3>3. Searchable(t.sid) => Searchable(t.sid)'
      BY <2>2 DEF Searchable
    <3> QED BY <2>2, <2>3, <2>6, <3>2, <3>3, FoundGoesOn
  <2>7. CASE t = new
    <3> SUFFICES ASSUME status = "indexed", NamedOnce(new.id)' PROVE Settles(w, new.sid)'
      BY <2>4, <2>7 DEF Sound
    <3>1. Named(new.id, new.sid)'
      <4>1. NamesInv'
        BY LibraryNames
      <4> QED BY <2>4, <4>1 DEF NamesInv, AllNamed
    <3>2. [id |-> new.id, sid |-> new.sid] = [id |-> new.id, sid |-> op[w].at.sid]
      BY <2>2, <2>4, <2>5, <3>1 DEF Named, NamedOnce
    <3> QED BY <2>1, <2>3, <3>2 DEF Settles
  <2> QED BY <2>4, <2>6, <2>7
<1>3. CASE InsertChunks(w)
  <2>1. /\ BuildGoes(w) /\ op[w].at # NoRow /\ op[w].at \in TakenRow /\ op'[w].gone = op[w].gone
        /\ UNCHANGED <<named, cut>>
        /\ \/ Upsert(op[w].at.row, op[w].at.sid, "error") /\ UNCHANGED <<chunks, fts>>
           \/ /\ chunks' = chunks \cup {op[w].at.sid} /\ UNCHANGED sources
              /\ fts' = fts \cup {[sid |-> op[w].at.sid, project |-> op[w].at.row.project]}
    BY <1>3, InsertChunksDoes DEF notes, BuildGoes
  <2>2. /\ OthersStay(w) /\ op[w].kind = "build" /\ op'[w].kind = "build"
        /\ op[w].at.row \in IndexRow /\ op[w].at.sid \in Nat
    BY <2>1, BuildOthersStay DEF TakenRow
  <2>3. ASSUME NEW sid, sid # op[w].at.sid, Settles(w, sid) PROVE Settles(w, sid)'
    BY <2>1, <2>2, <2>3 DEF Settles
  <2> SUFFICES ASSUME cut \cap {"build", "mark"} = {}, NEW t \in sources' PROVE Sound(t)'
    BY <2>1 DEF FoundInv
  <2>4. CASE Upsert(op[w].at.row, op[w].at.sid, "error") /\ UNCHANGED <<chunks, fts>>
    <3>1. PICK new \in SourceRow :
            /\ new.id = op[w].at.row.id /\ new.status = "error"
            /\ sources' = {s \in sources : s.id # op[w].at.row.id} \cup {new}
      <4>1. DataTypes
        BY DEF WTypes
      <4> QED BY <2>2, <2>4, <4>1, UpsertDoes
    <3>2. CASE t = new
      BY <3>1, <3>2 DEF Sound
    <3>3. CASE t \in sources /\ t.id # op[w].at.row.id
      <4>1. Named(op[w].at.row.id, op[w].at.sid) /\ NamedApart
        BY <2>1, <2>2 DEF NamesInv, AllNamed, Carried
      <4>2. t.sid # op[w].at.sid
        BY <1>0, <3>3, <4>1, OneOwner
      <4>3. Searchable(t.sid) => Searchable(t.sid)'
        BY <2>4 DEF Searchable
      <4>4. Settles(w, t.sid) => Settles(w, t.sid)'
        BY <2>3, <4>2
      <4> QED BY <2>1, <2>2, <3>3, <4>3, <4>4, FoundGoesOn
    <3> QED BY <3>1, <3>2, <3>3
  <2>5. CASE /\ chunks' = chunks \cup {op[w].at.sid} /\ UNCHANGED sources
             /\ fts' = fts \cup {[sid |-> op[w].at.sid, project |-> op[w].at.row.project]}
    <3>1. Searchable(t.sid) => Searchable(t.sid)'
      BY <2>5 DEF Searchable
    <3>2. PICK row : row = [sid |-> op[w].at.sid, project |-> op[w].at.row.project]
      OBVIOUS
    <3>3. Settles(w, t.sid) => Searchable(t.sid)' \/ Settles(w, t.sid)'
      <4>1. CASE t.sid = op[w].at.sid
        <5>1. t.sid \in chunks' /\ row \in fts' /\ row.sid = t.sid
          BY <2>5, <3>2, <4>1
        <5> QED BY <5>1 DEF Searchable
      <4>2. CASE t.sid # op[w].at.sid
        BY <2>3, <4>2
      <4> QED BY <4>1, <4>2
    <3>4. t \in sources /\ named \subseteq named'
      BY <2>1, <2>5
    <3> QED BY <2>2, <3>1, <3>3, <3>4, FoundGoesOn
  <2> QED BY <2>1, <2>4, <2>5
<1>4. CASE MarkWrite(w)
  <2>1. /\ op[w] \in MarkOps /\ op'[w] = Idle /\ OthersKeep(w) /\ UNCHANGED <<chunks, fts, named, cut>>
        /\ Mark(op[w].source.sid, op[w].status) /\ op[w].status \in {"deleted_local", "pending"}
    BY <1>4, MarkWriteDoes
  <2>2. OthersStay(w)
    BY <2>1 DEF OthersKeep, OthersStay
  <2>3. \A sid : Settles(w, sid) => sid = op[w].source.sid
    BY <2>1 DEF Settles, MarkOps
  <2> SUFFICES ASSUME cut \cap {"build", "mark"} = {}, NEW t \in sources' PROVE Sound(t)'
    BY <2>1 DEF FoundInv
  <2>4. PICK s \in sources : /\ t.id = s.id /\ t.sid = s.sid
                             /\ t.status = "indexed" => s.status = "indexed" /\ s.sid # op[w].source.sid
    BY <2>1, MarkedSources
  <2>5. Searchable(t.sid) => Searchable(t.sid)'
    BY <2>1 DEF Searchable
  <2> QED BY <2>1, <2>2, <2>3, <2>4, <2>5, FoundGoesOn
<1>5. ASSUME NEW row \in IF op[w].kind = "build" THEN op[w].rows ELSE {}, TakeRow(w, row) PROVE FoundInv'
  <2>0. op[w].kind = "build" /\ row \in op[w].rows
    BY <1>5
  <2>1. PICK sid \in Nat :
          /\ BuildGoes(w) /\ op[w].at = NoRow /\ op'[w].at # NoRow /\ op'[w].at.sid = sid
          /\ op'[w].gone = op[w].gone /\ named \subseteq named' /\ UNCHANGED <<sources, cut>>
          /\ chunks' = chunks \ {sid} /\ fts' = {r \in fts : r.sid # sid}
    BY <1>5, <2>0, TakeRowDoes DEF BuildGoes
  <2>2. OthersStay(w) /\ op[w].kind = "build" /\ op'[w].kind = "build"
    BY <2>1, BuildOthersStay
  <2> SUFFICES ASSUME cut \cap {"build", "mark"} = {}, NEW s \in sources PROVE Sound(s)'
    BY <2>1 DEF FoundInv
  <2>3. Searchable(s.sid) => Searchable(s.sid)' \/ Settles(w, s.sid)'
    BY <2>1, <2>2 DEF Searchable, Settles
  <2>4. Settles(w, s.sid) => Settles(w, s.sid)'
    BY <2>1, <2>2 DEF Settles
  <2> QED BY <2>1, <2>2, <2>3, <2>4, FoundGoesOn
<1>6. ASSUME NEW g \in IF op[w].kind = "build" THEN op[w].gone ELSE {}, DropGone(w, g) PROVE FoundInv'
  <2>0. op[w].kind = "build" /\ g \in op[w].gone
    BY <1>6
  <2>1. /\ BuildGoes(w) /\ op[w].at = NoRow /\ op'[w].at = NoRow /\ UNCHANGED <<named, cut>>
        /\ \/ /\ g.status # "dropping" /\ UNCHANGED sources
              /\ chunks' = chunks \ {g.sid} /\ fts' = {r \in fts : r.sid # g.sid}
              /\ \E t \in GoneRow : /\ t.sid = g.sid /\ t.status = "dropping"
                                    /\ op'[w].gone = (op[w].gone \ {g}) \cup {t}
           \/ /\ g.status = "dropping" /\ Mark(g.sid, "missing") /\ UNCHANGED <<chunks, fts>>
              /\ op'[w].gone = op[w].gone \ {g}
    BY <1>6, <2>0, DropGoneDoes DEF BuildGoes
  <2>2. OthersStay(w) /\ op[w].kind = "build" /\ op'[w].kind = "build"
    BY <2>1, BuildOthersStay
  <2> SUFFICES ASSUME cut \cap {"build", "mark"} = {}, NEW t \in sources' PROVE Sound(t)'
    BY <2>1 DEF FoundInv
  <2>3. CASE /\ g.status # "dropping" /\ UNCHANGED sources
             /\ chunks' = chunks \ {g.sid} /\ fts' = {r \in fts : r.sid # g.sid}
             /\ \E d \in GoneRow : /\ d.sid = g.sid /\ d.status = "dropping"
                                   /\ op'[w].gone = (op[w].gone \ {g}) \cup {d}
    <3>1. Searchable(t.sid) => Searchable(t.sid)' \/ Settles(w, t.sid)'
      <4>1. CASE t.sid = g.sid
        BY <2>2, <2>3, <4>1 DEF Settles
      <4>2. CASE t.sid # g.sid
        BY <2>3, <4>2 DEF Searchable
      <4> QED BY <4>1, <4>2
    <3>2. Settles(w, t.sid) => Settles(w, t.sid)'
      BY <2>1, <2>2, <2>3 DEF Settles
    <3>3. t \in sources /\ named \subseteq named'
      BY <2>1, <2>3
    <3> QED BY <2>2, <3>1, <3>2, <3>3, FoundGoesOn
  <2>4. CASE /\ g.status = "dropping" /\ Mark(g.sid, "missing") /\ UNCHANGED <<chunks, fts>>
             /\ op'[w].gone = op[w].gone \ {g}
    <3>1. PICK s \in sources : /\ t.id = s.id /\ t.sid = s.sid
                               /\ t.status = "indexed" => s.status = "indexed" /\ s.sid # g.sid
      BY <2>4, MarkedSources
    <3>2. Searchable(t.sid) => Searchable(t.sid)'
      BY <2>4 DEF Searchable
    <3>3. t.status = "indexed" /\ Settles(w, t.sid) => Settles(w, t.sid)'
      BY <2>1, <2>2, <2>4, <3>1 DEF Settles
    <3>4. named \subseteq named'
      BY <2>1
    <3> QED BY <2>2, <3>1, <3>2, <3>3, <3>4, FoundGoesOn
  <2> QED BY <2>1, <2>3, <2>4
<1>7. ASSUME NEW d \in sources, NEW status \in {"deleted_local", Restored}, MarkStart(w, d, status)
      PROVE  FoundInv'
  <2>1. /\ BeginDoes(w) /\ op[w] = Idle /\ op'[w] \in MarkOps /\ op'[w].source = d
        /\ chunks' = chunks \ {d.sid} /\ fts' = {r \in fts : r.sid # d.sid}
        /\ UNCHANGED <<sources, named, cut>>
    BY <1>7, MarkStartDoes DEF notes, BeginDoes
  <2>2. OthersStay(w) /\ op'[w].kind = "mark"
    BY <2>1, BeginOthersStay DEF MarkOps
  <2> SUFFICES ASSUME cut \cap {"build", "mark"} = {}, NEW s \in sources PROVE Sound(s)'
    BY <2>1 DEF FoundInv
  <2>3. Searchable(s.sid) => Searchable(s.sid)' \/ Settles(w, s.sid)'
    BY <2>1, <2>2 DEF Searchable, Settles
  <2>4. ~Settles(w, s.sid)
    BY <2>1 DEF Settles, Idle
  <2>5. named \subseteq named'
    BY <2>1
  <2> QED BY <2>2, <2>3, <2>4, <2>5, FoundGoesOn
<1> QED BY <1>1, <1>2, <1>3, <1>4, <1>5, <1>6, <1>7 DEF LibraryStep

LEMMA FoundStep ==
    ASSUME WTypes, NamesInv, OwnerInv, BuildsBegin, FoundInv, [WorkspaceNext]_workspaceVars
    PROVE  FoundInv'
<1>1. CASE UNCHANGED workspaceVars
  <2>1. LibraryOpsStay /\ UNCHANGED <<library, named, cut>>
    BY <1>1 DEF workspaceVars, library, notes, LibraryOpsStay
  <2> QED BY <2>1, FoundQuiet
<1>2. ASSUME NEW w \in Workers, SyncStep(w) PROVE FoundInv'
  <2>1. LibraryOpsStay /\ UNCHANGED named /\ cut \subseteq cut' /\ (UNCHANGED library \/ UnbindLibrary(w))
    BY <1>2, SyncFrame
  <2> QED BY <2>1, FoundQuiet, UnbindFound
<1>3. ASSUME NEW w \in Workers, ScanStep(w) PROVE FoundInv'
  <2>1. LibraryOpsStay /\ UNCHANGED <<library, named, cut>>
    BY <1>3, ScanFrame DEF notes
  <2> QED BY <2>1, FoundQuiet
<1>4. ASSUME NEW w \in Workers, LibraryStep(w) PROVE FoundInv'
  BY <1>4, LibraryFound
<1>5. ASSUME NEW w \in Workers, Die(w) PROVE FoundInv'
  <2>1. /\ op'[w] = Idle /\ OthersKeep(w) /\ cut' = cut \cup ({op[w].kind} \cap Unmended)
        /\ UNCHANGED <<sources, chunks, fts, named>>
    BY <1>5, DieDoes DEF library, notes
  <2> SUFFICES ASSUME cut' \cap {"build", "mark"} = {}, NEW s \in sources PROVE Sound(s)'
    BY <2>1 DEF FoundInv
  <2>2. cut \cap {"build", "mark"} = {} /\ op[w].kind \notin {"build", "mark"}
    BY <2>1 DEF Unmended
  <2>3. ~Settles(w, s.sid) /\ OthersStay(w) /\ named \subseteq named'
    BY <2>1, <2>2 DEF Settles, OthersKeep, OthersStay
  <2>4. Searchable(s.sid) => Searchable(s.sid)'
    BY <2>1 DEF Searchable
  <2> QED BY <2>2, <2>3, <2>4, FoundGoesOn
<1>6. ASSUME NEW f \in Files, NEW there \in BOOLEAN, Edit(f, there) PROVE FoundInv'
  <2>1. \A v \in Workers : (op[v].kind # "scan" => op'[v] = op[v]) /\ op'[v].kind = op[v].kind
    BY <1>6, EditDoes
  <2>2. LibraryOpsStay /\ UNCHANGED <<library, named, cut>>
    BY <1>6, <2>1, EditDoes DEF LibraryOpsStay, notes
  <2> QED BY <2>2, FoundQuiet
<1> QED BY <1>1, <1>2, <1>3, <1>4, <1>5, <1>6 DEF WorkspaceNext

\* When nothing runs and no build or mark was cut off, a document that counts
\* as indexed is found by search, if one build alone gave its file a source id.
THEOREM IndexedDocumentsAreFound == WorkspaceSpec => []IndexedIsFound
<1>1. FoundInv => IndexedIsFound
  <2> SUFFICES ASSUME FoundInv, \A w \in Workers : op[w] = Idle, cut \cap {"build", "mark"} = {},
                      NEW s \in sources, s.status = "indexed", NamedOnce(s.id)
               PROVE  s \in Found
    BY DEF IndexedIsFound
  <2>1. \A w \in Workers : ~Settles(w, s.sid)
    BY DEF Settles, Idle
  <2>2. Searchable(s.sid)
    BY <2>1 DEF FoundInv, Sound
  <2> QED BY <2>2 DEF Found, Searchable
<1>2. WTypes /\ NamesInv /\ OwnerInv /\ BuildsBegin /\ FoundInv /\ [WorkspaceNext]_workspaceVars
        => WTypes' /\ NamesInv' /\ OwnerInv' /\ BuildsBegin' /\ FoundInv'
  BY TypesStep, NamesStep, OwnerStep, BeginsStep, FoundStep
<1> QED BY <1>1, <1>2, TypesStart, NamesStart, OwnerStart, BeginsStart, PTL DEF WorkspaceSpec

-----------------------------------------------------------------------------
(* Deleted by the user.  The row of such a document says so, a build that is  *)
(* at its file is only about to record that the file is missing, and a build  *)
(* that has the file before it read the sources after the deletion.           *)

HasDeleted(id) == \E s \in sources : s.id = id /\ s.status = "deleted_local"
Avoids(w, id) ==
    op[w].kind = "build" =>
        /\ op[w].at # NoRow /\ op[w].at.row.id = id => ~op[w].at.row.exists /\ ~op[w].at.insert
        /\ op[w].pc = "files" => \A r \in op[w].rows : r.id = id /\ r.exists =>
              \E s \in op[w].known : s.id = id /\ s.status = "deleted_local"
Guarded(id) == HasDeleted(id) /\ \A w \in Workers : Avoids(w, id)
DeletedInv == \A id \in hidden \ vanished : Guarded(id)

LEMMA DeletedGoesOn ==
    ASSUME NEW w \in Workers, OthersStay(w), NEW id, Guarded(id), HasDeleted(id)', Avoids(w, id)'
    PROVE  Guarded(id)'
<1>1. ASSUME NEW v \in Workers \ {w} PROVE Avoids(v, id)'
  <2>1. op'[v].kind = "build" => op'[v] = op[v]
    BY DEF OthersStay
  <2> QED BY <2>1 DEF Guarded, Avoids
<1> QED BY <1>1 DEF Guarded

LEMMA DeletedQuiet ==
    ASSUME DeletedInv, LibraryOpsStay, hidden' \subseteq hidden, UNCHANGED vanished,
           \A s \in sources : s.id \in hidden' => s \in sources'
    PROVE  DeletedInv'
<1> SUFFICES ASSUME NEW id \in hidden' \ vanished' PROVE Guarded(id)'
  BY DEF DeletedInv
<1>1. Guarded(id)
  BY DEF DeletedInv
<1>2. HasDeleted(id)'
  BY <1>1 DEF Guarded, HasDeleted
<1>3. ASSUME NEW v \in Workers PROVE Avoids(v, id)'
  <2>1. op'[v].kind = "build" => op'[v] = op[v]
    BY DEF LibraryOpsStay
  <2> QED BY <1>1, <2>1 DEF Guarded, Avoids
<1> QED BY <1>2, <1>3 DEF Guarded

LEMMA LibraryDeleted ==
    ASSUME WTypes, NamesInv, BuildsBegin, DeletedInv, NEW w \in Workers, LibraryStep(w)
    PROVE  DeletedInv'
<1>0. /\ \A s \in sources : Named(s.id, s.sid)
      /\ NamedApart
  BY DEF NamesInv, AllNamed
<1>1. ASSUME NEW id, Guarded(id) PROVE HasDeleted(id) /\ Avoids(w, id)
  BY <1>1 DEF Guarded
<1>2. CASE BuildStart(w)
  <2>1. /\ BeginDoes(w) /\ op'[w].pc = "known" /\ op'[w].at = NoRow
        /\ UNCHANGED <<sources, hidden, vanished>>
    BY <1>2, BuildStartDoes DEF library, notes
  <2> SUFFICES ASSUME NEW id \in hidden \ vanished PROVE Guarded(id)'
    BY <2>1 DEF DeletedInv
  <2>2. Guarded(id)
    BY DEF DeletedInv
  <2>3. HasDeleted(id)' /\ Avoids(w, id)'
    BY <1>1, <2>1, <2>2 DEF HasDeleted, Avoids
  <2> QED BY <2>1, <2>2, <2>3, BeginOthersStay, DeletedGoesOn
<1>3. CASE ReadSources(w)
  <2>1. /\ BuildGoes(w) /\ op[w].pc = "known" /\ op'[w].at = op[w].at /\ op'[w].known = sources
        /\ UNCHANGED <<sources, hidden, vanished>>
    BY <1>3, ReadSourcesDoes DEF library, notes
  <2>2. OthersStay(w) /\ op[w].kind = "build"
    BY <2>1, BuildOthersStay
  <2> SUFFICES ASSUME NEW id \in hidden \ vanished PROVE Guarded(id)'
    BY <2>1 DEF DeletedInv
  <2>3. Guarded(id)
    BY DEF DeletedInv
  <2>4. op'[w].at = NoRow
    BY <2>1, <2>2 DEF BuildsBegin
  <2>5. HasDeleted(id)' /\ Avoids(w, id)'
    BY <1>1, <2>1, <2>3, <2>4 DEF HasDeleted, Avoids
  <2> QED BY <2>2, <2>3, <2>5, DeletedGoesOn
<1>4. CASE WriteSource(w)
  <2>1. PICK status \in {"indexed", "skipped", "error", "missing"} :
          /\ Upsert(op[w].at.row, op[w].at.sid, status)
          /\ status = "missing" <=> ~op[w].at.row.exists
          /\ status # "indexed" => op'[w].at = NoRow
          /\ status = "indexed" => op'[w].at.row = op[w].at.row
          /\ vanished' = IF status = "missing" THEN vanished \cup {op[w].at.row.id} ELSE vanished
    BY <1>4, WriteSourceDoes
  <2>2. /\ BuildGoes(w) /\ op[w].at # NoRow /\ op[w].at \in TakenRow /\ op'[w].rows = op[w].rows
        /\ op'[w].pc = op[w].pc /\ op'[w].known = op[w].known /\ UNCHANGED hidden
    BY <1>4, WriteSourceDoes
  <2>3. OthersStay(w) /\ op[w].kind = "build" /\ op[w].at.row \in IndexRow /\ op[w].at.sid \in Nat
    BY <2>2, BuildOthersStay DEF TakenRow
  <2>4. PICK new \in SourceRow : sources' = {s \in sources : s.id # op[w].at.row.id} \cup {new}
    <3>1. DataTypes
      BY DEF WTypes
    <3> QED BY <2>1, <2>3, <3>1, UpsertDoes
  <2> SUFFICES ASSUME NEW id \in hidden \ vanished' PROVE Guarded(id)'
    BY <2>2 DEF DeletedInv
  <2>5. Guarded(id)
    BY <2>1 DEF DeletedInv
  <2>6. op[w].at.row.id # id
    <3> SUFFICES ASSUME op[w].at.row.id = id PROVE FALSE
      OBVIOUS
    <3>1. ~op[w].at.row.exists
      BY <1>1, <2>2, <2>3, <2>5 DEF Avoids
    <3> QED BY <2>1, <3>1
  <2>7. HasDeleted(id)'
    BY <2>4, <2>5, <2>6 DEF Guarded, HasDeleted
  <2>8. Avoids(w, id)'
    BY <1>1, <2>1, <2>2, <2>3, <2>5, <2>6 DEF Avoids
  <2> QED BY <2>3, <2>5, <2>7, <2>8, DeletedGoesOn
<1>5. CASE InsertChunks(w)
  <2>1. /\ BuildGoes(w) /\ op[w].at # NoRow /\ op[w].at \in TakenRow /\ op[w].at.insert
        /\ op'[w].rows = op[w].rows /\ op'[w].pc = op[w].pc /\ op'[w].known = op[w].known
        /\ op'[w].at = NoRow /\ UNCHANGED <<hidden, vanished>>
        /\ Upsert(op[w].at.row, op[w].at.sid, "error") \/ UNCHANGED sources
    BY <1>5, InsertChunksDoes DEF notes
  <2>2. OthersStay(w) /\ op[w].kind = "build" /\ op[w].at.row \in IndexRow /\ op[w].at.sid \in Nat
    BY <2>1, BuildOthersStay DEF TakenRow
  <2>3. \A s \in sources : s.id # op[w].at.row.id => s \in sources'
    <3>1. DataTypes
      BY DEF WTypes
    <3>2. Upsert(op[w].at.row, op[w].at.sid, "error") =>
             \E new \in SourceRow : sources' = {s \in sources : s.id # op[w].at.row.id} \cup {new}
      BY <2>2, <3>1, UpsertDoes
    <3> QED BY <2>1, <3>2
  <2> SUFFICES ASSUME NEW id \in hidden \ vanished PROVE Guarded(id)'
    BY <2>1 DEF DeletedInv
  <2>4. Guarded(id)
    BY DEF DeletedInv
  <2>5. op[w].at.row.id # id
    BY <1>1, <2>1, <2>2, <2>4 DEF Avoids
  <2>6. HasDeleted(id)'
    BY <2>3, <2>4, <2>5 DEF Guarded, HasDeleted
  <2>7. Avoids(w, id)'
    BY <1>1, <2>1, <2>2, <2>4 DEF Avoids
  <2> QED BY <2>2, <2>4, <2>6, <2>7, DeletedGoesOn
<1>6. CASE BuildEnd(w)
  <2>1. op'[w] = Idle /\ OthersKeep(w) /\ UNCHANGED <<sources, hidden, vanished>>
    BY <1>6, EndDoes DEF BuildEnd, library, notes
  <2> SUFFICES ASSUME NEW id \in hidden \ vanished PROVE Guarded(id)'
    BY <2>1 DEF DeletedInv
  <2>2. Guarded(id)
    BY DEF DeletedInv
  <2>3. HasDeleted(id)' /\ Avoids(w, id)' /\ OthersStay(w)
    BY <1>1, <2>1, <2>2 DEF HasDeleted, Avoids, Idle, OthersKeep, OthersStay
  <2> QED BY <2>2, <2>3, DeletedGoesOn
<1>7. CASE MarkWrite(w)
  <2>1. /\ op[w] \in MarkOps /\ op'[w] = Idle /\ OthersKeep(w)
        /\ Mark(op[w].source.sid, op[w].status) /\ op[w].status \in {"deleted_local", "pending"}
        /\ \/ op[w].status = "pending" /\ hidden' = hidden \ Marked(w) /\ UNCHANGED vanished
           \/ UNCHANGED <<hidden, vanished>> /\ op[w].status = "deleted_local"
           \/ /\ op[w].status = "deleted_local" /\ \A v \in Workers : op[v].kind # "build"
              /\ hidden' = hidden \cup Marked(w) /\ vanished' = vanished \ Marked(w)
    BY <1>7, MarkWriteDoes
  <2>2. OthersStay(w) /\ op'[w].kind # "build"
    BY <2>1 DEF Idle, OthersKeep, OthersStay
  <2>3. DataTypes
    BY DEF WTypes
  <2>4. ASSUME NEW s \in sources
        PROVE  \E t \in sources' : t.id = s.id /\ t.status = IF s.sid = op[w].source.sid THEN op[w].status ELSE s.status
    <3>1. \E t \in sources' : /\ t.id = s.id /\ t.sid = s.sid /\ t.project = s.project
                              /\ t.status = IF s.sid = op[w].source.sid THEN op[w].status ELSE s.status
      BY <2>1, <2>3, MarkDoes
    <3> QED BY <3>1
  <2> SUFFICES ASSUME NEW id \in hidden' \ vanished' PROVE Guarded(id)'
    BY DEF DeletedInv
  <2>5. CASE Guarded(id) /\ (op[w].status = "deleted_local" \/ id \notin Marked(w))
    <3>1. PICK s \in sources : s.id = id /\ s.status = "deleted_local"
      BY <2>5 DEF Guarded, HasDeleted
    <3>2. op[w].status = "deleted_local" \/ s.sid # op[w].source.sid
      BY <2>5, <3>1 DEF Marked
    <3>3. HasDeleted(id)'
      BY <2>4, <3>1, <3>2 DEF HasDeleted
    <3>4. Avoids(w, id)'
      BY <2>2 DEF Avoids
    <3> QED BY <2>2, <2>5, <3>3, <3>4, DeletedGoesOn
  <2>6. CASE /\ op[w].status = "deleted_local" /\ \A v \in Workers : op[v].kind # "build"
             /\ id \in Marked(w)
    <3>1. PICK s \in sources : s.id = id /\ s.sid = op[w].source.sid
      BY <2>6 DEF Marked
    <3>2. HasDeleted(id)'
      BY <2>4, <2>6, <3>1 DEF HasDeleted
    <3>3. ASSUME NEW v \in Workers PROVE Avoids(v, id)'
      BY <2>2, <2>6 DEF Avoids, OthersStay
    <3> QED BY <3>2, <3>3 DEF Guarded
  <2> QED BY <2>1, <2>5, <2>6 DEF DeletedInv
<1>8. ASSUME NEW row \in IF op[w].kind = "build" THEN op[w].rows ELSE {}, SkipRow(w, row) PROVE DeletedInv'
  <2>1. /\ BuildGoes(w) /\ op[w].pc = "files" /\ op'[w].rows = op[w].rows \ {row} /\ op'[w].at = op[w].at
        /\ op'[w].known = op[w].known /\ UNCHANGED <<sources, hidden, vanished>>
    BY <1>8, SkipRowDoes DEF library, notes
  <2> SUFFICES ASSUME NEW id \in hidden \ vanished PROVE Guarded(id)'
    BY <2>1 DEF DeletedInv
  <2>2. Guarded(id) /\ OthersStay(w) /\ op[w].kind = "build"
    BY <2>1, BuildOthersStay DEF DeletedInv
  <2>3. HasDeleted(id)' /\ Avoids(w, id)'
    BY <1>1, <2>1, <2>2 DEF HasDeleted, Avoids
  <2> QED BY <2>2, <2>3, DeletedGoesOn
<1>9. ASSUME NEW row \in IF op[w].kind = "build" THEN op[w].rows ELSE {}, TakeRow(w, row) PROVE DeletedInv'
  <2>0. op[w].kind = "build" /\ row \in op[w].rows
    BY <1>9
  <2>1. /\ BuildGoes(w) /\ op[w].pc = "files" /\ op'[w].rows = op[w].rows \ {row}
        /\ op'[w].known = op[w].known /\ op'[w].at.row = row /\ ~op'[w].at.insert
        /\ row.exists => \A s \in op[w].known : s.id = row.id => s.status # "deleted_local"
        /\ UNCHANGED <<sources, hidden, vanished>>
    BY <1>9, <2>0, TakeRowDoes
  <2> SUFFICES ASSUME NEW id \in hidden \ vanished PROVE Guarded(id)'
    BY <2>1 DEF DeletedInv
  <2>2. Guarded(id) /\ OthersStay(w)
    BY <2>1, BuildOthersStay DEF DeletedInv
  <2>3. row.id = id => ~row.exists
    BY <1>1, <2>0, <2>1, <2>2 DEF Avoids
  <2>4. HasDeleted(id)' /\ Avoids(w, id)'
    BY <1>1, <2>0, <2>1, <2>2, <2>3 DEF HasDeleted, Avoids
  <2> QED BY <2>2, <2>4, DeletedGoesOn
<1>10. ASSUME NEW g \in IF op[w].kind = "build" THEN op[w].gone ELSE {}, DropGone(w, g) PROVE DeletedInv'
  <2>0. op[w].kind = "build" /\ g \in op[w].gone
    BY <1>10
  <2>1. /\ BuildGoes(w) /\ op'[w].rows = {} /\ op'[w].at = NoRow /\ UNCHANGED hidden
        /\ \/ UNCHANGED <<sources, vanished>>
           \/ Mark(g.sid, "missing") /\ vanished' = vanished \cup {g.id}
    BY <1>10, <2>0, DropGoneDoes
  <2> SUFFICES ASSUME NEW id \in hidden \ vanished' PROVE Guarded(id)'
    BY <2>1 DEF DeletedInv
  <2>2. Guarded(id) /\ OthersStay(w)
    BY <2>1, BuildOthersStay DEF DeletedInv
  <2>3. PICK s \in sources : s.id = id /\ s.status = "deleted_local"
    BY <2>2 DEF Guarded, HasDeleted
  <2>4. CASE UNCHANGED <<sources, vanished>>
    <3>1. HasDeleted(id)' /\ Avoids(w, id)'
      BY <2>1, <2>3, <2>4 DEF HasDeleted, Avoids
    <3> QED BY <2>2, <3>1, DeletedGoesOn
  <2>5. CASE Mark(g.sid, "missing") /\ vanished' = vanished \cup {g.id}
    <3>1. Named(g.id, g.sid) /\ Named(s.id, s.sid)
      BY <1>0, <2>0, <2>3 DEF NamesInv, AllNamed, Carried
    <3>2. s.sid # g.sid
      BY <1>0, <2>3, <2>5, <3>1, OneOwner
    <3>0. DataTypes
      BY DEF WTypes
    <3>3. \E t \in sources' : /\ t.id = s.id /\ t.sid = s.sid /\ t.project = s.project
                              /\ t.status = IF s.sid = g.sid THEN "missing" ELSE s.status
      BY <2>3, <2>5, <3>0, MarkDoes
    <3>4. HasDeleted(id)' /\ Avoids(w, id)'
      BY <2>1, <2>3, <3>2, <3>3 DEF HasDeleted, Avoids
    <3> QED BY <2>2, <3>4, DeletedGoesOn
  <2> QED BY <2>1, <2>4, <2>5
<1>11. ASSUME NEW d \in sources, NEW status \in {"deleted_local", Restored}, MarkStart(w, d, status)
       PROVE  DeletedInv'
  <2>1. /\ BeginDoes(w) /\ op'[w] \in MarkOps /\ UNCHANGED <<sources, hidden, vanished>>
    BY <1>11, MarkStartDoes DEF notes
  <2> SUFFICES ASSUME NEW id \in hidden \ vanished PROVE Guarded(id)'
    BY <2>1 DEF DeletedInv
  <2>2. Guarded(id) /\ OthersStay(w) /\ op'[w].kind = "mark"
    BY <2>1, BeginOthersStay DEF DeletedInv, MarkOps
  <2>3. HasDeleted(id)' /\ Avoids(w, id)'
    BY <1>1, <2>1, <2>2 DEF HasDeleted, Avoids
  <2> QED BY <2>2, <2>3, DeletedGoesOn
<1> QED BY <1>2, <1>3, <1>4, <1>5, <1>6, <1>7, <1>8, <1>9, <1>10, <1>11 DEF LibraryStep

LEMMA DeletedStep ==
    ASSUME WTypes, NamesInv, BuildsBegin, DeletedInv, [WorkspaceNext]_workspaceVars
    PROVE  DeletedInv'
<1>1. ASSUME LibraryOpsStay, UNCHANGED <<sources, hidden, vanished>> PROVE DeletedInv'
  BY <1>1, DeletedQuiet
<1>2. CASE UNCHANGED workspaceVars
  BY <1>1, <1>2 DEF workspaceVars, library, notes, LibraryOpsStay
<1>3. ASSUME NEW w \in Workers, SyncStep(w) PROVE DeletedInv'
  <2>1. /\ LibraryOpsStay /\ UNCHANGED vanished
        /\ UNCHANGED <<sources, hidden>> \/ UnbindLibrary(w)
    BY <1>3, SyncFrame DEF library
  <2>2. CASE UnbindLibrary(w)
    <3>1. hidden' \subseteq hidden /\ \A s \in sources : s.id \in hidden' => s \in sources'
      BY <2>2 DEF UnbindLibrary
    <3> QED BY <2>1, <3>1, DeletedQuiet
  <2> QED BY <1>1, <2>1, <2>2
<1>4. ASSUME NEW w \in Workers, ScanStep(w) PROVE DeletedInv'
  BY <1>1, <1>4, ScanFrame DEF library, notes
<1>5. ASSUME NEW w \in Workers, LibraryStep(w) PROVE DeletedInv'
  BY <1>5, LibraryDeleted
<1>6. ASSUME NEW w \in Workers, Die(w) PROVE DeletedInv'
  <2>1. op'[w] = Idle /\ OthersKeep(w) /\ UNCHANGED <<sources, hidden, vanished>>
    BY <1>6, DieDoes DEF library, notes
  <2> SUFFICES ASSUME NEW id \in hidden \ vanished PROVE Guarded(id)'
    BY <2>1 DEF DeletedInv
  <2>2. Guarded(id) /\ OthersStay(w)
    BY <2>1 DEF DeletedInv, OthersKeep, OthersStay
  <2>3. HasDeleted(id)' /\ Avoids(w, id)'
    BY <2>1, <2>2 DEF Guarded, HasDeleted, Avoids, Idle
  <2> QED BY <2>2, <2>3, DeletedGoesOn
<1>7. ASSUME NEW f \in Files, NEW there \in BOOLEAN, Edit(f, there) PROVE DeletedInv'
  <2>1. \A v \in Workers : (op[v].kind # "scan" => op'[v] = op[v]) /\ op'[v].kind = op[v].kind
    BY <1>7, EditDoes
  <2>2. LibraryOpsStay /\ UNCHANGED <<sources, hidden, vanished>>
    BY <1>7, <2>1, EditDoes DEF LibraryOpsStay, library, notes
  <2> QED BY <1>1, <2>2
<1> QED BY <1>2, <1>3, <1>4, <1>5, <1>6, <1>7 DEF WorkspaceNext

\* What the user deleted while no build ran is not found again, whatever builds
\* of other processes had read before and whatever later ones make of its file,
\* unless it was restored or its file was missing for a while.
THEOREM DeletedDocumentsStayOut == WorkspaceSpec => []DeletedStaysOut
<1>1. NamesInv /\ DeletedInv => DeletedStaysOut
  BY DEF NamesInv, RowsApart, DeletedInv, Guarded, HasDeleted, DeletedStaysOut, HiddenFound, Found
<1>2. WorkspaceInit => DeletedInv
  BY DEF WorkspaceInit, DeletedInv
<1>3. WTypes /\ NamesInv /\ BuildsBegin /\ DeletedInv /\ [WorkspaceNext]_workspaceVars
        => WTypes' /\ NamesInv' /\ BuildsBegin' /\ DeletedInv'
  BY TypesStep, NamesStep, BeginsStep, DeletedStep
<1> QED BY <1>1, <1>2, <1>3, TypesStart, NamesStart, BeginsStart, PTL DEF WorkspaceSpec

-----------------------------------------------------------------------------
(* The exact scan.  While a scan is calm no other scan and no unbind is under *)
(* way; what it has seen is there as indexed, and what it has passed is seen, *)
(* but for what is in a directory it could not list.                          *)

SeenBy(w, r) == r.project = op[w].project /\ r.seen = w
CalmScan(w) ==
    /\ \A v \in Workers \ {w} : op[v].kind \notin Disturbs
    /\ op[w].left \cap op[w].unlisted = {}
    /\ \A r \in index : SeenBy(w, r) => /\ r.file \notin op[w].left \cup op[w].unlisted
                                        /\ r.exists /\ r.ver = files[r.file]
    /\ op[w].ok => \A f \in Files \ (op[w].left \cup op[w].unlisted) :
                      files[f] # 0 => \E r \in index : r.file = f /\ SeenBy(w, r)
    /\ op[w].pc = "finish" /\ op[w].ok =>
                              /\ op[w].left = {}
                              /\ \A r \in index : r.project = op[w].project /\ r.exists => SeenBy(w, r)
ScanInv == \A w \in Workers : op[w].kind = "scan" /\ op[w].calm => CalmScan(w)

\* What a calm scan v sees of a step of w: nothing, unless w disturbs it already.
Untouched(w, v) ==
    /\ op'[v] = op[v] /\ \A u \in Workers \ {w} : op'[u].kind = op[u].kind
    /\ op[w].kind \notin Disturbs => UNCHANGED <<files, index>> /\ op'[w].kind \notin Disturbs

LEMMA CalmElsewhere ==
    ASSUME ScanInv, NEW w \in Workers, NEW v \in Workers \ {w}, op'[v].kind = "scan", op'[v].calm, Untouched(w, v)
    PROVE  CalmScan(v)'
<1>1. CalmScan(v) /\ op'[v] = op[v]
  BY DEF ScanInv, Untouched
<1>2. op[w].kind \notin Disturbs
  BY <1>1 DEF CalmScan
<1>3. UNCHANGED <<files, index>> /\ \A u \in Workers \ {v} : op'[u].kind \notin Disturbs
  BY <1>1, <1>2 DEF Untouched, CalmScan
<1> QED BY <1>1, <1>3 DEF CalmScan, SeenBy

LEMMA BeginUntouched ==
    ASSUME WTypes, NEW w \in Workers, NEW record \in Ops, Begin(w, record),
           NEW v \in Workers \ {w}, op'[v].kind = "scan", op'[v].calm
    PROVE  /\ op'[v] = op[v] /\ op'[w].kind \notin Disturbs
           /\ \A u \in Workers \ {w} : op'[u].kind = op[u].kind
<1>1. BeginDoes(w) /\ op'[w] = record
  BY BeginsAs
<1>2. op[v].kind = "scan"
  BY <1>1 DEF BeginDoes
<1>3. record.kind \notin Disturbs
  <2> SUFFICES ASSUME record.kind \in Disturbs PROVE FALSE
    OBVIOUS
  <2>1. op'[v] = [op[v] EXCEPT !.calm = FALSE]
    BY <1>2 DEF Begin
  <2>2. op[v] \in ScanOps
    BY <1>2, OpKinds DEF WTypes
  <2>3. ~op'[v].calm
    BY <2>1, <2>2, DisturbedScan
  <2> QED BY <2>3
<1>4. op'[v] = op[v]
  BY <1>3 DEF Begin
<1> QED BY <1>1, <1>3, <1>4 DEF BeginDoes

LEMMA GoesUntouched ==
    ASSUME NEW w \in Workers, NEW v \in Workers \ {w}, OthersKeep(w), UNCHANGED files,
           op'[w].kind \in {op[w].kind, "idle"}, UNCHANGED index \/ op[w].kind \in Disturbs
    PROVE  Untouched(w, v)
  BY DEF Untouched, OthersKeep, Disturbs

LEMMA SyncUntouched ==
    ASSUME WTypes, NEW w \in Workers, SyncStep(w), NEW v \in Workers \ {w}, op'[v].kind = "scan", op'[v].calm
    PROVE  Untouched(w, v)
<1> USE DEF library, binding, notes
<1>0. /\ Idle.kind = "idle" /\ \A kind \in {"bind", "configure", "stop", "poll", "unbind"} : kind \in Binders
  BY DEF Idle, Binders
<1>1. ASSUME NEW record \in Ops, Begin(w, record), UNCHANGED index PROVE Untouched(w, v)
  <2>1. UNCHANGED files
    BY <1>1 DEF Begin
  <2> QED BY <1>1, <2>1, BeginUntouched DEF Untouched
<1>2. ASSUME BinderOf(w), op'[w].kind \in {op[w].kind, "idle"}, UNCHANGED index \/ op[w].kind = "unbind"
      PROVE  Untouched(w, v)
  BY <1>2, GoesUntouched DEF BinderOf, Disturbs
<1>3. ASSUME NEW p \in projects \cup {NoRow}, NEW f \in folders \cup {NoRow}, BindStart(w, p, f)
      PROVE  Untouched(w, v)
  <2> DEFINE id == IF p = NoRow THEN fresh ELSE p
             new == IF f = NoRow THEN [id |-> fresh + 1, project |-> id, sync |-> FALSE]
                    ELSE [f EXCEPT !.project = id]
             record == [kind |-> "bind", pc |-> "folder", project |-> id, folder |-> new]
  <2>1. Begin(w, record) /\ UNCHANGED index
    BY <1>3 DEF BindStart
  <2>2. id \in Nat
    BY DEF WTypes, DataTypes
  <2>3. new \in FolderRow
    BY <2>2 DEF FolderRow, WTypes, DataTypes
  <2> HIDE DEF new, id
  <2>4. record \in Ops
    BY <2>2, <2>3 DEF Ops, BinderOps, Binders
  <2> HIDE DEF record
  <2> QED BY <1>1, <2>1, <2>4
<1>4. ASSUME NEW p \in projects \cup {NoRow}, NEW f \in folders \cup {NoRow}, NEW kind \in Binders,
             SyncStart(w, kind, p, f)
      PROVE  Untouched(w, v)
  <2> DEFINE record == [kind |-> kind, pc |-> IF kind = "poll" THEN "folder" ELSE "call",
                        project |-> p, folder |-> f]
  <2>1. Begin(w, record) /\ UNCHANGED index
    BY <1>4 DEF SyncStart
  <2>2. record \in Ops
    BY DEF Ops, BinderOps, WTypes, DataTypes
  <2> HIDE DEF record
  <2> QED BY <1>1, <2>1, <2>2
<1>5. CASE ConfigureCall(w) \/ StopCall(w)
  <2>1. UNCHANGED index
    BY <1>5 DEF ConfigureCall, StopCall
  <2>2. \E kind \in {"configure", "stop"} :
           \/ \E sync \in BOOLEAN : Goes(w, kind, [op[w] EXCEPT !.pc = "folder", !.folder.sync = sync])
           \/ Goes(w, kind, Idle)
    BY <1>5 DEF ConfigureCall, StopCall
  <2>3. ASSUME NEW kind \in {"configure", "stop"}, NEW sync \in BOOLEAN,
               Goes(w, kind, [op[w] EXCEPT !.pc = "folder", !.folder.sync = sync])
        PROVE  BinderOf(w) /\ op'[w].kind \in {op[w].kind, "idle"}
    <3>1. kind \in Binders \ {"unbind"} /\ op[w].kind = kind
      BY <2>3 DEF Binders, Goes
    <3> QED BY <2>3, <3>1, SyncedGoesAs
  <2>4. ASSUME NEW kind \in {"configure", "stop"}, Goes(w, kind, Idle)
        PROVE  BinderOf(w) /\ op'[w].kind \in {op[w].kind, "idle"}
    BY <1>0, <2>4, BinderEnds
  <2> QED BY <1>2, <2>1, <2>2, <2>3, <2>4
<1>6. CASE WriteFolder(w) \/ WriteProject(w)
  <2>1. op[w].kind \in Binders /\ UNCHANGED index
    BY <1>6 DEF WriteFolder, WriteProject
  <2>2. Goes(w, op[w].kind, Idle) \/ Goes(w, op[w].kind, [op[w] EXCEPT !.pc = "project"])
    BY <1>6 DEF WriteFolder, WriteProject
  <2>3. BinderOf(w) /\ op'[w].kind \in {op[w].kind, "idle"}
    BY <1>0, <2>1, <2>2, BinderEnds, BinderGoesAs DEF BinderGoes
  <2> QED BY <1>2, <2>1, <2>3
<1>7. CASE (\E localOnly \in BOOLEAN : UnbindCall(w, localOnly)) \/ UnbindIndex(w) \/ UnbindLibrary(w)
           \/ UnbindBinding(w)
  <2>1. op[w].kind = "unbind"
    BY <1>7 DEF UnbindCall, UnbindIndex, UnbindLibrary, UnbindBinding
  <2>2. \/ Goes(w, "unbind", Idle)
        \/ \E pc \in {"index", "library", "binding"} : Goes(w, "unbind", [op[w] EXCEPT !.pc = pc])
    BY <1>7 DEF UnbindCall, UnbindIndex, UnbindLibrary, UnbindBinding
  <2>3. BinderOf(w) /\ op'[w].kind \in {op[w].kind, "idle"}
    BY <1>0, <2>2, BinderEnds, BinderGoesAs DEF BinderGoes
  <2> QED BY <1>2, <2>1, <2>3
<1>8. CASE ConfigureFails(w)
  BY <1>0, <1>8, ConfigureFailsDoes, GoesUntouched
<1> QED BY <1>3, <1>4, <1>5, <1>6, <1>7, <1>8 DEF SyncStep

LEMMA LibraryUntouched ==
    ASSUME WTypes, NEW w \in Workers, LibraryStep(w), NEW v \in Workers, op'[v].kind = "scan", op'[v].calm
    PROVE  op'[w].kind # "scan" /\ (v # w => Untouched(w, v))
<1> USE DEF library, binding, notes
<1>0. /\ Idle.kind = "idle" /\ \A o \in BuildOps : o.kind = "build"
      /\ \A o \in MarkOps : o.kind = "mark"
  BY DEF Idle, BuildOps, MarkOps
<1>1. ASSUME NEW record \in Ops, Begin(w, record), UNCHANGED index, record.kind # "scan"
      PROVE  op'[w].kind # "scan" /\ (v # w => Untouched(w, v))
  <2>1. UNCHANGED files /\ op'[w] = record
    BY <1>1, BeginsAs DEF BeginDoes
  <2> QED BY <1>1, <2>1, BeginUntouched DEF Untouched
<1>2. ASSUME BuildGoes(w), UNCHANGED index PROVE op'[w].kind # "scan" /\ (v # w => Untouched(w, v))
  BY <1>0, <1>2, GoesUntouched DEF BuildGoes
<1>3. ASSUME OthersKeep(w), op'[w] = Idle, UNCHANGED <<files, index>> PROVE op'[w].kind # "scan" /\ (v # w => Untouched(w, v))
  BY <1>0, <1>3, GoesUntouched
<1>4. CASE BuildStart(w)
  <2> DEFINE record == [kind |-> "build", pc |-> "known", rows |-> index, known |-> {}, at |-> NoRow,
                        gone |-> {}]
  <2>1. Begin(w, record) /\ UNCHANGED index
    BY <1>4 DEF BuildStart
  <2>2. record \in Ops
    BY DEF Ops, BuildOps, WTypes, DataTypes
  <2>3. record.kind # "scan"
    OBVIOUS
  <2> HIDE DEF record
  <2> QED BY <1>1, <2>1, <2>2, <2>3
<1>5. CASE ReadSources(w)
  BY <1>2, <1>5, ReadSourcesDoes
<1>6. CASE WriteSource(w)
  BY <1>2, <1>6, WriteSourceDoes
<1>7. CASE InsertChunks(w)
  BY <1>2, <1>7, InsertChunksDoes
<1>8. CASE BuildEnd(w)
  BY <1>3, <1>8, EndDoes DEF BuildEnd
<1>9. CASE MarkWrite(w)
  BY <1>3, <1>9, MarkWriteDoes
<1>10. ASSUME NEW row \in IF op[w].kind = "build" THEN op[w].rows ELSE {}, SkipRow(w, row) \/ TakeRow(w, row)
       PROVE  op'[w].kind # "scan" /\ (v # w => Untouched(w, v))
  BY <1>2, <1>10, SkipRowDoes, TakeRowDoes
<1>11. ASSUME NEW g \in IF op[w].kind = "build" THEN op[w].gone ELSE {}, DropGone(w, g)
       PROVE  op'[w].kind # "scan" /\ (v # w => Untouched(w, v))
  BY <1>2, <1>11, DropGoneDoes
<1>12. ASSUME NEW s \in sources, NEW status \in {"deleted_local", Restored}, MarkStart(w, s, status)
       PROVE  op'[w].kind # "scan" /\ (v # w => Untouched(w, v))
  <2> DEFINE record == [kind |-> "mark", source |-> s, status |-> status]
  <2>1. Begin(w, record) /\ UNCHANGED index
    BY <1>12 DEF MarkStart
  <2>2. record \in Ops
    BY DEF Ops, MarkOps, WTypes, DataTypes, Restored
  <2>3. record.kind # "scan"
    OBVIOUS
  <2> HIDE DEF record
  <2> QED BY <1>1, <2>1, <2>2, <2>3
<1> QED BY <1>4, <1>5, <1>6, <1>7, <1>8, <1>9, <1>10, <1>11, <1>12 DEF LibraryStep

\* The others' operations have the kinds they had.
LEMMA OwnSteps ==
    ASSUME ScanInv, NEW w \in Workers, op[w].kind = "scan", op'[w].kind = "scan", OthersKeep(w), UNCHANGED files,
           NEW v \in Workers, op'[v].kind = "scan", op'[v].calm, op[w].calm = op'[w].calm
    PROVE  v = w /\ CalmScan(w) /\ \A u \in Workers \ {w} : op'[u].kind \notin Disturbs
<1>1. CASE v # w
  <2>1. op'[v] = op[v]
    BY <1>1 DEF OthersKeep
  <2>2. CalmScan(v)
    BY <2>1 DEF ScanInv
  <2> QED BY <1>1, <2>2 DEF CalmScan, Disturbs
<1>2. CASE v = w
  <2>1. CalmScan(w)
    BY <1>2 DEF ScanInv
  <2> QED BY <1>2, <2>1 DEF CalmScan, OthersKeep
<1> QED BY <1>1, <1>2

LEMMA ScanStartExact ==
    ASSUME WTypes, NEW w \in Workers, NEW f \in folders, ScanStart(w, f),
           NEW v \in Workers, op'[v].kind = "scan", op'[v].calm
    PROVE  CalmScan(v)'
<1>1. /\ BeginDoes(w) /\ op'[w] \in ScanOps /\ op'[w].pc = "files" /\ op'[w].left = Files
      /\ op'[w].unlisted = {} /\ op'[w].calm = ~\E u \in Workers : op[u].kind \in Disturbs
      /\ index' = {[r EXCEPT !.seen = IF @ = w THEN "old" ELSE @] : r \in index}
  BY ScanStartDoes
<1>2. op'[w].kind = "scan"
  BY <1>1 DEF ScanOps
<1>3. v = w
  <2> SUFFICES ASSUME v # w PROVE FALSE
    OBVIOUS
  <2> DEFINE record == [kind |-> "scan", pc |-> "files", project |-> f.project, left |-> Files, ok |-> TRUE,
                        unlisted |-> {}, calm |-> ~\E u \in Workers : op[u].kind \in Disturbs]
  <2>1. Begin(w, record)
    BY DEF ScanStart
  <2>2. f \in FolderRow
    BY DEF WTypes, DataTypes
  <2>3. record \in Ops
    BY <2>2 DEF Ops, ScanOps, FolderRow
  <2> HIDE DEF record
  <2>4. op'[w].kind \notin Disturbs
    BY <2>1, <2>3, BeginUntouched
  <2> QED BY <1>2, <2>4 DEF Disturbs
<1>4. \A u \in Workers \ {w} : op'[u].kind \notin Disturbs
  BY <1>1, <1>3 DEF BeginDoes
<1>5. ASSUME NEW q \in index' PROVE q.seen # w
  <2>1. PICK r \in index : q = [r EXCEPT !.seen = IF @ = w THEN "old" ELSE @]
    BY <1>1
  <2>2. r \in IndexRow
    BY DEF WTypes, DataTypes
  <2>3. q.seen = IF r.seen = w THEN "old" ELSE r.seen
    BY <2>1, <2>2 DEF IndexRow
  <2> QED BY <2>3, WorkspaceAssumption DEF WorkspaceAssumption
<1>6. op'[w].pc # "finish" /\ Files \ op'[w].left = {} /\ op'[w].unlisted = {}
  BY <1>1
<1>7. CalmScan(w)'
  BY <1>4, <1>5, <1>6 DEF CalmScan, SeenBy
<1> QED BY <1>3, <1>7

LEMMA IndexFileExact ==
    ASSUME WTypes, NamesInv, ScanInv, NEW w \in Workers, NEW f \in Files, IndexFile(w, f),
           NEW v \in Workers, op'[v].kind = "scan", op'[v].calm
    PROVE  CalmScan(v)'
<1>1. /\ op[w] \in ScanOps /\ op[w].pc = "files" /\ f \in op[w].left /\ files[f] # 0
      /\ op'[w] \in ScanOps /\ op'[w].pc = "files" /\ op'[w].project = op[w].project
      /\ op'[w].left = op[w].left \ {f} /\ op'[w].ok = op[w].ok /\ op'[w].calm = op[w].calm
      /\ op'[w].unlisted = op[w].unlisted /\ OthersKeep(w) /\ UNCHANGED files
  BY IndexFileDoes
<1>2. op[w].kind = "scan" /\ op'[w].kind = "scan"
  BY <1>1 DEF ScanOps
<1>3. v = w /\ CalmScan(w) /\ \A u \in Workers \ {w} : op'[u].kind \notin Disturbs
  BY <1>1, <1>2, OwnSteps
<1>4. ASSUME \A q \in index' : q \in index \/ (q.file = f /\ q.exists /\ q.ver = files[f]),
             \A r \in index : r.file # f => r \in index',
             \E q \in index' : q.file = f /\ q.project = op[w].project /\ q.seen = w
      PROVE  CalmScan(w)'
  <2>1. \A q \in index' : SeenBy(w, q)' => /\ q.file \notin op'[w].left \cup op'[w].unlisted
                                           /\ q.exists /\ q.ver = files[q.file]
    <3> SUFFICES ASSUME NEW q \in index', q.project = op[w].project, q.seen = w
                 PROVE  q.file \notin op'[w].left \cup op'[w].unlisted /\ q.exists /\ q.ver = files[q.file]
      BY <1>1 DEF SeenBy
    <3>1. CASE q \in index
      BY <1>1, <1>3, <3>1 DEF CalmScan, SeenBy
    <3>2. CASE q.file = f /\ q.exists /\ q.ver = files[f]
      BY <1>1, <1>3, <3>2 DEF CalmScan
    <3> QED BY <1>4, <3>1, <3>2
  <2>2. ASSUME op'[w].ok, NEW g \in Files \ (op'[w].left \cup op'[w].unlisted), files[g] # 0
        PROVE  \E r \in index' : r.file = g /\ SeenBy(w, r)'
    <3>1. CASE g = f
      BY <1>1, <1>4, <3>1 DEF SeenBy
    <3>2. CASE g # f
      <4>1. PICK r \in index : r.file = g /\ SeenBy(w, r)
        BY <1>1, <1>3, <2>2, <3>2 DEF CalmScan
      <4> QED BY <1>1, <1>4, <3>2, <4>1 DEF SeenBy
    <3> QED BY <3>1, <3>2
  <2>3. op'[w].pc # "finish" /\ op'[w].left \cap op'[w].unlisted = {}
    BY <1>1, <1>3 DEF CalmScan
  <2> QED BY <1>1, <1>3, <2>1, <2>2, <2>3 DEF CalmScan
<1>5. CASE /\ SameRows(w, f) # {}
           /\ \A r \in index \ SameRows(w, f) : r \in index'
           /\ \E r \in index' : r.file = f /\ r.project = op[w].project /\ r.seen = w
           /\ \A q \in index' :
                 \/ q \in index \ SameRows(w, f)
                 \/ \E r \in SameRows(w, f) : q.file = f /\ q.exists /\ q.ver = files[f]
  <2>1. \A q \in index' : q \in index \/ (q.file = f /\ q.exists /\ q.ver = files[f])
    BY <1>5
  <2>2. \A r \in index : r.file # f => r \in index'
    BY <1>5 DEF SameRows, OldRows
  <2>3. \E q \in index' : q.file = f /\ q.project = op[w].project /\ q.seen = w
    BY <1>5
  <2>4. CalmScan(w)'
    BY <1>4, <2>1, <2>2, <2>3
  <2> QED BY <1>3, <2>4
<1>6. CASE \E new \in IndexRow :
              /\ new.file = f /\ new.project = op[w].project /\ new.ver = files[f] /\ new.exists
              /\ new.seen = w /\ index' = (index \ OldRows(w, f)) \cup {new}
  <2>1. PICK new \in IndexRow :
              /\ new.file = f /\ new.project = op[w].project /\ new.ver = files[f] /\ new.exists
              /\ new.seen = w /\ index' = (index \ OldRows(w, f)) \cup {new}
    BY <1>6
  <2>2. \A q \in index' : q \in index \/ (q.file = f /\ q.exists /\ q.ver = files[f])
    BY <2>1
  <2>3. \A r \in index : r.file # f => r \in index'
    BY <2>1 DEF OldRows
  <2>4. \E q \in index' : q.file = f /\ q.project = op[w].project /\ q.seen = w
    BY <2>1
  <2>5. CalmScan(w)'
    BY <1>4, <2>2, <2>3, <2>4
  <2> QED BY <1>3, <2>5
<1>7. \/ /\ SameRows(w, f) # {}
         /\ \A r \in index \ SameRows(w, f) : r \in index'
         /\ \E r \in index' : r.file = f /\ r.project = op[w].project /\ r.seen = w
         /\ \A q \in index' :
               \/ q \in index \ SameRows(w, f)
               \/ \E r \in SameRows(w, f) : q.file = f /\ q.exists /\ q.ver = files[f]
      \/ \E new \in IndexRow :
            /\ new.file = f /\ new.project = op[w].project /\ new.ver = files[f] /\ new.exists
            /\ new.seen = w /\ index' = (index \ OldRows(w, f)) \cup {new}
  <2>1. CASE fresh' = fresh + 1
    BY <2>1, IndexFileRows
  <2> QED BY IndexFileRows
<1> QED BY <1>5, <1>6, <1>7

LEMMA SkipFileExact ==
    ASSUME WTypes, ScanInv, NEW w \in Workers, NEW f \in Files, SkipFile(w, f),
           NEW v \in Workers, op'[v].kind = "scan", op'[v].calm
    PROVE  CalmScan(v)'
<1>1. /\ op[w] \in ScanOps /\ op[w].pc = "files" /\ f \in op[w].left
      /\ op'[w] \in ScanOps /\ op'[w].pc = "files" /\ op'[w].project = op[w].project
      /\ op'[w].left = op[w].left \ {f} /\ op'[w].ok = (op[w].ok /\ files[f] = 0)
      /\ op'[w].calm = op[w].calm /\ op'[w].unlisted = op[w].unlisted
      /\ OthersKeep(w) /\ UNCHANGED <<files, index>>
  BY SkipFileDoes
<1>2. op[w].kind = "scan" /\ op'[w].kind = "scan"
  BY <1>1 DEF ScanOps
<1>3. v = w /\ CalmScan(w) /\ \A u \in Workers \ {w} : op'[u].kind \notin Disturbs
  BY <1>1, <1>2, OwnSteps
<1>4. \A r : SeenBy(w, r)' <=> SeenBy(w, r)
  BY <1>1 DEF SeenBy
<1>5. ASSUME op'[w].ok, NEW g \in Files \ (op'[w].left \cup op'[w].unlisted), files[g] # 0
      PROVE  \E r \in index : r.file = g /\ SeenBy(w, r)
  <2>1. g # f /\ op[w].ok
    BY <1>1, <1>5
  <2> QED BY <1>1, <1>3, <1>5, <2>1 DEF CalmScan
<1>6. \A r \in index : SeenBy(w, r) => /\ r.file \notin op'[w].left \cup op'[w].unlisted
                                       /\ r.exists /\ r.ver = files[r.file]
  BY <1>1, <1>3 DEF CalmScan
<1>7. op'[w].pc # "finish" /\ op'[w].left \cap op'[w].unlisted = {}
  BY <1>1, <1>3 DEF CalmScan
<1>8. CalmScan(w)'
  BY <1>1, <1>3, <1>4, <1>5, <1>6, <1>7 DEF CalmScan
<1> QED BY <1>3, <1>8

\* A file in a directory that was not listed is neither left nor seen.
LEMMA PassOverExact ==
    ASSUME WTypes, ScanInv, NEW w \in Workers, NEW f \in Files, PassOver(w, f),
           NEW v \in Workers, op'[v].kind = "scan", op'[v].calm
    PROVE  CalmScan(v)'
<1>1. /\ ScanGoes(w) /\ f \in op[w].left /\ op'[w].pc = "files"
      /\ op'[w].left = op[w].left \ {f} /\ op'[w].ok = op[w].ok
      /\ op'[w].unlisted = op[w].unlisted \cup {f} /\ UNCHANGED <<files, index>>
  BY PassOverDoes DEF ScanGoes
<1>2. op[w].kind = "scan" /\ op'[w].kind = "scan"
  BY <1>1 DEF ScanGoes, ScanOps
<1>3. v = w /\ CalmScan(w) /\ \A u \in Workers \ {w} : op'[u].kind \notin Disturbs
  BY <1>1, <1>2, OwnSteps DEF ScanGoes
<1>4. \A r : SeenBy(w, r)' <=> SeenBy(w, r)
  BY <1>1 DEF SeenBy, ScanGoes
<1>5. op'[w].left \cup op'[w].unlisted = op[w].left \cup op[w].unlisted
  BY <1>1
<1>6. op'[w].pc # "finish" /\ op'[w].left \cap op'[w].unlisted = {}
  BY <1>1, <1>3 DEF CalmScan
<1>7. CalmScan(w)'
  BY <1>1, <1>3, <1>4, <1>5, <1>6 DEF CalmScan
<1> QED BY <1>3, <1>7

LEMMA ScanFailsExact ==
    ASSUME WTypes, ScanInv, NEW w \in Workers, ScanFails(w),
           NEW v \in Workers, op'[v].kind = "scan", op'[v].calm
    PROVE  CalmScan(v)'
<1>1. /\ ScanGoes(w) /\ ~op'[w].ok /\ op'[w].left = op[w].left
      /\ op'[w].unlisted = op[w].unlisted /\ UNCHANGED <<files, index>>
  BY ScanFailsDoes DEF ScanGoes
<1>2. op[w].kind = "scan" /\ op'[w].kind = "scan"
  BY <1>1 DEF ScanGoes, ScanOps
<1>3. v = w /\ CalmScan(w) /\ \A u \in Workers \ {w} : op'[u].kind \notin Disturbs
  BY <1>1, <1>2, OwnSteps DEF ScanGoes
<1>4. \A r : SeenBy(w, r)' <=> SeenBy(w, r)
  BY <1>1 DEF SeenBy, ScanGoes
<1>5. CalmScan(w)'
  BY <1>1, <1>3, <1>4 DEF CalmScan
<1> QED BY <1>3, <1>5

LEMMA MarkMissingExact ==
    ASSUME WTypes, ScanInv, NEW w \in Workers, MarkMissing(w),
           NEW v \in Workers, op'[v].kind = "scan", op'[v].calm
    PROVE  CalmScan(v)'
<1>1. /\ op[w] \in ScanOps /\ op[w].pc = "files" /\ op[w].left = {}
      /\ op'[w] \in ScanOps /\ op'[w].pc = "finish" /\ op'[w].project = op[w].project
      /\ op'[w].left = {} /\ op'[w].ok = op[w].ok /\ op'[w].calm = op[w].calm
      /\ op'[w].unlisted = op[w].unlisted /\ OthersKeep(w) /\ UNCHANGED files
      /\ index' = {[r EXCEPT !.exists = @ /\ ~(r.project = op[w].project /\ r.seen # w)] : r \in index}
  BY MarkMissingDoes
<1>2. op[w].kind = "scan" /\ op'[w].kind = "scan"
  BY <1>1 DEF ScanOps
<1>3. v = w /\ CalmScan(w) /\ \A u \in Workers \ {w} : op'[u].kind \notin Disturbs
  BY <1>1, <1>2, OwnSteps
<1>4. ASSUME NEW r \in index, NEW q,
             q = [r EXCEPT !.exists = @ /\ ~(r.project = op[w].project /\ r.seen # w)]
      PROVE  /\ q.file = r.file /\ q.project = r.project /\ q.ver = r.ver /\ q.seen = r.seen
             /\ q.exists = (r.exists /\ ~(r.project = op[w].project /\ r.seen # w))
  <2>1. r \in IndexRow
    BY DEF WTypes, DataTypes
  <2> QED BY <1>4, <2>1 DEF IndexRow
<1>5. ASSUME NEW q \in index'
      PROVE  \E r \in index : /\ q.file = r.file /\ q.project = r.project /\ q.ver = r.ver /\ q.seen = r.seen
                              /\ q.exists = (r.exists /\ ~(r.project = op[w].project /\ r.seen # w))
  <2>1. PICK r \in index : q = [r EXCEPT !.exists = @ /\ ~(r.project = op[w].project /\ r.seen # w)]
    BY <1>1
  <2> QED BY <1>4, <2>1
<1>6. ASSUME NEW r \in index
      PROVE  \E q \in index' : q.file = r.file /\ q.project = r.project /\ q.seen = r.seen
  <2>1. PICK q \in index' : q = [r EXCEPT !.exists = @ /\ ~(r.project = op[w].project /\ r.seen # w)]
    BY <1>1
  <2> QED BY <1>4, <2>1
<1>7. \A q : SeenBy(w, q)' <=> SeenBy(w, q)
  BY <1>1 DEF SeenBy
<1>8. ASSUME NEW q \in index', SeenBy(w, q)
      PROVE  q.exists /\ q.ver = files[q.file] /\ q.file \notin op[w].unlisted
  <2>1. PICK r \in index :
          /\ q.file = r.file /\ q.project = r.project /\ q.ver = r.ver /\ q.seen = r.seen
          /\ q.exists = (r.exists /\ ~(r.project = op[w].project /\ r.seen # w))
    BY <1>5
  <2>2. SeenBy(w, r)
    BY <1>8, <2>1 DEF SeenBy
  <2>3. r.exists /\ r.ver = files[r.file] /\ r.seen = w /\ r.file \notin op[w].unlisted
    BY <1>3, <2>2 DEF CalmScan, SeenBy
  <2> QED BY <2>1, <2>3
<1>9. ASSUME op[w].ok, NEW g \in Files \ op[w].unlisted, files[g] # 0
      PROVE  \E q \in index' : q.file = g /\ SeenBy(w, q)
  <2>1. PICK r \in index : r.file = g /\ SeenBy(w, r)
    BY <1>1, <1>3, <1>9 DEF CalmScan
  <2> QED BY <1>6, <2>1 DEF SeenBy
<1>10. ASSUME NEW q \in index', q.project = op[w].project, q.exists PROVE SeenBy(w, q)
  <2>1. PICK r \in index :
          /\ q.file = r.file /\ q.project = r.project /\ q.ver = r.ver /\ q.seen = r.seen
          /\ q.exists = (r.exists /\ ~(r.project = op[w].project /\ r.seen # w))
    BY <1>5
  <2>2. r.seen = w
    BY <1>10, <2>1
  <2> QED BY <1>10, <2>1, <2>2 DEF SeenBy
<1>11. CalmScan(w)'
  <2>1. \A q \in index' : SeenBy(w, q)' => /\ q.file \notin op'[w].left \cup op'[w].unlisted
                                           /\ q.exists /\ q.ver = files'[q.file]
    BY <1>1, <1>7, <1>8
  <2>2. op'[w].ok => \A g \in Files \ (op'[w].left \cup op'[w].unlisted) :
           files'[g] # 0 => \E q \in index' : q.file = g /\ SeenBy(w, q)'
    BY <1>1, <1>7, <1>9
  <2>3. op'[w].left = {} /\ \A q \in index' : q.project = op'[w].project /\ q.exists => SeenBy(w, q)'
    BY <1>1, <1>7, <1>10
  <2> QED BY <1>3, <2>1, <2>2, <2>3 DEF CalmScan
<1> QED BY <1>3, <1>11

LEMMA ScanInvStep ==
    ASSUME WTypes, NamesInv, ScanInv, [WorkspaceNext]_workspaceVars
    PROVE  ScanInv'
<1> SUFFICES ASSUME NEW v \in Workers, op'[v].kind = "scan", op'[v].calm PROVE CalmScan(v)'
  BY DEF ScanInv
<1>0. Idle.kind = "idle" /\ "scan" \notin Binders
  BY DEF Idle, Binders
<1>1. CASE UNCHANGED workspaceVars
  BY <1>1 DEF workspaceVars, ScanInv, CalmScan, SeenBy
<1>2. ASSUME NEW w \in Workers, OthersKeep(w), op'[w] = Idle, UNCHANGED <<files, index>> PROVE CalmScan(v)'
  <2>1. v # w
    BY <1>0, <1>2
  <2>2. Untouched(w, v)
    BY <1>0, <1>2, <2>1, GoesUntouched
  <2> QED BY <2>1, <2>2, CalmElsewhere
<1>3. ASSUME NEW w \in Workers, SyncStep(w) PROVE CalmScan(v)'
  <2>1. v # w
    BY <1>0, <1>3, SyncFrame
  <2> QED BY <1>3, <2>1, SyncUntouched, CalmElsewhere
<1>4. ASSUME NEW w \in Workers, LibraryStep(w) PROVE CalmScan(v)'
  <2>1. v # w /\ Untouched(w, v)
    BY <1>4, LibraryUntouched
  <2> QED BY <2>1, CalmElsewhere
<1>5. ASSUME NEW w \in Workers, ScanStep(w) PROVE CalmScan(v)'
  <2>1. CASE FinishRun(w)
    BY <1>2, <2>1, EndDoes DEF FinishRun
  <2> QED BY <1>5, <2>1, ScanStartExact, IndexFileExact, SkipFileExact, PassOverExact, ScanFailsExact,
             MarkMissingExact DEF ScanStep
<1>6. ASSUME NEW w \in Workers, Die(w) PROVE CalmScan(v)'
  BY <1>2, <1>6, DieDoes
<1>7. ASSUME NEW f \in Files, NEW there \in BOOLEAN, Edit(f, there) PROVE CalmScan(v)'
  <2>1. op[v].kind = "scan"
    BY <1>7, EditDoes
  <2> QED BY <1>7, <2>1, EditDoes
<1> QED BY <1>1, <1>3, <1>4, <1>5, <1>6, <1>7 DEF WorkspaceNext

\* When a scan that no other scan, unbind or change of the files met reports
\* "ok", the index has exactly the files of the folder, with their versions, but
\* for those in a directory the walk could not list, which count as missing.
THEOREM CalmScansAreExact == WorkspaceSpec => []ScanExact
<1>1. WTypes /\ NamesInv /\ ScanInv => ScanExact
  <2> SUFFICES ASSUME WTypes, NamesInv, ScanInv, NEW w \in Workers, op[w].kind = "scan",
                      op[w].pc = "finish", op[w].ok, op[w].calm, NEW f \in Files
               PROVE  {r.ver : r \in {q \in index : q.file = f /\ q.project = op[w].project /\ q.exists}}
                         = IF f \in op[w].unlisted THEN {} ELSE {files[f]} \ {0}
    BY DEF ScanExact
  <2>1. CalmScan(w)
    BY DEF ScanInv
  <2>2. ASSUME NEW q \in index, q.file = f, q.project = op[w].project, q.exists
        PROVE  q.ver = files[f] /\ q.ver # 0 /\ f \notin op[w].unlisted
    <3>1. q.ver = files[f] /\ f \notin op[w].unlisted
      BY <2>1, <2>2 DEF CalmScan
    <3>2. q.ver # 0
      BY DEF WTypes, DataTypes, IndexRow
    <3> QED BY <3>1, <3>2
  <2>3. files[f] # 0 /\ f \notin op[w].unlisted => \E q \in index : q.file = f /\ q.project = op[w].project /\ q.exists
    BY <2>1 DEF CalmScan, SeenBy
  <2> QED BY <2>2, <2>3
<1>2. WorkspaceInit => ScanInv
  BY DEF WorkspaceInit, Idle, ScanInv
<1>3. WTypes /\ NamesInv /\ ScanInv /\ [WorkspaceNext]_workspaceVars => WTypes' /\ NamesInv' /\ ScanInv'
  BY TypesStep, NamesStep, ScanInvStep
<1> QED BY <1>1, <1>2, <1>3, TypesStart, NamesStart, PTL DEF WorkspaceSpec

-----------------------------------------------------------------------------
(* What the steps of the binding operations do.                               *)

LEMMA BindStartDoes ==
    ASSUME WTypes, NEW w \in Workers, NEW p \in projects \cup {NoRow}, NEW f \in folders \cup {NoRow},
           BindStart(w, p, f)
    PROVE  /\ BeginDoes(w) /\ op'[w] \in BinderOps /\ op'[w].kind = "bind" /\ op'[w].pc = "folder"
           /\ op'[w].project = IF p = NoRow THEN fresh ELSE p
           /\ op'[w].project \in Nat /\ ReadProject(p) /\ ReadFolder(f)
           /\ op'[w].folder \in FolderRow /\ op'[w].folder.project = op'[w].project
           /\ f # NoRow => op'[w].folder.id = f.id /\ op'[w].folder.sync = f.sync
           /\ UNCHANGED <<binding, index, library, notes>> /\ fresh' = fresh + 2
<1> DEFINE id == IF p = NoRow THEN fresh ELSE p
           new == IF f = NoRow THEN [id |-> fresh + 1, project |-> id, sync |-> FALSE]
                  ELSE [f EXCEPT !.project = id]
           record == [kind |-> "bind", pc |-> "folder", project |-> id, folder |-> new]
<1>1. /\ Begin(w, record) /\ UNCHANGED <<binding, index, library, notes>> /\ fresh' = fresh + 2
      /\ ReadProject(p) /\ ReadFolder(f)
  BY DEF BindStart
<1>2. id \in Nat
  BY DEF WTypes, DataTypes
<1>3. new \in FolderRow /\ new.project = id /\ (f # NoRow => new.id = f.id /\ new.sync = f.sync)
  <2>1. CASE f = NoRow
    <3>1. fresh + 1 \in Nat
      BY DEF WTypes, DataTypes
    <3>2. new = [id |-> fresh + 1, project |-> id, sync |-> FALSE]
      BY <2>1
    <3> QED BY <1>2, <2>1, <3>1, <3>2 DEF FolderRow
  <2>2. CASE f # NoRow
    <3>1. f \in FolderRow
      BY <2>2 DEF WTypes, DataTypes
    <3>2. PICK q : q = [f EXCEPT !.project = id]
      OBVIOUS
    <3>3. new = q
      BY <2>2, <3>2
    <3>4. q \in FolderRow /\ q.project = id /\ q.id = f.id /\ q.sync = f.sync
      BY <1>2, <3>1, <3>2 DEF FolderRow
    <3> QED BY <3>3, <3>4
  <2> QED BY <2>1, <2>2
<1> HIDE DEF new
<1>4. record \in Ops /\ record \in BinderOps
  BY <1>2, <1>3 DEF Ops, BinderOps, Binders
<1>5. record.kind = "bind" /\ record.pc = "folder" /\ record.project = id /\ record.folder = new
  OBVIOUS
<1> HIDE DEF record
<1>6. BeginDoes(w) /\ op'[w] = record
  BY <1>1, <1>4, BeginsAs
<1> QED BY <1>1, <1>2, <1>3, <1>4, <1>5, <1>6

LEMMA SyncStartDoes ==
    ASSUME WTypes, NEW w \in Workers, NEW kind \in Binders,
           NEW p \in projects \cup {NoRow}, NEW f \in folders \cup {NoRow}, SyncStart(w, kind, p, f)
    PROVE  /\ BeginDoes(w) /\ op'[w] \in BinderOps /\ op'[w].kind = kind /\ kind # "bind"
           /\ op'[w].pc = IF kind = "poll" THEN "folder" ELSE "call"
           /\ op'[w].project = p /\ op'[w].folder = f /\ ReadProject(p) /\ ReadFolder(f)
           /\ f = NoRow => kind = "unbind"
           /\ UNCHANGED <<binding, index, library, notes, fresh>>
<1> DEFINE record == [kind |-> kind, pc |-> IF kind = "poll" THEN "folder" ELSE "call",
                      project |-> p, folder |-> f]
<1>1. /\ Begin(w, record) /\ UNCHANGED <<binding, index, library, notes, fresh>>
      /\ kind # "bind" /\ (f = NoRow => kind = "unbind") /\ ReadProject(p) /\ ReadFolder(f)
  BY DEF SyncStart
<1>2. record \in Ops /\ record \in BinderOps
  BY DEF Ops, BinderOps, WTypes, DataTypes
<1>3. /\ record.kind = kind /\ record.pc = IF kind = "poll" THEN "folder" ELSE "call"
      /\ record.project = p /\ record.folder = f
  OBVIOUS
<1> HIDE DEF record
<1> QED BY <1>1, <1>2, <1>3, BeginsAs

\* Configure and stop go on with the folder as they leave it.
CallGoes(w, sync) ==
    /\ op'[w] \in BinderOps /\ op'[w].kind = op[w].kind /\ op'[w].pc = "folder"
    /\ op'[w].project = op[w].project /\ op'[w].folder \in FolderRow
    /\ op'[w].folder.id = op[w].folder.id /\ op'[w].folder.sync = sync
    /\ op'[w].folder.project = op[w].folder.project

LEMMA ConfigureCallDoes ==
    ASSUME WTypes, NEW w \in Workers, ConfigureCall(w)
    PROVE  /\ BinderOf(w) /\ op[w].kind = "configure" /\ op[w].pc = "call" /\ op[w].folder \in FolderRow
           /\ \/ CallGoes(w, TRUE) /\ shared' = shared \cup {op[w].folder.id}
              \/ op'[w] = Idle /\ UNCHANGED shared
           /\ UNCHANGED <<projects, folders, index, library, notes, fresh>>
<1>1. /\ op[w].kind = "configure" /\ op[w].pc = "call"
      /\ \/ /\ Goes(w, "configure", [op[w] EXCEPT !.pc = "folder", !.folder.sync = TRUE])
            /\ shared' = shared \cup {op[w].folder.id}
         \/ Goes(w, "configure", Idle) /\ UNCHANGED shared
      /\ UNCHANGED <<projects, folders, index, library, notes, fresh>>
  BY DEF ConfigureCall, Share
<1>2. "configure" \in Binders \ {"unbind"}
  BY DEF Binders
<1>3. op[w].folder \in FolderRow
  BY <1>1, <1>2, BinderAt DEF BinderOps, WTypes, BindFolder
<1>4. CASE /\ Goes(w, "configure", [op[w] EXCEPT !.pc = "folder", !.folder.sync = TRUE])
           /\ shared' = shared \cup {op[w].folder.id}
  BY <1>1, <1>2, <1>3, <1>4, SyncedGoesAs DEF CallGoes
<1>5. CASE Goes(w, "configure", Idle) /\ UNCHANGED shared
  BY <1>1, <1>2, <1>3, <1>5, BinderEnds
<1> QED BY <1>1, <1>4, <1>5

LEMMA StopCallDoes ==
    ASSUME WTypes, NEW w \in Workers, StopCall(w)
    PROVE  /\ BinderOf(w) /\ op[w].kind = "stop" /\ op[w].pc = "call" /\ op[w].folder \in FolderRow
           /\ \/ /\ CallGoes(w, FALSE)
                 /\ shared' = IF op[w].folder.sync THEN shared \ {op[w].folder.id} ELSE shared
              \/ op'[w] = Idle /\ shared' \subseteq shared
           /\ UNCHANGED <<projects, folders, index, library, notes, fresh>>
<1>1. /\ op[w].kind = "stop" /\ op[w].pc = "call"
      /\ \/ /\ Goes(w, "stop", [op[w] EXCEPT !.pc = "folder", !.folder.sync = FALSE])
            /\ shared' = IF op[w].folder.sync THEN shared \ {op[w].folder.id} ELSE shared
         \/ Goes(w, "stop", Idle) /\ shared' \subseteq shared
      /\ UNCHANGED <<projects, folders, index, library, notes, fresh>>
  BY DEF StopCall, Unshare
<1>2. "stop" \in Binders \ {"unbind"}
  BY DEF Binders
<1>3. op[w].folder \in FolderRow
  BY <1>1, <1>2, BinderAt DEF BinderOps, WTypes, BindFolder
<1>4. CASE /\ Goes(w, "stop", [op[w] EXCEPT !.pc = "folder", !.folder.sync = FALSE])
           /\ shared' = IF op[w].folder.sync THEN shared \ {op[w].folder.id} ELSE shared
  BY <1>1, <1>2, <1>3, <1>4, SyncedGoesAs DEF CallGoes
<1>5. CASE Goes(w, "stop", Idle) /\ shared' \subseteq shared
  BY <1>1, <1>2, <1>3, <1>5, BinderEnds
<1> QED BY <1>1, <1>4, <1>5

LEMMA WriteFolderDoes ==
    ASSUME WTypes, NEW w \in Workers, WriteFolder(w)
    PROVE  /\ BinderOf(w) /\ op[w].kind \in Binders \ {"unbind"} /\ op[w].pc = "folder"
           /\ op[w].folder \in FolderRow
           /\ folders' = {g \in folders : g.id # op[w].folder.id} \cup {op[w].folder}
           /\ IF op[w].kind = "poll" \/ op[w].project = NoRow THEN op'[w] = Idle
              ELSE BinderGoes(w, "project")
           /\ UNCHANGED <<projects, shared, index, library, notes, fresh>>
<1>1. /\ op[w].kind \in Binders \ {"unbind"} /\ op[w].pc = "folder"
      /\ folders' = {g \in folders : g.id # op[w].folder.id} \cup {op[w].folder}
      /\ Goes(w, op[w].kind, IF op[w].kind = "poll" \/ op[w].project = NoRow THEN Idle
                             ELSE [op[w] EXCEPT !.pc = "project"])
      /\ UNCHANGED <<projects, shared, index, library, notes, fresh>>
  BY DEF WriteFolder, SaveFolder
<1>2. op[w].kind \in Binders /\ op[w].folder \in FolderRow
  BY <1>1, BinderAt DEF BinderOps, WTypes, BindFolder
<1>3. CASE op[w].kind = "poll" \/ op[w].project = NoRow
  BY <1>1, <1>2, <1>3, BinderEnds
<1>4. CASE ~(op[w].kind = "poll" \/ op[w].project = NoRow)
  BY <1>1, <1>2, <1>4, BinderGoesAs
<1> QED BY <1>3, <1>4

LEMMA WriteProjectDoes ==
    ASSUME WTypes, NEW w \in Workers, WriteProject(w)
    PROVE  /\ BinderOf(w) /\ op[w].kind \in Binders \ {"unbind"} /\ op[w].pc = "project"
           /\ op[w].project \in Nat /\ projects' = projects \cup {op[w].project} /\ op'[w] = Idle
           /\ UNCHANGED <<folders, shared, index, library, notes, fresh>>
<1>1. /\ op[w].kind \in Binders \ {"unbind"} /\ op[w].pc = "project" /\ Goes(w, op[w].kind, Idle)
      /\ projects' = projects \cup {op[w].project}
      /\ UNCHANGED <<folders, shared, index, library, notes, fresh>>
  BY DEF WriteProject
<1>2. op[w].kind \in Binders /\ op[w].project \in Nat
  BY <1>1, BinderAt DEF BinderOps, WTypes, BindFolder
<1> QED BY <1>1, <1>2, BinderEnds

LEMMA UnbindCallDoes ==
    ASSUME WTypes, NEW w \in Workers, NEW localOnly \in BOOLEAN, UnbindCall(w, localOnly)
    PROVE  /\ BinderOf(w) /\ op[w].kind = "unbind" /\ op[w].pc = "call"
           /\ kept' = (kept \/ localOnly)
           /\ \/ /\ BinderGoes(w, "index")
                 /\ shared' = IF op[w].folder # NoRow /\ op[w].folder.sync /\ ~localOnly
                              THEN shared \ {op[w].folder.id} ELSE shared
              \/ op'[w] = Idle /\ shared' \subseteq shared
           /\ UNCHANGED <<projects, folders, index, library, hidden, vanished, named, fresh>>
<1>1. /\ op[w].kind = "unbind" /\ op[w].pc = "call" /\ kept' = (kept \/ localOnly)
      /\ \/ /\ Goes(w, "unbind", [op[w] EXCEPT !.pc = "index"])
            /\ shared' = IF op[w].folder # NoRow /\ op[w].folder.sync /\ ~localOnly
                         THEN shared \ {op[w].folder.id} ELSE shared
         \/ Goes(w, "unbind", Idle) /\ shared' \subseteq shared
      /\ UNCHANGED <<projects, folders, index, library, hidden, vanished, named, fresh>>
  BY DEF UnbindCall, Unshare
<1>2. "unbind" \in Binders
  BY DEF Binders
<1>3. CASE /\ Goes(w, "unbind", [op[w] EXCEPT !.pc = "index"])
           /\ shared' = IF op[w].folder # NoRow /\ op[w].folder.sync /\ ~localOnly
                        THEN shared \ {op[w].folder.id} ELSE shared
  BY <1>1, <1>2, <1>3, BinderGoesAs
<1>4. CASE Goes(w, "unbind", Idle) /\ shared' \subseteq shared
  BY <1>1, <1>2, <1>4, BinderEnds
<1> QED BY <1>1, <1>3, <1>4

LEMMA UnbindRowsDoes ==
    ASSUME WTypes, NEW w \in Workers
    PROVE  /\ UnbindIndex(w) => /\ BinderOf(w) /\ op[w].kind = "unbind" /\ op[w].pc = "index"
                                /\ BinderGoes(w, "library")
                                /\ UNCHANGED <<binding, library, notes, fresh>>
           /\ UnbindLibrary(w) => /\ BinderOf(w) /\ op[w].kind = "unbind" /\ op[w].pc = "library"
                                  /\ BinderGoes(w, "binding")
                                  /\ UNCHANGED <<binding, index, kept, vanished, named, fresh>>
           /\ UnbindBinding(w) => /\ BinderOf(w) /\ op[w].kind = "unbind" /\ op[w].pc = "binding"
                                  /\ op'[w] = Idle /\ projects' = {} /\ folders' = {}
                                  /\ UNCHANGED <<shared, index, library, notes, fresh>>
<1>1. "unbind" \in Binders
  BY DEF Binders
<1>2. ASSUME UnbindIndex(w)
      PROVE  /\ BinderOf(w) /\ op[w].kind = "unbind" /\ op[w].pc = "index" /\ BinderGoes(w, "library")
             /\ UNCHANGED <<binding, library, notes, fresh>>
  <2>1. /\ op[w].kind = "unbind" /\ op[w].pc = "index" /\ Goes(w, "unbind", [op[w] EXCEPT !.pc = "library"])
        /\ UNCHANGED <<binding, library, notes, fresh>>
    BY <1>2 DEF UnbindIndex
  <2> QED BY <1>1, <2>1, BinderGoesAs
<1>3. ASSUME UnbindLibrary(w)
      PROVE  /\ BinderOf(w) /\ op[w].kind = "unbind" /\ op[w].pc = "library" /\ BinderGoes(w, "binding")
             /\ UNCHANGED <<binding, index, kept, vanished, named, fresh>>
  <2>1. /\ op[w].kind = "unbind" /\ op[w].pc = "library" /\ Goes(w, "unbind", [op[w] EXCEPT !.pc = "binding"])
        /\ UNCHANGED <<binding, index, kept, vanished, named, fresh>>
    BY <1>3 DEF UnbindLibrary
  <2> QED BY <1>1, <2>1, BinderGoesAs
<1>4. ASSUME UnbindBinding(w)
      PROVE  /\ BinderOf(w) /\ op[w].kind = "unbind" /\ op[w].pc = "binding" /\ op'[w] = Idle
             /\ projects' = {} /\ folders' = {} /\ UNCHANGED <<shared, index, library, notes, fresh>>
  <2>1. /\ op[w].kind = "unbind" /\ op[w].pc = "binding" /\ Goes(w, "unbind", Idle)
        /\ projects' = {} /\ folders' = {} /\ UNCHANGED <<shared, index, library, notes, fresh>>
    BY <1>4 DEF UnbindBinding
  <2> QED BY <1>1, <2>1, BinderEnds
<1> QED BY <1>2, <1>3, <1>4

-----------------------------------------------------------------------------
(* Binding operations that met no other operation.  While one of them runs,   *)
(* every other process is idle, there is one folder at most, and it is the    *)
(* one the operation read.                                                    *)

BindersAlone == \A w, v \in Workers : op[w].kind \in Binders /\ op[v] # Idle => v = w
OneFolder == \A f, g \in folders : f = g
ReadNow(w) ==
    /\ op[w].kind \in {"configure", "stop", "unbind"} /\ op[w].pc = "call" =>
          op[w].folder \in folders \/ (folders = {} /\ op[w].folder = NoRow)
    /\ op[w].kind \in Binders \ {"unbind"} /\ op[w].pc = "folder" => \A g \in folders : g.id = op[w].folder.id
    /\ op[w].kind \in {"bind", "poll"} /\ op[w].pc = "folder" => \A g \in folders : g.sync = op[w].folder.sync
    /\ op[w].kind = "configure" /\ op[w].pc = "folder" => op[w].folder.sync
AloneInv == ~raced => BindersAlone /\ OneFolder /\ \A w \in Workers : ReadNow(w)

NoBinders == \A w \in Workers : op[w].kind \notin Binders
Solo(w) == ~raced /\ \A v \in Workers \ {w} : op[v] = Idle /\ op'[v] = Idle

LEMMA IdleKind == Idle.kind = "idle" /\ "idle" \notin Binders
  BY DEF Idle, Binders

\* A binding operation that begins, or goes on, without meeting another.
LEMMA BinderBegins ==
    ASSUME WTypes, NEW w \in Workers, BeginDoes(w), op'[w].kind \in Binders, ~raced'
    PROVE  Solo(w) /\ op[w] = Idle
<1>1. ~raced /\ op[w] = Idle /\ \A v \in Workers \ {w} : op[v] = Idle
  BY DEF BeginDoes
<1>2. \A v \in Workers \ {w} : op[v].kind # "scan" => op'[v] = op[v]
  BY DEF BeginDoes
<1> QED BY <1>1, <1>2, IdleKind DEF Solo

LEMMA BinderAcross ==
    ASSUME WTypes, AloneInv, NEW w \in Workers, BinderOf(w), ~raced'
    PROVE  Solo(w)
<1>1. ~raced /\ op[w].kind \in Binders /\ OthersKeep(w)
  BY DEF BinderOf, BinderOps
<1>2. \A v \in Workers \ {w} : op[v] = Idle
  BY <1>1 DEF AloneInv, BindersAlone
<1> QED BY <1>1, <1>2 DEF Solo, OthersKeep

\* No step of another service is taken while a binding operation runs.
OtherStep(w) ==
    /\ op[w].kind \notin Binders /\ op'[w].kind \notin Binders
    /\ UNCHANGED <<binding, cut, kept>>
    /\ BeginDoes(w) \/ (op[w] # Idle /\ OthersKeep(w) /\ UNCHANGED raced)

LEMMA OtherAlone ==
    ASSUME WTypes, AloneInv, NEW w \in Workers, OtherStep(w), ~raced'
    PROVE  ~raced /\ NoBinders /\ NoBinders'
<1>1. CASE BeginDoes(w)
  <2>1. ~raced /\ \A v \in Workers \ {w} : op[v] # Idle => op[v].kind \notin Binders
    BY <1>1 DEF BeginDoes
  <2>2. NoBinders
    BY <2>1, IdleKind DEF NoBinders, OtherStep
  <2>3. \A v \in Workers \ {w} : op'[v].kind = op[v].kind
    BY <1>1 DEF BeginDoes
  <2> QED BY <2>1, <2>2, <2>3 DEF NoBinders, OtherStep
<1>2. CASE op[w] # Idle /\ OthersKeep(w) /\ UNCHANGED raced
  <2>1. ~raced
    BY <1>2
  <2>2. NoBinders
    BY <1>2, <2>1 DEF AloneInv, BindersAlone, NoBinders, OtherStep
  <2> QED BY <1>2, <2>1, <2>2 DEF NoBinders, OtherStep, OthersKeep
<1> QED BY <1>1, <1>2 DEF OtherStep

LEMMA ScanOther == ASSUME WTypes, NEW w \in Workers, ScanStep(w) PROVE OtherStep(w)
<1> USE DEF binding, notes
<1>1. op[w].kind \in {"scan", "idle"} /\ op'[w].kind \in {"scan", "idle"} /\ UNCHANGED <<binding, cut, kept>>
  BY ScanFrame
<1>2. {"scan", "idle"} \cap Binders = {} /\ \A o \in ScanOps : o # Idle
  BY DEF Binders, ScanOps, Idle
<1>3. ASSUME NEW f \in folders, ScanStart(w, f) PROVE BeginDoes(w)
  BY <1>3, ScanStartDoes
<1>4. ASSUME NEW f \in Files, IndexFile(w, f) PROVE op[w] # Idle /\ OthersKeep(w) /\ UNCHANGED raced
  BY <1>2, <1>4, IndexFileDoes
<1>5. ASSUME NEW f \in Files, SkipFile(w, f) PROVE op[w] # Idle /\ OthersKeep(w) /\ UNCHANGED raced
  BY <1>2, <1>5, SkipFileDoes
<1>6. CASE MarkMissing(w)
  <2>1. op[w] # Idle /\ OthersKeep(w)
    BY <1>2, <1>6, MarkMissingDoes
  <2>2. UNCHANGED raced
    BY <1>6 DEF MarkMissing, Goes
  <2> QED BY <1>1, <1>2, <2>1, <2>2 DEF OtherStep
<1>7. CASE FinishRun(w)
  <2>1. op[w].kind = "scan" /\ OthersKeep(w) /\ UNCHANGED raced
    BY <1>7, EndDoes DEF FinishRun
  <2> QED BY <1>1, <1>2, <2>1, IdleKind DEF OtherStep
<1>8. CASE ScanFails(w) \/ \E f \in Files : PassOver(w, f)
  <2>1. ScanGoes(w)
    BY <1>8, ScanFailsDoes, PassOverDoes
  <2>2. op[w] # Idle /\ OthersKeep(w) /\ UNCHANGED raced
    BY <1>2, <2>1 DEF ScanGoes
  <2> QED BY <1>1, <1>2, <2>2 DEF OtherStep
<1> QED BY <1>1, <1>2, <1>3, <1>4, <1>5, <1>6, <1>7, <1>8 DEF OtherStep, ScanStep

LEMMA LibraryOther == ASSUME WTypes, NEW w \in Workers, LibraryStep(w) PROVE OtherStep(w)
<1> USE DEF binding, notes
<1>1. /\ \A o \in BuildOps : o.kind = "build" /\ o # Idle
      /\ \A o \in MarkOps : o.kind = "mark" /\ o # Idle
      /\ {"build", "mark"} \cap Binders = {}
  BY DEF BuildOps, MarkOps, Idle, Binders
<1>2. ASSUME BuildGoes(w), UNCHANGED <<binding, kept>> PROVE OtherStep(w)
  BY <1>1, <1>2 DEF BuildGoes, OtherStep
<1>3. ASSUME BeginDoes(w), op'[w] \in BuildOps \cup MarkOps, UNCHANGED <<binding, kept>> PROVE OtherStep(w)
  <2>1. op[w] = Idle /\ UNCHANGED cut
    BY <1>3 DEF BeginDoes
  <2> QED BY <1>1, <1>3, <2>1, IdleKind DEF OtherStep
<1>4. CASE BuildStart(w)
  BY <1>3, <1>4, BuildStartDoes
<1>5. CASE ReadSources(w)
  BY <1>2, <1>5, ReadSourcesDoes
<1>6. CASE WriteSource(w)
  BY <1>2, <1>6, WriteSourceDoes
<1>7. CASE InsertChunks(w)
  BY <1>2, <1>7, InsertChunksDoes
<1>8. CASE BuildEnd(w)
  <2>1. op[w].kind = "build" /\ op'[w] = Idle /\ OthersKeep(w) /\ UNCHANGED <<raced, cut, binding, kept>>
    BY <1>8, EndDoes DEF BuildEnd
  <2> QED BY <1>1, <2>1, IdleKind DEF OtherStep
<1>9. CASE MarkWrite(w)
  <2>1. op[w] \in MarkOps /\ op'[w] = Idle /\ OthersKeep(w) /\ UNCHANGED <<raced, cut, binding, kept>>
    BY <1>9, MarkWriteDoes
  <2> QED BY <1>1, <2>1, IdleKind DEF OtherStep
<1>10. ASSUME NEW row \in IF op[w].kind = "build" THEN op[w].rows ELSE {}, SkipRow(w, row) PROVE OtherStep(w)
  BY <1>2, <1>10, SkipRowDoes
<1>11. ASSUME NEW row \in IF op[w].kind = "build" THEN op[w].rows ELSE {}, TakeRow(w, row) PROVE OtherStep(w)
  <2>1. op[w].kind = "build" /\ row \in op[w].rows
    BY <1>11
  <2>2. BuildGoes(w)
    BY <1>11, <2>1, TakeRowDoes
  <2>3. UNCHANGED <<binding, kept>>
    BY <1>11 DEF TakeRow
  <2> QED BY <1>2, <2>2, <2>3
<1>12. ASSUME NEW s \in IF op[w].kind = "build" THEN op[w].gone ELSE {}, DropGone(w, s) PROVE OtherStep(w)
  <2>1. op[w].kind = "build" /\ s \in op[w].gone
    BY <1>12
  <2>2. BuildGoes(w) /\ UNCHANGED <<binding, kept>>
    BY <1>12, <2>1, DropGoneDoes
  <2> QED BY <1>2, <2>2
<1>13. ASSUME NEW s \in sources, NEW status \in {"deleted_local", Restored}, MarkStart(w, s, status)
       PROVE  OtherStep(w)
  BY <1>3, <1>13, MarkStartDoes
<1> QED BY <1>4, <1>5, <1>6, <1>7, <1>8, <1>9, <1>10, <1>11, <1>12, <1>13 DEF LibraryStep

\* A change of the files, and a death, leave the binding operations there are.
Stays(v) ==
    \/ op'[v] = op[v]
    \/ op[v].kind = "scan" /\ op'[v].kind = "scan"
    \/ op'[v] = Idle /\ (op[v].kind \in Unmended => op[v].kind \in cut')
Quiet == UNCHANGED <<binding, raced, kept>> /\ cut \subseteq cut' /\ \A v \in Workers : Stays(v)

LEMMA QuietSteps ==
    ASSUME WTypes
    PROVE  /\ \A w \in Workers : Die(w) => Quiet
           /\ \A f \in Files, there \in BOOLEAN : Edit(f, there) => Quiet
           /\ UNCHANGED workspaceVars => Quiet
<1> USE DEF Quiet, Stays, binding, notes
<1>1. ASSUME NEW w \in Workers, Die(w) PROVE Quiet
  BY <1>1, DieDoes DEF OthersKeep
<1>2. ASSUME NEW f \in Files, NEW there \in BOOLEAN, Edit(f, there) PROVE Quiet
  <2>1. UNCHANGED <<binding, raced, kept, cut>>
    BY <1>2, EditDoes
  <2>2. \A v \in Workers : (op[v].kind # "scan" => op'[v] = op[v]) /\ op'[v].kind = op[v].kind
    BY <1>2, EditDoes
  <2> QED BY <2>1, <2>2
<1>3. CASE UNCHANGED workspaceVars
  BY <1>3 DEF workspaceVars
<1> QED BY <1>1, <1>2, <1>3

LEMMA SoloAlone ==
    ASSUME WTypes, NEW w \in Workers, Solo(w), OneFolder', ReadNow(w)'
    PROVE  AloneInv'
<1>1. \A v \in Workers \ {w} : op'[v] = Idle
  BY DEF Solo
<1>2. ASSUME NEW v \in Workers PROVE ReadNow(v)'
  <2>1. CASE v = w
    BY <2>1
  <2>2. CASE v # w
    <3>1. op'[v].kind = "idle"
      BY <1>1, <2>2, IdleKind
    <3> QED BY <3>1 DEF ReadNow, Binders
  <2> QED BY <2>1, <2>2
<1>3. BindersAlone'
  BY <1>1, IdleKind DEF BindersAlone
<1> QED BY <1>2, <1>3 DEF AloneInv

LEMMA AloneStart == WorkspaceInit => AloneInv
<1> SUFFICES ASSUME WorkspaceInit PROVE AloneInv
  OBVIOUS
<1>1. \A w \in Workers : op[w] = Idle
  BY DEF WorkspaceInit
<1>2. OneFolder
  BY DEF WorkspaceInit, OneFolder
<1>3. \A w \in Workers : ReadNow(w)
  BY <1>1, IdleKind DEF ReadNow, Binders
<1> QED BY <1>1, <1>2, <1>3 DEF AloneInv, BindersAlone

\* A step of a binding operation is taken while all others are idle.
LEMMA SyncSolo == ASSUME WTypes, AloneInv, NEW w \in Workers, SyncStep(w), ~raced' PROVE Solo(w)
<1>1. ASSUME NEW p \in projects \cup {NoRow}, NEW f \in folders \cup {NoRow}, BindStart(w, p, f) PROVE Solo(w)
  BY <1>1, BindStartDoes, BinderBegins DEF Binders
<1>2. ASSUME NEW p \in projects \cup {NoRow}, NEW f \in folders \cup {NoRow}, NEW kind \in Binders,
             SyncStart(w, kind, p, f)
      PROVE  Solo(w)
  BY <1>2, SyncStartDoes, BinderBegins
<1>3. BinderOf(w) => Solo(w)
  BY BinderAcross
<1>4. ASSUME NEW localOnly \in BOOLEAN, UnbindCall(w, localOnly) PROVE Solo(w)
  BY <1>3, <1>4, UnbindCallDoes
<1>5. ConfigureCall(w) \/ StopCall(w) \/ WriteFolder(w) \/ WriteProject(w) => Solo(w)
  BY <1>3, ConfigureCallDoes, StopCallDoes, WriteFolderDoes, WriteProjectDoes
<1>6. UnbindIndex(w) \/ UnbindLibrary(w) \/ UnbindBinding(w) => Solo(w)
  BY <1>3, UnbindRowsDoes
<1>7. ConfigureFails(w) => Solo(w)
  BY <1>3, ConfigureFailsDoes DEF BinderOf, Solo, AloneInv, BindersAlone, OthersKeep, Binders
<1> QED BY <1>1, <1>2, <1>4, <1>5, <1>6, <1>7 DEF SyncStep

LEMMA SyncAlone == ASSUME WTypes, AloneInv, NEW w \in Workers, SyncStep(w) PROVE AloneInv'
<1> SUFFICES ASSUME ~raced' PROVE AloneInv'
  BY DEF AloneInv
<1>1. Solo(w)
  BY SyncSolo
<1>2. OneFolder /\ ReadNow(w)
  BY <1>1 DEF AloneInv, Solo
<1>3. ASSUME UNCHANGED folders PROVE OneFolder'
  BY <1>2, <1>3 DEF OneFolder
<1>4. op'[w] = Idle => ReadNow(w)'
  BY IdleKind DEF ReadNow, Binders
<1>5. ASSUME NEW p \in projects \cup {NoRow}, NEW f \in folders \cup {NoRow}, BindStart(w, p, f) PROVE AloneInv'
  <2>1. /\ UNCHANGED folders /\ op'[w].kind = "bind" /\ op'[w].pc = "folder" /\ ReadFolder(f)
        /\ f # NoRow => op'[w].folder.id = f.id /\ op'[w].folder.sync = f.sync
    BY <1>5, BindStartDoes DEF binding
  <2>2. \A g \in folders : g = f /\ f # NoRow
    <3>1. folders = {} \/ f \in folders
      BY <2>1 DEF ReadFolder
    <3>2. f \in folders => f # NoRow
      BY NoRowAssumption DEF WTypes, DataTypes
    <3> QED BY <1>2, <3>1, <3>2 DEF OneFolder
  <2>3. ReadNow(w)'
    BY <2>1, <2>2 DEF ReadNow
  <2> QED BY <1>1, <1>3, <2>1, <2>3, SoloAlone
<1>6. ASSUME NEW p \in projects \cup {NoRow}, NEW f \in folders \cup {NoRow}, NEW kind \in Binders,
             SyncStart(w, kind, p, f)
      PROVE  AloneInv'
  <2>1. /\ UNCHANGED folders /\ op'[w].kind = kind /\ kind # "bind"
        /\ op'[w].pc = (IF kind = "poll" THEN "folder" ELSE "call") /\ op'[w].folder = f /\ ReadFolder(f)
    BY <1>6, SyncStartDoes DEF binding
  <2>2. \A g \in folders : g = f
    BY <1>2, <2>1 DEF ReadFolder, OneFolder
  <2>3. ReadNow(w)'
    BY <2>1, <2>2 DEF ReadNow, ReadFolder
  <2> QED BY <1>1, <1>3, <2>1, <2>3, SoloAlone
<1>7. ASSUME NEW sync \in BOOLEAN, CallGoes(w, sync), UNCHANGED folders, op[w].folder \in FolderRow,
             op[w].kind \in {"configure", "stop"}, op[w].pc = "call", op[w].kind = "configure" => sync
      PROVE  AloneInv'
  <2>1. op[w].folder \in folders
    BY <1>2, <1>7, NoRowAssumption DEF ReadNow
  <2>2. \A g \in folders : g = op[w].folder
    BY <1>2, <2>1 DEF OneFolder
  <2>3. ReadNow(w)'
    BY <1>7, <2>2 DEF ReadNow, CallGoes
  <2> QED BY <1>1, <1>3, <1>7, <2>3, SoloAlone
<1>8. ASSUME op'[w] = Idle, UNCHANGED folders PROVE AloneInv'
  BY <1>1, <1>3, <1>4, <1>8, SoloAlone
<1>9. CASE ConfigureCall(w)
  BY <1>7, <1>8, <1>9, ConfigureCallDoes
<1>10. CASE StopCall(w)
  BY <1>7, <1>8, <1>10, StopCallDoes
<1>11. CASE WriteFolder(w)
  <2>1. /\ op[w].kind \in Binders \ {"unbind"} /\ op[w].pc = "folder"
        /\ folders' = {g \in folders : g.id # op[w].folder.id} \cup {op[w].folder}
        /\ op'[w] = Idle \/ (BinderGoes(w, "project"))
    BY <1>11, WriteFolderDoes
  <2>2. folders' = {op[w].folder}
    BY <1>2, <2>1 DEF ReadNow
  <2>3. OneFolder'
    BY <2>2 DEF OneFolder
  <2>4. ReadNow(w)'
    BY <1>4, <2>1 DEF ReadNow, BinderGoes
  <2> QED BY <1>1, <2>3, <2>4, SoloAlone
<1>12. CASE WriteProject(w)
  BY <1>8, <1>12, WriteProjectDoes
<1>13. ASSUME NEW pc \in {"index", "library", "binding"}, BinderGoes(w, pc), UNCHANGED folders,
              op[w].kind = "unbind"
       PROVE  AloneInv'
  <2>1. ReadNow(w)'
    BY <1>13 DEF ReadNow, BinderGoes
  <2> QED BY <1>1, <1>3, <1>13, <2>1, SoloAlone
<1>14. ASSUME NEW localOnly \in BOOLEAN, UnbindCall(w, localOnly) PROVE AloneInv'
  BY <1>8, <1>13, <1>14, UnbindCallDoes
<1>15. CASE UnbindIndex(w) \/ UnbindLibrary(w)
  BY <1>13, <1>15, UnbindRowsDoes DEF binding
<1>16. CASE UnbindBinding(w)
  <2>1. op'[w] = Idle /\ folders' = {}
    BY <1>16, UnbindRowsDoes
  <2>2. OneFolder'
    BY <2>1 DEF OneFolder
  <2> QED BY <1>1, <1>4, <2>1, <2>2, SoloAlone
<1>17. CASE ConfigureFails(w)
  BY <1>8, <1>17, ConfigureFailsDoes
<1> QED BY <1>5, <1>6, <1>9, <1>10, <1>11, <1>12, <1>14, <1>15, <1>16, <1>17 DEF SyncStep

LEMMA AloneStep == ASSUME WTypes, AloneInv, [WorkspaceNext]_workspaceVars PROVE AloneInv'
<1>1. ASSUME NEW w \in Workers, OtherStep(w) PROVE AloneInv'
  <2> SUFFICES ASSUME ~raced' PROVE AloneInv'
    BY DEF AloneInv
  <2>1. ~raced /\ NoBinders' /\ UNCHANGED folders
    BY <1>1, OtherAlone DEF OtherStep, binding
  <2>2. \A v \in Workers : ReadNow(v)'
    BY <2>1 DEF NoBinders, ReadNow, Binders
  <2>3. BindersAlone'
    BY <2>1 DEF NoBinders, BindersAlone
  <2>4. OneFolder'
    BY <2>1 DEF AloneInv, OneFolder
  <2> QED BY <2>2, <2>3, <2>4 DEF AloneInv
<1>2. CASE Quiet
  <2> SUFFICES ASSUME ~raced' PROVE AloneInv'
    BY DEF AloneInv
  <2>1. ~raced /\ UNCHANGED folders
    BY <1>2 DEF Quiet, binding
  <2>2. BindersAlone /\ OneFolder /\ \A v \in Workers : ReadNow(v)
    BY <2>1 DEF AloneInv
  <2>3. \A v \in Workers : /\ op'[v].kind \in Binders => op'[v] = op[v]
                           /\ op'[v] # Idle => op[v] # Idle
    <3>1. "scan" \notin Binders
      BY DEF Binders
    <3> QED BY <1>2, <3>1, IdleKind DEF Quiet, Stays
  <2>4. BindersAlone'
    BY <2>2, <2>3 DEF BindersAlone
  <2>5. \A v \in Workers : ReadNow(v)'
    BY <2>1, <2>2, <2>3 DEF ReadNow, Binders
  <2>6. OneFolder'
    BY <2>1, <2>2 DEF OneFolder
  <2> QED BY <2>4, <2>5, <2>6 DEF AloneInv
<1> QED BY <1>1, <1>2, SyncAlone, ScanOther, LibraryOther, QuietSteps DEF WorkspaceNext

-----------------------------------------------------------------------------
(* What Syncthing shares.  A configure shares the folder before its row says  *)
(* so and a stop unshares it before: the row, or the configure on its way to  *)
(* the row, knows of every folder that is shared.                             *)

Recorded(id) ==
    \/ \E f \in folders : f.id = id /\ f.sync
    \/ \E w \in Workers : op[w].kind = "configure" /\ op[w].pc = "folder" /\ op[w].folder.id = id /\ op[w].folder.sync
Stopped(w) == /\ op[w].kind = "stop" /\ op[w].pc = "folder" => op[w].folder.id \notin shared
              /\ op[w].kind = "unbind" /\ op[w].pc # "call" => shared = {}
Shares == (\A id \in shared : Recorded(id)) /\ \A w \in Workers : Stopped(w)
SharingInv == ~raced /\ "configure" \notin cut /\ ~kept => Shares

LEMMA SharingStart == WorkspaceInit => SharingInv
<1> SUFFICES ASSUME WorkspaceInit PROVE Shares
  BY DEF SharingInv
<1>1. \A w \in Workers : Stopped(w)
  BY IdleKind DEF WorkspaceInit, Stopped, Idle
<1>2. \A id \in shared : Recorded(id)
  <2>1. \/ shared = {}
        \/ folders = {[id |-> 2, project |-> 1, sync |-> TRUE]} /\ shared = {2}
    BY DEF WorkspaceInit
  <2>2. CASE folders = {[id |-> 2, project |-> 1, sync |-> TRUE]} /\ shared = {2}
    <3>1. PICK f : f = [id |-> 2, project |-> 1, sync |-> TRUE]
      OBVIOUS
    <3>2. f \in folders /\ f.id = 2 /\ f.sync
      BY <2>2, <3>1
    <3> QED BY <2>2, <3>2 DEF Recorded
  <2> QED BY <2>1, <2>2
<1> QED BY <1>1, <1>2 DEF Shares

\* While w's operation is the only one, only the rows and w record a folder.
LEMMA SoloShares ==
    ASSUME WTypes, NEW w \in Workers, Solo(w), Stopped(w)',
           \A id \in shared' : \/ \E f \in folders' : f.id = id /\ f.sync
                               \/ /\ op'[w].kind = "configure" /\ op'[w].pc = "folder"
                                  /\ op'[w].folder.id = id /\ op'[w].folder.sync
    PROVE  Shares'
<1>1. ASSUME NEW v \in Workers PROVE Stopped(v)'
  <2>1. v # w => op'[v].kind = "idle"
    BY IdleKind DEF Solo
  <2> QED BY <2>1 DEF Stopped
<1>2. \A id \in shared' : Recorded(id)'
  BY DEF Recorded
<1> QED BY <1>1, <1>2 DEF Shares

LEMMA SyncSharing == ASSUME WTypes, AloneInv, SharingInv, NEW w \in Workers, SyncStep(w) PROVE SharingInv'
<1> USE DEF binding, notes
<1> SUFFICES ASSUME ~raced', "configure" \notin cut', ~kept' PROVE Shares'
  BY DEF SharingInv
<1>1. Solo(w) /\ cut \subseteq cut'
  BY SyncSolo, SyncFrame
<1>2. OneFolder /\ ReadNow(w)
  BY <1>1 DEF AloneInv, Solo
<1>3. ASSUME ~kept
      PROVE  /\ Stopped(w)
             /\ \A id \in shared : \/ \E f \in folders : f.id = id /\ f.sync
                                   \/ /\ op[w].kind = "configure" /\ op[w].pc = "folder"
                                      /\ op[w].folder.id = id /\ op[w].folder.sync
  <2>1. Shares
    BY <1>1, <1>3 DEF SharingInv, Solo
  <2>2. \A v \in Workers \ {w} : op[v].kind = "idle"
    BY <1>1, IdleKind DEF Solo
  <2>3. \A id \in shared : Recorded(id)
    BY <2>1 DEF Shares
  <2>4. ASSUME NEW id \in shared
        PROVE  \/ \E f \in folders : f.id = id /\ f.sync
               \/ /\ op[w].kind = "configure" /\ op[w].pc = "folder"
                  /\ op[w].folder.id = id /\ op[w].folder.sync
    BY <2>2, <2>3 DEF Recorded
  <2> QED BY <2>1, <2>4 DEF Shares
<1>4. ASSUME UNCHANGED <<folders, shared, kept>>, ~(op[w].kind = "configure" /\ op[w].pc = "folder"),
             op'[w].kind = "stop" => op'[w].pc # "folder", op'[w].kind = "unbind" => op'[w].pc = "call"
      PROVE  Shares'
  <2>1. Stopped(w)'
    BY <1>4 DEF Stopped
  <2> QED BY <1>1, <1>3, <1>4, <2>1, SoloShares
<1>5. ASSUME UNCHANGED <<folders, kept>>, shared' \subseteq shared,
             ~(op[w].kind = "configure" /\ op[w].pc = "folder"), op'[w] = Idle
      PROVE  Shares'
  <2>1. op'[w].kind = "idle"
    BY <1>5, IdleKind
  <2>2. Stopped(w)'
    BY <2>1 DEF Stopped
  <2> QED BY <1>1, <1>3, <1>5, <2>2, SoloShares
<1>6. ASSUME NEW p \in projects \cup {NoRow}, NEW f \in folders \cup {NoRow}, BindStart(w, p, f) PROVE Shares'
  <2>1. op[w].kind = "idle"
    BY <1>6, BindStartDoes, IdleKind DEF BeginDoes
  <2> QED BY <1>4, <1>6, <2>1, BindStartDoes
<1>7. ASSUME NEW p \in projects \cup {NoRow}, NEW f \in folders \cup {NoRow}, NEW kind \in Binders,
             SyncStart(w, kind, p, f)
      PROVE  Shares'
  <2>1. op[w].kind = "idle"
    BY <1>7, SyncStartDoes, IdleKind DEF BeginDoes
  <2> QED BY <1>4, <1>7, <2>1, SyncStartDoes
<1>8. CASE ConfigureCall(w)
  <2>1. /\ op[w].kind = "configure" /\ op[w].pc = "call"
        /\ \/ CallGoes(w, TRUE) /\ shared' = shared \cup {op[w].folder.id}
           \/ op'[w] = Idle /\ UNCHANGED shared
        /\ UNCHANGED <<folders, kept>>
    BY <1>8, ConfigureCallDoes
  <2>2. CASE CallGoes(w, TRUE) /\ shared' = shared \cup {op[w].folder.id}
    <3>1. /\ op'[w].kind = "configure" /\ op'[w].pc = "folder" /\ op'[w].folder.id = op[w].folder.id
          /\ op'[w].folder.sync
      BY <2>1, <2>2 DEF CallGoes
    <3>2. Stopped(w)'
      BY <3>1 DEF Stopped
    <3> QED BY <1>1, <1>3, <2>1, <2>2, <3>1, <3>2, SoloShares
  <2> QED BY <1>5, <2>1, <2>2
<1>9. CASE StopCall(w)
  <2>1. /\ op[w].kind = "stop" /\ op[w].pc = "call" /\ op[w].folder \in FolderRow
        /\ \/ /\ CallGoes(w, FALSE)
              /\ shared' = IF op[w].folder.sync THEN shared \ {op[w].folder.id} ELSE shared
           \/ op'[w] = Idle /\ shared' \subseteq shared
        /\ UNCHANGED <<folders, kept>>
    BY <1>9, StopCallDoes
  <2>2. CASE /\ CallGoes(w, FALSE)
             /\ shared' = IF op[w].folder.sync THEN shared \ {op[w].folder.id} ELSE shared
    <3>1. op'[w].kind = "stop" /\ op'[w].folder.id = op[w].folder.id
      BY <2>1, <2>2 DEF CallGoes
    <3>2. \A id \in shared : \E f \in folders : f.id = id /\ f.sync
      BY <1>3, <2>1
    <3>3. \A f \in folders : f = op[w].folder
      BY <1>2, <2>1, NoRowAssumption DEF ReadNow, OneFolder
    <3>4. op[w].folder.id \notin shared'
      BY <2>2, <3>2, <3>3
    <3>5. Stopped(w)'
      BY <3>1, <3>4 DEF Stopped
    <3>6. shared' \subseteq shared
      BY <2>2
    <3> QED BY <1>1, <2>1, <3>2, <3>5, <3>6, SoloShares
  <2> QED BY <1>5, <2>1, <2>2
<1>10. CASE WriteFolder(w)
  <2>1. /\ op[w].kind \in Binders \ {"unbind"} /\ op[w].pc = "folder"
        /\ folders' = {g \in folders : g.id # op[w].folder.id} \cup {op[w].folder}
        /\ IF op[w].kind = "poll" \/ op[w].project = NoRow THEN op'[w] = Idle ELSE BinderGoes(w, "project")
        /\ UNCHANGED <<shared, kept>>
    BY <1>10, WriteFolderDoes
  <2>2. Stopped(w)'
    <3>1. op'[w] = Idle \/ (op'[w].kind = op[w].kind /\ op'[w].pc = "project")
      BY <2>1 DEF BinderGoes
    <3> QED BY <2>1, <3>1, IdleKind DEF Stopped
  <2>3. ASSUME NEW id \in shared PROVE op[w].folder.id = id /\ op[w].folder.sync
    <3>1. CASE op[w].kind = "configure" /\ op[w].folder.id = id /\ op[w].folder.sync
      BY <3>1
    <3>2. CASE \E f \in folders : f.id = id /\ f.sync
      <4>1. PICK f \in folders : f.id = id /\ f.sync
        BY <3>2
      <4>2. op[w].folder.id = id
        BY <1>2, <2>1, <4>1 DEF ReadNow
      <4>3. op[w].kind # "stop"
        BY <1>3, <2>1, <4>2 DEF Stopped
      <4> QED BY <1>2, <2>1, <4>1, <4>2, <4>3 DEF ReadNow, Binders
    <3> QED BY <1>3, <2>1, <3>1, <3>2
  <2>4. op[w].folder \in folders'
    BY <2>1
  <2> QED BY <1>1, <2>1, <2>2, <2>3, <2>4, SoloShares
<1>11. CASE WriteProject(w)
  BY <1>5, <1>11, WriteProjectDoes
<1>12. ASSUME shared' = {}, op'[w].kind = "stop" => FALSE PROVE Shares'
  <2>1. Stopped(w)'
    BY <1>12 DEF Stopped
  <2> QED BY <1>1, <1>12, <2>1, SoloShares
<1>13. ASSUME NEW localOnly \in BOOLEAN, UnbindCall(w, localOnly) PROVE Shares'
  <2>1. /\ op[w].kind = "unbind" /\ op[w].pc = "call" /\ kept' = (kept \/ localOnly)
        /\ \/ /\ BinderGoes(w, "index")
              /\ shared' = IF op[w].folder # NoRow /\ op[w].folder.sync /\ ~localOnly
                           THEN shared \ {op[w].folder.id} ELSE shared
           \/ op'[w] = Idle /\ shared' \subseteq shared
        /\ UNCHANGED folders
    BY <1>13, UnbindCallDoes
  <2>2. ~kept /\ ~localOnly
    BY <2>1
  <2>3. CASE op'[w] = Idle /\ shared' \subseteq shared
    <3>1. UNCHANGED kept
      BY <2>1, <2>2 DEF WTypes, DataTypes
    <3> QED BY <1>5, <2>1, <2>3, <3>1
  <2>4. CASE /\ BinderGoes(w, "index")
             /\ shared' = IF op[w].folder # NoRow /\ op[w].folder.sync /\ ~localOnly
                          THEN shared \ {op[w].folder.id} ELSE shared
    <3>1. \A id \in shared : \E f \in folders : f.id = id /\ f.sync
      BY <1>3, <2>1, <2>2
    <3>2. \A f \in folders : f = op[w].folder /\ f # NoRow
      BY <1>2, <2>1, NoRowAssumption DEF ReadNow, OneFolder, WTypes, DataTypes
    <3>3. shared' = {}
      BY <2>2, <2>4, <3>1, <3>2
    <3> QED BY <1>12, <2>1, <2>4, <3>3 DEF BinderGoes
  <2> QED BY <2>1, <2>3, <2>4
<1>14. ASSUME op[w].kind = "unbind", op[w].pc # "call", UNCHANGED <<shared, kept>>, op'[w].kind # "stop"
       PROVE  Shares'
  <2>1. shared = {}
    BY <1>3, <1>14 DEF Stopped
  <2> QED BY <1>12, <1>14, <2>1
<1>15. CASE UnbindIndex(w)
  BY <1>14, <1>15, UnbindRowsDoes DEF BinderGoes
<1>16. CASE UnbindLibrary(w)
  BY <1>14, <1>16, UnbindRowsDoes DEF BinderGoes
<1>17. CASE UnbindBinding(w)
  BY <1>14, <1>17, UnbindRowsDoes, IdleKind
<1>18. CASE ConfigureFails(w)
  <2>1. /\ op[w].kind = "configure" /\ op[w].pc = "call" /\ op[w].folder \in FolderRow /\ op'[w] = Idle
        /\ shared' = shared \cup {op[w].folder.id} /\ op[w].folder.sync /\ UNCHANGED <<folders, kept>>
    BY <1>18, ConfigureFailsDoes
  <2>2. op[w].folder \in folders
    BY <1>2, <2>1, NoRowAssumption DEF ReadNow
  <2>3. Stopped(w)'
    BY <2>1, IdleKind DEF Stopped
  <2>4. \A id \in shared' : \E f \in folders' : f.id = id /\ f.sync
    BY <1>3, <2>1, <2>2
  <2> QED BY <1>1, <2>3, <2>4, SoloShares
<1> QED BY <1>6, <1>7, <1>8, <1>9, <1>10, <1>11, <1>13, <1>15, <1>16, <1>17, <1>18 DEF SyncStep

LEMMA SharingStep ==
    ASSUME WTypes, AloneInv, SharingInv, [WorkspaceNext]_workspaceVars
    PROVE  SharingInv'
<1> USE DEF binding
<1>1. ASSUME NEW w \in Workers, OtherStep(w) PROVE SharingInv'
  <2> SUFFICES ASSUME ~raced', "configure" \notin cut', ~kept' PROVE Shares'
    BY DEF SharingInv
  <2>1. ~raced /\ NoBinders /\ NoBinders' /\ UNCHANGED <<folders, shared, cut, kept>>
    BY <1>1, OtherAlone DEF OtherStep
  <2>2. Shares
    BY <2>1 DEF SharingInv
  <2>3. \A id \in shared' : Recorded(id)'
    BY <2>1, <2>2 DEF Shares, Recorded, NoBinders, Binders
  <2>4. \A v \in Workers : Stopped(v)'
    BY <2>1 DEF Stopped, NoBinders, Binders
  <2> QED BY <2>3, <2>4 DEF Shares
<1>2. CASE Quiet
  <2> SUFFICES ASSUME ~raced', "configure" \notin cut', ~kept' PROVE Shares'
    BY DEF SharingInv
  <2>1. ~raced /\ "configure" \notin cut /\ ~kept /\ UNCHANGED <<folders, shared>>
    BY <1>2 DEF Quiet
  <2>2. Shares
    BY <2>1 DEF SharingInv
  <2>3. \A v \in Workers : op[v].kind = "configure" => op'[v] = op[v]
    BY <1>2 DEF Quiet, Stays, Unmended
  <2>4. \A v \in Workers : op'[v].kind \in {"stop", "unbind"} => op'[v] = op[v]
    BY <1>2, IdleKind DEF Quiet, Stays, Binders
  <2>5. \A id \in shared' : Recorded(id)'
    BY <2>1, <2>2, <2>3 DEF Shares, Recorded
  <2>6. \A v \in Workers : Stopped(v)'
    BY <2>1, <2>2, <2>4 DEF Shares, Stopped
  <2> QED BY <2>5, <2>6 DEF Shares
<1> QED BY <1>1, <1>2, SyncSharing, ScanOther, LibraryOther, QuietSteps DEF WorkspaceNext

\* SharedFoldersAreRecorded: a folder that Syncthing shares is one the profile
\* knows to be shared, whatever died or failed in the middle of a stop, a poll or
\* an unbind, as long as no configure failed after it had shared the folder
\* (SyncService.configure_syncthing_folder, stop_syncthing_folder,
\* unbind_group_project).
THEOREM SharedFoldersAreRecorded == WorkspaceSpec => []SharingIsRecorded
<1> DEFINE IInv == WTypes /\ AloneInv /\ SharingInv
<1>1. WorkspaceInit => IInv
  BY TypesStart, AloneStart, SharingStart
<1>2. IInv /\ [WorkspaceNext]_workspaceVars => IInv'
  BY TypesStep, AloneStep, SharingStep
<1>3. IInv => SharingIsRecorded
  BY DEF SharingInv, Shares, Recorded, SharingIsRecorded
<1> HIDE DEF IInv
<1> QED BY <1>1, <1>2, <1>3, PTL DEF WorkspaceSpec

-----------------------------------------------------------------------------
(* What an unbind leaves.  As long as no binding operation met another        *)
(* operation and no bind was cut off, the rows and the operations that read   *)
(* them are all of one project; when the folder is gone nothing is stored and *)
(* nothing is on its way to be stored.                                        *)

RowsOf(P) ==
    /\ projects \subseteq {P}
    /\ \A r \in folders : r.project = P
    /\ \A r \in index : r.project = P
    /\ \A r \in sources : r.project = P
    /\ \A r \in fts : r.project = P
OpOf(w, P) ==
    /\ op[w].kind \in Binders =>
          /\ op[w].project \in {P, NoRow}
          /\ op[w].folder # NoRow => op[w].project = P /\ op[w].folder.project = P
          /\ op[w].folder = NoRow => op[w].project = NoRow
    /\ op[w].kind = "scan" => op[w].project = P
    /\ op[w].kind = "build" => /\ \A r \in op[w].rows : r.project = P
                               /\ op[w].at # NoRow => op[w].at.row.project = P
Emptied == projects = {} /\ index = {} /\ sources = {} /\ fts = {}
\* What w may be at when the folder has no row.
Waits(w) ==
    /\ op[w].kind \notin {"scan", "configure", "stop", "poll"}
    /\ op[w].kind = "build" => op[w].rows = {} /\ op[w].at = NoRow
    /\ op[w].kind = "bind" => op[w].pc = "folder"
Unbound == folders = {} => Emptied /\ \A w \in Workers : Waits(w)
Bound == folders # {} => projects # {} \/ \E w \in Workers : op[w].kind = "bind" /\ op[w].pc = "project"
Unbinding(w) ==
    op[w].kind = "unbind" => /\ op[w].pc \in {"library", "binding"} => index = {}
                             /\ op[w].pc = "binding" => sources = {} /\ fts = {}
Tidy(P) == /\ RowsOf(P) /\ Unbound /\ Bound
            /\ \A w \in Workers : OpOf(w, P) /\ Unbinding(w)
CleanInv == ~raced /\ "bind" \notin cut => \E P \in Nat : Tidy(P)

LEMMA CleanStart == WorkspaceInit => CleanInv
<1> SUFFICES ASSUME WorkspaceInit PROVE Tidy(1)
  BY DEF CleanInv
<1>1. \A w \in Workers : op[w].kind = "idle"
  BY IdleKind DEF WorkspaceInit
<1>2. \A w \in Workers : OpOf(w, 1) /\ Unbinding(w) /\ Waits(w)
  BY <1>1 DEF OpOf, Unbinding, Waits, Binders
<1>3. CASE projects = {}
  <2>1. folders = {} /\ index = {} /\ sources = {} /\ fts = {}
    BY <1>3 DEF WorkspaceInit
  <2> QED BY <1>2, <1>3, <2>1 DEF Tidy, RowsOf, Unbound, Bound, Emptied
<1>4. CASE projects # {}
  <2>1. projects = {1} /\ folders = {[id |-> 2, project |-> 1, sync |-> TRUE]}
    BY <1>4 DEF WorkspaceInit
  <2>2. PICK number \in [Files -> 3 .. Cardinality(Files) + 2] :
          /\ index = {[file |-> f, project |-> 1, id |-> number[f], ver |-> 1,
                       exists |-> TRUE, seen |-> "old"] : f \in Files}
          /\ sources = {[id |-> number[f], sid |-> number[f], project |-> 1, ver |-> 1,
                         status |-> "indexed"] : f \in Files}
          /\ fts = {[sid |-> number[f], project |-> 1] : f \in Files}
    BY <1>4 DEF WorkspaceInit
  <2>3. \A r \in folders : r.project = 1
    BY <2>1
  <2>4. (\A r \in index : r.project = 1) /\ (\A r \in sources : r.project = 1) /\ \A r \in fts : r.project = 1
    BY <2>2
  <2>5. folders # {}
    BY <2>1
  <2> QED BY <1>2, <2>1, <2>3, <2>4, <2>5 DEF Tidy, RowsOf, Unbound, Bound
<1> QED BY <1>3, <1>4

\* After a step of the only operation there is.
LEMMA SoloClean ==
    ASSUME WTypes, NEW w \in Workers, Solo(w), NEW P \in Nat, RowsOf(P)', OpOf(w, P)', Unbinding(w)',
           folders' = {} => Emptied' /\ Waits(w)',
           folders' # {} => projects' # {} \/ (op'[w].kind = "bind" /\ op'[w].pc = "project")
    PROVE  CleanInv'
<1>1. \A v \in Workers \ {w} : op'[v].kind = "idle"
  BY IdleKind DEF Solo
<1>2. ASSUME NEW v \in Workers \ {w} PROVE OpOf(v, P)' /\ Unbinding(v)' /\ Waits(v)'
  BY <1>1, <1>2 DEF OpOf, Unbinding, Waits, Binders
<1>3. \A v \in Workers : OpOf(v, P)' /\ Unbinding(v)'
  BY <1>2
<1>4. folders' = {} => Emptied' /\ \A v \in Workers : Waits(v)'
  BY <1>2
<1>5. Bound'
  BY DEF Bound
<1>6. Unbound'
  BY <1>4 DEF Unbound
<1>7. Tidy(P)'
  BY <1>3, <1>5, <1>6 DEF Tidy
<1> QED BY <1>7 DEF CleanInv

LEMMA SyncClean == ASSUME WTypes, AloneInv, CleanInv, NEW w \in Workers, SyncStep(w) PROVE CleanInv'
<1> USE DEF binding, notes, library
<1> SUFFICES ASSUME ~raced', "bind" \notin cut' PROVE CleanInv'
  BY DEF CleanInv
<1>1. Solo(w) /\ ~raced /\ "bind" \notin cut
  BY SyncSolo, SyncFrame DEF Solo
<1>2. PICK P \in Nat : Tidy(P)
  BY <1>1 DEF CleanInv
<1>3. /\ RowsOf(P) /\ Unbound /\ OpOf(w, P) /\ Unbinding(w)
      /\ folders # {} => projects # {} \/ (op[w].kind = "bind" /\ op[w].pc = "project")
  <2>1. \A v \in Workers \ {w} : op[v].kind = "idle"
    BY <1>1, IdleKind DEF Solo
  <2> QED BY <1>2, <2>1 DEF Tidy, Bound
<1>4. NoRow \notin Nat /\ NoRow \notin FolderRow
  BY WorkspaceAssumption, NoRowAssumption DEF WorkspaceAssumption
<1>5. ASSUME UNCHANGED <<folders, projects, index, sources, fts>>, op'[w] = Idle, op[w].kind # "bind"
      PROVE  CleanInv'
  <2>1. op'[w].kind = "idle"
    BY <1>5, IdleKind
  <2>2. OpOf(w, P)' /\ Unbinding(w)' /\ Waits(w)'
    BY <2>1 DEF OpOf, Unbinding, Waits, Binders
  <2>3. RowsOf(P)' /\ (folders' = {} => Emptied') /\ (folders' # {} => projects' # {})
    BY <1>3, <1>5 DEF RowsOf, Unbound, Emptied
  <2> QED BY <1>1, <2>2, <2>3, SoloClean
<1>6. ASSUME NEW p \in projects \cup {NoRow}, NEW f \in folders \cup {NoRow}, BindStart(w, p, f) PROVE CleanInv'
  <2>1. /\ op[w] = Idle /\ op'[w].kind = "bind" /\ op'[w].pc = "folder"
        /\ op'[w].project = (IF p = NoRow THEN fresh ELSE p) /\ ReadProject(p) /\ ReadFolder(f)
        /\ op'[w].folder \in FolderRow /\ op'[w].folder.project = op'[w].project
        /\ UNCHANGED <<folders, projects, index, sources, fts>>
    BY <1>6, BindStartDoes DEF BeginDoes
  <2>2. Unbinding(w)' /\ Waits(w)'
    BY <2>1 DEF Unbinding, Waits
  <2>3. folders # {} => projects # {}
    BY <1>3, <2>1, IdleKind
  <2>4. (folders' = {} => Emptied') /\ (folders' # {} => projects' # {})
    BY <1>3, <2>1, <2>3 DEF Unbound, Emptied
  <2>5. CASE p = NoRow
    <3>1. projects = {} /\ folders = {}
      BY <1>4, <2>1, <2>3, <2>5 DEF ReadProject, WTypes, DataTypes
    <3>2. Emptied
      BY <1>3, <3>1 DEF Unbound
    <3>3. fresh \in Nat
      BY DEF WTypes, DataTypes
    <3>4. PICK Q \in Nat : Q = fresh
      BY <3>3
    <3>5. RowsOf(Q)'
      BY <2>1, <3>1, <3>2 DEF RowsOf, Emptied
    <3>6. OpOf(w, Q)'
      BY <1>4, <2>1, <2>5, <3>4 DEF OpOf
    <3> QED BY <1>1, <2>2, <2>4, <3>5, <3>6, SoloClean
  <2>6. CASE p # NoRow
    <3>1. p = P
      BY <1>3, <2>6 DEF RowsOf
    <3>2. RowsOf(P)'
      BY <1>3, <2>1 DEF RowsOf
    <3>3. OpOf(w, P)'
      BY <1>4, <2>1, <2>6, <3>1 DEF OpOf
    <3> QED BY <1>1, <2>2, <2>4, <3>2, <3>3, SoloClean
  <2> QED BY <2>5, <2>6
<1>7. ASSUME NEW p \in projects \cup {NoRow}, NEW f \in folders \cup {NoRow}, NEW kind \in Binders,
             SyncStart(w, kind, p, f)
      PROVE  CleanInv'
  <2>1. /\ op[w] = Idle /\ op'[w].kind = kind /\ kind # "bind"
        /\ op'[w].pc = (IF kind = "poll" THEN "folder" ELSE "call")
        /\ op'[w].project = p /\ op'[w].folder = f /\ ReadProject(p) /\ ReadFolder(f)
        /\ f = NoRow => kind = "unbind"
        /\ UNCHANGED <<folders, projects, index, sources, fts>>
    BY <1>7, SyncStartDoes DEF BeginDoes
  <2>2. folders # {} => projects # {}
    BY <1>3, <2>1, IdleKind
  <2>3. folders \subseteq FolderRow /\ projects \subseteq Nat
    BY DEF WTypes, DataTypes
  <2>4. folders = {} => f = NoRow /\ p = NoRow
    BY <1>3, <2>1 DEF ReadFolder, ReadProject, Unbound, Emptied
  <2>5. folders # {} => f \in folders /\ f # NoRow /\ p = P
    BY <1>3, <1>4, <2>1, <2>2, <2>3 DEF ReadFolder, ReadProject, RowsOf
  <2>6. OpOf(w, P)'
    <3>1. op'[w].kind \in Binders /\ op'[w].kind \notin {"scan", "build"}
      BY <2>1 DEF Binders
    <3>2. CASE folders = {}
      BY <2>1, <2>4, <3>1, <3>2 DEF OpOf
    <3>3. CASE folders # {}
      BY <1>3, <2>1, <2>5, <3>1, <3>3 DEF OpOf, RowsOf
    <3> QED BY <3>2, <3>3
  <2>7. Unbinding(w)'
    BY <2>1 DEF Unbinding
  <2>8. (folders' = {} => Emptied' /\ Waits(w)') /\ (folders' # {} => projects' # {})
    <3>1. folders' = {} => op'[w].kind = "unbind"
      BY <2>1, <2>4
    <3> QED BY <1>3, <2>1, <2>2, <3>1 DEF Unbound, Emptied, Waits
  <2>9. RowsOf(P)'
    BY <1>3, <2>1 DEF RowsOf
  <2> QED BY <1>1, <2>6, <2>7, <2>8, <2>9, SoloClean
<1>8. ASSUME NEW sync \in BOOLEAN, CallGoes(w, sync), op[w].kind \in {"configure", "stop"},
             op[w].folder \in FolderRow, UNCHANGED <<folders, projects, index, sources, fts>>
      PROVE  CleanInv'
  <2>1. op[w].project = P /\ op[w].folder.project = P
    BY <1>3, <1>4, <1>8 DEF OpOf, Binders
  <2>2. /\ op'[w].kind = op[w].kind /\ op'[w].project = P /\ op'[w].folder.project = P
        /\ op'[w].folder # NoRow
    BY <1>4, <1>8, <2>1 DEF CallGoes
  <2>3. OpOf(w, P)' /\ Unbinding(w)'
    BY <1>8, <2>2 DEF OpOf, Unbinding
  <2>4. folders # {} /\ projects # {}
    BY <1>3, <1>8 DEF Unbound, Waits
  <2>5. RowsOf(P)'
    BY <1>3, <1>8 DEF RowsOf
  <2> QED BY <1>1, <1>8, <2>3, <2>4, <2>5, SoloClean
<1>9. CASE ConfigureCall(w)
  BY <1>5, <1>8, <1>9, ConfigureCallDoes
<1>10. CASE StopCall(w)
  BY <1>5, <1>8, <1>10, StopCallDoes
<1>11. CASE WriteFolder(w)
  <2>1. /\ op[w].kind \in Binders \ {"unbind"} /\ op[w].pc = "folder" /\ op[w].folder \in FolderRow
        /\ folders' = {g \in folders : g.id # op[w].folder.id} \cup {op[w].folder}
        /\ IF op[w].kind = "poll" \/ op[w].project = NoRow THEN op'[w] = Idle ELSE BinderGoes(w, "project")
        /\ UNCHANGED <<projects, index, sources, fts>>
    BY <1>11, WriteFolderDoes
  <2>2. op[w].project = P /\ op[w].folder.project = P
    BY <1>3, <1>4, <2>1 DEF OpOf
  <2>3. RowsOf(P)' /\ folders' # {}
    BY <1>3, <2>1, <2>2 DEF RowsOf
  <2>4. op[w].kind # "bind" => projects # {}
    <3>1. op[w].kind # "bind" => op[w].kind \in {"configure", "stop", "poll"}
      BY <2>1 DEF Binders
    <3> QED BY <1>3, <3>1 DEF Unbound, Waits
  <2>5. P # NoRow
    BY <1>4
  <2>6. CASE op[w].kind = "poll"
    <3>1. op'[w].kind = "idle"
      BY <2>1, <2>6, IdleKind
    <3>2. OpOf(w, P)' /\ Unbinding(w)'
      BY <3>1 DEF OpOf, Unbinding, Binders
    <3> QED BY <1>1, <2>1, <2>3, <2>4, <2>6, <3>2, SoloClean
  <2>7. CASE op[w].kind # "poll"
    <3>1. /\ op'[w].kind = op[w].kind /\ op'[w].pc = "project" /\ op'[w].project = op[w].project
          /\ op'[w].folder = op[w].folder
      BY <2>1, <2>2, <2>5, <2>7 DEF BinderGoes
    <3>2. OpOf(w, P)' /\ Unbinding(w)'
      BY <1>3, <2>1, <3>1 DEF OpOf, Unbinding, Binders
    <3> QED BY <1>1, <2>1, <2>3, <2>4, <3>1, <3>2, SoloClean
  <2> QED BY <2>6, <2>7
<1>12. CASE WriteProject(w)
  <2>1. /\ op[w].kind \in Binders \ {"unbind"} /\ op[w].pc = "project"
        /\ op[w].project \in Nat /\ projects' = projects \cup {op[w].project} /\ op'[w] = Idle
        /\ UNCHANGED <<folders, index, sources, fts>>
    BY <1>12, WriteProjectDoes
  <2>2. op[w].project = P
    BY <1>3, <1>4, <2>1 DEF OpOf
  <2>3. folders # {}
    BY <1>3, <2>1 DEF Unbound, Waits, Binders
  <2>4. op'[w].kind = "idle"
    BY <2>1, IdleKind
  <2>5. OpOf(w, P)' /\ Unbinding(w)'
    BY <2>4 DEF OpOf, Unbinding, Binders
  <2>6. RowsOf(P)' /\ projects' # {}
    BY <1>3, <2>1, <2>2 DEF RowsOf
  <2> QED BY <1>1, <2>1, <2>3, <2>5, <2>6, SoloClean
<1>13. ASSUME NEW pc \in {"index", "library", "binding"}, BinderGoes(w, pc), op[w].kind = "unbind",
              UNCHANGED <<folders, projects>>, index' \subseteq index, sources' \subseteq sources, fts' \subseteq fts,
              pc \in {"library", "binding"} => index' = {}, pc = "binding" => sources' = {} /\ fts' = {}
       PROVE  CleanInv'
  <2>1. /\ op'[w].kind = "unbind" /\ op'[w].pc = pc /\ op'[w].project = op[w].project
        /\ op'[w].folder = op[w].folder
    BY <1>13 DEF BinderGoes
  <2>2. OpOf(w, P)'
    BY <1>3, <1>13, <2>1 DEF OpOf
  <2>3. Unbinding(w)' /\ Waits(w)'
    BY <1>13, <2>1 DEF Unbinding, Waits
  <2>4. RowsOf(P)'
    BY <1>3, <1>13 DEF RowsOf
  <2>5. (folders' = {} => Emptied') /\ (folders' # {} => projects' # {})
    BY <1>3, <1>13 DEF Unbound, Emptied
  <2> QED BY <1>1, <2>2, <2>3, <2>4, <2>5, SoloClean
<1>14. ASSUME NEW localOnly \in BOOLEAN, UnbindCall(w, localOnly) PROVE CleanInv'
  <2>1. /\ op[w].kind = "unbind" /\ (BinderGoes(w, "index") \/ op'[w] = Idle)
        /\ UNCHANGED <<projects, folders, index, sources, fts>>
    BY <1>14, UnbindCallDoes
  <2> QED BY <1>5, <1>13, <2>1
<1>15. op[w].kind = "unbind" => InScope(w, P)
  <2> SUFFICES ASSUME op[w].kind = "unbind" PROVE InScope(w, P)
    OBVIOUS
  <2>1. op[w].folder # NoRow => op[w].project = P
    BY <1>3 DEF OpOf, Binders
  <2>2. op[w].folder = NoRow => op[w].project = NoRow
    BY <1>3 DEF OpOf, Binders
  <2> QED BY <1>4, <2>1, <2>2 DEF InScope
<1>16. CASE UnbindIndex(w)
  <2>1. op[w].kind = "unbind" /\ BinderGoes(w, "library") /\ UNCHANGED <<projects, folders, sources, fts>>
    BY <1>16, UnbindRowsDoes
  <2>2. index' = {r \in index : ~InScope(w, r.project)}
    BY <1>16 DEF UnbindIndex
  <2>3. index' = {}
    BY <1>3, <1>15, <2>1, <2>2 DEF RowsOf
  <2> QED BY <1>13, <2>1, <2>3
<1>17. CASE UnbindLibrary(w)
  <2>1. /\ op[w].kind = "unbind" /\ op[w].pc = "library" /\ BinderGoes(w, "binding")
        /\ UNCHANGED <<projects, folders, index>>
    BY <1>17, UnbindRowsDoes
  <2>2. /\ sources' = sources \ {s \in sources : InScope(w, s.project)}
        /\ \A r \in fts' : r \in fts /\ ~InScope(w, r.project)
    BY <1>17 DEF UnbindLibrary
  <2>3. sources' = {} /\ fts' = {}
    BY <1>3, <1>15, <2>1, <2>2 DEF RowsOf
  <2>4. index' = {}
    BY <1>3, <2>1 DEF Unbinding
  <2> QED BY <1>13, <2>1, <2>3, <2>4
<1>18. CASE UnbindBinding(w)
  <2>1. /\ op[w].kind = "unbind" /\ op[w].pc = "binding" /\ op'[w] = Idle /\ projects' = {} /\ folders' = {}
        /\ UNCHANGED <<index, sources, fts>>
    BY <1>18, UnbindRowsDoes
  <2>2. Emptied'
    BY <1>3, <2>1 DEF Unbinding, Emptied
  <2>3. op'[w].kind = "idle"
    BY <2>1, IdleKind
  <2>4. OpOf(w, P)' /\ Unbinding(w)' /\ Waits(w)'
    BY <2>3 DEF OpOf, Unbinding, Waits, Binders
  <2>5. RowsOf(P)'
    BY <2>1, <2>2 DEF RowsOf, Emptied
  <2> QED BY <1>1, <2>1, <2>2, <2>4, <2>5, SoloClean
<1>19. CASE ConfigureFails(w)
  BY <1>5, <1>19, ConfigureFailsDoes
<1> QED BY <1>6, <1>7, <1>9, <1>10, <1>11, <1>12, <1>14, <1>16, <1>17, <1>18, <1>19 DEF SyncStep

\* After a step of another service: no binding operation runs.
LEMMA OtherClean ==
    ASSUME WTypes, NEW w \in Workers, OtherStep(w), NoBinders, NoBinders', NEW P \in Nat, Tidy(P),
           \A r \in index' : r.project = P, \A r \in sources' : r.project = P, \A r \in fts' : r.project = P,
           OpOf(w, P)', folders = {} => Emptied' /\ Waits(w)'
    PROVE  CleanInv'
<1>1. UNCHANGED <<projects, folders>>
  BY DEF OtherStep, binding
<1>2. RowsOf(P) /\ Unbound /\ Bound /\ \A v \in Workers : OpOf(v, P)
  BY DEF Tidy
<1>3. RowsOf(P)'
  BY <1>1, <1>2 DEF RowsOf
<1>4. ASSUME NEW v \in Workers \ {w}
      PROVE  OpOf(v, P)' /\ (folders = {} => Waits(v)')
  <2>1. /\ op'[v].kind = op[v].kind /\ op[v].kind \notin Binders
        /\ op[v].kind # "scan" => op'[v] = op[v]
        /\ op[v].kind = "scan" => op'[v].project = op[v].project
    BY DEF OtherStep, BeginDoes, OthersKeep, NoBinders
  <2>2. OpOf(v, P)'
    BY <1>2, <2>1 DEF OpOf
  <2>3. folders = {} => Waits(v)'
    <3>1. folders = {} => Waits(v)
      BY <1>2 DEF Unbound
    <3> QED BY <2>1, <3>1 DEF Waits
  <2> QED BY <2>2, <2>3
<1>5. Unbound'
  <2>1. folders = {} => \A v \in Workers : Waits(v)'
    BY <1>4
  <2> QED BY <1>1, <2>1 DEF Unbound
<1>6. Bound'
  <2>1. folders # {} => projects # {}
    BY <1>2 DEF Bound, NoBinders, Binders
  <2> QED BY <1>1, <2>1 DEF Bound
<1>7. \A v \in Workers : Unbinding(v)' /\ OpOf(v, P)'
  BY <1>4 DEF Unbinding, NoBinders, Binders
<1>8. Tidy(P)'
  BY <1>3, <1>5, <1>6, <1>7 DEF Tidy
<1> QED BY <1>8 DEF CleanInv

LEMMA ScanClean ==
    ASSUME WTypes, NEW w \in Workers, ScanStep(w), NoBinders, NoBinders', NEW P \in Nat, Tidy(P)
    PROVE  CleanInv'
<1>1. OtherStep(w) /\ UNCHANGED <<projects, folders, sources, fts>>
  BY ScanOther, ScanFrame DEF binding, library
<1>2. RowsOf(P) /\ OpOf(w, P) /\ (folders = {} => Emptied /\ Waits(w))
  BY DEF Tidy, Unbound
<1>3. (\A r \in sources' : r.project = P) /\ \A r \in fts' : r.project = P
  BY <1>1, <1>2 DEF RowsOf
<1>4. \A o \in ScanOps : o.kind = "scan"
  BY DEF ScanOps
<1>5. ASSUME op'[w] \in ScanOps, op'[w].project = P, folders # {}, \A r \in index' : r.project = P
      PROVE  CleanInv'
  <2>1. OpOf(w, P)'
    BY <1>4, <1>5 DEF OpOf, Binders
  <2> QED BY <1>1, <1>3, <1>5, <2>1, OtherClean
<1>6. op[w] \in ScanOps => folders # {} /\ op[w].project = P
  BY <1>2, <1>4 DEF OpOf, Waits
<1>7. ASSUME NEW p, \/ index' = {[r EXCEPT !.seen = IF @ = w THEN "old" ELSE @] : r \in index}
                    \/ index' = {[r EXCEPT !.exists = @ /\ ~(r.project = p /\ r.seen # w)] : r \in index}
      PROVE  \A r \in index' : r.project = P
  <2>1. DataTypes
    BY DEF WTypes
  <2>2. \A q \in index' : \E r \in index : q.project = r.project
    BY <1>7, <2>1, IndexRowsKept
  <2> QED BY <1>2, <2>2 DEF RowsOf
<1>8. ASSUME NEW f \in folders, ScanStart(w, f) PROVE CleanInv'
  <2>1. /\ op'[w] \in ScanOps /\ op'[w].project = f.project
        /\ index' = {[r EXCEPT !.seen = IF @ = w THEN "old" ELSE @] : r \in index}
    BY <1>8, ScanStartDoes
  <2>2. f.project = P
    BY <1>2 DEF RowsOf
  <2>3. \A r \in index' : r.project = P
    BY <1>7, <2>1
  <2> QED BY <1>5, <2>1, <2>2, <2>3
<1>9. ASSUME NEW f \in Files, IndexFile(w, f) PROVE CleanInv'
  <2>1. op[w] \in ScanOps /\ op'[w] \in ScanOps /\ op'[w].project = op[w].project
    BY <1>9, IndexFileDoes
  <2>2. \/ \A q \in index' : \/ q \in index \ SameRows(w, f)
                             \/ \E r \in SameRows(w, f) : q.project = r.project
        \/ \E new \in IndexRow : /\ new.project = op[w].project
                                 /\ index' = (index \ OldRows(w, f)) \cup {new}
    BY <1>9, IndexFileRows
  <2>3. SameRows(w, f) \subseteq index
    BY DEF SameRows, OldRows
  <2>4. \A r \in index : r.project = P
    BY <1>2 DEF RowsOf
  <2>5. \A r \in index' : r.project = P
    <3>1. CASE \A q \in index' : \/ q \in index \ SameRows(w, f)
                                 \/ \E r \in SameRows(w, f) : q.project = r.project
      BY <2>3, <2>4, <3>1
    <3>2. CASE \E new \in IndexRow : /\ new.project = op[w].project
                                     /\ index' = (index \ OldRows(w, f)) \cup {new}
      BY <1>6, <2>1, <2>4, <3>2
    <3> QED BY <2>2, <3>1, <3>2
  <2> QED BY <1>5, <1>6, <2>1, <2>5
<1>10. ASSUME NEW f \in Files, SkipFile(w, f) PROVE CleanInv'
  <2>1. /\ op[w] \in ScanOps /\ op'[w] \in ScanOps /\ op'[w].project = op[w].project
        /\ UNCHANGED index
    BY <1>10, SkipFileDoes DEF SkipFile
  <2> QED BY <1>2, <1>5, <1>6, <2>1 DEF RowsOf
<1>11. CASE MarkMissing(w)
  <2>1. /\ op[w] \in ScanOps /\ op'[w] \in ScanOps /\ op'[w].project = op[w].project
        /\ index' = {[r EXCEPT !.exists = @ /\ ~(r.project = op[w].project /\ r.seen # w)] : r \in index}
    BY <1>11, MarkMissingDoes
  <2>2. \A r \in index' : r.project = P
    BY <1>7, <2>1
  <2> QED BY <1>5, <1>6, <2>1, <2>2
<1>12. CASE FinishRun(w)
  <2>1. op'[w] = Idle /\ UNCHANGED index
    BY <1>12, EndDoes DEF FinishRun
  <2>2. op'[w].kind = "idle"
    BY <2>1, IdleKind
  <2>3. OpOf(w, P)' /\ Waits(w)'
    BY <2>2 DEF OpOf, Waits, Binders
  <2>4. folders = {} => Emptied'
    BY <1>1, <1>2, <2>1 DEF Emptied
  <2>5. \A r \in index' : r.project = P
    BY <1>2, <2>1 DEF RowsOf
  <2> QED BY <1>1, <1>3, <2>3, <2>4, <2>5, OtherClean
<1>13. CASE ScanFails(w) \/ \E f \in Files : PassOver(w, f)
  <2>1. ScanGoes(w) /\ UNCHANGED index
    BY <1>13, ScanFailsDoes, PassOverDoes
  <2> QED BY <1>2, <1>5, <1>6, <2>1 DEF RowsOf, ScanGoes
<1> QED BY <1>8, <1>9, <1>10, <1>11, <1>12, <1>13 DEF ScanStep

LEMMA LibraryClean ==
    ASSUME WTypes, NEW w \in Workers, LibraryStep(w), NoBinders, NoBinders', NEW P \in Nat, Tidy(P)
    PROVE  CleanInv'
<1> USE DEF binding, library, notes
<1>1. OtherStep(w) /\ UNCHANGED <<projects, folders>>
  BY LibraryOther DEF OtherStep
<1>2. RowsOf(P) /\ OpOf(w, P) /\ (folders = {} => Emptied /\ Waits(w))
  BY DEF Tidy, Unbound
<1>3. DataTypes
  BY DEF WTypes
<1>4. /\ \A o \in BuildOps : o.kind = "build"
      /\ \A o \in MarkOps : o.kind = "mark"
  BY DEF BuildOps, MarkOps
\* A step of a build that takes no row that was not there.
<1>5. ASSUME BuildGoes(w), UNCHANGED index, op'[w].rows \subseteq op[w].rows,
             op'[w].at # NoRow => \/ op'[w].at.row \in op[w].rows
                                  \/ op[w].at # NoRow /\ op'[w].at.row = op[w].at.row,
             \A s \in sources' : s.project = P, \A r \in fts' : r.project = P,
             op[w].at = NoRow /\ sources = {} => sources' = {},
             op[w].at = NoRow => fts' \subseteq fts
      PROVE  CleanInv'
  <2>1. op[w].kind = "build" /\ op'[w].kind = "build"
    BY <1>4, <1>5 DEF BuildGoes
  <2>2. OpOf(w, P)'
    BY <1>2, <1>5, <2>1 DEF OpOf, Binders
  <2>3. folders = {} => op[w].rows = {} /\ op[w].at = NoRow
    BY <1>2, <2>1 DEF Waits
  <2>4. folders = {} => Waits(w)'
    BY <1>5, <2>1, <2>3 DEF Waits
  <2>5. folders = {} => Emptied'
    BY <1>1, <1>2, <1>5, <2>3 DEF Emptied
  <2>6. \A r \in index' : r.project = P
    BY <1>2, <1>5 DEF RowsOf
  <2> QED BY <1>1, <1>5, <2>2, <2>4, <2>5, <2>6, OtherClean
\* A step to or from a mark, or the end of a build.
<1>6. ASSUME op'[w].kind \in {"mark", "idle"}, UNCHANGED index,
             \A s \in sources' : \E t \in sources : s.project = t.project, fts' \subseteq fts
      PROVE  CleanInv'
  <2>1. OpOf(w, P)' /\ Waits(w)'
    BY <1>6 DEF OpOf, Waits, Binders
  <2>2. folders = {} => Emptied'
    BY <1>1, <1>2, <1>6 DEF Emptied
  <2>3. (\A r \in index' : r.project = P) /\ (\A r \in sources' : r.project = P) /\ \A r \in fts' : r.project = P
    BY <1>2, <1>6 DEF RowsOf
  <2> QED BY <1>1, <2>1, <2>2, <2>3, OtherClean
<1>7. CASE BuildStart(w)
  <2>1. op'[w] \in BuildOps /\ op'[w].rows = index /\ op'[w].at = NoRow /\ UNCHANGED <<index, sources, fts>>
    BY <1>7, BuildStartDoes
  <2>2. op'[w].kind = "build"
    BY <1>4, <2>1
  <2>3. OpOf(w, P)'
    BY <1>2, <2>1, <2>2 DEF OpOf, RowsOf, Binders
  <2>4. folders = {} => Emptied' /\ Waits(w)'
    BY <1>1, <1>2, <2>1, <2>2 DEF Emptied, Waits
  <2>5. (\A r \in index' : r.project = P) /\ (\A r \in sources' : r.project = P) /\ \A r \in fts' : r.project = P
    BY <1>2, <2>1 DEF RowsOf
  <2> QED BY <1>1, <2>3, <2>4, <2>5, OtherClean
<1>8. (\A r \in sources : r.project = P) /\ \A r \in fts : r.project = P
  BY <1>2 DEF RowsOf
<1>9. CASE ReadSources(w)
  <2>1. /\ BuildGoes(w) /\ op'[w].rows = op[w].rows /\ op'[w].at = op[w].at
        /\ UNCHANGED <<index, sources, fts>>
    BY <1>9, ReadSourcesDoes
  <2> QED BY <1>5, <1>8, <2>1
<1>10. ASSUME BuildGoes(w), op[w].at # NoRow, op[w].at \in TakenRow,
              NEW status \in {"indexed", "skipped", "error", "missing"},
              Upsert(op[w].at.row, op[w].at.sid, status)
       PROVE  \A s \in sources' : s.project = P
  <2>1. op[w].at.row \in IndexRow /\ op[w].at.sid \in Nat
    BY <1>10 DEF TakenRow
  <2>2. op[w].at.row.project = P
    BY <1>2, <1>4, <1>10 DEF BuildGoes, OpOf
  <2> QED BY <1>3, <1>8, <1>10, <2>1, <2>2, UpsertDoes
<1>11. CASE WriteSource(w)
  <2>1. PICK status \in {"indexed", "skipped", "error", "missing"} :
          /\ Upsert(op[w].at.row, op[w].at.sid, status)
          /\ status # "indexed" => op'[w].at = NoRow
          /\ status = "indexed" => op'[w].at.row = op[w].at.row
    BY <1>11, WriteSourceDoes
  <2>2. /\ BuildGoes(w) /\ op[w].at # NoRow /\ op[w].at \in TakenRow /\ op'[w].rows = op[w].rows
        /\ UNCHANGED <<index, fts>>
    BY <1>11, WriteSourceDoes
  <2>3. \A s \in sources' : s.project = P
    BY <1>10, <2>1, <2>2
  <2> QED BY <1>5, <1>8, <2>1, <2>2, <2>3
<1>12. CASE InsertChunks(w)
  <2>1. /\ BuildGoes(w) /\ op[w].at # NoRow /\ op[w].at \in TakenRow /\ op'[w].rows = op[w].rows
        /\ op'[w].at = NoRow /\ UNCHANGED index
        /\ \/ Upsert(op[w].at.row, op[w].at.sid, "error") /\ UNCHANGED fts
           \/ /\ UNCHANGED sources
              /\ fts' = fts \cup {[sid |-> op[w].at.sid, project |-> op[w].at.row.project]}
    BY <1>12, InsertChunksDoes
  <2>2. op[w].at.row.project = P
    BY <1>2, <1>4, <2>1 DEF BuildGoes, OpOf
  <2>3. \A s \in sources' : s.project = P
    BY <1>8, <1>10, <2>1
  <2>4. \A r \in fts' : r.project = P
    BY <1>8, <2>1, <2>2
  <2> QED BY <1>5, <2>1, <2>3, <2>4
<1>13. CASE BuildEnd(w)
  <2>1. op'[w] = Idle /\ UNCHANGED <<index, sources, fts>>
    BY <1>13, EndDoes DEF BuildEnd
  <2> QED BY <1>6, <2>1, IdleKind
<1>14. CASE MarkWrite(w)
  <2>1. /\ op'[w] = Idle /\ UNCHANGED <<index, fts>>
        /\ Mark(op[w].source.sid, op[w].status) /\ op[w].status \in {"deleted_local", "pending"}
    BY <1>14, MarkWriteDoes
  <2>2. \A s \in sources' : \E t \in sources : s.project = t.project
    BY <1>3, <2>1, MarkDoes
  <2> QED BY <1>6, <2>1, <2>2, IdleKind
<1>15. ASSUME NEW row \in IF op[w].kind = "build" THEN op[w].rows ELSE {}, SkipRow(w, row) PROVE CleanInv'
  <2>1. /\ BuildGoes(w) /\ op'[w].rows = op[w].rows \ {row} /\ op'[w].at = op[w].at
        /\ UNCHANGED <<index, sources, fts>>
    BY <1>15, SkipRowDoes
  <2> QED BY <1>5, <1>8, <2>1
<1>16. ASSUME NEW row \in IF op[w].kind = "build" THEN op[w].rows ELSE {}, TakeRow(w, row) PROVE CleanInv'
  <2>1. op[w].kind = "build" /\ row \in op[w].rows
    BY <1>16
  <2>2. /\ BuildGoes(w) /\ op'[w].rows = op[w].rows \ {row} /\ op'[w].at.row = row
        /\ fts' \subseteq fts /\ UNCHANGED <<index, sources>>
    BY <1>16, <2>1, TakeRowDoes
  <2> QED BY <1>5, <1>8, <2>1, <2>2
<1>17. ASSUME NEW s \in IF op[w].kind = "build" THEN op[w].gone ELSE {}, DropGone(w, s) PROVE CleanInv'
  <2>1. op[w].kind = "build" /\ s \in op[w].gone
    BY <1>17
  <2>2. /\ BuildGoes(w) /\ op[w].rows = {} /\ op'[w].rows = {} /\ op'[w].at = NoRow /\ UNCHANGED index
        /\ fts' \subseteq fts /\ (UNCHANGED sources \/ Mark(s.sid, "missing"))
    BY <1>17, <2>1, DropGoneDoes
  <2>3. \A t \in sources' : \E r \in sources : t.project = r.project
    <3>1. CASE UNCHANGED sources
      BY <3>1
    <3>2. CASE Mark(s.sid, "missing")
      BY <1>3, <3>2, MarkDoes
    <3> QED BY <2>2, <3>1, <3>2
  <2> QED BY <1>5, <1>8, <2>2, <2>3
<1>18. ASSUME NEW s \in sources, NEW status \in {"deleted_local", Restored}, MarkStart(w, s, status)
       PROVE  CleanInv'
  <2>1. op'[w] \in MarkOps /\ fts' = {r \in fts : r.sid # s.sid} /\ UNCHANGED <<index, sources>>
    BY <1>18, MarkStartDoes
  <2> QED BY <1>4, <1>6, <2>1
<1> QED BY <1>7, <1>9, <1>11, <1>12, <1>13, <1>14, <1>15, <1>16, <1>17, <1>18 DEF LibraryStep

LEMMA CleanStep == ASSUME WTypes, AloneInv, CleanInv, [WorkspaceNext]_workspaceVars PROVE CleanInv'
<1> USE DEF binding, library
<1>1. ASSUME NEW w \in Workers, ScanStep(w) \/ LibraryStep(w) PROVE CleanInv'
  <2> SUFFICES ASSUME ~raced', "bind" \notin cut' PROVE CleanInv'
    BY DEF CleanInv
  <2>1. OtherStep(w)
    BY <1>1, ScanOther, LibraryOther
  <2>2. ~raced /\ NoBinders /\ NoBinders' /\ "bind" \notin cut
    BY <2>1, OtherAlone DEF OtherStep
  <2>3. PICK P \in Nat : Tidy(P)
    BY <2>2 DEF CleanInv
  <2> QED BY <1>1, <2>2, <2>3, ScanClean, LibraryClean
<1>2. ASSUME Quiet, UNCHANGED <<index, sources, fts>>,
             \A v \in Workers : op[v].kind = "scan" /\ op'[v] # Idle => op'[v].project = op[v].project
      PROVE  CleanInv'
  <2> SUFFICES ASSUME ~raced', "bind" \notin cut' PROVE CleanInv'
    BY DEF CleanInv
  <2>1. ~raced /\ "bind" \notin cut /\ UNCHANGED <<projects, folders>>
    BY <1>2 DEF Quiet
  <2>2. PICK P \in Nat : Tidy(P)
    BY <2>1 DEF CleanInv
  <2>3. RowsOf(P) /\ Unbound /\ Bound /\ \A v \in Workers : OpOf(v, P) /\ Unbinding(v)
    BY <2>2 DEF Tidy
  <2>4. ASSUME NEW v \in Workers
        PROVE  OpOf(v, P)' /\ Unbinding(v)' /\ (folders = {} => Waits(v)')
    <3>1. CASE op'[v] = op[v]
      BY <1>2, <2>1, <2>3, <3>1 DEF OpOf, Unbinding, Unbound, Waits
    <3>2. CASE op'[v] = Idle
      <4>1. op'[v].kind = "idle"
        BY <3>2, IdleKind
      <4> QED BY <4>1 DEF OpOf, Unbinding, Waits, Binders
    <3>3. CASE op[v].kind = "scan" /\ op'[v].kind = "scan"
      <4>1. op'[v].project = op[v].project /\ op'[v].kind = "scan"
        BY <1>2, <3>3, IdleKind
      <4>2. OpOf(v, P)' /\ Unbinding(v)'
        BY <2>3, <3>3, <4>1 DEF OpOf, Unbinding, Binders
      <4>3. folders # {}
        BY <2>3, <3>3 DEF Unbound, Waits
      <4> QED BY <4>2, <4>3
    <3> QED BY <1>2, <3>1, <3>2, <3>3 DEF Quiet, Stays
  <2>5. RowsOf(P)'
    BY <1>2, <2>1, <2>3 DEF RowsOf
  <2>6. Unbound'
    <3>1. folders = {} => \A v \in Workers : Waits(v)'
      BY <2>4
    <3>2. folders = {} => Emptied'
      BY <1>2, <2>1, <2>3 DEF Unbound, Emptied
    <3> QED BY <2>1, <3>1, <3>2 DEF Unbound
  <2>7. Bound'
    <3>1. \A v \in Workers : op[v].kind = "bind" => op'[v] = op[v]
      BY <1>2 DEF Quiet, Stays, Unmended
    <3> QED BY <2>1, <2>3, <3>1 DEF Bound
  <2>8. Tidy(P)'
    BY <2>4, <2>5, <2>6, <2>7 DEF Tidy
  <2> QED BY <2>8 DEF CleanInv
<1>3. ASSUME NEW w \in Workers, Die(w) PROVE CleanInv'
  <2>1. op'[w] = Idle /\ OthersKeep(w) /\ UNCHANGED <<index, sources, fts>>
    BY <1>3, DieDoes
  <2> QED BY <1>2, <1>3, <2>1, QuietSteps DEF OthersKeep
<1>4. ASSUME NEW f \in Files, NEW there \in BOOLEAN, Edit(f, there) PROVE CleanInv'
  <2>1. /\ \A v \in Workers : op[v].kind = "scan" => op'[v].project = op[v].project
        /\ UNCHANGED <<index, sources, fts>>
    BY <1>4, EditDoes
  <2> QED BY <1>2, <1>4, <2>1, QuietSteps
<1>5. CASE UNCHANGED workspaceVars
  <2>1. UNCHANGED <<op, index, sources, fts>>
    BY <1>5 DEF workspaceVars
  <2> QED BY <1>2, <1>5, <2>1, QuietSteps
<1> QED BY <1>1, <1>3, <1>4, <1>5, SyncClean DEF WorkspaceNext

\* UnbindsAreClean: when the binding is gone, after any number of unbinds cut
\* off and repeated, nothing of the project is left in the index and in the
\* library (SyncService.unbind_group_project), as long as no other operation
\* met a binding operation and no bind was cut off.
THEOREM UnbindsAreClean == WorkspaceSpec => []UnboundIsClean
<1> DEFINE IInv == WTypes /\ AloneInv /\ CleanInv
<1>1. WorkspaceInit => IInv
  BY TypesStart, AloneStart, CleanStart
<1>2. IInv /\ [WorkspaceNext]_workspaceVars => IInv'
  BY TypesStep, AloneStep, CleanStep
<1>3. IInv => UnboundIsClean
  BY DEF CleanInv, Tidy, Unbound, Emptied, UnboundIsClean
<1> HIDE DEF IInv
<1> QED BY <1>1, <1>2, <1>3, PTL DEF WorkspaceSpec

-----------------------------------------------------------------------------
(* The assistant, for any chats and any number of questions and tasks.  The   *)
(* conversation of a question is read when its thread runs, not when it was   *)
(* asked, and the launcher's commands change the same rows: the invariant is  *)
(* that everything that refers to a conversation refers to it for one chat.   *)

AskRecords ==
    [at : {"none", "start", "open", "question", "provider", "answer", "answered", "done"},
     by : {"panel", "launcher"}, chat : Chats \cup {NoChat}, conv : 0 .. MaxAsks,
     recent : SUBSET Chats, ok : BOOLEAN]

AssistantTypes ==
    /\ chat \in Chats \cup {NoChat} /\ conversation \in 0 .. MaxAsks
    /\ scope \in [Conversations -> Chats \cup {NoChat}]
    /\ said \in [Conversations -> SUBSET Chats]
    /\ asks \in [Conversations -> AskRecords]
    /\ crossed \in BOOLEAN /\ mixed \subseteq {"panel", "launcher"}
    /\ \A k \in Conversations :
          /\ asks[k].at \in {"question", "provider", "answer"} => asks[k].conv # 0
          /\ asks[k].at \notin {"none", "done"} => asks[k].chat # NoChat
          /\ asks[k].at = "start" => asks[k].by = "panel" /\ asks[k].conv = 0

\* The conversation a question would open was never used.
NotYetOpened(c) == asks[c].at = "none" \/ (asks[c].at \in {"start", "open"} /\ asks[c].conv = 0)
NewIsUnused ==
    \A c \in Conversations : NotYetOpened(c) =>
        /\ scope[c] = NoChat /\ said[c] = {} /\ conversation # c
        /\ \A k \in Conversations : asks[k].conv # c

\* The chats a conversation is referred to for: by its row, its messages, the
\* questions that go on in it, the panel.
Refers(c, x) ==
    \/ scope[c] = x \/ x \in said[c]
    \/ \E k \in Conversations : asks[k].conv = c /\ asks[k].chat = x
    \/ conversation = c /\ chat = x
OneChat == \A c \in Conversations, x, y \in Chats : Refers(c, x) /\ Refers(c, y) => x = y

\* A pending question of the panel is about the chat that is open.
PanelStays == \A k \in Conversations : Pending(k) => asks[k].chat = chat

RecentOfChat ==
    \A k \in Conversations : asks[k].at = "provider" => asks[k].recent \subseteq {asks[k].chat}

ContextInv ==
    /\ AssistantTypes /\ NewIsUnused
    /\ mixed = {} => OneChat /\ PanelStays /\ RecentOfChat /\ ~crossed

LEMMA ContextStart == AssistantInit => ContextInv
<1> SUFFICES ASSUME AssistantInit PROVE ContextInv
  OBVIOUS
<1>1. 0 \in 0 .. MaxAsks /\ NoChat \notin Chats /\ \A c \in Conversations : c # 0
  BY AssistantAssumption DEF AssistantAssumption, Conversations
<1>2. \A k \in Conversations : asks[k] = Unasked
  BY DEF AssistantInit
<1>3. Unasked \in AskRecords
  BY <1>1 DEF Unasked, AskRecords
<1>4. asks \in [Conversations -> AskRecords]
  BY <1>3 DEF AssistantInit
<1>5. AssistantTypes
  BY <1>1, <1>2, <1>4 DEF AssistantInit, AssistantTypes, Unasked
<1>6. NewIsUnused
  BY <1>1, <1>2 DEF AssistantInit, NewIsUnused, NotYetOpened, Unasked
<1>7. OneChat
  BY <1>1, <1>2 DEF AssistantInit, OneChat, Refers, Unasked
<1>8. PanelStays /\ RecentOfChat
  BY <1>2 DEF PanelStays, RecentOfChat, Pending, Unasked
<1> QED BY <1>5, <1>6, <1>7, <1>8 DEF ContextInv, AssistantInit

\* A step that adds no reference keeps OneChat.
LEMMA NoNewReference ==
    ASSUME OneChat, \A c \in Conversations, x \in Chats : Refers(c, x)' => Refers(c, x)
    PROVE  OneChat'
  BY DEF OneChat

\* What a step of question k may do to its own record, and to no other.
LEMMA OnlyAsk ==
    ASSUME AssistantTypes, NEW k \in Conversations, NEW record \in AskRecords,
           asks' = [asks EXCEPT ![k] = record]
    PROVE  /\ asks' \in [Conversations -> AskRecords] /\ asks'[k] = record
           /\ \A j \in Conversations \ {k} : asks'[j] = asks[j]
  BY DEF AssistantTypes

\* The panel's steps that leave the questions and what they are about alone.
LEMMA PanelOnly ==
    ASSUME ContextInv, UNCHANGED <<chat, conversation, asks, scope, said, crossed, mixed>>
    PROVE  ContextInv'
<1>1. AssistantTypes' /\ NewIsUnused'
  BY DEF ContextInv, AssistantTypes, NewIsUnused, NotYetOpened
<1>2. mixed' = mixed /\ crossed' = crossed
  OBVIOUS
<1>3. OneChat => OneChat'
  BY NoNewReference DEF Refers
<1>4. (PanelStays => PanelStays') /\ (RecentOfChat => RecentOfChat')
  BY DEF PanelStays, Pending, RecentOfChat
<1> QED BY <1>1, <1>2, <1>3, <1>4 DEF ContextInv

LEMMA SelectContext == ASSUME ContextInv, NEW c \in Chats, SelectChat(c) PROVE ContextInv'
<1>1. /\ chat' = c /\ conversation' = 0 /\ UNCHANGED <<asks, scope, said, crossed>>
      /\ mixed' = mixed \cup
            IF c # chat /\ \E k \in Conversations : Pending(k) THEN {"panel"} ELSE {}
  BY DEF SelectChat, AfterSelect
<1>2. \A d \in Conversations : d # 0
  BY DEF Conversations
<1>3. AssistantTypes' /\ NewIsUnused'
  BY <1>1, <1>2, AssistantAssumption
  DEF ContextInv, AssistantTypes, NewIsUnused, NotYetOpened, AssistantAssumption
<1>4. ASSUME mixed' = {} PROVE OneChat' /\ PanelStays' /\ RecentOfChat' /\ ~crossed'
  <2>1. mixed = {} /\ OneChat /\ PanelStays /\ RecentOfChat /\ ~crossed
    BY <1>1, <1>4 DEF ContextInv
  <2>2. OneChat'
    BY <1>1, <1>2, <2>1, NoNewReference DEF Refers
  <2>3. PanelStays'
    BY <1>1, <1>4, <2>1 DEF PanelStays, Pending
  <2> QED BY <1>1, <2>1, <2>2, <2>3 DEF RecentOfChat
<1> QED BY <1>3, <1>4 DEF ContextInv

\* The record of a question as it is asked, in the panel or by the launcher.
LEMMA NewQuestion ==
    ASSUME NEW r, NEW c, r = [Unasked EXCEPT !.at = "start", !.chat = c]
    PROVE  r = [at |-> "start", by |-> "panel", chat |-> c, conv |-> 0, recent |-> {}, ok |-> FALSE]
  BY DEF Unasked

LEMMA NewLauncherQuestion ==
    ASSUME NEW r, NEW g, NEW c,
           r = [Unasked EXCEPT !.at = "open", !.by = "launcher", !.chat = g, !.conv = c]
    PROVE  r = [at |-> "open", by |-> "launcher", chat |-> g, conv |-> c, recent |-> {}, ok |-> FALSE]
  BY DEF Unasked

\* A question asked is about the chat that is open.
LEMMA QuestionContext == ASSUME ContextInv, NEW k \in Conversations, AskQuestion(k) PROVE ContextInv'
<1>0. PICK record : /\ record = [Unasked EXCEPT !.at = "start", !.chat = chat]
                    /\ asks' = [asks EXCEPT ![k] = record]
  <2>1. asks[k] = Unasked /\ asks' = [asks EXCEPT ![k] = [asks[k] EXCEPT !.at = "start", !.chat = chat]]
    BY DEF AskQuestion
  <2> QED BY <2>1
<1>1. /\ asks' = [asks EXCEPT ![k] = record] /\ chat # NoChat /\ asks[k] = Unasked
      /\ UNCHANGED <<chat, conversation, scope, said, crossed, mixed>>
  BY <1>0 DEF AskQuestion
<1>2. record = [at |-> "start", by |-> "panel", chat |-> chat, conv |-> 0, recent |-> {}, ok |-> FALSE]
  BY <1>0, NewQuestion
<1>3. record \in AskRecords
  BY <1>2, AssistantAssumption DEF AskRecords, ContextInv, AssistantTypes, AssistantAssumption
<1>4. /\ asks' \in [Conversations -> AskRecords] /\ asks'[k] = record
      /\ \A j \in Conversations \ {k} : asks'[j] = asks[j]
  BY <1>1, <1>3, OnlyAsk DEF ContextInv
<1>5. AssistantTypes'
  BY <1>1, <1>2, <1>4 DEF ContextInv, AssistantTypes
<1>6. asks[k].at = "none" /\ asks[k].conv = 0 /\ \A d \in Conversations : d # 0
  BY <1>1 DEF Unasked, Conversations
<1>7. NewIsUnused'
  BY <1>1, <1>2, <1>4, <1>6 DEF ContextInv, NewIsUnused, NotYetOpened
<1>8. OneChat => OneChat'
  BY <1>1, <1>2, <1>4, <1>6, NoNewReference DEF Refers
<1>9. PanelStays => PanelStays'
  BY <1>1, <1>2, <1>4 DEF PanelStays, Pending
<1>10. RecentOfChat => RecentOfChat'
  BY <1>2, <1>4 DEF RecentOfChat
<1> QED BY <1>1, <1>5, <1>7, <1>8, <1>9, <1>10 DEF ContextInv

\* What a conversation is about is what it is referred to for.
LEMMA AboutRefers ==
    ASSUME AssistantTypes, NEW c \in Conversations
    PROVE  About(c) \subseteq Chats /\ \A x \in Chats : x \in About(c) <=> Refers(c, x)
<1>1. NoChat \notin Chats
  BY AssistantAssumption DEF AssistantAssumption
<1>2. \A k \in Conversations : asks[k].chat \in Chats \cup {NoChat}
  BY DEF AssistantTypes, AskRecords
<1> QED BY <1>1, <1>2 DEF About, Refers, AssistantTypes

\* The launcher asks in any conversation there is, or a new one.
LEMMA LauncherContext ==
    ASSUME ContextInv, NEW k \in Conversations, NEW c \in 0 .. MaxAsks, LauncherAsk(k, c)
    PROVE  ContextInv'
<1>1. PICK g \in GroupChats :
        /\ asks[k] = Unasked /\ (c # 0 => About(c) # {})
        /\ asks' = [asks EXCEPT ![k] = [@ EXCEPT !.at = "open", !.by = "launcher", !.chat = g, !.conv = c]]
        /\ mixed' = mixed \cup IF c # 0 /\ About(c) # {g} THEN {"launcher"} ELSE {}
        /\ UNCHANGED <<chat, conversation, scope, said, crossed>>
  BY DEF LauncherAsk
<1>2. PICK record : /\ record = [Unasked EXCEPT !.at = "open", !.by = "launcher", !.chat = g, !.conv = c]
                    /\ asks' = [asks EXCEPT ![k] = record]
  BY <1>1
<1>20. record = [at |-> "open", by |-> "launcher", chat |-> g, conv |-> c, recent |-> {}, ok |-> FALSE]
  BY <1>2, NewLauncherQuestion
<1>3. g \in Chats /\ g # NoChat
  BY AssistantAssumption DEF AssistantAssumption
<1>4. record \in AskRecords
  BY <1>3, <1>20 DEF AskRecords
<1>5. /\ asks' \in [Conversations -> AskRecords] /\ asks'[k] = record
      /\ \A j \in Conversations \ {k} : asks'[j] = asks[j]
  BY <1>2, <1>4, OnlyAsk DEF ContextInv
<1>6. UNCHANGED <<chat, conversation, scope, said, crossed>>
      /\ mixed \subseteq mixed' /\ mixed' \subseteq {"panel", "launcher"}
  BY <1>1 DEF ContextInv, AssistantTypes
<1>7. AssistantTypes'
  BY <1>3, <1>5, <1>6, <1>20 DEF ContextInv, AssistantTypes
<1>8. asks[k].at = "none" /\ asks[k].conv = 0 /\ \A d \in Conversations : d # 0
  BY <1>1 DEF Unasked, Conversations
<1>9. ASSUME NEW d \in Conversations, NotYetOpened(d) PROVE d # c
  <2>1. /\ scope[d] = NoChat /\ d # 0 /\ said[d] = {} /\ conversation # d
        /\ \A j \in Conversations : asks[j].conv # d
    BY <1>8, <1>9 DEF ContextInv, NewIsUnused
  <2>2. About(d) = {}
    BY <2>1 DEF About
  <2> QED BY <1>1, <2>1, <2>2
<1>10. \A d \in Conversations : NotYetOpened(d)' => NotYetOpened(d)
  BY <1>5, <1>8 DEF NotYetOpened
<1>11. NewIsUnused'
  BY <1>5, <1>6, <1>9, <1>10, <1>20 DEF ContextInv, NewIsUnused
<1>12. mixed' = {} /\ OneChat => OneChat'
  <2>1. ASSUME mixed' = {}, NEW d \in Conversations, NEW x \in Chats, Refers(d, x)' PROVE Refers(d, x)
    <3>1. asks'[k].chat = g /\ asks'[k].conv = c
      BY <1>5, <1>20
    <3>2. d # 0
      BY DEF Conversations
    <3>3. d = c => Refers(d, g)
      BY <1>1, <1>3, <2>1, <3>2, AboutRefers DEF ContextInv
    <3> QED BY <1>1, <1>5, <1>6, <2>1, <3>1, <3>2, <3>3 DEF Refers
  <2> QED BY <2>1, NoNewReference
<1>13. PanelStays => PanelStays'
  BY <1>5, <1>6, <1>20 DEF PanelStays, Pending
<1>14. RecentOfChat => RecentOfChat'
  BY <1>5, <1>20 DEF RecentOfChat
<1> QED BY <1>6, <1>7, <1>11, <1>12, <1>13, <1>14 DEF ContextInv

LEMMA FinishContext == ASSUME ContextInv, NEW k \in Conversations, FinishAsk(k) PROVE ContextInv'
<1>0. PICK record : /\ record = [Unasked EXCEPT !.at = "done"]
                    /\ asks' = [asks EXCEPT ![k] = record]
  BY DEF FinishAsk
<1>1. /\ asks[k].at = "answered" /\ asks' = [asks EXCEPT ![k] = record]
      /\ UNCHANGED <<chat, scope, said, crossed, mixed>>
  BY <1>0 DEF FinishAsk
<1>2. conversation' = conversation \/ (asks[k].by = "panel" /\ conversation' = asks[k].conv)
  BY DEF FinishAsk
<1>3. record = [at |-> "done", by |-> "panel", chat |-> NoChat, conv |-> 0, recent |-> {}, ok |-> FALSE]
  BY <1>0 DEF Unasked
<1>4. record \in AskRecords
  BY <1>3, AssistantAssumption DEF AskRecords, AssistantAssumption
<1>5. /\ asks' \in [Conversations -> AskRecords] /\ asks'[k] = record
      /\ \A j \in Conversations \ {k} : asks'[j] = asks[j]
  BY <1>1, <1>4, OnlyAsk DEF ContextInv
<1>6. asks[k].conv \in 0 .. MaxAsks
  BY DEF ContextInv, AssistantTypes, AskRecords
<1>7. AssistantTypes'
  BY <1>1, <1>2, <1>3, <1>5, <1>6 DEF ContextInv, AssistantTypes
<1>8. \A d \in Conversations : d # 0
  BY DEF Conversations
<1>9. NewIsUnused'
  BY <1>1, <1>2, <1>3, <1>5, <1>8 DEF ContextInv, NewIsUnused, NotYetOpened
<1>10. NoChat \notin Chats
  BY AssistantAssumption DEF AssistantAssumption
<1>11. OneChat /\ PanelStays => OneChat'
  <2>1. ASSUME PanelStays, NEW d \in Conversations, NEW x \in Chats, Refers(d, x)' PROVE Refers(d, x)
    <3>1. asks[k].by = "panel" => asks[k].chat = chat
      BY <1>1, <2>1 DEF PanelStays, Pending
    <3> QED BY <1>1, <1>2, <1>3, <1>5, <1>8, <2>1, <3>1 DEF Refers
  <2> QED BY <2>1, NoNewReference
<1>12. PanelStays => PanelStays'
  BY <1>1, <1>3, <1>5 DEF PanelStays, Pending
<1>13. RecentOfChat => RecentOfChat'
  BY <1>3, <1>5 DEF RecentOfChat
<1> QED BY <1>1, <1>7, <1>9, <1>11, <1>12, <1>13 DEF ContextInv

\* A question goes on in its conversation: its record changes, except the chat
\* it is about, and messages may be added to its conversation.
LEMMA AskGoesOn ==
    ASSUME ContextInv, NEW k \in Conversations, NEW record \in AskRecords,
           asks' = [asks EXCEPT ![k] = record], UNCHANGED <<panel, scope>>,
           record.by = asks[k].by, record.chat = asks[k].chat, record.conv = asks[k].conv,
           record.at \in {"question", "provider", "answer", "answered"},
           asks[k].at \in {"start", "open", "question", "provider", "answer"},
           record.at \in {"question", "provider", "answer"} => record.conv # 0,
           said' = said \/ (asks[k].conv # 0 /\ said' = [said EXCEPT ![asks[k].conv] = @ \cup {asks[k].chat}]),
           crossed' \in BOOLEAN,
           mixed = {} /\ OneChat /\ RecentOfChat => ~crossed' \/ crossed,
           mixed = {} /\ OneChat /\ record.at = "provider" => record.recent \subseteq {record.chat}
    PROVE  ContextInv'
<1>1. /\ asks' \in [Conversations -> AskRecords] /\ asks'[k] = record
      /\ \A j \in Conversations \ {k} : asks'[j] = asks[j]
  BY OnlyAsk DEF ContextInv
<1>2. UNCHANGED <<chat, conversation, mixed, scope>>
  BY DEF panel
<1>3. asks[k].conv \in 0 .. MaxAsks /\ asks[k].chat \in Chats
  BY DEF ContextInv, AssistantTypes, AskRecords
<1>4. asks[k].conv # 0 => asks[k].conv \in Conversations
  BY <1>3, AssistantAssumption DEF Conversations, AssistantAssumption
<1>5. said' \in [Conversations -> SUBSET Chats]
      /\ \A d \in Conversations : \/ said'[d] = said[d]
                                  \/ d = asks[k].conv /\ said'[d] = said[d] \cup {asks[k].chat}
  BY <1>3, <1>4 DEF ContextInv, AssistantTypes
<1>6. AssistantTypes'
  BY <1>1, <1>2, <1>5 DEF ContextInv, AssistantTypes
<1>7. \A d \in Conversations : NotYetOpened(d)' => NotYetOpened(d)
  BY <1>1 DEF NotYetOpened
<1>8. \A d \in Conversations : NotYetOpened(d)' => said'[d] = said[d]
  BY <1>5, <1>7 DEF ContextInv, NewIsUnused
<1>9. NewIsUnused'
  BY <1>1, <1>2, <1>7, <1>8 DEF ContextInv, NewIsUnused
<1>10. OneChat => OneChat'
  <2>1. ASSUME NEW d \in Conversations, NEW x \in Chats, Refers(d, x)' PROVE Refers(d, x)
    BY <1>1, <1>2, <1>5, <2>1 DEF Refers
  <2> QED BY <2>1, NoNewReference
<1>11. PanelStays => PanelStays'
  BY <1>1, <1>2 DEF PanelStays, Pending
<1>12. RecentOfChat /\ OneChat /\ mixed = {} => RecentOfChat'
  BY <1>1 DEF RecentOfChat
<1> QED BY <1>2, <1>6, <1>9, <1>10, <1>11, <1>12 DEF ContextInv

\* The records a question's own steps make.
LEMMA FailedRecord ==
    ASSUME NEW q \in AskRecords, NEW r, r = [q EXCEPT !.at = "answered", !.recent = {}]
    PROVE  /\ r \in AskRecords /\ r.at = "answered" /\ r.recent = {}
           /\ r.by = q.by /\ r.chat = q.chat /\ r.conv = q.conv
  BY DEF AskRecords

LEMMA AnsweredRecord ==
    ASSUME NEW q \in AskRecords, NEW r, r = [q EXCEPT !.at = "answered", !.recent = {}, !.ok = TRUE]
    PROVE  /\ r \in AskRecords /\ r.at = "answered" /\ r.recent = {}
           /\ r.by = q.by /\ r.chat = q.chat /\ r.conv = q.conv
  BY DEF AskRecords

LEMMA AnswerRecord ==
    ASSUME NEW q \in AskRecords, NEW r, r = [q EXCEPT !.at = "answer", !.recent = {}]
    PROVE  /\ r \in AskRecords /\ r.at = "answer" /\ r.recent = {}
           /\ r.by = q.by /\ r.chat = q.chat /\ r.conv = q.conv
  BY DEF AskRecords

LEMMA SaidRecord ==
    ASSUME NEW q \in AskRecords, NEW r, r = [q EXCEPT !.at = "answer"]
    PROVE  /\ r \in AskRecords /\ r.at = "answer"
           /\ r.by = q.by /\ r.chat = q.chat /\ r.conv = q.conv
  BY DEF AskRecords

LEMMA FailsContext ==
    ASSUME ContextInv, NEW k \in Conversations, Fails(k), UNCHANGED <<panel, scope, said, crossed>>,
           asks[k].at \in {"start", "open", "question", "provider", "answer"}
    PROVE  ContextInv'
<1>1. asks[k] \in AskRecords /\ crossed \in BOOLEAN
  BY DEF ContextInv, AssistantTypes
<1>2. PICK record : /\ record = [asks[k] EXCEPT !.at = "answered", !.recent = {}]
                    /\ asks' = [asks EXCEPT ![k] = record]
  BY DEF Fails
<1>3. /\ record \in AskRecords /\ record.at = "answered" /\ record.recent = {}
      /\ record.by = asks[k].by /\ record.chat = asks[k].chat /\ record.conv = asks[k].conv
  BY <1>1, <1>2, FailedRecord
<1> QED BY <1>1, <1>2, <1>3, AskGoesOn

\* The conversation is read now: it is the panel's, and so is the chat.
LEMMA StartContext == ASSUME ContextInv, NEW k \in Conversations, AskStart(k) PROVE ContextInv'
<1>1. asks[k].at = "start" /\ UNCHANGED <<panel, scope, said, crossed>>
  BY DEF AskStart
<1>2. CASE Fails(k)
  BY <1>1, <1>2, FailsContext
<1>3. CASE asks' = [asks EXCEPT ![k].at = "open", ![k].conv = conversation]
  <2>1. /\ asks[k] \in AskRecords /\ conversation \in 0 .. MaxAsks
        /\ asks[k].by = "panel" /\ asks[k].conv = 0 /\ asks[k].chat # NoChat
    BY <1>1 DEF ContextInv, AssistantTypes
  <2>2. PICK record : /\ record = [asks[k] EXCEPT !.at = "open", !.conv = conversation]
                      /\ asks' = [asks EXCEPT ![k] = record]
    BY <1>3
  <2>3. /\ record \in AskRecords /\ record.at = "open" /\ record.conv = conversation
        /\ record.by = asks[k].by /\ record.chat = asks[k].chat
    BY <2>1, <2>2 DEF AskRecords
  <2>4. /\ asks' \in [Conversations -> AskRecords] /\ asks'[k] = record
        /\ \A j \in Conversations \ {k} : asks'[j] = asks[j]
    BY <2>2, <2>3, OnlyAsk DEF ContextInv
  <2>5. UNCHANGED <<chat, conversation, mixed, scope, said, crossed>>
    BY <1>1 DEF panel
  <2>6. AssistantTypes'
    BY <2>1, <2>3, <2>4, <2>5 DEF ContextInv, AssistantTypes
  <2>7. \A d \in Conversations : NotYetOpened(d)' => NotYetOpened(d)
    BY <1>1, <2>1, <2>3, <2>4 DEF NotYetOpened
  <2>8. NewIsUnused'
    BY <2>3, <2>4, <2>5, <2>7 DEF ContextInv, NewIsUnused
  <2>9. PanelStays => asks[k].chat = chat
    BY <1>1, <2>1 DEF PanelStays, Pending
  <2>10. OneChat /\ PanelStays => OneChat'
    <3>1. ASSUME PanelStays, NEW d \in Conversations, NEW x \in Chats, Refers(d, x)' PROVE Refers(d, x)
      BY <2>3, <2>4, <2>5, <2>9, <3>1 DEF Refers
    <3> QED BY <3>1, NoNewReference
  <2>11. PanelStays => PanelStays'
    BY <1>1, <2>3, <2>4, <2>5 DEF PanelStays, Pending
  <2>12. RecentOfChat => RecentOfChat'
    BY <2>3, <2>4 DEF RecentOfChat
  <2> QED BY <2>5, <2>6, <2>8, <2>10, <2>11, <2>12 DEF ContextInv
<1> QED BY <1>2, <1>3 DEF AskStart

\* A conversation made for the question was used for nothing else.
LEMMA OpenContext == ASSUME ContextInv, NEW k \in Conversations, AskOpen(k) PROVE ContextInv'
<1> DEFINE c == IF asks[k].conv = 0 THEN k ELSE asks[k].conv
<1>1. /\ asks[k].at = "open" /\ UNCHANGED <<panel, said, crossed>>
      /\ scope' = [scope EXCEPT ![c] = IF @ = NoChat THEN asks[k].chat ELSE @]
  BY DEF AskOpen
<1>2. PICK record : /\ record = [asks[k] EXCEPT !.at = "question", !.conv = c]
                    /\ asks' = [asks EXCEPT ![k] = record]
  BY DEF AskOpen
<1>3. /\ asks[k] \in AskRecords /\ asks[k].conv \in 0 .. MaxAsks
      /\ asks[k].chat \in Chats /\ asks[k].chat # NoChat
  BY <1>1 DEF ContextInv, AssistantTypes, AskRecords
<1>4. c \in Conversations /\ c # 0 /\ c \in 0 .. MaxAsks
  BY <1>3, AssistantAssumption DEF Conversations, AssistantAssumption
<1> HIDE DEF c
<1>5. /\ record \in AskRecords /\ record.at = "question" /\ record.conv = c
      /\ record.by = asks[k].by /\ record.chat = asks[k].chat
  BY <1>2, <1>3, <1>4 DEF AskRecords
<1>6. /\ asks' \in [Conversations -> AskRecords] /\ asks'[k] = record
      /\ \A j \in Conversations \ {k} : asks'[j] = asks[j]
  BY <1>2, <1>5, OnlyAsk DEF ContextInv
<1>7. UNCHANGED <<chat, conversation, mixed, said, crossed>>
  BY <1>1 DEF panel
<1>8. /\ scope' \in [Conversations -> Chats \cup {NoChat}]
      /\ scope'[c] = IF scope[c] = NoChat THEN asks[k].chat ELSE scope[c]
      /\ \A d \in Conversations \ {c} : scope'[d] = scope[d]
  BY <1>1, <1>3, <1>4 DEF ContextInv, AssistantTypes
<1>9. AssistantTypes'
  BY <1>3, <1>4, <1>5, <1>6, <1>7, <1>8 DEF ContextInv, AssistantTypes
<1>10. asks[k].conv = 0 => NotYetOpened(k) /\ c = k
  BY <1>1 DEF NotYetOpened, c
<1>11. asks[k].conv # 0 => c = asks[k].conv
  BY DEF c
<1>12. \A d \in Conversations : NotYetOpened(d)' => NotYetOpened(d) /\ d # k
  BY <1>4, <1>5, <1>6 DEF NotYetOpened
<1>13. \A d \in Conversations : NotYetOpened(d)' => d # c
  BY <1>10, <1>11, <1>12 DEF ContextInv, NewIsUnused
<1>14. NewIsUnused'
  BY <1>5, <1>6, <1>7, <1>8, <1>12, <1>13 DEF ContextInv, NewIsUnused
<1>15. OneChat => OneChat'
  <2>1. CASE asks[k].conv = 0
    <3>1. ASSUME NEW x \in Chats, Refers(k, x)' PROVE x = asks[k].chat
      <4>1. /\ scope[k] = NoChat /\ said[k] = {} /\ conversation # k
            /\ \A j \in Conversations : asks[j].conv # k
        BY <1>10, <2>1 DEF ContextInv, NewIsUnused
      <4> QED BY <1>5, <1>6, <1>7, <1>8, <1>10, <2>1, <3>1, <4>1 DEF Refers
    <3>2. ASSUME NEW d \in Conversations, d # k, NEW x \in Chats, Refers(d, x)' PROVE Refers(d, x)
      BY <1>5, <1>6, <1>7, <1>8, <1>10, <2>1, <3>2 DEF Refers
    <3> QED BY <3>1, <3>2 DEF OneChat
  <2>2. CASE asks[k].conv # 0
    <3>1. ASSUME NEW d \in Conversations, NEW x \in Chats, Refers(d, x)' PROVE Refers(d, x)
      BY <1>5, <1>6, <1>7, <1>8, <1>11, <2>2, <3>1 DEF Refers
    <3> QED BY <3>1, NoNewReference
  <2> QED BY <2>1, <2>2
<1>16. PanelStays => PanelStays'
  BY <1>1, <1>5, <1>6, <1>7 DEF PanelStays, Pending
<1>17. RecentOfChat => RecentOfChat'
  BY <1>5, <1>6 DEF RecentOfChat
<1> QED BY <1>7, <1>9, <1>14, <1>15, <1>16, <1>17 DEF ContextInv

LEMMA SayContext == ASSUME ContextInv, NEW k \in Conversations, AskSay(k) PROVE ContextInv'
<1>1. /\ asks[k].at = "question" /\ UNCHANGED <<panel, scope, crossed>>
      /\ said' = [said EXCEPT ![asks[k].conv] = @ \cup {asks[k].chat}]
  BY DEF AskSay, AddMessage
<1>2. /\ asks[k] \in AskRecords /\ asks[k].conv \in 0 .. MaxAsks /\ asks[k].conv # 0
      /\ asks[k].chat \in Chats /\ crossed \in BOOLEAN
  BY <1>1 DEF ContextInv, AssistantTypes, AskRecords
<1>3. asks[k].conv \in Conversations /\ said[asks[k].conv] \subseteq Chats
  BY <1>2, AssistantAssumption DEF Conversations, AssistantAssumption, ContextInv, AssistantTypes
<1>4. CASE asks' = [asks EXCEPT ![k].at = "provider", ![k].recent = Recent(asks[k].conv)]
  <2>1. PICK record : /\ record = [asks[k] EXCEPT !.at = "provider", !.recent = said[asks[k].conv]]
                      /\ asks' = [asks EXCEPT ![k] = record]
    BY <1>4 DEF Recent
  <2>2. /\ record \in AskRecords /\ record.at = "provider" /\ record.recent = said[asks[k].conv]
        /\ record.by = asks[k].by /\ record.chat = asks[k].chat /\ record.conv = asks[k].conv
    BY <1>2, <1>3, <2>1 DEF AskRecords
  <2>3. OneChat => said[asks[k].conv] \subseteq {asks[k].chat}
    <3>1. Refers(asks[k].conv, asks[k].chat)
      BY DEF Refers
    <3>2. \A x \in said[asks[k].conv] : Refers(asks[k].conv, x)
      BY DEF Refers
    <3> QED BY <1>2, <1>3, <3>1, <3>2 DEF OneChat
  <2> QED BY <1>1, <1>2, <2>1, <2>2, <2>3, AskGoesOn
<1>5. CASE NowAt(k, "answer")
  <2>1. PICK record : /\ record = [asks[k] EXCEPT !.at = "answer"]
                      /\ asks' = [asks EXCEPT ![k] = record]
    BY <1>5 DEF NowAt
  <2>2. /\ record \in AskRecords /\ record.at = "answer"
        /\ record.by = asks[k].by /\ record.chat = asks[k].chat /\ record.conv = asks[k].conv
    BY <1>2, <2>1, SaidRecord
  <2> QED BY <1>1, <1>2, <2>1, <2>2, AskGoesOn
<1> QED BY <1>4, <1>5 DEF AskSay

LEMMA ProviderContext == ASSUME ContextInv, NEW k \in Conversations, AskProvider(k) PROVE ContextInv'
<1>1. asks[k].at = "provider" /\ UNCHANGED <<panel, scope, said>>
  BY DEF AskProvider
<1>2. /\ asks[k] \in AskRecords /\ asks[k].conv # 0 /\ crossed \in BOOLEAN
  BY <1>1 DEF ContextInv, AssistantTypes
<1>3. CASE Fails(k) /\ UNCHANGED crossed
  BY <1>1, <1>3, FailsContext
<1>4. CASE /\ crossed' = (crossed \/ Prompt(k) # {asks[k].chat})
           /\ Fails(k) \/ asks' = [asks EXCEPT ![k].at = "answer", ![k].recent = {}]
  <2>1. RecentOfChat => Prompt(k) = {asks[k].chat}
    BY <1>1 DEF RecentOfChat, Prompt, Context
  <2>2. crossed' \in BOOLEAN /\ (RecentOfChat => ~crossed' \/ crossed)
    BY <1>2, <1>4, <2>1
  <2>3. PICK record \in AskRecords :
          /\ asks' = [asks EXCEPT ![k] = record] /\ record.at \in {"answer", "answered"}
          /\ record.by = asks[k].by /\ record.chat = asks[k].chat /\ record.conv = asks[k].conv
    <3>1. CASE Fails(k)
      <4>1. PICK record : /\ record = [asks[k] EXCEPT !.at = "answered", !.recent = {}]
                          /\ asks' = [asks EXCEPT ![k] = record]
        BY <3>1 DEF Fails
      <4> QED BY <1>2, <4>1, FailedRecord
    <3>2. CASE asks' = [asks EXCEPT ![k].at = "answer", ![k].recent = {}]
      <4>1. PICK record : /\ record = [asks[k] EXCEPT !.at = "answer", !.recent = {}]
                          /\ asks' = [asks EXCEPT ![k] = record]
        BY <3>2
      <4> QED BY <1>2, <4>1, AnswerRecord
    <3> QED BY <1>4, <3>1, <3>2
  <2> QED BY <1>1, <1>2, <2>2, <2>3, AskGoesOn
<1> QED BY <1>3, <1>4 DEF AskProvider

LEMMA AnswerContext == ASSUME ContextInv, NEW k \in Conversations, AskAnswer(k) PROVE ContextInv'
<1>1. /\ asks[k].at = "answer" /\ UNCHANGED <<panel, scope, crossed>>
      /\ said' = [said EXCEPT ![asks[k].conv] = @ \cup {asks[k].chat}]
  BY DEF AskAnswer, AddMessage
<1>2. asks[k] \in AskRecords /\ asks[k].conv # 0 /\ crossed \in BOOLEAN
  BY <1>1 DEF ContextInv, AssistantTypes
<1>3. PICK record : /\ record = [asks[k] EXCEPT !.at = "answered", !.recent = {}, !.ok = TRUE]
                    /\ asks' = [asks EXCEPT ![k] = record]
  BY DEF AskAnswer
<1>4. /\ record \in AskRecords /\ record.at = "answered"
      /\ record.by = asks[k].by /\ record.chat = asks[k].chat /\ record.conv = asks[k].conv
  BY <1>2, <1>3, AnsweredRecord
<1> QED BY <1>1, <1>2, <1>3, <1>4, AskGoesOn

\* Clearing and deleting take references away.
LEMMA RemovedContext ==
    ASSUME ContextInv, NEW c \in Conversations, LauncherClear(c) \/ LauncherDelete(c)
    PROVE  ContextInv'
<1>1. UNCHANGED <<chat, conversation, mixed, asks, crossed>>
  BY DEF LauncherClear, LauncherDelete, panel
<1>2. /\ scope' \in [Conversations -> Chats \cup {NoChat}] /\ said' \in [Conversations -> SUBSET Chats]
      /\ \A d \in Conversations : (scope'[d] = scope[d] \/ scope'[d] = NoChat)
                               /\ (said'[d] = said[d] \/ said'[d] = {})
  BY DEF LauncherClear, LauncherDelete, ContextInv, AssistantTypes
<1>3. AssistantTypes'
  BY <1>1, <1>2 DEF ContextInv, AssistantTypes
<1>4. NewIsUnused'
  BY <1>1, <1>2 DEF ContextInv, NewIsUnused, NotYetOpened
<1>5. NoChat \notin Chats
  BY AssistantAssumption DEF AssistantAssumption
<1>6. OneChat => OneChat'
  BY <1>1, <1>2, <1>5, NoNewReference DEF Refers
<1>7. (PanelStays => PanelStays') /\ (RecentOfChat => RecentOfChat')
  BY <1>1 DEF PanelStays, Pending, RecentOfChat
<1> QED BY <1>1, <1>3, <1>4, <1>6, <1>7 DEF ContextInv

LEMMA ContextStep == ASSUME ContextInv, [AssistantNext]_assistantVars PROVE ContextInv'
<1>1. CASE UNCHANGED assistantVars
  BY <1>1, PanelOnly DEF assistantVars
<1>2. CASE FinishRead \/ FinishWrite \/ SearchSources \/ StartWrite
  BY <1>2, PanelOnly DEF FinishRead, FinishWrite, SearchSources, StartWrite
<1>3. ASSUME NEW c \in Chats, SelectChat(c) PROVE ContextInv'
  BY <1>3, SelectContext
<1>4. ASSUME NEW k \in Conversations, AskStep(k) PROVE ContextInv'
  BY <1>4, StartContext, OpenContext, SayContext, ProviderContext, AnswerContext, FinishContext
  DEF AskStep
<1>5. ASSUME NEW k \in Conversations, AskQuestion(k) PROVE ContextInv'
  BY <1>5, QuestionContext
<1>6. ASSUME NEW k \in Conversations, NEW c \in 0 .. MaxAsks, LauncherAsk(k, c) PROVE ContextInv'
  BY <1>6, LauncherContext
<1>7. ASSUME NEW c \in Conversations, LauncherClear(c) \/ LauncherDelete(c) PROVE ContextInv'
  BY <1>7, RemovedContext
<1> QED BY <1>1, <1>2, <1>3, <1>4, <1>5, <1>6, <1>7 DEF AssistantNext, TaskStep

LEMMA ContextAlways == AssistantSpec => []ContextInv
<1>1. ContextInv /\ [AssistantNext]_assistantVars => ContextInv'
  BY ContextStep
<1> QED BY <1>1, ContextStart, PTL DEF AssistantSpec

\* A write that ends may start two reads: room for them is kept from its start.
TasksHaveRoom == reads \in Nat /\ writes \in Nat /\ reads + 2 * writes <= MaxReads

LEMMA TasksStep == TasksHaveRoom /\ [AssistantNext]_assistantVars => TasksHaveRoom'
<1> SUFFICES ASSUME TasksHaveRoom, [AssistantNext]_assistantVars PROVE TasksHaveRoom'
  OBVIOUS
<1> USE DEF TasksHaveRoom
<1>1. MaxReads \in Nat
  BY AssistantAssumption DEF AssistantAssumption
<1>2. CASE UNCHANGED <<reads, writes>>
  BY <1>2
<1>3. CASE FinishRead
  <2>1. reads > 0 /\ reads' = reads - 1 /\ writes' = writes
    BY <1>3 DEF FinishRead
  <2> QED BY <1>1, <2>1
<1>4. CASE FinishWrite
  <2>1. PICK more \in 0 .. 2 : reads' = reads + more
    BY <1>4 DEF FinishWrite
  <2>2. writes > 0 /\ writes' = writes - 1
    BY <1>4 DEF FinishWrite
  <2> QED BY <1>1, <2>1, <2>2
<1>5. CASE SearchSources
  <2>1. Room(1) /\ reads' = reads + 1 /\ writes' = writes
    BY <1>5 DEF SearchSources
  <2> QED BY <1>1, <2>1 DEF Room
<1>6. CASE StartWrite
  <2>1. Room(2) /\ reads' = reads /\ writes' = writes + 1
    BY <1>6 DEF StartWrite
  <2> QED BY <1>1, <2>1 DEF Room
<1>7. ASSUME NEW c \in Chats, SelectChat(c) PROVE TasksHaveRoom'
  <2>1. reads' = reads \/ (Room(2) /\ reads' = reads + 2)
    BY <1>7 DEF SelectChat, Refresh
  <2>2. writes' = writes
    BY <1>7 DEF SelectChat
  <2> QED BY <1>1, <2>1, <2>2 DEF Room
<1>8. ASSUME NEW k \in Conversations, AskStep(k) PROVE UNCHANGED <<reads, writes>>
  BY <1>8 DEF AskStep, AskStart, AskOpen, AskSay, AskProvider, AskAnswer, FinishAsk, panel
<1>9. ASSUME NEW k \in Conversations, AskQuestion(k) \/ \E c \in 0 .. MaxAsks : LauncherAsk(k, c)
      PROVE  UNCHANGED <<reads, writes>>
  BY <1>9 DEF AskQuestion, LauncherAsk, panel
<1>10. ASSUME NEW c \in Conversations, LauncherClear(c) \/ LauncherDelete(c)
       PROVE  UNCHANGED <<reads, writes>>
  BY <1>10 DEF LauncherClear, LauncherDelete, panel
<1>11. CASE UNCHANGED assistantVars
  BY <1>2, <1>11 DEF assistantVars
<1>12. UNCHANGED <<reads, writes>> => TasksHaveRoom'
  BY <1>2
<1> HIDE DEF TasksHaveRoom
<1> QED
  BY <1>3, <1>4, <1>5, <1>6, <1>7, <1>8, <1>9, <1>10, <1>11, <1>12 DEF AssistantNext, TaskStep

LEMMA TaskFlagStep ==
    taskRunning \in BOOLEAN /\ [AssistantNext]_assistantVars => (taskRunning \in BOOLEAN)'
<1> SUFFICES ASSUME taskRunning \in BOOLEAN, [AssistantNext]_assistantVars PROVE taskRunning' \in BOOLEAN
  OBVIOUS
<1>1. ASSUME NEW more, taskRunning' = (more # 0) PROVE taskRunning' \in BOOLEAN
  BY <1>1, Zenon
<1>2. CASE FinishWrite
  BY <1>1, <1>2, Zenon DEF FinishWrite
<1>3. CASE FinishRead \/ SearchSources \/ StartWrite
  BY <1>3 DEF FinishRead, SearchSources, StartWrite
<1>4. ASSUME NEW c \in Chats, SelectChat(c) PROVE taskRunning' \in BOOLEAN
  BY <1>4 DEF SelectChat, Refresh
<1>5. ASSUME NEW k \in Conversations, AskStep(k) PROVE taskRunning' \in BOOLEAN
  BY <1>5 DEF AskStep, AskStart, AskOpen, AskSay, AskProvider, AskAnswer, FinishAsk, panel
<1>6. ASSUME NEW k \in Conversations, AskQuestion(k) \/ \E c \in 0 .. MaxAsks : LauncherAsk(k, c)
      PROVE  taskRunning' \in BOOLEAN
  BY <1>6 DEF AskQuestion, LauncherAsk, panel
<1>7. ASSUME NEW c \in Conversations, LauncherClear(c) \/ LauncherDelete(c)
      PROVE  taskRunning' \in BOOLEAN
  BY <1>7 DEF LauncherClear, LauncherDelete, panel
<1>8. CASE UNCHANGED assistantVars
  BY <1>8 DEF assistantVars
<1> QED BY <1>2, <1>3, <1>4, <1>5, <1>6, <1>7, <1>8, Zenon DEF AssistantNext, TaskStep

\* The assistant's state has its types and its tasks stay within their bound,
\* the reads a finished build, deletion or restore starts included.
THEOREM AssistantTypeCorrect == AssistantSpec => []AssistantTypeOK
<1>1. AssistantInit => TasksHaveRoom /\ taskRunning \in BOOLEAN
  <2> SUFFICES ASSUME AssistantInit PROVE TasksHaveRoom /\ taskRunning \in BOOLEAN
    OBVIOUS
  <2>1. TasksHaveRoom
    BY AssistantAssumption DEF AssistantAssumption, AssistantInit, TasksHaveRoom
  <2>2. taskRunning \in BOOLEAN
    BY DEF AssistantInit
  <2> QED BY <2>1, <2>2
<1>2. AssistantSpec => [](TasksHaveRoom /\ taskRunning \in BOOLEAN)
  BY <1>1, TasksStep, TaskFlagStep, PTL DEF AssistantSpec
<1>3. ContextInv /\ TasksHaveRoom /\ taskRunning \in BOOLEAN => AssistantTypeOK
  <2> SUFFICES ASSUME ContextInv, TasksHaveRoom, taskRunning \in BOOLEAN PROVE AssistantTypeOK
    OBVIOUS
  <2>1. reads \in 0 .. MaxReads /\ writes \in 0 .. MaxReads
    BY AssistantAssumption DEF AssistantAssumption, TasksHaveRoom
  <2> QED BY <2>1 DEF ContextInv, AssistantTypes, AssistantTypeOK
<1> QED BY <1>2, <1>3, ContextAlways, PTL

\* What a question sends to the provider is about the chat it was asked in
\* (ask_ai_assistant reads the conversation when its thread runs, get_or_create
\* takes a row whatever it is about), unless the user changed the chat while an
\* answer was pending or the launcher went on with another chat's conversation.
THEOREM ContextIsOwn == AssistantSpec => []ContextStaysInChat
<1>1. ContextInv => ContextStaysInChat
  BY DEF ContextInv, ContextStaysInChat
<1> QED BY <1>1, ContextAlways, PTL
=============================================================================
