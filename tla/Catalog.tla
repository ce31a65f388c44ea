------------------------------- MODULE Catalog ------------------------------
(***************************************************************************)
(* The manifest database (db/store.cpp) under its two connections: the     *)
(* engine's, used by the worker of a run, and the window's, used by the    *)
(* manifest browser.  A Store method holds the mutex of its connection, so *)
(* the methods of one connection never overlap; but nothing in it is a     *)
(* transaction: every SQL statement commits by itself, and the statements  *)
(* of the other connection, a failure or a crash come in between.          *)
(*                                                                         *)
(* A record is reduced to its SHA-1 digest (counts, sizes and times are    *)
(* carried along by the same statements).  The SELECTs of a method are one *)
(* step.  A statement may fail: most failures end the method, but those of *)
(* the statements that make the volume and its root folder, and those of   *)
(* most SELECTs, are not looked at, and the method goes on with whatever   *)
(* sqlite3_last_insert_rowid returns, or as if there were no such row.     *)
(***************************************************************************)
EXTENDS Naturals, Sequences, SequencesExt, FiniteSets, FiniteSetsExt

CONSTANTS
    Files,      \* paths of files: nonempty sequences of names
    Special,    \* special paths ("::boot", ...): sequences of one name
    Work,       \* work items of a run in order: a sequence of paths
    Digests,    \* SHA-1 digests
    MaxRuns,    \* bound: runs begun
    MaxCalls,   \* bound: calls made by the browser
    MaxDepth,   \* bound: recursion of delete_folder
    MaxFaults,  \* bound: statements that fail, and times the process dies
    StaleIds    \* bound: what sqlite3_last_insert_rowid returns after an INSERT that failed

Paths == Files \cup Special

ASSUME CatalogAssumption ==
    /\ Paths \subseteq Seq(STRING) \ {<<>>}
    /\ \A p \in Special : Len(p) = 1
    /\ Special \cap Files = {}
    /\ IsFiniteSet(Files) /\ Work \in Seq(Paths)
    /\ Digests \cap {"none", "absent"} = {}
    /\ StaleIds \subseteq Nat
    /\ MaxRuns \in Nat /\ MaxCalls \in Nat /\ MaxDepth \in Nat /\ MaxFaults \in Nat

None == "none"      \* NULL in the sha1 column
Connections == {"engine", "window"}

VARIABLES
    volumes,    \* rows of volume
    current,    \* meta current_vol_id, 0 if not set
    folders,    \* folder: id -> [vol, parent, name]
    records,    \* file and object: [table, owner, name] -> digest
    extents,    \* extents: path -> bad extents
    op,         \* connection -> the call in progress
    program,    \* calls the run has still to make
    runs, calls, faults,
    unnoticed,  \* history: a statement failed and the method went on
    overlapped, \* history: two calls were in progress at once
    unlinked,   \* history: delete_folder was called
    ledger,     \* history: path -> the digest its record should have, or no record
    found       \* history: path -> bad extents found by the run

tables == <<volumes, current, folders, records, extents>>
bounds == <<runs, calls, faults, unnoticed>>
history == <<overlapped, unlinked, ledger, found>>
vars == <<tables, op, program, bounds, history>>

-----------------------------------------------------------------------------
(* Looking up *)

\* UNIQUE(vol_id, parent_id, basename): 0 if there is no such folder.
FolderId(vol, parent, name) ==
    LET ids == {i \in DOMAIN folders : folders[i] = [vol |-> vol, parent |-> parent, name |-> name]}
    IN  IF ids = {} THEN 0 ELSE CHOOSE i \in ids : TRUE
RootId(vol) == FolderId(vol, 0, "")
Walk(vol, names) ==
    LET at[n \in 0..Len(names)] ==
            IF n = 0 THEN RootId(vol)
            ELSE IF at[n - 1] = 0 THEN 0 ELSE FolderId(vol, at[n - 1], names[n])
    IN  at[Len(names)]

FileKey(id, p) == [table |-> "file", owner |-> id, name |-> Last(p)]
ObjectKey(vol, p) == [table |-> "object", owner |-> vol, name |-> Last(p)]
KeyAt(vol, id, p) == IF p \in Special THEN ObjectKey(vol, p) ELSE FileKey(id, p)
KeyOf(vol, p) == KeyAt(vol, Walk(vol, Front(p)), p)

\* get_object: the record's key, if there is a record.
Found(vol, p) == KeyOf(vol, p) \in DOMAIN records
Lookup(vol, p) == records[KeyOf(vol, p)]

\* SQLite's rowid for a new folder.
NewId == 1 + Max(DOMAIN folders \cup {0})

-----------------------------------------------------------------------------
(* Calls.  digest is what a call sets, or None. *)

Call(m, p) == [method |-> m, path |-> p, digest |-> None, id |-> 0, exts |-> {}]
Sets(m, p, d) == [Call(m, p) EXCEPT !.digest = d]

\* upsert_object writes what it is given.  bump_massage, set_sha1 and bump_verify first read
\* the record; the SHA-1 pass upserts a file it finds no record of ("known"), and once more one
\* that it does ("again").
Upserts == {"upsert", "bump", "known", "again"}

Idle == [call |-> Call("none", <<>>), stage |-> "idle", vol |-> 0, rest |-> <<>>, at |-> 0,
         digest |-> None, frames |-> <<>>, exts |-> {}]

\* The children of a folder (the variant's SELECT forgets parent_id).
AnyFolder(vol, id) == {i \in DOMAIN folders : folders[i].vol = vol}
Children(vol, id) == {i \in DOMAIN folders : folders[i].vol = vol /\ folders[i].parent = id}
Frame(vol, id) == [id |-> id, kids |-> Children(vol, id)]

\* What a method does once it has the volume and its root folder: read the record (an update
\* keeps the digest it read unless it sets one), or the folder's children, or nothing.
WithRoot(call, vol, root) ==
    LET new == [Idle EXCEPT !.call = call, !.vol = vol, !.digest = call.digest]
        walk == [new EXCEPT !.stage = "walk", !.at = root, !.rest = Front(call.path)]
        have == Found(vol, call.path)
    IN  CASE call.method \in {"upsert", "remove"} -> walk
          [] call.method = "known" -> IF have THEN Idle ELSE walk
          [] call.method = "again" -> IF have THEN walk ELSE Idle
          [] call.method = "bump" ->
                IF call.digest = None /\ have THEN [walk EXCEPT !.digest = Lookup(vol, call.path)] ELSE walk
          [] call.method = "deleteFile" -> IF have THEN walk ELSE Idle
          [] call.method = "ensureFolder" ->
                [walk EXCEPT !.at = IF call.id = 0 THEN root ELSE call.id, !.rest = <<Head(call.path)>>]
          [] call.method = "deleteFolder" ->
                IF call.id = root THEN Idle
                ELSE [new EXCEPT !.stage = "child", !.frames = <<Frame(vol, call.id)>>]

\* A call has got hold of the mutex.  Every method but replace_extents looks for the current
\* volume and, but for special paths, its root, and creates what is missing.
Started(call) ==
    IF call.method = "extents" THEN [Idle EXCEPT !.call = call, !.stage = "clear", !.exts = call.exts]
    ELSE IF current = 0 THEN [Idle EXCEPT !.call = call, !.stage = "volume"]
    ELSE IF RootId(current) = 0 /\ call.path \notin Special
    THEN [Idle EXCEPT !.call = call, !.stage = "root", !.vol = current]
    ELSE WithRoot(call, current, RootId(current))

\* What is left of a method that looks the record up, when it has: to write, for which it asks
\* for the volume and its root once more.
Reading == {"bump", "known", "again", "deleteFile"}
Left(call, seen) ==
    CASE call.method = "bump" ->
            [call EXCEPT !.method = "upsert", !.digest = IF @ = None /\ seen # "absent" THEN seen ELSE @]
      [] call.method = "known" /\ seen = "absent" -> [call EXCEPT !.method = "upsert"]
      [] call.method = "again" /\ seen # "absent" -> [call EXCEPT !.method = "upsert"]
      [] call.method = "deleteFile" /\ seen # "absent" -> [call EXCEPT !.method = "remove"]
      [] OTHER -> Idle.call

\* A lookup that goes wrong on its way finds nothing, or a record of the same name elsewhere.
Seen(p) == {"absent"} \cup {records[k] : k \in {l \in DOMAIN records : l.name = Last(p)}}
Lefts(call) == IF call.method \in Reading THEN {Left(call, s) : s \in Seen(call.path)} ELSE {call}
Goon(call) == IF call.method = "none" THEN Idle ELSE Started(call)

\* What a method may do when one of its SELECTs fails, besides what it does anyway: it does not
\* see the current volume and makes one; it does not see the root folder and takes a stale id for
\* it; it looks the record up in vain; or it sees only some of the children of the folder it
\* deletes.
Misread(call) ==
    ({[Idle EXCEPT !.call = l, !.stage = "volume"] : l \in (Lefts(call) \cup {call}) \ {Idle.call}}
        \cup {WithRoot(l, current, id) : l \in Lefts(call) \ {Idle.call}, id \in StaleIds}
        \cup {Goon(l) : l \in Lefts(call)}
        \cup {[o EXCEPT !.frames = <<[id |-> call.id, kids |-> some]>>] :
                o \in {x \in {Started(call)} : x.stage = "child"}, some \in SUBSET Children(current, call.id)})
    \ {Started(call)}

\* The catalog is opened fresh, or has its volume and root already.
Init ==
    /\ volumes \in {0, 1} /\ current = volumes
    /\ folders = IF current = 0 THEN <<>> ELSE <<[vol |-> 1, parent |-> 0, name |-> ""]>>
    /\ records = <<>>
    /\ extents = [p \in Paths |-> {}]
    /\ op = [c \in Connections |-> Idle]
    /\ program = <<>>
    /\ runs = 0 /\ calls = 0 /\ faults = 0 /\ unnoticed = FALSE
    /\ overlapped = FALSE /\ unlinked = FALSE
    /\ ledger = [p \in Paths |-> "absent"]
    /\ found = [p \in Paths |-> {}]

\* A failure nobody takes notice of.
Unnoticed == faults < MaxFaults /\ faults' = faults + 1 /\ unnoticed' = TRUE

Begin(c, call) ==
    /\ op[c].stage = "idle"
    /\ \/ op' = [op EXCEPT ![c] = Started(call)] /\ UNCHANGED <<faults, unnoticed>>
       \/ /\ Unnoticed /\ call.method # "extents" /\ current # 0
          /\ \E o \in Misread(call) : op' = [op EXCEPT ![c] = o]
    /\ overlapped' = (overlapped \/ \E d \in Connections \ {c} : op[d].stage # "idle")

\* The run: upsert_object for each object scanned, record_rewrite for each work item
\* (replace_extents, then bump_massage), then for each file a record if it has none, set_sha1 and
\* upsert_object; with -t only the hashing, and bump_verify for the last two.
ScanCalls == [i \in DOMAIN Work |-> Call("upsert", Work[i])]
InTurn(paths, Steps(_), n) ==
    [k \in 1..(n * Len(paths)) |-> Steps(paths[((k - 1) \div n) + 1])[((k - 1) % n) + 1]]
RecordRewrite(p) == <<Call("extents", p), Call("bump", p)>>
ItemCalls == InTurn(Work, RecordRewrite, 2)
VerifyFile(p, d) == <<Call("known", p), Sets("bump", p, d)>>
HashFile(p, d) == Append(VerifyFile(p, d), Sets("again", p, d))
VerifyCalls(d) == InTurn(SetToSeq(Files), LAMBDA p : VerifyFile(p, d), 2)
HashCalls(d) == InTurn(SetToSeq(Files), LAMBDA p : HashFile(p, d), 3)

StartRun ==
    /\ runs < MaxRuns /\ program = <<>> /\ op["engine"].stage = "idle"
    /\ \E d \in Digests :
        program' \in {ScanCalls \o ItemCalls \o HashCalls(d), ItemCalls \o HashCalls(d), VerifyCalls(d)}
    /\ found' = [p \in Paths |-> {}]
    /\ runs' = runs + 1
    /\ UNCHANGED <<tables, op, calls, faults, unnoticed, overlapped, unlinked, ledger>>

\* The i-th item of the run may have found the i-th bad extent.
EngineCall ==
    /\ program # <<>>
    /\ LET call == Head(program)
       IN  IF call.method = "extents"
           THEN \E e \in {{}, {Len(program)}} :
                    /\ Begin("engine", [call EXCEPT !.exts = e])
                    /\ found' = [found EXCEPT ![call.path] = @ \cup e]
           ELSE Begin("engine", call) /\ UNCHANGED found
    /\ program' = Tail(program)
    /\ UNCHANGED <<tables, runs, calls, unlinked, ledger>>

\* Sync and the verify worker of the browser: the rows chosen, what is found on disk and the
\* user's answers decide which calls come, in any order.
BrowserCalls ==
    {Sets("upsert", p, d) : p \in Files, d \in Digests}
        \cup {Sets("bump", p, d) : p \in Files, d \in Digests \cup {None}}
        \cup {Call("deleteFile", p) : p \in Files}
        \cup {[Call("deleteFolder", <<>>) EXCEPT !.id = i] : i \in DOMAIN folders}
        \cup {[Call("ensureFolder", p) EXCEPT !.id = i] :
                p \in {q \in Files : Len(q) > 1}, i \in DOMAIN folders \cup {0}}

BrowserCall ==
    /\ calls < MaxCalls
    /\ calls' = calls + 1
    /\ \E call \in BrowserCalls :
        /\ Begin("window", call)
        /\ unlinked' = (unlinked \/ call.method = "deleteFolder")
    /\ UNCHANGED <<tables, program, runs, ledger, found>>

-----------------------------------------------------------------------------
(* Statements *)

At(c, stage) == op[c].stage = stage
Goes(c, stage) == op' = [op EXCEPT ![c].stage = stage]
Ends(c) == op' = [op EXCEPT ![c] = Idle]

\* ensure_volume_locked: a device and a volume row, then its id in meta (the variant forgets it),
\* then the root folder.  0 counts as no volume.
MetaForgotten(vol) == UNCHANGED current
MetaStored(vol) == current' = vol

InsertVolume(c) ==
    /\ At(c, "volume")
    /\ volumes' = volumes + 1
    /\ op' = [op EXCEPT ![c].stage = "meta", ![c].vol = volumes + 1]
    /\ UNCHANGED <<current, folders, records, extents, program, bounds, history>>

SetCurrent(c) ==
    /\ At(c, "meta")
    /\ MetaStored(op[c].vol)
    /\ Goes(c, IF op[c].vol = 0 THEN "unset" ELSE "root")
    /\ UNCHANGED <<volumes, folders, records, extents, program, bounds, history>>

NewFolder(vol, parent, name) ==
    folders' = [i \in DOMAIN folders \cup {NewId} |->
        IF i = NewId THEN [vol |-> vol, parent |-> parent, name |-> name] ELSE folders[i]]

\* ensure_root_folder_locked, where there is none.
EnsureRoot(c) ==
    /\ At(c, "root")
    /\ LET vol == op[c].vol
           id == RootId(vol)
       IN  /\ op' = [op EXCEPT ![c] = WithRoot(@.call, vol, IF id > 0 THEN id ELSE NewId)]
           /\ IF id > 0 THEN UNCHANGED folders ELSE NewFolder(vol, 0, "")
    /\ UNCHANGED <<volumes, current, records, extents, program, bounds, history>>

\* The same for a volume that is not the current one: a method that looked the record up there
\* asks for the current volume again.
EnsureUnset(c) ==
    /\ At(c, "unset")
    /\ LET vol == op[c].vol
           id == RootId(vol)
           next == WithRoot(op[c].call, vol, IF id > 0 THEN id ELSE NewId)
       IN  /\ op' = [op EXCEPT ![c] =
                        IF next.stage = "walk" /\ next.call.method \in Reading
                        THEN Started(Left(next.call, IF Found(vol, next.call.path) THEN next.digest ELSE "absent"))
                        ELSE next]
           /\ IF id > 0 THEN UNCHANGED folders ELSE NewFolder(vol, 0, "")
    /\ UNCHANGED <<volumes, current, records, extents, program, bounds, history>>

\* ensure_folder_locked for the next folder of the path.
EnsureFolder(c) ==
    /\ At(c, "walk") /\ op[c].rest # <<>>
    /\ LET name == Head(op[c].rest)
           id == FolderId(op[c].vol, op[c].at, name)
       IN  /\ op' = [op EXCEPT ![c] =
                        IF op[c].call.method = "ensureFolder" THEN Idle
                        ELSE [op[c] EXCEPT !.rest = Tail(@), !.at = IF id > 0 THEN id ELSE NewId]]
           /\ IF id > 0 THEN UNCHANGED folders ELSE NewFolder(op[c].vol, op[c].at, name)
    /\ UNCHANGED <<volumes, current, records, extents, program, bounds, history>>

\* INSERT ... ON CONFLICT DO UPDATE SET sha1 = COALESCE(excluded.sha1, sha1) (the variant: sha1 =
\* excluded.sha1).
Replaced(new, old) == new
Coalesced(new, old) == IF new = None THEN old ELSE new
Upsert(c) ==
    /\ At(c, "walk") /\ op[c].rest = <<>> /\ op[c].call.method \in Upserts
    /\ LET p == op[c].call.path
           key == KeyAt(op[c].vol, op[c].at, p)
           old == IF key \in DOMAIN records THEN records[key] ELSE None
           new == op[c].call.digest
       IN  /\ records' = [k \in DOMAIN records \cup {key} |->
                            IF k = key THEN Coalesced(op[c].digest, old) ELSE records[k]]
           /\ ledger' = [ledger EXCEPT ![p] = IF new # None \/ @ = "absent" THEN new ELSE @]
    /\ Ends(c)
    /\ UNCHANGED <<volumes, current, folders, extents, program, bounds,
                   overlapped, unlinked, found>>

\* delete_file: the row, then (whatever became of that) the extents; the variant leaves them.
KeepExtents(c) == Ends(c)
ThenExtents(c) == Goes(c, "clear")
DeleteFile(c) ==
    /\ At(c, "walk") /\ op[c].rest = <<>> /\ op[c].call.method \in {"deleteFile", "remove"}
    /\ records' = [k \in DOMAIN records \ {KeyAt(op[c].vol, op[c].at, op[c].call.path)} |-> records[k]]
    /\ ledger' = [ledger EXCEPT ![op[c].call.path] = "absent"]
    /\ ThenExtents(c)
    /\ UNCHANGED <<volumes, current, folders, extents, program, bounds,
                   overlapped, unlinked, found>>

\* replace_extents: one DELETE, then one INSERT for each extent.
ClearExtents(c) ==
    /\ At(c, "clear")
    /\ extents' = [extents EXCEPT ![op[c].call.path] = {}]
    /\ Goes(c, "extents")
    /\ UNCHANGED <<volumes, current, folders, records, program, bounds, history>>

InsertExtent(c) ==
    /\ At(c, "extents")
    /\ IF op[c].exts = {} THEN Ends(c) /\ UNCHANGED extents
       ELSE \E e \in op[c].exts :
            /\ extents' = [extents EXCEPT ![op[c].call.path] = @ \cup {e}]
            /\ op' = [op EXCEPT ![c].exts = @ \ {e}]
    /\ UNCHANGED <<volumes, current, folders, records, program, bounds, history>>

\* delete_folder of one folder: its children, each by a call of its own (frames holds the
\* callers); then its files, then itself.  An id reused between two statements of an upsert can
\* make a folder its own parent; the recursion on such a one only ends with the process.
Top(c) == Last(op[c].frames)
DeleteChild(c) ==
    /\ At(c, "child") /\ Len(op[c].frames) < MaxDepth
    /\ \E k \in Top(c).kids :
        LET caller == [Top(c) EXCEPT !.kids = @ \ {k}]
        IN  op' = [op EXCEPT ![c].frames = Front(@) \o <<caller, Frame(op[c].vol, k)>>]
    /\ UNCHANGED <<tables, program, bounds, history>>

\* DELETE FROM file WHERE folder_id, and DELETE FROM folder WHERE id.
DeleteFilesOf(id) ==
    /\ records' = [k \in {l \in DOMAIN records : l.table # "file" \/ l.owner # id} |-> records[k]]
    /\ ledger' = [p \in Paths |-> IF p \in Files /\ Walk(current, Front(p)) = id THEN "absent" ELSE ledger[p]]
    /\ UNCHANGED folders
DeleteRowOf(id) ==
    /\ folders' = [i \in DOMAIN folders \ {id} |-> folders[i]]
    /\ UNCHANGED <<records, ledger>>

DeleteFiles(c) ==
    /\ At(c, "child") /\ Top(c).kids = {}
    /\ DeleteFilesOf(Top(c).id)
    /\ Goes(c, "row")
    /\ UNCHANGED <<volumes, current, extents, program, bounds, overlapped, unlinked, found>>

DeleteFolder(c) ==
    /\ At(c, "row")
    /\ DeleteRowOf(Top(c).id)
    /\ op' = [op EXCEPT ![c] = IF Len(op[c].frames) = 1 THEN Idle
                               ELSE [op[c] EXCEPT !.stage = "child", !.frames = Front(@)]]
    /\ UNCHANGED <<volumes, current, extents, program, bounds, overlapped, unlinked, found>>

\* A statement fails (another writer held the database for 5 seconds, the disk is full, or the
\* other connection inserted the same folder first): the method returns false, a recursive
\* delete_folder all the way up (the variant goes on with the caller's next child), and nobody
\* looks at the result.
NextChild(c) ==
    op' = [op EXCEPT ![c] = IF Len(@.frames) > 1 THEN [op[c] EXCEPT !.stage = "child", !.frames = Front(@)]
                            ELSE Idle]
GiveUp(c) == Ends(c)
StatementFails(c) ==
    /\ faults < MaxFaults
    /\ faults' = faults + 1
    /\ \/ At(c, "walk") \/ At(c, "clear") \/ At(c, "row")
       \/ At(c, "child") /\ Top(c).kids = {}
       \/ At(c, "extents") /\ op[c].exts # {}
    /\ IF At(c, "walk") /\ op[c].call.method \in {"deleteFile", "remove"} /\ op[c].rest = <<>>
       THEN ThenExtents(c) ELSE GiveUp(c)
    /\ UNCHANGED <<tables, program, runs, calls, unnoticed, history>>

\* The statements whose failure is not looked at.  The volume: the method goes on with a stale id.
VolumeFails(c) ==
    /\ At(c, "volume") /\ Unnoticed
    /\ \E id \in StaleIds : op' = [op EXCEPT ![c].stage = "meta", ![c].vol = id]
    /\ UNCHANGED <<tables, program, runs, calls, history>>

\* Its id in meta: the next method will not see the volume.
MetaFails(c) ==
    /\ At(c, "meta") /\ Unnoticed
    /\ Goes(c, IF current = op[c].vol /\ current # 0 THEN "root" ELSE "unset")
    /\ UNCHANGED <<tables, program, runs, calls, history>>

\* The root folder (or the other connection inserted it first): it is tried once more by a method
\* that has just made the volume or has looked up a record, else a stale id is its id.
RootFails(c) ==
    /\ At(c, "root") \/ At(c, "unset")
    /\ Unnoticed
    /\ \E o \in IF op[c].call.method \in Reading THEN {Goon(l) : l \in Lefts(op[c].call)}
              ELSE {op[c]} \cup {WithRoot(op[c].call, op[c].vol, id) : id \in StaleIds} :
            op' = [op EXCEPT ![c] = o]
    /\ UNCHANGED <<tables, program, runs, calls, history>>

\* The children of a folder below the one to delete: those it did not return stay.
ChildrenFail(c) ==
    /\ At(c, "child") /\ Len(op[c].frames) < MaxDepth
    /\ Unnoticed
    /\ \E k \in Top(c).kids : \E some \in SUBSET Children(op[c].vol, k) :
        LET caller == [Top(c) EXCEPT !.kids = @ \ {k}]
        IN  op' = [op EXCEPT ![c].frames = Front(@) \o <<caller, [id |-> k, kids |-> some]>>]
    /\ UNCHANGED <<tables, program, runs, calls, history>>

FailureIgnored(c) == VolumeFails(c) \/ MetaFails(c) \/ RootFails(c) \/ ChildrenFail(c)

\* The process dies between two statements; the database keeps those that were executed.
Crash ==
    /\ faults < MaxFaults
    /\ faults' = faults + 1
    /\ op' = [c \in Connections |-> Idle]
    /\ program' = <<>>
    /\ UNCHANGED <<tables, runs, calls, unnoticed, history>>

Statement(c) ==
    \/ InsertVolume(c) \/ SetCurrent(c) \/ EnsureRoot(c) \/ EnsureUnset(c) \/ EnsureFolder(c) \/ Upsert(c)
    \/ DeleteFile(c) \/ ClearExtents(c) \/ InsertExtent(c)
    \/ DeleteChild(c) \/ DeleteFiles(c) \/ DeleteFolder(c)

Next ==
    \/ StartRun \/ EngineCall \/ BrowserCall \/ Crash
    \/ \E c \in Connections : Statement(c) \/ StatementFails(c) \/ FailureIgnored(c)

Spec == Init /\ [][Next]_vars

-----------------------------------------------------------------------------
(* Properties *)

(* Rows refer to ids that were given, and delete_folder's recursion only     *)
(* goes from a folder to one of its children, unless a statement failed      *)
(* whose result the code does not look at.                                   *)
FramesNest(frames) ==
    \A n \in 1..(Len(frames) - 1) :
        frames[n + 1].id \in DOMAIN folders => folders[frames[n + 1].id].parent = frames[n].id
TypeOK ==
    ~unnoticed =>
    /\ volumes \in Nat /\ current \in 0..volumes
    /\ \A i \in DOMAIN folders : i > 0 /\ folders[i].vol \in 1..volumes
    /\ \A k \in DOMAIN records : k.owner > 0 /\ records[k] \in Digests \cup {None}
    /\ \A c \in Connections : FramesNest(op[c].frames)

(* As long as the calls of the two connections did not overlap, every file   *)
(* row has its folder and every folder its parent, at every moment and so    *)
(* after any crash and any failed statement whose result the code looks at:  *)
(* upsert_file goes from the root outwards, delete_folder from the leaves    *)
(* inwards.                                                                  *)
OrphanFolders == {i \in DOMAIN folders : folders[i].parent \notin DOMAIN folders \cup {0}}
OrphanFiles == {k \in DOMAIN records : k.table = "file" /\ k.owner \notin DOMAIN folders}
TreeIsWhole == ~overlapped /\ ~unnoticed => OrphanFolders = {} /\ OrphanFiles = {}

(* Whatever interleaves, an update that did not bring a digest of its own    *)
(* never clears the stored one: the record of a file that is massaged while  *)
(* the browser hashes it keeps a digest to be verified against.              *)
DigestIsKept ==
    [][\A k \in DOMAIN records \cap DOMAIN records' : records[k] # None => records'[k] # None]_vars

(* As long as calls did not overlap, the tables are a map from paths to      *)
(* digests on which every call is one atomic step, crash or not, and failed  *)
(* statement or not, if the code looks at its result: what an upsert stored  *)
(* is found under its path, with its digest, until it is deleted; a new      *)
(* volume or root never hides it.                                            *)
TablesAreAMap ==
    ~overlapped /\ ~unnoticed =>
        \A p \in Paths : IF Found(current, p) THEN ledger[p] = Lookup(current, p) ELSE ledger[p] = "absent"

(* validate_manifest counts extents whose path has no record as broken       *)
(* links.  Calls that were neither cut short nor overlapped leave none,      *)
(* except that delete_folder leaves those of its files.                      *)
OrphanExtents == {p \in Paths : extents[p] # {} /\ ~Found(current, p)}
Quiet ==
    /\ \A c \in Connections : op[c].stage = "idle"
    /\ program # <<>> => Head(program).method # "bump"
CompletedCallsLeaveNoOrphans ==
    Quiet /\ ~overlapped /\ faults = 0 /\ ~unlinked => OrphanExtents = {}

(* reflash.adoc: the database "records paths, SHA-1 digests, massage/verify  *)
(* counts, and bad extents": once a run is through its work list, every bad  *)
(* extent it found in a file is recorded.                                    *)
BadExtentsRecorded ==
    faults = 0 /\ ~overlapped /\ calls = 0 /\ program = <<>> /\ op["engine"].stage = "idle" =>
        \A p \in Paths : found[p] \subseteq extents[p]

=============================================================================
