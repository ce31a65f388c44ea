------------------------------- MODULE Browser ------------------------------
(***************************************************************************)
(* The manifest browser (gui/browser.cpp): the user interface lists a      *)
(* folder and queues a verification for every file whose record is not     *)
(* recent; a worker thread hashes the files, compares with the record,     *)
(* writes the verdict to the catalog and posts it back to be shown; Sync   *)
(* goes through the rows on the interface thread, and stops in a dialog    *)
(* for each conflict while posted calls keep running.                      *)
(*                                                                         *)
(* Only files are listed; what the catalog does with a call is the module  *)
(* Catalog, and here each call is one step.  A digest stands for content.  *)
(***************************************************************************)
EXTENDS Integers, Sequences, SequencesExt, FiniteSets

CONSTANTS
    Folders,    \* folders that can be listed
    Root,       \* the top folder
    Content,    \* folder -> its files, on disk or in the catalog
    Digests,    \* digests of contents
    Recorded,   \* the digest in the records there are at first
    MaxEvents   \* bound: listings asked for, Syncs started, files that change, go or come, and
                \* times all records expire, together

Files == UNION {Content[d] : d \in Folders}

ASSUME BrowserAssumption ==
    /\ Root \in Folders /\ DOMAIN Content = Folders /\ IsFiniteSet(Files)
    /\ Recorded \in Digests
    /\ \A d, e \in Folders : d # e => Content[d] \cap Content[e] = {}
    /\ MaxEvents \in Nat

None == "none"      \* no digest: not on disk, not in the record, not readable
Verdicts == {"Ok", "Fail"}
Answers == {"Delete", "Overwrite", "Ignore"}

\* A record: "recent" says that it was verified and that the verdict still holds good.
Record == [sha1 : Digests \cup {None}, status : Verdicts \cup {"Unknown"}, recent : BOOLEAN]
NoRecord == [sha1 |-> None, status |-> "absent", recent |-> FALSE]

VARIABLES
    window,         \* "opening" (constructed), "open", "closing" (Close called), "joining" (in the destructor), "gone"
    store,          \* the catalog is open
    disk,           \* file -> its content, None if it is not there
    db,             \* files with a record -> the record
    rows,           \* list_rows_
    epoch,          \* epoch_
    work,           \* work_state_
    folder,         \* the folder listed
    selected,       \* the folder selected in the tree
    picked,         \* pending_tree_rel_
    picking,        \* pending_tree_show_
    called,         \* the call of schedule_show_folder is posted
    sync,           \* the Sync in progress
    queue,          \* queue_
    pending,        \* pending_hashes_
    stop,           \* stop_worker_
    job,            \* the worker's job
    posted,         \* calls posted by the worker with CallAfter
    events,
    given,          \* history: file -> verdicts ever recorded for it
    ignored         \* history: files whose conflict the user chose to keep

catalog == <<store, disk, db>>
list == <<rows, epoch, work, folder>>
tree == <<selected, picked, picking, called>>
jobs == <<queue, pending>>
worker == <<stop, job, posted>>
history == <<given, ignored>>
vars == <<window, catalog, list, tree, sync, jobs, worker, events, history>>

NoSync == [stage |-> "none", rows |-> <<>>, whole |-> FALSE, digest |-> None, sticky |-> None]
NoJob == [stage |-> "wait", gen |-> 0, row |-> 0, file |-> None, digest |-> None, verdict |-> None]

-----------------------------------------------------------------------------
(* The catalog *)

Lookup(f) == IF store /\ f \in DOMAIN db THEN db[f] ELSE NoRecord
Write(f, rec) == db' = [g \in DOMAIN db \cup {f} |-> IF g = f THEN rec ELSE db[g]]

\* bump_verify: the verdict, the time, and the digest if there is one, whatever the verdict is.
BumpVerify(f, verdict, digest) ==
    /\ Write(f, [sha1 |-> IF digest = None THEN Lookup(f).sha1 ELSE digest,
                 status |-> verdict, recent |-> TRUE])
    /\ given' = [given EXCEPT ![f] = @ \cup {verdict}]

\* hash_file: it fails on a file that is not there or that cannot be read.
Hashes(f) == {disk[f], None}

-----------------------------------------------------------------------------
(* The list *)

InFs(r) == r.seen
InDb(r) == r.rec # NoRecord
Recent(r) == r.rec.recent
StatusText(r) ==
    IF InFs(r) /\ Recent(r) THEN r.rec.status
    ELSE IF InFs(r) /\ InDb(r) THEN "..."
    ELSE IF InFs(r) THEN "new" ELSE "missing"

\* enqueue_verifies, with the state of the work icon before it (the variant adds to the counter).
CountedOn(n) == pending' = pending + n
Counted(n) == pending' = n
Enqueue(verifies, icon) ==
    /\ queue' = <<[gen |-> epoch + 1, row |-> 0, file |-> None]>> \o verifies
    /\ Counted(Len(verifies))
    /\ work' = IF verifies # <<>> THEN "run" ELSE IF icon = "run" THEN "idle" ELSE icon

\* The numbers in S, from the smallest on.
InOrder(S) == CHOOSE s \in SetToSeqs(S) : \A i, j \in DOMAIN s : i < j => s[i] < s[j]

\* fill_list_ctrl
Unverified(r) == InFs(r) /\ InDb(r) /\ ~Recent(r)
Fill(listed, verify, icon) ==
    LET due == InOrder({i \in DOMAIN listed : verify /\ Unverified(listed[i])})
    IN  /\ epoch' = epoch + 1
        /\ rows' = [i \in DOMAIN listed |-> [listed[i] EXCEPT !.status = StatusText(listed[i])]]
        /\ Enqueue([k \in DOMAIN due |-> [gen |-> epoch + 1, row |-> due[k], file |-> listed[due[k]].file]],
                   icon)

\* show_folder: the rows of what is seen on disk and in the catalog; nothing is seen on disk when
\* opendir fails, and nothing is listed or queued, nor is what was queued dropped, when it is denied.  The rows are sorted,
\* and every order is one of the arrangements.
Row(f, seen) ==
    [file |-> f, seen |-> f \in seen, rec |-> Lookup(f), status |-> ""]
OnDisk(d) == {f \in Content[d] : disk[f] # None}
ShowFolder(d, icon) ==
    /\ folder' = d
    /\ \/ /\ rows' = <<>> /\ work' = "err"
          /\ UNCHANGED <<epoch, jobs>>
       \/ \E seen \in {OnDisk(d), {}} :
          \E order \in SetToSeqs({f \in Content[d] : f \in seen \/ Lookup(f) # NoRecord}) :
            Fill([i \in DOMAIN order |-> Row(order[i], seen)], TRUE, icon)

-----------------------------------------------------------------------------
(* The interface *)

Init ==
    /\ window = "opening" /\ store = TRUE
    /\ disk \in [Files -> Digests]
    /\ \E F \in SUBSET Files :
        db = [f \in F |-> [sha1 |-> Recorded, status |-> "Unknown", recent |-> FALSE]]
    /\ rows = <<>> /\ epoch = 1 /\ work = "idle"
    /\ folder = Root /\ selected = Root /\ picked = Root /\ picking = FALSE /\ called = FALSE
    /\ sync = NoSync
    /\ queue = <<>> /\ pending = 0
    /\ stop = FALSE /\ job = NoJob /\ posted = <<>>
    /\ events = 0
    /\ given = [f \in Files |-> {}] /\ ignored = {}

\* The constructor lists the top folder; the worker runs already.
Open ==
    /\ window = "opening" /\ window' = "open"
    /\ ShowFolder(Root, work)
    /\ UNCHANGED <<catalog, tree, sync, worker, events, history>>

Happens == events < MaxEvents /\ events' = events + 1
Asks == window = "open" /\ sync.stage = "none" /\ Happens

\* on_tree_sel and schedule_show_folder: one call is posted, for the folder picked last.
PickFolder(d) ==
    /\ Asks
    /\ selected' = d /\ picked' = d
    /\ picking' = TRUE /\ called' = (called \/ ~picking)
    /\ UNCHANGED <<window, catalog, list, sync, jobs, worker, history>>

\* on_list_activate of a folder, and on_refresh: listed at once.
OpenFolder(d) ==
    /\ Asks
    /\ selected' = d
    /\ ShowFolder(d, work)
    /\ UNCHANGED <<window, catalog, picked, picking, called, sync, worker, history>>

\* Another arrangement, zoom level or view: the rows are filled in again and nothing is queued.
Rearrange ==
    /\ Asks
    /\ \E order \in SetToSeqs(DOMAIN rows) :
        Fill([i \in DOMAIN order |-> rows[order[i]]], FALSE, work)
    /\ UNCHANGED <<window, catalog, folder, tree, sync, worker, history>>

\* Posted calls run between events, also those of a dialog.
Dialog == sync.stage \in {"ask", "alert"}
Dispatches == window \in {"open", "closing"} /\ (sync.stage = "none" \/ Dialog)

\* The call of schedule_show_folder (the variant leaves its flag set).  Under a Sync of the whole
\* list it clears the rows that Sync is going through.
StillPicking == picking' = picking
Picked == picking' = FALSE
ShowPicked ==
    /\ Dispatches /\ called
    /\ Picked /\ called' = FALSE
    /\ ShowFolder(picked, work)
    /\ window' = IF Dialog /\ sync.whole THEN "undefined" ELSE window
    /\ UNCHANGED <<catalog, selected, picked, sync, worker, events, history>>

\* The call posted by the worker (the variants: without the test of the generation, and with "= 0").
AnyCall(call) == call.row <= Len(rows)
Current(call) == call.gen = epoch /\ call.row <= Len(rows)
ExactlyDone(call) == call.left = 0
Done(call) == call.left <= 0
ShowVerdict ==
    /\ Dispatches /\ posted # <<>>
    /\ posted' = Tail(posted)
    /\ LET call == Head(posted)
       IN  IF Current(call)
           THEN /\ rows' = [rows EXCEPT ![call.row].status = call.verdict]
                /\ work' = IF Done(call) /\ work = "run" THEN "idle" ELSE work
           ELSE UNCHANGED <<rows, work>>
    /\ UNCHANGED <<window, catalog, epoch, folder, tree, sync, jobs, stop, job, events, history>>

-----------------------------------------------------------------------------
(* The worker *)

Take ==
    /\ job.stage = "wait" /\ queue # <<>>
    /\ queue' = Tail(queue)
    /\ LET m == Head(queue)
       IN  job' = IF m.row = 0 \/ m.gen # epoch THEN NoJob
                  ELSE [NoJob EXCEPT !.stage = "hash", !.gen = m.gen, !.row = m.row, !.file = m.file]
    /\ UNCHANGED <<window, catalog, list, tree, sync, pending, stop, posted, events, history>>

Hash ==
    /\ job.stage = "hash"
    /\ \E digest \in Hashes(job.file) : job' = [job EXCEPT !.stage = "judge", !.digest = digest]
    /\ UNCHANGED <<window, catalog, list, tree, sync, jobs, stop, posted, events, history>>

\* get_object: without a digest in the record, or without a record, the file is good.
Judge ==
    /\ job.stage = "judge"
    /\ LET good == job.digest # None /\ Lookup(job.file).sha1 \in {None, job.digest}
       IN  job' = [job EXCEPT !.stage = "bump", !.verdict = IF good THEN "Ok" ELSE "Fail"]
    /\ UNCHANGED <<window, catalog, list, tree, sync, jobs, stop, posted, events, history>>

\* bump_verify does not ask whether the catalog is still open.
Bump ==
    /\ job.stage = "bump"
    /\ job' = [job EXCEPT !.stage = "report"]
    /\ IF store THEN BumpVerify(job.file, job.verdict, job.digest) /\ UNCHANGED window
       ELSE window' = "undefined" /\ UNCHANGED <<db, given>>
    /\ UNCHANGED <<store, disk, list, tree, sync, jobs, stop, posted, events, ignored>>

Report ==
    /\ job.stage = "report"
    /\ pending' = pending - 1
    /\ posted' = Append(posted, [gen |-> job.gen, row |-> job.row, verdict |-> job.verdict, left |-> pending'])
    /\ job' = NoJob
    /\ UNCHANGED <<window, catalog, list, tree, sync, queue, stop, events, history>>

Exit ==
    /\ job.stage = "wait" /\ stop /\ queue = <<>>
    /\ job' = [job EXCEPT !.stage = "exited"]
    /\ UNCHANGED <<window, catalog, list, tree, sync, jobs, stop, posted, events, history>>

-----------------------------------------------------------------------------
(* Sync *)

\* Of the whole list, by reference, or of a copy of the selected rows.  An answer remembered from
\* an earlier Sync acts like one given to the first conflict for the rest of this one.
StartSync ==
    /\ Asks /\ rows # <<>>
    /\ \E chosen \in SUBSET DOMAIN rows \ {{}}, whole \in BOOLEAN :
        /\ whole => chosen = DOMAIN rows
        /\ LET order == InOrder(chosen)
           IN  sync' = [NoSync EXCEPT !.stage = "hash", !.whole = whole,
                            !.rows = [k \in DOMAIN order |-> rows[order[k]]]]
    /\ work' = "sync"
    /\ UNCHANGED <<window, catalog, rows, epoch, folder, tree, jobs, worker, history>>

SyncHash ==
    /\ sync.stage = "hash" /\ sync.rows # <<>>
    /\ \E digest \in IF InFs(Head(sync.rows)) THEN Hashes(Head(sync.rows).file) ELSE {None} :
        sync' = [sync EXCEPT !.stage = "act", !.digest = digest]
    /\ UNCHANGED <<window, catalog, list, tree, jobs, worker, events, history>>

NextRow(answer) == sync' = [sync EXCEPT !.stage = "hash", !.rows = Tail(@), !.sticky = answer]
Alert(answer) == sync' = [sync EXCEPT !.stage = "alert", !.sticky = answer]

\* A conflict is resolved: unlink the file (which may fail), set_sha1 and bump_verify, or
\* bump_verify as failed.
Resolve(f, answer, sticky) ==
    \/ /\ answer = "Delete"
       /\ \/ disk[f] # None /\ disk' = [disk EXCEPT ![f] = None] /\ NextRow(sticky)
          \/ UNCHANGED disk /\ Alert(sticky)
       /\ UNCHANGED <<db, history>>
    \/ /\ answer = "Overwrite"
       /\ BumpVerify(f, "Ok", sync.digest)
       /\ ignored' = ignored \ {f}
       /\ NextRow(sticky)
       /\ UNCHANGED disk
    \/ /\ answer = "Ignore"
       /\ BumpVerify(f, "Fail", sync.digest)
       /\ ignored' = ignored \cup {f}
       /\ NextRow(sticky)
       /\ UNCHANGED disk

\* The row as it was listed decides, and its record as it was then.
Conflict(r) == (r.rec.sha1 # None /\ r.rec.sha1 # sync.digest) \/ r.rec.status = "Fail"
SyncRow ==
    /\ sync.stage = "act"
    /\ LET r == Head(sync.rows)
           f == r.file
       IN  IF ~InFs(r)
           THEN /\ db' = [g \in DOMAIN db \ {f} |-> db[g]]
                /\ ignored' = ignored \ {f}
                /\ NextRow(sync.sticky)
                /\ UNCHANGED <<disk, given>>
           ELSE IF sync.digest = None
           THEN /\ IF InDb(r) THEN NextRow(sync.sticky) ELSE Alert(sync.sticky)
                /\ UNCHANGED <<disk, db, history>>
           ELSE IF ~InDb(r) \/ ~Conflict(r)
           THEN /\ BumpVerify(f, "Ok", sync.digest)
                /\ ignored' = IF InDb(r) THEN ignored ELSE ignored \ {f}
                /\ NextRow(sync.sticky)
                /\ UNCHANGED disk
           ELSE IF sync.sticky = None
           THEN /\ sync' = [sync EXCEPT !.stage = "ask"]
                /\ UNCHANGED <<disk, db, history>>
           ELSE Resolve(f, sync.sticky, sync.sticky)
    /\ UNCHANGED <<window, store, list, tree, jobs, worker, events>>

Answer ==
    /\ sync.stage = "ask"
    /\ \E answer \in Answers : \E sticky \in {None, answer} :
        Resolve(Head(sync.rows).file, answer, sticky)
    /\ UNCHANGED <<window, store, list, tree, jobs, worker, events>>

Dismiss ==
    /\ sync.stage = "alert"
    /\ NextRow(sync.sticky)
    /\ UNCHANGED <<window, catalog, list, tree, jobs, worker, events, history>>

\* on_refresh at the end: the folder selected, which need not be the one listed.
SyncDone ==
    /\ sync.stage = "hash" /\ sync.rows = <<>>
    /\ sync' = NoSync
    /\ ShowFolder(selected, "ok")
    /\ UNCHANGED <<window, catalog, tree, worker, events, history>>

-----------------------------------------------------------------------------
(* The end of the window, and what happens around it *)

\* The window is closed by the user or because the target changes; with the database, the catalog
\* is closed at once, the window only when the event loop is idle.
Close ==
    /\ window = "open" /\ sync.stage = "none"
    /\ window' = "closing"
    /\ store' \in {store, FALSE}
    /\ UNCHANGED <<disk, db, list, tree, sync, jobs, worker, events, history>>

\* ~BrowserFrame up to the join (the variant forgets the flag): posted calls go with the window.
KeepGoing == stop' = stop
Stop == stop' = TRUE
Destroy ==
    /\ window = "closing"
    /\ window' = "joining"
    /\ Stop
    /\ queue' = <<>> /\ posted' = <<>>
    /\ UNCHANGED <<catalog, list, tree, sync, pending, job, events, history>>

Joined ==
    /\ window = "joining" /\ job.stage = "exited"
    /\ window' = "gone"
    /\ UNCHANGED <<catalog, list, tree, sync, jobs, worker, events, history>>

\* A file changes, goes or comes.
Change ==
    /\ Happens
    /\ \E f \in Files, content \in Digests \cup {None} :
        /\ disk[f] # content
        /\ disk' = [disk EXCEPT ![f] = content]
        /\ ignored' = ignored \ {f}
    /\ UNCHANGED <<window, store, db, list, tree, sync, jobs, worker, given>>

\* The auto-rewrite window passes, or is made shorter.
Expire ==
    /\ Happens
    /\ db' = [f \in DOMAIN db |-> [db[f] EXCEPT !.recent = FALSE]]
    /\ UNCHANGED <<window, store, disk, list, tree, sync, jobs, worker, history>>

Alive == window \notin {"gone", "undefined"}
Worker == Take \/ Hash \/ Judge \/ Bump \/ Report \/ Exit
User ==
    \/ \E d \in Folders : PickFolder(d) \/ OpenFolder(d)
    \/ Rearrange \/ StartSync \/ Answer \/ Dismiss \/ Close
SyncStep == SyncHash \/ SyncRow \/ SyncDone

Next ==
    /\ Alive
    /\ Open \/ User \/ SyncStep \/ ShowPicked \/ ShowVerdict \/ Worker \/ Destroy \/ Joined \/ Change \/ Expire

\* The worker is a thread, a handler runs to its end, and the event loop runs what was posted; the
\* user need not do anything, not even answer a dialog.
Fairness ==
    /\ WF_vars(Open) /\ WF_vars(Alive /\ Worker) /\ WF_vars(Alive /\ SyncStep)
    /\ WF_vars(Alive /\ ShowPicked) /\ WF_vars(Alive /\ ShowVerdict)
    /\ WF_vars(Alive /\ Destroy) /\ WF_vars(Alive /\ Joined)

Spec == Init /\ [][Next]_vars /\ Fairness

-----------------------------------------------------------------------------
(* Properties *)

(* At most one job of an earlier listing is under way when the counter is    *)
(* set for a new one, so it never goes further than one below zero.          *)
TypeOK ==
    /\ disk \in [Files -> Digests \cup {None}]
    /\ DOMAIN db \subseteq Files /\ Range(db) \subseteq Record
    /\ work \in {"idle", "run", "sync", "ok", "err"}
    /\ pending \in -1..Cardinality(Files)
    /\ Cardinality({r.file : r \in Range(rows)}) = Len(rows)

(* However listings, verdicts and Sync cross, a row shows a verdict only if  *)
(* that verdict was once recorded for its own file: a verdict that arrives   *)
(* after the rows were sorted or another folder was listed is not put on the *)
(* row that now has its number.                                              *)
StatusOnRightRow ==
    \A i \in DOMAIN rows : rows[i].status \in Verdicts => rows[i].status \in given[rows[i].file]

(* The work icon does not turn for ever: verification of a listing comes to  *)
(* an end whatever the user does meanwhile, although the counter may be off  *)
(* by a job of an earlier listing.                                           *)
RunSettles == work = "run" ~> (work # "run" \/ window \notin {"opening", "open"})

(* The folder picked last in the tree gets listed, also when several were    *)
(* picked before the posted call ran.                                        *)
PickedFolderIsListed ==
    \A d \in Folders : picking /\ picked = d ~> (folder = d \/ picked # d \/ window # "open")

(* A window that is closed gets rid of its worker.                           *)
CloseEnds == window \in {"closing", "joining"} ~> window \in {"gone", "undefined"}

(* The dialog's third answer is "Ignore (keep conflict)": the file does not  *)
(* count as good again unless it changes or a later Sync resolves it.        *)
ConflictIsKept == \A f \in ignored : f \in DOMAIN db => db[f].status # "Ok"

=============================================================================
