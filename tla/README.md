# TLA+ models of reflash

reflash rewrites every block of a drive in place so that the medium refreshes its charge, hashes the
files afterwards, and keeps a manifest database of what it found. It is a C++ program with a wxWidgets
window and a headless mode. This directory models the parts of it in which several threads, several
programs or a long sequence of steps have to agree, and the parsers that decide what is rewritten, checks
them with TLC and proves the core with TLAPS.

    tlc -config EngineRun.cfg MassageEngine.tla        # one line per run, see "Runs"
    tlapm MassageEngine_proofs.tla                     # and Listings and every other ..._proofs module

Source paths below are relative to the program's `src/` directory (`engine/massage.cpp`, ...).
`PROJECT.json` maps every definition to the lines it models, and lists the hazards, each at its line.

## Inventory

| Component | State | Operations | Works with | What makes it correct | Module |
|---|---|---|---|---|---|
| Massage engine (`engine/massage`, `engine/pause`) | `running_`, `exit_code_`, `PauseControl` (paused, stop), worker and sync thread | start, set_options, pause, resume, stop, join; `run_inner`: prepare, scan, ranges, flush, SHA-1, restore, finish | called by window or `main`; writes Progress; calls block rewrite, mounts, scanners, store | one worker at a time; pause and stop take effect within a block; a success has rewritten everything; everything that is joined ends | `MassageEngine`, `RunLifecycle`; the plan: `Scan` |
| Progress (`engine/progress`) | cells, byte counters, phase, `finished_`, `failed_`, `input_locked_`, `paused_` | reset, mark, promote, log, snapshot | written by worker and sync thread, read by the window's timer | what is shown is what happened | both above and `RewriteRange` |
| Block rewrite (`io/block_io`) | position, `cached_from/to`, errors | `rewrite_range`: read, write, verify, poll | Device, PauseControl, Progress | covers its range once; a block is green only when it is on the medium; bad blocks are never lost | `RewriteRange` |
| Device, page cache (`io/device`, `io/page_cache`) | descriptors, alignment, cache mode | open, read, write, fdatasync, residency probes | kernel | writeback errors reach somebody | `RewriteRange` |
| Mount handling (`mount/automount`) | recorded mounts, temporary mounts | find mounts, ensure_unmounted, prepare_sha1_mounts, restore_mount_state, browse mounts, eject | kernel mount table, udisks, FUSE helpers | nothing is mounted during the rewrite; the mounts found are the mounts left behind | `MountCycle` |
| Catalog (`db/store`) | SQLite tables device, volume, folder, file, object, extents, meta; one mutex per connection | upsert, bump_*, set_sha1, list, delete, extents, meta, validate | the engine and the window each have a connection to the same file | no lost digests, no rows without a folder, bad extents kept | `Catalog` |
| SHA-1 pass (`engine/sha1_pass`) | list of files | walk, hash, store | mounts, store | every file of the list is hashed | `MassageEngine`, `Catalog` |
| Manifest browser (`gui/browser`) | rows, generation, queue, pending count, work icon, worker thread | list, sort, verify, Sync, close | window's store connection, mounted tree | verdicts reach their own rows; nothing hangs; the user's answers last | `Browser` |
| Main window (`gui/main_frame`) | target, database, engine, timer, `paused_`, `running_ui_` | start, pause, stop, timer, open/close target and database, eject, validate, format, preferences | everything | the controls offered are those that are safe | run control in `MassageEngine` |
| Headless front end (`main`, `options`) | options | parse, start, poll, exit | engine | exit status is the outcome | `MassageEngine` |
| Partition tables (`io/partition`) | none (a parser) | `probe_partitions`: MBR, GPT | Device; called by the run | every partition found, none invented, sizes at 32 bits | `Partitions`, `Scan` |
| Filesystem scanners (`fs/*`) | none across volumes; ext: the inodes seen | `detect_fs`; `scan_fat`, `scan_exfat`, `scan_ntfs`, `scan_ext` | Device; called by the run | all that files own and nothing else; no endless walk; one bad volume costs no other | `Fat`, `ExFat`, `Ntfs`, `Ext`, `Extents`, `Scan` |
| Privileges (`mount/host_priv`, `mount/userns`, `mount/fuse_user`, first lines of `main`) | `g_gui`, `g_pid`, `g_mu`, two pipes, the namespace; the agent's copies | start agent, enter namespace, request/answer, pkexec and sudo fallbacks | kernel, pkexec, sudo; window's dialog, run's worker | one true answer per request; no prompt nobody sees; nobody waits for the dead | `Privileges`, `Asking` |
| Drive listing, window parts, packaging | - | - | - | - | not modelled |

Hard behaviours: three threads (window, worker, sync) sharing flags that are read one by one; handlers
that test and then act; a page cache that reports write errors late and to somebody else; mounts that
other programs change at the same time; two database connections without transactions; a second worker
thread in the browser whose results arrive after the list has changed; windows that close before their
worker ends; a forked agent that may die in any step of a call; on-disk links that lead back, past the
end, or to a sector that cannot be read.

## Plan

1. *Done, models:* the run (`RunLifecycle`, `MassageEngine`), the data path (`RewriteRange`), the mounts
   of a run (`MountCycle`), the manifest (`Catalog`), the browser (`Browser`), the plan of a run
   (`Partitions`, `Fat`, `ExFat`, `Ntfs`, `Ext`, `Scan`), the privilege agent (`Privileges`, `Asking`).
2. *Done, proofs:* `MassageEngine_proofs`, `Privileges_proofs`, `RewriteRange_proofs`,
   `MountCycle_proofs`, `Browser_proofs`, `Catalog_proofs`, `Scan_proofs`, and `Listings`, lemmas they share.
3. *Next, models:* the window's database and target life (open, close, eject, the validation dialog with
   its pause and cancel) composed with `Browser`; browsing mounts and safe removal (`automount.cpp`).
4. *Next, proofs:* those of the models above, with them; every safety property a run checks today has one.

Composition: `MassageEngine` implements `RunLifecycle` (refinement mapping `phase`, `outcome`);
`Privileges` implements `Asking`. `MassageEngine` reduces the plan and the data path to a number of blocks
and the mounts to one step; `Scan`, `RewriteRange` and `MountCycle` are those steps in detail, with the only
interference that reaches them (stop; other programs' mounts). `Scan` composes `Partitions` with one
instance of each scanner. `Catalog` takes the calls that the engine and the browser make; `Browser` takes
each call as one step.

## The modules

**RunLifecycle** is the promise: a run begins, may be asked to stop, publishes one outcome, is
acknowledged; a stopping run ends and an ended run is noticed.

**MassageEngine.** `ui` and `worker` are program counters of the front-end thread and of `run_inner`.
A handler that touches several shared variables is several actions, one per access: `PauseClick`,
`PauseSet`, `PauseProg` are the three steps of `on_pause`; `TimerSnap`, `TimerDecide`, `TimerJoin` those
of `on_timer`; `Boundary`, `Held`, `StopCheck` are the reads of `wait_if_paused` and `should_stop`. The
worker goes Prepare, Scan, blocks, FlushCheck, FlushLock, FlushPoll, SyncJoin, Unlock, Sha1Check,
Sha1File, Restore, Finish, WorkerExit, WorkerLeave; the last three are separate because `finished_` is
published before the exit code is stored and `running_` is cleared. `Refuse` is `rewrite_range` giving
up before its loop. Both front ends are initial states.

**RewriteRange.** A block goes through read, write (buffered, direct or synchronous), fdatasync, verify
and mark, each an action that may fail, and `pos` moves on; polls promote cells by what the cache holds; the
kernel writes back dirty bytes at any time and may fail, which the next `fdatasync` reports once (the
`wait_flushed` before a verification, `io/block_io.cpp:177`, does not look at it). The
module keeps the map (`cells`, `cellSize`) exactly as `Progress` computes it, including one cell for
several blocks and offsets beyond the map. Ranges may overlap: `seen`, `good` and `errs` count a byte once
for each range that holds it, and what is said of the colour or the medium is said of bytes of one range
(`Once`), since a second range may write to the byte again. `Sync` and `Upgrade` are the full-disk sync;
`HashFile` is what the SHA-1 pass does to map and counter (one is added for each file), and `Finish` is
`set_finished`, which sets the counter of a run that did not fail to the total. `rc` is 1 from the start
when a probe or a scan failed, whose work list may be empty. A `-t` run rewrites nothing and is not here.

**Partitions, Extents, Fat, ExFat, Ntfs, Ext, Scan.** How a run decides what to rewrite. A device is a
constant record of the fields the parsers read (MBR and GPT entries, boot sectors, FAT, records, inodes,
directory entries, extent nodes, units that cannot be read); the parsers are operators, one per function
of the code. `Scan` is the first half of `run_inner` as actions: `PlanLinear`, `PlanJobs`,
`RewriteUnknown`, `StartScan`, then `EnterDirectory`, `TakeEntry`, `LeaveDirectory` (the scanners'
recursion as an explicit `stack`, `seen` the inodes `scan_ext` remembers), `FinishScan`, `PlanDone`. A unit
is a sector; the constants `Word`, `SectorBytes`, `EntryBytes` keep the proportions of the 32-bit products.
Sizes that cannot wrap are plain naturals. The recursions of ext (`NodesBelow`, `collect_indirect`) are
recursive functions over the level; `TreeDepth` bounds the nodes below an inode's own, which the code does not.

What `Scan` assumes of its constant `Devices` are four assumptions, each evaluated by TLC on the devices of
run scan. `DevicesAssumption`: the fields of a device have their types, and no run of an NTFS record begins
before the volume. `WholeVolumesAssumption`: what "whole" means, one directory at a time and without the
walk: what the entries of a closed set of directories (`IsTree`) name holds all files of the volume,
and for some such set nothing that is free, and nothing twice (`NamedOnce`: no unit but the boot sector of NTFS, and
no directory either but in ext, where hard links do). `TablesAssumption`: the files of a whole volume lie on the
device, in one partition; partitions lie apart and begin at different places; a volume has the room of its partition unless
the partition is a logical one. `DepthAssumption`: directories that do not
lead back to themselves have ranks (FAT, exFAT), or are no more than the stack has room for (ext).

`files` are the units that files and directories have allocated and, on ext, written to; it is given with the volume
and not computed from what the scanners read, so that a scanner can miss some. Where the code does, on a volume
that is healthy, the volume has a quirk, and the properties name the quirks they leave out: files of 4 GiB with
inodes of 128 bytes ("large", the high word of the size is dropped, `fs/ext.cpp:174`), exFAT files with
less valid data than clusters ("prealloc", `fs/exfat.cpp:151`), long contiguous directories, split `$MFT`s, and so
on: the list is at the head of `Scan`. One part of `FilesAreCovered` needs none of this: `SuccessMeansWalked`
speaks of every device, healthy or damaged, and of what its structures name.

**Privileges** has three processes: the program's first steps (`set_host_priv_gui`,
`start_host_priv_agent`, `ensure_user_mount_ns`, `Booted`), the dialog's thread and the worker's, and the
agent. `req` and `rep` are the two pipes, `own` what the fork copied, `g_mu` is `mutex`. The reply is two
messages, head and body, as the agent writes them; what the client reads is whatever comes next. The agent
may be killed in any step (`AgentKilled`), its command then outlives it (`OrphanEnds`), and the program may
leave at any point (`ProgramLeaves`). **Asking** is what a caller of `run_privileged_script` relies on.

**MountCycle.** The mount table is a sequence in mount order; a path reaches the last mount that covers
it. `ensure_unmounted`, `prepare_sha1_mounts` and `restore_mount_state` are loops over the recorded
mounts, one mount per step, each of which may fail; a busy filesystem is detached lazily; another program
may mount the target whenever the device is not held. What is mounted again is not what was recorded: of the options
only ro or rw is passed on (a mount is `bare` when it has no others: `noexec`, `uid=`, `subvol=`, ...), and
the last record is mounted first (`LastFirst`). `RestoredUnlessFailed` therefore says what does come back, device,
path and ro or rw, in which order; that the order hides mounts is run mounts_hidden.

**Catalog.** Each SQL statement that writes is one action, since nothing in `db/store.cpp` opens a
transaction; reads are part of the step before. `op` holds what each connection's call still has to do.
A record is reduced to its digest. `Crash` may come between any two statements, and any statement may
fail. There are two kinds of failures. After those the code looks at, the method gives up (`StatementFails`).
The others it does not notice (`FailureIgnored`, `Misread`): the INSERTs of the volume and the root folder and
the write of `current_vol_id`, after which the method goes on with whatever `sqlite3_last_insert_rowid` returns
(`StaleIds`), and SELECTs, whose failure reads as "no such row": a volume or a root is made again, a digest is not
found, children are not deleted. `unnoticed` remembers one of these. `TypeOK`, `TreeIsWhole` and `TablesAreAMap`
claim nothing afterwards, as the code does not keep them then; `DigestIsKept` holds all the same.
A SELECT fails at the beginning of a call, or for the children of a folder inside `delete_folder`; those that a nested `delete_folder`
makes of volume and root, and the INSERT of the device (whose id nothing here refers to), do not fail.

**Browser.** The interface thread runs handlers (`PickFolder`, `OpenFolder`, `Rearrange`, `StartSync`,
...) and posted calls (`ShowPicked`, `ShowVerdict`), the latter also from within Sync's dialogs. The
worker is `Take`, `Hash`, `Judge`, `Bump`, `Report`: the shared accesses of `worker_main`. `set_sha1` and
`bump_verify` after "Overwrite" are one step, because a worker's call between them is overwritten by the
second. `window = "undefined"` is undefined behaviour of the code; nothing happens after it.

## Runs

| Run | Module, cfg | Result | Shows | Bounds |
|---|---|---|---|---|
| engine_run | MassageEngine, EngineRun | pass, 264 thousand states | invariants, refinement of RunLifecycle, every run/stop/quit/headless exit ends | 2 blocks: a pause or stop can fall before, between and after; 1 file |
| rewrite_range | MCRewriteRange, RewriteRange | pass, 1.1 million | map, counter, bad extents and media stay related; loop ends | nothing to rewrite, 3 bytes whole, two partitions of 2 with a gap, two extents of a file out of order, or a boot sector listed twice; block 1 or 2, alignment 2, 3 cells: short last block, shared cells, unaligned and overlapping ranges, offsets past the map |
| rewrite_sync | MCRewriteRange, RewriteSync | violated | the end of the final sync turns cells green whose bytes the medium never took | same lists, block 2 |
| mount_cycle | MCMountCycle, MountCycle | pass, 1975 | unmounted for rewrite, read-only for hashing, mounted again unless a step failed | no mount, one, side by side, nested, stacked, with other options; foreign mounts, also one inside the other |
| mounts_hidden | MCMountCycle, MountsHidden | violated | the outer of two nested mounts comes back over the inner one | same tables |
| catalog | MCCatalog, Catalog | pass, 2.8 million | tree whole, tables a map, no digest cleared, no orphan extents | a file two folders deep (folder recursion), one special path, 1 run, 1 browser call, 1 fault, stale ids 0 and 1 (none, and one in use); 2 runs pass too, with 12.3 million states |
| catalog_extents | MCCatalog, CatalogExtents | violated | a later extent erases the bad extents of an earlier one | 2 work items of one file |
| browser | MCBrowser, Browser | pass, 790 thousand | verdicts on their rows, icon settles, last pick listed, closing ends | 2 folders, 1 file each, 2 digests, 2 events (listing, Sync, change, expiry) besides the first listing, closing at any time |
| browser_conflict | MCBrowser, BrowserConflict | violated | "keep conflict" is forgotten | 1 file, 1 event |
| scan | MCScan, Scan | pass, 103 thousand | files covered or failure told, free space left alone, nothing planned twice, the walk ends | volumes of 5 clusters, 8 records, 13 blocks (one level of extent nodes, a stack of 5 directories) in every layout of two files and two directories; the quirks; one FAT entry, record, node or directory entry wrong; every single unreadable unit; alone, every pair behind MBR and GPT, and in a logical partition |
| ext_symlink | MCScan, ScanSpecial | violated | an ext4 volume with a short symbolic link or device file cannot be scanned | 3 shapes of a file |
| priv | Privileges, Privileges | pass, 7.3 thousand | one true answer per call, no hidden prompt, nobody waits for ever | 2 requests: what the first leaves in a pipe can reach the second |

The bounds are small, but at each of them the case a property is about happens: the mutant of the
property is found under the same cfg, and the passing runs together take every action. Deadlock is not
checked: in every model the system may end, or the bounded calls and events are used up.

Each property of a passing run has a mutant in `PROJECT.json`, a variant of a definition kept in the
module next to it ("the variant ..."): a plausible bug under which TLC finds the property violated.

### Fairness

- `MassageEngine`: weak fairness of the worker, the sync thread and of a handler once begun: threads run
  and handlers do not wait for the user. Strong fairness of `TimerSnap`: the 50 ms timer fires again and
  again, but only between handlers. No fairness of the user: a paused run may stay paused for ever
  (`RunEnds` says so).
- `RewriteRange`: weak fairness of the worker; writeback has none.
- `Browser`: weak fairness of the worker, of posted calls, of Sync's own steps and of the window's
  destruction; none of the user, not even to answer a dialog.
- `Privileges`: weak fairness of the dialog's thread, the worker and the agent: they run, and a prompt is
  answered or dismissed in the end (pkexec and sudo time out). None of the user, of deaths or of leaving.
- `MountCycle`, `Catalog`, `Scan`: safety only, no fairness. That the walk of `Scan` ends is stated as the
  depth it never exceeds: `WalkEnds` and finite directories.

## What is proved

`MassageEngine_proofs` proves, for every number of blocks and files (`EngineAssumption`: both are
naturals), that every invariant of engine_run holds, and that the engine's initial states and steps are
those of RunLifecycle or stutter (`ImplementsLifecycle`).

None of the properties is inductive alone. `IInv` adds what the code keeps but does not say:
`ThreadInv` (`running_` exactly while the worker is inside), `LoopInv` (blocks are left while in the loop,
the sync thread exists only around the flush), `BoundaryInv` (where a pause or stop finds the worker,
counted in blocks begun since), `PauseInv` (which copies of the paused flag agree at which step of which
handler), `OutcomeInv` (`rc`, exit code, `finished_` and `failed_` at each step of the end of a run),
`TimerInv` (the timer joins only a finished run) and `HeadlessInv`. `StepIInv` has a step per action.
The theorems follow with `PTL`.

`Privileges_proofs` proves, for every number of requests, `TypeOK`, `PromptsAreSeen` and that Privileges
implements `Asking` (`ImplementsAsking`: `Spec => CallSpec`). Its `IInv` follows one request: `QuietInv`
(between calls the pipes are empty unless the agent died before it read), `HeadInv` (while a head is waited
for, the request is in the pipe, with the agent, or on its way back: `Sent`, `Worked`, `HeadBack`,
`BothBack`), `BodyInv`, `RanInv` (a script that outlived its agent is not run again; a 0 is told only of one
that has run), `BootInv` and `WindowInv` (what the order of the first steps of `main` gives). `Pipes`,
`PipeSecond` and `RanAppend` are the facts about sequences it rests on.

`RewriteRange_proofs` proves, for every work list, block size and alignment, `Accounting` (with
`ThroughIsDurable`), `MapMovesForward`, `ColoursAreTrue`, `TypeOK` and `ProgressIsExact`. They assume
only `RangeAssumption` (ranges, sizes and the alignment are positive); the ranges may overlap, as those of every
NTFS volume do. The invariants behind them:

- `LoopInv`: inside a range `pos` lies between its ends, and whatever was gone through for a range belongs to
  an earlier one or is before `pos` in this one. So no block of a range is gone through twice (`BlockIsNew`), and
  of bytes of one range only, what happens to the block at hand cannot undo what was said of the ones behind it
  (`HereIsNew`).
- `CompleteInv`: everything before `pos` was gone through, and the last probe comes at the end of the range,
  because no block is empty (`ChunkIsSome`: the block size is a multiple of the alignment where it is cut).
- `DurableInv`: after its writes the block at hand is on the medium, or an error is waiting for the next
  `fdatasync`.
- `CleanInv`, `BlueInv`, `CellInv`: where the worker flushes each block, a good one is clean; otherwise the
  blocks cached since the last promotion start and end with cells, no cell is blue or green but for a block
  gone through, and none is green for a dirty one that is alone in its range (`Stale`). The key lemmas are `OwnUnits` (the
  cells of whole blocks of this range hold no unit of another, where cells are `Alone`) and `PromoteKeepsTrue`.
  `Below`, `Monotone` and `OneCell` are the facts about division that replace a fixed cell size.

`TypeOK` and `ProgressIsExact` need what the recursive `LengthOf` and `CellSizeFor` compute. For `LengthOf`
that is `TotalCounts`: the number of pairs of a range and a byte of it; a
least counterexample takes the place of induction. `CellSizeType` says that the doubling of `CellSizeFor`
ends with as many cells as fit. `ProgressIsExact` then counts what was gone through (`BlockCounted`, `CountInv`),
follows the cells ahead of the worker (`PendingInv`), and `PastInv` says that a run that is to succeed went through
its whole list, so that none of its cells is left pending and the total that `set_finished` claims is
what was done. `ProgressIsExact` speaks of the cells and bytes of the list: the map of an empty list has one cell, which
nothing ever paints, and its total is 1.

`MountCycle_proofs` proves every property of run mount_cycle, for every set of tables, device and set of
foreign mounts (`MountAssumption`: a path below another is longer, tables hold mounts, the temporary
mount is read-only). A loop of umounts works by path, and which mount a path reaches depends on what
covers it, so the mounts taken off are not the recorded ones one by one. The invariant counts instead:
each mount still in the table has an entry of the queue of its own with its path (`Matching`). At the end
of a loop that never failed the table is therefore empty (`UnmountInv`, `UndoInv`), and as the queue goes from long paths to
short ones (`LongFirst`), nothing lies below its first entry. `ForeignInv`, `ReadOnlyInv` and `ActiveInv` are what the
later phases keep of that; `RemountInv` says that table and queue together are the records in reverse order, each
as `remount_records` mounts it. `Listings` has the facts about listing a finite set in a sequence.

`Browser_proofs` proves `TypeOK` and `StatusOnRightRow` for every set of folders, files and digests and every
number of events (`BrowserAssumption`). The generation is what makes it work: a queued row, a job and a
posted verdict name the file of their row as long as their generation is the current one (`QueueInv`,
`JobInv`, `PostedInv`), and every handler that changes the rows (`RowsInv`) also takes a new generation or
leaves them in place. `PlainTypes`, `DbInv`, `CountInv` and `SyncInv` are what the other actions must keep for that.

`Catalog_proofs` proves `TypeOK`, `TreeIsWhole` and `DigestIsKept` for every set of paths and every work list
(`CatalogAssumption`: the files are finitely many, paths are not empty, special ones have one part).
`DigestIsKept` is proved of every step, after any failure. The others hold until a failure goes unnoticed
(`SoundTables`, `Remembers`), and so do the invariants behind them.
`TablesInv` and `OpsInv` say what rows and calls refer to. `TypeOK` has the hard part, `delete_folder` while the other connection inserts
folders (`Recursion`): ids are reused, a folder may become its own ancestor, and the list of children a
call works through may be out of date; but only for a call whose folder is deleted again further in, and
the inner call still has to delete the child that led from the outer one to it. `TreeIsWhole` is kept by
`Whole`, as long as calls did not overlap: one call at a time, on the current volume, at a folder that
exists; and a call that deletes a folder knows all its children.

It also proves `TablesAreAMap` and `CompletedCallsLeaveNoOrphans`; here `CatalogAssumption` also
says that the marks for "no digest" and "no record" are no digests. `Walk` is a recursive function, and
`WalkSteps` and `WalkOn` say what it returns; a shortest counterexample (`ShortestOf`) takes the place of
induction over paths. `WalkInto`: two paths that lead to the same folder are the same path, as a row names
its parent and no two rows are equal; so different paths have different keys (`KeysApart`). A new folder
is at the end of no earlier walk and a deleted one holds no record and no folder (`FolderGrows`, `WalkGrows`,
`FolderShrinks`, `WalkShrinks`), so no key of a record moves. `MapInv` adds what a call on its way must keep:
the folder it stands at is where the part of the path behind it leads (`OnItsWay`), and the digest it
brings is its own or the one still stored (`Brings`). For the extents `LinksInv` follows who will
store the missing record: the next call of the run, a `bump_massage` in progress, or nobody, because a
`delete_file` is about to delete the extents; `Followed` says that the run calls `replace_extents` only
before `bump_massage` of the same path.

`Scan_proofs` proves, for every set of devices, every geometry and every depth of the stack, `TypeOK`,
`FilesAreCovered`, `FreeSpaceSkipped`, `PlannedOnce` and `WalkEnds`, under the four assumptions above. Its first half is about the scanners: whatever a disk says, each answers with extents
(`FatEnterType`, `ParseType`, `CollectIndirectType`, `DecodeType`, ...), and a chain takes no cluster twice
(`OrderlyTurn`: the clusters visited are different, and the units of different clusters are apart), so that an
object names no unit twice even on a damaged volume. Each scanner is a fold; the argument that a fold
stays in a set of states is made once per fold, as a theorem about folds with an operator for a parameter
cannot be instantiated. Its second half is about the walk. `Known` is what was found and what the rest of the
entries on the stack name, `Pending` the directories to be entered or named on the stack; entering,
taking and leaving only move between the two (`WentIn`, `PassedOver`, `OneTaken`, `Left`).

- `PlanInv`: the types of the plan; what is on the stack are entries of this volume, and the stack is
  empty between volumes. With it goes `ObjectsApart`.
- `CoverInv`: what was entered, with what is pending, is closed under "names" (`Searching`), so that at the end of a
  walk it is a readable tree, of any device, and holds all files of a whole volume (`WholeScan`); a volume that can be read is never given
  up (`Sure`); and a base whose turn is over is in the plan, with the whole tree or the whole room, or the run will say that it failed
  (`Settled`). `AddRangesCovers`: the plan of a volume covers exactly what was found.
- `FreeInv`: a walk never leaves the tree that the root is in (`Within`), so that nothing free is found, and
  what is found stays in the room of its volume, where other volumes plan nothing (`FreeKept`, `SideBySide`, `OnItsOwn`).
- `DepthInv`: the directories on the stack of a FAT or exFAT walk have rising ranks; those of ext are
  different (`seen`), and only readable ones are pushed (`DeepOK`).
- `OnceInv`: what was found, and what each list on the stack names, are disjoint (`ApartLists`), and all of it
  is owned by the directories entered so far (`EnteredOnce`). A directory entered next is none of those: in
  ext because it is not in `seen`; in FAT and exFAT because the directories that are pending are named by the
  root and by those entered, each once, and are none of those entered. So what it names is new (`OnceWentIn`),
  and at the end of a walk the objects are apart (`Distinct`), but for the boot sector of NTFS. Bases that wait are different, and nothing is
  planned in their rooms yet (`PlannedApart`); adding ranges that are apart keeps a plan apart
  (`AddRangesCovers`). What `NamedOnce` assumes is about the disk, one or two directories at a time; that the
  walk, which forgets what it has left, keeps to it is what is proved.

Only model-checked: liveness (the prover has no ENABLED).

## Where code and text disagree

The five violated runs, detailed under "findings" in `PROJECT.json`: errors of the final sync dropped; nested
mounts put back over each other; bad extents erased extent by extent; a conflict kept by the
user forgotten; ext4 volumes with short symbolic links or device files that cannot be scanned.

Seen while modelling, and written into the properties as exceptions:

- A cell that stands for several blocks, or for the ends of two ranges, is green as soon as one of them is
  flushed (`engine/progress.cpp:107`; `progress.hpp:19`: "flushed to media (green)"): TLC refutes
  `GreenMeansFlushed`, and `OwnCellsFlushed` of `ColoursAreTrue` speaks of blocks with cells of their own.
- A refused unmount of the second mount returns without restoring the first (`engine/massage.cpp:118`;
  `man/reflash.adoc:41-43` promises it): `RestoredUnlessFailed` exempts `refused`.
- A busy filesystem is detached lazily and stays live under the rewrite: `UnmountedForRewrite` speaks of the
  mount table, `IdleUnmountsPlainly` of what is not in use.
- A run with nothing to rewrite leaves the one cell of its map pending for ever
  (`engine/progress.cpp:38-41`, `engine/massage.cpp:277`): `ProgressIsExact` speaks of the cells of the list.
- A run that succeeds shows all bytes as done (`engine/progress.cpp:211`) even where it skipped every range
  because verifying needs O_DIRECT and there is none (`io/block_io.cpp:110-115`): `ProgressIsExact` excepts it (`Skipped`).
- Headless, SHA-1 is skipped without `-d` when `--gui` fell back (`-g -t`, or no display): `opts_.gui` stays set
  (`engine/massage.cpp:144`; `man/reflash.adoc:43`: "always in headless mode"). `Config` has it, no run asks about it.
- Mounts come back without any option but ro or rw (`mount/automount.cpp:571-584`; `man/reflash.adoc:41-43`: "restored
  afterward"). Nested ones are also put on read-only for SHA-1 in reverse order; the inner mount is hidden then, its
  files are not hashed, and its umount afterwards, innermost first, fails.
- A contiguous exFAT directory is planned to the end of the cluster heap, free clusters included
  (`fs/exfat.cpp:58`; `README.md:27`, `man/reflash.adoc:39`: free space is skipped): quirk "contiguous".
- An extended partition of an MBR is one range of no known type, and rewritten whole, with the free space of the
  volumes inside (`io/partition.cpp:95-109`, `engine/massage.cpp:236-249`; `README.md:26-27`,
  `man/reflash.adoc:38-39`): quirk "logical", which `FreeSpaceSkipped` excepts and `FilesAreCovered` does not.
- The boot sector of every NTFS volume is planned twice, as `::boot` (`fs/ntfs.cpp:178-182`) and with the file
  $Boot, record 7 (`fs/ntfs.cpp:229-257`): `PlannedOnce` excepts this unit, `RewriteRange` has such a list.
- Files of 4 GiB and more are cut with ext inodes of 128 bytes (`fs/ext.cpp:174-176`), preallocated contiguous exFAT
  files are planned up to their valid length only (`fs/exfat.cpp:151`): quirks "large", "prealloc".

## Known to be outside the properties

Each is listed under "hazards" with a note, or follows from the code as modelled:

- Two calls that overlap on the two connections can leave rows without a folder; the engine's connection
  is open during a run and the window does re-enable Browser and Validate then. `TreeIsWhole` and
  `TablesAreAMap` therefore speak of calls that do not overlap, `DigestIsKept` of all.
- In recursive mode the scan's upserts reset the counts of all records (also with `-t`); `delete_folder`
  leaves extents behind.
- A browser closed together with the database may still call the store; a posted listing may clear the
  rows under a Sync of the whole list: both are undefined behaviour and reachable in `Browser`.
- Sorting or zooming drops the verifications of the listing; the icon may stop one file early; a job in
  flight may overwrite what Sync has just stored or bring back a record it deleted.
- A mismatch replaces the reference digest also in the SHA-1 pass (`bump_verify` with the new digest), so
  a second `-t` finds nothing; and a mismatch does not change the exit status.
- After a failure the code does not look at (`db/store.cpp:617-632`, `646-653`, `1275`) rows may refer to volumes and
  folders never given, records may not be found under their path, and children of a deleted folder may stay.
- A refused `rewrite_range` counts as success; a stop during the SHA-1 pass is not honoured.
- Cells are indexed by device offset while the map is as long as the sum of the ranges; a file that cannot
  be hashed paints cell 0.
- Scans: an exFAT directory's entries beyond its FAT chain ("long"), those behind a block of block numbers
  (ext2/3, "indirect"), an `$MFT` whose record 0 does not tell all its parts ("splitMft"), and boot code
  that reads as a partition table ("table") are missed; a FAT or exFAT directory that leads back to itself
  ("cycle") uses up the stack, as `scan_fat` remembers no directory; a boot sector with no bytes per sector
  or an ext superblock with no blocks or no inodes per group divides by zero. The
  cluster chain of a damaged exFAT volume may lead into the volume behind it, so that free space and "twice" are
  only spoken of on devices all of whose volumes are whole. The root directories of
  FAT and exFAT, and the exFAT bitmap and up-case table, are never rewritten in recursive mode.
  `table_end` of a GPT wraps at 32 bits while the entries are read with the full product.
- Privileges: the agent's own sudo fallbacks cannot be reached, as only the window sends requests;
  `--gui` without a display never falls back to sudo for mounts, since `g_gui` is set before the display is
  looked for.
- The device is opened without O_EXCL, so an automounter may mount it during the rewrite; restoring
  unmounts whatever is mounted then.

## Not modelled

Drawing, logging, rate and ETA, preferences and menus, drive listing, packaging: no state the properties
depend on. Browsing mounts, eject and safe removal, formatting and the validation dialog: planned above.
Within `Catalog`: schema migration, legacy import, the PRAGMAs of validation, meta other than the volume.
Within `Browser`: folders in Sync, the tree's contents, icons, settings. Within `Scan`: names, times and
sizes that only the manifest keeps; integers wider than the device that wrap at 64 bits; NTFS attribute
lists (the code reads none). Within `Privileges`: what the script does, uid maps, SIGPIPE beyond "the write
fails or ends the program". Opening a device and its size come from outside.
