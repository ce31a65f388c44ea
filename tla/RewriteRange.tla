----------------------------- MODULE RewriteRange ---------------------------
(***************************************************************************)
(* The data path of one run: rewrite_range over the work list, block by    *)
(* block, the map of cells it paints and the counter beside it, the page   *)
(* cache it leaves blocks in, the full-disk sync that ends a buffered run, *)
(* and the end of the run.                                                 *)
(*                                                                         *)
(* Offsets and lengths count bytes, of which the model has few.  A byte of *)
(* the page cache is dirty, or it has been written back, or its writeback  *)
(* failed: the kernel then drops it (it is lost) and tells the next        *)
(* fdatasync.  The ranges of a work list may overlap, as those of an NTFS  *)
(* volume do (its boot sector is listed twice), so what was gone through   *)
(* is counted by range.  Pausing is module MassageEngine's; here a block   *)
(* boundary only looks at stop.                                            *)
(***************************************************************************)
EXTENDS Naturals, Sequences, FiniteSets

CONSTANTS
    WorkLists,  \* work lists: sequences of records [off, len]
    BlockSizes, \* block sizes in use
    Align,      \* Device::direct_align_
    MaxCells    \* the 4096 of Progress::reset

ASSUME RangeAssumption ==
    /\ \A w \in WorkLists : w \in Seq([off: Nat, len: Nat \ {0}])
    /\ BlockSizes \subseteq Nat \ {0}
    /\ Align \in Nat \ {0}
    /\ MaxCells \in Nat \ {0}

VARIABLES
    list,       \* the work list
    flags,      \* RewriteFlags, and whether the target has O_DIRECT
    size,       \* resolve_block_size
    cellSize,   \* Progress::cell_size_
    cells,      \* Progress::cells_
    done,       \* Progress::bytes_done_
    total,      \* Progress::bytes_total_
    stop,       \* PauseControl::stop_
    pc,         \* where the worker is
    item,       \* index of the range being rewritten
    pos,        \* next offset
    cached,     \* have_cached, cached_from and cached_to
    errs,       \* BlockIoResult::errors, by range
    rc,         \* run_inner's rc: 1 when a partition probe or a scan failed
    dirty,      \* page cache: written, not yet written back
    lost,       \* written back with an error
    eio,        \* an error fdatasync has not reported yet
    seen,       \* history: what was gone through, as pairs of a range and a byte
    good        \* history: what was marked without error, likewise

progress == <<cells, done>>
setup == <<list, flags, size, cellSize, total>>
media == <<dirty, lost, eio>>
vars == <<setup, progress, stop, pc, item, pos, cached, errs, rc, media, seen, good>>

-----------------------------------------------------------------------------
Units(off, len) == off .. (off + len - 1)
EndOf(e) == e.off + e.len
CeilDiv(a, b) == (a + b - 1) \div b

Failures == {"ReadErr", "WriteErr"}
CellStatus == {"Pending", "Ok", "Cached"} \cup Failures
Extents == [item: Nat, off: Nat, len: Nat \ {0}, status: Failures]

(* Progress::reset, of a byte when there is nothing to rewrite: cells of one *)
(* block, doubled until there are at most MaxCells of them.                  *)
LengthOf(w) ==
    LET sum[i \in 0..Len(w)] == IF i = 0 THEN 0 ELSE sum[i - 1] + w[i].len
    IN  sum[Len(w)]
TotalOf(w) == IF LengthOf(w) = 0 THEN 1 ELSE LengthOf(w)
CellSizeFor(bytes, bs) ==
    LET grow[c \in Nat] ==
            IF CeilDiv(bytes, bs * c) <= MaxCells THEN bs * c ELSE grow[2 * c]
    IN  grow[1]
CellsFor(bytes, cs) == 0 .. (CeilDiv(bytes, cs) - 1)

CellsOf(off, len) == (off \div cellSize) .. ((off + len - 1) \div cellSize)

(* Progress::mark_cell_locked: what a mark makes of one cell.  The variant   *)
(* turns a green cell blue again.                                            *)
Demotes(cur, st) ==
    IF st \in Failures \/ st = "Ok" THEN IF cur \in Failures THEN cur ELSE st
    ELSE IF cur \in Failures THEN cur ELSE "Cached"
Marked(cur, st) ==
    IF st \in Failures THEN st
    ELSE IF cur \in Failures \/ (cur = "Ok" /\ st = "Cached") THEN cur ELSE st

MarkCells(map, off, len, st) ==
    [c \in DOMAIN map |-> IF c \in CellsOf(off, len) THEN Marked(map[c], st) ELSE map[c]]

(* rewrite_range rounds its own block size up for O_DIRECT, ends the last    *)
(* block with the range (the variant does not), and cuts any other to the    *)
(* alignment.                                                                *)
Direct == (flags.through \/ flags.verify) /\ ~flags.dry
BlockSize == IF Direct THEN CeilDiv(size, Align) * Align ELSE size

Least(a, b) == IF a < b THEN a ELSE b
WholeBlock == BlockSize
Chunk ==
    LET rest == EndOf(list[item]) - pos
        c == Least(BlockSize, rest)
    IN  IF Direct /\ c < rest THEN c - (c % Align) ELSE c
Here == Units(pos, Chunk)
Block == {item} \X Here
Aligned == pos % Align = 0 /\ Chunk % Align = 0

-----------------------------------------------------------------------------
Init ==
    /\ list \in WorkLists
    /\ flags \in [dry: BOOLEAN, through: BOOLEAN, verify: BOOLEAN, direct: BOOLEAN]
    /\ size \in BlockSizes
    /\ total = TotalOf(list)
    /\ cellSize = CellSizeFor(total, size)
    /\ cells = [c \in CellsFor(total, cellSize) |-> "Pending"]
    /\ done = 0 /\ stop = FALSE
    /\ pc = "items" /\ item = 1 /\ pos = 0
    /\ cached = [have |-> FALSE, from |-> 0, to |-> 0]
    /\ errs = {} /\ dirty = {} /\ lost = {} /\ eio = FALSE
    /\ rc \in {0, 1}
    /\ seen = {} /\ good = {}

(* The loop over the work list.  A range that needs O_DIRECT for verifying   *)
(* and has none is skipped; its ok = false is dropped by the caller.         *)
NextRange ==
    /\ pc = "items"
    /\ \/ /\ stop \/ item > Len(list)
          /\ pc' = "left"
          /\ UNCHANGED <<item, pos, cached>>
       \/ /\ ~stop /\ item <= Len(list)
          /\ IF flags.verify /\ ~flags.dry /\ ~flags.direct
             THEN item' = item + 1 /\ UNCHANGED <<pc, pos, cached>>
             ELSE /\ pc' = "boundary"
                  /\ pos' = list[item].off
                  /\ cached' = [have |-> FALSE, from |-> 0, to |-> 0]
                  /\ UNCHANGED item
    /\ UNCHANGED <<setup, progress, stop, errs, rc, media, seen, good>>

(* The head of the loop: end of range, stop (which leaves without the last   *)
(* probe), or the next block.                                                *)
Boundary ==
    /\ pc = "boundary"
    /\ \/ /\ pos >= EndOf(list[item])
          /\ pc' = "probe"
          /\ UNCHANGED item
       \/ /\ pos < EndOf(list[item]) /\ stop
          /\ pc' = "items" /\ item' = item + 1
       \/ /\ pos < EndOf(list[item]) /\ ~stop
          /\ pc' = IF Chunk = 0 THEN "probe" ELSE "read"
          /\ UNCHANGED item
    /\ UNCHANGED <<setup, progress, stop, pos, cached, errs, rc, media, seen, good>>

(* Past the block, good or bad (the variant stays on it).                    *)
StayOnBlock ==
    /\ UNCHANGED <<pos, done>>
    /\ seen' = seen \cup Block
    /\ pc' = "boundary"
PastBlock ==
    /\ pos' = pos + Chunk
    /\ done' = Least(done + Chunk, total)
    /\ seen' = seen \cup Block
    /\ pc' = "boundary"

(* A failed read, write or verify: the extent is recorded and its cells turn *)
(* red.                                                                      *)
Recorded(kind) == errs \cup {[item |-> item, off |-> pos, len |-> Chunk, status |-> kind]}
Fail(kind) ==
    /\ errs' = Recorded(kind)
    /\ cells' = MarkCells(cells, pos, Chunk, kind)
    /\ PastBlock
    /\ UNCHANGED <<setup, stop, item, cached, rc, good>>

Read ==
    /\ pc = "read"
    /\ \/ Fail("ReadErr")
       \/ /\ pc' = IF flags.dry THEN "mark" ELSE "write"
          /\ UNCHANGED <<setup, progress, stop, item, pos, cached, errs, rc, seen, good>>
    /\ UNCHANGED media

(* pwrite_direct bypasses the page cache.                                    *)
WriteDirect ==
    /\ pc = "write"
    /\ flags.through /\ flags.direct /\ Aligned
    /\ \/ /\ Fail("WriteErr")
          /\ UNCHANGED media
       \/ /\ pc' = IF flags.verify THEN "verify" ELSE "mark"
          /\ dirty' = dirty \ Here /\ lost' = lost \ Here
          /\ UNCHANGED <<setup, progress, stop, item, pos, cached, errs, rc, eio, seen, good>>

(* pwrite_all; a failing one may have written part of the block.             *)
WriteBuffered ==
    /\ pc = "write"
    /\ ~(flags.through /\ flags.direct /\ Aligned)
    /\ \/ /\ Fail("WriteErr")
          /\ dirty' \in {dirty, dirty \cup Here}
       \/ /\ pc' = IF flags.through THEN "fdatasync"
                   ELSE IF flags.verify THEN "verify" ELSE "mark"
          /\ dirty' = dirty \cup Here
          /\ UNCHANGED <<setup, progress, stop, item, pos, cached, errs, rc, seen, good>>
    /\ lost' = lost \ Here
    /\ UNCHANGED eio

(* Everything dirty is written back, or dropped with an error.               *)
Flushed(l) ==
    /\ l \subseteq dirty
    /\ lost' = lost \cup l
    /\ dirty' = {}

(* The fdatasync of pwrite_sync: it fails when anything was dropped since    *)
(* the last one (the variant ignores that).                                  *)
Unchecked(l) == TRUE
SyncOk(l) == l = {} /\ ~eio
Fdatasync ==
    /\ pc = "fdatasync"
    /\ \E l \in {{}, dirty} :
        /\ Flushed(l)
        /\ eio' = FALSE
        /\ IF SyncOk(l)
           THEN /\ pc' = IF flags.verify THEN "verify" ELSE "mark"
                /\ UNCHANGED <<setup, progress, stop, item, pos, cached, errs, rc, seen, good>>
           ELSE Fail("WriteErr")

(* wait_flushed on the block (its result is not looked at; the variant does  *)
(* not wait), then an O_DIRECT read.  A dropped write goes unnoticed: the    *)
(* media still holds the bytes that were read from it.                       *)
NoWait == dirty
WaitFlushed == dirty \ Here
Verify ==
    /\ pc = "verify"
    /\ \E l \in {{}, dirty \cap Here} :
        /\ IF flags.through THEN l = {} /\ UNCHANGED dirty ELSE dirty' = WaitFlushed
        /\ lost' = lost \cup l
        /\ eio' = (eio \/ l # {})
    /\ \/ /\ Aligned
          /\ pc' = "mark"
          /\ UNCHANGED <<setup, progress, stop, item, pos, cached, errs, rc, seen, good>>
       \/ Fail("WriteErr")

(* query_flush_state: never Clean while a unit of the range is dirty (the    *)
(* variant answers for the last block alone), but maybe Dirty or Unknown     *)
(* when none is.                                                             *)
LastBlockClean(from, to) == Units(to - 1, 1) \cap dirty = {}
MayBeClean(from, to) == Units(from, to - from) \cap dirty = {}

Promote(map, range) == MarkCells(map, range.from, range.to - range.from, "Ok")

(* The end of a good block: Ok, or Cached and perhaps a poll that promotes   *)
(* all the blocks cached so far.                                             *)
Mark ==
    /\ pc = "mark"
    /\ IF Direct \/ flags.dry
       THEN /\ cells' = MarkCells(cells, pos, Chunk, "Ok")
            /\ UNCHANGED cached
       ELSE LET blue == MarkCells(cells, pos, Chunk, "Cached")
                range == [have |-> TRUE, from |-> IF cached.have THEN cached.from ELSE pos,
                          to |-> pos + Chunk]
            IN  \/ cells' = blue /\ cached' = range
                \/ /\ MayBeClean(range.from, range.to)
                   /\ cells' = Promote(blue, range)
                   /\ cached' = [range EXCEPT !.have = FALSE]
    /\ good' = good \cup Block
    /\ PastBlock
    /\ UNCHANGED <<setup, stop, item, errs, rc, media>>

(* The forced probe at the end of a range.                                   *)
Probe ==
    /\ pc = "probe"
    /\ \/ UNCHANGED cells
       \/ /\ cached.have /\ MayBeClean(cached.from, cached.to)
          /\ cells' = Promote(cells, cached)
    /\ pc' = "items" /\ item' = item + 1
    /\ UNCHANGED <<setup, done, stop, pos, cached, errs, rc, media, seen, good>>

(* run_inner looks at stop once more: a run stopped by now has failed.  One  *)
(* stopped later has not.                                                    *)
LeaveLoop ==
    /\ pc = "left"
    /\ rc' = IF stop THEN 1 ELSE rc
    /\ pc' = "flush"
    /\ UNCHANGED <<setup, progress, stop, item, pos, cached, errs, media, seen, good>>

(* run_inner's flush phase.                                                  *)
FlushCheck ==
    /\ pc = "flush"
    /\ pc' = IF flags.dry \/ stop \/ flags.through THEN "done" ELSE "sync"
    /\ UNCHANGED <<setup, progress, stop, item, pos, cached, errs, rc, media, seen, good>>

(* The sync thread; neither of its two results is looked at.                 *)
Sync ==
    /\ pc = "sync"
    /\ \E l \in {{}, dirty} : Flushed(l)
    /\ eio' = FALSE
    /\ pc' = "synced"
    /\ UNCHANGED <<setup, progress, stop, item, pos, cached, errs, rc, seen, good>>

(* Progress::upgrade_cached_to_ok.                                           *)
Upgraded == [c \in DOMAIN cells |-> IF cells[c] = "Cached" THEN "Ok" ELSE cells[c]]
Upgrade ==
    /\ pc = "synced"
    /\ cells' = IF stop THEN cells ELSE Upgraded
    /\ pc' = "done"
    /\ UNCHANGED <<setup, done, stop, item, pos, cached, errs, rc, media, seen, good>>

(* sha1_mounted_files, after the rewrite: each file adds one to the counter, *)
(* and one that cannot be hashed is logged as a read error at offset 0.      *)
HashFile ==
    /\ (pc = "done" /\ ~stop) \/ pc = "hashed"
    /\ pc' = "hashed"
    /\ cells' \in {cells, MarkCells(cells, 0, 1, "ReadErr")}
    /\ done' = Least(done + 1, total)
    /\ UNCHANGED <<setup, stop, item, pos, cached, errs, rc, media, seen, good>>

(* Progress::set_finished: the counter of a run that did not fail is set to  *)
(* the total.                                                                *)
Finish ==
    /\ pc \in {"done", "hashed"}
    /\ pc' = "finished"
    /\ done' = IF rc = 0 THEN total ELSE done
    /\ UNCHANGED <<setup, cells, stop, item, pos, cached, errs, rc, media, seen, good>>

-----------------------------------------------------------------------------
(* The kernel writes a dirty unit back, or drops it; the user asks to stop.  *)
Writeback ==
    /\ \E u \in dirty :
        /\ dirty' = dirty \ {u}
        /\ \/ UNCHANGED <<lost, eio>>
           \/ lost' = lost \cup {u} /\ eio' = TRUE
    /\ UNCHANGED <<setup, progress, stop, pc, item, pos, cached, errs, rc, seen, good>>

RequestStop ==
    /\ ~stop /\ pc # "finished"
    /\ stop' = TRUE
    /\ UNCHANGED <<setup, progress, pc, item, pos, cached, errs, rc, media, seen, good>>

Worker ==
    \/ NextRange \/ Boundary \/ Read \/ WriteDirect \/ WriteBuffered \/ Fdatasync
    \/ Verify \/ Mark \/ Probe \/ LeaveLoop \/ FlushCheck \/ Sync \/ Upgrade \/ Finish

Next == Worker \/ HashFile \/ Writeback \/ RequestStop

Spec == Init /\ [][Next]_vars /\ WF_vars(Worker)
-----------------------------------------------------------------------------
(* Properties *)

Targets == UNION {Units(list[i].off, list[i].len) : i \in DOMAIN list}
TargetPairs == UNION {{i} \X Units(list[i].off, list[i].len) : i \in DOMAIN list}

(* Nothing outside the work list is ever touched.                            *)
TypeOK ==
    /\ list \in WorkLists /\ size \in BlockSizes /\ cellSize \in Nat \ {0}
    /\ flags \in [dry: BOOLEAN, through: BOOLEAN, verify: BOOLEAN, direct: BOOLEAN]
    /\ total \in Nat /\ done \in 0..total
    /\ DOMAIN cells = CellsFor(total, cellSize) /\ \A c \in DOMAIN cells : cells[c] \in CellStatus
    /\ stop \in BOOLEAN /\ eio \in BOOLEAN /\ rc \in {0, 1}
    /\ pc \in {"items", "boundary", "read", "write", "fdatasync", "verify", "mark", "probe",
               "left", "flush", "sync", "synced", "done", "hashed", "finished"}
    /\ item \in 1..(Len(list) + 1) /\ pos \in Nat
    /\ cached \in [have: BOOLEAN, from: Nat, to: Nat]
    /\ errs \subseteq Extents
    /\ dirty \cup lost \subseteq Targets /\ seen \cup good \subseteq TargetPairs

\* The bytes gone through and the good ones, whichever range they were in; the
\* bad ones by range.
Gone == {p[2] : p \in seen}
Fine == {p[2] : p \in good}
Bad == UNION {{e.item} \X Units(e.off, e.len) : e \in errs}

\* Bytes of one range only, and cells of one range only.
Once == {u \in Targets : \A i, j \in DOMAIN list :
            u \in Units(list[i].off, list[i].len) \cap Units(list[j].off, list[j].len) => i = j}
Alone(c) == \A i, j \in DOMAIN list :
            c \in CellsOf(list[i].off, list[i].len) \cap CellsOf(list[j].off, list[j].len) => i = j

Colour(u) == {cells[c] : c \in CellsOf(u, 1) \cap DOMAIN cells}

\* Each block has cells of its own: neither cell_shift nor the offset of a
\* range makes it share one with the next block.
OwnCells == cellSize = size /\ \A i \in DOMAIN list : list[i].off % size = 0

(* progress.hpp:19 defines the green of a cell as "flushed to media".  The   *)
(* code does not keep to it: one flushed block turns a cell green for good,  *)
(* whatever others it stands for, and whatever is written to it again.  When *)
(* each block has cells of its own, no block behind the worker is dirty      *)
(* under a green cell of one range, although a poll promotes a whole range   *)
(* of blocks at once while new ones are being written.                       *)
OwnCellsFlushed ==
    OwnCells => \A u \in Gone \cap dirty : Alone(u \div cellSize) => "Ok" \notin Colour(u)

(* And where the worker itself flushes or compares each block, no byte of    *)
(* one range ever is.                                                        *)
FlushedWithoutCache ==
    Direct \/ flags.dry => \A u \in Gone \cap dirty \cap Once : "Ok" \notin Colour(u)

(* The cells of a recorded bad extent are red, whatever is marked after it:  *)
(* a later block of the cell, a promotion over it, the final upgrade; and    *)
(* until files are hashed no other cell is.                                  *)
RedMeansBad ==
    LET bad == (UNION {CellsOf(e.off, e.len) : e \in errs}) \cap DOMAIN cells
        red == {c \in DOMAIN cells : cells[c] \in Failures}
    IN  bad \subseteq red /\ (pc \notin {"hashed", "finished"} => red \subseteq bad)

Skipped == flags.verify /\ ~flags.dry /\ ~flags.direct

AtEnd == pc \in {"done", "hashed", "finished"}

(* A run that was not stopped leaves no cell blue: the polls, the final sync *)
(* and the modes without a cache settle every one.                           *)
NoneLeftBlue == AtEnd /\ ~stop => \A c \in DOMAIN cells : cells[c] # "Cached"

(* What the colours of the map say is true (progress.hpp:17-23).             *)
ColoursAreTrue == OwnCellsFlushed /\ RedMeansBad /\ NoneLeftBlue

(* Nor does a run that succeeds leave a cell of its work list pending.       *)
NoneLeftPending ==
    AtEnd /\ rc = 0 /\ ~Skipped => \A u \in Targets : "Pending" \notin Colour(u)

(* In write-through mode a block counts as good only once it is on the       *)
(* media, whichever of pwrite_direct and pwrite_sync wrote it (of a byte of  *)
(* two ranges, that is said of neither).                                     *)
ThroughIsDurable ==
    flags.through /\ ~flags.dry => Fine \cap Once \cap (dirty \cup lost) = {}

(* Every byte of a block the worker is past was either good, or is in a      *)
(* bad extent recorded for that range (which record_rewrite stores), never   *)
(* both.                                                                     *)
BlocksAccounted ==
    /\ seen = good \cup Bad
    /\ good \cap Bad = {}

(* A range is left, without a stop, only when every byte of it was gone      *)
(* through: no block size, alignment or tail makes the loop break early.     *)
RangesComplete ==
    ~stop /\ pc # "probe" =>
        \A i \in 1..(item - 1) : Skipped \/ {i} \X Units(list[i].off, list[i].len) \subseteq seen

(* The blocks gone through are accounted for: by kind, by range, and a good  *)
(* one of a write-through run by the media.                                  *)
Accounting == BlocksAccounted /\ RangesComplete /\ ThroughIsDurable

(* bytes_done counts each byte of each range once, in every mode, until      *)
(* files are hashed or the run ends.  A run that succeeds ends at the total, *)
(* as set_finished says, and it went through that much: unless there was     *)
(* nothing to rewrite, or it needed O_DIRECT and had none.  One that failed  *)
(* never claims less than it did.                                            *)
DoneIsExact ==
    /\ pc \notin {"hashed", "finished"} => done = Cardinality(seen)
    /\ pc = "finished" /\ rc = 0 =>
         done = total /\ (Skipped \/ list = <<>> \/ Cardinality(seen) = total)
    /\ Cardinality(seen) <= done

(* Map and counter keep up with the worker in every mode: no green before    *)
(* the flush where the worker flushes itself, no cell left out, no byte      *)
(* counted twice.                                                            *)
ProgressIsExact == FlushedWithoutCache /\ NoneLeftPending /\ DoneIsExact

(* The user sees a cell only move forward: pending, blue, green, red.        *)
Rank == [s \in CellStatus |->
            IF s = "Pending" THEN 0 ELSE IF s = "Cached" THEN 1 ELSE IF s = "Ok" THEN 2 ELSE 3]
MapMovesForward == [][\A c \in DOMAIN cells : Rank[cells'[c]] >= Rank[cells[c]]]_vars

(* progress.hpp:68: "After media sync: Cached cells become Ok (green)", and  *)
(* green is "flushed to media" (line 19).  What the kernel dropped, before   *)
(* or in the sync that ends a run, is not turned green by it.                *)
SyncedMeansWritten ==
    [][pc = "synced" =>
         \A u \in Gone \cap lost : Colour(u) = {"Cached"} => Colour(u)' # {"Ok"}]_vars

(* The worker always gets through its work list.                             *)
RangesEnd == <>(pc = "finished")

=============================================================================
