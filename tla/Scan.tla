-------------------------------- MODULE Scan --------------------------------
(***************************************************************************)
(* How a run decides what to rewrite: the first half of                    *)
(* MassageEngine::run_inner (engine/massage.cpp) over the partition probe  *)
(* and the scanners.  The walk over directories, recursive calls in the    *)
(* code, is a stack of directories whose entries are still to be taken.    *)
(*                                                                         *)
(* Besides the fields modules Partitions, Fat, ExFat, Ext and Ntfs name, a *)
(* volume has those the properties speak of: whole (its structures agree   *)
(* with each other), files (the units its files and directories have       *)
(* allocated and, on ext, written to), free (the units nobody owns) and    *)
(* quirks, shapes of healthy volumes that the code treats in its own way:  *)
(*                                                                         *)
(*   contiguous   exFAT: a directory not in the FAT is taken to run to the *)
(*                end of the heap                                          *)
(*   long         exFAT: the clusters after the first of such a directory  *)
(*                are not read                                             *)
(*   prealloc     exFAT: a file has less valid data than clusters          *)
(*   indirect     ext2/3: the block numbers of a directory are read as     *)
(*                entries, and end them                                    *)
(*   large        ext: a file of 4 GiB and records of 128 bytes            *)
(*   special      ext: the block map of a link or a device is read as an   *)
(*                extent tree                                              *)
(*   splitMft     NTFS: record 0 does not tell all the parts of $MFT       *)
(*   logical      the volume is in a logical partition of an MBR, which is *)
(*                rewritten with all of its extended partition             *)
(*   table        a boot sector that reads as a partition table, or a      *)
(*                table that is wrong                                      *)
(*   cycle        a FAT or exFAT directory leads back to itself            *)
(***************************************************************************)
EXTENDS Partitions, FiniteSets

CONSTANTS
    DirectBlocks,
    TreeDepth,
    Devices,    \* the devices a run may be pointed at
    MaxDepth    \* the directories below each other that the stack has room for

F == INSTANCE Fat
X == INSTANCE ExFat
E == INSTANCE Ext
N == INSTANCE Ntfs

VARIABLES
    dev, mode,
    pc,         \* probe, jobs, walk, planned; of a process that died: crashed
                \* (a division by zero), overflow (of its stack)
    parts,      \* PartitionMap pm
    jobs,       \* the bases that wait to be scanned
    enter,      \* the directory the walk is about to enter, if any
    stack,      \* the entries left in each directory it is in, innermost last
    seen,       \* the inodes it has entered (ext)
    objects,    \* FsScanResult of the volume being scanned
    work,       \* the ranges to rewrite, in order
    rc

vars == <<dev, mode, pc, parts, jobs, enter, stack, seen, objects, work, rc>>
walking == <<enter, stack, seen, objects>>

FatTypes == {"fat12", "fat16", "fat32"}

Init ==
    /\ dev \in Devices /\ mode \in {"linear", "recursive"}
    /\ pc = "probe" /\ parts = <<>> /\ jobs = <<>>
    /\ enter = <<>> /\ stack = <<>> /\ seen = {} /\ objects = <<>>
    /\ work = <<>> /\ rc = 0

-----------------------------------------------------------------------------

HasTable(pm) == pm.kind # "none" /\ pm.parts # <<>>
TableRange(pm) == Extent(0, pm.table)
WholeDevice == Extent(0, dev.size)

(* Linear mode: the table and every partition, or the whole device.          *)
PlanLinear ==
    LET pm == probe_partitions(dev)
    IN  /\ pc = "probe" /\ mode = "linear"
        /\ pc' = "planned"
        /\ rc' = IF pm.ok THEN 0 ELSE 1
        /\ work' = IF ~pm.ok THEN <<>>
                   ELSE IF HasTable(pm) THEN <<TableRange(pm)>> \o pm.parts
                   ELSE <<WholeDevice>>
        /\ parts' = pm.parts
        /\ UNCHANGED <<dev, mode, jobs, walking>>

(* Recursive mode does not ask whether the probe succeeded.                  *)
PlanJobs ==
    LET pm == probe_partitions(dev)
    IN  /\ pc = "probe" /\ mode = "recursive"
        /\ pc' = "jobs"
        /\ parts' = pm.parts
        /\ jobs' = IF HasTable(pm) THEN [i \in DOMAIN pm.parts |-> pm.parts[i].off] ELSE <<0>>
        /\ work' = IF HasTable(pm) /\ pm.table > 0 THEN <<TableRange(pm)>> ELSE <<>>
        /\ UNCHANGED <<dev, mode, walking, rc>>

Type == detect_fs(dev, Head(jobs))
Vol == Volume(dev, Head(jobs))

(* The length of the first partition that begins there, or all that follows. *)
LinearLength(d, ps, base) ==
    LET at == {i \in DOMAIN ps : ps[i].off = base}
    IN  IF at # {} /\ ps[Min(at)].len > 0 THEN ps[Min(at)].len
        ELSE IF d.size > base THEN d.size - base ELSE 0

RewriteUnknown ==
    /\ pc = "jobs" /\ jobs # <<>> /\ Type = "unknown"
    /\ work' = Append(work, Extent(Head(jobs), LinearLength(dev, parts, Head(jobs))))
    /\ jobs' = Tail(jobs)
    /\ UNCHANGED <<dev, mode, pc, parts, walking, rc>>

scan_filesystem(vol, type) ==
    CASE type \in FatTypes -> F!scan_fat(vol, type)
      [] type = "exfat" -> X!scan_exfat(vol)
      [] type = "ntfs" -> N!scan_ntfs(vol)
      [] type = "ext" -> E!scan_ext(vol)

\* Variant: the failure is reported and forgotten.
ScanForgets ==
    /\ rc' = rc /\ pc' = "jobs" /\ jobs' = Tail(jobs)
    /\ enter' = <<>> /\ stack' = <<>> /\ seen' = {} /\ objects' = <<>>

ScanFailed ==
    /\ rc' = 1 /\ pc' = "jobs" /\ jobs' = Tail(jobs)
    /\ enter' = <<>> /\ stack' = <<>> /\ seen' = {} /\ objects' = <<>>

StartScan ==
    /\ pc = "jobs" /\ jobs # <<>> /\ Type # "unknown"
    /\ LET scan == scan_filesystem(Vol, Type)
       IN  \/ /\ scan.outcome = "ok"
              /\ pc' = "walk" /\ enter' = scan.enter /\ objects' = scan.objects
              /\ UNCHANGED <<jobs, stack, seen, rc>>
           \/ scan.outcome = "failed" /\ ScanFailed
           \/ /\ scan.outcome = "crashed"
              /\ pc' = "crashed"
              /\ UNCHANGED <<jobs, walking, rc>>
    /\ UNCHANGED <<dev, mode, parts, work>>

(* A directory (of ext: an inode of any kind) as its scanner enters it.      *)
Entered(vol, type, d) ==
    CASE type \in FatTypes -> F!EnterDir(vol, type, d)
      [] type = "exfat" -> X!EnterDir(vol, d)
      [] type = "ext" -> E!EnterInode(vol, d)

\* Variant: no inode is remembered.
NeverSeen(d) == FALSE
SeenBefore(d) == Type = "ext" /\ d \in seen

EnterDirectory ==
    /\ pc = "walk" /\ enter # <<>>
    /\ LET d == Head(enter)
           read == Entered(Vol, Type, d)
       IN  \/ /\ SeenBefore(d)
              /\ enter' = <<>>
              /\ UNCHANGED <<pc, jobs, stack, seen, objects, rc>>
           \/ /\ ~SeenBefore(d) /\ read.ok /\ Len(stack) < MaxDepth
              /\ enter' = <<>>
              /\ stack' = Append(stack, read.entries)
              /\ seen' = IF Type = "ext" THEN seen \cup {d} ELSE seen
              /\ objects' = objects \o read.objects
              /\ UNCHANGED <<pc, jobs, rc>>
           \/ ~SeenBefore(d) /\ ~read.ok /\ ScanFailed
           \/ /\ ~SeenBefore(d) /\ read.ok /\ Len(stack) = MaxDepth
              /\ pc' = "overflow"
              /\ UNCHANGED <<jobs, walking, rc>>
    /\ UNCHANGED <<dev, mode, parts, work>>

Taken(vol, type, e) ==
    CASE type \in FatTypes -> F!TakeEntry(vol, type, e)
      [] type = "exfat" -> X!TakeEntry(vol, e)
      [] type = "ext" -> E!TakeEntry(e)

Innermost == Last(stack)

TakeEntry ==
    /\ pc = "walk" /\ enter = <<>> /\ stack # <<>> /\ Innermost # <<>>
    /\ LET taken == Taken(Vol, Type, Head(Innermost))
       IN  /\ objects' = objects \o taken.objects
           /\ enter' = taken.enter
           /\ stack' = Append(Front(stack), IF taken.stop THEN <<>> ELSE Tail(Innermost))
    /\ UNCHANGED <<dev, mode, pc, parts, jobs, seen, work, rc>>

LeaveDirectory ==
    /\ pc = "walk" /\ enter = <<>> /\ stack # <<>> /\ Innermost = <<>>
    /\ stack' = Front(stack)
    /\ UNCHANGED <<dev, mode, pc, parts, jobs, enter, seen, objects, work, rc>>

\* Variant: the partition's base is forgotten.
AddRangeUnbased(ranges, base, e) == IF e.len = 0 THEN ranges ELSE Append(ranges, e)

(* The ranges of a volume: those of its objects, empty ones left out.        *)
AddRange(ranges, base, e) == IF e.len = 0 THEN ranges ELSE Append(ranges, Extent(base + e.off, e.len))
AddRanges(ranges, base, objs) ==
    FoldLeft(LAMBDA w, o : FoldLeft(LAMBDA v, e : AddRange(v, base, e), w, o.exts), ranges, objs)

FinishScan ==
    /\ pc = "walk" /\ enter = <<>> /\ stack = <<>>
    /\ work' = AddRanges(work, Head(jobs), objects)
    /\ jobs' = Tail(jobs)
    /\ pc' = "jobs" /\ seen' = {} /\ objects' = <<>>
    /\ UNCHANGED <<dev, mode, parts, enter, stack, rc>>

PlanDone ==
    /\ pc = "jobs" /\ jobs = <<>>
    /\ pc' = "planned"
    /\ UNCHANGED <<dev, mode, parts, jobs, walking, work, rc>>

Next ==
    \/ PlanLinear \/ PlanJobs \/ RewriteUnknown \/ StartScan
    \/ EnterDirectory \/ TakeEntry \/ LeaveDirectory
    \/ FinishScan \/ PlanDone

Spec == Init /\ [][Next]_vars

-----------------------------------------------------------------------------
(* What a device is: its parts have their types. *)

IsTable(d) ==
    /\ {d.size, d.table.first, d.table.count, d.table.size} \subseteq Nat
    /\ d.mbr \in Seq([used : BOOLEAN, first : Nat, len : Nat])
    /\ d.slots \in Seq([used : BOOLEAN, first : Nat, last : Nat])

IsVolume(vol, type) ==
    /\ type \in FatTypes => F!IsVolume(vol)
    /\ type = "exfat" => X!IsVolume(vol)
    /\ type = "ext" => E!IsVolume(vol)
    /\ type = "ntfs" => N!IsVolume(vol)

ASSUME DevicesAssumption ==
    /\ {DirectBlocks, TreeDepth, MaxDepth} \subseteq Nat
    /\ \A d \in Devices :
          /\ IsTable(d)
          /\ DOMAIN d.vols \subseteq Nat
          /\ \A b \in DOMAIN d.vols :
                /\ d.vols[b].label \in FatTypes \cup {"none"} /\ d.vols[b].free \subseteq Nat
                /\ IsVolume(Volume(d, b), TypeOf(d.vols[b]))

-----------------------------------------------------------------------------
(* What the structures of a volume say of its files, one directory at a time. *)

\* The entries before the end mark.
LivePlaces(vol, type, entries) == {j \in DOMAIN entries : \A k \in 1..j : ~Taken(vol, type, entries[k]).stop}
Live(vol, type, entries) == {entries[i] : i \in LivePlaces(vol, type, entries)}
LiveIn(vol, type, d) == Live(vol, type, Entered(vol, type, d).entries)

FoundIn(objs) == UNION {Covered(objs[i].exts) : i \in DOMAIN objs}
Own(vol, type, d) ==
    FoundIn(Entered(vol, type, d).objects)
        \cup UNION {FoundIn(Taken(vol, type, e).objects) : e \in LiveIn(vol, type, d)}
Below(vol, type, d) == UNION {ToSet(Taken(vol, type, e).enter) : e \in LiveIn(vol, type, d)}

\* All that are named as directories, and the sets of them that hold all that a walk enters.
Directories(vol, type) ==
    ToSet(scan_filesystem(vol, type).enter)
        \cup (IF type = "ntfs" THEN {}
              ELSE UNION {UNION {ToSet(Taken(vol, type, e).enter) : e \in ToSet(vol.area[c])} : c \in DOMAIN vol.area})
IsTree(vol, type, S) ==
    /\ S \subseteq Directories(vol, type)
    /\ ToSet(scan_filesystem(vol, type).enter) \subseteq S
    /\ \A d \in S : Below(vol, type, d) \subseteq S
Readable(vol, type, S) == \A d \in S : Entered(vol, type, d).ok
FoundOf(vol, type, S) ==
    FoundIn(scan_filesystem(vol, type).objects) \cup UNION {Own(vol, type, d) : d \in S}

\* Nothing is named twice: no unit, and no directory but of ext, which remembers those it has entered.
\* The boot sector of NTFS is: as ::boot and as the file $Boot.
TwiceNamed(type) == IF type = "ntfs" THEN {N!Boot} ELSE {}
Apart(e, f, but) == UnitsOf(e) \cap UnitsOf(f) \subseteq but
AllApart(exts, but) == \A i, j \in DOMAIN exts : i # j => Apart(exts[i], exts[j], but)
Distinct(objs, but) ==
    \A i, j \in DOMAIN objs :
        IF i = j THEN AllApart(objs[i].exts, but) ELSE Covered(objs[i].exts) \cap Covered(objs[j].exts) \subseteq but
EntriesOnce(vol, type, entries) ==
    \A i, j \in LivePlaces(vol, type, entries) :
        LET a == Taken(vol, type, entries[i])
            b == Taken(vol, type, entries[j])
        IN  IF i = j THEN Distinct(a.objects, {})
            ELSE /\ FoundIn(a.objects) \cap FoundIn(b.objects) = {}
                 /\ type # "ext" => ToSet(a.enter) \cap ToSet(b.enter) = {}
NamedOnce(vol, type, S) ==
    LET scan == scan_filesystem(vol, type)
    IN  /\ Distinct(scan.objects, TwiceNamed(type))
        /\ \A d \in S :
              LET read == Entered(vol, type, d)
              IN  /\ Distinct(read.objects, {}) /\ EntriesOnce(vol, type, read.entries)
                  /\ Own(vol, type, d) \cap FoundIn(scan.objects) = {}
                  /\ type # "ext" => Below(vol, type, d) \cap ToSet(scan.enter) = {}
                  /\ \A c \in S \ {d} :
                        /\ Own(vol, type, c) \cap Own(vol, type, d) = {}
                        /\ type # "ext" => Below(vol, type, c) \cap Below(vol, type, d) = {}

Without(d, quirks, b) == d.vols[b].whole /\ d.vols[b].quirks \cap quirks = {}
At(base, units) == {base + u : u \in units}

\* Those in which files, or parts of them, are missed.
Missed == {"long", "prealloc", "indirect", "large", "splitMft", "table"}

ASSUME WholeVolumesAssumption ==
    \A d \in Devices : \A b \in DOMAIN d.vols :
        LET vol == Volume(d, b)
            type == detect_fs(d, b)
            ok == scan_filesystem(vol, type).outcome = "ok"
        IN  /\ (type # "unknown" /\ Without(d, Missed, b) /\ ok) =>
                 \A S \in SUBSET Directories(vol, type) :
                    IsTree(vol, type, S) /\ Readable(vol, type, S) =>
                        d.vols[b].files \subseteq FoundOf(vol, type, S)
            /\ (type # "unknown" /\ Without(d, Missed \cup {"special"}, b) /\ vol.bad = {}) =>
                 ok /\ \E S \in SUBSET Directories(vol, type) : IsTree(vol, type, S) /\ Readable(vol, type, S)
            /\ (Without(d, {"contiguous", "table"}, b) /\ d.bad = {}) =>
                 /\ type # "unknown"
                 /\ \E S \in SUBSET Directories(vol, type) :
                       /\ IsTree(vol, type, S) /\ NamedOnce(vol, type, S)
                       /\ FoundOf(vol, type, S) \cap d.vols[b].free = {}

\* The recursion ends before the stack does.
ASSUME DepthAssumption ==
    \A d \in Devices : \A b \in DOMAIN d.vols :
        LET vol == Volume(d, b)
            type == detect_fs(d, b)
        IN  "cycle" \notin d.vols[b].quirks =>
              /\ type \in FatTypes \cup {"exfat"} =>
                   \E rank \in [Directories(vol, type) -> 1..MaxDepth] :
                       \A x \in Directories(vol, type) : \A k \in Below(vol, type, x) : rank[x] < rank[k]
              /\ type = "ext" =>
                   /\ IsFiniteSet(Directories(vol, type))
                   /\ Cardinality({x \in Directories(vol, type) : Entered(vol, type, x).ok}) <= MaxDepth

\* Tables
StartsOf(d) ==
    LET pm == probe_partitions(d)
    IN  IF HasTable(pm) THEN {pm.parts[i].off : i \in DOMAIN pm.parts} ELSE {0}
Room(d, b) == UnitsOf(Extent(b, LinearLength(d, probe_partitions(d).parts, b)))

ASSUME TablesAssumption ==
    \A d \in Devices :
        LET pm == probe_partitions(d)
        IN  /\ \A b \in DOMAIN d.vols : Without(d, {"table"}, b) =>
                 LET files == At(b, d.vols[b].files)
                 IN  /\ files \subseteq UnitsOf(Extent(0, d.size))
                     /\ pm.ok /\ HasTable(pm) => files \subseteq Covered(<<TableRange(pm)>> \o pm.parts)
                     /\ \/ b \in StartsOf(d) /\ files \subseteq Room(d, b)
                        \/ \E s \in StartsOf(d) \ DOMAIN d.vols : files \subseteq Room(d, s)
            /\ (d.bad = {} /\ \A b \in DOMAIN d.vols : Without(d, {"table"}, b)) =>
                 /\ HasTable(pm) => \A i, j \in DOMAIN pm.parts : i # j => pm.parts[i].off # pm.parts[j].off
                 /\ \A b \in StartsOf(d) :
                        /\ HasTable(pm) => Room(d, b) \cap UnitsOf(TableRange(pm)) = {}
                        /\ \A c \in StartsOf(d) : b # c => Room(d, b) \cap Room(d, c) = {}
                 /\ \A b \in DOMAIN d.vols : Without(d, {"logical", "table"}, b) =>
                        b \in StartsOf(d) /\ At(b, d.vols[b].free) \subseteq Room(d, b)
                 /\ \A b \in DOMAIN d.vols \cap StartsOf(d) :
                        LET vol == Volume(d, b)
                            type == detect_fs(d, b)
                        IN  type # "unknown" =>
                              \E S \in SUBSET Directories(vol, type) :
                                 IsTree(vol, type, S) /\ At(b, FoundOf(vol, type, S)) \subseteq Room(d, b)

-----------------------------------------------------------------------------

IsExtents(s) == \A i \in DOMAIN s : s[i].off \in Nat /\ s[i].len \in Nat

(* The type of the plan and of the walk.  Ranges that wait to be rewritten   *)
(* are never empty, save those of a partition or of a device itself.         *)
TypeOK ==
    /\ mode \in {"linear", "recursive"}
    /\ pc \in {"probe", "jobs", "walk", "planned", "crashed", "overflow"}
    /\ IsExtents(parts) /\ IsExtents(work)
    /\ \A i \in DOMAIN jobs : jobs[i] \in Nat
    /\ Len(enter) <= 1 /\ Len(stack) <= MaxDepth
    /\ \A i \in DOMAIN objects : IsExtents(objects[i].exts)
    /\ seen \subseteq Nat /\ rc \in {0, 1}

Bases == DOMAIN dev.vols

(* A recursive run that reports success has planned all that any readable    *)
(* tree of a volume names, down to the last directory, and all of what it    *)
(* did not recognise.                                                        *)
TreePlanned(s) ==
    LET vol == Volume(dev, s)
        type == detect_fs(dev, s)
    IN  \E S \in SUBSET Directories(vol, type) :
            IsTree(vol, type, S) /\ Readable(vol, type, S) /\ At(s, FoundOf(vol, type, S)) \subseteq Covered(work)
SuccessMeansWalked ==
    (pc = "planned" /\ mode = "recursive" /\ rc = 0) =>
        \A s \in StartsOf(dev) :
            IF detect_fs(dev, s) = "unknown" THEN Room(dev, s) \subseteq Covered(work) ELSE TreePlanned(s)

(* A run that reports success has planned to rewrite every unit that a file  *)
(* or a directory below the root owns, whatever it could not read on the way *)
(* (massage.cpp 192-275): what could not be recognised is rewritten whole.   *)
(* Volumes of the shapes in Missed are left out.                             *)
SuccessMeansCovered ==
    (pc = "planned" /\ rc = 0) =>
        \A b \in Bases : Without(dev, Missed, b) => At(b, dev.vols[b].files) \subseteq Covered(work)

(* A volume that cannot be scanned, or a table that cannot be read, costs no *)
(* other volume its place in the plan (massage.cpp 253-259): one that is     *)
(* whole and can be read is planned in any recursive run that gets so far.   *)
FailureIsContained ==
    (pc = "planned" /\ mode = "recursive") =>
        \A b \in Bases :
            (Without(dev, Missed \cup {"special"}, b) /\ Volume(dev, b).bad = {})
                => At(b, dev.vols[b].files) \subseteq Covered(work)

(* Files are rewritten, whatever fails on the way: either the run says that  *)
(* it failed, and then no other volume pays for it, or nothing is left out.  *)
FilesAreCovered == SuccessMeansWalked /\ SuccessMeansCovered /\ FailureIsContained

(* Units that no file owns are left alone in recursive mode, the promise of  *)
(* the README ("only rewrites allocated filesystem data (free space          *)
(* skipped)"), on devices that are whole and volumes that have a partition,  *)
(* or the device, to themselves and no contiguous exFAT directory.  (The     *)
(* chain of a damaged exFAT volume may lead into the next one.)              *)
FreeSpaceSkipped ==
    (pc = "planned" /\ mode = "recursive" /\ dev.bad = {} /\ \A b \in Bases : Without(dev, {"table"}, b)) =>
        \A b \in Bases :
            Without(dev, {"contiguous", "logical", "table"}, b) => At(b, dev.vols[b].free) \cap Covered(work) = {}

BootSectors(d) == {b \in DOMAIN d.vols : detect_fs(d, b) = "ntfs"}
NothingTwice ==
    (pc = "planned" /\ dev.bad = {} /\ \A b \in Bases : Without(dev, {"contiguous", "table"}, b))
        => AllApart(work, BootSectors(dev))
ObjectsApart ==
    (pc = "walk" /\ Type # "ext" /\ Type # "ntfs") => \A i \in DOMAIN objects : AllApart(objects[i].exts, {})

(* No unit is planned twice on devices that are whole: a file of two names,  *)
(* the table of records, a directory reached again (ext.cpp:214, fat.cpp:85, *)
(* ntfs.cpp:249).  The exception is the boot sector of NTFS, which is        *)
(* planned by itself and with $Boot (ntfs.cpp:178, 229).  On a damaged FAT   *)
(* or exFAT volume, still, no object names a unit twice, however its chain   *)
(* runs.                                                                     *)
PlannedOnce == NothingTwice /\ ObjectsApart

(* A healthy volume on a device that can be read is scanned with success, as *)
(* the manual has it ("recursive - walk an unmounted filesystem").           *)
HealthyScanSucceeds ==
    (pc = "planned" /\ dev.bad = {} /\ \A b \in Bases : dev.vols[b].whole) => rc = 0

(* The walk never goes deeper than the volume has directories, whatever      *)
(* cycles its FAT chains and, of ext, its directories have (fat.cpp:85,      *)
(* exfat.cpp:86, ext.cpp:214): recursion does not use up the stack.  A FAT   *)
(* or exFAT directory that leads back to itself is the exception.            *)
WalkEnds ==
    (pc = "overflow") => \E b \in Bases : "cycle" \in dev.vols[b].quirks

=============================================================================
