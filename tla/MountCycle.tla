------------------------------ MODULE MountCycle ----------------------------
(***************************************************************************)
(* What a run does to the mounts of its target: they are recorded and      *)
(* unmounted before the rewrite (ensure_unmounted), mounted read-only for  *)
(* SHA-1 (prepare_sha1_mounts), and mounted again (restore_mount_state).   *)
(*                                                                         *)
(* The kernel's side is the mount table of the target's devices in mount   *)
(* order, and the filesystems that are still live although detached.       *)
(* Which tool mounts or unmounts (mount(2), FUSE, udisks, pkexec) is       *)
(* abstracted to whether the attempt succeeds.                             *)
(***************************************************************************)
EXTENDS Naturals, FiniteSets, Sequences, SequencesExt

CONSTANTS
    Devices,    \* the target's devices: the disk and its partitions
    Tables,     \* mount tables a run may begin with
    Length,     \* length of each mount point's path
    Below,      \* <<p, q>>: mount point p lies below mount point q
    TempMount,  \* the mount made when there was none
    Foreign     \* mounts another program may make of the target; {} for none

\* A bare mount has no option besides ro or rw: no noexec, uid=, subvol= or the like.
Mounts == [dev : Devices, at : DOMAIN Length, ro : BOOLEAN, bare : BOOLEAN]

\* A path below a mount point is longer than the mount point's own.
ASSUME MountAssumption ==
    /\ Length \in [DOMAIN Length -> Nat]
    /\ \A p, q \in DOMAIN Length : <<p, q>> \in Below => Length[p] > Length[q]
    /\ Tables \subseteq Seq(Mounts) /\ Foreign \subseteq Mounts
    /\ TempMount \in Mounts /\ TempMount.ro

VARIABLES
    table,      \* the lines of /proc/mounts that concern the target
    detached,   \* devices whose filesystem was detached lazily and is still in use
    busy,       \* devices with open files
    pc,         \* where run_inner is
    original,   \* the recorded mounts
    active,     \* the mounts SHA-1 reads from
    queue,      \* mounts the current loop has still to handle
    refused,    \* history: ensure_unmounted failed
    failures,   \* history: which later step failed, "umount" or "mount"
    lazy        \* history: something was detached lazily

kernel == <<table, detached>>
history == <<refused, failures, lazy>>
vars == <<kernel, busy, pc, original, active, queue, history>>

-----------------------------------------------------------------------------
(* The mount table *)

Covers(q, p) == q = p \/ <<p, q>> \in Below

\* A mount is reached by its path unless a later one covers the path.
Visible(t, i) == \A j \in (i + 1)..Len(t) : ~Covers(t[j].at, t[i].at)
On(t, at) == {i \in DOMAIN t : t[i].at = at /\ Visible(t, i)}
Under(t, i) == {j \in (i + 1)..Len(t) : <<t[j].at, t[i].at>> \in Below}

Without(t, gone) ==
    LET kept == CHOOSE s \in SetToSeqs(DOMAIN t \ gone) : \A i, j \in DOMAIN s : i < j => s[i] < s[j]
    IN [k \in DOMAIN kept |-> t[kept[k]]]

\* umount2(at, 0), and umount2(at, MNT_DETACH) where that fails.
UmountPlainly(at) ==
    \E i \in On(table, at) :
        /\ Under(table, i) = {} /\ table[i].dev \notin busy
        /\ table' = Without(table, {i})
        /\ UNCHANGED <<detached, lazy>>
UmountLazily(at) ==
    \E i \in On(table, at) :
        /\ Under(table, i) # {} \/ table[i].dev \in busy
        /\ table' = Without(table, {i} \cup Under(table, i))
        /\ detached' = detached \cup ({table[j].dev : j \in {i} \cup Under(table, i)} \cap busy)
        /\ lazy' = TRUE
Umount(at) == UmountPlainly(at) \/ UmountLazily(at)

\* A device has one superblock: it cannot be mounted read-only and read-write.
Mountable(m) ==
    /\ \A i \in DOMAIN table : table[i].dev = m.dev => table[i].ro = m.ro
    /\ m.dev \in detached => \E i \in DOMAIN original : original[i].dev = m.dev /\ original[i].ro = m.ro
Mount(m) ==
    /\ Mountable(m)
    /\ table' = Append(table, m)
    /\ UNCHANGED <<detached, lazy>>

-----------------------------------------------------------------------------
(* unmount_device and restore_mount_state go from the longest mount point to *)
(* the shortest, so from the innermost mount outwards (the variant goes the  *)
(* other way).                                                               *)
Orders(t, before(_, _)) ==
    {s \in SetToSeqs(DOMAIN t) : \A i, j \in DOMAIN s : i < j => before(t[s[i]].at, t[s[j]].at)}
Arranged(t, before(_, _)) == {[k \in DOMAIN s |-> t[s[k]]] : s \in Orders(t, before)}

Outermost(t) == Arranged(t, LAMBDA p, q : Length[p] <= Length[q])
Innermost(t) == Arranged(t, LAMBDA p, q : Length[p] >= Length[q])

\* The options a recorded mount is hashed with (the variant keeps the recorded ones).
AsRecorded(m) == m
ReadOnly(m) == [m EXCEPT !.ro = TRUE]

(* remount_records mounts the last record first, and passes on nothing of the *)
(* recorded options but ro or rw.                                             *)
Bare(m) == [m EXCEPT !.bare = TRUE]
LastFirst(recs) == Reverse([i \in DOMAIN recs |-> Bare(recs[i])])

-----------------------------------------------------------------------------
Init ==
    /\ table \in Tables /\ detached = {}
    /\ busy \in SUBSET {table[i].dev : i \in DOMAIN table}
    /\ pc = "record"
    /\ original = <<>> /\ active = <<>> /\ queue = <<>>
    /\ refused = FALSE /\ failures = {} /\ lazy = FALSE

Record ==
    /\ pc = "record"
    /\ original' = table
    /\ queue' \in Innermost(table)
    /\ pc' = "unmount"
    /\ UNCHANGED <<kernel, busy, active, history>>

\* One unmount_one of unmount_device.  The first failure makes run_inner return: what was
\* unmounted by then stays so (the variant goes on with the next mount).
SkipMount == queue' = Tail(queue) /\ UNCHANGED <<pc, refused>>
Refuse == queue' = <<>> /\ pc' = "over" /\ refused' = TRUE
Unmount ==
    /\ pc = "unmount" /\ queue # <<>>
    /\ \/ /\ Umount(Head(queue).at)
          /\ queue' = Tail(queue)
          /\ UNCHANGED <<pc, refused>>
       \/ /\ Refuse
          /\ UNCHANGED <<kernel, lazy>>
    /\ UNCHANGED <<busy, original, active, failures>>

\* Device::open and prepare_db; on failure the mounts are restored at once.
OpenDevice ==
    /\ pc = "unmount" /\ queue = <<>>
    /\ pc' \in {"rewrite", "restore"}
    /\ UNCHANGED <<kernel, busy, original, active, queue, history>>

\* The device is closed; without a database there is nothing to hash.
Close ==
    /\ pc = "rewrite"
    /\ pc' \in {"prepare", "restore"}
    /\ UNCHANGED <<kernel, busy, original, active, queue, history>>

\* prepare_sha1_mounts: what is mounted is used as it is, else the recorded
\* mounts come back read-only, last one first, else a temporary mount is made.
Prepare ==
    /\ pc = "prepare"
    /\ \/ /\ table # <<>>
          /\ active' = table /\ pc' = "sha1"
          /\ UNCHANGED <<kernel, queue, history>>
       \/ /\ table = <<>> /\ original # <<>>
          /\ queue' = LastFirst([i \in DOMAIN original |-> ReadOnly(original[i])])
          /\ pc' = "readonly"
          /\ UNCHANGED <<kernel, active, history>>
       \/ /\ table = <<>> /\ original = <<>>
          /\ \/ Mount(TempMount) /\ active' = <<TempMount>> /\ pc' = "sha1" /\ UNCHANGED failures
             \/ pc' = "restore" /\ failures' = failures \cup {"mount"} /\ UNCHANGED <<kernel, active, lazy>>
          /\ UNCHANGED <<queue, refused>>
    /\ UNCHANGED <<busy, original>>

\* The mounts handed to SHA-1: those found in the table (in the variant, the recorded ones).
RecordedMounts == original
FoundMounts == table

\* remount_records on the read-only copies: stops at the first failure.
MountReadOnly ==
    /\ pc = "readonly"
    /\ \/ /\ queue = <<>>
          /\ active' = FoundMounts /\ pc' = "sha1"
          /\ UNCHANGED <<kernel, queue, history>>
       \/ /\ queue # <<>>
          /\ \/ Mount(Head(queue)) /\ queue' = Tail(queue) /\ UNCHANGED <<pc, failures>>
             \/ /\ pc' = "restore" /\ queue' = <<>> /\ failures' = failures \cup {"mount"}
                /\ UNCHANGED <<kernel, lazy>>
          /\ UNCHANGED <<active, refused>>
    /\ UNCHANGED <<busy, original>>

Sha1 ==
    /\ pc = "sha1"
    /\ pc' = "restore"
    /\ UNCHANGED <<kernel, busy, original, active, queue, history>>

\* restore_mount_state: undo the mounts in use (whatever is mounted if none was prepared;
\* the variant then leaves it alone), ignoring failures, ...
PreparedOnly == active
InUse == IF active = <<>> THEN table ELSE active
Restore ==
    /\ pc = "restore"
    /\ queue' \in Innermost(InUse)
    /\ pc' = "undo"
    /\ UNCHANGED <<kernel, busy, original, active, history>>

Undo ==
    /\ pc = "undo"
    /\ \/ /\ queue # <<>>
          /\ queue' = Tail(queue)
          /\ \/ Umount(Head(queue).at) /\ UNCHANGED failures
             \/ failures' = failures \cup {"umount"} /\ UNCHANGED <<kernel, lazy>>
          /\ UNCHANGED pc
       \/ /\ queue = <<>>
          /\ queue' = LastFirst(original)
          /\ pc' = "remount"
          /\ UNCHANGED <<kernel, failures, lazy>>
    /\ UNCHANGED <<busy, original, active, refused>>

\* ... and remount_records on the recorded mounts.
Remount ==
    /\ pc = "remount"
    /\ \/ /\ queue = <<>>
          /\ pc' = "over"
          /\ UNCHANGED <<kernel, queue, failures, lazy>>
       \/ /\ queue # <<>>
          /\ \/ Mount(Head(queue)) /\ queue' = Tail(queue) /\ UNCHANGED <<pc, failures>>
             \/ /\ pc' = "over" /\ queue' = <<>> /\ failures' = failures \cup {"mount"}
                /\ UNCHANGED <<kernel, lazy>>
    /\ UNCHANGED <<busy, original, active, refused>>

\* The device is not opened exclusively: another program may mount it, say the desktop
\* on the change event that closing it raises.
OtherMounts ==
    /\ pc \in {"rewrite", "prepare"}
    /\ \E m \in Foreign : m \notin ToSet(table) /\ Mount(m)
    /\ UNCHANGED <<busy, pc, original, active, queue, refused, failures>>

Next ==
    \/ Record \/ Unmount \/ OpenDevice \/ Close \/ Prepare \/ MountReadOnly
    \/ Sha1 \/ Restore \/ Undo \/ Remount \/ OtherMounts

Spec == Init /\ [][Next]_vars

-----------------------------------------------------------------------------
(* Properties *)

Loops == {"unmount", "readonly", "undo", "remount"}

(* A queue is worked off where it was made, and SHA-1 is only given mounts   *)
(* that exist.                                                               *)
TypeOK ==
    /\ pc \in {"record", "rewrite", "prepare", "sha1", "restore", "over"} \cup Loops
    /\ table \in Seq(Mounts) /\ original \in Seq(Mounts)
    /\ active \in Seq(Mounts) /\ queue \in Seq(Mounts)
    /\ refused \in BOOLEAN /\ failures \subseteq {"umount", "mount"} /\ lazy \in BOOLEAN
    /\ pc \notin Loops => queue = <<>>
    /\ pc = "sha1" => ToSet(active) \subseteq ToSet(table)

(* Nothing of the target is mounted while its blocks are rewritten but what  *)
(* another program mounted meanwhile: a run whose ensure_unmounted fails half*)
(* way does not get there.                                                   *)
UnmountedForRewrite ==
    pc = "rewrite" => ToSet(table) \subseteq Foreign

(* Lazy detaching is for filesystems in use: nested mounts of an idle target *)
(* come off one by one, innermost first, on the way in and on the way back,  *)
(* unless one of them could not be unmounted at all.                         *)
IdleUnmountsPlainly == busy = {} /\ "umount" \notin failures => ~lazy

(* SHA-1 reads through read-only mounts, except where another program        *)
(* mounted the target first.                                                 *)
HashedReadOnly ==
    pc = "sha1" => \A m \in ToSet(active) \ Foreign : m.ro

(* A run that could unmount, and whose later mounts and unmounts all         *)
(* succeeded, ends with the mounts it found and none of its own, whether or  *)
(* not it could open the device and whatever else mounted the target         *)
(* meanwhile: each is back on its path, read-only or not as it was.  What    *)
(* the code does not restore is their order, which is reversed, and their    *)
(* other options.                                                            *)
RestoredUnlessFailed ==
    pc = "over" /\ ~refused /\ failures = {} =>
        /\ Len(table) = Len(original)
        /\ \A i \in DOMAIN original : LET back == table[(Len(original) - i) + 1] IN
                back.dev = original[i].dev /\ back.at = original[i].at /\ back.ro = original[i].ro

(* reflash.adoc: "Existing mounts are always unmounted for the rewrite and   *)
(* restored afterward".  Each mount point reaches what it reached before:    *)
(* none of the mounts put back hides another one.                            *)
Reached(t) == {<<t[i].dev, t[i].at>> : i \in {j \in DOMAIN t : Visible(t, j)}}
NoneHidden ==
    pc = "over" /\ ~refused /\ failures = {} => Reached(table) = Reached(original)

=============================================================================
