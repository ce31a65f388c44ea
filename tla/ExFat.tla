-------------------------------- MODULE ExFat -------------------------------
(***************************************************************************)
(* The exFAT scanner (fs/exfat.cpp).                                       *)
(*                                                                         *)
(* A volume has valid (its boot sector), clusters, fat, root, area and bad *)
(* as in module Fat, clusters past the heap included in area, and reach    *)
(* (the units of the device from its beginning on).  The entry of a file   *)
(* or a directory has two lengths: size, that of its clusters' data, and   *)
(* valid, how much of them has been written to.  It says whether it is     *)
(* contiguous (NoFatChain): its clusters then follow each other and their  *)
(* FAT entries mean nothing.  Entries without a stream entry, and those of *)
(* the allocation bitmap, the up-case table and deleted files are passed   *)
(* over.                                                                   *)
(***************************************************************************)
EXTENDS Extents

Boot == 0
FatUnit == 1
Heap == 2
NoLimit == 1000

Eoc == 90
fat_entry(vol, c) == IF c \in DOMAIN vol.fat THEN vol.fat[c] ELSE Eoc
cluster_off(vol, c) == Heap + (c - 2) * ClusterUnits

(* chain() of a contiguous object: an empty file counts as one cluster, and  *)
(* a directory, whose size the caller passes as 0, runs to the end of the    *)
(* heap.                                                                     *)
Contiguous(vol, start, size, whole) ==
    LET left == IF whole THEN NoLimit ELSE IF size = 0 THEN ClusterUnits ELSE size
        wanted == (left + ClusterUnits - 1) \div ClusterUnits
        count == IF start < 2 \/ start >= vol.clusters + 2 THEN 0
                 ELSE Least(wanted, vol.clusters + 2 - start)
    IN  AddExtents(<<>>,
            [i \in 1..count |->
                Extent(cluster_off(vol, start + i - 1),
                       IF whole THEN ClusterUnits
                       ELSE Least(left - (i - 1) * ClusterUnits, ClusterUnits))])

(* The loop of chain() over the FAT.  Only the end of the table bounds it.   *)
Linked(vol, start, size, whole) ==
    FoldLeft(LAMBDA s, i :
                 IF ~s.over /\ s.left > 0 /\ s.c >= 2 /\ s.c < Eoc /\ s.c \notin ToSet(s.visited)
                 THEN LET take == Least(s.left, ClusterUnits)
                      IN  [c |-> fat_entry(vol, s.c),
                           left |-> IF s.left = NoLimit THEN s.left ELSE s.left - take,
                           visited |-> Append(s.visited, s.c),
                           exts |-> AddExtent(s.exts, Extent(cluster_off(vol, s.c), take)),
                           over |-> fat_entry(vol, s.c) >= Eoc]
                 ELSE [s EXCEPT !.over = TRUE],
             [c |-> start, left |-> IF whole \/ size = 0 THEN NoLimit ELSE size,
              visited |-> <<>>, exts |-> <<>>, over |-> FALSE],
             [i \in 1..(vol.clusters + 2) |-> i])

chain(vol, start, size, nofat, whole) ==
    IF nofat THEN Contiguous(vol, start, size, whole) ELSE Linked(vol, start, size, whole).exts

(* walk() reads a directory along the FAT, whatever its entry says, and past *)
(* the heap too, as far as the device goes.                                  *)
EnterDir(vol, dir) ==
    LET along == Linked(vol, dir, 0, TRUE)
    IN  [ok |-> Covered(along.exts) \subseteq (0 .. (vol.reach - 1)) \ vol.bad,
         objects |-> <<>>,
         entries |-> FlattenSeq([i \in DOMAIN along.visited |->
                                    IF along.visited[i] \in DOMAIN vol.area
                                    THEN vol.area[along.visited[i]] ELSE <<>>])]

(* A file is as long as its valid data: the rest of what it has allocated is *)
(* left out, save that a chain is followed to its end if there is none.      *)
TakeEntry(vol, e) ==
    LET dir == e.what = "dir"
    IN  CASE e.what = "end" -> [objects |-> <<>>, enter |-> <<>>, stop |-> TRUE]
          [] e.what = "skip" -> [objects |-> <<>>, enter |-> <<>>, stop |-> FALSE]
          [] OTHER ->
               [objects |->
                    <<Object(e.what, IF dir THEN 0 ELSE e.valid,
                             IF e.start >= 2
                             THEN chain(vol, e.start, IF dir THEN 0 ELSE e.valid, e.nofat, dir) ELSE <<>>)>>,
                enter |-> IF dir /\ e.start >= 2 THEN <<e.start>> ELSE <<>>,
                stop |-> FALSE]

scan_exfat(vol) ==
    [outcome |->
        IF Boot \in vol.bad \/ ~vol.valid \/ FatUnit \in vol.bad THEN "failed" ELSE "ok",
     objects |-> <<Object("meta", 1, <<Extent(Boot, 1)>>), Object("meta", 1, <<Extent(FatUnit, 1)>>)>>,
     enter |-> <<vol.root>>]

-----------------------------------------------------------------------------
(* What a volume is *)

IsEntry(e) ==
    e.what \in {"file", "dir", "skip", "end"} /\ e.start \in Nat /\ e.valid \in Nat

IsVolume(vol) ==
    /\ vol.clusters \in Nat /\ vol.root \in Nat
    /\ \A c \in DOMAIN vol.fat : vol.fat[c] \in Nat
    /\ \A c \in DOMAIN vol.area :
          vol.area[c] \in Seq(ToSet(vol.area[c])) /\ \A e \in ToSet(vol.area[c]) : IsEntry(e)

=============================================================================
