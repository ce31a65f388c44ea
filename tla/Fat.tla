--------------------------------- MODULE Fat --------------------------------
(***************************************************************************)
(* The FAT12/16/32 scanner (fs/fat.cpp).                                   *)
(*                                                                         *)
(* A volume is a record: bps (zero or not), valid (the sectors of a        *)
(* cluster and the number of FATs are not zero), sized (nor are the        *)
(* sectors of a FAT), clusters, fat (its entries, by cluster), root, area  *)
(* (the directory entries a cluster holds, those of the FAT12/16 root area *)
(* under 0) and bad (the units that cannot be read); its type, what        *)
(* detect_fs made of it, comes as an argument.                             *)
(* Names are left out: an entry is a file, a directory, one that is passed *)
(* over (deleted, volume label, piece of a long name, "." and ".."), or    *)
(* the end mark.                                                           *)
(***************************************************************************)
EXTENDS Extents

Boot == 0
FatUnit == 1
RootArea == 2
NoLimit == 1000         \* numeric_limits<uint64_t>::max(), more than any chain

Eoc == 90
is_eoc(v) == v >= Eoc

(* fat_get: an entry past the end of the table reads as the end of a chain.  *)
fat_get(vol, c) == IF c \in DOMAIN vol.fat THEN vol.fat[c] ELSE Eoc

DataStart(type) == IF type = "fat32" THEN 2 ELSE 3
cluster_offset(type, c) == DataStart(type) + (c - 2) * ClusterUnits

(* The loop of chain_extents: at most one turn per cluster, as a cluster     *)
(* seen before ends it.                                                      *)
\* Variant: the table is trusted.
Unseen(s) == TRUE
NotSeen(s) == s.c \notin ToSet(s.visited)
ChainGoesOn(vol, s) ==
    /\ ~s.over /\ s.left > 0
    /\ s.c >= 2 /\ s.c < vol.clusters + 2 /\ ~is_eoc(s.c)
    /\ NotSeen(s)

ChainTurn(vol, type, s) ==
    LET take == Least(s.left, ClusterUnits)
        next == fat_get(vol, s.c)
    IN  [c |-> next,
         left |-> IF s.left = NoLimit THEN s.left ELSE s.left - take,
         visited |-> Append(s.visited, s.c),
         exts |-> AddExtent(s.exts, Extent(cluster_offset(type, s.c), take)),
         over |-> is_eoc(next)]

Chain(vol, type, start, size, whole) ==
    FoldLeft(LAMBDA s, i : IF ChainGoesOn(vol, s) THEN ChainTurn(vol, type, s) ELSE [s EXCEPT !.over = TRUE],
             [c |-> start, left |-> IF whole \/ size = 0 THEN NoLimit ELSE size,
              visited |-> <<>>, exts |-> <<>>, over |-> FALSE],
             [i \in 1..(2 * vol.clusters) |-> i])

chain_extents(vol, type, start, size, whole) == Chain(vol, type, start, size, whole).exts

(* The first half of walk_dir: the directory as one buffer.                  *)
EnterDir(vol, type, dir) ==
    IF dir = 0 /\ type # "fat32"
    THEN [ok |-> RootArea \notin vol.bad, objects |-> <<>>, entries |-> vol.area[0]]
    ELSE LET chain == Chain(vol, type, dir, 0, TRUE)
         IN  [ok |-> Covered(chain.exts) \cap vol.bad = {}, objects |-> <<>>,
              entries |-> FlattenSeq([i \in DOMAIN chain.visited |-> vol.area[chain.visited[i]]])]

(* The second half: what one entry adds, and the directory it leads into.    *)
TakeEntry(vol, type, e) ==
    LET dir == e.what = "dir"
    IN  CASE e.what = "end" -> [objects |-> <<>>, enter |-> <<>>, stop |-> TRUE]
          [] e.what = "skip" -> [objects |-> <<>>, enter |-> <<>>, stop |-> FALSE]
          [] OTHER ->
               [objects |->
                    <<Object(e.what, IF dir THEN 0 ELSE e.size,
                             IF e.start >= 2 THEN chain_extents(vol, type, e.start, IF dir THEN 0 ELSE e.size, dir)
                             ELSE <<>>)>>,
                enter |-> IF dir /\ e.start >= 2 THEN <<e.start>> ELSE <<>>,
                stop |-> FALSE]

(* scan_fat up to the walk.  It divides by bps before it looks at it.        *)
scan_fat(vol, type) ==
    [outcome |->
        IF Boot \in vol.bad THEN "failed"
        ELSE IF vol.bps = 0 THEN "crashed"
        ELSE IF ~vol.valid \/ ~vol.sized \/ FatUnit \in vol.bad THEN "failed"
        ELSE "ok",
     objects |-> <<Object("meta", 1, <<Extent(Boot, 1)>>), Object("meta", 1, <<Extent(FatUnit, 1)>>)>>,
     enter |-> <<IF type = "fat32" THEN vol.root ELSE 0>>]

-----------------------------------------------------------------------------
(* What a volume is *)

IsEntry(e) ==
    e.what \in {"file", "dir", "skip", "end"} /\ e.start \in Nat /\ e.size \in Nat

IsVolume(vol) ==
    /\ vol.clusters \in Nat /\ vol.root \in Nat
    /\ \A c \in DOMAIN vol.fat : vol.fat[c] \in Nat
    /\ {0} \cup 2..(vol.clusters + 1) \subseteq DOMAIN vol.area
    /\ \A c \in DOMAIN vol.area :
          vol.area[c] \in Seq(ToSet(vol.area[c])) /\ \A e \in ToSet(vol.area[c]) : IsEntry(e)

=============================================================================
