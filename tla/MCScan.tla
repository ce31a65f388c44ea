------------------------------- MODULE MCScan -------------------------------
(* Volumes and devices for Scan: small ones of every kind, built from what    *)
(* their files own, and the same with one thing wrong.                        *)
EXTENDS Scan, FiniteSets, TLC

Skip == [what |-> "skip", start |-> 0, size |-> 0, valid |-> 0, nofat |-> FALSE]
End == [Skip EXCEPT !.what = "end"]
Entry(what, start, size, nofat) ==
    [what |-> what, start |-> start, size |-> size, valid |-> size, nofat |-> nofat]

Volume0 ==
    [magic |-> FALSE, oem |-> "other", sig |-> FALSE, label |-> "none",
     bps |-> 1, valid |-> TRUE, sized |-> TRUE, bad |-> {}, reach |-> 0, total |-> 0, overhead |-> 0,
     whole |-> TRUE, files |-> {}, free |-> {}, quirks |-> {}]

Arrangements(S, n) == {s \in [1..n -> S] : \A i, j \in 1..n : i # j => s[i] # s[j]}
FirstOr(seq, default) == IF seq = <<>> THEN default ELSE seq[1]

-----------------------------------------------------------------------------
(* FAT and exFAT: a file a, a directory d and a file b in it; r is the root's *)
(* own chain.                                                                 *)

Clusters == 2..6
InChain(c, chains) == \E s \in chains : c \in ToSet(s)
Next_(c, chains) ==
    LET s == CHOOSE t \in chains : c \in ToSet(t)
        i == CHOOSE j \in DOMAIN s : s[j] = c
    IN  IF i = Len(s) THEN 90 ELSE s[i + 1]
Links(chains) == [c \in Clusters |-> IF InChain(c, chains) THEN Next_(c, chains) ELSE 0]
ClusterUnitsOf(at, s) ==
    UNION {(at + (s[i] - 2) * ClusterUnits) .. (at + (s[i] - 1) * ClusterUnits - 1) : i \in DOMAIN s}
Bytes(first, len) == first .. (first + len - 1)

(* Entries: the root's in its first cluster (0: the root area), d's in d's    *)
(* last one, the clusters before it full.                                     *)
Area(rootAt, a, d, b, slackA, flag) ==
    [c \in {0} \cup Clusters |->
        CASE c = rootAt ->
               <<Skip, Entry("file", FirstOr(a, 0), Len(a) * ClusterUnits - slackA, flag),
                 Entry("dir", d[1], 0, FALSE), End, Entry("file", 2, 2, FALSE)>>
          [] c = d[Len(d)] -> <<Skip, Entry("file", FirstOr(b, 0), Len(b) * ClusterUnits, FALSE), End>>
          [] c \in ToSet(d) /\ c # d[Len(d)] -> <<Skip, Skip>>
          [] OTHER -> <<End>>]

FatVolume(type, r, a, d, b, slackA) ==
    LET at == IF type = "fat32" THEN 2 ELSE 3
        chains == {a, d, b, r} \ {<<>>}
        owned == UNION {ClusterUnitsOf(at, s) : s \in chains}
    IN  [Volume0 EXCEPT
            !.sig = TRUE, !.label = type,
            !.total = at + 5 * ClusterUnits, !.overhead = at,
            !.files = (owned \ ClusterUnitsOf(at, r)) \
                        (IF slackA = 1 /\ a # <<>> THEN {at + (a[Len(a)] - 1) * ClusterUnits - 1} ELSE {}),
            !.free = Bytes(at, 5 * ClusterUnits) \ owned]
        @@ [clusters |-> 5, fat |-> Links(chains), root |-> FirstOr(r, 0),
            area |-> Area(IF type = "fat32" THEN r[1] ELSE 0, a, d, b, slackA, FALSE)]

(* Every way to lay two clusters of a, one or two of d and one of b.          *)
FatVolumes ==
    {FatVolume("fat16", <<>>, SubSeq(p, 1, 2), SubSeq(p, 3, 4), <<>>, s)
        : p \in Arrangements(Clusters, 4), s \in 0..1}
    \cup {FatVolume("fat12", <<>>, <<p[1]>>, <<p[2]>>, <<p[3]>>, 0) : p \in Arrangements(Clusters, 3)}
    \cup {FatVolume("fat32", <<p[1]>>, <<p[2]>>, <<p[3], p[4]>>, <<p[5]>>, 1)
             : p \in Arrangements(Clusters, 5)}
    \cup {FatVolume("fat16", <<>>, <<>>, <<3>>, <<>>, 0)}

\* No label: detect_fs counts clusters; one of them says less than its overhead.
Unlabelled(v) == [v EXCEPT !.label = "none"]
UnlabelledVolumes ==
    {Unlabelled(FatVolume("fat12", <<>>, <<2>>, <<3>>, <<4>>, 0)),
     [Unlabelled(FatVolume("fat16", <<>>, <<2>>, <<3>>, <<4>>, 0)) EXCEPT !.bps = 0, !.whole = FALSE],
     [Unlabelled(FatVolume("fat16", <<>>, <<2>>, <<3>>, <<4>>, 0)) EXCEPT !.total = 1, !.whole = FALSE]}

(* One FAT entry is wrong, or one start cluster is.                           *)
DamagedFat ==
    LET v == FatVolume("fat16", <<>>, <<2, 4>>, <<3, 6>>, <<5>>, 0)
        A == v.area
    IN  {[v EXCEPT !.whole = FALSE, !.fat[c] = x] : c \in Clusters, x \in {0, 1, 7, 90} \cup Clusters}
        \cup {[v EXCEPT !.whole = FALSE, !.area[0] = <<Skip, Entry("file", x, s, FALSE), A[0][3], End>>]
                 : x \in 0..7, s \in {0, 3, 9}}
        \cup {[v EXCEPT !.whole = FALSE, !.quirks = {"cycle"}, !.area[6] = <<Skip, Entry("dir", 3, 0, FALSE), End>>],
              [v EXCEPT !.whole = FALSE, !.bps = 0], [v EXCEPT !.whole = FALSE, !.valid = FALSE],
              [v EXCEPT !.whole = FALSE, !.sized = FALSE], [Unlabelled(v) EXCEPT !.whole = FALSE, !.sized = FALSE],
              [v EXCEPT !.whole = FALSE, !.label = "fat32"]}

ExFatVolume(r, a, d, b, slackA, contiguousA, contiguousD, junk) ==
    LET chains == {a, d, b, r} \ {<<>>}
        owned == UNION {ClusterUnitsOf(2, s) : s \in chains}
        linked == {b, r} \cup (IF contiguousA THEN {} ELSE {a}) \cup (IF contiguousD THEN {} ELSE {d})
        area == Area(r[1], a, d, b, slackA, contiguousA)
    IN  [Volume0 EXCEPT
            !.oem = "exfat",
            !.files = (owned \ ClusterUnitsOf(2, r)) \
                        (IF slackA = 1 THEN {2 + (a[Len(a)] - 1) * ClusterUnits - 1} ELSE {}),
            !.free = Bytes(2, 5 * ClusterUnits) \ owned,
            !.quirks = IF ~contiguousD THEN {} ELSE IF Len(d) > 1 THEN {"contiguous", "long"} ELSE {"contiguous"}]
        @@ [clusters |-> 5, root |-> r[1],
            fat |-> [c \in Clusters |-> IF InChain(c, linked) THEN Links(linked)[c] ELSE junk],
            area |-> [area EXCEPT ![r[1]][3].nofat = contiguousD]]

ExFatVolumes ==
    {ExFatVolume(<<p[1]>>, <<p[2]>>, <<p[3], p[4]>>, <<p[5]>>, 1, FALSE, FALSE, 0)
        : p \in Arrangements(Clusters, 5)}
    \cup {ExFatVolume(<<2>>, <<3, 4>>, <<5>>, <<6>>, s, TRUE, c, j)
             : s \in 0..1, c \in BOOLEAN, j \in {0, 3, 5, 90}}
    \cup {ExFatVolume(<<6>>, <<5>>, <<3, 4>>, <<2>>, 0, c, TRUE, 0) : c \in BOOLEAN}
    \cup {ExFatVolume(<<2>>, <<3>>, <<5>>, <<>>, 0, TRUE, c, 0) : c \in BOOLEAN}

\* Less of a's two clusters has been written to than allocated.
PreallocatedExFat ==
    {[ExFatVolume(<<2>>, <<3, 4>>, <<5>>, <<6>>, 0, c, FALSE, 0) EXCEPT
        !.area[2][2].valid = n, !.quirks = {"prealloc"}] : n \in 0..3, c \in BOOLEAN}

DamagedExFat ==
    LET v == ExFatVolume(<<2>>, <<3, 5>>, <<4>>, <<6>>, 0, FALSE, FALSE, 0)
    IN  {[v EXCEPT !.whole = FALSE, !.fat[c] = x] : c \in {3, 5, 6}, x \in {0, 1, 7, 90} \cup Clusters}
        \cup {[v EXCEPT !.whole = FALSE, !.valid = FALSE]}

\* A directory that goes on past the heap, where the device has something that
\* reads as entries, or nothing.
PastTheHeap(c) ==
    LET v == ExFatVolume(<<2>>, <<3, 5>>, <<4>>, <<6>>, 0, FALSE, FALSE, 0)
    IN  [v EXCEPT !.whole = FALSE, !.fat[4] = c,
                  !.area = @ @@ (7 :> <<Entry("file", 3, 1, FALSE), Entry("file", 8, 3, TRUE), End>>)]

-----------------------------------------------------------------------------
(* NTFS: records in the three clusters of the table, $MFT's own first, then   *)
(* $Boot, file x, a resident file that has y too, and one out of use.         *)

Runs(places) ==     \* <<first cluster (0: none), clusters>>: as differences
    [i \in DOMAIN places |->
        LET before == {j \in 1..(i - 1) : places[j][1] # 0}
            last == IF before = {} THEN 0 ELSE places[CHOOSE j \in before : \A k \in before : k <= j][1]
        IN  [sparse |-> places[i][1] = 0, len |-> places[i][2],
             by |-> IF places[i][1] = 0 THEN 0 ELSE places[i][1] - last]]

Attr(places, size, data) == [resident |-> FALSE, data |-> data, size |-> size, runs |-> Runs(places)]
Resident == [resident |-> TRUE, data |-> TRUE, size |-> 1, runs |-> <<>>]
Record(used, attrs) == [whole |-> TRUE, used |-> used, attrs |-> attrs]
\* In the code, the eighth record: the first cluster, boot sector and boot code.
BootRecord ==
    Record(TRUE, <<[resident |-> FALSE, data |-> TRUE, size |-> 2,
                    runs |-> <<[sparse |-> FALSE, len |-> 1, by |-> 0]>>]>>)
NoRecord == [whole |-> FALSE, used |-> FALSE, attrs |-> <<>>]
PlaceUnits(places) ==
    UNION {(places[i][1] * 2) .. ((places[i][1] + places[i][2]) * 2 - 1)
              : i \in {j \in DOMAIN places : places[j][1] # 0}}

NtfsVolume(mft, told, x, y, map) ==
    LET units == N!RecordUnits([i \in DOMAIN mft |-> Extent(mft[i][1] * 2, mft[i][2] * 2)])
        recs == <<Record(TRUE, <<Attr(told, 6, TRUE), Attr(map, 2, FALSE)>>), BootRecord,
                  Record(TRUE, <<Attr(x, 4, TRUE)>>),
                  Record(TRUE, <<Resident, Attr(y, 1, FALSE)>>),
                  Record(FALSE, <<Attr(x, 4, TRUE)>>)>>
        owned == {0, 1} \cup PlaceUnits(mft) \cup PlaceUnits(x) \cup PlaceUnits(y) \cup PlaceUnits(map)
    IN  [Volume0 EXCEPT
            !.oem = "ntfs", !.sig = TRUE, !.files = owned, !.free = (2..15) \ owned,
            !.quirks = IF told = mft THEN {} ELSE {"splitMft"}]
        @@ [mft |-> mft[1][1] * 2,
            recs |-> [u \in 0..15 |->
                         IF \E i \in DOMAIN units : units[i] = u /\ i <= 5
                         THEN recs[CHOOSE i \in DOMAIN units : units[i] = u] ELSE NoRecord]]

NtfsVolumes ==
    {NtfsVolume(m, m, <<<<p[1], 1>>, <<0, 2>>, <<p[2], 1>>>>, <<<<p[3], 1>>>>, <<<<p[4], 1>>>>)
        : p \in Arrangements({3, 4, 6, 7}, 4), m \in {<<<<1, 2>>, <<5, 1>>>>, <<<<1, 1>>, <<5, 1>>, <<2, 1>>>>, <<<<5, 1>>, <<1, 2>>>>}}
    \cup {NtfsVolume(<<<<1, 1>>, <<5, 1>>, <<2, 1>>>>, <<<<1, 1>>>>, <<<<3, 2>>>>, <<>>, <<<<7, 1>>>>)}

DamagedNtfs ==
    LET v == NtfsVolume(<<<<1, 3>>>>, <<<<1, 3>>>>, <<<<4, 2>>>>, <<<<6, 1>>>>, <<<<7, 1>>>>)
    IN  {[v EXCEPT !.whole = FALSE, !.recs[u] = NoRecord] : u \in 2..6}
        \cup {[v EXCEPT !.whole = FALSE, !.valid = FALSE],
              [v EXCEPT !.whole = FALSE, !.recs[2].attrs = <<>>],
              [v EXCEPT !.whole = FALSE, !.recs[4].attrs[1].runs[1].len = 5]}

-----------------------------------------------------------------------------
(* ext: blocks 0 to 3 are the superblock, the descriptors and two inode       *)
(* tables; the root (inode 2) is in block 4 and holds a (3), d (4) and, in    *)
(* some, a link or a device (6); d is in block 5 and holds b (5) and perhaps  *)
(* a second name of a, or of itself.                                          *)

Node0 == [magic |-> TRUE, depth |-> 0, entries |-> <<>>]
BadNode == [Node0 EXCEPT !.magic = FALSE]
Leaf(b, len, uninit) == [block |-> b, len |-> len, uninit |-> uninit]
Tree(entries) == [Node0 EXCEPT !.entries = entries]
Index(blocks) == [Node0 EXCEPT !.depth = 1, !.entries = [i \in DOMAIN blocks |-> Leaf(blocks[i], 1, FALSE)]]

Inode(what, size, flag, node, map) ==
    [what |-> what, size |-> size, flag |-> flag, node |-> node, map |-> map]
NoMap == <<0, 0, 0, 0>>
Mapped(what, size, map) == Inode(what, size, FALSE, BadNode, map)
Treed(what, size, node) == Inode(what, size, TRUE, node, NoMap)
NoInode == Mapped("other", 0, NoMap)

Dirent(ino) == [what |-> "entry", ino |-> ino]
DirSkip == [what |-> "skip", ino |-> 0]
DirEnd == [what |-> "end", ino |-> 0]

\* A shape of a: its inode, the blocks its data is in, the others it owns
\* (with block numbers, or never written to), and what they hold.  p: six blocks in some order.
Shape(inode, data, own, ptrs, nodes) ==
    [inode |-> inode, data |-> data, own |-> own, ptrs |-> ptrs, nodes |-> nodes]
None == [x \in {} |-> 0]

MappedShapes(p) ==
    {Shape(Mapped("file", 1, <<p[1], 0, 0, 0>>), {p[1]}, {}, None, None),
     Shape(Mapped("file", 0, NoMap), {}, {}, None, None),
     Shape(Mapped("file", 6, <<p[1], p[2], 0, 0>>), {p[1], p[3], p[4]}, {p[2]},
           p[2] :> <<p[3], p[4]>>, None),
     Shape(Mapped("file", 5, <<0, p[2], 0, 0>>), {p[4]}, {p[2]}, p[2] :> <<0, p[4]>>, None),
     Shape(Mapped("file", 12, <<p[1], 0, p[2], 0>>), {p[1], p[4], p[5]}, {p[2], p[3]},
           (p[2] :> <<0, p[3]>>) @@ (p[3] :> <<p[4], p[5]>>), None),
     Shape(Mapped("file", 16, <<p[1], 0, 0, p[2]>>), {p[1], p[5]}, {p[2], p[3], p[4]},
           (p[2] :> <<p[3], 0>>) @@ (p[3] :> <<p[4], 0>>) @@ (p[4] :> <<p[5], 0>>), None)}

TreedShapes(p) ==
    {Shape(Treed("file", 4, Tree(<<Leaf(p[1], 1, FALSE), Leaf(p[2], 1, FALSE)>>)), {p[1], p[2]}, {}, None, None),
     Shape(Treed("file", 5, Tree(<<Leaf(p[1], 1, FALSE), Leaf(p[2], 1, TRUE), Leaf(p[3], 1, FALSE)>>)),
           {p[1], p[3]}, {p[2]}, None, None),
     Shape(Treed("file", 6, Index(<<p[1], p[2]>>)), {p[3], p[4], p[5]}, {}, None,
           (p[1] :> Tree(<<Leaf(p[3], 1, FALSE)>>))
               @@ (p[2] :> Tree(<<Leaf(p[4], 1, FALSE), Leaf(p[5], 1, FALSE)>>))),
     Shape(Treed("file", 2, Tree(<<Leaf(p[6], 1, FALSE)>>)), {p[6]}, {}, None, None)}

\* Blocks the tree itself is in belong to nobody the scanner is to rewrite.
ExtVolume(shape, p, feature, other, rootMore, dMore) ==
    LET dir(b) == IF feature THEN Treed("dir", 2, Tree(<<Leaf(b, 1, FALSE)>>))
                  ELSE Mapped("dir", 2, <<b, 0, 0, 0>>)
        owned == shape.data \cup shape.own \cup {4, 5, 12} \cup DOMAIN shape.nodes
        slack(b) == IF shape.inode.size % 2 = 1 THEN {2 * b + 1} ELSE {}
    IN  [Volume0 EXCEPT
            !.magic = TRUE,
            !.files = UNION {E!BlockUnits(b) : b \in shape.data \cup {4, 5, 12}}
                        \ (UNION {slack(b) : b \in shape.data}),
            !.free = UNION {E!BlockUnits(b) : b \in (4..12) \ owned},
            !.quirks = IF feature /\ rootMore # <<>> THEN {"special"} ELSE {}]
        @@ [grouped |-> TRUE, extents |-> feature, inode_size |-> 256, count |-> 6, pergroup |-> 3, tables |-> <<2, 5>>,
            inodes |-> <<NoInode, dir(4), shape.inode, dir(5),
                         IF feature THEN Treed("file", 2, Tree(<<Leaf(12, 1, FALSE)>>))
                         ELSE Mapped("file", 2, <<12, 0, 0, 0>>),
                         other>>,
            area |-> (4 :> <<DirSkip, DirSkip, Dirent(3), Dirent(4)>> \o rootMore)
                       @@ (5 :> <<DirSkip, Dirent(5)>> \o dMore)
                       @@ [b \in 0..12 |-> <<DirEnd>>],
            ptrs |-> shape.ptrs @@ [b \in 0..12 |-> <<0, 0>>],
            nodes |-> shape.nodes @@ [b \in 0..12 |-> BadNode]]

Orders == {<<6, 7, 8, 9, 10, 11>>, <<11, 10, 9, 8, 7, 6>>, <<7, 6, 9, 8, 11, 10>>}
FastLink == Mapped("other", 1, <<7, 0, 0, 0>>)

ExtVolumes ==
    UNION {{ExtVolume(sh, p, FALSE, FastLink, r, d)
               : sh \in MappedShapes(p), r \in {<<>>, <<Dirent(6)>>}, d \in {<<>>, <<Dirent(3)>>, <<Dirent(4)>>}}
           \cup {ExtVolume(sh, p, TRUE, NoInode, <<>>, d)
               : sh \in TreedShapes(p), d \in {<<>>, <<Dirent(3)>>}}
              : p \in Orders}

SpecialExt ==
    {ExtVolume(sh, p, TRUE, FastLink, <<Dirent(6)>>, <<>>) : sh \in TreedShapes(<<6, 7, 8, 9, 10, 11>>),
                                                           p \in {<<6, 7, 8, 9, 10, 11>>}}

\* A file of 2^32 units and a little, all but three blocks of them holes; the
\* records of its inodes are of 128 bytes, or larger.
LargeShapes(p) ==
    {Shape(Mapped("file", Word + n, <<p[1], p[2], 0, 0>>), {p[1], p[3], p[4]}, {p[2]},
           p[2] :> <<p[3], p[4]>>, None) : n \in {0, 2}}
    \cup {Shape(Treed("file", Word + n, Tree(<<Leaf(p[1], 1, FALSE), Leaf(p[2], 1, FALSE)>>)),
                {p[1], p[2]}, {}, None, None) : n \in {0, 2}}
LargeExt ==
    {LET v == ExtVolume(sh, <<6>>, sh.inode.flag, NoInode, <<>>, <<>>)
     IN  IF small THEN [v EXCEPT !.inode_size = 128, !.quirks = {"large"}] ELSE v
        : sh \in LargeShapes(<<6, 7, 8, 9, 10, 11>>), small \in BOOLEAN}

\* A directory of two blocks and the block that holds the second's number.
BigDirectory ==
    LET v == ExtVolume(Shape(Mapped("file", 1, <<6, 0, 0, 0>>), {6}, {}, None, None),
                       <<6>>, FALSE, NoInode, <<>>, <<>>)
    IN  [v EXCEPT !.inodes[4] = Mapped("dir", 4, <<7, 8, 0, 0>>),
                  !.ptrs[8] = <<5, 0>>, !.area[7] = <<DirSkip, DirSkip>>,
                  !.files = @ \cup {14, 15}, !.free = @ \ {14, 15, 16, 17}, !.quirks = {"indirect"}]

DamagedExt ==
    LET m == ExtVolume(Shape(Mapped("file", 6, <<6, 7, 0, 0>>), {6, 8, 9}, {7}, 7 :> <<8, 9>>, None),
                       <<6>>, FALSE, NoInode, <<>>, <<Dirent(2)>>)
        t == ExtVolume(CHOOSE sh \in TreedShapes(<<6, 7, 8, 9, 10, 11>>) : DOMAIN sh.nodes # {},
                       <<6>>, TRUE, NoInode, <<>>, <<>>)
    IN  {[m EXCEPT !.whole = FALSE, !.inodes[3].map = <<b, c, 0, 0>>] : b \in {0, 5, 8}, c \in {0, 4, 7, 8}}
        \cup {[m EXCEPT !.whole = FALSE, !.area[5] = <<DirSkip, Dirent(i), DirEnd, Dirent(5)>>] : i \in 1..9}
        \cup {[t EXCEPT !.whole = FALSE, !.nodes[b] = BadNode] : b \in {6, 7}}
        \cup {[m EXCEPT !.whole = FALSE, !.grouped = FALSE], [m EXCEPT !.whole = FALSE, !.pergroup = 0],
              [m EXCEPT !.whole = FALSE, !.pergroup = 0, !.count = 1]}

-----------------------------------------------------------------------------
(* Devices: a volume alone, or two behind a partition table.                  *)

UnitsIn(v) == IF v.magic THEN 26 ELSE IF v.oem = "ntfs" THEN 16 ELSE IF v.oem = "exfat" THEN 12 ELSE 13

Device0 ==
    [size |-> 0, bad |-> {}, sig |-> FALSE, mbr |-> <<>>, gpt |-> FALSE,
     table |-> [first |-> 2, count |-> 3, size |-> 0], slots |-> <<>>, vols |-> None]
MbrEntry(first, len) == [used |-> TRUE, first |-> first, len |-> len]
NoMbrEntry == [used |-> FALSE, first |-> 0, len |-> 0]
Slot(first, len) == [used |-> TRUE, first |-> first, last |-> first + len - 1]
NoSlot == [used |-> FALSE, first |-> 0, last |-> 0]

Alone(v) == [Device0 EXCEPT !.size = UnitsIn(v), !.sig = v.sig, !.vols = 0 :> v]

WithMbr(v, w, gap) ==
    LET at == 2 + UnitsIn(v) + gap
    IN  [Device0 EXCEPT
            !.size = at + UnitsIn(w), !.sig = TRUE,
            !.mbr = <<MbrEntry(2, UnitsIn(v)), NoMbrEntry, MbrEntry(at, UnitsIn(w)), NoMbrEntry>>,
            !.vols = (2 :> v) @@ (at :> w)]

\* w is a logical partition: a sector with the table of the extended one comes first.
Logical(v, w, gap) ==
    LET at == 2 + UnitsIn(v) + gap
    IN  [Device0 EXCEPT
            !.size = at + 1 + UnitsIn(w) + gap, !.sig = TRUE,
            !.mbr = <<MbrEntry(2, UnitsIn(v)), MbrEntry(at, 1 + UnitsIn(w) + gap), NoMbrEntry, NoMbrEntry>>,
            !.vols = (2 :> v) @@ (at + 1 :> [w EXCEPT !.quirks = @ \cup {"logical"}])]

\* Three entries of half a sector, the last of them in a sector of its own.
WithGpt(v, w, gap) ==
    LET at == 4 + UnitsIn(v) + gap
        size == at + UnitsIn(w)
    IN  [Device0 EXCEPT
            !.size = size, !.sig = TRUE, !.mbr = <<MbrEntry(1, size - 1)>>, !.gpt = TRUE,
            !.slots = <<NoSlot, Slot(4, UnitsIn(v)), Slot(at, UnitsIn(w))>>,
            !.vols = (4 :> v) @@ (at :> w)]

Broken(d, units) == {[d EXCEPT !.bad = {u}] : u \in units}
AnyUnit(d) == 0..(d.size - 1)

SomeFat == FatVolume("fat16", <<>>, <<2, 4>>, <<3, 6>>, <<5>>, 0)
SomeFat32 == FatVolume("fat32", <<4>>, <<2>>, <<6>>, <<3, 5>>, 0)
SomeExFat == ExFatVolume(<<2>>, <<3, 5>>, <<4>>, <<6>>, 0, FALSE, FALSE, 0)
SomeNtfs == NtfsVolume(<<<<1, 1>>, <<5, 1>>, <<2, 1>>>>, <<<<1, 1>>, <<5, 1>>, <<2, 1>>>>, <<<<4, 1>>, <<0, 2>>, <<3, 1>>>>,
                       <<<<6, 1>>>>, <<<<7, 1>>>>)
SomeExt == ExtVolume(Shape(Mapped("file", 5, <<6, 7, 0, 0>>), {6, 8, 9}, {7}, 7 :> <<8, 9>>, None),
                     <<6>>, FALSE, FastLink, <<Dirent(6)>>, <<Dirent(3)>>)
SomeExt4 == ExtVolume(CHOOSE sh \in TreedShapes(<<6, 8, 7, 9, 11, 10>>) : DOMAIN sh.nodes # {},
                      <<6>>, TRUE, NoInode, <<>>, <<Dirent(3)>>)
Some == {SomeFat, SomeFat32, SomeExFat, SomeNtfs, SomeExt, SomeExt4}

\* Boot code that reads as a partition.
Phantom == [Alone([SomeFat EXCEPT !.quirks = {"table"}]) EXCEPT !.mbr = <<MbrEntry(9, 2)>>]
Empty == [Device0 EXCEPT !.size = 4]
Reversed ==
    [WithGpt([SomeFat EXCEPT !.quirks = {"table"}], [SomeNtfs EXCEPT !.quirks = {"table"}], 1) EXCEPT
        !.slots = <<[used |-> TRUE, first |-> 6, last |-> 3]>> \o Tail(@), !.table.size = 128]

ScanDevices ==
    {Alone(v) : v \in FatVolumes \cup UnlabelledVolumes \cup DamagedFat \cup ExFatVolumes \cup DamagedExFat
                         \cup NtfsVolumes \cup DamagedNtfs \cup ExtVolumes \cup DamagedExt
                         \cup SpecialExt \cup LargeExt \cup PreallocatedExFat \cup {BigDirectory}}
    \cup {[Alone(PastTheHeap(c)) EXCEPT !.size = s] : c \in {7, 8}, s \in 12..16}
    \cup {WithMbr(PastTheHeap(7), w, 0) : w \in Some}
    \cup UNION {Broken(Alone(v), AnyUnit(Alone(v))) : v \in Some}
    \cup UNION {{d} \cup Broken(d, AnyUnit(d)) : d \in {WithMbr(v, w, 1) : v, w \in Some} \cup {WithGpt(v, w, 1) : v, w \in Some}}
    \cup UNION {{d} \cup Broken(d, {0, 1, 2, d.size - 5}) : d \in {Logical(v, w, g) : v, w \in Some, g \in 0..1}}
    \cup {Phantom, Empty, Reversed}

\* Healthy ext volumes with a symbolic link or a device file, and others.
Ext4Devices == {Alone(v) : v \in SpecialExt} \cup {Alone(v) : v \in {SomeExt4, SomeFat, SomeNtfs}}

=============================================================================
