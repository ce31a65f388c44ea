--------------------------------- MODULE Ext --------------------------------
(***************************************************************************)
(* The ext2/3/4 scanner (fs/ext.cpp).                                      *)
(*                                                                         *)
(* A volume has magic, grouped (the size of a group is not zero), extents  *)
(* (the feature of that name), count and pergroup (inodes), tables (the    *)
(* unit of each group's inode table), inodes, area (the directory entries  *)
(* a block holds), ptrs (the block numbers it holds), nodes (the extent    *)
(* node it holds), inode_size (bytes of a record) and bad.  An inode has    *)
(* what (file, dir, or other: symbolic link, device, pipe, socket), size,  *)
(* flag (EXTENTS_FL), node and map: its block map read as an extent node   *)
(* and as block numbers, the direct ones first, then a single, a double    *)
(* and a triple indirect one.                                              *)
(***************************************************************************)
EXTENDS Extents

CONSTANTS
    DirectBlocks,   \* direct block numbers of an inode: 12
    TreeDepth,      \* levels of nodes below an inode's own
    Word            \* 2^32, what the low half of a size wraps at

Super == 0
Descriptors == 1
RootInode == 2

blk_off(b) == b * ClusterUnits
BlockUnits(b) == blk_off(b) .. (blk_off(b) + ClusterUnits - 1)
ReadsBlock(vol, b) == BlockUnits(b) \cap vol.bad = {}

TableUnit(vol, ino) ==
    vol.tables[((ino - 1) \div vol.pergroup) + 1] + ((ino - 1) % vol.pergroup)
read_inode(vol, ino) ==
    ino \in 1..vol.count /\ vol.pergroup # 0 /\ TableUnit(vol, ino) \notin vol.bad

append_block_extents(exts, b, len) ==
    IF b = 0 \/ len = 0 THEN exts ELSE AddExtent(exts, Extent(blk_off(b), len))

(* A leaf: blocks never written to are passed over.                          *)
LeafEntry(s, e) ==
    IF e.uninit
    THEN [s EXCEPT !.left = @ - Least(@, e.len * ClusterUnits)]
    ELSE FoldLeft(LAMBDA t, i :
                      [t EXCEPT !.left = @ - Least(@, ClusterUnits),
                                !.exts = append_block_extents(@, e.block + i - 1, Least(t.left, ClusterUnits))],
                  s, [i \in 1..e.len |-> i])

\* One node; below: what the blocks it leads to hold, up to a size.
ParseNode(vol, node, size, below) ==
    IF ~node.magic
    THEN [ok |-> FALSE, exts |-> <<>>, left |-> size]
    ELSE FoldLeft(
             LAMBDA s, e :
                 IF ~s.ok \/ s.left = 0 THEN s
                 ELSE IF node.depth = 0 THEN LeafEntry(s, e)
                 ELSE IF ~ReadsBlock(vol, e.block) THEN [s EXCEPT !.ok = FALSE]
                 ELSE LET part == below[<<e.block, size - Total(s.exts)>>]
                          exts == AddExtents(s.exts, part.exts)
                      IN  IF ~part.ok THEN [s EXCEPT !.ok = FALSE]
                          ELSE [s EXCEPT !.exts = exts, !.left = size - Least(size, Total(exts))],
             [ok |-> TRUE, exts |-> <<>>, left |-> size], node.entries)

NodesBelow(vol) ==
    LET at[n \in 0..TreeDepth] ==
            [p \in (DOMAIN vol.nodes) \X Nat |->
                IF n = 0 THEN [ok |-> FALSE, exts |-> <<>>, left |-> p[2]]
                ELSE ParseNode(vol, vol.nodes[p[1]], p[2], at[n - 1])]
    IN  at[TreeDepth]

parse_extents_full(vol, node, size) == ParseNode(vol, node, size, NodesBelow(vol))

(* A hole takes nothing from what is left; the block that holds block        *)
(* numbers is itself a part of the file.                                     *)
CollectBlock(vol, s, b, level, below) ==
    IF ~s.ok \/ b = 0 \/ s.left = 0 THEN s
    ELSE IF level = 0
         THEN [s EXCEPT !.exts = append_block_extents(@, b, Least(s.left, ClusterUnits)),
                        !.left = @ - Least(@, ClusterUnits)]
    ELSE IF ~ReadsBlock(vol, b) THEN [s EXCEPT !.ok = FALSE]
    ELSE FoldLeft(LAMBDA t, p : below[<<t, p>>],
                  [s EXCEPT !.exts = append_block_extents(@, b, ClusterUnits)], vol.ptrs[b])

Collected == [ok : BOOLEAN, exts : Seq(Ranges), left : Nat]
collect_indirect(vol, s, b, level) ==
    LET at[n \in 0..level] ==
            [p \in Collected \X DOMAIN vol.ptrs |->
                CollectBlock(vol, p[1], p[2], n, IF n = 0 THEN <<>> ELSE at[n - 1])]
    IN  at[level][<<s, b>>]

(* The high half of a size is looked for only in records of 132 bytes or     *)
(* more, though those of 128 hold it too: a file of 4 GiB is cut short.      *)
i_size(vol, inode) == IF vol.inode_size >= 128 + 4 THEN inode.size ELSE inode.size % Word

LevelOf(i) == IF i <= DirectBlocks THEN 0 ELSE i - DirectBlocks

inode_data_extents(vol, inode) ==
    IF inode.flag \/ vol.extents
    THEN parse_extents_full(vol, inode.node, i_size(vol, inode))
    ELSE FoldLeft(LAMBDA s, i : collect_indirect(vol, s, inode.map[i], LevelOf(i)),
                  [ok |-> TRUE, exts |-> <<>>,
                   left |-> IF inode.what = "dir" /\ i_size(vol, inode) = 0
                            THEN DirectBlocks * ClusterUnits ELSE i_size(vol, inode)],
                  [i \in 1..(DirectBlocks + 3) |-> i])

(* walk_dir up to its loop: what the inode itself adds, and, of a directory, *)
(* the entries in all of its extents, blocks of block numbers included.      *)
EntriesIn(vol, b) == IF b \in DOMAIN vol.area THEN vol.area[b] ELSE <<>>
DirEntries(vol, exts) ==
    FlattenSeq([i \in DOMAIN exts |->
                   FlattenSeq([j \in 1..(exts[i].len \div ClusterUnits) |->
                                   EntriesIn(vol, exts[i].off \div ClusterUnits + j - 1)])])

EnterInode(vol, ino) ==
    IF ~read_inode(vol, ino) THEN [ok |-> FALSE, objects |-> <<>>, entries |-> <<>>]
    ELSE LET inode == vol.inodes[ino]
             data == inode_data_extents(vol, inode)
         IN  [ok |-> data.ok /\ (inode.what = "dir" => Covered(data.exts) \cap vol.bad = {}),
              objects |-> IF inode.what = "other" THEN <<>>
                          ELSE <<Object(inode.what, i_size(vol, inode), data.exts)>>,
              entries |-> IF inode.what = "dir" /\ data.ok THEN DirEntries(vol, data.exts) ELSE <<>>]

TakeEntry(e) ==
    [objects |-> <<>>, enter |-> IF e.what = "entry" THEN <<e.ino>> ELSE <<>>,
     stop |-> e.what = "end"]

(* Two divisions by zero: by the blocks of a group, and by its inodes when   *)
(* the root's own is looked up.                                              *)
scan_ext(vol) ==
    [outcome |->
        IF Super \in vol.bad \/ ~vol.magic THEN "failed"
        ELSE IF ~vol.grouped THEN "crashed"
        ELSE IF Descriptors \in vol.bad THEN "failed"
        ELSE IF vol.pergroup = 0 /\ RootInode <= vol.count THEN "crashed"
        ELSE "ok",
     objects |-> <<Object("meta", 1, <<Extent(Super, 1)>>), Object("meta", 1, <<Extent(Descriptors, 1)>>)>>
                 \o [g \in DOMAIN vol.tables |->
                        Object("meta", vol.pergroup, <<Extent(vol.tables[g], vol.pergroup)>>)],
     enter |-> <<RootInode>>]

-----------------------------------------------------------------------------
(* What a volume is *)

Entries == [what : {"entry", "skip", "end"}, ino : Nat]

IsNode(vol, node) ==
    /\ node.entries \in Seq([block : Nat, len : Nat, uninit : BOOLEAN])
    /\ node.depth # 0 => \A i \in DOMAIN node.entries : node.entries[i].block \in DOMAIN vol.nodes

IsInode(vol, inode) ==
    /\ inode.what \in {"file", "dir", "other"} /\ inode.size \in Nat
    /\ IsNode(vol, inode.node)
    /\ inode.map \in [1..(DirectBlocks + 3) -> DOMAIN vol.ptrs]

IsVolume(vol) ==
    /\ vol.count \in Nat /\ vol.pergroup \in Nat /\ vol.tables \in Seq(Nat)
    /\ \A i \in 1..vol.count : IsInode(vol, vol.inodes[i])
    /\ \A b \in DOMAIN vol.nodes : IsNode(vol, vol.nodes[b])
    /\ DOMAIN vol.ptrs \subseteq Nat
    /\ \A b \in DOMAIN vol.ptrs : vol.ptrs[b] \in Seq(DOMAIN vol.ptrs)
    /\ \A b \in DOMAIN vol.area : vol.area[b] \in Seq(Entries)

=============================================================================
