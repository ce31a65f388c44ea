----------------------------- MODULE Partitions -----------------------------
(***************************************************************************)
(* What a target looks like from its first units (io/partition.cpp,        *)
(* fs/detect.cpp).                                                         *)
(*                                                                         *)
(* A device has size and bad (units), sig (sector 0 ends in 55 AA), mbr    *)
(* (the four entries of sector 0: used, first, len), gpt (sector 1 is a    *)
(* GPT header), table (where it says the entries are: first, count, and    *)
(* their size in bytes), slots (the entries found there: used, first,      *)
(* last) and vols (the volume that begins at a unit, if one does).  One    *)
(* unit is one sector.                                                     *)
(***************************************************************************)
EXTENDS Extents, Integers

CONSTANTS
    SectorBytes,    \* bytes of a sector
    EntryBytes,     \* the least size of a GPT entry: 128
    Word,           \* 2^32, where the product of count and size wraps
    Fat12Max,       \* 4085, the least count of clusters that is not FAT12
    Fat16Max        \* 65525, the least one that is FAT32

ASSUME PartitionsAssumption ==
    /\ {SectorBytes, EntryBytes, Word, Fat12Max, Fat16Max} \subseteq Nat \ {0}
    /\ Fat12Max < Fat16Max

(* The units of len from unit first on can be read.                          *)
Reads(dev, first, len) ==
    first + len <= dev.size /\ (first .. (first + len - 1)) \cap dev.bad = {}

UpToSector(bytes) == (bytes + SectorBytes - 1) \div SectorBytes

(* table_end: the product is one of two 32-bit numbers, and so is the sum.   *)
EntrySize(table) == IF table.size < EntryBytes THEN EntryBytes ELSE table.size
TableEnd(table) ==
    table.first + ((table.count * EntrySize(table) + SectorBytes - 1) % Word) \div SectorBytes

\* Variant: an entry is taken to end after it begins.
GptPartsUnchecked(slots) ==
    FoldLeft(LAMBDA parts, e : IF e.used THEN Append(parts, Extent(e.first, e.last - e.first + 1)) ELSE parts,
             <<>>, slots)

GptParts(slots) ==
    FoldLeft(LAMBDA parts, e :
                 IF e.used
                 THEN Append(parts, Extent(e.first, IF e.last >= e.first THEN e.last - e.first + 1 ELSE 0))
                 ELSE parts,
             <<>>, slots)

MbrParts(mbr) ==
    FoldLeft(LAMBDA parts, e : IF e.used THEN Append(parts, Extent(e.first, e.len)) ELSE parts, <<>>, mbr)

(* A failed probe leaves what it had found so far.                           *)
probe_partitions(dev) ==
    CASE ~Reads(dev, 0, 1) ->
           [ok |-> FALSE, kind |-> "none", table |-> 0, parts |-> <<>>]
      [] Reads(dev, 0, 1) /\ Reads(dev, 1, 1) /\ dev.gpt ->
           LET read == Reads(dev, dev.table.first, UpToSector(dev.table.count * EntrySize(dev.table)))
           IN  [ok |-> read, kind |-> "gpt", table |-> TableEnd(dev.table),
                parts |-> IF read THEN GptParts(dev.slots) ELSE <<>>]
      [] Reads(dev, 0, 1) /\ ~(Reads(dev, 1, 1) /\ dev.gpt) /\ dev.sig ->
           [ok |-> TRUE, kind |-> "mbr", table |-> 1, parts |-> MbrParts(dev.mbr)]
      [] OTHER ->
           [ok |-> TRUE, kind |-> "none", table |-> 0, parts |-> <<>>]

-----------------------------------------------------------------------------
(* The marks a volume carries: magic (an ext superblock's), oem and label    *)
(* (names in its first sector) and sig (that sector ends in 55 AA).          *)

HasVolume(dev, base) == base \in DOMAIN dev.vols

(* A FAT without a label goes by its count of clusters, the difference of    *)
(* two 32-bit numbers before it is divided.                                  *)
FatByClusters(vol) ==
    LET clusters == ((vol.total - vol.overhead) % Word) \div ClusterUnits
    IN  IF clusters < Fat12Max THEN "fat12"
        ELSE IF clusters < Fat16Max THEN "fat16" ELSE "fat32"

(* The first mark that fits decides.                                         *)
TypeOf(vol) ==
    CASE vol.magic -> "ext"
      [] ~vol.magic /\ vol.oem \in {"ntfs", "exfat"} -> vol.oem
      [] ~vol.magic /\ vol.oem = "other" /\ vol.sig /\ vol.label # "none" -> vol.label
      [] ~vol.magic /\ vol.oem = "other" /\ vol.sig /\ vol.label = "none" /\ vol.bps # 0 /\ vol.valid ->
           FatByClusters(vol)
      [] OTHER -> "unknown"

detect_fs(dev, base) ==
    IF HasVolume(dev, base) /\ Reads(dev, base, 1) THEN TypeOf(dev.vols[base]) ELSE "unknown"

(* A volume as the scanner called for it sees it: offsets from its base, to  *)
(* the end of the device.                                                    *)
Volume(dev, base) ==
    [dev.vols[base] EXCEPT !.bad = {u - base : u \in {v \in dev.bad : v >= base}},
                           !.reach = dev.size - base]

=============================================================================
