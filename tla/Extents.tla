------------------------------- MODULE Extents ------------------------------
(***************************************************************************)
(* Byte ranges on the target as the filesystem scanners collect them.      *)
(* Offsets and lengths count units, the finest size that matters.          *)
(***************************************************************************)
EXTENDS Naturals, Sequences, SequencesExt

CONSTANT ClusterUnits   \* units of a cluster (FAT, exFAT, NTFS) or block (ext)

ASSUME ExtentsAssumption == ClusterUnits \in Nat \ {0}

Extent(off, len) == [off |-> off, len |-> len]
Ranges == [off : Nat, len : Nat]

\* Every scanner lengthens its last extent when the next one touches it.
AddExtent(exts, e) ==
    IF exts # <<>> /\ Last(exts).off + Last(exts).len = e.off
    THEN Append(Front(exts), Extent(Last(exts).off, Last(exts).len + e.len))
    ELSE Append(exts, e)

AddExtents(exts, more) == FoldLeft(AddExtent, exts, more)

Total(exts) == FoldLeft(LAMBDA n, e : n + e.len, 0, exts)

UnitsOf(e) == e.off .. (e.off + e.len - 1)
Covered(exts) == UNION {UnitsOf(exts[i]) : i \in DOMAIN exts}

Least(a, b) == IF a < b THEN a ELSE b

\* FsObject: what a scanner found, by the kind of thing it stands for.
Object(what, size, exts) == [what |-> what, size |-> size, exts |-> exts]

=============================================================================
