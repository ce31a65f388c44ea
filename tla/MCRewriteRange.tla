---------------------------- MODULE MCRewriteRange --------------------------
(***************************************************************************)
(* Work lists for TLC.  Six bytes are enough for three blocks in a range   *)
(* with a short last one, for a partition that begins past the end of the  *)
(* map (the map is as long as the sum of the ranges), for the extents of a *)
(* file: out of order, at any offset, two in one cell, and for those of an *)
(* NTFS volume, whose boot sector is listed twice.  A volume may have no   *)
(* files: nothing to rewrite then.                                         *)
(***************************************************************************)
EXTENDS RewriteRange

Range(o, l) == [off |-> o, len |-> l]

WholeDevice == <<Range(0, 3)>>
Partitions == <<Range(0, 2), Range(4, 2)>>
FileExtents == <<Range(1, 3), Range(0, 1)>>

BootTwice == <<Range(0, 1), Range(0, 2)>>

NoFiles == <<>>

Lists == {WholeDevice, Partitions, FileExtents, BootTwice, NoFiles}

=============================================================================
