-------------------------------- MODULE Ntfs --------------------------------
(***************************************************************************)
(* The NTFS scanner (fs/ntfs.cpp).  It walks no directories: every record  *)
(* of $MFT in use is an object.                                            *)
(*                                                                         *)
(* A volume has valid (the boot sector), mft (the unit of record 0), recs  *)
(* (the record a unit holds, one record being one unit) and bad.  A record *)
(* has whole (it starts with FILE and its update sequence fits), used and  *)
(* attrs.  An attribute is resident or not, has data (it is $DATA), size   *)
(* and runs; a run has len, by (the difference to the cluster where the    *)
(* run before began) and sparse (no clusters at all).                      *)
(***************************************************************************)
EXTENDS Extents, Integers

Boot == 0

\* The cluster each run begins at; a hole stays where it is.
Lcns(runs) ==
    LET lcn[i \in 0..Len(runs)] ==
            IF i = 0 THEN 0 ELSE IF runs[i].sparse THEN lcn[i - 1] ELSE lcn[i - 1] + runs[i].by
    IN  lcn

RunExtent(runs, i) == Extent(Lcns(runs)[i] * ClusterUnits, runs[i].len * ClusterUnits)

decode_runs_allocated(runs) ==
    FoldLeft(LAMBDA exts, i : IF runs[i].sparse THEN exts ELSE AddExtent(exts, RunExtent(runs, i)),
             <<>>, [i \in DOMAIN runs |-> i])

(* The clusters of every attribute that has any; the size is the last        *)
(* $DATA's.                                                                  *)
collect_nonresident_attrs(rec) ==
    FoldLeft(LAMBDA s, a :
                 [exts |-> IF a.resident THEN s.exts
                           ELSE AddExtents(s.exts, decode_runs_allocated(a.runs)),
                  size |-> IF a.data THEN a.size ELSE s.size],
             [exts |-> <<>>, size |-> 0], rec.attrs)

fixup_record(rec) == rec.whole

(* The units of a record table, in the order the runs of $MFT give.          *)
RecordUnits(exts) ==
    FlattenSeq([i \in DOMAIN exts |-> [j \in 1..exts[i].len |-> exts[i].off + j - 1]])

RecordObjects(vol, exts) ==
    LET units == RecordUnits(exts)
        Of(i) == LET rec == vol.recs[units[i]]
                     found == collect_nonresident_attrs(rec)
                 IN  IF i = 1 \/ units[i] \notin DOMAIN vol.recs \/ ~fixup_record(rec) \/ ~rec.used
                        \/ (found.exts = <<>> /\ found.size = 0) THEN <<>>
                     ELSE <<Object("file", found.size, found.exts)>>
    IN  FlattenSeq([i \in DOMAIN units |-> Of(i)])

scan_ntfs(vol) ==
    LET boot == Object("meta", 1, <<Extent(Boot, 1)>>)
        exts == collect_nonresident_attrs(vol.recs[vol.mft]).exts
    IN  IF \/ Boot \in vol.bad \/ ~vol.valid
           \/ vol.mft \in vol.bad \/ ~fixup_record(vol.recs[vol.mft])
        THEN [outcome |-> "failed", objects |-> <<>>, enter |-> <<>>]
        ELSE IF exts = <<>>
        THEN [outcome |-> "ok", enter |-> <<>>,
              objects |-> <<boot, Object("meta", 1, <<Extent(vol.mft, 1)>>)>>]
        ELSE [outcome |-> IF Covered(exts) \cap vol.bad = {} THEN "ok" ELSE "failed", enter |-> <<>>,
              objects |-> <<boot, Object("meta", Total(exts), exts)>> \o RecordObjects(vol, exts)]

-----------------------------------------------------------------------------
(* What a volume is: no run begins before it. *)

IsRecord(rec) ==
    /\ rec.attrs \in Seq([resident : BOOLEAN, data : BOOLEAN, size : Nat,
                          runs : Seq([sparse : BOOLEAN, len : Nat, by : Int])])
    /\ \A i \in DOMAIN rec.attrs :
          LET runs == rec.attrs[i].runs IN \A j \in DOMAIN runs : Lcns(runs)[j] \in Nat

IsVolume(vol) ==
    /\ vol.mft \in DOMAIN vol.recs /\ DOMAIN vol.recs \subseteq Nat
    /\ \A u \in DOMAIN vol.recs : IsRecord(vol.recs[u])

=============================================================================
