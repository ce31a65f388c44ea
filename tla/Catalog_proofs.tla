---------------------------- MODULE Catalog_proofs --------------------------
(***************************************************************************)
(* The manifest database: proofs for every set of paths, every work list   *)
(* and every way the statements of the two connections, failures and       *)
(* crashes interleave.                                                     *)
(*                                                                         *)
(* The hard part is the recursion of delete_folder while the other         *)
(* connection inserts folders: ids are reused, and a folder can become its *)
(* own ancestor.  The list of children a call works through may then be    *)
(* out of date, but only for a call that has the same folder deleted again *)
(* further in, and such a call never gets to go on: the inner one still    *)
(* has the folder to do that led from the outer one to it.                 *)
(***************************************************************************)
EXTENDS Catalog, Listings

EngineMethods == Upserts \cup {"extents"}
Methods == EngineMethods \cup {"deleteFile", "ensureFolder", "deleteFolder"}
EngineCalls == [method : EngineMethods, path : Paths, digest : Digests \cup {None}, id : {0}, exts : SUBSET Nat]
AllCalls == [method : Methods \cup {"none"}, path : Paths \cup {<<>>}, digest : Digests \cup {None},
             id : Nat, exts : SUBSET Nat]
Frames == [id : Nat, kids : SUBSET Nat]
Ops == [call : AllCalls, stage : {"idle", "volume", "meta", "root", "walk", "clear", "extents", "child", "row"},
        vol : Nat, rest : Seq(STRING), at : Nat, digest : Digests \cup {None}, frames : Seq(Frames),
        exts : SUBSET Nat]

Preparing == {"volume", "meta", "root"}
Deleting == {"child", "row"}

TablesInv ==
    /\ volumes \in Nat /\ current \in 0..volumes
    /\ DOMAIN folders \subseteq Nat \ {0} /\ IsFiniteSet(DOMAIN folders)
    /\ \A i \in DOMAIN folders : folders[i].vol \in 1..volumes
    /\ \A k \in DOMAIN records : k.owner \in Nat \ {0} /\ records[k] \in Digests \cup {None}
    /\ program \in Seq(EngineCalls)

\* What a call in progress knows, with the folders ids and the volumes up to vols.
OpInv(o, ids, vols) ==
    /\ o \in Ops
    /\ o.call.method \in Methods \ {"deleteFolder"} => o.call.path \in Paths
    /\ o.call.method \notin EngineMethods => o.call.path \notin Special
    /\ o.stage \in Preparing => o.call.id \in ids \cup {0} /\ o.call.method \in Methods \ {"extents"}
    /\ o.stage \in Preparing /\ o.call.method = "deleteFolder" => o.call.id # 0
    /\ o.stage \in {"meta", "root", "walk"} \cup Deleting => o.vol \in 1..vols
    /\ o.stage = "walk" =>
        /\ o.at > 0 \/ o.call.path \in Special
        /\ o.call.path \in Special => o.rest = <<>>
    /\ o.stage \in Deleting <=> o.frames # <<>>
OfEngine(o) ==
    o.call.method \in EngineMethods \cup {"none"} /\ o.call.id = 0 /\ o.stage \notin Deleting
OpsInv ==
    /\ DOMAIN op = Connections
    /\ \A c \in Connections : OpInv(op[c], DOMAIN folders, volumes)
    /\ OfEngine(op["engine"])

\* The calls of delete_folder within each other; the children of a folder are out of date when the
\* same folder is deleted further in.
ChildOf(fold, i, id, vol) == i \in DOMAIN fold /\ fold[i].parent = id /\ fold[i].vol = vol
LastOf(fr, n) == \A j \in DOMAIN fr : j > n => fr[j].id # fr[n].id
Recursion(fold, fr, vol) ==
    /\ \A n \in DOMAIN fr : fr[n].id \in DOMAIN fold
    /\ \A n \in 1..(Len(fr) - 1) :
        ChildOf(fold, fr[n + 1].id, fr[n].id, vol) /\ fr[n + 1].id \notin fr[n].kids
    /\ \A n \in DOMAIN fr : LastOf(fr, n) => \A k \in fr[n].kids : ChildOf(fold, k, fr[n].id, vol)
    /\ \A i, j \in DOMAIN fr : i < j /\ fr[i].id = fr[j].id =>
        fr[i + 1].id \in fr[j].kids \/ (j < Len(fr) /\ fr[i + 1].id = fr[j + 1].id)
RecursionOf(o, fold) ==
    /\ Recursion(fold, o.frames, o.vol)
    /\ o.stage = "row" => Last(o.frames).kids = {}

\* As long as calls did not overlap.
Alone == op["engine"].stage = "idle" \/ op["window"].stage = "idle"
AllChildren(fold, fr) ==
    \A n \in DOMAIN fr : \A i \in DOMAIN fold :
        fold[i].parent = fr[n].id => i \in fr[n].kids \/ (n < Len(fr) /\ i = fr[n + 1].id)
WholeOp(o, cur, fold, recs) ==
    /\ o.stage \in {"volume", "meta"} => cur = 0
    /\ o.stage \in {"root", "walk"} \cup Deleting => o.vol = cur
    /\ o.stage = "walk" /\ o.call.path \notin Special => o.at \in DOMAIN fold
    /\ AllChildren(fold, o.frames)
    /\ o.stage = "row" => \A k \in DOMAIN recs : k.table = "file" => k.owner # Last(o.frames).id
Tree ==
    /\ \A i \in DOMAIN folders : folders[i].vol = current /\ folders[i].parent \in DOMAIN folders \cup {0}
    /\ OrphanFiles = {}
Whole ==
    /\ Alone
    /\ Tree
    /\ \A c \in Connections : WholeOp(op[c], current, folders, records)

IInv ==
    /\ TablesInv
    /\ OpsInv
    /\ RecursionOf(op["window"], folders)
    /\ ~overlapped => Whole

-----------------------------------------------------------------------------
(* Sequences *)

LEMMA Listed ==
    ASSUME NEW S, NEW n \in Nat, NEW q \in [1..n -> S]
    PROVE  q \in Seq(S) /\ Len(q) = n /\ DOMAIN q = 1..n
  <1>1. q \in Seq(S)
    BY SeqDef
  <1>2. DOMAIN q = 1..n /\ DOMAIN q = 1..Len(q) /\ Len(q) \in Nat
    BY <1>1, LenProperties
  <1>3. Len(q) = n
    BY <1>2
  <1> QED
    BY <1>1, <1>2, <1>3

LEMMA FrontOf ==
    ASSUME NEW S, NEW q \in Seq(S), q # <<>>
    PROVE  /\ Front(q) \in Seq(S) /\ Len(q) \in Nat \ {0} /\ DOMAIN q = 1..Len(q)
           /\ Len(Front(q)) = Len(q) - 1 /\ DOMAIN Front(q) = 1..(Len(q) - 1)
           /\ \A i \in 1..(Len(q) - 1) : Front(q)[i] = q[i]
           /\ Last(q) = q[Len(q)] /\ Last(q) \in S
  <1>1. Len(q) \in Nat \ {0} /\ DOMAIN q = 1..Len(q) /\ \A i \in 1..Len(q) : q[i] \in S
    BY EmptySeq, LenProperties, ElementOfSeq
  <1>2. Front(q) = SubSeq(q, 1, Len(q) - 1)
    BY DEF Front
  <1>3. /\ Front(q) \in Seq(S) /\ Len(Front(q)) = Len(q) - 1
        /\ \A i \in 1..(Len(q) - 1) : Front(q)[i] = q[i]
    BY <1>1, <1>2, SubSeqProperties
  <1>4. DOMAIN Front(q) = 1..(Len(q) - 1)
    BY <1>3, LenProperties
  <1>5. Last(q) = q[Len(q)] /\ Last(q) \in S
    BY <1>1 DEF Last
  <1> QED
    BY <1>1, <1>3, <1>4, <1>5

\* Every call of a run is one that the engine makes.
LEMMA FilesInOrder == SetToSeq(Files) \in [1..Cardinality(Files) -> Files] /\ Cardinality(Files) \in Nat
  <1>1. IsFiniteSet(Files)
    BY CatalogAssumption
  <1>2. Cardinality(Files) \in Nat /\ ExistsBijection(1..Cardinality(Files), Files)
    BY <1>1, FS_CardinalityType
  <1>3. PICK f : f \in Bijection(1..Cardinality(Files), Files)
    BY <1>2 DEF ExistsBijection
  <1>4. f \in [1..Cardinality(Files) -> Files] /\ IsInjective(f)
    BY <1>3 DEF Bijection, Injection, IsInjective
  <1>5. \E g \in [1..Cardinality(Files) -> Files] : IsInjective(g)
    BY <1>4
  <1> QED
    BY <1>2, <1>5 DEF SetToSeq

LEMMA CallsTyped ==
    ASSUME NEW m \in EngineMethods, NEW p \in Paths, NEW d \in Digests
    PROVE  Call(m, p) \in EngineCalls /\ Sets(m, p, d) \in EngineCalls
  BY DEF Call, Sets, EngineCalls

LEMMA ProgramTyped ==
    ASSUME NEW d \in Digests
    PROVE  /\ ScanCalls \in Seq(EngineCalls) /\ ItemCalls \in Seq(EngineCalls)
           /\ VerifyCalls(d) \in Seq(EngineCalls) /\ HashCalls(d) \in Seq(EngineCalls)
  <1> DEFINE n == Len(Work)
             files == SetToSeq(Files)
             m == Cardinality(Files)
  <1>1. n \in Nat /\ DOMAIN Work = 1..n /\ \A i \in 1..n : Work[i] \in Paths
    BY CatalogAssumption, LenProperties, ElementOfSeq
  <1>2. m \in Nat /\ files \in [1..m -> Paths]
    BY FilesInOrder DEF Paths
  <1> HIDE DEF n, files, m
  <1>3. Len(files) = m /\ \A i \in 1..m : files[i] \in Paths
    BY <1>2, Listed
  <1>4. ScanCalls \in Seq(EngineCalls)
    <2>1. ScanCalls \in [1..n -> EngineCalls]
      BY <1>1, CallsTyped DEF ScanCalls, EngineMethods, Upserts
    <2> QED
      BY <1>1, <2>1, Listed
  <1>5. ItemCalls \in Seq(EngineCalls)
    <2>1. ASSUME NEW k \in 1..(2 * n)
          PROVE  RecordRewrite(Work[((k - 1) \div 2) + 1])[((k - 1) % 2) + 1] \in EngineCalls
      <3>1. ((k - 1) \div 2) + 1 \in 1..n /\ ((k - 1) % 2) + 1 \in 1..2
        BY <1>1
      <3> DEFINE p == Work[((k - 1) \div 2) + 1]
      <3>2. p \in Paths
        BY <1>1, <3>1
      <3> HIDE DEF p
      <3>3. RecordRewrite(p)[1] \in EngineCalls /\ RecordRewrite(p)[2] \in EngineCalls
        BY <3>2, CallsTyped DEF RecordRewrite, EngineMethods, Upserts
      <3> QED
        BY <3>1, <3>3 DEF p
    <2>2. ItemCalls \in [1..(2 * n) -> EngineCalls]
      BY <2>1 DEF ItemCalls, InTurn, n
    <2> QED
      BY <1>1, <2>2, Listed
  <1>6. VerifyCalls(d) \in Seq(EngineCalls)
    <2>1. ASSUME NEW k \in 1..(2 * m)
          PROVE  VerifyFile(files[((k - 1) \div 2) + 1], d)[((k - 1) % 2) + 1] \in EngineCalls
      <3>1. ((k - 1) \div 2) + 1 \in 1..m /\ ((k - 1) % 2) + 1 \in 1..2
        BY <1>2
      <3> DEFINE p == files[((k - 1) \div 2) + 1]
      <3>2. p \in Paths
        BY <1>3, <3>1
      <3> HIDE DEF p
      <3>3. VerifyFile(p, d)[1] \in EngineCalls /\ VerifyFile(p, d)[2] \in EngineCalls
        BY <3>2, CallsTyped DEF VerifyFile, EngineMethods, Upserts
      <3> QED
        BY <3>1, <3>3 DEF p
    <2>2. VerifyCalls(d) \in [1..(2 * m) -> EngineCalls]
      BY <1>3, <2>1 DEF VerifyCalls, InTurn, files
    <2> QED
      BY <1>2, <2>2, Listed
  <1>7. HashCalls(d) \in Seq(EngineCalls)
    <2>1. ASSUME NEW k \in 1..(3 * m)
          PROVE  HashFile(files[((k - 1) \div 3) + 1], d)[((k - 1) % 3) + 1] \in EngineCalls
      <3>1. ((k - 1) \div 3) + 1 \in 1..m /\ ((k - 1) % 3) + 1 \in 1..3
        BY <1>2
      <3> DEFINE p == files[((k - 1) \div 3) + 1]
      <3>2. p \in Paths
        BY <1>3, <3>1
      <3> HIDE DEF p
      <3>3. /\ HashFile(p, d)[1] \in EngineCalls /\ HashFile(p, d)[2] \in EngineCalls
            /\ HashFile(p, d)[3] \in EngineCalls
        BY <3>2, CallsTyped DEF HashFile, VerifyFile, EngineMethods, Upserts
      <3> QED
        BY <3>1, <3>3 DEF p
    <2>2. HashCalls(d) \in [1..(3 * m) -> EngineCalls]
      BY <1>3, <2>1 DEF HashCalls, InTurn, files
    <2> QED
      BY <1>2, <2>2, Listed
  <1> QED
    BY <1>4, <1>5, <1>6, <1>7

-----------------------------------------------------------------------------
(* Folders *)

LEMMA Fresh ==
    ASSUME TablesInv
    PROVE  NewId \in Nat \ {0} /\ NewId \notin DOMAIN folders
  <1> DEFINE S == DOMAIN folders \cup {0}
  <1>1. S \in SUBSET Nat /\ S # {} /\ IsFiniteSet(S)
    <2>1. IsFiniteSet(DOMAIN folders) /\ DOMAIN folders \subseteq Nat
      BY DEF TablesInv
    <2>2. IsFiniteSet(S)
      BY <2>1, FS_AddElement
    <2> QED
      BY <2>1, <2>2
  <1> HIDE DEF S
  <1>2. PICK m \in S : \A x \in S : x <= m
    BY <1>1, Largest
  <1>3. Max(S) \in S /\ \A x \in S : Max(S) >= x
    <2>1. \A x \in S : m >= x
      BY <1>1, <1>2
    <2> QED
      BY <2>1 DEF Max
  <1>4. NewId = 1 + Max(S)
    BY DEF NewId, S
  <1>5. 0 \in S /\ \A i \in DOMAIN folders : i \in S
    BY DEF S
  <1>6. Max(S) \in Nat
    BY <1>1, <1>3
  <1>7. ASSUME NEW i \in DOMAIN folders PROVE i # NewId
    <2>1. i \in Nat /\ Max(S) >= i
      BY <1>1, <1>3, <1>5
    <2> QED
      BY <1>4, <1>6, <2>1
  <1>8. NewId \in Nat \ {0}
    BY <1>4, <1>6
  <1> QED
    BY <1>7, <1>8

LEMMA FolderFound ==
    ASSUME NEW vol, NEW parent, NEW name
    PROVE  LET id == FolderId(vol, parent, name)
           IN  id = 0 \/ (id \in DOMAIN folders /\ folders[id] = [vol |-> vol, parent |-> parent, name |-> name])
  <1> DEFINE ids == {i \in DOMAIN folders : folders[i] = [vol |-> vol, parent |-> parent, name |-> name]}
  <1>1. CASE ids = {}
    BY <1>1 DEF FolderId
  <1>2. CASE ids # {}
    <2>1. FolderId(vol, parent, name) \in ids
      BY <1>2 DEF FolderId
    <2> QED
      BY <2>1
  <1> QED
    BY <1>1, <1>2

\* A new folder changes no other one.
LEMMA NewFolderStep ==
    ASSUME TablesInv, NEW vol \in 1..volumes, NEW parent, NEW name, NewFolder(vol, parent, name)
    PROVE  /\ DOMAIN folders' = DOMAIN folders \cup {NewId}
           /\ folders'[NewId] = [vol |-> vol, parent |-> parent, name |-> name]
           /\ \A i \in DOMAIN folders : i # NewId /\ i \in DOMAIN folders' /\ folders'[i] = folders[i]
           /\ DOMAIN folders' \subseteq Nat \ {0} /\ IsFiniteSet(DOMAIN folders')
           /\ \A i \in DOMAIN folders' : folders'[i].vol \in 1..volumes
  <1> DEFINE id == NewId
  <1>1. id \in Nat \ {0} /\ id \notin DOMAIN folders
    BY Fresh
  <1>2. folders' = [i \in DOMAIN folders \cup {id} |->
                        IF i = id THEN [vol |-> vol, parent |-> parent, name |-> name] ELSE folders[i]]
    BY DEF NewFolder
  <1> HIDE DEF id
  <1>3. /\ DOMAIN folders' = DOMAIN folders \cup {id}
        /\ folders'[id] = [vol |-> vol, parent |-> parent, name |-> name]
        /\ \A i \in DOMAIN folders : i # id /\ i \in DOMAIN folders' /\ folders'[i] = folders[i]
    BY <1>1, <1>2
  <1>4. IsFiniteSet(DOMAIN folders')
    BY <1>3, FS_AddElement DEF TablesInv
  <1>5. DOMAIN folders' \subseteq Nat \ {0}
    BY <1>1, <1>3 DEF TablesInv
  <1>6. \A i \in DOMAIN folders' : folders'[i].vol \in 1..volumes
    BY <1>3 DEF TablesInv
  <1> QED
    BY <1>3, <1>4, <1>5, <1>6 DEF id

-----------------------------------------------------------------------------
(* The recursion of delete_folder *)

\* Folders that come in between do no harm to it.
LEMMA RecursionGrows ==
    ASSUME NEW fold, NEW fold2, \A i \in DOMAIN fold : i \in DOMAIN fold2 /\ fold2[i] = fold[i],
           NEW fr, NEW vol, Recursion(fold, fr, vol)
    PROVE  Recursion(fold2, fr, vol)
  BY DEF Recursion, ChildOf

LEMMA RecursionPush ==
    ASSUME NEW fold, NEW vol, NEW fr \in Seq(Frames), fr # <<>>, Recursion(fold, fr, vol),
           NEW k \in fr[Len(fr)].kids,
           NEW fr2 \in Seq(Frames), Len(fr2) = Len(fr) + 1,
           \A n \in 1..(Len(fr) - 1) : fr2[n] = fr[n],
           fr2[Len(fr)].id = fr[Len(fr)].id, fr2[Len(fr)].kids = fr[Len(fr)].kids \ {k},
           fr2[Len(fr) + 1].id = k,
           \A i : i \in fr2[Len(fr) + 1].kids <=> ChildOf(fold, i, k, vol)
    PROVE  Recursion(fold, fr2, vol)
  <1> DEFINE t == Len(fr)
  <1>1. t \in Nat \ {0} /\ DOMAIN fr = 1..t /\ DOMAIN fr2 = 1..(t + 1)
    BY EmptySeq, LenProperties
  <1>2. \A n \in 1..t : fr2[n].id = fr[n].id
    BY <1>1
  <1>0. Len(fr) = t
    OBVIOUS
  <1> HIDE DEF t
  <1>3. ChildOf(fold, k, fr[t].id, vol)
    <2>1. LastOf(fr, t)
      BY <1>1 DEF LastOf
    <2> QED
      BY <1>1, <2>1 DEF Recursion, t
  <1>4. \A n \in DOMAIN fr2 : fr2[n].id \in DOMAIN fold
    <2> SUFFICES ASSUME NEW n \in 1..(t + 1) PROVE fr2[n].id \in DOMAIN fold
      BY <1>1
    <2>1. CASE n = t + 1
      BY <1>3, <2>1 DEF ChildOf, t
    <2>2. CASE n \in 1..t
      BY <1>1, <1>2, <2>2 DEF Recursion
    <2> QED
      BY <1>1, <2>1, <2>2
  <1>5. ASSUME NEW n \in 1..t
        PROVE  ChildOf(fold, fr2[n + 1].id, fr2[n].id, vol) /\ fr2[n + 1].id \notin fr2[n].kids
    <2>1. CASE n = t
      BY <1>2, <1>3, <2>1 DEF t
    <2>2. CASE n \in 1..(t - 1)
      <3>1. n + 1 \in 1..t /\ fr2[n] = fr[n]
        BY <1>1, <2>2 DEF t
      <3>2. fr2[n + 1].id = fr[n + 1].id
        BY <1>2, <3>1
      <3> QED
        BY <2>2, <3>1, <3>2 DEF Recursion, t
    <2> QED
      BY <1>1, <2>1, <2>2
  <1>6. ASSUME NEW n \in 1..(t + 1), LastOf(fr2, n), NEW x \in fr2[n].kids
        PROVE  ChildOf(fold, x, fr2[n].id, vol)
    <2>1. CASE n = t + 1
      BY <1>6, <2>1 DEF t
    <2>2. CASE n \in 1..t
      <3>1. LastOf(fr, n)
        <4> SUFFICES ASSUME NEW j \in 1..t, j > n PROVE fr[j].id # fr[n].id
          BY <1>1 DEF LastOf
        <4>1. j \in DOMAIN fr2
          BY <1>1
        <4>2. fr2[j].id # fr2[n].id
          BY <1>6, <4>1 DEF LastOf
        <4> QED
          BY <1>2, <2>2, <4>2
      <3>2. x \in fr[n].kids
        BY <1>1, <2>2 DEF t
      <3> QED
        BY <1>1, <1>2, <2>2, <3>1, <3>2 DEF Recursion
    <2> QED
      BY <1>1, <2>1, <2>2
  <1>7. ASSUME NEW i \in 1..(t + 1), NEW j \in 1..(t + 1), i < j, fr2[i].id = fr2[j].id
        PROVE  fr2[i + 1].id \in fr2[j].kids \/ (j < t + 1 /\ fr2[i + 1].id = fr2[j + 1].id)
    <2>1. CASE j \in 1..(t - 1)
      <3>1. /\ i \in 1..t /\ i + 1 \in 1..t /\ j + 1 \in 1..t /\ j \in 1..t /\ fr2[j] = fr[j]
        BY <1>1, <1>7, <2>1 DEF t
      <3>2. i \in DOMAIN fr /\ j \in DOMAIN fr /\ fr[i].id = fr[j].id
        BY <1>1, <1>2, <1>7, <3>1
      <3>3. fr[i + 1].id \in fr[j].kids \/ (j < t /\ fr[i + 1].id = fr[j + 1].id)
        BY <1>7, <1>0, <3>2 DEF Recursion
      <3> QED
        BY <1>1, <1>2, <2>1, <3>1, <3>3
    <2>2. CASE j = t
      <3>1. i \in 1..t /\ i + 1 \in 1..t /\ j \in 1..t
        BY <1>1, <1>7, <2>2
      <3>2. i \in DOMAIN fr /\ j \in DOMAIN fr /\ fr[i].id = fr[j].id /\ ~(j < t)
        BY <1>1, <1>2, <1>7, <2>2, <3>1
      <3>3. fr[i + 1].id \in fr[j].kids
        BY <1>7, <1>0, <3>2 DEF Recursion
      <3> QED
        BY <1>1, <1>2, <2>2, <3>1, <3>3 DEF t
    <2>3. CASE j = t + 1
      <3>1. i \in 1..t
        BY <1>1, <1>7, <2>3
      <3>2. ChildOf(fold, fr2[i + 1].id, k, vol)
        BY <1>5, <1>7, <2>3, <3>1 DEF t
      <3> QED
        BY <2>3, <3>2 DEF t
    <2> QED
      BY <1>1, <2>1, <2>2, <2>3
  <1>8. Len(fr2) = t + 1 /\ Len(fr2) - 1 = t
    BY <1>1 DEF t
  <1> QED
    BY <1>1, <1>4, <1>5, <1>6, <1>7, <1>8 DEF Recursion

\* The innermost call has deleted its folder: it was not one that a call further out deletes too.
LEMMA RecursionPop ==
    ASSUME NEW fold, NEW vol, NEW fr \in Seq(Frames), Len(fr) > 1, Recursion(fold, fr, vol),
           fr[Len(fr)].kids = {},
           NEW fr2 \in Seq(Frames), Len(fr2) = Len(fr) - 1,
           \A n \in 1..(Len(fr) - 1) : fr2[n] = fr[n],
           NEW fold2, DOMAIN fold2 = DOMAIN fold \ {fr[Len(fr)].id},
           \A i \in DOMAIN fold2 : fold2[i] = fold[i]
    PROVE  Recursion(fold2, fr2, vol)
  <1> DEFINE t == Len(fr)
             id == fr[t].id
  <1>1. t \in Nat /\ t > 1 /\ DOMAIN fr = 1..t /\ DOMAIN fr2 = 1..(t - 1)
    BY LenProperties
  <1>2. \A n \in 1..(t - 1) : fr2[n] = fr[n]
    OBVIOUS
  <1>3. fr[t].kids = {} /\ Len(fr2) = t - 1 /\ Len(fr) = t
    OBVIOUS
  <1>4. DOMAIN fold2 = DOMAIN fold \ {id} /\ \A i \in DOMAIN fold2 : fold2[i] = fold[i]
    OBVIOUS
  <1> HIDE DEF t, id
  <1>5. ASSUME NEW i \in 1..(t - 1) PROVE fr[i].id # id
    <2>1. i \in DOMAIN fr /\ t \in DOMAIN fr /\ i < t /\ ~(t < t)
      BY <1>1
    <2> QED
      BY <1>3, <2>1 DEF Recursion, id
  <1>6. \A n \in DOMAIN fr2 : fr2[n].id \in DOMAIN fold2
    BY <1>1, <1>2, <1>4, <1>5 DEF Recursion
  <1>7. ASSUME NEW n \in 1..(t - 2)
        PROVE  ChildOf(fold2, fr2[n + 1].id, fr2[n].id, vol) /\ fr2[n + 1].id \notin fr2[n].kids
    <2>1. n \in 1..(t - 1) /\ n + 1 \in 1..(t - 1)
      BY <1>1
    <2>2. fr2[n] = fr[n] /\ fr2[n + 1] = fr[n + 1] /\ fr[n + 1].id # id
      BY <1>2, <1>5, <2>1
    <2>3. ChildOf(fold, fr[n + 1].id, fr[n].id, vol) /\ fr[n + 1].id \notin fr[n].kids
      BY <1>3, <2>1 DEF Recursion
    <2> QED
      BY <1>4, <2>2, <2>3 DEF ChildOf
  <1>8. ASSUME NEW n \in 1..(t - 1), LastOf(fr2, n), NEW x \in fr2[n].kids
        PROVE  ChildOf(fold2, x, fr2[n].id, vol)
    <2>1. fr2[n] = fr[n]
      BY <1>2
    <2>2. LastOf(fr, n)
      <3> SUFFICES ASSUME NEW j \in 1..t, j > n PROVE fr[j].id # fr[n].id
        BY <1>1 DEF LastOf
      <3>1. CASE j = t
        BY <1>5, <3>1 DEF id
      <3>2. CASE j \in 1..(t - 1)
        BY <1>1, <1>2, <1>8, <2>1, <3>2 DEF LastOf
      <3> QED
        BY <1>1, <3>1, <3>2
    <2>3. ChildOf(fold, x, fr[n].id, vol)
      BY <1>1, <1>8, <2>1, <2>2 DEF Recursion
    <2>4. x # id
      <3> SUFFICES ASSUME x = id PROVE FALSE
        OBVIOUS
      <3>1. /\ t - 1 \in 1..(Len(fr) - 1) /\ (t - 1) + 1 = t
        BY <1>1, <1>3
      <3>2. ChildOf(fold, id, fr[t - 1].id, vol) /\ id \notin fr[t - 1].kids
        BY <3>1 DEF Recursion, id
      <3>3. fr[t - 1].id = fr[n].id
        BY <2>3, <3>2 DEF ChildOf
      <3>4. n = t - 1
        <4>1. t - 1 \in DOMAIN fr /\ ~(t - 1 > n)
          BY <1>1, <2>2, <3>3 DEF LastOf
        <4> QED
          BY <1>1, <4>1
      <3> QED
        BY <1>8, <2>1, <3>2, <3>4
    <2> QED
      BY <1>4, <2>1, <2>3, <2>4 DEF ChildOf
  <1>9. ASSUME NEW i \in 1..(t - 1), NEW j \in 1..(t - 1), i < j, fr2[i].id = fr2[j].id
        PROVE  fr2[i + 1].id \in fr2[j].kids \/ (j < t - 1 /\ fr2[i + 1].id = fr2[j + 1].id)
    <2>1. i + 1 \in 1..(t - 1) /\ i \in DOMAIN fr /\ j \in DOMAIN fr /\ fr[i].id = fr[j].id
      BY <1>1, <1>2, <1>9
    <2>2. fr[i + 1].id \in fr[j].kids \/ (j < t /\ fr[i + 1].id = fr[j + 1].id)
      BY <1>3, <1>9, <2>1 DEF Recursion
    <2>3. CASE j = t - 1
      <3>1. fr[i + 1].id # fr[j + 1].id
        BY <1>1, <1>5, <2>1, <2>3 DEF id
      <3> QED
        BY <1>2, <2>1, <2>2, <3>1
    <2>4. CASE j \in 1..(t - 2)
      <3>1. j + 1 \in 1..(t - 1) /\ j < t - 1
        BY <1>1, <2>4
      <3> QED
        BY <1>2, <2>1, <2>2, <3>1
    <2> QED
      BY <1>1, <2>3, <2>4
  <1>10. Len(fr2) - 1 = t - 2
    BY <1>1, <1>3
  <1> QED
    BY <1>1, <1>3, <1>6, <1>7, <1>8, <1>9, <1>10 DEF Recursion


-----------------------------------------------------------------------------
(* Calls in progress *)

\* Calls that are not of delete_folder.
LEMMA NoFrames ==
    ASSUME NEW o, NEW fold, o.frames = <<>>, o.stage # "row"
    PROVE  RecursionOf(o, fold) /\ AllChildren(fold, o.frames)
  <1>1. DOMAIN o.frames = {} /\ Len(o.frames) = 0
    OBVIOUS
  <1> QED
    BY <1>1 DEF RecursionOf, Recursion, AllChildren

LEMMA IdleOp ==
    ASSUME NEW ids, NEW vols, NEW cur, NEW fold, NEW recs
    PROVE  /\ Idle \in Ops /\ OpInv(Idle, ids, vols) /\ OfEngine(Idle)
           /\ RecursionOf(Idle, fold) /\ WholeOp(Idle, cur, fold, recs)
  <1>1. Idle \in Ops
    <2>1. Idle.call \in AllCalls
      BY DEF Idle, Call, AllCalls
    <2> QED
      BY <2>1 DEF Idle, Ops
  <1>2. /\ Idle.stage = "idle" /\ Idle.frames = <<>> /\ Idle.call.method = "none" /\ Idle.call.path = <<>>
        /\ Idle.call.id = 0
    BY DEF Idle, Call
  <1>3. Idle.call.path \notin Special
    BY <1>2, CatalogAssumption DEF Paths
  <1>4. OpInv(Idle, ids, vols)
    BY <1>1, <1>2, <1>3 DEF OpInv, Methods, EngineMethods, Upserts, Preparing, Deleting
  <1>5. OfEngine(Idle)
    BY <1>2 DEF OfEngine, Deleting
  <1>6. RecursionOf(Idle, fold)
    BY <1>2, NoFrames
  <1>7. WholeOp(Idle, cur, fold, recs)
    BY <1>2, NoFrames DEF WholeOp, Deleting
  <1> QED
    BY <1>1, <1>4, <1>5, <1>6, <1>7

\* What the other connection does in between leaves what a call knows true.
LEMMA OpGrows ==
    ASSUME NEW o, NEW ids, NEW ids2, NEW vols \in Nat, NEW vols2 \in Nat, OpInv(o, ids, vols), vols <= vols2,
           ids \subseteq ids2 \/ o.call.id = 0
    PROVE  OpInv(o, ids2, vols2)
  <1>1. o.call.id \in ids \cup {0} => o.call.id \in ids2 \cup {0}
    OBVIOUS
  <1>2. o.vol \in 1..vols => o.vol \in 1..vols2
    OBVIOUS
  <1> QED
    BY <1>1, <1>2 DEF OpInv

\* A step of one connection, which leaves its call at o.
LEMMA Moves ==
    ASSUME IInv, NEW c \in Connections, NEW o, op' = [op EXCEPT ![c] = o],
           TablesInv', volumes <= volumes',
           c = "engine" => OfEngine(o) /\ \A i \in DOMAIN folders : i \in DOMAIN folders' /\ folders'[i] = folders[i],
           OpInv(o, DOMAIN folders', volumes'),
           c = "window" => RecursionOf(o, folders'),
           ~overlapped' =>
                /\ ~overlapped
                /\ \A d \in Connections \ {c} : op[d].stage = "idle"
                /\ Tree' /\ WholeOp(o, current', folders', records')
    PROVE  IInv'
  <1>1. op'[c] = o /\ DOMAIN op' = Connections /\ \A d \in Connections \ {c} : op'[d] = op[d]
    BY DEF IInv, OpsInv
  <1>2. OpsInv'
    <2>1. ASSUME NEW d \in Connections \ {c} PROVE OpInv(op[d], DOMAIN folders', volumes')
      <3>1. OpInv(op[d], DOMAIN folders, volumes) /\ volumes \in Nat /\ volumes' \in Nat
        BY DEF IInv, OpsInv, TablesInv
      <3>2. DOMAIN folders \subseteq DOMAIN folders' \/ op[d].call.id = 0
        BY DEF IInv, OpsInv, OfEngine, Connections
      <3> QED
        BY <3>1, <3>2, OpGrows
    <2>2. OfEngine(op'["engine"])
      BY <1>1 DEF IInv, OpsInv, Connections
    <2> QED
      BY <1>1, <2>1, <2>2 DEF OpsInv
  <1>3. RecursionOf(op'["window"], folders')
    <2>1. CASE c = "window"
      BY <1>1, <2>1
    <2>2. CASE c = "engine"
      <3>1. op'["window"] = op["window"] /\ RecursionOf(op["window"], folders)
        BY <1>1, <2>2 DEF IInv, Connections
      <3>2. Recursion(folders', op["window"].frames, op["window"].vol)
        BY <2>2, <3>1, RecursionGrows DEF RecursionOf
      <3> QED
        BY <3>1, <3>2 DEF RecursionOf
    <2> QED
      BY <2>1, <2>2 DEF Connections
  <1>4. ~overlapped' => Whole'
    <2> SUFFICES ASSUME ~overlapped' PROVE Whole'
      OBVIOUS
    <2>1. ASSUME NEW d \in Connections \ {c}
          PROVE  op[d].stage = "idle" /\ WholeOp(op[d], current', folders', records')
      <3>1. op[d].stage = "idle" /\ op[d].frames = <<>>
        BY DEF IInv, OpsInv, OpInv, Deleting
      <3> QED
        BY <3>1 DEF WholeOp, AllChildren, Deleting
    <2>2. \E d \in Connections \ {c} : TRUE
      BY DEF Connections
    <2>3. Alone'
      BY <1>1, <2>1, <2>2 DEF Alone, Connections
    <2>4. \A d \in Connections : WholeOp(op'[d], current', folders', records')
      BY <1>1, <2>1
    <2> QED
      BY <2>3, <2>4 DEF Whole
  <1> QED
    BY <1>2, <1>3, <1>4 DEF IInv

\* A step of one connection within its call.
LEMMA Others ==
    ASSUME IInv, NEW c \in Connections, op[c].stage # "idle", ~overlapped
    PROVE  /\ \A d \in Connections \ {c} : op[d].stage = "idle"
           /\ Tree /\ WholeOp(op[c], current, folders, records)
  BY DEF IInv, Whole, Alone, Connections

LEMMA EndsStep ==
    ASSUME IInv, NEW c \in Connections, op[c].stage # "idle", Ends(c), UNCHANGED <<tables, program, overlapped>>
    PROVE  IInv'
  <1>1. op' = [op EXCEPT ![c] = Idle]
    BY DEF Ends
  <1>2. TablesInv' /\ volumes <= volumes'
    BY DEF IInv, TablesInv, tables
  <1>3. Tree => Tree'
    BY DEF Tree, OrphanFiles, tables
  <1>4. ~overlapped => Tree /\ \A d \in Connections \ {c} : op[d].stage = "idle"
    BY Others
  <1>5. \A i \in DOMAIN folders : i \in DOMAIN folders' /\ folders'[i] = folders[i]
    BY DEF tables
  <1>6. /\ OpInv(Idle, DOMAIN folders', volumes') /\ OfEngine(Idle) /\ RecursionOf(Idle, folders')
        /\ WholeOp(Idle, current', folders', records')
    BY IdleOp
  <1> QED
    BY <1>1, <1>2, <1>3, <1>4, <1>5, <1>6, Moves

-----------------------------------------------------------------------------
(* How a call begins *)

\* The calls that are made, while the folders are ids.
Callable(call, ids) ==
    /\ call \in AllCalls /\ call.method \in Methods
    /\ call.method # "deleteFolder" => call.path \in Paths
    /\ call.method \notin EngineMethods => call.path \notin Special
    /\ call.id \in ids \cup {0}
    /\ call.method = "deleteFolder" => call.id # 0
OfRun(call) == call.method \in EngineMethods /\ call.id = 0

LEMMA PathParts ==
    ASSUME NEW p \in Paths
    PROVE  Front(p) \in Seq(STRING) /\ Head(p) \in STRING /\ (p \in Special => Front(p) = <<>>)
  <1>1. p \in Seq(STRING) /\ p # <<>>
    BY CatalogAssumption
  <1>2. Front(p) \in Seq(STRING) /\ Len(Front(p)) = Len(p) - 1
    BY <1>1, FrontOf
  <1>3. Head(p) \in STRING
    BY <1>1, HeadTailProperties
  <1>4. p \in Special => Front(p) = <<>>
    <2>1. p \in Special => Len(Front(p)) = 0
      BY <1>2, CatalogAssumption
    <2> QED
      BY <1>2, <2>1, EmptySeq
  <1> QED
    BY <1>2, <1>3, <1>4

\* What a method does once it has its root, which may be a new folder.
LEMMA WithRootOp ==
    ASSUME TablesInv, NEW call, Callable(call, DOMAIN folders), call.method # "extents",
           NEW vol \in 1..volumes, NEW root \in Nat, root # 0 \/ call.path \in Special,
           NEW fold, \A i \in DOMAIN folders : i \in DOMAIN fold /\ fold[i] = folders[i],
           \A i \in DOMAIN fold \ DOMAIN folders : fold[i].parent = 0
    PROVE  LET o == WithRoot(call, vol, root)
           IN  /\ OpInv(o, DOMAIN fold, volumes)
               /\ OfRun(call) => OfEngine(o)
               /\ RecursionOf(o, fold)
               /\ /\ \A i \in DOMAIN folders : folders[i].vol = vol
                  /\ call.path \notin Special => root \in DOMAIN fold
                  => WholeOp(o, vol, fold, records)
  <1> DEFINE new == [Idle EXCEPT !.call = call, !.vol = vol, !.digest = call.digest]
             Walks(at, rest, d) == [new EXCEPT !.stage = "walk", !.at = at, !.rest = rest, !.digest = d]
             fr == <<Frame(vol, call.id)>>
             deletes == [new EXCEPT !.stage = "child", !.frames = fr]
             o == WithRoot(call, vol, root)
             Fine(x) == /\ OpInv(x, DOMAIN fold, volumes)
                        /\ OfRun(call) => OfEngine(x)
                        /\ RecursionOf(x, fold)
                        /\ /\ \A i \in DOMAIN folders : folders[i].vol = vol
                           /\ call.path \notin Special => root \in DOMAIN fold
                           => WholeOp(x, vol, fold, records)
  <1>1. Fine(Idle)
    BY IdleOp
  <1>2. ASSUME call.method # "deleteFolder",
               NEW at \in Nat, at # 0 \/ call.path \in Special, at = root \/ at \in DOMAIN folders,
               NEW rest \in Seq(STRING), call.path \in Special => rest = <<>>,
               NEW d \in Digests \cup {None}
        PROVE  Fine(Walks(at, rest, d))
    <2> DEFINE x == Walks(at, rest, d)
    <2>1. /\ x.call = call /\ x.stage = "walk" /\ x.vol = vol /\ x.at = at /\ x.rest = rest /\ x.digest = d
          /\ x.frames = <<>>
      BY DEF Idle
    <2>2. x \in Ops
      <3>1. vol \in Nat /\ call \in AllCalls /\ <<>> \in Seq(Frames)
        BY DEF TablesInv, Callable
      <3> QED
        BY <1>2, <3>1 DEF Idle, Ops
    <2> HIDE DEF x
    <2>3. OpInv(x, DOMAIN fold, volumes)
      BY <1>2, <2>1, <2>2 DEF OpInv, Callable, Preparing, Deleting
    <2>4. OfRun(call) => OfEngine(x)
      BY <2>1 DEF OfRun, OfEngine, Deleting
    <2>5. RecursionOf(x, fold)
      BY <2>1, NoFrames
    <2>6. (call.path \notin Special => root \in DOMAIN fold) => WholeOp(x, vol, fold, records)
      BY <1>2, <2>1, NoFrames DEF WholeOp, Deleting
    <2> QED
      BY <2>3, <2>4, <2>5, <2>6 DEF x
  <1>3. ASSUME call.method = "deleteFolder" PROVE Fine(deletes)
    <2>1. /\ deletes.call = call /\ deletes.stage = "child" /\ deletes.vol = vol /\ deletes.frames = fr
      BY DEF Idle
    <2>2. fr \in Seq(Frames) /\ fr # <<>> /\ Len(fr) = 1 /\ DOMAIN fr = {1}
      <3>1. Frame(vol, call.id) \in Frames
        BY DEF Frame, Frames, Children, TablesInv, Callable, AllCalls
      <3> QED
        BY <3>1
    <2>3. fr[1].id = call.id /\ fr[1].kids = Children(vol, call.id)
      BY DEF Frame
    <2>4. deletes \in Ops
      <3> HIDE DEF fr
      <3>1. vol \in Nat /\ call \in AllCalls /\ call.digest \in Digests \cup {None}
        BY DEF TablesInv, Callable, AllCalls
      <3>2. Idle \in Ops
        BY IdleOp
      <3> QED
        BY <2>2, <3>1, <3>2 DEF Ops
    <2>5. call.id \in DOMAIN folders /\ call.path \notin Special /\ call.method \notin EngineMethods
      BY <1>3 DEF Callable, EngineMethods, Upserts
    <2>6. \A i \in DOMAIN fold : fold[i].parent = call.id => i \in DOMAIN folders /\ folders[i].parent = call.id
      BY <2>5 DEF TablesInv
    <2> HIDE DEF deletes, fr
    <2>7. OpInv(deletes, DOMAIN fold, volumes)
      BY <1>3, <2>1, <2>2, <2>4, <2>5 DEF OpInv, Preparing, Deleting
    <2>8. ~OfRun(call)
      BY <2>5 DEF OfRun
    <2>9. RecursionOf(deletes, fold)
      <3>1. fr[1].id \in DOMAIN fold
        BY <2>3, <2>5
      <3>2. \A k \in fr[1].kids : ChildOf(fold, k, fr[1].id, vol)
        BY <2>3 DEF Children, ChildOf
      <3>3. Recursion(fold, fr, vol)
        BY <2>2, <3>1, <3>2 DEF Recursion
      <3> QED
        BY <2>1, <3>3 DEF RecursionOf
    <2>10. (\A i \in DOMAIN folders : folders[i].vol = vol) => WholeOp(deletes, vol, fold, records)
      <3> SUFFICES ASSUME \A i \in DOMAIN folders : folders[i].vol = vol PROVE WholeOp(deletes, vol, fold, records)
        OBVIOUS
      <3>1. AllChildren(fold, fr)
        BY <2>2, <2>3, <2>6 DEF AllChildren, Children
      <3> QED
        BY <2>1, <3>1 DEF WholeOp
    <2> QED
      BY <2>7, <2>8, <2>9, <2>10
  <1>4. o = Idle \/ (call.method = "deleteFolder" /\ o = deletes)
        \/ (call.method # "deleteFolder" /\ \E at \in Nat, rest \in Seq(STRING), d \in Digests \cup {None} :
                /\ o = Walks(at, rest, d)
                /\ at # 0 \/ call.path \in Special
                /\ at = root \/ at \in DOMAIN folders
                /\ call.path \in Special => rest = <<>>)
    <2>1. call.digest \in Digests \cup {None}
      BY DEF Callable, AllCalls
    <2>2. CASE call.method \in Upserts \cup {"deleteFile"}
      <3>1. Front(call.path) \in Seq(STRING) /\ (call.path \in Special => Front(call.path) = <<>>)
        BY <2>2, PathParts DEF Callable, Upserts
      <3>2. Found(vol, call.path) => Lookup(vol, call.path) \in Digests \cup {None}
        BY DEF Found, Lookup, TablesInv
      <3>3. o = Idle \/ \E d \in Digests \cup {None} : o = Walks(root, Front(call.path), d)
        <4>1. o = Idle \/ o = Walks(root, Front(call.path), call.digest)
              \/ (Found(vol, call.path) /\ o = Walks(root, Front(call.path), Lookup(vol, call.path)))
          <5>1. CASE call.method \in {"upsert", "known"}
            BY <5>1 DEF WithRoot
          <5>2. CASE call.method \in {"again", "deleteFile"}
            BY <5>2 DEF WithRoot
          <5>3. CASE call.method = "bump"
            BY <5>3 DEF WithRoot
          <5> QED
            BY <2>2, <5>1, <5>2, <5>3 DEF Upserts
        <4> QED
          BY <2>1, <3>2, <4>1
      <3> QED
        BY <2>2, <3>1, <3>3 DEF Upserts
    <2>3. CASE call.method = "ensureFolder"
      <3> DEFINE at == IF call.id = 0 THEN root ELSE call.id
      <3>1. o = Walks(at, <<Head(call.path)>>, call.digest)
        BY <2>3 DEF WithRoot
      <3>2. call.path \in Paths /\ call.path \notin Special
        BY <2>3 DEF Callable, EngineMethods, Upserts
      <3>3. <<Head(call.path)>> \in Seq(STRING)
        BY <3>2, PathParts
      <3>4. at \in Nat /\ at # 0 /\ (at = root \/ at \in DOMAIN folders)
        BY <3>2 DEF Callable, TablesInv
      <3> QED
        BY <2>1, <2>3, <3>1, <3>2, <3>3, <3>4
    <2>4. CASE call.method = "deleteFolder"
      BY <2>4 DEF WithRoot
    <2> QED
      BY <2>2, <2>3, <2>4 DEF Callable, Methods, EngineMethods
  <1> HIDE DEF Walks, deletes, fr, o, Fine
  <1>5. Fine(o)
    BY <1>1, <1>2, <1>3, <1>4
  <1> QED
    BY <1>5 DEF Fine, o

LEMMA StartedOp ==
    ASSUME TablesInv, NEW call, Callable(call, DOMAIN folders)
    PROVE  /\ OpInv(Started(call), DOMAIN folders, volumes)
           /\ OfRun(call) => OfEngine(Started(call))
           /\ RecursionOf(Started(call), folders)
           /\ Tree => WholeOp(Started(call), current, folders, records)
  <1> DEFINE o == Started(call)
             Fine(x) == /\ OpInv(x, DOMAIN folders, volumes)
                        /\ OfRun(call) => OfEngine(x)
                        /\ RecursionOf(x, folders)
                        /\ Tree => WholeOp(x, current, folders, records)
  <1>1. volumes \in Nat /\ current \in 0..volumes /\ call \in AllCalls
    BY DEF TablesInv, Callable
  <1>2. ASSUME NEW x, x.call = call, x \in Ops, x.frames = <<>>,
               \/ x.stage = "clear" /\ call.method = "extents"
               \/ x.stage = "volume" /\ current = 0 /\ call.method # "extents"
               \/ x.stage = "root" /\ x.vol = current /\ current # 0 /\ call.method # "extents"
        PROVE  Fine(x)
    <2>1. OpInv(x, DOMAIN folders, volumes)
      BY <1>1, <1>2 DEF OpInv, Callable, Preparing, Deleting, EngineMethods
    <2>2. OfRun(call) => OfEngine(x)
      BY <1>2 DEF OfRun, OfEngine, Deleting
    <2>3. RecursionOf(x, folders)
      BY <1>2, NoFrames
    <2>4. WholeOp(x, current, folders, records)
      BY <1>2, NoFrames DEF WholeOp, Deleting
    <2> QED
      BY <2>1, <2>2, <2>3, <2>4
  <1>3. Idle \in Ops /\ Idle.frames = <<>> /\ call.exts \in SUBSET Nat
    BY <1>1, IdleOp DEF Idle, AllCalls
  <1> SUFFICES Fine(o)
    OBVIOUS
  <1> HIDE DEF Fine, o
  <1>4. CASE call.method = "extents"
    <2> DEFINE x == [Idle EXCEPT !.call = call, !.stage = "clear", !.exts = call.exts]
    <2>1. o = x
      BY <1>4 DEF Started, o
    <2>2. x.call = call /\ x \in Ops /\ x.frames = <<>> /\ x.stage = "clear"
      BY <1>1, <1>3 DEF Ops
    <2> HIDE DEF x
    <2> QED
      BY <1>2, <1>4, <2>1, <2>2
  <1>5. CASE call.method # "extents" /\ current = 0
    <2> DEFINE x == [Idle EXCEPT !.call = call, !.stage = "volume"]
    <2>1. o = x
      BY <1>5 DEF Started, o
    <2>2. x.call = call /\ x \in Ops /\ x.frames = <<>> /\ x.stage = "volume"
      BY <1>1, <1>3 DEF Ops
    <2> HIDE DEF x
    <2> QED
      BY <1>2, <1>5, <2>1, <2>2
  <1>6. CASE call.method # "extents" /\ current # 0 /\ RootId(current) = 0 /\ call.path \notin Special
    <2> DEFINE x == [Idle EXCEPT !.call = call, !.stage = "root", !.vol = current]
    <2>1. o = x
      BY <1>6 DEF Started, o
    <2>2. x.call = call /\ x \in Ops /\ x.frames = <<>> /\ x.stage = "root" /\ x.vol = current
      <3>1. current \in Nat
        BY <1>1
      <3> QED
        BY <1>1, <1>3, <3>1 DEF Ops
    <2> HIDE DEF x
    <2> QED
      BY <1>2, <1>6, <2>1, <2>2
  <1>7. CASE call.method # "extents" /\ current # 0 /\ (RootId(current) # 0 \/ call.path \in Special)
    <2>1. o = WithRoot(call, current, RootId(current))
      BY <1>7 DEF Started, o
    <2>2. RootId(current) = 0 \/ RootId(current) \in DOMAIN folders
      BY FolderFound DEF RootId
    <2>3. RootId(current) \in Nat /\ current \in 1..volumes
      BY <1>1, <1>7, <2>2 DEF TablesInv
    <2>4. /\ OpInv(o, DOMAIN folders, volumes)
          /\ OfRun(call) => OfEngine(o)
          /\ RecursionOf(o, folders)
          /\ /\ \A i \in DOMAIN folders : folders[i].vol = current
             /\ call.path \notin Special => RootId(current) \in DOMAIN folders
             => WholeOp(o, current, folders, records)
      BY <1>7, <2>1, <2>3, WithRootOp
    <2>5. Tree => \A i \in DOMAIN folders : folders[i].vol = current
      BY DEF Tree
    <2> QED
      BY <1>7, <2>2, <2>4, <2>5 DEF Fine
  <1> QED
    BY <1>4, <1>5, <1>6, <1>7

LEMMA BeginStep ==
    ASSUME IInv, NEW c \in Connections, NEW call, Callable(call, DOMAIN folders), c = "engine" => OfRun(call),
           Begin(c, call), ~unnoticed', UNCHANGED tables, program' \in Seq(EngineCalls)
    PROVE  IInv'
  <1>1. op' = [op EXCEPT ![c] = Started(call)]
    BY DEF Begin, Unnoticed
  <1>2. /\ UNCHANGED <<volumes, current, folders, records>>
    BY DEF tables
  <1>3. TablesInv' /\ volumes <= volumes'
    BY <1>2 DEF IInv, TablesInv
  <1>4. /\ OpInv(Started(call), DOMAIN folders', volumes')
        /\ OfRun(call) => OfEngine(Started(call))
        /\ RecursionOf(Started(call), folders')
        /\ Tree => WholeOp(Started(call), current', folders', records')
    BY <1>2, StartedOp DEF IInv
  <1>5. ~overlapped' => /\ ~overlapped /\ \A d \in Connections \ {c} : op[d].stage = "idle"
                        /\ Tree /\ Tree'
    <2>1. Tree => Tree'
      BY <1>2 DEF Tree, OrphanFiles
    <2>2. ~overlapped => Tree
      BY DEF IInv, Whole
    <2> QED
      BY <2>1, <2>2 DEF Begin
  <1> QED
    BY <1>1, <1>2, <1>3, <1>4, <1>5, Moves

-----------------------------------------------------------------------------
(* Every step *)

LEMMA StartRunStep == ASSUME IInv, StartRun PROVE IInv'
  <1>1. UNCHANGED <<tables, op, overlapped>>
    BY DEF StartRun
  <1>2. program' \in Seq(EngineCalls)
    <2>1. PICK d \in Digests : program' \in {ScanCalls \o ItemCalls \o HashCalls(d), ItemCalls \o HashCalls(d),
                                              VerifyCalls(d)}
      BY DEF StartRun
    <2>2. /\ ScanCalls \in Seq(EngineCalls) /\ ItemCalls \in Seq(EngineCalls)
          /\ VerifyCalls(d) \in Seq(EngineCalls) /\ HashCalls(d) \in Seq(EngineCalls)
      BY ProgramTyped
    <2>3. /\ ItemCalls \o HashCalls(d) \in Seq(EngineCalls)
          /\ ScanCalls \o ItemCalls \in Seq(EngineCalls)
      BY <2>2, ConcatProperties
    <2>4. ScanCalls \o ItemCalls \o HashCalls(d) \in Seq(EngineCalls)
      BY <2>2, <2>3, ConcatProperties
    <2> QED
      BY <2>1, <2>2, <2>3, <2>4
  <1>3. TablesInv'
    BY <1>1, <1>2 DEF IInv, TablesInv, tables
  <1>4. OpsInv'
    BY <1>1 DEF IInv, OpsInv, tables
  <1>5. Whole => Whole'
    BY <1>1 DEF Whole, Alone, Tree, OrphanFiles, tables
  <1> QED
    BY <1>1, <1>3, <1>4, <1>5 DEF IInv, tables

\* The calls that a run and the browser make.
LEMMA EngineCallBegins ==
    ASSUME IInv, EngineCall, ~unnoticed'
    PROVE  \E call : /\ Begin("engine", call) /\ Callable(call, DOMAIN folders) /\ UNCHANGED tables
                     /\ call.method = Head(program).method /\ call.path = Head(program).path
                     /\ program \in Seq(EngineCalls) /\ program # <<>> /\ program' = Tail(program)
                     /\ UNCHANGED <<faults, ledger, unlinked>>
                     /\ call.method \in EngineMethods /\ OfRun(call)
  <1>1. program \in Seq(EngineCalls) /\ program # <<>>
    BY DEF IInv, TablesInv, EngineCall
  <1>2. Head(program) \in EngineCalls
    BY <1>1, HeadTailProperties
  <1>3. PICK e \in SUBSET Nat : Begin("engine", [Head(program) EXCEPT !.exts = e])
    <2>1. CASE Head(program).method = "extents"
      <3>1. Len(program) \in Nat
        BY <1>1, LenProperties
      <3> QED
        BY <2>1, <3>1 DEF EngineCall
    <2>2. CASE Head(program).method # "extents"
      <3>1. Head(program) = [Head(program) EXCEPT !.exts = Head(program).exts] /\ Head(program).exts \in SUBSET Nat
        BY <1>2 DEF EngineCalls
      <3> QED
        BY <2>2, <3>1 DEF EngineCall
    <2> QED
      BY <2>1, <2>2
  <1> DEFINE call == [Head(program) EXCEPT !.exts = e]
  <1>4. call \in EngineCalls /\ call.method = Head(program).method /\ call.path = Head(program).path
    BY <1>2, <1>3 DEF EngineCalls
  <1>5. Begin("engine", call)
    BY <1>3
  <1> HIDE DEF call
  <1>6. Callable(call, DOMAIN folders) /\ call.method \in EngineMethods /\ OfRun(call)
    <2>1. call \in AllCalls
      BY <1>4 DEF EngineCalls, AllCalls, Methods
    <2>2. call.method \in EngineMethods /\ call.path \in Paths /\ call.id = 0
      BY <1>4 DEF EngineCalls
    <2> QED
      BY <2>1, <2>2 DEF Callable, OfRun, Methods, EngineMethods, Upserts
  <1>7. UNCHANGED tables /\ program' = Tail(program) /\ UNCHANGED <<faults, ledger, unlinked>>
    <2>1. UNCHANGED faults
      BY <1>5 DEF Begin, Unnoticed
    <2> QED
      BY <2>1 DEF EngineCall
  <1> QED
    BY <1>1, <1>4, <1>5, <1>6, <1>7

LEMMA EngineCallStep == ASSUME IInv, EngineCall, ~unnoticed' PROVE IInv'
  <1>1. PICK call : Begin("engine", call) /\ Callable(call, DOMAIN folders) /\ OfRun(call)
    BY EngineCallBegins
  <1>2. UNCHANGED tables /\ program' \in Seq(EngineCalls)
    BY EngineCallBegins, HeadTailProperties
  <1> QED
    BY <1>1, <1>2, BeginStep DEF Connections

LEMMA BrowserCallBegins ==
    ASSUME IInv, BrowserCall, ~unnoticed'
    PROVE  \E call : /\ Begin("window", call) /\ Callable(call, DOMAIN folders) /\ UNCHANGED tables
                     /\ UNCHANGED <<ledger, program, faults>> /\ call.method # "extents"
                     /\ unlinked' = (unlinked \/ call.method = "deleteFolder")
  <1>1. PICK call \in BrowserCalls : /\ Begin("window", call)
                                    /\ unlinked' = (unlinked \/ call.method = "deleteFolder")
    BY DEF BrowserCall
  <1>2. Callable(call, DOMAIN folders) /\ call.method # "extents"
    <2>1. DOMAIN folders \subseteq Nat \ {0} /\ <<>> \notin Special
      BY CatalogAssumption DEF IInv, TablesInv, Paths
    <2>2. ASSUME NEW m \in {"upsert", "bump", "deleteFile"}, NEW p \in Files, NEW d \in Digests \cup {None},
                 call = Sets(m, p, d) \/ call = Call(m, p)
          PROVE  Callable(call, DOMAIN folders) /\ call.method # "extents"
      <3>1. call \in AllCalls
        BY <2>2 DEF Sets, Call, AllCalls, Methods, EngineMethods, Upserts, Paths
      <3>2. call.method = m /\ call.path = p /\ call.id = 0
        BY <2>2 DEF Sets, Call
      <3> QED
        BY <3>1, <3>2, CatalogAssumption DEF Callable, Methods, EngineMethods, Upserts, Paths
    <2>3. ASSUME NEW i \in DOMAIN folders, call = [Call("deleteFolder", <<>>) EXCEPT !.id = i]
          PROVE  Callable(call, DOMAIN folders) /\ call.method # "extents"
      <3>1. call \in AllCalls
        BY <2>1, <2>3 DEF Call, AllCalls, Methods
      <3>2. call.method = "deleteFolder" /\ call.path = <<>> /\ call.id = i
        BY <2>3 DEF Call
      <3> QED
        BY <2>1, <3>1, <3>2 DEF Callable, Methods, EngineMethods, Upserts
    <2>4. ASSUME NEW p \in Files, NEW i \in DOMAIN folders \cup {0},
                 call = [Call("ensureFolder", p) EXCEPT !.id = i]
          PROVE  Callable(call, DOMAIN folders) /\ call.method # "extents"
      <3>1. call \in AllCalls
        BY <2>1, <2>4 DEF Call, AllCalls, Methods, Paths
      <3>2. call.method = "ensureFolder" /\ call.path = p /\ call.id = i
        BY <2>4 DEF Call
      <3> QED
        BY <3>1, <3>2, CatalogAssumption DEF Callable, Methods, EngineMethods, Upserts, Paths
    <2>5. \/ call \in {Sets("upsert", p, d) : p \in Files, d \in Digests}
          \/ call \in {Sets("bump", p, d) : p \in Files, d \in Digests \cup {None}}
          \/ call \in {Call("deleteFile", p) : p \in Files}
          \/ call \in {[Call("deleteFolder", <<>>) EXCEPT !.id = i] : i \in DOMAIN folders}
          \/ call \in {[Call("ensureFolder", p) EXCEPT !.id = i] :
                        p \in {q \in Files : Len(q) > 1}, i \in DOMAIN folders \cup {0}}
      BY DEF BrowserCalls
    <2>6. CASE call \in {Sets("upsert", p, d) : p \in Files, d \in Digests}
      BY <2>2, <2>6
    <2>7. CASE call \in {Sets("bump", p, d) : p \in Files, d \in Digests \cup {None}}
      BY <2>2, <2>7
    <2>8. CASE call \in {Call("deleteFile", p) : p \in Files}
      BY <2>2, <2>8
    <2>9. CASE call \in {[Call("deleteFolder", <<>>) EXCEPT !.id = i] : i \in DOMAIN folders}
      <3>1. PICK i \in DOMAIN folders : call = [Call("deleteFolder", <<>>) EXCEPT !.id = i]
        BY <2>9, Zenon
      <3> QED
        BY <2>3, <3>1
    <2>10. CASE call \in {[Call("ensureFolder", p) EXCEPT !.id = i] :
                           p \in {q \in Files : Len(q) > 1}, i \in DOMAIN folders \cup {0}}
      <3>1. PICK p \in Files, i \in DOMAIN folders \cup {0} : call = [Call("ensureFolder", p) EXCEPT !.id = i]
        BY <2>10
      <3> QED
        BY <2>4, <3>1
    <2> QED
      BY <2>5, <2>6, <2>7, <2>8, <2>9, <2>10
  <1>3. UNCHANGED tables /\ UNCHANGED <<ledger, program, faults>>
    BY <1>1 DEF BrowserCall, Begin, Unnoticed
  <1> QED
    BY <1>1, <1>2, <1>3

LEMMA BrowserCallStep == ASSUME IInv, BrowserCall, ~unnoticed' PROVE IInv'
  <1>1. PICK call : Begin("window", call) /\ Callable(call, DOMAIN folders) /\ UNCHANGED tables
    BY BrowserCallBegins
  <1>2. program' \in Seq(EngineCalls)
    BY DEF BrowserCall, IInv, TablesInv
  <1> QED
    BY <1>1, <1>2, BeginStep DEF Connections

\* What is known of the call whose statement is next.
LEMMA CallInProgress ==
    ASSUME IInv, NEW c \in Connections
    PROVE  /\ op[c] \in Ops /\ OpInv(op[c], DOMAIN folders, volumes)
           /\ c = "engine" => OfEngine(op[c])
           /\ c = "window" => RecursionOf(op[c], folders)
           /\ op[c].stage \notin Deleting => op[c].frames = <<>>
           /\ op[c].stage \in Deleting => c = "window" /\ op[c].frames \in Seq(Frames) /\ op[c].frames # <<>>
  BY DEF IInv, OpsInv, OpInv, OfEngine, Connections, Ops

\* A deletion that has not to look the record up any more comes of an unnoticed failure only.
LEMMA NeverRemoves == ASSUME IInv, NEW c \in Connections PROVE op[c].call.method # "remove"
  <1>1. op[c].call.method \in Methods \cup {"none"}
    BY CallInProgress DEF Ops, AllCalls
  <1> QED
    BY <1>1 DEF Methods, EngineMethods, Upserts

LEMMA InsertVolumeStep == ASSUME IInv, NEW c \in Connections, InsertVolume(c) PROVE IInv'
  <1> DEFINE o == [op[c] EXCEPT !.stage = "meta", !.vol = volumes + 1]
  <1>1. op[c].stage = "volume"
    BY DEF InsertVolume, At
  <1>2. op' = [op EXCEPT ![c] = o]
    BY DEF InsertVolume
  <1>3. volumes' = volumes + 1 /\ volumes \in Nat /\ UNCHANGED <<current, folders, records, program, overlapped>>
    BY DEF InsertVolume, history, IInv, TablesInv
  <1>4. TablesInv'
    BY <1>3 DEF IInv, TablesInv
  <1>5. /\ o \in Ops /\ o.stage = "meta" /\ o.vol = volumes + 1 /\ o.call = op[c].call /\ o.frames = <<>>
    <2>1. op[c] \in Ops /\ op[c].frames = <<>>
      BY <1>1, CallInProgress DEF Deleting
    <2>2. volumes + 1 \in Nat
      BY <1>3
    <2> QED
      BY <2>1, <2>2 DEF Ops
  <1> HIDE DEF o
  <1>6. OpInv(o, DOMAIN folders', volumes')
    BY <1>1, <1>3, <1>5, CallInProgress DEF OpInv, Preparing, Deleting
  <1>7. c = "engine" => OfEngine(o)
    BY <1>5, CallInProgress DEF OfEngine, Deleting
  <1>8. RecursionOf(o, folders')
    BY <1>5, NoFrames
  <1>9. ~overlapped => /\ \A d \in Connections \ {c} : op[d].stage = "idle"
                       /\ Tree' /\ WholeOp(o, current', folders', records')
    <2> SUFFICES ASSUME ~overlapped
                 PROVE  /\ \A d \in Connections \ {c} : op[d].stage = "idle"
                        /\ Tree' /\ WholeOp(o, current', folders', records')
      OBVIOUS
    <2>1. (\A d \in Connections \ {c} : op[d].stage = "idle") /\ Tree /\ WholeOp(op[c], current, folders, records)
      BY <1>1, Others
    <2>2. Tree'
      BY <1>3, <2>1 DEF Tree, OrphanFiles
    <2>3. WholeOp(o, current', folders', records')
      BY <1>1, <1>3, <1>5, <2>1, NoFrames DEF WholeOp, Deleting
    <2> QED
      BY <2>1, <2>2, <2>3
  <1>10. volumes <= volumes' /\ \A i \in DOMAIN folders : i \in DOMAIN folders' /\ folders'[i] = folders[i]
    BY <1>3
  <1> QED
    BY <1>2, <1>3, <1>4, <1>6, <1>7, <1>8, <1>9, <1>10, Moves

LEMMA SetCurrentStep == ASSUME IInv, NEW c \in Connections, SetCurrent(c) PROVE IInv'
  <1> DEFINE o == [op[c] EXCEPT !.stage = "root"]
  <1>1. op[c].stage = "meta" /\ op[c].vol \in 1..volumes
    BY CallInProgress DEF SetCurrent, At, OpInv
  <1>2. op' = [op EXCEPT ![c] = o]
    <2>1. op[c].vol # 0
      BY <1>1 DEF IInv, TablesInv
    <2> QED
      BY <2>1 DEF SetCurrent, Goes
  <1>3. current' = op[c].vol /\ volumes \in Nat /\ UNCHANGED <<volumes, folders, records, program, overlapped>>
    BY DEF SetCurrent, MetaStored, history, IInv, TablesInv
  <1>4. TablesInv'
    BY <1>1, <1>3 DEF IInv, TablesInv
  <1>5. /\ o \in Ops /\ o.stage = "root" /\ o.vol = op[c].vol /\ o.call = op[c].call /\ o.frames = <<>>
    <2>1. op[c] \in Ops /\ op[c].frames = <<>>
      BY <1>1, CallInProgress DEF Deleting
    <2> QED
      BY <2>1 DEF Ops
  <1> HIDE DEF o
  <1>6. OpInv(o, DOMAIN folders', volumes')
    BY <1>1, <1>3, <1>5, CallInProgress DEF OpInv, Preparing, Deleting
  <1>7. c = "engine" => OfEngine(o)
    BY <1>5, CallInProgress DEF OfEngine, Deleting
  <1>8. RecursionOf(o, folders')
    BY <1>5, NoFrames
  <1>9. ~overlapped => /\ \A d \in Connections \ {c} : op[d].stage = "idle"
                       /\ Tree' /\ WholeOp(o, current', folders', records')
    <2> SUFFICES ASSUME ~overlapped
                 PROVE  /\ \A d \in Connections \ {c} : op[d].stage = "idle"
                        /\ Tree' /\ WholeOp(o, current', folders', records')
      OBVIOUS
    <2>1. (\A d \in Connections \ {c} : op[d].stage = "idle") /\ Tree /\ WholeOp(op[c], current, folders, records)
      BY <1>1, Others
    <2>2. current = 0
      BY <1>1, <2>1 DEF WholeOp
    <2>3. DOMAIN folders = {}
      <3> SUFFICES ASSUME NEW i \in DOMAIN folders PROVE FALSE
        OBVIOUS
      <3>1. folders[i].vol \in 1..volumes
        BY DEF IInv, TablesInv
      <3>2. folders[i].vol = 0
        BY <2>1, <2>2 DEF Tree
      <3> QED
        BY <1>3, <3>1, <3>2
    <2>4. Tree'
      BY <1>3, <2>1, <2>3 DEF Tree, OrphanFiles
    <2>5. WholeOp(o, current', folders', records')
      BY <1>1, <1>3, <1>5, <2>1, NoFrames DEF WholeOp, Deleting
    <2> QED
      BY <2>1, <2>4, <2>5
  <1>10. volumes <= volumes' /\ \A i \in DOMAIN folders : i \in DOMAIN folders' /\ folders'[i] = folders[i]
    BY <1>3
  <1> QED
    BY <1>2, <1>3, <1>4, <1>6, <1>7, <1>8, <1>9, <1>10, Moves

\* Inserting a folder keeps the tree whole if its parent is there.
LEMMA TreeGrows ==
    ASSUME TablesInv, Tree, NEW parent \in DOMAIN folders \cup {0}, NEW name,
           NewFolder(current, parent, name), current \in 1..volumes, UNCHANGED <<current, records>>
    PROVE  Tree'
  <1>1. /\ DOMAIN folders' = DOMAIN folders \cup {NewId}
        /\ folders'[NewId] = [vol |-> current, parent |-> parent, name |-> name]
        /\ \A i \in DOMAIN folders : i # NewId /\ i \in DOMAIN folders' /\ folders'[i] = folders[i]
    BY NewFolderStep
  <1> DEFINE id == NewId
  <1>2. /\ DOMAIN folders' = DOMAIN folders \cup {id}
        /\ folders'[id] = [vol |-> current, parent |-> parent, name |-> name]
    BY <1>1
  <1> HIDE DEF id
  <1>3. \A i \in DOMAIN folders' : folders'[i].vol = current' /\ folders'[i].parent \in DOMAIN folders' \cup {0}
    BY <1>1, <1>2 DEF Tree
  <1>4. OrphanFiles' = {}
    BY <1>2 DEF Tree, OrphanFiles
  <1> QED
    BY <1>3, <1>4 DEF Tree

LEMMA EnsureRootStep == ASSUME IInv, NEW c \in Connections, EnsureRoot(c) PROVE IInv'
  <1> DEFINE call == op[c].call
             vol == op[c].vol
             id == RootId(vol)
             root == IF id > 0 THEN id ELSE NewId
             o == WithRoot(call, vol, root)
  <1>1. op[c].stage = "root" /\ vol \in 1..volumes /\ OpInv(op[c], DOMAIN folders, volumes)
    BY CallInProgress DEF EnsureRoot, At, OpInv
  <1>2. op' = [op EXCEPT ![c] = o] /\ UNCHANGED <<volumes, current, records, program, overlapped>>
    BY DEF EnsureRoot, history
  <1>3. TablesInv
    BY DEF IInv
  <1>4. id = 0 \/ id \in DOMAIN folders
    BY FolderFound DEF RootId
  <1>5. NewId \in Nat \ {0}
    BY <1>3, Fresh
  <1>6. IF id > 0 THEN UNCHANGED folders ELSE NewFolder(vol, 0, "")
    BY DEF EnsureRoot
  <1>7. root \in Nat \ {0} /\ (id > 0 <=> id # 0)
    BY <1>3, <1>4, <1>5 DEF TablesInv
  <1>8. Callable(call, DOMAIN folders) /\ call.method # "extents"
    <2>1. call \in AllCalls /\ op[c].stage \in Preparing
      BY <1>1 DEF OpInv, Ops, Preparing
    <2> QED
      BY <1>1, <2>1 DEF OpInv, Callable, Preparing
  <1>9. /\ \A i \in DOMAIN folders : i \in DOMAIN folders' /\ folders'[i] = folders[i]
        /\ \A i \in DOMAIN folders' \ DOMAIN folders : folders'[i].parent = 0
        /\ root \in DOMAIN folders'
        /\ TablesInv'
    <2>1. CASE id > 0
      <3>1. UNCHANGED folders
        BY <1>6, <2>1
      <3>2. TablesInv'
        BY <1>2, <1>3, <3>1 DEF TablesInv
      <3> QED
        BY <1>4, <1>7, <2>1, <3>1, <3>2
    <2>2. CASE ~(id > 0)
      <3>1. PICK name : NewFolder(vol, 0, name)
        BY <1>6, <2>2
      <3>2. /\ DOMAIN folders' = DOMAIN folders \cup {NewId}
            /\ folders'[NewId] = [vol |-> vol, parent |-> 0, name |-> name]
            /\ \A i \in DOMAIN folders : i # NewId /\ i \in DOMAIN folders' /\ folders'[i] = folders[i]
            /\ DOMAIN folders' \subseteq Nat \ {0} /\ IsFiniteSet(DOMAIN folders')
            /\ \A i \in DOMAIN folders' : folders'[i].vol \in 1..volumes
        BY <1>1, <1>3, <3>1, NewFolderStep
      <3>3. TablesInv'
        BY <1>2, <1>3, <3>2 DEF TablesInv
      <3>4. root = NewId
        BY <2>2
      <3>5. root \in DOMAIN folders'
        BY <3>2, <3>4
      <3>6. ASSUME NEW i \in DOMAIN folders' \ DOMAIN folders PROVE folders'[i].parent = 0
        <4>1. i = NewId
          BY <3>2
        <4>2. folders'[NewId].parent = 0
          BY <3>2
        <4> QED
          BY <4>1, <4>2
      <3> HIDE DEF root
      <3> QED
        BY <3>2, <3>3, <3>5, <3>6
    <2> QED
      BY <2>1, <2>2
  <1> HIDE DEF call, vol, id, root, o
  <1>10. /\ OpInv(o, DOMAIN folders', volumes)
         /\ OfRun(call) => OfEngine(o)
         /\ RecursionOf(o, folders')
         /\ (\A i \in DOMAIN folders : folders[i].vol = vol) => WholeOp(o, vol, folders', records)
    BY <1>1, <1>3, <1>7, <1>8, <1>9, WithRootOp DEF o
  <1>11. c = "engine" => OfRun(call)
    BY <1>8, CallInProgress DEF OfEngine, OfRun, Callable, Methods, EngineMethods, Upserts, call
  <1>12. ~overlapped => /\ \A d \in Connections \ {c} : op[d].stage = "idle"
                        /\ Tree' /\ WholeOp(o, current', folders', records')
    <2> SUFFICES ASSUME ~overlapped
                 PROVE  /\ \A d \in Connections \ {c} : op[d].stage = "idle"
                        /\ Tree' /\ WholeOp(o, current', folders', records')
      OBVIOUS
    <2>1. (\A d \in Connections \ {c} : op[d].stage = "idle") /\ Tree /\ WholeOp(op[c], current, folders, records)
      BY <1>1, Others
    <2>2. vol = current
      BY <1>1, <2>1 DEF WholeOp, vol
    <2>3. Tree'
      <3>1. CASE id > 0
        BY <1>2, <1>6, <2>1, <3>1 DEF Tree, OrphanFiles
      <3>2. CASE ~(id > 0)
        BY <1>1, <1>2, <1>3, <1>6, <2>1, <2>2, <3>2, TreeGrows
      <3> QED
        BY <3>1, <3>2
    <2>4. WholeOp(o, current', folders', records')
      BY <1>2, <1>10, <2>1, <2>2 DEF Tree
    <2> QED
      BY <2>1, <2>3, <2>4
  <1>13. volumes <= volumes'
    BY <1>2, <1>3 DEF TablesInv
  <1> QED
    BY <1>2, <1>9, <1>10, <1>11, <1>12, <1>13, Moves

LEMMA EnsureFolderStep == ASSUME IInv, NEW c \in Connections, EnsureFolder(c) PROVE IInv'
  <1> DEFINE at == op[c].at
             vol == op[c].vol
             name == Head(op[c].rest)
             id == FolderId(vol, at, name)
             new == IF id > 0 THEN id ELSE NewId
             walks == [op[c] EXCEPT !.rest = Tail(op[c].rest), !.at = new]
             o == IF op[c].call.method = "ensureFolder" THEN Idle ELSE walks
  <1>1. /\ op[c].stage = "walk" /\ op[c].rest # <<>> /\ op[c].rest \in Seq(STRING) /\ op[c] \in Ops
        /\ OpInv(op[c], DOMAIN folders, volumes) /\ op[c].frames = <<>>
    BY CallInProgress DEF EnsureFolder, At, Ops, Deleting
  <1>2. op' = [op EXCEPT ![c] = o] /\ UNCHANGED <<volumes, current, records, program, overlapped>>
    BY DEF EnsureFolder, history
  <1>3. vol \in 1..volumes /\ at \in Nat \ {0} /\ op[c].call.path \notin Special
    BY <1>1 DEF OpInv, Ops
  <1>4. TablesInv
    BY DEF IInv
  <1>5. id = 0 \/ id \in DOMAIN folders
    BY FolderFound
  <1>6. NewId \in Nat \ {0}
    BY <1>4, Fresh
  <1>7. IF id > 0 THEN UNCHANGED folders ELSE NewFolder(vol, at, name)
    BY DEF EnsureFolder
  <1>8. /\ \A i \in DOMAIN folders : i \in DOMAIN folders' /\ folders'[i] = folders[i]
        /\ new \in DOMAIN folders' /\ new \in Nat \ {0}
        /\ TablesInv'
    <2>1. CASE id > 0
      <3>1. UNCHANGED folders
        BY <1>7, <2>1
      <3>2. TablesInv'
        BY <1>2, <1>4, <3>1 DEF TablesInv
      <3>3. new \in DOMAIN folders' /\ new \in Nat \ {0}
        BY <1>4, <1>5, <2>1, <3>1 DEF TablesInv
      <3> QED
        BY <3>1, <3>2, <3>3
    <2>2. CASE ~(id > 0)
      <3>1. NewFolder(vol, at, name)
        BY <1>7, <2>2
      <3>2. /\ DOMAIN folders' = DOMAIN folders \cup {NewId}
            /\ \A i \in DOMAIN folders : i # NewId /\ i \in DOMAIN folders' /\ folders'[i] = folders[i]
            /\ DOMAIN folders' \subseteq Nat \ {0} /\ IsFiniteSet(DOMAIN folders')
            /\ \A i \in DOMAIN folders' : folders'[i].vol \in 1..volumes
        BY <1>3, <1>4, <3>1, NewFolderStep
      <3>3. TablesInv'
        BY <1>2, <1>4, <3>2 DEF TablesInv
      <3>4. new = NewId
        BY <2>2
      <3>5. new \in DOMAIN folders' /\ new \in Nat \ {0}
        BY <1>6, <3>2, <3>4
      <3> HIDE DEF new
      <3> QED
        BY <3>2, <3>3, <3>5
    <2> QED
      BY <2>1, <2>2
  <1>9. Tail(op[c].rest) \in Seq(STRING)
    BY <1>1, HeadTailProperties
  <1> HIDE DEF new
  <1>10. walks \in Ops
    BY <1>1, <1>8, <1>9 DEF Ops
  <1>11. /\ walks.stage = "walk" /\ walks.call = op[c].call /\ walks.frames = <<>> /\ walks.vol = vol
         /\ walks.at = new
    BY <1>1 DEF Ops
  <1> HIDE DEF vol, at, name, id, walks
  <1>12. OpInv(walks, DOMAIN folders', volumes')
    BY <1>1, <1>2, <1>3, <1>8, <1>10, <1>11 DEF OpInv, Preparing, Deleting
  <1>13. OpInv(o, DOMAIN folders', volumes')
    BY <1>12, IdleOp
  <1>14. c = "engine" => OfEngine(o)
    BY <1>11, IdleOp, CallInProgress DEF OfEngine, Deleting
  <1>15. RecursionOf(o, folders')
    <2>1. RecursionOf(walks, folders')
      BY <1>11, NoFrames
    <2> QED
      BY <2>1, IdleOp
  <1>16. ~overlapped => /\ \A d \in Connections \ {c} : op[d].stage = "idle"
                        /\ Tree' /\ WholeOp(o, current', folders', records')
    <2> SUFFICES ASSUME ~overlapped
                 PROVE  /\ \A d \in Connections \ {c} : op[d].stage = "idle"
                        /\ Tree' /\ WholeOp(o, current', folders', records')
      OBVIOUS
    <2>1. (\A d \in Connections \ {c} : op[d].stage = "idle") /\ Tree /\ WholeOp(op[c], current, folders, records)
      BY <1>1, Others
    <2>2. vol = current /\ at \in DOMAIN folders
      BY <1>1, <1>3, <2>1 DEF WholeOp, vol, at
    <2>3. Tree'
      <3>1. CASE id > 0
        BY <1>2, <1>7, <2>1, <3>1 DEF Tree, OrphanFiles
      <3>2. CASE ~(id > 0)
        BY <1>2, <1>3, <1>4, <1>7, <2>1, <2>2, <3>2, TreeGrows
      <3> QED
        BY <3>1, <3>2
    <2>4. WholeOp(walks, current', folders', records')
      BY <1>2, <1>8, <1>11, <2>2, NoFrames DEF WholeOp, Deleting
    <2>5. WholeOp(o, current', folders', records')
      BY <2>4, IdleOp
    <2> QED
      BY <2>1, <2>3, <2>5
  <1>17. volumes <= volumes'
    BY <1>2, <1>4 DEF TablesInv
  <1> HIDE DEF o
  <1> QED
    BY <1>2, <1>8, <1>13, <1>14, <1>15, <1>16, <1>17, Moves

\* A record or extents are written or removed, and the call ends or goes on to the (other) extents.
LEMMA RecordStep ==
    ASSUME IInv, NEW c \in Connections, op[c].stage # "idle", NEW o, op' = [op EXCEPT ![c] = o],
           OpInv(o, DOMAIN folders, volumes), c = "engine" => OfEngine(o), o.frames = <<>>,
           o.stage \in {"idle", "clear", "extents"},
           UNCHANGED <<volumes, current, folders, program, overlapped>>,
           \A k \in DOMAIN records' :
                \/ k \in DOMAIN records /\ records'[k] = records[k]
                \/ /\ op[c].stage = "walk" /\ k = KeyAt(op[c].vol, op[c].at, op[c].call.path)
                   /\ records'[k] \in Digests \cup {None}
    PROVE  IInv'
  <1> DEFINE p == op[c].call.path
             key == KeyAt(op[c].vol, op[c].at, p)
  <1>1. OpInv(op[c], DOMAIN folders, volumes) /\ op[c] \in Ops /\ TablesInv
    BY CallInProgress DEF IInv
  <1>2. op[c].stage = "walk" => key.owner \in Nat \ {0}
    <2> SUFFICES ASSUME op[c].stage = "walk" PROVE key.owner \in Nat \ {0}
      OBVIOUS
    <2>1. op[c].vol \in 1..volumes /\ op[c].at \in Nat /\ (op[c].at > 0 \/ p \in Special) /\ volumes \in Nat
      BY <1>1 DEF OpInv, Ops, TablesInv
    <2>2. CASE p \in Special
      BY <2>1, <2>2 DEF KeyAt, ObjectKey
    <2>3. CASE p \notin Special
      BY <2>1, <2>3 DEF KeyAt, FileKey
    <2> QED
      BY <2>2, <2>3
  <1>3. key.table = "file" => p \notin Special /\ key.owner = op[c].at
    BY DEF KeyAt, ObjectKey, FileKey
  <1>4. \A k \in DOMAIN records' : \/ k \in DOMAIN records /\ records'[k] = records[k]
                                   \/ op[c].stage = "walk" /\ k = key /\ records'[k] \in Digests \cup {None}
    OBVIOUS
  <1> HIDE DEF key
  <1>5. TablesInv'
    <2>1. \A k \in DOMAIN records' : k.owner \in Nat \ {0} /\ records'[k] \in Digests \cup {None}
      BY <1>1, <1>2, <1>4 DEF TablesInv
    <2> QED
      BY <1>1, <2>1 DEF TablesInv
  <1>6. RecursionOf(o, folders')
    BY NoFrames
  <1>7. ~overlapped => /\ \A d \in Connections \ {c} : op[d].stage = "idle"
                       /\ Tree' /\ WholeOp(o, current', folders', records')
    <2> SUFFICES ASSUME ~overlapped
                 PROVE  /\ \A d \in Connections \ {c} : op[d].stage = "idle"
                        /\ Tree' /\ WholeOp(o, current', folders', records')
      OBVIOUS
    <2>1. (\A d \in Connections \ {c} : op[d].stage = "idle") /\ Tree /\ WholeOp(op[c], current, folders, records)
      BY Others
    <2>2. OrphanFiles' = {}
      <3> SUFFICES ASSUME NEW k \in DOMAIN records', k.table = "file" PROVE k.owner \in DOMAIN folders
        BY DEF OrphanFiles
      <3>1. CASE k \in DOMAIN records
        BY <2>1, <3>1 DEF Tree, OrphanFiles
      <3>2. CASE op[c].stage = "walk" /\ k = key
        BY <1>3, <2>1, <3>2 DEF WholeOp
      <3> QED
        BY <1>4, <3>1, <3>2
    <2>3. Tree'
      BY <2>1, <2>2 DEF Tree
    <2>4. WholeOp(o, current', folders', records')
      BY NoFrames DEF WholeOp, Deleting
    <2> QED
      BY <2>1, <2>3, <2>4
  <1>8. volumes <= volumes' /\ \A i \in DOMAIN folders : i \in DOMAIN folders' /\ folders'[i] = folders[i]
    BY <1>1 DEF TablesInv
  <1>9. OpInv(o, DOMAIN folders', volumes')
    OBVIOUS
  <1> QED
    BY <1>5, <1>6, <1>7, <1>8, <1>9, Moves

LEMMA UpsertStep == ASSUME IInv, NEW c \in Connections, Upsert(c) PROVE IInv'
  <1> DEFINE key == KeyAt(op[c].vol, op[c].at, op[c].call.path)
             old == IF key \in DOMAIN records THEN records[key] ELSE None
             new == Coalesced(op[c].digest, old)
  <1>1. op[c].stage = "walk" /\ UNCHANGED <<volumes, current, folders, program, overlapped>>
        /\ op' = [op EXCEPT ![c] = Idle]
    BY DEF Upsert, At, Ends
  <1>2. records' = [k \in DOMAIN records \cup {key} |-> IF k = key THEN new ELSE records[k]]
    BY DEF Upsert
  <1>3. new \in Digests \cup {None}
    <2>1. op[c].digest \in Digests \cup {None}
      BY CallInProgress DEF Ops
    <2>2. old \in Digests \cup {None}
      BY DEF IInv, TablesInv
    <2> QED
      BY <2>1, <2>2 DEF Coalesced
  <1> HIDE DEF new
  <1>4. \A k \in DOMAIN records' : \/ k \in DOMAIN records /\ records'[k] = records[k]
                                   \/ k = key /\ records'[k] \in Digests \cup {None}
    BY <1>2, <1>3
  <1>5. Idle.frames = <<>> /\ Idle.stage = "idle"
    BY DEF Idle
  <1> QED
    BY <1>1, <1>4, <1>5, IdleOp, RecordStep

LEMMA DeleteFileStep == ASSUME IInv, NEW c \in Connections, DeleteFile(c) PROVE IInv'
  <1> DEFINE o == [op[c] EXCEPT !.stage = "clear"]
  <1>1. op[c].stage = "walk" /\ UNCHANGED <<volumes, current, folders, program, overlapped>>
        /\ op' = [op EXCEPT ![c] = o]
    BY DEF DeleteFile, At, ThenExtents, Goes
  <1>2. \A k \in DOMAIN records' : k \in DOMAIN records /\ records'[k] = records[k]
    BY DEF DeleteFile
  <1>3. o \in Ops /\ o.stage = "clear" /\ o.call = op[c].call /\ o.frames = <<>>
    <2>1. op[c] \in Ops /\ op[c].frames = <<>>
      BY <1>1, CallInProgress DEF Deleting
    <2> QED
      BY <2>1 DEF Ops
  <1> HIDE DEF o
  <1>4. OpInv(o, DOMAIN folders, volumes)
    BY <1>3, CallInProgress DEF OpInv, Preparing, Deleting
  <1>5. c = "engine" => OfEngine(o)
    BY <1>3, CallInProgress DEF OfEngine, Deleting
  <1> QED
    BY <1>1, <1>2, <1>3, <1>4, <1>5, RecordStep

LEMMA ExtentsStep == ASSUME IInv, NEW c \in Connections, ClearExtents(c) \/ InsertExtent(c) PROVE IInv'
  <1>1. UNCHANGED <<volumes, current, folders, records, program, overlapped>>
    BY DEF ClearExtents, InsertExtent, history
  <1>2. /\ op[c].stage \in {"clear", "extents"} /\ op[c] \in Ops /\ op[c].frames = <<>>
        /\ OpInv(op[c], DOMAIN folders, volumes)
    BY CallInProgress DEF ClearExtents, InsertExtent, At, Deleting
  <1>3. ASSUME NEW o \in Ops, op' = [op EXCEPT ![c] = o], o.stage = "extents", o.call = op[c].call, o.frames = <<>>
        PROVE  IInv'
    <2>1. OpInv(o, DOMAIN folders, volumes)
      BY <1>2, <1>3 DEF OpInv, Preparing, Deleting
    <2>2. c = "engine" => OfEngine(o)
      BY <1>3, CallInProgress DEF OfEngine, Deleting
    <2> QED
      BY <1>1, <1>2, <1>3, <2>1, <2>2, RecordStep
  <1>4. CASE ClearExtents(c)
    <2> DEFINE o == [op[c] EXCEPT !.stage = "extents"]
    <2>1. op' = [op EXCEPT ![c] = o]
      BY <1>4 DEF ClearExtents, Goes
    <2>2. o \in Ops /\ o.stage = "extents" /\ o.call = op[c].call /\ o.frames = <<>>
      BY <1>2 DEF Ops
    <2> HIDE DEF o
    <2> QED
      BY <1>3, <2>1, <2>2
  <1>5. CASE InsertExtent(c) /\ op[c].exts # {}
    <2>1. PICK e \in op[c].exts : op' = [op EXCEPT ![c].exts = @ \ {e}]
      BY <1>5 DEF InsertExtent
    <2> DEFINE o == [op[c] EXCEPT !.exts = @ \ {e}]
    <2>2. op' = [op EXCEPT ![c] = o] /\ op[c].stage = "extents"
      BY <1>5, <2>1 DEF InsertExtent, At
    <2>3. o \in Ops /\ o.stage = "extents" /\ o.call = op[c].call /\ o.frames = <<>>
      BY <1>2, <2>2 DEF Ops
    <2> HIDE DEF o
    <2> QED
      BY <1>3, <2>2, <2>3
  <1>6. CASE InsertExtent(c) /\ op[c].exts = {}
    <2>1. op' = [op EXCEPT ![c] = Idle] /\ Idle.frames = <<>> /\ Idle.stage = "idle"
      BY <1>6 DEF InsertExtent, Ends, Idle
    <2> QED
      BY <1>1, <1>2, <2>1, IdleOp, RecordStep
  <1> QED
    BY <1>4, <1>5, <1>6

LEMMA DeleteFilesStep == ASSUME IInv, NEW c \in Connections, DeleteFiles(c) PROVE IInv'
  <1> DEFINE o == [op[c] EXCEPT !.stage = "row"]
             fr == op[c].frames
             id == Top(c).id
  <1>1. op[c].stage = "child" /\ Top(c).kids = {} /\ Top(c) = Last(fr)
    BY DEF DeleteFiles, At, Top
  <1>2. c = "window" /\ op[c] \in Ops /\ OpInv(op[c], DOMAIN folders, volumes) /\ RecursionOf(op[c], folders)
    BY <1>1, CallInProgress DEF Deleting
  <1>3. op' = [op EXCEPT ![c] = o] /\ UNCHANGED <<volumes, current, folders, program, overlapped>>
    BY DEF DeleteFiles, DeleteFilesOf, Goes
  <1>4. \A k \in DOMAIN records' :
            /\ k \in DOMAIN records /\ records'[k] = records[k]
            /\ k.table = "file" => k.owner # id
    BY DEF DeleteFiles, DeleteFilesOf
  <1>5. TablesInv'
    BY <1>3, <1>4 DEF IInv, TablesInv
  <1>6. o \in Ops /\ o.stage = "row" /\ o.call = op[c].call /\ o.frames = fr /\ o.vol = op[c].vol
    BY <1>2 DEF Ops
  <1> HIDE DEF o
  <1>7. OpInv(o, DOMAIN folders', volumes')
    BY <1>1, <1>2, <1>3, <1>6 DEF OpInv, Preparing, Deleting
  <1>8. RecursionOf(o, folders')
    BY <1>1, <1>2, <1>3, <1>6 DEF RecursionOf
  <1>9. ~overlapped => /\ \A d \in Connections \ {c} : op[d].stage = "idle"
                       /\ Tree' /\ WholeOp(o, current', folders', records')
    <2> SUFFICES ASSUME ~overlapped
                 PROVE  /\ \A d \in Connections \ {c} : op[d].stage = "idle"
                        /\ Tree' /\ WholeOp(o, current', folders', records')
      OBVIOUS
    <2>1. (\A d \in Connections \ {c} : op[d].stage = "idle") /\ Tree /\ WholeOp(op[c], current, folders, records)
      BY <1>1, Others
    <2>2. OrphanFiles' = {}
      BY <1>3, <1>4, <2>1 DEF Tree, OrphanFiles
    <2>3. Tree'
      BY <1>3, <2>1, <2>2 DEF Tree
    <2>4. WholeOp(o, current', folders', records')
      BY <1>1, <1>3, <1>4, <1>6, <2>1 DEF WholeOp, Deleting
    <2> QED
      BY <2>1, <2>3, <2>4
  <1>10. volumes <= volumes' /\ c # "engine"
    BY <1>2, <1>3 DEF IInv, TablesInv
  <1> QED
    BY <1>3, <1>5, <1>7, <1>8, <1>9, <1>10, Moves

LEMMA DeleteChildStep == ASSUME IInv, NEW c \in Connections, DeleteChild(c) PROVE IInv'
  <1> DEFINE fr == op[c].frames
             vol == op[c].vol
             t == Len(fr)
  <1>1. op[c].stage = "child" /\ Top(c) = Last(fr)
    BY DEF DeleteChild, At, Top
  <1>2. /\ c = "window" /\ op[c] \in Ops /\ OpInv(op[c], DOMAIN folders, volumes) /\ RecursionOf(op[c], folders)
        /\ fr \in Seq(Frames) /\ fr # <<>> /\ TablesInv
    BY <1>1, CallInProgress DEF Deleting, IInv
  <1>3. PICK k \in Top(c).kids :
            op' = [op EXCEPT ![c].frames = Front(@) \o <<[Top(c) EXCEPT !.kids = @ \ {k}], Frame(vol, k)>>]
    BY DEF DeleteChild
  <1> DEFINE caller == [Top(c) EXCEPT !.kids = @ \ {k}]
             inner == Frame(vol, k)
             fr2 == Front(fr) \o <<caller, inner>>
             o == [op[c] EXCEPT !.frames = fr2]
  <1>4. op' = [op EXCEPT ![c] = o] /\ UNCHANGED <<volumes, current, folders, records, program, overlapped>>
    BY <1>3 DEF DeleteChild, tables, history
  <1>5. /\ Front(fr) \in Seq(Frames) /\ t \in Nat \ {0} /\ Len(Front(fr)) = t - 1
        /\ \A n \in 1..(t - 1) : Front(fr)[n] = fr[n]
        /\ Top(c) = fr[t] /\ Top(c) \in Frames /\ DOMAIN fr = 1..t
    <2> HIDE DEF fr
    <2>1. /\ Front(fr) \in Seq(Frames) /\ Len(fr) \in Nat \ {0} /\ Len(Front(fr)) = Len(fr) - 1
          /\ \A n \in 1..(Len(fr) - 1) : Front(fr)[n] = fr[n]
          /\ DOMAIN fr = 1..Len(fr) /\ Last(fr) = fr[Len(fr)] /\ Last(fr) \in Frames
      BY <1>2, FrontOf
    <2> QED
      BY <1>1, <2>1
  <1>6. caller \in Frames /\ caller.id = fr[t].id /\ caller.kids = fr[t].kids \ {k} /\ k \in fr[t].kids
    BY <1>5 DEF Frames
  <1>7. k \in Nat /\ inner \in Frames /\ inner.id = k /\ inner.kids = Children(vol, k)
    <2>1. k \in Nat
      BY <1>5 DEF Frames
    <2>2. Children(vol, k) \in SUBSET Nat
      BY <1>2 DEF Children, TablesInv
    <2> QED
      BY <2>1, <2>2 DEF Frame, Frames
  <1> HIDE DEF caller, inner
  <1>8. <<caller, inner>> \in Seq(Frames) /\ Len(<<caller, inner>>) = 2
    BY <1>6, <1>7
  <1>9. /\ fr2 \in Seq(Frames) /\ Len(fr2) = t + 1
        /\ \A n \in 1..(t - 1) : fr2[n] = fr[n]
        /\ fr2[t] = caller /\ fr2[t + 1] = inner
    <2>1. fr2 \in Seq(Frames) /\ Len(fr2) = t + 1
      BY <1>5, <1>8, ConcatProperties
    <2>3. \A n \in 1..(t + 1) : fr2[n] = IF n <= t - 1 THEN Front(fr)[n] ELSE <<caller, inner>>[n - (t - 1)]
      <3> DEFINE a == Front(fr)
                 b == <<caller, inner>>
      <3>1. a \in Seq(Frames) /\ b \in Seq(Frames) /\ Len(a) = t - 1 /\ Len(b) = 2
        BY <1>5, <1>8
      <3> HIDE DEF a, b
      <3>2. \A n \in 1..(Len(a) + Len(b)) : (a \o b)[n] = IF n <= Len(a) THEN a[n] ELSE b[n - Len(a)]
        BY <3>1, ConcatProperties
      <3>3. Len(a) + Len(b) = t + 1
        BY <1>5, <3>1
      <3> QED
        BY <3>1, <3>2, <3>3 DEF a, b
    <2>4. fr2[t] = caller /\ fr2[t + 1] = inner
      <3>1. /\ t \in 1..(t + 1) /\ ~(t <= t - 1) /\ t - (t - 1) = 1
            /\ t + 1 \in 1..(t + 1) /\ ~(t + 1 <= t - 1) /\ (t + 1) - (t - 1) = 2
        BY <1>5
      <3>2. <<caller, inner>>[1] = caller /\ <<caller, inner>>[2] = inner
        OBVIOUS
      <3> QED
        BY <2>3, <3>1, <3>2
    <2>5. \A n \in 1..(t - 1) : fr2[n] = fr[n]
      <3>1. \A n \in 1..(t - 1) : n \in 1..(t + 1) /\ n <= t - 1
        BY <1>5
      <3> QED
        BY <1>5, <2>3, <3>1
    <2> QED
      BY <2>1, <2>4, <2>5
  <1> HIDE DEF fr2
  <1>10. fr2 # <<>> /\ DOMAIN fr2 = 1..(t + 1)
    BY <1>5, <1>9, LenProperties, EmptySeq
  <1>11. o \in Ops /\ o.stage = "child" /\ o.call = op[c].call /\ o.frames = fr2 /\ o.vol = vol
    BY <1>1, <1>2, <1>9 DEF Ops
  <1> HIDE DEF o
  <1>12. OpInv(o, DOMAIN folders', volumes')
    BY <1>1, <1>2, <1>4, <1>10, <1>11 DEF OpInv, Preparing, Deleting
  <1>13. RecursionOf(o, folders')
    <2>1. Recursion(folders, fr, vol)
      BY <1>2 DEF RecursionOf
    <2>2. ASSUME NEW i PROVE i \in fr2[t + 1].kids <=> ChildOf(folders, i, k, vol)
      BY <1>7, <1>9 DEF Children, ChildOf
    <2>3. fr2[t].id = fr[t].id /\ fr2[t].kids = fr[t].kids \ {k} /\ fr2[t + 1].id = k
      BY <1>6, <1>7, <1>9
    <2>4. Recursion(folders, fr2, vol)
      BY <1>2, <1>6, <1>9, <2>1, <2>2, <2>3, RecursionPush
    <2> QED
      BY <1>4, <1>11, <2>4 DEF RecursionOf
  <1>14. ~overlapped => /\ \A d \in Connections \ {c} : op[d].stage = "idle"
                       /\ Tree' /\ WholeOp(o, current', folders', records')
    <2> SUFFICES ASSUME ~overlapped
                 PROVE  /\ \A d \in Connections \ {c} : op[d].stage = "idle"
                        /\ Tree' /\ WholeOp(o, current', folders', records')
      OBVIOUS
    <2>1. (\A d \in Connections \ {c} : op[d].stage = "idle") /\ Tree /\ WholeOp(op[c], current, folders, records)
      BY <1>1, Others
    <2>2. Tree'
      BY <1>4, <2>1 DEF Tree, OrphanFiles
    <2>3. vol = current /\ AllChildren(folders, fr)
      BY <1>1, <2>1 DEF WholeOp, Deleting
    <2>4. AllChildren(folders, fr2)
      <3> SUFFICES ASSUME NEW n \in 1..(t + 1), NEW i \in DOMAIN folders, folders[i].parent = fr2[n].id
                   PROVE  i \in fr2[n].kids \/ (n < t + 1 /\ i = fr2[n + 1].id)
        BY <1>9, <1>10 DEF AllChildren
      <3>1. CASE n = t + 1
        BY <1>7, <1>9, <2>1, <2>3, <3>1 DEF Children, Tree
      <3>2. CASE n = t
        <4>1. i \in fr[t].kids
          <5>1. t \in DOMAIN fr /\ ~(t < Len(fr)) /\ folders[i].parent = fr[t].id
            BY <1>5, <1>6, <1>9, <3>2
          <5> QED
            BY <2>3, <5>1 DEF AllChildren
        <4>2. fr2[n] = caller /\ fr2[n + 1] = inner /\ n < t + 1
          BY <1>5, <1>9, <3>2
        <4> QED
          BY <1>6, <1>7, <4>1, <4>2
      <3>3. CASE n \in 1..(t - 1)
        <4>1. n \in DOMAIN fr /\ fr2[n] = fr[n] /\ n < t /\ n < t + 1
          BY <1>5, <1>9, <3>3
        <4>2. fr2[n + 1].id = fr[n + 1].id
          <5>1. n + 1 = t \/ n + 1 \in 1..(t - 1)
            BY <1>5, <3>3
          <5> QED
            BY <1>6, <1>9, <5>1
        <4>3. i \in fr[n].kids \/ i = fr[n + 1].id
          BY <2>3, <4>1 DEF AllChildren
        <4> QED
          BY <4>1, <4>2, <4>3
      <3> QED
        BY <1>5, <3>1, <3>2, <3>3
    <2>5. WholeOp(o, current', folders', records')
      BY <1>4, <1>11, <2>3, <2>4 DEF WholeOp, Deleting
    <2> QED
      BY <2>1, <2>2, <2>5
  <1>15. volumes <= volumes' /\ c # "engine"
    BY <1>2, <1>4 DEF TablesInv
  <1>16. TablesInv'
    BY <1>2, <1>4 DEF TablesInv
  <1> QED
    BY <1>4, <1>12, <1>13, <1>14, <1>15, <1>16, Moves

LEMMA DeleteFolderStep == ASSUME IInv, NEW c \in Connections, DeleteFolder(c) PROVE IInv'
  <1> DEFINE fr == op[c].frames
             vol == op[c].vol
             t == Len(fr)
             id == fr[t].id
             pops == [op[c] EXCEPT !.stage = "child", !.frames = Front(fr)]
             o == IF t = 1 THEN Idle ELSE pops
  <1>1. op[c].stage = "row" /\ Top(c) = Last(fr)
    BY DEF DeleteFolder, At, Top
  <1>2. /\ c = "window" /\ op[c] \in Ops /\ OpInv(op[c], DOMAIN folders, volumes) /\ RecursionOf(op[c], folders)
        /\ fr \in Seq(Frames) /\ fr # <<>> /\ TablesInv
    BY <1>1, CallInProgress DEF Deleting, IInv
  <1>3. op' = [op EXCEPT ![c] = o] /\ UNCHANGED <<volumes, current, records, program, overlapped>>
    BY DEF DeleteFolder, DeleteRowOf
  <1>4. /\ Front(fr) \in Seq(Frames) /\ t \in Nat \ {0} /\ Len(Front(fr)) = t - 1
        /\ \A n \in 1..(t - 1) : Front(fr)[n] = fr[n]
        /\ Last(fr) = fr[t] /\ DOMAIN fr = 1..t /\ DOMAIN Front(fr) = 1..(t - 1)
    BY <1>2, FrontOf
  <1>5. DOMAIN folders' = DOMAIN folders \ {id} /\ \A i \in DOMAIN folders' : folders'[i] = folders[i]
    BY <1>1, <1>4 DEF DeleteFolder, DeleteRowOf
  <1>6. fr[t].kids = {} /\ Recursion(folders, fr, vol)
    BY <1>1, <1>2, <1>4 DEF RecursionOf
  <1>7. TablesInv'
    <2>1. IsFiniteSet(DOMAIN folders')
      BY <1>2, <1>5, FS_Subset DEF TablesInv
    <2>2. DOMAIN folders' \subseteq Nat \ {0} /\ \A i \in DOMAIN folders' : folders'[i].vol \in 1..volumes
      BY <1>2, <1>5 DEF TablesInv
    <2> QED
      BY <1>2, <1>3, <2>1, <2>2 DEF TablesInv
  <1> HIDE DEF id
  <1>8. ASSUME t # 1
        PROVE  /\ OpInv(pops, DOMAIN folders', volumes') /\ RecursionOf(pops, folders')
               /\ pops.stage = "child" /\ pops.frames = Front(fr) /\ pops.vol = vol
    <2>1. pops \in Ops /\ pops.stage = "child" /\ pops.call = op[c].call /\ pops.frames = Front(fr)
          /\ pops.vol = vol
      BY <1>2, <1>4 DEF Ops
    <2>2. t > 1 /\ Front(fr) # <<>>
      <3> HIDE DEF fr, t
      <3>1. Len(Front(fr)) # 0 /\ t > 1
        BY <1>4, <1>8
      <3>2. Len(<<>>) = 0
        OBVIOUS
      <3> QED
        BY <3>1, <3>2
    <2> HIDE DEF pops
    <2>3. OpInv(pops, DOMAIN folders', volumes')
      BY <1>1, <1>2, <1>3, <2>1, <2>2 DEF OpInv, Preparing, Deleting
    <2>4. Recursion(folders', Front(fr), vol)
      <3>1. DOMAIN folders' = DOMAIN folders \ {fr[Len(fr)].id} /\ fr[Len(fr)].kids = {}
        BY <1>5, <1>6 DEF id
      <3>2. /\ Len(fr) > 1 /\ Len(Front(fr)) = Len(fr) - 1
            /\ \A n \in 1..(Len(fr) - 1) : Front(fr)[n] = fr[n]
        BY <1>4, <2>2
      <3> HIDE DEF fr, t, vol
      <3> QED
        BY <1>2, <1>4, <1>5, <1>6, <3>1, <3>2, RecursionPop DEF t
    <2> QED
      BY <2>1, <2>3, <2>4 DEF RecursionOf
  <1> HIDE DEF pops
  <1>9. OpInv(o, DOMAIN folders', volumes') /\ RecursionOf(o, folders')
    <2>1. CASE t = 1
      BY <2>1, IdleOp
    <2>2. CASE t # 1
      BY <1>8, <2>2
    <2> QED
      BY <2>1, <2>2
  <1>10. ~overlapped => /\ \A d \in Connections \ {c} : op[d].stage = "idle"
                        /\ Tree' /\ WholeOp(o, current', folders', records')
    <2> SUFFICES ASSUME ~overlapped
                 PROVE  /\ \A d \in Connections \ {c} : op[d].stage = "idle"
                        /\ Tree' /\ WholeOp(o, current', folders', records')
      OBVIOUS
    <2>1. (\A d \in Connections \ {c} : op[d].stage = "idle") /\ Tree /\ WholeOp(op[c], current, folders, records)
      BY <1>1, Others
    <2>2. AllChildren(folders, fr) /\ vol = current
      BY <1>1, <2>1 DEF WholeOp, Deleting
    <2>3. \A k \in DOMAIN records : k.table = "file" => k.owner # id
      BY <1>1, <1>4, <2>1 DEF WholeOp, id
    <2>4. ASSUME NEW i \in DOMAIN folders PROVE folders[i].parent # id
      <3>1. t \in DOMAIN fr /\ ~(t < Len(fr)) /\ i \notin fr[t].kids
        BY <1>4, <1>6
      <3> QED
        BY <2>2, <3>1 DEF AllChildren, id
    <2>5. Tree'
      <3>1. \A i \in DOMAIN folders' : folders'[i].vol = current' /\ folders'[i].parent \in DOMAIN folders' \cup {0}
        BY <1>3, <1>5, <2>1, <2>4 DEF Tree
      <3>2. OrphanFiles' = {}
        BY <1>3, <1>5, <2>1, <2>3 DEF Tree, OrphanFiles
      <3> QED
        BY <3>1, <3>2 DEF Tree
    <2>6. CASE t = 1
      BY <2>1, <2>5, <2>6, IdleOp
    <2>7. CASE t # 1
      <3>1. AllChildren(folders', Front(fr))
        <4> SUFFICES ASSUME NEW n \in 1..(t - 1), NEW i \in DOMAIN folders', folders'[i].parent = Front(fr)[n].id
                     PROVE  i \in Front(fr)[n].kids \/ (n < t - 1 /\ i = Front(fr)[n + 1].id)
          BY <1>4 DEF AllChildren
        <4>1. /\ n \in DOMAIN fr /\ Front(fr)[n] = fr[n]
              /\ i \in DOMAIN folders /\ i # id /\ folders[i].parent = fr[n].id
          BY <1>4, <1>5
        <4>2. i \in fr[n].kids \/ i = fr[n + 1].id
          BY <2>2, <4>1 DEF AllChildren
        <4>3. CASE n = t - 1
          BY <1>4, <4>1, <4>2, <4>3 DEF id
        <4>4. CASE n \in 1..(t - 2)
          <5>1. n + 1 \in 1..(t - 1) /\ n < t - 1
            BY <1>4, <4>4
          <5> QED
            BY <1>4, <4>1, <4>2, <5>1
        <4> QED
          BY <1>4, <4>3, <4>4
      <3>2. o = pops
        BY <2>7
      <3>3. WholeOp(pops, current', folders', records')
        BY <1>3, <1>8, <2>2, <2>7, <3>1 DEF WholeOp, Deleting
      <3> QED
        BY <2>1, <2>5, <3>2, <3>3
    <2> QED
      BY <2>6, <2>7
  <1>11. volumes <= volumes' /\ c # "engine"
    BY <1>2, <1>3 DEF TablesInv
  <1> HIDE DEF o
  <1> QED
    BY <1>3, <1>7, <1>9, <1>10, <1>11, Moves

LEMMA StatementFailsStep == ASSUME IInv, NEW c \in Connections, StatementFails(c) PROVE IInv'
  <1>1. op[c].stage # "idle" /\ UNCHANGED <<tables, program, overlapped>>
    BY DEF StatementFails, At, history
  <1>2. CASE At(c, "walk") /\ op[c].call.method \in {"deleteFile", "remove"} /\ op[c].rest = <<>>
    <2> DEFINE o == [op[c] EXCEPT !.stage = "clear"]
    <2>1. op' = [op EXCEPT ![c] = o] /\ op[c].stage = "walk"
      BY <1>2 DEF StatementFails, ThenExtents, Goes, At
    <2>2. o \in Ops /\ o.stage = "clear" /\ o.call = op[c].call /\ o.frames = <<>>
      <3>1. op[c] \in Ops /\ op[c].frames = <<>>
        BY <2>1, CallInProgress DEF Deleting
      <3> QED
        BY <3>1 DEF Ops
    <2> HIDE DEF o
    <2>3. OpInv(o, DOMAIN folders, volumes)
      BY <2>1, <2>2, CallInProgress DEF OpInv, Preparing, Deleting
    <2>4. c = "engine" => OfEngine(o)
      BY <2>2, CallInProgress DEF OfEngine, Deleting
    <2> QED
      BY <1>1, <2>1, <2>2, <2>3, <2>4, RecordStep DEF tables
  <1>3. CASE ~(At(c, "walk") /\ op[c].call.method \in {"deleteFile", "remove"} /\ op[c].rest = <<>>)
    <2>1. Ends(c)
      BY <1>3 DEF StatementFails, GiveUp
    <2> QED
      BY <1>1, <2>1, EndsStep
  <1> QED
    BY <1>2, <1>3

LEMMA CrashStep == ASSUME IInv, Crash PROVE IInv'
  <1>1. op' = [c \in Connections |-> Idle] /\ UNCHANGED <<tables, overlapped>> /\ program' = <<>>
    BY DEF Crash, history
  <1>2. TablesInv'
    BY <1>1 DEF IInv, TablesInv, tables
  <1>3. OpsInv'
    BY <1>1, IdleOp DEF OpsInv, Connections
  <1>4. RecursionOf(op'["window"], folders')
    BY <1>1, IdleOp DEF Connections
  <1>5. Whole => Whole'
    <2>1. Tree => Tree'
      BY <1>1 DEF Tree, OrphanFiles, tables
    <2>2. Alone'
      BY <1>1 DEF Alone, Idle, Connections
    <2>3. \A c \in Connections : WholeOp(op'[c], current', folders', records')
      BY <1>1, IdleOp
    <2> QED
      BY <2>1, <2>2, <2>3 DEF Whole
  <1> QED
    BY <1>1, <1>2, <1>3, <1>4, <1>5 DEF IInv

\* As long as no failure went unnoticed, the volume a call made is the current one.
LEMMA NeverUnset == ASSUME IInv, NEW c \in Connections PROVE ~EnsureUnset(c)
  BY CallInProgress DEF EnsureUnset, At, Ops

LEMMA InitIInv == Init => IInv
  <1> SUFFICES ASSUME Init PROVE IInv
    OBVIOUS
  <1>1. op = [c \in Connections |-> Idle] /\ program = <<>> /\ DOMAIN records = {}
    <2>1. records = <<>>
      BY DEF Init
    <2>2. DOMAIN <<>> = {}
      OBVIOUS
    <2> QED
      BY <2>1, <2>2 DEF Init
  <1>2. /\ volumes \in {0, 1} /\ current = volumes
        /\ DOMAIN folders \in {{}, {1}}
        /\ \A i \in DOMAIN folders : folders[i].vol = 1 /\ folders[i].parent = 0 /\ current = 1
    <2>1. volumes \in {0, 1} /\ current = volumes
      BY DEF Init
    <2>2. CASE current = 0
      <3>1. folders = <<>>
        BY <2>2 DEF Init
      <3>2. DOMAIN <<>> = {}
        OBVIOUS
      <3> QED
        BY <2>1, <3>1, <3>2
    <2>3. CASE current = 1
      <3>1. \E name : folders = <<[vol |-> 1, parent |-> 0, name |-> name]>>
        <4>1. current # 0
          BY <2>3
        <4> QED
          BY <4>1, Zenon DEF Init
      <3>2. DOMAIN folders = {1} /\ folders[1].vol = 1 /\ folders[1].parent = 0
        BY <3>1
      <3> QED
        BY <2>1, <2>3, <3>2
    <2> QED
      BY <2>1, <2>2, <2>3
  <1>3. TablesInv
    <2>1. IsFiniteSet(DOMAIN folders)
      <3>1. IsFiniteSet({}) /\ IsFiniteSet({1})
        BY FS_EmptySet, FS_Singleton
      <3> QED
        BY <1>2, <3>1
    <2> QED
      BY <1>1, <1>2, <2>1 DEF TablesInv
  <1>4. OpsInv
    BY <1>1, IdleOp DEF OpsInv, Connections
  <1>5. RecursionOf(op["window"], folders)
    BY <1>1, IdleOp DEF Connections
  <1>6. Whole
    <2>1. Tree
      BY <1>1, <1>2 DEF Tree, OrphanFiles
    <2>2. Alone
      BY <1>1 DEF Alone, Idle, Connections
    <2>3. \A c \in Connections : WholeOp(op[c], current, folders, records)
      BY <1>1, IdleOp
    <2> QED
      BY <2>1, <2>2, <2>3 DEF Whole
  <1> QED
    BY <1>3, <1>4, <1>5, <1>6 DEF IInv

LEMMA NextIInv == ASSUME IInv, [Next]_vars, ~unnoticed' PROVE IInv'
  <1>1. CASE StartRun
    BY <1>1, StartRunStep
  <1>2. CASE EngineCall
    BY <1>2, EngineCallStep
  <1>3. CASE BrowserCall
    BY <1>3, BrowserCallStep
  <1>4. CASE Crash
    BY <1>4, CrashStep
  <1>5. ASSUME NEW c \in Connections, Statement(c) PROVE IInv'
    BY <1>5, InsertVolumeStep, SetCurrentStep, EnsureRootStep, EnsureFolderStep, UpsertStep, DeleteFileStep,
       ExtentsStep, DeleteChildStep, DeleteFilesStep, DeleteFolderStep, NeverUnset DEF Statement
  <1>6. ASSUME NEW c \in Connections, StatementFails(c) PROVE IInv'
    BY <1>6, StatementFailsStep
  <1>7. CASE UNCHANGED vars
    <2>1. UNCHANGED <<volumes, current, folders, records, op, program, overlapped>>
      BY <1>7 DEF vars, tables, history
    <2>2. TablesInv' /\ OpsInv' /\ (Whole => Whole')
      BY <2>1 DEF IInv, TablesInv, OpsInv, Whole, Alone, Tree, OrphanFiles
    <2> QED
      BY <2>1, <2>2 DEF IInv
  <1> QED
    BY <1>1, <1>2, <1>3, <1>4, <1>5, <1>6, <1>7 DEF Next, FailureIgnored, VolumeFails, MetaFails,
       RootFails, ChildrenFail, Unnoticed

-----------------------------------------------------------------------------
(* Theorems *)

\* Failures that went unnoticed are remembered.
LEMMA Remembered == ASSUME [Next]_vars, faults \in Nat, unnoticed => faults # 0
                    PROVE  /\ ~unnoticed' => ~unnoticed
                           /\ faults' \in Nat /\ (unnoticed' => faults' # 0)
  <1> DEFINE Same == UNCHANGED <<faults, unnoticed>>
             More == faults' = faults + 1 /\ (UNCHANGED unnoticed \/ unnoticed' = TRUE)
  <1>1. Same \/ More
    <2>1. CASE StartRun \/ Crash \/ UNCHANGED vars
      BY <2>1 DEF StartRun, Crash, vars, bounds
    <2>2. CASE EngineCall \/ BrowserCall
      <3>1. \E c, call : Begin(c, call)
        BY <2>2 DEF EngineCall, BrowserCall
      <3> QED
        BY <3>1 DEF Begin, Unnoticed
    <2>3. ASSUME NEW c \in Connections, Statement(c) PROVE Same
      BY <2>3 DEF Statement, InsertVolume, SetCurrent, EnsureRoot, EnsureUnset, EnsureFolder, Upsert, DeleteFile,
                  ClearExtents, InsertExtent, DeleteChild, DeleteFiles, DeleteFolder, bounds
    <2>4. ASSUME NEW c \in Connections, StatementFails(c) \/ FailureIgnored(c) PROVE More
      BY <2>4 DEF StatementFails, FailureIgnored, VolumeFails, MetaFails, RootFails, ChildrenFail, Unnoticed
    <2> QED
      BY <2>1, <2>2, <2>3, <2>4 DEF Next
  <1>2. CASE Same
    BY <1>2
  <1>3. CASE More
    BY <1>3
  <1> QED
    BY <1>1, <1>2, <1>3

\* What the proofs of the theorems carry along.
Remembers == faults \in Nat /\ (unnoticed => faults # 0)
LEMMA RememberedAlways == Spec => []Remembers
  <1>1. Init => Remembers
    <2>1. Init => faults = 0 /\ ~unnoticed
      BY Zenon DEF Init
    <2> QED
      BY <2>1 DEF Remembers
  <1>2. Remembers /\ [Next]_vars => Remembers'
    BY Remembered DEF Remembers
  <1> QED
    BY <1>1, <1>2, PTL DEF Spec

SoundTables == ~unnoticed => IInv
LEMMA SoundAlways == Spec => []SoundTables
  <1>1. Init => SoundTables
    BY InitIInv DEF SoundTables
  <1>2. Remembers /\ SoundTables /\ [Next]_vars => SoundTables'
    BY NextIInv, Remembered DEF SoundTables, Remembers
  <1> QED
    BY <1>1, <1>2, RememberedAlways, PTL DEF Spec

(* Whatever interleaves or dies in between, and whatever statement fails     *)
(* whose result the code looks at, rows refer to ids that were given, and    *)
(* delete_folder works through children of the folder it deletes, though ids *)
(* are reused and the other connection inserts folders.  Nothing is claimed  *)
(* after a failure that the code does not look at (a SELECT, or the INSERT   *)
(* of the volume, its entry in meta or its root folder).                     *)
THEOREM TypeCorrect == Spec => []TypeOK
  <1>1. SoundTables => TypeOK
    <2> SUFFICES ASSUME IInv PROVE TypeOK
      BY DEF SoundTables, TypeOK
    <2>1. volumes \in Nat /\ current \in 0..volumes
      BY DEF IInv, TablesInv
    <2>2. \A i \in DOMAIN folders : i > 0 /\ folders[i].vol \in 1..volumes
      BY DEF IInv, TablesInv
    <2>3. \A k \in DOMAIN records : k.owner > 0 /\ records[k] \in Digests \cup {None}
      BY DEF IInv, TablesInv
    <2>4. ASSUME NEW c \in Connections PROVE FramesNest(op[c].frames)
      <3>1. CASE c = "window"
        <4>1. Recursion(folders, op[c].frames, op[c].vol)
          BY <3>1 DEF IInv, RecursionOf
        <4> QED
          BY <4>1 DEF Recursion, ChildOf, FramesNest
      <3>2. CASE c = "engine"
        <4>1. op[c].frames = <<>> /\ Len(op[c].frames) = 0
          BY <3>2, CallInProgress DEF OfEngine
        <4> QED
          BY <4>1 DEF FramesNest
      <3> QED
        BY <3>1, <3>2 DEF Connections
    <2> QED
      BY <2>1, <2>2, <2>3, <2>4 DEF TypeOK
  <1> QED
    BY <1>1, SoundAlways, PTL

(* As long as the calls of the two connections did not overlap, no crash and *)
(* no failed statement of those the code looks at (the folders of a path,    *)
(* the record, the extents, the rows to delete) leaves a file row without    *)
(* its folder or a folder without its parent, not even half way through a    *)
(* delete_folder.                                                            *)
THEOREM TreeStaysWhole == Spec => []TreeIsWhole
  <1>1. SoundTables => TreeIsWhole
    BY DEF SoundTables, IInv, Whole, Tree, TreeIsWhole, OrphanFolders
  <1> QED
    BY <1>1, SoundAlways, PTL

(* No step of either connection clears the digest of a record that stays,    *)
(* whatever failed before, noticed or not.                                   *)
THEOREM DigestNeverLost == Spec => DigestIsKept
  <1>1. ASSUME [Next]_vars
        PROVE  \A k \in DOMAIN records \cap DOMAIN records' : records[k] # None => records'[k] # None
    <2> SUFFICES ASSUME NEW k \in DOMAIN records \cap DOMAIN records', records[k] # None PROVE records'[k] # None
      OBVIOUS
    <2>1. ASSUME records' = records PROVE records'[k] # None
      BY <2>1
    <2>2. CASE StartRun \/ EngineCall \/ BrowserCall \/ Crash
      BY <2>1, <2>2 DEF StartRun, EngineCall, BrowserCall, Crash, tables
    <2>3. ASSUME NEW c \in Connections, Upsert(c) PROVE records'[k] # None
      BY <2>3 DEF Upsert, Coalesced
    <2>4. ASSUME NEW c \in Connections, DeleteFile(c) PROVE records'[k] # None
      BY <2>4 DEF DeleteFile
    <2>5. ASSUME NEW c \in Connections, DeleteFiles(c) PROVE records'[k] # None
      BY <2>5 DEF DeleteFiles, DeleteFilesOf
    <2>6. ASSUME NEW c \in Connections,
                 \/ InsertVolume(c) \/ SetCurrent(c) \/ EnsureRoot(c) \/ EnsureFolder(c) \/ ClearExtents(c)
                 \/ InsertExtent(c) \/ DeleteChild(c) \/ DeleteFolder(c) \/ StatementFails(c)
                 \/ EnsureUnset(c) \/ FailureIgnored(c)
          PROVE  records'[k] # None
      <3>1. records' = records
        BY <2>6 DEF InsertVolume, SetCurrent, EnsureRoot, EnsureFolder, ClearExtents, InsertExtent, DeleteChild,
                    DeleteFolder, DeleteRowOf, StatementFails, EnsureUnset, FailureIgnored, VolumeFails,
                    MetaFails, RootFails, ChildrenFail, tables
      <3> QED
        BY <2>1, <3>1
    <2>7. CASE UNCHANGED vars
      BY <2>1, <2>7 DEF vars, tables
    <2>8. ASSUME NEW c \in Connections, Statement(c) \/ StatementFails(c) \/ FailureIgnored(c) PROVE records'[k] # None
      BY <2>3, <2>4, <2>5, <2>6, <2>8 DEF Statement
    <2>9. CASE Next
      BY <2>2, <2>8, <2>9 DEF Next
    <2> QED
      BY <1>1, <2>7, <2>9
  <1> QED
    BY <1>1, PTL DEF Spec, DigestIsKept

-----------------------------------------------------------------------------
(***************************************************************************)
(* The database as a map: a record is found under its path with its        *)
(* digest, and extents under a path that has a record.                     *)
(*                                                                         *)
(* Two paths share a key only if the walks to their folders end at the     *)
(* same one, and no two folders have the same row (vol, parent, name),     *)
(* which tells the way back.  A statement that inserts or deletes a folder *)
(* moves no walk that ends at a record.                                    *)
(***************************************************************************)

(* Walking from folder to folder, in the rows fold *)

Row(vol, parent, name) == [vol |-> vol, parent |-> parent, name |-> name]
FolderIn(fold, vol, parent, name) ==
    LET ids == {i \in DOMAIN fold : fold[i] = Row(vol, parent, name)}
    IN  IF ids = {} THEN 0 ELSE CHOOSE i \in ids : TRUE
RootIn(fold, vol) == FolderIn(fold, vol, 0, "")
StepIn(fold, vol, at, name) == IF at = 0 THEN 0 ELSE FolderIn(fold, vol, at, name)
WalkIn(fold, vol, names) ==
    LET at[n \in 0..Len(names)] ==
            IF n = 0 THEN RootIn(fold, vol) ELSE StepIn(fold, vol, at[n - 1], names[n])
    IN  at[Len(names)]

LEMMA InTables ==
    ASSUME NEW vol, NEW parent, NEW name, NEW names
    PROVE  /\ FolderId(vol, parent, name) = FolderIn(folders, vol, parent, name)
           /\ RootId(vol) = RootIn(folders, vol)
           /\ Walk(vol, names) = WalkIn(folders, vol, names)
  BY DEF FolderId, FolderIn, Row, RootId, RootIn, Walk, WalkIn, StepIn

\* There is a function with the recursion of WalkIn, so that the path's ids follow from each other.
LEMMA WalkSteps ==
    ASSUME NEW fold, NEW vol, NEW names \in Seq(STRING)
    PROVE  \E at : /\ at[0] = RootIn(fold, vol)
                   /\ \A n \in 1..Len(names) : at[n] = StepIn(fold, vol, at[n - 1], names[n])
                   /\ WalkIn(fold, vol, names) = at[Len(names)]
  <1> DEFINE len == Len(names)
             root == RootIn(fold, vol)
             Step(f, k) == [n \in 0..k |-> IF n = 0 THEN root ELSE StepIn(fold, vol, f[n - 1], names[n])]
             at == CHOOSE f : f = Step(f, len)
             Missing == {k \in 0..len : ~\E f : f = Step(f, k)}
  <1>1. len \in Nat
    BY LenProperties
  <1>2. Missing = {}
    <2> SUFFICES ASSUME Missing # {} PROVE FALSE
      OBVIOUS
    <2>1. Missing \in SUBSET Nat
      BY <1>1
    <2>2. PICK k \in Missing : \A j \in Missing : k <= j
      <3> HIDE DEF Missing
      <3> QED
        BY <2>1, Smallest
    <2>3. k # 0
      <3>1. [n \in 0..0 |-> root] = Step([n \in 0..0 |-> root], 0)
        OBVIOUS
      <3> QED
        BY <3>1
    <2>4. k \in 1..len /\ k - 1 \in 0..len /\ k - 1 \notin Missing
      <3>1. k \in 0..len
        BY <2>2
      <3>2. k \in 1..len /\ k - 1 \in 0..len /\ ~(k <= k - 1)
        BY <1>1, <2>3, <3>1
      <3> HIDE DEF Missing
      <3> QED
        BY <2>2, <3>2
    <2>5. PICK f : f = Step(f, k - 1)
      BY <2>4
    <2> DEFINE g == [n \in 0..k |-> IF n = k THEN StepIn(fold, vol, f[k - 1], names[k]) ELSE f[n]]
               h == Step(g, k)
    <2>6. ASSUME NEW n \in 0..k PROVE g[n] = h[n]
      <3>1. h[n] = IF n = 0 THEN root ELSE StepIn(fold, vol, g[n - 1], names[n])
        OBVIOUS
      <3>2. \A m \in 0..(k - 1) : f[m] = IF m = 0 THEN root ELSE StepIn(fold, vol, f[m - 1], names[m])
        BY <2>5
      <3>3. CASE n = k
        <4>1. g[n - 1] = f[k - 1] /\ g[n] = StepIn(fold, vol, f[k - 1], names[k]) /\ n # 0
          BY <2>4, <3>3
        <4> QED
          BY <3>1, <3>3, <4>1
      <3>4. CASE n = 0
        <4>1. g[n] = f[0] /\ 0 \in 0..(k - 1)
          BY <2>4, <3>4
        <4> QED
          BY <3>1, <3>2, <3>4, <4>1
      <3>5. CASE n \in 1..(k - 1)
        <4>1. g[n] = f[n] /\ g[n - 1] = f[n - 1] /\ n \in 0..(k - 1) /\ n # 0
          BY <2>4, <3>5
        <4> QED
          BY <3>1, <3>2, <4>1
      <3> QED
        BY <2>4, <3>3, <3>4, <3>5
    <2>7. g = [n \in 0..k |-> g[n]] /\ h = [n \in 0..k |-> h[n]]
      OBVIOUS
    <2>8. g = h
      <3> HIDE DEF g, h
      <3> QED
        BY <2>6, <2>7
    <2> QED
      BY <2>2, <2>8
  <1>3. \E f : f = Step(f, len)
    BY <1>1, <1>2
  <1>4. at = Step(at, len)
    BY <1>3
  <1>5. WalkIn(fold, vol, names) = at[len]
    BY DEF WalkIn
  <1> HIDE DEF at
  <1>6. at[0] = root /\ \A n \in 1..len : at[n] = StepIn(fold, vol, at[n - 1], names[n])
    BY <1>1, <1>4
  <1> QED
    BY <1>5, <1>6

LEMMA WalkStart ==
    ASSUME NEW fold, NEW vol
    PROVE  WalkIn(fold, vol, <<>>) = RootIn(fold, vol)
  <1> DEFINE none == <<>>
  <1>1. none \in Seq(STRING) /\ Len(none) = 0
    BY EmptySeq
  <1> HIDE DEF none
  <1>2. PICK at : at[0] = RootIn(fold, vol) /\ WalkIn(fold, vol, none) = at[Len(none)]
    <2>1. \A names \in Seq(STRING) :
            \E at : at[0] = RootIn(fold, vol) /\ WalkIn(fold, vol, names) = at[Len(names)]
      BY WalkSteps
    <2> QED
      BY <1>1, <2>1
  <1> QED
    BY <1>1, <1>2 DEF none

LEMMA WalkOn ==
    ASSUME NEW fold, NEW vol, NEW names \in Seq(STRING), NEW name \in STRING
    PROVE  WalkIn(fold, vol, Append(names, name)) = StepIn(fold, vol, WalkIn(fold, vol, names), name)
  <1> DEFINE long == Append(names, name)
             len == Len(names)
  <1>1. /\ long \in Seq(STRING) /\ Len(long) = len + 1 /\ len \in Nat
        /\ \A i \in 1..len : long[i] = names[i]
        /\ long[len + 1] = name
    <2>1. len \in Nat
      BY LenProperties
    <2>2. long \in Seq(STRING) /\ Len(long) = len + 1
      BY AppendProperties
    <2>3. \A i \in 1..len : long[i] = names[i]
      BY AppendProperties
    <2>4. long[len + 1] = name
      BY AppendProperties
    <2> QED
      BY <2>1, <2>2, <2>3, <2>4
  <1>2. PICK a : /\ a[0] = RootIn(fold, vol)
                 /\ \A n \in 1..len : a[n] = StepIn(fold, vol, a[n - 1], names[n])
                 /\ WalkIn(fold, vol, names) = a[len]
    BY WalkSteps
  <1> HIDE DEF long, len
  <1>3. PICK b : /\ b[0] = RootIn(fold, vol)
                 /\ \A n \in 1..Len(long) : b[n] = StepIn(fold, vol, b[n - 1], long[n])
                 /\ WalkIn(fold, vol, long) = b[Len(long)]
    BY <1>1, WalkSteps
  <1> DEFINE Wrong == {n \in 0..len : a[n] # b[n]}
  <1>4. Wrong = {}
    <2> SUFFICES ASSUME Wrong # {} PROVE FALSE
      OBVIOUS
    <2>1. Wrong \in SUBSET Nat
      BY <1>1
    <2>2. PICK n \in Wrong : \A m \in Wrong : n <= m
      <3> HIDE DEF Wrong
      <3> QED
        BY <2>1, Smallest
    <2>3. n \in 1..len /\ n - 1 \in 0..len /\ ~(n <= n - 1) /\ n \in 1..(len + 1)
      BY <1>1, <1>2, <1>3, <2>2
    <2>4. a[n - 1] = b[n - 1]
      BY <2>2, <2>3
    <2>5. a[n] = StepIn(fold, vol, a[n - 1], names[n]) /\ b[n] = StepIn(fold, vol, b[n - 1], long[n])
          /\ long[n] = names[n]
      BY <1>1, <1>2, <1>3, <2>3
    <2> QED
      BY <2>2, <2>4, <2>5
  <1>5. a[len] = b[len] /\ len + 1 \in 1..(len + 1) /\ (len + 1) - 1 = len
    BY <1>1, <1>4
  <1>6. b[len + 1] = StepIn(fold, vol, b[len], name)
    BY <1>1, <1>3, <1>5
  <1> QED
    BY <1>1, <1>2, <1>3, <1>5, <1>6 DEF long

\* A set of walks has one that cannot be shortened within it.
LEMMA ShortestOf ==
    ASSUME NEW S \in SUBSET Seq(STRING), S # {}
    PROVE  \E s \in S : s = <<>> \/ \E r \in Seq(STRING), x \in STRING : s = Append(r, x) /\ r \notin S
  <1> DEFINE L == {n \in Nat : \E s \in S : Len(s) = n}
  <1>1. L \in SUBSET Nat /\ L # {}
    BY LenProperties
  <1>2. PICK n \in L : \A m \in L : n <= m
    <2> HIDE DEF L
    <2> QED
      BY <1>1, Smallest
  <1>3. PICK s \in S : Len(s) = n
    BY <1>2
  <1>4. CASE s = <<>>
    BY <1>4
  <1>5. CASE s # <<>>
    <2>1. PICK r \in Seq(STRING), x \in STRING : s = Append(r, x)
      BY <1>5, SequenceEmptyOrAppend
    <2>2. Len(r) \in Nat /\ n = Len(r) + 1
      BY <1>3, <2>1, AppendProperties, LenProperties
    <2>3. ~(n <= Len(r))
      BY <2>2
    <2>4. Len(r) \notin L
      BY <1>2, <2>3
    <2>5. r \notin S
      BY <2>2, <2>4
    <2> QED
      BY <2>1, <2>5
  <1> QED
    BY <1>4, <1>5

Ids(fold) == DOMAIN fold \subseteq Nat \ {0}
Unique(fold) == \A i, j \in DOMAIN fold : fold[i] = fold[j] => i = j

LEMMA FolderInFound ==
    ASSUME NEW fold, Ids(fold), NEW vol, NEW parent, NEW name
    PROVE  LET id == FolderIn(fold, vol, parent, name)
           IN  /\ id # 0 => id \in DOMAIN fold /\ fold[id] = Row(vol, parent, name)
               /\ id = 0 => \A i \in DOMAIN fold : fold[i] # Row(vol, parent, name)
  <1> DEFINE row == Row(vol, parent, name)
             ids == {i \in DOMAIN fold : fold[i] = row}
  <1>1. FolderIn(fold, vol, parent, name) = IF ids = {} THEN 0 ELSE CHOOSE i \in ids : TRUE
    BY DEF FolderIn
  <1> HIDE DEF row
  <1>2. CASE ids = {}
    <2>1. \A i \in DOMAIN fold : fold[i] # row
      BY <1>2
    <2> QED
      BY <1>1, <1>2, <2>1 DEF row
  <1>3. CASE ids # {}
    <2>1. FolderIn(fold, vol, parent, name) \in ids
      BY <1>1, <1>3
    <2>2. FolderIn(fold, vol, parent, name) # 0
      BY <2>1 DEF Ids
    <2> QED
      BY <2>1, <2>2 DEF row
  <1> QED
    BY <1>2, <1>3

LEMMA RowParts ==
    ASSUME NEW v, NEW a, NEW x, NEW w, NEW b, NEW y
    PROVE  /\ Row(v, a, x).vol = v /\ Row(v, a, x).parent = a /\ Row(v, a, x).name = x
           /\ Row(v, a, x) = Row(w, b, y) => v = w /\ a = b /\ x = y
  <1>1. /\ Row(v, a, x).vol = v /\ Row(v, a, x).parent = a /\ Row(v, a, x).name = x
        /\ Row(w, b, y).vol = w /\ Row(w, b, y).parent = b /\ Row(w, b, y).name = y
    BY DEF Row
  <1> QED
    BY <1>1, Zenon

\* Two walks that end at the same folder are the same.
LEMMA WalkInto ==
    ASSUME NEW fold, Ids(fold), NEW vol, NEW p \in Seq(STRING), NEW q \in Seq(STRING),
           WalkIn(fold, vol, p) = WalkIn(fold, vol, q), WalkIn(fold, vol, p) # 0
    PROVE  p = q
  <1> DEFINE W(s) == WalkIn(fold, vol, s)
             S == {s \in Seq(STRING) : \E t \in Seq(STRING) : W(s) = W(t) /\ W(s) # 0 /\ s # t}
  <1>1. SUFFICES ASSUME S # {} PROVE FALSE
    BY <1>1
  <1>2. PICK s \in S : s = <<>> \/ \E r \in Seq(STRING), x \in STRING : s = Append(r, x) /\ r \notin S
    <2>1. S \in SUBSET Seq(STRING)
      OBVIOUS
    <2> HIDE DEF S
    <2> QED
      BY <1>1, <2>1, ShortestOf
  <1>3. PICK t \in Seq(STRING) : W(s) = W(t) /\ W(s) # 0 /\ s # t
    BY <1>2
  \* What the row of a walk says.
  <1>4. ASSUME NEW u, u = <<>>, W(u) # 0
        PROVE  fold[W(u)].parent = 0
    <2>1. W(u) = FolderIn(fold, vol, 0, "")
      BY <1>4, WalkStart DEF RootIn
    <2>2. PICK name : W(u) = FolderIn(fold, vol, 0, name)
      BY <2>1
    <2>3. fold[W(u)] = Row(vol, 0, name)
      BY <1>4, <2>2, FolderInFound
    <2> QED
      BY <2>3, RowParts
  <1>5. ASSUME NEW r \in Seq(STRING), NEW x \in STRING, W(Append(r, x)) # 0
        PROVE  W(r) # 0 /\ fold[W(Append(r, x))] = Row(vol, W(r), x)
    <2>1. W(Append(r, x)) = StepIn(fold, vol, W(r), x)
      <3> HIDE DEF S
      <3> QED
        BY WalkOn
    <2>2. W(r) # 0 /\ W(Append(r, x)) = FolderIn(fold, vol, W(r), x)
      BY <1>5, <2>1 DEF StepIn
    <2>3. fold[FolderIn(fold, vol, W(r), x)] = Row(vol, W(r), x)
      <3>1. FolderIn(fold, vol, W(r), x) # 0
        BY <1>5, <2>2
      <3>2. \A a, y : FolderIn(fold, vol, a, y) # 0 => fold[FolderIn(fold, vol, a, y)] = Row(vol, a, y)
        BY FolderInFound
      <3> HIDE DEF W
      <3> QED
        BY <3>1, <3>2
    <2> QED
      BY <2>2, <2>3
  <1> HIDE DEF W
  <1>6. ASSUME NEW u, NEW r \in Seq(STRING), NEW x \in STRING, u = <<>>, W(u) = W(Append(r, x)), W(u) # 0
        PROVE  FALSE
    <2>1. fold[W(u)].parent = 0
      BY <1>4, <1>6
    <2>2. W(r) # 0 /\ fold[W(u)] = Row(vol, W(r), x)
      BY <1>5, <1>6
    <2> QED
      BY <2>1, <2>2, RowParts
  <1>7. CASE s = <<>>
    <2>2. t # <<>>
      BY <1>3, <1>7
    <2>1. PICK r \in Seq(STRING), x \in STRING : t = Append(r, x)
      BY <2>2, SequenceEmptyOrAppend
    <2> QED
      BY <1>3, <1>6, <1>7, <2>1
  <1>8. ASSUME NEW r \in Seq(STRING), NEW x \in STRING, s = Append(r, x), r \notin S
        PROVE  FALSE
    <2>1. CASE t = <<>>
      BY <1>3, <1>6, <1>8, <2>1
    <2>2. CASE t # <<>>
      <3>1. PICK r2 \in Seq(STRING), x2 \in STRING : t = Append(r2, x2)
        BY <2>2, SequenceEmptyOrAppend
      <3>2. W(r) # 0 /\ fold[W(s)] = Row(vol, W(r), x) /\ fold[W(t)] = Row(vol, W(r2), x2)
        BY <1>3, <1>5, <1>8, <3>1
      <3>3. W(r) = W(r2) /\ x = x2
        BY <1>3, <3>2, RowParts
      <3>4. r = r2
        BY <1>8, <3>2, <3>3
      <3> QED
        BY <1>3, <1>8, <3>1, <3>3, <3>4
    <2> QED
      BY <2>1, <2>2
  <1> QED
    BY <1>2, <1>7, <1>8

\* A new folder at the end of no walk.
Grown(fold, fold2, id, vol, parent, name) ==
    /\ Ids(fold) /\ Ids(fold2)
    /\ DOMAIN fold2 = DOMAIN fold \cup {id} /\ id \notin DOMAIN fold
    /\ \A i \in DOMAIN fold : fold2[i] = fold[i]
    /\ fold2[id] = Row(vol, parent, name)
    /\ FolderIn(fold, vol, parent, name) = 0

LEMMA FolderGrows ==
    ASSUME NEW fold, NEW fold2, NEW id, NEW vol, NEW parent, NEW name,
           Grown(fold, fold2, id, vol, parent, name),
           NEW a, NEW x
    PROVE  /\ a = parent /\ x = name => FolderIn(fold2, vol, a, x) = id
           /\ ~(a = parent /\ x = name) => FolderIn(fold2, vol, a, x) = FolderIn(fold, vol, a, x)
  <1> DEFINE row == Row(vol, a, x)
             new == Row(vol, parent, name)
             was == {i \in DOMAIN fold : fold[i] = row}
             is == {i \in DOMAIN fold2 : fold2[i] = row}
  <1>1. /\ FolderIn(fold2, vol, a, x) = IF is = {} THEN 0 ELSE CHOOSE i \in is : TRUE
        /\ FolderIn(fold, vol, a, x) = IF was = {} THEN 0 ELSE CHOOSE i \in was : TRUE
    BY DEF FolderIn
  <1>2. row = new <=> a = parent /\ x = name
    BY RowParts
  <1>3. /\ DOMAIN fold2 = DOMAIN fold \cup {id} /\ id \notin DOMAIN fold
        /\ \A i \in DOMAIN fold : fold2[i] = fold[i] /\ fold[i] # new
        /\ fold2[id] = new
    BY FolderInFound DEF Grown
  <1> HIDE DEF row, new
  <1>4. CASE row = new
    <2>1. is = {id}
      BY <1>3, <1>4
    <2> HIDE DEF is
    <2>2. FolderIn(fold2, vol, a, x) = id
      BY <1>1, <2>1
    <2> QED
      BY <1>2, <1>4, <2>2
  <1>5. CASE row # new
    <2>1. is = was
      BY <1>3, <1>5
    <2> HIDE DEF is, was
    <2>2. FolderIn(fold2, vol, a, x) = FolderIn(fold, vol, a, x)
      BY <1>1, <2>1
    <2> QED
      BY <1>2, <1>5, <2>2
  <1> QED
    BY <1>4, <1>5

LEMMA WalkGrows ==
    ASSUME NEW fold, NEW fold2, NEW id, NEW vol, NEW parent, NEW name,
           Grown(fold, fold2, id, vol, parent, name),
           parent # id, \A i \in DOMAIN fold : fold[i].parent # id,
           NEW p \in Seq(STRING)
    PROVE  \/ WalkIn(fold2, vol, p) = WalkIn(fold, vol, p)
           \/ WalkIn(fold, vol, p) = 0 /\ WalkIn(fold2, vol, p) = id
  <1> DEFINE V(s) == WalkIn(fold, vol, s)
             W(s) == WalkIn(fold2, vol, s)
             S == {s \in Seq(STRING) : ~(W(s) = V(s) \/ (V(s) = 0 /\ W(s) = id))}
  <1>1. SUFFICES ASSUME S # {} PROVE FALSE
    OBVIOUS
  <1>2. PICK s \in S : s = <<>> \/ \E r \in Seq(STRING), x \in STRING : s = Append(r, x) /\ r \notin S
    <2>1. S \in SUBSET Seq(STRING)
      OBVIOUS
    <2> HIDE DEF S
    <2> QED
      BY <1>1, <2>1, ShortestOf
  <1>3. ~(W(s) = V(s) \/ (V(s) = 0 /\ W(s) = id))
    BY <1>2
  <1>4. ASSUME NEW a, NEW x
        PROVE  \/ FolderIn(fold2, vol, a, x) = FolderIn(fold, vol, a, x)
               \/ FolderIn(fold, vol, a, x) = 0 /\ FolderIn(fold2, vol, a, x) = id
    BY FolderGrows DEF Grown
  <1>5. CASE s = <<>>
    <2>1. W(s) = FolderIn(fold2, vol, 0, "") /\ V(s) = FolderIn(fold, vol, 0, "")
      BY <1>5, WalkStart DEF RootIn
    <2> QED
      BY <1>3, <1>4, <2>1
  <1>6. ASSUME NEW r \in Seq(STRING), NEW x \in STRING, s = Append(r, x), r \notin S
        PROVE  FALSE
    <2>1. W(s) = StepIn(fold2, vol, W(r), x) /\ V(s) = StepIn(fold, vol, V(r), x)
      BY <1>6, WalkOn
    <2>2. W(r) = V(r) \/ (V(r) = 0 /\ W(r) = id)
      BY <1>6
    <2> HIDE DEF W, V
    <2>3. CASE W(r) = V(r)
      BY <1>3, <1>4, <2>1, <2>3 DEF StepIn
    <2>4. CASE V(r) = 0 /\ W(r) = id
      <3>1. FolderIn(fold2, vol, id, x) = 0
        <4> SUFFICES ASSUME FolderIn(fold2, vol, id, x) # 0 PROVE FALSE
          OBVIOUS
        <4>1. PICK i \in DOMAIN fold2 : fold2[i] = Row(vol, id, x)
          BY FolderInFound DEF Grown
        <4>2. fold2[i].parent = id
          BY <4>1, RowParts
        <4>3. fold2[id].parent = parent
          BY RowParts DEF Grown
        <4> QED
          BY <4>1, <4>2, <4>3 DEF Grown
      <3> QED
        BY <1>3, <2>1, <2>4, <3>1 DEF StepIn
    <2> QED
      BY <2>2, <2>3, <2>4
  <1> QED
    BY <1>2, <1>5, <1>6

\* A folder without children is removed.
LEMMA FolderShrinks ==
    ASSUME NEW fold, NEW fold2, Ids(fold), Unique(fold), NEW id \in DOMAIN fold,
           DOMAIN fold2 = DOMAIN fold \ {id}, \A i \in DOMAIN fold2 : fold2[i] = fold[i],
           NEW vol, NEW a, NEW x
    PROVE  FolderIn(fold2, vol, a, x) = IF FolderIn(fold, vol, a, x) = id THEN 0 ELSE FolderIn(fold, vol, a, x)
  <1> DEFINE row == Row(vol, a, x)
             was == {i \in DOMAIN fold : fold[i] = row}
             is == {i \in DOMAIN fold2 : fold2[i] = row}
  <1>1. /\ FolderIn(fold2, vol, a, x) = IF is = {} THEN 0 ELSE CHOOSE i \in is : TRUE
        /\ FolderIn(fold, vol, a, x) = IF was = {} THEN 0 ELSE CHOOSE i \in was : TRUE
    BY DEF FolderIn
  <1> HIDE DEF row
  <1>2. CASE fold[id] = row
    <2>1. was = {id} /\ is = {}
      BY <1>2 DEF Unique
    <2> HIDE DEF was, is
    <2> QED
      BY <1>1, <2>1
  <1>3. CASE fold[id] # row
    <2>1. is = was /\ id \notin was
      BY <1>3
    <2>2. FolderIn(fold, vol, a, x) # id
      <3>1. id # 0
        BY DEF Ids
      <3> QED
        BY <1>1, <2>1, <3>1
    <2> HIDE DEF is, was
    <2>3. FolderIn(fold2, vol, a, x) = FolderIn(fold, vol, a, x)
      BY <1>1, <2>1
    <2> QED
      BY <2>2, <2>3
  <1> QED
    BY <1>2, <1>3

LEMMA WalkShrinks ==
    ASSUME NEW fold, NEW fold2, Ids(fold), Unique(fold), NEW id \in DOMAIN fold,
           DOMAIN fold2 = DOMAIN fold \ {id}, \A i \in DOMAIN fold2 : fold2[i] = fold[i],
           \A i \in DOMAIN fold : fold[i].parent # id,
           NEW vol, NEW p \in Seq(STRING)
    PROVE  WalkIn(fold2, vol, p) = IF WalkIn(fold, vol, p) = id THEN 0 ELSE WalkIn(fold, vol, p)
  <1> DEFINE V(s) == WalkIn(fold, vol, s)
             W(s) == WalkIn(fold2, vol, s)
             S == {s \in Seq(STRING) : W(s) # IF V(s) = id THEN 0 ELSE V(s)}
  <1>1. SUFFICES ASSUME S # {} PROVE FALSE
    OBVIOUS
  <1>2. PICK s \in S : s = <<>> \/ \E r \in Seq(STRING), x \in STRING : s = Append(r, x) /\ r \notin S
    <2>1. S \in SUBSET Seq(STRING)
      OBVIOUS
    <2> HIDE DEF S
    <2> QED
      BY <1>1, <2>1, ShortestOf
  <1>3. W(s) # IF V(s) = id THEN 0 ELSE V(s)
    BY <1>2
  <1>4. ASSUME NEW a, NEW x
        PROVE  FolderIn(fold2, vol, a, x) = IF FolderIn(fold, vol, a, x) = id THEN 0 ELSE FolderIn(fold, vol, a, x)
    BY FolderShrinks
  <1>5. CASE s = <<>>
    <2>1. W(s) = FolderIn(fold2, vol, 0, "") /\ V(s) = FolderIn(fold, vol, 0, "")
      BY <1>5, WalkStart DEF RootIn
    <2> QED
      BY <1>3, <1>4, <2>1
  <1>6. ASSUME NEW r \in Seq(STRING), NEW x \in STRING, s = Append(r, x), r \notin S
        PROVE  FALSE
    <2>1. W(s) = StepIn(fold2, vol, W(r), x) /\ V(s) = StepIn(fold, vol, V(r), x)
      BY <1>6, WalkOn
    <2>2. W(r) = IF V(r) = id THEN 0 ELSE V(r)
      BY <1>6
    <2>3. id # 0
      BY DEF Ids
    <2> HIDE DEF W, V
    <2>4. CASE V(r) # id
      BY <1>3, <1>4, <2>1, <2>2, <2>3, <2>4 DEF StepIn
    <2>5. CASE V(r) = id
      <3>1. FolderIn(fold, vol, id, x) = 0
        <4> SUFFICES ASSUME FolderIn(fold, vol, id, x) # 0 PROVE FALSE
          OBVIOUS
        <4>1. PICK i \in DOMAIN fold : fold[i] = Row(vol, id, x)
          BY FolderInFound
        <4>2. fold[i].parent = id
          BY <4>1, RowParts
        <4> QED
          BY <4>1, <4>2
      <3> QED
        BY <1>3, <2>1, <2>2, <2>3, <2>5, <3>1 DEF StepIn
    <2> QED
      BY <2>4, <2>5
  <1> QED
    BY <1>2, <1>5, <1>6

-----------------------------------------------------------------------------
(* Keys *)

KeyIn(fold, vol, p) == KeyAt(vol, WalkIn(fold, vol, Front(p)), p)

LEMMA KeyParts ==
    ASSUME NEW fold, NEW vol, NEW p \in Paths
    PROVE  /\ KeyOf(vol, p) = KeyIn(folders, vol, p)
           /\ p \in Special => KeyIn(fold, vol, p) = ObjectKey(vol, p)
           /\ p \notin Special => KeyIn(fold, vol, p) = FileKey(WalkIn(fold, vol, Front(p)), p)
           /\ p \in Special <=> p \notin Files
  <1>1. KeyOf(vol, p) = KeyIn(folders, vol, p)
    BY InTables DEF KeyOf, KeyIn
  <1>2. p \in Special <=> p \notin Files
    BY CatalogAssumption DEF Paths
  <1> QED
    BY <1>1, <1>2 DEF KeyIn, KeyAt

LEMMA KeyFields ==
    ASSUME NEW id, NEW p
    PROVE  /\ ObjectKey(id, p).table = "object" /\ ObjectKey(id, p).owner = id /\ ObjectKey(id, p).name = Last(p)
           /\ FileKey(id, p).table = "file" /\ FileKey(id, p).owner = id /\ FileKey(id, p).name = Last(p)
  BY DEF ObjectKey, FileKey

LEMMA SameParts ==
    ASSUME NEW p \in Paths, NEW q \in Paths, Front(p) = Front(q), Last(p) = Last(q)
    PROVE  p = q
  <1>1. p \in Seq(STRING) /\ p # <<>> /\ q \in Seq(STRING) /\ q # <<>>
    BY CatalogAssumption
  <1>2. /\ Len(p) \in Nat \ {0} /\ Len(Front(p)) = Len(p) - 1 /\ p[Len(p)] = Last(p)
        /\ \A i \in 1..(Len(p) - 1) : Front(p)[i] = p[i]
    BY <1>1, FrontOf
  <1>3. /\ Len(q) \in Nat \ {0} /\ Len(Front(q)) = Len(q) - 1 /\ q[Len(q)] = Last(q)
        /\ \A i \in 1..(Len(q) - 1) : Front(q)[i] = q[i]
    BY <1>1, FrontOf
  <1>4. Len(p) = Len(q)
    BY <1>2, <1>3
  <1>5. ASSUME NEW i \in 1..Len(p) PROVE p[i] = q[i]
    <2>1. CASE i = Len(p)
      BY <1>2, <1>3, <1>4, <2>1
    <2>2. CASE i \in 1..(Len(p) - 1)
      BY <1>2, <1>3, <1>4, <2>2
    <2> QED
      BY <1>2, <2>1, <2>2
  <1> QED
    BY <1>1, <1>4, <1>5, SeqEqual

\* Different paths have different keys.
LEMMA KeysApart ==
    ASSUME NEW fold, Ids(fold), NEW vol, NEW p \in Paths, NEW q \in Paths,
           KeyIn(fold, vol, p) = KeyIn(fold, vol, q), KeyIn(fold, vol, p).owner # 0
    PROVE  p = q
  <1>1. Front(p) \in Seq(STRING) /\ Front(q) \in Seq(STRING)
    BY PathParts
  <1>2. CASE p \in Special /\ q \in Special
    <2>1. Front(p) = Front(q)
      BY <1>2, PathParts
    <2>2. Last(p) = Last(q)
      BY <1>2, KeyParts, KeyFields
    <2> QED
      BY <2>1, <2>2, SameParts
  <1>3. CASE p \notin Special /\ q \notin Special
    <2>1. WalkIn(fold, vol, Front(p)) = WalkIn(fold, vol, Front(q)) /\ WalkIn(fold, vol, Front(p)) # 0
          /\ Last(p) = Last(q)
      BY <1>3, KeyParts, KeyFields
    <2>2. Front(p) = Front(q)
      BY <1>1, <2>1, WalkInto
    <2> QED
      BY <2>1, <2>2, SameParts
  <1>4. CASE ~(p \in Special <=> q \in Special)
    <2>1. KeyIn(fold, vol, p).table # KeyIn(fold, vol, q).table
      BY <1>4, KeyParts, KeyFields
    <2> QED
      BY <2>1
  <1> QED
    BY <1>2, <1>3, <1>4

\* The paths that have a record keep it.
KeysKept(fold, fold2, recs, vol) ==
    \A p \in Paths :
        /\ KeyIn(fold2, vol, p) \in DOMAIN recs <=> KeyIn(fold, vol, p) \in DOMAIN recs
        /\ KeyIn(fold, vol, p) \in DOMAIN recs => KeyIn(fold2, vol, p) = KeyIn(fold, vol, p)

LEMMA GrownKeys ==
    ASSUME NEW fold, NEW fold2, NEW id, NEW vol, NEW parent, NEW name,
           Grown(fold, fold2, id, vol, parent, name),
           parent # id, \A i \in DOMAIN fold : fold[i].parent # id,
           NEW recs, \A k \in DOMAIN recs : k.table = "file" => k.owner \in DOMAIN fold
    PROVE  KeysKept(fold, fold2, recs, vol)
  <1> SUFFICES ASSUME NEW p \in Paths
               PROVE  /\ KeyIn(fold2, vol, p) \in DOMAIN recs <=> KeyIn(fold, vol, p) \in DOMAIN recs
                      /\ KeyIn(fold, vol, p) \in DOMAIN recs => KeyIn(fold2, vol, p) = KeyIn(fold, vol, p)
    BY DEF KeysKept
  <1>1. CASE p \in Special
    BY <1>1, KeyParts
  <1>2. CASE p \notin Special
    <2>1. /\ KeyIn(fold, vol, p) = FileKey(WalkIn(fold, vol, Front(p)), p)
          /\ KeyIn(fold2, vol, p) = FileKey(WalkIn(fold2, vol, Front(p)), p)
      BY <1>2, KeyParts
    <2>2. Front(p) \in Seq(STRING)
      BY PathParts
    <2>3. \/ WalkIn(fold2, vol, Front(p)) = WalkIn(fold, vol, Front(p))
          \/ WalkIn(fold, vol, Front(p)) = 0 /\ WalkIn(fold2, vol, Front(p)) = id
      BY <2>2, WalkGrows
    <2>4. 0 \notin DOMAIN fold /\ id \notin DOMAIN fold
      BY DEF Grown, Ids
    <2>5. ASSUME NEW i, i \notin DOMAIN fold PROVE FileKey(i, p) \notin DOMAIN recs
      BY <2>5, KeyFields
    <2> QED
      BY <2>1, <2>3, <2>4, <2>5
  <1> QED
    BY <1>1, <1>2

LEMMA ShrunkKeys ==
    ASSUME NEW fold, NEW fold2, Ids(fold), Unique(fold), NEW id \in DOMAIN fold,
           DOMAIN fold2 = DOMAIN fold \ {id}, \A i \in DOMAIN fold2 : fold2[i] = fold[i],
           \A i \in DOMAIN fold : fold[i].parent # id, NEW vol,
           NEW recs, \A k \in DOMAIN recs : k.table = "file" => k.owner \in DOMAIN fold2
    PROVE  KeysKept(fold, fold2, recs, vol)
  <1> SUFFICES ASSUME NEW p \in Paths
               PROVE  /\ KeyIn(fold2, vol, p) \in DOMAIN recs <=> KeyIn(fold, vol, p) \in DOMAIN recs
                      /\ KeyIn(fold, vol, p) \in DOMAIN recs => KeyIn(fold2, vol, p) = KeyIn(fold, vol, p)
    BY DEF KeysKept
  <1>1. CASE p \in Special
    BY <1>1, KeyParts
  <1>2. CASE p \notin Special
    <2>1. /\ KeyIn(fold, vol, p) = FileKey(WalkIn(fold, vol, Front(p)), p)
          /\ KeyIn(fold2, vol, p) = FileKey(WalkIn(fold2, vol, Front(p)), p)
      BY <1>2, KeyParts
    <2>2. Front(p) \in Seq(STRING)
      BY PathParts
    <2>3. \/ WalkIn(fold2, vol, Front(p)) = WalkIn(fold, vol, Front(p))
          \/ WalkIn(fold, vol, Front(p)) = id /\ WalkIn(fold2, vol, Front(p)) = 0
      BY <2>2, WalkShrinks
    <2>4. 0 \notin DOMAIN fold2 /\ id \notin DOMAIN fold2
      BY DEF Ids
    <2>5. ASSUME NEW i, i \notin DOMAIN fold2 PROVE FileKey(i, p) \notin DOMAIN recs
      BY <2>5, KeyFields
    <2> QED
      BY <2>1, <2>3, <2>4, <2>5
  <1> QED
    BY <1>1, <1>2

-----------------------------------------------------------------------------
(* The tables as a map *)

UniqueInv == Unique(folders)
LedgerInv == ledger \in [Paths -> Digests \cup {None, "absent"}]

MapTrue(fold, recs, vol, led) ==
    \A p \in Paths : IF KeyIn(fold, vol, p) \in DOMAIN recs THEN led[p] = recs[KeyIn(fold, vol, p)]
                                                            ELSE led[p] = "absent"
ObjectsOf(recs, vol) == \A k \in DOMAIN recs : k.table = "object" => k.owner = vol

\* A call on its way to a record has come along the path of its file, and brings a digest of its own or the one
\* stored.
OnItsWay(o, fold, vol) ==
    o.call.path \in Files =>
        \E pre \in Seq(STRING) : Front(o.call.path) = pre \o o.rest /\ WalkIn(fold, vol, pre) = o.at
Brings(o, fold, recs, vol) ==
    \/ o.digest = o.call.digest
    \/ /\ o.call.digest = None /\ KeyIn(fold, vol, o.call.path) \in DOMAIN recs
       /\ o.digest = recs[KeyIn(fold, vol, o.call.path)]
MapOp(o, fold, recs, vol) ==
    o.stage = "walk" /\ o.call.method \in Upserts \cup {"deleteFile"} =>
        OnItsWay(o, fold, vol) /\ Brings(o, fold, recs, vol)

MapInv ==
    /\ UniqueInv
    /\ LedgerInv
    /\ ~overlapped =>
        /\ MapTrue(folders, records, current, ledger)
        /\ ObjectsOf(records, current)
        /\ \A c \in Connections : MapOp(op[c], folders, records, current)

LEMMA MapTrueKept ==
    ASSUME NEW fold, NEW fold2, NEW recs, NEW vol, NEW led, KeysKept(fold, fold2, recs, vol),
           MapTrue(fold, recs, vol, led)
    PROVE  MapTrue(fold2, recs, vol, led)
  BY DEF KeysKept, MapTrue

LEMMA KeysSame ==
    ASSUME NEW fold, NEW recs, NEW vol
    PROVE  KeysKept(fold, fold, recs, vol)
  BY DEF KeysKept

\* A step of one connection.
LEMMA MapMoves ==
    ASSUME IInv, MapInv, NEW c \in Connections, NEW o, op' = [op EXCEPT ![c] = o], UniqueInv', LedgerInv',
           ~overlapped' =>
                /\ \A d \in Connections \ {c} : op[d].stage = "idle"
                /\ MapTrue(folders', records', current', ledger')
                /\ ObjectsOf(records', current')
                /\ MapOp(o, folders', records', current')
    PROVE  MapInv'
  <1>1. op'[c] = o /\ \A d \in Connections \ {c} : op'[d] = op[d]
    BY DEF IInv, OpsInv
  <1>2. ASSUME NEW d \in Connections, op[d].stage = "idle" PROVE MapOp(op[d], folders', records', current')
    BY <1>2 DEF MapOp
  <1>3. ~overlapped' => \A d \in Connections : MapOp(op'[d], folders', records', current')
    BY <1>1, <1>2
  <1> QED
    BY <1>3 DEF MapInv

\* A step that leaves folders and records as they are.
LEMMA MapStays ==
    ASSUME IInv, MapInv, NEW c \in Connections, op[c].stage # "idle", NEW o, op' = [op EXCEPT ![c] = o],
           UNCHANGED <<current, folders, records, ledger, overlapped>>, o.stage # "walk"
    PROVE  MapInv'
  <1>1. UniqueInv' /\ LedgerInv'
    BY DEF MapInv, UniqueInv, LedgerInv
  <1>2. ~overlapped' =>
            /\ \A d \in Connections \ {c} : op[d].stage = "idle"
            /\ MapTrue(folders', records', current', ledger') /\ ObjectsOf(records', current')
    BY Others DEF MapInv
  <1>3. MapOp(o, folders', records', current')
    BY DEF MapOp
  <1> QED
    BY <1>1, <1>2, <1>3, MapMoves

LEMMA WithRootMap ==
    ASSUME IInv, NEW call, Callable(call, DOMAIN folders), call.method # "extents", NEW vol, NEW root, NEW fold,
           call.path \in Files => root = RootIn(fold, vol),
           KeysKept(folders, fold, records, vol)
    PROVE  MapOp(WithRoot(call, vol, root), fold, records, vol)
  <1> DEFINE o == WithRoot(call, vol, root)
             p == call.path
             new == [Idle EXCEPT !.call = call, !.vol = vol, !.digest = call.digest]
             walk == [new EXCEPT !.stage = "walk", !.at = root, !.rest = Front(p)]
  <1> SUFFICES ASSUME o.stage = "walk", o.call.method \in Upserts \cup {"deleteFile"}
               PROVE  OnItsWay(o, fold, vol) /\ Brings(o, fold, records, vol)
    BY DEF MapOp
  <1>1. Idle.stage = "idle" /\ Idle.call.method = "none"
    BY DEF Idle, Call
  <1>2. call.method \in Methods /\ call.method # "extents"
    BY DEF Callable
  <1>3. \/ o = walk
        \/ call.digest = None /\ Found(vol, p) /\ o = [walk EXCEPT !.digest = Lookup(vol, p)]
        \/ call.method = "ensureFolder" /\ o.call = call
        \/ call.method = "deleteFolder" /\ o = Idle
        \/ call.method = "deleteFolder" /\ o.call = call
    <2>1. CASE call.method \in {"upsert", "known", "again", "deleteFile"}
      BY <1>1, <2>1 DEF WithRoot
    <2>2. CASE call.method = "bump"
      BY <2>2 DEF WithRoot
    <2>3. CASE call.method = "ensureFolder"
      BY <2>3 DEF WithRoot, Idle
    <2>4. CASE call.method = "deleteFolder"
      BY <2>4 DEF WithRoot, Idle
    <2> QED
      BY <1>2, <2>1, <2>2, <2>3, <2>4 DEF Methods, EngineMethods, Upserts
  <1>4. /\ o.call = call /\ o.rest = Front(p) /\ o.at = root
        /\ o.digest = call.digest \/ (call.digest = None /\ Found(vol, p) /\ o.digest = Lookup(vol, p))
    <2>1. walk.call = call /\ walk.rest = Front(p) /\ walk.at = root /\ walk.digest = call.digest
      BY DEF Idle
    <2>2. /\ [walk EXCEPT !.digest = Lookup(vol, p)].call = call
          /\ [walk EXCEPT !.digest = Lookup(vol, p)].rest = Front(p)
          /\ [walk EXCEPT !.digest = Lookup(vol, p)].at = root
          /\ [walk EXCEPT !.digest = Lookup(vol, p)].digest = Lookup(vol, p)
      BY DEF Idle
    <2> HIDE DEF walk, o
    <2> QED
      BY <1>1, <1>3, <2>1, <2>2 DEF Upserts
  <1> HIDE DEF o
  <1>5. p \in Paths
    BY <1>4 DEF Callable, Upserts
  <1>6. OnItsWay(o, fold, vol)
    <2> SUFFICES ASSUME p \in Files
                 PROVE  \E pre \in Seq(STRING) : Front(p) = pre \o o.rest /\ WalkIn(fold, vol, pre) = o.at
      BY <1>4 DEF OnItsWay
    <2>1. <<>> \in Seq(STRING) /\ Front(p) \in Seq(STRING)
      BY <1>5, PathParts, EmptySeq
    <2>2. Front(p) = <<>> \o o.rest
      BY <1>4, <2>1, ConcatEmptySeq
    <2> QED
      BY <1>4, <2>1, <2>2, WalkStart
  <1>7. Brings(o, fold, records, vol)
    BY <1>4, <1>5, KeyParts DEF Brings, Found, Lookup, KeysKept
  <1> QED
    BY <1>6, <1>7

LEMMA BeginMap ==
    ASSUME IInv, MapInv, NEW c \in Connections, NEW call, Callable(call, DOMAIN folders),
           Begin(c, call), ~unnoticed', UNCHANGED <<tables, ledger>>
    PROVE  MapInv'
  <1> DEFINE o == Started(call)
  <1>1. op' = [op EXCEPT ![c] = o] /\ UNCHANGED <<current, folders, records, ledger>>
    BY DEF Begin, Unnoticed, tables
  <1>2. ~overlapped' => ~overlapped /\ \A d \in Connections \ {c} : op[d].stage = "idle"
    BY DEF Begin
  <1>3. MapOp(o, folders, records, current)
    <2>1. CASE o.stage # "walk"
      BY <2>1 DEF MapOp
    <2>2. CASE o.stage = "walk"
      <3>1. call.method # "extents" /\ o = WithRoot(call, current, RootId(current))
        BY <2>2 DEF Started, Idle
      <3>2. RootId(current) = RootIn(folders, current)
        BY InTables
      <3> QED
        BY <3>1, <3>2, KeysSame, WithRootMap
    <2> QED
      BY <2>1, <2>2
  <1> HIDE DEF o
  <1>4. UniqueInv' /\ LedgerInv'
    BY <1>1 DEF MapInv, UniqueInv, LedgerInv
  <1> QED
    BY <1>1, <1>2, <1>3, <1>4, MapMoves DEF MapInv

-----------------------------------------------------------------------------
(* Folders and records under the statements *)

LEMMA NewFolderGrown ==
    ASSUME IInv, NEW vol \in 1..volumes, NEW parent, NEW name, NewFolder(vol, parent, name),
           FolderIn(folders, vol, parent, name) = 0
    PROVE  /\ Grown(folders, folders', NewId, vol, parent, name)
           /\ Unique(folders) => Unique(folders')
           /\ NewId \notin DOMAIN folders \cup {0}
           /\ Tree => \A i \in DOMAIN folders : folders[i].parent # NewId
           /\ Tree => \A k \in DOMAIN records : k.table = "file" => k.owner \in DOMAIN folders
  <1>1. TablesInv
    BY DEF IInv
  <1>2. /\ DOMAIN folders' = DOMAIN folders \cup {NewId}
        /\ \A i \in DOMAIN folders : i # NewId /\ i \in DOMAIN folders' /\ folders'[i] = folders[i]
        /\ DOMAIN folders' \subseteq Nat \ {0}
    BY <1>1, NewFolderStep
  <1>3. folders'[NewId] = Row(vol, parent, name)
    BY <1>1, NewFolderStep, Zenon DEF Row
  <1>4. NewId \in Nat \ {0} /\ NewId \notin DOMAIN folders
    BY <1>1, Fresh
  <1> DEFINE id == NewId
  <1> HIDE DEF id
  <1>5. Ids(folders) /\ Ids(folders')
    BY <1>1, <1>2 DEF TablesInv, Ids
  <1>6. Grown(folders, folders', id, vol, parent, name)
    BY <1>2, <1>3, <1>4, <1>5 DEF Grown, id
  <1>7. Unique(folders) => Unique(folders')
    <2> SUFFICES ASSUME Unique(folders), NEW i \in DOMAIN folders', NEW j \in DOMAIN folders',
                        folders'[i] = folders'[j]
                 PROVE  i = j
      BY DEF Unique
    <2>1. \A k \in DOMAIN folders : folders[k] # Row(vol, parent, name)
      BY <1>5, FolderInFound
    <2>2. CASE i = id \/ j = id
      BY <1>2, <1>3, <2>1, <2>2 DEF id
    <2>3. CASE i # id /\ j # id
      BY <1>2, <2>3 DEF Unique, id
    <2> QED
      BY <2>2, <2>3
  <1>8. Tree => \A i \in DOMAIN folders : folders[i].parent # id
    BY <1>4 DEF Tree, id
  <1>9. Tree => \A k \in DOMAIN records : k.table = "file" => k.owner \in DOMAIN folders
    BY DEF Tree, OrphanFiles
  <1> QED
    BY <1>4, <1>6, <1>7, <1>8, <1>9 DEF id

LEMMA SetCurrentMap == ASSUME IInv, MapInv, NEW c \in Connections, SetCurrent(c) PROVE MapInv'
  <1> DEFINE o == [op[c] EXCEPT !.stage = "root"]
  <1>1. op[c].stage = "meta" /\ op[c] \in Ops /\ op[c].vol # 0
    BY CallInProgress DEF SetCurrent, At, OpInv, IInv, TablesInv
  <1>2. op' = [op EXCEPT ![c] = o] /\ UNCHANGED <<folders, records, overlapped, ledger>>
    BY <1>1 DEF SetCurrent, Goes, history
  <1>3. UniqueInv' /\ LedgerInv'
    BY <1>2 DEF MapInv, UniqueInv, LedgerInv
  <1>4. o.stage = "root"
    BY <1>1 DEF Ops
  <1> HIDE DEF o
  <1>5. MapOp(o, folders', records', current')
    BY <1>4 DEF MapOp
  <1>6. ASSUME ~overlapped
        PROVE  /\ \A d \in Connections \ {c} : op[d].stage = "idle"
               /\ MapTrue(folders', records', current', ledger') /\ ObjectsOf(records', current')
    <2>1. /\ \A d \in Connections \ {c} : op[d].stage = "idle"
          /\ Tree /\ current = 0
      BY <1>1, <1>6, Others DEF WholeOp
    <2>2. DOMAIN folders = {}
      <3> SUFFICES ASSUME NEW i \in DOMAIN folders PROVE FALSE
        OBVIOUS
      <3>1. folders[i].vol \in 1..volumes /\ folders[i].vol = 0 /\ volumes \in Nat
        BY <2>1 DEF IInv, TablesInv, Tree
      <3> QED
        BY <3>1
    <2>3. ASSUME NEW p \in Paths, NEW vol PROVE KeyIn(folders, vol, p).table \in {"file", "object"}
      BY KeyParts, KeyFields
    <2>4. ASSUME NEW k \in DOMAIN records PROVE k.table \notin {"file", "object"}
      <3>1. k.table = "file" => k.owner \in DOMAIN folders
        BY <2>1 DEF Tree, OrphanFiles
      <3>2. k.table = "object" => k.owner = 0
        BY <1>6, <2>1 DEF MapInv, ObjectsOf
      <3>3. k.owner \in Nat \ {0}
        BY DEF IInv, TablesInv
      <3> QED
        BY <2>2, <3>1, <3>2, <3>3
    <2>5. ASSUME NEW p \in Paths, NEW vol PROVE KeyIn(folders, vol, p) \notin DOMAIN records
      BY <2>3, <2>4
    <2>6. ObjectsOf(records', current')
      BY <1>2, <2>4 DEF ObjectsOf
    <2>7. MapTrue(folders, records, current', ledger)
      BY <1>6, <2>5 DEF MapInv, MapTrue
    <2> QED
      BY <1>2, <2>1, <2>6, <2>7
  <1> QED
    BY <1>2, <1>3, <1>5, <1>6, MapMoves

LEMMA EnsureRootMap == ASSUME IInv, MapInv, NEW c \in Connections, EnsureRoot(c) PROVE MapInv'
  <1> DEFINE call == op[c].call
             vol == op[c].vol
             id == RootId(vol)
             root == IF id > 0 THEN id ELSE NewId
             o == WithRoot(call, vol, root)
  <1>1. op[c].stage = "root" /\ vol \in 1..volumes /\ OpInv(op[c], DOMAIN folders, volumes)
    BY CallInProgress DEF EnsureRoot, At, OpInv
  <1>2. op' = [op EXCEPT ![c] = o] /\ UNCHANGED <<current, records, overlapped, ledger>>
    BY DEF EnsureRoot, history
  <1>3. IF id > 0 THEN UNCHANGED folders ELSE NewFolder(vol, 0, "")
    BY DEF EnsureRoot
  <1>4. Callable(call, DOMAIN folders) /\ call.method # "extents"
    <2>1. call \in AllCalls /\ op[c].stage \in Preparing
      BY <1>1 DEF OpInv, Ops, Preparing
    <2> QED
      BY <1>1, <2>1 DEF OpInv, Callable, Preparing
  <1>5. id = RootIn(folders, vol) /\ Ids(folders)
    BY InTables DEF IInv, TablesInv, Ids
  <1>6. CASE id > 0
    <2>1. root = RootIn(folders, vol) /\ UNCHANGED folders
      BY <1>3, <1>5, <1>6
    <2> HIDE DEF root
    <2>2. MapOp(o, folders, records, vol)
      BY <1>4, <2>1, KeysSame, WithRootMap
    <2> HIDE DEF o
    <2>3. ~overlapped => vol = current /\ \A d \in Connections \ {c} : op[d].stage = "idle"
      BY <1>1, Others DEF WholeOp
    <2>4. UniqueInv' /\ LedgerInv'
      BY <1>2, <2>1 DEF MapInv, UniqueInv, LedgerInv
    <2> QED
      BY <1>2, <2>1, <2>2, <2>3, <2>4, MapMoves DEF MapInv
  <1>7. CASE ~(id > 0)
    <2>1. id = 0 \/ id \in DOMAIN folders
      BY FolderFound DEF RootId
    <2>2. id = 0
      BY <1>5, <1>7, <2>1 DEF Ids
    <2>3. PICK name : /\ NewFolder(vol, 0, name)
                      /\ RootIn(folders, vol) = FolderIn(folders, vol, 0, name)
                      /\ RootIn(folders', vol) = FolderIn(folders', vol, 0, name)
      <3>1. NewFolder(vol, 0, "")
        BY <1>3, <1>7
      <3> QED
        BY <3>1, Zenon DEF RootIn
    <2>4. /\ Grown(folders, folders', NewId, vol, 0, name)
          /\ Unique(folders) => Unique(folders')
          /\ NewId \notin DOMAIN folders \cup {0}
          /\ Tree => \A i \in DOMAIN folders : folders[i].parent # NewId
          /\ Tree => \A k \in DOMAIN records : k.table = "file" => k.owner \in DOMAIN folders
      <3>1. FolderIn(folders, vol, 0, name) = 0
        BY <1>5, <2>2, <2>3
      <3> QED
        BY <1>1, <2>3, <3>1, NewFolderGrown
    <2>5. root = NewId
      BY <1>7
    <2>6. RootIn(folders', vol) = root
      BY <2>3, <2>4, <2>5, FolderGrows
    <2> HIDE DEF root
    <2>7. ASSUME ~overlapped
          PROVE  /\ \A d \in Connections \ {c} : op[d].stage = "idle"
                 /\ MapTrue(folders', records', current', ledger')
                 /\ ObjectsOf(records', current')
                 /\ MapOp(o, folders', records', current')
      <3>1. /\ \A d \in Connections \ {c} : op[d].stage = "idle"
            /\ Tree /\ vol = current
        BY <1>1, <2>7, Others DEF WholeOp
      <3>2. KeysKept(folders, folders', records, vol)
        BY <2>4, <3>1, GrownKeys
      <3>3. MapOp(o, folders', records, vol)
        BY <1>4, <2>6, <3>2, WithRootMap
      <3>4. MapTrue(folders', records, vol, ledger) /\ ObjectsOf(records, vol)
        BY <2>7, <3>1, <3>2, MapTrueKept DEF MapInv
      <3> QED
        BY <1>2, <3>1, <3>3, <3>4
    <2> HIDE DEF o
    <2>8. UniqueInv' /\ LedgerInv'
      BY <1>2, <2>4 DEF MapInv, UniqueInv, LedgerInv
    <2> QED
      BY <1>2, <2>7, <2>8, MapMoves
  <1> QED
    BY <1>6, <1>7

LEMMA EnsureFolderMap == ASSUME IInv, MapInv, NEW c \in Connections, EnsureFolder(c) PROVE MapInv'
  <1> DEFINE call == op[c].call
             rest == op[c].rest
             at == op[c].at
             vol == op[c].vol
             name == Head(rest)
             id == FolderId(vol, at, name)
             new == IF id > 0 THEN id ELSE NewId
             walks == [op[c] EXCEPT !.rest = Tail(rest), !.at = new]
             o == IF call.method = "ensureFolder" THEN Idle ELSE walks
  <1>1. /\ op[c].stage = "walk" /\ rest # <<>> /\ rest \in Seq(STRING) /\ op[c] \in Ops
        /\ OpInv(op[c], DOMAIN folders, volumes)
    BY CallInProgress DEF EnsureFolder, At, Ops
  <1>2. op' = [op EXCEPT ![c] = o] /\ UNCHANGED <<current, records, overlapped, ledger>>
    BY DEF EnsureFolder, history
  <1>3. vol \in 1..volumes /\ at \in Nat \ {0} /\ call.path \notin Special
    BY <1>1 DEF OpInv, Ops
  <1>4. IF id > 0 THEN UNCHANGED folders ELSE NewFolder(vol, at, name)
    BY DEF EnsureFolder
  <1>5. id = FolderIn(folders, vol, at, name) /\ Ids(folders)
    BY InTables DEF IInv, TablesInv, Ids
  <1>6. name \in STRING /\ Tail(rest) \in Seq(STRING)
    BY <1>1, HeadTailProperties
  <1>7. id = 0 \/ id \in DOMAIN folders
    BY FolderFound
  <1>8. /\ id > 0 => id \in DOMAIN folders
        /\ ~(id > 0) => id = 0
    BY <1>5, <1>7 DEF Ids
  <1>9. ~overlapped => /\ \A d \in Connections \ {c} : op[d].stage = "idle"
                       /\ Tree /\ vol = current
                       /\ at \in DOMAIN folders
    BY <1>1, <1>3, Others DEF WholeOp
  <1> HIDE DEF id
  <1>10. /\ FolderIn(folders', vol, at, name) = new
         /\ Unique(folders')
         /\ ~overlapped => KeysKept(folders, folders', records, vol)
         /\ ~overlapped => \A p \in Seq(STRING) : WalkIn(folders, vol, p) # 0 =>
                                WalkIn(folders', vol, p) = WalkIn(folders, vol, p)
    <2>1. CASE id > 0
      BY <1>4, <1>5, <2>1, KeysSame DEF MapInv, UniqueInv
    <2>2. CASE ~(id > 0)
      <3>1. /\ Grown(folders, folders', NewId, vol, at, name)
            /\ Unique(folders) => Unique(folders')
            /\ NewId \notin DOMAIN folders \cup {0}
            /\ Tree => \A i \in DOMAIN folders : folders[i].parent # NewId
            /\ Tree => \A k \in DOMAIN records : k.table = "file" => k.owner \in DOMAIN folders
        <4>1. FolderIn(folders, vol, at, name) = 0 /\ NewFolder(vol, at, name)
          BY <1>4, <1>5, <1>8, <2>2
        <4> HIDE DEF vol, at, name
        <4> QED
          BY <1>3, <4>1, NewFolderGrown
      <3>2. new = NewId
        BY <2>2
      <3> HIDE DEF new, vol, at, name
      <3>3. FolderIn(folders', vol, at, name) = new
        BY <3>1, <3>2, FolderGrows
      <3>4. ~overlapped => KeysKept(folders, folders', records, vol)
        BY <1>9, <3>1, GrownKeys
      <3>5. ASSUME ~overlapped, NEW p \in Seq(STRING), WalkIn(folders, vol, p) # 0
            PROVE  WalkIn(folders', vol, p) = WalkIn(folders, vol, p)
        BY <1>9, <3>1, <3>5, WalkGrows
      <3> QED
        BY <3>1, <3>3, <3>4, <3>5 DEF MapInv, UniqueInv
    <2> QED
      BY <2>1, <2>2
  <1> HIDE DEF new
  <1>11. walks.call = call /\ walks.rest = Tail(rest) /\ walks.at = new /\ walks.digest = op[c].digest
         /\ walks.stage = "walk"
    BY <1>1 DEF Ops
  <1> HIDE DEF walks
  <1>12. ASSUME ~overlapped PROVE MapOp(walks, folders', records, vol)
    <2> SUFFICES ASSUME call.method \in Upserts \cup {"deleteFile"}
                 PROVE  OnItsWay(walks, folders', vol) /\ Brings(walks, folders', records, vol)
      BY <1>11 DEF MapOp
    <2>1. OnItsWay(op[c], folders, vol) /\ Brings(op[c], folders, records, vol)
      BY <1>1, <1>9, <1>12 DEF MapInv, MapOp
    <2>2. call.path \in Paths
      BY <1>1 DEF OpInv, Methods, EngineMethods, Upserts
    <2>3. call.path \in Files
      BY <1>3, <2>2, KeyParts
    <2>4. PICK pre \in Seq(STRING) : Front(call.path) = pre \o rest /\ WalkIn(folders, vol, pre) = at
      BY <2>1, <2>3 DEF OnItsWay
    <2>5. WalkIn(folders', vol, Append(pre, name)) = new
      <3>1. WalkIn(folders', vol, pre) = at
        BY <1>3, <1>10, <1>12, <2>4
      <3>2. WalkIn(folders', vol, Append(pre, name)) = StepIn(folders', vol, at, name)
        <4>1. \A fold : WalkIn(fold, vol, Append(pre, name)) = StepIn(fold, vol, WalkIn(fold, vol, pre), name)
          <5> HIDE DEF name, vol
          <5> QED
            BY <1>6, WalkOn
        <4> QED
          BY <3>1, <4>1
      <3> QED
        BY <1>3, <1>10, <3>2 DEF StepIn
    <2>6. Append(pre, name) \in Seq(STRING) /\ Front(call.path) = Append(pre, name) \o Tail(rest)
      <3>1. Append(pre, name) \in Seq(STRING) /\ Append(pre, name) = pre \o <<name>>
        BY <1>6, AppendProperties, AppendIsConcat
      <3>2. <<name>> \in Seq(STRING)
        BY <1>6
      <3>3. rest = <<name>> \o Tail(rest)
        <4>1. Len(rest) \in Nat \ {0} /\ Len(Tail(rest)) = Len(rest) - 1
              /\ \A i \in 1..Len(Tail(rest)) : Tail(rest)[i] = rest[i + 1]
          BY <1>1, EmptySeq, HeadTailProperties
        <4>2. <<name>> \o Tail(rest) \in Seq(STRING) /\ Len(<<name>> \o Tail(rest)) = 1 + Len(Tail(rest))
              /\ \A i \in 1..(1 + Len(Tail(rest))) :
                    (<<name>> \o Tail(rest))[i] = IF i <= 1 THEN <<name>>[i] ELSE Tail(rest)[i - 1]
          <5>1. Len(<<name>>) = 1
            OBVIOUS
          <5> HIDE DEF name, rest
          <5> QED
            BY <1>6, <3>2, <5>1, ConcatProperties
        <4>3. rest[1] = name
          BY <1>1
        <4>4. <<name>>[1] = name
          OBVIOUS
        <4> DEFINE t == Tail(rest)
                   u == <<name>> \o t
        <4> HIDE DEF t, u, name
        <4>5. Len(rest) = Len(u) /\ u \in Seq(STRING)
          BY <4>1, <4>2 DEF t, u
        <4>6. ASSUME NEW i \in 1..Len(rest) PROVE rest[i] = u[i]
          <5>1. CASE i = 1
            BY <4>1, <4>2, <4>3, <4>4, <5>1 DEF t, u
          <5>2. CASE i \in 2..Len(rest)
            <6>1. i - 1 \in 1..Len(t) /\ i \in 1..(1 + Len(t)) /\ ~(i <= 1) /\ (i - 1) + 1 = i
              BY <4>1, <5>2 DEF t
            <6>2. u[i] = t[i - 1]
              BY <4>2, <6>1 DEF t, u
            <6>3. t[i - 1] = rest[(i - 1) + 1]
              BY <4>1, <6>1 DEF t
            <6> QED
              BY <6>1, <6>2, <6>3
          <5> QED
            BY <4>1, <5>1, <5>2
        <4>7. rest = u
          BY <1>1, <4>5, <4>6, SeqEqual
        <4> QED
          BY <4>7 DEF u, t
      <3>4. pre \o (<<name>> \o Tail(rest)) = (pre \o <<name>>) \o Tail(rest)
        <4> HIDE DEF name, rest
        <4> QED
          BY <1>6, <2>4, <3>2, ConcatAssociative
      <3> HIDE DEF name, rest
      <3> QED
        BY <2>4, <3>1, <3>3, <3>4
    <2>7. OnItsWay(walks, folders', vol)
      <3> HIDE DEF name, rest, call
      <3> QED
        BY <1>11, <2>5, <2>6 DEF OnItsWay
    <2>8. Brings(walks, folders', records, vol)
      <3>1. /\ KeyIn(folders', vol, call.path) \in DOMAIN records <=> KeyIn(folders, vol, call.path) \in DOMAIN records
            /\ KeyIn(folders, vol, call.path) \in DOMAIN records =>
                    KeyIn(folders', vol, call.path) = KeyIn(folders, vol, call.path)
        BY <1>10, <1>12, <2>2 DEF KeysKept
      <3> QED
        BY <1>11, <2>1, <3>1 DEF Brings
    <2> QED
      BY <2>7, <2>8
  <1>13. Idle.stage = "idle"
    BY DEF Idle
  <1>14. ASSUME ~overlapped
         PROVE  /\ \A d \in Connections \ {c} : op[d].stage = "idle"
                /\ MapTrue(folders', records', current', ledger')
                /\ ObjectsOf(records', current')
                /\ MapOp(o, folders', records', current')
    <2>1. MapTrue(folders', records, vol, ledger) /\ ObjectsOf(records, vol)
      BY <1>9, <1>10, <1>14, MapTrueKept DEF MapInv
    <2>2. MapOp(o, folders', records, vol)
      BY <1>12, <1>13, <1>14 DEF MapOp
    <2> QED
      BY <1>2, <1>9, <1>14, <2>1, <2>2
  <1> HIDE DEF o
  <1>15. UniqueInv' /\ LedgerInv'
    BY <1>2, <1>10 DEF MapInv, UniqueInv, LedgerInv
  <1> QED
    BY <1>2, <1>14, <1>15, MapMoves

\* The call stands at the record of its path.
LEMMA AtRecord ==
    ASSUME IInv, MapInv, NEW c \in Connections, op[c].stage = "walk", op[c].rest = <<>>, ~overlapped,
           op[c].call.method \in Upserts \cup {"deleteFile"}
    PROVE  /\ op[c].call.path \in Paths /\ Ids(folders)
           /\ KeyAt(op[c].vol, op[c].at, op[c].call.path) = KeyIn(folders, current, op[c].call.path)
           /\ KeyIn(folders, current, op[c].call.path).owner # 0
           /\ Brings(op[c], folders, records, current)
           /\ \A q \in Paths : KeyIn(folders, current, q) = KeyIn(folders, current, op[c].call.path) =>
                q = op[c].call.path
  <1> DEFINE p == op[c].call.path
             vol == op[c].vol
             at == op[c].at
  <1>1. /\ OpInv(op[c], DOMAIN folders, volumes) /\ op[c] \in Ops
        /\ OnItsWay(op[c], folders, current) /\ Brings(op[c], folders, records, current)
    BY CallInProgress DEF MapInv, MapOp
  <1>2. vol = current /\ vol \in 1..volumes /\ (at > 0 \/ p \in Special) /\ at \in Nat
    BY <1>1, Others DEF WholeOp, OpInv, Ops
  <1>3. p \in Paths /\ Ids(folders)
    BY <1>1 DEF OpInv, Methods, EngineMethods, Upserts, IInv, TablesInv, Ids
  <1>4. KeyAt(vol, at, p) = KeyIn(folders, current, p) /\ KeyIn(folders, current, p).owner # 0
    <2>1. CASE p \in Special
      <3>1. KeyAt(vol, at, p) = ObjectKey(vol, p) /\ KeyIn(folders, current, p) = ObjectKey(current, p)
        BY <1>3, <2>1, KeyParts DEF KeyAt
      <3> QED
        BY <1>2, <3>1, KeyFields
    <2>2. CASE p \notin Special
      <3>1. /\ KeyAt(vol, at, p) = FileKey(at, p)
            /\ KeyIn(folders, current, p) = FileKey(WalkIn(folders, current, Front(p)), p)
        BY <1>3, <2>2, KeyParts DEF KeyAt
      <3>2. p \in Files
        BY <1>3, <2>2, KeyParts
      <3>3. PICK pre \in Seq(STRING) : Front(p) = pre \o op[c].rest /\ WalkIn(folders, current, pre) = at
        BY <1>1, <3>2 DEF OnItsWay
      <3>4. Front(p) = pre
        BY <3>3, ConcatEmptySeq
      <3> QED
        BY <1>2, <2>2, <3>1, <3>3, <3>4, KeyFields
    <2> QED
      BY <2>1, <2>2
  <1>5. \A q \in Paths : KeyIn(folders, current, q) = KeyIn(folders, current, p) => q = p
    BY <1>3, <1>4, KeysApart
  <1> QED
    BY <1>1, <1>3, <1>4, <1>5

LEMMA UpsertMap == ASSUME IInv, MapInv, NEW c \in Connections, Upsert(c) PROVE MapInv'
  <1> DEFINE p == op[c].call.path
             key == KeyAt(op[c].vol, op[c].at, p)
             old == IF key \in DOMAIN records THEN records[key] ELSE None
             new == op[c].call.digest
             stored == Coalesced(op[c].digest, old)
  <1>1. /\ op[c].stage = "walk" /\ op[c].rest = <<>> /\ op[c].call.method \in Upserts
        /\ op' = [op EXCEPT ![c] = Idle] /\ UNCHANGED <<current, folders, overlapped>>
    BY DEF Upsert, At, Ends
  <1>2. records' = [k \in DOMAIN records \cup {key} |-> IF k = key THEN stored ELSE records[k]]
    BY DEF Upsert
  <1>3. ledger' = [ledger EXCEPT ![p] = IF new # None \/ @ = "absent" THEN new ELSE @]
    BY DEF Upsert
  <1>4. new \in Digests \cup {None}
    BY CallInProgress DEF Ops, AllCalls
  <1>5. UniqueInv' /\ LedgerInv'
    <2>1. UniqueInv'
      BY <1>1 DEF MapInv, UniqueInv
    <2>2. LedgerInv'
      BY <1>3, <1>4 DEF MapInv, LedgerInv
    <2> QED
      BY <2>1, <2>2
  <1>6. MapOp(Idle, folders', records', current')
    BY DEF MapOp, Idle
  <1>7. ASSUME ~overlapped
        PROVE  /\ \A d \in Connections \ {c} : op[d].stage = "idle"
               /\ MapTrue(folders, records', current, ledger')
               /\ ObjectsOf(records', current)
    <2>1. /\ p \in Paths
          /\ key = KeyIn(folders, current, p)
          /\ \A q \in Paths : KeyIn(folders, current, q) = key => q = p
          /\ Brings(op[c], folders, records, current)
      <3> HIDE DEF key, p
      <3> QED
        BY <1>1, <1>7, AtRecord DEF key, p
    <2>2. (\A d \in Connections \ {c} : op[d].stage = "idle") /\ op[c].vol = current
      BY <1>1, <1>7, Others DEF WholeOp
    <2>3. MapTrue(folders, records, current, ledger) /\ ObjectsOf(records, current)
      BY <1>7 DEF MapInv
    <2>4. key.table = "object" => key.owner = current
      BY <2>2, KeyFields DEF KeyAt
    <2> HIDE DEF key
    <2>5. ObjectsOf(records', current)
      <3> HIDE DEF stored
      <3> QED
        BY <1>2, <2>3, <2>4 DEF ObjectsOf
    <2>6. IF key \in DOMAIN records THEN ledger[p] = records[key] ELSE ledger[p] = "absent"
      BY <2>1, <2>3 DEF MapTrue
    <2>7. key \in DOMAIN records => records[key] \in Digests \cup {None} /\ records[key] # "absent"
      BY CatalogAssumption DEF IInv, TablesInv, None
    <2>8. op[c].digest = new \/ (new = None /\ key \in DOMAIN records /\ op[c].digest = records[key])
      BY <2>1 DEF Brings
    <2>9. records'[key] = stored /\ ledger'[p] = IF new # None \/ ledger[p] = "absent" THEN new ELSE ledger[p]
      BY <1>2, <1>3, <2>1 DEF MapInv, LedgerInv
    <2>10. ledger'[p] = records'[key] /\ key \in DOMAIN records'
      <3>1. key \in DOMAIN records'
        BY <1>2
      <3>2. CASE key \in DOMAIN records
        <4>1. stored = (IF op[c].digest = None THEN records[key] ELSE op[c].digest)
          BY <3>2 DEF Coalesced
        <4>2. ledger[p] = records[key] /\ ledger[p] # "absent"
          BY <2>6, <2>7, <3>2
        <4> HIDE DEF stored, new, p
        <4>3. ledger'[p] = IF new # None THEN new ELSE records[key]
          BY <2>9, <4>2
        <4>4. stored = IF new # None THEN new ELSE records[key]
          BY <2>8, <4>1
        <4> QED
          BY <2>9, <3>1, <4>3, <4>4
      <3>3. CASE key \notin DOMAIN records
        <4>1. stored = (IF op[c].digest = None THEN None ELSE op[c].digest)
          BY <3>3 DEF Coalesced
        <4> HIDE DEF stored, new, p
        <4>2. stored = new /\ ledger'[p] = new
          BY <2>6, <2>8, <2>9, <3>3, <4>1
        <4> QED
          BY <2>9, <3>1, <4>2
      <3> QED
        BY <3>1, <3>2, <3>3
    <2>11. ASSUME NEW q \in Paths, q # p
           PROVE  /\ KeyIn(folders, current, q) \in DOMAIN records' <=> KeyIn(folders, current, q) \in DOMAIN records
                  /\ KeyIn(folders, current, q) \in DOMAIN records =>
                        records'[KeyIn(folders, current, q)] = records[KeyIn(folders, current, q)]
                  /\ ledger'[q] = ledger[q]
      <3>1. KeyIn(folders, current, q) # key
        BY <2>1, <2>11
      <3>2. ledger'[q] = ledger[q]
        BY <1>3, <2>11 DEF MapInv, LedgerInv
      <3> HIDE DEF stored
      <3> QED
        BY <1>2, <3>1, <3>2
    <2>12. MapTrue(folders, records', current, ledger')
      <3> SUFFICES ASSUME NEW q \in Paths
                   PROVE  IF KeyIn(folders, current, q) \in DOMAIN records'
                          THEN ledger'[q] = records'[KeyIn(folders, current, q)] ELSE ledger'[q] = "absent"
        BY DEF MapTrue
      <3>1. CASE q = p
        BY <2>1, <2>10, <3>1
      <3>2. CASE q # p
        BY <2>3, <2>11, <3>2 DEF MapTrue
      <3> QED
        BY <3>1, <3>2
    <2> QED
      BY <2>2, <2>5, <2>12
  <1> QED
    BY <1>1, <1>5, <1>6, <1>7, MapMoves

\* Records are removed, and their paths from the ledger.
LEMMA RemovesMap ==
    ASSUME IInv, MapInv, NEW c \in Connections, op[c].stage # "idle", NEW o, op' = [op EXCEPT ![c] = o],
           o.stage # "walk", UNCHANGED <<current, folders, overlapped>>,
           DOMAIN records' \subseteq DOMAIN records, \A k \in DOMAIN records' : records'[k] = records[k],
           LedgerInv',
           ~overlapped => \A p \in Paths :
                \/ KeyIn(folders, current, p) \notin DOMAIN records' /\ ledger'[p] = "absent"
                \/ /\ ledger'[p] = ledger[p]
                   /\ KeyIn(folders, current, p) \in DOMAIN records =>
                            KeyIn(folders, current, p) \in DOMAIN records'
    PROVE  MapInv'
  <1>1. UniqueInv'
    BY DEF MapInv, UniqueInv
  <1>2. ASSUME ~overlapped
        PROVE  /\ \A d \in Connections \ {c} : op[d].stage = "idle"
               /\ MapTrue(folders, records', current, ledger')
               /\ ObjectsOf(records', current)
    <2>1. \A d \in Connections \ {c} : op[d].stage = "idle"
      BY <1>2, Others
    <2>2. MapTrue(folders, records, current, ledger) /\ ObjectsOf(records, current)
      BY <1>2 DEF MapInv
    <2>3. ObjectsOf(records', current)
      BY <2>2 DEF ObjectsOf
    <2>4. MapTrue(folders, records', current, ledger')
      BY <1>2, <2>2 DEF MapTrue
    <2> QED
      BY <2>1, <2>3, <2>4
  <1>3. MapOp(o, folders', records', current')
    BY DEF MapOp
  <1> QED
    BY <1>1, <1>2, <1>3, MapMoves

LEMMA DeleteFileMap == ASSUME IInv, MapInv, NEW c \in Connections, DeleteFile(c) PROVE MapInv'
  <1> DEFINE p == op[c].call.path
             key == KeyAt(op[c].vol, op[c].at, p)
             o == [op[c] EXCEPT !.stage = "clear"]
  <1>1. /\ op[c].stage = "walk" /\ op[c].rest = <<>> /\ op[c].call.method = "deleteFile"
        /\ op' = [op EXCEPT ![c] = o] /\ UNCHANGED <<current, folders, overlapped>>
    BY NeverRemoves DEF DeleteFile, At, ThenExtents, Goes
  <1>2. records' = [k \in DOMAIN records \ {key} |-> records[k]] /\ ledger' = [ledger EXCEPT ![p] = "absent"]
    BY DEF DeleteFile
  <1>3. o.stage = "clear"
    BY CallInProgress DEF Ops
  <1>4. LedgerInv'
    BY <1>2 DEF MapInv, LedgerInv
  <1>5. ASSUME ~overlapped, NEW q \in Paths
        PROVE  \/ KeyIn(folders, current, q) \notin DOMAIN records' /\ ledger'[q] = "absent"
               \/ /\ ledger'[q] = ledger[q]
                  /\ KeyIn(folders, current, q) \in DOMAIN records => KeyIn(folders, current, q) \in DOMAIN records'
    <2>1. p \in Paths /\ key = KeyIn(folders, current, p) /\ \A r \in Paths : KeyIn(folders, current, r) = key => r = p
      <3> HIDE DEF key, p
      <3> QED
        BY <1>1, <1>5, AtRecord DEF key, p
    <2> HIDE DEF key, p
    <2>2. CASE q = p
      BY <1>2, <2>1, <2>2 DEF MapInv, LedgerInv
    <2>3. CASE q # p
      BY <1>2, <2>1, <2>3 DEF MapInv, LedgerInv
    <2> QED
      BY <2>2, <2>3
  <1> HIDE DEF key, o
  <1>6. DOMAIN records' \subseteq DOMAIN records /\ \A k \in DOMAIN records' : records'[k] = records[k]
    BY <1>2
  <1> QED
    BY <1>1, <1>3, <1>4, <1>5, <1>6, RemovesMap

LEMMA DeleteFilesMap == ASSUME IInv, MapInv, NEW c \in Connections, DeleteFiles(c) PROVE MapInv'
  <1> DEFINE id == Top(c).id
             o == [op[c] EXCEPT !.stage = "row"]
  <1>1. op[c].stage = "child" /\ op' = [op EXCEPT ![c] = o] /\ UNCHANGED <<current, folders, overlapped>>
    BY DEF DeleteFiles, DeleteFilesOf, At, Goes
  <1>2. /\ records' = [k \in {l \in DOMAIN records : l.table # "file" \/ l.owner # id} |-> records[k]]
        /\ ledger' = [p \in Paths |-> IF p \in Files /\ Walk(current, Front(p)) = id THEN "absent" ELSE ledger[p]]
    BY DEF DeleteFiles, DeleteFilesOf
  <1>3. o.stage = "row"
    BY CallInProgress DEF Ops
  <1> HIDE DEF id, o
  <1>4. LedgerInv'
    BY <1>2 DEF MapInv, LedgerInv
  <1>5. ASSUME NEW q \in Paths
        PROVE  \/ KeyIn(folders, current, q) \notin DOMAIN records' /\ ledger'[q] = "absent"
               \/ /\ ledger'[q] = ledger[q]
                  /\ KeyIn(folders, current, q) \in DOMAIN records => KeyIn(folders, current, q) \in DOMAIN records'
    <2> DEFINE key == KeyIn(folders, current, q)
    <2>1. Walk(current, Front(q)) = WalkIn(folders, current, Front(q))
      BY InTables
    <2>2. /\ key.table = "file" <=> q \in Files
          /\ q \in Files => key.owner = WalkIn(folders, current, Front(q))
      BY KeyParts, KeyFields
    <2> HIDE DEF key
    <2> QED
      BY <1>2, <2>1, <2>2 DEF key
  <1>6. DOMAIN records' \subseteq DOMAIN records /\ \A k \in DOMAIN records' : records'[k] = records[k]
    BY <1>2
  <1> QED
    BY <1>1, <1>3, <1>4, <1>5, <1>6, RemovesMap

LEMMA DeleteFolderMap == ASSUME IInv, MapInv, NEW c \in Connections, DeleteFolder(c) PROVE MapInv'
  <1> DEFINE fr == op[c].frames
             t == Len(fr)
             id == fr[t].id
             pops == [op[c] EXCEPT !.stage = "child", !.frames = Front(fr)]
             o == IF t = 1 THEN Idle ELSE pops
  <1>1. op[c].stage = "row" /\ Top(c) = Last(fr)
    BY DEF DeleteFolder, At, Top
  <1>2. /\ c = "window" /\ op[c] \in Ops /\ RecursionOf(op[c], folders)
        /\ fr \in Seq(Frames) /\ fr # <<>>
    BY <1>1, CallInProgress DEF Deleting
  <1>3. op' = [op EXCEPT ![c] = o] /\ UNCHANGED <<current, records, overlapped, ledger>>
    BY DEF DeleteFolder, DeleteRowOf
  <1>4. t \in Nat \ {0} /\ Last(fr) = fr[t] /\ DOMAIN fr = 1..t
    BY <1>2, FrontOf
  <1>5. DOMAIN folders' = DOMAIN folders \ {id} /\ \A i \in DOMAIN folders' : folders'[i] = folders[i]
    BY <1>1, <1>4 DEF DeleteFolder, DeleteRowOf
  <1>6. fr[t].kids = {} /\ id \in DOMAIN folders
    <2>1. fr[t].kids = {}
      BY <1>1, <1>2, <1>4 DEF RecursionOf
    <2>2. \A n \in DOMAIN fr : fr[n].id \in DOMAIN folders
      BY <1>2 DEF RecursionOf, Recursion
    <2> QED
      BY <1>4, <2>1, <2>2
  <1>7. o.stage # "walk"
    BY <1>2 DEF Ops, Idle
  <1> HIDE DEF o, id
  <1>8. UniqueInv' /\ LedgerInv'
    BY <1>3, <1>5 DEF MapInv, UniqueInv, Unique, LedgerInv
  <1>9. ASSUME ~overlapped
        PROVE  /\ \A d \in Connections \ {c} : op[d].stage = "idle"
               /\ MapTrue(folders', records, current, ledger)
               /\ ObjectsOf(records, current)
    <2>1. (\A d \in Connections \ {c} : op[d].stage = "idle") /\ Tree /\ WholeOp(op[c], current, folders, records)
      BY <1>1, <1>9, Others
    <2>2. AllChildren(folders, fr)
      BY <2>1 DEF WholeOp
    <2>3. \A k \in DOMAIN records : k.table = "file" => k.owner \in DOMAIN folders'
      BY <1>1, <1>4, <1>5, <2>1 DEF WholeOp, Tree, OrphanFiles, id
    <2>4. ASSUME NEW i \in DOMAIN folders PROVE folders[i].parent # id
      <3>1. t \in DOMAIN fr /\ ~(t < Len(fr)) /\ i \notin fr[t].kids
        BY <1>4, <1>6
      <3> QED
        BY <2>2, <3>1 DEF AllChildren, id
    <2>5. Ids(folders) /\ Unique(folders)
      BY DEF IInv, TablesInv, Ids, MapInv, UniqueInv
    <2>6. KeysKept(folders, folders', records, current)
      BY <1>5, <1>6, <2>3, <2>4, <2>5, ShrunkKeys
    <2> QED
      BY <1>9, <2>1, <2>6, MapTrueKept DEF MapInv
  <1>10. MapOp(o, folders', records', current')
    BY <1>7 DEF MapOp
  <1> QED
    BY <1>3, <1>8, <1>9, <1>10, MapMoves

\* Statements that change neither folders nor records.
LEMMA OthersMap ==
    ASSUME IInv, MapInv, NEW c \in Connections,
           InsertVolume(c) \/ ClearExtents(c) \/ InsertExtent(c) \/ DeleteChild(c) \/ StatementFails(c)
    PROVE  MapInv'
  <1>1. op[c] \in Ops /\ op[c].stage # "idle" /\ UNCHANGED <<current, folders, records, ledger, overlapped>>
    BY CallInProgress DEF InsertVolume, ClearExtents, InsertExtent, DeleteChild, StatementFails, At, tables, history
  <1>2. \E o : op' = [op EXCEPT ![c] = o] /\ o.stage # "walk"
    <2>1. Idle.stage # "walk"
      BY DEF Idle
    <2>2. CASE InsertVolume(c)
      <3> WITNESS [op[c] EXCEPT !.stage = "meta", !.vol = volumes + 1]
      <3> QED
        BY <1>1, <2>2 DEF InsertVolume, Ops
    <2>3. CASE ClearExtents(c)
      <3> WITNESS [op[c] EXCEPT !.stage = "extents"]
      <3> QED
        BY <1>1, <2>3 DEF ClearExtents, Goes, Ops
    <2>4. CASE InsertExtent(c) /\ op[c].exts = {}
      BY <2>1, <2>4 DEF InsertExtent, Ends
    <2>5. CASE InsertExtent(c) /\ op[c].exts # {}
      <3>1. PICK e \in op[c].exts : op' = [op EXCEPT ![c].exts = @ \ {e}]
        BY <2>5 DEF InsertExtent
      <3> WITNESS [op[c] EXCEPT !.exts = @ \ {e}]
      <3> QED
        BY <1>1, <2>5, <3>1 DEF InsertExtent, At, Ops
    <2>6. CASE DeleteChild(c)
      <3>1. PICK fr : op' = [op EXCEPT ![c].frames = fr]
        BY <2>6 DEF DeleteChild
      <3> WITNESS [op[c] EXCEPT !.frames = fr]
      <3> QED
        BY <1>1, <2>6, <3>1 DEF DeleteChild, At, Ops
    <2>7. CASE StatementFails(c)
      <3>1. Ends(c) \/ ThenExtents(c)
        BY <2>7 DEF StatementFails, GiveUp
      <3>2. CASE Ends(c)
        BY <2>1, <3>2 DEF Ends
      <3>3. CASE ThenExtents(c)
        <4> WITNESS [op[c] EXCEPT !.stage = "clear"]
        <4> QED
          BY <1>1, <3>3 DEF ThenExtents, Goes, Ops
      <3> QED
        BY <3>1, <3>2, <3>3
    <2> QED
      BY <2>2, <2>3, <2>4, <2>5, <2>6, <2>7
  <1> QED
    BY <1>1, <1>2, MapStays

LEMMA CrashMap == ASSUME IInv, MapInv, Crash PROVE MapInv'
  <1>1. op' = [c \in Connections |-> Idle] /\ UNCHANGED <<current, folders, records, ledger, overlapped>>
    BY DEF Crash, tables, history
  <1>2. UniqueInv' /\ LedgerInv'
    BY <1>1 DEF MapInv, UniqueInv, LedgerInv
  <1>3. \A c \in Connections : MapOp(op'[c], folders, records, current)
    BY <1>1 DEF MapOp, Idle
  <1> QED
    BY <1>1, <1>2, <1>3 DEF MapInv

LEMMA InitMap == Init => MapInv
  <1> SUFFICES ASSUME Init PROVE MapInv
    OBVIOUS
  <1>1. op = [c \in Connections |-> Idle] /\ ledger = [p \in Paths |-> "absent"] /\ DOMAIN records = {}
    <2>1. records = <<>>
      BY DEF Init
    <2>2. DOMAIN <<>> = {}
      OBVIOUS
    <2> QED
      BY <2>1, <2>2 DEF Init
  <1>2. DOMAIN folders \in {{}, {1}}
    <2>1. folders = <<>> \/ \E row : folders = <<row>>
      BY Zenon DEF Init
    <2> QED
      BY <2>1
  <1>3. UniqueInv
    BY <1>2 DEF UniqueInv, Unique
  <1>4. LedgerInv
    BY <1>1 DEF LedgerInv
  <1>5. MapTrue(folders, records, current, ledger) /\ ObjectsOf(records, current)
    BY <1>1 DEF MapTrue, ObjectsOf
  <1>6. \A c \in Connections : MapOp(op[c], folders, records, current)
    BY <1>1 DEF MapOp, Idle
  <1> QED
    BY <1>3, <1>4, <1>5, <1>6 DEF MapInv

LEMMA NextMap == ASSUME IInv, MapInv, [Next]_vars, ~unnoticed' PROVE MapInv'
  <1>1. CASE StartRun
    BY <1>1 DEF StartRun, tables, MapInv, UniqueInv, LedgerInv
  <1>2. CASE EngineCall
    BY <1>2, EngineCallBegins, BeginMap DEF Connections
  <1>3. CASE BrowserCall
    BY <1>3, BrowserCallBegins, BeginMap DEF Connections
  <1>4. CASE Crash
    BY <1>4, CrashMap
  <1>5. ASSUME NEW c \in Connections, Statement(c) PROVE MapInv'
    BY <1>5, SetCurrentMap, EnsureRootMap, EnsureFolderMap, UpsertMap, DeleteFileMap, DeleteFilesMap,
       DeleteFolderMap, OthersMap, NeverUnset DEF Statement
  <1>6. ASSUME NEW c \in Connections, StatementFails(c) PROVE MapInv'
    BY <1>6, OthersMap
  <1>7. CASE UNCHANGED vars
    BY <1>7 DEF vars, tables, history, MapInv, UniqueInv, LedgerInv
  <1> QED
    BY <1>1, <1>2, <1>3, <1>4, <1>5, <1>6, <1>7 DEF Next, FailureIgnored, VolumeFails, MetaFails,
       RootFails, ChildrenFail, Unnoticed

SoundMap == ~unnoticed => IInv /\ MapInv
LEMMA SoundMapAlways == Spec => []SoundMap
  <1>1. Init => SoundMap
    BY InitIInv, InitMap DEF SoundMap
  <1>2. Remembers /\ SoundMap /\ [Next]_vars => SoundMap'
    BY NextIInv, NextMap, Remembered DEF SoundMap, Remembers
  <1> QED
    BY <1>1, <1>2, RememberedAlways, PTL DEF Spec

(* As long as calls did not overlap, the tables are a map from paths to      *)
(* digests on which every call is one atomic step, whatever dies in between  *)
(* and whatever statement fails of those whose result the code looks at:     *)
(* different paths never share a key, and a record stored under a path is    *)
(* found there with its digest until it is deleted.                          *)
THEOREM TablesMapPaths == Spec => []TablesAreAMap
  <1>1. SoundMap => TablesAreAMap
    BY KeyParts DEF SoundMap, MapInv, MapTrue, TablesAreAMap, Found, Lookup
  <1> QED
    BY <1>1, SoundMapAlways, PTL

-----------------------------------------------------------------------------
(* Extents and the records they belong to *)

\* replace_extents is always followed by the record of the same path.
Followed(q) ==
    \A i \in 1..Len(q) : q[i].method = "extents" =>
        i < Len(q) /\ q[i + 1].method = "bump" /\ q[i + 1].path = q[i].path

NextBumps(q, p) == q # <<>> /\ Head(q).method = "bump" /\ Head(q).path = p
\* A call that stores the record of p, or is about to delete its extents.
Links(o, p) ==
    /\ o.stage # "idle" /\ o.call.path = p
    /\ o.call.method = "bump" \/ (o.call.method = "deleteFile" /\ o.stage = "clear")
OpExtents(c, o, q, unl) ==
    /\ o.call.method # "extents" => o.exts = {}
    /\ o.stage \in {"clear", "extents"} => o.call.method \in {"extents", "deleteFile"}
    /\ o.stage \in Deleting => o.call.method = "deleteFolder"
    /\ o.call.method = "deleteFolder" => unl
    /\ o.call.method = "extents" => c = "engine" /\ NextBumps(q, o.call.path)

Bare(ext, led, p) == ext[p] # {} /\ led[p] = "absent"
LinksInv ==
    /\ faults \in Nat /\ DOMAIN extents = Paths /\ Followed(program)
    /\ \A c \in Connections : OpExtents(c, op[c], program, unlinked)
    /\ faults = 0 /\ ~unlinked =>
        \A p \in Paths : Bare(extents, ledger, p) => NextBumps(program, p) \/ \E c \in Connections : Links(op[c], p)

LEMMA FollowedBy ==
    ASSUME NEW s \in Seq(EngineCalls), NEW t \in Seq(EngineCalls), Followed(s), Followed(t)
    PROVE  Followed(s \o t)
  <1> DEFINE q == s \o t
  <1>1. /\ q \in Seq(EngineCalls) /\ Len(q) = Len(s) + Len(t) /\ Len(s) \in Nat /\ Len(t) \in Nat
        /\ \A i \in 1..Len(q) : q[i] = IF i <= Len(s) THEN s[i] ELSE t[i - Len(s)]
    BY ConcatProperties, LenProperties
  <1> HIDE DEF q
  <1>2. ASSUME NEW i \in 1..Len(q), q[i].method = "extents"
        PROVE  i < Len(q) /\ q[i + 1].method = "bump" /\ q[i + 1].path = q[i].path
    <2>1. CASE i <= Len(s)
      <3>1. q[i] = s[i] /\ i \in 1..Len(s)
        BY <1>1, <2>1
      <3>2. i < Len(s) /\ s[i + 1].method = "bump" /\ s[i + 1].path = s[i].path
        BY <1>2, <3>1 DEF Followed
      <3>3. i < Len(q) /\ q[i + 1] = s[i + 1]
        BY <1>1, <3>1, <3>2
      <3> QED
        BY <3>1, <3>2, <3>3
    <2>2. CASE ~(i <= Len(s))
      <3> DEFINE j == i - Len(s)
      <3>1. q[i] = t[j] /\ j \in 1..Len(t)
        BY <1>1, <2>2
      <3>2. j < Len(t) /\ t[j + 1].method = "bump" /\ t[j + 1].path = t[j].path
        <4> HIDE DEF j
        <4> QED
          BY <1>2, <3>1 DEF Followed
      <3>3. i < Len(q) /\ i + 1 \in 1..Len(q) /\ ~(i + 1 <= Len(s)) /\ (i + 1) - Len(s) = j + 1
        BY <1>1, <2>2, <3>1, <3>2
      <3>4. q[i + 1] = t[j + 1]
        BY <1>1, <3>3
      <3> QED
        BY <3>1, <3>2, <3>3, <3>4
    <2> QED
      BY <2>1, <2>2
  <1> QED
    BY <1>2 DEF Followed, q

LEMMA FollowedTail ==
    ASSUME NEW q \in Seq(EngineCalls), q # <<>>, Followed(q)
    PROVE  Followed(Tail(q)) /\ (Head(q).method = "extents" => NextBumps(Tail(q), Head(q).path))
  <1> DEFINE r == Tail(q)
  <1>1. /\ Head(q) = q[1] /\ r \in Seq(EngineCalls) /\ Len(r) = Len(q) - 1 /\ Len(q) \in Nat \ {0}
        /\ \A i \in 1..Len(r) : r[i] = q[i + 1]
    BY HeadTailProperties, LenProperties, EmptySeq
  <1> HIDE DEF r
  <1>2. r # <<>> => Head(r) = r[1] /\ Len(r) >= 1
    BY <1>1, HeadTailProperties, LenProperties, EmptySeq
  <1>3. Len(r) >= 1 => r # <<>>
    BY <1>1, EmptySeq
  <1>4. Followed(r)
    <2> SUFFICES ASSUME NEW i \in 1..Len(r), r[i].method = "extents"
                 PROVE  i < Len(r) /\ r[i + 1].method = "bump" /\ r[i + 1].path = r[i].path
      BY DEF Followed
    <2>1. r[i] = q[i + 1] /\ i + 1 \in 1..Len(q)
      BY <1>1
    <2>2. i + 1 < Len(q) /\ q[(i + 1) + 1].method = "bump" /\ q[(i + 1) + 1].path = q[i + 1].path
      BY <2>1 DEF Followed
    <2>3. i < Len(r) /\ i + 1 \in 1..Len(r) /\ r[i + 1] = q[(i + 1) + 1]
      BY <1>1, <2>2
    <2> QED
      BY <2>1, <2>2, <2>3
  <1>5. ASSUME Head(q).method = "extents" PROVE NextBumps(r, Head(q).path)
    <2>1. 1 \in 1..Len(q) /\ q[1].method = "extents"
      BY <1>1, <1>5
    <2>2. 1 < Len(q) /\ q[1 + 1].method = "bump" /\ q[1 + 1].path = q[1].path
      BY <2>1 DEF Followed
    <2>3. r # <<>> /\ Head(r) = q[1 + 1]
      BY <1>1, <1>2, <1>3, <2>2
    <2> QED
      BY <1>1, <2>2, <2>3 DEF NextBumps
  <1> QED
    BY <1>4, <1>5 DEF r

LEMMA ProgramFollowed ==
    ASSUME NEW d \in Digests
    PROVE  Followed(ScanCalls) /\ Followed(ItemCalls) /\ Followed(VerifyCalls(d)) /\ Followed(HashCalls(d))
  <1> DEFINE files == SetToSeq(Files)
  <1>1. Len(Work) \in Nat /\ DOMAIN Work = 1..Len(Work)
    BY CatalogAssumption, LenProperties
  <1>2. Len(files) \in Nat
    BY FilesInOrder, Listed
  <1> HIDE DEF files
  <1>3. Followed(ScanCalls)
    <2>1. DOMAIN ScanCalls = 1..Len(Work) /\ Len(ScanCalls) = Len(Work)
      BY <1>1, Listed, ProgramTyped DEF ScanCalls
    <2>2. ASSUME NEW i \in 1..Len(ScanCalls) PROVE ScanCalls[i].method # "extents"
      BY <1>1, <2>1 DEF ScanCalls, Call
    <2> QED
      BY <2>2 DEF Followed
  <1>4. Followed(ItemCalls)
    <2> DEFINE n == Len(Work)
               P(k) == Work[((k - 1) \div 2) + 1]
    <2>1. \A k \in 1..(2 * n) : ItemCalls[k] = RecordRewrite(P(k))[((k - 1) % 2) + 1]
      BY DEF ItemCalls, InTurn
    <2>2. Len(ItemCalls) = 2 * n
      <3>1. DOMAIN ItemCalls = 1..(2 * n)
        BY DEF ItemCalls, InTurn
      <3> QED
        BY <1>1, <3>1, ProgramTyped, LenProperties
    <2>3. \A p : /\ RecordRewrite(p)[1] = Call("extents", p) /\ RecordRewrite(p)[2] = Call("bump", p)
      BY DEF RecordRewrite
    <2>4. \A m, p : Call(m, p).method = m /\ Call(m, p).path = p
      BY DEF Call
    <2>5. ASSUME NEW i \in 1..(2 * n), ItemCalls[i].method = "extents"
          PROVE  i < 2 * n /\ ItemCalls[i + 1].method = "bump" /\ ItemCalls[i + 1].path = ItemCalls[i].path
      <3>1. (i - 1) % 2 \in {0, 1}
        BY <1>1
      <3>2. (i - 1) % 2 = 0
        <4>1. ASSUME (i - 1) % 2 = 1 PROVE FALSE
          <5> HIDE DEF P
          <5>1. ItemCalls[i] = Call("bump", P(i))
            BY <2>1, <2>3, <4>1
          <5> QED
            BY <2>4, <2>5, <5>1
        <4> QED
          BY <3>1, <4>1
      <3>3. i < 2 * n /\ i + 1 \in 1..(2 * n) /\ ((i + 1) - 1) % 2 = 1
            /\ ((i + 1) - 1) \div 2 = (i - 1) \div 2
        BY <1>1, <3>2
      <3>4. P(i + 1) = P(i)
        BY <3>3
      <3> HIDE DEF P
      <3>5. ItemCalls[i] = Call("extents", P(i)) /\ ItemCalls[i + 1] = Call("bump", P(i))
        BY <2>1, <2>3, <3>2, <3>3, <3>4
      <3> QED
        BY <2>4, <3>3, <3>5
    <2> QED
      BY <2>2, <2>5 DEF Followed
  <1>5. \A p : /\ VerifyFile(p, d)[1].method # "extents" /\ VerifyFile(p, d)[2].method # "extents"
               /\ HashFile(p, d)[1].method # "extents" /\ HashFile(p, d)[2].method # "extents"
               /\ HashFile(p, d)[3].method # "extents"
    BY DEF VerifyFile, HashFile, Call, Sets
  <1>6. Followed(VerifyCalls(d))
    <2>1. ASSUME NEW k \in 1..(2 * Len(files)) PROVE VerifyCalls(d)[k].method # "extents"
      <3>1. VerifyCalls(d)[k] = VerifyFile(files[((k - 1) \div 2) + 1], d)[((k - 1) % 2) + 1]
        BY DEF VerifyCalls, InTurn, files
      <3>2. ((k - 1) % 2) + 1 \in {1, 2}
        BY <1>2
      <3> QED
        BY <1>5, <3>1, <3>2
    <2>2. Len(VerifyCalls(d)) = 2 * Len(files)
      <3>1. DOMAIN VerifyCalls(d) = 1..(2 * Len(files))
        BY DEF VerifyCalls, InTurn, files
      <3> QED
        BY <1>2, <3>1, ProgramTyped, LenProperties
    <2> QED
      BY <2>1, <2>2 DEF Followed
  <1>7. Followed(HashCalls(d))
    <2>1. ASSUME NEW k \in 1..(3 * Len(files)) PROVE HashCalls(d)[k].method # "extents"
      <3>1. HashCalls(d)[k] = HashFile(files[((k - 1) \div 3) + 1], d)[((k - 1) % 3) + 1]
        BY DEF HashCalls, InTurn, files
      <3>2. ((k - 1) % 3) + 1 \in {1, 2, 3}
        BY <1>2
      <3> QED
        BY <1>5, <3>1, <3>2
    <2>2. Len(HashCalls(d)) = 3 * Len(files)
      <3>1. DOMAIN HashCalls(d) = 1..(3 * Len(files))
        BY DEF HashCalls, InTurn, files
      <3> QED
        BY <1>2, <3>1, ProgramTyped, LenProperties
    <2> QED
      BY <2>1, <2>2 DEF Followed
  <1> QED
    BY <1>3, <1>4, <1>6, <1>7

LEMMA LinksMove ==
    ASSUME IInv, LinksInv, NEW c \in Connections, NEW o, op' = [op EXCEPT ![c] = o],
           UNCHANGED <<program, faults, unlinked>>, OpExtents(c, o, program, unlinked), DOMAIN extents' = Paths,
           \A p \in Paths : Bare(extents', ledger', p) =>
                \/ NextBumps(program, p) \/ Links(o, p)
                \/ Bare(extents, ledger, p) /\ ~Links(op[c], p)
    PROVE  LinksInv'
  <1>1. DOMAIN op = Connections
    BY DEF IInv, OpsInv
  <1>2. op'[c] = o /\ \A d \in Connections \ {c} : op'[d] = op[d]
    BY <1>1
  <1>3. \A d \in Connections : OpExtents(d, op'[d], program', unlinked')
    BY <1>2 DEF LinksInv
  <1>4. ASSUME faults' = 0, ~unlinked', NEW p \in Paths, Bare(extents', ledger', p)
        PROVE  NextBumps(program', p) \/ \E d \in Connections : Links(op'[d], p)
    <2>1. CASE NextBumps(program, p) \/ Links(o, p)
      BY <1>2, <2>1
    <2>2. CASE Bare(extents, ledger, p) /\ ~Links(op[c], p)
      <3>1. NextBumps(program, p) \/ \E d \in Connections : Links(op[d], p)
        BY <1>4, <2>2 DEF LinksInv
      <3> QED
        BY <1>2, <2>2, <3>1
    <2> QED
      BY <1>4, <2>1, <2>2
  <1> QED
    BY <1>3, <1>4 DEF LinksInv

\* A call in progress goes on without touching extents.
LEMMA LinksStay ==
    ASSUME IInv, LinksInv, NEW c \in Connections, NEW o, op' = [op EXCEPT ![c] = o],
           UNCHANGED <<program, faults, unlinked, extents, ledger>>,
           o.exts = {}, o.stage \notin {"clear", "extents"}, o.stage \in Deleting => o.call.method = "deleteFolder",
           o.call.method \in {op[c].call.method, "none"}, op[c].call.method # "extents",
           \A p : Links(op[c], p) => Links(o, p)
    PROVE  LinksInv'
  <1>1. OpExtents(c, o, program, unlinked)
    BY DEF LinksInv, OpExtents
  <1> QED
    BY <1>1, LinksMove DEF LinksInv

LEMMA WithRootLinks ==
    ASSUME NEW call, call.method \in Methods \ {"extents"}, NEW vol, NEW root, NEW o, o = WithRoot(call, vol, root)
    PROVE  /\ o.exts = {} /\ o.stage \in {"idle", "walk", "child"}
           /\ o.stage = "child" => o.call.method = "deleteFolder"
           /\ o = Idle \/ o.call = call
           /\ call.method = "bump" => o.call = call /\ o.stage = "walk"
  <1> DEFINE new == [Idle EXCEPT !.call = call, !.vol = vol, !.digest = call.digest]
  <1>1. /\ new.call = call /\ new.exts = {} /\ Idle.exts = {} /\ Idle.stage = "idle"
        /\ DOMAIN new = {"call", "stage", "vol", "rest", "at", "digest", "frames", "exts"}
    BY DEF Idle
  <1>2. Idle.call.method = "none"
    BY DEF Idle, Call
  <1> HIDE DEF new
  <1>3. \A x, y : LET w == [new EXCEPT !.stage = "walk", !.at = x, !.rest = y]
                  IN  w.call = call /\ w.exts = {} /\ w.stage = "walk"
    BY <1>1
  <1>4. \A x, y, z, v : LET w == [[new EXCEPT !.stage = "walk", !.at = x, !.rest = y] EXCEPT !.at = z, !.rest = v]
                        IN  w.call = call /\ w.exts = {} /\ w.stage = "walk"
    BY <1>1
  <1>5. \A fr : LET w == [new EXCEPT !.stage = "child", !.frames = fr]
                IN  w.call = call /\ w.exts = {} /\ w.stage = "child"
    BY <1>1
  <1>6. CASE call.method \in {"upsert", "known", "again", "deleteFile"}
    <2>1. o = Idle \/ \E x, y : o = [new EXCEPT !.stage = "walk", !.at = x, !.rest = y]
      BY <1>6, Zenon DEF WithRoot, new
    <2> QED
      BY <1>1, <1>3, <1>6, <2>1
  <1>7. CASE call.method = "bump"
    <2>1. \/ \E x, y : o = [new EXCEPT !.stage = "walk", !.at = x, !.rest = y]
          \/ \E x, y, z : o = [[new EXCEPT !.stage = "walk", !.at = x, !.rest = y] EXCEPT !.digest = z]
      BY <1>7, Zenon DEF WithRoot, new
    <2>2. \A x, y, z : LET w == [[new EXCEPT !.stage = "walk", !.at = x, !.rest = y] EXCEPT !.digest = z]
                       IN  w.call = call /\ w.exts = {} /\ w.stage = "walk"
      BY <1>1
    <2>3. o.call = call /\ o.exts = {} /\ o.stage = "walk"
      <3>1. CASE \E x, y : o = [new EXCEPT !.stage = "walk", !.at = x, !.rest = y]
        BY <1>3, <3>1
      <3>2. CASE \E x, y, z : o = [[new EXCEPT !.stage = "walk", !.at = x, !.rest = y] EXCEPT !.digest = z]
        BY <2>2, <3>2
      <3> QED
        BY <2>1, <3>1, <3>2
    <2> QED
      BY <2>3
  <1>8. CASE call.method = "ensureFolder"
    <2>1. \E x, y, z, v : o = [[new EXCEPT !.stage = "walk", !.at = x, !.rest = y] EXCEPT !.at = z, !.rest = v]
      BY <1>8, Zenon DEF WithRoot, new
    <2> QED
      BY <1>4, <1>8, <2>1
  <1>9. CASE call.method = "deleteFolder"
    <2>1. o = Idle \/ \E fr : o = [new EXCEPT !.stage = "child", !.frames = fr]
      BY <1>9, Zenon DEF WithRoot, new
    <2> QED
      BY <1>1, <1>5, <1>9, <2>1
  <1> QED
    BY <1>6, <1>7, <1>8, <1>9 DEF Methods, EngineMethods, Upserts

LEMMA StartedLinks ==
    ASSUME NEW call, call.method \in Methods, NEW o, o = Started(call)
    PROVE  /\ call.method # "extents" => o.exts = {} /\ o.stage \notin {"clear", "extents"}
           /\ o.stage \in Deleting => o.call.method = "deleteFolder"
           /\ o = Idle \/ o.call = call
           /\ call.method = "bump" => o.call = call /\ o.stage # "idle"
  <1>1. CASE call.method = "extents"
    <2>1. o = [Idle EXCEPT !.call = call, !.stage = "clear", !.exts = call.exts]
      BY <1>1 DEF Started
    <2> QED
      BY <1>1, <2>1 DEF Idle, Deleting
  <1>2. CASE call.method # "extents"
    <2>1. CASE o = [Idle EXCEPT !.call = call, !.stage = "volume"]
      BY <2>1 DEF Idle, Deleting
    <2>2. CASE o = [Idle EXCEPT !.call = call, !.stage = "root", !.vol = current]
      BY <2>2 DEF Idle, Deleting
    <2>3. CASE o = WithRoot(call, current, RootId(current))
      BY <1>2, <2>3, WithRootLinks DEF Deleting
    <2> QED
      BY <1>2, <2>1, <2>2, <2>3 DEF Started
  <1> QED
    BY <1>1, <1>2

LEMMA BeginLinks ==
    ASSUME IInv, LinksInv, NEW c \in Connections, NEW call, Callable(call, DOMAIN folders), Begin(c, call), ~unnoticed',
           UNCHANGED <<extents, ledger, faults>>, Followed(program'),
           unlinked' <=> (unlinked \/ call.method = "deleteFolder"),
           call.method = "extents" => c = "engine" /\ NextBumps(program', call.path),
           \A p : NextBumps(program, p) => NextBumps(program', p) \/ (call.method = "bump" /\ call.path = p),
           c = "window" => UNCHANGED program
    PROVE  LinksInv'
  <1> DEFINE o == Started(call)
  <1>1. /\ op[c].stage = "idle" /\ op' = [op EXCEPT ![c] = o] /\ DOMAIN op = Connections
    BY DEF Begin, Unnoticed, IInv, OpsInv
  <1>2. /\ call.method # "extents" => o.exts = {} /\ o.stage \notin {"clear", "extents"}
        /\ o.stage \in Deleting => o.call.method = "deleteFolder"
        /\ o = Idle \/ o.call = call
        /\ call.method = "bump" => o.call = call /\ o.stage # "idle"
    BY StartedLinks DEF Callable
  <1> HIDE DEF o
  <1>3. op'[c] = o /\ \A d \in Connections \ {c} : op'[d] = op[d]
    BY <1>1
  <1>4. Idle.call.method = "none" /\ Idle.exts = {} /\ Idle.stage = "idle"
    BY DEF Idle, Call
  <1>5. OpExtents(c, o, program', unlinked')
    <2>1. CASE o = Idle
      BY <1>4, <2>1 DEF OpExtents, Deleting
    <2>2. CASE o.call = call
      BY <1>2, <2>2 DEF OpExtents
    <2> QED
      BY <1>2, <2>1, <2>2
  <1>6. ASSUME NEW d \in Connections \ {c} PROVE OpExtents(d, op[d], program', unlinked')
    <2>1. OpExtents(d, op[d], program, unlinked)
      BY DEF LinksInv
    <2>2. CASE d = "engine"
      <3>1. UNCHANGED program
        BY <2>2 DEF Connections
      <3> QED
        BY <2>1, <3>1 DEF OpExtents
    <2>3. CASE d # "engine"
      BY <2>1, <2>3 DEF OpExtents
    <2> QED
      BY <2>2, <2>3
  <1>7. ASSUME faults' = 0, ~unlinked', NEW p \in Paths, Bare(extents', ledger', p)
        PROVE  NextBumps(program', p) \/ \E d \in Connections : Links(op'[d], p)
    <2>1. NextBumps(program, p) \/ \E d \in Connections : Links(op[d], p)
      BY <1>7 DEF LinksInv
    <2>2. CASE NextBumps(program, p)
      <3>1. CASE call.method = "bump" /\ call.path = p
        <4>1. Links(o, p)
          BY <1>2, <3>1 DEF Links
        <4> QED
          BY <1>3, <4>1
      <3> QED
        BY <2>2, <3>1
    <2>3. ASSUME NEW d \in Connections, Links(op[d], p) PROVE Links(op'[d], p)
      <3>1. d # c
        BY <1>1, <2>3 DEF Links
      <3> QED
        BY <1>3, <2>3, <3>1
    <2> QED
      BY <2>1, <2>2, <2>3
  <1>8. \A d \in Connections : OpExtents(d, op'[d], program', unlinked')
    BY <1>3, <1>5, <1>6
  <1> QED
    BY <1>7, <1>8 DEF LinksInv

LEMMA CallLinks ==
    ASSUME IInv, LinksInv, NEW c \in Connections
    PROVE  /\ op[c] \in Ops /\ OpInv(op[c], DOMAIN folders, volumes)
           /\ OpExtents(c, op[c], program, unlinked)
           /\ Idle.exts = {} /\ Idle.stage = "idle" /\ Idle.call.method = "none"
  BY CallInProgress DEF LinksInv, Idle, Call

\* The volume, the root folder and the folders of the path.
LEMMA PreparingLinks ==
    ASSUME IInv, LinksInv, NEW c \in Connections,
           InsertVolume(c) \/ SetCurrent(c) \/ EnsureRoot(c) \/ EnsureFolder(c)
    PROVE  LinksInv'
  <1>1. UNCHANGED <<program, faults, unlinked, extents, ledger>>
    BY DEF InsertVolume, SetCurrent, EnsureRoot, EnsureFolder, bounds, history
  <1>2. /\ op[c] \in Ops /\ OpInv(op[c], DOMAIN folders, volumes)
        /\ OpExtents(c, op[c], program, unlinked)
        /\ Idle.exts = {} /\ Idle.stage = "idle" /\ Idle.call.method = "none"
    BY CallLinks
  <1>3. op[c].stage \in Preparing => op[c].call.method \in Methods \ {"extents"} /\ op[c].exts = {}
    BY <1>2 DEF OpInv, OpExtents
  <1>4. ASSUME NEW o, op' = [op EXCEPT ![c] = o], o.exts = {}, o.stage \in {"meta", "root", "walk"},
               o.call = op[c].call, op[c].stage \in Preparing \cup {"walk"}, op[c].call.method # "extents"
        PROVE  LinksInv'
    <2>1. \A p : Links(op[c], p) => Links(o, p)
      BY <1>4 DEF Links, Preparing
    <2> QED
      BY <1>1, <1>4, <2>1, LinksStay DEF Deleting
  <1>5. CASE InsertVolume(c)
    <2> DEFINE o == [op[c] EXCEPT !.stage = "meta", !.vol = volumes + 1]
    <2>1. op' = [op EXCEPT ![c] = o] /\ op[c].stage = "volume"
      BY <1>5 DEF InsertVolume, At
    <2>2. o.exts = {} /\ o.stage = "meta" /\ o.call = op[c].call
      BY <1>2, <1>3, <2>1 DEF Ops, Preparing
    <2> HIDE DEF o
    <2> QED
      BY <1>3, <1>4, <2>1, <2>2 DEF Preparing
  <1>6. CASE SetCurrent(c)
    <2> DEFINE o == [op[c] EXCEPT !.stage = "root"]
    <2>1. op' = [op EXCEPT ![c] = o] /\ op[c].stage = "meta"
      <3>1. op[c].stage = "meta"
        BY <1>6 DEF SetCurrent, At
      <3>2. op[c].vol # 0
        BY <1>2, <3>1 DEF OpInv, IInv, TablesInv
      <3> QED
        BY <1>6, <3>1, <3>2 DEF SetCurrent, Goes
    <2>2. o.exts = {} /\ o.stage = "root" /\ o.call = op[c].call
      BY <1>2, <1>3, <2>1 DEF Ops, Preparing
    <2> HIDE DEF o
    <2> QED
      BY <1>3, <1>4, <2>1, <2>2 DEF Preparing
  <1>7. CASE EnsureRoot(c)
    <2>1. PICK root : op' = [op EXCEPT ![c] = WithRoot(@.call, op[c].vol, root)]
      BY <1>7 DEF EnsureRoot
    <2> DEFINE o == WithRoot(op[c].call, op[c].vol, root)
    <2>2. op' = [op EXCEPT ![c] = o] /\ op[c].stage = "root"
      BY <1>7, <2>1 DEF EnsureRoot, At
    <2>3. op[c].call.method \in Methods \ {"extents"}
      BY <1>3, <2>2 DEF Preparing
    <2>4. /\ o.exts = {} /\ o.stage \in {"idle", "walk", "child"}
          /\ o.stage = "child" => o.call.method = "deleteFolder"
          /\ o = Idle \/ o.call = op[c].call
          /\ op[c].call.method = "bump" => o.call = op[c].call /\ o.stage = "walk"
      BY <2>3, WithRootLinks
    <2> HIDE DEF o
    <2>5. \A p : Links(op[c], p) => Links(o, p)
      BY <2>2, <2>4 DEF Links
    <2>6. o.call.method \in {op[c].call.method, "none"} /\ o.stage \notin {"clear", "extents"}
      BY <1>2, <2>4
    <2>7. o.stage \in Deleting => o.call.method = "deleteFolder"
      BY <2>4 DEF Deleting
    <2> QED
      BY <1>1, <2>2, <2>3, <2>4, <2>5, <2>6, <2>7, LinksStay
  <1>8. CASE EnsureFolder(c)
    <2>1. op[c].stage = "walk"
      BY <1>8 DEF EnsureFolder, At
    <2>2. CASE op[c].call.method = "ensureFolder"
      <3>1. op' = [op EXCEPT ![c] = Idle]
        BY <1>8, <2>2 DEF EnsureFolder
      <3>2. \A p : ~Links(op[c], p)
        BY <2>2 DEF Links
      <3> QED
        BY <1>1, <1>2, <2>2, <3>1, <3>2, LinksStay DEF Deleting
    <2>3. CASE op[c].call.method # "ensureFolder"
      <3>1. PICK x, y : op' = [op EXCEPT ![c] = [op[c] EXCEPT !.rest = x, !.at = y]]
        BY <1>8, <2>3 DEF EnsureFolder
      <3> DEFINE o == [op[c] EXCEPT !.rest = x, !.at = y]
      <3>2. o.stage = "walk" /\ o.call = op[c].call /\ o.exts = op[c].exts
        BY <1>2, <2>1 DEF Ops
      <3>3. op' = [op EXCEPT ![c] = o]
        BY <3>1
      <3> HIDE DEF o
      <3>4. CASE op[c].call.method # "extents"
        BY <1>2, <1>4, <2>1, <3>2, <3>3, <3>4 DEF OpExtents
      <3>5. CASE op[c].call.method = "extents"
        <4>1. OpExtents(c, o, program, unlinked) /\ \A p : ~Links(op[c], p)
          BY <1>2, <3>2, <3>5 DEF OpExtents, Links, Deleting
        <4> QED
          BY <1>1, <3>3, <4>1, LinksMove DEF LinksInv
      <3> QED
        BY <3>4, <3>5
    <2> QED
      BY <2>2, <2>3
  <1> QED
    BY <1>5, <1>6, <1>7, <1>8

LEMMA UpsertLinks == ASSUME IInv, MapInv, LinksInv, NEW c \in Connections, Upsert(c) PROVE LinksInv'
  <1> DEFINE q == op[c].call.path
             new == op[c].call.digest
  <1>1. /\ UNCHANGED <<program, faults, unlinked, extents>> /\ op' = [op EXCEPT ![c] = Idle]
        /\ op[c].stage = "walk" /\ op[c].call.method \in Upserts
        /\ ledger' = [ledger EXCEPT ![q] = IF new # None \/ @ = "absent" THEN new ELSE @]
    BY DEF Upsert, At, Ends, bounds
  <1>2. /\ op[c] \in Ops /\ OpInv(op[c], DOMAIN folders, volumes)
        /\ OpExtents(c, op[c], program, unlinked)
        /\ Idle.exts = {} /\ Idle.stage = "idle" /\ Idle.call.method = "none"
    BY CallLinks
  <1>3. q \in Paths /\ new \in Digests \cup {None}
    BY <1>1, <1>2 DEF OpInv, Ops, AllCalls, Methods, EngineMethods, Upserts
  <1>4. DOMAIN ledger = Paths
    BY DEF MapInv, LedgerInv
  <1>5. new # "absent"
    BY <1>3, CatalogAssumption DEF None
  <1> HIDE DEF new, q
  <1>6. ledger'[q] # "absent" /\ \A p \in Paths \ {q} : ledger'[p] = ledger[p]
    BY <1>1, <1>3, <1>4, <1>5
  <1>7. ASSUME NEW p \in Paths, Bare(extents', ledger', p)
        PROVE  Bare(extents, ledger, p) /\ ~Links(op[c], p)
    <2>1. p # q /\ ledger[p] = ledger'[p] /\ extents'[p] = extents[p]
      BY <1>1, <1>6, <1>7 DEF Bare
    <2> QED
      BY <1>7, <2>1 DEF Bare, Links, q
  <1>8. OpExtents(c, Idle, program, unlinked) /\ DOMAIN extents' = Paths
    BY <1>1, <1>2 DEF OpExtents, Deleting, LinksInv
  <1> QED
    BY <1>1, <1>7, <1>8, LinksMove

LEMMA DeleteFileLinks == ASSUME IInv, MapInv, LinksInv, NEW c \in Connections, DeleteFile(c) PROVE LinksInv'
  <1> DEFINE q == op[c].call.path
             o == [op[c] EXCEPT !.stage = "clear"]
  <1>1. /\ UNCHANGED <<program, faults, unlinked, extents>> /\ op' = [op EXCEPT ![c] = o]
        /\ op[c].stage = "walk" /\ op[c].call.method = "deleteFile"
        /\ ledger' = [ledger EXCEPT ![q] = "absent"]
    BY NeverRemoves DEF DeleteFile, ThenExtents, Goes, At, bounds
  <1>2. /\ op[c] \in Ops /\ OpInv(op[c], DOMAIN folders, volumes)
        /\ OpExtents(c, op[c], program, unlinked)
    BY CallLinks
  <1>3. DOMAIN ledger = Paths
    BY DEF MapInv, LedgerInv
  <1>4. o.stage = "clear" /\ o.call = op[c].call /\ o.exts = op[c].exts
    BY <1>2 DEF Ops
  <1> HIDE DEF o
  <1>5. OpExtents(c, o, program, unlinked)
    BY <1>1, <1>2, <1>4 DEF OpExtents, Deleting
  <1>6. ASSUME NEW p \in Paths, Bare(extents', ledger', p)
        PROVE  Links(o, p) \/ (Bare(extents, ledger, p) /\ ~Links(op[c], p))
    <2>1. CASE p = q
      BY <1>1, <1>4, <2>1 DEF Links
    <2>2. CASE p # q
      <3>1. ledger'[p] = ledger[p] /\ extents'[p] = extents[p]
        BY <1>1, <1>3, <2>2
      <3> QED
        BY <1>6, <2>2, <3>1 DEF Bare, Links
    <2> QED
      BY <2>1, <2>2
  <1>7. DOMAIN extents' = Paths
    BY <1>1 DEF LinksInv
  <1> QED
    BY <1>1, <1>5, <1>6, <1>7, LinksMove

LEMMA ExtentsLinks ==
    ASSUME IInv, LinksInv, NEW c \in Connections, ClearExtents(c) \/ InsertExtent(c)
    PROVE  LinksInv'
  <1> DEFINE q == op[c].call.path
  <1>1. UNCHANGED <<program, faults, unlinked, ledger>> /\ op[c].stage \in {"clear", "extents"}
    BY DEF ClearExtents, InsertExtent, At, bounds, history
  <1>2. /\ op[c] \in Ops /\ OpInv(op[c], DOMAIN folders, volumes)
        /\ OpExtents(c, op[c], program, unlinked)
        /\ Idle.exts = {} /\ Idle.stage = "idle" /\ Idle.call.method = "none"
    BY CallLinks
  <1>3. op[c].call.method \in {"extents", "deleteFile"}
    BY <1>1, <1>2 DEF OpExtents
  <1>4. DOMAIN extents = Paths
    BY DEF LinksInv
  <1>5. ASSUME NEW o, op' = [op EXCEPT ![c] = o], o.stage = "extents", o.call = op[c].call,
               o.call.method # "extents" => o.exts = {}
        PROVE  OpExtents(c, o, program, unlinked)
    BY <1>2, <1>3, <1>5 DEF OpExtents, Deleting
  <1>6. OpExtents(c, Idle, program, unlinked)
    BY <1>2 DEF OpExtents, Deleting
  <1>7. CASE ClearExtents(c)
    <2> DEFINE o == [op[c] EXCEPT !.stage = "extents"]
    <2>1. op' = [op EXCEPT ![c] = o] /\ extents' = [extents EXCEPT ![q] = {}]
      BY <1>7 DEF ClearExtents, Goes
    <2>2. o.stage = "extents" /\ o.call = op[c].call /\ o.exts = op[c].exts
      BY <1>2 DEF Ops
    <2> HIDE DEF o
    <2>3. OpExtents(c, o, program, unlinked)
      BY <1>2, <1>5, <2>1, <2>2 DEF OpExtents
    <2>4. DOMAIN extents' = Paths
      BY <1>4, <2>1
    <2>5. ASSUME NEW p \in Paths, Bare(extents', ledger', p)
          PROVE  Bare(extents, ledger, p) /\ ~Links(op[c], p)
      <3>1. p # q /\ extents'[p] = extents[p]
        BY <1>4, <2>1, <2>5 DEF Bare
      <3> QED
        BY <1>1, <2>5, <3>1 DEF Bare, Links
    <2> QED
      BY <1>1, <2>1, <2>3, <2>4, <2>5, LinksMove
  <1>8. CASE InsertExtent(c) /\ op[c].exts = {}
    <2>1. op' = [op EXCEPT ![c] = Idle] /\ UNCHANGED extents /\ op[c].stage = "extents"
      BY <1>8 DEF InsertExtent, Ends, At
    <2>2. ASSUME NEW p \in Paths, Bare(extents', ledger', p)
          PROVE  Bare(extents, ledger, p) /\ ~Links(op[c], p)
      BY <1>1, <1>3, <2>1, <2>2 DEF Bare, Links
    <2>3. DOMAIN extents' = Paths
      BY <1>4, <2>1
    <2> QED
      BY <1>1, <1>6, <2>1, <2>2, <2>3, LinksMove
  <1>9. CASE InsertExtent(c) /\ op[c].exts # {}
    <2>1. PICK e \in op[c].exts : /\ op' = [op EXCEPT ![c].exts = @ \ {e}]
                                  /\ extents' = [extents EXCEPT ![q] = @ \cup {e}]
      BY <1>9 DEF InsertExtent
    <2> DEFINE o == [op[c] EXCEPT !.exts = @ \ {e}]
    <2>2. op' = [op EXCEPT ![c] = o] /\ op[c].stage = "extents"
      BY <1>9, <2>1 DEF InsertExtent, At
    <2>3. o.stage = "extents" /\ o.call = op[c].call
      BY <1>2, <2>2 DEF Ops
    <2> HIDE DEF o
    <2>4. op[c].call.method = "extents" /\ NextBumps(program, q)
      BY <1>2, <1>9 DEF OpExtents
    <2>5. OpExtents(c, o, program, unlinked)
      BY <1>5, <2>2, <2>3, <2>4
    <2>6. DOMAIN extents' = Paths
      BY <1>4, <2>1
    <2>7. ASSUME NEW p \in Paths, Bare(extents', ledger', p)
          PROVE  NextBumps(program, p) \/ (Bare(extents, ledger, p) /\ ~Links(op[c], p))
      <3>1. p = q \/ extents'[p] = extents[p]
        BY <1>4, <2>1
      <3> QED
        BY <1>1, <2>4, <2>7, <3>1 DEF Bare, Links
    <2> QED
      BY <1>1, <2>2, <2>5, <2>6, <2>7, LinksMove
  <1> QED
    BY <1>7, <1>8, <1>9

\* From here on nothing is promised of the extents.
LEMMA LinksGone ==
    ASSUME IInv, LinksInv, NEW c \in Connections,
           DeleteChild(c) \/ DeleteFiles(c) \/ DeleteFolder(c) \/ StatementFails(c)
    PROVE  LinksInv'
  <1>1. /\ op[c] \in Ops /\ OpExtents(c, op[c], program, unlinked)
        /\ Idle.exts = {} /\ Idle.stage = "idle" /\ Idle.call.method = "none"
    BY CallLinks
  <1>2. OpExtents(c, Idle, program, unlinked)
    BY <1>1 DEF OpExtents, Deleting
  <1>3. UNCHANGED <<program, unlinked, extents>> /\ DOMAIN op = Connections
    BY DEF DeleteChild, DeleteFiles, DeleteFolder, StatementFails, tables, bounds, history, IInv, OpsInv
  <1>4. faults' \in Nat /\ (faults' # 0 \/ unlinked')
    <2>1. CASE StatementFails(c)
      BY <2>1 DEF StatementFails, LinksInv
    <2>2. CASE DeleteChild(c) \/ DeleteFiles(c) \/ DeleteFolder(c)
      <3>1. op[c].stage \in Deleting /\ UNCHANGED faults
        BY <2>2 DEF DeleteChild, DeleteFiles, DeleteFolder, At, Deleting, bounds
      <3> QED
        BY <1>1, <1>3, <3>1 DEF OpExtents, LinksInv
    <2> QED
      BY <2>1, <2>2
  <1>5. \E o : op' = [op EXCEPT ![c] = o] /\ OpExtents(c, o, program, unlinked)
    <2>1. CASE DeleteChild(c)
      <3>1. PICK fr : op' = [op EXCEPT ![c].frames = fr]
        BY <2>1 DEF DeleteChild
      <3> DEFINE o == [op[c] EXCEPT !.frames = fr]
      <3>2. o.stage = op[c].stage /\ o.call = op[c].call /\ o.exts = op[c].exts /\ op' = [op EXCEPT ![c] = o]
        BY <1>1, <3>1 DEF Ops
      <3> HIDE DEF o
      <3> QED
        BY <1>1, <3>2 DEF OpExtents
    <2>2. CASE DeleteFiles(c)
      <3> DEFINE o == [op[c] EXCEPT !.stage = "row"]
      <3>1. op' = [op EXCEPT ![c] = o] /\ op[c].stage = "child"
        BY <2>2 DEF DeleteFiles, Goes, At
      <3>2. o.stage = "row" /\ o.call = op[c].call /\ o.exts = op[c].exts
        BY <1>1 DEF Ops
      <3> HIDE DEF o
      <3> QED
        BY <1>1, <3>1, <3>2 DEF OpExtents, Deleting
    <2>3. CASE DeleteFolder(c)
      <3>1. PICK fr : \/ op' = [op EXCEPT ![c] = Idle]
                      \/ op' = [op EXCEPT ![c] = [op[c] EXCEPT !.stage = "child", !.frames = fr]]
        BY <2>3 DEF DeleteFolder
      <3>2. op[c].stage = "row"
        BY <2>3 DEF DeleteFolder, At
      <3> DEFINE o == [op[c] EXCEPT !.stage = "child", !.frames = fr]
      <3>3. o.stage = "child" /\ o.call = op[c].call /\ o.exts = op[c].exts
        BY <1>1 DEF Ops
      <3>4. op' = [op EXCEPT ![c] = Idle] \/ op' = [op EXCEPT ![c] = o]
        BY <3>1
      <3> HIDE DEF o
      <3>5. OpExtents(c, o, program, unlinked)
        BY <1>1, <3>2, <3>3 DEF OpExtents, Deleting
      <3> QED
        BY <1>2, <3>4, <3>5
    <2>4. CASE StatementFails(c)
      <3>1. CASE At(c, "walk") /\ op[c].call.method \in {"deleteFile", "remove"} /\ op[c].rest = <<>>
        <4> DEFINE o == [op[c] EXCEPT !.stage = "clear"]
        <4>1. op' = [op EXCEPT ![c] = o]
          BY <2>4, <3>1 DEF StatementFails, ThenExtents, Goes
        <4>2. o.stage = "clear" /\ o.call = op[c].call /\ o.exts = op[c].exts
          BY <1>1 DEF Ops
        <4> HIDE DEF o
        <4>3. OpExtents(c, o, program, unlinked)
          BY <1>1, <3>1, <4>2, NeverRemoves DEF OpExtents, Deleting
        <4> QED
          BY <4>1, <4>3
      <3>2. CASE ~(At(c, "walk") /\ op[c].call.method \in {"deleteFile", "remove"} /\ op[c].rest = <<>>)
        <4>1. op' = [op EXCEPT ![c] = Idle]
          BY <2>4, <3>2 DEF StatementFails, GiveUp, Ends
        <4> QED
          BY <1>2, <4>1
      <3> QED
        BY <3>1, <3>2
    <2> QED
      BY <2>1, <2>2, <2>3, <2>4
  <1>6. ASSUME NEW d \in Connections PROVE OpExtents(d, op'[d], program, unlinked)
    <2>1. PICK o : op' = [op EXCEPT ![c] = o] /\ OpExtents(c, o, program, unlinked)
      BY <1>5
    <2>2. op'[d] = IF d = c THEN o ELSE op[d]
      BY <1>3, <2>1
    <2> QED
      BY <2>1, <2>2 DEF LinksInv
  <1> QED
    BY <1>3, <1>4, <1>6 DEF LinksInv

LEMMA CrashLinks == ASSUME IInv, LinksInv, Crash PROVE LinksInv'
  <1>1. op' = [c \in Connections |-> Idle] /\ program' = <<>> /\ UNCHANGED <<extents, unlinked>>
    BY DEF Crash, tables, history
  <1>2. faults' \in Nat /\ faults' # 0
    BY DEF Crash, LinksInv
  <1>3. Idle.exts = {} /\ Idle.stage = "idle" /\ Idle.call.method = "none"
    BY DEF Idle, Call
  <1>4. \A c \in Connections : OpExtents(c, op'[c], program', unlinked')
    BY <1>1, <1>3 DEF OpExtents, Deleting
  <1>5. Followed(program')
    BY <1>1 DEF Followed
  <1> QED
    BY <1>1, <1>2, <1>4, <1>5 DEF LinksInv

LEMMA StartRunLinks == ASSUME IInv, LinksInv, StartRun PROVE LinksInv'
  <1>1. /\ program = <<>> /\ op["engine"].stage = "idle"
        /\ UNCHANGED <<extents, op, faults, unlinked, ledger>>
    BY DEF StartRun, tables
  <1>2. Followed(program')
    <2>1. PICK d \in Digests : program' \in {ScanCalls \o ItemCalls \o HashCalls(d), ItemCalls \o HashCalls(d),
                                             VerifyCalls(d)}
      BY DEF StartRun
    <2>2. /\ ScanCalls \in Seq(EngineCalls) /\ ItemCalls \in Seq(EngineCalls)
          /\ VerifyCalls(d) \in Seq(EngineCalls) /\ HashCalls(d) \in Seq(EngineCalls)
      BY ProgramTyped
    <2>3. Followed(ScanCalls) /\ Followed(ItemCalls) /\ Followed(VerifyCalls(d)) /\ Followed(HashCalls(d))
      BY ProgramFollowed
    <2>4. ScanCalls \o ItemCalls \in Seq(EngineCalls)
      BY <2>2, ConcatProperties
    <2>5. Followed(ScanCalls \o ItemCalls)
      BY <2>2, <2>3, FollowedBy
    <2>6. Followed(ScanCalls \o ItemCalls \o HashCalls(d))
      BY <2>2, <2>3, <2>4, <2>5, FollowedBy
    <2>7. Followed(ItemCalls \o HashCalls(d))
      BY <2>2, <2>3, FollowedBy
    <2> QED
      BY <2>1, <2>3, <2>6, <2>7
  <1>3. \A p : ~NextBumps(program, p)
    BY <1>1 DEF NextBumps
  <1>4. ASSUME NEW c \in Connections PROVE OpExtents(c, op[c], program', unlinked)
    BY <1>3 DEF LinksInv, OpExtents
  <1> QED
    BY <1>1, <1>2, <1>3, <1>4 DEF LinksInv

LEMMA EngineCallLinks == ASSUME IInv, LinksInv, EngineCall, ~unnoticed' PROVE LinksInv'
  <1>1. PICK call : /\ Begin("engine", call) /\ Callable(call, DOMAIN folders) /\ UNCHANGED tables
                    /\ call.method = Head(program).method /\ call.path = Head(program).path
                    /\ program \in Seq(EngineCalls) /\ program # <<>> /\ program' = Tail(program)
                    /\ UNCHANGED <<faults, ledger, unlinked>>
                    /\ call.method \in EngineMethods
    BY EngineCallBegins
  <1>2. Followed(program') /\ (call.method = "extents" => NextBumps(program', call.path))
    BY <1>1, FollowedTail DEF LinksInv
  <1>3. \A p : NextBumps(program, p) => call.method = "bump" /\ call.path = p
    BY <1>1 DEF NextBumps
  <1>4. unlinked' <=> (unlinked \/ call.method = "deleteFolder")
    BY <1>1 DEF EngineMethods, Upserts
  <1>5. UNCHANGED <<extents, ledger, faults>> /\ "engine" \in Connections
    BY <1>1 DEF tables, Connections
  <1> QED
    BY <1>1, <1>2, <1>3, <1>4, <1>5, BeginLinks

LEMMA BrowserCallLinks == ASSUME IInv, LinksInv, BrowserCall, ~unnoticed' PROVE LinksInv'
  <1>1. PICK call : /\ Begin("window", call) /\ Callable(call, DOMAIN folders) /\ UNCHANGED tables
                    /\ UNCHANGED <<ledger, program, faults>> /\ call.method # "extents"
                    /\ unlinked' = (unlinked \/ call.method = "deleteFolder")
    BY BrowserCallBegins
  <1>2. UNCHANGED <<extents, ledger, faults>> /\ "window" \in Connections
    BY <1>1 DEF tables, Connections
  <1>3. Followed(program')
    BY <1>1 DEF LinksInv
  <1> QED
    BY <1>1, <1>2, <1>3, BeginLinks

LEMMA InitLinks == Init => LinksInv
  <1> SUFFICES ASSUME Init PROVE LinksInv
    OBVIOUS
  <1>1. /\ op = [c \in Connections |-> Idle] /\ program = <<>> /\ extents = [p \in Paths |-> {}] /\ faults = 0
    BY DEF Init
  <1>2. Idle.exts = {} /\ Idle.stage = "idle" /\ Idle.call.method = "none"
    BY DEF Idle, Call
  <1>3. \A c \in Connections : OpExtents(c, op[c], program, unlinked)
    BY <1>1, <1>2 DEF OpExtents, Deleting
  <1>4. Followed(program)
    BY <1>1 DEF Followed
  <1>5. \A p \in Paths : ~Bare(extents, ledger, p)
    BY <1>1 DEF Bare
  <1> QED
    BY <1>1, <1>3, <1>4, <1>5 DEF LinksInv

LEMMA NextLinks == ASSUME IInv, MapInv, LinksInv, [Next]_vars, ~unnoticed' PROVE LinksInv'
  <1>1. CASE StartRun
    BY <1>1, StartRunLinks
  <1>2. CASE EngineCall
    BY <1>2, EngineCallLinks
  <1>3. CASE BrowserCall
    BY <1>3, BrowserCallLinks
  <1>4. CASE Crash
    BY <1>4, CrashLinks
  <1>5. ASSUME NEW c \in Connections, Statement(c) PROVE LinksInv'
    BY <1>5, PreparingLinks, UpsertLinks, DeleteFileLinks, ExtentsLinks, LinksGone, NeverUnset DEF Statement
  <1>6. ASSUME NEW c \in Connections, StatementFails(c) PROVE LinksInv'
    BY <1>6, LinksGone
  <1>7. CASE UNCHANGED vars
    BY <1>7 DEF vars, tables, bounds, history, LinksInv
  <1> QED
    BY <1>1, <1>2, <1>3, <1>4, <1>5, <1>6, <1>7 DEF Next, FailureIgnored, VolumeFails, MetaFails,
       RootFails, ChildrenFail, Unnoticed

SoundLinks == ~unnoticed => IInv /\ MapInv /\ LinksInv
LEMMA SoundLinksAlways == Spec => []SoundLinks
  <1>1. Init => SoundLinks
    BY InitIInv, InitMap, InitLinks DEF SoundLinks
  <1>2. Remembers /\ SoundLinks /\ [Next]_vars => SoundLinks'
    BY NextIInv, NextMap, NextLinks, Remembered DEF SoundLinks, Remembers
  <1> QED
    BY <1>1, <1>2, RememberedAlways, PTL DEF Spec

(* When no call was cut short and no folder deleted, and the calls did not   *)
(* overlap, every path with bad extents has its record once no call is in    *)
(* progress: validate_manifest then finds no broken link.                    *)
THEOREM ExtentsHaveRecords == Spec => []CompletedCallsLeaveNoOrphans
  <1>1. Remembers /\ SoundLinks => CompletedCallsLeaveNoOrphans
    <2> SUFFICES ASSUME MapInv, LinksInv, Quiet, ~overlapped, faults = 0, ~unlinked, ~unnoticed,
                        NEW p \in OrphanExtents
                 PROVE  FALSE
      BY DEF CompletedCallsLeaveNoOrphans, Remembers, SoundLinks
    <2>1. p \in Paths /\ extents[p] # {} /\ ~Found(current, p)
      BY DEF OrphanExtents
    <2>2. ledger[p] = "absent"
      BY <2>1, KeyParts DEF MapInv, MapTrue, Found
    <2>3. NextBumps(program, p) \/ \E c \in Connections : Links(op[c], p)
      BY <2>1, <2>2 DEF LinksInv, Bare
    <2> QED
      BY <2>3 DEF Quiet, NextBumps, Links
  <1> QED
    BY <1>1, RememberedAlways, SoundLinksAlways, PTL

=============================================================================
