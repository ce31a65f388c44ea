---------------------------- MODULE Browser_proofs --------------------------
(***************************************************************************)
(* The manifest browser: proofs for every set of folders, files and        *)
(* contents, however listings, verdicts, Sync and the end of the window    *)
(* cross.                                                                  *)
(*                                                                         *)
(* That a verdict is shown on the row of its file is not inductive.  What  *)
(* makes it so is the generation: a message, a job and a posted call name  *)
(* their row by its number, and as long as the list they were made for is  *)
(* the one shown, the row with that number has their file; a list that     *)
(* comes later has another generation, an empty one has no such row.  The  *)
(* counter is bounded below by the verifications still queued, less one    *)
(* for a job of an earlier listing.                                        *)
(***************************************************************************)
EXTENDS Browser, Listings

Statuses == Verdicts \cup {"Unknown", "absent", "", "...", "new", "missing"}
Rows == [file : Files, seen : BOOLEAN, rec : Record \cup {NoRecord}, status : Statuses]
Messages == [gen : Nat, row : Nat, file : Files \cup {None}]
Calls == [gen : Nat, row : Nat, verdict : Verdicts, left : Int]
Jobs == [stage : {"wait", "hash", "judge", "bump", "report", "exited"}, gen : Nat, row : Nat,
         file : Files \cup {None}, digest : Digests \cup {None}, verdict : Verdicts \cup {None}]
Syncs == [stage : {"none", "hash", "act", "ask", "alert"}, rows : Seq(Rows), whole : BOOLEAN,
          digest : Digests \cup {None}, sticky : Answers \cup {None}]

Working == job.stage \in {"hash", "judge", "bump", "report"}

\* What was made for the list shown has the file of the row it names.
Placed(gen, row, file) == gen = epoch /\ row \in DOMAIN rows => rows[row].file = file

\* The entries of a queue that name a row: only its first may name none.
Verifies(q) == IF q # <<>> /\ q[1].row = 0 THEN Len(q) - 1 ELSE Len(q)

PlainTypes ==
    /\ disk \in [Files -> Digests \cup {None}]
    /\ given \in [Files -> SUBSET Verdicts]
    /\ folder \in Folders /\ selected \in Folders /\ picked \in Folders
    /\ epoch \in Nat
    /\ work \in {"idle", "run", "sync", "ok", "err"}
DbInv ==
    /\ DOMAIN db \subseteq Files
    /\ \A f \in DOMAIN db : db[f] \in Record /\ (db[f].status \in Verdicts => db[f].status \in given[f])
RowsInv ==
    /\ rows \in Seq(Rows)
    /\ \A i, j \in DOMAIN rows : rows[i].file = rows[j].file => i = j
    /\ \A i \in DOMAIN rows :
        /\ rows[i].status \in Verdicts => rows[i].status \in given[rows[i].file]
        /\ rows[i].rec.status \in Verdicts => rows[i].rec.status \in given[rows[i].file]
QueueInv ==
    /\ queue \in Seq(Messages)
    /\ \A k \in DOMAIN queue :
        /\ queue[k].gen <= epoch
        /\ k > 1 => queue[k].row > 0
        /\ queue[k].row > 0 => queue[k].file \in Files /\ Placed(queue[k].gen, queue[k].row, queue[k].file)
JobInv ==
    /\ job \in Jobs
    /\ Working => /\ job.gen <= epoch /\ job.row > 0 /\ job.file \in Files
                  /\ Placed(job.gen, job.row, job.file)
    /\ job.stage \in {"bump", "report"} => job.verdict \in Verdicts
    /\ job.stage = "report" /\ window # "undefined" => job.verdict \in given[job.file]
PostedInv ==
    /\ posted \in Seq(Calls)
    /\ \A k \in DOMAIN posted :
        /\ posted[k].gen <= epoch /\ posted[k].row > 0
        /\ posted[k].gen = epoch /\ posted[k].row \in DOMAIN rows =>
            posted[k].verdict \in given[rows[posted[k].row].file]
CountInv ==
    /\ pending \in Int /\ pending <= Cardinality(Files)
    /\ pending >= Verifies(queue) - (IF Working THEN 0 ELSE 1)
SyncInv ==
    /\ sync \in Syncs
    /\ sync.stage \in {"act", "ask", "alert"} => sync.rows # <<>>

IInv ==
    /\ PlainTypes
    /\ DbInv
    /\ RowsInv
    /\ QueueInv
    /\ JobInv
    /\ PostedInv
    /\ CountInv
    /\ SyncInv


-----------------------------------------------------------------------------
(* Lists *)

\* A sequence is a function, and a function on the first numbers is a sequence.
LEMMA Listed ==
    ASSUME NEW S, NEW n \in Nat, NEW q \in [1..n -> S]
    PROVE  q \in Seq(S) /\ Len(q) = n /\ DOMAIN q = 1..n
  <1>1. q \in Seq(S)
    BY SeqDef
  <1>2. DOMAIN q = 1..n /\ DOMAIN q = 1..Len(q) /\ Len(q) \in Nat
    BY <1>1, LenProperties
  <1>3. Len(q) = n
    BY <1>2
  <1> QED
    BY <1>1, <1>2, <1>3

LEMMA TailOf ==
    ASSUME NEW S, NEW q \in Seq(S), q # <<>>
    PROVE  /\ Head(q) = q[1] /\ q[1] \in S /\ 1 \in DOMAIN q /\ DOMAIN q = 1..Len(q)
           /\ Len(q) \in Nat \ {0} /\ Len(Tail(q)) = Len(q) - 1
           /\ Tail(q) \in Seq(S) /\ DOMAIN Tail(q) = 1..(Len(q) - 1)
           /\ \A k \in DOMAIN Tail(q) : k + 1 \in DOMAIN q /\ Tail(q)[k] = q[k + 1]
  <1>1. Len(q) \in Nat \ {0} /\ DOMAIN q = 1..Len(q)
    BY EmptySeq, LenProperties
  <1>2. Tail(q) \in Seq(S) /\ Len(Tail(q)) = Len(q) - 1 /\ Head(q) \in S
    BY HeadTailProperties
  <1>3. DOMAIN Tail(q) = 1..(Len(q) - 1)
    BY <1>2, LenProperties
  <1>4. \A k \in DOMAIN Tail(q) : k + 1 \in DOMAIN q /\ Tail(q)[k] = q[k + 1]
    BY <1>1, <1>2, <1>3, HeadTailProperties
  <1>5. Head(q) = q[1] /\ 1 \in DOMAIN q
    BY <1>1
  <1> QED
    BY <1>1, <1>2, <1>3, <1>4, <1>5

LEMMA InOrderLists ==
    ASSUME NEW S \in SUBSET Nat, IsFiniteSet(S)
    PROVE  /\ Cardinality(S) \in Nat /\ InOrder(S) \in [1..Cardinality(S) -> S]
           /\ \A i, j \in 1..Cardinality(S) : InOrder(S)[i] = InOrder(S)[j] => i = j
           /\ \A x \in S : \E i \in 1..Cardinality(S) : InOrder(S)[i] = x
  <1>1. InOrder(S) \in SetToSeqs(S)
    BY Increasing DEF InOrder
  <1> QED
    BY <1>1, Listing

\* A list with one row for a file is no longer than there are files.
LEMMA FewerThanFiles ==
    ASSUME NEW n \in Nat, NEW f \in [1..n -> Files], \A i, j \in 1..n : f[i] = f[j] => i = j
    PROVE  n <= Cardinality(Files)
  <1>1. IsFiniteSet(Files)
    BY BrowserAssumption
  <1> HIDE DEF Files
  <1> QED
    BY <1>1, DistinctElements

-----------------------------------------------------------------------------
(* Filling in the list *)

\* What the rows, the queue, the job and the posted calls say of each other.
ListInv ==
    /\ epoch \in Nat /\ work \in {"idle", "run", "sync", "ok", "err"}
    /\ RowsInv
    /\ QueueInv
    /\ JobInv
    /\ PostedInv
    /\ CountInv

\* The rows of a listing: one for a file, with the verdict of its record one that was given.
Sound(listed) ==
    /\ listed \in Seq(Rows)
    /\ \A i, j \in DOMAIN listed : listed[i].file = listed[j].file => i = j
    /\ \A i \in DOMAIN listed :
        listed[i].rec.status \in Verdicts => listed[i].rec.status \in given[listed[i].file]

LEMMA FillStep ==
    ASSUME IInv, Alive, NEW listed, Sound(listed), NEW verify \in BOOLEAN,
           NEW icon \in {"idle", "run", "sync", "ok", "err"}, Fill(listed, verify, icon),
           UNCHANGED <<job, posted, given>>
    PROVE  ListInv'
  <1> DEFINE S == {i \in DOMAIN listed : verify /\ Unverified(listed[i])}
             due == InOrder(S)
             n == Cardinality(S)
             m == Len(listed)
             verifies == [k \in DOMAIN due |-> [gen |-> epoch + 1, row |-> due[k], file |-> listed[due[k]].file]]
             first == [gen |-> epoch + 1, row |-> 0, file |-> None]
  <1>1. /\ epoch' = epoch + 1
        /\ rows' = [i \in DOMAIN listed |-> [listed[i] EXCEPT !.status = StatusText(listed[i])]]
        /\ Enqueue(verifies, icon)
    BY DEF Fill
  <1>2. /\ m \in Nat /\ DOMAIN listed = 1..m
        /\ \A i \in 1..m : listed[i] \in Rows
        /\ \A i, j \in 1..m : listed[i].file = listed[j].file => i = j
    BY LenProperties, ElementOfSeq DEF Sound
  <1>3. n \in Nat /\ due \in [1..n -> S] /\ \A i, j \in 1..n : due[i] = due[j] => i = j
    <2>1. S \in SUBSET (1..m) /\ IsFiniteSet(1..m)
      BY <1>2, FS_Interval
    <2>2. IsFiniteSet(S)
      BY <2>1, FS_Subset
    <2>3. S \in SUBSET Nat
      BY <1>2, <2>1
    <2> HIDE DEF S
    <2> QED
      BY <2>2, <2>3, InOrderLists
  <1>4. \A k \in 1..n : due[k] \in 1..m
    BY <1>2, <1>3
  <1> HIDE DEF due, n, m, S
  <1>5. epoch \in Nat /\ epoch' \in Nat
    BY <1>1 DEF IInv, PlainTypes
  <1>6. /\ verifies \in [1..n -> Messages]
        /\ \A k \in 1..n : /\ verifies[k].gen = epoch' /\ verifies[k].row = due[k]
                           /\ verifies[k].row \in 1..m
                           /\ verifies[k].file = listed[verifies[k].row].file
                           /\ verifies[k].file \in Files
    <2>1. DOMAIN due = 1..n
      BY <1>3
    <2>2. \A k \in 1..n : verifies[k] = [gen |-> epoch + 1, row |-> due[k], file |-> listed[due[k]].file]
      BY <2>1
    <2>3. \A k \in 1..n : listed[due[k]].file \in Files
      BY <1>2, <1>4 DEF Rows
    <2>4. ASSUME NEW k \in 1..n PROVE verifies[k] \in Messages
      <3>1. epoch + 1 \in Nat /\ due[k] \in Nat /\ listed[due[k]].file \in Files
        BY <1>2, <1>4, <1>5, <2>3
      <3>2. [gen |-> epoch + 1, row |-> due[k], file |-> listed[due[k]].file] \in Messages
        BY <3>1 DEF Messages
      <3> QED
        BY <2>2, <3>2
    <2>5. verifies \in [1..n -> Messages]
      BY <2>1, <2>4
    <2> QED
      BY <1>1, <1>4, <2>2, <2>3, <2>5
  <1> HIDE DEF verifies
  <1>7. verifies \in Seq(Messages) /\ Len(verifies) = n
    BY <1>3, <1>6, Listed
  <1>8. /\ queue' \in Seq(Messages) /\ Len(queue') = n + 1 /\ DOMAIN queue' = 1..(n + 1)
        /\ queue'[1].gen = epoch' /\ queue'[1].row = 0
        /\ \A k \in 2..(n + 1) : queue'[k] = verifies[k - 1]
    <2>1. queue' = <<first>> \o verifies
      BY <1>1 DEF Enqueue
    <2>2. first \in Messages
      BY <1>1, <1>5 DEF Messages
    <2>3. <<first>> \in Seq(Messages) /\ Len(<<first>>) = 1 /\ <<first>>[1] = first
      BY <2>2
    <2> HIDE DEF first
    <2>4. /\ queue' \in Seq(Messages) /\ Len(queue') = 1 + n
          /\ \A i \in 1..(1 + n) : queue'[i] = IF i <= 1 THEN <<first>>[i] ELSE verifies[i - 1]
      BY <1>7, <2>1, <2>3, ConcatProperties
    <2>5. DOMAIN queue' = 1..(n + 1)
      BY <1>3, <2>4, LenProperties
    <2>6. queue'[1] = first
      BY <1>3, <2>3, <2>4
    <2>7. first.gen = epoch' /\ first.row = 0
      BY <1>1 DEF first
    <2> QED
      BY <1>3, <2>4, <2>5, <2>6, <2>7
  <1>9. /\ DOMAIN rows' = 1..m
        /\ \A i \in 1..m : /\ rows'[i] \in Rows /\ rows'[i].file = listed[i].file
                           /\ rows'[i].rec = listed[i].rec /\ rows'[i].status = StatusText(listed[i])
    <2>1. DOMAIN rows' = 1..m
          /\ \A i \in 1..m : rows'[i] = [listed[i] EXCEPT !.status = StatusText(listed[i])]
      BY <1>1, <1>2
    <2>2. ASSUME NEW i \in 1..m PROVE StatusText(listed[i]) \in Statuses
      <3>1. listed[i].rec \in Record \cup {NoRecord}
        BY <1>2 DEF Rows
      <3>2. listed[i].rec.status \in Statuses
        <4>1. CASE listed[i].rec \in Record
          BY <4>1 DEF Record, Statuses
        <4>2. CASE listed[i].rec = NoRecord
          BY <4>2 DEF NoRecord, Statuses
        <4> QED
          BY <3>1, <4>1, <4>2
      <3> QED
        BY <3>2 DEF StatusText, Statuses
    <2> QED
      BY <1>2, <2>1, <2>2 DEF Rows
  <1>10. RowsInv'
    <2>1. rows' \in Seq(Rows)
      <3>1. rows' \in [1..m -> Rows]
        BY <1>1, <1>2, <1>9
      <3> QED
        BY <1>2, <3>1, Listed
    <2>2. \A i \in 1..m : rows'[i].status \in Verdicts => rows'[i].status = rows'[i].rec.status
      BY <1>9 DEF StatusText, Verdicts
    <2>3. \A i \in 1..m : rows'[i].rec.status \in Verdicts => rows'[i].rec.status \in given'[rows'[i].file]
      BY <1>2, <1>9 DEF Sound
    <2>4. \A i, j \in 1..m : rows'[i].file = rows'[j].file => i = j
      BY <1>2, <1>9
    <2> QED
      BY <1>9, <2>1, <2>2, <2>3, <2>4 DEF RowsInv
  <1>11. QueueInv'
    <2>1. ASSUME NEW k \in DOMAIN queue'
          PROVE  /\ queue'[k].gen <= epoch'
                 /\ k > 1 => queue'[k].row > 0
                 /\ queue'[k].row > 0 =>
                      queue'[k].file \in Files /\ Placed(queue[k].gen, queue[k].row, queue[k].file)'
      <3>1. CASE k = 1
        BY <1>5, <1>8, <3>1
      <3>2. CASE k \in 2..(n + 1)
        <4>1. k - 1 \in 1..n /\ queue'[k] = verifies[k - 1]
          BY <1>3, <1>8, <3>2
        <4>2. /\ queue'[k].gen = epoch' /\ queue'[k].row \in 1..m /\ queue'[k].file \in Files
              /\ queue'[k].file = listed[queue'[k].row].file
          BY <1>6, <4>1
        <4>3. rows'[queue'[k].row].file = queue'[k].file
          BY <1>9, <4>2
        <4> QED
          BY <1>2, <1>5, <4>2, <4>3 DEF Placed
      <3> QED
        BY <1>3, <1>8, <3>1, <3>2
    <2> QED
      BY <1>8, <2>1 DEF QueueInv
  <1>12. JobInv'
    <2>1. job \in Jobs /\ (Working => job.gen < epoch')
      BY <1>1, <1>5 DEF IInv, JobInv, Jobs
    <2>2. Working => ~(job.gen = epoch')
      BY <1>5, <2>1 DEF Jobs
    <2>3. Working => job.gen <= epoch'
      BY <1>5, <2>1 DEF Jobs
    <2>4. job.stage = "report" => job.verdict \in given[job.file]
      BY DEF IInv, JobInv, Alive
    <2> QED
      BY <2>2, <2>3, <2>4 DEF IInv, JobInv, Working, Placed
  <1>13. PostedInv'
    <2>1. \A k \in DOMAIN posted : posted[k] \in Calls /\ posted[k].gen <= epoch
      BY LenProperties, ElementOfSeq DEF IInv, PostedInv
    <2>2. \A k \in DOMAIN posted : posted[k].gen <= epoch' /\ ~(posted[k].gen = epoch')
      BY <1>1, <1>5, <2>1 DEF Calls
    <2> QED
      BY <2>2 DEF IInv, PostedInv
  <1>14. CountInv'
    <2>1. pending' = n
      BY <1>1, <1>7 DEF Enqueue, Counted
    <2>2. n <= Cardinality(Files)
      <3> DEFINE f == [k \in 1..n |-> listed[due[k]].file]
      <3>1. f \in [1..n -> Files]
        BY <1>2, <1>4 DEF Rows
      <3>2. \A i, j \in 1..n : f[i] = f[j] => i = j
        BY <1>2, <1>3, <1>4
      <3> HIDE DEF f
      <3> QED
        BY <1>3, <3>1, <3>2, FewerThanFiles
    <2>3. queue' # <<>>
      BY <1>3, <1>8, EmptySeq
    <2>4. Verifies(queue)' = n
      BY <1>3, <1>8, <2>3 DEF Verifies
    <2> QED
      BY <1>3, <2>1, <2>2, <2>4 DEF CountInv
  <1>15. work' \in {"idle", "run", "sync", "ok", "err"}
    BY <1>1 DEF Enqueue
  <1> QED
    BY <1>5, <1>10, <1>11, <1>12, <1>13, <1>14, <1>15 DEF ListInv

\* What the catalog answers for a file: its record, or none.
LEMMA Looked ==
    ASSUME IInv, NEW f \in Files
    PROVE  /\ Lookup(f) \in Record \cup {NoRecord} /\ Lookup(f).sha1 \in Digests \cup {None}
           /\ Lookup(f).status \in Verdicts => Lookup(f).status \in given[f]
  <1>1. Lookup(f) = NoRecord \/ (f \in DOMAIN db /\ Lookup(f) = db[f])
    BY DEF Lookup
  <1>2. CASE Lookup(f) = NoRecord
    BY <1>2 DEF NoRecord, Verdicts
  <1>3. CASE f \in DOMAIN db /\ Lookup(f) = db[f]
    BY <1>3 DEF IInv, DbInv, Record
  <1> QED
    BY <1>1, <1>2, <1>3

\* A listing, denied or not, whatever was listed and queued before.
LEMMA ShowFolderStep ==
    ASSUME IInv, Alive, NEW d \in Folders, NEW icon \in {"idle", "run", "sync", "ok", "err"},
           ShowFolder(d, icon), UNCHANGED <<job, posted, given>>
    PROVE  ListInv' /\ folder' \in Folders
  <1>1. CASE /\ rows' = <<>> /\ work' = "err"
             /\ UNCHANGED <<epoch, jobs>>
    <2>1. rows' \in Seq(Rows) /\ DOMAIN rows' = {}
      BY <1>1
    <2>2. RowsInv'
      BY <2>1 DEF RowsInv
    <2>3. queue' = queue /\ pending' = pending /\ epoch' = epoch /\ epoch \in Nat
      BY <1>1 DEF jobs, IInv, PlainTypes
    <2>4. QueueInv'
      BY <2>1, <2>3 DEF IInv, QueueInv, Placed
    <2>5. JobInv'
      BY <2>1, <2>3 DEF IInv, JobInv, Working, Placed, Alive
    <2>6. PostedInv'
      BY <2>1, <2>3 DEF IInv, PostedInv
    <2>7. CountInv'
      BY <2>3 DEF IInv, CountInv, Working, Verifies
    <2> QED
      BY <1>1, <2>2, <2>3, <2>4, <2>5, <2>6, <2>7 DEF ListInv, ShowFolder
  <1>2. ASSUME NEW seen \in {OnDisk(d), {}},
               NEW order \in SetToSeqs({f \in Content[d] : f \in seen \/ Lookup(f) # NoRecord}),
               Fill([i \in DOMAIN order |-> Row(order[i], seen)], TRUE, icon)
        PROVE  ListInv'
    <2> DEFINE T == {f \in Content[d] : f \in seen \/ Lookup(f) # NoRecord}
               n == Cardinality(T)
               listed == [i \in DOMAIN order |-> Row(order[i], seen)]
    <2>1. T \subseteq Files /\ IsFiniteSet(T)
      <3>1. Content[d] \subseteq Files /\ IsFiniteSet(Files)
        BY BrowserAssumption DEF Files
      <3>2. T \in SUBSET Files
        BY <3>1
      <3> HIDE DEF T, Files
      <3> QED
        BY <3>1, <3>2, FS_Subset
    <2>2. n \in Nat /\ order \in [1..n -> T] /\ \A i, j \in 1..n : order[i] = order[j] => i = j
      <3> HIDE DEF T
      <3>1. order \in SetToSeqs(T)
        BY DEF T
      <3> QED
        BY <2>1, <3>1, Listing
    <2> HIDE DEF n, T
    <2>3. ASSUME NEW i \in 1..n
          PROVE  /\ listed[i] \in Rows /\ listed[i].file = order[i]
                 /\ listed[i].rec.status \in Verdicts => listed[i].rec.status \in given[listed[i].file]
      <3>1. order[i] \in Files
        BY <2>1, <2>2
      <3>2. listed[i] = [file |-> order[i], seen |-> order[i] \in seen, rec |-> Lookup(order[i]), status |-> ""]
        BY <2>2 DEF Row
      <3>3. (order[i] \in seen) \in BOOLEAN /\ "" \in Statuses
        BY DEF Statuses
      <3>4. [file |-> order[i], seen |-> order[i] \in seen, rec |-> Lookup(order[i]), status |-> ""] \in Rows
        BY <3>1, <3>3, Looked DEF Rows
      <3>5. Row(order[i], seen).file = order[i] /\ Row(order[i], seen).rec = Lookup(order[i])
        BY DEF Row
      <3>6. listed[i] = Row(order[i], seen)
        BY <2>2
      <3> HIDE DEF listed
      <3> QED
        BY <3>1, <3>2, <3>4, <3>5, <3>6, Looked
    <2>4. listed \in [1..n -> Rows]
      BY <2>2, <2>3
    <2> HIDE DEF listed
    <2>5. listed \in Seq(Rows) /\ DOMAIN listed = 1..n
      BY <2>2, <2>4, Listed
    <2>6. Sound(listed)
      BY <2>2, <2>3, <2>5 DEF Sound
    <2>7. Fill(listed, TRUE, icon)
      BY <1>2 DEF listed
    <2> QED
      BY <2>6, <2>7, FillStep
  <1> QED
    BY <1>1, <1>2 DEF ShowFolder

\* A verdict that is recorded is one that was given.
LEMMA BumpStep ==
    ASSUME IInv, NEW f \in Files, NEW verdict \in Verdicts, NEW digest \in Digests \cup {None},
           BumpVerify(f, verdict, digest)
    PROVE  /\ DbInv'
           /\ given' \in [Files -> SUBSET Verdicts] /\ verdict \in given'[f]
           /\ \A g \in Files : given[g] \subseteq given'[g]
  <1> DEFINE rec == [sha1 |-> IF digest = None THEN Lookup(f).sha1 ELSE digest,
                     status |-> verdict, recent |-> TRUE]
  <1>1. given \in [Files -> SUBSET Verdicts] /\ given' = [given EXCEPT ![f] = @ \cup {verdict}]
    BY DEF IInv, PlainTypes, BumpVerify
  <1>2. /\ given' \in [Files -> SUBSET Verdicts] /\ verdict \in given'[f]
        /\ \A g \in Files : given[g] \subseteq given'[g]
    BY <1>1
  <1>3. rec \in Record /\ rec.status = verdict
    BY Looked DEF Record
  <1>4. db' = [g \in DOMAIN db \cup {f} |-> IF g = f THEN rec ELSE db[g]]
    BY DEF BumpVerify, Write
  <1> HIDE DEF rec
  <1>5. DOMAIN db' = DOMAIN db \cup {f} /\ DOMAIN db \subseteq Files
    BY <1>4 DEF IInv, DbInv
  <1>6. ASSUME NEW g \in DOMAIN db'
        PROVE  db'[g] \in Record /\ (db'[g].status \in Verdicts => db'[g].status \in given'[g])
    <2>1. CASE g = f
      BY <1>2, <1>3, <1>4, <2>1
    <2>2. CASE g # f
      <3>1. g \in DOMAIN db /\ db'[g] = db[g]
        BY <1>4, <2>2
      <3> QED
        BY <1>2, <1>5, <3>1 DEF IInv, DbInv
    <2> QED
      BY <2>1, <2>2
  <1> QED
    BY <1>2, <1>5, <1>6 DEF DbInv

\* The list stays as it is, and no verdict that was given is taken back.
LEMMA ListKept ==
    ASSUME IInv, Alive, UNCHANGED <<rows, epoch, queue, pending, job, posted>>,
           work' \in {"idle", "run", "sync", "ok", "err"},
           \A g \in Files : given[g] \subseteq given'[g]
    PROVE  ListInv'
  <1>1. epoch' \in Nat
    BY DEF IInv, PlainTypes
  <1>2. \A i \in DOMAIN rows : rows[i].file \in Files
    <2>1. rows \in Seq(Rows)
      BY DEF IInv, RowsInv
    <2>2. \A i \in DOMAIN rows : rows[i] \in Rows
      BY <2>1, LenProperties, ElementOfSeq
    <2> QED
      BY <2>2 DEF Rows
  <1>3. RowsInv'
    BY <1>2 DEF IInv, RowsInv
  <1>4. QueueInv'
    BY DEF IInv, QueueInv, Placed
  <1>5. JobInv'
    <2>1. job.stage = "report" => job.file \in Files /\ job.verdict \in given[job.file]
      BY DEF IInv, JobInv, Working, Alive
    <2>2. job.stage = "report" => job.verdict \in given'[job.file]
      BY <2>1
    <2> QED
      BY <2>2 DEF IInv, JobInv, Working, Placed
  <1>6. PostedInv'
    BY <1>2 DEF IInv, PostedInv
  <1>7. CountInv'
    BY DEF IInv, CountInv, Working, Verifies
  <1> QED
    BY <1>1, <1>3, <1>4, <1>5, <1>6, <1>7 DEF ListInv

\* The row Sync is at.
LEMMA SyncHead ==
    ASSUME IInv, sync.rows # <<>>
    PROVE  /\ Head(sync.rows) \in Rows /\ Head(sync.rows).file \in Files
           /\ Tail(sync.rows) \in Seq(Rows)
  <1>1. sync.rows \in Seq(Rows)
    BY DEF IInv, SyncInv, Syncs
  <1>2. Head(sync.rows) \in Rows /\ Tail(sync.rows) \in Seq(Rows)
    BY <1>1, HeadTailProperties
  <1> QED
    BY <1>2 DEF Rows

LEMMA NextRowStep ==
    ASSUME IInv, sync.rows # <<>>, NEW answer \in Answers \cup {None}, NextRow(answer)
    PROVE  SyncInv'
  BY SyncHead DEF NextRow, IInv, SyncInv, Syncs

LEMMA AlertStep ==
    ASSUME IInv, sync.rows # <<>>, NEW answer \in Answers \cup {None}, Alert(answer)
    PROVE  SyncInv'
  BY DEF Alert, IInv, SyncInv, Syncs

\* However a conflict is resolved, the records stay sound.
LEMMA ResolveStep ==
    ASSUME IInv, sync.rows # <<>>, NEW f \in Files, NEW answer \in Answers,
           NEW sticky \in Answers \cup {None}, Resolve(f, answer, sticky), UNCHANGED store
    PROVE  /\ disk' \in [Files -> Digests \cup {None}] /\ DbInv' /\ SyncInv'
           /\ given' \in [Files -> SUBSET Verdicts] /\ \A g \in Files : given[g] \subseteq given'[g]
  <1>1. /\ disk \in [Files -> Digests \cup {None}] /\ given \in [Files -> SUBSET Verdicts]
        /\ sync.digest \in Digests \cup {None}
    BY DEF IInv, PlainTypes, SyncInv, Syncs
  <1>2. CASE answer = "Delete"
    <2>1. UNCHANGED <<db, history>>
      BY <1>2 DEF Resolve
    <2>2. DbInv' /\ given' = given
      BY <2>1 DEF IInv, DbInv, history
    <2>3. disk' \in [Files -> Digests \cup {None}]
      BY <1>1, <1>2 DEF Resolve
    <2>4. SyncInv'
      BY <1>2, NextRowStep, AlertStep DEF Resolve
    <2> QED
      BY <1>1, <2>2, <2>3, <2>4
  <1>3. CASE answer = "Overwrite"
    <2>1. BumpVerify(f, "Ok", sync.digest) /\ NextRow(sticky) /\ disk' = disk
      BY <1>3 DEF Resolve
    <2> QED
      BY <1>1, <2>1, BumpStep, NextRowStep DEF Verdicts
  <1>4. CASE answer = "Ignore"
    <2>1. BumpVerify(f, "Fail", sync.digest) /\ NextRow(sticky) /\ disk' = disk
      BY <1>4 DEF Resolve
    <2> QED
      BY <1>1, <2>1, BumpStep, NextRowStep DEF Verdicts
  <1> QED
    BY <1>2, <1>3, <1>4 DEF Answers

-----------------------------------------------------------------------------
(* The inductive invariant *)

LEMMA VerifiesCount ==
    ASSUME NEW q \in Seq(Messages)
    PROVE  Verifies(q) \in Nat /\ Verifies(<<>>) = 0
  <1>1. Len(q) \in Nat /\ (q # <<>> => Len(q) > 0)
    BY LenProperties, EmptySeq
  <1> QED
    BY <1>1, EmptySeq DEF Verifies

\* What an action that leaves the records, the verdicts and the disk alone has to keep.
LEMMA RecordsKept ==
    ASSUME IInv, UNCHANGED <<disk, db, given>>, ListInv',
           folder' \in Folders, selected' \in Folders, picked' \in Folders
    PROVE  PlainTypes' /\ DbInv'
  BY DEF IInv, PlainTypes, DbInv, ListInv

LEMMA SyncKept ==
    ASSUME IInv, UNCHANGED sync PROVE SyncInv'
  BY DEF IInv, SyncInv

LEMMA TakeStep ==
    ASSUME IInv, Alive, Take
    PROVE  ListInv'
  <1>1. /\ job.stage = "wait" /\ queue # <<>> /\ queue' = Tail(queue)
        /\ UNCHANGED <<window, rows, epoch, work, pending, posted, given>>
    BY DEF Take, list, history
  <1>2. queue \in Seq(Messages)
    BY DEF IInv, QueueInv
  <1> DEFINE m == queue[1]
             n == Len(queue)
             next == [NoJob EXCEPT !.stage = "hash", !.gen = m.gen, !.row = m.row, !.file = m.file]
  <1>3. /\ Head(queue) = m /\ m \in Messages /\ DOMAIN queue = 1..n /\ n \in Nat \ {0}
        /\ queue' \in Seq(Messages) /\ DOMAIN queue' = 1..(n - 1) /\ Len(queue') = n - 1
        /\ \A k \in DOMAIN queue' : k + 1 \in DOMAIN queue /\ queue'[k] = queue[k + 1]
    BY <1>1, <1>2, TailOf
  <1>4. job' = IF m.row = 0 \/ m.gen # epoch THEN NoJob ELSE next
    BY <1>3 DEF Take
  <1>5. /\ m.gen \in Nat /\ m.row \in Nat /\ m.gen <= epoch
        /\ m.row > 0 => m.file \in Files /\ Placed(m.gen, m.row, m.file)
    <2>1. 1 \in DOMAIN queue
      BY <1>3
    <2> QED
      BY <1>3, <2>1 DEF Messages, IInv, QueueInv
  <1> HIDE DEF m, n
  <1>6. \A k \in DOMAIN queue' : queue'[k].row > 0
    BY <1>3 DEF IInv, QueueInv
  <1>7. QueueInv'
    <2>1. ASSUME NEW k \in DOMAIN queue'
          PROVE  /\ queue'[k].gen <= epoch'
                 /\ queue'[k].row > 0 =>
                      queue'[k].file \in Files /\ Placed(queue[k].gen, queue[k].row, queue[k].file)'
      <3>1. k + 1 \in DOMAIN queue /\ queue'[k] = queue[k + 1]
        BY <1>3
      <3> QED
        BY <1>1, <3>1 DEF IInv, QueueInv, Placed
    <2> QED
      BY <1>3, <1>6, <2>1 DEF QueueInv
  <1>8. JobInv' /\ (job'.stage = "wait" \/ (job'.stage = "hash" /\ m.row > 0))
    <2>1. CASE m.row = 0 \/ m.gen # epoch
      BY <1>4, <2>1 DEF NoJob, JobInv, Jobs, Working
    <2>2. CASE ~(m.row = 0 \/ m.gen # epoch)
      <3>1. job' = next /\ NoJob \in Jobs
        BY <1>4, <2>2 DEF NoJob, Jobs
      <3>2. m.row > 0 /\ m.file \in Files
        BY <1>5, <2>2
      <3>3. /\ job' \in Jobs /\ job'.stage = "hash" /\ job'.gen = m.gen /\ job'.row = m.row
            /\ job'.file = m.file
        BY <1>5, <3>1, <3>2 DEF Jobs
      <3> HIDE DEF next
      <3> QED
        BY <1>1, <1>5, <3>2, <3>3 DEF JobInv, Working, Placed
    <2> QED
      BY <2>1, <2>2
  <1>9. CountInv'
    <2>1. pending \in Int /\ pending <= Cardinality(Files) /\ pending >= Verifies(queue) - 1
      BY <1>1 DEF IInv, CountInv, Working
    <2>2. Verifies(queue) = IF m.row = 0 THEN n - 1 ELSE n
      BY <1>1 DEF Verifies, m, n
    <2>3. Verifies(queue)' = n - 1
      <3>1. queue' # <<>> => queue'[1].row # 0
        <4>1. queue' # <<>> => 1 \in DOMAIN queue'
          BY <1>3, EmptySeq
        <4> QED
          BY <1>6, <4>1
      <3> QED
        BY <1>3, <3>1 DEF Verifies
    <2> QED
      BY <1>1, <1>3, <1>8, <2>1, <2>2, <2>3 DEF CountInv, Working
  <1>10. RowsInv' /\ PostedInv' /\ epoch' \in Nat /\ work' \in {"idle", "run", "sync", "ok", "err"}
    BY <1>1 DEF IInv, RowsInv, PostedInv, PlainTypes
  <1> QED
    BY <1>7, <1>8, <1>9, <1>10 DEF ListInv

\* The job goes on with the same row and file: nothing else of the list changes.
LEMMA JobStep ==
    ASSUME IInv, Alive, UNCHANGED <<rows, epoch, work, queue, pending, posted>>,
           \A g \in Files : given[g] \subseteq given'[g], JobInv', Working' = Working
    PROVE  ListInv'
  <1>1. \A i \in DOMAIN rows : rows[i].file \in Files
    <2>1. rows \in Seq(Rows)
      BY DEF IInv, RowsInv
    <2>2. \A i \in DOMAIN rows : rows[i] \in Rows
      BY <2>1, LenProperties, ElementOfSeq
    <2> QED
      BY <2>2 DEF Rows
  <1>2. RowsInv' /\ PostedInv'
    BY <1>1 DEF IInv, RowsInv, PostedInv
  <1>3. QueueInv'
    BY DEF IInv, QueueInv, Placed
  <1>4. CountInv'
    BY DEF IInv, CountInv, Verifies
  <1> QED
    BY <1>2, <1>3, <1>4 DEF ListInv, IInv, PlainTypes

LEMMA HashStep ==
    ASSUME IInv, Alive, Hash
    PROVE  ListInv'
  <1>1. /\ job.stage = "hash" /\ UNCHANGED <<rows, epoch, work, queue, pending, posted, given, window>>
    BY DEF Hash, list, jobs, history
  <1>2. PICK digest \in Hashes(job.file) : job' = [job EXCEPT !.stage = "judge", !.digest = digest]
    BY DEF Hash
  <1>3. digest \in Digests \cup {None}
    <2>1. job.file \in Files /\ disk \in [Files -> Digests \cup {None}]
      BY <1>1 DEF IInv, JobInv, Working, PlainTypes
    <2> QED
      BY <2>1 DEF Hashes
  <1>4. job' \in Jobs
    BY <1>2, <1>3 DEF IInv, JobInv, Jobs
  <1>5. /\ job'.stage = "judge" /\ job'.gen = job.gen /\ job'.row = job.row
        /\ job'.file = job.file
    BY <1>2 DEF IInv, JobInv, Jobs
  <1>6. Working' = Working
    BY <1>1, <1>5 DEF Working
  <1>7. JobInv'
    BY <1>1, <1>4, <1>5, <1>6 DEF IInv, JobInv, Working, Placed
  <1> QED
    BY <1>1, <1>6, <1>7, JobStep

LEMMA JudgeStep ==
    ASSUME IInv, Alive, Judge
    PROVE  ListInv'
  <1>1. /\ job.stage = "judge" /\ UNCHANGED <<rows, epoch, work, queue, pending, posted, given, window>>
    BY DEF Judge, list, jobs, history
  <1>2. PICK verdict \in Verdicts : job' = [job EXCEPT !.stage = "bump", !.verdict = verdict]
    BY DEF Judge, Verdicts
  <1>3. job' \in Jobs
    BY <1>2 DEF IInv, JobInv, Jobs
  <1>4. /\ job'.stage = "bump" /\ job'.gen = job.gen /\ job'.row = job.row
        /\ job'.file = job.file /\ job'.verdict \in Verdicts
    BY <1>2 DEF IInv, JobInv, Jobs
  <1>5. Working' = Working
    BY <1>1, <1>4 DEF Working
  <1>6. JobInv'
    BY <1>1, <1>3, <1>4, <1>5 DEF IInv, JobInv, Working, Placed
  <1> QED
    BY <1>1, <1>5, <1>6, JobStep

\* The verdict is recorded, or the catalog was closed under it.
LEMMA WorkerBumpStep ==
    ASSUME IInv, Alive, Bump
    PROVE  ListInv' /\ PlainTypes' /\ DbInv'
  <1>1. /\ job.stage = "bump" /\ job' = [job EXCEPT !.stage = "report"]
        /\ UNCHANGED <<rows, epoch, work, folder, selected, picked, queue, pending, posted, disk>>
    BY DEF Bump, list, jobs, tree
  <1>2. job.verdict \in Verdicts /\ job.file \in Files /\ job.digest \in Digests \cup {None}
    BY <1>1 DEF IInv, JobInv, Jobs, Working
  <1>3. /\ DbInv' /\ given' \in [Files -> SUBSET Verdicts]
        /\ \A g \in Files : given[g] \subseteq given'[g]
        /\ window' # "undefined" => job.verdict \in given'[job.file]
    <2>1. CASE store
      <3>1. BumpVerify(job.file, job.verdict, job.digest)
        BY <2>1 DEF Bump
      <3> QED
        BY <1>2, <3>1, BumpStep
    <2>2. CASE ~store
      <3>1. window' = "undefined" /\ UNCHANGED <<db, given>>
        BY <2>2 DEF Bump
      <3> QED
        BY <3>1 DEF IInv, DbInv, PlainTypes
    <2> QED
      BY <2>1, <2>2
  <1>4. JobInv' /\ Working' = Working
    BY <1>1, <1>2, <1>3 DEF IInv, JobInv, Jobs, Working, Placed
  <1>5. ListInv'
    BY <1>1, <1>3, <1>4, JobStep
  <1> QED
    BY <1>1, <1>3, <1>5 DEF IInv, PlainTypes, ListInv

\* The verdict is posted for the row, and for its generation.
LEMMA ReportStep ==
    ASSUME IInv, Alive, Report
    PROVE  ListInv'
  <1> DEFINE call == [gen |-> job.gen, row |-> job.row, verdict |-> job.verdict, left |-> pending']
             n == Len(posted)
  <1>1. /\ job.stage = "report" /\ pending' = pending - 1 /\ posted' = Append(posted, call)
        /\ job' = NoJob /\ UNCHANGED <<rows, epoch, work, queue, given>>
    BY DEF Report, list, history
  <1>2. /\ job.gen \in Nat /\ job.row \in Nat /\ job.verdict \in Verdicts /\ pending' \in Int
        /\ job.gen <= epoch /\ job.row > 0 /\ Placed(job.gen, job.row, job.file)
        /\ job.verdict \in given[job.file]
    BY <1>1 DEF IInv, JobInv, Jobs, Working, CountInv, Alive
  <1>3. /\ call \in Calls /\ call.gen = job.gen /\ call.row = job.row /\ call.verdict = job.verdict
    BY <1>2 DEF Calls
  <1> HIDE DEF call
  <1>4. posted \in Seq(Calls) /\ n \in Nat /\ DOMAIN posted = 1..n
    BY LenProperties DEF IInv, PostedInv
  <1>5. /\ posted' \in Seq(Calls) /\ DOMAIN posted' = 1..(n + 1)
        /\ \A k \in 1..(n + 1) : posted'[k] = IF k = n + 1 THEN call ELSE posted[k]
    BY <1>1, <1>3, <1>4, AppendProperties
  <1> HIDE DEF n
  <1>6. PostedInv'
    <2>1. ASSUME NEW k \in DOMAIN posted'
          PROVE  /\ posted'[k].gen <= epoch' /\ posted'[k].row > 0
                 /\ posted'[k].gen = epoch' /\ posted'[k].row \in DOMAIN rows' =>
                      posted'[k].verdict \in given'[rows'[posted'[k].row].file]
      <3>1. CASE k = n + 1
        BY <1>1, <1>2, <1>3, <1>4, <1>5, <3>1 DEF Placed
      <3>2. CASE k # n + 1
        <4>1. k \in DOMAIN posted /\ posted'[k] = posted[k]
          BY <1>4, <1>5, <3>2
        <4> QED
          BY <1>1, <4>1 DEF IInv, PostedInv
      <3> QED
        BY <3>1, <3>2
    <2> QED
      BY <1>5, <2>1 DEF PostedInv
  <1>7. JobInv' /\ ~Working'
    BY <1>1 DEF NoJob, JobInv, Jobs, Working
  <1>8. CountInv'
    <2>1. Verifies(queue) \in Nat
      BY VerifiesCount DEF IInv, QueueInv
    <2>2. /\ pending \in Int /\ pending <= Cardinality(Files) /\ Cardinality(Files) \in Nat
          /\ pending >= Verifies(queue)
      BY <1>1, <2>1, BrowserAssumption, FS_CardinalityType DEF IInv, CountInv, Working
    <2>3. Verifies(queue)' = Verifies(queue)
      BY <1>1 DEF Verifies
    <2> QED
      BY <1>1, <1>7, <2>1, <2>2, <2>3 DEF CountInv
  <1>9. RowsInv' /\ QueueInv' /\ epoch' \in Nat /\ work' \in {"idle", "run", "sync", "ok", "err"}
    BY <1>1 DEF IInv, RowsInv, QueueInv, Placed, PlainTypes
  <1> QED
    BY <1>6, <1>7, <1>8, <1>9 DEF ListInv

LEMMA ExitStep ==
    ASSUME IInv, Alive, Exit
    PROVE  ListInv'
  <1>1. /\ job.stage = "wait" /\ job' = [job EXCEPT !.stage = "exited"]
        /\ UNCHANGED <<rows, epoch, work, queue, pending, posted, given, window>>
    BY DEF Exit, list, jobs, history
  <1>2. JobInv' /\ Working' = Working
    BY <1>1 DEF IInv, JobInv, Jobs, Working
  <1> QED
    BY <1>1, <1>2, JobStep

\* The same rows in another order.
LEMMA RearrangeStep ==
    ASSUME IInv, Alive, Rearrange
    PROVE  ListInv'
  <1>1. PICK order \in SetToSeqs(DOMAIN rows) : Fill([i \in DOMAIN order |-> rows[order[i]]], FALSE, work)
    BY DEF Rearrange
  <1> DEFINE n == Cardinality(DOMAIN rows)
             listed == [i \in DOMAIN order |-> rows[order[i]]]
  <1>2. /\ Len(rows) \in Nat /\ DOMAIN rows = 1..Len(rows)
        /\ \A i \in DOMAIN rows : rows[i] \in Rows
    <2>1. rows \in Seq(Rows)
      BY DEF IInv, RowsInv
    <2> QED
      BY <2>1, LenProperties, ElementOfSeq
  <1>3. /\ n \in Nat /\ order \in [1..n -> DOMAIN rows]
        /\ \A i, j \in 1..n : order[i] = order[j] => i = j
    <2>1. IsFiniteSet(DOMAIN rows)
      BY <1>2, FS_Interval
    <2> QED
      BY <1>1, <2>1, Listing
  <1> HIDE DEF n
  <1>4. DOMAIN order = 1..n /\ \A i \in 1..n : listed[i] = rows[order[i]]
    BY <1>3
  <1>5. listed \in [1..n -> Rows]
    BY <1>2, <1>3, <1>4
  <1>6. listed \in Seq(Rows) /\ DOMAIN listed = 1..n
    <2> HIDE DEF listed
    <2> QED
      BY <1>3, <1>5, Listed
  <1> HIDE DEF listed
  <1>7. Sound(listed)
    BY <1>3, <1>4, <1>6 DEF Sound, IInv, RowsInv
  <1>8. Fill(listed, FALSE, work)
    BY <1>1 DEF listed
  <1>9. UNCHANGED <<job, posted, given>> /\ work \in {"idle", "run", "sync", "ok", "err"}
    BY DEF Rearrange, worker, history, IInv, PlainTypes
  <1> QED
    BY <1>7, <1>8, <1>9, FillStep

\* A posted verdict is shown on the row it names when the list is still the one it was made for.
LEMMA ShowVerdictStep ==
    ASSUME IInv, Alive, ShowVerdict
    PROVE  ListInv'
  <1>1. /\ posted # <<>> /\ posted' = Tail(posted)
        /\ UNCHANGED <<window, epoch, queue, pending, job, given>>
    BY DEF ShowVerdict, jobs, history
  <1> DEFINE call == posted[1]
  <1>2. /\ Head(posted) = call /\ call \in Calls /\ 1 \in DOMAIN posted
        /\ posted' \in Seq(Calls)
        /\ \A k \in DOMAIN posted' : k + 1 \in DOMAIN posted /\ posted'[k] = posted[k + 1]
    <2>1. posted \in Seq(Calls)
      BY DEF IInv, PostedInv
    <2> QED
      BY <1>1, <2>1, TailOf
  <1>3. /\ call.row \in Nat /\ call.row > 0 /\ call.verdict \in Verdicts
        /\ call.gen = epoch /\ call.row \in DOMAIN rows => call.verdict \in given[rows[call.row].file]
    BY <1>2 DEF Calls, IInv, PostedInv
  <1>4. /\ rows \in Seq(Rows) /\ Len(rows) \in Nat /\ DOMAIN rows = 1..Len(rows)
        /\ \A i \in DOMAIN rows : rows[i] \in Rows
    <2>1. rows \in Seq(Rows)
      BY DEF IInv, RowsInv
    <2> QED
      BY <2>1, LenProperties, ElementOfSeq
  <1> HIDE DEF call
  <1>5. /\ RowsInv' /\ DOMAIN rows' = DOMAIN rows
        /\ \A i \in DOMAIN rows : rows'[i].file = rows[i].file
    <2>1. CASE Current(call)
      <3>1. rows' = [rows EXCEPT ![call.row].status = call.verdict]
        BY <1>2, <2>1 DEF ShowVerdict
      <3>2. call.row \in DOMAIN rows /\ call.verdict \in given[rows[call.row].file]
        BY <1>3, <1>4, <2>1 DEF Current
      <3>3. DOMAIN rows' = DOMAIN rows
        BY <3>1
      <3>4. /\ \A i \in DOMAIN rows : i # call.row => rows'[i] = rows[i]
            /\ rows'[call.row] = [rows[call.row] EXCEPT !.status = call.verdict]
        BY <3>1, <3>2
      <3>5. /\ rows'[call.row] \in Rows /\ rows'[call.row].file = rows[call.row].file
            /\ rows'[call.row].rec = rows[call.row].rec /\ rows'[call.row].status = call.verdict
        <4>1. rows[call.row] \in Rows /\ call.verdict \in Statuses
          BY <1>3, <1>4, <3>2 DEF Statuses
        <4> QED
          BY <3>4, <4>1 DEF Rows
      <3>6. \A i \in DOMAIN rows : rows'[i] \in Rows /\ rows'[i].file = rows[i].file
                                   /\ rows'[i].rec = rows[i].rec
        BY <1>4, <3>4, <3>5
      <3>7. rows' \in Seq(Rows)
        <4>1. rows' \in [1..Len(rows) -> Rows]
          BY <1>4, <3>1, <3>6
        <4> QED
          BY <1>4, <4>1, Listed
      <3>8. \A i \in DOMAIN rows : rows'[i].status \in Verdicts => rows'[i].status \in given[rows[i].file]
        BY <3>2, <3>4, <3>5 DEF IInv, RowsInv
      <3> QED
        BY <1>1, <3>3, <3>6, <3>7, <3>8 DEF IInv, RowsInv
    <2>2. CASE ~Current(call)
      <3>1. rows' = rows
        BY <1>2, <2>2 DEF ShowVerdict
      <3> QED
        BY <1>1, <3>1 DEF IInv, RowsInv
    <2> QED
      BY <2>1, <2>2
  <1>6. QueueInv'
    BY <1>1, <1>5 DEF IInv, QueueInv, Placed
  <1>7. JobInv'
    BY <1>1, <1>5 DEF IInv, JobInv, Working, Placed
  <1>8. PostedInv'
    BY <1>1, <1>2, <1>5 DEF IInv, PostedInv
  <1>9. CountInv'
    BY <1>1 DEF IInv, CountInv, Working, Verifies
  <1>10. work' \in {"idle", "run", "sync", "ok", "err"}
    BY <1>2 DEF ShowVerdict, IInv, PlainTypes
  <1> QED
    BY <1>1, <1>5, <1>6, <1>7, <1>8, <1>9, <1>10 DEF ListInv, IInv, PlainTypes

\* What was queued and posted goes with the window; the worker may still be at a job.
LEMMA DestroyStep ==
    ASSUME IInv, Alive, Destroy
    PROVE  ListInv'
  <1>1. /\ queue' = <<>> /\ posted' = <<>> /\ window' = "joining"
        /\ UNCHANGED <<rows, epoch, work, pending, job, given>>
    BY DEF Destroy, list, history
  <1>2. QueueInv' /\ PostedInv'
    BY <1>1, EmptySeq DEF QueueInv, PostedInv
  <1>3. JobInv'
    BY <1>1 DEF IInv, JobInv, Working, Placed, Alive
  <1>4. CountInv'
    <2>1. Verifies(queue) \in Nat /\ Verifies(<<>>) = 0
      BY VerifiesCount DEF IInv, QueueInv
    <2>2. Verifies(queue)' = 0
      BY <1>1, <2>1 DEF Verifies
    <2> QED
      BY <1>1, <2>1, <2>2 DEF IInv, CountInv, Working
  <1>5. RowsInv'
    BY <1>1 DEF IInv, RowsInv
  <1> QED
    BY <1>1, <1>2, <1>3, <1>4, <1>5 DEF ListInv, IInv, PlainTypes

\* Sync goes through rows of the list.
LEMMA StartSyncStep ==
    ASSUME IInv, Alive, StartSync
    PROVE  SyncInv'
  <1>1. PICK chosen \in SUBSET DOMAIN rows \ {{}}, whole \in BOOLEAN :
            sync' = [NoSync EXCEPT !.stage = "hash", !.whole = whole,
                        !.rows = [k \in DOMAIN InOrder(chosen) |-> rows[InOrder(chosen)[k]]]]
    BY DEF StartSync
  <1> DEFINE n == Cardinality(chosen)
             order == InOrder(chosen)
             listed == [k \in DOMAIN order |-> rows[order[k]]]
  <1>2. /\ Len(rows) \in Nat /\ DOMAIN rows = 1..Len(rows)
        /\ \A i \in DOMAIN rows : rows[i] \in Rows
    <2>1. rows \in Seq(Rows)
      BY DEF IInv, RowsInv
    <2> QED
      BY <2>1, LenProperties, ElementOfSeq
  <1>3. n \in Nat /\ order \in [1..n -> chosen]
    <2>1. chosen \in SUBSET (1..Len(rows)) /\ IsFiniteSet(1..Len(rows))
      BY <1>2, FS_Interval
    <2>2. IsFiniteSet(chosen) /\ chosen \in SUBSET Nat
      BY <2>1, FS_Subset
    <2> QED
      BY <2>2, InOrderLists
  <1> HIDE DEF order, n
  <1>4. listed \in [1..n -> Rows]
    BY <1>2, <1>3
  <1>5. sync' = [NoSync EXCEPT !.stage = "hash", !.whole = whole, !.rows = listed]
    BY <1>1 DEF order
  <1> HIDE DEF listed
  <1>6. listed \in Seq(Rows)
    BY <1>3, <1>4, Listed
  <1>7. NoSync \in Syncs
    BY EmptySeq DEF NoSync, Syncs
  <1> QED
    BY <1>5, <1>6, <1>7 DEF SyncInv, Syncs

LEMMA SyncHashStep ==
    ASSUME IInv, Alive, SyncHash
    PROVE  SyncInv'
  <1>1. PICK digest \in IF InFs(Head(sync.rows)) THEN Hashes(Head(sync.rows).file) ELSE {None} :
            sync' = [sync EXCEPT !.stage = "act", !.digest = digest]
    BY DEF SyncHash
  <1>2. sync.rows # <<>>
    BY DEF SyncHash
  <1>3. digest \in Digests \cup {None}
    <2>1. disk[Head(sync.rows).file] \in Digests \cup {None}
      BY <1>2, SyncHead DEF IInv, PlainTypes
    <2> QED
      BY <1>1, <2>1 DEF Hashes
  <1> QED
    BY <1>1, <1>2, <1>3 DEF IInv, SyncInv, Syncs

LEMMA SyncRowStep ==
    ASSUME IInv, Alive, SyncRow
    PROVE  /\ disk' \in [Files -> Digests \cup {None}] /\ DbInv' /\ SyncInv'
           /\ given' \in [Files -> SUBSET Verdicts] /\ \A g \in Files : given[g] \subseteq given'[g]
  <1> DEFINE r == Head(sync.rows)
             f == r.file
  <1>1. sync.stage = "act" /\ sync.rows # <<>> /\ store' = store
    BY DEF SyncRow, IInv, SyncInv
  <1>2. r \in Rows /\ f \in Files
    BY <1>1, SyncHead
  <1>3. /\ disk \in [Files -> Digests \cup {None}] /\ given \in [Files -> SUBSET Verdicts]
        /\ sync.sticky \in Answers \cup {None} /\ sync.digest \in Digests \cup {None}
    BY DEF IInv, PlainTypes, SyncInv, Syncs
  <1>4. CASE ~InFs(r)
    <2>1. /\ db' = [g \in DOMAIN db \ {f} |-> db[g]] /\ NextRow(sync.sticky) /\ UNCHANGED <<disk, given>>
      BY <1>4 DEF SyncRow
    <2>2. DbInv'
      BY <2>1 DEF IInv, DbInv
    <2> QED
      BY <1>1, <1>3, <2>1, <2>2, NextRowStep
  <1>5. CASE InFs(r) /\ sync.digest = None
    <2>1. (NextRow(sync.sticky) \/ Alert(sync.sticky)) /\ UNCHANGED <<disk, db, given>>
      BY <1>5 DEF SyncRow, history
    <2>2. DbInv'
      BY <2>1 DEF IInv, DbInv
    <2> QED
      BY <1>1, <1>3, <2>1, <2>2, NextRowStep, AlertStep
  <1>6. CASE InFs(r) /\ sync.digest # None /\ (~InDb(r) \/ ~Conflict(r))
    <2>1. BumpVerify(f, "Ok", sync.digest) /\ NextRow(sync.sticky) /\ disk' = disk
      BY <1>6 DEF SyncRow
    <2> QED
      BY <1>1, <1>2, <1>3, <2>1, BumpStep, NextRowStep DEF Verdicts
  <1>7. CASE InFs(r) /\ sync.digest # None /\ ~(~InDb(r) \/ ~Conflict(r)) /\ sync.sticky = None
    <2>1. sync' = [sync EXCEPT !.stage = "ask"] /\ UNCHANGED <<disk, db, given>>
      BY <1>7 DEF SyncRow, history
    <2>2. DbInv'
      BY <2>1 DEF IInv, DbInv
    <2>3. SyncInv'
      BY <1>1, <2>1 DEF IInv, SyncInv, Syncs
    <2> QED
      BY <1>3, <2>1, <2>2, <2>3
  <1>8. CASE InFs(r) /\ sync.digest # None /\ ~(~InDb(r) \/ ~Conflict(r)) /\ sync.sticky # None
    <2>1. Resolve(f, sync.sticky, sync.sticky) /\ sync.sticky \in Answers
      BY <1>3, <1>8 DEF SyncRow
    <2> QED
      BY <1>1, <1>2, <2>1, ResolveStep
  <1> QED
    BY <1>4, <1>5, <1>6, <1>7, <1>8

LEMMA InitIInv == Init => IInv
  <1> SUFFICES ASSUME Init PROVE IInv
    OBVIOUS
  <1>1. PlainTypes
    <2>1. disk \in [Files -> Digests \cup {None}] /\ given \in [Files -> SUBSET Verdicts]
      BY DEF Init
    <2> QED
      BY <2>1, BrowserAssumption DEF Init, PlainTypes
  <1>2. DbInv
    <2> PICK F \in SUBSET Files :
            db = [f \in F |-> [sha1 |-> Recorded, status |-> "Unknown", recent |-> FALSE]]
      BY DEF Init
    <2>1. [sha1 |-> Recorded, status |-> "Unknown", recent |-> FALSE] \in Record
      BY BrowserAssumption DEF Record
    <2>2. \A f \in F : db[f] \in Record /\ db[f].status = "Unknown"
      BY <2>1
    <2> QED
      BY <2>2 DEF DbInv, Verdicts
  <1>3. /\ rows \in Seq(Rows) /\ queue \in Seq(Messages) /\ posted \in Seq(Calls)
        /\ DOMAIN rows = {} /\ DOMAIN queue = {} /\ DOMAIN posted = {}
    BY EmptySeq DEF Init
  <1>4. RowsInv /\ QueueInv /\ PostedInv
    BY <1>3 DEF RowsInv, QueueInv, PostedInv
  <1>5. JobInv /\ ~Working
    BY DEF Init, NoJob, JobInv, Jobs, Working
  <1>6. CountInv
    <2>1. Cardinality(Files) \in Nat
      BY BrowserAssumption, FS_CardinalityType
    <2>2. Verifies(queue) = 0
      BY <1>3, VerifiesCount DEF Init
    <2> QED
      BY <1>5, <2>1, <2>2 DEF Init, CountInv
  <1>7. SyncInv
    <2>1. NoSync \in Syncs
      BY EmptySeq DEF NoSync, Syncs
    <2> QED
      BY <2>1 DEF Init, SyncInv, NoSync
  <1> QED
    BY <1>1, <1>2, <1>4, <1>5, <1>6, <1>7 DEF IInv

LEMMA StepIInv == IInv /\ [Next]_vars => IInv'
  <1> SUFFICES ASSUME IInv, [Next]_vars PROVE PlainTypes' /\ DbInv' /\ ListInv' /\ SyncInv'
    BY DEF IInv, ListInv
  <1> DEFINE Icons == {"idle", "run", "sync", "ok", "err"}
  <1>0. /\ folder \in Folders /\ selected \in Folders /\ picked \in Folders /\ work \in Icons
        /\ \A g \in Files : given[g] \subseteq given[g]
    BY DEF IInv, PlainTypes
  <1>1. CASE Alive /\ Open
    <2>1. ShowFolder(Root, work) /\ UNCHANGED <<disk, db, selected, picked, sync, job, posted, given>>
      BY <1>1 DEF Open, catalog, tree, worker, history
    <2>2. ListInv' /\ folder' \in Folders
      BY <1>0, <1>1, <2>1, ShowFolderStep, BrowserAssumption
    <2> QED
      BY <1>0, <2>1, <2>2, RecordsKept, SyncKept
  <1>2. ASSUME Alive, NEW d \in Folders, PickFolder(d)
        PROVE  PlainTypes' /\ DbInv' /\ ListInv' /\ SyncInv'
    <2>1. /\ UNCHANGED <<disk, db, rows, epoch, work, folder, sync, queue, pending, job, posted, given>>
          /\ selected' = d /\ picked' = d
      BY <1>2 DEF PickFolder, catalog, list, jobs, worker, history
    <2>2. ListInv'
      BY <1>0, <1>2, <2>1, ListKept
    <2> QED
      BY <1>0, <2>1, <2>2, RecordsKept, SyncKept
  <1>3. ASSUME Alive, NEW d \in Folders, OpenFolder(d)
        PROVE  PlainTypes' /\ DbInv' /\ ListInv' /\ SyncInv'
    <2>1. /\ ShowFolder(d, work) /\ UNCHANGED <<disk, db, picked, sync, job, posted, given>>
          /\ selected' = d
      BY <1>3 DEF OpenFolder, catalog, worker, history
    <2>2. ListInv' /\ folder' \in Folders
      BY <1>0, <1>3, <2>1, ShowFolderStep
    <2> QED
      BY <1>0, <2>1, <2>2, RecordsKept, SyncKept
  <1>4. CASE Alive /\ Rearrange
    <2>1. UNCHANGED <<disk, db, folder, selected, picked, sync, given>>
      BY <1>4 DEF Rearrange, catalog, tree, history
    <2> QED
      BY <1>0, <1>4, <2>1, RearrangeStep, RecordsKept, SyncKept
  <1>5. CASE Alive /\ StartSync
    <2>1. /\ UNCHANGED <<disk, db, rows, epoch, folder, selected, picked, queue, pending, job, posted, given>>
          /\ work' \in Icons
      BY <1>5 DEF StartSync, catalog, tree, jobs, worker, history
    <2>2. ListInv'
      BY <1>0, <1>5, <2>1, ListKept
    <2> QED
      BY <1>0, <1>5, <2>1, <2>2, StartSyncStep, RecordsKept
  <1>6. CASE Alive /\ Answer
    <2>1. PICK answer \in Answers : \E sticky \in {None, answer} :
            Resolve(Head(sync.rows).file, answer, sticky)
      BY <1>6 DEF Answer
    <2> PICK sticky \in {None, answer} : Resolve(Head(sync.rows).file, answer, sticky)
      BY <2>1
    <2>2. /\ UNCHANGED <<store, rows, epoch, work, folder, selected, picked, queue, pending, job, posted>>
          /\ sync.rows # <<>>
      BY <1>6 DEF Answer, list, tree, jobs, worker, IInv, SyncInv
    <2>3. /\ disk' \in [Files -> Digests \cup {None}] /\ DbInv' /\ SyncInv'
          /\ given' \in [Files -> SUBSET Verdicts] /\ \A g \in Files : given[g] \subseteq given'[g]
      BY <2>2, SyncHead, ResolveStep
    <2>4. ListInv'
      BY <1>0, <1>6, <2>2, <2>3, ListKept
    <2> QED
      BY <1>0, <2>2, <2>3, <2>4 DEF PlainTypes, ListInv
  <1>7. CASE Alive /\ Dismiss
    <2>1. /\ UNCHANGED <<disk, db, rows, epoch, work, folder, selected, picked, queue, pending, job, posted, given>>
          /\ NextRow(sync.sticky) /\ sync.rows # <<>> /\ sync.sticky \in Answers \cup {None}
      BY <1>7 DEF Dismiss, catalog, list, tree, jobs, worker, history, IInv, SyncInv, Syncs
    <2>2. ListInv'
      BY <1>0, <1>7, <2>1, ListKept
    <2> QED
      BY <1>0, <2>1, <2>2, NextRowStep, RecordsKept
  <1>8. CASE Alive /\ (Close \/ Joined)
    <2>1. UNCHANGED <<disk, db, rows, epoch, work, folder, selected, picked, sync, queue, pending, job, posted, given>>
      BY <1>8 DEF Close, Joined, catalog, list, tree, jobs, worker, history
    <2>2. ListInv'
      BY <1>0, <1>8, <2>1, ListKept
    <2> QED
      BY <1>0, <2>1, <2>2, RecordsKept, SyncKept
  <1>9. CASE Alive /\ SyncHash
    <2>1. UNCHANGED <<disk, db, rows, epoch, work, folder, selected, picked, queue, pending, job, posted, given>>
      BY <1>9 DEF SyncHash, catalog, list, tree, jobs, worker, history
    <2>2. ListInv'
      BY <1>0, <1>9, <2>1, ListKept
    <2> QED
      BY <1>0, <1>9, <2>1, <2>2, SyncHashStep, RecordsKept
  <1>10. CASE Alive /\ SyncRow
    <2>1. UNCHANGED <<rows, epoch, work, folder, selected, picked, queue, pending, job, posted>>
      BY <1>10 DEF SyncRow, list, tree, jobs, worker
    <2>2. /\ disk' \in [Files -> Digests \cup {None}] /\ DbInv' /\ SyncInv'
          /\ given' \in [Files -> SUBSET Verdicts] /\ \A g \in Files : given[g] \subseteq given'[g]
      BY <1>10, SyncRowStep
    <2>3. ListInv'
      BY <1>0, <1>10, <2>1, <2>2, ListKept
    <2> QED
      BY <1>0, <2>1, <2>2, <2>3 DEF PlainTypes, ListInv
  <1>11. CASE Alive /\ SyncDone
    <2>1. /\ ShowFolder(selected, "ok") /\ sync' = NoSync
          /\ UNCHANGED <<disk, db, selected, picked, job, posted, given>>
      BY <1>11 DEF SyncDone, catalog, tree, worker, history
    <2>2. ListInv' /\ folder' \in Folders
      BY <1>0, <1>11, <2>1, ShowFolderStep
    <2>3. SyncInv'
      BY <2>1, EmptySeq DEF NoSync, SyncInv, Syncs
    <2> QED
      BY <1>0, <2>1, <2>2, <2>3, RecordsKept
  <1>12. CASE Alive /\ ShowPicked
    <2>1. ShowFolder(picked, work) /\ UNCHANGED <<disk, db, selected, picked, sync, job, posted, given>>
      BY <1>12 DEF ShowPicked, catalog, worker, history
    <2>2. ListInv' /\ folder' \in Folders
      BY <1>0, <1>12, <2>1, ShowFolderStep
    <2> QED
      BY <1>0, <2>1, <2>2, RecordsKept, SyncKept
  <1>13. CASE Alive /\ ShowVerdict
    <2>1. UNCHANGED <<disk, db, folder, selected, picked, sync, given>>
      BY <1>13 DEF ShowVerdict, catalog, tree, history
    <2> QED
      BY <1>0, <1>13, <2>1, ShowVerdictStep, RecordsKept, SyncKept
  <1>14. CASE Alive /\ (Take \/ Hash \/ Judge \/ Report \/ Exit)
    <2>1. UNCHANGED <<disk, db, folder, selected, picked, sync, given>>
      BY <1>14 DEF Take, Hash, Judge, Report, Exit, catalog, list, tree, history
    <2>2. ListInv'
      BY <1>14, TakeStep, HashStep, JudgeStep, ReportStep, ExitStep
    <2> QED
      BY <1>0, <2>1, <2>2, RecordsKept, SyncKept
  <1>15. CASE Alive /\ Bump
    <2>1. UNCHANGED sync
      BY <1>15 DEF Bump
    <2> QED
      BY <1>15, <2>1, WorkerBumpStep, SyncKept
  <1>16. CASE Alive /\ Destroy
    <2>1. UNCHANGED <<disk, db, folder, selected, picked, sync, given>>
      BY <1>16 DEF Destroy, catalog, list, tree, history
    <2> QED
      BY <1>0, <1>16, <2>1, DestroyStep, RecordsKept, SyncKept
  <1>17. CASE Alive /\ Change
    <2>1. /\ UNCHANGED <<db, rows, epoch, work, folder, selected, picked, sync, queue, pending, job, posted, given>>
          /\ disk' \in [Files -> Digests \cup {None}]
      BY <1>17 DEF Change, list, tree, jobs, worker, IInv, PlainTypes
    <2>2. ListInv'
      BY <1>0, <1>17, <2>1, ListKept
    <2>3. DbInv'
      BY <2>1 DEF IInv, DbInv
    <2>4. PlainTypes'
      BY <2>1, <2>2 DEF IInv, PlainTypes, ListInv
    <2> QED
      BY <2>1, <2>2, <2>3, <2>4, SyncKept
  <1>18. CASE Alive /\ Expire
    <2>1. /\ UNCHANGED <<disk, rows, epoch, work, folder, selected, picked, sync, queue, pending, job, posted, given>>
          /\ db' = [f \in DOMAIN db |-> [db[f] EXCEPT !.recent = FALSE]]
      BY <1>18 DEF Expire, list, tree, jobs, worker, history
    <2>2. ListInv'
      BY <1>0, <1>18, <2>1, ListKept
    <2>3. DbInv'
      BY <2>1 DEF IInv, DbInv, Record
    <2>4. PlainTypes'
      BY <2>1, <2>2 DEF IInv, PlainTypes, ListInv
    <2> QED
      BY <2>1, <2>2, <2>3, <2>4, SyncKept
  <1>19. CASE UNCHANGED vars
    <2>1. UNCHANGED <<window, disk, db, rows, epoch, work, folder, selected, picked, sync, queue, pending, job,
                      posted, given>>
      BY <1>19 DEF vars, catalog, list, tree, jobs, worker, history
    <2>2. RowsInv' /\ QueueInv' /\ JobInv' /\ PostedInv' /\ CountInv'
      BY <2>1 DEF IInv, RowsInv, QueueInv, JobInv, PostedInv, CountInv, Working, Placed, Verifies
    <2>3. ListInv'
      BY <2>1, <2>2 DEF IInv, PlainTypes, ListInv
    <2> QED
      BY <1>0, <2>1, <2>3, RecordsKept, SyncKept
  <1> QED
    BY <1>1, <1>2, <1>3, <1>4, <1>5, <1>6, <1>7, <1>8, <1>9, <1>10, <1>11, <1>12, <1>13, <1>14, <1>15, <1>16,
       <1>17, <1>18, <1>19
    DEF Next, User, SyncStep, Worker

LEMMA SpecIInv == Spec => []IInv
  BY InitIInv, StepIInv, PTL DEF Spec

(***************************************************************************)
(* The list has one row for a file at all times, the records stay records  *)
(* of known files, and the counter of verifications never goes further     *)
(* than one below zero nor above the number of files, whatever listings,   *)
(* jobs of earlier listings and closing do to it.                          *)
(***************************************************************************)
THEOREM TypeCorrect == Spec => []TypeOK
  <1>1. IInv => TypeOK
    <2> SUFFICES ASSUME IInv PROVE TypeOK
      OBVIOUS
    <2>1. Range(db) \subseteq Record
      BY DEF IInv, DbInv, Range
    <2>2. pending \in -1..Cardinality(Files)
      <3>1. Verifies(queue) \in Nat
        BY VerifiesCount DEF IInv, QueueInv
      <3>2. Cardinality(Files) \in Nat
        BY BrowserAssumption, FS_CardinalityType
      <3> QED
        BY <3>1, <3>2 DEF IInv, CountInv
    <2>3. Cardinality({r.file : r \in Range(rows)}) = Len(rows)
      <3> DEFINE n == Len(rows)
                 f == [i \in 1..n |-> rows[i].file]
      <3>1. /\ n \in Nat /\ DOMAIN rows = 1..n /\ \A i \in 1..n : rows[i] \in Rows
        <4>1. rows \in Seq(Rows)
          BY DEF IInv, RowsInv
        <4> QED
          BY <4>1, LenProperties, ElementOfSeq
      <3>2. f \in [1..n -> Files] /\ \A i, j \in 1..n : f[i] = f[j] => i = j
        BY <3>1 DEF Rows, IInv, RowsInv
      <3> DEFINE T == {r.file : r \in Range(rows)}
      <3>3. f \in [1..n -> T] /\ \A t \in T : \E i \in 1..n : f[i] = t
        BY <3>1 DEF Range
      <3> HIDE DEF f, n, T
      <3>4. Cardinality(T) = n
        BY <3>1, <3>2, <3>3, CountedElements
      <3> QED
        BY <3>4 DEF n, T
    <2> QED
      BY <2>1, <2>2, <2>3 DEF IInv, PlainTypes, DbInv, TypeOK
  <1> QED
    BY <1>1, SpecIInv, PTL

(***************************************************************************)
(* A verdict is never shown on the row of another file: a posted call that *)
(* arrives after the rows were sorted, another folder was listed or a      *)
(* listing was denied is either dropped or meets the file it is about.     *)
(***************************************************************************)
THEOREM VerdictOnRightRow == Spec => []StatusOnRightRow
  <1>1. IInv => StatusOnRightRow
    BY DEF IInv, RowsInv, StatusOnRightRow
  <1> QED
    BY <1>1, SpecIInv, PTL

=============================================================================
