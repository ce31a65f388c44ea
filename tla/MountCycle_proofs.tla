--------------------------- MODULE MountCycle_proofs ------------------------
(***************************************************************************)
(* The mounts of a target over a whole run: proofs for every mount table,  *)
(* every nesting of mount points and every other program's mounts.         *)
(*                                                                         *)
(* A loop of umounts works by path, and which mount a path reaches depends *)
(* on what covers it, so the mounts taken off are not the recorded ones one*)
(* by one.  The inductive invariant therefore counts: each mount still in  *)
(* the table has an entry of the queue of its own with its path.  At the   *)
(* end of a loop that never failed the table is empty; and as the queue    *)
(* goes from long paths to short ones, nothing lies below its first entry. *)
(***************************************************************************)
EXTENDS MountCycle, Listings

Matching(t, q) ==
    {f \in [DOMAIN t -> DOMAIN q] :
        /\ \A i, j \in DOMAIN t : f[i] = f[j] => i = j
        /\ \A i \in DOMAIN t : t[i].at = q[f[i]].at}

LongFirst(q) == \A i, j \in DOMAIN q : i < j => Length[q[i].at] >= Length[q[j].at]

Hashing == pc \in {"readonly", "sha1"}

\* What each phase of the run knows of the table, the queue and the mounts in use.
UnmountInv == pc = "unmount" => LongFirst(queue) /\ Matching(table, queue) # {}
ForeignInv == pc \in {"rewrite", "prepare"} => ToSet(table) \subseteq Foreign
ReadOnlyInv ==
    /\ Hashing => \A i \in DOMAIN table : table[i] \in Foreign \/ table[i].ro
    /\ pc = "readonly" => \A i \in DOMAIN queue : queue[i].ro
ActiveInv ==
    /\ active # <<>> => pc \in {"sha1", "restore", "undo", "remount", "over"}
    /\ pc = "sha1" => active = table
    /\ pc = "restore" /\ active # <<>> => active = table
UndoInv ==
    pc = "undo" => LongFirst(queue) /\ ("umount" \notin failures => Matching(table, queue) # {})
RemountInv ==
    pc = "remount" /\ failures = {} =>
        /\ Len(table) + Len(queue) = Len(original)
        /\ \A i \in DOMAIN table : table[i] = LastFirst(original)[i]
        /\ \A k \in DOMAIN queue : queue[k] = LastFirst(original)[Len(table) + k]

IInv ==
    /\ TypeOK
    /\ UnmountInv
    /\ ForeignInv
    /\ ReadOnlyInv
    /\ ActiveInv
    /\ UndoInv
    /\ RemountInv
    /\ IdleUnmountsPlainly
    /\ RestoredUnlessFailed

-----------------------------------------------------------------------------
(* The mount table and the queue *)

LEMMA DomainFinite ==
    ASSUME NEW t \in Seq(Mounts)
    PROVE  /\ Len(t) \in Nat /\ DOMAIN t = 1..Len(t) /\ IsFiniteSet(DOMAIN t)
           /\ \A i \in DOMAIN t : t[i] \in Mounts
  <1>1. Len(t) \in Nat /\ DOMAIN t = 1..Len(t)
    BY LenProperties
  <1>2. IsFiniteSet(DOMAIN t)
    BY <1>1, FS_Interval
  <1>3. \A i \in DOMAIN t : t[i] \in Mounts
    BY <1>1, ElementOfSeq
  <1> QED
    BY <1>1, <1>2, <1>3

\* Taking mounts off a table leaves the others, each once.
LEMMA WithoutKeeps ==
    ASSUME NEW t \in Seq(Mounts), NEW gone
    PROVE  /\ Without(t, gone) \in Seq(Mounts)
           /\ \E e \in [DOMAIN Without(t, gone) -> DOMAIN t \ gone] :
                /\ \A i, j \in DOMAIN Without(t, gone) : e[i] = e[j] => i = j
                /\ \A i \in DOMAIN Without(t, gone) : Without(t, gone)[i] = t[e[i]]
  <1> DEFINE keep == DOMAIN t \ gone
             sorted(s) == \A i, j \in DOMAIN s : i < j => s[i] < s[j]
             kept == CHOOSE s \in SetToSeqs(keep) : sorted(s)
             n == Cardinality(keep)
  <1>1. keep \in SUBSET Nat /\ IsFiniteSet(keep)
    <2>1. keep \in SUBSET DOMAIN t
      OBVIOUS
    <2>2. IsFiniteSet(keep)
      BY <2>1, DomainFinite, FS_Subset
    <2>3. keep \subseteq Nat
      BY DomainFinite
    <2> QED
      BY <2>2, <2>3
  <1>2. kept \in SetToSeqs(keep)
    <2>1. \E s \in SetToSeqs(keep) : sorted(s)
      <3> HIDE DEF keep
      <3> QED
        BY <1>1, Increasing
    <2> QED
      BY <2>1
  <1>3. /\ n \in Nat /\ kept \in [1..n -> keep]
        /\ \A i, j \in 1..n : kept[i] = kept[j] => i = j
    <2> HIDE DEF keep, kept
    <2> QED
      BY <1>1, <1>2, Listing
  <1>4. Without(t, gone) = [k \in DOMAIN kept |-> t[kept[k]]]
    BY DEF Without
  <1> HIDE DEF kept, n
  <1>5. DOMAIN kept = 1..n
    BY <1>3
  <1>6. \A k \in 1..n : kept[k] \in DOMAIN t \ gone /\ t[kept[k]] \in Mounts
    BY <1>3, DomainFinite
  <1>7. Without(t, gone) \in [1..n -> Mounts]
    BY <1>4, <1>5, <1>6
  <1>8. Without(t, gone) \in Seq(Mounts)
    BY <1>3, <1>7, SeqDef
  <1>9. DOMAIN Without(t, gone) = 1..n /\ kept \in [1..n -> DOMAIN t \ gone]
    BY <1>3, <1>4, <1>5
  <1>10. \A i \in 1..n : Without(t, gone)[i] = t[kept[i]]
    BY <1>4, <1>5
  <1>11. \E e \in [DOMAIN Without(t, gone) -> DOMAIN t \ gone] :
            /\ \A i, j \in DOMAIN Without(t, gone) : e[i] = e[j] => i = j
            /\ \A i \in DOMAIN Without(t, gone) : Without(t, gone)[i] = t[e[i]]
    <2>1. kept \in [DOMAIN Without(t, gone) -> DOMAIN t \ gone]
      BY <1>9
    <2>2. /\ \A i, j \in DOMAIN Without(t, gone) : kept[i] = kept[j] => i = j
          /\ \A i \in DOMAIN Without(t, gone) : Without(t, gone)[i] = t[kept[i]]
      BY <1>3, <1>9, <1>10
    <2> QED
      BY <2>1, <2>2
  <1> QED
    BY <1>8, <1>11

\* The entries after the first one.
LEMMA TailOf ==
    ASSUME NEW q \in Seq(Mounts), q # <<>>
    PROVE  /\ Head(q) = q[1] /\ q[1] \in Mounts /\ 1 \in DOMAIN q
           /\ Tail(q) \in Seq(Mounts) /\ DOMAIN Tail(q) = 1..(Len(q) - 1)
           /\ \A k \in DOMAIN q : k = 1 \/ k - 1 \in DOMAIN Tail(q)
           /\ \A k \in DOMAIN Tail(q) : k + 1 \in DOMAIN q /\ Tail(q)[k] = q[k + 1]
  <1>1. Len(q) \in Nat /\ Len(q) # 0 /\ DOMAIN q = 1..Len(q)
    BY DomainFinite, EmptySeq
  <1>2. Tail(q) \in Seq(Mounts) /\ Len(Tail(q)) = Len(q) - 1
    BY HeadTailProperties
  <1>3. DOMAIN Tail(q) = 1..(Len(q) - 1)
    BY <1>2, DomainFinite
  <1>4. \A k \in DOMAIN Tail(q) : Tail(q)[k] = q[k + 1]
    BY <1>2, <1>3, HeadTailProperties
  <1>5. Head(q) = q[1] /\ 1 \in DOMAIN q
    BY <1>1
  <1>6. q[1] \in Mounts
    BY <1>5, DomainFinite
  <1> QED
    BY <1>1, <1>2, <1>3, <1>4, <1>5, <1>6

LEMMA TailLongFirst ==
    ASSUME NEW q \in Seq(Mounts), q # <<>>, LongFirst(q)
    PROVE  LongFirst(Tail(q))
  <1> SUFFICES ASSUME NEW i \in DOMAIN Tail(q), NEW j \in DOMAIN Tail(q), i < j
               PROVE  Length[Tail(q)[i].at] >= Length[Tail(q)[j].at]
    BY DEF LongFirst
  <1>1. i \in Int /\ j \in Int
    BY TailOf, DomainFinite
  <1>2. i + 1 \in DOMAIN q /\ j + 1 \in DOMAIN q /\ i + 1 < j + 1
    BY <1>1, TailOf
  <1>3. Length[q[i + 1].at] >= Length[q[j + 1].at]
    BY <1>2 DEF LongFirst
  <1> QED
    BY <1>3, TailOf

\* One umount at the path of the first entry: whichever mount it takes off, the
\* mounts that are left still have entries of their own.  The mount that had the
\* first entry, if it is not the one that went, takes over the entry of that one.
LEMMA MatchUmount ==
    ASSUME NEW t \in Seq(Mounts), NEW q \in Seq(Mounts), q # <<>>,
           Matching(t, q) # {},
           NEW gone, NEW i \in DOMAIN t, i \in gone, t[i].at = Head(q).at
    PROVE  Matching(Without(t, gone), Tail(q)) # {}
  <1> PICK f \in Matching(t, q) : TRUE
    OBVIOUS
  <1>1. /\ f \in [DOMAIN t -> DOMAIN q]
        /\ \A a, b \in DOMAIN t : f[a] = f[b] => a = b
        /\ \A a \in DOMAIN t : t[a].at = q[f[a]].at
    BY DEF Matching
  <1> DEFINE left == Without(t, gone)
  <1>2. left \in Seq(Mounts)
    BY WithoutKeeps
  <1>3. PICK e \in [DOMAIN left -> DOMAIN t \ gone] :
            /\ \A a, b \in DOMAIN left : e[a] = e[b] => a = b
            /\ \A a \in DOMAIN left : left[a] = t[e[a]]
    BY WithoutKeeps
  <1> HIDE DEF left
  <1> DEFINE entry(a) == IF f[e[a]] = 1 THEN f[i] ELSE f[e[a]]
             g == [a \in DOMAIN left |-> entry(a) - 1]
  <1>4. \A a \in DOMAIN left : e[a] \in DOMAIN t /\ e[a] # i /\ f[e[a]] \in DOMAIN q /\ f[i] \in DOMAIN q
    BY <1>1, <1>3
  <1>5. \A a \in DOMAIN left : f[e[a]] # f[i]
    BY <1>1, <1>4
  <1>6. ASSUME NEW a \in DOMAIN left
        PROVE  entry(a) \in DOMAIN q /\ entry(a) # 1
    BY <1>4, <1>5
  <1>7. ASSUME NEW a \in DOMAIN left
        PROVE  left[a].at = q[entry(a)].at
    <2>1. left[a].at = q[f[e[a]]].at
      BY <1>1, <1>3, <1>4
    <2>2. q[f[i]].at = q[1].at
      BY <1>1, TailOf
    <2> QED
      BY <2>1, <2>2
  <1>8. ASSUME NEW a \in DOMAIN left, NEW b \in DOMAIN left, entry(a) = entry(b)
        PROVE  a = b
    <2>1. f[e[a]] = f[e[b]]
      BY <1>5, <1>8
    <2>2. e[a] = e[b]
      BY <1>1, <1>4, <2>1
    <2> QED
      BY <1>3, <2>2
  <1> HIDE DEF entry
  <1>9. DOMAIN q \subseteq Int
    BY DomainFinite
  <1>10. g \in [DOMAIN left -> DOMAIN Tail(q)]
    BY <1>6, TailOf
  <1>11. \A a, b \in DOMAIN left : g[a] = g[b] => a = b
    <2> SUFFICES ASSUME NEW a \in DOMAIN left, NEW b \in DOMAIN left, g[a] = g[b] PROVE a = b
      OBVIOUS
    <2>1. entry(a) \in Int /\ entry(b) \in Int /\ entry(a) - 1 = entry(b) - 1
      BY <1>6, <1>9
    <2>2. entry(a) = entry(b)
      BY <2>1
    <2> QED
      BY <1>8, <2>2
  <1>12. \A a \in DOMAIN left : left[a].at = Tail(q)[g[a]].at
    <2> SUFFICES ASSUME NEW a \in DOMAIN left PROVE left[a].at = Tail(q)[g[a]].at
      OBVIOUS
    <2>1. g[a] \in DOMAIN Tail(q) /\ g[a] = entry(a) - 1 /\ entry(a) \in Int
      BY <1>6, <1>9, <1>10
    <2>2. Tail(q)[g[a]] = q[g[a] + 1] /\ g[a] + 1 = entry(a)
      BY <2>1, TailOf
    <2> QED
      BY <1>7, <2>2
  <1>13. g \in Matching(left, Tail(q))
    BY <1>10, <1>11, <1>12 DEF Matching
  <1> QED
    BY <1>13 DEF left

\* With nothing left to unmount, nothing is mounted.
LEMMA MatchEmpty ==
    ASSUME NEW t \in Seq(Mounts), Matching(t, <<>>) # {}
    PROVE  t = <<>>
  <1> PICK f \in [DOMAIN t -> DOMAIN <<>>] : TRUE
    BY DEF Matching
  <1>1. DOMAIN <<>> = {}
    OBVIOUS
  <1>2. DOMAIN t = {}
    BY <1>1
  <1>3. Len(t) = 0
    BY <1>2, DomainFinite
  <1> QED
    BY <1>3, EmptySeq

\* No mount lies below the one reached by the first entry's path.
LEMMA NothingBelow ==
    ASSUME NEW t \in Seq(Mounts), NEW q \in Seq(Mounts), q # <<>>,
           LongFirst(q), Matching(t, q) # {},
           NEW i \in DOMAIN t, t[i].at = Head(q).at
    PROVE  Under(t, i) = {}
  <1> SUFFICES ASSUME NEW j \in Under(t, i) PROVE FALSE
    OBVIOUS
  <1>1. j \in DOMAIN t /\ <<t[j].at, t[i].at>> \in Below
    BY DomainFinite DEF Under
  <1> PICK f \in Matching(t, q) : TRUE
    OBVIOUS
  <1>2. f[j] \in DOMAIN q /\ t[j].at = q[f[j]].at
    BY <1>1 DEF Matching
  <1>3. t[i] \in Mounts /\ t[j] \in Mounts
    BY <1>1, DomainFinite
  <1>4. Length[t[j].at] > Length[t[i].at] /\ Length[t[j].at] \in Nat /\ Length[t[i].at] \in Nat
    BY <1>1, <1>3, MountAssumption DEF Mounts
  <1>5. Length[q[1].at] >= Length[q[f[j]].at]
    <2>1. CASE f[j] = 1
      BY <1>2, <1>4, <2>1
    <2>2. CASE f[j] # 1
      <3>1. 1 \in DOMAIN q /\ 1 < f[j]
        BY <1>2, <2>2, TailOf, DomainFinite
      <3> QED
        BY <1>2, <3>1 DEF LongFirst
    <2> QED
      BY <2>1, <2>2
  <1> QED
    BY <1>2, <1>4, <1>5, TailOf

\* An order that unmount_device or restore_mount_state works in: innermost paths
\* first, with one entry for each mount.
LEMMA InnermostOrder ==
    ASSUME NEW t \in Seq(Mounts), NEW q \in Innermost(t)
    PROVE  q \in Seq(Mounts) /\ LongFirst(q) /\ Matching(t, q) # {}
  <1> DEFINE n == Cardinality(DOMAIN t)
  <1>1. PICK s \in SetToSeqs(DOMAIN t) :
            /\ \A i, j \in DOMAIN s : i < j => Length[t[s[i]].at] >= Length[t[s[j]].at]
            /\ q = [k \in DOMAIN s |-> t[s[k]]]
    BY DEF Innermost, Arranged, Orders
  <1>2. /\ n \in Nat /\ s \in [1..n -> DOMAIN t]
        /\ \A i, j \in 1..n : s[i] = s[j] => i = j
        /\ \A x \in DOMAIN t : \E i \in 1..n : s[i] = x
    BY DomainFinite, Listing
  <1> HIDE DEF n
  <1>3. DOMAIN q = 1..n /\ \A k \in 1..n : q[k] = t[s[k]]
    BY <1>1, <1>2
  <1>4. q \in [1..n -> Mounts]
    BY <1>1, <1>2, DomainFinite
  <1>5. q \in Seq(Mounts)
    BY <1>2, <1>4, SeqDef
  <1>6. LongFirst(q)
    BY <1>1, <1>2, <1>3 DEF LongFirst
  <1> DEFINE f == [x \in DOMAIN t |-> CHOOSE k \in 1..n : s[k] = x]
  <1>7. \A x \in DOMAIN t : f[x] \in 1..n /\ s[f[x]] = x
    BY <1>2
  <1> HIDE DEF f
  <1>8. f \in [DOMAIN t -> DOMAIN q]
    BY <1>3, <1>7 DEF f
  <1>9. f \in Matching(t, q)
    BY <1>3, <1>7, <1>8 DEF Matching
  <1> QED
    BY <1>5, <1>6, <1>9

\* What remount_records goes through: as many mounts as were recorded, the last
\* one first, each with its device, path and ro or rw.
LEMMA LastFirstOf ==
    ASSUME NEW q \in Seq(Mounts)
    PROVE  /\ LastFirst(q) \in Seq(Mounts) /\ Len(LastFirst(q)) = Len(q)
           /\ \A i \in DOMAIN q : (Len(q) - i) + 1 \in DOMAIN q
           /\ \A i \in DOMAIN q : LastFirst(q)[i] = Bare(q[(Len(q) - i) + 1])
           /\ \A i \in DOMAIN q : LastFirst(q)[(Len(q) - i) + 1] = Bare(q[i])
  <1> DEFINE n == Len(q)
             b == [i \in DOMAIN q |-> Bare(q[i])]
             r == Reverse(b)
  <1>1. n \in Nat /\ DOMAIN q = 1..n /\ \A i \in 1..n : q[i] \in Mounts
    BY DomainFinite
  <1>2. \A m \in Mounts : Bare(m) \in Mounts
    BY DEF Bare, Mounts
  <1>3. b \in [1..n -> Mounts]
    BY <1>1, <1>2
  <1>4. b \in Seq(Mounts) /\ Len(b) = n
    <2>1. b \in Seq(Mounts)
      BY <1>1, <1>3, SeqDef
    <2>2. DOMAIN b = 1..n /\ DOMAIN b = 1..Len(b) /\ Len(b) \in Nat
      BY <1>3, <2>1, DomainFinite
    <2> HIDE DEF b, n
    <2> QED
      BY <1>1, <2>1, <2>2
  <1>5. r = [i \in 1..n |-> b[(n - i) + 1]]
    <2> HIDE DEF b, n
    <2> QED
      BY <1>4 DEF Reverse
  <1>6. \A i \in 1..n : (n - i) + 1 \in 1..n /\ i = (n - ((n - i) + 1)) + 1
    <2> HIDE DEF n
    <2> QED
      BY <1>1
  <1>7. \A i \in 1..n : b[i] = Bare(q[i])
    BY <1>1
  <1>8. \A i \in 1..n : r[i] = Bare(q[(n - i) + 1]) /\ r[(n - i) + 1] = Bare(q[i])
    <2> HIDE DEF b, r, n
    <2> QED
      BY <1>5, <1>6, <1>7
  <1>9. r \in Seq(Mounts) /\ Len(r) = n
    <2> HIDE DEF b, r, n
    <2>1. r \in [1..n -> Mounts]
      BY <1>3, <1>5, <1>6
    <2>2. r \in Seq(Mounts)
      BY <1>1, <2>1, SeqDef
    <2>3. DOMAIN r = 1..n /\ DOMAIN r = 1..Len(r) /\ Len(r) \in Nat
      BY <2>1, <2>2, DomainFinite
    <2> QED
      BY <1>1, <2>2, <2>3
  <1>10. LastFirst(q) = r
    BY DEF LastFirst
  <1> HIDE DEF r, n
  <1> QED
    BY <1>1, <1>6, <1>8, <1>9, <1>10 DEF n

-----------------------------------------------------------------------------
(* The steps of a run *)

\* What one umount does to the table and to the queue it works off.
LEMMA UmountStep ==
    ASSUME TypeOK, queue # <<>>, Umount(Head(queue).at)
    PROVE  /\ table' \in Seq(Mounts)
           /\ Matching(table, queue) # {} => Matching(table', Tail(queue)) # {}
           /\ LongFirst(queue) /\ Matching(table, queue) # {} /\ busy = {} => lazy' = lazy
           /\ lazy' \in BOOLEAN
  <1> USE DEF TypeOK
  <1>1. PICK i \in On(table, Head(queue).at), gone \in SUBSET DOMAIN table :
            /\ i \in gone /\ table' = Without(table, gone)
            /\ lazy' = lazy \/ (lazy' = TRUE /\ (Under(table, i) # {} \/ table[i].dev \in busy))
    <2>1. CASE UmountPlainly(Head(queue).at)
      <3>1. PICK i \in On(table, Head(queue).at) : table' = Without(table, {i}) /\ lazy' = lazy
        BY <2>1 DEF UmountPlainly
      <3>2. {i} \in SUBSET DOMAIN table
        BY DEF On
      <3> QED
        BY <3>1, <3>2
    <2>2. CASE UmountLazily(Head(queue).at)
      <3>1. PICK i \in On(table, Head(queue).at) :
               /\ Under(table, i) # {} \/ table[i].dev \in busy
               /\ table' = Without(table, {i} \cup Under(table, i)) /\ lazy' = TRUE
        BY <2>2 DEF UmountLazily
      <3>2. {i} \cup Under(table, i) \in SUBSET DOMAIN table
        BY DomainFinite DEF On, Under
      <3> QED
        BY <3>1, <3>2
    <2> QED
      BY <2>1, <2>2 DEF Umount
  <1>2. i \in DOMAIN table /\ table[i].at = Head(queue).at
    BY DEF On
  <1>3. table' \in Seq(Mounts)
    BY <1>1, WithoutKeeps
  <1>4. Matching(table, queue) # {} => Matching(table', Tail(queue)) # {}
    BY <1>1, <1>2, MatchUmount
  <1>5. LongFirst(queue) /\ Matching(table, queue) # {} => Under(table, i) = {}
    BY <1>2, NothingBelow
  <1> QED
    BY <1>1, <1>3, <1>4, <1>5

\* What one mount does to the table.
LEMMA MountStep ==
    ASSUME TypeOK, NEW m \in Mounts, Mount(m)
    PROVE  /\ table' \in Seq(Mounts) /\ Len(table') = Len(table) + 1
           /\ \A i \in DOMAIN table : i \in DOMAIN table' /\ table'[i] = table[i]
           /\ table'[Len(table) + 1] = m
           /\ \A i \in DOMAIN table' : table'[i] = m \/ (i \in DOMAIN table /\ table'[i] = table[i])
           /\ ToSet(table') \subseteq ToSet(table) \cup {m}
           /\ lazy' = lazy
  <1>1. table' = Append(table, m) /\ lazy' = lazy
    BY DEF Mount
  <1>2. /\ table' \in Seq(Mounts) /\ Len(table') = Len(table) + 1
        /\ \A i \in 1..Len(table) : table'[i] = table[i]
        /\ table'[Len(table) + 1] = m
    BY <1>1, AppendProperties DEF TypeOK
  <1>3. Len(table) \in Nat /\ DOMAIN table = 1..Len(table) /\ DOMAIN table' = 1..(Len(table) + 1)
    BY <1>2, DomainFinite DEF TypeOK
  <1>4. \A i \in DOMAIN table' : i = Len(table) + 1 \/ i \in DOMAIN table
    BY <1>3
  <1>5. ToSet(table') \subseteq ToSet(table) \cup {m}
    BY <1>2, <1>3, <1>4 DEF ToSet
  <1> QED
    BY <1>1, <1>2, <1>3, <1>4, <1>5

LEMMA InitIInv == Init => IInv
  <1> SUFFICES ASSUME Init PROVE IInv
    OBVIOUS
  <1>1. table \in Seq(Mounts) /\ <<>> \in Seq(Mounts)
    BY MountAssumption, EmptySeq DEF Init
  <1>2. TypeOK
    BY <1>1 DEF Init, TypeOK, Loops
  <1>3. UnmountInv /\ ForeignInv /\ ReadOnlyInv /\ ActiveInv /\ UndoInv /\ RemountInv
    BY DEF Init, UnmountInv, ForeignInv, ReadOnlyInv, Hashing, ActiveInv, UndoInv, RemountInv
  <1>4. IdleUnmountsPlainly /\ RestoredUnlessFailed
    BY DEF Init, IdleUnmountsPlainly, RestoredUnlessFailed
  <1> QED
    BY <1>2, <1>3, <1>4 DEF IInv

LEMMA StepIInv == IInv /\ [Next]_vars => IInv'
  <1> SUFFICES ASSUME IInv, [Next]_vars PROVE IInv'
    OBVIOUS
  <1> USE DEF IInv, kernel, history
  <1>0. <<>> \in Seq(Mounts)
    BY EmptySeq
  <1>1. CASE Record
    <2> USE <1>1 DEF Record
    <2>1. queue' \in Seq(Mounts) /\ LongFirst(queue') /\ Matching(table, queue') # {}
      BY InnermostOrder DEF TypeOK
    <2>2. TypeOK'
      BY <2>1 DEF TypeOK, Loops
    <2>3. UnmountInv'
      BY <2>1 DEF UnmountInv, Matching, LongFirst
    <2>4. ForeignInv' /\ ReadOnlyInv' /\ ActiveInv' /\ UndoInv' /\ RemountInv'
      BY DEF ForeignInv, ReadOnlyInv, Hashing, ActiveInv, UndoInv, RemountInv
    <2>5. IdleUnmountsPlainly' /\ RestoredUnlessFailed'
      BY DEF IdleUnmountsPlainly, RestoredUnlessFailed
    <2> QED
      BY <2>2, <2>3, <2>4, <2>5
  <1>2. CASE Unmount
    <2> USE <1>2 DEF Unmount
    <2>1. CASE Umount(Head(queue).at) /\ queue' = Tail(queue) /\ UNCHANGED <<pc, refused>>
      <3> USE <2>1
      <3>1. /\ table' \in Seq(Mounts) /\ Matching(table', queue') # {}
            /\ busy = {} => lazy' = lazy
            /\ lazy' \in BOOLEAN
        BY UmountStep DEF UnmountInv
      <3>2. queue' \in Seq(Mounts) /\ LongFirst(queue')
        BY TailOf, TailLongFirst DEF UnmountInv, TypeOK
      <3>3. TypeOK'
        BY <3>1, <3>2 DEF TypeOK, Loops
      <3>4. UnmountInv'
        BY <3>1, <3>2 DEF UnmountInv, LongFirst, Matching
      <3>5. ForeignInv' /\ ReadOnlyInv' /\ ActiveInv' /\ UndoInv' /\ RemountInv'
        BY DEF ForeignInv, ReadOnlyInv, Hashing, ActiveInv, UndoInv, RemountInv
      <3>6. IdleUnmountsPlainly' /\ RestoredUnlessFailed'
        BY <3>1 DEF IdleUnmountsPlainly, RestoredUnlessFailed
      <3> QED
        BY <3>3, <3>4, <3>5, <3>6
    <2>2. CASE Refuse /\ UNCHANGED <<kernel, lazy>>
      <3> USE <2>2 DEF Refuse
      <3>1. TypeOK'
        BY <1>0 DEF TypeOK, Loops
      <3>2. UnmountInv' /\ ForeignInv' /\ ReadOnlyInv' /\ ActiveInv' /\ UndoInv' /\ RemountInv'
        BY DEF UnmountInv, ForeignInv, ReadOnlyInv, Hashing, ActiveInv, UndoInv, RemountInv
      <3>3. IdleUnmountsPlainly' /\ RestoredUnlessFailed'
        BY DEF IdleUnmountsPlainly, RestoredUnlessFailed
      <3> QED
        BY <3>1, <3>2, <3>3
    <2> QED
      BY <2>1, <2>2
  <1>3. CASE OpenDevice
    <2> USE <1>3 DEF OpenDevice
    <2>1. table = <<>>
      BY MatchEmpty DEF UnmountInv, TypeOK
    <2>2. ToSet(table) = {}
      BY <2>1 DEF ToSet
    <2>3. TypeOK'
      BY DEF TypeOK, Loops
    <2>4. ForeignInv'
      BY <2>2 DEF ForeignInv, ToSet
    <2>5. UnmountInv' /\ ReadOnlyInv' /\ ActiveInv' /\ UndoInv' /\ RemountInv'
      BY DEF UnmountInv, ReadOnlyInv, Hashing, ActiveInv, UndoInv, RemountInv
    <2>6. IdleUnmountsPlainly' /\ RestoredUnlessFailed'
      BY DEF IdleUnmountsPlainly, RestoredUnlessFailed
    <2> QED
      BY <2>3, <2>4, <2>5, <2>6
  <1>4. CASE Close
    <2> USE <1>4 DEF Close
    <2>1. TypeOK'
      BY DEF TypeOK, Loops
    <2>2. ForeignInv'
      BY DEF ForeignInv, ToSet
    <2>3. UnmountInv' /\ ReadOnlyInv' /\ ActiveInv' /\ UndoInv' /\ RemountInv'
      BY DEF UnmountInv, ReadOnlyInv, Hashing, ActiveInv, UndoInv, RemountInv
    <2>4. IdleUnmountsPlainly' /\ RestoredUnlessFailed'
      BY DEF IdleUnmountsPlainly, RestoredUnlessFailed
    <2> QED
      BY <2>1, <2>2, <2>3, <2>4
  <1>5. CASE Prepare
    <2> USE <1>5 DEF Prepare
    <2>1. CASE /\ table # <<>> /\ active' = table /\ pc' = "sha1"
               /\ UNCHANGED <<kernel, queue, history>>
      <3> USE <2>1
      <3>1. TypeOK'
        BY DEF TypeOK, Loops, ToSet
      <3>2. ReadOnlyInv'
        BY DEF ForeignInv, ReadOnlyInv, Hashing, ToSet
      <3>3. UnmountInv' /\ ForeignInv' /\ ActiveInv' /\ UndoInv' /\ RemountInv'
        BY DEF UnmountInv, ForeignInv, ActiveInv, UndoInv, RemountInv
      <3>4. IdleUnmountsPlainly' /\ RestoredUnlessFailed'
        BY DEF IdleUnmountsPlainly, RestoredUnlessFailed
      <3> QED
        BY <3>1, <3>2, <3>3, <3>4
    <2>2. CASE /\ table = <<>> /\ original # <<>>
               /\ queue' = LastFirst([i \in DOMAIN original |-> ReadOnly(original[i])])
               /\ pc' = "readonly"
               /\ UNCHANGED <<kernel, active, history>>
      <3> USE <2>2
      <3> DEFINE copies == [i \in DOMAIN original |-> ReadOnly(original[i])]
      <3>1. Len(original) \in Nat /\ DOMAIN original = 1..Len(original)
        BY DomainFinite DEF TypeOK
      <3>2. \A i \in DOMAIN original : ReadOnly(original[i]) \in Mounts /\ ReadOnly(original[i]).ro
        <4> SUFFICES ASSUME NEW m \in Mounts PROVE ReadOnly(m) \in Mounts /\ ReadOnly(m).ro
          BY DomainFinite DEF TypeOK
        <4> QED
          BY DEF ReadOnly, Mounts
      <3>3. copies \in [1..Len(original) -> Mounts]
        BY <3>1, <3>2
      <3>4. copies \in Seq(Mounts)
        BY <3>1, <3>3, SeqDef
      <3>5. \A i \in DOMAIN copies : copies[i].ro
        BY <3>2
      <3>0. queue' = LastFirst(copies)
        OBVIOUS
      <3> HIDE DEF copies
      <3>6. queue' \in Seq(Mounts) /\ DOMAIN queue' = DOMAIN copies
        BY <3>0, <3>4, LastFirstOf, DomainFinite
      <3>7. \A i \in DOMAIN queue' : queue'[i].ro
        <4> SUFFICES ASSUME NEW i \in DOMAIN copies PROVE queue'[i].ro
          BY <3>6
        <4>1. PICK j \in DOMAIN copies : queue'[i] = Bare(copies[j])
          <5>1. (Len(copies) - i) + 1 \in DOMAIN copies
            BY <3>4, LastFirstOf
          <5>2. LastFirst(copies)[i] = Bare(copies[(Len(copies) - i) + 1])
            BY <3>4, LastFirstOf
          <5> QED
            BY <3>0, <5>1, <5>2
        <4>2. copies[j] \in Mounts /\ copies[j].ro
          BY <3>4, <3>5, DomainFinite
        <4> QED
          BY <4>1, <4>2 DEF Bare, Mounts
      <3>8. TypeOK'
        BY <3>6 DEF TypeOK, Loops
      <3>9. ReadOnlyInv'
        BY <3>7 DEF ReadOnlyInv, Hashing
      <3>10. UnmountInv' /\ ForeignInv' /\ ActiveInv' /\ UndoInv' /\ RemountInv'
        BY DEF UnmountInv, ForeignInv, ActiveInv, UndoInv, RemountInv
      <3>11. IdleUnmountsPlainly' /\ RestoredUnlessFailed'
        BY DEF IdleUnmountsPlainly, RestoredUnlessFailed
      <3> QED
        BY <3>8, <3>9, <3>10, <3>11
    <2>3. CASE /\ table = <<>> /\ original = <<>>
               /\ Mount(TempMount) /\ active' = <<TempMount>> /\ pc' = "sha1" /\ UNCHANGED failures
               /\ UNCHANGED <<queue, refused>>
      <3> USE <2>3
      <3>1. table' = <<TempMount>> /\ lazy' = lazy
        BY DEF Mount
      <3>2. <<TempMount>> \in Seq(Mounts) /\ TempMount.ro
        BY MountAssumption
      <3>3. TypeOK'
        BY <3>1, <3>2 DEF TypeOK, Loops
      <3>4. ReadOnlyInv'
        BY <3>1, <3>2 DEF ReadOnlyInv, Hashing
      <3>5. UnmountInv' /\ ForeignInv' /\ ActiveInv' /\ UndoInv' /\ RemountInv'
        BY <3>1 DEF UnmountInv, ForeignInv, ActiveInv, UndoInv, RemountInv
      <3>6. IdleUnmountsPlainly' /\ RestoredUnlessFailed'
        BY <3>1 DEF IdleUnmountsPlainly, RestoredUnlessFailed
      <3> QED
        BY <3>3, <3>4, <3>5, <3>6
    <2>4. CASE /\ table = <<>> /\ original = <<>>
               /\ pc' = "restore" /\ failures' = failures \cup {"mount"} /\ UNCHANGED <<kernel, active, lazy>>
               /\ UNCHANGED <<queue, refused>>
      <3> USE <2>4
      <3>1. TypeOK'
        BY DEF TypeOK, Loops
      <3>2. UnmountInv' /\ ForeignInv' /\ ReadOnlyInv' /\ ActiveInv' /\ UndoInv' /\ RemountInv'
        BY DEF UnmountInv, ForeignInv, ReadOnlyInv, Hashing, ActiveInv, UndoInv, RemountInv
      <3>3. IdleUnmountsPlainly' /\ RestoredUnlessFailed'
        BY DEF IdleUnmountsPlainly, RestoredUnlessFailed
      <3> QED
        BY <3>1, <3>2, <3>3
    <2> QED
      BY <2>1, <2>2, <2>3, <2>4
  <1>6. CASE MountReadOnly
    <2> USE <1>6 DEF MountReadOnly
    <2>1. CASE /\ queue = <<>> /\ active' = FoundMounts /\ pc' = "sha1"
               /\ UNCHANGED <<kernel, queue, history>>
      <3> USE <2>1 DEF FoundMounts
      <3>1. TypeOK'
        BY DEF TypeOK, Loops, ToSet
      <3>2. ReadOnlyInv'
        BY DEF ReadOnlyInv, Hashing
      <3>3. UnmountInv' /\ ForeignInv' /\ ActiveInv' /\ UndoInv' /\ RemountInv'
        BY DEF UnmountInv, ForeignInv, ActiveInv, UndoInv, RemountInv
      <3>4. IdleUnmountsPlainly' /\ RestoredUnlessFailed'
        BY DEF IdleUnmountsPlainly, RestoredUnlessFailed
      <3> QED
        BY <3>1, <3>2, <3>3, <3>4
    <2>2. CASE /\ queue # <<>> /\ Mount(Head(queue)) /\ queue' = Tail(queue)
               /\ UNCHANGED <<pc, failures>> /\ UNCHANGED <<active, refused>>
      <3> USE <2>2
      <3>1. Head(queue) \in Mounts /\ Head(queue) = queue[1] /\ 1 \in DOMAIN queue /\ queue' \in Seq(Mounts)
        BY TailOf DEF TypeOK
      <3>2. /\ table' \in Seq(Mounts) /\ lazy' = lazy
            /\ \A i \in DOMAIN table' : table'[i] = Head(queue) \/ \E j \in DOMAIN table : table'[i] = table[j]
        <4>1. \A i \in DOMAIN table' : table'[i] = Head(queue) \/ (i \in DOMAIN table /\ table'[i] = table[i])
          BY <3>1, MountStep
        <4> QED
          BY <3>1, <4>1, MountStep
      <3>3. TypeOK'
        BY <3>1, <3>2 DEF TypeOK, Loops
      <3>4. ReadOnlyInv'
        <4>1. \A i \in DOMAIN table' : table'[i] \in Foreign \/ table'[i].ro
          BY <3>1, <3>2 DEF ReadOnlyInv, Hashing
        <4>2. \A i \in DOMAIN queue' : queue'[i].ro
          BY TailOf DEF ReadOnlyInv, TypeOK
        <4> QED
          BY <4>1, <4>2 DEF ReadOnlyInv, Hashing
      <3>5. UnmountInv' /\ ForeignInv' /\ ActiveInv' /\ UndoInv' /\ RemountInv'
        BY DEF UnmountInv, ForeignInv, ActiveInv, UndoInv, RemountInv
      <3>6. IdleUnmountsPlainly' /\ RestoredUnlessFailed'
        BY <3>2 DEF IdleUnmountsPlainly, RestoredUnlessFailed
      <3> QED
        BY <3>3, <3>4, <3>5, <3>6
    <2>3. CASE /\ pc' = "restore" /\ queue' = <<>> /\ failures' = failures \cup {"mount"}
               /\ UNCHANGED <<kernel, lazy>> /\ UNCHANGED <<active, refused>>
      <3> USE <2>3
      <3>1. TypeOK'
        BY <1>0 DEF TypeOK, Loops
      <3>2. UnmountInv' /\ ForeignInv' /\ ReadOnlyInv' /\ ActiveInv' /\ UndoInv' /\ RemountInv'
        BY DEF UnmountInv, ForeignInv, ReadOnlyInv, Hashing, ActiveInv, UndoInv, RemountInv
      <3>3. IdleUnmountsPlainly' /\ RestoredUnlessFailed'
        BY DEF IdleUnmountsPlainly, RestoredUnlessFailed
      <3> QED
        BY <3>1, <3>2, <3>3
    <2> QED
      BY <2>1, <2>2, <2>3
  <1>7. CASE Sha1
    <2> USE <1>7 DEF Sha1
    <2>1. TypeOK'
      BY DEF TypeOK, Loops
    <2>2. UnmountInv' /\ ForeignInv' /\ ReadOnlyInv' /\ ActiveInv' /\ UndoInv' /\ RemountInv'
      BY DEF UnmountInv, ForeignInv, ReadOnlyInv, Hashing, ActiveInv, UndoInv, RemountInv
    <2>3. IdleUnmountsPlainly' /\ RestoredUnlessFailed'
      BY DEF IdleUnmountsPlainly, RestoredUnlessFailed
    <2> QED
      BY <2>1, <2>2, <2>3
  <1>8. CASE Restore
    <2> USE <1>8 DEF Restore
    <2>1. InUse = table
      BY DEF InUse, ActiveInv
    <2>2. queue' \in Seq(Mounts) /\ LongFirst(queue') /\ Matching(table, queue') # {}
      BY <2>1, InnermostOrder DEF TypeOK
    <2>3. TypeOK'
      BY <2>2 DEF TypeOK, Loops
    <2>4. UndoInv'
      BY <2>2 DEF UndoInv, Matching, LongFirst
    <2>5. UnmountInv' /\ ForeignInv' /\ ReadOnlyInv' /\ ActiveInv' /\ RemountInv'
      BY DEF UnmountInv, ForeignInv, ReadOnlyInv, Hashing, ActiveInv, RemountInv
    <2>6. IdleUnmountsPlainly' /\ RestoredUnlessFailed'
      BY DEF IdleUnmountsPlainly, RestoredUnlessFailed
    <2> QED
      BY <2>3, <2>4, <2>5, <2>6
  <1>9. CASE Undo
    <2> USE <1>9 DEF Undo
    <2>1. CASE queue # <<>> /\ queue' = Tail(queue) /\ Umount(Head(queue).at) /\ UNCHANGED <<failures, pc>>
      <3> USE <2>1
      <3>1. /\ table' \in Seq(Mounts) /\ lazy' \in BOOLEAN
            /\ "umount" \notin failures => Matching(table', queue') # {}
            /\ "umount" \notin failures /\ busy = {} => lazy' = lazy
        BY UmountStep DEF UndoInv
      <3>2. queue' \in Seq(Mounts) /\ LongFirst(queue')
        BY TailOf, TailLongFirst DEF UndoInv, TypeOK
      <3>3. TypeOK'
        BY <3>1, <3>2 DEF TypeOK, Loops
      <3>4. UndoInv'
        BY <3>1, <3>2 DEF UndoInv, LongFirst, Matching
      <3>5. UnmountInv' /\ ForeignInv' /\ ReadOnlyInv' /\ ActiveInv' /\ RemountInv'
        BY DEF UnmountInv, ForeignInv, ReadOnlyInv, Hashing, ActiveInv, RemountInv
      <3>6. IdleUnmountsPlainly' /\ RestoredUnlessFailed'
        BY <3>1 DEF IdleUnmountsPlainly, RestoredUnlessFailed
      <3> QED
        BY <3>3, <3>4, <3>5, <3>6
    <2>2. CASE /\ queue # <<>> /\ queue' = Tail(queue) /\ UNCHANGED pc
               /\ failures' = failures \cup {"umount"} /\ UNCHANGED <<kernel, lazy>>
      <3> USE <2>2
      <3>1. queue' \in Seq(Mounts) /\ LongFirst(queue')
        BY TailOf, TailLongFirst DEF UndoInv, TypeOK
      <3>2. TypeOK'
        BY <3>1 DEF TypeOK, Loops
      <3>3. UndoInv'
        BY <3>1 DEF UndoInv, LongFirst
      <3>4. UnmountInv' /\ ForeignInv' /\ ReadOnlyInv' /\ ActiveInv' /\ RemountInv'
        BY DEF UnmountInv, ForeignInv, ReadOnlyInv, Hashing, ActiveInv, RemountInv
      <3>5. IdleUnmountsPlainly' /\ RestoredUnlessFailed'
        BY DEF IdleUnmountsPlainly, RestoredUnlessFailed
      <3> QED
        BY <3>2, <3>3, <3>4, <3>5
    <2>3. CASE /\ queue = <<>> /\ queue' = LastFirst(original) /\ pc' = "remount"
               /\ UNCHANGED <<kernel, failures, lazy>>
      <3> USE <2>3
      <3>1. queue' \in Seq(Mounts) /\ Len(queue') = Len(original)
        BY LastFirstOf DEF TypeOK
      <3>2. TypeOK'
        BY <3>1 DEF TypeOK, Loops
      <3>3. RemountInv'
        <4>1. failures = {} => table = <<>>
          BY MatchEmpty DEF UndoInv, TypeOK
        <4>2. table = <<>> => Len(table) = 0 /\ DOMAIN table = {}
          OBVIOUS
        <4>3. Len(original) \in Nat /\ \A k \in DOMAIN queue' : k \in Nat /\ 0 + k = k
          BY <3>1, DomainFinite DEF TypeOK
        <4> QED
          BY <3>1, <4>1, <4>2, <4>3 DEF RemountInv
      <3>4. UnmountInv' /\ ForeignInv' /\ ReadOnlyInv' /\ ActiveInv' /\ UndoInv'
        BY DEF UnmountInv, ForeignInv, ReadOnlyInv, Hashing, ActiveInv, UndoInv
      <3>5. IdleUnmountsPlainly' /\ RestoredUnlessFailed'
        BY DEF IdleUnmountsPlainly, RestoredUnlessFailed
      <3> QED
        BY <3>2, <3>3, <3>4, <3>5
    <2> QED
      BY <2>1, <2>2, <2>3
  <1>10. CASE Remount
    <2> USE <1>10 DEF Remount
    <2>1. CASE queue = <<>> /\ pc' = "over" /\ UNCHANGED <<kernel, queue, failures, lazy>>
      <3> USE <2>1
      <3>1. TypeOK'
        BY DEF TypeOK, Loops
      <3>2. UnmountInv' /\ ForeignInv' /\ ReadOnlyInv' /\ ActiveInv' /\ UndoInv' /\ RemountInv'
        BY DEF UnmountInv, ForeignInv, ReadOnlyInv, Hashing, ActiveInv, UndoInv, RemountInv
      <3>3. RestoredUnlessFailed'
        <4> SUFFICES ASSUME failures = {}
                     PROVE  /\ Len(table) = Len(original)
                            /\ \A i \in DOMAIN original : LET back == table[(Len(original) - i) + 1] IN
                                   /\ back.dev = original[i].dev /\ back.at = original[i].at
                                   /\ back.ro = original[i].ro
          BY DEF RestoredUnlessFailed
        <4>1. Len(queue) = 0 /\ Len(table) \in Nat /\ DOMAIN table = 1..Len(table)
          BY DomainFinite DEF TypeOK
        <4>2. Len(table) = Len(original) /\ \A i \in DOMAIN table : table[i] = LastFirst(original)[i]
          BY <4>1 DEF RemountInv
        <4>3. DOMAIN table = DOMAIN original
          BY <4>1, <4>2, DomainFinite DEF TypeOK
        <4>4. ASSUME NEW i \in DOMAIN original
              PROVE  table[(Len(original) - i) + 1] = Bare(original[i]) /\ original[i] \in Mounts
          <5>1. /\ (Len(original) - i) + 1 \in DOMAIN original
                /\ LastFirst(original)[(Len(original) - i) + 1] = Bare(original[i])
            BY LastFirstOf DEF TypeOK
          <5> QED
            BY <4>2, <4>3, <5>1, DomainFinite DEF TypeOK
        <4>5. \A m \in Mounts : Bare(m).dev = m.dev /\ Bare(m).at = m.at /\ Bare(m).ro = m.ro
          BY DEF Bare, Mounts
        <4> QED
          BY <4>2, <4>4, <4>5
      <3>4. IdleUnmountsPlainly'
        BY DEF IdleUnmountsPlainly
      <3> QED
        BY <3>1, <3>2, <3>3, <3>4
    <2>2. CASE /\ queue # <<>> /\ Mount(Head(queue)) /\ queue' = Tail(queue)
               /\ UNCHANGED <<pc, failures>>
      <3> USE <2>2
      <3>1. Head(queue) \in Mounts /\ queue' \in Seq(Mounts)
        BY TailOf DEF TypeOK
      <3>2. table' \in Seq(Mounts) /\ lazy' = lazy
        BY <3>1, MountStep
      <3>4. TypeOK'
        BY <3>1, <3>2 DEF TypeOK, Loops
      <3>5. RemountInv'
        <4> SUFFICES ASSUME failures = {}
                     PROVE  /\ Len(table') + Len(queue') = Len(original)
                            /\ \A i \in DOMAIN table' : table'[i] = LastFirst(original)[i]
                            /\ \A k \in DOMAIN queue' : queue'[k] = LastFirst(original)[Len(table') + k]
          BY DEF RemountInv
        <4>1. /\ Len(table) + Len(queue) = Len(original)
              /\ \A i \in DOMAIN table : table[i] = LastFirst(original)[i]
              /\ \A k \in DOMAIN queue : queue[k] = LastFirst(original)[Len(table) + k]
          BY DEF RemountInv
        <4>2. /\ Head(queue) = queue[1] /\ 1 \in DOMAIN queue /\ DOMAIN queue' = 1..(Len(queue) - 1)
              /\ \A k \in DOMAIN queue' : k + 1 \in DOMAIN queue /\ queue'[k] = queue[k + 1]
          BY TailOf DEF TypeOK
        <4>3. /\ Len(table') = Len(table) + 1
              /\ table'[Len(table) + 1] = Head(queue)
              /\ \A i \in DOMAIN table : table'[i] = table[i]
          BY <3>1, MountStep
        <4>4. /\ Len(table) \in Nat /\ Len(queue) \in Nat /\ Len(queue') \in Nat
              /\ DOMAIN table = 1..Len(table) /\ DOMAIN table' = 1..Len(table')
              /\ DOMAIN queue' = 1..Len(queue') /\ DOMAIN queue = 1..Len(queue)
          BY <3>1, <3>2, DomainFinite DEF TypeOK
        <4>5. Len(queue') = Len(queue) - 1
          BY <4>2, <4>4
        <4>6. Len(table') + Len(queue') = Len(original)
          BY <4>1, <4>3, <4>4, <4>5
        <4>7. ASSUME NEW i \in DOMAIN table' PROVE table'[i] = LastFirst(original)[i]
          <5>1. CASE i \in DOMAIN table
            BY <4>1, <4>3, <5>1
          <5>2. CASE i \notin DOMAIN table
            <6>1. i = Len(table) + 1
              BY <4>3, <4>4, <5>2
            <6> QED
              BY <4>1, <4>2, <4>3, <6>1
          <5> QED
            BY <5>1, <5>2
        <4>8. ASSUME NEW k \in DOMAIN queue'
              PROVE  queue'[k] = LastFirst(original)[Len(table') + k]
          <5>1. queue'[k] = LastFirst(original)[Len(table) + (k + 1)]
            BY <4>1, <4>2
          <5>2. Len(table) + (k + 1) = Len(table') + k
            BY <4>3, <4>4
          <5> QED
            BY <5>1, <5>2
        <4> QED
          BY <4>6, <4>7, <4>8
      <3>6. UnmountInv' /\ ForeignInv' /\ ReadOnlyInv' /\ ActiveInv' /\ UndoInv'
        BY DEF UnmountInv, ForeignInv, ReadOnlyInv, Hashing, ActiveInv, UndoInv
      <3>7. IdleUnmountsPlainly' /\ RestoredUnlessFailed'
        BY <3>2 DEF IdleUnmountsPlainly, RestoredUnlessFailed
      <3> QED
        BY <3>4, <3>5, <3>6, <3>7
    <2>3. CASE /\ pc' = "over" /\ queue' = <<>> /\ failures' = failures \cup {"mount"}
               /\ UNCHANGED <<kernel, lazy>>
      <3> USE <2>3
      <3>1. TypeOK'
        BY <1>0 DEF TypeOK, Loops
      <3>2. UnmountInv' /\ ForeignInv' /\ ReadOnlyInv' /\ ActiveInv' /\ UndoInv' /\ RemountInv'
        BY DEF UnmountInv, ForeignInv, ReadOnlyInv, Hashing, ActiveInv, UndoInv, RemountInv
      <3>3. IdleUnmountsPlainly' /\ RestoredUnlessFailed'
        BY DEF IdleUnmountsPlainly, RestoredUnlessFailed
      <3> QED
        BY <3>1, <3>2, <3>3
    <2> QED
      BY <2>1, <2>2, <2>3
  <1>11. CASE OtherMounts
    <2> USE <1>11 DEF OtherMounts
    <2>1. PICK m \in Foreign : Mount(m)
      OBVIOUS
    <2>2. /\ table' \in Seq(Mounts) /\ ToSet(table') \subseteq ToSet(table) \cup {m} /\ lazy' = lazy
      BY <2>1, MountStep, MountAssumption
    <2>3. TypeOK'
      BY <2>2 DEF TypeOK, Loops
    <2>4. ForeignInv'
      BY <2>2 DEF ForeignInv
    <2>5. UnmountInv' /\ ReadOnlyInv' /\ ActiveInv' /\ UndoInv' /\ RemountInv'
      BY DEF UnmountInv, ReadOnlyInv, Hashing, ActiveInv, UndoInv, RemountInv
    <2>6. IdleUnmountsPlainly' /\ RestoredUnlessFailed'
      BY <2>2 DEF IdleUnmountsPlainly, RestoredUnlessFailed
    <2> QED
      BY <2>3, <2>4, <2>5, <2>6
  <1>12. CASE UNCHANGED vars
    <2> USE <1>12 DEF vars
    <2>1. TypeOK'
      BY DEF TypeOK, ToSet
    <2>2. ForeignInv' /\ RemountInv' /\ RestoredUnlessFailed'
      BY DEF ForeignInv, RemountInv, RestoredUnlessFailed, ToSet
    <2>3. UnmountInv' /\ UndoInv'
      BY DEF UnmountInv, UndoInv, Matching, LongFirst
    <2>4. ReadOnlyInv' /\ ActiveInv' /\ IdleUnmountsPlainly'
      BY DEF ReadOnlyInv, Hashing, ActiveInv, IdleUnmountsPlainly
    <2> QED
      BY <2>1, <2>2, <2>3, <2>4
  <1> QED
    BY <1>1, <1>2, <1>3, <1>4, <1>5, <1>6, <1>7, <1>8, <1>9, <1>10, <1>11, <1>12 DEF Next

LEMMA SpecIInv == Spec => []IInv
  BY InitIInv, StepIInv, PTL DEF Spec

(***************************************************************************)
(* The table, the queues and the mounts in use are lists of mounts at all  *)
(* times, a queue is worked off where it was made, and SHA-1 is only given *)
(* mounts that exist.                                                      *)
(***************************************************************************)
THEOREM TypeCorrect == Spec => []TypeOK
  <1>1. IInv => TypeOK
    BY DEF IInv
  <1> QED
    BY <1>1, SpecIInv, PTL

(***************************************************************************)
(* However many mounts the target has and however they are nested or       *)
(* stacked, nothing but what another program mounted meanwhile is mounted  *)
(* while its blocks are rewritten.                                         *)
(***************************************************************************)
THEOREM NothingMountedUnderRewrite == Spec => []UnmountedForRewrite
  <1>1. IInv => UnmountedForRewrite
    BY DEF IInv, ForeignInv, UnmountedForRewrite
  <1> QED
    BY <1>1, SpecIInv, PTL

(***************************************************************************)
(* As unmount_device and restore_mount_state go from the longest path to   *)
(* the shortest, a target nobody uses is never detached lazily, unless an  *)
(* unmount had failed before.                                              *)
(***************************************************************************)
THEOREM InnermostFirst == Spec => []IdleUnmountsPlainly
  <1>1. IInv => IdleUnmountsPlainly
    BY DEF IInv
  <1> QED
    BY <1>1, SpecIInv, PTL

(***************************************************************************)
(* SHA-1 never reads through a writable mount that the run made.           *)
(***************************************************************************)
THEOREM ReadOnlyHashing == Spec => []HashedReadOnly
  <1>1. IInv => HashedReadOnly
    <2> SUFFICES ASSUME IInv, pc = "sha1", NEW m \in ToSet(active) \ Foreign PROVE m.ro
      BY DEF HashedReadOnly
    <2>1. active = table
      BY DEF IInv, ActiveInv
    <2>2. PICK i \in DOMAIN table : m = table[i]
      BY <2>1 DEF ToSet
    <2> QED
      BY <2>2 DEF IInv, ReadOnlyInv, Hashing
  <1> QED
    BY <1>1, SpecIInv, PTL

(***************************************************************************)
(* A run that could unmount and whose later mounts and unmounts succeeded  *)
(* leaves exactly the mounts it found, whichever way it ended: in reverse  *)
(* order, each on its path and read-only or not as it was, whatever its    *)
(* other options.                                                          *)
(***************************************************************************)
THEOREM MountsRestored == Spec => []RestoredUnlessFailed
  <1>1. IInv => RestoredUnlessFailed
    BY DEF IInv
  <1> QED
    BY <1>1, SpecIInv, PTL

=============================================================================
