------------------------------ MODULE Scan_proofs ---------------------------
(***************************************************************************)
(* What a run decides to rewrite: proofs for every set of devices, every   *)
(* geometry and every depth of the stack, under what module Scan assumes   *)
(* of devices.                                                             *)
(*                                                                         *)
(* The first half is about the scanners.  Each is a fold over something    *)
(* the disk says (a chain, a tree of block numbers, a list of runs), so    *)
(* its lemmas name the turns of the fold and an invariant of them: extents *)
(* stay extents, a chain takes no cluster twice, ranges that are added     *)
(* cover what they are made of.  A theorem of the library about folds has  *)
(* an operator for a parameter, which cannot be instantiated here: the     *)
(* argument of a fold (how often it is applied, that it never leaves a set *)
(* of states) is made once for each fold.                                  *)
(*                                                                         *)
(* The second half is about the walk.  Its invariants say what a stack of  *)
(* directories stands for: what has been found, what is still to be taken  *)
(* and what has been entered are together all that the root leads to; none *)
(* of it leads out of a set of directories closed under that; and no two   *)
(* places of the stack name the same unit.                                 *)
(***************************************************************************)
EXTENDS Scan, Listings

-----------------------------------------------------------------------------
(* Folds, and numbers of a set *)

\* Max picks the greatest of numbers up to k, and nothing else.
LEMMA Greatest ==
    ASSUME NEW k \in Nat, NEW T \in SUBSET (1..k), T # {}
    PROVE  Max(T) \in T /\ \A y \in T : Max(T) >= y
  <1>1. T \in SUBSET Nat /\ IsFiniteSet(T)
    <2>1. IsFiniteSet(1..k)
      BY FS_Interval
    <2>2. IsFiniteSet(T)
      BY <2>1, FS_Subset
    <2> QED
      BY <2>2
  <1>2. PICK m \in T : \A x \in T : x <= m
    BY <1>1, Largest
  <1>3. \A x \in T : m >= x
    BY <1>1, <1>2
  <1> QED
    BY <1>3 DEF Max

LEMMA GreatestIs ==
    ASSUME NEW k \in Nat, NEW T \in SUBSET (1..k), NEW m \in T, \A y \in T : m >= y
    PROVE  Max(T) = m
  <1>1. Max(T) \in T /\ \A y \in T : Max(T) >= y
    BY Greatest
  <1>2. T \subseteq Nat
    OBVIOUS
  <1>3. Max(T) >= m /\ m >= Max(T)
    BY <1>1
  <1>4. m \in Nat /\ Max(T) \in Nat
    BY <1>1, <1>2
  <1> QED
    BY <1>3, <1>4

\* What a fold from the left does, one element after the other.
Folding(it, S, base, k, g) ==
    /\ it \in [SUBSET (1..k) -> S]
    /\ it[{}] = base
    /\ \A T \in SUBSET (1..k) : T # {} =>
          /\ Max(T) \in 1..k
          /\ it[T \ {Max(T)}] \in S
          /\ it[T] = g[<<it[T \ {Max(T)}], Max(T)>>]

\* There is a function with the recursion of a fold over 1..k, that stays in S.
LEMMA FoldExists ==
    ASSUME NEW S, NEW base \in S, NEW k \in Nat, NEW g \in [S \X (1..k) -> S]
    PROVE  \E it : Folding(it, S, base, k, g)
  <1> DEFINE Folds(it, m) ==
                 /\ it \in [SUBSET (1..m) -> S]
                 /\ \A T \in SUBSET (1..m) :
                       it[T] = IF T = {} THEN base ELSE g[<<it[T \ {Max(T)}], Max(T)>>]
             Missing == {m \in 0..k : ~\E it : Folds(it, m)}
  <1>1. Missing = {}
    <2> SUFFICES ASSUME Missing # {} PROVE FALSE
      OBVIOUS
    <2>1. PICK m \in Missing : \A j \in Missing : m <= j
      <3>1. Missing \in SUBSET Nat
        OBVIOUS
      <3> HIDE DEF Missing
      <3> QED
        BY <3>1, Smallest
    <2>2. m # 0
      <3>1. SUBSET (1..0) = {{}}
        OBVIOUS
      <3>2. Folds([T \in SUBSET (1..0) |-> base], 0)
        BY <3>1
      <3> HIDE DEF Folds
      <3> QED
        BY <3>2
    <2>3. m \in 1..k /\ m - 1 \in 0..k /\ m - 1 \notin Missing
      <3>1. m \in 0..k
        BY <2>1
      <3>2. m \in 1..k /\ m - 1 \in 0..k /\ ~(m <= m - 1)
        BY <2>2, <3>1
      <3> HIDE DEF Missing
      <3> QED
        BY <2>1, <3>2
    <2>4. PICK f : Folds(f, m - 1)
      <3> HIDE DEF Folds
      <3> QED
        BY <2>3
    <2> DEFINE it == [T \in SUBSET (1..m) |-> IF m \in T THEN g[<<f[T \ {m}], m>>] ELSE f[T]]
    <2>5. ASSUME NEW T \in SUBSET (1..m)
          PROVE  /\ T \ {m} \in SUBSET (1..(m - 1))
                 /\ m \in T => Max(T) = m
                 /\ m \notin T => T \in SUBSET (1..(m - 1)) /\ (T # {} => Max(T) \in T)
      <3>1. T \ {m} \in SUBSET (1..(m - 1))
        BY <2>3
      <3>2. m \in T => Max(T) = m
        <4> SUFFICES ASSUME m \in T PROVE Max(T) = m
          OBVIOUS
        <4>1. m \in Nat /\ \A y \in T : m >= y
          BY <2>3
        <4> QED
          BY <4>1, GreatestIs
      <3>3. T # {} => Max(T) \in T
        <4>1. m \in Nat
          BY <2>3
        <4> QED
          BY <4>1, Greatest
      <3> QED
        BY <3>1, <3>2, <3>3
    <2>6. ASSUME NEW T \in SUBSET (1..m)
          PROVE  it[T] \in S /\ it[T] = IF T = {} THEN base ELSE g[<<it[T \ {Max(T)}], Max(T)>>]
      <3>1. CASE m \in T
        <4>1. f[T \ {m}] \in S /\ it[T \ {m}] = f[T \ {m}] /\ T # {}
          <5>1. T \ {m} \in SUBSET (1..(m - 1)) /\ m \notin T \ {m} /\ T \ {m} \in SUBSET (1..m)
            BY <2>5
          <5> QED
            BY <2>4, <3>1, <5>1
        <4>2. it[T] = g[<<f[T \ {m}], m>>]
          BY <3>1
        <4>3. Max(T) = m
          BY <2>5, <3>1
        <4>4. <<f[T \ {m}], m>> \in S \X (1..k)
          BY <2>3, <4>1
        <4> HIDE DEF it
        <4> QED
          BY <4>1, <4>2, <4>3, <4>4
      <3>2. CASE m \notin T
        <4>1. T \in SUBSET (1..(m - 1)) /\ it[T] = f[T]
          BY <2>5, <3>2
        <4>2. T # {} => it[T \ {Max(T)}] = f[T \ {Max(T)}]
          <5>1. T \ {Max(T)} \in SUBSET (1..m) /\ m \notin T \ {Max(T)}
            BY <3>2
          <5> QED
            BY <5>1
        <4> HIDE DEF it
        <4> QED
          BY <2>4, <4>1, <4>2
      <3> QED
        BY <3>1, <3>2
    <2>7. it \in [SUBSET (1..m) -> S]
      <3>1. it = [T \in SUBSET (1..m) |-> it[T]]
        OBVIOUS
      <3> HIDE DEF it
      <3> QED
        BY <2>6, <3>1
    <2>8. Folds(it, m)
      <3> HIDE DEF it
      <3> QED
        BY <2>6, <2>7
    <2> HIDE DEF Folds, it
    <2> QED
      BY <2>1, <2>8
  <1>2. k \notin Missing
    BY <1>1
  <1> HIDE DEF Folds
  <1>3. PICK it : Folds(it, k)
    BY <1>2
  <1>4. \A T \in SUBSET (1..k) : T # {} => Max(T) \in 1..k
    BY Greatest
  <1> QED
    BY <1>3, <1>4 DEF Folds, Folding

LEMMA UpTo ==
    ASSUME NEW k \in Nat, NEW n \in 1..k
    PROVE  /\ 1..n \in SUBSET (1..k) /\ 1..n # {}
           /\ Max(1..n) = n /\ (1..n) \ {n} = 1..(n - 1)
  <1>1. 1..n \in SUBSET (1..k) /\ n \in 1..n /\ \A y \in 1..n : n >= y
    OBVIOUS
  <1>2. Max(1..n) = n
    BY <1>1, GreatestIs
  <1> QED
    BY <1>1, <1>2

\* Induction up to k, over a set.
LEMMA Induction ==
    ASSUME NEW k \in Nat, NEW Good, 0 \in Good, \A n \in 1..k : n - 1 \in Good => n \in Good
    PROVE  0..k \subseteq Good
  <1> DEFINE Out == {n \in 0..k : n \notin Good}
  <1> SUFFICES ASSUME Out # {} PROVE FALSE
    OBVIOUS
  <1>1. PICK n \in Out : \A m \in Out : n <= m
    <2>1. Out \in SUBSET Nat
      OBVIOUS
    <2> HIDE DEF Out
    <2> QED
      BY <2>1, Smallest
  <1>2. n \in 1..k /\ n - 1 \in 0..k
    BY <1>1
  <1>3. n - 1 \notin Out
    <2>1. ~(n <= n - 1)
      BY <1>2
    <2> HIDE DEF Out
    <2> QED
      BY <1>1, <2>1
  <1> QED
    BY <1>1, <1>2, <1>3

\* What begins in S and is kept in S by every step never leaves it.
LEMMA Climb ==
    ASSUME NEW S, NEW k \in Nat, NEW at, at[0] \in S, \A n \in 1..k : at[n - 1] \in S => at[n] \in S
    PROVE  \A n \in 0..k : at[n] \in S
  <1> DEFINE Good == {n \in 0..k : at[n] \in S}
  <1>1. 0 \in Good /\ \A n \in 1..k : n - 1 \in Good => n \in Good
    OBVIOUS
  <1> HIDE DEF Good
  <1>2. 0..k \subseteq Good
    BY <1>1, Induction
  <1> QED
    BY <1>2 DEF Good

-----------------------------------------------------------------------------
(* Extents *)

LEMMA ExtentInRanges ==
    ASSUME NEW off \in Nat, NEW len \in Nat
    PROVE  Extent(off, len) \in Ranges
  BY DEF Extent, Ranges

\* What AddExtent makes of a list: one element more, or a longer last one.
LEMMA AddExtentCases ==
    ASSUME NEW exts \in Seq(Ranges), NEW e \in Ranges
    PROVE  LET new == AddExtent(exts, e)
               n == Len(exts)
           IN  /\ new \in Seq(Ranges)
               /\ n \in Nat
               /\ \/ /\ Len(new) = n + 1 /\ new[n + 1] = e
                     /\ \A i \in 1..n : new[i] = exts[i]
                  \/ /\ n >= 1 /\ Len(new) = n /\ exts[n].off + exts[n].len = e.off
                     /\ new[n] = Extent(exts[n].off, exts[n].len + e.len)
                     /\ \A i \in 1..(n - 1) : new[i] = exts[i]
  <1> DEFINE n == Len(exts)
             touches == exts # <<>> /\ exts[n].off + exts[n].len = e.off
             longer == Append(SubSeq(exts, 1, n - 1), Extent(exts[n].off, exts[n].len + e.len))
  <1>1. AddExtent(exts, e) = IF touches THEN longer ELSE Append(exts, e)
    BY DEF AddExtent, Last, Front
  <1>2. n \in Nat
    OBVIOUS
  <1>3. CASE touches
    <2>1. n >= 1 /\ exts[n] \in Ranges
      BY <1>3
    <2>2. Extent(exts[n].off, exts[n].len + e.len) \in Ranges
      BY <2>1 DEF Extent, Ranges
    <2>3. /\ SubSeq(exts, 1, n - 1) \in Seq(Ranges) /\ Len(SubSeq(exts, 1, n - 1)) = n - 1
          /\ \A i \in 1..(n - 1) : SubSeq(exts, 1, n - 1)[i] = exts[i]
      <3>1. 1 \in 1..(Len(exts) + 1) /\ n - 1 \in 0..Len(exts) /\ n - 1 \in Nat
        BY <1>2, <2>1
      <3>2. SubSeq(exts, 1, n - 1) \in Seq(Ranges)
        BY <3>1
      <3>3. Len(SubSeq(exts, 1, n - 1)) = n - 1
        BY <3>1
      <3>4. \A i \in 1..(n - 1) : SubSeq(exts, 1, n - 1)[i] = exts[i]
        BY <3>1
      <3> QED
        BY <3>2, <3>3, <3>4
    <2>4. /\ longer \in Seq(Ranges) /\ Len(longer) = n
          /\ longer[n] = Extent(exts[n].off, exts[n].len + e.len)
          /\ \A i \in 1..(n - 1) : longer[i] = exts[i]
      BY <1>2, <2>1, <2>2, <2>3
    <2>5. AddExtent(exts, e) = longer
      BY <1>1, <1>3
    <2> HIDE DEF longer
    <2> QED
      BY <1>2, <1>3, <2>1, <2>4, <2>5
  <1>4. CASE ~touches
    <2>1. AddExtent(exts, e) = Append(exts, e)
      BY <1>1, <1>4
    <2>2. /\ Append(exts, e) \in Seq(Ranges) /\ Len(Append(exts, e)) = n + 1
          /\ Append(exts, e)[n + 1] = e /\ \A i \in 1..n : Append(exts, e)[i] = exts[i]
      OBVIOUS
    <2> QED
      BY <1>2, <2>1, <2>2
  <1> QED
    BY <1>3, <1>4

LEMMA AddExtentType ==
    ASSUME NEW exts \in Seq(Ranges), NEW e \in Ranges
    PROVE  AddExtent(exts, e) \in Seq(Ranges)
  BY AddExtentCases

LEMMA Joined ==
    ASSUME NEW a \in Ranges, NEW b \in Ranges, a.off + a.len = b.off
    PROVE  UnitsOf(Extent(a.off, a.len + b.len)) = UnitsOf(a) \cup UnitsOf(b)
  <1>1. a.off \in Nat /\ a.len \in Nat /\ b.off \in Nat /\ b.len \in Nat
    BY DEF Ranges
  <1>2. UnitsOf(Extent(a.off, a.len + b.len)) = a.off..(a.off + (a.len + b.len) - 1)
    BY DEF UnitsOf, Extent
  <1> DEFINE x == a.off
             y == a.len
             z == b.len
  <1>3. x \in Nat /\ y \in Nat /\ z \in Nat /\ UnitsOf(a) = x..(x + y - 1) /\ UnitsOf(b) = (x + y)..(x + y + z - 1)
    BY <1>1 DEF UnitsOf
  <1> HIDE DEF x, y, z
  <1>4. x..(x + (y + z) - 1) = (x..(x + y - 1)) \cup ((x + y)..(x + y + z - 1))
    BY <1>3
  <1> QED
    BY <1>2, <1>3, <1>4 DEF x, y, z

\* It covers what was covered and the new extent.
LEMMA AddExtentCovers ==
    ASSUME NEW exts \in Seq(Ranges), NEW e \in Ranges
    PROVE  Covered(AddExtent(exts, e)) = Covered(exts) \cup UnitsOf(e)
  <1> DEFINE new == AddExtent(exts, e)
             n == Len(exts)
  <1>1. /\ new \in Seq(Ranges) /\ n \in Nat
        /\ \/ /\ Len(new) = n + 1 /\ new[n + 1] = e
              /\ \A i \in 1..n : new[i] = exts[i]
           \/ /\ n >= 1 /\ Len(new) = n /\ exts[n].off + exts[n].len = e.off
              /\ new[n] = Extent(exts[n].off, exts[n].len + e.len)
              /\ \A i \in 1..(n - 1) : new[i] = exts[i]
    BY AddExtentCases
  <1>2. DOMAIN exts = 1..n /\ DOMAIN new = 1..Len(new)
    BY <1>1
  <1> HIDE DEF new, n
  <1>3. CASE Len(new) = n + 1 /\ new[n + 1] = e /\ \A i \in 1..n : new[i] = exts[i]
    <2>1. DOMAIN new = (1..n) \cup {n + 1}
      BY <1>1, <1>2, <1>3
    <2> QED
      BY <1>2, <1>3, <2>1 DEF Covered, new
  <1>4. CASE /\ n >= 1 /\ Len(new) = n /\ exts[n].off + exts[n].len = e.off
             /\ new[n] = Extent(exts[n].off, exts[n].len + e.len)
             /\ \A i \in 1..(n - 1) : new[i] = exts[i]
    <2>1. DOMAIN new = (1..(n - 1)) \cup {n} /\ DOMAIN exts = (1..(n - 1)) \cup {n} /\ exts[n] \in Ranges
      BY <1>1, <1>2, <1>4
    <2>2. UnitsOf(new[n]) = UnitsOf(exts[n]) \cup UnitsOf(e)
      BY <1>4, <2>1, Joined
    <2> QED
      BY <1>4, <2>1, <2>2 DEF Covered, new
  <1> QED
    BY <1>1, <1>3, <1>4

\* It stays a list of extents apart from each other, if the new one is apart from all.
LEMMA AddExtentApart ==
    ASSUME NEW exts \in Seq(Ranges), NEW e \in Ranges, AllApart(exts, {}), UnitsOf(e) \cap Covered(exts) = {}
    PROVE  AllApart(AddExtent(exts, e), {})
  <1> DEFINE new == AddExtent(exts, e)
             n == Len(exts)
  <1>1. /\ new \in Seq(Ranges) /\ n \in Nat
        /\ \/ /\ Len(new) = n + 1 /\ new[n + 1] = e
              /\ \A i \in 1..n : new[i] = exts[i]
           \/ /\ n >= 1 /\ Len(new) = n /\ exts[n].off + exts[n].len = e.off
              /\ new[n] = Extent(exts[n].off, exts[n].len + e.len)
              /\ \A i \in 1..(n - 1) : new[i] = exts[i]
    BY AddExtentCases
  <1>2. DOMAIN exts = 1..n /\ DOMAIN new = 1..Len(new)
    BY <1>1
  <1>3. \A i \in 1..n : UnitsOf(e) \cap UnitsOf(exts[i]) = {}
    BY <1>2 DEF Covered
  <1>4. \A i, j \in 1..n : i # j => UnitsOf(exts[i]) \cap UnitsOf(exts[j]) = {}
    BY <1>2 DEF AllApart, Apart
  <1> HIDE DEF new, n
  <1>5. CASE Len(new) = n + 1 /\ new[n + 1] = e /\ \A i \in 1..n : new[i] = exts[i]
    <2>1. DOMAIN new = (1..n) \cup {n + 1} /\ n + 1 \notin 1..n
      BY <1>1, <1>2, <1>5
    <2>2. \A i, j \in DOMAIN new : i # j => UnitsOf(new[i]) \cap UnitsOf(new[j]) = {}
      BY <1>3, <1>4, <1>5, <2>1
    <2> QED
      BY <2>2 DEF AllApart, Apart, new
  <1>6. CASE /\ n >= 1 /\ Len(new) = n /\ exts[n].off + exts[n].len = e.off
             /\ new[n] = Extent(exts[n].off, exts[n].len + e.len)
             /\ \A i \in 1..(n - 1) : new[i] = exts[i]
    <2>1. DOMAIN new = (1..(n - 1)) \cup {n} /\ 1..n = (1..(n - 1)) \cup {n} /\ n \notin 1..(n - 1)
      BY <1>1, <1>2, <1>6
    <2>2. UnitsOf(new[n]) = UnitsOf(exts[n]) \cup UnitsOf(e)
      <3>1. exts[n] \in Ranges
        BY <1>2, <2>1
      <3> QED
        BY <1>6, <3>1, Joined
    <2> DEFINE I == 1..(n - 1)
    <2>3. /\ DOMAIN new = I \cup {n} /\ n \notin I /\ I \subseteq 1..n /\ n \in 1..n
          /\ \A i \in I : new[i] = exts[i]
      BY <1>6, <2>1
    <2> HIDE DEF I
    <2>4. \A i \in I : UnitsOf(new[i]) \cap UnitsOf(new[n]) = {}
      BY <1>3, <1>4, <2>2, <2>3
    <2>5. \A i, j \in I : i # j => UnitsOf(new[i]) \cap UnitsOf(new[j]) = {}
      BY <1>4, <2>3
    <2>6. \A i, j \in DOMAIN new : i # j => UnitsOf(new[i]) \cap UnitsOf(new[j]) = {}
      BY <2>3, <2>4, <2>5
    <2> QED
      BY <2>6 DEF AllApart, Apart, new
  <1> QED
    BY <1>1, <1>5, <1>6

\* Adding extents one after the other.
LEMMA AddExtentsSteps ==
    ASSUME NEW exts \in Seq(Ranges),
           NEW more \in Seq(Ranges)
    PROVE  \E at : /\ at[0] = exts
                   /\ \A n \in 1..Len(more) : at[n] = AddExtent(at[n - 1], more[n])
                   /\ \A n \in 0..Len(more) : at[n] \in Seq(Ranges)
                   /\ AddExtents(exts, more) = at[Len(more)]
  <1> DEFINE seq == more
             k == Len(more)
             base == exts
             S == Seq(Ranges)
             Phi(f) == [T \in SUBSET DOMAIN seq |-> IF T = {} THEN base ELSE AddExtent(f[T \ {Max(T)}], more[Max(T)])]
             g == [p \in S \X (1..k) |-> AddExtent(p[1], more[p[2]])]
             fold == CHOOSE f : f = Phi(f)
  <1>1. k \in Nat /\ DOMAIN seq = 1..k /\ \A n \in 1..k : more[n] \in Ranges
    OBVIOUS
  <1>2. base \in S
    OBVIOUS
  <1>3. \A s \in S, n \in 1..k : AddExtent(s, more[n]) \in S
    BY <1>1, AddExtentType
  <1>4. g \in [S \X (1..k) -> S]
    <2> HIDE DEF S, k, seq
    <2> QED
      BY <1>3
  <1>5. PICK it : Folding(it, S, base, k, g)
    <2> HIDE DEF g, S, k, base
    <2>1. k \in Nat
      BY <1>1
    <2> QED
      BY <1>2, <1>4, <2>1, FoldExists
  <1>6. it = Phi(it)
    <2> HIDE DEF S, k, seq, base
    <2> QED
      BY <1>1, <1>5 DEF Folding
  <1>7. fold = Phi(fold)
    <2> HIDE DEF Phi
    <2> QED
      BY <1>6
  <1>8. AddExtents(exts, more) = fold[1..k]
    <2>1. AddExtents(exts, more) = fold[DOMAIN seq]
      BY Zenon DEF AddExtents, FoldLeft, MapThenFoldSet, Max
    <2> HIDE DEF fold
    <2> QED
      BY <1>1, <2>1
  <1>9. fold[{}] = base /\ \A n \in 1..k : fold[1..n] = AddExtent(fold[1..(n - 1)], more[n])
    <2>1. {} \in SUBSET DOMAIN seq
      OBVIOUS
    <2>2. ASSUME NEW n \in 1..k PROVE fold[1..n] = AddExtent(fold[1..(n - 1)], more[n])
      <3>1. /\ 1..n \in SUBSET DOMAIN seq /\ 1..n # {}
            /\ Max(1..n) = n /\ (1..n) \ {n} = 1..(n - 1)
        BY <1>1, UpTo
      <3> HIDE DEF fold, k, S, base
      <3>2. Phi(fold)[1..n] = AddExtent(fold[1..(n - 1)], more[n])
        BY <1>1, <3>1
      <3> HIDE DEF Phi
      <3> QED
        BY <1>7, <3>2
    <2> HIDE DEF fold, k, S, seq, base
    <2>3. Phi(fold)[{}] = base
      BY <2>1
    <2> HIDE DEF Phi
    <2> QED
      BY <1>7, <2>2, <2>3
  <1> DEFINE at == [n \in 0..k |-> fold[1..n]]
  <1>10. at[0] = base /\ at[k] = fold[1..k]
    <2>1. 1..0 = {}
      OBVIOUS
    <2> HIDE DEF fold, k, S, seq, base
    <2> QED
      BY <1>1, <1>9, <2>1
  <1>11. \A n \in 1..k : at[n] = AddExtent(at[n - 1], more[n])
    <2> HIDE DEF fold, k, S, seq, base
    <2> QED
      BY <1>1, <1>9
  <1>12. \A n \in 0..k : at[n] \in S
    <2>1. \A n \in 1..k : at[n - 1] \in S => at[n] \in S
      <3> HIDE DEF at, S, k
      <3> QED
        BY <1>3, <1>11
    <2>2. at[0] \in S
      <3> HIDE DEF at, S, base
      <3> QED
        BY <1>2, <1>10
    <2> HIDE DEF at, S, k
    <2> QED
      BY <1>1, <2>1, <2>2, Climb
  <1> HIDE DEF at, fold
  <1> QED
    BY <1>8, <1>10, <1>11, <1>12

\* Adding up lengths.
LEMMA TotalSteps ==
    ASSUME NEW exts \in Seq(Ranges)
    PROVE  \E at : /\ at[0] = 0
                   /\ \A n \in 1..Len(exts) : at[n] = at[n - 1] + exts[n].len
                   /\ \A n \in 0..Len(exts) : at[n] \in Nat
                   /\ Total(exts) = at[Len(exts)]
  <1> DEFINE seq == exts
             k == Len(exts)
             base == 0
             S == Nat
             Phi(f) == [T \in SUBSET DOMAIN seq |-> IF T = {} THEN base ELSE f[T \ {Max(T)}] + exts[Max(T)].len]
             g == [p \in S \X (1..k) |-> p[1] + exts[p[2]].len]
             fold == CHOOSE f : f = Phi(f)
  <1>1. k \in Nat /\ DOMAIN seq = 1..k /\ \A n \in 1..k : exts[n].len \in Nat
    <2>1. k \in Nat /\ DOMAIN seq = 1..k /\ \A n \in 1..k : exts[n] \in Ranges
      OBVIOUS
    <2> QED
      BY <2>1 DEF Ranges
  <1>2. base \in S
    OBVIOUS
  <1>3. \A s \in S, n \in 1..k : s + exts[n].len \in S
    BY <1>1
  <1>4. g \in [S \X (1..k) -> S]
    <2> HIDE DEF S, k, seq
    <2> QED
      BY <1>3
  <1>5. PICK it : Folding(it, S, base, k, g)
    <2> HIDE DEF g, S, k, base
    <2>1. k \in Nat
      BY <1>1
    <2> QED
      BY <1>2, <1>4, <2>1, FoldExists
  <1>6. it = Phi(it)
    <2> HIDE DEF S, k, seq, base
    <2> QED
      BY <1>1, <1>5 DEF Folding
  <1>7. fold = Phi(fold)
    <2> HIDE DEF Phi
    <2> QED
      BY <1>6
  <1>8. Total(exts) = fold[1..k]
    <2>1. Total(exts) = fold[DOMAIN seq]
      BY Zenon DEF Total, FoldLeft, MapThenFoldSet, Max
    <2> HIDE DEF fold
    <2> QED
      BY <1>1, <2>1
  <1>9. fold[{}] = base /\ \A n \in 1..k : fold[1..n] = fold[1..(n - 1)] + exts[n].len
    <2>1. {} \in SUBSET DOMAIN seq
      OBVIOUS
    <2>2. ASSUME NEW n \in 1..k PROVE fold[1..n] = fold[1..(n - 1)] + exts[n].len
      <3>1. /\ 1..n \in SUBSET DOMAIN seq /\ 1..n # {}
            /\ Max(1..n) = n /\ (1..n) \ {n} = 1..(n - 1)
        BY <1>1, UpTo
      <3> HIDE DEF fold, k, S, base
      <3>2. Phi(fold)[1..n] = fold[1..(n - 1)] + exts[n].len
        BY <1>1, <3>1
      <3> HIDE DEF Phi
      <3> QED
        BY <1>7, <3>2
    <2> HIDE DEF fold, k, S, seq, base
    <2>3. Phi(fold)[{}] = base
      BY <2>1
    <2> HIDE DEF Phi
    <2> QED
      BY <1>7, <2>2, <2>3
  <1> DEFINE at == [n \in 0..k |-> fold[1..n]]
  <1>10. at[0] = base /\ at[k] = fold[1..k]
    <2>1. 1..0 = {}
      OBVIOUS
    <2> HIDE DEF fold, k, S, seq, base
    <2> QED
      BY <1>1, <1>9, <2>1
  <1>11. \A n \in 1..k : at[n] = at[n - 1] + exts[n].len
    <2> HIDE DEF fold, k, S, seq, base
    <2> QED
      BY <1>1, <1>9
  <1>12. \A n \in 0..k : at[n] \in S
    <2>1. \A n \in 1..k : at[n - 1] \in S => at[n] \in S
      <3> HIDE DEF at, S, k
      <3> QED
        BY <1>3, <1>11
    <2>2. at[0] \in S
      <3> HIDE DEF at, S, base
      <3> QED
        BY <1>2, <1>10
    <2> HIDE DEF at, S, k
    <2> QED
      BY <1>1, <2>1, <2>2, Climb
  <1> HIDE DEF at, fold
  <1> QED
    BY <1>8, <1>10, <1>11, <1>12

-----------------------------------------------------------------------------
(* Chains of clusters *)

\* The units of a cluster, and a walk along a chain: it takes no cluster twice,
\* and its extents, apart from each other, lie in the clusters it has taken.
Span(first, c) == (first + (c - 2) * ClusterUnits) .. (first + (c - 2) * ClusterUnits + ClusterUnits - 1)
Orderly(first, visited, exts) ==
    /\ \A i, j \in DOMAIN visited : visited[i] = visited[j] => i = j
    /\ AllApart(exts, {})
    /\ \A u \in Covered(exts) : \E i \in DOMAIN visited : u \in Span(first, visited[i])

\* Multiples of two numbers are at least a factor apart: clusters do not overlap.
LEMMA Products ==
    ASSUME NEW a \in Nat, NEW b \in Nat, NEW m \in Nat, a < b
    PROVE  a * m \in Nat /\ b * m \in Nat /\ a * m + m <= b * m
  <1> PICK c \in Nat : b = a + 1 + c
    <2>1. b - a - 1 \in Nat /\ b = a + 1 + (b - a - 1)
      OBVIOUS
    <2> QED
      BY <2>1
  <1>1. a * m \in Nat /\ c * m \in Nat
    OBVIOUS
  <1>2. b * m = a * m + m + c * m
    OBVIOUS
  <1> QED
    BY <1>1, <1>2

LEMMA SpansApart ==
    ASSUME NEW first \in Nat, NEW a \in Nat, NEW b \in Nat, a >= 2, b >= 2, a # b
    PROVE  Span(first, a) \cap Span(first, b) = {}
  <1> DEFINE m == ClusterUnits
  <1>1. m \in Nat
    BY ExtentsAssumption
  <1> HIDE DEF m
  <1>2. ASSUME NEW x \in Nat, NEW y \in Nat, x >= 2, x < y
        PROVE  ((first + (x - 2) * m) .. (first + (x - 2) * m + m - 1))
                  \cap ((first + (y - 2) * m) .. (first + (y - 2) * m + m - 1)) = {}
    <2> DEFINE p == (x - 2) * m
               q == (y - 2) * m
    <2>1. p \in Nat /\ q \in Nat /\ p + m <= q
      <3>1. x - 2 \in Nat /\ y - 2 \in Nat /\ x - 2 < y - 2
        BY <1>2
      <3> QED
        BY <1>1, <3>1, Products
    <2> HIDE DEF p, q
    <2>2. ((first + p) .. (first + p + m - 1)) \cap ((first + q) .. (first + q + m - 1)) = {}
      BY <1>1, <2>1
    <2> QED
      BY <2>2 DEF p, q
  <1>3. CASE a < b
    BY <1>2, <1>3 DEF Span, m
  <1>4. CASE b < a
    BY <1>2, <1>4 DEF Span, m
  <1> QED
    BY <1>3, <1>4

\* A chain that takes a cluster it has not visited stays orderly.
LEMMA OrderlyTurn ==
    ASSUME NEW first \in Nat, NEW clusters \in Nat, NEW visited \in Seq(2..(clusters + 1)), NEW exts \in Seq(Ranges),
           Orderly(first, visited, exts),
           NEW c \in 2..(clusters + 1), c \notin ToSet(visited), NEW take \in Nat, take <= ClusterUnits
    PROVE  LET e == Extent(first + (c - 2) * ClusterUnits, take)
           IN  /\ Append(visited, c) \in Seq(2..(clusters + 1))
               /\ e \in Ranges
               /\ AddExtent(exts, e) \in Seq(Ranges)
               /\ Orderly(first, Append(visited, c), AddExtent(exts, e))
  <1> DEFINE e == Extent(first + (c - 2) * ClusterUnits, take)
             n == Len(visited)
             more == Append(visited, c)
  <1>1. e \in Ranges /\ UnitsOf(e) \subseteq Span(first, c)
    <2> DEFINE at == first + (c - 2) * ClusterUnits
    <2>1. at \in Nat /\ ClusterUnits \in Nat
      <3>1. c - 2 \in Nat /\ ClusterUnits \in Nat
        BY ExtentsAssumption
      <3> DEFINE q == (c - 2) * ClusterUnits
      <3>2. q \in Nat
        BY <3>1
      <3> HIDE DEF q
      <3>3. first + q \in Nat
        BY <3>2
      <3> QED
        BY <3>1, <3>3 DEF q
    <2>2. e = Extent(at, take) /\ Span(first, c) = at..(at + ClusterUnits - 1)
      BY DEF Span
    <2> HIDE DEF at, e
    <2> QED
      BY <2>1, <2>2 DEF UnitsOf, Extent, Ranges
  <1>2. /\ n \in Nat /\ DOMAIN visited = 1..n /\ more \in Seq(2..(clusters + 1)) /\ DOMAIN more = 1..(n + 1)
        /\ more[n + 1] = c /\ \A i \in 1..n : more[i] = visited[i] /\ visited[i] \in 2..(clusters + 1) /\ visited[i] # c
    BY DEF ToSet
  <1> HIDE DEF e, n, more
  <1>3. \A i, j \in DOMAIN more : more[i] = more[j] => i = j
    <2>1. \A i, j \in 1..n : visited[i] = visited[j] => i = j
      BY <1>2 DEF Orderly
    <2> DEFINE m == n + 1
               I == 1..n
    <2>2. DOMAIN more = I \cup {m} /\ m \notin I /\ more[m] = c
      BY <1>2
    <2>3. \A i \in I : more[i] = visited[i] /\ visited[i] # c
      BY <1>2
    <2> HIDE DEF m, I
    <2>4. \A i, j \in I : more[i] = more[j] => i = j
      BY <2>1, <2>3 DEF I
    <2> QED
      BY <2>2, <2>3, <2>4
  <1>4. UnitsOf(e) \cap Covered(exts) = {}
    <2> SUFFICES ASSUME NEW u \in UnitsOf(e), u \in Covered(exts) PROVE FALSE
      OBVIOUS
    <2>1. PICK i \in 1..n : u \in Span(first, visited[i])
      BY <1>2 DEF Orderly
    <2>2. visited[i] \in Nat /\ visited[i] >= 2 /\ c \in Nat /\ c >= 2 /\ visited[i] # c
      BY <1>2
    <2>3. Span(first, visited[i]) \cap Span(first, c) = {}
      BY <2>2, SpansApart
    <2> QED
      BY <1>1, <2>1, <2>3
  <1>5. AllApart(AddExtent(exts, e), {}) /\ AddExtent(exts, e) \in Seq(Ranges)
    BY <1>1, <1>4, AddExtentApart, AddExtentType DEF Orderly
  <1>6. \A u \in Covered(AddExtent(exts, e)) : \E i \in DOMAIN more : u \in Span(first, more[i])
    <2> SUFFICES ASSUME NEW u \in Covered(AddExtent(exts, e)) PROVE \E i \in DOMAIN more : u \in Span(first, more[i])
      OBVIOUS
    <2>1. u \in Covered(exts) \/ u \in UnitsOf(e)
      BY <1>1, AddExtentCovers
    <2>2. CASE u \in UnitsOf(e)
      BY <1>1, <1>2, <2>2
    <2>3. CASE u \in Covered(exts)
      <3>1. PICK i \in 1..n : u \in Span(first, visited[i])
        BY <1>2, <2>3 DEF Orderly
      <3>2. i \in DOMAIN more /\ more[i] = visited[i]
        BY <1>2
      <3> QED
        BY <3>1, <3>2
    <2> QED
      BY <2>1, <2>2, <2>3
  <1> QED
    BY <1>1, <1>2, <1>3, <1>5, <1>6 DEF Orderly, e, more

ChainStates(first, clusters) ==
    {s \in [c : Nat, left : Nat, visited : Seq(2..(clusters + 1)), exts : Seq(Ranges), over : BOOLEAN] :
        Orderly(first, s.visited, s.exts)}
ChainBegin(start, left) == [c |-> start, left |-> left, visited |-> <<>>, exts |-> <<>>, over |-> FALSE]
ChainOver(s) == [s EXCEPT !.over = TRUE]
Turn(first, s, next, left, take, over) ==
    [c |-> next, left |-> left, visited |-> Append(s.visited, s.c),
     exts |-> AddExtent(s.exts, Extent(first + (s.c - 2) * ClusterUnits, take)), over |-> over]

LEMMA ChainBegins ==
    ASSUME NEW first \in Nat, NEW clusters \in Nat, NEW start \in Nat, NEW left \in Nat
    PROVE  ChainBegin(start, left) \in ChainStates(first, clusters)
  <1> DEFINE s == ChainBegin(start, left)
  <1>1. s \in [c : Nat, left : Nat, visited : Seq(2..(clusters + 1)), exts : Seq(Ranges), over : BOOLEAN]
    BY DEF ChainBegin
  <1>2. s.visited = <<>> /\ s.exts = <<>>
    BY DEF ChainBegin
  <1>3. Orderly(first, s.visited, s.exts)
    BY <1>2 DEF Orderly, AllApart, Covered
  <1> QED
    BY <1>1, <1>3 DEF ChainStates

LEMMA ChainEnds ==
    ASSUME NEW first \in Nat, NEW clusters \in Nat, NEW s \in ChainStates(first, clusters)
    PROVE  ChainOver(s) \in ChainStates(first, clusters)
  <1> DEFINE t == ChainOver(s)
  <1>1. s \in [c : Nat, left : Nat, visited : Seq(2..(clusters + 1)), exts : Seq(Ranges), over : BOOLEAN]
    BY DEF ChainStates
  <1>2. t \in [c : Nat, left : Nat, visited : Seq(2..(clusters + 1)), exts : Seq(Ranges), over : BOOLEAN]
        /\ t.visited = s.visited /\ t.exts = s.exts
    BY <1>1 DEF ChainOver
  <1>3. Orderly(first, t.visited, t.exts)
    BY <1>2 DEF ChainStates
  <1> QED
    BY <1>2, <1>3 DEF ChainStates

LEMMA ChainTurns ==
    ASSUME NEW first \in Nat, NEW clusters \in Nat, NEW s \in ChainStates(first, clusters),
           s.c \in 2..(clusters + 1), s.c \notin ToSet(s.visited),
           NEW next \in Nat, NEW left \in Nat, NEW take \in Nat, take <= ClusterUnits, NEW over \in BOOLEAN
    PROVE  Turn(first, s, next, left, take, over) \in ChainStates(first, clusters)
  <1> DEFINE visited == Append(s.visited, s.c)
             exts == AddExtent(s.exts, Extent(first + (s.c - 2) * ClusterUnits, take))
             t == Turn(first, s, next, left, take, over)
  <1>1. s.visited \in Seq(2..(clusters + 1)) /\ s.exts \in Seq(Ranges) /\ Orderly(first, s.visited, s.exts)
    BY DEF ChainStates
  <1>2. visited \in Seq(2..(clusters + 1)) /\ exts \in Seq(Ranges) /\ Orderly(first, visited, exts)
    BY <1>1, OrderlyTurn
  <1>3. t = [c |-> next, left |-> left, visited |-> visited, exts |-> exts, over |-> over]
    BY DEF Turn
  <1> HIDE DEF t, visited, exts
  <1>4. t \in [c : Nat, left : Nat, visited : Seq(2..(clusters + 1)), exts : Seq(Ranges), over : BOOLEAN]
        /\ t.visited = visited /\ t.exts = exts
    BY <1>2, <1>3
  <1>5. t \in ChainStates(first, clusters)
    BY <1>2, <1>4 DEF ChainStates
  <1> QED
    BY <1>5 DEF t

\* What a walk along a chain leaves behind.
LEMMA ChainStateHas ==
    ASSUME NEW first \in Nat, NEW clusters \in Nat, NEW s \in ChainStates(first, clusters)
    PROVE  /\ s.visited \in Seq(2..(clusters + 1)) /\ s.exts \in Seq(Ranges)
           /\ AllApart(s.exts, {})
  BY DEF ChainStates, Orderly

LEMMA LeastOf ==
    ASSUME NEW a \in Nat, NEW b \in Nat
    PROVE  Least(a, b) \in Nat /\ Least(a, b) <= a /\ Least(a, b) <= b
  BY DEF Least

FatTurn(vol, type, s) == IF F!ChainGoesOn(vol, s) THEN F!ChainTurn(vol, type, s) ELSE [s EXCEPT !.over = TRUE]
FatBegin(start, size, whole) == ChainBegin(start, IF whole \/ size = 0 THEN F!NoLimit ELSE size)

\* One turn of the loop over a FAT chain (fat.cpp:91).
LEMMA FatTurns ==
    ASSUME NEW vol, F!IsVolume(vol), NEW type, NEW s \in ChainStates(F!DataStart(type), vol.clusters)
    PROVE  /\ F!DataStart(type) \in Nat
           /\ FatTurn(vol, type, s) \in ChainStates(F!DataStart(type), vol.clusters)
  <1> DEFINE first == F!DataStart(type)
             take == Least(s.left, ClusterUnits)
             next == F!fat_get(vol, s.c)
             left == IF s.left = F!NoLimit THEN s.left ELSE s.left - take
  <1>1. first \in Nat
    BY DEF F!DataStart
  <1>2. s.c \in Nat /\ s.left \in Nat /\ vol.clusters \in Nat
    BY DEF ChainStates, F!IsVolume
  <1>3. take \in Nat /\ take <= s.left /\ take <= ClusterUnits
    BY <1>2, ExtentsAssumption, LeastOf
  <1>4. next \in Nat
    BY <1>2 DEF F!fat_get, F!IsVolume, F!Eoc
  <1>5. left \in Nat
    BY <1>2, <1>3
  <1>6. CASE F!ChainGoesOn(vol, s)
    <2>1. s.c \in 2..(vol.clusters + 1) /\ s.c \notin ToSet(s.visited)
      BY <1>2, <1>6 DEF F!ChainGoesOn, F!NotSeen, F!ToSet, ToSet
    <2>2. FatTurn(vol, type, s) = Turn(first, s, next, left, take, F!is_eoc(next))
      BY <1>6, Zenon DEF FatTurn, F!ChainTurn, Turn, F!AddExtent, AddExtent, F!Extent, Extent, F!Last, Last,
          F!Front, Front,
                  F!cluster_offset, F!Least, Least
    <2>3. F!is_eoc(next) \in BOOLEAN
      BY DEF F!is_eoc
    <2> HIDE DEF first, take, next, left
    <2> QED
      BY <1>1, <1>2, <1>3, <1>4, <1>5, <2>1, <2>2, <2>3, ChainTurns DEF first
  <1>7. CASE ~F!ChainGoesOn(vol, s)
    <2>1. FatTurn(vol, type, s) = ChainOver(s)
      BY <1>7 DEF FatTurn, ChainOver
    <2> QED
      BY <1>1, <1>2, <2>1, ChainEnds
  <1> QED
    BY <1>1, <1>6, <1>7

\* The loop of chain_extents, turn after turn.
LEMMA FatChainSteps ==
    ASSUME NEW vol,
           F!IsVolume(vol),
           NEW type,
           NEW start \in Nat,
           NEW size \in Nat,
           NEW whole
    PROVE  \E at : /\ at[0] = FatBegin(start, size, whole)
                   /\ \A n \in 1..2 * vol.clusters : at[n] = FatTurn(vol, type, at[n - 1])
                   /\ \A n \in 0..2 * vol.clusters : at[n] \in ChainStates(F!DataStart(type), vol.clusters)
                   /\ F!Chain(vol, type, start, size, whole) = at[2 * vol.clusters]
  <1> DEFINE seq == [i \in 1..(2 * vol.clusters) |-> i]
             k == 2 * vol.clusters
             base == FatBegin(start, size, whole)
             S == ChainStates(F!DataStart(type), vol.clusters)
             Phi(f) == [T \in SUBSET DOMAIN seq |-> IF T = {} THEN base ELSE FatTurn(vol, type, f[T \ {Max(T)}])]
             g == [p \in S \X (1..k) |-> FatTurn(vol, type, p[1])]
             fold == CHOOSE f : f = Phi(f)
  <1>1. k \in Nat /\ DOMAIN seq = 1..k
    BY DEF F!IsVolume
  <1>2. base \in S
    <2>1. F!DataStart(type) \in Nat /\ vol.clusters \in Nat /\ F!NoLimit \in Nat
      BY DEF F!DataStart, F!IsVolume, F!NoLimit
    <2> QED
      BY <2>1, ChainBegins DEF FatBegin
  <1>3. \A s \in S, n \in 1..k : FatTurn(vol, type, s) \in S
    BY FatTurns
  <1>4. g \in [S \X (1..k) -> S]
    <2> HIDE DEF S, k, seq
    <2> QED
      BY <1>3
  <1>5. PICK it : Folding(it, S, base, k, g)
    <2> HIDE DEF g, S, k, base
    <2>1. k \in Nat
      BY <1>1
    <2> QED
      BY <1>2, <1>4, <2>1, FoldExists
  <1>6. it = Phi(it)
    <2> HIDE DEF S, k, seq, base
    <2> QED
      BY <1>1, <1>5 DEF Folding
  <1>7. fold = Phi(fold)
    <2> HIDE DEF Phi
    <2> QED
      BY <1>6
  <1>8. F!Chain(vol, type, start, size, whole) = fold[1..k]
    <2>1. F!Chain(vol, type, start, size, whole) = fold[DOMAIN seq]
      BY Zenon DEF F!Chain, FatBegin, ChainBegin, FatTurn, F!FoldLeft, F!MapThenFoldSet, F!Max, Max
    <2> HIDE DEF fold
    <2> QED
      BY <1>1, <2>1
  <1>9. fold[{}] = base /\ \A n \in 1..k : fold[1..n] = FatTurn(vol, type, fold[1..(n - 1)])
    <2>1. {} \in SUBSET DOMAIN seq
      OBVIOUS
    <2>2. ASSUME NEW n \in 1..k PROVE fold[1..n] = FatTurn(vol, type, fold[1..(n - 1)])
      <3>1. /\ 1..n \in SUBSET DOMAIN seq /\ 1..n # {}
            /\ Max(1..n) = n /\ (1..n) \ {n} = 1..(n - 1)
        BY <1>1, UpTo
      <3> HIDE DEF fold, k, S, base
      <3>2. Phi(fold)[1..n] = FatTurn(vol, type, fold[1..(n - 1)])
        BY <1>1, <3>1
      <3> HIDE DEF Phi
      <3> QED
        BY <1>7, <3>2
    <2> HIDE DEF fold, k, S, seq, base
    <2>3. Phi(fold)[{}] = base
      BY <2>1
    <2> HIDE DEF Phi
    <2> QED
      BY <1>7, <2>2, <2>3
  <1> DEFINE at == [n \in 0..k |-> fold[1..n]]
  <1>10. at[0] = base /\ at[k] = fold[1..k]
    <2>1. 1..0 = {}
      OBVIOUS
    <2> HIDE DEF fold, k, S, seq, base
    <2> QED
      BY <1>1, <1>9, <2>1
  <1>11. \A n \in 1..k : at[n] = FatTurn(vol, type, at[n - 1])
    <2> HIDE DEF fold, k, S, seq, base
    <2> QED
      BY <1>1, <1>9
  <1>12. \A n \in 0..k : at[n] \in S
    <2>1. \A n \in 1..k : at[n - 1] \in S => at[n] \in S
      <3> HIDE DEF at, S, k
      <3> QED
        BY <1>3, <1>11
    <2>2. at[0] \in S
      <3> HIDE DEF at, S, base
      <3> QED
        BY <1>2, <1>10
    <2> HIDE DEF at, S, k
    <2> QED
      BY <1>1, <2>1, <2>2, Climb
  <1> HIDE DEF at, fold
  <1> QED
    BY <1>8, <1>10, <1>11, <1>12

\* chain_extents lists extents apart from each other, whatever the table says.
LEMMA FatChainType ==
    ASSUME NEW vol, F!IsVolume(vol), NEW type, NEW start \in Nat, NEW size \in Nat, NEW whole
    PROVE  LET s == F!Chain(vol, type, start, size, whole)
           IN  s.visited \in Seq(2..(vol.clusters + 1)) /\ s.exts \in Seq(Ranges) /\ AllApart(s.exts, {})
  <1>1. vol.clusters \in Nat /\ F!DataStart(type) \in Nat
    BY DEF F!IsVolume, F!DataStart
  <1>2. F!Chain(vol, type, start, size, whole) \in ChainStates(F!DataStart(type), vol.clusters)
    <2> DEFINE S == ChainStates(F!DataStart(type), vol.clusters)
               k == 2 * vol.clusters
    <2>1. PICK at : /\ \A n \in 0..k : at[n] \in S
                    /\ F!Chain(vol, type, start, size, whole) = at[k]
      BY FatChainSteps
    <2>2. k \in 0..k
      BY <1>1
    <2> HIDE DEF S, k
    <2> QED
      BY <2>1, <2>2 DEF S
  <1> QED
    BY <1>1, <1>2, ChainStateHas

LinkedTurn(vol, s) ==
    IF ~s.over /\ s.left > 0 /\ s.c >= 2 /\ s.c < X!Eoc /\ s.c \notin X!ToSet(s.visited)
    THEN LET take == X!Least(s.left, ClusterUnits)
         IN  [c |-> X!fat_entry(vol, s.c),
              left |-> IF s.left = X!NoLimit THEN s.left ELSE s.left - take,
              visited |-> Append(s.visited, s.c),
              exts |-> X!AddExtent(s.exts, X!Extent(X!cluster_off(vol, s.c), take)),
              over |-> X!fat_entry(vol, s.c) >= X!Eoc]
    ELSE [s EXCEPT !.over = TRUE]
LinkedBegin(start, size, whole) == ChainBegin(start, IF whole \/ size = 0 THEN X!NoLimit ELSE size)
LastCluster == X!Eoc - 2

\* One turn of the loop over an exFAT chain (exfat.cpp:85).
LEMMA LinkedTurns ==
    ASSUME NEW vol, X!IsVolume(vol), NEW s \in ChainStates(X!Heap, LastCluster)
    PROVE  LinkedTurn(vol, s) \in ChainStates(X!Heap, LastCluster)
  <1> DEFINE first == X!Heap
             take == Least(s.left, ClusterUnits)
             next == X!fat_entry(vol, s.c)
             left == IF s.left = X!NoLimit THEN s.left ELSE s.left - take
             goesOn == ~s.over /\ s.left > 0 /\ s.c >= 2 /\ s.c < X!Eoc /\ s.c \notin X!ToSet(s.visited)
  <1>1. first \in Nat /\ LastCluster \in Nat /\ X!Eoc = LastCluster + 2
    BY DEF X!Heap, LastCluster, X!Eoc
  <1>2. s.c \in Nat /\ s.left \in Nat
    BY DEF ChainStates
  <1>3. take \in Nat /\ take <= s.left /\ take <= ClusterUnits
    BY <1>2, ExtentsAssumption, LeastOf
  <1>4. next \in Nat
    BY <1>2 DEF X!fat_entry, X!IsVolume, X!Eoc
  <1>5. left \in Nat
    BY <1>2, <1>3
  <1>6. CASE goesOn
    <2>1. s.c \in 2..(LastCluster + 1) /\ s.c \notin ToSet(s.visited)
      <3>1. s.c >= 2 /\ s.c < LastCluster + 2
        BY <1>1, <1>6
      <3> QED
        BY <1>1, <1>2, <1>6, <3>1 DEF X!ToSet, ToSet
    <2>2. LinkedTurn(vol, s) = Turn(first, s, next, left, take, next >= X!Eoc)
      BY <1>6, Zenon DEF LinkedTurn, Turn, X!AddExtent, AddExtent, X!Extent, Extent, X!Last, Last, X!Front, Front,
                  X!cluster_off, X!Least, Least
    <2>3. (next >= X!Eoc) \in BOOLEAN /\ s \in ChainStates(first, LastCluster)
      OBVIOUS
    <2> DEFINE over == next >= X!Eoc
    <2> HIDE DEF first, take, next, left, over
    <2>4. Turn(first, s, next, left, take, over) \in ChainStates(first, LastCluster)
      <3>1. over \in BOOLEAN
        BY <2>3 DEF over
      <3> HIDE DEF LastCluster
      <3> QED
        BY <1>1, <1>2, <1>3, <1>4, <1>5, <2>1, <2>3, <3>1, ChainTurns
    <2> QED
      BY <2>2, <2>4 DEF first, over
  <1>7. CASE ~goesOn
    <2>1. LinkedTurn(vol, s) = ChainOver(s)
      BY <1>7 DEF LinkedTurn, ChainOver
    <2> QED
      BY <1>1, <1>2, <2>1, ChainEnds
  <1> QED
    BY <1>6, <1>7

\* The loop of chain() over the FAT, turn after turn.
LEMMA LinkedSteps ==
    ASSUME NEW vol,
           X!IsVolume(vol),
           NEW start \in Nat,
           NEW size \in Nat,
           NEW whole
    PROVE  \E at : /\ at[0] = LinkedBegin(start, size, whole)
                   /\ \A n \in 1..vol.clusters + 2 : at[n] = LinkedTurn(vol, at[n - 1])
                   /\ \A n \in 0..vol.clusters + 2 : at[n] \in ChainStates(X!Heap, LastCluster)
                   /\ X!Linked(vol, start, size, whole) = at[vol.clusters + 2]
  <1> DEFINE seq == [i \in 1..(vol.clusters + 2) |-> i]
             k == vol.clusters + 2
             base == LinkedBegin(start, size, whole)
             S == ChainStates(X!Heap, LastCluster)
             Phi(f) == [T \in SUBSET DOMAIN seq |-> IF T = {} THEN base ELSE LinkedTurn(vol, f[T \ {Max(T)}])]
             g == [p \in S \X (1..k) |-> LinkedTurn(vol, p[1])]
             fold == CHOOSE f : f = Phi(f)
  <1>1. k \in Nat /\ DOMAIN seq = 1..k
    BY DEF X!IsVolume
  <1>2. base \in S
    <2>1. X!Heap \in Nat /\ LastCluster \in Nat /\ X!NoLimit \in Nat
      BY DEF X!Heap, LastCluster, X!Eoc, X!NoLimit
    <2> QED
      BY <2>1, ChainBegins DEF LinkedBegin
  <1>3. \A s \in S, n \in 1..k : LinkedTurn(vol, s) \in S
    BY LinkedTurns
  <1>4. g \in [S \X (1..k) -> S]
    <2> HIDE DEF S, k, seq
    <2> QED
      BY <1>3
  <1>5. PICK it : Folding(it, S, base, k, g)
    <2> HIDE DEF g, S, k, base
    <2>1. k \in Nat
      BY <1>1
    <2> QED
      BY <1>2, <1>4, <2>1, FoldExists
  <1>6. it = Phi(it)
    <2> HIDE DEF S, k, seq, base
    <2> QED
      BY <1>1, <1>5 DEF Folding
  <1>7. fold = Phi(fold)
    <2> HIDE DEF Phi
    <2> QED
      BY <1>6
  <1>8. X!Linked(vol, start, size, whole) = fold[1..k]
    <2>1. X!Linked(vol, start, size, whole) = fold[DOMAIN seq]
      BY Zenon DEF X!Linked, LinkedBegin, ChainBegin, LinkedTurn, X!FoldLeft, X!MapThenFoldSet, X!Max, Max
    <2> HIDE DEF fold
    <2> QED
      BY <1>1, <2>1
  <1>9. fold[{}] = base /\ \A n \in 1..k : fold[1..n] = LinkedTurn(vol, fold[1..(n - 1)])
    <2>1. {} \in SUBSET DOMAIN seq
      OBVIOUS
    <2>2. ASSUME NEW n \in 1..k PROVE fold[1..n] = LinkedTurn(vol, fold[1..(n - 1)])
      <3>1. /\ 1..n \in SUBSET DOMAIN seq /\ 1..n # {}
            /\ Max(1..n) = n /\ (1..n) \ {n} = 1..(n - 1)
        BY <1>1, UpTo
      <3> HIDE DEF fold, k, S, base
      <3>2. Phi(fold)[1..n] = LinkedTurn(vol, fold[1..(n - 1)])
        BY <1>1, <3>1
      <3> HIDE DEF Phi
      <3> QED
        BY <1>7, <3>2
    <2> HIDE DEF fold, k, S, seq, base
    <2>3. Phi(fold)[{}] = base
      BY <2>1
    <2> HIDE DEF Phi
    <2> QED
      BY <1>7, <2>2, <2>3
  <1> DEFINE at == [n \in 0..k |-> fold[1..n]]
  <1>10. at[0] = base /\ at[k] = fold[1..k]
    <2>1. 1..0 = {}
      OBVIOUS
    <2> HIDE DEF fold, k, S, seq, base
    <2> QED
      BY <1>1, <1>9, <2>1
  <1>11. \A n \in 1..k : at[n] = LinkedTurn(vol, at[n - 1])
    <2> HIDE DEF fold, k, S, seq, base
    <2> QED
      BY <1>1, <1>9
  <1>12. \A n \in 0..k : at[n] \in S
    <2>1. \A n \in 1..k : at[n - 1] \in S => at[n] \in S
      <3> HIDE DEF at, S, k
      <3> QED
        BY <1>3, <1>11
    <2>2. at[0] \in S
      <3> HIDE DEF at, S, base
      <3> QED
        BY <1>2, <1>10
    <2> HIDE DEF at, S, k
    <2> QED
      BY <1>1, <2>1, <2>2, Climb
  <1> HIDE DEF at, fold
  <1> QED
    BY <1>8, <1>10, <1>11, <1>12

LEMMA LinkedType ==
    ASSUME NEW vol, X!IsVolume(vol), NEW start \in Nat, NEW size \in Nat, NEW whole
    PROVE  LET s == X!Linked(vol, start, size, whole)
           IN  s.visited \in Seq(2..(LastCluster + 1)) /\ s.exts \in Seq(Ranges) /\ AllApart(s.exts, {})
  <1>1. LastCluster \in Nat /\ X!Heap \in Nat /\ vol.clusters \in Nat
    BY DEF X!IsVolume, X!Heap, LastCluster, X!Eoc
  <1>2. X!Linked(vol, start, size, whole) \in ChainStates(X!Heap, LastCluster)
    <2> DEFINE S == ChainStates(X!Heap, LastCluster)
               k == vol.clusters + 2
    <2>1. PICK at : /\ \A n \in 0..k : at[n] \in S
                    /\ X!Linked(vol, start, size, whole) = at[k]
      BY LinkedSteps
    <2>2. k \in 0..k
      BY <1>1
    <2> HIDE DEF S, k
    <2> QED
      BY <2>1, <2>2 DEF S
  <1> QED
    BY <1>1, <1>2, ChainStateHas

\* The units before the n-th cluster of so many are fewer than all.
LEMMA Quotient ==
    ASSUME NEW all \in Nat, NEW m \in Nat \ {0}, NEW i \in 1..((all + m - 1) \div m)
    PROVE  (i - 1) * m \in Nat /\ (i - 1) * m <= all
  <1> DEFINE q == (all + m - 1) \div m
  <1>1. q \in Nat /\ q * m <= all + m - 1
    <2>1. all + m - 1 \in Nat
      OBVIOUS
    <2> QED
      BY <2>1
  <1>2. i \in Nat /\ i >= 1 /\ i <= q
    BY <1>1
  <1> HIDE DEF q
  <1>3. i - 1 \in Nat /\ i - 1 < q
    BY <1>1, <1>2
  <1>4. (i - 1) * m \in Nat /\ (i - 1) * m + m <= q * m
    BY <1>1, <1>3, Products
  <1> DEFINE a == (i - 1) * m
             b == q * m
  <1>5. q * m \in Nat
    BY <1>1
  <1> HIDE DEF a, b
  <1>6. a <= all
    <2>1. a \in Nat /\ b \in Nat /\ a + m <= b /\ b <= all + m - 1
      BY <1>1, <1>4, <1>5 DEF a, b
    <2> QED
      BY <2>1
  <1> QED
    BY <1>4, <1>6 DEF a

ContiguousSeq(vol, start, size, whole) ==
    LET left == IF whole THEN X!NoLimit ELSE IF size = 0 THEN ClusterUnits ELSE size
        wanted == (left + ClusterUnits - 1) \div ClusterUnits
        count == IF start < 2 \/ start >= vol.clusters + 2 THEN 0
                 ELSE X!Least(wanted, vol.clusters + 2 - start)
    IN  [i \in 1..count |->
            X!Extent(X!cluster_off(vol, start + i - 1),
                     IF whole THEN ClusterUnits
                     ELSE X!Least(left - (i - 1) * ClusterUnits, ClusterUnits))]

\* A file without a chain is one cluster after the other.
LEMMA ContiguousParts ==
    ASSUME NEW vol, X!IsVolume(vol), NEW start \in Nat, NEW size \in Nat, NEW whole
    PROVE  /\ X!Contiguous(vol, start, size, whole) = AddExtents(<<>>, ContiguousSeq(vol, start, size, whole))
           /\ LET seq == ContiguousSeq(vol, start, size, whole)
              IN  /\ seq \in Seq(Ranges)
                  /\ Len(seq) # 0 => start >= 2
                  /\ \A i \in 1..Len(seq) : UnitsOf(seq[i]) \subseteq Span(X!Heap, start + i - 1)
  <1> DEFINE left == IF whole THEN X!NoLimit ELSE IF size = 0 THEN ClusterUnits ELSE size
             m == ClusterUnits
             wanted == (left + m - 1) \div m
             count == IF start < 2 \/ start >= vol.clusters + 2 THEN 0
                      ELSE X!Least(wanted, vol.clusters + 2 - start)
             take(i) == IF whole THEN m ELSE X!Least(left - (i - 1) * m, m)
             first == X!Heap
             at(i) == X!cluster_off(vol, start + i - 1)
             seq == [i \in 1..count |-> X!Extent(at(i), take(i))]
  <1>0. /\ \A a, b : X!Least(a, b) = Least(a, b) /\ X!Extent(a, b) = Extent(a, b)
        /\ \A i : at(i) = first + ((start + i - 1) - 2) * m
    <2>1. \A a, b : X!Least(a, b) = Least(a, b)
      BY DEF X!Least, Least
    <2>2. \A a, b : X!Extent(a, b) = Extent(a, b)
      BY DEF X!Extent, Extent
    <2>3. \A i : at(i) = first + ((start + i - 1) - 2) * m
      BY DEF X!cluster_off
    <2> HIDE DEF at
    <2> QED
      BY <2>1, <2>2, <2>3
  <1>1. ContiguousSeq(vol, start, size, whole) = seq
    BY DEF ContiguousSeq
  <1>2. X!Contiguous(vol, start, size, whole) = AddExtents(<<>>, ContiguousSeq(vol, start, size, whole))
    BY Zenon DEF ContiguousSeq, X!Contiguous, X!AddExtents, AddExtents, X!FoldLeft, X!MapThenFoldSet, X!Max,
        FoldLeft, MapThenFoldSet, Max, X!AddExtent, AddExtent, X!Last, Last, X!Front, Front, X!Extent, Extent
  <1>3. /\ left \in Nat /\ m \in Nat \ {0} /\ first \in Nat /\ vol.clusters \in Nat
    BY ExtentsAssumption DEF X!NoLimit, X!Heap, X!IsVolume
  <1>4. wanted \in Nat
    BY <1>3
  <1>5. /\ count \in Nat
        /\ count # 0 => start >= 2 /\ count <= wanted
    <2>1. CASE start < 2 \/ start >= vol.clusters + 2
      BY <2>1
    <2>2. CASE ~(start < 2 \/ start >= vol.clusters + 2)
      <3>1. vol.clusters + 2 - start \in Nat /\ start >= 2
        BY <1>3, <2>2
      <3>2. count = Least(wanted, vol.clusters + 2 - start)
        BY <1>0, <2>2
      <3> QED
        BY <1>4, <3>1, <3>2, LeastOf
    <2> QED
      BY <2>1, <2>2
  <1>6. ASSUME NEW i \in 1..count
        PROVE  /\ at(i) \in Nat /\ take(i) \in Nat /\ take(i) <= m
               /\ (start + i - 1) - 2 \in Nat
    <2> DEFINE c == (start + i - 1) - 2
    <2>1. i \in Nat /\ i \in 1..wanted /\ start >= 2
      BY <1>4, <1>5
    <2>2. c \in Nat
      BY <2>1
    <2>3. at(i) \in Nat
      <3>1. c * m \in Nat
        BY <1>3, <2>2
      <3> DEFINE p == c * m
      <3> HIDE DEF p, c, m
      <3>2. first + p \in Nat
        BY <1>3, <3>1 DEF p
      <3> QED
        BY <1>0, <3>2 DEF p, c, m
    <2>4. take(i) \in Nat /\ take(i) <= m
      <3>1. CASE whole
        BY <1>3, <3>1
      <3>2. CASE ~whole
        <4> HIDE DEF left, m
        <4>1. (i - 1) * m \in Nat /\ (i - 1) * m <= left
          BY <1>3, <2>1, Quotient
        <4> DEFINE p == (i - 1) * m
        <4> HIDE DEF p
        <4>2. left - p \in Nat
          BY <1>3, <4>1 DEF p
        <4>3. Least(left - p, m) \in Nat /\ Least(left - p, m) <= m
          BY <1>3, <4>2, LeastOf
        <4> QED
          BY <1>0, <3>2, <4>3 DEF p
      <3> QED
        BY <3>1, <3>2
    <2> QED
      BY <2>2, <2>3, <2>4
  <1>7. ASSUME NEW i \in 1..count
        PROVE  seq[i] \in Ranges /\ UnitsOf(seq[i]) \subseteq Span(first, start + i - 1)
    <2> DEFINE a == at(i)
               t == take(i)
    <2>1. seq[i] = Extent(a, t) /\ Span(first, start + i - 1) = a..(a + m - 1)
      <3>1. seq[i] = X!Extent(a, t)
        OBVIOUS
      <3>2. a = first + ((start + i - 1) - 2) * m
        BY <1>0
      <3>3. Span(first, start + i - 1) = a..(a + m - 1)
        <4> HIDE DEF a
        <4> QED
          BY <3>2 DEF Span
      <3> HIDE DEF a, t, seq
      <3> QED
        BY <1>0, <3>1, <3>3
    <2>2. a \in Nat /\ t \in Nat /\ t <= m
      BY <1>6
    <2> HIDE DEF a, t, seq, m
    <2> QED
      BY <1>3, <2>1, <2>2 DEF Extent, Ranges, UnitsOf
  <1>8. seq \in Seq(Ranges) /\ Len(seq) = count
    <2>1. seq = [i \in 1..count |-> seq[i]]
      OBVIOUS
    <2> HIDE DEF seq, count
    <2> QED
      BY <1>5, <1>7, <2>1
  <1> HIDE DEF seq, count, first
  <1> QED
    BY <1>1, <1>2, <1>5, <1>7, <1>8 DEF first

\* A run of clusters is listed in extents apart from each other too.
LEMMA ContiguousType ==
    ASSUME NEW vol, X!IsVolume(vol), NEW start \in Nat, NEW size \in Nat, NEW whole
    PROVE  LET exts == X!Contiguous(vol, start, size, whole) IN exts \in Seq(Ranges) /\ AllApart(exts, {})
  <1> DEFINE seq == ContiguousSeq(vol, start, size, whole)
             k == Len(seq)
             first == X!Heap
  <1>1. /\ X!Contiguous(vol, start, size, whole) = AddExtents(<<>>, seq)
        /\ seq \in Seq(Ranges) /\ k \in Nat /\ first \in Nat
        /\ k # 0 => start >= 2
        /\ \A i \in 1..k : UnitsOf(seq[i]) \subseteq Span(first, start + i - 1)
    BY ContiguousParts DEF X!Heap
  <1>2. PICK at : /\ at[0] = <<>>
                  /\ \A n \in 1..k : at[n] = AddExtent(at[n - 1], seq[n])
                  /\ \A n \in 0..k : at[n] \in Seq(Ranges)
                  /\ AddExtents(<<>>, seq) = at[k]
    <2>1. <<>> \in Seq(Ranges)
      OBVIOUS
    <2> HIDE DEF seq
    <2> QED
      BY <1>1, <2>1, AddExtentsSteps
  <1> HIDE DEF seq, k, first
  <1> DEFINE Good == {n \in 0..k : /\ AllApart(at[n], {})
                                   /\ \A u \in Covered(at[n]) : \E j \in 1..n : u \in Span(first, start + j - 1)}
  <1>3. 0 \in Good
    BY <1>1, <1>2 DEF AllApart, Covered
  <1>4. ASSUME NEW n \in 1..k, n - 1 \in Good PROVE n \in Good
    <2>1. at[n - 1] \in Seq(Ranges) /\ seq[n] \in Ranges
          /\ at[n] = AddExtent(at[n - 1], seq[n]) /\ n - 1 \in Nat /\ n \in Nat
      <3>1. n - 1 \in 0..k /\ n \in Nat
        BY <1>1
      <3>2. seq[n] \in Ranges
        BY <1>1 DEF k
      <3> QED
        BY <1>2, <3>1, <3>2
    <2>2. start >= 2 /\ start \in Nat
      BY <1>1
    <2>3. AllApart(at[n - 1], {}) /\ \A u \in Covered(at[n - 1]) : \E j \in 1..(n - 1) : u \in Span(first, start + j - 1)
      BY <1>4
    <2>4. UnitsOf(seq[n]) \cap Covered(at[n - 1]) = {}
      <3> SUFFICES ASSUME NEW u \in UnitsOf(seq[n]), u \in Covered(at[n - 1]) PROVE FALSE
        OBVIOUS
      <3>1. PICK j \in 1..(n - 1) : u \in Span(first, start + j - 1)
        BY <2>3
      <3>2. u \in Span(first, start + n - 1)
        BY <1>1
      <3>3. start + j - 1 \in Nat /\ start + n - 1 \in Nat /\ start + j - 1 >= 2 /\ start + n - 1 >= 2
            /\ start + j - 1 # start + n - 1
        BY <2>1, <2>2
      <3> QED
        BY <1>1, <3>1, <3>2, <3>3, SpansApart
    <2>5. AllApart(at[n], {})
      BY <2>1, <2>3, <2>4, AddExtentApart
    <2>6. ASSUME NEW u \in Covered(at[n]) PROVE \E j \in 1..n : u \in Span(first, start + j - 1)
      <3>1. u \in Covered(at[n - 1]) \/ u \in UnitsOf(seq[n])
        BY <2>1, AddExtentCovers
      <3>2. \A j \in 1..(n - 1) : j \in 1..n
        BY <2>1
      <3>3. CASE u \in Covered(at[n - 1])
        BY <2>3, <3>2, <3>3
      <3>4. CASE u \in UnitsOf(seq[n])
        <4>1. n \in 1..n /\ u \in Span(first, start + n - 1)
          BY <1>1, <2>1, <3>4
        <4> QED
          BY <4>1
      <3> QED
        BY <3>1, <3>3, <3>4
    <2> QED
      BY <2>5, <2>6
  <1>5. 0..k \subseteq Good
    <2> HIDE DEF Good
    <2> QED
      BY <1>1, <1>3, <1>4, Induction
  <1>6. k \in 0..k
    BY <1>1
  <1>7. k \in Good
    BY <1>5, <1>6
  <1> QED
    BY <1>1, <1>2, <1>6, <1>7

\* Every object of a FAT or exFAT entry has extents apart from each other.
LEMMA ExFatChainType ==
    ASSUME NEW vol, X!IsVolume(vol), NEW start \in Nat, NEW size \in Nat, NEW nofat, NEW whole
    PROVE  LET exts == X!chain(vol, start, size, nofat, whole) IN exts \in Seq(Ranges) /\ AllApart(exts, {})
  BY LinkedType, ContiguousType DEF X!chain

-----------------------------------------------------------------------------
(* Recursion over a number, and lists of lists *)

Recurring(at, T, base, k, g) ==
    /\ at \in [0..k -> T]
    /\ at[0] = base
    /\ \A n \in 1..k : n - 1 \in 0..k /\ at[n - 1] \in T /\ at[n] = g[<<at[n - 1], n>>]

\* There is a function with the recursion of at[n] = g[at[n - 1], n], that stays in T.
LEMMA Recursion ==
    ASSUME NEW T, NEW base \in T, NEW k \in Nat, NEW g \in [T \X (1..k) -> T]
    PROVE  \E at : Recurring(at, T, base, k, g)
  <1>1. PICK it : Folding(it, T, base, k, g)
    BY FoldExists
  <1> DEFINE at == [n \in 0..k |-> it[1..n]]
  <1>2. at \in [0..k -> T]
    <2>1. \A n \in 0..k : 1..n \in SUBSET (1..k)
      OBVIOUS
    <2> QED
      BY <1>1, <2>1 DEF Folding
  <1>3. at[0] = base
    <2>1. 1..0 = {} /\ 0 \in 0..k
      OBVIOUS
    <2> QED
      BY <1>1, <2>1 DEF Folding
  <1>4. ASSUME NEW n \in 1..k
        PROVE  n - 1 \in 0..k /\ at[n - 1] \in T /\ at[n] = g[<<at[n - 1], n>>]
    <2>1. /\ 1..n \in SUBSET (1..k) /\ 1..n # {}
          /\ Max(1..n) = n /\ (1..n) \ {n} = 1..(n - 1)
      BY UpTo
    <2>2. n - 1 \in 0..k /\ n \in 0..k
      OBVIOUS
    <2>3. it[1..n] = g[<<it[1..(n - 1)], n>>]
      BY <1>1, <2>1 DEF Folding
    <2>4. at[n] = it[1..n] /\ at[n - 1] = it[1..(n - 1)]
      BY <2>2
    <2> HIDE DEF at
    <2> QED
      BY <1>2, <2>2, <2>3, <2>4
  <1> HIDE DEF at
  <1> QED
    BY <1>2, <1>3, <1>4 DEF Recurring

LEMMA FlattenType ==
    ASSUME NEW S, NEW s \in Seq(Seq(S))
    PROVE  FlattenSeq(s) \in Seq(S)
  <1> DEFINE k == Len(s)
             T == Seq(S)
             Phi(f) == [i \in 1..k |-> IF i = 1 THEN s[i] ELSE f[i - 1] \o s[i]]
             flatten == CHOOSE f : f = Phi(f)
             g == [p \in T \X (1..k) |-> p[1] \o s[p[2]]]
  <1>1. k \in Nat /\ \A i \in 1..k : s[i] \in T
    OBVIOUS
  <1>2. FlattenSeq(s) = IF k = 0 THEN s ELSE flatten[k]
    BY Zenon DEF FlattenSeq
  <1>3. CASE k = 0
    <2>1. s = <<>>
      BY <1>3
    <2> QED
      BY <1>2, <1>3, <2>1
  <1>4. CASE k # 0
    <2>1. g \in [T \X (1..k) -> T]
      BY <1>1
    <2>2. PICK at : Recurring(at, T, <<>>, k, g)
      <3>1. <<>> \in T
        OBVIOUS
      <3> HIDE DEF T, k, g
      <3> QED
        BY <1>1, <2>1, <3>1, Recursion
    <2>3. ASSUME NEW n \in 1..k PROVE at[n] = at[n - 1] \o s[n] /\ n - 1 \in 0..k
      <3>1. n - 1 \in 0..k /\ at[n - 1] \in T /\ at[n] = g[<<at[n - 1], n>>]
        BY <2>2 DEF Recurring
      <3> HIDE DEF T, k
      <3> QED
        BY <3>1
    <2> DEFINE f == [i \in 1..k |-> at[i]]
    <2>4. f = Phi(f)
      <3>1. ASSUME NEW i \in 1..k PROVE at[i] = IF i = 1 THEN s[i] ELSE f[i - 1] \o s[i]
        <4>1. CASE i = 1
          <5>1. at[0] = <<>>
            BY <2>2 DEF Recurring
          <5>2. at[1] = at[0] \o s[1]
            <6>1. at[1] = at[1 - 1] \o s[1]
              BY <2>3, <4>1
            <6>2. 1 - 1 = 0
              OBVIOUS
            <6> QED
              BY <6>1, <6>2
          <5>3. s[1] \in Seq(S)
            BY <1>1, <4>1
          <5>4. <<>> \o s[1] = s[1]
            BY <5>3
          <5> QED
            BY <4>1, <5>1, <5>2, <5>4
        <4>2. CASE i # 1
          <5>1. i - 1 \in 1..k
            BY <1>1, <4>2
          <5>2. f[i - 1] = at[i - 1]
            BY <5>1
          <5> QED
            BY <2>3, <4>2, <5>2
        <4> QED
          BY <4>1, <4>2
      <3> HIDE DEF k
      <3> QED
        BY <3>1
    <2>5. flatten = Phi(flatten)
      <3> HIDE DEF Phi
      <3> QED
        BY <2>4
    <2> HIDE DEF flatten, f
    <2> DEFINE from == [n \in 0..k |-> IF n = 0 THEN <<>> ELSE flatten[n]]
    <2>6. from[0] \in T
      OBVIOUS
    <2>7. ASSUME NEW n \in 1..k, from[n - 1] \in T PROVE from[n] \in T
      <3>1. from[n] = flatten[n] /\ (n # 1 => from[n - 1] = flatten[n - 1])
        BY <1>1
      <3>2. flatten[n] = IF n = 1 THEN s[n] ELSE flatten[n - 1] \o s[n]
        <4>1. Phi(flatten)[n] = IF n = 1 THEN s[n] ELSE flatten[n - 1] \o s[n]
          OBVIOUS
        <4> HIDE DEF Phi
        <4> QED
          BY <2>5, <4>1
      <3>3. s[n] \in T
        BY <1>1
      <3> HIDE DEF from
      <3> QED
        BY <2>7, <3>1, <3>2, <3>3
    <2>8. \A n \in 0..k : from[n] \in T
      <3> HIDE DEF from, T, k
      <3> QED
        BY <1>1, <2>6, <2>7, Climb
    <2>9. k \in 0..k /\ from[k] = flatten[k]
      BY <1>1, <1>4
    <2> HIDE DEF from
    <2> QED
      BY <1>2, <1>4, <2>8, <2>9
  <1> QED
    BY <1>3, <1>4

-----------------------------------------------------------------------------
(* What the scanners of FAT and exFAT find *)

Objects == [what : {"meta", "file", "dir"}, size : Nat, exts : Seq(Ranges)]
AllEntries(vol) == UNION {ToSet(vol.area[c]) : c \in DOMAIN vol.area}

\* Every module of a scanner has the same lists.
LEMMA SameOperators ==
    /\ \A a, b : F!Extent(a, b) = Extent(a, b) /\ X!Extent(a, b) = Extent(a, b)
    /\ \A a, b : E!Extent(a, b) = Extent(a, b) /\ N!Extent(a, b) = Extent(a, b)
    /\ \A a, b : E!Least(a, b) = Least(a, b)
    /\ \A a, b, c : F!Object(a, b, c) = Object(a, b, c) /\ X!Object(a, b, c) = Object(a, b, c)
    /\ \A a, b, c : E!Object(a, b, c) = Object(a, b, c) /\ N!Object(a, b, c) = Object(a, b, c)
    /\ \A s : F!ToSet(s) = ToSet(s) /\ X!ToSet(s) = ToSet(s)
  <1>1. \A a, b : F!Extent(a, b) = Extent(a, b) /\ X!Extent(a, b) = Extent(a, b)
    BY DEF Extent, F!Extent, X!Extent
  <1>2. \A a, b : E!Extent(a, b) = Extent(a, b) /\ N!Extent(a, b) = Extent(a, b)
    BY DEF Extent, E!Extent, N!Extent
  <1>3. \A a, b : E!Least(a, b) = Least(a, b)
    BY DEF Least, E!Least
  <1>4. \A a, b, c : F!Object(a, b, c) = Object(a, b, c) /\ X!Object(a, b, c) = Object(a, b, c)
    BY DEF Object, F!Object, X!Object
  <1>5. \A a, b, c : E!Object(a, b, c) = Object(a, b, c) /\ N!Object(a, b, c) = Object(a, b, c)
    BY DEF Object, E!Object, N!Object
  <1>6. \A s : F!ToSet(s) = ToSet(s) /\ X!ToSet(s) = ToSet(s)
    BY DEF ToSet, F!ToSet, X!ToSet
  <1> QED
    BY <1>1, <1>2, <1>3, <1>4, <1>5, <1>6

\* Each instance of a module has its copy of the community operators.
LEMMA SameFlattenSeq ==
    \A s : F!FlattenSeq(s) = FlattenSeq(s) /\ X!FlattenSeq(s) = FlattenSeq(s)
               /\ E!FlattenSeq(s) = FlattenSeq(s) /\ N!FlattenSeq(s) = FlattenSeq(s)
  <1>1. \A s : F!FlattenSeq(s) = FlattenSeq(s)
    BY Zenon DEF FlattenSeq, F!FlattenSeq
  <1>2. \A s : X!FlattenSeq(s) = FlattenSeq(s)
    BY Zenon DEF FlattenSeq, X!FlattenSeq
  <1>3. \A s : E!FlattenSeq(s) = FlattenSeq(s)
    BY Zenon DEF FlattenSeq, E!FlattenSeq
  <1>4. \A s : N!FlattenSeq(s) = FlattenSeq(s)
    BY Zenon DEF FlattenSeq, N!FlattenSeq
  <1> QED
    BY <1>1, <1>2, <1>3, <1>4

LEMMA ObjectType ==
    ASSUME NEW what \in {"meta", "file", "dir"}, NEW size \in Nat, NEW exts \in Seq(Ranges)
    PROVE  /\ Object(what, size, exts) \in Objects
           /\ Object(what, size, exts).exts = exts
  BY DEF Object, Objects

LEMMA OneExtent ==
    ASSUME NEW off \in Nat, NEW len \in Nat
    PROVE  <<Extent(off, len)>> \in Seq(Ranges) /\ AllApart(<<Extent(off, len)>>, {})
  <1>1. Extent(off, len) \in Ranges
    BY ExtentInRanges
  <1> QED
    BY <1>1 DEF AllApart

\* The two parts of the volume itself that the FAT and exFAT scanners begin with.
LEMMA MetaObjects ==
    ASSUME NEW a \in Nat, NEW b \in Nat
    PROVE  LET objs == <<Object("meta", 1, <<Extent(a, 1)>>), Object("meta", 1, <<Extent(b, 1)>>)>>
           IN  objs \in Seq(Objects) /\ \A i \in DOMAIN objs : AllApart(objs[i].exts, {})
  <1> DEFINE x == Object("meta", 1, <<Extent(a, 1)>>)
             y == Object("meta", 1, <<Extent(b, 1)>>)
  <1>1. x \in Objects /\ x.exts = <<Extent(a, 1)>> /\ y \in Objects /\ y.exts = <<Extent(b, 1)>>
    BY OneExtent, ObjectType
  <1>2. AllApart(x.exts, {}) /\ AllApart(y.exts, {})
    BY <1>1, OneExtent
  <1> DEFINE objs == <<x, y>>
  <1>3. objs \in Seq(Objects) /\ \A i \in DOMAIN objs : AllApart(objs[i].exts, {})
    <2> HIDE DEF x, y
    <2> QED
      BY <1>1, <1>2
  <1> QED
    BY <1>3

LEMMA FatScanType ==
    ASSUME NEW vol, F!IsVolume(vol), NEW type
    PROVE  LET scan == F!scan_fat(vol, type)
           IN  /\ scan.objects \in Seq(Objects) /\ \A i \in DOMAIN scan.objects : AllApart(scan.objects[i].exts, {})
               /\ scan.enter = <<IF type = "fat32" THEN vol.root ELSE 0>>
               /\ scan.enter \in Seq(Nat)
  <1>1. F!scan_fat(vol, type).objects
            = <<Object("meta", 1, <<Extent(F!Boot, 1)>>), Object("meta", 1, <<Extent(F!FatUnit, 1)>>)>>
    BY SameOperators DEF F!scan_fat
  <1>2. F!scan_fat(vol, type).enter = <<IF type = "fat32" THEN vol.root ELSE 0>>
    BY DEF F!scan_fat
  <1>3. F!Boot \in Nat /\ F!FatUnit \in Nat /\ vol.root \in Nat
    BY DEF F!Boot, F!FatUnit, F!IsVolume
  <1>4. (IF type = "fat32" THEN vol.root ELSE 0) \in Nat
    BY <1>3
  <1> HIDE DEF F!scan_fat
  <1> QED
    BY <1>1, <1>2, <1>3, <1>4, MetaObjects

LEMMA ExFatScanType ==
    ASSUME NEW vol, X!IsVolume(vol)
    PROVE  LET scan == X!scan_exfat(vol)
           IN  /\ scan.objects \in Seq(Objects) /\ \A i \in DOMAIN scan.objects : AllApart(scan.objects[i].exts, {})
               /\ scan.enter = <<vol.root>> /\ scan.enter \in Seq(Nat)
  <1>1. X!scan_exfat(vol).objects
            = <<Object("meta", 1, <<Extent(X!Boot, 1)>>), Object("meta", 1, <<Extent(X!FatUnit, 1)>>)>>
    BY SameOperators DEF X!scan_exfat
  <1>2. X!scan_exfat(vol).enter = <<vol.root>>
    BY DEF X!scan_exfat
  <1>3. X!Boot \in Nat /\ X!FatUnit \in Nat /\ vol.root \in Nat
    BY DEF X!Boot, X!FatUnit, X!IsVolume
  <1> QED
    BY <1>1, <1>2, <1>3, MetaObjects

LEMMA FatArea ==
    ASSUME NEW vol, F!IsVolume(vol)
    PROVE  /\ \A c \in {0} \cup 2..(vol.clusters + 1) : vol.area[c] \in Seq(AllEntries(vol))
           /\ \A e \in AllEntries(vol) : F!IsEntry(e)
  <1>1. ASSUME NEW c \in DOMAIN vol.area PROVE vol.area[c] \in Seq(AllEntries(vol))
    <2>1. vol.area[c] \in Seq(ToSet(vol.area[c])) /\ ToSet(vol.area[c]) \subseteq AllEntries(vol)
      BY SameOperators DEF F!IsVolume, AllEntries
    <2> DEFINE T == ToSet(vol.area[c])
               U == AllEntries(vol)
    <2> HIDE DEF T, U
    <2> QED
      BY <2>1 DEF T, U
  <1>2. \A e \in AllEntries(vol) : F!IsEntry(e)
    BY SameOperators DEF F!IsVolume, AllEntries
  <1>3. {0} \cup 2..(vol.clusters + 1) \subseteq DOMAIN vol.area
    BY DEF F!IsVolume
  <1> QED
    BY <1>1, <1>2, <1>3

LEMMA FatEnterType ==
    ASSUME NEW vol, F!IsVolume(vol), NEW type, NEW d \in Nat
    PROVE  LET read == F!EnterDir(vol, type, d)
           IN  read.objects = <<>> /\ read.entries \in Seq(AllEntries(vol))
  <1>1. CASE d = 0 /\ type # "fat32"
    <2>1. F!EnterDir(vol, type, d).objects = <<>> /\ F!EnterDir(vol, type, d).entries = vol.area[0]
      BY <1>1 DEF F!EnterDir
    <2> QED
      BY <2>1, FatArea
  <1>2. CASE ~(d = 0 /\ type # "fat32")
    <2> DEFINE visited == F!Chain(vol, type, d, 0, TRUE).visited
               lists == [i \in DOMAIN visited |-> vol.area[visited[i]]]
               S == AllEntries(vol)
    <2>1. F!EnterDir(vol, type, d).objects = <<>> /\ F!EnterDir(vol, type, d).entries = FlattenSeq(lists)
      BY <1>2, SameFlattenSeq DEF F!EnterDir
    <2>2. visited \in Seq(2..(vol.clusters + 1))
      BY FatChainType
    <2>3. \A c \in 2..(vol.clusters + 1) : vol.area[c] \in Seq(S)
      BY FatArea
    <2> HIDE DEF visited, S
    <2>4. lists \in Seq(Seq(S))
      <3>1. DOMAIN visited = 1..Len(visited) /\ Len(visited) \in Nat
        BY <2>2
      <3>2. \A i \in 1..Len(visited) : vol.area[visited[i]] \in Seq(S)
        <4> DEFINE R == 2..(vol.clusters + 1)
        <4>1. visited \in Seq(R) /\ \A c \in R : vol.area[c] \in Seq(S)
          BY <2>2, <2>3
        <4> HIDE DEF R
        <4>2. \A i \in 1..Len(visited) : visited[i] \in R
          BY <4>1
        <4> QED
          BY <4>1, <4>2
      <3> QED
        BY <3>1, <3>2
    <2>5. FlattenSeq(lists) \in Seq(S)
      BY <2>4, FlattenType
    <2> QED
      BY <2>1, <2>5 DEF S
  <1> QED
    BY <1>1, <1>2

\* What one directory entry adds: objects that name no unit twice, and the directory to enter, if any.
LEMMA FatTakeType ==
    ASSUME NEW vol, F!IsVolume(vol), NEW type, NEW e, F!IsEntry(e)
    PROVE  LET taken == F!TakeEntry(vol, type, e)
           IN  /\ taken.objects \in Seq(Objects) /\ \A i \in DOMAIN taken.objects : AllApart(taken.objects[i].exts, {})
               /\ taken.enter \in {<<>>, <<e.start>>}
               /\ taken.enter \in Seq(Nat) /\ Len(taken.enter) <= 1
  <1> DEFINE taken == F!TakeEntry(vol, type, e)
             size == IF e.what = "dir" THEN 0 ELSE e.size
             exts == IF e.start >= 2 THEN F!chain_extents(vol, type, e.start, size, e.what = "dir") ELSE <<>>
  <1>1. e.what \in {"file", "dir", "skip", "end"} /\ e.start \in Nat /\ size \in Nat
    BY DEF F!IsEntry
  <1>2. CASE e.what \in {"end", "skip"}
    <2>1. taken.objects = <<>> /\ taken.enter = <<>>
      <3>1. CASE e.what = "end"
        BY <3>1 DEF F!TakeEntry
      <3>2. CASE e.what = "skip"
        BY <3>2 DEF F!TakeEntry
      <3> QED
        BY <1>2, <3>1, <3>2
    <2> HIDE DEF taken
    <2>2. taken.enter \in Seq(Nat) /\ Len(taken.enter) <= 1 /\ taken.objects \in Seq(Objects)
      BY <2>1
    <2> QED
      BY <2>1, <2>2 DEF taken
  <1>3. CASE e.what \in {"file", "dir"}
    <2>1. /\ taken.objects = <<Object(e.what, size, exts)>>
          /\ taken.enter = IF e.what = "dir" /\ e.start >= 2 THEN <<e.start>> ELSE <<>>
      <3>1. e.what # "end" /\ e.what # "skip"
        BY <1>3
      <3>2. taken = [objects |-> <<Object(e.what, size, exts)>>,
                     enter |-> IF e.what = "dir" /\ e.start >= 2 THEN <<e.start>> ELSE <<>>,
                     stop |-> FALSE]
        BY <3>1, SameOperators DEF F!TakeEntry
      <3> HIDE DEF taken, exts, size
      <3> QED
        BY <3>2
    <2> HIDE DEF taken
    <2>2. exts \in Seq(Ranges) /\ AllApart(exts, {})
      <3>1. CASE e.start >= 2
        BY <1>1, <3>1, FatChainType DEF F!chain_extents
      <3>2. CASE ~(e.start >= 2)
        BY <3>2 DEF AllApart
      <3> QED
        BY <3>1, <3>2
    <2> HIDE DEF exts, size
    <2> DEFINE o == Object(e.what, size, exts)
    <2>3. o \in Objects /\ o.exts = exts
      <3>1. e.what \in {"meta", "file", "dir"}
        BY <1>3
      <3> QED
        BY <1>1, <2>2, <3>1, ObjectType
    <2> HIDE DEF o
    <2>4. /\ taken.objects = <<o>>
          /\ taken.enter = IF e.what = "dir" /\ e.start >= 2 THEN <<e.start>> ELSE <<>>
      BY <2>1 DEF o
    <2>5. taken.enter \in {<<>>, <<e.start>>}
      BY <2>4
    <2>6. taken.enter \in Seq(Nat) /\ Len(taken.enter) <= 1
      <3>1. <<e.start>> \in Seq(Nat) /\ Len(<<e.start>>) <= 1
        BY <1>1
      <3>2. <<>> \in Seq(Nat) /\ Len(<<>>) <= 1
        OBVIOUS
      <3> QED
        BY <2>5, <3>1, <3>2
    <2>7. taken.objects \in Seq(Objects) /\ \A i \in DOMAIN taken.objects : AllApart(taken.objects[i].exts, {})
      BY <2>2, <2>3, <2>4
    <2> QED
      BY <2>5, <2>6, <2>7 DEF taken
  <1> QED
    BY <1>1, <1>2, <1>3

LEMMA ExFatArea ==
    ASSUME NEW vol, X!IsVolume(vol)
    PROVE  /\ \A c \in DOMAIN vol.area : vol.area[c] \in Seq(AllEntries(vol))
           /\ \A e \in AllEntries(vol) : X!IsEntry(e)
  <1>1. ASSUME NEW c \in DOMAIN vol.area PROVE vol.area[c] \in Seq(AllEntries(vol))
    <2>1. vol.area[c] \in Seq(ToSet(vol.area[c])) /\ ToSet(vol.area[c]) \subseteq AllEntries(vol)
      BY SameOperators DEF X!IsVolume, AllEntries
    <2> DEFINE T == ToSet(vol.area[c])
               U == AllEntries(vol)
    <2> HIDE DEF T, U
    <2> QED
      BY <2>1 DEF T, U
  <1>2. \A e \in AllEntries(vol) : X!IsEntry(e)
    BY SameOperators DEF X!IsVolume, AllEntries
  <1> QED
    BY <1>1, <1>2

LEMMA ExFatEnterType ==
    ASSUME NEW vol, X!IsVolume(vol), NEW d \in Nat
    PROVE  LET read == X!EnterDir(vol, d)
           IN  read.objects = <<>> /\ read.entries \in Seq(AllEntries(vol))
  <1> DEFINE visited == X!Linked(vol, d, 0, TRUE).visited
             lists == [i \in DOMAIN visited |->
                          IF visited[i] \in DOMAIN vol.area THEN vol.area[visited[i]] ELSE <<>>]
             S == AllEntries(vol)
  <1>1. X!EnterDir(vol, d).objects = <<>> /\ X!EnterDir(vol, d).entries = FlattenSeq(lists)
    BY SameFlattenSeq DEF X!EnterDir
  <1>2. DOMAIN visited = 1..Len(visited) /\ Len(visited) \in Nat
    <2>1. visited \in Seq(2..(LastCluster + 1))
      BY LinkedType
    <2> HIDE DEF visited
    <2> QED
      BY <2>1
  <1>3. \A c \in DOMAIN vol.area : vol.area[c] \in Seq(S)
    BY ExFatArea
  <1>4. <<>> \in Seq(S)
    OBVIOUS
  <1> HIDE DEF visited, S
  <1>5. lists \in Seq(Seq(S))
    BY <1>2, <1>3, <1>4
  <1>6. FlattenSeq(lists) \in Seq(S)
    BY <1>5, FlattenType
  <1> QED
    BY <1>1, <1>6 DEF S

\* As of FAT.
LEMMA ExFatTakeType ==
    ASSUME NEW vol, X!IsVolume(vol), NEW e, X!IsEntry(e)
    PROVE  LET taken == X!TakeEntry(vol, e)
           IN  /\ taken.objects \in Seq(Objects) /\ \A i \in DOMAIN taken.objects : AllApart(taken.objects[i].exts, {})
               /\ taken.enter \in {<<>>, <<e.start>>}
               /\ taken.enter \in Seq(Nat) /\ Len(taken.enter) <= 1
  <1> DEFINE taken == X!TakeEntry(vol, e)
             size == IF e.what = "dir" THEN 0 ELSE e.valid
             exts == IF e.start >= 2 THEN X!chain(vol, e.start, size, e.nofat, e.what = "dir") ELSE <<>>
  <1>1. e.what \in {"file", "dir", "skip", "end"} /\ e.start \in Nat /\ size \in Nat
    BY DEF X!IsEntry
  <1>2. CASE e.what \in {"end", "skip"}
    <2>1. taken.objects = <<>> /\ taken.enter = <<>>
      <3>1. CASE e.what = "end"
        BY <3>1 DEF X!TakeEntry
      <3>2. CASE e.what = "skip"
        BY <3>2 DEF X!TakeEntry
      <3> QED
        BY <1>2, <3>1, <3>2
    <2> HIDE DEF taken
    <2>2. taken.enter \in Seq(Nat) /\ Len(taken.enter) <= 1 /\ taken.objects \in Seq(Objects)
      BY <2>1
    <2> QED
      BY <2>1, <2>2 DEF taken
  <1>3. CASE e.what \in {"file", "dir"}
    <2>1. /\ taken.objects = <<Object(e.what, size, exts)>>
          /\ taken.enter = IF e.what = "dir" /\ e.start >= 2 THEN <<e.start>> ELSE <<>>
      <3>1. e.what # "end" /\ e.what # "skip"
        BY <1>3
      <3>2. taken = [objects |-> <<Object(e.what, size, exts)>>,
                     enter |-> IF e.what = "dir" /\ e.start >= 2 THEN <<e.start>> ELSE <<>>,
                     stop |-> FALSE]
        BY <3>1, SameOperators DEF X!TakeEntry
      <3> HIDE DEF taken, exts, size
      <3> QED
        BY <3>2
    <2> HIDE DEF taken
    <2>2. exts \in Seq(Ranges) /\ AllApart(exts, {})
      <3>1. CASE e.start >= 2
        BY <1>1, <3>1, ExFatChainType
      <3>2. CASE ~(e.start >= 2)
        BY <3>2 DEF AllApart
      <3> QED
        BY <3>1, <3>2
    <2> HIDE DEF exts, size
    <2> DEFINE o == Object(e.what, size, exts)
    <2>3. o \in Objects /\ o.exts = exts
      <3>1. e.what \in {"meta", "file", "dir"}
        BY <1>3
      <3> QED
        BY <1>1, <2>2, <3>1, ObjectType
    <2> HIDE DEF o
    <2>4. /\ taken.objects = <<o>>
          /\ taken.enter = IF e.what = "dir" /\ e.start >= 2 THEN <<e.start>> ELSE <<>>
      BY <2>1 DEF o
    <2>5. taken.enter \in {<<>>, <<e.start>>}
      BY <2>4
    <2>6. taken.enter \in Seq(Nat) /\ Len(taken.enter) <= 1
      <3>1. <<e.start>> \in Seq(Nat) /\ Len(<<e.start>>) <= 1
        BY <1>1
      <3>2. <<>> \in Seq(Nat) /\ Len(<<>>) <= 1
        OBVIOUS
      <3> QED
        BY <2>5, <3>1, <3>2
    <2>7. taken.objects \in Seq(Objects) /\ \A i \in DOMAIN taken.objects : AllApart(taken.objects[i].exts, {})
      BY <2>2, <2>3, <2>4
    <2> QED
      BY <2>5, <2>6, <2>7 DEF taken
  <1> QED
    BY <1>1, <1>2, <1>3

-----------------------------------------------------------------------------
(* What the scanner of ext finds *)

LEMMA AddExtentsType ==
    ASSUME NEW exts \in Seq(Ranges), NEW more \in Seq(Ranges)
    PROVE  AddExtents(exts, more) \in Seq(Ranges)
  <1> DEFINE k == Len(more)
             S == Seq(Ranges)
  <1>1. PICK at : /\ \A n \in 0..k : at[n] \in S
                  /\ AddExtents(exts, more) = at[k]
    BY AddExtentsSteps
  <1>2. k \in 0..k
    OBVIOUS
  <1> HIDE DEF k, S
  <1> QED
    BY <1>1, <1>2 DEF S

LEMMA TotalType ==
    ASSUME NEW exts \in Seq(Ranges)
    PROVE  Total(exts) \in Nat
  <1> DEFINE k == Len(exts)
  <1>1. PICK at : /\ \A n \in 0..k : at[n] \in Nat
                  /\ Total(exts) = at[k]
    BY TotalSteps
  <1>2. k \in 0..k
    OBVIOUS
  <1> HIDE DEF k
  <1> QED
    BY <1>1, <1>2

LEMMA NothingTotal == Total(<<>>) = 0
  <1>1. <<>> \in Seq(Ranges) /\ Len(<<>>) = 0
    OBVIOUS
  <1>2. PICK at : at[0] = 0 /\ Total(<<>>) = at[Len(<<>>)]
    BY <1>1, TotalSteps
  <1> QED
    BY <1>1, <1>2

\* The copies instance E has of the operators of module Extents.
LEMMA SameExtOperators ==
    /\ \A s, e : E!AddExtent(s, e) = AddExtent(s, e)
    /\ \A s, t : E!AddExtents(s, t) = AddExtents(s, t)
    /\ \A s : E!Total(s) = Total(s)
    /\ E!Ranges = Ranges
  <1>1. \A s, e : E!AddExtent(s, e) = AddExtent(s, e)
    BY Zenon DEF AddExtent, E!AddExtent, Extent, E!Extent, Last, E!Last, Front, E!Front
  <1>2. \A s, t : E!AddExtents(s, t) = AddExtents(s, t)
    BY Zenon DEF E!AddExtents, AddExtents, E!FoldLeft, E!MapThenFoldSet, E!Max,
        FoldLeft, MapThenFoldSet, Max, E!AddExtent, AddExtent, E!Last, Last, E!Front, Front, E!Extent, Extent
  <1>3. \A s : E!Total(s) = Total(s)
    BY Zenon DEF E!Total, Total, E!FoldLeft, E!MapThenFoldSet, E!Max, FoldLeft, MapThenFoldSet, Max
  <1>4. E!Ranges = Ranges
    BY DEF E!Ranges, Ranges
  <1> QED
    BY <1>1, <1>2, <1>3, <1>4

Collected == [ok : BOOLEAN, exts : Seq(Ranges), left : Nat]

LEMMA BlockExtents ==
    ASSUME NEW exts \in Seq(Ranges), NEW b \in Nat, NEW len \in Nat
    PROVE  E!append_block_extents(exts, b, len) \in Seq(Ranges)
  <1>1. b * ClusterUnits \in Nat
    <2> DEFINE m == ClusterUnits
    <2>1. m \in Nat
      BY ExtentsAssumption
    <2> HIDE DEF m
    <2>2. b * m \in Nat
      BY <2>1
    <2> QED
      BY <2>2 DEF m
  <1>2. Extent(b * ClusterUnits, len) \in Ranges
    BY <1>1, ExtentInRanges
  <1>3. AddExtent(exts, Extent(b * ClusterUnits, len)) \in Seq(Ranges)
    BY <1>2, AddExtentType
  <1>4. E!append_block_extents(exts, b, len) \in {exts, AddExtent(exts, Extent(b * ClusterUnits, len))}
    BY SameExtOperators, SameOperators DEF E!append_block_extents, E!blk_off
  <1> QED
    BY <1>3, <1>4

LEMMA BlockTaken ==
    ASSUME NEW left \in Nat
    PROVE  /\ left - E!Least(left, ClusterUnits) \in Nat
           /\ E!Least(left, ClusterUnits) \in Nat
  <1>1. ClusterUnits \in Nat
    BY ExtentsAssumption
  <1>2. E!Least(left, ClusterUnits) = Least(left, ClusterUnits)
    BY SameOperators
  <1>3. Least(left, ClusterUnits) \in Nat /\ Least(left, ClusterUnits) <= left
    BY <1>1, LeastOf
  <1> QED
    BY <1>2, <1>3

LEMMA CollectedFields ==
    ASSUME NEW ok \in BOOLEAN, NEW exts \in Seq(Ranges), NEW left \in Nat
    PROVE  [ok |-> ok, exts |-> exts, left |-> left] \in Collected
  BY DEF Collected

LEMMA CollectedHas ==
    ASSUME NEW s \in Collected
    PROVE  /\ s.ok \in BOOLEAN /\ s.exts \in Seq(Ranges) /\ s.left \in Nat
           /\ [s EXCEPT !.ok = FALSE] \in Collected
           /\ \A left \in Nat : [s EXCEPT !.left = left] \in Collected
           /\ \A exts \in Seq(Ranges) : [s EXCEPT !.exts = exts] \in Collected
           /\ \A exts \in Seq(Ranges), left \in Nat : [s EXCEPT !.exts = exts, !.left = left] \in Collected
           /\ \A exts \in Seq(Ranges), left \in Nat : [s EXCEPT !.left = left, !.exts = exts] \in Collected
  BY DEF Collected

ExtentEntries == [block : Nat, len : Nat, uninit : BOOLEAN]

LeafTurn(t, e, i) ==
    [t EXCEPT !.left = @ - E!Least(@, ClusterUnits),
              !.exts = E!append_block_extents(@, e.block + i - 1, E!Least(t.left, ClusterUnits))]
LeafFold(s, e) ==
    E!FoldLeft(LAMBDA t, i :
                   [t EXCEPT !.left = @ - E!Least(@, ClusterUnits),
                             !.exts = E!append_block_extents(@, e.block + i - 1, E!Least(t.left, ClusterUnits))],
               s, [i \in 1..e.len |-> i])

LEMMA LeafTurnType ==
    ASSUME NEW e \in ExtentEntries, NEW t \in Collected, NEW i \in 1..e.len
    PROVE  LeafTurn(t, e, i) \in Collected
  <1> DEFINE len == E!Least(t.left, ClusterUnits)
             left == t.left - len
             exts == E!append_block_extents(t.exts, e.block + i - 1, len)
  <1>1. e.block \in Nat /\ e.len \in Nat
    BY DEF ExtentEntries
  <1>2. e.block + i - 1 \in Nat
    BY <1>1
  <1>3. t.exts \in Seq(Ranges) /\ t.left \in Nat
    BY CollectedHas
  <1>4. len \in Nat /\ left \in Nat
    BY <1>3, BlockTaken
  <1>5. exts \in Seq(Ranges)
    BY <1>2, <1>3, <1>4, BlockExtents
  <1>6. LeafTurn(t, e, i) = [t EXCEPT !.left = left, !.exts = exts]
    BY DEF LeafTurn
  <1>7. \A x \in Seq(Ranges), y \in Nat : [t EXCEPT !.left = y, !.exts = x] \in Collected
    BY CollectedHas
  <1> HIDE DEF left, exts, len
  <1> QED
    BY <1>4, <1>5, <1>6, <1>7

\* The blocks of one entry of a leaf.
LEMMA LeafSteps ==
    ASSUME NEW from \in Collected,
           NEW e \in ExtentEntries
    PROVE  \E at : /\ at[0] = from
                   /\ \A n \in 1..e.len : at[n] = LeafTurn(at[n - 1], e, n)
                   /\ \A n \in 0..e.len : at[n] \in Collected
                   /\ LeafFold(from, e) = at[e.len]
  <1> DEFINE seq == [i \in 1..e.len |-> i]
             k == e.len
             base == from
             S == Collected
             Phi(f) == [T \in SUBSET DOMAIN seq |-> IF T = {} THEN base ELSE LeafTurn(f[T \ {Max(T)}], e, seq[Max(T)])]
             g == [p \in S \X (1..k) |-> LeafTurn(p[1], e, p[2])]
             fold == CHOOSE f : f = Phi(f)
  <1>1. k \in Nat /\ DOMAIN seq = 1..k /\ \A n \in 1..k : seq[n] = n
    BY DEF ExtentEntries
  <1>2. base \in S
    OBVIOUS
  <1>3. \A s \in S, n \in 1..k : LeafTurn(s, e, n) \in S
    BY LeafTurnType
  <1>4. g \in [S \X (1..k) -> S]
    <2> HIDE DEF S, k, seq
    <2> QED
      BY <1>3
  <1>5. PICK it : Folding(it, S, base, k, g)
    <2> HIDE DEF g, S, k, base
    <2>1. k \in Nat
      BY <1>1
    <2> QED
      BY <1>2, <1>4, <2>1, FoldExists
  <1>6. it = Phi(it)
    <2> HIDE DEF S, k, seq, base
    <2>1. ASSUME NEW T \in SUBSET DOMAIN seq, T # {}
          PROVE  it[T] = LeafTurn(it[T \ {Max(T)}], e, seq[Max(T)])
      <3>1. Max(T) \in 1..k /\ it[T \ {Max(T)}] \in S /\ it[T] = g[<<it[T \ {Max(T)}], Max(T)>>]
        <4>1. T \in SUBSET (1..k)
          BY <1>1
        <4> HIDE DEF g
        <4> QED
          BY <1>5, <2>1, <4>1 DEF Folding
      <3> QED
        BY <1>1, <3>1
    <2> QED
      BY <1>1, <1>5, <2>1 DEF Folding
  <1>7. fold = Phi(fold)
    <2> HIDE DEF Phi
    <2> QED
      BY <1>6
  <1>8. LeafFold(from, e) = fold[1..k]
    <2>1. LeafFold(from, e) = fold[DOMAIN seq]
      BY Zenon DEF LeafFold, LeafTurn, E!FoldLeft, E!MapThenFoldSet, E!Max, Max
    <2> HIDE DEF fold
    <2> QED
      BY <1>1, <2>1
  <1>9. fold[{}] = base /\ \A n \in 1..k : fold[1..n] = LeafTurn(fold[1..(n - 1)], e, n)
    <2>1. {} \in SUBSET DOMAIN seq
      OBVIOUS
    <2>2. ASSUME NEW n \in 1..k PROVE fold[1..n] = LeafTurn(fold[1..(n - 1)], e, n)
      <3>1. /\ 1..n \in SUBSET DOMAIN seq /\ 1..n # {}
            /\ Max(1..n) = n /\ (1..n) \ {n} = 1..(n - 1)
        BY <1>1, UpTo
      <3> HIDE DEF fold, k, S, base
      <3>2. Phi(fold)[1..n] = LeafTurn(fold[1..(n - 1)], e, n)
        BY <1>1, <3>1
      <3> HIDE DEF Phi
      <3> QED
        BY <1>7, <3>2
    <2> HIDE DEF fold, k, S, seq, base
    <2>3. Phi(fold)[{}] = base
      BY <2>1
    <2> HIDE DEF Phi
    <2> QED
      BY <1>7, <2>2, <2>3
  <1> DEFINE at == [n \in 0..k |-> fold[1..n]]
  <1>10. at[0] = base /\ at[k] = fold[1..k]
    <2>1. 1..0 = {}
      OBVIOUS
    <2> HIDE DEF fold, k, S, seq, base
    <2> QED
      BY <1>1, <1>9, <2>1
  <1>11. \A n \in 1..k : at[n] = LeafTurn(at[n - 1], e, n)
    <2> HIDE DEF fold, k, S, seq, base
    <2> QED
      BY <1>1, <1>9
  <1>12. \A n \in 0..k : at[n] \in S
    <2>1. \A n \in 1..k : at[n - 1] \in S => at[n] \in S
      <3> HIDE DEF at, S, k
      <3> QED
        BY <1>3, <1>11
    <2>2. at[0] \in S
      <3> HIDE DEF at, S, base
      <3> QED
        BY <1>2, <1>10
    <2> HIDE DEF at, S, k
    <2> QED
      BY <1>1, <2>1, <2>2, Climb
  <1> HIDE DEF at, fold
  <1> QED
    BY <1>8, <1>10, <1>11, <1>12

LEMMA LeafType ==
    ASSUME NEW s \in Collected, NEW e \in ExtentEntries
    PROVE  E!LeafEntry(s, e) \in Collected
  <1>1. CASE e.uninit
    <2> DEFINE n == e.len * ClusterUnits
               left == s.left - E!Least(s.left, n)
    <2>1. E!LeafEntry(s, e) = [s EXCEPT !.left = left]
      BY <1>1 DEF E!LeafEntry
    <2>2. n \in Nat
      BY ExtentsAssumption DEF ExtentEntries
    <2>3. s.left \in Nat
      BY CollectedHas
    <2> HIDE DEF n
    <2>4. left \in Nat
      BY <2>2, <2>3, LeastOf, SameOperators
    <2> HIDE DEF left
    <2> QED
      BY <2>1, <2>4, CollectedHas
  <1>2. CASE ~e.uninit
    <2> DEFINE k == e.len
    <2>1. E!LeafEntry(s, e) = LeafFold(s, e)
      BY <1>2, Zenon DEF E!LeafEntry, LeafFold
    <2>2. PICK at : /\ \A n \in 0..k : at[n] \in Collected
                    /\ LeafFold(s, e) = at[k]
      BY LeafSteps
    <2>3. k \in 0..k
      BY DEF ExtentEntries
    <2> HIDE DEF k
    <2> QED
      BY <2>1, <2>2, <2>3
  <1> QED
    BY <1>1, <1>2

NodeTurn(vol, node, size, below, s, e) ==
    IF ~s.ok \/ s.left = 0 THEN s
    ELSE IF node.depth = 0 THEN E!LeafEntry(s, e)
    ELSE IF ~E!ReadsBlock(vol, e.block) THEN [s EXCEPT !.ok = FALSE]
    ELSE LET part == below[<<e.block, size - E!Total(s.exts)>>]
             exts == E!AddExtents(s.exts, part.exts)
         IN  IF ~part.ok THEN [s EXCEPT !.ok = FALSE]
             ELSE [s EXCEPT !.exts = exts, !.left = size - E!Least(size, E!Total(exts))]
NodeBegin(size) == [ok |-> TRUE, exts |-> <<>>, left |-> size]
NodeFold(vol, node, size, below) ==
    E!FoldLeft(LAMBDA s, e :
                   IF ~s.ok \/ s.left = 0 THEN s
                   ELSE IF node.depth = 0 THEN E!LeafEntry(s, e)
                   ELSE IF ~E!ReadsBlock(vol, e.block) THEN [s EXCEPT !.ok = FALSE]
                   ELSE LET part == below[<<e.block, size - E!Total(s.exts)>>]
                            exts == E!AddExtents(s.exts, part.exts)
                        IN  IF ~part.ok THEN [s EXCEPT !.ok = FALSE]
                            ELSE [s EXCEPT !.exts = exts, !.left = size - E!Least(size, E!Total(exts))],
               [ok |-> TRUE, exts |-> <<>>, left |-> size], node.entries)

\* Of a node that is no leaf, what is left and what was found add up to the size.
NodeStates(node, size) ==
    {s \in Collected : (node.depth # 0 /\ s.ok) => s.left = size - Least(size, Total(s.exts))}
Parsed(vol) == [(DOMAIN vol.nodes) \X Nat -> Collected]

\* One entry of a node of an extent tree.
LEMMA NodeTurnType ==
    ASSUME NEW vol, NEW node, E!IsNode(vol, node), NEW size \in Nat, NEW below \in Parsed(vol),
           NEW s \in NodeStates(node, size), NEW i \in 1..Len(node.entries)
    PROVE  NodeTurn(vol, node, size, below, s, node.entries[i]) \in NodeStates(node, size)
  <1> DEFINE e == node.entries[i]
  <1>1. node.entries \in Seq(ExtentEntries) /\ e \in ExtentEntries
        /\ (node.depth # 0 => e.block \in DOMAIN vol.nodes)
    <2>1. node.entries \in Seq(ExtentEntries)
      BY DEF E!IsNode, ExtentEntries
    <2>2. DOMAIN node.entries = 1..Len(node.entries) /\ e \in ExtentEntries
      BY <2>1
    <2> QED
      BY <2>1, <2>2 DEF E!IsNode
  <1>2. s \in Collected /\ s.left \in Nat /\ s.exts \in Seq(Ranges)
        /\ [s EXCEPT !.ok = FALSE] \in Collected
    BY CollectedHas DEF NodeStates
  <1>3. CASE ~s.ok \/ s.left = 0
    BY <1>3 DEF NodeTurn
  <1>4. CASE ~(~s.ok \/ s.left = 0) /\ node.depth = 0
    <2>1. NodeTurn(vol, node, size, below, s, e) = E!LeafEntry(s, e)
      BY <1>4 DEF NodeTurn
    <2>2. E!LeafEntry(s, e) \in Collected
      BY <1>1, <1>2, LeafType
    <2> QED
      BY <1>4, <2>1, <2>2 DEF NodeStates
  <1>5. [s EXCEPT !.ok = FALSE] \in NodeStates(node, size)
    <2>1. [s EXCEPT !.ok = FALSE].ok = FALSE
      BY <1>2 DEF Collected
    <2> QED
      BY <1>2, <2>1 DEF NodeStates
  <1>6. CASE ~(~s.ok \/ s.left = 0) /\ node.depth # 0
    <2> DEFINE found == Total(s.exts)
               part == below[<<e.block, size - found>>]
               exts == AddExtents(s.exts, part.exts)
               left == size - Least(size, Total(exts))
    <2>1. found \in Nat /\ s.left = size - Least(size, found) /\ s.left # 0
      BY <1>2, <1>6, TotalType DEF NodeStates
    <2>2. size - found \in Nat
      <3> HIDE DEF found
      <3> QED
        BY <2>1 DEF Least
    <2>3. NodeTurn(vol, node, size, below, s, e)
              \in {[s EXCEPT !.ok = FALSE], [s EXCEPT !.exts = exts, !.left = left]}
      <3>1. NodeTurn(vol, node, size, below, s, e) =
                IF ~E!ReadsBlock(vol, e.block) THEN [s EXCEPT !.ok = FALSE]
                ELSE IF ~part.ok THEN [s EXCEPT !.ok = FALSE]
                ELSE [s EXCEPT !.exts = exts, !.left = left]
        <4>1. /\ \A x : E!Total(x) = Total(x)
              /\ \A x, y : E!AddExtents(x, y) = AddExtents(x, y)
              /\ \A x, y : E!Least(x, y) = Least(x, y)
          BY SameExtOperators, SameOperators
        <4> HIDE DEF e
        <4> QED
          BY <1>6, <4>1 DEF NodeTurn
      <3> HIDE DEF exts, left, part
      <3> QED
        BY <3>1
    <2>4. part \in Collected
      <3> DEFINE rest == size - found
      <3> HIDE DEF rest, e
      <3>1. rest \in Nat
        BY <2>2 DEF rest
      <3>2. below[<<e.block, rest>>] \in Collected
        BY <1>1, <1>6, <3>1 DEF Parsed
      <3> QED
        BY <3>2 DEF rest
    <2> HIDE DEF part
    <2>5. exts \in Seq(Ranges)
      <3>1. part.exts \in Seq(Ranges)
        BY <2>4, CollectedHas
      <3> QED
        BY <1>2, <3>1, AddExtentsType
    <2> HIDE DEF exts
    <2>6. left \in Nat
      <3> DEFINE all == Total(exts)
      <3>1. all \in Nat
        BY <2>5, TotalType
      <3> HIDE DEF all
      <3>2. Least(size, all) \in Nat /\ Least(size, all) <= size
        BY <3>1, LeastOf
      <3> QED
        BY <3>2 DEF all
    <2>7. [s EXCEPT !.exts = exts, !.left = left] \in NodeStates(node, size)
      <3> DEFINE t == [s EXCEPT !.exts = exts, !.left = left]
      <3>1. t \in Collected
        <4>1. \A x \in Seq(Ranges), y \in Nat : [s EXCEPT !.exts = x, !.left = y] \in Collected
          BY <1>2, CollectedHas
        <4> HIDE DEF left
        <4> QED
          BY <2>5, <2>6, <4>1
      <3>2. t.exts = exts /\ t.left = left
        <4> HIDE DEF left
        <4> QED
          BY <1>2 DEF Collected
      <3>3. t.left = size - Least(size, Total(t.exts))
        BY <3>2
      <3> HIDE DEF t
      <3>4. t \in NodeStates(node, size)
        BY <3>1, <3>3 DEF NodeStates
      <3> QED
        BY <3>4 DEF t
    <2> QED
      BY <1>5, <2>3, <2>7
  <1> QED
    BY <1>3, <1>4, <1>6

\* The entries of one node.
LEMMA NodeSteps ==
    ASSUME NEW vol,
           NEW node,
           E!IsNode(vol, node),
           NEW size \in Nat,
           NEW below \in Parsed(vol)
    PROVE  \E at : /\ at[0] = NodeBegin(size)
                   /\ \A n \in 1..Len(node.entries) : at[n]
                            = NodeTurn(vol, node, size, below, at[n - 1], node.entries[n])
                   /\ \A n \in 0..Len(node.entries) : at[n] \in NodeStates(node, size)
                   /\ NodeFold(vol, node, size, below) = at[Len(node.entries)]
  <1> DEFINE seq == node.entries
             k == Len(node.entries)
             base == NodeBegin(size)
             S == NodeStates(node, size)
             Phi(f) == [T \in SUBSET DOMAIN seq |-> IF T = {} THEN base
                                                    ELSE NodeTurn(vol, node, size, below, f[T \ {Max(T)}], node.entries[Max(T)])]
             g == [p \in S \X (1..k) |-> NodeTurn(vol, node, size, below, p[1], node.entries[p[2]])]
             fold == CHOOSE f : f = Phi(f)
  <1>1. k \in Nat /\ DOMAIN seq = 1..k
    BY DEF E!IsNode
  <1>2. base \in S
    <2>1. NodeBegin(size) \in Collected /\ NodeBegin(size).left = size /\ NodeBegin(size).exts = <<>>
      <3>1. <<>> \in Seq(Ranges) /\ TRUE \in BOOLEAN
        OBVIOUS
      <3>2. NodeBegin(size) \in Collected
        BY <3>1, CollectedFields DEF NodeBegin
      <3>3. NodeBegin(size).left = size /\ NodeBegin(size).exts = <<>>
        BY DEF NodeBegin
      <3> QED
        BY <3>2, <3>3
    <2>2. Total(<<>>) = 0
      BY NothingTotal
    <2>3. size - Least(size, 0) = size
      BY DEF Least
    <2> QED
      BY <2>1, <2>2, <2>3 DEF NodeStates
  <1>3. \A s \in S, n \in 1..k : NodeTurn(vol, node, size, below, s, node.entries[n]) \in S
    BY NodeTurnType
  <1>4. g \in [S \X (1..k) -> S]
    <2> HIDE DEF S, k, seq
    <2> QED
      BY <1>3
  <1>5. PICK it : Folding(it, S, base, k, g)
    <2> HIDE DEF g, S, k, base
    <2>1. k \in Nat
      BY <1>1
    <2> QED
      BY <1>2, <1>4, <2>1, FoldExists
  <1>6. it = Phi(it)
    <2> HIDE DEF S, k, seq, base
    <2> QED
      BY <1>1, <1>5 DEF Folding
  <1>7. fold = Phi(fold)
    <2> HIDE DEF Phi
    <2> QED
      BY <1>6
  <1>8. NodeFold(vol, node, size, below) = fold[1..k]
    <2>1. NodeFold(vol, node, size, below) = fold[DOMAIN seq]
      BY Zenon DEF NodeFold, NodeBegin, NodeTurn, E!FoldLeft, E!MapThenFoldSet, E!Max, Max
    <2> HIDE DEF fold
    <2> QED
      BY <1>1, <2>1
  <1>9. fold[{}] = base /\ \A n \in 1..k : fold[1..n]
                                 = NodeTurn(vol, node, size, below, fold[1..(n - 1)], node.entries[n])
    <2>1. {} \in SUBSET DOMAIN seq
      OBVIOUS
    <2>2. ASSUME NEW n \in 1..k PROVE fold[1..n] = NodeTurn(vol, node, size, below, fold[1..(n - 1)], node.entries[n])
      <3>1. /\ 1..n \in SUBSET DOMAIN seq /\ 1..n # {}
            /\ Max(1..n) = n /\ (1..n) \ {n} = 1..(n - 1)
        BY <1>1, UpTo
      <3> HIDE DEF fold, k, S, base
      <3>2. Phi(fold)[1..n] = NodeTurn(vol, node, size, below, fold[1..(n - 1)], node.entries[n])
        BY <1>1, <3>1
      <3> HIDE DEF Phi
      <3> QED
        BY <1>7, <3>2
    <2> HIDE DEF fold, k, S, seq, base
    <2>3. Phi(fold)[{}] = base
      BY <2>1
    <2> HIDE DEF Phi
    <2> QED
      BY <1>7, <2>2, <2>3
  <1> DEFINE at == [n \in 0..k |-> fold[1..n]]
  <1>10. at[0] = base /\ at[k] = fold[1..k]
    <2>1. 1..0 = {}
      OBVIOUS
    <2> HIDE DEF fold, k, S, seq, base
    <2> QED
      BY <1>1, <1>9, <2>1
  <1>11. \A n \in 1..k : at[n] = NodeTurn(vol, node, size, below, at[n - 1], node.entries[n])
    <2> HIDE DEF fold, k, S, seq, base
    <2> QED
      BY <1>1, <1>9
  <1>12. \A n \in 0..k : at[n] \in S
    <2>1. \A n \in 1..k : at[n - 1] \in S => at[n] \in S
      <3> HIDE DEF at, S, k
      <3> QED
        BY <1>3, <1>11
    <2>2. at[0] \in S
      <3> HIDE DEF at, S, base
      <3> QED
        BY <1>2, <1>10
    <2> HIDE DEF at, S, k
    <2> QED
      BY <1>1, <2>1, <2>2, Climb
  <1> HIDE DEF at, fold
  <1> QED
    BY <1>8, <1>10, <1>11, <1>12

LEMMA ParseType ==
    ASSUME NEW vol, NEW node, E!IsNode(vol, node), NEW size \in Nat, NEW below \in Parsed(vol)
    PROVE  E!ParseNode(vol, node, size, below) \in Collected
  <1>1. CASE ~node.magic
    <2>1. <<>> \in Seq(Ranges) /\ FALSE \in BOOLEAN
      OBVIOUS
    <2>2. E!ParseNode(vol, node, size, below) = [ok |-> FALSE, exts |-> <<>>, left |-> size]
      BY <1>1 DEF E!ParseNode
    <2> QED
      BY <2>1, <2>2, CollectedFields
  <1>2. CASE node.magic
    <2> DEFINE k == Len(node.entries)
               S == NodeStates(node, size)
    <2>1. E!ParseNode(vol, node, size, below) = NodeFold(vol, node, size, below)
      BY <1>2, Zenon DEF E!ParseNode, NodeFold
    <2>2. PICK at : /\ \A n \in 0..k : at[n] \in S
                    /\ NodeFold(vol, node, size, below) = at[k]
      BY NodeSteps
    <2>3. k \in 0..k
      BY DEF E!IsNode
    <2>4. S \subseteq Collected
      BY DEF NodeStates
    <2> HIDE DEF k, S
    <2> QED
      BY <2>1, <2>2, <2>3, <2>4
  <1> QED
    BY <1>1, <1>2

\* Every level of an extent tree is parsed from the levels below it.
LEMMA NodesBelowType ==
    ASSUME NEW vol, E!IsVolume(vol)
    PROVE  E!NodesBelow(vol) \in Parsed(vol)
  <1> DEFINE D == (DOMAIN vol.nodes) \X Nat
             T == [D -> Collected]
             none == [p \in D |-> [ok |-> FALSE, exts |-> <<>>, left |-> p[2]]]
             Next1(below) == [p \in D |-> E!ParseNode(vol, vol.nodes[p[1]], p[2], below)]
             Phi(f) == [n \in 0..TreeDepth |->
                           [p \in D |-> IF n = 0 THEN [ok |-> FALSE, exts |-> <<>>, left |-> p[2]]
                                        ELSE E!ParseNode(vol, vol.nodes[p[1]], p[2], f[n - 1])]]
             below == CHOOSE f : f = Phi(f)
             g == [p \in T \X (1..TreeDepth) |-> Next1(p[1])]
  <1>1. TreeDepth \in Nat /\ \A b \in DOMAIN vol.nodes : E!IsNode(vol, vol.nodes[b])
    BY DevicesAssumption DEF E!IsVolume
  <1>2. E!NodesBelow(vol) = below[TreeDepth]
    BY Zenon DEF E!NodesBelow
  <1>3. none \in T
    <2>1. \A size \in Nat : [ok |-> FALSE, exts |-> <<>>, left |-> size] \in Collected
      <3>1. <<>> \in Seq(Ranges) /\ FALSE \in BOOLEAN
        OBVIOUS
      <3> QED
        BY <3>1, CollectedFields
    <2>2. \A p \in D : p[2] \in Nat
      OBVIOUS
    <2> HIDE DEF D
    <2> QED
      BY <2>1, <2>2
  <1>4. ASSUME NEW f \in T PROVE Next1(f) \in T
    <2>1. T = Parsed(vol)
      BY DEF Parsed
    <2>2. ASSUME NEW p \in D PROVE E!ParseNode(vol, vol.nodes[p[1]], p[2], f) \in Collected
      <3>1. p[1] \in DOMAIN vol.nodes /\ p[2] \in Nat
        OBVIOUS
      <3> HIDE DEF T
      <3> QED
        BY <1>1, <2>1, <3>1, ParseType
    <2> HIDE DEF D
    <2> QED
      BY <2>2
  <1>5. g \in [T \X (1..TreeDepth) -> T]
    <2> HIDE DEF T, Next1
    <2> QED
      BY <1>4
  <1>6. PICK at : Recurring(at, T, none, TreeDepth, g)
    <2> HIDE DEF T, g, none
    <2> QED
      BY <1>1, <1>3, <1>5, Recursion
  <1>7. \A n \in 1..TreeDepth : at[n] = Next1(at[n - 1])
    <2> HIDE DEF T, Next1
    <2> QED
      BY <1>1, <1>6 DEF Recurring
  <1>8. at = Phi(at)
    <2>1. at \in [0..TreeDepth -> T] /\ at[0] = none
      BY <1>6 DEF Recurring
    <2>2. ASSUME NEW n \in 0..TreeDepth
          PROVE  at[n] = [p \in D |-> IF n = 0 THEN [ok |-> FALSE, exts |-> <<>>, left |-> p[2]]
                                      ELSE E!ParseNode(vol, vol.nodes[p[1]], p[2], at[n - 1])]
      <3>1. CASE n = 0
        <4> HIDE DEF D
        <4> QED
          BY <2>1, <3>1
      <3>2. CASE n # 0
        <4>1. n \in 1..TreeDepth
          BY <1>1, <3>2
        <4>2. at[n] = Next1(at[n - 1])
          BY <1>7, <4>1
        <4> HIDE DEF D
        <4> QED
          BY <3>2, <4>2
      <3> QED
        BY <3>1, <3>2
    <2> HIDE DEF D, T
    <2> QED
      BY <2>1, <2>2
  <1>9. below = Phi(below)
    <2> HIDE DEF Phi
    <2> QED
      BY <1>8
  <1> HIDE DEF below
  <1>10. below[0] = none /\ \A n \in 1..TreeDepth : below[n] = Next1(below[n - 1])
    <2>1. Phi(below)[0] = none
      <3>1. 0 \in 0..TreeDepth
        BY <1>1
      <3> HIDE DEF D
      <3> QED
        BY <3>1
    <2>2. ASSUME NEW n \in 1..TreeDepth PROVE Phi(below)[n] = Next1(below[n - 1])
      <3>1. n \in 0..TreeDepth /\ n # 0
        BY <1>1
      <3> HIDE DEF D
      <3> QED
        BY <3>1
    <2> HIDE DEF Phi, none, Next1
    <2> QED
      BY <1>9, <2>1, <2>2
  <1>11. \A n \in 0..TreeDepth : below[n] \in T
    <2>1. below[0] \in T
      BY <1>3, <1>10
    <2>2. \A n \in 1..TreeDepth : below[n - 1] \in T => below[n] \in T
      <3> HIDE DEF T, Next1, none
      <3> QED
        BY <1>4, <1>10
    <2> HIDE DEF T
    <2> QED
      BY <1>1, <2>1, <2>2, Climb
  <1>12. TreeDepth \in 0..TreeDepth
    BY <1>1
  <1> QED
    BY <1>2, <1>11, <1>12 DEF Parsed

Gathered(vol) == [Collected \X DOMAIN vol.ptrs -> Collected]
BlockFold(vol, s, b, below) ==
    E!FoldLeft(LAMBDA t, p : below[<<t, p>>],
               [s EXCEPT !.exts = E!append_block_extents(@, b, ClusterUnits)], vol.ptrs[b])
BlockBegin(s, b) == [s EXCEPT !.exts = E!append_block_extents(@, b, ClusterUnits)]

\* The block numbers that one block holds.
LEMMA BlockSteps ==
    ASSUME NEW vol,
           E!IsVolume(vol),
           NEW s0 \in Collected,
           NEW b \in DOMAIN vol.ptrs,
           NEW below \in Gathered(vol)
    PROVE  \E at : /\ at[0] = BlockBegin(s0, b)
                   /\ \A n \in 1..Len(vol.ptrs[b]) : at[n] = below[<<at[n - 1], vol.ptrs[b][n]>>]
                   /\ \A n \in 0..Len(vol.ptrs[b]) : at[n] \in Collected
                   /\ BlockFold(vol, s0, b, below) = at[Len(vol.ptrs[b])]
  <1> DEFINE seq == vol.ptrs[b]
             k == Len(vol.ptrs[b])
             base == BlockBegin(s0, b)
             S == Collected
             Phi(f) == [T \in SUBSET DOMAIN seq |-> IF T = {} THEN base
                                                    ELSE below[<<f[T \ {Max(T)}], vol.ptrs[b][Max(T)]>>]]
             g == [p \in S \X (1..k) |-> below[<<p[1], vol.ptrs[b][p[2]]>>]]
             fold == CHOOSE f : f = Phi(f)
  <1>1. k \in Nat /\ DOMAIN seq = 1..k
    BY DEF E!IsVolume
  <1>2. base \in S
    <2>1. b \in Nat /\ ClusterUnits \in Nat /\ s0.exts \in Seq(Ranges)
      BY ExtentsAssumption, CollectedHas DEF E!IsVolume
    <2>2. E!append_block_extents(s0.exts, b, ClusterUnits) \in Seq(Ranges)
      BY <2>1, BlockExtents
    <2>3. \A x \in Seq(Ranges) : [s0 EXCEPT !.exts = x] \in Collected
      BY CollectedHas
    <2> QED
      BY <2>2, <2>3 DEF BlockBegin
  <1>3. \A s \in S, n \in 1..k : below[<<s, vol.ptrs[b][n]>>] \in S
    <2> DEFINE D == DOMAIN vol.ptrs
               list == vol.ptrs[b]
    <2>1. list \in Seq(D) /\ below \in [Collected \X D -> Collected]
      BY DEF E!IsVolume, Gathered
    <2> HIDE DEF D, list
    <2>2. \A n \in 1..Len(list) : list[n] \in D
      BY <2>1
    <2>3. \A s \in Collected, n \in 1..Len(list) : below[<<s, list[n]>>] \in Collected
      BY <2>1, <2>2
    <2> QED
      BY <2>3 DEF list
  <1>4. g \in [S \X (1..k) -> S]
    <2> HIDE DEF S, k, seq
    <2> QED
      BY <1>3
  <1>5. PICK it : Folding(it, S, base, k, g)
    <2> HIDE DEF g, S, k, base
    <2>1. k \in Nat
      BY <1>1
    <2> QED
      BY <1>2, <1>4, <2>1, FoldExists
  <1>6. it = Phi(it)
    <2> HIDE DEF S, k, seq, base
    <2> QED
      BY <1>1, <1>5 DEF Folding
  <1>7. fold = Phi(fold)
    <2> HIDE DEF Phi
    <2> QED
      BY <1>6
  <1>8. BlockFold(vol, s0, b, below) = fold[1..k]
    <2>1. BlockFold(vol, s0, b, below) = fold[DOMAIN seq]
      BY Zenon DEF BlockFold, BlockBegin, E!FoldLeft, E!MapThenFoldSet, E!Max, Max
    <2> HIDE DEF fold
    <2> QED
      BY <1>1, <2>1
  <1>9. fold[{}] = base /\ \A n \in 1..k : fold[1..n] = below[<<fold[1..(n - 1)], vol.ptrs[b][n]>>]
    <2>1. {} \in SUBSET DOMAIN seq
      OBVIOUS
    <2>2. ASSUME NEW n \in 1..k PROVE fold[1..n] = below[<<fold[1..(n - 1)], vol.ptrs[b][n]>>]
      <3>1. /\ 1..n \in SUBSET DOMAIN seq /\ 1..n # {}
            /\ Max(1..n) = n /\ (1..n) \ {n} = 1..(n - 1)
        BY <1>1, UpTo
      <3> HIDE DEF fold, k, S, base
      <3>2. Phi(fold)[1..n] = below[<<fold[1..(n - 1)], vol.ptrs[b][n]>>]
        BY <1>1, <3>1
      <3> HIDE DEF Phi
      <3> QED
        BY <1>7, <3>2
    <2> HIDE DEF fold, k, S, seq, base
    <2>3. Phi(fold)[{}] = base
      BY <2>1
    <2> HIDE DEF Phi
    <2> QED
      BY <1>7, <2>2, <2>3
  <1> DEFINE at == [n \in 0..k |-> fold[1..n]]
  <1>10. at[0] = base /\ at[k] = fold[1..k]
    <2>1. 1..0 = {}
      OBVIOUS
    <2> HIDE DEF fold, k, S, seq, base
    <2> QED
      BY <1>1, <1>9, <2>1
  <1>11. \A n \in 1..k : at[n] = below[<<at[n - 1], vol.ptrs[b][n]>>]
    <2> HIDE DEF fold, k, S, seq, base
    <2> QED
      BY <1>1, <1>9
  <1>12. \A n \in 0..k : at[n] \in S
    <2>1. \A n \in 1..k : at[n - 1] \in S => at[n] \in S
      <3> HIDE DEF at, S, k
      <3> QED
        BY <1>3, <1>11
    <2>2. at[0] \in S
      <3> HIDE DEF at, S, base
      <3> QED
        BY <1>2, <1>10
    <2> HIDE DEF at, S, k
    <2> QED
      BY <1>1, <2>1, <2>2, Climb
  <1> HIDE DEF at, fold
  <1> QED
    BY <1>8, <1>10, <1>11, <1>12

LEMMA CollectBlockType ==
    ASSUME NEW vol, E!IsVolume(vol), NEW s \in Collected, NEW b \in DOMAIN vol.ptrs, NEW level,
           NEW below, level # 0 => below \in Gathered(vol)
    PROVE  E!CollectBlock(vol, s, b, level, below) \in Collected
  <1>1. s.exts \in Seq(Ranges) /\ s.left \in Nat /\ b \in Nat /\ [s EXCEPT !.ok = FALSE] \in Collected
    BY CollectedHas DEF E!IsVolume
  <1>2. CASE ~s.ok \/ b = 0 \/ s.left = 0
    BY <1>2 DEF E!CollectBlock
  <1>3. CASE ~(~s.ok \/ b = 0 \/ s.left = 0) /\ level = 0
    <2> DEFINE len == E!Least(s.left, ClusterUnits)
               left == s.left - len
               exts == E!append_block_extents(s.exts, b, len)
    <2>1. E!CollectBlock(vol, s, b, level, below) = [s EXCEPT !.exts = exts, !.left = left]
      BY <1>3 DEF E!CollectBlock
    <2>2. len \in Nat /\ left \in Nat
      BY <1>1, BlockTaken
    <2>3. exts \in Seq(Ranges)
      BY <1>1, <2>2, BlockExtents
    <2>4. \A x \in Seq(Ranges), y \in Nat : [s EXCEPT !.exts = x, !.left = y] \in Collected
      BY CollectedHas
    <2> HIDE DEF left, exts
    <2> QED
      BY <2>1, <2>2, <2>3, <2>4
  <1>4. CASE ~(~s.ok \/ b = 0 \/ s.left = 0) /\ level # 0
    <2>1. E!CollectBlock(vol, s, b, level, below) \in {[s EXCEPT !.ok = FALSE], BlockFold(vol, s, b, below)}
      <3>1. E!CollectBlock(vol, s, b, level, below) =
                IF ~E!ReadsBlock(vol, b) THEN [s EXCEPT !.ok = FALSE] ELSE BlockFold(vol, s, b, below)
        BY <1>4, Zenon DEF E!CollectBlock, BlockFold
      <3> QED
        BY <3>1
    <2> DEFINE k == Len(vol.ptrs[b])
    <2>2. PICK at : /\ \A n \in 0..k : at[n] \in Collected
                    /\ BlockFold(vol, s, b, below) = at[k]
      BY <1>4, BlockSteps
    <2>3. k \in 0..k
      BY DEF E!IsVolume
    <2> HIDE DEF k
    <2> QED
      BY <1>1, <2>1, <2>2, <2>3
  <1> QED
    BY <1>2, <1>3, <1>4

\* And so are blocks of block numbers, level by level.
LEMMA CollectIndirectType ==
    ASSUME NEW vol, E!IsVolume(vol), NEW s \in Collected, NEW b \in DOMAIN vol.ptrs, NEW level \in Nat
    PROVE  E!collect_indirect(vol, s, b, level) \in Collected
  <1> DEFINE D == Collected \X DOMAIN vol.ptrs
             T == [D -> Collected]
             first == [p \in D |-> E!CollectBlock(vol, p[1], p[2], 0, <<>>)]
             Next1(n, below) == [p \in D |-> E!CollectBlock(vol, p[1], p[2], n, below)]
             Phi(f) == [n \in 0..level |->
                           [p \in D |-> E!CollectBlock(vol, p[1], p[2], n, IF n = 0 THEN <<>> ELSE f[n - 1])]]
             below == CHOOSE f : f = Phi(f)
             g == [p \in T \X (1..level) |-> Next1(p[2], p[1])]
  <1>1. E!collect_indirect(vol, s, b, level) = below[level][<<s, b>>]
    <2>1. E!Collected = Collected
      BY SameExtOperators DEF E!Collected, Collected
    <2>2. E!collect_indirect(vol, s, b, level) =
              (CHOOSE f : f = [n \in 0..level |->
                  [p \in E!Collected \X DOMAIN vol.ptrs |->
                      E!CollectBlock(vol, p[1], p[2], n, IF n = 0 THEN <<>> ELSE f[n - 1])]])[level][<<s, b>>]
      BY Zenon DEF E!collect_indirect
    <2> QED
      BY <2>1, <2>2, Zenon
  <1>2. first \in T
    <2>1. ASSUME NEW p \in D PROVE E!CollectBlock(vol, p[1], p[2], 0, <<>>) \in Collected
      <3>1. p[1] \in Collected /\ p[2] \in DOMAIN vol.ptrs
        OBVIOUS
      <3> QED
        BY <3>1, CollectBlockType
    <2> HIDE DEF D
    <2> QED
      BY <2>1
  <1>3. ASSUME NEW f \in T, NEW n \in 1..level PROVE Next1(n, f) \in T
    <2>1. T = Gathered(vol)
      BY DEF Gathered
    <2>2. ASSUME NEW p \in D PROVE E!CollectBlock(vol, p[1], p[2], n, f) \in Collected
      <3>1. p[1] \in Collected /\ p[2] \in DOMAIN vol.ptrs
        OBVIOUS
      <3> HIDE DEF T
      <3> QED
        BY <2>1, <3>1, CollectBlockType
    <2> HIDE DEF D
    <2> QED
      BY <2>2
  <1>4. g \in [T \X (1..level) -> T]
    <2> HIDE DEF T, Next1
    <2> QED
      BY <1>3
  <1>5. PICK at : Recurring(at, T, first, level, g)
    <2> HIDE DEF T, g, first
    <2> QED
      BY <1>2, <1>4, Recursion
  <1>6. \A n \in 1..level : at[n] = Next1(n, at[n - 1])
    <2> HIDE DEF T, Next1
    <2> QED
      BY <1>5 DEF Recurring
  <1>7. at = Phi(at)
    <2>1. at \in [0..level -> T] /\ at[0] = first
      BY <1>5 DEF Recurring
    <2>2. ASSUME NEW n \in 0..level
          PROVE  at[n] = [p \in D |-> E!CollectBlock(vol, p[1], p[2], n, IF n = 0 THEN <<>> ELSE at[n - 1])]
      <3>1. CASE n = 0
        <4> HIDE DEF D
        <4> QED
          BY <2>1, <3>1
      <3>2. CASE n # 0
        <4>1. n \in 1..level
          BY <3>2
        <4>2. at[n] = Next1(n, at[n - 1])
          BY <1>6, <4>1
        <4> HIDE DEF D
        <4> QED
          BY <3>2, <4>2
      <3> QED
        BY <3>1, <3>2
    <2> HIDE DEF D, T
    <2> QED
      BY <2>1, <2>2
  <1>8. below = Phi(below)
    <2> HIDE DEF Phi
    <2> QED
      BY <1>7
  <1> HIDE DEF below
  <1>9. below[0] = first /\ \A n \in 1..level : below[n] = Next1(n, below[n - 1])
    <2>1. Phi(below)[0] = first
      <3>1. 0 \in 0..level
        OBVIOUS
      <3> HIDE DEF D
      <3> QED
        BY <3>1
    <2>2. ASSUME NEW n \in 1..level PROVE Phi(below)[n] = Next1(n, below[n - 1])
      <3>1. n \in 0..level /\ n # 0
        OBVIOUS
      <3> HIDE DEF D
      <3> QED
        BY <3>1
    <2> HIDE DEF Phi, first, Next1
    <2> QED
      BY <1>8, <2>1, <2>2
  <1>10. \A n \in 0..level : below[n] \in T
    <2>1. below[0] \in T
      BY <1>2, <1>9
    <2>2. \A n \in 1..level : below[n - 1] \in T => below[n] \in T
      <3> HIDE DEF T, Next1, first
      <3> QED
        BY <1>3, <1>9
    <2> HIDE DEF T
    <2> QED
      BY <2>1, <2>2, Climb
  <1>11. below[level] \in T
    <2>1. level \in 0..level
      OBVIOUS
    <2> HIDE DEF T
    <2> QED
      BY <1>10, <2>1
  <1>12. <<s, b>> \in D
    OBVIOUS
  <1> HIDE DEF D
  <1> QED
    BY <1>1, <1>11, <1>12

\* A size, or its low half.
LEMMA SizeType ==
    ASSUME NEW vol, NEW inode, E!IsInode(vol, inode)
    PROVE  E!i_size(vol, inode) \in Nat
  <1>1. inode.size \in Nat /\ Word \in Nat \ {0}
    BY PartitionsAssumption DEF E!IsInode
  <1>2. inode.size % Word \in Nat
    BY <1>1
  <1> QED
    BY <1>1, <1>2 DEF E!i_size

MapBegin(vol, inode) ==
    [ok |-> TRUE, exts |-> <<>>,
     left |-> IF inode.what = "dir" /\ E!i_size(vol, inode) = 0 THEN DirectBlocks * ClusterUnits ELSE E!i_size(vol, inode)]
MapFold(vol, inode) ==
    E!FoldLeft(LAMBDA s, i : E!collect_indirect(vol, s, inode.map[i], E!LevelOf(i)),
               [ok |-> TRUE, exts |-> <<>>,
                left |-> IF inode.what = "dir" /\ E!i_size(vol, inode) = 0
                         THEN DirectBlocks * ClusterUnits ELSE E!i_size(vol, inode)],
               [i \in 1..(DirectBlocks + 3) |-> i])

\* The block numbers of an inode, direct and indirect.
LEMMA MapSteps ==
    ASSUME NEW vol,
           E!IsVolume(vol),
           NEW inode,
           E!IsInode(vol, inode)
    PROVE  \E at : /\ at[0] = MapBegin(vol, inode)
                   /\ \A n \in 1..(DirectBlocks + 3) : at[n]
                            = E!collect_indirect(vol, at[n - 1], inode.map[n], E!LevelOf(n))
                   /\ \A n \in 0..(DirectBlocks + 3) : at[n] \in Collected
                   /\ MapFold(vol, inode) = at[(DirectBlocks + 3)]
  <1> DEFINE seq == [i \in 1..(DirectBlocks + 3) |-> i]
             k == (DirectBlocks + 3)
             base == MapBegin(vol, inode)
             S == Collected
             Phi(f) == [T \in SUBSET DOMAIN seq |-> IF T = {} THEN base
                                                    ELSE E!collect_indirect(vol, f[T \ {Max(T)}], inode.map[seq[Max(T)]], E!LevelOf(seq[Max(T)]))]
             g == [p \in S \X (1..k) |-> E!collect_indirect(vol, p[1], inode.map[p[2]], E!LevelOf(p[2]))]
             fold == CHOOSE f : f = Phi(f)
  <1>1. k \in Nat /\ DOMAIN seq = 1..k /\ \A n \in 1..k : seq[n] = n
    BY DevicesAssumption
  <1>2. base \in S
    <2>1. DirectBlocks * ClusterUnits \in Nat
      BY DevicesAssumption, ExtentsAssumption
    <2>2. E!i_size(vol, inode) \in Nat
      BY SizeType
    <2>3. <<>> \in Seq(Ranges) /\ TRUE \in BOOLEAN
      OBVIOUS
    <2> DEFINE left == IF inode.what = "dir" /\ E!i_size(vol, inode) = 0 THEN DirectBlocks * ClusterUnits ELSE E!i_size(vol, inode)
    <2>4. left \in Nat
      BY <2>1, <2>2
    <2>5. MapBegin(vol, inode) = [ok |-> TRUE, exts |-> <<>>, left |-> left]
      BY DEF MapBegin
    <2> HIDE DEF left
    <2> QED
      BY <2>3, <2>4, <2>5, CollectedFields
  <1>3. \A s \in S, n \in 1..k : E!collect_indirect(vol, s, inode.map[n], E!LevelOf(n)) \in S
    <2>1. \A n \in 1..k : inode.map[n] \in DOMAIN vol.ptrs
      BY DEF E!IsInode
    <2>2. \A n \in 1..k : E!LevelOf(n) \in Nat
      BY DevicesAssumption DEF E!LevelOf
    <2> HIDE DEF k
    <2> QED
      BY <2>1, <2>2, CollectIndirectType
  <1>4. g \in [S \X (1..k) -> S]
    <2> HIDE DEF S, k, seq
    <2> QED
      BY <1>3
  <1>5. PICK it : Folding(it, S, base, k, g)
    <2> HIDE DEF g, S, k, base
    <2>1. k \in Nat
      BY <1>1
    <2> QED
      BY <1>2, <1>4, <2>1, FoldExists
  <1>6. it = Phi(it)
    <2> HIDE DEF S, k, seq, base
    <2>1. ASSUME NEW T \in SUBSET DOMAIN seq, T # {}
          PROVE  it[T] = E!collect_indirect(vol, it[T \ {Max(T)}], inode.map[seq[Max(T)]], E!LevelOf(seq[Max(T)]))
      <3>1. Max(T) \in 1..k /\ it[T \ {Max(T)}] \in S /\ it[T] = g[<<it[T \ {Max(T)}], Max(T)>>]
        <4>1. T \in SUBSET (1..k)
          BY <1>1
        <4> HIDE DEF g
        <4> QED
          BY <1>5, <2>1, <4>1 DEF Folding
      <3> QED
        BY <1>1, <3>1
    <2> QED
      BY <1>1, <1>5, <2>1 DEF Folding
  <1>7. fold = Phi(fold)
    <2> HIDE DEF Phi
    <2> QED
      BY <1>6
  <1>8. MapFold(vol, inode) = fold[1..k]
    <2>1. MapFold(vol, inode) = fold[DOMAIN seq]
      BY Zenon DEF MapFold, MapBegin, E!FoldLeft, E!MapThenFoldSet, E!Max, Max
    <2> HIDE DEF fold
    <2> QED
      BY <1>1, <2>1
  <1>9. fold[{}] = base /\ \A n \in 1..k : fold[1..n]
                                 = E!collect_indirect(vol, fold[1..(n - 1)], inode.map[n], E!LevelOf(n))
    <2>1. {} \in SUBSET DOMAIN seq
      OBVIOUS
    <2>2. ASSUME NEW n \in 1..k PROVE fold[1..n] = E!collect_indirect(vol, fold[1..(n - 1)], inode.map[n], E!LevelOf(n))
      <3>1. /\ 1..n \in SUBSET DOMAIN seq /\ 1..n # {}
            /\ Max(1..n) = n /\ (1..n) \ {n} = 1..(n - 1)
        BY <1>1, UpTo
      <3> HIDE DEF fold, k, S, base
      <3>2. Phi(fold)[1..n] = E!collect_indirect(vol, fold[1..(n - 1)], inode.map[n], E!LevelOf(n))
        BY <1>1, <3>1
      <3> HIDE DEF Phi
      <3> QED
        BY <1>7, <3>2
    <2> HIDE DEF fold, k, S, seq, base
    <2>3. Phi(fold)[{}] = base
      BY <2>1
    <2> HIDE DEF Phi
    <2> QED
      BY <1>7, <2>2, <2>3
  <1> DEFINE at == [n \in 0..k |-> fold[1..n]]
  <1>10. at[0] = base /\ at[k] = fold[1..k]
    <2>1. 1..0 = {}
      OBVIOUS
    <2> HIDE DEF fold, k, S, seq, base
    <2> QED
      BY <1>1, <1>9, <2>1
  <1>11. \A n \in 1..k : at[n] = E!collect_indirect(vol, at[n - 1], inode.map[n], E!LevelOf(n))
    <2> HIDE DEF fold, k, S, seq, base
    <2> QED
      BY <1>1, <1>9
  <1>12. \A n \in 0..k : at[n] \in S
    <2>1. \A n \in 1..k : at[n - 1] \in S => at[n] \in S
      <3> HIDE DEF at, S, k
      <3> QED
        BY <1>3, <1>11
    <2>2. at[0] \in S
      <3> HIDE DEF at, S, base
      <3> QED
        BY <1>2, <1>10
    <2> HIDE DEF at, S, k
    <2> QED
      BY <1>1, <2>1, <2>2, Climb
  <1> HIDE DEF at, fold
  <1> QED
    BY <1>8, <1>10, <1>11, <1>12

LEMMA DataType ==
    ASSUME NEW vol, E!IsVolume(vol), NEW inode, E!IsInode(vol, inode)
    PROVE  E!inode_data_extents(vol, inode) \in Collected
  <1>1. CASE inode.flag \/ vol.extents
    <2>1. E!inode_data_extents(vol, inode) = E!ParseNode(vol, inode.node, E!i_size(vol, inode), E!NodesBelow(vol))
      BY <1>1 DEF E!inode_data_extents, E!parse_extents_full
    <2>2. E!IsNode(vol, inode.node) /\ E!i_size(vol, inode) \in Nat
      BY SizeType DEF E!IsInode
    <2> QED
      BY <2>1, <2>2, NodesBelowType, ParseType
  <1>2. CASE ~(inode.flag \/ vol.extents)
    <2> DEFINE k == DirectBlocks + 3
    <2>1. E!inode_data_extents(vol, inode) = MapFold(vol, inode)
      BY <1>2, Zenon DEF E!inode_data_extents, MapFold
    <2>2. PICK at : /\ \A n \in 0..k : at[n] \in Collected
                    /\ MapFold(vol, inode) = at[k]
      BY MapSteps
    <2>3. k \in 0..k
      BY DevicesAssumption
    <2> HIDE DEF k
    <2> QED
      BY <2>1, <2>2, <2>3
  <1> QED
    BY <1>1, <1>2

LEMMA ExtArea ==
    ASSUME NEW vol, E!IsVolume(vol)
    PROVE  /\ \A b : E!EntriesIn(vol, b) \in Seq(AllEntries(vol))
           /\ AllEntries(vol) \subseteq E!Entries
  <1> DEFINE U == AllEntries(vol)
  <1>1. ASSUME NEW c \in DOMAIN vol.area
        PROVE  vol.area[c] \in Seq(U) /\ ToSet(vol.area[c]) \subseteq E!Entries
    <2> DEFINE s == vol.area[c]
    <2>1. s \in Seq(E!Entries) /\ ToSet(s) \subseteq U
      BY DEF E!IsVolume, AllEntries
    <2> HIDE DEF s, U
    <2>2. s \in Seq(U) /\ ToSet(s) \subseteq E!Entries
      <3>1. \A i \in 1..Len(s) : s[i] \in U
        BY <2>1 DEF ToSet
      <3>2. s = [i \in 1..Len(s) |-> s[i]] /\ Len(s) \in Nat
        BY <2>1
      <3>3. s \in Seq(U)
        BY <3>1, <3>2
      <3>4. ToSet(s) \subseteq E!Entries
        BY <2>1 DEF ToSet
      <3> QED
        BY <3>3, <3>4
    <2> QED
      BY <2>2 DEF s
  <1>2. <<>> \in Seq(U)
    OBVIOUS
  <1>3. U \subseteq E!Entries
    BY <1>1 DEF AllEntries
  <1> HIDE DEF U
  <1>4. \A b : E!EntriesIn(vol, b) \in Seq(U)
    BY <1>1, <1>2 DEF E!EntriesIn
  <1> QED
    BY <1>3, <1>4 DEF U

LEMMA DirEntriesType ==
    ASSUME NEW vol, E!IsVolume(vol), NEW exts \in Seq(Ranges)
    PROVE  E!DirEntries(vol, exts) \in Seq(AllEntries(vol))
  <1> DEFINE U == AllEntries(vol)
             blocks(i) == [j \in 1..(exts[i].len \div ClusterUnits) |->
                              E!EntriesIn(vol, exts[i].off \div ClusterUnits + j - 1)]
             lists == [i \in DOMAIN exts |-> FlattenSeq(blocks(i))]
  <1>1. E!DirEntries(vol, exts) = FlattenSeq(lists)
    BY SameFlattenSeq DEF E!DirEntries
  <1>2. ASSUME NEW i \in DOMAIN exts PROVE FlattenSeq(blocks(i)) \in Seq(U)
    <2> DEFINE k == exts[i].len \div ClusterUnits
    <2>1. k \in Nat
      <3>1. exts[i] \in Ranges
        OBVIOUS
      <3>2. exts[i].len \in Nat
        BY <3>1 DEF Ranges
      <3> QED
        BY <3>2, ExtentsAssumption
    <2>2. \A b : E!EntriesIn(vol, b) \in Seq(U)
      BY ExtArea
    <2> DEFINE first == exts[i].off \div ClusterUnits
               list == [j \in 1..k |-> E!EntriesIn(vol, first + j - 1)]
    <2>3. list \in Seq(Seq(U)) /\ blocks(i) = list
      <3> HIDE DEF k, U, first
      <3>1. list \in Seq(Seq(U))
        BY <2>1, <2>2
      <3>2. blocks(i) = list
        BY DEF k, first
      <3> QED
        BY <3>1, <3>2
    <2> HIDE DEF blocks
    <2> QED
      BY <2>3, FlattenType
  <1>3. lists \in Seq(Seq(U))
    <2>1. DOMAIN exts = 1..Len(exts) /\ Len(exts) \in Nat
      OBVIOUS
    <2> HIDE DEF blocks, U
    <2> QED
      BY <1>2, <2>1
  <1> HIDE DEF lists, U
  <1>4. FlattenSeq(lists) \in Seq(U)
    BY <1>3, FlattenType
  <1> QED
    BY <1>1, <1>4 DEF U

LEMMA ExtEnterType ==
    ASSUME NEW vol, E!IsVolume(vol), NEW ino
    PROVE  LET read == E!EnterInode(vol, ino)
           IN  read.objects \in Seq(Objects) /\ read.entries \in Seq(AllEntries(vol))
  <1> DEFINE U == AllEntries(vol)
  <1>1. <<>> \in Seq(U) /\ <<>> \in Seq(Objects)
    OBVIOUS
  <1>2. CASE ~E!read_inode(vol, ino)
    <2>1. E!EnterInode(vol, ino).objects = <<>> /\ E!EnterInode(vol, ino).entries = <<>>
      BY <1>2 DEF E!EnterInode
    <2> QED
      BY <1>1, <2>1
  <1>3. CASE E!read_inode(vol, ino)
    <2> DEFINE inode == vol.inodes[ino]
               data == E!inode_data_extents(vol, inode)
               o == Object(inode.what, E!i_size(vol, inode), data.exts)
    <2>1. E!IsInode(vol, inode)
      BY <1>3 DEF E!read_inode, E!IsVolume
    <2>2. data \in Collected
      <3> HIDE DEF inode
      <3> QED
        BY <2>1, DataType
    <2>3. data.exts \in Seq(Ranges)
      <3> HIDE DEF data
      <3> QED
        BY <2>2, CollectedHas
    <2>4. /\ E!EnterInode(vol, ino).objects = IF inode.what = "other" THEN <<>> ELSE <<o>>
          /\ E!EnterInode(vol, ino).entries
                 = IF inode.what = "dir" /\ data.ok THEN E!DirEntries(vol, data.exts) ELSE <<>>
      <3> HIDE DEF U
      <3>1. \A a, b, c : E!Object(a, b, c) = Object(a, b, c)
        BY SameOperators
      <3> QED
        BY <1>3, <3>1 DEF E!EnterInode
    <2>5. inode.what # "other" => o \in Objects
      <3> SUFFICES ASSUME inode.what # "other" PROVE o \in Objects
        OBVIOUS
      <3>1. inode.what \in {"meta", "file", "dir"} /\ E!i_size(vol, inode) \in Nat
        BY <2>1, SizeType DEF E!IsInode
      <3> HIDE DEF inode, data
      <3> QED
        BY <2>3, <3>1, ObjectType
    <2>6. E!DirEntries(vol, data.exts) \in Seq(U)
      <3> HIDE DEF data
      <3> QED
        BY <2>3, DirEntriesType
    <2> HIDE DEF o, data, inode, U
    <2>7. E!EnterInode(vol, ino).objects \in Seq(Objects)
      BY <1>1, <2>4, <2>5
    <2>8. E!EnterInode(vol, ino).entries \in Seq(U)
      BY <1>1, <2>4, <2>6
    <2> QED
      BY <2>7, <2>8 DEF U
  <1> QED
    BY <1>2, <1>3

LEMMA ExtTakeType ==
    ASSUME NEW vol, E!IsVolume(vol), NEW e \in AllEntries(vol)
    PROVE  LET taken == E!TakeEntry(e)
           IN  /\ taken.objects = <<>>
               /\ taken.enter \in {<<>>, <<e.ino>>}
               /\ taken.enter \in Seq(Nat) /\ Len(taken.enter) <= 1
  <1>1. e \in E!Entries
    BY ExtArea
  <1>2. e.ino \in Nat
    BY <1>1 DEF E!Entries
  <1>3. E!TakeEntry(e).objects = <<>> /\ E!TakeEntry(e).enter \in {<<>>, <<e.ino>>}
    BY DEF E!TakeEntry
  <1>4. <<>> \in Seq(Nat) /\ <<e.ino>> \in Seq(Nat) /\ Len(<<>>) <= 1 /\ Len(<<e.ino>>) <= 1
    BY <1>2
  <1> QED
    BY <1>3, <1>4

LEMMA ExtScanType ==
    ASSUME NEW vol, E!IsVolume(vol)
    PROVE  LET scan == E!scan_ext(vol)
           IN  scan.objects \in Seq(Objects) /\ scan.enter = <<E!RootInode>> /\ scan.enter \in Seq(Nat)
  <1> DEFINE first == <<Object("meta", 1, <<Extent(E!Super, 1)>>), Object("meta", 1, <<Extent(E!Descriptors, 1)>>)>>
             more == [g \in DOMAIN vol.tables |->
                         Object("meta", vol.pergroup, <<Extent(vol.tables[g], vol.pergroup)>>)]
  <1>1. E!scan_ext(vol).objects = first \o more /\ E!scan_ext(vol).enter = <<E!RootInode>>
    BY SameOperators DEF E!scan_ext
  <1>2. first \in Seq(Objects)
    <2>1. E!Super \in Nat /\ E!Descriptors \in Nat
      BY DEF E!Super, E!Descriptors
    <2> QED
      BY <2>1, MetaObjects
  <1>3. more \in Seq(Objects)
    <2>1. DOMAIN vol.tables = 1..Len(vol.tables) /\ Len(vol.tables) \in Nat /\ vol.pergroup \in Nat
      BY DEF E!IsVolume
    <2>2. ASSUME NEW g \in DOMAIN vol.tables
          PROVE  Object("meta", vol.pergroup, <<Extent(vol.tables[g], vol.pergroup)>>) \in Objects
      <3>1. vol.tables[g] \in Nat
        BY DEF E!IsVolume
      <3>2. <<Extent(vol.tables[g], vol.pergroup)>> \in Seq(Ranges)
        BY <2>1, <3>1, OneExtent
      <3> QED
        BY <2>1, <3>2, ObjectType
    <2> QED
      BY <2>1, <2>2
  <1>4. E!RootInode \in Nat
    BY DEF E!RootInode
  <1> HIDE DEF first, more
  <1> QED
    BY <1>1, <1>2, <1>3, <1>4

-----------------------------------------------------------------------------
(* What the scanner of NTFS finds *)

Attributes ==
    [resident : BOOLEAN, data : BOOLEAN, size : Nat, runs : Seq([sparse : BOOLEAN, len : Nat, by : Int])]
IsRuns(runs) ==
    runs \in Seq([sparse : BOOLEAN, len : Nat, by : Int]) /\ \A j \in DOMAIN runs : N!Lcns(runs)[j] \in Nat

\* The copies instance N has of the operators of module Extents.
LEMMA SameNtfsOperators ==
    /\ \A s, e : N!AddExtent(s, e) = AddExtent(s, e)
    /\ \A s, t : N!AddExtents(s, t) = AddExtents(s, t)
    /\ \A s : N!Total(s) = Total(s)
  <1>1. \A s, e : N!AddExtent(s, e) = AddExtent(s, e)
    BY Zenon DEF AddExtent, N!AddExtent, Extent, N!Extent, Last, N!Last, Front, N!Front
  <1>2. \A s, t : N!AddExtents(s, t) = AddExtents(s, t)
    BY Zenon DEF N!AddExtents, AddExtents, N!FoldLeft, N!MapThenFoldSet, N!Max,
        FoldLeft, MapThenFoldSet, Max, N!AddExtent, AddExtent, N!Last, Last, N!Front, Front, N!Extent, Extent
  <1>3. \A s : N!Total(s) = Total(s)
    BY Zenon DEF N!Total, Total, N!FoldLeft, N!MapThenFoldSet, N!Max, FoldLeft, MapThenFoldSet, Max
  <1> QED
    BY <1>1, <1>2, <1>3

LEMMA RunExtentType ==
    ASSUME NEW runs, IsRuns(runs), NEW i \in DOMAIN runs
    PROVE  N!RunExtent(runs, i) \in Ranges
  <1>1. N!Lcns(runs)[i] \in Nat /\ runs[i].len \in Nat /\ ClusterUnits \in Nat
    <2> DEFINE R == [sparse : BOOLEAN, len : Nat, by : Int]
    <2>1. runs[i] \in R
      <3>1. runs \in Seq(R)
        BY DEF IsRuns
      <3> HIDE DEF R
      <3> QED
        BY <3>1
    <2>2. N!Lcns(runs)[i] \in Nat
      BY DEF IsRuns
    <2> QED
      BY <2>1, <2>2, ExtentsAssumption
  <1> DEFINE a == N!Lcns(runs)[i]
             b == runs[i].len
             m == ClusterUnits
  <1>2. N!RunExtent(runs, i) = Extent(a * m, b * m)
    BY SameOperators DEF N!RunExtent
  <1> HIDE DEF a, b, m
  <1>3. a * m \in Nat /\ b * m \in Nat
    BY <1>1 DEF a, b, m
  <1> QED
    BY <1>2, <1>3, ExtentInRanges

RunTurn(runs, exts, i) == IF runs[i].sparse THEN exts ELSE N!AddExtent(exts, N!RunExtent(runs, i))

\* The runs of an attribute, holes passed over.
LEMMA RunSteps ==
    ASSUME NEW runs,
           IsRuns(runs)
    PROVE  \E at : /\ at[0] = <<>>
                   /\ \A n \in 1..Len(runs) : at[n] = RunTurn(runs, at[n - 1], n)
                   /\ \A n \in 0..Len(runs) : at[n] \in Seq(Ranges)
                   /\ N!decode_runs_allocated(runs) = at[Len(runs)]
  <1> DEFINE seq == [i \in DOMAIN runs |-> i]
             k == Len(runs)
             base == <<>>
             S == Seq(Ranges)
             Phi(f) == [T \in SUBSET DOMAIN seq |-> IF T = {} THEN base
                                                    ELSE RunTurn(runs, f[T \ {Max(T)}], seq[Max(T)])]
             g == [p \in S \X (1..k) |-> RunTurn(runs, p[1], p[2])]
             fold == CHOOSE f : f = Phi(f)
  <1>1. k \in Nat /\ DOMAIN seq = 1..k /\ \A n \in 1..k : seq[n] = n
    BY DEF IsRuns
  <1>2. base \in S
    OBVIOUS
  <1>3. \A s \in S, n \in 1..k : RunTurn(runs, s, n) \in S
    <2>1. DOMAIN runs = 1..k
      BY DEF IsRuns
    <2>2. \A n \in 1..k : N!RunExtent(runs, n) \in Ranges
      BY <2>1, RunExtentType
    <2> HIDE DEF k
    <2> QED
      BY <2>2, AddExtentType, SameNtfsOperators DEF RunTurn
  <1>4. g \in [S \X (1..k) -> S]
    <2> HIDE DEF S, k, seq
    <2> QED
      BY <1>3
  <1>5. PICK it : Folding(it, S, base, k, g)
    <2> HIDE DEF g, S, k, base
    <2>1. k \in Nat
      BY <1>1
    <2> QED
      BY <1>2, <1>4, <2>1, FoldExists
  <1>6. it = Phi(it)
    <2> HIDE DEF S, k, seq, base
    <2>1. ASSUME NEW T \in SUBSET DOMAIN seq, T # {}
          PROVE  it[T] = RunTurn(runs, it[T \ {Max(T)}], seq[Max(T)])
      <3>1. Max(T) \in 1..k /\ it[T \ {Max(T)}] \in S /\ it[T] = g[<<it[T \ {Max(T)}], Max(T)>>]
        <4>1. T \in SUBSET (1..k)
          BY <1>1
        <4> HIDE DEF g
        <4> QED
          BY <1>5, <2>1, <4>1 DEF Folding
      <3> QED
        BY <1>1, <3>1
    <2> QED
      BY <1>1, <1>5, <2>1 DEF Folding
  <1>7. fold = Phi(fold)
    <2> HIDE DEF Phi
    <2> QED
      BY <1>6
  <1>8. N!decode_runs_allocated(runs) = fold[1..k]
    <2>1. N!decode_runs_allocated(runs) = fold[DOMAIN seq]
      BY Zenon DEF N!decode_runs_allocated, RunTurn, N!FoldLeft, N!MapThenFoldSet, N!Max, Max
    <2> HIDE DEF fold
    <2> QED
      BY <1>1, <2>1
  <1>9. fold[{}] = base /\ \A n \in 1..k : fold[1..n] = RunTurn(runs, fold[1..(n - 1)], n)
    <2>1. {} \in SUBSET DOMAIN seq
      OBVIOUS
    <2>2. ASSUME NEW n \in 1..k PROVE fold[1..n] = RunTurn(runs, fold[1..(n - 1)], n)
      <3>1. /\ 1..n \in SUBSET DOMAIN seq /\ 1..n # {}
            /\ Max(1..n) = n /\ (1..n) \ {n} = 1..(n - 1)
        BY <1>1, UpTo
      <3> HIDE DEF fold, k, S, base
      <3>2. Phi(fold)[1..n] = RunTurn(runs, fold[1..(n - 1)], n)
        BY <1>1, <3>1
      <3> HIDE DEF Phi
      <3> QED
        BY <1>7, <3>2
    <2> HIDE DEF fold, k, S, seq, base
    <2>3. Phi(fold)[{}] = base
      BY <2>1
    <2> HIDE DEF Phi
    <2> QED
      BY <1>7, <2>2, <2>3
  <1> DEFINE at == [n \in 0..k |-> fold[1..n]]
  <1>10. at[0] = base /\ at[k] = fold[1..k]
    <2>1. 1..0 = {}
      OBVIOUS
    <2> HIDE DEF fold, k, S, seq, base
    <2> QED
      BY <1>1, <1>9, <2>1
  <1>11. \A n \in 1..k : at[n] = RunTurn(runs, at[n - 1], n)
    <2> HIDE DEF fold, k, S, seq, base
    <2> QED
      BY <1>1, <1>9
  <1>12. \A n \in 0..k : at[n] \in S
    <2>1. \A n \in 1..k : at[n - 1] \in S => at[n] \in S
      <3> HIDE DEF at, S, k
      <3> QED
        BY <1>3, <1>11
    <2>2. at[0] \in S
      <3> HIDE DEF at, S, base
      <3> QED
        BY <1>2, <1>10
    <2> HIDE DEF at, S, k
    <2> QED
      BY <1>1, <2>1, <2>2, Climb
  <1> HIDE DEF at, fold
  <1> QED
    BY <1>8, <1>10, <1>11, <1>12

\* The runs of an attribute are extents, none of which begins before the volume.
LEMMA DecodeType ==
    ASSUME NEW runs, IsRuns(runs)
    PROVE  N!decode_runs_allocated(runs) \in Seq(Ranges)
  <1> DEFINE k == Len(runs)
             S == Seq(Ranges)
  <1>1. PICK at : /\ \A n \in 0..k : at[n] \in S
                  /\ N!decode_runs_allocated(runs) = at[k]
    BY RunSteps
  <1>2. k \in 0..k
    BY DEF IsRuns
  <1> HIDE DEF k, S
  <1> QED
    BY <1>1, <1>2 DEF S

FoundAttrs == [exts : Seq(Ranges), size : Nat]
AttrTurn(s, a) ==
    [exts |-> IF a.resident THEN s.exts ELSE N!AddExtents(s.exts, N!decode_runs_allocated(a.runs)),
     size |-> IF a.data THEN a.size ELSE s.size]
AttrBegin == [exts |-> <<>>, size |-> 0]

LEMMA AttrTurnType ==
    ASSUME NEW s \in FoundAttrs, NEW a \in Attributes, IsRuns(a.runs)
    PROVE  AttrTurn(s, a) \in FoundAttrs
  <1> DEFINE exts == IF a.resident THEN s.exts ELSE N!AddExtents(s.exts, N!decode_runs_allocated(a.runs))
             size == IF a.data THEN a.size ELSE s.size
  <1>1. s.exts \in Seq(Ranges) /\ s.size \in Nat /\ a.size \in Nat
    BY DEF FoundAttrs, Attributes
  <1>2. exts \in Seq(Ranges)
    <2> DEFINE more == N!decode_runs_allocated(a.runs)
    <2>1. more \in Seq(Ranges)
      BY DecodeType
    <2>2. N!AddExtents(s.exts, more) = AddExtents(s.exts, more)
      BY SameNtfsOperators
    <2> HIDE DEF more
    <2>3. AddExtents(s.exts, more) \in Seq(Ranges)
      BY <1>1, <2>1, AddExtentsType
    <2> QED
      BY <1>1, <2>2, <2>3 DEF more
  <1>3. size \in Nat
    BY <1>1
  <1>4. AttrTurn(s, a) = [exts |-> exts, size |-> size]
    BY DEF AttrTurn
  <1> HIDE DEF exts, size
  <1> QED
    BY <1>2, <1>3, <1>4 DEF FoundAttrs

LEMMA RecordAttrs ==
    ASSUME NEW rec, N!IsRecord(rec)
    PROVE  /\ rec.attrs \in Seq(Attributes)
           /\ \A i \in 1..Len(rec.attrs) : rec.attrs[i] \in Attributes /\ IsRuns(rec.attrs[i].runs)
  <1>1. rec.attrs \in Seq(Attributes)
    BY DEF N!IsRecord, Attributes
  <1>2. DOMAIN rec.attrs = 1..Len(rec.attrs)
    BY <1>1
  <1>3. ASSUME NEW i \in 1..Len(rec.attrs) PROVE rec.attrs[i] \in Attributes /\ IsRuns(rec.attrs[i].runs)
    <2>1. rec.attrs[i] \in Attributes
      BY <1>1
    <2>2. rec.attrs[i].runs \in Seq([sparse : BOOLEAN, len : Nat, by : Int])
      BY <2>1 DEF Attributes
    <2>3. \A j \in DOMAIN rec.attrs[i].runs : N!Lcns(rec.attrs[i].runs)[j] \in Nat
      BY <1>2 DEF N!IsRecord
    <2> QED
      BY <2>1, <2>2, <2>3 DEF IsRuns
  <1> QED
    BY <1>1, <1>3

\* The attributes of a record.
LEMMA AttrSteps ==
    ASSUME NEW rec,
           N!IsRecord(rec)
    PROVE  \E at : /\ at[0] = AttrBegin
                   /\ \A n \in 1..Len(rec.attrs) : at[n] = AttrTurn(at[n - 1], rec.attrs[n])
                   /\ \A n \in 0..Len(rec.attrs) : at[n] \in FoundAttrs
                   /\ N!collect_nonresident_attrs(rec) = at[Len(rec.attrs)]
  <1> DEFINE seq == rec.attrs
             k == Len(rec.attrs)
             base == AttrBegin
             S == FoundAttrs
             Phi(f) == [T \in SUBSET DOMAIN seq |-> IF T = {} THEN base
                                                    ELSE AttrTurn(f[T \ {Max(T)}], rec.attrs[Max(T)])]
             g == [p \in S \X (1..k) |-> AttrTurn(p[1], rec.attrs[p[2]])]
             fold == CHOOSE f : f = Phi(f)
  <1>1. k \in Nat /\ DOMAIN seq = 1..k
    BY RecordAttrs
  <1>2. base \in S
    <2>1. <<>> \in Seq(Ranges)
      OBVIOUS
    <2> QED
      BY <2>1 DEF AttrBegin, FoundAttrs
  <1>3. \A s \in S, n \in 1..k : AttrTurn(s, rec.attrs[n]) \in S
    BY RecordAttrs, AttrTurnType
  <1>4. g \in [S \X (1..k) -> S]
    <2> HIDE DEF S, k, seq
    <2> QED
      BY <1>3
  <1>5. PICK it : Folding(it, S, base, k, g)
    <2> HIDE DEF g, S, k, base
    <2>1. k \in Nat
      BY <1>1
    <2> QED
      BY <1>2, <1>4, <2>1, FoldExists
  <1>6. it = Phi(it)
    <2> HIDE DEF S, k, seq, base
    <2> QED
      BY <1>1, <1>5 DEF Folding
  <1>7. fold = Phi(fold)
    <2> HIDE DEF Phi
    <2> QED
      BY <1>6
  <1>8. N!collect_nonresident_attrs(rec) = fold[1..k]
    <2>1. N!collect_nonresident_attrs(rec) = fold[DOMAIN seq]
      BY Zenon DEF N!collect_nonresident_attrs, AttrTurn, AttrBegin, N!FoldLeft, N!MapThenFoldSet, N!Max, Max
    <2> HIDE DEF fold
    <2> QED
      BY <1>1, <2>1
  <1>9. fold[{}] = base /\ \A n \in 1..k : fold[1..n] = AttrTurn(fold[1..(n - 1)], rec.attrs[n])
    <2>1. {} \in SUBSET DOMAIN seq
      OBVIOUS
    <2>2. ASSUME NEW n \in 1..k PROVE fold[1..n] = AttrTurn(fold[1..(n - 1)], rec.attrs[n])
      <3>1. /\ 1..n \in SUBSET DOMAIN seq /\ 1..n # {}
            /\ Max(1..n) = n /\ (1..n) \ {n} = 1..(n - 1)
        BY <1>1, UpTo
      <3> HIDE DEF fold, k, S, base
      <3>2. Phi(fold)[1..n] = AttrTurn(fold[1..(n - 1)], rec.attrs[n])
        BY <1>1, <3>1
      <3> HIDE DEF Phi
      <3> QED
        BY <1>7, <3>2
    <2> HIDE DEF fold, k, S, seq, base
    <2>3. Phi(fold)[{}] = base
      BY <2>1
    <2> HIDE DEF Phi
    <2> QED
      BY <1>7, <2>2, <2>3
  <1> DEFINE at == [n \in 0..k |-> fold[1..n]]
  <1>10. at[0] = base /\ at[k] = fold[1..k]
    <2>1. 1..0 = {}
      OBVIOUS
    <2> HIDE DEF fold, k, S, seq, base
    <2> QED
      BY <1>1, <1>9, <2>1
  <1>11. \A n \in 1..k : at[n] = AttrTurn(at[n - 1], rec.attrs[n])
    <2> HIDE DEF fold, k, S, seq, base
    <2> QED
      BY <1>1, <1>9
  <1>12. \A n \in 0..k : at[n] \in S
    <2>1. \A n \in 1..k : at[n - 1] \in S => at[n] \in S
      <3> HIDE DEF at, S, k
      <3> QED
        BY <1>3, <1>11
    <2>2. at[0] \in S
      <3> HIDE DEF at, S, base
      <3> QED
        BY <1>2, <1>10
    <2> HIDE DEF at, S, k
    <2> QED
      BY <1>1, <2>1, <2>2, Climb
  <1> HIDE DEF at, fold
  <1> QED
    BY <1>8, <1>10, <1>11, <1>12

LEMMA AttrsType ==
    ASSUME NEW rec, N!IsRecord(rec)
    PROVE  LET found == N!collect_nonresident_attrs(rec) IN found.exts \in Seq(Ranges) /\ found.size \in Nat
  <1> DEFINE k == Len(rec.attrs)
             found == N!collect_nonresident_attrs(rec)
  <1>1. PICK at : /\ \A n \in 0..k : at[n] \in FoundAttrs
                  /\ found = at[k]
    BY AttrSteps
  <1>2. k \in 0..k
    BY RecordAttrs
  <1> HIDE DEF k, found
  <1>3. found \in FoundAttrs
    BY <1>1, <1>2
  <1> QED
    BY <1>3 DEF FoundAttrs, found

\* The record table and what its records name.
LEMMA RecordUnitsType ==
    ASSUME NEW exts \in Seq(Ranges)
    PROVE  N!RecordUnits(exts) \in Seq(Nat)
  <1> DEFINE units(i) == [j \in 1..exts[i].len |-> exts[i].off + j - 1]
             lists == [i \in DOMAIN exts |-> units(i)]
  <1>1. N!RecordUnits(exts) = FlattenSeq(lists)
    BY SameFlattenSeq DEF N!RecordUnits
  <1>2. ASSUME NEW i \in DOMAIN exts PROVE units(i) \in Seq(Nat)
    <2> DEFINE a == exts[i].off
               b == exts[i].len
    <2>1. exts[i] \in Ranges
      OBVIOUS
    <2>2. a \in Nat /\ b \in Nat
      BY <2>1 DEF Ranges
    <2>3. units(i) = [j \in 1..b |-> a + j - 1]
      OBVIOUS
    <2> HIDE DEF a, b, units
    <2>4. \A j \in 1..b : a + j - 1 \in Nat
      BY <2>2
    <2> QED
      BY <2>2, <2>3, <2>4
  <1>3. lists \in Seq(Seq(Nat))
    <2>1. DOMAIN exts = 1..Len(exts) /\ Len(exts) \in Nat
      OBVIOUS
    <2> HIDE DEF units
    <2> QED
      BY <1>2, <2>1
  <1> HIDE DEF lists
  <1> QED
    BY <1>1, <1>3, FlattenType

LEMMA RecordObjectsType ==
    ASSUME NEW vol, N!IsVolume(vol), NEW exts \in Seq(Ranges)
    PROVE  N!RecordObjects(vol, exts) \in Seq(Objects)
  <1> DEFINE units == N!RecordUnits(exts)
             found(i) == N!collect_nonresident_attrs(vol.recs[units[i]])
             passed(i) == i = 1 \/ units[i] \notin DOMAIN vol.recs \/ ~N!fixup_record(vol.recs[units[i]])
                            \/ ~vol.recs[units[i]].used \/ (found(i).exts = <<>> /\ found(i).size = 0)
             o(i) == Object("file", found(i).size, found(i).exts)
             lists == [i \in DOMAIN units |-> IF passed(i) THEN <<>> ELSE <<o(i)>>]
  <1>1. N!RecordObjects(vol, exts) = FlattenSeq(lists)
    <2>1. \A a, b, c : N!Object(a, b, c) = Object(a, b, c)
      BY SameOperators
    <2>2. \A s : N!FlattenSeq(s) = FlattenSeq(s)
      BY SameFlattenSeq
    <2>3. N!RecordObjects(vol, exts)
             = N!FlattenSeq([i \in DOMAIN units |-> IF passed(i) THEN <<>>
                                                    ELSE <<N!Object("file", found(i).size, found(i).exts)>>])
      BY DEF N!RecordObjects
    <2>4. [i \in DOMAIN units |-> IF passed(i) THEN <<>> ELSE <<N!Object("file", found(i).size, found(i).exts)>>]
              = lists
      <3> HIDE DEF passed, units, found
      <3> QED
        BY <2>1
    <2> HIDE DEF lists, passed, units, found
    <2> QED
      BY <2>2, <2>3, <2>4
  <1>2. ASSUME NEW i \in DOMAIN units, ~passed(i) PROVE o(i) \in Objects
    <2>1. N!IsRecord(vol.recs[units[i]])
      BY <1>2 DEF N!IsVolume
    <2>2. found(i).exts \in Seq(Ranges) /\ found(i).size \in Nat
      BY <2>1, AttrsType
    <2> HIDE DEF found
    <2> QED
      BY <2>2, ObjectType
  <1>3. units \in Seq(Nat)
    BY RecordUnitsType
  <1> HIDE DEF passed, units, found, o
  <1>4. lists \in Seq(Seq(Objects))
    <2>1. DOMAIN units = 1..Len(units) /\ Len(units) \in Nat
      BY <1>3
    <2>2. \A i \in DOMAIN units : (IF passed(i) THEN <<>> ELSE <<o(i)>>) \in Seq(Objects)
      BY <1>2
    <2> QED
      BY <2>1, <2>2
  <1> HIDE DEF lists
  <1> QED
    BY <1>1, <1>4, FlattenType

LEMMA NtfsScanType ==
    ASSUME NEW vol, N!IsVolume(vol)
    PROVE  LET scan == N!scan_ntfs(vol)
           IN  scan.objects \in Seq(Objects) /\ scan.enter = <<>>
  <1> DEFINE boot == Object("meta", 1, <<Extent(N!Boot, 1)>>)
             mft == Object("meta", 1, <<Extent(vol.mft, 1)>>)
             exts == N!collect_nonresident_attrs(vol.recs[vol.mft]).exts
             table == Object("meta", Total(exts), exts)
             recs == N!RecordObjects(vol, exts)
             scan == N!scan_ntfs(vol)
  <1>1. scan.enter = <<>> /\ scan.objects \in {<<>>, <<boot, mft>>, <<boot, table>> \o recs}
    <2>1. /\ \A a, b, c : N!Object(a, b, c) = Object(a, b, c)
          /\ \A a, b : N!Extent(a, b) = Extent(a, b)
          /\ \A s : N!Total(s) = Total(s)
      BY SameOperators, SameNtfsOperators
    <2> DEFINE unread == N!Boot \in vol.bad \/ ~vol.valid \/ vol.mft \in vol.bad \/ ~N!fixup_record(vol.recs[vol.mft])
    <2>2. CASE unread
      <3>1. scan = [outcome |-> "failed", objects |-> <<>>, enter |-> <<>>]
        BY <2>2 DEF N!scan_ntfs
      <3> QED
        BY <3>1
    <2>3. CASE ~unread /\ exts = <<>>
      <3>1. scan = [outcome |-> "ok", enter |-> <<>>, objects |-> <<boot, mft>>]
        BY <2>1, <2>3 DEF N!scan_ntfs
      <3> HIDE DEF scan, boot, mft
      <3> QED
        BY <3>1
    <2>4. CASE ~unread /\ exts # <<>>
      <3>1. scan = [outcome |-> IF N!Covered(exts) \cap vol.bad = {} THEN "ok" ELSE "failed", enter |-> <<>>,
                    objects |-> <<boot, table>> \o recs]
        BY <2>1, <2>4 DEF N!scan_ntfs
      <3> HIDE DEF scan, boot, table, recs, exts
      <3> QED
        BY <3>1
    <2> QED
      BY <2>2, <2>3, <2>4
  <1>2. vol.mft \in Nat /\ N!IsRecord(vol.recs[vol.mft]) /\ N!Boot \in Nat
    BY DEF N!IsVolume, N!Boot
  <1>3. exts \in Seq(Ranges)
    BY <1>2, AttrsType
  <1>4. boot \in Objects /\ mft \in Objects
    BY <1>2, OneExtent, ObjectType
  <1> HIDE DEF exts
  <1>5. table \in Objects
    BY <1>3, TotalType, ObjectType
  <1>6. recs \in Seq(Objects)
    BY <1>3, RecordObjectsType
  <1> HIDE DEF boot, mft, table, recs, scan
  <1>7. scan.objects \in Seq(Objects)
    <2>1. <<>> \in Seq(Objects) /\ <<boot, mft>> \in Seq(Objects) /\ <<boot, table>> \in Seq(Objects)
      BY <1>4, <1>5
    <2>2. <<boot, table>> \o recs \in Seq(Objects)
      <3> DEFINE first == <<boot, table>>
      <3>1. first \in Seq(Objects)
        BY <2>1
      <3> HIDE DEF first
      <3> QED
        BY <1>6, <3>1 DEF first
    <2> QED
      BY <1>1, <2>1, <2>2
  <1> QED
    BY <1>1, <1>7 DEF scan

-----------------------------------------------------------------------------
(* Tables of partitions, and the ranges of a volume *)

Slots == [used : BOOLEAN, first : Nat, last : Nat]
Places == [used : BOOLEAN, first : Nat, len : Nat]
SlotTurn(found, e) ==
    IF e.used THEN Append(found, Extent(e.first, IF e.last >= e.first THEN e.last - e.first + 1 ELSE 0)) ELSE found
PlaceTurn(found, e) == IF e.used THEN Append(found, Extent(e.first, e.len)) ELSE found

LEMMA SlotTurnType ==
    ASSUME NEW s \in Seq(Ranges), NEW e \in Slots
    PROVE  SlotTurn(s, e) \in Seq(Ranges)
  <1> DEFINE len == IF e.last >= e.first THEN e.last - e.first + 1 ELSE 0
  <1>1. e.first \in Nat /\ len \in Nat
    BY DEF Slots
  <1> HIDE DEF len
  <1>2. Extent(e.first, len) \in Ranges
    BY <1>1, ExtentInRanges
  <1>3. SlotTurn(s, e) \in {s, Append(s, Extent(e.first, len))}
    BY DEF SlotTurn, len
  <1> QED
    BY <1>2, <1>3

LEMMA PlaceTurnType ==
    ASSUME NEW s \in Seq(Ranges), NEW e \in Places
    PROVE  PlaceTurn(s, e) \in Seq(Ranges)
  <1>1. Extent(e.first, e.len) \in Ranges
    BY ExtentInRanges DEF Places
  <1> QED
    BY <1>1 DEF PlaceTurn

\* The entries of a table.
LEMMA SlotSteps ==
    ASSUME NEW list \in Seq(Slots)
    PROVE  \E at : /\ at[0] = <<>>
                   /\ \A n \in 1..Len(list) : at[n] = SlotTurn(at[n - 1], list[n])
                   /\ \A n \in 0..Len(list) : at[n] \in Seq(Ranges)
                   /\ GptParts(list) = at[Len(list)]
  <1> DEFINE seq == list
             k == Len(list)
             base == <<>>
             S == Seq(Ranges)
             Phi(f) == [T \in SUBSET DOMAIN seq |-> IF T = {} THEN base ELSE SlotTurn(f[T \ {Max(T)}], list[Max(T)])]
             g == [p \in S \X (1..k) |-> SlotTurn(p[1], list[p[2]])]
             fold == CHOOSE f : f = Phi(f)
  <1>1. k \in Nat /\ DOMAIN seq = 1..k
    OBVIOUS
  <1>2. base \in S
    OBVIOUS
  <1>3. \A s \in S, n \in 1..k : SlotTurn(s, list[n]) \in S
    BY SlotTurnType
  <1>4. g \in [S \X (1..k) -> S]
    <2> HIDE DEF S, k, seq
    <2> QED
      BY <1>3
  <1>5. PICK it : Folding(it, S, base, k, g)
    <2> HIDE DEF g, S, k, base
    <2>1. k \in Nat
      BY <1>1
    <2> QED
      BY <1>2, <1>4, <2>1, FoldExists
  <1>6. it = Phi(it)
    <2> HIDE DEF S, k, seq, base
    <2> QED
      BY <1>1, <1>5 DEF Folding
  <1>7. fold = Phi(fold)
    <2> HIDE DEF Phi
    <2> QED
      BY <1>6
  <1>8. GptParts(list) = fold[1..k]
    <2>1. GptParts(list) = fold[DOMAIN seq]
      BY Zenon DEF GptParts, SlotTurn, FoldLeft, MapThenFoldSet, Max
    <2> HIDE DEF fold
    <2> QED
      BY <1>1, <2>1
  <1>9. fold[{}] = base /\ \A n \in 1..k : fold[1..n] = SlotTurn(fold[1..(n - 1)], list[n])
    <2>1. {} \in SUBSET DOMAIN seq
      OBVIOUS
    <2>2. ASSUME NEW n \in 1..k PROVE fold[1..n] = SlotTurn(fold[1..(n - 1)], list[n])
      <3>1. /\ 1..n \in SUBSET DOMAIN seq /\ 1..n # {}
            /\ Max(1..n) = n /\ (1..n) \ {n} = 1..(n - 1)
        BY <1>1, UpTo
      <3> HIDE DEF fold, k, S, base
      <3>2. Phi(fold)[1..n] = SlotTurn(fold[1..(n - 1)], list[n])
        BY <1>1, <3>1
      <3> HIDE DEF Phi
      <3> QED
        BY <1>7, <3>2
    <2> HIDE DEF fold, k, S, seq, base
    <2>3. Phi(fold)[{}] = base
      BY <2>1
    <2> HIDE DEF Phi
    <2> QED
      BY <1>7, <2>2, <2>3
  <1> DEFINE at == [n \in 0..k |-> fold[1..n]]
  <1>10. at[0] = base /\ at[k] = fold[1..k]
    <2>1. 1..0 = {}
      OBVIOUS
    <2> HIDE DEF fold, k, S, seq, base
    <2> QED
      BY <1>1, <1>9, <2>1
  <1>11. \A n \in 1..k : at[n] = SlotTurn(at[n - 1], list[n])
    <2> HIDE DEF fold, k, S, seq, base
    <2> QED
      BY <1>1, <1>9
  <1>12. \A n \in 0..k : at[n] \in S
    <2>1. \A n \in 1..k : at[n - 1] \in S => at[n] \in S
      <3> HIDE DEF at, S, k
      <3> QED
        BY <1>3, <1>11
    <2>2. at[0] \in S
      <3> HIDE DEF at, S, base
      <3> QED
        BY <1>2, <1>10
    <2> HIDE DEF at, S, k
    <2> QED
      BY <1>1, <2>1, <2>2, Climb
  <1> HIDE DEF at, fold
  <1> QED
    BY <1>8, <1>10, <1>11, <1>12

LEMMA SlotsType ==
    ASSUME NEW list \in Seq(Slots)
    PROVE  GptParts(list) \in Seq(Ranges)
  <1> DEFINE k == Len(list)
             S == Seq(Ranges)
  <1>1. PICK at : (\A n \in 0..k : at[n] \in S) /\ GptParts(list) = at[k]
    BY SlotSteps
  <1>2. k \in 0..k
    OBVIOUS
  <1> HIDE DEF k, S
  <1> QED
    BY <1>1, <1>2 DEF S

\* The entries of a table.
LEMMA PlaceSteps ==
    ASSUME NEW list \in Seq(Places)
    PROVE  \E at : /\ at[0] = <<>>
                   /\ \A n \in 1..Len(list) : at[n] = PlaceTurn(at[n - 1], list[n])
                   /\ \A n \in 0..Len(list) : at[n] \in Seq(Ranges)
                   /\ MbrParts(list) = at[Len(list)]
  <1> DEFINE seq == list
             k == Len(list)
             base == <<>>
             S == Seq(Ranges)
             Phi(f) == [T \in SUBSET DOMAIN seq |-> IF T = {} THEN base ELSE PlaceTurn(f[T \ {Max(T)}], list[Max(T)])]
             g == [p \in S \X (1..k) |-> PlaceTurn(p[1], list[p[2]])]
             fold == CHOOSE f : f = Phi(f)
  <1>1. k \in Nat /\ DOMAIN seq = 1..k
    OBVIOUS
  <1>2. base \in S
    OBVIOUS
  <1>3. \A s \in S, n \in 1..k : PlaceTurn(s, list[n]) \in S
    BY PlaceTurnType
  <1>4. g \in [S \X (1..k) -> S]
    <2> HIDE DEF S, k, seq
    <2> QED
      BY <1>3
  <1>5. PICK it : Folding(it, S, base, k, g)
    <2> HIDE DEF g, S, k, base
    <2>1. k \in Nat
      BY <1>1
    <2> QED
      BY <1>2, <1>4, <2>1, FoldExists
  <1>6. it = Phi(it)
    <2> HIDE DEF S, k, seq, base
    <2> QED
      BY <1>1, <1>5 DEF Folding
  <1>7. fold = Phi(fold)
    <2> HIDE DEF Phi
    <2> QED
      BY <1>6
  <1>8. MbrParts(list) = fold[1..k]
    <2>1. MbrParts(list) = fold[DOMAIN seq]
      BY Zenon DEF MbrParts, PlaceTurn, FoldLeft, MapThenFoldSet, Max
    <2> HIDE DEF fold
    <2> QED
      BY <1>1, <2>1
  <1>9. fold[{}] = base /\ \A n \in 1..k : fold[1..n] = PlaceTurn(fold[1..(n - 1)], list[n])
    <2>1. {} \in SUBSET DOMAIN seq
      OBVIOUS
    <2>2. ASSUME NEW n \in 1..k PROVE fold[1..n] = PlaceTurn(fold[1..(n - 1)], list[n])
      <3>1. /\ 1..n \in SUBSET DOMAIN seq /\ 1..n # {}
            /\ Max(1..n) = n /\ (1..n) \ {n} = 1..(n - 1)
        BY <1>1, UpTo
      <3> HIDE DEF fold, k, S, base
      <3>2. Phi(fold)[1..n] = PlaceTurn(fold[1..(n - 1)], list[n])
        BY <1>1, <3>1
      <3> HIDE DEF Phi
      <3> QED
        BY <1>7, <3>2
    <2> HIDE DEF fold, k, S, seq, base
    <2>3. Phi(fold)[{}] = base
      BY <2>1
    <2> HIDE DEF Phi
    <2> QED
      BY <1>7, <2>2, <2>3
  <1> DEFINE at == [n \in 0..k |-> fold[1..n]]
  <1>10. at[0] = base /\ at[k] = fold[1..k]
    <2>1. 1..0 = {}
      OBVIOUS
    <2> HIDE DEF fold, k, S, seq, base
    <2> QED
      BY <1>1, <1>9, <2>1
  <1>11. \A n \in 1..k : at[n] = PlaceTurn(at[n - 1], list[n])
    <2> HIDE DEF fold, k, S, seq, base
    <2> QED
      BY <1>1, <1>9
  <1>12. \A n \in 0..k : at[n] \in S
    <2>1. \A n \in 1..k : at[n - 1] \in S => at[n] \in S
      <3> HIDE DEF at, S, k
      <3> QED
        BY <1>3, <1>11
    <2>2. at[0] \in S
      <3> HIDE DEF at, S, base
      <3> QED
        BY <1>2, <1>10
    <2> HIDE DEF at, S, k
    <2> QED
      BY <1>1, <2>1, <2>2, Climb
  <1> HIDE DEF at, fold
  <1> QED
    BY <1>8, <1>10, <1>11, <1>12

LEMMA PlacesType ==
    ASSUME NEW list \in Seq(Places)
    PROVE  MbrParts(list) \in Seq(Ranges)
  <1> DEFINE k == Len(list)
             S == Seq(Ranges)
  <1>1. PICK at : (\A n \in 0..k : at[n] \in S) /\ MbrParts(list) = at[k]
    BY PlaceSteps
  <1>2. k \in 0..k
    OBVIOUS
  <1> HIDE DEF k, S
  <1> QED
    BY <1>1, <1>2 DEF S

LEMMA TableEndType ==
    ASSUME NEW d, IsTable(d)
    PROVE  TableEnd(d.table) \in Nat
  <1> DEFINE size == EntrySize(d.table)
             all == d.table.count * size
             rest == (all + SectorBytes - 1) % Word
  <1>1. SectorBytes \in Nat \ {0} /\ Word \in Nat \ {0} /\ EntryBytes \in Nat
    BY PartitionsAssumption
  <1>2. d.table.first \in Nat /\ d.table.count \in Nat /\ size \in Nat
    BY <1>1 DEF IsTable, EntrySize
  <1> HIDE DEF size
  <1>3. all \in Nat
    BY <1>2
  <1> HIDE DEF all
  <1>4. rest \in Nat
    BY <1>1, <1>3
  <1>5. TableEnd(d.table) = d.table.first + rest \div SectorBytes
    BY DEF TableEnd, rest, all, size
  <1> HIDE DEF rest
  <1>6. rest \div SectorBytes \in Nat
    BY <1>1, <1>4
  <1> QED
    BY <1>2, <1>5, <1>6

\* What a probe tells, whether or not it succeeds.
LEMMA ProbeType ==
    ASSUME NEW d, IsTable(d)
    PROVE  LET pm == probe_partitions(d)
           IN  pm.ok \in BOOLEAN /\ pm.table \in Nat /\ pm.parts \in Seq(Ranges)
  <1> DEFINE pm == probe_partitions(d)
             gpt == Reads(d, 0, 1) /\ Reads(d, 1, 1) /\ d.gpt
             read == Reads(d, d.table.first, UpToSector(d.table.count * EntrySize(d.table)))
  <1>1. d.slots \in Seq(Slots) /\ d.mbr \in Seq(Places)
    BY DEF IsTable, Slots, Places
  <1>2. GptParts(d.slots) \in Seq(Ranges) /\ MbrParts(d.mbr) \in Seq(Ranges) /\ <<>> \in Seq(Ranges)
    BY <1>1, SlotsType, PlacesType
  <1>3. TableEnd(d.table) \in Nat
    BY TableEndType
  <1>4. read \in BOOLEAN
    BY DEF Reads
  <1>5. CASE ~Reads(d, 0, 1)
    <2>1. pm = [ok |-> FALSE, kind |-> "none", table |-> 0, parts |-> <<>>]
      BY <1>5 DEF probe_partitions
    <2> HIDE DEF pm
    <2> QED
      BY <1>2, <2>1 DEF pm
  <1>6. CASE Reads(d, 0, 1) /\ gpt
    <2>1. pm = [ok |-> read, kind |-> "gpt", table |-> TableEnd(d.table),
                parts |-> IF read THEN GptParts(d.slots) ELSE <<>>]
      BY <1>6 DEF probe_partitions
    <2> HIDE DEF pm, read
    <2>2. pm.ok = read /\ pm.table = TableEnd(d.table) /\ pm.parts \in {GptParts(d.slots), <<>>}
      BY <2>1
    <2> QED
      BY <1>2, <1>3, <1>4, <2>2 DEF pm
  <1>7. CASE Reads(d, 0, 1) /\ ~gpt /\ d.sig
    <2>1. pm = [ok |-> TRUE, kind |-> "mbr", table |-> 1, parts |-> MbrParts(d.mbr)]
      BY <1>7 DEF probe_partitions
    <2> HIDE DEF pm
    <2> QED
      BY <1>2, <2>1 DEF pm
  <1>8. CASE Reads(d, 0, 1) /\ ~gpt /\ ~d.sig
    <2>1. pm = [ok |-> TRUE, kind |-> "none", table |-> 0, parts |-> <<>>]
      BY <1>8 DEF probe_partitions
    <2> HIDE DEF pm
    <2> QED
      BY <1>2, <2>1 DEF pm
  <1> QED
    BY <1>5, <1>6, <1>7, <1>8

LEMMA LinearLengthType ==
    ASSUME NEW d, d.size \in Nat, NEW ps \in Seq(Ranges), NEW base \in Nat
    PROVE  LinearLength(d, ps, base) \in Nat
  <1> DEFINE at == {i \in DOMAIN ps : ps[i].off = base}
             rest == IF d.size > base THEN d.size - base ELSE 0
  <1>1. rest \in Nat
    OBVIOUS
  <1>2. ASSUME at # {} PROVE ps[Min(at)].len \in Nat
    <2>1. at \in SUBSET Nat
      OBVIOUS
    <2>2. PICK m \in at : \A x \in at : m <= x
      <3> HIDE DEF at
      <3> QED
        BY <1>2, <2>1, Smallest
    <2>3. Min(at) \in at
      <3> HIDE DEF at
      <3> QED
        BY <2>2 DEF Min
    <2>4. ps[Min(at)] \in Ranges
      BY <2>3
    <2> QED
      BY <2>4 DEF Ranges
  <1>3. LinearLength(d, ps, base) = IF at # {} /\ ps[Min(at)].len > 0 THEN ps[Min(at)].len ELSE rest
    BY DEF LinearLength
  <1> HIDE DEF at, rest
  <1> QED
    BY <1>1, <1>2, <1>3

RangeFold(ranges, base, exts) == FoldLeft(LAMBDA v, e : AddRange(v, base, e), ranges, exts)

\* A list of ranges with one more at its end.
LEMMA AppendCovers ==
    ASSUME NEW ranges \in Seq(Ranges), NEW e \in Ranges
    PROVE  /\ Append(ranges, e) \in Seq(Ranges) /\ Covered(Append(ranges, e)) = Covered(ranges) \cup UnitsOf(e)
           /\ \A but : AllApart(ranges, but) /\ Covered(ranges) \cap UnitsOf(e) \subseteq but
                => AllApart(Append(ranges, e), but)
  <1> DEFINE n == Len(ranges)
             new == Append(ranges, e)
  <1>1. /\ n \in Nat /\ new \in Seq(Ranges) /\ Len(new) = n + 1 /\ new[n + 1] = e
        /\ \A i \in 1..n : new[i] = ranges[i]
    OBVIOUS
  <1>2. DOMAIN ranges = 1..n /\ DOMAIN new = (1..n) \cup {n + 1}
    BY <1>1
  <1> HIDE DEF n, new
  <1>3. Covered(new) = Covered(ranges) \cup UnitsOf(e)
    BY <1>1, <1>2 DEF Covered
  <1>4. ASSUME NEW but, AllApart(ranges, but), Covered(ranges) \cap UnitsOf(e) \subseteq but PROVE AllApart(new, but)
    <2>1. \A i, j \in 1..n : i # j => UnitsOf(new[i]) \cap UnitsOf(new[j]) \subseteq but
      BY <1>1, <1>2, <1>4 DEF AllApart, Apart
    <2>2. \A i \in 1..n : UnitsOf(new[i]) \cap UnitsOf(e) \subseteq but
      BY <1>1, <1>2, <1>4 DEF Covered
    <2> QED
      BY <1>1, <1>2, <2>1, <2>2 DEF AllApart, Apart
  <1> QED
    BY <1>1, <1>3, <1>4 DEF new

LEMMA MovedUnits ==
    ASSUME NEW base \in Nat, NEW e \in Ranges
    PROVE  /\ Extent(base + e.off, e.len) \in Ranges
           /\ UnitsOf(Extent(base + e.off, e.len)) = At(base, UnitsOf(e))
  <1> DEFINE x == e.off
             y == e.len
  <1>1. x \in Nat /\ y \in Nat
    BY DEF Ranges
  <1>2. UnitsOf(Extent(base + x, y)) = (base + x)..(base + x + y - 1) /\ UnitsOf(e) = x..(x + y - 1)
    BY DEF UnitsOf, Extent
  <1> HIDE DEF x, y
  <1>3. Extent(base + x, y) \in Ranges
    <2>1. base + x \in Nat
      BY <1>1
    <2> QED
      BY <1>1, <2>1, ExtentInRanges
  <1>4. (base + x)..(base + x + y - 1) = {base + u : u \in x..(x + y - 1)}
    <2>1. ASSUME NEW v \in (base + x)..(base + x + y - 1) PROVE v \in {base + u : u \in x..(x + y - 1)}
      <3>1. v - base \in x..(x + y - 1) /\ v = base + (v - base)
        BY <1>1
      <3> QED
        BY <3>1
    <2>2. \A u \in x..(x + y - 1) : base + u \in (base + x)..(base + x + y - 1)
      BY <1>1
    <2> QED
      BY <2>1, <2>2
  <1> QED
    BY <1>2, <1>3, <1>4 DEF At, x, y

\* Units that are apart in a volume are apart on the device.
LEMMA MovedApart ==
    ASSUME NEW base \in Nat, NEW S, NEW T, S \cap T = {}, S \subseteq Nat, T \subseteq Nat
    PROVE  At(base, S) \cap At(base, T) = {}
  BY DEF At

LEMMA MovedShared ==
    ASSUME NEW base \in Nat, NEW S, NEW T, NEW own, S \cap T \subseteq own, S \subseteq Nat, T \subseteq Nat
    PROVE  At(base, S) \cap At(base, T) \subseteq At(base, own)
  <1>1. ASSUME NEW x \in At(base, S) \cap At(base, T)
        PROVE  x \in At(base, own)
    <2>1. PICK u \in S : x = base + u
      BY DEF At
    <2>2. PICK v \in T : x = base + v
      BY DEF At
    <2>3. u \in Nat /\ v \in Nat
      OBVIOUS
    <2>4. u = v
      BY <2>1, <2>2, <2>3
    <2>5. u \in own
      BY <2>4
    <2> QED
      BY <2>1, <2>5 DEF At
  <1> QED
    BY <1>1

LEMMA RangeUnits ==
    \A s \in Seq(Ranges) : Covered(s) \subseteq Nat /\ \A i \in DOMAIN s : UnitsOf(s[i]) \subseteq Covered(s)
  <1>1. \A e \in Ranges : UnitsOf(e) \subseteq Nat
    BY DEF Ranges, UnitsOf
  <1>2. \A s \in Seq(Ranges) : \A i \in DOMAIN s : s[i] \in Ranges
    OBVIOUS
  <1> QED
    BY <1>1, <1>2 DEF Covered

LEMMA FoundUnits ==
    ASSUME NEW objs \in Seq(Objects)
    PROVE  FoundIn(objs) \subseteq Nat
  <1>1. \A i \in DOMAIN objs : objs[i].exts \in Seq(Ranges)
    <2>1. \A i \in DOMAIN objs : objs[i] \in Objects
      OBVIOUS
    <2>2. \A o \in Objects : o.exts \in Seq(Ranges)
      BY DEF Objects
    <2> QED
      BY <2>1, <2>2
  <1> QED
    BY <1>1, RangeUnits DEF FoundIn

\* A range that is added to the plan covers what it is made of, moved to its volume.
LEMMA AddRangeCovers ==
    ASSUME NEW ranges \in Seq(Ranges), NEW base \in Nat, NEW e \in Ranges
    PROVE  /\ AddRange(ranges, base, e) \in Seq(Ranges)
           /\ Covered(AddRange(ranges, base, e)) = Covered(ranges) \cup At(base, UnitsOf(e))
           /\ \A but : AllApart(ranges, but) /\ Covered(ranges) \cap At(base, UnitsOf(e)) \subseteq but
                => AllApart(AddRange(ranges, base, e), but)
  <1> DEFINE new == Extent(base + e.off, e.len)
  <1>1. new \in Ranges /\ UnitsOf(new) = At(base, UnitsOf(e))
    BY MovedUnits
  <1>2. AddRange(ranges, base, e) = IF e.len = 0 THEN ranges ELSE Append(ranges, new)
    BY DEF AddRange
  <1>3. e.len = 0 => At(base, UnitsOf(e)) = {}
    <2>1. e.off \in Nat
      BY DEF Ranges
    <2>2. e.len = 0 => UnitsOf(e) = {}
      BY <2>1 DEF UnitsOf
    <2> QED
      BY <2>2 DEF At
  <1> HIDE DEF new
  <1> QED
    BY <1>1, <1>2, <1>3, AppendCovers

\* The ranges of one object.
LEMMA RangeFoldSteps ==
    ASSUME NEW ranges \in Seq(Ranges),
           NEW base \in Nat,
           NEW exts \in Seq(Ranges)
    PROVE  \E at : /\ at[0] = ranges
                   /\ \A n \in 1..Len(exts) : at[n] = AddRange(at[n - 1], base, exts[n])
                   /\ \A n \in 0..Len(exts) : at[n] \in Seq(Ranges)
                   /\ RangeFold(ranges, base, exts) = at[Len(exts)]
  <1> DEFINE seq == exts
             k == Len(exts)
             start == ranges
             S == Seq(Ranges)
             Phi(f) == [T \in SUBSET DOMAIN seq |-> IF T = {} THEN start
                                                    ELSE AddRange(f[T \ {Max(T)}], base, exts[Max(T)])]
             g == [p \in S \X (1..k) |-> AddRange(p[1], base, exts[p[2]])]
             fold == CHOOSE f : f = Phi(f)
  <1>1. k \in Nat /\ DOMAIN seq = 1..k
    OBVIOUS
  <1>2. start \in S
    OBVIOUS
  <1>3. \A s \in S, n \in 1..k : AddRange(s, base, exts[n]) \in S
    <2>1. \A n \in 1..k : exts[n] \in Ranges
      OBVIOUS
    <2>2. \A w \in Seq(Ranges), e \in Ranges : AddRange(w, base, e) \in Seq(Ranges)
      BY AddRangeCovers
    <2> HIDE DEF k
    <2> QED
      BY <2>1, <2>2
  <1>4. g \in [S \X (1..k) -> S]
    <2> HIDE DEF S, k, seq
    <2> QED
      BY <1>3
  <1>5. PICK it : Folding(it, S, start, k, g)
    <2> HIDE DEF g, S, k, start
    <2>1. k \in Nat
      BY <1>1
    <2> QED
      BY <1>2, <1>4, <2>1, FoldExists
  <1>6. it = Phi(it)
    <2> HIDE DEF S, k, seq, start
    <2> QED
      BY <1>1, <1>5 DEF Folding
  <1>7. fold = Phi(fold)
    <2> HIDE DEF Phi
    <2> QED
      BY <1>6
  <1>8. RangeFold(ranges, base, exts) = fold[1..k]
    <2>1. RangeFold(ranges, base, exts) = fold[DOMAIN seq]
      BY Zenon DEF RangeFold, AddRange, FoldLeft, MapThenFoldSet, Max
    <2> HIDE DEF fold
    <2> QED
      BY <1>1, <2>1
  <1>9. fold[{}] = start /\ \A n \in 1..k : fold[1..n] = AddRange(fold[1..(n - 1)], base, exts[n])
    <2>1. {} \in SUBSET DOMAIN seq
      OBVIOUS
    <2>2. ASSUME NEW n \in 1..k PROVE fold[1..n] = AddRange(fold[1..(n - 1)], base, exts[n])
      <3>1. /\ 1..n \in SUBSET DOMAIN seq /\ 1..n # {}
            /\ Max(1..n) = n /\ (1..n) \ {n} = 1..(n - 1)
        BY <1>1, UpTo
      <3> HIDE DEF fold, k, S, start
      <3>2. Phi(fold)[1..n] = AddRange(fold[1..(n - 1)], base, exts[n])
        BY <1>1, <3>1
      <3> HIDE DEF Phi
      <3> QED
        BY <1>7, <3>2
    <2> HIDE DEF fold, k, S, seq, start
    <2>3. Phi(fold)[{}] = start
      BY <2>1
    <2> HIDE DEF Phi
    <2> QED
      BY <1>7, <2>2, <2>3
  <1> DEFINE at == [n \in 0..k |-> fold[1..n]]
  <1>10. at[0] = start /\ at[k] = fold[1..k]
    <2>1. 1..0 = {}
      OBVIOUS
    <2> HIDE DEF fold, k, S, seq, start
    <2> QED
      BY <1>1, <1>9, <2>1
  <1>11. \A n \in 1..k : at[n] = AddRange(at[n - 1], base, exts[n])
    <2> HIDE DEF fold, k, S, seq, start
    <2> QED
      BY <1>1, <1>9
  <1>12. \A n \in 0..k : at[n] \in S
    <2>1. \A n \in 1..k : at[n - 1] \in S => at[n] \in S
      <3> HIDE DEF at, S, k
      <3> QED
        BY <1>3, <1>11
    <2>2. at[0] \in S
      <3> HIDE DEF at, S, start
      <3> QED
        BY <1>2, <1>10
    <2> HIDE DEF at, S, k
    <2> QED
      BY <1>1, <2>1, <2>2, Climb
  <1> HIDE DEF at, fold
  <1> QED
    BY <1>8, <1>10, <1>11, <1>12

LEMMA RangeFoldCovers ==
    ASSUME NEW ranges \in Seq(Ranges), NEW base \in Nat, NEW exts \in Seq(Ranges)
    PROVE  /\ RangeFold(ranges, base, exts) \in Seq(Ranges)
           /\ Covered(RangeFold(ranges, base, exts)) = Covered(ranges) \cup At(base, Covered(exts))
           /\ \A but, own : /\ AllApart(ranges, but) /\ AllApart(exts, own) /\ At(base, own) \subseteq but
                            /\ Covered(ranges) \cap At(base, Covered(exts)) \subseteq but
                => AllApart(RangeFold(ranges, base, exts), but)
  <1> DEFINE k == Len(exts)
             S == Seq(Ranges)
             upTo(n) == UNION {At(base, UnitsOf(exts[i])) : i \in 1..n}
  <1>1. PICK at : /\ at[0] = ranges
                  /\ \A n \in 1..k : at[n] = AddRange(at[n - 1], base, exts[n])
                  /\ \A n \in 0..k : at[n] \in S
                  /\ RangeFold(ranges, base, exts) = at[k]
    BY RangeFoldSteps
  <1>2. k \in Nat /\ k \in 0..k /\ DOMAIN exts = 1..k
    OBVIOUS
  <1> DEFINE cond(but, own) == /\ AllApart(ranges, but) /\ AllApart(exts, own) /\ At(base, own) \subseteq but
                               /\ Covered(ranges) \cap At(base, Covered(exts)) \subseteq but
             Good == {n \in 0..k : /\ Covered(at[n]) = Covered(ranges) \cup upTo(n)
                                   /\ \A but, own : cond(but, own) => AllApart(at[n], but)}
  <1>3. 0 \in Good
    <2>1. upTo(0) = {} /\ \A but, own : cond(but, own) => AllApart(ranges, but)
      OBVIOUS
    <2> HIDE DEF upTo, k, cond
    <2> QED
      BY <1>1, <1>2, <2>1
  <1>4. ASSUME NEW n \in 1..k, n - 1 \in Good PROVE n \in Good
    <2>1. n \in 0..k /\ n - 1 \in 0..k /\ 1..n = (1..(n - 1)) \cup {n}
      BY <1>2
    <2>2. upTo(n) = upTo(n - 1) \cup At(base, UnitsOf(exts[n]))
      BY <2>1
    <2>3. Covered(at[n]) = Covered(at[n - 1]) \cup At(base, UnitsOf(exts[n]))
      <3>1. exts[n] \in Ranges
        OBVIOUS
      <3>2. at[n - 1] \in Seq(Ranges) /\ at[n] = AddRange(at[n - 1], base, exts[n])
        BY <1>1, <2>1
      <3>3. \A w \in Seq(Ranges), e \in Ranges :
              Covered(AddRange(w, base, e)) = Covered(w) \cup At(base, UnitsOf(e))
        BY AddRangeCovers
      <3> HIDE DEF k, S
      <3> QED
        BY <3>1, <3>2, <3>3
    <2>4. /\ Covered(at[n - 1]) = Covered(ranges) \cup upTo(n - 1)
          /\ \A but, own : cond(but, own) => AllApart(at[n - 1], but)
      BY <1>4
    <2>5. ASSUME NEW but, NEW own, cond(but, own) PROVE Covered(at[n - 1]) \cap At(base, UnitsOf(exts[n])) \subseteq but
      <3>1. upTo(n - 1) \cap At(base, UnitsOf(exts[n])) \subseteq At(base, own)
        <4>1. ASSUME NEW i \in 1..(n - 1)
              PROVE  At(base, UnitsOf(exts[i])) \cap At(base, UnitsOf(exts[n])) \subseteq At(base, own)
          <5>1. i \in 1..k /\ i # n
            BY <1>2
          <5>2. UnitsOf(exts[i]) \cap UnitsOf(exts[n]) \subseteq own
            BY <1>2, <2>5, <5>1 DEF AllApart, Apart
          <5>3. UnitsOf(exts[i]) \subseteq Nat /\ UnitsOf(exts[n]) \subseteq Nat
            BY <1>2, <5>1, RangeUnits
          <5> QED
            BY <5>2, <5>3, MovedShared
        <4> QED
          BY <4>1
      <3>2. At(base, UnitsOf(exts[n])) \subseteq At(base, Covered(exts))
        BY <1>2 DEF At, Covered
      <3>3. Covered(ranges) \cap At(base, Covered(exts)) \subseteq but /\ At(base, own) \subseteq but
        BY <2>5
      <3> HIDE DEF upTo, cond
      <3> QED
        BY <2>4, <3>1, <3>2, <3>3
    <2>6. ASSUME NEW but, NEW own, cond(but, own) PROVE AllApart(at[n], but)
      <3>1. exts[n] \in Ranges
        OBVIOUS
      <3>2. at[n - 1] \in Seq(Ranges) /\ at[n] = AddRange(at[n - 1], base, exts[n])
        BY <1>1, <2>1
      <3>3. \A w \in Seq(Ranges), e \in Ranges :
              AllApart(w, but) /\ Covered(w) \cap At(base, UnitsOf(e)) \subseteq but => AllApart(AddRange(w, base, e), but)
        BY AddRangeCovers
      <3> HIDE DEF k, S, cond
      <3> QED
        BY <2>4, <2>5, <2>6, <3>1, <3>2, <3>3
    <2> HIDE DEF upTo, cond
    <2> QED
      BY <2>1, <2>2, <2>3, <2>4, <2>6
  <1>5. k \in Good
    <2> HIDE DEF Good, k
    <2> QED
      BY <1>2, <1>3, <1>4, Induction
  <1>6. upTo(k) = At(base, Covered(exts))
    <2> HIDE DEF k
    <2> QED
      BY <1>2 DEF At, Covered
  <1> HIDE DEF upTo, S, k
  <1> QED
    BY <1>1, <1>2, <1>5, <1>6 DEF S

\* The ranges of the objects of a volume.
LEMMA AddRangesSteps ==
    ASSUME NEW ranges \in Seq(Ranges),
           NEW base \in Nat,
           NEW objs \in Seq(Objects)
    PROVE  \E at : /\ at[0] = ranges
                   /\ \A n \in 1..Len(objs) : at[n] = RangeFold(at[n - 1], base, objs[n].exts)
                   /\ \A n \in 0..Len(objs) : at[n] \in Seq(Ranges)
                   /\ AddRanges(ranges, base, objs) = at[Len(objs)]
  <1> DEFINE seq == objs
             k == Len(objs)
             start == ranges
             S == Seq(Ranges)
             Phi(f) == [T \in SUBSET DOMAIN seq |-> IF T = {} THEN start
                                                    ELSE RangeFold(f[T \ {Max(T)}], base, objs[Max(T)].exts)]
             g == [p \in S \X (1..k) |-> RangeFold(p[1], base, objs[p[2]].exts)]
             fold == CHOOSE f : f = Phi(f)
  <1>1. k \in Nat /\ DOMAIN seq = 1..k
    OBVIOUS
  <1>2. start \in S
    OBVIOUS
  <1>3. \A s \in S, n \in 1..k : RangeFold(s, base, objs[n].exts) \in S
    <2>1. \A n \in 1..k : objs[n] \in Objects
      OBVIOUS
    <2>2. \A w \in Seq(Ranges), e \in Objects : RangeFold(w, base, e.exts) \in Seq(Ranges)
      BY RangeFoldCovers DEF Objects
    <2> HIDE DEF k
    <2> QED
      BY <2>1, <2>2
  <1>4. g \in [S \X (1..k) -> S]
    <2> HIDE DEF S, k, seq
    <2> QED
      BY <1>3
  <1>5. PICK it : Folding(it, S, start, k, g)
    <2> HIDE DEF g, S, k, start
    <2>1. k \in Nat
      BY <1>1
    <2> QED
      BY <1>2, <1>4, <2>1, FoldExists
  <1>6. it = Phi(it)
    <2> HIDE DEF S, k, seq, start
    <2> QED
      BY <1>1, <1>5 DEF Folding
  <1>7. fold = Phi(fold)
    <2> HIDE DEF Phi
    <2> QED
      BY <1>6
  <1>8. AddRanges(ranges, base, objs) = fold[1..k]
    <2>1. AddRanges(ranges, base, objs) = fold[DOMAIN seq]
      BY Zenon DEF AddRanges, RangeFold, FoldLeft, MapThenFoldSet, Max
    <2> HIDE DEF fold
    <2> QED
      BY <1>1, <2>1
  <1>9. fold[{}] = start /\ \A n \in 1..k : fold[1..n] = RangeFold(fold[1..(n - 1)], base, objs[n].exts)
    <2>1. {} \in SUBSET DOMAIN seq
      OBVIOUS
    <2>2. ASSUME NEW n \in 1..k PROVE fold[1..n] = RangeFold(fold[1..(n - 1)], base, objs[n].exts)
      <3>1. /\ 1..n \in SUBSET DOMAIN seq /\ 1..n # {}
            /\ Max(1..n) = n /\ (1..n) \ {n} = 1..(n - 1)
        BY <1>1, UpTo
      <3> HIDE DEF fold, k, S, start
      <3>2. Phi(fold)[1..n] = RangeFold(fold[1..(n - 1)], base, objs[n].exts)
        BY <1>1, <3>1
      <3> HIDE DEF Phi
      <3> QED
        BY <1>7, <3>2
    <2> HIDE DEF fold, k, S, seq, start
    <2>3. Phi(fold)[{}] = start
      BY <2>1
    <2> HIDE DEF Phi
    <2> QED
      BY <1>7, <2>2, <2>3
  <1> DEFINE at == [n \in 0..k |-> fold[1..n]]
  <1>10. at[0] = start /\ at[k] = fold[1..k]
    <2>1. 1..0 = {}
      OBVIOUS
    <2> HIDE DEF fold, k, S, seq, start
    <2> QED
      BY <1>1, <1>9, <2>1
  <1>11. \A n \in 1..k : at[n] = RangeFold(at[n - 1], base, objs[n].exts)
    <2> HIDE DEF fold, k, S, seq, start
    <2> QED
      BY <1>1, <1>9
  <1>12. \A n \in 0..k : at[n] \in S
    <2>1. \A n \in 1..k : at[n - 1] \in S => at[n] \in S
      <3> HIDE DEF at, S, k
      <3> QED
        BY <1>3, <1>11
    <2>2. at[0] \in S
      <3> HIDE DEF at, S, start
      <3> QED
        BY <1>2, <1>10
    <2> HIDE DEF at, S, k
    <2> QED
      BY <1>1, <2>1, <2>2, Climb
  <1> HIDE DEF at, fold
  <1> QED
    BY <1>8, <1>10, <1>11, <1>12

\* The plan of a volume covers what was found in it, and what was planned before (massage.cpp 263-274).
LEMMA AddRangesCovers ==
    ASSUME NEW ranges \in Seq(Ranges), NEW base \in Nat, NEW objs \in Seq(Objects)
    PROVE  /\ AddRanges(ranges, base, objs) \in Seq(Ranges)
           /\ Covered(AddRanges(ranges, base, objs)) = Covered(ranges) \cup At(base, FoundIn(objs))
           /\ \A but, own : /\ AllApart(ranges, but) /\ Distinct(objs, own) /\ At(base, own) \subseteq but
                            /\ Covered(ranges) \cap At(base, FoundIn(objs)) \subseteq but
                => AllApart(AddRanges(ranges, base, objs), but)
  <1> DEFINE k == Len(objs)
             S == Seq(Ranges)
             upTo(n) == UNION {At(base, Covered(objs[i].exts)) : i \in 1..n}
  <1>1. PICK at : /\ at[0] = ranges
                  /\ \A n \in 1..k : at[n] = RangeFold(at[n - 1], base, objs[n].exts)
                  /\ \A n \in 0..k : at[n] \in S
                  /\ AddRanges(ranges, base, objs) = at[k]
    BY AddRangesSteps
  <1>2. k \in Nat /\ k \in 0..k /\ DOMAIN objs = 1..k
    OBVIOUS
  <1> DEFINE cond(but, own) == /\ AllApart(ranges, but) /\ Distinct(objs, own) /\ At(base, own) \subseteq but
                               /\ Covered(ranges) \cap At(base, FoundIn(objs)) \subseteq but
             Good == {n \in 0..k : /\ Covered(at[n]) = Covered(ranges) \cup upTo(n)
                                   /\ \A but, own : cond(but, own) => AllApart(at[n], but)}
  <1>3. 0 \in Good
    <2>1. upTo(0) = {} /\ \A but, own : cond(but, own) => AllApart(ranges, but)
      OBVIOUS
    <2> HIDE DEF upTo, k, cond
    <2> QED
      BY <1>1, <1>2, <2>1
  <1>4. ASSUME NEW n \in 1..k, n - 1 \in Good PROVE n \in Good
    <2>1. n \in 0..k /\ n - 1 \in 0..k /\ 1..n = (1..(n - 1)) \cup {n}
      BY <1>2
    <2>2. upTo(n) = upTo(n - 1) \cup At(base, Covered(objs[n].exts))
      BY <2>1
    <2>3. Covered(at[n]) = Covered(at[n - 1]) \cup At(base, Covered(objs[n].exts))
      <3>1. objs[n] \in Objects
        OBVIOUS
      <3>2. at[n - 1] \in Seq(Ranges) /\ at[n] = RangeFold(at[n - 1], base, objs[n].exts)
        BY <1>1, <2>1
      <3>3. \A w \in Seq(Ranges), e \in Objects :
              Covered(RangeFold(w, base, e.exts)) = Covered(w) \cup At(base, Covered(e.exts))
        BY RangeFoldCovers DEF Objects
      <3> HIDE DEF k, S
      <3> QED
        BY <3>1, <3>2, <3>3
    <2>4. /\ Covered(at[n - 1]) = Covered(ranges) \cup upTo(n - 1)
          /\ \A but, own : cond(but, own) => AllApart(at[n - 1], but)
      BY <1>4
    <2>5. ASSUME NEW but, NEW own, cond(but, own)
          PROVE  Covered(at[n - 1]) \cap At(base, Covered(objs[n].exts)) \subseteq but
      <3>1. upTo(n - 1) \cap At(base, Covered(objs[n].exts)) \subseteq At(base, own)
        <4>1. ASSUME NEW i \in 1..(n - 1)
              PROVE  At(base, Covered(objs[i].exts)) \cap At(base, Covered(objs[n].exts)) \subseteq At(base, own)
          <5>1. i \in 1..k /\ i # n
            BY <1>2
          <5>2. Covered(objs[i].exts) \cap Covered(objs[n].exts) \subseteq own
            BY <1>2, <2>5, <5>1 DEF Distinct
          <5>3. objs[i].exts \in Seq(Ranges) /\ objs[n].exts \in Seq(Ranges)
            <6>1. objs[i] \in Objects /\ objs[n] \in Objects
              BY <5>1
            <6> QED
              BY <6>1 DEF Objects
          <5>4. Covered(objs[i].exts) \subseteq Nat /\ Covered(objs[n].exts) \subseteq Nat
            BY <5>3, RangeUnits
          <5> QED
            BY <5>2, <5>4, MovedShared
        <4> QED
          BY <4>1
      <3>2. At(base, Covered(objs[n].exts)) \subseteq At(base, FoundIn(objs))
        BY <1>2 DEF At, FoundIn
      <3>3. Covered(ranges) \cap At(base, FoundIn(objs)) \subseteq but /\ At(base, own) \subseteq but
        BY <2>5
      <3> HIDE DEF upTo, cond
      <3> QED
        BY <2>4, <3>1, <3>2, <3>3
    <2>6. ASSUME NEW but, NEW own, cond(but, own) PROVE AllApart(at[n], but)
      <3>1. objs[n] \in Objects /\ AllApart(objs[n].exts, own) /\ At(base, own) \subseteq but
        BY <1>2, <2>6 DEF Distinct
      <3>2. at[n - 1] \in Seq(Ranges) /\ at[n] = RangeFold(at[n - 1], base, objs[n].exts)
        BY <1>1, <2>1
      <3>3. AllApart(at[n - 1], but) /\ Covered(at[n - 1]) \cap At(base, Covered(objs[n].exts)) \subseteq but
        BY <2>4, <2>5, <2>6
      <3>4. objs[n].exts \in Seq(Ranges)
        BY <3>1 DEF Objects
      <3> DEFINE w == at[n - 1]
                 es == objs[n].exts
      <3> HIDE DEF w, es, k, S, cond
      <3>5. w \in Seq(Ranges) /\ es \in Seq(Ranges)
        BY <3>2, <3>4 DEF w, es
      <3>6. /\ AllApart(w, but) /\ AllApart(es, own) /\ At(base, own) \subseteq but
            /\ Covered(w) \cap At(base, Covered(es)) \subseteq but
        BY <3>1, <3>3 DEF w, es
      <3>7. AllApart(RangeFold(w, base, es), but)
        BY <3>5, <3>6, RangeFoldCovers
      <3> QED
        BY <3>2, <3>7 DEF w, es
    <2> HIDE DEF upTo, cond
    <2> QED
      BY <2>1, <2>2, <2>3, <2>4, <2>6
  <1>5. k \in Good
    <2> HIDE DEF Good, k
    <2> QED
      BY <1>2, <1>3, <1>4, Induction
  <1>6. upTo(k) = At(base, FoundIn(objs))
    <2> HIDE DEF k
    <2> QED
      BY <1>2 DEF At, FoundIn
  <1> HIDE DEF upTo, S, k
  <1> QED
    BY <1>1, <1>2, <1>5, <1>6 DEF S

-----------------------------------------------------------------------------
(* The scanner of a volume, whichever it is. *)

Types == FatTypes \cup {"exfat", "ntfs", "ext"}
Walked == FatTypes \cup {"exfat", "ext"}

LEMMA TypeOfType ==
    ASSUME NEW vol, vol.label \in FatTypes \cup {"none"}
    PROVE  TypeOf(vol) \in Types \cup {"unknown"}
  <1>1. FatByClusters(vol) \in FatTypes
    BY DEF FatByClusters, FatTypes
  <1>2. vol.label # "none" => vol.label \in FatTypes
    OBVIOUS
  <1> HIDE DEF FatTypes
  <1> QED
    BY <1>1, <1>2 DEF TypeOf, Types

\* What detect_fs recognises is a volume of the type it says.
LEMMA Detected ==
    ASSUME NEW d \in Devices, NEW b, detect_fs(d, b) # "unknown"
    PROVE  /\ b \in DOMAIN d.vols /\ b \in Nat
           /\ detect_fs(d, b) \in Types
           /\ IsVolume(Volume(d, b), detect_fs(d, b))
  <1>1. b \in DOMAIN d.vols /\ detect_fs(d, b) = TypeOf(d.vols[b])
    BY DEF detect_fs, HasVolume
  <1>2. DOMAIN d.vols \subseteq Nat /\ d.vols[b].label \in FatTypes \cup {"none"}
          /\ IsVolume(Volume(d, b), TypeOf(d.vols[b]))
    BY <1>1, DevicesAssumption
  <1>3. TypeOf(d.vols[b]) \in Types \cup {"unknown"}
    BY <1>2, TypeOfType
  <1> QED
    BY <1>1, <1>2, <1>3

\* What scan_filesystem collects before the walk, and where the walk begins.
LEMMA ScannedType ==
    ASSUME NEW vol, NEW type \in Types, IsVolume(vol, type)
    PROVE  LET scan == scan_filesystem(vol, type)
           IN  /\ scan.objects \in Seq(Objects)
               /\ scan.enter \in Seq(Nat) /\ Len(scan.enter) <= 1
               /\ type \notin Walked => scan.enter = <<>>
               /\ type \notin {"ntfs", "ext"} => \A i \in DOMAIN scan.objects : AllApart(scan.objects[i].exts, {})
  <1>0. \A x : Len(<<x>>) <= 1
    OBVIOUS
  <1>1. CASE type \in FatTypes
    <2>1. scan_filesystem(vol, type) = F!scan_fat(vol, type)
      BY <1>1 DEF scan_filesystem, FatTypes
    <2>2. F!IsVolume(vol)
      BY <1>1 DEF IsVolume
    <2> QED
      BY <1>0, <1>1, <2>1, <2>2, FatScanType DEF Walked
  <1>2. CASE type = "exfat"
    <2>1. scan_filesystem(vol, type) = X!scan_exfat(vol)
      BY <1>2 DEF scan_filesystem, FatTypes
    <2>2. X!IsVolume(vol)
      BY <1>2 DEF IsVolume
    <2> QED
      BY <1>0, <1>2, <2>1, <2>2, ExFatScanType DEF Walked
  <1>3. CASE type = "ext"
    <2>1. scan_filesystem(vol, type) = E!scan_ext(vol)
      BY <1>3 DEF scan_filesystem, FatTypes
    <2>2. E!IsVolume(vol)
      BY <1>3 DEF IsVolume
    <2> QED
      BY <1>0, <1>3, <2>1, <2>2, ExtScanType DEF Walked
  <1>4. CASE type = "ntfs"
    <2>1. scan_filesystem(vol, type) = N!scan_ntfs(vol)
      BY <1>4 DEF scan_filesystem, FatTypes
    <2>2. N!IsVolume(vol)
      BY <1>4 DEF IsVolume
    <2>3. <<>> \in Seq(Nat) /\ Len(<<>>) <= 1
      OBVIOUS
    <2>4. scan_filesystem(vol, type).objects \in Seq(Objects) /\ scan_filesystem(vol, type).enter = <<>>
      BY <2>1, <2>2, NtfsScanType
    <2> QED
      BY <1>4, <2>3, <2>4
  <1> QED
    BY <1>1, <1>2, <1>3, <1>4 DEF Types

\* Whatever the type of the volume, what a directory holds and what one of its entries adds.
LEMMA EnteredType ==
    ASSUME NEW vol, NEW type \in Walked, IsVolume(vol, type), NEW d \in Nat
    PROVE  LET read == Entered(vol, type, d)
           IN  /\ read.objects \in Seq(Objects) /\ read.entries \in Seq(AllEntries(vol))
               /\ type # "ext" => read.objects = <<>>
  <1>0. <<>> \in Seq(Objects)
    OBVIOUS
  <1>1. CASE type \in FatTypes
    <2>1. Entered(vol, type, d) = F!EnterDir(vol, type, d)
      BY <1>1 DEF Entered, FatTypes
    <2>2. F!IsVolume(vol)
      BY <1>1 DEF IsVolume
    <2> QED
      BY <1>0, <1>1, <2>1, <2>2, FatEnterType
  <1>2. CASE type = "exfat"
    <2>1. Entered(vol, type, d) = X!EnterDir(vol, d)
      BY <1>2 DEF Entered, FatTypes
    <2>2. X!IsVolume(vol)
      BY <1>2 DEF IsVolume
    <2> QED
      BY <1>0, <1>2, <2>1, <2>2, ExFatEnterType
  <1>3. CASE type = "ext"
    <2>1. Entered(vol, type, d) = E!EnterInode(vol, d)
      BY <1>3 DEF Entered, FatTypes
    <2>2. E!IsVolume(vol)
      BY <1>3 DEF IsVolume
    <2> QED
      BY <1>3, <2>1, <2>2, ExtEnterType
  <1> QED
    BY <1>1, <1>2, <1>3 DEF Walked

LEMMA TakenType ==
    ASSUME NEW vol, NEW type \in Walked, IsVolume(vol, type), NEW e \in AllEntries(vol)
    PROVE  LET taken == Taken(vol, type, e)
           IN  /\ taken.objects \in Seq(Objects)
               /\ taken.enter \in Seq(Nat) /\ Len(taken.enter) <= 1
               /\ type # "ext" => \A i \in DOMAIN taken.objects : AllApart(taken.objects[i].exts, {})
               /\ taken.stop => taken.objects = <<>> /\ taken.enter = <<>>
  <1>0. <<>> \in Seq(Objects)
    OBVIOUS
  <1>1. CASE type \in FatTypes
    <2>1. Taken(vol, type, e) = F!TakeEntry(vol, type, e)
      BY <1>1 DEF Taken, FatTypes
    <2>2. F!IsVolume(vol) /\ F!IsEntry(e)
      BY <1>1, FatArea DEF IsVolume
    <2>3. F!TakeEntry(vol, type, e).stop
            => F!TakeEntry(vol, type, e).objects = <<>> /\ F!TakeEntry(vol, type, e).enter = <<>>
      BY DEF F!TakeEntry
    <2> QED
      BY <2>1, <2>2, <2>3, FatTakeType
  <1>2. CASE type = "exfat"
    <2>1. Taken(vol, type, e) = X!TakeEntry(vol, e)
      BY <1>2 DEF Taken, FatTypes
    <2>2. X!IsVolume(vol) /\ X!IsEntry(e)
      BY <1>2, ExFatArea DEF IsVolume
    <2>3. X!TakeEntry(vol, e).stop
            => X!TakeEntry(vol, e).objects = <<>> /\ X!TakeEntry(vol, e).enter = <<>>
      BY DEF X!TakeEntry
    <2> QED
      BY <2>1, <2>2, <2>3, ExFatTakeType
  <1>3. CASE type = "ext"
    <2>1. Taken(vol, type, e) = E!TakeEntry(e)
      BY <1>3 DEF Taken, FatTypes
    <2>2. E!IsVolume(vol)
      BY <1>3 DEF IsVolume
    <2>3. E!TakeEntry(e).stop => E!TakeEntry(e).enter = <<>>
      BY DEF E!TakeEntry
    <2> QED
      BY <1>0, <1>3, <2>1, <2>2, <2>3, ExtTakeType
  <1> QED
    BY <1>1, <1>2, <1>3 DEF Walked

-----------------------------------------------------------------------------
(* The type of the plan and of the walk. *)

LEMMA Ends ==
    ASSUME NEW S, NEW s \in Seq(S), s # <<>>
    PROVE  /\ Len(s) \in Nat /\ Len(s) >= 1
           /\ Last(s) \in S /\ Last(s) = s[Len(s)]
           /\ Front(s) \in Seq(S) /\ Len(Front(s)) = Len(s) - 1
           /\ \A i \in 1..(Len(s) - 1) : Front(s)[i] = s[i]
           /\ Head(s) \in S /\ Head(s) = s[1] /\ Tail(s) \in Seq(S)
  <1>1. Len(s) \in Nat /\ Len(s) >= 1 /\ \A i \in 1..Len(s) : s[i] \in S
    OBVIOUS
  <1>2. Last(s) = s[Len(s)] /\ Last(s) \in S
    BY <1>1 DEF Last
  <1>3. /\ Front(s) \in Seq(S) /\ Len(Front(s)) = Len(s) - 1
        /\ \A i \in 1..(Len(s) - 1) : Front(s)[i] = s[i]
    <2>1. Front(s) = [i \in 1..(Len(s) - 1) |-> s[i]]
      BY <1>1 DEF Front
    <2>2. Len(s) - 1 \in Nat /\ \A i \in 1..(Len(s) - 1) : s[i] \in S
      BY <1>1
    <2> QED
      BY <2>1, <2>2
  <1>4. Head(s) \in S /\ Head(s) = s[1] /\ Tail(s) \in Seq(S)
    OBVIOUS
  <1> QED
    BY <1>1, <1>2, <1>3, <1>4

\* A list whose last element is replaced.
LEMMA Replaced ==
    ASSUME NEW S, NEW s \in Seq(S), s # <<>>, NEW x \in S
    PROVE  LET new == Append(Front(s), x)
           IN  /\ new \in Seq(S) /\ Len(new) = Len(s) /\ new[Len(s)] = x
               /\ \A i \in 1..(Len(s) - 1) : new[i] = s[i]
  <1> DEFINE f == Front(s)
             n == Len(s)
  <1>1. f \in Seq(S) /\ Len(f) = n - 1 /\ n \in Nat /\ n >= 1 /\ \A i \in 1..(n - 1) : f[i] = s[i]
    BY Ends
  <1> HIDE DEF f, n
  <1>2. /\ Append(f, x) \in Seq(S) /\ Len(Append(f, x)) = n /\ Append(f, x)[n] = x
        /\ \A i \in 1..(n - 1) : Append(f, x)[i] = f[i]
    BY <1>1
  <1> QED
    BY <1>1, <1>2 DEF f, n

LEMMA ExtentsList ==
    ASSUME NEW s \in Seq(Ranges)
    PROVE  IsExtents(s)
  <1>1. \A i \in DOMAIN s : s[i] \in Ranges
    OBVIOUS
  <1>2. \A e \in Ranges : e.off \in Nat /\ e.len \in Nat
    BY DEF Ranges
  <1> QED
    BY <1>1, <1>2 DEF IsExtents

LEMMA Joins ==
    ASSUME NEW a \in Seq(Objects), NEW b \in Seq(Objects)
    PROVE  /\ a \o b \in Seq(Objects)
           /\ (\A i \in DOMAIN a : AllApart(a[i].exts, {})) /\ (\A i \in DOMAIN b : AllApart(b[i].exts, {}))
                => \A i \in DOMAIN (a \o b) : AllApart((a \o b)[i].exts, {})
  <1> DEFINE m == Len(a)
             n == Len(b)
             c == a \o b
  <1>1. /\ m \in Nat /\ n \in Nat /\ c \in Seq(Objects) /\ DOMAIN a = 1..m /\ DOMAIN b = 1..n /\ DOMAIN c = 1..(m + n)
        /\ \A i \in 1..m : c[i] = a[i]
        /\ \A i \in (m + 1)..(m + n) : c[i] = b[i - m]
    OBVIOUS
  <1> HIDE DEF m, n, c
  <1>2. \A i \in 1..(m + n) : i \in 1..m \/ (i \in (m + 1)..(m + n) /\ i - m \in 1..n)
    BY <1>1
  <1>3. ASSUME \A i \in DOMAIN a : AllApart(a[i].exts, {}), \A i \in DOMAIN b : AllApart(b[i].exts, {})
        PROVE  \A i \in DOMAIN c : AllApart(c[i].exts, {})
    BY <1>1, <1>2, <1>3
  <1> QED
    BY <1>1, <1>3 DEF c

WalkOK ==
    /\ jobs # <<>> /\ Type # "unknown"
    /\ Type \notin Walked => enter = <<>> /\ stack = <<>>
    /\ stack \in Seq(Seq(AllEntries(Vol)))
    /\ ToSet(enter) \subseteq Directories(Vol, Type)

AtRest == enter = <<>> /\ stack = <<>> /\ seen = {} /\ objects = <<>>

PlanInv ==
    /\ dev \in Devices /\ mode \in {"linear", "recursive"}
    /\ pc \in {"probe", "jobs", "walk", "planned", "crashed", "overflow"}
    /\ parts \in Seq(Ranges) /\ work \in Seq(Ranges)
    /\ jobs \in Seq(Nat) /\ rc \in {0, 1}
    /\ enter \in Seq(Nat) /\ Len(enter) <= 1 /\ objects \in Seq(Objects) /\ seen \subseteq Nat
    /\ pc \in {"walk", "overflow"} => WalkOK
    /\ pc \notin {"walk", "overflow"} => AtRest
    /\ Len(stack) <= MaxDepth
    /\ ObjectsApart

LEMMA PlanTypeOK == PlanInv => TypeOK
  <1> SUFFICES ASSUME PlanInv PROVE TypeOK
    OBVIOUS
  <1>1. IsExtents(parts) /\ IsExtents(work)
    BY ExtentsList DEF PlanInv
  <1>2. \A i \in DOMAIN jobs : jobs[i] \in Nat
    BY DEF PlanInv
  <1>3. \A i \in DOMAIN objects : IsExtents(objects[i].exts)
    <2>1. objects \in Seq(Objects)
      BY DEF PlanInv
    <2>2. \A i \in DOMAIN objects : objects[i] \in Objects
      BY <2>1
    <2>3. \A o \in Objects : o.exts \in Seq(Ranges)
      BY DEF Objects
    <2> QED
      BY <2>2, <2>3, ExtentsList
  <1> QED
    BY <1>1, <1>2, <1>3 DEF PlanInv, TypeOK

\* The jobs of a run are where its partitions begin, or the device itself.
LEMMA FirstJobs ==
    ASSUME PlanJobs
    PROVE  ToSet(jobs') = StartsOf(dev)
  <1> DEFINE pm == probe_partitions(dev)
             f == [i \in DOMAIN pm.parts |-> pm.parts[i].off]
  <1>0. jobs' = IF HasTable(pm) THEN f ELSE <<0>>
    BY DEF PlanJobs
  <1>1. CASE HasTable(pm)
    <2>1. ToSet(f) = {pm.parts[i].off : i \in DOMAIN pm.parts}
      BY DEF ToSet
    <2>2. jobs' = f /\ StartsOf(dev) = {pm.parts[i].off : i \in DOMAIN pm.parts}
      BY <1>0, <1>1 DEF StartsOf
    <2> HIDE DEF f, pm
    <2> QED
      BY <2>1, <2>2
  <1>2. CASE ~HasTable(pm)
    <2>1. ToSet(<<0>>) = {0}
      BY DEF ToSet
    <2> QED
      BY <1>0, <1>2, <2>1 DEF StartsOf
  <1> QED
    BY <1>1, <1>2

\* Devices are what module Scan assumes.
LEMMA DeviceIsOne ==
    ASSUME NEW d \in Devices
    PROVE  IsTable(d) /\ d.size \in Nat /\ MaxDepth \in Nat
  BY DevicesAssumption DEF IsTable

\* What is known in the middle of a walk.
LEMMA WalkFacts ==
    ASSUME PlanInv, pc = "walk"
    PROVE  /\ jobs # <<>> /\ Head(jobs) \in Nat /\ Tail(jobs) \in Seq(Nat)
           /\ dev \in Devices /\ Head(jobs) \in DOMAIN dev.vols
           /\ Type \in Types /\ Type # "unknown" /\ IsVolume(Vol, Type)
           /\ (enter # <<>> \/ stack # <<>>) => Type \in Walked
  <1>1. jobs # <<>> /\ jobs \in Seq(Nat) /\ Type # "unknown" /\ dev \in Devices
          /\ (Type \notin Walked => enter = <<>> /\ stack = <<>>)
    BY DEF PlanInv, WalkOK
  <1>2. Head(jobs) \in Nat /\ Tail(jobs) \in Seq(Nat)
    BY <1>1
  <1>3. Head(jobs) \in DOMAIN dev.vols /\ Type \in Types /\ IsVolume(Vol, Type)
    BY <1>1, Detected DEF Type, Vol
  <1> QED
    BY <1>1, <1>2, <1>3

\* Of the entries of a volume, those that lead into directories.
LEMMA TakenDirectories ==
    ASSUME NEW vol, NEW type, type # "ntfs", NEW e \in AllEntries(vol)
    PROVE  ToSet(Taken(vol, type, e).enter) \subseteq Directories(vol, type)
  <1>1. PICK c \in DOMAIN vol.area : e \in ToSet(vol.area[c])
    BY DEF AllEntries
  <1> QED
    BY <1>1 DEF Directories

\* What one entry leads to and leaves to be taken (the loop of walk_dir).
LEMMA TakeFacts ==
    ASSUME PlanInv, pc = "walk", stack # <<>>, Innermost # <<>>
    PROVE  LET e == Head(Innermost)
               taken == Taken(Vol, Type, e)
               rest == IF taken.stop THEN <<>> ELSE Tail(Innermost)
               n == Len(stack)
               new == Append(Front(stack), rest)
           IN  /\ Innermost = stack[n] /\ Innermost \in Seq(AllEntries(Vol))
               /\ e \in AllEntries(Vol) /\ rest \in Seq(AllEntries(Vol))
               /\ n \in Nat /\ n >= 1
               /\ new \in Seq(Seq(AllEntries(Vol))) /\ Len(new) = n /\ new[n] = rest
               /\ \A i \in 1..(n - 1) : new[i] = stack[i]
  <1> DEFINE A == AllEntries(Vol)
             taken == Taken(Vol, Type, Head(Innermost))
             rest == IF taken.stop THEN <<>> ELSE Tail(Innermost)
  <1>1. stack \in Seq(Seq(A))
    BY DEF PlanInv, WalkOK
  <1>2. Innermost = stack[Len(stack)] /\ Innermost \in Seq(A) /\ Len(stack) \in Nat /\ Len(stack) >= 1
    BY <1>1, Ends DEF Innermost
  <1>3. Head(Innermost) \in A /\ Tail(Innermost) \in Seq(A)
    <2> HIDE DEF A
    <2> QED
      BY <1>2, Ends
  <1>4. rest \in Seq(A)
    <2>1. <<>> \in Seq(A)
      OBVIOUS
    <2> HIDE DEF A, taken
    <2> QED
      BY <1>3, <2>1
  <1> HIDE DEF A, rest
  <1>5. /\ Append(Front(stack), rest) \in Seq(Seq(A)) /\ Len(Append(Front(stack), rest)) = Len(stack)
        /\ Append(Front(stack), rest)[Len(stack)] = rest
        /\ \A i \in 1..(Len(stack) - 1) : Append(Front(stack), rest)[i] = stack[i]
    BY <1>1, <1>4, Replaced
  <1> QED
    BY <1>2, <1>3, <1>4, <1>5 DEF A, rest

LEMMA PlanInvInit == Init => PlanInv
  <1> SUFFICES ASSUME Init PROVE PlanInv
    OBVIOUS
  <1>1. <<>> \in Seq(Ranges) /\ <<>> \in Seq(Nat) /\ <<>> \in Seq(Objects) /\ Len(<<>>) = 0
    OBVIOUS
  <1>2. Len(stack) <= MaxDepth
    BY <1>1, DeviceIsOne DEF Init
  <1> QED
    BY <1>1, <1>2 DEF Init, PlanInv, AtRest, ObjectsApart

\* Every step keeps the types of the plan and of the walk.
LEMMA PlanInvNext == PlanInv /\ [Next]_vars => PlanInv'
  <1> SUFFICES ASSUME PlanInv, [Next]_vars PROVE PlanInv'
    OBVIOUS
  <1> DEFINE pm == probe_partitions(dev)
  <1>1. pm.table \in Nat /\ pm.parts \in Seq(Ranges) /\ dev.size \in Nat
    BY ProbeType, DeviceIsOne DEF PlanInv
  <1>2. TableRange(pm) \in Ranges /\ WholeDevice \in Ranges
    BY <1>1, ExtentInRanges DEF TableRange, WholeDevice
  <1> HIDE DEF pm
  <1>3. CASE PlanLinear
    <2>1. work' \in Seq(Ranges) /\ parts' \in Seq(Ranges)
      <3>1. /\ parts' = pm.parts
            /\ work' = IF ~pm.ok THEN <<>>
                       ELSE IF HasTable(pm) THEN <<TableRange(pm)>> \o pm.parts ELSE <<WholeDevice>>
        BY <1>3 DEF PlanLinear, pm
      <3>2. \A e \in Ranges : <<e>> \in Seq(Ranges)
        OBVIOUS
      <3>3. <<TableRange(pm)>> \o pm.parts \in Seq(Ranges)
        <4>1. <<TableRange(pm)>> \in Seq(Ranges)
          BY <1>2, <3>2
        <4> QED
          BY <1>1, <4>1
      <3>4. <<>> \in Seq(Ranges)
        OBVIOUS
      <3> QED
        BY <1>1, <1>2, <3>1, <3>2, <3>3, <3>4
    <2>2. pc' = "planned" /\ rc' \in {0, 1} /\ UNCHANGED <<dev, mode, jobs, walking>> /\ pc = "probe"
      BY <1>3 DEF PlanLinear
    <2> QED
      BY <2>1, <2>2 DEF PlanInv, AtRest, ObjectsApart, walking
  <1>4. CASE PlanJobs
    <2>1. /\ parts' = pm.parts
          /\ jobs' = IF HasTable(pm) THEN [i \in DOMAIN pm.parts |-> pm.parts[i].off] ELSE <<0>>
          /\ work' = IF HasTable(pm) /\ pm.table > 0 THEN <<TableRange(pm)>> ELSE <<>>
          /\ pc' = "jobs" /\ UNCHANGED <<dev, mode, walking, rc>> /\ pc = "probe"
      BY <1>4 DEF PlanJobs, pm
    <2>2. work' \in Seq(Ranges)
      <3>1. <<TableRange(pm)>> \in Seq(Ranges) /\ <<>> \in Seq(Ranges)
        BY <1>2
      <3> QED
        BY <2>1, <3>1
    <2>3. jobs' \in Seq(Nat)
      <3>1. <<0>> \in Seq(Nat)
        OBVIOUS
      <3>2. [i \in DOMAIN pm.parts |-> pm.parts[i].off] \in Seq(Nat)
        <4>1. DOMAIN pm.parts = 1..Len(pm.parts) /\ Len(pm.parts) \in Nat
          BY <1>1
        <4>2. \A i \in DOMAIN pm.parts : pm.parts[i].off \in Nat
          BY <1>1, ExtentsList DEF IsExtents
        <4> QED
          BY <4>1, <4>2
      <3> QED
        BY <2>1, <3>1, <3>2
    <2> QED
      BY <1>1, <2>1, <2>2, <2>3 DEF PlanInv, AtRest, ObjectsApart, walking
  <1>5. CASE RewriteUnknown
    <2>1. Head(jobs) \in Nat /\ Tail(jobs) \in Seq(Nat) /\ work \in Seq(Ranges)
      BY <1>5 DEF RewriteUnknown, PlanInv
    <2> DEFINE len == LinearLength(dev, parts, Head(jobs))
    <2>2. len \in Nat
      BY <1>1, <2>1, LinearLengthType DEF PlanInv
    <2>3. work' = Append(work, Extent(Head(jobs), len)) /\ jobs' = Tail(jobs)
            /\ UNCHANGED <<dev, mode, pc, parts, walking, rc>> /\ pc = "jobs"
      BY <1>5 DEF RewriteUnknown
    <2> HIDE DEF len
    <2>4. Extent(Head(jobs), len) \in Ranges
      BY <2>1, <2>2, ExtentInRanges
    <2>5. work' \in Seq(Ranges)
      BY <2>1, <2>3, <2>4, AppendCovers
    <2> QED
      BY <2>1, <2>3, <2>5 DEF PlanInv, AtRest, ObjectsApart, walking
  <1>6. ASSUME ScanFailed, UNCHANGED <<dev, mode, parts, work>>, jobs # <<>>
        PROVE  PlanInv'
    <2>1. Tail(jobs) \in Seq(Nat)
      BY <1>6 DEF PlanInv
    <2>2. <<>> \in Seq(Nat) /\ <<>> \in Seq(Objects) /\ Len(<<>>) = 0
      OBVIOUS
    <2>3. Len(stack') <= MaxDepth
      BY <1>6, <2>2, DeviceIsOne DEF ScanFailed, PlanInv
    <2> QED
      BY <1>6, <2>1, <2>2, <2>3 DEF ScanFailed, PlanInv, AtRest, ObjectsApart
  <1>7. CASE StartScan
    <2> DEFINE scan == scan_filesystem(Vol, Type)
    <2>1. pc = "jobs" /\ jobs # <<>> /\ Type # "unknown" /\ UNCHANGED <<dev, mode, parts, work>> /\ AtRest
      BY <1>7 DEF StartScan, PlanInv
    <2>2. Type \in Types /\ IsVolume(Vol, Type)
      BY <2>1, Detected DEF Type, Vol, PlanInv
    <2>3. /\ scan.objects \in Seq(Objects)
          /\ scan.enter \in Seq(Nat) /\ Len(scan.enter) <= 1
          /\ Type \notin Walked => scan.enter = <<>>
          /\ Type \notin {"ntfs", "ext"} => \A i \in DOMAIN scan.objects : AllApart(scan.objects[i].exts, {})
      BY <2>2, ScannedType
    <2>4. ToSet(scan.enter) \subseteq Directories(Vol, Type)
      BY DEF Directories
    <2>5. CASE scan.outcome = "failed" /\ ScanFailed
      BY <1>6, <2>1, <2>5
    <2>6. CASE pc' = "crashed" /\ UNCHANGED <<jobs, walking, rc>>
      BY <2>1, <2>6 DEF PlanInv, AtRest, ObjectsApart, walking
    <2>7. CASE pc' = "walk" /\ enter' = scan.enter /\ objects' = scan.objects /\ UNCHANGED <<jobs, stack, seen, rc>>
      <3>1. Type' = Type /\ Vol' = Vol
        BY <2>1, <2>7 DEF Type, Vol
      <3>2. <<>> \in Seq(Seq(AllEntries(Vol)))
        OBVIOUS
      <3> HIDE DEF scan
      <3>3. WalkOK'
        BY <2>1, <2>3, <2>4, <2>7, <3>1, <3>2 DEF WalkOK, AtRest
      <3>4. ObjectsApart'
        BY <2>3, <2>7, <3>1 DEF ObjectsApart
      <3> QED
        BY <2>1, <2>3, <2>7, <3>3, <3>4 DEF PlanInv
    <2> QED
      BY <1>7, <2>5, <2>6, <2>7 DEF StartScan
  <1>8. CASE EnterDirectory
    <2> DEFINE d == Head(enter)
               read == Entered(Vol, Type, d)
    <2>1. pc = "walk" /\ enter # <<>> /\ UNCHANGED <<dev, mode, parts, work>>
      BY <1>8 DEF EnterDirectory
    <2>2. jobs # <<>> /\ Type \in Walked /\ Type # "unknown" /\ IsVolume(Vol, Type) /\ d \in Nat
      BY <2>1, WalkFacts DEF PlanInv
    <2>3. read.objects \in Seq(Objects) /\ read.entries \in Seq(AllEntries(Vol))
            /\ (Type # "ext" => read.objects = <<>>)
      BY <2>2, EnteredType
    <2>4. stack \in Seq(Seq(AllEntries(Vol))) /\ Len(stack) <= MaxDepth /\ MaxDepth \in Nat
            /\ ToSet(<<>>) \subseteq Directories(Vol, Type)
      BY <2>1, DeviceIsOne DEF PlanInv, WalkOK, ToSet
    <2>5. <<>> \in Seq(Nat) /\ Len(<<>>) <= 1
      OBVIOUS
    <2>6. CASE SeenBefore(d) /\ enter' = <<>> /\ UNCHANGED <<pc, jobs, stack, seen, objects, rc>>
      <3>1. Type' = Type /\ Vol' = Vol
        BY <2>1, <2>6 DEF Type, Vol
      <3>2. WalkOK'
        BY <2>1, <2>2, <2>4, <2>6, <3>1 DEF WalkOK
      <3> QED
        BY <2>1, <2>5, <2>6, <3>1, <3>2 DEF PlanInv, ObjectsApart
    <2>7. CASE /\ read.ok /\ Len(stack) < MaxDepth /\ enter' = <<>> /\ stack' = Append(stack, read.entries)
               /\ seen' = (IF Type = "ext" THEN seen \cup {d} ELSE seen)
               /\ objects' = objects \o read.objects /\ UNCHANGED <<pc, jobs, rc>>
      <3>1. Type' = Type /\ Vol' = Vol
        BY <2>1, <2>7 DEF Type, Vol
      <3> HIDE DEF read, d
      <3>2. stack' \in Seq(Seq(AllEntries(Vol))) /\ Len(stack') <= MaxDepth
        <4> DEFINE A == Seq(AllEntries(Vol))
        <4>1. stack \in Seq(A) /\ read.entries \in A
          BY <2>3, <2>4
        <4> HIDE DEF A
        <4>2. Append(stack, read.entries) \in Seq(A) /\ Len(Append(stack, read.entries)) = Len(stack) + 1
                /\ Len(stack) \in Nat
          BY <4>1
        <4> QED
          BY <2>4, <2>7, <4>2 DEF A
      <3>3. WalkOK'
        BY <2>1, <2>2, <2>4, <2>7, <3>1, <3>2 DEF WalkOK
      <3>4. objects' \in Seq(Objects) /\ ObjectsApart'
        <4>1. objects \in Seq(Objects) /\ ObjectsApart
          BY DEF PlanInv
        <4>2. objects \o read.objects \in Seq(Objects)
          BY <2>3, <4>1, Joins
        <4>3. Type # "ext" => objects \o read.objects = objects
          BY <2>3, <4>1
        <4> QED
          BY <2>1, <2>7, <3>1, <4>1, <4>2, <4>3 DEF ObjectsApart
      <3>5. seen' \subseteq Nat
        BY <2>2, <2>7 DEF PlanInv
      <3> QED
        BY <2>1, <2>5, <2>7, <3>2, <3>3, <3>4, <3>5 DEF PlanInv
    <2>8. CASE ScanFailed
      BY <1>6, <2>1, <2>2, <2>8
    <2>9. CASE pc' = "overflow" /\ UNCHANGED <<jobs, walking, rc>>
      <3>1. Type' = Type /\ Vol' = Vol
        BY <2>1, <2>9 DEF Type, Vol
      <3>2. WalkOK'
        BY <2>1, <2>9, <3>1 DEF WalkOK, walking, PlanInv
      <3> QED
        BY <2>1, <2>9, <3>2 DEF PlanInv, ObjectsApart, walking
    <2> QED
      BY <1>8, <2>6, <2>7, <2>8, <2>9 DEF EnterDirectory
  <1>9. CASE TakeEntry
    <2> DEFINE e == Head(Innermost)
               taken == Taken(Vol, Type, e)
               rest == IF taken.stop THEN <<>> ELSE Tail(Innermost)
    <2>1. /\ pc = "walk" /\ enter = <<>> /\ stack # <<>> /\ Innermost # <<>>
          /\ objects' = objects \o taken.objects /\ enter' = taken.enter /\ stack' = Append(Front(stack), rest)
          /\ UNCHANGED <<dev, mode, pc, parts, jobs, seen, work, rc>>
      BY <1>9 DEF TakeEntry
    <2>2. jobs # <<>> /\ Type \in Walked /\ Type # "unknown" /\ IsVolume(Vol, Type)
      BY <2>1, WalkFacts
    <2>3. e \in AllEntries(Vol) /\ stack' \in Seq(Seq(AllEntries(Vol))) /\ Len(stack') = Len(stack)
      BY <2>1, TakeFacts
    <2>4. /\ taken.objects \in Seq(Objects)
          /\ taken.enter \in Seq(Nat) /\ Len(taken.enter) <= 1
          /\ Type # "ext" => \A i \in DOMAIN taken.objects : AllApart(taken.objects[i].exts, {})
      BY <2>2, <2>3, TakenType
    <2>5. ToSet(taken.enter) \subseteq Directories(Vol, Type)
      <3>1. Type # "ntfs"
        BY <2>2 DEF Walked, FatTypes
      <3> QED
        BY <2>3, <3>1, TakenDirectories
    <2>6. Type' = Type /\ Vol' = Vol
      BY <2>1 DEF Type, Vol
    <2> HIDE DEF taken, rest
    <2>7. WalkOK'
      BY <2>1, <2>2, <2>3, <2>5, <2>6 DEF WalkOK
    <2>8. objects' \in Seq(Objects) /\ ObjectsApart'
      <3>1. objects \in Seq(Objects) /\ ObjectsApart
        BY DEF PlanInv
      <3> QED
        BY <2>1, <2>4, <2>6, <3>1, Joins DEF ObjectsApart
    <2> QED
      BY <2>1, <2>3, <2>4, <2>7, <2>8 DEF PlanInv
  <1>10. CASE LeaveDirectory
    <2>1. /\ pc = "walk" /\ enter = <<>> /\ stack # <<>> /\ stack' = Front(stack)
          /\ UNCHANGED <<dev, mode, pc, parts, jobs, enter, seen, objects, work, rc>>
      BY <1>10 DEF LeaveDirectory
    <2>2. Type' = Type /\ Vol' = Vol
      BY <2>1 DEF Type, Vol
    <2>3. stack' \in Seq(Seq(AllEntries(Vol))) /\ Len(stack') <= MaxDepth
      <3> DEFINE A == Seq(AllEntries(Vol))
      <3>1. stack \in Seq(A) /\ Len(stack) <= MaxDepth /\ MaxDepth \in Nat
        BY <2>1, DeviceIsOne DEF PlanInv, WalkOK
      <3> HIDE DEF A
      <3>2. Front(stack) \in Seq(A) /\ Len(Front(stack)) = Len(stack) - 1 /\ Len(stack) \in Nat
        BY <2>1, <3>1, Ends
      <3> QED
        BY <2>1, <3>1, <3>2 DEF A
    <2>4. WalkOK'
      BY <2>1, <2>2, <2>3, WalkFacts DEF WalkOK, PlanInv
    <2> QED
      BY <2>1, <2>2, <2>3, <2>4 DEF PlanInv, ObjectsApart
  <1>11. CASE FinishScan
    <2>1. /\ pc = "walk" /\ enter = <<>> /\ stack = <<>> /\ work' = AddRanges(work, Head(jobs), objects)
          /\ jobs' = Tail(jobs) /\ pc' = "jobs" /\ seen' = {} /\ objects' = <<>>
          /\ UNCHANGED <<dev, mode, parts, enter, stack, rc>>
      BY <1>11 DEF FinishScan
    <2>2. Head(jobs) \in Nat /\ Tail(jobs) \in Seq(Nat)
      BY <2>1, WalkFacts
    <2>3. work' \in Seq(Ranges)
      <3>1. work \in Seq(Ranges) /\ objects \in Seq(Objects)
        BY DEF PlanInv
      <3> QED
        BY <2>1, <2>2, <3>1, AddRangesCovers
    <2>4. <<>> \in Seq(Objects)
      OBVIOUS
    <2> QED
      BY <2>1, <2>2, <2>3, <2>4 DEF PlanInv, AtRest, ObjectsApart
  <1>12. CASE PlanDone
    BY <1>12 DEF PlanDone, PlanInv, AtRest, ObjectsApart, walking
  <1>13. CASE UNCHANGED vars
    <2>1. Type' = Type /\ Vol' = Vol
      BY <1>13 DEF Type, Vol, vars
    <2>2. WalkOK' = WalkOK /\ AtRest' = AtRest /\ ObjectsApart' = ObjectsApart
      BY <1>13, <2>1 DEF WalkOK, AtRest, ObjectsApart, vars, walking
    <2> QED
      BY <1>13, <2>2 DEF PlanInv, vars, walking
  <1> QED
    BY <1>3, <1>4, <1>5, <1>7, <1>8, <1>9, <1>10, <1>11, <1>12, <1>13 DEF Next

LEMMA Planning == Spec => []PlanInv
  BY PlanInvInit, PlanInvNext, PTL DEF Spec

\* The plan, the walk and the list of objects have their types, and the stack
\* of directories has room for what is on it, for every device and depth.
THEOREM ScanTypeOK == Spec => []TypeOK
  BY Planning, PlanTypeOK, PTL

\* An object of a FAT or exFAT volume names no unit twice, however its chain
\* runs: a cluster seen before ends it (fat.cpp:85, exfat.cpp:86).
THEOREM NoUnitTwice == Spec => []ObjectsApart
  <1>1. PlanInv => ObjectsApart
    BY DEF PlanInv
  <1> QED
    BY <1>1, Planning, PTL

-----------------------------------------------------------------------------
(* What a walk has found and what it is still to enter. *)

KidsOf(vol, type, entries) == UNION {ToSet(Taken(vol, type, e).enter) : e \in Live(vol, type, entries)}
FoundAt(vol, type, entries) == UNION {FoundIn(Taken(vol, type, e).objects) : e \in Live(vol, type, entries)}

Pending == ToSet(enter) \cup UNION {KidsOf(Vol, Type, stack[i]) : i \in 1..Len(stack)}
Known == FoundIn(objects) \cup UNION {FoundAt(Vol, Type, stack[i]) : i \in 1..Len(stack)}

\* Nothing is found in nothing.
LEMMA NothingLive == \A vol, type : KidsOf(vol, type, <<>>) = {} /\ FoundAt(vol, type, <<>>) = {}
  <1>1. \A vol, type : Live(vol, type, <<>>) = {}
    BY DEF Live, LivePlaces
  <1> QED
    BY <1>1 DEF KidsOf, FoundAt

LEMMA NothingIn == ToSet(<<>>) = {} /\ FoundIn(<<>>) = {} /\ Covered(<<>>) = {} /\ \A x : ToSet(<<x>>) = {x}
  BY DEF ToSet, FoundIn, Covered

\* The entry that is taken, and those after it unless it is the end mark.
LEMMA OneTaken ==
    ASSUME NEW vol, NEW type \in Walked, IsVolume(vol, type),
           NEW entries \in Seq(AllEntries(vol)), entries # <<>>
    PROVE  LET taken == Taken(vol, type, Head(entries))
               rest == IF taken.stop THEN <<>> ELSE Tail(entries)
           IN  /\ KidsOf(vol, type, entries) = ToSet(taken.enter) \cup KidsOf(vol, type, rest)
               /\ FoundAt(vol, type, entries) = FoundIn(taken.objects) \cup FoundAt(vol, type, rest)
  <1> DEFINE n == Len(entries)
             A == AllEntries(vol)
             tail == Tail(entries)
             e == Head(entries)
             taken == Taken(vol, type, e)
             Stop(x) == Taken(vol, type, x).stop
  <1>1. n \in Nat /\ n >= 1 /\ DOMAIN entries = 1..n /\ e = entries[1]
    OBVIOUS
  <1>2. DOMAIN tail = 1..(n - 1) /\ \A i \in 1..(n - 1) : tail[i] = entries[i + 1]
    OBVIOUS
  <1>3. e \in A
    <2>1. entries \in Seq(A)
      OBVIOUS
    <2> HIDE DEF A
    <2> QED
      BY <2>1, Ends
  <1>4. taken.stop => taken.objects = <<>> /\ taken.enter = <<>>
    BY <1>3, TakenType
  <1>5. ASSUME taken.stop PROVE Live(vol, type, entries) = {}
    <2>1. \A j \in 1..n : 1 \in 1..j
      BY <1>1
    <2>2. Stop(entries[1])
      BY <1>1, <1>5
    <2> HIDE DEF n
    <2> QED
      BY <1>1, <2>1, <2>2 DEF Live, LivePlaces
  <1>6. ASSUME ~taken.stop PROVE Live(vol, type, entries) = {e} \cup Live(vol, type, tail)
    <2>1. ~Stop(entries[1])
      BY <1>1, <1>6
    <2> HIDE DEF n, tail, taken, e, Stop
    <2>2. Live(vol, type, entries) = {entries[i] : i \in {j \in 1..n : \A k \in 1..j : ~Stop(entries[k])}}
      BY <1>1 DEF Live, LivePlaces, Stop
    <2>3. Live(vol, type, tail) = {tail[i] : i \in {j \in 1..(n - 1) : \A k \in 1..j : ~Stop(tail[k])}}
      BY <1>2 DEF Live, LivePlaces, Stop
    <2>4. ASSUME NEW j \in 1..n, \A k \in 1..j : ~Stop(entries[k])
          PROVE  entries[j] \in {e} \cup Live(vol, type, tail)
      <3>1. CASE j = 1
        BY <1>1, <3>1
      <3>2. CASE j # 1
        <4>1. j - 1 \in 1..(n - 1) /\ entries[j] = tail[j - 1]
          BY <1>1, <1>2, <3>2
        <4>2. \A k \in 1..(j - 1) : ~Stop(tail[k])
          <5>1. \A k \in 1..(j - 1) : k \in 1..(n - 1) /\ k + 1 \in 1..j
            BY <1>1
          <5> QED
            BY <1>2, <2>4, <5>1
        <4> QED
          BY <2>3, <4>1, <4>2
      <3> QED
        BY <3>1, <3>2
    <2>5. e \in Live(vol, type, entries)
      <3>1. 1 \in 1..n /\ \A k \in 1..1 : k = 1
        BY <1>1
      <3> QED
        BY <1>1, <2>1, <2>2, <3>1
    <2>6. ASSUME NEW j \in 1..(n - 1), \A k \in 1..j : ~Stop(tail[k])
          PROVE  tail[j] \in Live(vol, type, entries)
      <3>1. j + 1 \in 1..n /\ tail[j] = entries[j + 1]
        BY <1>1, <1>2
      <3>2. \A k \in 1..(j + 1) : ~Stop(entries[k])
        <4>1. \A k \in 1..(j + 1) : k = 1 \/ (k - 1 \in 1..j /\ k - 1 \in 1..(n - 1) /\ (k - 1) + 1 = k)
          BY <1>1
        <4> QED
          BY <1>2, <2>1, <2>6, <4>1
      <3> QED
        BY <2>2, <3>1, <3>2
    <2> QED
      BY <2>2, <2>3, <2>4, <2>5, <2>6
  <1> HIDE DEF tail, e, n
  <1>7. CASE taken.stop
    BY <1>4, <1>5, <1>7, NothingLive, NothingIn DEF KidsOf, FoundAt, e
  <1>8. CASE ~taken.stop
    <2> HIDE DEF taken
    <2>1. KidsOf(vol, type, entries) = ToSet(taken.enter) \cup KidsOf(vol, type, tail)
      BY <1>6, <1>8 DEF KidsOf, taken
    <2>2. FoundAt(vol, type, entries) = FoundIn(taken.objects) \cup FoundAt(vol, type, tail)
      BY <1>6, <1>8 DEF FoundAt, taken
    <2> QED
      BY <1>8, <2>1, <2>2 DEF taken, tail, e
  <1> QED
    BY <1>7, <1>8

LEMMA FoundInBoth ==
    ASSUME NEW a \in Seq(Objects), NEW b \in Seq(Objects)
    PROVE  FoundIn(a \o b) = FoundIn(a) \cup FoundIn(b)
  <1> DEFINE m == Len(a)
             n == Len(b)
             c == a \o b
  <1>1. /\ m \in Nat /\ n \in Nat /\ DOMAIN a = 1..m /\ DOMAIN b = 1..n /\ DOMAIN c = 1..(m + n)
        /\ \A i \in 1..m : c[i] = a[i]
        /\ \A i \in (m + 1)..(m + n) : c[i] = b[i - m]
    OBVIOUS
  <1> HIDE DEF m, n, c
  <1>2. /\ \A i \in 1..(m + n) : i \in 1..m \/ (i \in (m + 1)..(m + n) /\ i - m \in 1..n)
        /\ \A i \in 1..m : i \in 1..(m + n)
        /\ \A i \in 1..n : i + m \in (m + 1)..(m + n) /\ i + m \in 1..(m + n) /\ (i + m) - m = i
    BY <1>1
  <1>3. FoundIn(c) \subseteq FoundIn(a) \cup FoundIn(b)
    BY <1>1, <1>2 DEF FoundIn
  <1>4. FoundIn(a) \subseteq FoundIn(c)
    BY <1>1, <1>2 DEF FoundIn
  <1>5. FoundIn(b) \subseteq FoundIn(c)
    <2>1. \A i \in 1..n : c[i + m] = b[i]
      BY <1>1, <1>2
    <2> QED
      BY <1>1, <1>2, <2>1 DEF FoundIn
  <1> QED
    BY <1>3, <1>4, <1>5 DEF c

\* A directory is what it holds before its entries are taken.
LEMMA OwnAndBelow ==
    \A vol, type, d :
        LET read == Entered(vol, type, d)
        IN  /\ Own(vol, type, d) = FoundIn(read.objects) \cup FoundAt(vol, type, read.entries)
            /\ Below(vol, type, d) = KidsOf(vol, type, read.entries)
  BY DEF Own, Below, LiveIn, KidsOf, FoundAt

\* The steps of a walk as those read them that reason about what it finds.
LEMMA Took ==
    ASSUME PlanInv, TakeEntry
    PROVE  Type' = Type /\ Vol' = Vol /\ Pending' = Pending /\ Known' = Known
  <1> DEFINE entries == Innermost
             taken == Taken(Vol, Type, Head(entries))
             rest == IF taken.stop THEN <<>> ELSE Tail(entries)
             n == Len(stack)
             K(x) == KidsOf(Vol, Type, x)
             G(x) == FoundAt(Vol, Type, x)
  <1>1. /\ pc = "walk" /\ enter = <<>> /\ stack # <<>> /\ entries # <<>>
        /\ objects' = objects \o taken.objects /\ enter' = taken.enter /\ stack' = Append(Front(stack), rest)
        /\ UNCHANGED <<dev, jobs>>
    BY DEF TakeEntry
  <1>2. Type' = Type /\ Vol' = Vol
    BY <1>1 DEF Type, Vol
  <1>3. Type \in Walked /\ IsVolume(Vol, Type)
    BY <1>1, WalkFacts
  <1>4. /\ entries = stack[n] /\ entries \in Seq(AllEntries(Vol)) /\ Head(entries) \in AllEntries(Vol)
        /\ n \in Nat /\ n >= 1 /\ Len(stack') = n /\ stack'[n] = rest
        /\ \A i \in 1..(n - 1) : stack'[i] = stack[i]
    BY <1>1, TakeFacts
  <1>5. K(entries) = ToSet(taken.enter) \cup K(rest) /\ G(entries) = FoundIn(taken.objects) \cup G(rest)
    <2>1. entries \in Seq(AllEntries(Vol)) /\ entries # <<>> /\ Type \in Walked /\ IsVolume(Vol, Type)
      BY <1>1, <1>3, <1>4
    <2> HIDE DEF entries
    <2> QED
      BY <2>1, OneTaken
  <1>6. FoundIn(objects \o taken.objects) = FoundIn(objects) \cup FoundIn(taken.objects)
    BY <1>3, <1>4, TakenType, FoundInBoth DEF PlanInv
  <1> HIDE DEF entries, taken, rest, n, K, G
  <1> DEFINE I == 1..(n - 1)
             J == 1..n
  <1>7. J = I \cup {n} /\ (\A i \in I : stack'[i] = stack[i]) /\ stack[n] = entries /\ stack'[n] = rest
    BY <1>4
  <1>8. Pending = ToSet(enter) \cup UNION {K(stack[i]) : i \in J}
          /\ Known = FoundIn(objects) \cup UNION {G(stack[i]) : i \in J}
    BY DEF Pending, Known, K, G, n
  <1>9. Pending' = ToSet(enter') \cup UNION {K(stack'[i]) : i \in J}
          /\ Known' = FoundIn(objects') \cup UNION {G(stack'[i]) : i \in J}
    BY <1>2, <1>4 DEF Pending, Known, K, G, n
  <1> HIDE DEF I, J
  <1>10. Pending' = Pending
    <2>1. UNION {K(stack[i]) : i \in J} = (UNION {K(stack[i]) : i \in I}) \cup K(entries)
      BY <1>7
    <2>2. UNION {K(stack'[i]) : i \in J} = (UNION {K(stack[i]) : i \in I}) \cup K(rest)
      BY <1>7
    <2> QED
      BY <1>1, <1>5, <1>8, <1>9, <2>1, <2>2, NothingIn
  <1>11. Known' = Known
    <2>1. UNION {G(stack[i]) : i \in J} = (UNION {G(stack[i]) : i \in I}) \cup G(entries)
      BY <1>7
    <2>2. UNION {G(stack'[i]) : i \in J} = (UNION {G(stack[i]) : i \in I}) \cup G(rest)
      BY <1>7
    <2> QED
      BY <1>1, <1>5, <1>6, <1>8, <1>9, <2>1, <2>2
  <1> QED
    BY <1>2, <1>10, <1>11

\* Leaving a directory neither finds nor forgets anything.
LEMMA Left ==
    ASSUME PlanInv, LeaveDirectory
    PROVE  Type' = Type /\ Vol' = Vol /\ Pending' = Pending /\ Known' = Known
  <1> DEFINE n == Len(stack)
             K(x) == KidsOf(Vol, Type, x)
             G(x) == FoundAt(Vol, Type, x)
  <1>1. /\ pc = "walk" /\ stack # <<>> /\ Innermost = <<>> /\ stack' = Front(stack)
        /\ enter' = enter /\ objects' = objects /\ UNCHANGED <<dev, jobs>>
    BY DEF LeaveDirectory
  <1>2. Type' = Type /\ Vol' = Vol
    BY <1>1 DEF Type, Vol
  <1>3. stack \in Seq(Seq(AllEntries(Vol)))
    BY <1>1 DEF PlanInv, WalkOK
  <1>4. n \in Nat /\ n >= 1 /\ stack[n] = <<>> /\ Len(stack') = n - 1 /\ \A i \in 1..(n - 1) : stack'[i] = stack[i]
    BY <1>1, <1>3, Ends DEF Innermost
  <1>5. K(<<>>) = {} /\ G(<<>>) = {}
    BY NothingLive
  <1> HIDE DEF n, K, G
  <1> DEFINE I == 1..(n - 1)
             J == 1..n
  <1>6. J = I \cup {n} /\ (\A i \in I : stack'[i] = stack[i]) /\ stack[n] = <<>>
    BY <1>4
  <1>7. Pending = ToSet(enter) \cup UNION {K(stack[i]) : i \in J}
          /\ Known = FoundIn(objects) \cup UNION {G(stack[i]) : i \in J}
    BY DEF Pending, Known, K, G, n
  <1>8. Pending' = ToSet(enter) \cup UNION {K(stack'[i]) : i \in I}
          /\ Known' = FoundIn(objects) \cup UNION {G(stack'[i]) : i \in I}
    BY <1>1, <1>2, <1>4 DEF Pending, Known, K, G, n
  <1> HIDE DEF I, J
  <1>9. Pending' = Pending
    BY <1>5, <1>6, <1>7, <1>8
  <1>10. Known' = Known
    BY <1>5, <1>6, <1>7, <1>8
  <1> QED
    BY <1>2, <1>9, <1>10

\* A directory is passed over, read, or ends the walk.
EnteredAgain(d) ==
    /\ SeenBefore(d) /\ enter' = <<>>
    /\ UNCHANGED <<pc, jobs, stack, seen, objects, rc>>
EnteredNew(d) ==
    LET read == Entered(Vol, Type, d)
    IN  /\ ~SeenBefore(d) /\ read.ok /\ Len(stack) < MaxDepth
        /\ enter' = <<>> /\ stack' = Append(stack, read.entries)
        /\ seen' = (IF Type = "ext" THEN seen \cup {d} ELSE seen)
        /\ objects' = objects \o read.objects
        /\ UNCHANGED <<pc, jobs, rc>>

\* How a directory is entered: again, anew, not because it cannot be read, or one too deep.
LEMMA EnterCases ==
    ASSUME PlanInv, EnterDirectory
    PROVE  LET d == Head(enter)
           IN  /\ pc = "walk" /\ enter = <<d>> /\ d \in Directories(Vol, Type) /\ d \in Nat
               /\ UNCHANGED <<dev, mode, parts, work>>
               /\ Type \in Walked /\ IsVolume(Vol, Type)
               /\ \/ EnteredAgain(d) \/ EnteredNew(d)
                  \/ ScanFailed /\ ~SeenBefore(d) /\ ~Entered(Vol, Type, d).ok
                  \/ /\ pc' = "overflow" /\ ~SeenBefore(d) /\ Entered(Vol, Type, d).ok /\ Len(stack) = MaxDepth
                     /\ UNCHANGED <<jobs, walking, rc>>
  <1> DEFINE d == Head(enter)
  <1>1. pc = "walk" /\ enter # <<>> /\ UNCHANGED <<dev, mode, parts, work>>
    BY DEF EnterDirectory
  <1>2. enter \in Seq(Nat) /\ Len(enter) <= 1 /\ ToSet(enter) \subseteq Directories(Vol, Type)
    BY <1>1 DEF PlanInv, WalkOK
  <1>3. enter = <<d>> /\ d \in Nat
    <2>1. Len(enter) = 1 /\ d \in Nat /\ d = enter[1]
      <3>1. enter \in Seq(Nat) /\ Len(enter) <= 1 /\ enter # <<>>
        BY <1>1, <1>2
      <3>2. Len(enter) \in Nat /\ Len(enter) >= 1 /\ Head(enter) \in Nat /\ Head(enter) = enter[1]
        BY <3>1, Ends
      <3> DEFINE k == Len(enter)
      <3>3. k \in Nat /\ k >= 1 /\ k <= 1
        BY <3>1, <3>2
      <3> HIDE DEF k
      <3>4. k = 1
        BY <3>3
      <3> HIDE DEF d
      <3> QED
        BY <3>2, <3>4 DEF k, d
    <2>2. enter = [i \in 1..1 |-> enter[i]]
      BY <1>2, <2>1
    <2> HIDE DEF d
    <2> QED
      BY <2>1, <2>2
  <1>4. d \in Directories(Vol, Type)
    <2>1. ToSet(enter) = {d}
      BY <1>3, NothingIn
    <2> QED
      BY <1>2, <2>1
  <1>5. Type \in Walked /\ IsVolume(Vol, Type)
    BY <1>1, WalkFacts
  <1> HIDE DEF d
  <1>6. \/ EnteredAgain(d) \/ EnteredNew(d)
        \/ ScanFailed /\ ~SeenBefore(d) /\ ~Entered(Vol, Type, d).ok
        \/ /\ pc' = "overflow" /\ ~SeenBefore(d) /\ Entered(Vol, Type, d).ok /\ Len(stack) = MaxDepth
           /\ UNCHANGED <<jobs, walking, rc>>
    BY Zenon DEF EnterDirectory, EnteredAgain, EnteredNew, d
  <1> QED
    BY <1>1, <1>3, <1>4, <1>5, <1>6 DEF d

\* A directory that was entered before is not pending any more, and is known.
LEMMA PassedOver ==
    ASSUME PlanInv, EnterDirectory, EnteredAgain(Head(enter))
    PROVE  /\ Type' = Type /\ Vol' = Vol /\ Head(enter) \in seen
           /\ Pending = {Head(enter)} \cup Pending' /\ Known' = Known
  <1> DEFINE d == Head(enter)
  <1>1. enter = <<d>> /\ UNCHANGED <<dev, jobs, stack, objects>> /\ enter' = <<>> /\ d \in seen
    BY EnterCases DEF EnteredAgain, SeenBefore
  <1>2. Type' = Type /\ Vol' = Vol
    BY <1>1 DEF Type, Vol
  <1> HIDE DEF d
  <1>3. ToSet(enter) = {d} /\ ToSet(enter') = {}
    BY <1>1, NothingIn
  <1>4. Pending = {d} \cup Pending'
    BY <1>1, <1>2, <1>3 DEF Pending
  <1>5. Known' = Known
    BY <1>1, <1>2 DEF Known
  <1> QED
    BY <1>1, <1>2, <1>4, <1>5 DEF d

\* Entering a directory turns what was pending into what is known and what it leads to.
LEMMA WentIn ==
    ASSUME PlanInv, EnterDirectory, EnteredNew(Head(enter))
    PROVE  LET d == Head(enter)
           IN  /\ Type' = Type /\ Vol' = Vol
               /\ Pending \subseteq {d} \cup Pending'
               /\ Pending' \subseteq Pending \cup Below(Vol, Type, d)
               /\ Below(Vol, Type, d) \subseteq Pending'
               /\ Known' = Known \cup Own(Vol, Type, d)
  <1> DEFINE d == Head(enter)
             read == Entered(Vol, Type, d)
             n == Len(stack)
             K(x) == KidsOf(Vol, Type, x)
             G(x) == FoundAt(Vol, Type, x)
  <1>1. /\ enter = <<d>> /\ UNCHANGED <<dev, jobs>> /\ enter' = <<>> /\ stack' = Append(stack, read.entries)
        /\ objects' = objects \o read.objects /\ pc = "walk" /\ Type \in Walked /\ IsVolume(Vol, Type) /\ d \in Nat
    BY EnterCases DEF EnteredNew
  <1>2. Type' = Type /\ Vol' = Vol
    BY <1>1 DEF Type, Vol
  <1>3. read.objects \in Seq(Objects) /\ read.entries \in Seq(AllEntries(Vol))
    BY <1>1, EnteredType
  <1>4. stack \in Seq(Seq(AllEntries(Vol)))
    BY <1>1 DEF PlanInv, WalkOK
  <1>5. FoundIn(objects') = FoundIn(objects) \cup FoundIn(read.objects)
    BY <1>1, <1>3, FoundInBoth DEF PlanInv
  <1>6. K(read.entries) = Below(Vol, Type, d) /\ FoundIn(read.objects) \cup G(read.entries) = Own(Vol, Type, d)
    BY OwnAndBelow
  <1> HIDE DEF d, read, K, G
  <1>7. n \in Nat /\ Len(stack') = n + 1 /\ stack'[n + 1] = read.entries /\ \A i \in 1..n : stack'[i] = stack[i]
    <2> DEFINE A == Seq(AllEntries(Vol))
    <2>1. stack \in Seq(A) /\ read.entries \in A
      BY <1>3, <1>4
    <2> HIDE DEF A
    <2> QED
      BY <1>1, <2>1
  <1>8. ToSet(enter) = {d} /\ ToSet(enter') = {}
    BY <1>1, NothingIn
  <1> HIDE DEF n
  <1> DEFINE m == n + 1
             I == 1..n
             J == 1..m
  <1>9. J = I \cup {m} /\ (\A i \in I : stack'[i] = stack[i]) /\ stack'[m] = read.entries
    BY <1>7
  <1>10. Pending = {d} \cup UNION {K(stack[i]) : i \in I}
          /\ Known = FoundIn(objects) \cup UNION {G(stack[i]) : i \in I}
    BY <1>8 DEF Pending, Known, K, G, n
  <1>11. Pending' = UNION {K(stack'[i]) : i \in J}
          /\ Known' = FoundIn(objects') \cup UNION {G(stack'[i]) : i \in J}
    BY <1>2, <1>7, <1>8 DEF Pending, Known, K, G, n
  <1> HIDE DEF I, J, m
  <1>12. UNION {K(stack'[i]) : i \in J} = (UNION {K(stack[i]) : i \in I}) \cup K(read.entries)
    BY <1>9
  <1>13. UNION {G(stack'[i]) : i \in J} = (UNION {G(stack[i]) : i \in I}) \cup G(read.entries)
    BY <1>9
  <1>14. Known' = Known \cup Own(Vol, Type, d)
    BY <1>5, <1>6, <1>10, <1>11, <1>13
  <1>15. /\ Pending \subseteq {d} \cup Pending'
         /\ Pending' \subseteq Pending \cup Below(Vol, Type, d)
         /\ Below(Vol, Type, d) \subseteq Pending'
    BY <1>6, <1>10, <1>11, <1>12
  <1> QED
    BY <1>2, <1>14, <1>15 DEF d

-----------------------------------------------------------------------------
(* How deep a walk goes. *)

Rising(vol, type) ==
    {rank \in [Directories(vol, type) -> 1..MaxDepth] :
        \A x \in Directories(vol, type) : \A k \in Below(vol, type, x) : rank[x] < rank[k]}
Enterable(vol, type) == {x \in Directories(vol, type) : Entered(vol, type, x).ok}

\* Of FAT and exFAT, the further down a directory is the higher it ranks; of
\* ext, every directory on the stack has been entered for the first time.
DeepOK ==
    /\ Type \in FatTypes \cup {"exfat"} =>
          \A rank \in Rising(Vol, Type) :
             /\ \A d \in ToSet(enter) : rank[d] > Len(stack)
             /\ \A i \in 1..Len(stack) : \A k \in KidsOf(Vol, Type, stack[i]) : rank[k] > i
    /\ Type = "ext" =>
          seen \subseteq Enterable(Vol, Type) /\ IsFiniteSet(seen) /\ Len(stack) <= Cardinality(seen)

DepthInv ==
    /\ (pc = "walk" /\ "cycle" \notin dev.vols[Head(jobs)].quirks) => DeepOK
    /\ WalkEnds

\* A walk enters nothing but what some entry names.
LEMMA KidsAreDirectories ==
    ASSUME NEW vol, NEW type, type # "ntfs", NEW entries \in Seq(AllEntries(vol))
    PROVE  KidsOf(vol, type, entries) \subseteq Directories(vol, type)
  <1>1. Live(vol, type, entries) \subseteq AllEntries(vol)
    <2> DEFINE A == AllEntries(vol)
    <2>1. entries \in Seq(A)
      OBVIOUS
    <2> HIDE DEF A
    <2>2. \A i \in DOMAIN entries : entries[i] \in A
      BY <2>1
    <2> QED
      BY <2>2 DEF Live, LivePlaces, A
  <1> QED
    BY <1>1, TakenDirectories DEF KidsOf

\* The assumption on depth, for the volume that is walked.
LEMMA Shallow ==
    ASSUME PlanInv, pc = "walk", "cycle" \notin dev.vols[Head(jobs)].quirks
    PROVE  /\ Type \in FatTypes \cup {"exfat"} => Rising(Vol, Type) # {}
           /\ Type = "ext" => /\ IsFiniteSet(Enterable(Vol, Type))
                              /\ Cardinality(Enterable(Vol, Type)) <= MaxDepth
  <1>1. dev \in Devices /\ Head(jobs) \in DOMAIN dev.vols
    BY WalkFacts
  <1>2. /\ Type \in FatTypes \cup {"exfat"} =>
              \E rank \in [Directories(Vol, Type) -> 1..MaxDepth] :
                  \A x \in Directories(Vol, Type) : \A k \in Below(Vol, Type, x) : rank[x] < rank[k]
        /\ Type = "ext" => /\ IsFiniteSet(Directories(Vol, Type))
                           /\ Cardinality(Enterable(Vol, Type)) <= MaxDepth
    BY <1>1, DepthAssumption DEF Type, Vol, Enterable
  <1>3. Type = "ext" => IsFiniteSet(Enterable(Vol, Type))
    <2>1. Enterable(Vol, Type) \subseteq Directories(Vol, Type)
      BY DEF Enterable
    <2> QED
      BY <1>2, <2>1, FS_Subset
  <1> QED
    BY <1>2, <1>3 DEF Rising

LEMMA DepthInit == Init => DepthInv
  BY DEF Init, DepthInv, WalkEnds

LEMMA DepthNext == PlanInv /\ PlanInv' /\ DepthInv /\ [Next]_vars => DepthInv'
  <1> SUFFICES ASSUME PlanInv, PlanInv', DepthInv, [Next]_vars PROVE DepthInv'
    OBVIOUS
  <1> DEFINE Cycle == "cycle" \in dev.vols[Head(jobs)].quirks
  <1>1. CASE PlanLinear
    BY <1>1 DEF PlanLinear, DepthInv, WalkEnds, Bases
  <1>2. CASE PlanJobs
    BY <1>2 DEF PlanJobs, DepthInv, WalkEnds, Bases
  <1>3. CASE RewriteUnknown
    BY <1>3 DEF RewriteUnknown, DepthInv, WalkEnds, Bases
  <1>4. ASSUME ScanFailed PROVE DepthInv'
    BY <1>4 DEF ScanFailed, DepthInv, WalkEnds
  <1>5. CASE StartScan
    <2> DEFINE scan == scan_filesystem(Vol, Type)
    <2>1. AtRest /\ pc = "jobs" /\ dev' = dev
      BY <1>5 DEF StartScan, PlanInv
    <2>2. CASE ScanFailed
      BY <1>4, <2>2
    <2>3. CASE pc' = "crashed"
      BY <2>3 DEF DepthInv, WalkEnds
    <2>4. CASE pc' = "walk" /\ enter' = scan.enter /\ objects' = scan.objects /\ UNCHANGED <<jobs, stack, seen, rc>>
      <3>1. Type' = Type /\ Vol' = Vol
        BY <2>1, <2>4 DEF Type, Vol
      <3>2. Len(stack') = 0 /\ seen' = {} /\ stack' = <<>>
        BY <2>1, <2>4 DEF AtRest
      <3>3. \A rank \in Rising(Vol, Type), d \in ToSet(enter') : rank[d] > 0
        <4>1. ToSet(enter') \subseteq Directories(Vol, Type)
          BY <2>4, <3>1 DEF PlanInv, WalkOK
        <4> QED
          BY <4>1 DEF Rising
      <3>4. IsFiniteSet({}) /\ Cardinality({}) = 0
        BY FS_EmptySet
      <3>5. DeepOK'
        BY <3>1, <3>2, <3>3, <3>4 DEF DeepOK
      <3> QED
        BY <2>4, <3>5 DEF DepthInv, WalkEnds
    <2> QED
      BY <1>5, <2>2, <2>3, <2>4 DEF StartScan
  <1>6. CASE EnterDirectory
    <2> DEFINE d == Head(enter)
    <2>1. /\ pc = "walk" /\ enter = <<d>> /\ d \in Directories(Vol, Type) /\ dev' = dev
          /\ Type \in Walked /\ IsVolume(Vol, Type) /\ ToSet(enter) = {d} /\ ToSet(<<>>) = {}
      BY <1>6, EnterCases, NothingIn
    <2>2. MaxDepth \in Nat /\ Len(stack) \in Nat
      BY <2>1, DeviceIsOne DEF PlanInv, WalkOK
    <2> HIDE DEF d
    <2>3. CASE EnteredAgain(d)
      <3>1. Type' = Type /\ Vol' = Vol /\ UNCHANGED <<pc, jobs, stack, seen>> /\ enter' = <<>>
        BY <1>6, <2>3, PassedOver DEF EnteredAgain, d
      <3>2. DeepOK => DeepOK'
        BY <2>1, <3>1 DEF DeepOK
      <3> QED
        BY <2>1, <3>1, <3>2 DEF DepthInv, WalkEnds
    <2>4. CASE EnteredNew(d)
      <3> DEFINE read == Entered(Vol, Type, d)
                 n == Len(stack)
      <3>1. /\ Type' = Type /\ Vol' = Vol /\ UNCHANGED <<pc, jobs>> /\ enter' = <<>> /\ read.ok /\ ~SeenBefore(d)
            /\ stack' = Append(stack, read.entries)
            /\ seen' = (IF Type = "ext" THEN seen \cup {d} ELSE seen)
        BY <1>6, <2>4, WentIn DEF EnteredNew, d
      <3>2. /\ stack \in Seq(Seq(AllEntries(Vol))) /\ read.entries \in Seq(AllEntries(Vol))
        BY <2>1, <1>6, EnteredType, EnterCases DEF PlanInv, WalkOK, d
      <3>3. Len(stack') = n + 1 /\ stack'[n + 1] = read.entries /\ \A i \in 1..n : stack'[i] = stack[i]
        <4> DEFINE A == Seq(AllEntries(Vol))
        <4>1. stack \in Seq(A) /\ read.entries \in A
          BY <3>2
        <4> HIDE DEF A, read
        <4> QED
          BY <3>1, <4>1
      <3>4. KidsOf(Vol, Type, read.entries) = Below(Vol, Type, d)
        BY OwnAndBelow
      <3>5. Below(Vol, Type, d) \subseteq Directories(Vol, Type)
        <4>1. Type # "ntfs"
          BY <2>1 DEF Walked, FatTypes
        <4> QED
          BY <3>2, <3>4, <4>1, KidsAreDirectories
      <3> HIDE DEF read, n
      <3>6. ASSUME DeepOK, Type \in FatTypes \cup {"exfat"}, NEW rank \in Rising(Vol, Type)
            PROVE  \A i \in 1..Len(stack') : \A k \in KidsOf(Vol, Type, stack'[i]) : rank[k] > i
        <4>1. rank[d] > n /\ \A i \in 1..n : \A k \in KidsOf(Vol, Type, stack[i]) : rank[k] > i
          BY <2>1, <3>6 DEF DeepOK, n
        <4>2. \A k \in Below(Vol, Type, d) : rank[k] > rank[d] /\ rank[k] \in Nat /\ rank[d] \in Nat
          BY <2>1, <3>5, <3>6 DEF Rising
        <4>3. n \in Nat
          BY <2>2 DEF n
        <4>4. \A k \in Below(Vol, Type, d) : rank[k] > n + 1
          BY <4>1, <4>2, <4>3
        <4>5. \A i \in 1..Len(stack') : i \in 1..n \/ i = n + 1
          BY <3>3, <4>3
        <4> QED
          BY <3>3, <3>4, <4>1, <4>4, <4>5
      <3>7. ASSUME DeepOK, Type = "ext"
            PROVE  seen' \subseteq Enterable(Vol, Type) /\ IsFiniteSet(seen') /\ Len(stack') <= Cardinality(seen')
        <4>1. d \notin seen /\ seen' = seen \cup {d}
          BY <3>1, <3>7 DEF SeenBefore
        <4>2. seen \subseteq Enterable(Vol, Type) /\ IsFiniteSet(seen) /\ n <= Cardinality(seen)
          BY <3>7 DEF DeepOK, n
        <4>3. IsFiniteSet(seen') /\ Cardinality(seen') = Cardinality(seen) + 1 /\ Cardinality(seen) \in Nat
          BY <4>1, <4>2, FS_AddElement, FS_CardinalityType
        <4>4. d \in Enterable(Vol, Type)
          BY <2>1, <3>1 DEF Enterable, read
        <4>5. n \in Nat
          BY <2>2 DEF n
        <4>6. Len(stack') <= Cardinality(seen')
          BY <3>3, <4>2, <4>3, <4>5
        <4> QED
          BY <4>1, <4>2, <4>3, <4>4, <4>6
      <3>8. DeepOK => DeepOK'
        <4>1. ToSet(enter') = {}
          BY <2>1, <3>1
        <4> QED
          BY <3>1, <3>6, <3>7, <4>1 DEF DeepOK
      <3> QED
        BY <2>1, <3>1, <3>8 DEF DepthInv, WalkEnds
    <2>5. CASE ScanFailed
      BY <1>4, <2>5
    <2>6. CASE pc' = "overflow" /\ ~SeenBefore(d) /\ Entered(Vol, Type, d).ok /\ Len(stack) = MaxDepth
      <3>1. ASSUME ~Cycle PROVE FALSE
        <4>1. DeepOK
          BY <2>1, <3>1 DEF DepthInv
        <4>2. CASE Type \in FatTypes \cup {"exfat"}
          <5>1. PICK rank \in Rising(Vol, Type) : TRUE
            BY <2>1, <3>1, <4>2, Shallow
          <5>2. rank[d] > MaxDepth
            BY <2>1, <2>6, <4>1, <4>2 DEF DeepOK
          <5>3. rank[d] \in 1..MaxDepth
            BY <2>1 DEF Rising
          <5> QED
            BY <2>2, <5>2, <5>3
        <4>3. CASE Type = "ext"
          <5>1. d \notin seen /\ d \in Enterable(Vol, Type)
            BY <2>1, <2>6, <4>3 DEF SeenBefore, Enterable
          <5>2. seen \cup {d} \subseteq Enterable(Vol, Type) /\ IsFiniteSet(seen) /\ MaxDepth <= Cardinality(seen)
            BY <2>6, <4>1, <4>3, <5>1 DEF DeepOK
          <5>3. Cardinality(seen \cup {d}) = Cardinality(seen) + 1 /\ Cardinality(seen) \in Nat
            BY <5>1, <5>2, FS_AddElement, FS_CardinalityType
          <5>4. IsFiniteSet(Enterable(Vol, Type)) /\ Cardinality(Enterable(Vol, Type)) <= MaxDepth
            BY <2>1, <3>1, <4>3, Shallow
          <5>5. Cardinality(seen \cup {d}) <= Cardinality(Enterable(Vol, Type))
                  /\ Cardinality(Enterable(Vol, Type)) \in Nat
            BY <5>2, <5>4, FS_Subset, FS_CardinalityType
          <5> QED
            BY <2>2, <5>2, <5>3, <5>4, <5>5
        <4> QED
          BY <2>1, <4>2, <4>3 DEF Walked
      <3>2. Head(jobs) \in DOMAIN dev.vols
        BY <2>1, WalkFacts
      <3> QED
        BY <2>1, <2>6, <3>1, <3>2 DEF DepthInv, WalkEnds, Bases
    <2> QED
      BY <1>6, <2>3, <2>4, <2>5, <2>6, EnterCases DEF d
  <1>7. CASE TakeEntry
    <2> DEFINE entries == Innermost
               taken == Taken(Vol, Type, Head(entries))
               rest == IF taken.stop THEN <<>> ELSE Tail(entries)
               n == Len(stack)
    <2>1. /\ pc = "walk" /\ stack # <<>> /\ entries # <<>> /\ enter = <<>>
          /\ enter' = taken.enter /\ stack' = Append(Front(stack), rest) /\ UNCHANGED <<dev, pc, jobs, seen>>
      BY <1>7 DEF TakeEntry
    <2>2. Type' = Type /\ Vol' = Vol /\ Type \in Walked /\ IsVolume(Vol, Type)
      BY <1>7, <2>1, Took, WalkFacts
    <2>3. /\ entries = stack[n] /\ entries \in Seq(AllEntries(Vol))
          /\ n \in Nat /\ n >= 1 /\ Len(stack') = n /\ stack'[n] = rest
          /\ \A i \in 1..(n - 1) : stack'[i] = stack[i]
      BY <2>1, TakeFacts
    <2>4. KidsOf(Vol, Type, entries) = ToSet(taken.enter) \cup KidsOf(Vol, Type, rest)
      <3>1. entries \in Seq(AllEntries(Vol)) /\ entries # <<>>
        BY <2>1, <2>3
      <3> HIDE DEF entries
      <3> QED
        BY <2>2, <3>1, OneTaken
    <2> HIDE DEF entries, taken, rest, n
    <2>5. ASSUME DeepOK, Type \in FatTypes \cup {"exfat"}, NEW rank \in Rising(Vol, Type)
          PROVE  /\ \A x \in ToSet(enter') : rank[x] > n
                 /\ \A i \in 1..n : \A k \in KidsOf(Vol, Type, stack'[i]) : rank[k] > i
      <3>1. \A i \in 1..n : \A k \in KidsOf(Vol, Type, stack[i]) : rank[k] > i
        BY <2>5 DEF DeepOK, n
      <3>2. n \in 1..n /\ \A i \in 1..n : i \in 1..(n - 1) \/ i = n
        BY <2>3
      <3> QED
        BY <2>1, <2>3, <2>4, <3>1, <3>2
    <2>6. DeepOK => DeepOK'
      BY <2>1, <2>2, <2>3, <2>5 DEF DeepOK, n
    <2> QED
      BY <2>1, <2>6 DEF DepthInv, WalkEnds
  <1>8. CASE LeaveDirectory
    <2>1. /\ pc = "walk" /\ stack # <<>> /\ stack' = Front(stack) /\ UNCHANGED <<dev, pc, jobs, enter, seen>>
          /\ enter = <<>>
      BY <1>8 DEF LeaveDirectory
    <2>2. Type' = Type /\ Vol' = Vol
      BY <1>8, Left
    <2>3. stack \in Seq(Seq(AllEntries(Vol)))
      BY <2>1 DEF PlanInv, WalkOK
    <2>4. /\ Len(stack) \in Nat /\ Len(stack) >= 1 /\ Len(stack') = Len(stack) - 1
          /\ \A i \in 1..(Len(stack) - 1) : stack'[i] = stack[i]
      BY <2>1, <2>3, Ends
    <2>5. ToSet(enter') = {} /\ \A i \in 1..(Len(stack) - 1) : i \in 1..Len(stack)
      BY <2>1, <2>4, NothingIn
    <2>6. DeepOK => (Type = "ext" => Len(stack') <= Cardinality(seen))
      <3>1. DeepOK /\ Type = "ext" => Cardinality(seen) \in Nat /\ Len(stack) <= Cardinality(seen)
        BY FS_CardinalityType DEF DeepOK
      <3> QED
        BY <2>4, <3>1
    <2>7. DeepOK => DeepOK'
      BY <2>1, <2>2, <2>4, <2>5, <2>6 DEF DeepOK
    <2> QED
      BY <2>1, <2>7 DEF DepthInv, WalkEnds
  <1>9. CASE FinishScan
    BY <1>9 DEF FinishScan, DepthInv, WalkEnds
  <1>10. CASE PlanDone
    BY <1>10 DEF PlanDone, DepthInv, WalkEnds
  <1>11. CASE UNCHANGED vars
    <2>1. Type' = Type /\ Vol' = Vol
      BY <1>11 DEF Type, Vol, vars
    <2>2. DeepOK' = DeepOK
      BY <1>11, <2>1 DEF DeepOK, vars, walking
    <2> QED
      BY <1>11, <2>2 DEF DepthInv, WalkEnds, Bases, vars
  <1> QED
    BY <1>1, <1>2, <1>3, <1>5, <1>6, <1>7, <1>8, <1>9, <1>10, <1>11 DEF Next

LEMMA Depth == Spec => []DepthInv
  <1>1. PlanInv /\ PlanInv' /\ DepthInv /\ [Next]_vars => DepthInv'
    BY DepthNext
  <1> QED
    BY <1>1, DepthInit, Planning, PTL DEF Spec

\* The stack holds the deepest path of any device whose directories do not
\* lead back to themselves: no FAT chain and, of ext, no cycle of directories
\* makes the walk go deeper (fat.cpp:85, exfat.cpp:86, ext.cpp:214).
THEOREM RecursionEnds == Spec => []WalkEnds
  <1>1. DepthInv => WalkEnds
    BY DEF DepthInv
  <1> QED
    BY <1>1, Depth, PTL

-----------------------------------------------------------------------------
(* Every file is planned. *)

Files(b) == dev.vols[b].files
Exact(b) == Without(dev, Missed, b)
Healthy(b) == Without(dev, Missed \cup {"special"}, b) /\ Volume(dev, b).bad = {}

\* What is found already, together with what directories S name that hold all
\* the walk is still to enter, is what some readable tree of the volume names.
Searching ==
    \A S \in SUBSET Directories(Vol, Type) :
        (/\ Readable(Vol, Type, S)
         /\ Pending \subseteq S \cup seen
         /\ \A x \in S \ seen : Below(Vol, Type, x) \subseteq S \cup seen)
        => \E R \in SUBSET Directories(Vol, Type) :
                /\ IsTree(Vol, Type, R) /\ Readable(Vol, Type, R)
                /\ FoundOf(Vol, Type, R) \subseteq Known \cup UNION {Own(Vol, Type, x) : x \in S \ seen}

\* All that the walk is still to enter can be read.
Sure ==
    \E S \in SUBSET Directories(Vol, Type) :
        /\ Readable(Vol, Type, S) /\ Pending \subseteq S
        /\ \A x \in S : Below(Vol, Type, x) \subseteq S

Scanned(s) == scan_filesystem(Volume(dev, s), detect_fs(dev, s)).outcome = "ok"

\* A base that no longer waits: planned whole, or a tree of its volume is.
Settled(s) ==
    IF detect_fs(dev, s) = "unknown" THEN Room(dev, s) \subseteq Covered(work)
    ELSE Healthy(s) \/ rc = 0 => Scanned(s) /\ TreePlanned(s)

AllPlanned == \A s \in StartsOf(dev) : s \in ToSet(jobs) \/ Settled(s)

CoverInv ==
    /\ (pc # "probe" /\ mode = "recursive") => parts = probe_partitions(dev).parts
    /\ (pc \in {"jobs", "walk", "planned"} /\ mode = "recursive") => AllPlanned
    /\ (pc = "planned" /\ mode = "recursive") => jobs = <<>>
    /\ pc \in {"jobs", "walk"} => mode = "recursive"
    /\ pc = "walk" => Scanned(Head(jobs)) /\ Searching /\ (Healthy(Head(jobs)) => Sure)
    /\ mode = "linear" => SuccessMeansCovered

\* A volume that can be scanned with success is one whose files are all found.
LEMMA HealthyIsExact == \A b : Healthy(b) => Exact(b)
  BY DEF Healthy, Exact, Without

\* What the assumption on whole volumes says of the one at the head of jobs.
LEMMA WholeScan ==
    ASSUME dev \in Devices, Head(jobs) \in DOMAIN dev.vols, Type # "unknown"
    PROVE  Healthy(Head(jobs)) =>
                /\ scan_filesystem(Vol, Type).outcome = "ok"
                /\ \E S \in SUBSET Directories(Vol, Type) : IsTree(Vol, Type, S) /\ Readable(Vol, Type, S)
  BY WholeVolumesAssumption DEF Type, Vol, Healthy

\* Nothing that is planned is taken back: bases stay settled.
LEMMA StaySettled ==
    ASSUME dev' = dev, rc' \in {rc, 1}, Covered(work) \subseteq Covered(work'), NEW s, Settled(s)
    PROVE  Settled(s)'
  <1>1. Healthy(s)' = Healthy(s) /\ Scanned(s)' = Scanned(s)
    BY DEF Healthy, Scanned
  <1>2. rc' = 0 => rc = 0
    OBVIOUS
  <1>3. TreePlanned(s) => TreePlanned(s)'
    BY DEF TreePlanned
  <1> QED
    BY <1>1, <1>2, <1>3 DEF Settled

\* A volume that waits is the next one or still waits after it.
LEMMA NextJob ==
    ASSUME NEW s \in ToSet(jobs), jobs \in Seq(Nat), jobs # <<>>
    PROVE  s = Head(jobs) \/ s \in ToSet(Tail(jobs))
  <1>1. PICK i \in DOMAIN jobs : s = jobs[i]
    BY DEF ToSet
  <1>2. i \in 1..Len(jobs) /\ Len(jobs) \in Nat /\ Head(jobs) = jobs[1]
    OBVIOUS
  <1>3. CASE i = 1
    BY <1>1, <1>2, <1>3
  <1>4. CASE i # 1
    <2>1. i - 1 \in DOMAIN Tail(jobs) /\ Tail(jobs)[i - 1] = jobs[i]
      BY <1>2, <1>4
    <2> QED
      BY <1>1, <2>1 DEF ToSet
  <1> QED
    BY <1>3, <1>4

\* A job is done: the rest is planned if its own base is.
LEMMA OneMoreSettled ==
    ASSUME PlanInv, AllPlanned, dev' = dev, jobs # <<>>, jobs' = Tail(jobs), rc' \in {rc, 1},
           Covered(work) \subseteq Covered(work'), NEW h, h = Head(jobs), Settled(h)'
    PROVE  AllPlanned'
  <1>1. StartsOf(dev') = StartsOf(dev)
    OBVIOUS
  <1>2. ASSUME NEW s \in StartsOf(dev) PROVE s \in ToSet(Tail(jobs)) \/ Settled(s)'
    <2>1. s \in ToSet(jobs) \/ Settled(s)
      BY DEF AllPlanned
    <2>2. Settled(s) => Settled(s)'
      BY StaySettled
    <2>3. s \in ToSet(jobs) => s = Head(jobs) \/ s \in ToSet(Tail(jobs))
      BY NextJob DEF PlanInv
    <2> QED
      BY <2>1, <2>2, <2>3
  <1> QED
    BY <1>1, <1>2 DEF AllPlanned

LEMMA CoverInit == Init => CoverInv
  BY DEF Init, CoverInv, SuccessMeansCovered

\* Linear mode: whatever has a volume lies in the table and its partitions.
LEMMA LinearCovers == PlanInv /\ PlanLinear => SuccessMeansCovered'
  <1> SUFFICES ASSUME PlanInv, PlanLinear PROVE SuccessMeansCovered'
    OBVIOUS
  <1> SUFFICES ASSUME rc' = 0, NEW b \in DOMAIN dev.vols, Without(dev, Missed, b)
               PROVE  At(b, dev.vols[b].files) \subseteq Covered(work')
    <2>1. dev' = dev
      BY DEF PlanLinear
    <2> QED
      BY <2>1 DEF SuccessMeansCovered, Bases
  <1> DEFINE pm == probe_partitions(dev)
  <1>1. pm.ok /\ work' = IF HasTable(pm) THEN <<TableRange(pm)>> \o pm.parts ELSE <<WholeDevice>>
    BY DEF PlanLinear
  <1>2. Without(dev, {"table"}, b)
    BY DEF Without, Missed
  <1>3. /\ At(b, dev.vols[b].files) \subseteq UnitsOf(Extent(0, dev.size))
        /\ pm.ok /\ HasTable(pm) => At(b, dev.vols[b].files) \subseteq Covered(<<TableRange(pm)>> \o pm.parts)
    BY <1>2, TablesAssumption DEF PlanInv
  <1>4. Covered(<<WholeDevice>>) = UnitsOf(Extent(0, dev.size))
    BY DEF Covered, WholeDevice
  <1> HIDE DEF pm
  <1> QED
    BY <1>1, <1>3, <1>4

\* Every step keeps what the plan covers: no file is lost between what is known, pending and planned.
LEMMA CoverNext == PlanInv /\ PlanInv' /\ CoverInv /\ [Next]_vars => CoverInv'
  <1> SUFFICES ASSUME PlanInv, PlanInv', CoverInv, [Next]_vars PROVE CoverInv'
    OBVIOUS
  <1> DEFINE pm == probe_partitions(dev)
  <1> PICK h : h = Head(jobs)
    OBVIOUS
  <1>1. CASE PlanLinear
    <2>1. pc' = "planned" /\ mode = "linear" /\ UNCHANGED <<dev, mode>>
      BY <1>1 DEF PlanLinear
    <2>2. SuccessMeansCovered'
      BY <1>1, LinearCovers
    <2> QED
      BY <2>1, <2>2 DEF CoverInv
  <1>2. CASE PlanJobs
    <2>1. /\ pc' = "jobs" /\ mode = "recursive" /\ UNCHANGED <<dev, mode>> /\ parts' = pm.parts
          /\ jobs' = IF HasTable(pm) THEN [i \in DOMAIN pm.parts |-> pm.parts[i].off] ELSE <<0>>
      BY <1>2 DEF PlanJobs
    <2>2. ToSet(jobs') = StartsOf(dev)
      BY <1>2, FirstJobs
    <2>3. AllPlanned'
      BY <2>1, <2>2 DEF AllPlanned
    <2> QED
      BY <2>1, <2>3 DEF CoverInv
  <1>3. CASE RewriteUnknown
    <2> DEFINE e == Extent(h, LinearLength(dev, parts, h))
    <2>1. /\ pc = "jobs" /\ jobs # <<>> /\ Type = "unknown" /\ work' = Append(work, e) /\ jobs' = Tail(jobs)
          /\ UNCHANGED <<dev, mode, pc, parts, rc>>
      BY <1>3 DEF RewriteUnknown
    <2>2. mode = "recursive" /\ parts = pm.parts /\ AllPlanned
      BY <2>1 DEF CoverInv
    <2>3. h \in Nat /\ dev.size \in Nat /\ parts \in Seq(Ranges) /\ work \in Seq(Ranges)
      <3>1. jobs \in Seq(Nat) /\ jobs # <<>> /\ dev \in Devices /\ parts \in Seq(Ranges) /\ work \in Seq(Ranges)
        BY <2>1 DEF PlanInv
      <3> QED
        BY <3>1, DeviceIsOne, Ends
    <2>4. e \in Ranges
      BY <2>3, LinearLengthType, ExtentInRanges
    <2>5. UnitsOf(e) = Room(dev, h)
      BY <2>2 DEF Room
    <2> HIDE DEF e
    <2>6. Covered(work') = Covered(work) \cup UnitsOf(e)
      BY <2>1, <2>3, <2>4, AppendCovers
    <2>7. Settled(h)'
      BY <2>1, <2>5, <2>6 DEF Settled, Type
    <2>8. AllPlanned'
      BY <2>1, <2>2, <2>6, <2>7, OneMoreSettled
    <2> QED
      BY <2>1, <2>2, <2>8 DEF CoverInv
  <1>4. ASSUME ScanFailed, UNCHANGED <<dev, mode, parts, work>>, pc \in {"jobs", "walk"}, Type # "unknown",
               ~Healthy(h), jobs # <<>>
        PROVE  CoverInv'
    <2>1. pc' = "jobs" /\ rc' = 1 /\ jobs' = Tail(jobs)
      BY <1>4 DEF ScanFailed
    <2>2. mode = "recursive" /\ parts = pm.parts /\ AllPlanned
      BY <1>4 DEF CoverInv
    <2>3. Settled(h)'
      BY <1>4, <2>1 DEF Settled, Type, Healthy
    <2>4. AllPlanned'
      BY <1>4, <2>1, <2>2, <2>3, OneMoreSettled
    <2> QED
      BY <1>4, <2>1, <2>2, <2>4 DEF CoverInv
  <1>5. CASE StartScan
    <2> DEFINE scan == scan_filesystem(Vol, Type)
    <2>1. /\ pc = "jobs" /\ jobs # <<>> /\ Type # "unknown" /\ UNCHANGED <<dev, mode, parts, work>> /\ AtRest
          /\ mode = "recursive" /\ parts = pm.parts /\ AllPlanned /\ dev \in Devices
      BY <1>5 DEF StartScan, CoverInv, PlanInv
    <2>2. h \in DOMAIN dev.vols
      BY <2>1, Detected DEF Type
    <2>3. Healthy(h) =>
               /\ scan.outcome = "ok"
               /\ \E S \in SUBSET Directories(Vol, Type) : IsTree(Vol, Type, S) /\ Readable(Vol, Type, S)
      BY <2>1, <2>2, WholeScan
    <2>4. CASE scan.outcome = "failed" /\ ScanFailed
      BY <1>4, <2>1, <2>3, <2>4
    <2>5. CASE pc' = "crashed" /\ UNCHANGED <<jobs, walking, rc>>
      BY <2>1, <2>5 DEF CoverInv
    <2>6. CASE /\ scan.outcome = "ok" /\ pc' = "walk" /\ enter' = scan.enter /\ objects' = scan.objects
               /\ UNCHANGED <<jobs, stack, seen, rc>>
      <3>1. Type' = Type /\ Vol' = Vol /\ Head(jobs') = h /\ Scanned(h)'
        BY <2>1, <2>6 DEF Type, Vol, Scanned
      <3>2. Pending' = ToSet(scan.enter) /\ Known' = FoundIn(scan.objects) /\ seen' = {}
        <4>1. 1..Len(stack') = {}
          BY <2>1, <2>6 DEF AtRest
        <4>2. seen' = {}
          BY <2>1, <2>6 DEF AtRest
        <4> QED
          BY <2>6, <4>1, <4>2 DEF Pending, Known
      <3> HIDE DEF scan
      <3>3. Searching'
        <4> SUFFICES ASSUME NEW S \in SUBSET Directories(Vol, Type),
                            Readable(Vol, Type, S), Pending' \subseteq S,
                            \A x \in S : Below(Vol, Type, x) \subseteq S
                     PROVE  \E R \in SUBSET Directories(Vol, Type) :
                               /\ IsTree(Vol, Type, R) /\ Readable(Vol, Type, R)
                               /\ FoundOf(Vol, Type, R) \subseteq Known' \cup UNION {Own(Vol, Type, x) : x \in S}
          BY <3>1, <3>2 DEF Searching
        <4>1. IsTree(Vol, Type, S)
          BY <3>2 DEF IsTree, scan
        <4>2. FoundOf(Vol, Type, S) \subseteq Known' \cup UNION {Own(Vol, Type, x) : x \in S}
          BY <3>2 DEF FoundOf, scan
        <4> QED
          BY <4>1, <4>2
      <3>4. Healthy(h) => Sure'
        <4> SUFFICES ASSUME Healthy(h) PROVE Sure'
          OBVIOUS
        <4>1. PICK S \in SUBSET Directories(Vol, Type) : IsTree(Vol, Type, S) /\ Readable(Vol, Type, S)
          BY <2>3
        <4>2. ToSet(scan.enter) \subseteq S /\ \A x \in S : Below(Vol, Type, x) \subseteq S
          BY <4>1 DEF IsTree, scan
        <4> QED
          BY <3>1, <3>2, <4>1, <4>2 DEF Sure
      <3>5. AllPlanned'
        BY <2>1, <2>6 DEF AllPlanned, Settled, Healthy, Scanned, TreePlanned
      <3>6. Healthy(h)' = Healthy(h)
        BY <2>1 DEF Healthy
      <3> QED
        BY <2>1, <2>6, <3>1, <3>3, <3>4, <3>5, <3>6 DEF CoverInv
    <2> QED
      BY <1>5, <2>4, <2>5, <2>6 DEF StartScan
  <1>6. CASE EnterDirectory
    <2> PICK d : d = Head(enter)
      OBVIOUS
    <2>1. /\ pc = "walk" /\ enter = <<d>> /\ d \in Directories(Vol, Type) /\ UNCHANGED <<dev, mode, parts, work>>
          /\ Type \in Walked /\ ToSet(enter) = {d}
      BY <1>6, EnterCases, NothingIn
    <2>2. jobs # <<>> /\ Type # "unknown" /\ h \in DOMAIN dev.vols
      BY <2>1, WalkFacts
    <2>3. mode = "recursive" /\ parts = pm.parts /\ AllPlanned /\ Scanned(h) /\ Searching /\ (Healthy(h) => Sure)
      BY <2>1 DEF CoverInv
    <2>4. d \in Pending
      BY <2>1 DEF Pending
    <2>5. ASSUME UNCHANGED <<pc, jobs, rc>>, Searching => Searching', Sure => Sure'
          PROVE  CoverInv'
      <3>1. AllPlanned'
        BY <2>1, <2>3, <2>5 DEF AllPlanned, Settled, Healthy, Scanned, TreePlanned
      <3>2. Healthy(h)' = Healthy(h) /\ Head(jobs') = h /\ Scanned(h)' = Scanned(h)
        BY <2>1, <2>5 DEF Healthy, Scanned
      <3> QED
        BY <2>1, <2>3, <2>5, <3>1, <3>2 DEF CoverInv
    <2>6. CASE EnteredAgain(d)
      <3>1. /\ UNCHANGED <<pc, jobs, seen, rc>> /\ Type' = Type /\ Vol' = Vol /\ d \in seen
            /\ Pending = {d} \cup Pending' /\ Known' = Known
        BY <1>6, <2>1, <2>6, PassedOver DEF EnteredAgain
      <3>2. Searching => Searching'
        <4> SUFFICES ASSUME Searching, NEW S \in SUBSET Directories(Vol, Type), Readable(Vol, Type, S),
                            Pending' \subseteq S \cup seen,
                            \A x \in S \ seen : Below(Vol, Type, x) \subseteq S \cup seen
                     PROVE  \E R \in SUBSET Directories(Vol, Type) :
                               /\ IsTree(Vol, Type, R) /\ Readable(Vol, Type, R)
                               /\ FoundOf(Vol, Type, R) \subseteq Known \cup UNION {Own(Vol, Type, x) : x \in S \ seen}
          BY <3>1 DEF Searching
        <4>1. Pending \subseteq S \cup seen
          BY <3>1
        <4> QED
          BY <4>1 DEF Searching
      <3>3. Sure => Sure'
        BY <3>1 DEF Sure
      <3> QED
        BY <2>5, <3>1, <3>2, <3>3
    <2>7. CASE EnteredNew(d)
      <3>1. /\ UNCHANGED <<pc, jobs, rc>> /\ Type' = Type /\ Vol' = Vol /\ Entered(Vol, Type, d).ok
            /\ seen' = (IF Type = "ext" THEN seen \cup {d} ELSE seen)
            /\ Pending \subseteq {d} \cup Pending' /\ Pending' \subseteq Pending \cup Below(Vol, Type, d)
            /\ Below(Vol, Type, d) \subseteq Pending' /\ Known' = Known \cup Own(Vol, Type, d)
        BY <1>6, <2>7, WentIn DEF EnteredNew
      <3>2. Searching => Searching'
        <4> SUFFICES ASSUME Searching, NEW S \in SUBSET Directories(Vol, Type), Readable(Vol, Type, S),
                            Pending' \subseteq S \cup seen',
                            \A x \in S \ seen' : Below(Vol, Type, x) \subseteq S \cup seen'
                     PROVE  \E R \in SUBSET Directories(Vol, Type) :
                               /\ IsTree(Vol, Type, R) /\ Readable(Vol, Type, R)
                               /\ FoundOf(Vol, Type, R) \subseteq Known' \cup UNION {Own(Vol, Type, x) : x \in S \ seen'}
          BY <3>1 DEF Searching
        <4> DEFINE W == S \cup {d}
        <4>1. W \in SUBSET Directories(Vol, Type) /\ Readable(Vol, Type, W)
          BY <2>1, <3>1 DEF Readable
        <4>2. S \cup seen' \subseteq W \cup seen /\ W \ seen \subseteq {d} \cup (S \ seen')
          BY <3>1
        <4>3. Pending \subseteq W \cup seen
          BY <3>1, <4>2
        <4>4. \A x \in W \ seen : Below(Vol, Type, x) \subseteq W \cup seen
          BY <3>1, <4>2
        <4>5. PICK R \in SUBSET Directories(Vol, Type) :
                 /\ IsTree(Vol, Type, R) /\ Readable(Vol, Type, R)
                 /\ FoundOf(Vol, Type, R) \subseteq Known \cup UNION {Own(Vol, Type, x) : x \in W \ seen}
          <5> HIDE DEF W
          <5> QED
            BY <4>1, <4>3, <4>4 DEF Searching
        <4>6. UNION {Own(Vol, Type, x) : x \in W \ seen}
                \subseteq Own(Vol, Type, d) \cup UNION {Own(Vol, Type, x) : x \in S \ seen'}
          BY <4>2
        <4>7. FoundOf(Vol, Type, R) \subseteq Known' \cup UNION {Own(Vol, Type, x) : x \in S \ seen'}
          BY <3>1, <4>5, <4>6
        <4> QED
          BY <4>5, <4>7
      <3>3. Sure => Sure'
        <4> SUFFICES ASSUME Sure PROVE Sure'
          OBVIOUS
        <4>1. PICK S \in SUBSET Directories(Vol, Type) :
                 /\ Readable(Vol, Type, S) /\ Pending \subseteq S
                 /\ \A x \in S : Below(Vol, Type, x) \subseteq S
          BY DEF Sure
        <4>2. Pending' \subseteq S
          BY <2>4, <3>1, <4>1
        <4> QED
          BY <3>1, <4>1, <4>2 DEF Sure
      <3> QED
        BY <2>5, <3>1, <3>2, <3>3
    <2>8. CASE ScanFailed /\ ~SeenBefore(d) /\ ~Entered(Vol, Type, d).ok
      <3>1. ~Healthy(h)
        BY <2>3, <2>4, <2>8 DEF Sure, Readable
      <3> QED
        BY <1>4, <2>1, <2>2, <2>8, <3>1
    <2>9. CASE pc' = "overflow"
      BY <2>1, <2>3, <2>9 DEF CoverInv
    <2> QED
      BY <1>6, <2>6, <2>7, <2>8, <2>9, EnterCases
  <1>7. ASSUME UNCHANGED <<dev, mode, pc, parts, jobs, seen, work, rc>>, Type' = Type, Vol' = Vol,
               Pending' = Pending, Known' = Known
        PROVE  CoverInv'
    <2>1. Searching' = Searching /\ Sure' = Sure
      BY <1>7 DEF Searching, Sure
    <2>2. AllPlanned' = AllPlanned
      BY <1>7 DEF AllPlanned, Settled, Healthy, Scanned, TreePlanned
    <2>3. SuccessMeansCovered' = SuccessMeansCovered
      BY <1>7 DEF SuccessMeansCovered, Bases
    <2>4. Healthy(h)' = Healthy(h) /\ Scanned(h)' = Scanned(h)
      BY <1>7 DEF Healthy, Scanned
    <2> QED
      BY <1>7, <2>1, <2>2, <2>3, <2>4 DEF CoverInv
  <1>8. CASE TakeEntry
    BY <1>7, <1>8, Took DEF TakeEntry
  <1>9. CASE LeaveDirectory
    BY <1>7, <1>9, Left DEF LeaveDirectory
  <1>10. CASE FinishScan
    <2>1. /\ pc = "walk" /\ enter = <<>> /\ stack = <<>> /\ work' = AddRanges(work, h, objects)
          /\ jobs' = Tail(jobs) /\ pc' = "jobs" /\ UNCHANGED <<dev, mode, parts, rc>>
      BY <1>10 DEF FinishScan
    <2>2. jobs # <<>> /\ h \in Nat /\ Type # "unknown"
      BY <2>1, WalkFacts
    <2>3. mode = "recursive" /\ parts = pm.parts /\ AllPlanned /\ Scanned(h) /\ Searching
      BY <2>1 DEF CoverInv
    <2>4. Covered(work') = Covered(work) \cup At(h, FoundIn(objects))
      <3>1. work \in Seq(Ranges) /\ objects \in Seq(Objects)
        BY DEF PlanInv
      <3> QED
        BY <2>1, <2>2, <3>1, AddRangesCovers
    <2>5. PICK R \in SUBSET Directories(Vol, Type) :
             /\ IsTree(Vol, Type, R) /\ Readable(Vol, Type, R)
             /\ FoundOf(Vol, Type, R) \subseteq FoundIn(objects)
      <3>1. 1..Len(stack) = {}
        BY <2>1
      <3>2. Pending = {} /\ Known = FoundIn(objects)
        BY <2>1, <3>1, NothingIn DEF Pending, Known
      <3>3. {} \in SUBSET Directories(Vol, Type) /\ Readable(Vol, Type, {})
        BY DEF Readable
      <3>4. Searching =>
              \E R \in SUBSET Directories(Vol, Type) :
                 /\ IsTree(Vol, Type, R) /\ Readable(Vol, Type, R)
                 /\ FoundOf(Vol, Type, R) \subseteq Known \cup UNION {Own(Vol, Type, x) : x \in {} \ seen}
        BY <3>2, <3>3 DEF Searching
      <3> QED
        BY <2>3, <3>2, <3>4
    <2>6. At(h, FoundOf(Vol, Type, R)) \subseteq Covered(work')
      BY <2>4, <2>5 DEF At
    <2>7. Settled(h)'
      <3>1. TreePlanned(h)'
        BY <2>1, <2>5, <2>6 DEF TreePlanned, Type, Vol
      <3>2. Scanned(h)' /\ detect_fs(dev', h) # "unknown"
        BY <2>1, <2>2, <2>3 DEF Scanned, Type
      <3> QED
        BY <3>1, <3>2 DEF Settled
    <2>8. AllPlanned'
      BY <2>1, <2>2, <2>3, <2>4, <2>7, OneMoreSettled
    <2> QED
      BY <2>1, <2>3, <2>8 DEF CoverInv
  <1>11. CASE PlanDone
    <2>1. /\ pc = "jobs" /\ jobs = <<>> /\ pc' = "planned"
          /\ UNCHANGED <<dev, mode, parts, jobs, work, rc>>
      BY <1>11 DEF PlanDone
    <2>2. mode = "recursive" /\ parts = pm.parts /\ AllPlanned
      BY <2>1 DEF CoverInv
    <2>3. AllPlanned' = AllPlanned
      BY <2>1 DEF AllPlanned, Settled, Healthy, Scanned, TreePlanned
    <2> QED
      BY <2>1, <2>2, <2>3 DEF CoverInv
  <1>12. CASE UNCHANGED vars
    <2>1. Type' = Type /\ Vol' = Vol
      BY <1>12 DEF Type, Vol, vars
    <2>2. Pending' = Pending /\ Known' = Known
      BY <1>12, <2>1 DEF Pending, Known, vars, walking
    <2> QED
      BY <1>7, <1>12, <2>1, <2>2 DEF vars, walking
  <1> QED
    BY <1>1, <1>2, <1>3, <1>5, <1>6, <1>8, <1>9, <1>10, <1>11, <1>12 DEF Next

LEMMA Covering == Spec => []CoverInv
  <1>1. PlanInv /\ PlanInv' /\ CoverInv /\ [Next]_vars => CoverInv'
    BY CoverNext
  <1> QED
    BY <1>1, CoverInit, Planning, PTL DEF Spec

\* What is settled in the end is all there is: every volume lies in what
\* begins at one of the bases.
LEMMA PlannedMeansCovered ==
    ASSUME PlanInv, CoverInv, pc = "planned", mode = "recursive",
           NEW b \in DOMAIN dev.vols, Exact(b), Healthy(b) \/ rc = 0
    PROVE  At(b, dev.vols[b].files) \subseteq Covered(work)
  <1>1. \A s \in StartsOf(dev) : Settled(s)
    <2>1. jobs = <<>> /\ AllPlanned
      BY DEF CoverInv
    <2> QED
      BY <2>1, NothingIn DEF AllPlanned
  <1>2. \/ b \in StartsOf(dev) /\ At(b, Files(b)) \subseteq Room(dev, b)
        \/ \E s \in StartsOf(dev) \ DOMAIN dev.vols : At(b, Files(b)) \subseteq Room(dev, s)
    <2>1. Without(dev, {"table"}, b) /\ dev \in Devices
      BY DEF Exact, Without, Missed, PlanInv
    <2> QED
      BY <2>1, TablesAssumption DEF Files
  <1>3. CASE b \in StartsOf(dev) /\ At(b, Files(b)) \subseteq Room(dev, b)
    <2>1. CASE detect_fs(dev, b) = "unknown"
      BY <1>1, <1>3, <2>1 DEF Settled, Files
    <2>2. CASE detect_fs(dev, b) # "unknown"
      <3>1. Scanned(b) /\ TreePlanned(b)
        BY <1>1, <1>3, <2>2 DEF Settled
      <3>2. PICK S \in SUBSET Directories(Volume(dev, b), detect_fs(dev, b)) :
               /\ IsTree(Volume(dev, b), detect_fs(dev, b), S) /\ Readable(Volume(dev, b), detect_fs(dev, b), S)
               /\ At(b, FoundOf(Volume(dev, b), detect_fs(dev, b), S)) \subseteq Covered(work)
        BY <3>1 DEF TreePlanned
      <3>3. dev.vols[b].files \subseteq FoundOf(Volume(dev, b), detect_fs(dev, b), S)
        BY <2>2, <3>1, <3>2, WholeVolumesAssumption DEF PlanInv, Exact, Scanned
      <3> QED
        BY <3>2, <3>3 DEF At
    <2> QED
      BY <2>1, <2>2
  <1>4. ASSUME NEW s \in StartsOf(dev) \ DOMAIN dev.vols, At(b, Files(b)) \subseteq Room(dev, s)
        PROVE  At(b, Files(b)) \subseteq Covered(work)
    <2>1. detect_fs(dev, s) = "unknown"
      BY DEF detect_fs, HasVolume
    <2> QED
      BY <1>1, <1>4, <2>1 DEF Settled
  <1> QED
    BY <1>2, <1>3, <1>4 DEF Files

\* A recursive run that says it succeeded has planned all that some readable tree
\* of each volume names, the root and all that is named from there, and the whole of
\* what it did not recognise: for every device, healthy or not.  Where what is
\* named holds the files (not in the shapes of Missed), every unit of every
\* file is planned, and a volume that cannot be scanned costs no healthy one its
\* place in the plan (massage.cpp:192, :253).
THEOREM NoFileIsMissed == Spec => []FilesAreCovered
  <1>1. PlanInv /\ CoverInv => SuccessMeansCovered
    <2> SUFFICES ASSUME PlanInv, CoverInv PROVE SuccessMeansCovered
      OBVIOUS
    <2>1. CASE mode = "linear"
      BY <2>1 DEF CoverInv
    <2>2. CASE mode = "recursive"
      BY <2>2, PlannedMeansCovered DEF SuccessMeansCovered, Bases, Exact
    <2> QED
      BY <2>1, <2>2 DEF PlanInv
  <1>2. PlanInv /\ CoverInv => FailureIsContained
    BY PlannedMeansCovered, HealthyIsExact DEF FailureIsContained, Bases, Healthy
  <1>3. PlanInv /\ CoverInv => SuccessMeansWalked
    BY NothingIn DEF CoverInv, AllPlanned, Settled, SuccessMeansWalked
  <1>4. PlanInv /\ CoverInv => FilesAreCovered
    BY <1>1, <1>2, <1>3 DEF FilesAreCovered
  <1> QED
    BY <1>4, Planning, Covering, PTL

-----------------------------------------------------------------------------
(* What nobody owns is left alone. *)

Free(b) == dev.vols[b].free
Sound == dev.bad = {} /\ \A b \in DOMAIN dev.vols : Without(dev, {"table"}, b)
Skips(b) == Without(dev, {"contiguous", "logical", "table"}, b)

\* The walk stays among the directories of any tree that holds its root.
Within ==
    \A S \in SUBSET Directories(Vol, Type) :
        IsTree(Vol, Type, S) => Pending \subseteq S /\ Known \subseteq FoundOf(Vol, Type, S)

FreeKept == \A b \in DOMAIN dev.vols : Skips(b) => At(b, Free(b)) \cap Covered(work) = {}

FreeInv ==
    /\ (pc \in {"jobs", "walk", "planned"} /\ mode = "recursive") =>
          ToSet(jobs) \subseteq StartsOf(dev) /\ (Sound => FreeKept)
    /\ pc \in {"jobs", "walk"} => mode = "recursive"
    /\ pc = "walk" => Within

\* On a device that is sound the table, the volumes and the partitions without
\* one lie side by side.
LEMMA SideBySide ==
    ASSUME dev \in Devices, Sound
    PROVE  /\ \A s \in StartsOf(dev) :
                /\ HasTable(probe_partitions(dev)) =>
                      Room(dev, s) \cap UnitsOf(TableRange(probe_partitions(dev))) = {}
                /\ \A c \in StartsOf(dev) : s # c => Room(dev, s) \cap Room(dev, c) = {}
           /\ \A c \in DOMAIN dev.vols \cap StartsOf(dev) : detect_fs(dev, c) # "unknown" =>
                \E S \in SUBSET Directories(Volume(dev, c), detect_fs(dev, c)) :
                    /\ IsTree(Volume(dev, c), detect_fs(dev, c), S)
                    /\ At(c, FoundOf(Volume(dev, c), detect_fs(dev, c), S)) \subseteq Room(dev, c)
  BY TablesAssumption DEF Sound

\* A volume whose free units count has a partition, or the device, to itself,
\* and its directories name none of them.
LEMMA OnItsOwn ==
    ASSUME dev \in Devices, Sound, NEW b \in DOMAIN dev.vols, Skips(b)
    PROVE  /\ b \in StartsOf(dev) /\ At(b, Free(b)) \subseteq Room(dev, b)
           /\ detect_fs(dev, b) # "unknown"
           /\ \E S \in SUBSET Directories(Volume(dev, b), detect_fs(dev, b)) :
                /\ IsTree(Volume(dev, b), detect_fs(dev, b), S)
                /\ FoundOf(Volume(dev, b), detect_fs(dev, b), S) \cap Free(b) = {}
  <1>1. Without(dev, {"logical", "table"}, b) /\ Without(dev, {"contiguous", "table"}, b)
    BY DEF Skips, Without
  <1>2. b \in StartsOf(dev) /\ At(b, dev.vols[b].free) \subseteq Room(dev, b)
    BY <1>1, TablesAssumption DEF Sound
  <1>3. /\ detect_fs(dev, b) # "unknown"
        /\ \E S \in SUBSET Directories(Volume(dev, b), detect_fs(dev, b)) :
             /\ IsTree(Volume(dev, b), detect_fs(dev, b), S)
             /\ FoundOf(Volume(dev, b), detect_fs(dev, b), S) \cap dev.vols[b].free = {}
    BY <1>1, WholeVolumesAssumption DEF Sound
  <1> QED
    BY <1>2, <1>3 DEF Free

LEMMA FreeInit == Init => FreeInv
  BY DEF Init, FreeInv

\* More is planned, and nothing of it is free.
LEMMA StayFree ==
    ASSUME FreeKept, dev' = dev, NEW more, Covered(work') = Covered(work) \cup more,
           \A b \in DOMAIN dev.vols : Skips(b) => At(b, Free(b)) \cap more = {}
    PROVE  FreeKept'
  <1>1. \A b : Skips(b)' = Skips(b) /\ Free(b)' = Free(b)
    BY DEF Skips, Free
  <1> QED
    BY <1>1 DEF FreeKept

\* Every step stays within the volume it scans, and away from what is free there.
LEMMA FreeNext == PlanInv /\ PlanInv' /\ CoverInv /\ FreeInv /\ [Next]_vars => FreeInv'
  <1> SUFFICES ASSUME PlanInv, PlanInv', CoverInv, FreeInv, [Next]_vars PROVE FreeInv'
    OBVIOUS
  <1> DEFINE pm == probe_partitions(dev)
  <1> PICK h : h = Head(jobs)
    OBVIOUS
  <1>0. dev \in Devices
    BY DEF PlanInv
  <1>1. CASE PlanLinear
    BY <1>1 DEF PlanLinear, FreeInv
  <1>2. CASE PlanJobs
    <2>1. /\ pc' = "jobs" /\ mode = "recursive" /\ UNCHANGED <<dev, mode>>
          /\ jobs' = IF HasTable(pm) THEN [i \in DOMAIN pm.parts |-> pm.parts[i].off] ELSE <<0>>
          /\ work' = IF HasTable(pm) /\ pm.table > 0 THEN <<TableRange(pm)>> ELSE <<>>
      BY <1>2 DEF PlanJobs
    <2>2. ToSet(jobs') = StartsOf(dev)
      BY <1>2, FirstJobs
    <2>3. Covered(work') \subseteq (IF HasTable(pm) THEN UnitsOf(TableRange(pm)) ELSE {})
      BY <2>1 DEF Covered
    <2>4. ASSUME Sound, NEW b \in DOMAIN dev.vols, Skips(b)
          PROVE  At(b, Free(b)) \cap Covered(work') = {}
      <3>1. b \in StartsOf(dev) /\ At(b, Free(b)) \subseteq Room(dev, b)
        BY <1>0, <2>4, OnItsOwn
      <3>2. HasTable(pm) => Room(dev, b) \cap UnitsOf(TableRange(pm)) = {}
        BY <1>0, <2>4, <3>1, SideBySide
      <3> QED
        BY <2>3, <3>1, <3>2
    <2>5. Sound => FreeKept'
      BY <2>1, <2>4 DEF FreeKept, Sound, Skips, Free
    <2> QED
      BY <2>1, <2>2, <2>5 DEF FreeInv, Sound
  <1>3. ASSUME jobs # <<>>, jobs' = Tail(jobs), ToSet(jobs) \subseteq StartsOf(dev)
        PROVE  h \in StartsOf(dev) /\ ToSet(jobs') \subseteq StartsOf(dev)
    <2>1. jobs \in Seq(Nat)
      BY DEF PlanInv
    <2>2. h = jobs[1] /\ 1 \in DOMAIN jobs
      BY <1>3, <2>1
    <2>3. \A i \in DOMAIN Tail(jobs) : i + 1 \in DOMAIN jobs /\ Tail(jobs)[i] = jobs[i + 1]
      BY <1>3, <2>1
    <2> QED
      BY <1>3, <2>2, <2>3 DEF ToSet
  <1>4. CASE RewriteUnknown
    <2> DEFINE e == Extent(h, LinearLength(dev, parts, h))
    <2>1. /\ pc = "jobs" /\ jobs # <<>> /\ Type = "unknown" /\ work' = Append(work, e) /\ jobs' = Tail(jobs)
          /\ UNCHANGED <<dev, mode, pc>>
      BY <1>4 DEF RewriteUnknown
    <2>2. mode = "recursive" /\ ToSet(jobs) \subseteq StartsOf(dev) /\ (Sound => FreeKept)
      BY <2>1 DEF FreeInv
    <2>3. h \in Nat /\ dev.size \in Nat /\ parts \in Seq(Ranges) /\ work \in Seq(Ranges)
      <3>1. jobs \in Seq(Nat) /\ jobs # <<>> /\ dev \in Devices /\ parts \in Seq(Ranges) /\ work \in Seq(Ranges)
        BY <2>1 DEF PlanInv
      <3> QED
        BY <3>1, DeviceIsOne, Ends
    <2>4. e \in Ranges
      BY <2>3, LinearLengthType, ExtentInRanges
    <2> HIDE DEF e
    <2>5. Covered(work') = Covered(work) \cup UnitsOf(e)
      BY <2>1, <2>3, <2>4, AppendCovers
    <2>6. UnitsOf(e) = Room(dev, h)
      BY <2>1, <2>2 DEF CoverInv, Room, e
    <2>7. h \in StartsOf(dev) /\ ToSet(jobs') \subseteq StartsOf(dev)
      BY <1>3, <2>1, <2>2
    <2>8. ASSUME Sound, NEW b \in DOMAIN dev.vols, Skips(b) PROVE At(b, Free(b)) \cap UnitsOf(e) = {}
      <3>1. b # h
        BY <1>0, <2>1, <2>8, OnItsOwn DEF Type
      <3>2. b \in StartsOf(dev) /\ At(b, Free(b)) \subseteq Room(dev, b)
        BY <1>0, <2>8, OnItsOwn
      <3>3. Room(dev, b) \cap Room(dev, h) = {}
        BY <1>0, <2>7, <2>8, <3>1, <3>2, SideBySide
      <3> QED
        BY <2>6, <3>2, <3>3
    <2>9. Sound => FreeKept'
      BY <2>1, <2>2, <2>5, <2>8, StayFree
    <2> QED
      BY <2>1, <2>2, <2>7, <2>9 DEF FreeInv, Sound
  <1>5. ASSUME ScanFailed, UNCHANGED <<dev, mode, work>>, pc \in {"jobs", "walk"}, jobs # <<>>
        PROVE  FreeInv'
    <2>1. pc' = "jobs" /\ jobs' = Tail(jobs) /\ mode = "recursive"
            /\ ToSet(jobs) \subseteq StartsOf(dev) /\ (Sound => FreeKept)
      BY <1>5 DEF ScanFailed, FreeInv
    <2>2. ToSet(jobs') \subseteq StartsOf(dev)
      BY <1>3, <1>5, <2>1
    <2>3. Sound' = Sound /\ FreeKept' = FreeKept
      BY <1>5 DEF FreeKept, Sound, Skips, Free
    <2> QED
      BY <1>5, <2>1, <2>2, <2>3 DEF FreeInv
  <1>6. ASSUME UNCHANGED <<dev, mode, jobs, work>>, pc \in {"jobs", "walk"}, pc' = "walk" => Within'
        PROVE  FreeInv'
    <2>1. Sound' = Sound /\ FreeKept' = FreeKept
      BY <1>6 DEF FreeKept, Sound, Skips, Free
    <2>2. mode = "recursive" /\ ToSet(jobs) \subseteq StartsOf(dev) /\ (Sound => FreeKept)
      BY <1>6 DEF FreeInv
    <2> QED
      BY <1>6, <2>1, <2>2 DEF FreeInv
  <1>7. CASE StartScan
    <2> DEFINE scan == scan_filesystem(Vol, Type)
    <2>1. pc = "jobs" /\ jobs # <<>> /\ UNCHANGED <<dev, mode, parts, work>> /\ AtRest
      BY <1>7 DEF StartScan, PlanInv
    <2>2. CASE ScanFailed
      BY <1>5, <2>1, <2>2
    <2>3. CASE pc' = "crashed" /\ UNCHANGED <<jobs, walking, rc>>
      BY <1>6, <2>1, <2>3
    <2>4. CASE pc' = "walk" /\ enter' = scan.enter /\ objects' = scan.objects /\ UNCHANGED <<jobs, stack, seen, rc>>
      <3>1. Type' = Type /\ Vol' = Vol
        BY <2>1, <2>4 DEF Type, Vol
      <3>2. Pending' = ToSet(scan.enter) /\ Known' = FoundIn(scan.objects)
        <4>1. 1..Len(stack') = {}
          BY <2>1, <2>4 DEF AtRest
        <4> QED
          BY <2>4, <4>1 DEF Pending, Known
      <3>3. Within'
        BY <3>1, <3>2 DEF Within, IsTree, FoundOf
      <3> QED
        BY <1>6, <2>1, <2>4, <3>3
    <2> QED
      BY <1>7, <2>2, <2>3, <2>4 DEF StartScan
  <1>8. CASE EnterDirectory
    <2> PICK d : d = Head(enter)
      OBVIOUS
    <2>1. pc = "walk" /\ enter = <<d>> /\ UNCHANGED <<dev, mode, parts, work>> /\ ToSet(enter) = {d}
      BY <1>8, EnterCases, NothingIn
    <2>2. jobs # <<>> /\ Within /\ d \in Pending
      BY <2>1, WalkFacts DEF FreeInv, Pending
    <2>3. CASE EnteredAgain(d)
      <3>1. /\ UNCHANGED <<pc, jobs>> /\ Type' = Type /\ Vol' = Vol
            /\ Pending = {d} \cup Pending' /\ Known' = Known
        BY <1>8, <2>3, PassedOver DEF EnteredAgain
      <3>2. Within'
        BY <2>2, <3>1 DEF Within
      <3> QED
        BY <1>6, <2>1, <3>1, <3>2
    <2>4. CASE EnteredNew(d)
      <3>1. /\ UNCHANGED <<pc, jobs>> /\ Type' = Type /\ Vol' = Vol
            /\ Pending' \subseteq Pending \cup Below(Vol, Type, d) /\ Known' = Known \cup Own(Vol, Type, d)
        BY <1>8, <2>4, WentIn DEF EnteredNew
      <3>2. ASSUME NEW S \in SUBSET Directories(Vol, Type), IsTree(Vol, Type, S)
            PROVE  Pending' \subseteq S /\ Known' \subseteq FoundOf(Vol, Type, S)
        <4>1. Pending \subseteq S /\ Known \subseteq FoundOf(Vol, Type, S)
          BY <2>2, <3>2 DEF Within
        <4>2. d \in S /\ Below(Vol, Type, d) \subseteq S
          BY <2>2, <3>2, <4>1 DEF IsTree
        <4>3. Own(Vol, Type, d) \subseteq FoundOf(Vol, Type, S)
          BY <4>2 DEF FoundOf
        <4> QED
          BY <3>1, <4>1, <4>2, <4>3
      <3>3. Within'
        BY <3>1, <3>2 DEF Within
      <3> QED
        BY <1>6, <2>1, <3>1, <3>3
    <2>5. CASE ScanFailed
      BY <1>5, <2>1, <2>2, <2>5
    <2>6. CASE pc' = "overflow"
      BY <2>6 DEF FreeInv
    <2> QED
      BY <1>8, <2>3, <2>4, <2>5, <2>6, EnterCases
  <1>9. ASSUME UNCHANGED <<dev, mode, pc, jobs, work>>, Type' = Type, Vol' = Vol,
               Pending' = Pending, Known' = Known
        PROVE  FreeInv'
    <2>1. Within' = Within
      BY <1>9 DEF Within
    <2>2. Sound' = Sound /\ FreeKept' = FreeKept
      BY <1>9 DEF FreeKept, Sound, Skips, Free
    <2> QED
      BY <1>9, <2>1, <2>2 DEF FreeInv
  <1>10. CASE TakeEntry
    BY <1>9, <1>10, Took DEF TakeEntry
  <1>11. CASE LeaveDirectory
    BY <1>9, <1>11, Left DEF LeaveDirectory
  <1>12. CASE FinishScan
    <2>1. /\ pc = "walk" /\ enter = <<>> /\ stack = <<>> /\ work' = AddRanges(work, h, objects)
          /\ jobs' = Tail(jobs) /\ pc' = "jobs" /\ UNCHANGED <<dev, mode>>
      BY <1>12 DEF FinishScan
    <2>2. jobs # <<>> /\ h \in Nat /\ h \in DOMAIN dev.vols /\ Type # "unknown"
            /\ Vol = Volume(dev, h) /\ Type = detect_fs(dev, h)
      BY <2>1, WalkFacts DEF Type, Vol
    <2>3. mode = "recursive" /\ ToSet(jobs) \subseteq StartsOf(dev) /\ (Sound => FreeKept) /\ Within
      BY <2>1 DEF FreeInv
    <2>4. Covered(work') = Covered(work) \cup At(h, FoundIn(objects))
      <3>1. work \in Seq(Ranges) /\ objects \in Seq(Objects)
        BY DEF PlanInv
      <3> QED
        BY <2>1, <2>2, <3>1, AddRangesCovers
    <2>5. h \in StartsOf(dev) /\ ToSet(jobs') \subseteq StartsOf(dev)
      BY <1>3, <2>1, <2>2, <2>3
    <2>6. \A S \in SUBSET Directories(Vol, Type) :
            IsTree(Vol, Type, S) => FoundIn(objects) \subseteq FoundOf(Vol, Type, S)
      BY <2>3 DEF Within, Known
    <2>7. ASSUME Sound, NEW b \in DOMAIN dev.vols, Skips(b)
          PROVE  At(b, Free(b)) \cap At(h, FoundIn(objects)) = {}
      <3>1. CASE b = h
        <4>1. PICK S \in SUBSET Directories(Vol, Type) : IsTree(Vol, Type, S) /\ FoundOf(Vol, Type, S) \cap Free(b) = {}
          BY <1>0, <2>2, <2>7, <3>1, OnItsOwn
        <4>2. FoundIn(objects) \cap Free(b) = {}
          BY <2>6, <4>1
        <4>3. FoundIn(objects) \subseteq Nat
          BY FoundUnits DEF PlanInv
        <4>4. Free(b) \subseteq Nat
          BY <1>0, DevicesAssumption DEF Free
        <4>5. At(h, FoundIn(objects)) \cap At(h, Free(b)) = {}
          BY <2>2, <4>2, <4>3, <4>4, MovedApart
        <4> QED
          BY <3>1, <4>5
      <3>2. CASE b # h
        <4>1. PICK S \in SUBSET Directories(Vol, Type) :
                 IsTree(Vol, Type, S) /\ At(h, FoundOf(Vol, Type, S)) \subseteq Room(dev, h)
          BY <1>0, <2>2, <2>5, <2>7, SideBySide
        <4>2. At(h, FoundIn(objects)) \subseteq Room(dev, h)
          BY <2>6, <4>1 DEF At
        <4>3. b \in StartsOf(dev) /\ At(b, Free(b)) \subseteq Room(dev, b)
          BY <1>0, <2>7, OnItsOwn
        <4>4. Room(dev, b) \cap Room(dev, h) = {}
          BY <1>0, <2>5, <2>7, <3>2, <4>3, SideBySide
        <4> QED
          BY <4>2, <4>3, <4>4
      <3> QED
        BY <3>1, <3>2
    <2>8. Sound => FreeKept'
      BY <2>1, <2>3, <2>4, <2>7, StayFree
    <2> QED
      BY <2>1, <2>3, <2>5, <2>8 DEF FreeInv, Sound
  <1>13. CASE PlanDone
    <2>1. /\ pc = "jobs" /\ pc' = "planned" /\ UNCHANGED <<dev, mode, jobs, work>>
      BY <1>13 DEF PlanDone
    <2> QED
      BY <1>6, <2>1
  <1>14. CASE UNCHANGED vars
    <2>1. Type' = Type /\ Vol' = Vol
      BY <1>14 DEF Type, Vol, vars
    <2>2. Pending' = Pending /\ Known' = Known
      BY <1>14, <2>1 DEF Pending, Known, vars, walking
    <2> QED
      BY <1>9, <1>14, <2>1, <2>2 DEF vars, walking
  <1> QED
    BY <1>1, <1>2, <1>4, <1>7, <1>8, <1>10, <1>11, <1>12, <1>13, <1>14 DEF Next

\* Units that no file owns are left alone (README: "free space skipped"), on
\* devices that can be read, whose volumes are whole and lie apart.  Volumes in a
\* logical partition and those with a contiguous exFAT directory are excepted:
\* there the code does rewrite free space (massage.cpp:236, exfat.cpp:58).
THEOREM FreeIsKept == Spec => []FreeSpaceSkipped
  <1>1. PlanInv /\ PlanInv' /\ CoverInv /\ FreeInv /\ [Next]_vars => FreeInv'
    BY FreeNext
  <1>2. FreeInv => FreeSpaceSkipped
    BY DEF FreeInv, FreeKept, FreeSpaceSkipped, Bases, Sound, Skips, Free
  <1> QED
    BY <1>1, <1>2, FreeInit, Planning, Covering, PTL DEF Spec

-----------------------------------------------------------------------------
(* Nothing is planned twice. *)

LEMMA DistinctJoin ==
    ASSUME NEW a \in Seq(Objects), NEW b \in Seq(Objects), NEW but,
           Distinct(a, but), Distinct(b, {}), FoundIn(a) \cap FoundIn(b) = {}
    PROVE  Distinct(a \o b, but)
  <1> DEFINE m == Len(a)
             n == Len(b)
             c == a \o b
  <1>1. /\ m \in Nat /\ n \in Nat /\ DOMAIN a = 1..m /\ DOMAIN b = 1..n /\ DOMAIN c = 1..(m + n)
        /\ \A i \in 1..m : c[i] = a[i]
        /\ \A i \in (m + 1)..(m + n) : c[i] = b[i - m]
    OBVIOUS
  <1> HIDE DEF m, n, c
  <1>2. \A i \in 1..(m + n) : i \in 1..m \/ (i \in (m + 1)..(m + n) /\ i - m \in 1..n)
    BY <1>1
  <1>3. /\ \A i \in 1..m : Covered(a[i].exts) \subseteq FoundIn(a)
        /\ \A i \in 1..n : Covered(b[i].exts) \subseteq FoundIn(b)
    BY <1>1 DEF FoundIn
  <1>4. ASSUME NEW i \in 1..(m + n), NEW j \in 1..(m + n), i # j
        PROVE  Covered(c[i].exts) \cap Covered(c[j].exts) \subseteq but
    <2>1. CASE i \in 1..m /\ j \in 1..m
      BY <1>1, <1>4, <2>1 DEF Distinct
    <2>2. CASE i \in 1..m /\ j \in (m + 1)..(m + n) /\ j - m \in 1..n
      BY <1>1, <1>3, <2>2
    <2>3. CASE i \in (m + 1)..(m + n) /\ i - m \in 1..n /\ j \in 1..m
      BY <1>1, <1>3, <2>3
    <2>4. CASE i \in (m + 1)..(m + n) /\ i - m \in 1..n /\ j \in (m + 1)..(m + n) /\ j - m \in 1..n
      <3>1. i - m # j - m
        BY <1>1, <1>4
      <3>2. Covered(b[i - m].exts) \cap Covered(b[j - m].exts) = {}
        BY <1>1, <2>4, <3>1 DEF Distinct
      <3> QED
        BY <1>1, <2>4, <3>2
    <2> QED
      BY <1>2, <2>1, <2>2, <2>3, <2>4
  <1>5. ASSUME NEW i \in 1..(m + n) PROVE AllApart(c[i].exts, but)
    <2>1. CASE i \in 1..m
      BY <1>1, <2>1 DEF Distinct
    <2>2. CASE i \in (m + 1)..(m + n) /\ i - m \in 1..n
      <3>1. AllApart(b[i - m].exts, {}) /\ c[i] = b[i - m]
        BY <1>1, <2>2 DEF Distinct
      <3>2. \A exts : AllApart(exts, {}) => AllApart(exts, but)
        BY DEF AllApart, Apart
      <3> QED
        BY <3>1, <3>2
    <2> QED
      BY <1>2, <2>1, <2>2
  <1> QED
    BY <1>1, <1>4, <1>5 DEF Distinct, c

\* What an entry names, and what those after it name.
LEMMA OnceTaken ==
    ASSUME NEW vol, NEW type \in Walked, IsVolume(vol, type),
           NEW entries \in Seq(AllEntries(vol)), entries # <<>>, EntriesOnce(vol, type, entries)
    PROVE  LET taken == Taken(vol, type, Head(entries))
               rest == IF taken.stop THEN <<>> ELSE Tail(entries)
           IN  /\ Distinct(taken.objects, {}) /\ EntriesOnce(vol, type, rest)
               /\ FoundIn(taken.objects) \cap FoundAt(vol, type, rest) = {}
               /\ type # "ext" => ToSet(taken.enter) \cap KidsOf(vol, type, rest) = {}
  <1> DEFINE n == Len(entries)
             A == AllEntries(vol)
             tail == Tail(entries)
             e == Head(entries)
             taken == Taken(vol, type, e)
             T(x) == Taken(vol, type, x)
             P == LivePlaces(vol, type, entries)
             Q == LivePlaces(vol, type, tail)
  <1>1. n \in Nat /\ n >= 1 /\ DOMAIN entries = 1..n /\ e = entries[1]
    OBVIOUS
  <1>2. DOMAIN tail = 1..(n - 1) /\ \A i \in 1..(n - 1) : tail[i] = entries[i + 1]
    OBVIOUS
  <1>3. e \in A
    <2>1. entries \in Seq(A)
      OBVIOUS
    <2> HIDE DEF A
    <2> QED
      BY <2>1, Ends
  <1>4. taken.stop => taken.objects = <<>> /\ taken.enter = <<>>
    BY <1>3, TakenType
  <1>5. CASE taken.stop
    <2>1. Distinct(<<>>, {}) /\ EntriesOnce(vol, type, <<>>)
      BY DEF Distinct, EntriesOnce, LivePlaces
    <2> QED
      BY <1>4, <1>5, <2>1, NothingIn, NothingLive
  <1>6. CASE ~taken.stop
    <2>1. ~T(entries[1]).stop
      BY <1>1, <1>6
    <2>2. P = {j \in 1..n : \A k \in 1..j : ~T(entries[k]).stop}
      BY <1>1 DEF LivePlaces
    <2>3. Q = {j \in 1..(n - 1) : \A k \in 1..j : ~T(tail[k]).stop}
      BY <1>2 DEF LivePlaces
    <2>4. /\ \A i, j \in P : i = j => Distinct(T(entries[i]).objects, {})
          /\ \A i, j \in P : i # j =>
                /\ FoundIn(T(entries[i]).objects) \cap FoundIn(T(entries[j]).objects) = {}
                /\ type # "ext" => ToSet(T(entries[i]).enter) \cap ToSet(T(entries[j]).enter) = {}
      BY Zenon DEF EntriesOnce
    <2>5. /\ FoundAt(vol, type, tail) = UNION {FoundIn(T(tail[i]).objects) : i \in Q}
          /\ KidsOf(vol, type, tail) = UNION {ToSet(T(tail[i]).enter) : i \in Q}
      BY DEF FoundAt, KidsOf, Live
    <2> HIDE DEF n, tail, e, T, P, Q
    <2>6. 1 \in P
      <3>1. 1 \in 1..n /\ \A k \in 1..1 : k = 1
        BY <1>1
      <3> QED
        BY <2>1, <2>2, <3>1
    <2>7. ASSUME NEW j \in Q PROVE j + 1 \in P /\ j + 1 # 1 /\ entries[j + 1] = tail[j] /\ j \in Nat
      <3>1. j \in 1..(n - 1) /\ j + 1 \in 1..n /\ tail[j] = entries[j + 1] /\ j + 1 # 1
        BY <1>1, <1>2, <2>3
      <3>2. \A k \in 1..(j + 1) : k = 1 \/ (k - 1 \in 1..j /\ k - 1 \in 1..(n - 1) /\ (k - 1) + 1 = k)
        BY <1>1, <3>1
      <3>3. \A k \in 1..(j + 1) : ~T(entries[k]).stop
        BY <1>2, <2>1, <2>3, <3>2
      <3> QED
        BY <2>2, <3>1, <3>3
    <2>8. Distinct(T(e).objects, {})
      BY <1>1, <2>4, <2>6
    <2>9. EntriesOnce(vol, type, tail)
      <3>1. ASSUME NEW i \in Q, NEW j \in Q
            PROVE  IF i = j THEN Distinct(T(tail[i]).objects, {})
                   ELSE /\ FoundIn(T(tail[i]).objects) \cap FoundIn(T(tail[j]).objects) = {}
                        /\ type # "ext" => ToSet(T(tail[i]).enter) \cap ToSet(T(tail[j]).enter) = {}
        <4>1. i # j => i + 1 # j + 1
          BY <2>7
        <4> QED
          BY <2>4, <2>7, <4>1
      <3> QED
        BY <3>1 DEF EntriesOnce, Q, T
    <2>10. \A i \in Q : /\ FoundIn(T(e).objects) \cap FoundIn(T(tail[i]).objects) = {}
                        /\ type # "ext" => ToSet(T(e).enter) \cap ToSet(T(tail[i]).enter) = {}
      BY <1>1, <2>4, <2>6, <2>7
    <2>11. /\ FoundIn(T(e).objects) \cap FoundAt(vol, type, tail) = {}
           /\ type # "ext" => ToSet(T(e).enter) \cap KidsOf(vol, type, tail) = {}
      BY <2>5, <2>10
    <2> QED
      BY <1>6, <2>8, <2>9, <2>11 DEF T, e, tail
  <1> QED
    BY <1>5, <1>6

\* A directory is listed in objects of its own or by what its entries name, not both.
LEMMA OwnIsApart ==
    ASSUME NEW vol, NEW type \in Walked, IsVolume(vol, type), NEW d \in Nat
    PROVE  LET read == Entered(vol, type, d)
           IN  FoundIn(read.objects) \cap FoundAt(vol, type, read.entries) = {}
  <1> DEFINE read == Entered(vol, type, d)
  <1>1. CASE type # "ext"
    <2>1. read.objects = <<>>
      BY <1>1, EnteredType
    <2> QED
      BY <2>1, NothingIn
  <1>2. CASE type = "ext"
    <2>1. \A e : Taken(vol, type, e).objects = <<>>
      BY <1>2 DEF Taken, FatTypes, E!TakeEntry
    <2> HIDE DEF read
    <2>2. FoundAt(vol, type, read.entries) = {}
      BY <2>1, NothingIn DEF FoundAt
    <2> QED
      BY <2>2 DEF read
  <1> QED
    BY <1>1, <1>2

\* What the root and the directories G name.
NamedBy(vol, type, G) == ToSet(scan_filesystem(vol, type).enter) \cup UNION {Below(vol, type, d) : d \in G}

\* No two places of the walk name the same unit, nor, but of ext, the same directory.
ApartLists ==
    /\ Distinct(objects, TwiceNamed(Type))
    /\ \A i \in 1..Len(stack) :
          EntriesOnce(Vol, Type, stack[i]) /\ FoundIn(objects) \cap FoundAt(Vol, Type, stack[i]) = {}
    /\ \A i, j \in 1..Len(stack) :
          i # j => FoundAt(Vol, Type, stack[i]) \cap FoundAt(Vol, Type, stack[j]) = {}
ApartKids ==
    /\ \A i \in 1..Len(stack) : ToSet(enter) \cap KidsOf(Vol, Type, stack[i]) = {}
    /\ \A i, j \in 1..Len(stack) :
          i # j => KidsOf(Vol, Type, stack[i]) \cap KidsOf(Vol, Type, stack[j]) = {}

\* The directories entered so far are G, each of them once.
EnteredOnce(G) ==
    /\ ApartLists /\ Known \subseteq FoundOf(Vol, Type, G)
    /\ Type = "ext" => G = seen
    /\ Type # "ext" => ApartKids /\ G \cup Pending \subseteq NamedBy(Vol, Type, G) /\ G \cap Pending = {}
Once ==
    \A S \in SUBSET Directories(Vol, Type) :
        IsTree(Vol, Type, S) /\ NamedOnce(Vol, Type, S) => \E G \in SUBSET S : EnteredOnce(G)

\* Taking an entry keeps the places of the walk apart.
LEMMA OnceTook ==
    ASSUME PlanInv, TakeEntry, NEW G, EnteredOnce(G)
    PROVE  EnteredOnce(G)'
  <1> DEFINE entries == Innermost
             taken == Taken(Vol, Type, Head(entries))
             rest == IF taken.stop THEN <<>> ELSE Tail(entries)
             n == Len(stack)
             K(x) == KidsOf(Vol, Type, x)
             U(x) == FoundAt(Vol, Type, x)
             O(x) == EntriesOnce(Vol, Type, x)
             found == FoundIn(taken.objects)
             kids == ToSet(taken.enter)
  <1>1. /\ pc = "walk" /\ enter = <<>> /\ stack # <<>> /\ entries # <<>>
        /\ objects' = objects \o taken.objects /\ enter' = taken.enter /\ stack' = Append(Front(stack), rest)
        /\ seen' = seen
    BY DEF TakeEntry
  <1>2. Type' = Type /\ Vol' = Vol /\ Pending' = Pending /\ Known' = Known
    BY Took
  <1>3. Type \in Walked /\ IsVolume(Vol, Type)
    BY <1>1, WalkFacts
  <1>4. /\ entries = stack[n] /\ entries \in Seq(AllEntries(Vol)) /\ Head(entries) \in AllEntries(Vol)
        /\ n \in Nat /\ n >= 1 /\ Len(stack') = n /\ stack'[n] = rest
        /\ \A i \in 1..(n - 1) : stack'[i] = stack[i]
    BY <1>1, TakeFacts
  <1> DEFINE I == 1..(n - 1)
             J == 1..n
  <1>5. J = I \cup {n} /\ n \notin I
    BY <1>4
  <1>6. /\ Distinct(objects, TwiceNamed(Type))
        /\ \A i \in J : O(stack[i]) /\ FoundIn(objects) \cap U(stack[i]) = {}
        /\ \A i, j \in J : i # j => U(stack[i]) \cap U(stack[j]) = {}
    BY Zenon DEF EnteredOnce, ApartLists
  <1>7. Type # "ext" => \A i, j \in J : i # j => K(stack[i]) \cap K(stack[j]) = {}
    BY Zenon DEF EnteredOnce, ApartKids
  <1>8. K(entries) = kids \cup K(rest) /\ U(entries) = found \cup U(rest)
    <2>1. entries \in Seq(AllEntries(Vol)) /\ entries # <<>>
      BY <1>1, <1>4
    <2> HIDE DEF entries
    <2> QED
      BY <1>3, <2>1, OneTaken
  <1>9. /\ Distinct(taken.objects, {}) /\ O(rest) /\ found \cap U(rest) = {}
        /\ Type # "ext" => kids \cap K(rest) = {}
    <2>1. entries \in Seq(AllEntries(Vol)) /\ entries # <<>> /\ EntriesOnce(Vol, Type, entries)
      BY <1>1, <1>4, <1>5, <1>6
    <2> HIDE DEF entries
    <2> QED
      BY <1>3, <2>1, OnceTaken
  <1>10. objects \in Seq(Objects) /\ taken.objects \in Seq(Objects)
    BY <1>3, <1>4, TakenType DEF PlanInv
  <1>11. FoundIn(objects') = FoundIn(objects) \cup found
    BY <1>1, <1>10, FoundInBoth
  <1> HIDE DEF entries, taken, rest, n, K, U, O, found, kids, I, J
  <1>12. (\A i \in I : stack'[i] = stack[i]) /\ stack'[n] = rest /\ stack[n] = entries
    BY <1>4 DEF I
  <1>13. Distinct(objects', TwiceNamed(Type))
    <2>1. FoundIn(objects) \cap found = {}
      BY <1>5, <1>6, <1>8, <1>12
    <2> QED
      BY <1>1, <1>6, <1>9, <1>10, <2>1, DistinctJoin DEF found
  <1>14. ASSUME NEW i \in J PROVE O(stack'[i]) /\ FoundIn(objects') \cap U(stack'[i]) = {}
    <2>1. CASE i = n
      BY <1>5, <1>6, <1>8, <1>9, <1>11, <1>12, <2>1
    <2>2. CASE i \in I
      <3>1. U(stack[i]) \cap U(entries) = {}
        BY <1>5, <1>6, <1>12, <2>2
      <3> QED
        BY <1>5, <1>6, <1>8, <1>11, <1>12, <2>2, <3>1
    <2> QED
      BY <1>5, <2>1, <2>2
  <1>15. ASSUME NEW i \in J, NEW j \in J, i # j
         PROVE  /\ U(stack'[i]) \cap U(stack'[j]) = {}
                /\ Type # "ext" => K(stack'[i]) \cap K(stack'[j]) = {}
    <2>1. \A x \in J : U(stack'[x]) \subseteq U(stack[x]) /\ K(stack'[x]) \subseteq K(stack[x])
      BY <1>5, <1>8, <1>12
    <2> QED
      BY <1>6, <1>7, <1>15, <2>1
  <1>16. ASSUME Type # "ext", NEW i \in J PROVE kids \cap K(stack'[i]) = {}
    <2>1. CASE i = n
      BY <1>9, <1>12, <1>16, <2>1
    <2>2. CASE i \in I
      <3>1. K(stack[i]) \cap K(entries) = {}
        BY <1>5, <1>7, <1>12, <1>16, <2>2
      <3> QED
        BY <1>8, <1>12, <2>2, <3>1
    <2> QED
      BY <1>5, <2>1, <2>2
  <1>17. ApartLists'
    <2>1. \A i \in 1..Len(stack') : O(stack'[i]) /\ FoundIn(objects') \cap U(stack'[i]) = {}
      BY <1>4, <1>14 DEF J
    <2>2. \A i, j \in 1..Len(stack') : i # j => U(stack'[i]) \cap U(stack'[j]) = {}
      BY <1>4, <1>15 DEF J
    <2> QED
      BY <1>2, <1>13, <2>1, <2>2 DEF ApartLists, O, U
  <1>18. Type # "ext" => ApartKids'
    <2>1. Type # "ext" => \A i \in 1..Len(stack') : ToSet(enter') \cap K(stack'[i]) = {}
      BY <1>1, <1>4, <1>16 DEF J, kids
    <2>2. Type # "ext" => \A i, j \in 1..Len(stack') : i # j => K(stack'[i]) \cap K(stack'[j]) = {}
      BY <1>4, <1>15 DEF J
    <2> QED
      BY <1>2, <2>1, <2>2 DEF ApartKids, K
  <1> QED
    BY <1>1, <1>2, <1>17, <1>18 DEF EnteredOnce

LEMMA OnceLeft ==
    ASSUME PlanInv, LeaveDirectory, NEW G, EnteredOnce(G)
    PROVE  EnteredOnce(G)'
  <1> DEFINE n == Len(stack)
             J == 1..n
             I == 1..(n - 1)
  <1>1. /\ pc = "walk" /\ stack # <<>> /\ Innermost = <<>> /\ stack' = Front(stack)
        /\ UNCHANGED <<enter, objects, seen>>
    BY DEF LeaveDirectory
  <1>2. Type' = Type /\ Vol' = Vol /\ Pending' = Pending /\ Known' = Known
    BY Left
  <1>3. stack \in Seq(Seq(AllEntries(Vol)))
    BY <1>1 DEF PlanInv, WalkOK
  <1>4. n \in Nat /\ n >= 1 /\ Len(stack') = n - 1 /\ \A i \in 1..(n - 1) : stack'[i] = stack[i]
    BY <1>1, <1>3, Ends
  <1>5. I \subseteq J /\ 1..Len(stack') = I /\ \A i \in I : stack'[i] = stack[i]
    BY <1>4
  <1> DEFINE K(x) == KidsOf(Vol, Type, x)
             U(x) == FoundAt(Vol, Type, x)
             O(x) == EntriesOnce(Vol, Type, x)
  <1>6. /\ Distinct(objects, TwiceNamed(Type))
        /\ \A i \in J : O(stack[i]) /\ FoundIn(objects) \cap U(stack[i]) = {}
        /\ \A i, j \in J : i # j => U(stack[i]) \cap U(stack[j]) = {}
    BY Zenon DEF EnteredOnce, ApartLists
  <1>7. Type # "ext" => /\ \A i \in J : ToSet(enter) \cap K(stack[i]) = {}
                        /\ \A i, j \in J : i # j => K(stack[i]) \cap K(stack[j]) = {}
    BY Zenon DEF EnteredOnce, ApartKids
  <1> HIDE DEF I, J, K, U, O
  <1>8. ApartLists'
    <2>1. \A i \in 1..Len(stack') : O(stack'[i]) /\ FoundIn(objects') \cap U(stack'[i]) = {}
      BY <1>1, <1>5, <1>6
    <2>2. \A i, j \in 1..Len(stack') : i # j => U(stack'[i]) \cap U(stack'[j]) = {}
      BY <1>5, <1>6
    <2>3. Distinct(objects', TwiceNamed(Type))
      BY <1>1, <1>6
    <2> QED
      BY <1>2, <2>1, <2>2, <2>3 DEF ApartLists, O, U
  <1>9. Type # "ext" => ApartKids'
    <2>1. Type # "ext" => \A i \in 1..Len(stack') : ToSet(enter') \cap K(stack'[i]) = {}
      BY <1>1, <1>5, <1>7
    <2>2. Type # "ext" => \A i, j \in 1..Len(stack') : i # j => K(stack'[i]) \cap K(stack'[j]) = {}
      BY <1>5, <1>7
    <2> QED
      BY <1>2, <2>1, <2>2 DEF ApartKids, K
  <1> QED
    BY <1>1, <1>2, <1>8, <1>9 DEF EnteredOnce

\* A directory is entered that was not: what it names was not named before.
LEMMA OnceWentIn ==
    ASSUME PlanInv, EnterDirectory, NEW d, d = Head(enter), EnteredNew(d),
           NEW S, IsTree(Vol, Type, S), NamedOnce(Vol, Type, S), d \in S,
           NEW G \in SUBSET S, EnteredOnce(G)
    PROVE  EnteredOnce(G \cup {d})'
  <1> DEFINE read == Entered(Vol, Type, d)
             n == Len(stack)
             m == n + 1
             K(x) == KidsOf(Vol, Type, x)
             U(x) == FoundAt(Vol, Type, x)
             O(x) == EntriesOnce(Vol, Type, x)
             own == Own(Vol, Type, d)
             kids == Below(Vol, Type, d)
             named == NamedBy(Vol, Type, G)
             scan == scan_filesystem(Vol, Type)
             H == G \cup {d}
  <1>1. /\ enter = <<d>> /\ enter' = <<>> /\ stack' = Append(stack, read.entries)
        /\ objects' = objects \o read.objects /\ pc = "walk" /\ Type \in Walked /\ IsVolume(Vol, Type) /\ d \in Nat
        /\ seen' = (IF Type = "ext" THEN seen \cup {d} ELSE seen) /\ ~SeenBefore(d)
    BY EnterCases DEF EnteredNew
  <1>2. /\ Type' = Type /\ Vol' = Vol
        /\ Pending' \subseteq Pending \cup kids /\ Known' = Known \cup own
    BY WentIn
  <1>3. read.objects \in Seq(Objects) /\ read.entries \in Seq(AllEntries(Vol))
    BY <1>1, EnteredType
  <1>4. FoundIn(objects') = FoundIn(objects) \cup FoundIn(read.objects) /\ objects \in Seq(Objects)
    BY <1>1, <1>3, FoundInBoth DEF PlanInv
  <1>5. K(read.entries) = kids /\ FoundIn(read.objects) \cup U(read.entries) = own
    BY OwnAndBelow
  <1>6. FoundIn(read.objects) \cap U(read.entries) = {}
    BY <1>1, OwnIsApart
  <1>7. stack \in Seq(Seq(AllEntries(Vol)))
    BY <1>1 DEF PlanInv, WalkOK
  <1>8. /\ Distinct(read.objects, {}) /\ O(read.entries)
        /\ own \cap FoundIn(scan.objects) = {} /\ (Type # "ext" => kids \cap ToSet(scan.enter) = {})
        /\ \A c \in S \ {d} : /\ Own(Vol, Type, c) \cap own = {}
                              /\ Type # "ext" => Below(Vol, Type, c) \cap kids = {}
    BY Zenon DEF NamedOnce
  <1>9. d \notin G
    <2>1. CASE Type = "ext"
      BY <1>1, <2>1 DEF EnteredOnce, SeenBefore
    <2>2. CASE Type # "ext"
      <3>1. d \in Pending
        BY <1>1, NothingIn DEF Pending
      <3> QED
        BY <2>2, <3>1 DEF EnteredOnce
    <2> QED
      BY <2>1, <2>2
  <1> HIDE DEF read, K, U, O, own, kids, scan
  <1>10. n \in Nat /\ Len(stack') = m /\ stack'[m] = read.entries /\ \A i \in 1..n : stack'[i] = stack[i]
    <2> DEFINE A == Seq(AllEntries(Vol))
    <2>1. stack \in Seq(A) /\ read.entries \in A
      BY <1>3, <1>7
    <2> HIDE DEF A
    <2> QED
      BY <1>1, <2>1
  <1> DEFINE I == 1..n
             J == 1..m
  <1>11. J = I \cup {m} /\ m \notin I
    BY <1>10
  <1>12. /\ Distinct(objects, TwiceNamed(Type))
         /\ \A i \in I : O(stack[i]) /\ FoundIn(objects) \cap U(stack[i]) = {}
         /\ \A i, j \in I : i # j => U(stack[i]) \cap U(stack[j]) = {}
    BY Zenon DEF EnteredOnce, ApartLists, O, U
  <1>13. Type # "ext" => /\ \A i \in I : ToSet(enter) \cap K(stack[i]) = {}
                         /\ \A i, j \in I : i # j => K(stack[i]) \cap K(stack[j]) = {}
    BY Zenon DEF EnteredOnce, ApartKids, K
  <1>14. Known = FoundIn(objects) \cup UNION {U(stack[i]) : i \in I}
    BY DEF Known, U
  <1>15. Pending = ToSet(enter) \cup UNION {K(stack[i]) : i \in I} /\ ToSet(enter) = {d} /\ ToSet(enter') = {}
    BY <1>1, NothingIn DEF Pending, K
  <1>16. (\A i \in I : stack'[i] = stack[i]) /\ stack'[m] = read.entries
    BY <1>10
  <1> HIDE DEF I, J, m, n
  <1>17. own \cap Known = {}
    <2>1. Known \subseteq FoundIn(scan.objects) \cup UNION {Own(Vol, Type, c) : c \in G}
      BY DEF EnteredOnce, FoundOf, scan
    <2>2. \A c \in G : Own(Vol, Type, c) \cap own = {}
      BY <1>8, <1>9
    <2> QED
      BY <1>8, <2>1, <2>2
  <1>18. Distinct(objects', TwiceNamed(Type))
    <2>1. FoundIn(objects) \cap FoundIn(read.objects) = {}
      BY <1>5, <1>14, <1>17
    <2> QED
      BY <1>1, <1>3, <1>4, <1>8, <1>12, <2>1, DistinctJoin
  <1>19. ASSUME NEW i \in J PROVE O(stack'[i]) /\ FoundIn(objects') \cap U(stack'[i]) = {}
    <2>1. CASE i = m
      <3>1. FoundIn(objects) \cap U(read.entries) = {}
        BY <1>5, <1>14, <1>17
      <3> QED
        BY <1>4, <1>6, <1>8, <1>16, <2>1, <3>1
    <2>2. CASE i \in I
      <3>1. FoundIn(read.objects) \cap U(stack[i]) = {}
        BY <1>5, <1>14, <1>17, <2>2
      <3> QED
        BY <1>4, <1>12, <1>16, <2>2, <3>1
    <2> QED
      BY <1>11, <2>1, <2>2
  <1>20. \A i \in I : U(stack[i]) \cap U(read.entries) = {}
    BY <1>5, <1>14, <1>17
  <1>21. ASSUME NEW i \in J, NEW j \in J, i # j PROVE U(stack'[i]) \cap U(stack'[j]) = {}
    <2>1. CASE i \in I /\ j \in I
      BY <1>12, <1>16, <1>21, <2>1
    <2>2. CASE i = m \/ j = m
      BY <1>11, <1>16, <1>20, <1>21, <2>2
    <2> QED
      BY <1>11, <2>1, <2>2
  <1>22. ApartLists'
    <2>1. 1..Len(stack') = J
      BY <1>10 DEF J
    <2>2. \A i \in 1..Len(stack') : O(stack'[i]) /\ FoundIn(objects') \cap U(stack'[i]) = {}
      BY <1>19, <2>1
    <2>3. \A i, j \in 1..Len(stack') : i # j => U(stack'[i]) \cap U(stack'[j]) = {}
      BY <1>21, <2>1
    <2> QED
      BY <1>2, <1>18, <2>2, <2>3 DEF ApartLists, O, U
  <1>23. Known' \subseteq FoundOf(Vol, Type, H)
    BY <1>2 DEF EnteredOnce, FoundOf, own
  <1>24. ASSUME Type # "ext"
         PROVE  /\ ApartKids'
                /\ H \cup Pending' \subseteq NamedBy(Vol, Type, H)
                /\ H \cap Pending' = {}
    <2>1. G \cup Pending \subseteq named /\ G \cap Pending = {}
      BY <1>24 DEF EnteredOnce
    <2>2. named \cap kids = {}
      <3>1. \A c \in G : Below(Vol, Type, c) \cap kids = {}
        BY <1>8, <1>9, <1>24
      <3> QED
        BY <1>8, <1>24, <3>1 DEF NamedBy, scan
    <2>3. NamedBy(Vol, Type, H) = named \cup kids
      BY DEF NamedBy, kids
    <2> HIDE DEF named
    <2>4. \A i \in I : K(stack[i]) \subseteq Pending
      BY <1>15
    <2>5. \A i \in I : K(stack[i]) \cap K(read.entries) = {}
      BY <1>5, <2>1, <2>2, <2>4
    <2>6. ASSUME NEW i \in J, NEW j \in J, i # j PROVE K(stack'[i]) \cap K(stack'[j]) = {}
      <3>1. CASE i \in I /\ j \in I
        BY <1>13, <1>16, <1>24, <2>6, <3>1
      <3>2. CASE i = m \/ j = m
        BY <1>11, <1>16, <2>5, <2>6, <3>2
      <3> QED
        BY <1>11, <3>1, <3>2
    <2>7. 1..Len(stack') = J
      BY <1>10 DEF J
    <2>8. ApartKids'
      <3>1. \A i, j \in 1..Len(stack') : i # j => K(stack'[i]) \cap K(stack'[j]) = {}
        BY <2>6, <2>7
      <3>2. \A i \in 1..Len(stack') : ToSet(enter') \cap K(stack'[i]) = {}
        BY <1>15
      <3> QED
        BY <1>2, <3>1, <3>2 DEF ApartKids, K
    <2>9. Pending' = (UNION {K(stack[i]) : i \in I}) \cup kids
      <3>1. Pending' = ToSet(enter') \cup UNION {K(stack'[i]) : i \in J}
        BY <1>2, <2>7 DEF Pending, K
      <3> QED
        BY <1>5, <1>11, <1>15, <1>16, <3>1
    <2>10. d \in Pending /\ d \notin UNION {K(stack[i]) : i \in I}
      BY <1>13, <1>15, <1>24
    <2>11. H \cup Pending' \subseteq NamedBy(Vol, Type, H)
      BY <1>2, <2>1, <2>3, <2>10
    <2>12. H \cap Pending' = {}
      BY <1>15, <2>1, <2>2, <2>9, <2>10
    <2> QED
      BY <2>8, <2>11, <2>12
  <1>25. Type = "ext" => H = seen'
    BY <1>1 DEF EnteredOnce
  <1> HIDE DEF H
  <1> QED
    BY <1>2, <1>22, <1>23, <1>24, <1>25 DEF EnteredOnce, H

Listed(b) == Without(dev, {"contiguous", "table"}, b)
AllWhole == dev.bad = {} /\ \A b \in DOMAIN dev.vols : Listed(b)

\* What waits has its own room, and nothing is planned in it yet.
PlannedApart ==
    /\ AllApart(work, BootSectors(dev))
    /\ \A i, j \in DOMAIN jobs : i # j => jobs[i] # jobs[j]
    /\ \A s \in ToSet(jobs) : Room(dev, s) \cap Covered(work) = {}

OnceInv ==
    /\ pc = "walk" => Once
    /\ (pc \in {"jobs", "walk", "planned"} /\ mode = "recursive" /\ AllWhole) => PlannedApart
    /\ (pc = "planned" /\ mode = "linear" /\ AllWhole) => AllApart(work, BootSectors(dev))

\* On a device that is whole the table and the partitions lie side by side.
LEMMA TablesLie ==
    ASSUME dev \in Devices, AllWhole
    PROVE  LET pm == probe_partitions(dev)
           IN  /\ HasTable(pm) => \A i, j \in DOMAIN pm.parts : i # j => pm.parts[i].off # pm.parts[j].off
               /\ \A b \in StartsOf(dev) :
                      /\ HasTable(pm) => Room(dev, b) \cap UnitsOf(TableRange(pm)) = {}
                      /\ \A c \in StartsOf(dev) : b # c => Room(dev, b) \cap Room(dev, c) = {}
  <1>1. Sound
    BY DEF Sound, AllWhole, Listed, Without
  <1> QED
    BY <1>1, TablesAssumption DEF Sound

\* A partition keeps to the room of its base.
LEMMA PartHasRoom ==
    ASSUME NEW d, NEW i \in DOMAIN probe_partitions(d).parts, probe_partitions(d).parts \in Seq(Ranges),
           \A j, k \in DOMAIN probe_partitions(d).parts :
               j # k => probe_partitions(d).parts[j].off # probe_partitions(d).parts[k].off
    PROVE  UnitsOf(probe_partitions(d).parts[i]) \subseteq Room(d, probe_partitions(d).parts[i].off)
  <1> DEFINE ps == probe_partitions(d).parts
             e == ps[i]
             at == {j \in DOMAIN ps : ps[j].off = e.off}
  <1>1. e.off \in Nat /\ e.len \in Nat /\ i \in Nat
    <2>1. e \in Ranges /\ i \in Nat
      OBVIOUS
    <2> QED
      BY <2>1 DEF Ranges
  <1>2. at = {i}
    OBVIOUS
  <1>3. Min({i}) = i
    BY <1>1 DEF Min
  <1>4. CASE e.len > 0
    <2>1. LinearLength(d, ps, e.off) = IF at # {} /\ ps[Min(at)].len > 0 THEN ps[Min(at)].len
                                       ELSE IF d.size > e.off THEN d.size - e.off ELSE 0
      BY DEF LinearLength
    <2>2. LinearLength(d, ps, e.off) = e.len
      <3> HIDE DEF at
      <3> QED
        BY <1>2, <1>3, <1>4, <2>1
    <2> QED
      BY <2>2 DEF Room, UnitsOf, Extent
  <1>5. CASE ~(e.len > 0)
    <2>1. UnitsOf(e) = {}
      <3> DEFINE x == e.off
                 y == e.len
      <3>1. x \in Nat /\ y = 0
        BY <1>1, <1>5
      <3>2. x..(x + y - 1) = {}
        <4> HIDE DEF x, y
        <4> QED
          BY <3>1
      <3> QED
        BY <3>2 DEF UnitsOf
    <2> QED
      BY <2>1
  <1> QED
    BY <1>4, <1>5

\* Linear mode: the table and the partitions, or the device, name nothing twice.
LEMMA LinearApart ==
    ASSUME PlanInv, PlanLinear, AllWhole
    PROVE  AllApart(work', BootSectors(dev))
  <1> DEFINE pm == probe_partitions(dev)
             ps == pm.parts
             all == <<TableRange(pm)>> \o ps
             k == Len(ps)
  <1>1. work' = IF ~pm.ok THEN <<>> ELSE IF HasTable(pm) THEN all ELSE <<WholeDevice>>
    BY DEF PlanLinear
  <1>2. AllApart(<<>>, BootSectors(dev)) /\ AllApart(<<WholeDevice>>, BootSectors(dev))
    BY DEF AllApart
  <1>3. dev \in Devices /\ ps \in Seq(Ranges)
    <2>1. dev \in Devices /\ IsTable(dev)
      BY DeviceIsOne DEF PlanInv
    <2> QED
      BY <2>1, ProbeType
  <1>4. ASSUME HasTable(pm) PROVE AllApart(all, BootSectors(dev))
    <2>1. /\ k \in Nat /\ DOMAIN ps = 1..k /\ DOMAIN all = 1..(k + 1) /\ all[1] = TableRange(pm)
          /\ \A i \in 2..(k + 1) : all[i] = ps[i - 1]
      BY <1>3
    <2>2. \A i, j \in DOMAIN ps : i # j => ps[i].off # ps[j].off
      BY <1>3, <1>4, TablesLie
    <2>3. \A i \in DOMAIN ps : UnitsOf(ps[i]) \subseteq Room(dev, ps[i].off) /\ ps[i].off \in StartsOf(dev)
      BY <1>3, <1>4, <2>2, PartHasRoom DEF StartsOf
    <2>4. ASSUME NEW i \in DOMAIN ps PROVE UnitsOf(TableRange(pm)) \cap UnitsOf(ps[i]) = {}
      BY <1>3, <1>4, <2>3, TablesLie
    <2>5. ASSUME NEW i \in DOMAIN ps, NEW j \in DOMAIN ps, i # j PROVE UnitsOf(ps[i]) \cap UnitsOf(ps[j]) = {}
      <3>1. Room(dev, ps[i].off) \cap Room(dev, ps[j].off) = {}
        BY <1>3, <2>2, <2>3, <2>5, TablesLie
      <3> QED
        BY <2>3, <3>1
    <2> HIDE DEF pm, ps, all, k
    <2>6. ASSUME NEW i \in 1..(k + 1), NEW j \in 1..(k + 1), i # j PROVE UnitsOf(all[i]) \cap UnitsOf(all[j]) = {}
      <3>1. \A x \in 1..(k + 1) : x = 1 \/ (x \in 2..(k + 1) /\ x - 1 \in 1..k)
        BY <2>1
      <3>2. CASE i = 1
        <4>1. j \in 2..(k + 1) /\ j - 1 \in 1..k
          BY <2>6, <3>1, <3>2
        <4> QED
          BY <2>1, <2>4, <3>2, <4>1
      <3>3. CASE j = 1
        <4>1. i \in 2..(k + 1) /\ i - 1 \in 1..k
          BY <2>6, <3>1, <3>3
        <4> QED
          BY <2>1, <2>4, <3>3, <4>1
      <3>4. CASE i # 1 /\ j # 1
        <4>1. i \in 2..(k + 1) /\ i - 1 \in 1..k /\ j \in 2..(k + 1) /\ j - 1 \in 1..k
          BY <3>1, <3>4
        <4>2. i - 1 # j - 1
          BY <2>6, <4>1
        <4> QED
          BY <2>1, <2>5, <4>1, <4>2
      <3> QED
        BY <3>2, <3>3, <3>4
    <2> QED
      BY <2>1, <2>6 DEF AllApart, Apart
  <1> HIDE DEF all, pm
  <1> QED
    BY <1>1, <1>2, <1>4

\* Bases that wait are as different as those that waited.
LEMMA TailJobs ==
    ASSUME jobs \in Seq(Nat), jobs # <<>>, \A i, j \in DOMAIN jobs : i # j => jobs[i] # jobs[j]
    PROVE  /\ Head(jobs) \in ToSet(jobs) /\ Head(jobs) \notin ToSet(Tail(jobs))
           /\ ToSet(Tail(jobs)) \subseteq ToSet(jobs)
           /\ \A i, j \in DOMAIN Tail(jobs) : i # j => Tail(jobs)[i] # Tail(jobs)[j]
  <1> DEFINE n == Len(jobs)
             t == Tail(jobs)
  <1>1. /\ n \in Nat /\ n >= 1 /\ DOMAIN jobs = 1..n /\ DOMAIN t = 1..(n - 1) /\ Head(jobs) = jobs[1]
        /\ \A i \in 1..(n - 1) : t[i] = jobs[i + 1]
    OBVIOUS
  <1> HIDE DEF n, t
  <1>2. 1 \in 1..n /\ \A i \in 1..(n - 1) : i + 1 \in 1..n /\ i + 1 # 1
    BY <1>1
  <1>3. \A i, j \in 1..(n - 1) : i # j => i + 1 # j + 1
    BY <1>1
  <1>4. \A i, j \in 1..n : i # j => jobs[i] # jobs[j]
    BY <1>1
  <1>5. ToSet(jobs) = {jobs[i] : i \in 1..n} /\ ToSet(t) = {t[i] : i \in 1..(n - 1)}
    BY <1>1 DEF ToSet
  <1>6. ASSUME NEW i \in 1..(n - 1) PROVE t[i] # jobs[1] /\ t[i] \in ToSet(jobs)
    <2>1. t[i] = jobs[i + 1] /\ i + 1 \in 1..n /\ i + 1 # 1
      BY <1>1, <1>2
    <2> QED
      BY <1>2, <1>4, <1>5, <2>1
  <1>7. jobs[1] \notin ToSet(t) /\ ToSet(t) \subseteq ToSet(jobs) /\ jobs[1] \in ToSet(jobs)
    BY <1>2, <1>5, <1>6
  <1>8. ASSUME NEW i \in 1..(n - 1), NEW j \in 1..(n - 1), i # j PROVE t[i] # t[j]
    BY <1>1, <1>2, <1>3, <1>4, <1>8
  <1> QED
    BY <1>1, <1>7, <1>8 DEF t

\* A job is done: what is planned for it lies in its own room.
LEMMA StaysApart ==
    ASSUME dev \in Devices, AllWhole, PlannedApart, dev' = dev, jobs \in Seq(Nat), jobs # <<>>, jobs' = Tail(jobs),
           ToSet(jobs) \subseteq StartsOf(dev), AllApart(work', BootSectors(dev)),
           NEW more, Covered(work') = Covered(work) \cup more, more \subseteq Room(dev, Head(jobs))
    PROVE  PlannedApart'
  <1> PICK h : h = Head(jobs)
    OBVIOUS
  <1>1. /\ h \in ToSet(jobs) /\ h \notin ToSet(jobs') /\ ToSet(jobs') \subseteq ToSet(jobs)
        /\ \A i, j \in DOMAIN jobs' : i # j => jobs'[i] # jobs'[j]
    BY TailJobs DEF PlannedApart
  <1>2. ASSUME NEW s \in ToSet(jobs') PROVE Room(dev, s) \cap Covered(work') = {}
    <2>1. Room(dev, s) \cap Covered(work) = {}
      BY <1>1 DEF PlannedApart
    <2>2. Room(dev, s) \cap Room(dev, h) = {}
      BY <1>1, TablesLie
    <2> QED
      BY <2>1, <2>2
  <1> QED
    BY <1>1, <1>2 DEF PlannedApart

LEMMA OnceInit == Init => OnceInv
  BY DEF Init, OnceInv

\* Every step enters directories once, and plans no unit that is planned.
LEMMA OnceNext == PlanInv /\ PlanInv' /\ CoverInv /\ FreeInv /\ OnceInv /\ [Next]_vars => OnceInv'
  <1> SUFFICES ASSUME PlanInv, PlanInv', CoverInv, FreeInv, OnceInv, [Next]_vars PROVE OnceInv'
    OBVIOUS
  <1> DEFINE pm == probe_partitions(dev)
  <1> PICK h : h = Head(jobs)
    OBVIOUS
  <1>0. dev \in Devices /\ jobs \in Seq(Nat) /\ work \in Seq(Ranges)
    BY DEF PlanInv
  <1>1. CASE PlanLinear
    <2>1. AllWhole' = AllWhole /\ pc' = "planned" /\ mode' = "linear" /\ dev' = dev
      BY <1>1 DEF PlanLinear, AllWhole, Listed
    <2>2. AllWhole => AllApart(work', BootSectors(dev))
      BY <1>1, LinearApart
    <2> QED
      BY <2>1, <2>2 DEF OnceInv
  <1>2. CASE PlanJobs
    <2>1. /\ pc' = "jobs" /\ mode = "recursive" /\ UNCHANGED <<dev, mode>>
          /\ jobs' = IF HasTable(pm) THEN [i \in DOMAIN pm.parts |-> pm.parts[i].off] ELSE <<0>>
          /\ work' = IF HasTable(pm) /\ pm.table > 0 THEN <<TableRange(pm)>> ELSE <<>>
      BY <1>2 DEF PlanJobs
    <2>2. ToSet(jobs') = StartsOf(dev)
      BY <1>2, FirstJobs
    <2>3. Covered(work') \subseteq (IF HasTable(pm) THEN UnitsOf(TableRange(pm)) ELSE {}) /\ AllApart(work', BootSectors(dev))
      BY <2>1 DEF Covered, AllApart
    <2>4. AllWhole' = AllWhole
      BY <2>1 DEF AllWhole, Listed
    <2>5. ASSUME AllWhole PROVE PlannedApart'
      <3>1. \A i, j \in DOMAIN jobs' : i # j => jobs'[i] # jobs'[j]
        <4>1. CASE HasTable(pm)
          <5>1. \A i, j \in DOMAIN pm.parts : i # j => pm.parts[i].off # pm.parts[j].off
            BY <1>0, <2>5, <4>1, TablesLie
          <5> HIDE DEF pm
          <5> QED
            BY <2>1, <4>1, <5>1
        <4>2. CASE ~HasTable(pm)
          BY <2>1, <4>2
        <4> QED
          BY <4>1, <4>2
      <3>2. \A s \in StartsOf(dev) : Room(dev, s) \cap Covered(work') = {}
        BY <1>0, <2>3, <2>5, TablesLie
      <3> QED
        BY <2>1, <2>2, <2>3, <3>1, <3>2 DEF PlannedApart
    <2> QED
      BY <2>1, <2>4, <2>5 DEF OnceInv
  <1>3. CASE RewriteUnknown
    <2> DEFINE e == Extent(h, LinearLength(dev, parts, h))
    <2>1. /\ pc = "jobs" /\ jobs # <<>> /\ work' = Append(work, e) /\ jobs' = Tail(jobs)
          /\ UNCHANGED <<dev, mode, pc>>
      BY <1>3 DEF RewriteUnknown
    <2>2. mode = "recursive" /\ ToSet(jobs) \subseteq StartsOf(dev)
      BY <2>1 DEF FreeInv
    <2>3. e \in Ranges
      <3>1. jobs # <<>> /\ parts \in Seq(Ranges)
        BY <2>1 DEF PlanInv
      <3>2. h \in Nat /\ dev.size \in Nat
        BY <1>0, <3>1, DeviceIsOne, Ends
      <3> QED
        BY <3>1, <3>2, LinearLengthType, ExtentInRanges
    <2> HIDE DEF e
    <2>4. UnitsOf(e) = Room(dev, h)
      BY <2>1, <2>2 DEF CoverInv, Room, e
    <2>5. AllWhole' = AllWhole
      BY <2>1 DEF AllWhole, Listed
    <2>6. ASSUME AllWhole PROVE PlannedApart'
      <3>1. PlannedApart
        BY <2>1, <2>2, <2>6 DEF OnceInv
      <3>2. h \in ToSet(jobs)
        BY <1>0, <2>1, <3>1, TailJobs DEF PlannedApart
      <3>3. Covered(work) \cap UnitsOf(e) = {} /\ AllApart(work, BootSectors(dev))
        BY <2>4, <3>1, <3>2 DEF PlannedApart
      <3>4. Covered(work') = Covered(work) \cup UnitsOf(e) /\ AllApart(work', BootSectors(dev))
        BY <1>0, <2>1, <2>3, <3>3, AppendCovers
      <3> QED
        BY <1>0, <2>1, <2>2, <2>4, <2>6, <3>1, <3>4, StaysApart
    <2> QED
      BY <2>1, <2>2, <2>5, <2>6 DEF OnceInv
  <1>4. ASSUME ScanFailed, UNCHANGED <<dev, mode, work>>, pc \in {"jobs", "walk"}, jobs # <<>>
        PROVE  OnceInv'
    <2>1. pc' = "jobs" /\ jobs' = Tail(jobs) /\ mode = "recursive" /\ ToSet(jobs) \subseteq StartsOf(dev)
      BY <1>4 DEF ScanFailed, FreeInv
    <2>2. AllWhole' = AllWhole
      BY <1>4 DEF AllWhole, Listed
    <2>3. ASSUME AllWhole PROVE PlannedApart'
      <3>1. PlannedApart
        BY <1>4, <2>1, <2>3 DEF OnceInv
      <3>2. Covered(work') = Covered(work) \cup {} /\ {} \subseteq Room(dev, Head(jobs)) /\ AllApart(work', BootSectors(dev))
        BY <1>4, <3>1 DEF PlannedApart
      <3> QED
        <4> DEFINE none == {}
        <4>1. Covered(work') = Covered(work) \cup none /\ none \subseteq Room(dev, Head(jobs)) /\ AllApart(work', BootSectors(dev))
          BY <3>2
        <4>2. dev' = dev /\ jobs # <<>> /\ jobs' = Tail(jobs) /\ ToSet(jobs) \subseteq StartsOf(dev)
          BY <1>4, <2>1
        <4> HIDE DEF none
        <4> QED
          BY <1>0, <2>3, <3>1, <4>1, <4>2, StaysApart
    <2> QED
      BY <1>4, <2>1, <2>2, <2>3 DEF OnceInv
  <1>5. ASSUME UNCHANGED <<dev, mode, jobs, work>>, pc \in {"jobs", "walk"}, pc' = "walk" => Once'
        PROVE  OnceInv'
    <2>1. AllWhole' = AllWhole /\ PlannedApart' = PlannedApart
      BY <1>5 DEF AllWhole, Listed, PlannedApart
    <2>2. mode = "recursive"
      BY <1>5 DEF FreeInv
    <2> QED
      BY <1>5, <2>1, <2>2 DEF OnceInv
  <1>6. CASE StartScan
    <2> DEFINE scan == scan_filesystem(Vol, Type)
    <2>1. pc = "jobs" /\ jobs # <<>> /\ UNCHANGED <<dev, mode, parts, work>> /\ AtRest
      BY <1>6 DEF StartScan, PlanInv
    <2>2. CASE ScanFailed
      BY <1>4, <2>1, <2>2
    <2>3. CASE pc' = "crashed" /\ UNCHANGED <<jobs, walking, rc>>
      BY <1>5, <2>1, <2>3
    <2>4. CASE pc' = "walk" /\ enter' = scan.enter /\ objects' = scan.objects /\ UNCHANGED <<jobs, stack, seen, rc>>
      <3>1. Type' = Type /\ Vol' = Vol
        BY <2>1, <2>4 DEF Type, Vol
      <3>2. 1..Len(stack') = {} /\ seen' = {}
        BY <2>1, <2>4 DEF AtRest
      <3>3. Pending' = ToSet(scan.enter) /\ Known' = FoundIn(scan.objects)
        BY <2>4, <3>2 DEF Pending, Known
      <3>4. ASSUME NEW S, NamedOnce(Vol, Type, S) PROVE EnteredOnce({})'
        <4>1. Distinct(objects', TwiceNamed(Type))
          BY <2>4, <3>4 DEF NamedOnce
        <4>2. ApartLists' /\ ApartKids'
          BY <3>1, <3>2, <4>1 DEF ApartLists, ApartKids
        <4>3. /\ Known' \subseteq FoundOf(Vol, Type, {})
              /\ {} \cup Pending' \subseteq NamedBy(Vol, Type, {})
          BY <3>3 DEF FoundOf, NamedBy
        <4> QED
          BY <3>1, <3>2, <4>2, <4>3 DEF EnteredOnce
      <3>5. Once'
        <4>1. \A S : {} \in SUBSET S
          OBVIOUS
        <4> QED
          BY <3>1, <3>4, <4>1 DEF Once
      <3> QED
        BY <1>5, <2>1, <2>4, <3>5
    <2> QED
      BY <1>6, <2>2, <2>3, <2>4 DEF StartScan
  <1>7. CASE EnterDirectory
    <2> PICK d : d = Head(enter)
      OBVIOUS
    <2>1. pc = "walk" /\ enter = <<d>> /\ UNCHANGED <<dev, mode, parts, work>> /\ ToSet(enter) = {d}
      BY <1>7, EnterCases, NothingIn
    <2>2. jobs # <<>> /\ Within /\ Once /\ d \in Pending
      BY <2>1, WalkFacts DEF FreeInv, OnceInv, Pending
    <2>3. CASE EnteredAgain(d)
      <3>1. /\ UNCHANGED <<pc, jobs, stack, seen, objects>> /\ Type' = Type /\ Vol' = Vol
            /\ Pending = {d} \cup Pending' /\ Known' = Known /\ d \in seen /\ Type = "ext"
        BY <1>7, <2>3, PassedOver DEF EnteredAgain, SeenBefore
      <3>2. \A G : EnteredOnce(G) => EnteredOnce(G)'
        BY <3>1 DEF EnteredOnce, ApartLists
      <3>3. Once'
        BY <2>2, <3>1, <3>2 DEF Once
      <3> QED
        BY <1>5, <2>1, <3>1, <3>3
    <2>4. CASE EnteredNew(d)
      <3>1. UNCHANGED <<pc, jobs>> /\ Type' = Type /\ Vol' = Vol
        BY <1>7, <2>4, WentIn DEF EnteredNew
      <3>2. ASSUME NEW S \in SUBSET Directories(Vol, Type), IsTree(Vol, Type, S), NamedOnce(Vol, Type, S)
            PROVE  \E G \in SUBSET S : EnteredOnce(G)'
        <4>1. d \in S
          BY <2>2, <3>2 DEF Within
        <4>2. PICK G \in SUBSET S : EnteredOnce(G)
          BY <2>2, <3>2 DEF Once
        <4>3. EnteredOnce(G \cup {d})'
          BY <1>7, <2>4, <3>2, <4>1, <4>2, OnceWentIn
        <4>4. G \cup {d} \in SUBSET S
          BY <4>1
        <4> QED
          BY <4>3, <4>4
      <3>3. Once'
        BY <3>1, <3>2 DEF Once
      <3> QED
        BY <1>5, <2>1, <3>1, <3>3
    <2>5. CASE ScanFailed
      BY <1>4, <2>1, <2>2, <2>5
    <2>6. CASE pc' = "overflow"
      BY <2>6 DEF OnceInv
    <2> QED
      BY <1>7, <2>3, <2>4, <2>5, <2>6, EnterCases
  <1>8. ASSUME pc = "walk", UNCHANGED <<dev, mode, pc, jobs, work>>, Type' = Type, Vol' = Vol,
               \A G : EnteredOnce(G) => EnteredOnce(G)'
        PROVE  OnceInv'
    <2>1. Once
      BY <1>8 DEF OnceInv
    <2>2. Once'
      BY <1>8, <2>1 DEF Once
    <2> QED
      BY <1>5, <1>8, <2>2
  <1>9. CASE TakeEntry
    <2>1. \A G : EnteredOnce(G) => EnteredOnce(G)'
      BY <1>9, OnceTook
    <2>2. pc = "walk" /\ UNCHANGED <<dev, mode, pc, jobs, work>>
      BY <1>9 DEF TakeEntry
    <2> QED
      BY <1>8, <1>9, <2>1, <2>2, Took
  <1>10. CASE LeaveDirectory
    <2>1. \A G : EnteredOnce(G) => EnteredOnce(G)'
      BY <1>10, OnceLeft
    <2>2. pc = "walk" /\ UNCHANGED <<dev, mode, pc, jobs, work>>
      BY <1>10 DEF LeaveDirectory
    <2> QED
      BY <1>8, <1>10, <2>1, <2>2, Left
  <1>11. CASE FinishScan
    <2>1. /\ pc = "walk" /\ work' = AddRanges(work, h, objects)
          /\ jobs' = Tail(jobs) /\ pc' = "jobs" /\ UNCHANGED <<dev, mode>>
      BY <1>11 DEF FinishScan
    <2>2. jobs # <<>> /\ h \in Nat /\ h \in DOMAIN dev.vols /\ Type # "unknown"
            /\ Vol = Volume(dev, h) /\ Type = detect_fs(dev, h)
      BY <2>1, WalkFacts DEF Type, Vol
    <2>3. mode = "recursive" /\ ToSet(jobs) \subseteq StartsOf(dev) /\ Within /\ Once
      BY <2>1 DEF FreeInv, OnceInv
    <2>4. AllWhole' = AllWhole
      BY <2>1 DEF AllWhole, Listed
    <2>5. objects \in Seq(Objects)
      BY DEF PlanInv
    <2>6. ASSUME AllWhole PROVE PlannedApart'
      <3>1. PlannedApart
        BY <2>1, <2>3, <2>6 DEF OnceInv
      <3>2. PICK S \in SUBSET Directories(Vol, Type) : IsTree(Vol, Type, S) /\ NamedOnce(Vol, Type, S)
        BY <1>0, <2>2, <2>6, WholeVolumesAssumption DEF AllWhole, Listed
      <3>3. Distinct(objects, TwiceNamed(Type))
        BY <2>3, <3>2 DEF Once, EnteredOnce, ApartLists
      <3>5. h \in ToSet(jobs)
        BY <1>0, <2>2, <3>1, TailJobs DEF PlannedApart
      <3>4. At(h, FoundIn(objects)) \subseteq Room(dev, h)
        <4>1. PICK T \in SUBSET Directories(Vol, Type) :
                 IsTree(Vol, Type, T) /\ At(h, FoundOf(Vol, Type, T)) \subseteq Room(dev, h)
          <5>1. Sound /\ h \in StartsOf(dev)
            BY <2>3, <2>6, <3>5 DEF AllWhole, Sound, Listed, Without
          <5> QED
            BY <1>0, <2>2, <5>1, SideBySide
        <4>2. FoundIn(objects) \subseteq FoundOf(Vol, Type, T)
          BY <2>3, <4>1 DEF Within, Known
        <4> QED
          BY <4>1, <4>2 DEF At
      <3>6. Covered(work) \cap At(h, FoundIn(objects)) = {} /\ AllApart(work, BootSectors(dev))
        BY <3>1, <3>4, <3>5 DEF PlannedApart
      <3>7. At(h, TwiceNamed(Type)) \subseteq BootSectors(dev)
        BY <2>2 DEF At, TwiceNamed, BootSectors, N!Boot
      <3>8. Covered(work') = Covered(work) \cup At(h, FoundIn(objects)) /\ AllApart(work', BootSectors(dev))
        BY <1>0, <2>1, <2>2, <2>5, <3>3, <3>6, <3>7, AddRangesCovers
      <3> QED
        BY <1>0, <2>1, <2>2, <2>3, <2>6, <3>1, <3>4, <3>8, StaysApart
    <2> QED
      BY <2>1, <2>3, <2>4, <2>6 DEF OnceInv
  <1>12. CASE PlanDone
    <2>1. pc = "jobs" /\ pc' = "planned" /\ UNCHANGED <<dev, mode, jobs, work>>
      BY <1>12 DEF PlanDone
    <2> QED
      BY <1>5, <2>1
  <1>13. CASE UNCHANGED vars
    <2>1. Type' = Type /\ Vol' = Vol
      BY <1>13 DEF Type, Vol, vars
    <2>2. Pending' = Pending /\ Known' = Known /\ UNCHANGED <<stack, enter, seen, objects>>
      BY <1>13, <2>1 DEF Pending, Known, vars, walking
    <2>3. Once' = Once
      BY <2>1, <2>2 DEF Once, EnteredOnce, ApartLists, ApartKids
    <2>4. AllWhole' = AllWhole /\ PlannedApart' = PlannedApart
      BY <1>13 DEF AllWhole, Listed, PlannedApart, vars
    <2> QED
      BY <1>13, <2>3, <2>4 DEF OnceInv, vars
  <1> QED
    BY <1>1, <1>2, <1>3, <1>6, <1>7, <1>9, <1>10, <1>11, <1>12, <1>13 DEF Next

\* No unit is planned twice: on devices that are whole, where every structure
\* names what no other does, the walk enters no directory twice, and the table,
\* the volumes and the partitions without one keep to their own room, and only the
\* boot sector of an NTFS volume is planned again, with $Boot (ntfs.cpp:178, 229);
\* on any device, no object of a FAT or exFAT volume has a unit twice.
THEOREM NothingIsPlannedTwice == Spec => []PlannedOnce
  <1>1. PlanInv /\ PlanInv' /\ CoverInv /\ FreeInv /\ OnceInv /\ [Next]_vars => OnceInv'
    BY OnceNext
  <1>2. PlanInv /\ CoverInv /\ FreeInv /\ [Next]_vars /\ PlanInv' => FreeInv'
    BY FreeNext
  <1>3. PlanInv /\ OnceInv => PlannedOnce
    BY DEF PlanInv, OnceInv, PlannedApart, PlannedOnce, NothingTwice, AllWhole, Listed, Bases
  <1> QED
    BY <1>1, <1>2, <1>3, FreeInit, OnceInit, Planning, Covering, PTL DEF Spec

=============================================================================
