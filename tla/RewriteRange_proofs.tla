------------------------- MODULE RewriteRange_proofs ------------------------
(***************************************************************************)
(* Properties of the block loop that hold for every work list, block size  *)
(* and alignment, and whether or not the ranges overlap: the map only      *)
(* moves forward, a recorded bad extent and nothing else is red, every     *)
(* byte gone through is good or bad, in write-through mode a good one is   *)
(* on the media, and nothing outside the work list is ever touched; what   *)
(* the map shows green is on the media, and the counter counts each byte   *)
(* of each range once.                                                     *)
(***************************************************************************)
EXTENDS RewriteRange, Listings

\* Where rewrite_range is inside a range, and inside a block of it.
InRange == {"boundary", "read", "write", "fdatasync", "verify", "mark", "probe"}
InBlock == {"read", "write", "fdatasync", "verify", "mark"}

TypeInv ==
    /\ list \in WorkLists /\ size \in BlockSizes
    /\ flags \in [dry: BOOLEAN, through: BOOLEAN, verify: BOOLEAN, direct: BOOLEAN]
    /\ cells \in [DOMAIN cells -> CellStatus]
    /\ item \in Nat \ {0} /\ pos \in Nat
    /\ pc \in InRange \cup {"items", "left", "flush", "sync", "synced", "done", "hashed", "finished"}

\* Inside a range the worker is between its ends, inside a block before its end.
PlaceInv ==
    /\ pc \in InRange => item <= Len(list) /\ list[item].off <= pos /\ pos <= EndOf(list[item])
    /\ pc \in InBlock => pos < EndOf(list[item])

\* What was gone through lies in the ranges before, or before pos in this one.
Earlier(p) ==
    /\ p[1] \in 1..(item - 1) /\ p[1] \in DOMAIN list
    /\ p[2] \in Units(list[p[1]].off, list[p[1]].len)
Before(p) == pc \in InRange /\ p[1] = item /\ p[2] \in list[item].off .. (pos - 1)
SeenInv == \A p \in seen : p \in Nat \X Nat /\ (Earlier(p) \/ Before(p))

\* Of the range at hand everything before pos was gone through, and the last
\* probe comes at its end.
CompleteInv ==
    /\ pc \in InRange => {item} \X Units(list[item].off, pos - list[item].off) \subseteq seen
    /\ pc = "probe" => pos = EndOf(list[item])
    /\ ~stop => \A i \in 1..(item - 1) :
                   Skipped \/ {i} \X Units(list[i].off, list[i].len) \subseteq seen

\* In write-through mode the block being written is on the media once the
\* worker is past its writes: fdatasync has no error to report of it.
DurableInv ==
    flags.through /\ ~flags.dry =>
        /\ Fine \cap Once \cap (dirty \cup lost) = {}
        /\ pc = "fdatasync" /\ ~eio => Here \cap lost = {}
        /\ pc \in {"verify", "mark"} => Here \cap (dirty \cup lost) = {}

LoopInv == TypeInv /\ PlaceInv /\ SeenInv

-----------------------------------------------------------------------------
(* Division by a number that is not a literal. *)

\* Division with its rest.
LEMMA Division ==
    ASSUME NEW s \in Nat \ {0}, NEW u \in Nat
    PROVE  u \div s \in Nat /\ u % s \in 0..(s-1) /\ u = s * (u \div s) + (u % s)
  OBVIOUS

\* A smaller factor gives a smaller multiple.
LEMMA MulMono ==
    ASSUME NEW s \in Nat \ {0}, NEW p \in Nat, NEW q \in Nat, p < q
    PROVE  s * p + s <= s * q
  OBVIOUS

\* A multiple divides without a rest.
LEMMA Multiple ==
    ASSUME NEW s \in Nat \ {0}, NEW k \in Nat
    PROVE  s * k \in Nat /\ (s * k) % s = 0 /\ (s * k) \div s = k
  <1> DEFINE m == s * k
             q == m \div s
             r == m % s
  <1>1. m \in Nat
    OBVIOUS
  <1>2. q \in Nat /\ r \in 0..(s - 1) /\ m = s * q + r
    BY <1>1, Division
  <1>3. m = s * k
    OBVIOUS
  <1> HIDE DEF m, q, r
  <1>4. s * q \in Nat
    BY <1>2
  <1>5. ~(q < k)
    <2> SUFFICES ASSUME q < k PROVE FALSE
      OBVIOUS
    <2>1. s * q + s <= s * k
      BY <1>2, MulMono
    <2> QED
      BY <1>1, <1>2, <1>3, <1>4, <2>1
  <1>6. ~(k < q)
    <2> SUFFICES ASSUME k < q PROVE FALSE
      OBVIOUS
    <2>1. s * k + s <= s * q
      BY <1>2, MulMono
    <2> QED
      BY <1>1, <1>2, <1>3, <1>4, <2>1
  <1>7. q = k
    BY <1>2, <1>5, <1>6
  <1>8. r = 0
    BY <1>2, <1>3, <1>4, <1>7
  <1> QED
    BY <1>1, <1>7, <1>8 DEF m, q, r

-----------------------------------------------------------------------------
(* What one block is. *)

\* A block size cut to the alignment is no larger than before.
LEMMA CutDown ==
    ASSUME NEW c \in Nat, NEW a \in Nat \ {0}
    PROVE  c - (c % a) \in Nat /\ c - (c % a) <= c
  OBVIOUS

\* The block size is a number of units.
LEMMA BlockSizeType == size \in BlockSizes => BlockSize \in Nat
  <1> SUFFICES ASSUME size \in BlockSizes PROVE BlockSize \in Nat
    OBVIOUS
  <1>1. size \in Nat \ {0} /\ Align \in Nat \ {0}
    BY RangeAssumption
  <1>2. CeilDiv(size, Align) \in Nat
    BY <1>1 DEF CeilDiv
  <1>3. CeilDiv(size, Align) * Align \in Nat
    BY <1>1, <1>2
  <1> QED
    BY <1>1, <1>3 DEF BlockSize

\* A range of a work list has an offset and a length.
LEMMA RangeType ==
    ASSUME list \in WorkLists, NEW i \in DOMAIN list
    PROVE  list[i].off \in Nat /\ list[i].len \in Nat \ {0} /\ EndOf(list[i]) \in Nat
  <1>1. list \in Seq([off: Nat, len: Nat \ {0}])
    BY RangeAssumption
  <1> DEFINE Ranges == [off: Nat, len: Nat \ {0}]
  <1>2. \A s \in Seq(Ranges) : \A k \in DOMAIN s : s[k] \in Ranges
    <2> HIDE DEF Ranges
    <2>1. \A s \in Seq(Ranges) : DOMAIN s = 1..Len(s)
      OBVIOUS
    <2> QED
      BY <2>1, ElementOfSeq
  <1>3. list[i] \in Ranges
    BY <1>1, <1>2
  <1> QED
    BY <1>3 DEF EndOf

\* A block ends with its range at the latest.
LEMMA ChunkFits ==
    ASSUME TypeInv, PlaceInv, pc \in InBlock
    PROVE  /\ item \in DOMAIN list
           /\ Chunk \in Nat /\ pos + Chunk <= EndOf(list[item])
           /\ \A u \in Here : u \in Nat /\ pos <= u /\ u < pos + Chunk
  <1>1. item \in DOMAIN list
    <2>1. list \in Seq([off: Nat, len: Nat \ {0}])
      BY RangeAssumption DEF TypeInv
    <2> QED
      BY <2>1 DEF TypeInv, PlaceInv, InBlock, InRange
  <1>2. EndOf(list[item]) \in Nat /\ pos \in Nat /\ pos < EndOf(list[item])
    BY <1>1, RangeType DEF TypeInv, PlaceInv
  <1> DEFINE rest == EndOf(list[item]) - pos
             c == Least(BlockSize, rest)
  <1>3. c \in Nat /\ c <= rest
    BY <1>2, BlockSizeType DEF TypeInv, Least
  <1>4. c - (c % Align) \in Nat /\ c - (c % Align) <= c
    BY <1>3, CutDown, RangeAssumption
  <1>5. Chunk = IF Direct /\ c < rest THEN c - (c % Align) ELSE c
    BY DEF Chunk
  <1> HIDE DEF c
  <1>6. Chunk \in Nat /\ Chunk <= rest
    BY <1>2, <1>3, <1>4, <1>5
  <1> QED
    BY <1>1, <1>2, <1>6 DEF Here, Units

\* A block size rounded up to the alignment is a multiple of it.
LEMMA RoundUp ==
    ASSUME NEW a \in Nat \ {0}, NEW n \in Nat \ {0}
    PROVE  CeilDiv(n, a) * a \in Nat \ {0} /\ (CeilDiv(n, a) * a) % a = 0
  <1>1. CeilDiv(n, a) \in Nat \ {0}
    <2> DEFINE u == n + a - 1
    <2>1. u \in Nat /\ u >= a
      OBVIOUS
    <2>2. CeilDiv(n, a) = u \div a
      BY DEF CeilDiv
    <2> HIDE DEF u
    <2>3. u \div a \in Nat /\ u % a \in 0..(a - 1) /\ u = a * (u \div a) + (u % a)
      BY <2>1, Division
    <2>4. u \div a # 0
      BY <2>1, <2>3
    <2> QED
      BY <2>2, <2>3, <2>4
  <1>2. CeilDiv(n, a) * a = a * CeilDiv(n, a)
    BY <1>1
  <1>3. a * CeilDiv(n, a) # 0
    BY <1>1
  <1> QED
    BY <1>1, <1>2, <1>3, Multiple

\* Before the end of a range there is always another block.
LEMMA ChunkIsSome ==
    ASSUME TypeInv, PlaceInv, pc \in InRange, pos < EndOf(list[item])
    PROVE  Chunk # 0
  <1>1. item \in DOMAIN list
    <2>1. list \in Seq([off: Nat, len: Nat \ {0}])
      BY RangeAssumption DEF TypeInv
    <2> QED
      BY <2>1 DEF TypeInv, PlaceInv
  <1>2. EndOf(list[item]) \in Nat /\ pos \in Nat
    BY <1>1, RangeType DEF TypeInv
  <1>3. BlockSize \in Nat \ {0} /\ (Direct => BlockSize % Align = 0)
    BY RoundUp, RangeAssumption DEF TypeInv, BlockSize
  <1> DEFINE rest == EndOf(list[item]) - pos
             c == Least(BlockSize, rest)
  <1>4. c \in Nat \ {0} /\ (c = BlockSize \/ c = rest)
    BY <1>2, <1>3 DEF Least
  <1>5. Chunk = IF Direct /\ c < rest THEN c - (c % Align) ELSE c
    BY DEF Chunk
  <1> QED
    BY <1>2, <1>3, <1>4, <1>5

\* No block of a range is gone through twice.
LEMMA BlockIsNew ==
    ASSUME LoopInv, pc \in InBlock
    PROVE  Block \cap seen = {}
  <1> SUFFICES ASSUME NEW u \in Here, <<item, u>> \in seen PROVE FALSE
    BY DEF Block
  <1> USE DEF LoopInv
  <1>1. item \in Nat /\ u \in Nat /\ pos <= u
    BY ChunkFits DEF TypeInv
  <1>2. ~Earlier(<<item, u>>)
    BY <1>1 DEF Earlier
  <1>3. ~Before(<<item, u>>)
    <2>1. list[item].off \in Nat /\ pos \in Nat
      BY ChunkFits, RangeType DEF TypeInv
    <2> QED
      BY <1>1, <2>1 DEF Before
  <1> QED
    BY <1>2, <1>3 DEF SeenInv

\* What was gone through is part of its range.
LEMMA SeenInRange ==
    ASSUME LoopInv, NEW u \in Gone
    PROVE  /\ u \in Nat
           /\ \E i \in DOMAIN list : <<i, u>> \in seen /\ u \in Units(list[i].off, list[i].len)
  <1> USE DEF LoopInv
  <1>1. PICK p \in seen : p[2] = u
    BY DEF Gone
  <1>2. p \in Nat \X Nat /\ (Earlier(p) \/ Before(p))
    BY DEF SeenInv
  <1>3. p = <<p[1], u>> /\ u \in Nat
    BY <1>1, <1>2
  <1>4. p[1] \in DOMAIN list /\ u \in Units(list[p[1]].off, list[p[1]].len)
    <2>1. CASE Earlier(p)
      BY <1>1, <2>1 DEF Earlier
    <2>2. CASE Before(p)
      <3>1. item \in DOMAIN list
        <4>1. list \in Seq([off: Nat, len: Nat \ {0}])
          BY RangeAssumption DEF TypeInv
        <4> QED
          BY <2>2, <4>1 DEF TypeInv, PlaceInv, Before
      <3>2. p[1] = item /\ u \in list[item].off .. (pos - 1) /\ pos <= EndOf(list[item])
        BY <1>1, <2>2 DEF Before, PlaceInv
      <3>3. list[item].off \in Nat /\ list[item].len \in Nat /\ pos \in Nat
        BY <3>1, RangeType DEF TypeInv
      <3> QED
        BY <3>1, <3>2, <3>3 DEF Units, EndOf
    <2> QED
      BY <1>2, <2>1, <2>2
  <1> QED
    BY <1>1, <1>3, <1>4

\* A byte of the block at hand that was gone through before was so in another
\* range that has it.
LEMMA HereAgain ==
    ASSUME LoopInv, pc \in InBlock, NEW u \in Here, u \in Gone
    PROVE  \E i \in DOMAIN list : /\ i # item /\ item \in DOMAIN list
                                  /\ u \in Units(list[i].off, list[i].len)
                                  /\ u \in Units(list[item].off, list[item].len)
  <1>1. PICK i \in DOMAIN list : <<i, u>> \in seen /\ u \in Units(list[i].off, list[i].len)
    BY SeenInRange
  <1>2. i # item
    BY <1>1, BlockIsNew DEF Block
  <1>3. item \in DOMAIN list /\ Chunk \in Nat /\ pos + Chunk <= EndOf(list[item])
    BY ChunkFits DEF LoopInv
  <1>4. u \in Units(list[item].off, list[item].len)
    <2>1. /\ list[item].off \in Nat /\ list[item].len \in Nat
          /\ list[item].off <= pos /\ pos \in Nat
      BY <1>3, RangeType DEF LoopInv, TypeInv, PlaceInv, InBlock, InRange
    <2>2. u \in Nat /\ pos <= u /\ u < pos + Chunk
      BY ChunkFits DEF LoopInv
    <2> QED
      BY <1>3, <2>1, <2>2 DEF Units, EndOf
  <1> QED
    BY <1>1, <1>2, <1>3, <1>4

\* So no byte of one range only is gone through twice.
LEMMA HereIsNew ==
    ASSUME LoopInv, pc \in InBlock
    PROVE  Here \cap Once \cap Gone = {}
  BY HereAgain DEF Once

\* The bytes of one more block.
LEMMA GoneGrows ==
    ASSUME seen' = seen \cup Block PROVE Gone' = Gone \cup Here
  <1>1. ASSUME NEW u \in Here PROVE u \in Gone'
    <2>1. <<item, u>> \in seen' /\ <<item, u>>[2] = u
      BY <1>1 DEF Block
    <2> QED
      BY <2>1 DEF Gone
  <1>2. ASSUME NEW u \in Gone PROVE u \in Gone'
    BY <1>2 DEF Gone
  <1>3. ASSUME NEW u \in Gone' PROVE u \in Gone \cup Here
    <2>1. PICK p \in seen' : u = p[2]
      BY <1>3 DEF Gone
    <2>2. p \in seen => u \in Gone
      BY <2>1 DEF Gone
    <2>3. p \in Block => u \in Here
      BY <2>1 DEF Block
    <2> QED
      BY <2>1, <2>2, <2>3
  <1> QED
    BY <1>1, <1>2, <1>3
LEMMA FineGrows ==
    ASSUME good' = good \cup Block PROVE Fine' = Fine \cup Here
  <1>1. ASSUME NEW u \in Here PROVE u \in Fine'
    <2>1. <<item, u>> \in good' /\ <<item, u>>[2] = u
      BY <1>1 DEF Block
    <2> QED
      BY <2>1 DEF Fine
  <1>2. ASSUME NEW u \in Fine PROVE u \in Fine'
    BY <1>2 DEF Fine
  <1>3. ASSUME NEW u \in Fine' PROVE u \in Fine \cup Here
    <2>1. PICK p \in good' : u = p[2]
      BY <1>3 DEF Fine
    <2>2. p \in good => u \in Fine
      BY <2>1 DEF Fine
    <2>3. p \in Block => u \in Here
      BY <2>1 DEF Block
    <2> QED
      BY <2>1, <2>2, <2>3
  <1> QED
    BY <1>1, <1>2, <1>3

-----------------------------------------------------------------------------
(* What a mark does to the map, and where a block leads. *)

\* A mark keeps the map a map, and moves no cell backward.
LEMMA MarkForward ==
    ASSUME NEW map, map \in [DOMAIN map -> CellStatus],
           NEW off, NEW len, NEW st \in CellStatus \ {"Pending"}
    PROVE  LET after == MarkCells(map, off, len, st)
           IN  /\ DOMAIN after = DOMAIN map
               /\ after \in [DOMAIN map -> CellStatus]
               /\ \A c \in DOMAIN map : Rank[after[c]] >= Rank[map[c]]
  <1>1. \A cur \in CellStatus :
            Marked(cur, st) \in CellStatus /\ Rank[Marked(cur, st)] >= Rank[cur]
    BY DEF Marked, Rank, CellStatus, Failures
  <1>2. \A cur \in CellStatus : Rank[cur] \in Nat
    BY DEF Rank, CellStatus, Failures
  <1> QED
    BY <1>1, <1>2 DEF MarkCells

\* Whichever way a block ends, the worker is back at a boundary of the range.
LEMMA Advance ==
    ASSUME LoopInv, pc \in InBlock, PastBlock, UNCHANGED <<list, item>>
    PROVE  pos' \in Nat /\ PlaceInv' /\ SeenInv'
  <1> USE DEF LoopInv
  <1>1. item \in DOMAIN list /\ Chunk \in Nat /\ pos + Chunk <= EndOf(list[item])
    BY ChunkFits
  <1>2. \A u \in Here : u \in Nat /\ pos <= u /\ u < pos + Chunk
    BY ChunkFits
  <1>3. list[item].off \in Nat /\ list[item].off <= pos /\ item <= Len(list)
    BY <1>1, RangeType DEF TypeInv, PlaceInv, InBlock, InRange
  <1>4. pc' = "boundary" /\ pos' = pos + Chunk /\ seen' = seen \cup Block
    BY DEF PastBlock
  <1>5. PlaceInv'
    BY <1>1, <1>3, <1>4 DEF PlaceInv, InBlock, InRange, TypeInv, EndOf
  <1>6. SeenInv'
    <2> SUFFICES ASSUME NEW p \in seen'
                 PROVE  p \in Nat \X Nat /\ (Earlier(p) \/ Before(p))'
      BY DEF SeenInv
    <2>1. CASE p \in Block
      <3>1. PICK u \in Here : p = <<item, u>>
        BY <2>1 DEF Block
      <3>2. u \in Nat /\ pos <= u /\ u < pos + Chunk
        BY <1>2
      <3>3. u \in list[item].off .. (pos + Chunk - 1)
        BY <1>1, <1>3, <3>2 DEF TypeInv
      <3>4. p \in Nat \X Nat /\ p[1] = item /\ p[2] = u
        BY <3>1, <3>2 DEF TypeInv
      <3> QED
        BY <1>1, <1>3, <1>4, <3>3, <3>4 DEF Before, TypeInv, InRange
    <2>2. CASE p \in seen /\ Earlier(p)
      BY <2>2 DEF Earlier, SeenInv
    <2>3. CASE p \in seen /\ Before(p)
      <3>1. p[1] = item /\ p[2] \in list[item].off .. (pos - 1) /\ p \in Nat \X Nat
        BY <2>3 DEF Before, SeenInv
      <3> QED
        BY <1>1, <1>3, <1>4, <3>1 DEF Before, TypeInv, InRange
    <2> QED
      BY <1>4, <2>1, <2>2, <2>3 DEF SeenInv
  <1> QED
    BY <1>1, <1>4, <1>5, <1>6 DEF TypeInv

\* Leaving a range, what was gone through in it is in an earlier one.
LEMMA LeaveRange ==
    ASSUME LoopInv, pc \in InRange, pc' = "items", item' = item + 1,
           UNCHANGED <<list, seen>>
    PROVE  SeenInv'
  <1> USE DEF LoopInv
  <1>1. item \in DOMAIN list
    <2>1. list \in Seq([off: Nat, len: Nat \ {0}])
      BY RangeAssumption DEF TypeInv
    <2> QED
      BY <2>1 DEF TypeInv, PlaceInv
  <1>2. list[item].off \in Nat /\ EndOf(list[item]) \in Nat /\ pos <= EndOf(list[item])
    BY <1>1, RangeType DEF TypeInv, PlaceInv
  <1>3. SUFFICES ASSUME NEW p \in seen PROVE p \in Nat \X Nat /\ Earlier(p)'
    BY DEF SeenInv
  <1>4. p \in Nat \X Nat
    BY DEF SeenInv
  <1>5. CASE Earlier(p)
    BY <1>4, <1>5 DEF Earlier, TypeInv
  <1>6. CASE Before(p)
    <2>1. p[1] = item /\ p[2] \in Units(list[item].off, list[item].len)
      BY <1>1, <1>2, <1>6, RangeType DEF Before, Units, EndOf, TypeInv
    <2> QED
      BY <1>1, <1>4, <2>1 DEF Earlier, TypeInv
  <1> QED
    BY <1>5, <1>6 DEF SeenInv

\* Steps that stay where they are keep what was gone through.
LEMMA StayInRange ==
    ASSUME LoopInv, pc \in InRange, pc' \in InRange,
           UNCHANGED <<list, item, pos, seen>>
    PROVE  SeenInv'
  BY DEF LoopInv, SeenInv, Earlier, Before, InRange

LEMMA StayOutside ==
    ASSUME LoopInv, pc \notin InRange, item' \in {item, item + 1}, UNCHANGED <<list, seen>>
    PROVE  SeenInv'
  BY DEF LoopInv, TypeInv, SeenInv, Earlier, Before

-----------------------------------------------------------------------------
(* The place of the worker, and what it has gone through. *)

\* An error moves past the block like a good one.
LEMMA FailStep ==
    ASSUME LoopInv, pc \in InBlock, NEW kind \in Failures, Fail(kind)
    PROVE  LoopInv'
  <1>1. PastBlock /\ UNCHANGED <<list, flags, size, item>>
    BY DEF Fail, setup
  <1>2. pos' \in Nat /\ PlaceInv' /\ SeenInv'
    BY <1>1, Advance
  <1>3. cells' \in [DOMAIN cells -> CellStatus] /\ DOMAIN cells' = DOMAIN cells
    <2>1. kind \in CellStatus \ {"Pending"} /\ cells' = MarkCells(cells, pos, Chunk, kind)
      BY DEF Fail, CellStatus, Failures
    <2> QED
      BY <2>1, MarkForward DEF LoopInv, TypeInv
  <1>4. pc' = "boundary"
    BY <1>1 DEF PastBlock
  <1> QED
    BY <1>1, <1>2, <1>3, <1>4 DEF LoopInv, TypeInv, InRange

\* Marking a good block, and promoting the ones before it.
LEMMA MarkCellsStep ==
    ASSUME LoopInv, Mark
    PROVE  /\ DOMAIN cells' = DOMAIN cells
           /\ cells' \in [DOMAIN cells -> CellStatus]
           /\ \A c \in DOMAIN cells : Rank[cells'[c]] >= Rank[cells[c]]
  <1> DEFINE blue == MarkCells(cells, pos, Chunk, "Cached")
             from == IF cached.have THEN cached.from ELSE pos
             range == [have |-> TRUE, from |-> from, to |-> pos + Chunk]
  <1>1. "Ok" \in CellStatus \ {"Pending"} /\ "Cached" \in CellStatus \ {"Pending"}
    BY DEF CellStatus
  <1>2. cells \in [DOMAIN cells -> CellStatus]
    BY DEF LoopInv, TypeInv
  <1>3. /\ DOMAIN blue = DOMAIN cells /\ blue \in [DOMAIN cells -> CellStatus]
        /\ \A c \in DOMAIN cells : Rank[blue[c]] >= Rank[cells[c]]
    BY <1>1, <1>2, MarkForward
  <1>4. \/ cells' = MarkCells(cells, pos, Chunk, "Ok")
        \/ cells' = blue
        \/ cells' = Promote(blue, range)
    BY DEF Mark
  <1>5. CASE cells' = MarkCells(cells, pos, Chunk, "Ok")
    BY <1>1, <1>2, <1>5, MarkForward
  <1>6. CASE cells' = Promote(blue, range)
    <2>1. cells' = MarkCells(blue, range.from, range.to - range.from, "Ok")
      BY <1>6 DEF Promote
    <2> HIDE DEF blue, range
    <2>2. /\ DOMAIN cells' = DOMAIN cells /\ cells' \in [DOMAIN cells -> CellStatus]
          /\ \A c \in DOMAIN cells : Rank[cells'[c]] >= Rank[blue[c]]
      BY <1>1, <1>3, <2>1, MarkForward
    <2>3. \A s \in CellStatus : Rank[s] \in Nat
      BY DEF Rank, CellStatus, Failures
    <2> QED
      BY <1>2, <1>3, <2>2, <2>3
  <1> QED
    BY <1>3, <1>4, <1>5, <1>6

\* The map after any step: a map of the same cells, none of them back.
LEMMA CellsStep ==
    ASSUME LoopInv, [Next]_vars
    PROVE  /\ DOMAIN cells' = DOMAIN cells
           /\ cells' \in [DOMAIN cells -> CellStatus]
           /\ \A c \in DOMAIN cells : Rank[cells'[c]] >= Rank[cells[c]]
  <1>1. \A s \in CellStatus : Rank[s] \in Nat
    BY DEF Rank, CellStatus, Failures
  <1>2. cells \in [DOMAIN cells -> CellStatus]
    BY DEF LoopInv, TypeInv
  <1>3. ASSUME UNCHANGED cells
        PROVE  /\ DOMAIN cells' = DOMAIN cells
               /\ cells' \in [DOMAIN cells -> CellStatus]
               /\ \A c \in DOMAIN cells : Rank[cells'[c]] >= Rank[cells[c]]
    BY <1>1, <1>2, <1>3
  <1>4. ASSUME NEW off, NEW len, NEW st \in CellStatus \ {"Pending"},
               cells' = MarkCells(cells, off, len, st)
        PROVE  /\ DOMAIN cells' = DOMAIN cells
               /\ cells' \in [DOMAIN cells -> CellStatus]
               /\ \A c \in DOMAIN cells : Rank[cells'[c]] >= Rank[cells[c]]
    BY <1>2, <1>4, MarkForward
  <1>5. "Ok" \in CellStatus \ {"Pending"} /\ Failures \subseteq CellStatus \ {"Pending"}
    BY DEF CellStatus, Failures
  <1>6. CASE \E kind \in Failures : Fail(kind)
    BY <1>4, <1>5, <1>6 DEF Fail
  <1>7. CASE Mark
    BY <1>7, MarkCellsStep
  <1>8. CASE Probe
    BY <1>3, <1>4, <1>5, <1>8 DEF Probe, Promote
  <1>9. CASE Upgrade
    BY <1>2, <1>9 DEF Upgrade, Upgraded, Rank, CellStatus, Failures
  <1>10. CASE HashFile
    BY <1>3, <1>4, <1>5, <1>10 DEF HashFile, Failures
  <1>11. CASE UNCHANGED cells
    BY <1>3, <1>11
  <1>12. \/ \E kind \in Failures : Fail(kind)
         \/ Mark \/ Probe \/ Upgrade \/ HashFile \/ UNCHANGED cells
    BY DEF Next, Worker, NextRange, Boundary, Read, WriteDirect, WriteBuffered, Fdatasync,
           Verify, LeaveLoop, FlushCheck, Sync, Finish, Writeback, RequestStop, Failures, vars, progress
  <1> QED
    BY <1>6, <1>7, <1>8, <1>9, <1>10, <1>11, <1>12

LEMMA SetupFixed == [Next]_vars => UNCHANGED setup
  BY DEF Next, Worker, NextRange, Boundary, Read, WriteDirect, WriteBuffered, Fdatasync,
         Verify, Mark, Probe, LeaveLoop, FlushCheck, Sync, Upgrade, HashFile, Finish, Writeback, RequestStop,
         Fail, vars, setup

LEMMA InitLoop == Init => LoopInv
  <1> SUFFICES ASSUME Init PROVE LoopInv
    OBVIOUS
  <1>1. cells \in [DOMAIN cells -> CellStatus]
    BY DEF Init, CellStatus
  <1> QED
    BY <1>1 DEF Init, LoopInv, TypeInv, PlaceInv, SeenInv, InRange, InBlock

LEMMA NextLoop == LoopInv /\ [Next]_vars => LoopInv'
  <1> SUFFICES ASSUME LoopInv, [Next]_vars PROVE LoopInv'
    OBVIOUS
  <1>1. cells' \in [DOMAIN cells' -> CellStatus]
    BY CellsStep
  <1>2. UNCHANGED <<list, flags, size>>
    BY SetupFixed DEF setup
  <1>3. \A i \in DOMAIN list : list[i].off \in Nat /\ list[i].len \in Nat \ {0}
    BY RangeType DEF LoopInv, TypeInv
  <1>4. \A i \in 1..Len(list) : i \in DOMAIN list
    <2>1. list \in Seq([off: Nat, len: Nat \ {0}])
      BY RangeAssumption DEF LoopInv, TypeInv
    <2> QED
      BY <2>1
  <1>5. CASE NextRange
    <2>1. SeenInv'
      BY <1>5, StayOutside DEF NextRange, InRange, setup
    <2>2. TypeInv' /\ PlaceInv'
      BY <1>1, <1>2, <1>3, <1>4, <1>5
      DEF NextRange, LoopInv, TypeInv, PlaceInv, InRange, InBlock, EndOf
    <2> QED
      BY <2>1, <2>2 DEF LoopInv
  <1>6. CASE Boundary
    <2>1. pc = "boundary" /\ UNCHANGED <<list, pos, seen>>
      BY <1>6 DEF Boundary, setup
    <2>2. CASE pc' = "items" /\ item' = item + 1
      <3>1. SeenInv'
        BY <2>1, <2>2, LeaveRange DEF InRange
      <3> QED
        BY <1>1, <1>2, <2>1, <2>2, <3>1 DEF LoopInv, TypeInv, PlaceInv, InRange, InBlock
    <2>3. CASE pc' \in {"probe", "read"} /\ UNCHANGED item
      <3>1. SeenInv'
        BY <2>1, <2>3, StayInRange DEF InRange
      <3>2. pc' = "read" => pos < EndOf(list[item])
        BY <1>6, <2>3 DEF Boundary
      <3> QED
        BY <1>1, <1>2, <2>1, <2>3, <3>1, <3>2 DEF LoopInv, TypeInv, PlaceInv, InRange, InBlock
    <2> QED
      BY <1>6, <2>2, <2>3 DEF Boundary
  <1>7. CASE pc \in InBlock /\ \E kind \in Failures : Fail(kind)
    BY <1>7, FailStep
  <1>8. CASE /\ pc \in InBlock /\ pc' \in InBlock
             /\ UNCHANGED <<item, pos, seen>>
    <2>1. SeenInv'
      BY <1>2, <1>8, StayInRange DEF InBlock, InRange
    <2> QED
      BY <1>1, <1>2, <1>8, <2>1 DEF LoopInv, TypeInv, PlaceInv, InRange, InBlock
  <1>9. CASE Mark
    <2>1. pc \in InBlock /\ PastBlock /\ UNCHANGED item
      BY <1>9 DEF Mark, InBlock
    <2>2. pos' \in Nat /\ PlaceInv' /\ SeenInv'
      BY <1>2, <2>1, Advance
    <2>3. pc' = "boundary"
      BY <2>1 DEF PastBlock
    <2> QED
      BY <1>1, <1>2, <2>1, <2>2, <2>3 DEF LoopInv, TypeInv, InRange
  <1>10. CASE Probe
    <2>1. pc = "probe" /\ pc' = "items" /\ item' = item + 1 /\ UNCHANGED <<list, pos, seen>>
      BY <1>10 DEF Probe, setup
    <2>2. SeenInv'
      BY <2>1, LeaveRange DEF InRange
    <2> QED
      BY <1>1, <1>2, <2>1, <2>2 DEF LoopInv, TypeInv, PlaceInv, InRange, InBlock
  <1>11. CASE /\ pc \notin InRange /\ pc' \in {"flush", "sync", "synced", "done", "hashed", "finished"}
              /\ UNCHANGED <<item, pos, seen>>
    <2>1. SeenInv'
      BY <1>2, <1>11, StayOutside
    <2> QED
      BY <1>1, <1>2, <1>11, <2>1 DEF LoopInv, TypeInv, PlaceInv, InRange, InBlock
  <1>12. CASE UNCHANGED <<pc, item, pos, seen>>
    BY <1>1, <1>2, <1>12 DEF LoopInv, TypeInv, PlaceInv, SeenInv, Earlier, Before
  <1>13. CASE Read \/ WriteDirect \/ WriteBuffered \/ Fdatasync \/ Verify
    BY <1>7, <1>8, <1>13
    DEF Read, WriteDirect, WriteBuffered, Fdatasync, Verify, InBlock, Failures
  <1>14. CASE LeaveLoop \/ FlushCheck \/ Sync \/ Upgrade \/ HashFile \/ Finish
    BY <1>11, <1>14 DEF LeaveLoop, FlushCheck, Sync, Upgrade, HashFile, Finish, InRange
  <1>15. CASE Writeback \/ RequestStop \/ UNCHANGED vars
    BY <1>12, <1>15 DEF Writeback, RequestStop, vars
  <1> QED
    BY <1>5, <1>6, <1>9, <1>10, <1>13, <1>14, <1>15 DEF Next, Worker

\* LoopInv in every run.
THEOREM LoopAlways == Spec => []LoopInv
  <1> QED
    BY InitLoop, NextLoop, PTL DEF Spec

\* The user sees a cell of the map only move forward, whatever marks it: a
\* block, an error, a promotion, the final upgrade or a file not hashed.
THEOREM MapForward == Spec => MapMovesForward
  <1>1. LoopInv /\ [Next]_vars => [\A c \in DOMAIN cells : Rank[cells'[c]] >= Rank[cells[c]]]_vars
    BY CellsStep
  <1> QED
    BY <1>1, LoopAlways, PTL DEF Spec, MapMovesForward

-----------------------------------------------------------------------------
(* Good, bad, and red. *)

BadCells == (UNION {CellsOf(e.off, e.len) : e \in errs}) \cap DOMAIN cells

\* What an error adds: its own units, its own cells.
LEMMA FailRecords ==
    ASSUME NEW kind \in Failures, Fail(kind)
    PROVE  /\ Bad' = Bad \cup Block
           /\ good' = good /\ seen' = seen \cup Block
           /\ DOMAIN cells' = DOMAIN cells
           /\ BadCells' = BadCells \cup (CellsOf(pos, Chunk) \cap DOMAIN cells)
           /\ cells' = MarkCells(cells, pos, Chunk, kind)
  <1>1. errs' = errs \cup {[item |-> item, off |-> pos, len |-> Chunk, status |-> kind]}
    BY DEF Fail, Recorded
  <1>2. cells' = MarkCells(cells, pos, Chunk, kind) /\ DOMAIN cells' = DOMAIN cells
    BY DEF Fail, MarkCells
  <1>3. UNCHANGED <<cellSize, good>> /\ seen' = seen \cup Block
    BY DEF Fail, setup, PastBlock
  <1> DEFINE bad == [item |-> item, off |-> pos, len |-> Chunk, status |-> kind]
  <1>4. bad.item = item /\ bad.off = pos /\ bad.len = Chunk /\ errs' = errs \cup {bad}
    BY <1>1
  <1> HIDE DEF bad
  <1>5. Bad' = Bad \cup Block
    BY <1>4 DEF Bad, Block, Here
  <1>6. BadCells' = BadCells \cup (CellsOf(pos, Chunk) \cap DOMAIN cells)
    <2>1. \A off, len : CellsOf(off, len)' = CellsOf(off, len)
      BY <1>3 DEF CellsOf
    <2> DEFINE under(exts) == UNION {CellsOf(e.off, e.len) : e \in exts}
    <2>2. BadCells' = under(errs') \cap DOMAIN cells
      BY <1>2, <2>1 DEF BadCells
    <2>3. BadCells = under(errs) \cap DOMAIN cells
      BY DEF BadCells
    <2>4. under(errs') = under(errs) \cup CellsOf(pos, Chunk)
      BY <1>4
    <2> HIDE DEF under
    <2> QED
      BY <2>2, <2>3, <2>4
  <1> QED
    BY <1>2, <1>3, <1>5, <1>6

LEMMA NextAccounted ==
    LoopInv /\ BlocksAccounted /\ [Next]_vars => BlocksAccounted'
  <1> SUFFICES ASSUME LoopInv, BlocksAccounted, [Next]_vars PROVE BlocksAccounted'
    OBVIOUS
  <1>1. CASE pc \in InBlock /\ \E kind \in Failures : Fail(kind)
    BY <1>1, FailRecords, BlockIsNew DEF BlocksAccounted
  <1>2. CASE Mark
    <2>1. pc \in InBlock /\ seen' = seen \cup Block /\ good' = good \cup Block /\ errs' = errs
      BY <1>2 DEF Mark, PastBlock, InBlock
    <2> QED
      BY <2>1, BlockIsNew DEF BlocksAccounted, Bad
  <1>3. CASE UNCHANGED <<seen, good, errs>>
    BY <1>3 DEF BlocksAccounted, Bad
  <1> QED
    BY <1>1, <1>2, <1>3
    DEF Next, Worker, NextRange, Boundary, Read, WriteDirect, WriteBuffered, Fdatasync,
        Verify, Probe, LeaveLoop, FlushCheck, Sync, Upgrade, HashFile, Finish, Writeback, RequestStop, Failures,
        InBlock, vars

\* Every byte gone through was good, or is in a bad extent that record_rewrite
\* will store for that range, never both.
THEOREM Accounted == Spec => []BlocksAccounted
  <1>1. Init => BlocksAccounted
    BY DEF Init, BlocksAccounted, Bad
  <1> QED
    BY <1>1, NextAccounted, LoopAlways, PTL DEF Spec

\* Only an error turns a cell red, and nothing takes the red away.
LEMMA MarksKeepRed ==
    ASSUME NEW map, NEW off, NEW len, NEW st \in {"Ok", "Cached"}
    PROVE  LET after == MarkCells(map, off, len, st)
           IN  \A c \in DOMAIN map : after[c] \in Failures <=> map[c] \in Failures
  BY DEF MarkCells, Marked, Failures

LEMMA NextRed ==
    RedMeansBad /\ [Next]_vars => RedMeansBad'
  <1> SUFFICES ASSUME RedMeansBad, [Next]_vars PROVE RedMeansBad'
    OBVIOUS
  <1> DEFINE red == {c \in DOMAIN cells : cells[c] \in Failures}
             Recoloured == /\ UNCHANGED <<cellSize, errs>> /\ DOMAIN cells' = DOMAIN cells
                           /\ \A c \in DOMAIN cells : cells'[c] \in Failures <=> cells[c] \in Failures
  <1>1. BadCells \subseteq red /\ (pc \notin {"hashed", "finished"} => red \subseteq BadCells)
    BY DEF RedMeansBad, BadCells
  <1>2. (BadCells \subseteq red)' /\ (pc' \notin {"hashed", "finished"} => (red \subseteq BadCells)') => RedMeansBad'
    BY DEF RedMeansBad, BadCells
  <1>3. CASE pc \notin {"hashed", "finished"} /\ \E kind \in Failures : Fail(kind)
    <2>1. PICK kind \in Failures : Fail(kind)
      BY <1>3
    <2>2. red' = red \cup (CellsOf(pos, Chunk) \cap DOMAIN cells)
      BY <2>1, FailRecords DEF MarkCells, Marked
    <2> QED
      BY <1>1, <1>2, <1>3, <2>1, <2>2, FailRecords
  <1>4. CASE Recoloured /\ (pc \in {"hashed", "finished"} => pc' \in {"hashed", "finished"})
    <2>1. BadCells' = BadCells /\ red' = red
      BY <1>4 DEF BadCells, CellsOf
    <2> QED
      BY <1>1, <1>2, <1>4, <2>1
  <1>5. CASE Mark
    <2> DEFINE blue == MarkCells(cells, pos, Chunk, "Cached")
    <2>1. \A c \in DOMAIN cells : cells'[c] \in Failures <=> cells[c] \in Failures
      <3>1. /\ DOMAIN blue = DOMAIN cells
            /\ \A c \in DOMAIN cells : blue[c] \in Failures <=> cells[c] \in Failures
        BY MarksKeepRed DEF MarkCells
      <3>2. \/ cells' = MarkCells(cells, pos, Chunk, "Ok")
            \/ cells' = blue
            \/ \E range : cells' = Promote(blue, range)
        BY <1>5 DEF Mark
      <3> HIDE DEF blue
      <3> QED
        BY <3>1, <3>2, MarksKeepRed DEF Promote
    <2>2. pc \notin {"hashed", "finished"} /\ UNCHANGED <<cellSize, errs>> /\ DOMAIN cells' = DOMAIN cells
      BY <1>5 DEF Mark, setup, Promote, MarkCells
    <2> QED
      BY <1>4, <2>1, <2>2
  <1>6. CASE Probe
    BY <1>4, <1>6, MarksKeepRed DEF Probe, setup, Promote, MarkCells
  <1>7. CASE Upgrade
    BY <1>4, <1>7 DEF Upgrade, Upgraded, setup, Failures
  <1>8. CASE HashFile
    <2>1. pc' = "hashed" /\ UNCHANGED <<cellSize, errs>> /\ DOMAIN cells' = DOMAIN cells
      BY <1>8 DEF HashFile, setup, MarkCells
    <2>2. red \subseteq red'
      BY <1>8 DEF HashFile, MarkCells, Marked, Failures
    <2>3. BadCells' = BadCells
      BY <2>1 DEF BadCells, CellsOf
    <2> QED
      BY <1>1, <1>2, <2>1, <2>2, <2>3
  <1>9. CASE UNCHANGED <<cellSize, errs, cells>> /\ (pc \in {"hashed", "finished"} => pc' \in {"hashed", "finished"})
    BY <1>4, <1>9
  <1> QED
    BY <1>3, <1>5, <1>6, <1>7, <1>8, <1>9
    DEF Next, Worker, NextRange, Boundary, Read, WriteDirect, WriteBuffered, Fdatasync,
        Verify, LeaveLoop, FlushCheck, Sync, Finish, Writeback, RequestStop, Failures, vars, setup, progress

\* The cells of a recorded bad extent stay red, and until files are hashed no
\* other cell is red.
THEOREM RedIsBad == Spec => []RedMeansBad
  <1>1. Init => RedMeansBad
    BY DEF Init, RedMeansBad, Failures
  <1> QED
    BY <1>1, NextRed, PTL DEF Spec

\* Blue is for buffered runs, and ends with them.
NoBlue == \A c \in DOMAIN cells : cells[c] # "Cached"
EndInv ==
    /\ Direct \/ flags.dry => NoBlue
    /\ NoneLeftBlue

\* No other mark than that of a cached block makes a cell blue.
LEMMA MarksKeepBlue ==
    ASSUME NEW off, NEW len, NEW st \in {"Ok"} \cup Failures, NoBlue,
           cells' = MarkCells(cells, off, len, st)
    PROVE  NoBlue'
  BY DEF NoBlue, MarkCells, Marked, Failures

LEMMA NextEnd ==
    EndInv /\ [Next]_vars => EndInv'
  <1> SUFFICES ASSUME EndInv, [Next]_vars PROVE EndInv'
    OBVIOUS
  <1>1. UNCHANGED flags /\ Direct' = Direct
    BY SetupFixed DEF setup, Direct
  <1>2. ASSUME NoBlue => NoBlue', ~AtEnd' PROVE EndInv'
    BY <1>1, <1>2 DEF EndInv, NoneLeftBlue, NoBlue
  <1>3. CASE \E kind \in Failures : Fail(kind)
    BY <1>2, <1>3, MarksKeepBlue DEF Fail, PastBlock, AtEnd
  <1>4. CASE Mark
    <2>1. CASE Direct \/ flags.dry
      BY <1>2, <1>4, <2>1, MarksKeepBlue DEF Mark, PastBlock, AtEnd
    <2>2. CASE ~(Direct \/ flags.dry)
      BY <1>1, <1>4, <2>2 DEF Mark, PastBlock, EndInv, NoneLeftBlue, AtEnd
    <2> QED
      BY <2>1, <2>2
  <1>5. CASE Probe
    BY <1>2, <1>5, MarksKeepBlue DEF Probe, Promote, NoBlue, AtEnd
  <1>6. CASE FlushCheck
    <2>1. UNCHANGED <<cells, stop>>
      BY <1>6 DEF FlushCheck, progress
    <2>2. CASE flags.dry \/ flags.through
      <3>1. NoBlue
        BY <2>2 DEF EndInv, Direct
      <3> QED
        BY <2>1, <3>1 DEF EndInv, NoneLeftBlue, AtEnd, NoBlue
    <2>3. CASE ~(flags.dry \/ flags.through)
      BY <1>1, <1>6, <2>1, <2>3 DEF FlushCheck, EndInv, NoneLeftBlue, AtEnd, NoBlue
    <2> QED
      BY <2>2, <2>3
  <1>7. CASE Upgrade
    <2>1. stop' = stop /\ (stop \/ NoBlue') /\ (NoBlue => NoBlue')
      BY <1>7 DEF Upgrade, Upgraded, NoBlue
    <2> QED
      BY <1>1, <2>1 DEF EndInv, NoneLeftBlue, AtEnd, NoBlue
  <1>8. CASE HashFile
    <2>1. UNCHANGED stop /\ AtEnd /\ (NoBlue => NoBlue')
      BY <1>8, MarksKeepBlue DEF HashFile, AtEnd, Failures, NoBlue
    <2> QED
      BY <1>1, <2>1 DEF EndInv, NoneLeftBlue, NoBlue
  <1>9. CASE UNCHANGED cells /\ (AtEnd' /\ ~stop' => AtEnd /\ ~stop)
    BY <1>1, <1>9 DEF EndInv, NoneLeftBlue, NoBlue
  <1> QED
    BY <1>3, <1>4, <1>5, <1>6, <1>7, <1>8, <1>9
    DEF Next, Worker, NextRange, Boundary, Read, WriteDirect, WriteBuffered, Fdatasync,
        Verify, LeaveLoop, Sync, Finish, Writeback, RequestStop, Failures, AtEnd, vars, progress

\* A run that was not stopped leaves no cell blue: the promotions, the final
\* sync and the modes without a cache between them settle every one.
THEOREM BlueIsSettled == Spec => []NoneLeftBlue
  <1>1. Init => EndInv
    BY DEF Init, EndInv, NoneLeftBlue, AtEnd, NoBlue
  <1>2. EndInv => NoneLeftBlue
    BY DEF EndInv
  <1> QED
    BY <1>1, <1>2, NextEnd, PTL DEF Spec

-----------------------------------------------------------------------------
(* To the end of each range. *)

LEMMA NextComplete ==
    LoopInv /\ CompleteInv /\ [Next]_vars => CompleteInv'
  <1> SUFFICES ASSUME LoopInv, CompleteInv, [Next]_vars PROVE CompleteInv'
    OBVIOUS
  <1>1. UNCHANGED <<list, flags>> /\ Skipped' = Skipped
    BY SetupFixed DEF setup, Skipped
  <1>2. seen \subseteq seen' /\ (stop => stop')
    BY DEF Next, Worker, NextRange, Boundary, Read, WriteDirect, WriteBuffered, Fdatasync,
           Verify, Mark, Probe, LeaveLoop, FlushCheck, Sync, Upgrade, HashFile, Finish, Writeback, RequestStop,
           Fail, PastBlock, vars
  <1>3. pc \in InRange => /\ item \in DOMAIN list /\ list[item].off \in Nat /\ pos \in Nat
                          /\ list[item].len \in Nat /\ EndOf(list[item]) \in Nat
                          /\ list[item].off <= pos /\ pos <= EndOf(list[item])
    <2>1. list \in Seq([off: Nat, len: Nat \ {0}])
      BY RangeAssumption DEF LoopInv, TypeInv
    <2>2. pc \in InRange => item \in DOMAIN list
      BY <2>1 DEF LoopInv, TypeInv, PlaceInv
    <2> QED
      BY <2>2, RangeType DEF LoopInv, TypeInv, PlaceInv
  <1>4. item \in Nat \ {0}
    BY DEF LoopInv, TypeInv
  <1>5. CASE NextRange
    <2>1. pc = "items" /\ UNCHANGED <<stop, seen>>
      BY <1>5 DEF NextRange
    <2>2. CASE pc' = "boundary" /\ UNCHANGED item
      <3>1. item \in DOMAIN list /\ pos' = list[item].off
        <4>1. list \in Seq([off: Nat, len: Nat \ {0}])
          BY RangeAssumption DEF LoopInv, TypeInv
        <4> QED
          BY <1>4, <1>5, <2>1, <2>2, <4>1 DEF NextRange
      <3>2. list[item].off \in Nat
        BY <3>1, RangeType DEF LoopInv, TypeInv
      <3> QED
        BY <1>1, <2>1, <2>2, <3>1, <3>2 DEF CompleteInv, Units
    <2>3. CASE pc' = "items" /\ item' = item + 1 /\ Skipped
      BY <1>1, <2>3 DEF CompleteInv, InRange
    <2>4. CASE pc' = "left" /\ UNCHANGED item
      BY <1>1, <2>1, <2>4 DEF CompleteInv, InRange
    <2> QED
      BY <1>5, <2>1, <2>2, <2>3, <2>4 DEF NextRange, Skipped
  <1>6. CASE Boundary
    <2>1. pc = "boundary" /\ UNCHANGED <<pos, stop, seen>>
      BY <1>6 DEF Boundary
    <2>2. CASE pc' = "items" /\ stop
      BY <2>1, <2>2 DEF CompleteInv, InRange
    <2>3. CASE pc' = "read" /\ UNCHANGED item
      BY <1>1, <2>1, <2>3 DEF CompleteInv, InRange
    <2>4. CASE pc' = "probe" /\ UNCHANGED item
      <3>1. pos >= EndOf(list[item])
        BY <1>3, <1>6, <2>1, <2>4, ChunkIsSome DEF Boundary, LoopInv, InRange
      <3> QED
        BY <1>1, <1>3, <2>1, <2>4, <3>1 DEF CompleteInv, InRange
    <2> QED
      BY <1>6, <2>2, <2>3, <2>4 DEF Boundary
  <1>7. CASE pc \in InBlock /\ PastBlock /\ UNCHANGED <<item, stop>>
    <2>1. /\ pos' = pos + Chunk /\ Chunk \in Nat
          /\ seen' = seen \cup ({item} \X Units(pos, Chunk)) /\ pc' = "boundary"
      BY <1>7, ChunkFits DEF PastBlock, Block, Here, LoopInv
    <2>2. list[item].off \in Nat /\ pos \in Nat /\ list[item].off <= pos
      BY <1>3, <1>7 DEF InBlock, InRange
    <2>3. ({item} \X Units(list[item].off, pos - list[item].off) \subseteq seen)'
      <3>1. {item} \X Units(list[item].off, pos - list[item].off) \subseteq seen
        BY <1>7 DEF CompleteInv, InRange, InBlock
      <3>2. \A u \in list[item].off .. (pos + Chunk - 1) :
              u \in list[item].off .. (pos - 1) \/ u \in pos .. (pos + Chunk - 1)
        BY <2>1, <2>2
      <3>3. \A u \in list[item].off .. (pos - 1) : <<item, u>> \in seen
        BY <2>2, <3>1 DEF Units
      <3>4. \A u \in pos .. (pos + Chunk - 1) : <<item, u>> \in seen'
        BY <2>1 DEF Units
      <3>5. {item} \X (list[item].off .. (pos + Chunk - 1)) \subseteq seen'
        BY <2>1, <3>2, <3>3, <3>4
      <3>6. Units(list[item].off, (pos + Chunk) - list[item].off) = list[item].off .. (pos + Chunk - 1)
        BY <2>1, <2>2 DEF Units
      <3> QED
        BY <1>1, <1>7, <2>1, <3>5, <3>6 DEF Units
    <2>4. (~stop => \A i \in 1..(item - 1) :
                      Skipped \/ {i} \X Units(list[i].off, list[i].len) \subseteq seen)'
      BY <1>1, <1>2, <1>7 DEF CompleteInv, Units
    <2> QED
      BY <2>1, <2>3, <2>4 DEF CompleteInv
  <1>8. CASE pc \in InBlock /\ pc' \in InBlock /\ UNCHANGED <<item, pos, seen, stop>>
    BY <1>1, <1>8 DEF CompleteInv, InRange, InBlock
  <1>9. CASE Probe
    <2>1. pc = "probe" /\ pc' = "items" /\ item' = item + 1 /\ UNCHANGED <<seen, stop>>
      BY <1>9 DEF Probe
    <2>2. pos = EndOf(list[item]) /\ {item} \X Units(list[item].off, pos - list[item].off) \subseteq seen
      BY <2>1 DEF CompleteInv, InRange
    <2>3. pos - list[item].off = list[item].len
      BY <1>3, <2>1, <2>2 DEF EndOf, InRange
    <2> QED
      BY <1>1, <1>4, <2>1, <2>2, <2>3 DEF CompleteInv, InRange
  <1>10. CASE /\ pc \notin InRange /\ pc' \notin InRange
              /\ UNCHANGED <<item, seen, stop>>
    BY <1>1, <1>10 DEF CompleteInv, InRange
  <1>11. CASE UNCHANGED <<pc, item, pos, seen>>
    BY <1>1, <1>2, <1>11 DEF CompleteInv
  <1>12. CASE Read \/ WriteDirect \/ WriteBuffered \/ Fdatasync \/ Verify \/ Mark
    BY <1>7, <1>8, <1>12
    DEF Read, WriteDirect, WriteBuffered, Fdatasync, Verify, Mark, Fail, InBlock
  <1>13. CASE LeaveLoop \/ FlushCheck \/ Sync \/ Upgrade \/ HashFile \/ Finish
    BY <1>10, <1>13 DEF LeaveLoop, FlushCheck, Sync, Upgrade, HashFile, Finish, InRange
  <1>14. CASE Writeback \/ RequestStop \/ UNCHANGED vars
    BY <1>11, <1>14 DEF Writeback, RequestStop, vars
  <1> QED
    BY <1>5, <1>6, <1>9, <1>12, <1>13, <1>14 DEF Next, Worker

\* A range is left, without a stop, only when the worker went through all of
\* it: whatever the block size and the alignment, no block of the range is
\* empty and the loop does not break early.
THEOREM RangesAreComplete == Spec => []RangesComplete
  <1>1. Init => CompleteInv
    BY DEF Init, CompleteInv, InRange
  <1>2. CompleteInv => RangesComplete
    BY DEF CompleteInv, RangesComplete
  <1> QED
    BY <1>1, <1>2, NextComplete, LoopAlways, PTL DEF Spec

-----------------------------------------------------------------------------
(* On the media. *)

\* The block is the same one until the worker is past it.
LEMMA SameBlock ==
    ASSUME UNCHANGED <<list, flags, size, item, pos>>
    PROVE  Here' = Here
  BY DEF Here, Chunk, BlockSize, Direct, Units, EndOf, Least, CeilDiv

\* What was good in one range only is no part of the block, so losing some of it
\* harms no promise.
LEMMA GoodIsBehind ==
    ASSUME LoopInv, BlocksAccounted, pc \in InBlock
    PROVE  Fine \cap Once \cap Here = {}
  <1>1. Fine \subseteq Gone
    BY DEF BlocksAccounted, Fine, Gone
  <1> QED
    BY <1>1, HereIsNew

LEMMA NextDurable ==
    LoopInv /\ BlocksAccounted /\ DurableInv /\ [Next]_vars => DurableInv'
  <1> SUFFICES ASSUME LoopInv, BlocksAccounted, DurableInv, [Next]_vars PROVE DurableInv'
    OBVIOUS
  <1>1. UNCHANGED <<list, flags, size>> /\ Once' = Once
    BY SetupFixed DEF setup, Once, Targets, Units
  <1> SUFFICES ASSUME flags.through, ~flags.dry PROVE DurableInv'
    BY <1>1 DEF DurableInv, Fine
  <1>2. Fine \cap Once \cap (dirty \cup lost) = {}
    BY DEF DurableInv
  <1>3. ASSUME pc' \notin {"fdatasync", "verify", "mark"},
               Fine' \cap Once \cap (dirty' \cup lost') = {}
        PROVE  DurableInv'
    BY <1>1, <1>3 DEF DurableInv, Fine
  <1>4. CASE NextRange \/ Boundary \/ Probe \/ LeaveLoop \/ FlushCheck \/ Upgrade \/ HashFile \/ Finish
    BY <1>2, <1>3, <1>4 DEF NextRange, Boundary, Probe, LeaveLoop, FlushCheck, Upgrade, HashFile, Finish, media, Fine
  <1>5. CASE Read
    BY <1>2, <1>3, <1>5 DEF Read, Fail, PastBlock, media, Fine
  <1>6. CASE WriteDirect
    <2>1. CASE Fail("WriteErr") /\ UNCHANGED media
      BY <1>2, <1>3, <2>1 DEF Fine, Fail, PastBlock, media
    <2>2. CASE /\ pc' \in {"verify", "mark"} /\ UNCHANGED <<item, pos, good>>
               /\ dirty' = dirty \ Here /\ lost' = lost \ Here
      BY <1>1, <1>2, <2>2, SameBlock DEF DurableInv, Fine
    <2> QED
      BY <1>6, <2>1, <2>2 DEF WriteDirect
  <1>7. CASE WriteBuffered
    <2>1. Fine \cap Once \cap Here = {}
      BY <1>7, GoodIsBehind DEF WriteBuffered, InBlock
    <2>2. CASE Fail("WriteErr")
      BY <1>2, <1>3, <1>7, <2>1, <2>2 DEF Fine, WriteBuffered, Fail, PastBlock
    <2>3. CASE /\ pc' = "fdatasync" /\ UNCHANGED <<item, pos, good, eio>>
               /\ dirty' = dirty \cup Here /\ lost' = lost \ Here
      BY <1>1, <1>2, <2>1, <2>3, SameBlock DEF DurableInv, Fine
    <2> QED
      BY <1>7, <2>2, <2>3 DEF WriteBuffered
  <1>8. CASE Fdatasync
    <2>1. PICK l \in {{}, dirty} :
            /\ Flushed(l)
            /\ \/ /\ SyncOk(l) /\ pc' \in {"verify", "mark"}
                  /\ UNCHANGED <<item, pos, good>>
               \/ Fail("WriteErr")
      BY <1>8 DEF Fdatasync
    <2>2. (dirty' \cup lost') \subseteq dirty \cup lost /\ dirty' = {}
      BY <2>1 DEF Flushed
    <2>3. CASE Fail("WriteErr")
      BY <1>2, <1>3, <2>2, <2>3 DEF Fine, Fail, PastBlock
    <2>4. CASE SyncOk(l) /\ pc' \in {"verify", "mark"} /\ UNCHANGED <<item, pos, good>>
      <3>1. Here \cap lost = {} /\ lost' = lost
        BY <1>8, <2>1, <2>4 DEF Fdatasync, DurableInv, Flushed, SyncOk
      <3> QED
        BY <1>1, <1>2, <2>2, <2>4, <3>1, SameBlock DEF DurableInv, Fine
    <2> QED
      BY <2>1, <2>3, <2>4
  <1>9. CASE Verify
    <2>1. UNCHANGED <<dirty, lost>>
      BY <1>9 DEF Verify
    <2>2. CASE Fail("WriteErr")
      BY <1>2, <1>3, <2>1, <2>2 DEF Fine, Fail, PastBlock
    <2>3. CASE pc' = "mark" /\ UNCHANGED <<item, pos, good>>
      BY <1>1, <1>2, <1>9, <2>1, <2>3, SameBlock DEF DurableInv, Fine, Verify
    <2> QED
      BY <1>9, <2>2, <2>3 DEF Verify
  <1>10. CASE Mark
    <2>1. Here \cap (dirty \cup lost) = {} /\ Fine' = Fine \cup Here /\ UNCHANGED media
      BY <1>10, FineGrows DEF Mark, DurableInv
    <2>2. pc' = "boundary"
      BY <1>10 DEF Mark, PastBlock
    <2> QED
      BY <1>2, <1>3, <2>1, <2>2 DEF media
  <1>11. CASE Sync
    BY <1>2, <1>3, <1>11 DEF Fine, Sync, Flushed
  <1>12. CASE Writeback
    <2>1. PICK u \in dirty :
            /\ dirty' = dirty \ {u}
            /\ UNCHANGED <<lost, eio>> \/ (lost' = lost \cup {u} /\ eio' = TRUE)
      BY <1>12 DEF Writeback
    <2>2. UNCHANGED <<pc, item, pos, good>> /\ Here' = Here
      BY <1>1, <1>12, SameBlock DEF Writeback
    <2> QED
      BY <1>1, <2>1, <2>2 DEF DurableInv, Fine
  <1>13. CASE UNCHANGED <<pc, item, pos, media, good>>
    <2>1. Here' = Here
      BY <1>1, <1>13, SameBlock
    <2> QED
      BY <1>1, <1>13, <2>1 DEF DurableInv, Fine, media
  <1> QED
    BY <1>4, <1>5, <1>6, <1>7, <1>8, <1>9, <1>10, <1>11, <1>12, <1>13
    DEF Next, Worker, RequestStop, vars

\* In write-through mode a good block is on the media: none is dirty, and none
\* was dropped by the kernel, whichever of pwrite_direct and pwrite_sync wrote
\* it (where no later range writes it again).
THEOREM ThroughDurable == Spec => []ThroughIsDurable
  <1>1. Init => DurableInv /\ BlocksAccounted
    BY DEF Init, DurableInv, BlocksAccounted, Fine, Bad
  <1>2. DurableInv => ThroughIsDurable
    BY DEF DurableInv, ThroughIsDurable
  <1> QED
    BY <1>1, <1>2, NextDurable, NextAccounted, LoopAlways, PTL DEF Spec

\* The blocks gone through are accounted for: each is good or bad and never
\* both, together they are the whole ranges, and a good one of a write-through
\* run is on the media.
THEOREM AllAccounted == Spec => []Accounting
  BY Accounted, RangesAreComplete, ThroughDurable, PTL DEF Accounting

-----------------------------------------------------------------------------
(* The size of the map. *)

\* The first ranges of a work list, byte by byte.
UpTo(w, i) == UNION {{j} \X Units(w[j].off, w[j].len) : j \in 1..i}

LEMMA UnitsCount ==
    ASSUME NEW off \in Nat, NEW len \in Nat
    PROVE  IsFiniteSet(Units(off, len)) /\ Cardinality(Units(off, len)) = len
  <1> DEFINE last == off + len - 1
  <1>1. off \in Int /\ last \in Int
    OBVIOUS
  <1>2. IsFiniteSet(off..last) /\ Cardinality(off..last) = IF off > last THEN 0 ELSE last - off + 1
    BY <1>1, FS_Interval
  <1>3. Cardinality(off..last) = len
    BY <1>2
  <1> QED
    BY <1>2, <1>3 DEF Units

\* And of a range.
LEMMA PairsCount ==
    ASSUME NEW i, NEW off \in Nat, NEW len \in Nat
    PROVE  IsFiniteSet({i} \X Units(off, len)) /\ Cardinality({i} \X Units(off, len)) = len
  <1>1. IsFiniteSet({i}) /\ Cardinality({i}) = 1
    BY FS_Singleton
  <1>2. IsFiniteSet(Units(off, len)) /\ Cardinality(Units(off, len)) = len
    BY UnitsCount
  <1>3. /\ IsFiniteSet({i} \X Units(off, len))
        /\ Cardinality({i} \X Units(off, len)) = Cardinality({i}) * Cardinality(Units(off, len))
    BY <1>1, <1>2, FS_Product
  <1> QED
    BY <1>1, <1>2, <1>3

LEMMA WorkListType ==
    ASSUME NEW w \in WorkLists
    PROVE  /\ Len(w) \in Nat /\ DOMAIN w = 1..Len(w)
           /\ \A i \in 1..Len(w) : w[i].off \in Nat /\ w[i].len \in Nat \ {0}
  <1> DEFINE Ranges == [off: Nat, len: Nat \ {0}]
  <1>1. w \in Seq(Ranges)
    BY RangeAssumption
  <1>2. Len(w) \in Nat /\ DOMAIN w = 1..Len(w) /\ \A i \in 1..Len(w) : w[i] \in Ranges
    <2> HIDE DEF Ranges
    <2> QED
      BY <1>1, LenProperties, ElementOfSeq
  <1> QED
    BY <1>2

LEMMA UpToFinite ==
    ASSUME NEW w \in WorkLists, NEW i \in 0..Len(w)
    PROVE  IsFiniteSet(UpTo(w, i))
  <1> DEFINE f == [j \in 1..i |-> {j} \X Units(w[j].off, w[j].len)]
             S == {f[j] : j \in 1..i}
  <1>1. i \in Nat /\ IsFiniteSet(1..i)
    <2>1. i \in Nat /\ i \in Int /\ 1 \in Int
      BY WorkListType
    <2> QED
      BY <2>1, FS_Interval
  <1>2. \A j \in 1..i : IsFiniteSet(f[j])
    <2> SUFFICES ASSUME NEW j \in 1..i PROVE IsFiniteSet({j} \X Units(w[j].off, w[j].len))
      OBVIOUS
    <2>1. w[j].off \in Nat /\ w[j].len \in Nat
      BY WorkListType
    <2> QED
      BY <2>1, PairsCount
  <1>3. f \in Surjection(1..i, S)
    BY DEF Surjection
  <1>4. IsFiniteSet(S)
    <2> HIDE DEF f, S
    <2> QED
      BY <1>1, <1>3, FS_Surjection
  <1>5. IsFiniteSet(UNION S)
    <2>1. \A T \in S : IsFiniteSet(T)
      BY <1>2
    <2> HIDE DEF S
    <2> QED
      BY <1>4, <2>1, FS_UNION
  <1>6. UpTo(w, i) = UNION S
    BY DEF UpTo
  <1> QED
    BY <1>5, <1>6

\* Each range adds its length.
LEMMA UpToCount ==
    ASSUME NEW w \in WorkLists, NEW i \in 1..Len(w)
    PROVE  Cardinality(UpTo(w, i)) = Cardinality(UpTo(w, i - 1)) + w[i].len
  <1> DEFINE A == UpTo(w, i - 1)
             B == {i} \X Units(w[i].off, w[i].len)
  <1>1. i \in Nat /\ i - 1 \in 0..Len(w) /\ Len(w) \in Nat
    BY WorkListType
  <1>2. w[i].off \in Nat /\ w[i].len \in Nat
    BY WorkListType
  <1>a. IsFiniteSet(B) /\ Cardinality(B) = w[i].len
    <2>1. \A o, l \in Nat : IsFiniteSet({i} \X Units(o, l)) /\ Cardinality({i} \X Units(o, l)) = l
      BY PairsCount
    <2> QED
      BY <1>2, <2>1
  <1>b. IsFiniteSet(A)
    BY <1>1, UpToFinite
  <1>3. IsFiniteSet(A) /\ IsFiniteSet(B) /\ Cardinality(B) = w[i].len /\ Cardinality(A) \in Nat
    <2> HIDE DEF A, B
    <2> QED
      BY <1>a, <1>b, FS_CardinalityType
  <1>4. UpTo(w, i) = A \cup B
    <2>1. 1..i = (1..(i - 1)) \cup {i}
      BY <1>1
    <2> QED
      BY <2>1 DEF UpTo
  <1>5. A \cap B = {}
    BY <1>1 DEF UpTo
  <1> HIDE DEF A, B
  <1>6. Cardinality(A \cup B) = Cardinality(A) + Cardinality(B) - Cardinality(A \cap B)
    BY <1>3, FS_Union
  <1>7. Cardinality(A \cap B) = 0
    BY <1>5, FS_EmptySet
  <1> QED
    BY <1>2, <1>3, <1>4, <1>6, <1>7 DEF A

\* bytes_total counts the bytes of the work list.
LEMMA TotalCounts ==
    ASSUME NEW w \in WorkLists
    PROVE  LengthOf(w) = Cardinality(UpTo(w, Len(w))) /\ LengthOf(w) \in Nat
  <1> DEFINE n == Len(w)
             Step(s) == [i \in 0..n |-> IF i = 0 THEN 0 ELSE s[i - 1] + w[i].len]
             count == [i \in 0..n |-> Cardinality(UpTo(w, i))]
             sum == CHOOSE s : s = Step(s)
  <1>1. n \in Nat
    BY WorkListType
  <1>2. \A i \in 0..n : count[i] \in Nat
    BY UpToFinite, FS_CardinalityType
  <1>3. count[0] = 0
    <2>1. UpTo(w, 0) = {}
      BY DEF UpTo
    <2> QED
      BY <1>1, <2>1, FS_EmptySet
  <1>4. \A i \in 1..n : count[i] = count[i - 1] + w[i].len
    BY <1>1, UpToCount
  <1>5. count = Step(count)
    <2> DEFINE next == Step(count)
    <2>1. ASSUME NEW i \in 0..n PROVE count[i] = next[i]
      <3>1. next[i] = IF i = 0 THEN 0 ELSE count[i - 1] + w[i].len
        OBVIOUS
      <3>2. i = 0 \/ i \in 1..n
        BY <1>1
      <3> HIDE DEF next, count
      <3> QED
        BY <1>3, <1>4, <3>1, <3>2
    <2>2. next = [i \in 0..n |-> next[i]] /\ count = [i \in 0..n |-> count[i]]
      OBVIOUS
    <2> HIDE DEF next, count
    <2>3. count = next
      BY <2>1, <2>2
    <2> QED
      BY <2>3 DEF next
  <1>6. sum = Step(sum)
    BY <1>5
  <1>7. LengthOf(w) = sum[n]
    BY DEF LengthOf
  <1> HIDE DEF sum, count
  <1>8. sum[0] = 0 /\ \A i \in 1..n : sum[i] = sum[i - 1] + w[i].len
    BY <1>1, <1>6
  <1> HIDE DEF n
  <1>9. \A i \in 0..n : sum[i] = count[i]
    <2> DEFINE Wrong == {i \in 0..n : sum[i] # count[i]}
    <2> SUFFICES ASSUME Wrong # {} PROVE FALSE
      OBVIOUS
    <2>1. Wrong \in SUBSET Nat
      BY <1>1
    <2>2. PICK i \in Wrong : \A j \in Wrong : i <= j
      <3> HIDE DEF Wrong
      <3> QED
        BY <2>1, Smallest
    <2>3. i \in 1..n
      BY <1>1, <1>3, <1>8
    <2>4. i - 1 \in 0..n /\ ~(i <= i - 1)
      BY <1>1, <2>3
    <2>5. sum[i - 1] = count[i - 1]
      BY <2>2, <2>4
    <2> QED
      BY <1>4, <1>8, <2>3, <2>5
  <1>10. sum[n] = count[n] /\ count[n] \in Nat
    BY <1>1, <1>2, <1>9
  <1> QED
    BY <1>1, <1>7, <1>10 DEF count, n

\* The doubling of the cell size comes to an end: at the latest, one cell is the whole map.
LEMMA CellSizeType ==
    ASSUME NEW bytes \in Nat, NEW bs \in Nat \ {0}
    PROVE  CellSizeFor(bytes, bs) \in Nat \ {0}
  <1> DEFINE Fits(c) == CeilDiv(bytes, bs * c) <= MaxCells
             Step(g) == [c \in Nat |-> IF Fits(c) THEN bs * c ELSE g[2 * c]]
             grow == CHOOSE g : g = Step(g)
  <1>1. ASSUME NEW c \in Nat, c > bytes PROVE Fits(c)
    <2> DEFINE s == bs * c
               u == bytes + s - 1
               q == u \div s
    <2>1. s \in Nat \ {0} /\ s > bytes
      <3>1. bs * c = (bs - 1) * c + c /\ (bs - 1) * c \in Nat /\ c \in Nat \ {0}
        BY <1>1
      <3> QED
        BY <1>1, <3>1
    <2>2. CeilDiv(bytes, s) = q
      BY DEF CeilDiv
    <2> HIDE DEF s
    <2>3. u \in Nat /\ u < s + s
      BY <2>1
    <2> HIDE DEF u
    <2>4. q \in Nat /\ u % s \in 0..(s - 1) /\ u = s * q + (u % s)
      BY <2>1, <2>3, Division
    <2> HIDE DEF q
    <2>5. ~(1 < q)
      <3> SUFFICES ASSUME 1 < q PROVE FALSE
        OBVIOUS
      <3>1. s * 1 + s <= s * q
        BY <2>1, <2>4, MulMono
      <3> QED
        BY <2>1, <2>3, <2>4, <3>1
    <2> QED
      BY <2>2, <2>4, <2>5, RangeAssumption DEF s
  <1>2. \A c \in Nat : bs * c \in Nat
    OBVIOUS
  <1> DEFINE Known(n, g) == \A c \in Nat : c >= n => g[c] = IF Fits(c) THEN bs * c ELSE g[2 * c]
  <1> HIDE DEF Fits
  <1>3. \E g : g = Step(g)
    <2> DEFINE Begun == {n \in Nat \ {0} : \E g \in [Nat -> Nat] : Known(n, g)}
    <2>1. bytes + 1 \in Begun
      <3> DEFINE g == [c \in Nat |-> bs * c]
      <3>1. g \in [Nat -> Nat] /\ Known(bytes + 1, g)
        BY <1>1, <1>2
      <3>2. bytes + 1 \in Nat \ {0}
        OBVIOUS
      <3> HIDE DEF g, Known
      <3> QED
        BY <3>1, <3>2
    <2>2. PICK n \in Begun : \A k \in Begun : n <= k
      <3>1. Begun \in SUBSET Nat /\ Begun # {}
        BY <2>1
      <3> HIDE DEF Begun
      <3> QED
        BY <3>1, Smallest
    <2>3. n \in Nat \ {0}
      OBVIOUS
    <2> PICK g \in [Nat -> Nat] : Known(n, g)
      OBVIOUS
    <2>4. n = 1
      <3> SUFFICES ASSUME n # 1 PROVE FALSE
        OBVIOUS
      <3> DEFINE k == n - 1
                 v == IF Fits(k) THEN bs * k ELSE g[2 * k]
                 h == [g EXCEPT ![k] = v]
      <3>1. k \in Nat \ {0} /\ 2 * k \in Nat /\ 2 * k # k /\ n = k + 1
        BY <2>3
      <3>2. v \in Nat
        BY <1>2, <3>1
      <3> HIDE DEF v
      <3>3. h \in [Nat -> Nat] /\ h[k] = v /\ \A c \in Nat : c # k => h[c] = g[c]
        BY <3>1, <3>2
      <3> HIDE DEF h, k
      <3>4. ASSUME NEW c \in Nat, c >= k PROVE h[c] = IF Fits(c) THEN bs * c ELSE h[2 * c]
        <4>1. h[2 * c] = g[2 * c]
          BY <3>1, <3>3, <3>4
        <4>2. CASE c = k
          BY <3>1, <3>3, <4>1, <4>2 DEF v
        <4>3. CASE c # k
          <5>1. c >= n
            BY <3>1, <3>4, <4>3
          <5> QED
            BY <3>3, <4>1, <4>3, <5>1
        <4> QED
          BY <4>2, <4>3
      <3>5. k \in Begun
        BY <3>1, <3>3, <3>4
      <3>6. n <= k
        BY <2>2, <3>5
      <3> QED
        BY <3>1, <3>6
    <2> DEFINE h == [g EXCEPT ![0] = 0]
               next == Step(h)
    <2>5. h \in [Nat -> Nat] /\ h[0] = 0 /\ \A c \in Nat : c # 0 => h[c] = g[c]
      OBVIOUS
    <2> HIDE DEF h
    <2>6. ASSUME NEW c \in Nat PROVE h[c] = next[c]
      <3>1. CASE c = 0
        BY <2>5, <3>1
      <3>2. CASE c # 0
        <4>1. c >= 1 /\ 2 * c \in Nat /\ 2 * c # 0
          BY <3>2
        <4>2. g[c] = IF Fits(c) THEN bs * c ELSE g[2 * c]
          BY <2>4, <4>1
        <4>3. h[c] = g[c] /\ h[2 * c] = g[2 * c]
          BY <2>5, <3>2, <4>1
        <4> QED
          BY <4>2, <4>3
      <3> QED
        BY <3>1, <3>2
    <2>7. h = [c \in Nat |-> h[c]] /\ next = [c \in Nat |-> next[c]]
      BY <2>5
    <2>8. h = next
      <3> HIDE DEF next
      <3> QED
        BY <2>6, <2>7
    <2> QED
      BY <2>8
  <1>4. grow = Step(grow)
    BY <1>3
  <1>5. CellSizeFor(bytes, bs) = grow[1]
    BY DEF CellSizeFor, Fits
  <1> HIDE DEF grow
  <1>6. \A c \in Nat : grow[c] = IF Fits(c) THEN bs * c ELSE grow[2 * c]
    BY <1>4
  <1>7. grow[1] \in Nat \ {0}
    <2> DEFINE Wrong == {c \in Nat \ {0} : grow[c] \notin Nat \ {0}}
    <2>1. ASSUME NEW c \in Wrong PROVE ~Fits(c) /\ 2 * c \in Wrong
      <3>1. c \in Nat \ {0} /\ bs * c \in Nat \ {0} /\ 2 * c \in Nat \ {0}
        BY <2>1
      <3> QED
        BY <1>6, <2>1, <3>1
    <2> SUFFICES ASSUME Wrong # {} PROVE FALSE
      OBVIOUS
    <2>2. Wrong \in SUBSET Nat /\ \A c \in Wrong : c <= bytes
      BY <1>1, <2>1
    <2> HIDE DEF Wrong
    <2>3. IsFiniteSet(Wrong)
      BY <2>2, FS_BoundedSetOfNaturals
    <2>4. PICK m \in Wrong : \A c \in Wrong : c <= m
      BY <2>2, <2>3, Largest
    <2>5. 2 * m <= m /\ m \in Nat \ {0}
      BY <2>1, <2>2, <2>4 DEF Wrong
    <2> QED
      BY <2>5
  <1> QED
    BY <1>5, <1>7

-----------------------------------------------------------------------------
(* Nothing outside the work list is ever touched. *)

\* The setup and the map of the run; what else has a range of its own.
MapInv ==
    /\ total = TotalOf(list) /\ total \in Nat \ {0} /\ cellSize \in Nat \ {0}
    /\ DOMAIN cells = CellsFor(total, cellSize)
ValuesInv ==
    /\ done \in 0..total /\ stop \in BOOLEAN /\ eio \in BOOLEAN /\ rc \in {0, 1}
    /\ item \in 1..(Len(list) + 1)
    /\ cached \in [have: BOOLEAN, from: Nat, to: Nat]
    /\ errs \subseteq Extents
UnitsInv == dirty \cup lost \subseteq Targets /\ seen \cup good \subseteq TargetPairs

\* The block at hand is part of the work list.
LEMMA BlockType ==
    ASSUME LoopInv, pc \in InBlock
    PROVE  pos \in Nat /\ Chunk \in Nat \ {0} /\ Here \subseteq Targets /\ Block \subseteq TargetPairs
  <1>1. item \in DOMAIN list /\ Chunk \in Nat /\ pos + Chunk <= EndOf(list[item])
    BY ChunkFits DEF LoopInv
  <1>2. /\ list[item].off \in Nat /\ list[item].len \in Nat /\ pos \in Nat
        /\ list[item].off <= pos /\ pos < EndOf(list[item])
    BY <1>1, RangeType DEF LoopInv, TypeInv, PlaceInv, InBlock, InRange
  <1>3. Chunk # 0
    <2>1. ~(pos >= EndOf(list[item])) /\ pc \in InRange
      BY <1>1, <1>2 DEF EndOf, InBlock, InRange
    <2> QED
      BY <1>2, <2>1, ChunkIsSome DEF LoopInv
  <1>4. Here \subseteq Units(list[item].off, list[item].len)
    <2> SUFFICES ASSUME NEW u \in Here PROVE u \in Units(list[item].off, list[item].len)
      OBVIOUS
    <2>1. u \in Nat /\ pos <= u /\ u < pos + Chunk
      BY ChunkFits DEF LoopInv
    <2> QED
      BY <1>1, <1>2, <2>1 DEF Units, EndOf
  <1> QED
    BY <1>1, <1>2, <1>3, <1>4 DEF Targets, TargetPairs, Block

LEMMA CachedType ==
    \A a \in BOOLEAN : \A b, c \in Nat :
        [have |-> a, from |-> b, to |-> c] \in [have: BOOLEAN, from: Nat, to: Nat]
  OBVIOUS

LEMMA NextMap == LoopInv /\ MapInv /\ [Next]_vars => MapInv'
  BY SetupFixed, CellsStep DEF MapInv, setup

\* What one block adds to the counter and to the bad extents.
LEMMA BlockValues ==
    ASSUME LoopInv, MapInv, ValuesInv, pc \in InBlock, PastBlock, UNCHANGED <<total, list, item, stop>>
    PROVE  done' \in 0..total /\ item' \in 1..(Len(list) + 1) /\ stop' \in BOOLEAN
  <1>1. Chunk \in Nat /\ total \in Nat /\ done \in Nat
    BY BlockType DEF MapInv, ValuesInv
  <1>2. done' = Least(done + Chunk, total)
    BY DEF PastBlock
  <1> QED
    BY <1>1, <1>2 DEF ValuesInv, Least

LEMMA NextValues == LoopInv /\ MapInv /\ ValuesInv /\ [Next]_vars => ValuesInv'
  <1> SUFFICES ASSUME LoopInv, MapInv, ValuesInv, [Next]_vars PROVE ValuesInv'
    OBVIOUS
  <1>1. UNCHANGED <<list, total>>
    BY SetupFixed DEF setup
  <1>2. Len(list) \in Nat /\ item \in Nat /\ item >= 1 /\ item <= Len(list) + 1
    BY WorkListType DEF LoopInv, TypeInv, ValuesInv
  <1>3. /\ pc \in InRange => item <= Len(list)
        /\ cached \in [have: BOOLEAN, from: Nat, to: Nat]
    BY DEF LoopInv, PlaceInv, ValuesInv
  <1>4. ASSUME UNCHANGED <<done, errs, stop, eio, rc>>, cached' = cached,
               item' = item \/ (item' = item + 1 /\ item <= Len(list))
        PROVE  ValuesInv'
    BY <1>1, <1>2, <1>4 DEF ValuesInv
  <1>5. CASE NextRange
    <2>1. item' = item \/ (item' = item + 1 /\ item <= Len(list))
      BY <1>5 DEF NextRange
    <2>2. UNCHANGED <<done, errs, stop, eio, rc>>
      BY <1>5 DEF NextRange, progress, media
    <2>3. cached' = cached \/ cached' = [have |-> FALSE, from |-> 0, to |-> 0]
      BY <1>5 DEF NextRange
    <2>4. cached' \in [have: BOOLEAN, from: Nat, to: Nat]
      <3>1. [have |-> FALSE, from |-> 0, to |-> 0] \in [have: BOOLEAN, from: Nat, to: Nat]
        BY CachedType
      <3> QED
        BY <1>3, <2>3, <3>1, Zenon
    <2> QED
      BY <1>1, <1>2, <2>1, <2>2, <2>4 DEF ValuesInv
  <1>6. CASE Boundary \/ Probe
    <2>1. pc \in InRange /\ (item' = item \/ item' = item + 1)
      BY <1>6 DEF Boundary, Probe, InRange
    <2> QED
      BY <1>3, <1>4, <1>6, <2>1 DEF Boundary, Probe, progress, media
  <1>7. ASSUME pc \in InBlock, NEW kind \in Failures, Fail(kind), eio' \in BOOLEAN PROVE ValuesInv'
    <2> DEFINE e == [item |-> item, off |-> pos, len |-> Chunk, status |-> kind]
    <2>1. PastBlock /\ UNCHANGED <<total, list, item, stop, rc, cached>> /\ errs' = errs \cup {e}
      BY <1>1, <1>7 DEF Fail, Recorded
    <2>2. e \in Extents
      BY <1>2, <1>7, BlockType DEF Extents
    <2>3. done' \in 0..total /\ item' \in 1..(Len(list) + 1) /\ stop' \in BOOLEAN
      BY <1>7, <2>1, BlockValues
    <2> HIDE DEF e
    <2> QED
      BY <1>1, <1>7, <2>1, <2>2, <2>3 DEF ValuesInv
  <1>8. CASE Mark
    <2>1. pc \in InBlock /\ PastBlock /\ UNCHANGED <<item, stop, errs, eio, rc>>
      BY <1>8 DEF Mark, InBlock, media
    <2>2. done' \in 0..total /\ item' \in 1..(Len(list) + 1) /\ stop' \in BOOLEAN
      BY <1>1, <2>1, BlockValues
    <2>3. cached' \in [have: BOOLEAN, from: Nat, to: Nat]
      <3> DEFINE from == IF cached.have THEN cached.from ELSE pos
                 to == pos + Chunk
      <3>1. from \in Nat /\ to \in Nat
        BY <2>1, BlockType DEF ValuesInv
      <3>2. cached' \in {cached, [have |-> TRUE, from |-> from, to |-> to],
                         [have |-> FALSE, from |-> from, to |-> to]}
        BY <1>8 DEF Mark
      <3> HIDE DEF from, to
      <3>3. /\ [have |-> TRUE, from |-> from, to |-> to] \in [have: BOOLEAN, from: Nat, to: Nat]
            /\ [have |-> FALSE, from |-> from, to |-> to] \in [have: BOOLEAN, from: Nat, to: Nat]
        BY <3>1, CachedType
      <3> QED
        BY <1>3, <3>2, <3>3, Zenon
    <2> QED
      BY <1>1, <2>1, <2>2, <2>3 DEF ValuesInv
  <1>9. CASE Read
    <2>1. eio' = eio /\ pc \in InBlock
      BY <1>9 DEF Read, media, InBlock
    <2> QED
      BY <1>4, <1>7, <1>9, <2>1 DEF Read, Failures, ValuesInv, progress
  <1>10. CASE WriteDirect
    <2>1. eio' = eio /\ pc \in InBlock
      BY <1>10 DEF WriteDirect, media, InBlock
    <2> QED
      BY <1>4, <1>7, <1>10, <2>1 DEF WriteDirect, Failures, ValuesInv, progress
  <1>11. CASE WriteBuffered
    <2>1. eio' = eio /\ pc \in InBlock
      BY <1>11 DEF WriteBuffered, InBlock
    <2> QED
      BY <1>4, <1>7, <1>11, <2>1 DEF WriteBuffered, Failures, ValuesInv, progress
  <1>12. ASSUME UNCHANGED <<errs, item, cached>>, done' \in 0..total, rc' \in {0, 1}, stop' \in BOOLEAN, eio' \in BOOLEAN
         PROVE  ValuesInv'
    BY <1>1, <1>12 DEF ValuesInv
  <1>13. CASE Fdatasync
    <2>1. eio' = FALSE /\ pc \in InBlock
      BY <1>13 DEF Fdatasync, InBlock
    <2>2. CASE Fail("WriteErr")
      BY <1>7, <2>1, <2>2 DEF Failures
    <2>3. CASE ~Fail("WriteErr")
      BY <1>12, <1>13, <2>1, <2>3 DEF Fdatasync, ValuesInv, progress
    <2> QED
      BY <2>2, <2>3
  <1>14. CASE Verify
    <2>1. eio' \in BOOLEAN /\ pc \in InBlock
      BY <1>14 DEF Verify, InBlock, ValuesInv
    <2>2. CASE Fail("WriteErr")
      BY <1>7, <2>1, <2>2 DEF Failures
    <2>3. CASE ~Fail("WriteErr")
      BY <1>12, <1>14, <2>1, <2>3 DEF Verify, ValuesInv, progress
    <2> QED
      BY <2>2, <2>3
  <1>15. CASE LeaveLoop \/ FlushCheck \/ Sync \/ Upgrade \/ Writeback \/ RequestStop \/ UNCHANGED vars
    BY <1>12, <1>15 DEF LeaveLoop, FlushCheck, Sync, Upgrade, Writeback, RequestStop, ValuesInv,
                         progress, media, vars
  <1>16. CASE HashFile \/ Finish
    <2>1. Least(done + 1, total) \in 0..total /\ total \in 0..total
      BY DEF MapInv, ValuesInv, Least
    <2> QED
      BY <1>12, <1>16, <2>1 DEF HashFile, Finish, ValuesInv, media
  <1> QED
    BY <1>5, <1>6, <1>8, <1>9, <1>10, <1>11, <1>13, <1>14, <1>15, <1>16 DEF Next, Worker

LEMMA NextUnits == LoopInv /\ UnitsInv /\ [Next]_vars => UnitsInv'
  <1> SUFFICES ASSUME LoopInv, UnitsInv, [Next]_vars PROVE UnitsInv'
    OBVIOUS
  <1>1. Targets' = Targets /\ TargetPairs' = TargetPairs
    BY SetupFixed DEF setup, Targets, TargetPairs, Units
  <1>2. CASE pc \in InBlock
    <2>1. Here \subseteq Targets /\ Block \subseteq TargetPairs
      BY <1>2, BlockType
    <2>2. dirty' \subseteq dirty \cup Here /\ lost' \subseteq lost \cup dirty \cup Here
      BY <1>2 DEF Next, Worker, NextRange, Boundary, Read, WriteDirect, WriteBuffered, Fdatasync,
                  Verify, WaitFlushed, Flushed, Mark, Probe, LeaveLoop, FlushCheck, Sync, Upgrade, HashFile, Finish,
                  Writeback, RequestStop, InBlock, vars, media
    <2>3. seen' \subseteq seen \cup Block /\ good' \subseteq good \cup Block
      BY <1>2 DEF Next, Worker, NextRange, Boundary, Read, WriteDirect, WriteBuffered, Fdatasync,
                  Verify, Fail, PastBlock, Mark, Probe, LeaveLoop, FlushCheck, Sync, Upgrade, HashFile, Finish,
                  Writeback, RequestStop, InBlock, vars
    <2> QED
      BY <1>1, <2>1, <2>2, <2>3 DEF UnitsInv
  <1>3. CASE pc \notin InBlock
    <2>1. dirty' \subseteq dirty /\ lost' \subseteq lost \cup dirty /\ UNCHANGED <<seen, good>>
      BY <1>3 DEF Next, Worker, NextRange, Boundary, Read, WriteDirect, WriteBuffered, Fdatasync,
                  Verify, Flushed, Mark, Probe, LeaveLoop, FlushCheck, Sync, Upgrade, HashFile, Finish,
                  Writeback, RequestStop, InBlock, vars, media
    <2> QED
      BY <1>1, <2>1 DEF UnitsInv
  <1> QED
    BY <1>2, <1>3

LEMMA InitTypes == Init => MapInv /\ ValuesInv /\ UnitsInv
  <1> SUFFICES ASSUME Init PROVE MapInv /\ ValuesInv /\ UnitsInv
    OBVIOUS
  <1>1. total = TotalOf(list) /\ total \in Nat \ {0} /\ Len(list) \in Nat
    BY TotalCounts, WorkListType DEF Init, TotalOf
  <1>2. size \in Nat \ {0} /\ cellSize = CellSizeFor(total, size)
    BY RangeAssumption DEF Init
  <1>3. cellSize \in Nat \ {0}
    BY <1>1, <1>2, CellSizeType
  <1>4. MapInv
    BY <1>1, <1>3 DEF MapInv, Init
  <1>5. ValuesInv
    <2>1. cached \in [have: BOOLEAN, from: Nat, to: Nat]
      BY CachedType DEF Init
    <2>2. done \in 0..total /\ item \in 1..(Len(list) + 1)
      BY <1>1 DEF Init
    <2>3. stop \in BOOLEAN /\ eio \in BOOLEAN /\ rc \in {0, 1} /\ errs \subseteq Extents
      BY DEF Init
    <2> QED
      BY <2>1, <2>2, <2>3 DEF ValuesInv
  <1>6. UnitsInv
    BY DEF UnitsInv, Init
  <1> QED
    BY <1>4, <1>5, <1>6

\* Every variable keeps its range: the counter stays within the total, the
\* cells are those of the map, the positions are those of the work list, and no
\* byte outside the work list is ever written, lost, or called good.
THEOREM TypeCorrect == Spec => []TypeOK
  <1>1. LoopInv /\ MapInv /\ ValuesInv /\ UnitsInv => TypeOK
    <2> SUFFICES ASSUME LoopInv, MapInv, ValuesInv, UnitsInv PROVE TypeOK
      OBVIOUS
    <2>1. \A c \in DOMAIN cells : cells[c] \in CellStatus
      BY DEF LoopInv, TypeInv
    <2>2. pc \in {"items", "boundary", "read", "write", "fdatasync", "verify", "mark", "probe",
                  "left", "flush", "sync", "synced", "done", "hashed", "finished"}
      BY DEF LoopInv, TypeInv, InRange
    <2> QED
      BY <2>1, <2>2 DEF TypeOK, LoopInv, TypeInv, MapInv, ValuesInv, UnitsInv
  <1> QED
    BY <1>1, InitTypes, NextMap, NextValues, NextUnits, LoopAlways, PTL DEF Spec

-----------------------------------------------------------------------------
(* What the map and the counter show.  When each block has cells of its own, *)
(* no block the worker is past is dirty under a green cell of one range: not *)
(* while polls promote all the blocks cached so far, not after a writeback   *)
(* error, not after the final sync.  In every mode the counter counts each   *)
(* byte of each range once, and a run that succeeds leaves no cell of its    *)
(* work list out.                                                            *)

Buffered == ~Direct /\ ~flags.dry

\* Where the worker flushes or compares each block itself, a good one is clean.
CleanInv ==
    /\ flags.dry => dirty = {} /\ pc \notin {"write", "fdatasync", "verify"}
    /\ Direct => /\ Fine \cap Once \cap dirty = {}
                 /\ pc = "mark" => Here \cap dirty = {}
                 /\ pc = "verify" /\ flags.through => Here \cap dirty = {}

\* A buffered run: blocks start at a cell, the blocks cached since the last
\* promotion lie before pos and end with a cell or with the range.
BlueInv ==
    /\ pc \in InRange => pos % size = 0 \/ pos = EndOf(list[item])
    /\ pc \in InRange /\ cached.have =>
        /\ cached.from \in Nat /\ cached.to \in Nat
        /\ list[item].off <= cached.from /\ cached.from < cached.to /\ cached.to <= pos
        /\ cached.from % size = 0
        /\ cached.to % size = 0 \/ cached.to = EndOf(list[item])

\* A cell is blue or green for a block that was gone through, and it is not
\* green for a stale one.
CellsTrue(map, gone, stale) ==
    /\ \A c \in DOMAIN map : map[c] \in {"Ok", "Cached"} => \E u \in gone : u \div size = c
    /\ \A u \in stale : u \div size \in DOMAIN map => map[u \div size] # "Ok"
Stale == {u \in Fine \cap dirty : Alone(u \div size)}
CellInv == CellsTrue(cells, Gone, Stale) /\ (pc = "synced" => dirty = {})

GreenInv == OwnCells /\ Buffered => BlueInv /\ CellInv

-----------------------------------------------------------------------------
(* Cells. *)

\* A cell begins before another exactly when its units do.
LEMMA Below ==
    ASSUME NEW s \in Nat \ {0}, NEW u \in Nat, NEW a \in Nat, a % s = 0
    PROVE  (u \div s < a \div s) <=> u < a
  <1> DEFINE p == u \div s
             q == a \div s
  <1>1. p \in Nat /\ q \in Nat /\ u % s \in 0..(s - 1)
    BY Division
  <1>2. u = s * p + (u % s) /\ a = s * q
    BY Division
  <1> HIDE DEF p, q
  <1>3. s * p \in Nat /\ s * q \in Nat
    BY <1>1
  <1>4. p < q => u < a
    <2> SUFFICES ASSUME p < q PROVE u < a
      OBVIOUS
    <2>1. s * p + s <= s * q
      BY <1>1, MulMono
    <2> QED
      BY <1>1, <1>2, <1>3, <2>1
  <1>5. q < p => a <= u
    <2> SUFFICES ASSUME q < p PROVE a <= u
      OBVIOUS
    <2>1. s * q + s <= s * p
      BY <1>1, MulMono
    <2> QED
      BY <1>1, <1>2, <1>3, <2>1
  <1>6. q = p => a <= u
    BY <1>1, <1>2, <1>3
  <1> QED
    BY <1>1, <1>4, <1>5, <1>6 DEF p, q

\* A later unit is in no earlier cell.
LEMMA Monotone ==
    ASSUME NEW s \in Nat \ {0}, NEW u \in Nat, NEW v \in Nat, u <= v
    PROVE  u \div s <= v \div s
  <1> DEFINE p == u \div s
             q == v \div s
  <1>1. p \in Nat /\ q \in Nat /\ u % s \in 0..(s - 1) /\ v % s \in 0..(s - 1)
    BY Division
  <1>2. u = s * p + (u % s) /\ v = s * q + (v % s)
    BY Division
  <1> HIDE DEF p, q
  <1>3. s * p \in Nat /\ s * q \in Nat
    BY <1>1
  <1>4. ~(q < p)
    <2> SUFFICES ASSUME q < p PROVE FALSE
      OBVIOUS
    <2>1. s * q + s <= s * p
      BY <1>1, MulMono
    <2> QED
      BY <1>1, <1>2, <1>3, <2>1
  <1> QED
    BY <1>1, <1>4 DEF p, q

\* A block that starts at a cell and is no longer than it is in that cell.
LEMMA OneCell ==
    ASSUME NEW s \in Nat \ {0}, NEW a \in Nat, NEW u \in Nat, a % s = 0, a <= u, u < a + s
    PROVE  u \div s = a \div s
  <1>1. a = s * (a \div s) /\ a \div s \in Nat
    BY Division
  <1> DEFINE q == a \div s
  <1> HIDE DEF q
  <1>2. q \in Nat /\ a = s * q
    BY <1>1 DEF q
  <1>3. s * (q + 1) = a + s
    BY <1>2
  <1>4. (a + s) \in Nat /\ (a + s) % s = 0 /\ (a + s) \div s = q + 1
    BY <1>2, <1>3, Multiple
  <1>5. u \div s < (a + s) \div s
    BY <1>4, Below
  <1>6. a \div s <= u \div s
    BY Monotone
  <1>7. u \div s \in Nat
    BY Division
  <1> QED
    BY <1>1, <1>4, <1>5, <1>6, <1>7 DEF q

\* A unit of a block is in one of its cells.
LEMMA CellOfUnit ==
    ASSUME cellSize \in Nat \ {0}, NEW off \in Nat, NEW len \in Nat, NEW u \in Units(off, len)
    PROVE  u \in Nat /\ u \div cellSize \in Nat /\ u \div cellSize \in CellsOf(off, len)
  <1> DEFINE last == off + len - 1
  <1>1. u \in Nat /\ last \in Nat /\ off <= u /\ u <= last
    BY DEF Units
  <1>2. CellsOf(off, len) = (off \div cellSize) .. (last \div cellSize)
    BY DEF CellsOf
  <1> HIDE DEF last
  <1>3. /\ off \div cellSize <= u \div cellSize /\ u \div cellSize <= last \div cellSize
        /\ off \div cellSize \in Nat /\ u \div cellSize \in Nat /\ last \div cellSize \in Nat
    BY <1>1, Monotone, Division
  <1> QED
    BY <1>1, <1>2, <1>3

\* The cell of a single unit.
LEMMA UnitCell ==
    ASSUME cellSize \in Nat \ {0}, NEW u \in Nat
    PROVE  CellsOf(u, 1) = {u \div cellSize}
  <1>1. u + 1 - 1 = u /\ u \div cellSize \in Nat
    BY Division
  <1> QED
    BY <1>1 DEF CellsOf

-----------------------------------------------------------------------------
(* A range and its blocks. *)

LEMMA Here_InRange ==
    ASSUME LoopInv, pc \in InRange
    PROVE  /\ item \in DOMAIN list /\ pos \in Nat /\ size \in Nat \ {0}
           /\ list[item].off \in Nat /\ EndOf(list[item]) \in Nat
           /\ list[item].off <= pos /\ pos <= EndOf(list[item])
  <1>1. item \in DOMAIN list
    <2>1. list \in Seq([off: Nat, len: Nat \ {0}])
      BY RangeAssumption DEF LoopInv, TypeInv
    <2> QED
      BY <2>1 DEF LoopInv, TypeInv, PlaceInv
  <1> QED
    BY <1>1, RangeType, RangeAssumption DEF LoopInv, TypeInv, PlaceInv

LEMMA SeenNat ==
    ASSUME LoopInv
    PROVE  Gone \subseteq Nat
  BY SeenInRange

\* A buffered block starts at a cell and is in no other.
LEMMA BlockIsCell ==
    ASSUME LoopInv, BlueInv, Buffered, pc \in InBlock
    PROVE  /\ pos % size = 0 /\ Chunk \in Nat \ {0} /\ Chunk <= size
           /\ (pos + Chunk) % size = 0 \/ pos + Chunk = EndOf(list[item])
           /\ pos + Chunk <= EndOf(list[item])
           /\ \A u \in Here : u \in Nat /\ u \div size = pos \div size
           /\ pos \in Here
  <1>1. /\ item \in DOMAIN list /\ pos \in Nat /\ size \in Nat \ {0}
        /\ EndOf(list[item]) \in Nat
    BY Here_InRange DEF InRange, InBlock
  <1>2. pos < EndOf(list[item])
    BY DEF LoopInv, PlaceInv
  <1>3. pos % size = 0
    BY <1>1, <1>2 DEF BlueInv, InRange, InBlock
  <1>4. Chunk = Least(size, EndOf(list[item]) - pos)
    BY DEF Chunk, BlockSize, Buffered
  <1>5. Chunk \in Nat \ {0} /\ Chunk <= size /\ pos + Chunk <= EndOf(list[item])
    BY <1>1, <1>2, <1>4 DEF Least
  <1>6. (pos + size) % size = 0
    <2> DEFINE q == pos \div size
    <2>1. q \in Nat /\ pos = size * q
      <3>1. q \in Nat /\ pos = size * q + (pos % size)
        BY <1>1, Division
      <3> HIDE DEF q
      <3> QED
        BY <1>1, <1>3, <3>1
    <2> HIDE DEF q
    <2>2. pos + size = size * (q + 1)
      BY <1>1, <2>1
    <2> QED
      BY <1>1, <2>1, <2>2, Multiple
  <1>7. (pos + Chunk) % size = 0 \/ pos + Chunk = EndOf(list[item])
    BY <1>1, <1>2, <1>4, <1>6 DEF Least
  <1>8. \A u \in Here : u \in Nat /\ pos <= u /\ u < pos + size
    BY <1>1, <1>5 DEF Here, Units
  <1>9. \A u \in Here : u \div size = pos \div size
    BY <1>1, <1>3, <1>8, OneCell
  <1>10. pos \in Here
    BY <1>1, <1>5 DEF Here, Units
  <1> QED
    BY <1>3, <1>5, <1>7, <1>8, <1>9, <1>10

\* The cells of whole blocks of the range at hand, if no other range has them,
\* hold no byte gone through but those of the blocks.
LEMMA OwnUnits ==
    ASSUME LoopInv, OwnCells, pc \in InRange,
           NEW from \in Nat, NEW to \in Nat, list[item].off <= from, from < to,
           to <= EndOf(list[item]), from % size = 0,
           to % size = 0 \/ to = EndOf(list[item]),
           NEW u \in Gone, Alone(u \div size),
           from \div size <= u \div size, u \div size <= (to - 1) \div size
    PROVE  from <= u /\ u < to
  <1>1. /\ item \in DOMAIN list /\ pos \in Nat /\ size \in Nat \ {0} /\ cellSize = size
        /\ list[item].off \in Nat /\ list[item].len \in Nat /\ EndOf(list[item]) \in Nat
    BY Here_InRange, RangeType DEF OwnCells, LoopInv, TypeInv
  <1>2. u \in Nat /\ to - 1 \in Nat
    BY SeenNat
  <1>3. u \div size \in Nat /\ from \div size \in Nat /\ (to - 1) \div size \in Nat
    BY <1>1, <1>2, Division
  <1>4. from <= u
    <2>1. ~(u \div size < from \div size)
      BY <1>3
    <2>2. (u \div size < from \div size) <=> u < from
      BY <1>1, <1>2, Below
    <2> QED
      BY <1>2, <2>1, <2>2
  <1>5. u \in Units(list[item].off, list[item].len)
    <2>1. PICK i \in DOMAIN list : u \in Units(list[i].off, list[i].len)
      BY SeenInRange
    <2>2. list[i].off \in Nat /\ list[i].len \in Nat
      BY <2>1, RangeType DEF LoopInv, TypeInv
    <2>3. u \div size \in CellsOf(list[i].off, list[i].len)
      BY <1>1, <2>1, <2>2, CellOfUnit
    <2>4. u \div size \in CellsOf(list[item].off, list[item].len)
      <3> DEFINE last == list[item].off + list[item].len - 1
      <3>1. last \in Nat /\ to - 1 <= last
        BY <1>1, <1>2 DEF EndOf
      <3>2. CellsOf(list[item].off, list[item].len) = (list[item].off \div size) .. (last \div size)
        BY <1>1 DEF CellsOf
      <3> HIDE DEF last
      <3>3. (to - 1) \div size <= last \div size /\ last \div size \in Nat
        BY <1>1, <1>2, <3>1, Monotone, Division
      <3>4. list[item].off \div size <= from \div size /\ list[item].off \div size \in Nat
        BY <1>1, Monotone, Division
      <3> QED
        BY <1>3, <3>2, <3>3, <3>4
    <2> QED
      BY <1>1, <2>1, <2>3, <2>4 DEF Alone
  <1>6. u < to
    <2>1. CASE to % size = 0
      <3>1. (to - 1) \div size < to \div size
        <4> DEFINE last == to - 1
        <4>1. last \in Nat /\ last < to
          BY <1>2
        <4> HIDE DEF last
        <4>2. last \div size < to \div size
          BY <1>1, <2>1, <4>1, Below
        <4> QED
          BY <4>2 DEF last
      <3>2. to \div size \in Nat
        BY <1>1, Division
      <3>3. u \div size < to \div size
        BY <1>3, <3>1, <3>2
      <3> QED
        BY <1>1, <1>2, <2>1, <3>3, Below
    <2>2. CASE to = EndOf(list[item])
      BY <1>1, <1>2, <1>5, <2>2 DEF Units, EndOf
    <2> QED
      BY <2>1, <2>2
  <1> QED
    BY <1>4, <1>6

\* A byte of the block at hand that was gone through before is in a cell of two
\* ranges.
LEMMA HereAlone ==
    ASSUME LoopInv, cellSize = size, pc \in InBlock, NEW u \in Here, Alone(u \div size)
    PROVE  u \notin Gone
  <1> SUFFICES ASSUME u \in Gone PROVE FALSE
    OBVIOUS
  <1>1. PICK i \in DOMAIN list : /\ i # item /\ item \in DOMAIN list
                                 /\ u \in Units(list[i].off, list[i].len)
                                 /\ u \in Units(list[item].off, list[item].len)
    BY HereAgain
  <1>2. /\ list[i].off \in Nat /\ list[i].len \in Nat
        /\ list[item].off \in Nat /\ list[item].len \in Nat /\ size \in Nat \ {0}
    BY <1>1, RangeType, RangeAssumption DEF LoopInv, TypeInv
  <1>3. /\ u \div size \in CellsOf(list[i].off, list[i].len)
        /\ u \div size \in CellsOf(list[item].off, list[item].len)
    BY <1>1, <1>2, CellOfUnit
  <1> QED
    BY <1>1, <1>3 DEF Alone

\* So a new block's cell, if of one range, is still pending or red for an
\* earlier mark of it.
LEMMA FreshCell ==
    ASSUME LoopInv, BlueInv, OwnCells, Buffered, pc \in InBlock, Alone(pos \div size),
           NEW u \in Gone
    PROVE  u \div size # pos \div size
  <1> SUFFICES ASSUME u \div size = pos \div size PROVE FALSE
    OBVIOUS
  <1>1. /\ item \in DOMAIN list /\ pos \in Nat /\ size \in Nat \ {0}
        /\ list[item].off \in Nat /\ list[item].off <= pos /\ EndOf(list[item]) \in Nat
    BY Here_InRange DEF InRange, InBlock
  <1>2. /\ pos % size = 0 /\ Chunk \in Nat \ {0} /\ pos + Chunk <= EndOf(list[item])
        /\ (pos + Chunk) % size = 0 \/ pos + Chunk = EndOf(list[item])
    BY BlockIsCell
  <1> DEFINE to == pos + Chunk
  <1>3. to \in Nat /\ pos < to /\ to - 1 \in Nat /\ pos <= to - 1
    BY <1>1, <1>2
  <1>4. pos \div size <= (to - 1) \div size /\ pos \div size \in Nat
    BY <1>1, <1>3, Monotone, Division
  <1>5. pos <= u /\ u < to
    <2> HIDE DEF to
    <2> QED
      BY <1>1, <1>2, <1>3, <1>4, OwnUnits DEF to, InRange, InBlock
  <1>6. u \in Here
    BY <1>1, <1>2, <1>5, SeenNat DEF Here, Units
  <1> QED
    BY <1>6, HereAlone DEF OwnCells

-----------------------------------------------------------------------------
(* Marks that keep the colours true. *)

\* Turning cells red, going through more, and cleaning units do.
LEMMA RedKeepsTrue ==
    ASSUME NEW map, NEW gone, NEW stale, CellsTrue(map, gone, stale),
           NEW after, NEW gone2, NEW stale2, gone \subseteq gone2, stale2 \subseteq stale,
           DOMAIN after = DOMAIN map,
           \A c \in DOMAIN map : after[c] = map[c] \/ after[c] \in Failures
    PROVE  CellsTrue(after, gone2, stale2)
  BY DEF CellsTrue, Failures

\* So does turning the cell of a new block blue.
LEMMA BlueKeepsTrue ==
    ASSUME NEW gone, NEW stale, CellsTrue(cells, gone, stale), cellSize = size,
           LoopInv, BlueInv, Buffered, pc \in InBlock,
           Alone(pos \div size) => \A u \in gone : u \div size # pos \div size,
           stale \subseteq gone, \A u \in stale : Alone(u \div size)
    PROVE  CellsTrue(MarkCells(cells, pos, Chunk, "Cached"), gone \cup Here,
                     stale \cup {u \in Here : Alone(u \div size)})
  <1> DEFINE blue == MarkCells(cells, pos, Chunk, "Cached")
  <1>1. /\ \A u \in Here : u \div size = pos \div size
        /\ pos \in Here
    BY BlockIsCell
  <1>2. CellsOf(pos, Chunk) = {pos \div size}
    <2>1. pos \in Nat /\ size \in Nat \ {0} /\ Chunk \in Nat \ {0} /\ Chunk <= size /\ pos % size = 0
      BY BlockIsCell, Here_InRange DEF InRange, InBlock
    <2> DEFINE last == pos + Chunk - 1
    <2>2. last \in Nat /\ pos <= last /\ last < pos + size
      BY <2>1
    <2>3. CellsOf(pos, Chunk) = (pos \div size) .. (last \div size)
      BY DEF CellsOf
    <2> HIDE DEF last
    <2>4. last \div size = pos \div size /\ pos \div size \in Nat
      BY <2>1, <2>2, OneCell, Division
    <2> QED
      BY <2>3, <2>4
  <1>3. \A c \in DOMAIN cells :
            blue[c] = IF c = pos \div size THEN Marked(cells[c], "Cached") ELSE cells[c]
    BY <1>2 DEF MarkCells
  <1>4. DOMAIN blue = DOMAIN cells
    BY DEF MarkCells
  <1> HIDE DEF blue
  <1>5. \A c \in DOMAIN cells : c = pos \div size /\ Alone(c) => cells[c] \notin {"Ok", "Cached"}
    BY DEF CellsTrue
  <1>6. \A c \in DOMAIN blue : blue[c] \in {"Ok", "Cached"} =>
            \E u \in gone \cup Here : u \div size = c
    BY <1>1, <1>3, <1>4 DEF CellsTrue
  <1>7. \A c \in DOMAIN cells : c = pos \div size /\ Alone(c) => blue[c] # "Ok"
    BY <1>3, <1>5 DEF Marked
  <1>8. \A u \in stale : u \div size # pos \div size
    <2> SUFFICES ASSUME NEW u \in stale, u \div size = pos \div size PROVE FALSE
      OBVIOUS
    <2>1. Alone(pos \div size) /\ u \in gone
      <3>1. Alone(u \div size)
        OBVIOUS
      <3> QED
        BY <3>1
    <2> QED
      BY <2>1
  <1>9. \A u \in stale : u \div size \in DOMAIN blue => blue[u \div size] # "Ok"
    BY <1>3, <1>4, <1>8 DEF CellsTrue
  <1>10. ASSUME NEW u \in Here, Alone(u \div size), u \div size \in DOMAIN blue
         PROVE  blue[u \div size] # "Ok"
    <2>1. u \div size = pos \div size
      BY <1>1, <1>10
    <2> DEFINE c == u \div size
    <2>2. Alone(c) /\ c = pos \div size /\ c \in DOMAIN cells
      BY <1>4, <1>10, <2>1
    <2> HIDE DEF c
    <2>3. blue[c] # "Ok"
      BY <1>7, <2>2
    <2> QED
      BY <2>3 DEF c
  <1> DEFINE stale2 == stale \cup {u \in Here : Alone(u \div size)}
  <1>11. \A u \in stale2 : u \div size \in DOMAIN blue => blue[u \div size] # "Ok"
    BY <1>9, <1>10
  <1> HIDE DEF stale2
  <1>12. CellsTrue(blue, gone \cup Here, stale2)
    BY <1>6, <1>11 DEF CellsTrue
  <1> QED
    BY <1>12 DEF blue, stale2

\* And promoting a clean range, when no stale unit of another is in its cells.
LEMMA PromoteKeepsTrue ==
    ASSUME NEW map, NEW gone, NEW stale, CellsTrue(map, gone, stale),
           cellSize = size, size \in Nat \ {0},
           NEW range, range.from \in Nat, range.to \in Nat, range.from < range.to,
           range.from % size = 0,
           Units(range.from, range.to - range.from) \subseteq gone,
           Units(range.from, range.to - range.from) \cap stale = {},
           \A u \in stale :
             range.from \div size <= u \div size /\ u \div size <= (range.to - 1) \div size
               => u \in Nat /\ range.from <= u /\ u < range.to
    PROVE  CellsTrue(Promote(map, range), gone, stale)
  <1> DEFINE green == Promote(map, range)
             from == range.from
             last == range.to - 1
             low == from \div size
             high == last \div size
             under == low .. high
  <1>1. from \in Nat /\ last \in Nat /\ from <= last /\ from % size = 0
    OBVIOUS
  <1>2. Units(range.from, range.to - range.from) = from .. last
    BY DEF Units
  <1>3. CellsOf(range.from, range.to - range.from) = under
    <2>1. range.from + (range.to - range.from) - 1 = last
      OBVIOUS
    <2> QED
      BY <2>1 DEF CellsOf
  <1>4. /\ DOMAIN green = DOMAIN map
        /\ \A c \in DOMAIN map :
             green[c] = IF c \in under THEN Marked(map[c], "Ok") ELSE map[c]
    BY <1>3 DEF Promote, MarkCells
  <1>5. from .. last \subseteq gone /\ (from .. last) \cap stale = {}
    BY <1>2
  <1>6. \A u \in stale : low <= u \div size /\ u \div size <= high => u \in from .. last
    BY <1>1
  <1>7. low \in Nat /\ high \in Nat
    BY <1>1, Division
  <1> HIDE DEF green, from, last, low, high
  <1>8. \A u \in stale : u \div size \in under => u \in from .. last
    BY <1>6, <1>7
  <1>9. \A c \in under : \E u \in gone : u \div size = c
    <2> SUFFICES ASSUME NEW c \in under PROVE \E u \in gone : u \div size = c
      OBVIOUS
    <2>1. c \in Nat /\ low <= c /\ c <= high
      BY <1>7
    <2> DEFINE u == size * c
    <2>2. u \in Nat /\ u % size = 0 /\ u \div size = c
      BY <2>1, Multiple
    <2> HIDE DEF u
    <2>3. from <= u
      <3>1. ~(u \div size < low)
        BY <1>7, <2>1, <2>2
      <3>2. (u \div size < from \div size) <=> u < from
        BY <1>1, <2>2, Below
      <3>3. ~(u < from)
        BY <3>1, <3>2 DEF low
      <3> QED
        BY <1>1, <2>2, <3>3
    <2>4. u <= last
      <3>1. ~(high < u \div size)
        BY <1>7, <2>1, <2>2
      <3> QED
        BY <1>1, <2>2, <3>1, Below DEF high
    <2>5. u \in from .. last
      BY <1>1, <2>2, <2>3, <2>4
    <2> QED
      BY <1>5, <2>2, <2>5
  <1>10. \A c \in DOMAIN green : green[c] \in {"Ok", "Cached"} => \E u \in gone : u \div size = c
    BY <1>4, <1>9 DEF CellsTrue
  <1>11. \A u \in stale : u \div size \in DOMAIN green => green[u \div size] # "Ok"
    BY <1>4, <1>5, <1>8 DEF CellsTrue
  <1> QED
    BY <1>10, <1>11 DEF CellsTrue, green

-----------------------------------------------------------------------------
(* The steps. *)

LEMMA NextClean ==
    LoopInv /\ BlocksAccounted /\ CleanInv /\ [Next]_vars => CleanInv'
  <1> SUFFICES ASSUME LoopInv, BlocksAccounted, CleanInv, [Next]_vars PROVE CleanInv'
    OBVIOUS
  <1>1. UNCHANGED <<list, flags, size>> /\ Direct' = Direct /\ Once' = Once
    BY SetupFixed DEF setup, Direct, Once, Targets, Units
  <1>2. ASSUME pc' \notin {"write", "fdatasync", "verify", "mark"}, dirty' \subseteq dirty,
               good' = good
        PROVE  CleanInv'
    BY <1>1, <1>2 DEF CleanInv, Fine
  <1>3. CASE NextRange \/ Boundary \/ Probe \/ LeaveLoop \/ FlushCheck \/ Upgrade \/ HashFile \/ Finish
    BY <1>2, <1>3 DEF NextRange, Boundary, Probe, LeaveLoop, FlushCheck, Upgrade, HashFile, Finish, media
  <1>4. CASE Read
    <2>1. UNCHANGED <<dirty, good>>
      BY <1>4 DEF Read, Fail, media
    <2>2. CASE Fail("ReadErr")
      BY <1>2, <2>1, <2>2 DEF Fail, PastBlock
    <2>3. CASE pc' = IF flags.dry THEN "mark" ELSE "write"
      BY <1>1, <2>1, <2>3 DEF CleanInv, Direct, Fine
    <2> QED
      BY <1>4, <2>2, <2>3 DEF Read
  <1>5. CASE WriteDirect
    <2>1. CASE Fail("WriteErr") /\ UNCHANGED media
      BY <1>2, <2>1 DEF Fail, PastBlock, media
    <2>2. CASE /\ pc' \in {"verify", "mark"} /\ UNCHANGED <<item, pos, good>>
               /\ dirty' = dirty \ Here
      BY <1>1, <1>5, <2>2, SameBlock DEF CleanInv, WriteDirect, Fine
    <2> QED
      BY <1>5, <2>1, <2>2 DEF WriteDirect
  <1>6. CASE WriteBuffered
    <2>1. Fine \cap Once \cap Here = {}
      BY <1>6, GoodIsBehind DEF WriteBuffered, InBlock
    <2>2. ~flags.dry
      BY <1>6 DEF WriteBuffered, CleanInv
    <2>3. CASE Fail("WriteErr")
      BY <1>1, <1>6, <2>1, <2>2, <2>3 DEF WriteBuffered, CleanInv, Fail, PastBlock, Fine
    <2>4. CASE /\ pc' = IF flags.through THEN "fdatasync"
                        ELSE IF flags.verify THEN "verify" ELSE "mark"
               /\ dirty' = dirty \cup Here /\ UNCHANGED good
      BY <1>1, <2>1, <2>2, <2>4 DEF CleanInv, Direct, Fine
    <2> QED
      BY <1>6, <2>3, <2>4 DEF WriteBuffered
  <1>7. CASE Fdatasync
    <2>1. ~flags.dry /\ dirty' = {} /\ pc' \in {"verify", "mark", "boundary"}
      BY <1>7 DEF Fdatasync, Flushed, CleanInv, Fail, PastBlock
    <2> QED
      BY <1>1, <2>1 DEF CleanInv
  <1>8. CASE Verify
    <2>1. dirty' = (IF flags.through THEN dirty ELSE dirty \ Here) /\ ~flags.dry
      BY <1>8 DEF Verify, WaitFlushed, CleanInv
    <2>2. CASE Fail("WriteErr")
      BY <1>2, <2>1, <2>2 DEF Fail, PastBlock
    <2>3. CASE pc' = "mark" /\ UNCHANGED <<item, pos, good>>
      BY <1>1, <1>8, <2>1, <2>3, SameBlock DEF CleanInv, Verify, Fine
    <2> QED
      BY <1>8, <2>2, <2>3 DEF Verify
  <1>9. CASE Mark
    <2>1. Fine' = Fine \cup Here /\ UNCHANGED dirty /\ pc' = "boundary" /\ pc = "mark"
      BY <1>9, FineGrows DEF Mark, PastBlock, media
    <2> QED
      BY <1>1, <2>1 DEF CleanInv
  <1>10. CASE Sync
    BY <1>2, <1>10 DEF Sync, Flushed
  <1>11. CASE dirty' \subseteq dirty /\ UNCHANGED <<pc, item, pos, good>>
    BY <1>1, <1>11, SameBlock DEF CleanInv, Fine
  <1>12. CASE Writeback \/ RequestStop \/ UNCHANGED vars
    BY <1>11, <1>12 DEF Writeback, RequestStop, vars, media
  <1> QED
    BY <1>3, <1>4, <1>5, <1>6, <1>7, <1>8, <1>9, <1>10, <1>12 DEF Next, Worker

LEMMA NextBlue ==
    ASSUME LoopInv, OwnCells, Buffered, BlueInv, [Next]_vars
    PROVE  BlueInv'
  <1>1. UNCHANGED <<list, flags, size, cellSize>>
    BY SetupFixed DEF setup
  <1>2. CASE NextRange
    <2>1. CASE pc' = "boundary"
      <3>1. /\ pos' = list[item].off /\ item' = item /\ ~cached'.have
            /\ item \in 1..Len(list)
        BY <1>2, <2>1 DEF NextRange, LoopInv, TypeInv
      <3>2. item \in DOMAIN list
        <4>1. list \in Seq([off: Nat, len: Nat \ {0}])
          BY RangeAssumption DEF LoopInv, TypeInv
        <4> QED
          BY <3>1, <4>1
      <3> QED
        BY <1>1, <3>1, <3>2 DEF BlueInv, OwnCells
    <2>2. CASE pc' \in {"items", "left"}
      BY <2>2 DEF BlueInv, InRange
    <2> QED
      BY <1>2, <2>1, <2>2 DEF NextRange
  <1>3. CASE pc \in InBlock /\ PastBlock /\ UNCHANGED <<item, cached>>
    <2>1. /\ pos \in Nat /\ Chunk \in Nat
          /\ (pos + Chunk) % size = 0 \/ pos + Chunk = EndOf(list[item])
      BY <1>3, BlockIsCell, Here_InRange DEF InRange, InBlock
    <2>2. pos' = pos + Chunk /\ pos <= pos'
      BY <1>3, <2>1 DEF PastBlock
    <2>3. (pos % size = 0 \/ pos = EndOf(list[item]))'
      BY <1>1, <1>3, <2>1, <2>2 DEF EndOf
    <2>4. cached.have =>
            /\ cached.from \in Nat /\ cached.to \in Nat
            /\ list[item].off <= cached.from /\ cached.from < cached.to /\ cached.to <= pos'
            /\ cached.from % size = 0
            /\ cached.to % size = 0 \/ cached.to = EndOf(list[item])
      BY <1>3, <2>1, <2>2 DEF BlueInv, InRange, InBlock
    <2> QED
      BY <1>1, <1>3, <2>3, <2>4 DEF BlueInv, EndOf
  <1>4. CASE Mark
    <2>1. /\ pos \in Nat /\ Chunk \in Nat \ {0} /\ pos % size = 0
          /\ (pos + Chunk) % size = 0 \/ pos + Chunk = EndOf(list[item])
          /\ list[item].off \in Nat /\ list[item].off <= pos
      BY <1>4, BlockIsCell, Here_InRange DEF Mark, InRange, InBlock
    <2>2. pos' = pos + Chunk /\ pc = "mark" /\ pc' = "boundary" /\ UNCHANGED item
      BY <1>4 DEF Mark, PastBlock
    <2>3. /\ cached'.from = IF cached.have THEN cached.from ELSE pos
          /\ cached'.to = pos + Chunk
      BY <1>4 DEF Mark, Buffered
    <2>4. (pos % size = 0 \/ pos = EndOf(list[item]))'
      BY <1>1, <2>1, <2>2 DEF EndOf
    <2>5. /\ cached'.from \in Nat /\ list[item].off <= cached'.from
          /\ cached'.from < cached'.to /\ cached'.from % size = 0
      <3>1. CASE cached.have
        BY <2>1, <2>2, <2>3, <3>1 DEF BlueInv, InRange
      <3>2. CASE ~cached.have
        BY <2>1, <2>3, <3>2
      <3> QED
        BY <3>1, <3>2
    <2> QED
      BY <1>1, <2>1, <2>2, <2>3, <2>4, <2>5 DEF BlueInv, EndOf
  <1>5. CASE (pc \in InRange \/ pc' \notin InRange) /\ UNCHANGED <<pos, cached>>
             /\ (pc' \in InRange => UNCHANGED item)
    BY <1>1, <1>5 DEF BlueInv, EndOf
  <1>6. CASE Read \/ WriteDirect \/ WriteBuffered \/ Fdatasync \/ Verify
    BY <1>3, <1>5, <1>6
    DEF Read, WriteDirect, WriteBuffered, Fdatasync, Verify, Fail, InBlock, InRange
  <1>7. CASE Boundary \/ Probe \/ LeaveLoop \/ FlushCheck \/ Sync \/ Upgrade \/ HashFile \/ Finish
    BY <1>5, <1>7 DEF Boundary, Probe, LeaveLoop, FlushCheck, Sync, Upgrade, HashFile, Finish, InRange
  <1>8. CASE Writeback \/ RequestStop \/ UNCHANGED vars
    BY <1>5, <1>8 DEF Writeback, RequestStop, vars
  <1> QED
    BY <1>2, <1>4, <1>6, <1>7, <1>8 DEF Next, Worker

\* Promoting the blocks cached so far, before pos or with the block at hand.
LEMMA PromoteRange ==
    ASSUME LoopInv, CompleteInv, OwnCells, Buffered, pc \in InRange,
           NEW map, NEW gone, NEW stale, NEW range,
           range.from \in Nat, range.to \in Nat, range.from < range.to,
           list[item].off <= range.from, range.to <= EndOf(list[item]),
           range.from % size = 0, range.to % size = 0 \/ range.to = EndOf(list[item]),
           \/ range.to <= pos /\ gone = Gone /\ stale \subseteq Gone
           \/ /\ Chunk \in Nat /\ range.to = pos + Chunk /\ range.from <= pos
              /\ gone = Gone \cup Here /\ stale \subseteq Gone \cup Here,
           stale \subseteq dirty, \A u \in stale : Alone(u \div size), MayBeClean(range.from, range.to),
           CellsTrue(map, gone, stale)
    PROVE  CellsTrue(Promote(map, range), gone, stale)
  <1>1. /\ item \in DOMAIN list /\ pos \in Nat /\ size \in Nat \ {0}
        /\ list[item].off \in Nat /\ EndOf(list[item]) \in Nat
        /\ list[item].off <= pos
    BY Here_InRange
  <1>2. Units(range.from, range.to - range.from) \cap stale = {}
    BY DEF MayBeClean
  <1>3. Units(range.from, range.to - range.from) \subseteq gone
    <2>1. {item} \X Units(list[item].off, pos - list[item].off) \subseteq seen
      BY DEF CompleteInv
    <2>2. list[item].off .. (pos - 1) \subseteq Gone
      <3>1. Units(list[item].off, pos - list[item].off) = list[item].off .. (pos - 1)
        BY <1>1 DEF Units
      <3>2. \A u \in list[item].off .. (pos - 1) : <<item, u>> \in seen
        BY <2>1, <3>1
      <3> SUFFICES ASSUME NEW u \in list[item].off .. (pos - 1) PROVE u \in Gone
        OBVIOUS
      <3>3. <<item, u>> \in seen /\ <<item, u>>[2] = u
        BY <3>2
      <3> QED
        BY <3>3 DEF Gone
    <2>3. CASE range.to <= pos /\ gone = Gone
      BY <1>1, <2>2, <2>3 DEF Units
    <2>4. CASE Chunk \in Nat /\ range.to = pos + Chunk /\ gone = Gone \cup Here
      <3>1. Here = pos .. (pos + Chunk - 1)
        BY DEF Here, Units
      <3> QED
        BY <1>1, <2>2, <2>4, <3>1 DEF Units
    <2> QED
      BY <2>3, <2>4
  <1>4. ASSUME NEW u \in stale,
               range.from \div size <= u \div size, u \div size <= (range.to - 1) \div size
        PROVE  u \in Nat /\ range.from <= u /\ u < range.to
    <2>1. CASE u \in Gone
      BY <1>4, <2>1, OwnUnits, SeenNat
    <2>2. CASE u \in Here /\ Chunk \in Nat /\ range.to = pos + Chunk /\ range.from <= pos
      BY <1>1, <2>2 DEF Here, Units
    <2> QED
      BY <2>1, <2>2
  <1> QED
    BY <1>1, <1>2, <1>3, <1>4, PromoteKeepsTrue DEF OwnCells

LEMMA NextCells ==
    ASSUME LoopInv, CompleteInv, BlocksAccounted, OwnCells, Buffered, BlueInv, CellInv,
           [Next]_vars
    PROVE  CellInv'
  <1>1. /\ UNCHANGED <<list, flags, size, cellSize>>
        /\ \A u : Alone(u \div size)' = Alone(u \div size)
    BY SetupFixed DEF setup, Alone, CellsOf
  <1>2. CellsTrue(cells, Gone, Stale)
    BY DEF CellInv
  <1>3. Stale' = {u \in Fine' \cap dirty' : Alone(u \div size)}
    BY <1>1 DEF Stale
  <1>4. Stale \subseteq Gone /\ Stale \subseteq dirty /\ \A u \in Stale : Alone(u \div size)
    BY DEF BlocksAccounted, Stale, Fine, Gone
  <1>5. ASSUME DOMAIN cells' = DOMAIN cells,
               \A c \in DOMAIN cells : cells'[c] = cells[c] \/ cells'[c] \in Failures,
               seen \subseteq seen', good' = good,
               \A u \in Fine \cap dirty' : Alone(u \div size) => u \in dirty,
               pc' = "synced" => dirty' = {}
        PROVE  CellInv'
    <2>1. Gone \subseteq Gone' /\ Stale' \subseteq Stale
      BY <1>3, <1>5 DEF Gone, Fine, Stale
    <2>2. CellsTrue(cells', Gone', Stale')
      BY <1>2, <1>5, <2>1, RedKeepsTrue
    <2> QED
      BY <1>1, <1>5, <2>2 DEF CellInv, CellsTrue
  <1>6. ASSUME UNCHANGED <<cells, seen, good>>,
               \A u \in Fine \cap dirty' : Alone(u \div size) => u \in dirty,
               pc' = "synced" => dirty' = {}
        PROVE  CellInv'
    BY <1>5, <1>6
  <1>7. ASSUME NEW kind \in Failures, Fail(kind),
               \A u \in Fine \cap dirty' : Alone(u \div size) => u \in dirty
        PROVE  CellInv'
    BY <1>5, <1>7 DEF Fail, PastBlock, MarkCells, Marked
  <1>8. CASE NextRange \/ Boundary \/ LeaveLoop \/ FlushCheck \/ Finish
    BY <1>6, <1>8 DEF NextRange, Boundary, LeaveLoop, FlushCheck, Finish, progress, media
  <1>9. CASE Read \/ WriteDirect
    <2>1. dirty' \subseteq dirty
      BY <1>9 DEF Read, WriteDirect, media
    <2> QED
      BY <1>6, <1>7, <1>9, <2>1 DEF Read, WriteDirect, progress, Failures
  <1>10. CASE WriteBuffered
    <2>1. dirty' \subseteq dirty \cup Here /\ pc \in InBlock
      BY <1>10 DEF WriteBuffered, InBlock
    <2>2. Fine \subseteq Gone /\ cellSize = size
      BY DEF BlocksAccounted, Fine, Gone, OwnCells
    <2>3. \A u \in Fine \cap dirty' : Alone(u \div size) => u \in dirty
      BY <2>1, <2>2, HereAlone
    <2> QED
      BY <1>6, <1>7, <1>10, <2>3 DEF WriteBuffered, progress, Failures
  <1>11. CASE Fdatasync \/ Verify
    <2>1. dirty' \subseteq dirty
      BY <1>11 DEF Fdatasync, Verify, WaitFlushed, Flushed
    <2> QED
      BY <1>6, <1>7, <1>11, <2>1 DEF Fdatasync, Verify, progress, Failures
  <1>12. CASE Sync
    BY <1>6, <1>12 DEF Sync, Flushed, progress
  <1>13. CASE Upgrade
    <2>1. dirty = {} /\ UNCHANGED <<seen, dirty>> /\ pc' = "done" /\ Gone' = Gone
      BY <1>13 DEF Upgrade, CellInv, media, Gone
    <2>3. Stale' = {}
      BY <1>3, <2>1
    <2>2. /\ DOMAIN cells' = DOMAIN cells
          /\ \A c \in DOMAIN cells : cells'[c] \in {"Ok", "Cached"} => cells[c] \in {"Ok", "Cached"}
      BY <1>13 DEF Upgrade, Upgraded
    <2> QED
      BY <1>1, <1>2, <2>1, <2>2, <2>3 DEF CellInv, CellsTrue
  <1>14. CASE HashFile
    <2>1. UNCHANGED <<good, dirty, seen>> /\ pc' = "hashed"
      BY <1>14 DEF HashFile, media
    <2>2. cells' \in {cells, MarkCells(cells, 0, 1, "ReadErr")}
      BY <1>14 DEF HashFile
    <2> QED
      BY <1>5, <2>1, <2>2 DEF MarkCells, Marked, Failures
  <1>15. CASE Writeback \/ RequestStop \/ UNCHANGED vars
    BY <1>6, <1>15 DEF Writeback, RequestStop, vars, progress, media, CellInv
  <1>16. CASE Probe
    <2>1. pc = "probe" /\ pc' = "items" /\ UNCHANGED <<seen, good, dirty>>
      BY <1>16 DEF Probe, media
    <2>2. CASE UNCHANGED cells
      BY <1>6, <2>1, <2>2
    <2>4. Gone' = Gone /\ Stale' = Stale
      BY <1>3, <2>1 DEF Gone, Stale, Fine
    <2>3. CASE /\ cached.have /\ MayBeClean(cached.from, cached.to)
               /\ cells' = Promote(cells, cached)
      <3>2. /\ cached.from \in Nat /\ cached.to \in Nat
            /\ list[item].off <= cached.from /\ cached.from < cached.to /\ cached.to <= pos
            /\ cached.from % size = 0
            /\ cached.to % size = 0 \/ cached.to = EndOf(list[item])
        BY <2>1, <2>3 DEF BlueInv, InRange
      <3>3. cached.to <= EndOf(list[item])
        BY <2>1, <3>2, Here_InRange DEF InRange
      <3>4. CellsTrue(Promote(cells, cached), Gone, Stale)
        BY <1>2, <1>4, <2>1, <2>3, <3>2, <3>3, PromoteRange DEF InRange
      <3> QED
        BY <1>1, <2>1, <2>3, <2>4, <3>4 DEF CellInv, CellsTrue
    <2> QED
      BY <1>16, <2>2, <2>3 DEF Probe
  <1>17. CASE Mark
    <2> DEFINE blue == MarkCells(cells, pos, Chunk, "Cached")
               from == IF cached.have THEN cached.from ELSE pos
               range == [have |-> TRUE, from |-> from, to |-> pos + Chunk]
    <2>1. /\ pc = "mark" /\ pc' = "boundary" /\ UNCHANGED dirty
          /\ Gone' = Gone \cup Here /\ Fine' = Fine \cup Here
      BY <1>17, GoneGrows, FineGrows DEF Mark, PastBlock, media
    <2> DEFINE new == {u \in Here : Alone(u \div size)}
    <2>2. /\ Stale' \subseteq (Stale \cup new) \cap dirty
          /\ \A u \in Stale' : Alone(u \div size)
      BY <1>3, <2>1 DEF Stale
    <2>3. CellsTrue(blue, Gone', Stale \cup new)
      <3>1. Alone(pos \div size) => \A u \in Gone : u \div size # pos \div size
        BY <2>1, FreshCell DEF InBlock
      <3> QED
        BY <1>2, <1>4, <2>1, <3>1, BlueKeepsTrue DEF InBlock, OwnCells
    <2>4. CellsTrue(blue, Gone', Stale')
      BY <2>2, <2>3 DEF CellsTrue
    <2>5. CASE cells' = blue
      BY <1>1, <2>1, <2>4, <2>5 DEF CellInv, CellsTrue
    <2>6. CASE MayBeClean(range.from, range.to) /\ cells' = Promote(blue, range)
      <3>1. /\ pos \in Nat /\ Chunk \in Nat \ {0} /\ pos % size = 0
            /\ (pos + Chunk) % size = 0 \/ pos + Chunk = EndOf(list[item])
            /\ pos + Chunk <= EndOf(list[item])
            /\ list[item].off \in Nat /\ list[item].off <= pos
        BY <2>1, BlockIsCell, Here_InRange DEF InRange, InBlock
      <3>2. /\ from \in Nat /\ list[item].off <= from /\ from <= pos /\ from % size = 0
            /\ from < pos + Chunk
        <4>1. CASE cached.have
          BY <2>1, <3>1, <4>1 DEF BlueInv, InRange
        <4>2. CASE ~cached.have
          BY <3>1, <4>2
        <4> QED
          BY <4>1, <4>2
      <3>3. range.from = from /\ range.to = pos + Chunk
        OBVIOUS
      <3>4. /\ Stale' \subseteq dirty /\ Stale' \subseteq Gone \cup Here
            /\ \A u \in Stale' : Alone(u \div size)
        BY <1>4, <2>2
      <3> HIDE DEF blue, from, range, new
      <3>5. CellsTrue(Promote(blue, range), Gone', Stale')
        BY <2>1, <2>4, <2>6, <3>1, <3>2, <3>3, <3>4, PromoteRange DEF InRange
      <3> QED
        BY <1>1, <2>1, <2>6, <3>5 DEF CellInv, CellsTrue
    <2> QED
      BY <1>17, <2>5, <2>6 DEF Mark, Buffered
  <1> QED
    BY <1>8, <1>9, <1>10, <1>11, <1>12, <1>13, <1>14, <1>15, <1>16, <1>17 DEF Next, Worker

LEMMA NextGreen ==
    LoopInv /\ CompleteInv /\ BlocksAccounted /\ GreenInv /\ [Next]_vars => GreenInv'
  <1> SUFFICES ASSUME LoopInv, CompleteInv, BlocksAccounted, GreenInv, [Next]_vars
               PROVE  GreenInv'
    OBVIOUS
  <1>1. OwnCells' = OwnCells /\ Buffered' = Buffered
    BY SetupFixed DEF setup, OwnCells, Buffered, Direct
  <1> QED
    BY <1>1, NextBlue, NextCells DEF GreenInv

\* The cell of a bad unit is red, so it is not green.
LEMMA BadIsRed ==
    ASSUME TypeOK, RedMeansBad, NEW i, NEW u, <<i, u>> \in Bad
    PROVE  "Ok" \notin Colour(u)
  <1>1. cellSize \in Nat \ {0}
    BY DEF TypeOK
  <1>2. PICK e \in errs : u \in Units(e.off, e.len)
    BY DEF Bad
  <1>3. e.off \in Nat /\ e.len \in Nat
    BY DEF TypeOK, Extents
  <1>4. u \in Nat /\ u \div cellSize \in CellsOf(e.off, e.len)
    BY <1>1, <1>2, <1>3, CellOfUnit
  <1>5. \A c \in CellsOf(u, 1) \cap DOMAIN cells : cells[c] \in Failures
    BY <1>1, <1>4, UnitCell DEF RedMeansBad
  <1> QED
    BY <1>5 DEF Colour, Failures

\* What the parts come to: a dirty unit behind the worker is either bad, and
\* its cell red, or good, and its cell not green.
LEMMA GreenIsFlushed ==
    ASSUME LoopInv, TypeOK, BlocksAccounted, RedMeansBad, CleanInv, GreenInv
    PROVE  OwnCellsFlushed
  <1> SUFFICES ASSUME OwnCells, NEW u \in Gone \cap dirty, Alone(u \div cellSize), "Ok" \in Colour(u)
               PROVE  FALSE
    BY DEF OwnCellsFlushed
  <1>1. u \in Nat /\ cellSize \in Nat \ {0} /\ cellSize = size
    BY SeenNat DEF TypeOK, OwnCells
  <1>2. u \div size \in DOMAIN cells /\ cells[u \div size] = "Ok"
    BY <1>1, UnitCell DEF Colour
  <1>3. PICK i \in DOMAIN list : <<i, u>> \in seen
    BY SeenInRange
  <1>4. CASE <<i, u>> \in Bad
    BY <1>4, BadIsRed
  <1>5. CASE <<i, u>> \in good
    <2>1. u \in Fine
      BY <1>5 DEF Fine
    <2>2. CASE Buffered
      <3>1. u \in Stale
        BY <1>1, <2>1 DEF Stale
      <3> QED
        BY <1>2, <2>2, <3>1 DEF GreenInv, CellInv, CellsTrue
    <2>3. CASE ~Buffered
      <3>1. u \in Once
        <4>1. u \in Targets
          BY SeenInRange DEF Targets
        <4>2. ASSUME NEW a \in DOMAIN list, NEW b \in DOMAIN list,
                     u \in Units(list[a].off, list[a].len) \cap Units(list[b].off, list[b].len)
              PROVE  a = b
          <5>1. /\ list[a].off \in Nat /\ list[a].len \in Nat
                /\ list[b].off \in Nat /\ list[b].len \in Nat
            BY RangeType DEF LoopInv, TypeInv
          <5>2. u \div cellSize \in CellsOf(list[a].off, list[a].len) \cap CellsOf(list[b].off, list[b].len)
            BY <1>1, <4>2, <5>1, CellOfUnit
          <5> QED
            BY <5>2 DEF Alone
        <4> QED
          BY <4>1, <4>2 DEF Once
      <3> QED
        BY <2>1, <2>3, <3>1 DEF Buffered, CleanInv
    <2> QED
      BY <2>2, <2>3
  <1> QED
    BY <1>3, <1>4, <1>5 DEF BlocksAccounted

\* When each block has cells of its own, no block the worker is past is dirty
\* under a green cell of one range: whatever is cached, polled, dropped by the
\* kernel, stopped, or marked later.
THEOREM OwnCellsAreFlushed == Spec => []OwnCellsFlushed
  <1>1. Init => CleanInv /\ GreenInv
    BY DEF Init, CleanInv, GreenInv, BlueInv, CellInv, CellsTrue, InRange, Fine, Stale
  <1>2. Init => CompleteInv
    BY DEF Init, CompleteInv, InRange
  <1> QED
    BY <1>1, <1>2, Accounted, RedIsBad, LoopAlways, TypeCorrect, NextComplete, NextClean,
       NextGreen, GreenIsFlushed, PTL DEF Spec

\* What the colours of the map say is true: green is flushed, red is bad and
\* stays red, and blue does not outlive the run.
THEOREM ColoursTrue == Spec => []ColoursAreTrue
  BY OwnCellsAreFlushed, RedIsBad, BlueIsSettled, PTL DEF ColoursAreTrue

-----------------------------------------------------------------------------
(* Progress. *)

\* A cell is pending only while no byte of it was gone through.  Without a stop
\* the worker leaves the loop at the end of the work list; a run that is to
\* succeed went through all of it.
After == {"left", "flush", "sync", "synced", "done", "hashed", "finished"}
PendingInv == \A c \in DOMAIN cells : cells[c] = "Pending" => \A u \in Gone : u \div cellSize # c
PastInv ==
    /\ pc \in After /\ ~stop => item > Len(list)
    /\ pc \in After \ {"left"} /\ rc = 0 => Skipped \/ TargetPairs \subseteq seen

\* The counter: exact until files are hashed or the run ends, never too low.
CountInv ==
    /\ pc \notin {"hashed", "finished"} => done = Cardinality(seen)
    /\ Cardinality(seen) <= done
    /\ pc = "finished" /\ rc = 0 => done = total

\* Where the worker flushes or compares each block itself, a dirty one behind
\* it can only be bad.
LEMMA CleanIsFlushed ==
    ASSUME LoopInv, TypeOK, BlocksAccounted, RedMeansBad, CleanInv
    PROVE  FlushedWithoutCache
  <1> SUFFICES ASSUME Direct \/ flags.dry, NEW u \in Gone \cap dirty \cap Once
               PROVE  "Ok" \notin Colour(u)
    BY DEF FlushedWithoutCache
  <1>1. u \notin Fine
    BY DEF CleanInv
  <1>2. PICK i \in DOMAIN list : <<i, u>> \in seen
    BY SeenInRange
  <1>3. <<i, u>> \in Bad
    BY <1>1, <1>2 DEF Fine, BlocksAccounted
  <1> QED
    BY <1>3, BadIsRed

\* The total counts the bytes of the work list, range by range.
LEMMA TotalIsPairs ==
    ASSUME list \in WorkLists, MapInv
    PROVE  /\ IsFiniteSet(TargetPairs) /\ Cardinality(TargetPairs) <= total
           /\ list # <<>> => Cardinality(TargetPairs) = total
  <1>1. /\ Len(list) \in Nat /\ DOMAIN list = 1..Len(list)
        /\ \A i \in 1..Len(list) : list[i].off \in Nat /\ list[i].len \in Nat \ {0}
    BY WorkListType
  <1>2. TargetPairs = UpTo(list, Len(list)) /\ Len(list) \in 0..Len(list)
    BY <1>1 DEF TargetPairs, UpTo
  <1>3. IsFiniteSet(TargetPairs) /\ Cardinality(TargetPairs) = LengthOf(list) /\ LengthOf(list) \in Nat
    BY <1>2, UpToFinite, TotalCounts
  <1>4. total = IF LengthOf(list) = 0 THEN 1 ELSE LengthOf(list)
    BY DEF MapInv, TotalOf
  <1>5. list # <<>> => LengthOf(list) # 0
    <2>a. LengthOf(list) = 0 => TargetPairs = {}
      BY <1>3, FS_EmptySet
    <2> SUFFICES ASSUME list # <<>>, TargetPairs = {} PROVE FALSE
      BY <2>a
    <2>1. 1 \in DOMAIN list
      <3>1. list \in Seq([off: Nat, len: Nat \ {0}])
        BY RangeAssumption
      <3>2. Len(list) # 0
        BY <3>1, EmptySeq
      <3> QED
        BY <1>1, <3>2
    <2>2. list[1].off \in Units(list[1].off, list[1].len)
      BY <1>1, <2>1 DEF Units
    <2>3. <<1, list[1].off>> \in TargetPairs
      BY <2>1, <2>2 DEF TargetPairs
    <2> QED
      BY <2>3
  <1> QED
    BY <1>3, <1>4, <1>5

\* A new block adds its length, and never more than is left.
LEMMA BlockCounted ==
    ASSUME LoopInv, MapInv, UnitsInv, UnitsInv', CountInv, pc \in InBlock, PastBlock, list' = list
    PROVE  CountInv'
  <1>1. pos \in Nat /\ Chunk \in Nat
    BY BlockType
  <1>2. IsFiniteSet(Block) /\ Cardinality(Block) = Chunk
    <2>1. Block = {item} \X Units(pos, Chunk)
      BY DEF Block, Here
    <2>2. \A o, l \in Nat : IsFiniteSet({item} \X Units(o, l)) /\ Cardinality({item} \X Units(o, l)) = l
      BY PairsCount
    <2> QED
      BY <1>1, <2>1, <2>2
  <1>3. IsFiniteSet(TargetPairs) /\ Cardinality(TargetPairs) <= total /\ total \in Nat
    BY TotalIsPairs DEF LoopInv, TypeInv, MapInv
  <1>4. seen \in SUBSET TargetPairs /\ seen \cup Block \in SUBSET TargetPairs
    BY BlockType DEF UnitsInv
  <1>5. IsFiniteSet(seen) /\ Cardinality(seen) \in Nat /\ Cardinality(TargetPairs) \in Nat
    BY <1>3, <1>4, FS_Subset, FS_CardinalityType
  <1>6. Cardinality(seen \cup Block) = Cardinality(seen) + Chunk
    <2>1. Cardinality(seen \cup Block) = Cardinality(seen) + Cardinality(Block) - Cardinality(seen \cap Block)
      BY <1>2, <1>5, FS_Union
    <2>2. seen \cap Block = {}
      BY BlockIsNew
    <2> QED
      BY <1>1, <1>2, <1>5, <2>1, <2>2, FS_EmptySet
  <1>7. Cardinality(seen \cup Block) <= total
    <2>1. Cardinality(seen \cup Block) <= Cardinality(TargetPairs)
      BY <1>3, <1>4, FS_Subset
    <2> QED
      BY <1>1, <1>3, <1>5, <1>6, <2>1
  <1>8. /\ done' = Least(done + Chunk, total) /\ seen' = seen \cup Block
        /\ done = Cardinality(seen) /\ pc' = "boundary"
    BY DEF PastBlock, CountInv, InBlock
  <1>9. done' = done + Chunk
    BY <1>1, <1>3, <1>5, <1>6, <1>7, <1>8 DEF Least
  <1> QED
    BY <1>1, <1>5, <1>6, <1>8, <1>9 DEF CountInv

LEMMA NextCount ==
    LoopInv /\ MapInv /\ ValuesInv /\ UnitsInv /\ UnitsInv' /\ CountInv /\ [Next]_vars => CountInv'
  <1> SUFFICES ASSUME LoopInv, MapInv, ValuesInv, UnitsInv, UnitsInv', CountInv, [Next]_vars
               PROVE  CountInv'
    OBVIOUS
  <1>1. UNCHANGED <<list, total>>
    BY SetupFixed DEF setup
  <1>2. Cardinality(seen) \in Nat /\ Cardinality(seen) <= total /\ done \in Nat /\ total \in Nat
    <2>1. IsFiniteSet(TargetPairs) /\ Cardinality(TargetPairs) <= total
      BY TotalIsPairs DEF LoopInv, TypeInv
    <2>2. seen \in SUBSET TargetPairs
      BY DEF UnitsInv
    <2>3. /\ IsFiniteSet(seen) /\ Cardinality(seen) <= Cardinality(TargetPairs)
          /\ Cardinality(seen) \in Nat /\ Cardinality(TargetPairs) \in Nat
      BY <2>1, <2>2, FS_Subset, FS_CardinalityType
    <2> QED
      BY <2>1, <2>3 DEF MapInv, ValuesInv
  <1>3. CASE pc \in InBlock /\ PastBlock
    BY <1>1, <1>3, BlockCounted
  <1>4. CASE UNCHANGED <<done, seen>> /\ pc \notin {"hashed", "finished"} /\ pc' # "finished"
    BY <1>2, <1>4 DEF CountInv
  <1>5. CASE UNCHANGED <<done, seen, pc, rc>>
    BY <1>1, <1>5 DEF CountInv
  <1>6. CASE HashFile
    BY <1>1, <1>2, <1>6 DEF HashFile, CountInv, Least
  <1>7. CASE Finish
    BY <1>1, <1>2, <1>7 DEF Finish, CountInv
  <1> QED
    BY <1>3, <1>4, <1>5, <1>6, <1>7
    DEF Next, Worker, NextRange, Boundary, Read, WriteDirect, WriteBuffered, Fdatasync, Verify,
        Fail, Mark, Probe, LeaveLoop, FlushCheck, Sync, Upgrade, Writeback, RequestStop, InBlock,
        vars, progress

\* Whatever is made of a block, none of its cells is pending then.
LEMMA MarksPaint ==
    ASSUME NEW map, NEW off, NEW len, NEW st \in CellStatus \ {"Pending"},
           NEW c \in DOMAIN map, c \in CellsOf(off, len)
    PROVE  MarkCells(map, off, len, st)[c] # "Pending"
  BY DEF MarkCells, Marked, CellStatus, Failures

LEMMA BlockPainted ==
    ASSUME LoopInv, TypeOK, [Next]_vars, pc \in InBlock, PastBlock,
           NEW c \in DOMAIN cells, c \in CellsOf(pos, Chunk)
    PROVE  cells'[c] # "Pending"
  <1>1. /\ "Ok" \in CellStatus \ {"Pending"} /\ "Cached" \in CellStatus \ {"Pending"}
        /\ Failures \subseteq CellStatus \ {"Pending"}
    BY DEF CellStatus, Failures
  <1>2. CASE \E kind \in Failures : Fail(kind)
    BY <1>1, <1>2, MarksPaint DEF Fail
  <1>3. CASE Mark
    <2> DEFINE blue == MarkCells(cells, pos, Chunk, "Cached")
    <2>1. c \in DOMAIN blue /\ blue[c] # "Pending"
      BY <1>1, MarksPaint DEF MarkCells
    <2>2. \/ cells' = MarkCells(cells, pos, Chunk, "Ok")
          \/ cells' = blue
          \/ \E range : cells' = Promote(blue, range)
      BY <1>3 DEF Mark
    <2>3. \A map : c \in DOMAIN map /\ map[c] # "Pending" =>
            \A range : Promote(map, range)[c] # "Pending"
      BY DEF Promote, MarkCells, Marked, Failures
    <2> HIDE DEF blue
    <2> QED
      BY <1>1, <2>1, <2>2, <2>3, MarksPaint
  <1>4. pc # "boundary"
    BY DEF InBlock
  <1> QED
    BY <1>2, <1>3, <1>4
    DEF Next, Worker, NextRange, Boundary, Read, WriteDirect, WriteBuffered, Fdatasync, Verify,
        PastBlock, Probe, LeaveLoop, FlushCheck, Sync, Upgrade, HashFile, Finish, Writeback, RequestStop, InBlock,
        Failures, vars

LEMMA NextPending == LoopInv /\ TypeOK /\ PendingInv /\ [Next]_vars => PendingInv'
  <1> SUFFICES ASSUME LoopInv, TypeOK, PendingInv, [Next]_vars,
                      NEW c \in DOMAIN cells', cells'[c] = "Pending", NEW u \in Gone'
               PROVE  u \div cellSize # c
    BY SetupFixed DEF PendingInv, setup
  <1>1. c \in DOMAIN cells /\ cells[c] = "Pending"
    <2>1. /\ DOMAIN cells' = DOMAIN cells /\ Rank[cells'[c]] >= Rank[cells[c]]
          /\ cells[c] \in CellStatus
      BY CellsStep DEF TypeOK
    <2>2. Rank["Pending"] = 0 /\ \A s \in CellStatus : Rank[s] \in Nat /\ (Rank[s] = 0 => s = "Pending")
      BY DEF Rank, CellStatus, Failures
    <2> QED
      BY <2>1, <2>2
  <1>2. CASE u \in Gone
    BY <1>1, <1>2 DEF PendingInv
  <1>3. CASE u \notin Gone
    <2>1. pc \in InBlock /\ PastBlock
      <3>1. seen' # seen
        BY <1>3 DEF Gone
      <3> QED
        BY <3>1 DEF Next, Worker, NextRange, Boundary, Read, WriteDirect, WriteBuffered, Fdatasync,
                  Verify, Fail, Mark, Probe, LeaveLoop, FlushCheck, Sync, Upgrade, HashFile, Finish,
                  Writeback, RequestStop, InBlock, vars
    <2>2. u \in Here
      BY <1>3, <2>1, GoneGrows DEF PastBlock
    <2>3. pos \in Nat /\ Chunk \in Nat /\ cellSize \in Nat \ {0}
      BY <2>1, BlockType DEF TypeOK
    <2>4. u \div cellSize \in CellsOf(pos, Chunk)
      BY <2>2, <2>3, CellOfUnit DEF Here
    <2> QED
      BY <1>1, <2>1, <2>4, BlockPainted
  <1> QED
    BY <1>2, <1>3

LEMMA NextPast == LoopInv /\ CompleteInv /\ PastInv /\ [Next]_vars => PastInv'
  <1> SUFFICES ASSUME LoopInv, CompleteInv, PastInv, [Next]_vars PROVE PastInv'
    OBVIOUS
  <1>1. list' = list /\ Skipped' = Skipped /\ TargetPairs' = TargetPairs
    BY SetupFixed DEF setup, Skipped, TargetPairs, Units
  <1>2. (stop => stop')
    BY DEF Next, Worker, NextRange, Boundary, Read, WriteDirect, WriteBuffered, Fdatasync,
           Verify, Mark, Probe, LeaveLoop, FlushCheck, Sync, Upgrade, HashFile, Finish, Writeback,
           RequestStop, Fail, vars
  <1>3. DOMAIN list = 1..Len(list) /\ Len(list) \in Nat /\ item \in Nat
    BY WorkListType DEF LoopInv, TypeInv
  <1>4. CASE NextRange
    BY <1>1, <1>3, <1>4 DEF NextRange, PastInv, After
  <1>5. CASE LeaveLoop
    <2>1. item' = item /\ pc = "left" /\ UNCHANGED <<stop, seen>> /\ (rc' = 0 => ~stop)
      BY <1>5 DEF LeaveLoop
    <2>2. ~stop => item > Len(list)
      BY <2>1 DEF PastInv, After
    <2>3. ~stop => Skipped \/ TargetPairs \subseteq seen
      <3> SUFFICES ASSUME ~stop, ~Skipped, NEW i \in DOMAIN list
                   PROVE  {i} \X Units(list[i].off, list[i].len) \subseteq seen
        BY DEF TargetPairs
      <3>1. i \in 1..(item - 1)
        BY <1>3, <2>2
      <3> QED
        BY <3>1 DEF CompleteInv
    <2> QED
      BY <1>1, <1>2, <2>1, <2>2, <2>3 DEF PastInv
  <1>6. CASE pc' \notin After
    BY <1>6 DEF PastInv
  <1>7. CASE /\ pc \in After \ {"left"} /\ UNCHANGED <<item, seen, rc>>
    BY <1>1, <1>2, <1>7 DEF PastInv
  <1>8. CASE pc = "left" /\ UNCHANGED <<pc, item>>
    BY <1>1, <1>2, <1>8 DEF PastInv
  <1> QED
    BY <1>4, <1>5, <1>6, <1>7, <1>8
    DEF Next, Worker, Boundary, Read, WriteDirect, WriteBuffered, Fdatasync, Verify, Fail, After,
        PastBlock, Mark, Probe, FlushCheck, Sync, Upgrade, HashFile, Finish, Writeback, RequestStop,
        vars

\* A run that is to succeed went through all of its work list, so no cell of it
\* is pending.
LEMMA PendingEnds ==
    ASSUME LoopInv, MapInv, PastInv, PendingInv
    PROVE  NoneLeftPending
  <1> SUFFICES ASSUME AtEnd, rc = 0, ~Skipped, NEW u \in Targets, "Pending" \in Colour(u)
               PROVE  FALSE
    BY DEF NoneLeftPending
  <1>1. TargetPairs \subseteq seen
    BY DEF PastInv, AtEnd, After
  <1>2. PICK i \in DOMAIN list : u \in Units(list[i].off, list[i].len)
    BY DEF Targets
  <1>3. u \in Gone
    <2>1. <<i, u>> \in seen
      BY <1>1, <1>2 DEF TargetPairs
    <2> QED
      BY <2>1 DEF Gone
  <1>4. u \in Nat /\ cellSize \in Nat \ {0}
    BY <1>3, SeenNat DEF MapInv
  <1>5. u \div cellSize \in DOMAIN cells /\ cells[u \div cellSize] = "Pending"
    BY <1>4, UnitCell DEF Colour
  <1> QED
    BY <1>3, <1>5 DEF PendingInv

\* What the counter of a run that succeeds stands for.
LEMMA CountIsExact ==
    ASSUME LoopInv, MapInv, UnitsInv, PastInv, CountInv
    PROVE  DoneIsExact
  <1> SUFFICES ASSUME pc = "finished", rc = 0, ~Skipped, list # <<>>
               PROVE  Cardinality(seen) = total
    BY DEF DoneIsExact, CountInv
  <1>1. TargetPairs \subseteq seen
    BY DEF PastInv, After
  <1>2. seen = TargetPairs
    BY <1>1 DEF UnitsInv
  <1> QED
    BY <1>2, TotalIsPairs DEF LoopInv, TypeInv

\* Map and counter keep up with the worker: no green before the flush where it
\* flushes itself, no cell of a run that succeeds left out, no byte of a range
\* counted twice, and the jump to the total that ends a success is no jump,
\* unless every range was skipped.
THEOREM ProgressExact == Spec => []ProgressIsExact
  <1>1. Init => CleanInv /\ PendingInv /\ PastInv /\ CompleteInv
    BY DEF Init, CleanInv, PendingInv, PastInv, CompleteInv, InRange, After, Fine, Gone
  <1>2. Init => CountInv
    BY FS_EmptySet DEF Init, CountInv
  <1>3. TypeOK /\ LoopInv /\ MapInv /\ UnitsInv /\ BlocksAccounted /\ RedMeansBad /\ CleanInv
          /\ PendingInv /\ PastInv /\ CountInv => ProgressIsExact
    BY CleanIsFlushed, PendingEnds, CountIsExact DEF ProgressIsExact
  <1> QED
    BY <1>1, <1>2, <1>3, InitTypes, NextMap, NextValues, NextUnits, NextClean, NextCount,
       NextPending, NextPast, NextComplete, LoopAlways, TypeCorrect, Accounted, RedIsBad, PTL DEF Spec

=============================================================================
