------------------------ MODULE DosMemoryManager_proof ------------------------
(***************************************************************************)
(* Proofs about DosMemoryManager for every arena, word size and set of     *)
(* requests: the blocks always tile the arena, and as long as no caller    *)
(* asks for zero paragraphs the manager implements SegmentAllocator.       *)
(***************************************************************************)
EXTENDS DosMemoryManager, SequenceTheorems, TLAPS

-------------------------------------------------------------------------------
(* Block i of bs split in two: the elements of the longer vector.          *)
LEMMA SplitAtElements ==
  ASSUME NEW S, NEW bs \in Seq(S), NEW i \in DOMAIN bs, NEW b \in S, NEW new \in S
  PROVE  /\ SplitAt(bs, i, b, new) \in Seq(S)
         /\ Len(SplitAt(bs, i, b, new)) = Len(bs) + 1
         /\ DOMAIN SplitAt(bs, i, b, new) = 1..(Len(bs) + 1)
         /\ \A k \in 1..(Len(bs) + 1) :
              SplitAt(bs, i, b, new)[k] =
                IF k < i THEN bs[k]
                ELSE IF k = i THEN b
                ELSE IF k = i + 1 THEN new
                ELSE bs[k - 1]
<1> DEFINE cs == [bs EXCEPT ![i] = b]
<1>1. cs \in Seq(S) /\ Len(cs) = Len(bs) /\ Len(bs) \in Nat /\ i \in 1..Len(bs)
  OBVIOUS
<1>2. \A k \in 1..Len(bs) : cs[k] = IF k = i THEN b ELSE bs[k]
  BY <1>1
<1> DEFINE l == SubSeq(cs, 1, i)
           r == SubSeq(cs, i + 1, Len(cs))
<1>3. SplitAt(bs, i, b, new) = (l \o <<new>>) \o r
  <2>1. (i + 1) - 1 = i
    BY <1>1
  <2>2. SplitAt(bs, i, b, new)
          = SubSeq(cs, 1, (i + 1) - 1) \o <<new>> \o SubSeq(cs, i + 1, Len(cs))
    BY Zenon DEF SplitAt, InsertAt
  <2>3. QED
    BY <2>1, <2>2, Zenon
<1> HIDE DEF cs
<1>4. /\ l \in Seq(S) /\ Len(l) = i
      /\ \A k \in 1..i : l[k] = cs[k]
  BY <1>1
<1>5. /\ r \in Seq(S) /\ Len(r) = Len(bs) - i
      /\ \A k \in 1..(Len(bs) - i) : r[k] = cs[i + k]
  BY <1>1
<1> HIDE DEF l, r
<1> DEFINE m == l \o <<new>>
<1>6. /\ m \in Seq(S) /\ Len(m) = i + 1
      /\ \A k \in 1..i : m[k] = cs[k]
      /\ m[i + 1] = new
  BY <1>1, <1>4
<1>7. SplitAt(bs, i, b, new) = m \o r
  BY <1>3
<1> HIDE DEF m
<1>8. /\ m \o r \in Seq(S) /\ Len(m \o r) = Len(m) + Len(r)
      /\ \A k \in 1..(Len(m) + Len(r)) :
           (m \o r)[k] = IF k <= Len(m) THEN m[k] ELSE r[k - Len(m)]
  BY <1>5, <1>6, ConcatProperties, Zenon
<1>9. /\ Len(m \o r) = Len(bs) + 1
      /\ \A k \in 1..(Len(bs) + 1) :
           (m \o r)[k] = IF k <= i + 1 THEN m[k] ELSE r[k - (i + 1)]
  <2>1. Len(m) + Len(r) = Len(bs) + 1 /\ Len(m) = i + 1
    <3>1. Len(m) = i + 1 /\ Len(r) = Len(bs) - i
      BY <1>5, <1>6
    <3>2. i \in Int /\ Len(bs) \in Int
      BY <1>1
    <3>3. QED
      BY <3>1, <3>2
  <2>2. QED
    BY <1>8, <2>1, Zenon
<1>10. ASSUME NEW k \in 1..(Len(bs) + 1)
       PROVE  SplitAt(bs, i, b, new)[k] =
                IF k < i THEN bs[k]
                ELSE IF k = i THEN b
                ELSE IF k = i + 1 THEN new
                ELSE bs[k - 1]
  <2>1. CASE k <= i
    BY <1>1, <1>2, <1>6, <1>7, <1>9, <2>1
  <2>2. CASE k = i + 1
    BY <1>1, <1>6, <1>7, <1>9, <2>2
  <2>3. CASE k > i + 1
    <3>1. ~(k <= i + 1) /\ k - (i + 1) \in 1..(Len(bs) - i)
      BY <1>1, <2>3
    <3>2. (m \o r)[k] = r[k - (i + 1)]
      BY <1>9, <3>1
    <3>3. r[k - (i + 1)] = cs[i + (k - (i + 1))]
      BY <1>5, <3>1
    <3>4. i + (k - (i + 1)) = k - 1 /\ k - 1 \in 1..Len(bs) /\ k - 1 # i
      BY <1>1, <2>3
    <3>5. cs[k - 1] = bs[k - 1]
      BY <1>2, <3>4
    <3>6. QED
      BY <1>1, <1>7, <2>3, <3>2, <3>3, <3>4, <3>5
  <2>4. QED
    BY <1>1, <2>1, <2>2, <2>3
<1>11. DOMAIN (m \o r) = 1..(Len(bs) + 1)
  BY <1>8, <1>9
<1>12. QED
  BY <1>7, <1>8, <1>9, <1>10, <1>11

-------------------------------------------------------------------------------
(* Nothing else is in the vector after an insertion.                       *)
LEMMA SplitAtValues ==
  ASSUME NEW S, NEW bs \in Seq(S), NEW i \in DOMAIN bs, NEW b \in S, NEW new \in S,
         NEW k \in DOMAIN SplitAt(bs, i, b, new)
  PROVE  \/ SplitAt(bs, i, b, new)[k] = b \/ SplitAt(bs, i, b, new)[k] = new
         \/ \E j \in DOMAIN bs : SplitAt(bs, i, b, new)[k] = bs[j]
<1> DEFINE x == SplitAt(bs, i, b, new)[k]
<1>1. /\ DOMAIN SplitAt(bs, i, b, new) = 1..(Len(bs) + 1)
      /\ \A j \in 1..(Len(bs) + 1) :
           SplitAt(bs, i, b, new)[j] = IF j < i THEN bs[j] ELSE IF j = i THEN b
                                       ELSE IF j = i + 1 THEN new ELSE bs[j - 1]
  <2>1. DOMAIN SplitAt(bs, i, b, new) = 1..(Len(bs) + 1)
    BY SplitAtElements
  <2>2. \A j \in 1..(Len(bs) + 1) :
           SplitAt(bs, i, b, new)[j] = IF j < i THEN bs[j] ELSE IF j = i THEN b
                                       ELSE IF j = i + 1 THEN new ELSE bs[j - 1]
    BY SplitAtElements
  <2>3. QED BY <2>1, <2>2
<1>2. /\ k \in 1..(Len(bs) + 1)
      /\ x = IF k < i THEN bs[k] ELSE IF k = i THEN b
             ELSE IF k = i + 1 THEN new ELSE bs[k - 1]
  BY <1>1
<1> HIDE DEF x
<1>3. Len(bs) \in Nat /\ DOMAIN bs = 1..Len(bs)
  OBVIOUS
<1>4. CASE k < i
  <2>1. k \in DOMAIN bs  BY <1>2, <1>3, <1>4
  <2>2. x = bs[k]  BY <1>2, <1>4
  <2>3. QED BY <2>1, <2>2 DEF x
<1>5. CASE k = i \/ k = i + 1
  <2>1. x = b \/ x = new  BY <1>2, <1>3, <1>5
  <2>2. QED BY <2>1 DEF x
<1>6. CASE k > i + 1
  <2>1. k - 1 \in DOMAIN bs  BY <1>2, <1>3, <1>6
  <2>2. x = bs[k - 1]  BY <1>2, <1>3, <1>6
  <2>3. QED BY <2>1, <2>2 DEF x
<1>7. QED BY <1>2, <1>3, <1>4, <1>5, <1>6

(* The inductive invariant of the vector: blocks of the right type that    *)
(* tile the arena.                                                         *)
WellFormed(bs) == bs \in Seq(Block) /\ Tiled(bs)

LEMMA BlockNumbers ==
  ASSUME NEW b \in Block
  PROVE  b.start \in Nat /\ b.size \in Nat /\ End(b) \in Nat /\ b.start <= End(b)
BY ArenaAssumption DEF Block, End

LEMMA BlockBounds ==
  ASSUME NEW bs, WellFormed(bs), NEW i \in DOMAIN bs
  PROVE  /\ bs[i] \in Block /\ i \in 1..Len(bs) /\ Len(bs) \in Nat
         /\ StartSeg <= bs[i].start /\ End(bs[i]) <= EndSeg
<1>1. /\ bs[i] \in Block /\ i \in 1..Len(bs) /\ Len(bs) \in Nat /\ bs # <<>>
      /\ bs[1] \in Block /\ bs[Len(bs)] \in Block
  BY DEF WellFormed, Tiled
<1>2. StartSeg <= bs[i].start
  <2>1. CASE i = 1
    BY <2>1, ArenaAssumption DEF WellFormed, Tiled
  <2>2. CASE 1 < i
    <3>1. End(bs[1]) <= bs[i].start
      BY <1>1, <2>2 DEF WellFormed, Tiled
    <3>2. QED
      BY <1>1, <3>1 DEF WellFormed, Tiled, End, Block
  <2>3. QED
    BY <1>1, <2>1, <2>2
<1>3. End(bs[i]) <= EndSeg
  <2>1. CASE i = Len(bs)
    BY <2>1, ArenaAssumption DEF WellFormed, Tiled
  <2>2. CASE i < Len(bs)
    <3>1. End(bs[i]) <= bs[Len(bs)].start
      BY <1>1, <2>2 DEF WellFormed, Tiled
    <3>2. QED
      BY <1>1, <3>1 DEF WellFormed, Tiled, End, Block
  <2>3. QED
    BY <1>1, <2>1, <2>2
<1>4. QED
  BY <1>1, <1>2, <1>3

LEMMA RelabelPreserves ==
  ASSUME NEW bs, WellFormed(bs), NEW i \in DOMAIN bs, NEW a \in {"free", "used"}
  PROVE  WellFormed([bs EXCEPT ![i].avail = a])
<1> DEFINE cs == [bs EXCEPT ![i].avail = a]
<1>1. /\ cs \in Seq(Block) /\ Len(cs) = Len(bs) /\ DOMAIN cs = DOMAIN bs /\ bs # <<>>
      /\ Len(bs) \in Nat /\ DOMAIN bs = 1..Len(bs)
  <2> DEFINE b == [bs[i] EXCEPT !.avail = a]
  <2>1. bs \in Seq(Block) /\ i \in 1..Len(bs) /\ bs[i] \in Block /\ bs # <<>>
    BY BlockBounds DEF WellFormed, Tiled
  <2>2. b \in Block
    BY <2>1 DEF Block
  <2>3. cs = [bs EXCEPT ![i] = b]
    BY <2>1
  <2> HIDE DEF b, cs
  <2>4. QED
    BY <2>1, <2>2, <2>3
<1>2. \A k \in DOMAIN bs : cs[k].start = bs[k].start /\ cs[k].size = bs[k].size
  BY <1>1, BlockBounds DEF Block
<1> HIDE DEF cs
<1>3. \A k \in DOMAIN bs : End(cs[k]) = End(bs[k])
  BY <1>2 DEF End
<1>4. cs # <<>> /\ 1 \in DOMAIN bs /\ Len(bs) \in DOMAIN bs
  BY <1>1
<1>5. QED
  BY <1>1, <1>2, <1>3, <1>4 DEF WellFormed, Tiled, cs

(* A block that falls into two that together span what it spanned.         *)
LEMMA SplitPreserves ==
  ASSUME NEW bs, WellFormed(bs), NEW i \in DOMAIN bs, NEW b \in Block, NEW new \in Block,
         b.start = bs[i].start, new.start = End(b), End(new) = End(bs[i])
  PROVE  WellFormed(SplitAt(bs, i, b, new))
<1> DEFINE cs == SplitAt(bs, i, b, new)
           n == Len(bs)
<1>1. bs \in Seq(Block) /\ i \in 1..n /\ n \in Nat /\ DOMAIN bs = 1..n
  BY DEF WellFormed
<1>2. /\ cs \in Seq(Block) /\ Len(cs) = n + 1 /\ DOMAIN cs = 1..(n + 1)
      /\ \A k \in 1..(n + 1) :
           cs[k] = IF k < i THEN bs[k] ELSE IF k = i THEN b
                   ELSE IF k = i + 1 THEN new ELSE bs[k - 1]
  <2>1. /\ cs \in Seq(Block) /\ Len(cs) = n + 1
        /\ \A k \in 1..(n + 1) :
             cs[k] = IF k < i THEN bs[k] ELSE IF k = i THEN b
                     ELSE IF k = i + 1 THEN new ELSE bs[k - 1]
    <3>1. bs \in Seq(Block) /\ i \in DOMAIN bs /\ b \in Block /\ new \in Block
      BY <1>1
    <3>2. cs \in Seq(Block)
      BY <3>1, SplitAtElements
    <3>3. Len(cs) = n + 1
      BY <3>1, SplitAtElements
    <3>4. \A k \in 1..(n + 1) :
             cs[k] = IF k < i THEN bs[k] ELSE IF k = i THEN b
                     ELSE IF k = i + 1 THEN new ELSE bs[k - 1]
      BY <3>1, SplitAtElements
    <3>5. QED
      BY <3>2, <3>3, <3>4
  <2> HIDE DEF cs, n
  <2>2. DOMAIN cs = 1..(n + 1)
    BY <1>1, <2>1
  <2>3. QED
    BY <2>1, <2>2, Zenon
<1> HIDE DEF cs
<1>3. \A k \in 1..n : /\ bs[k] \in Block
                         /\ bs[k].start \in Nat /\ bs[k].size \in Nat /\ End(bs[k]) \in Nat
                         /\ bs[k].start <= End(bs[k])
  BY <1>1, BlockNumbers
<1>4. cs # <<>> /\ cs[1].start = StartSeg
  BY <1>1, <1>2 DEF WellFormed, Tiled
<1>5. End(cs[n + 1]) = EndSeg
  BY <1>1, <1>2 DEF WellFormed, Tiled
<1>6. ASSUME NEW k \in 1..n
      PROVE  End(cs[k]) = cs[k + 1].start
  <2>1. CASE k < i - 1
    <3>1. cs[k] = bs[k] /\ cs[k + 1] = bs[k + 1] /\ k \in 1..(n - 1)
      BY <1>1, <1>2, <2>1
    <3>2. QED
      BY <3>1 DEF WellFormed, Tiled
  <2>2. CASE k = i - 1
    BY <1>1, <1>2, <2>2 DEF WellFormed, Tiled
  <2>3. CASE k = i
    BY <1>1, <1>2, <2>3
  <2>4. CASE k = i + 1
    BY <1>1, <1>2, <2>4 DEF WellFormed, Tiled
  <2>5. CASE k > i + 1
    BY <1>1, <1>2, <2>5 DEF WellFormed, Tiled
  <2>6. QED
    BY <1>1, <2>1, <2>2, <2>3, <2>4, <2>5
<1>7. ASSUME NEW j \in 1..(n + 1), NEW k \in 1..(n + 1), j < k
      PROVE  End(cs[j]) <= cs[k].start
  <2>1. /\ \A p \in 1..n : p < i => End(bs[p]) <= b.start
        /\ \A p \in 1..n : i < p => End(new) <= bs[p].start
        /\ \A p, q \in 1..n : p < q => End(bs[p]) <= bs[q].start
    BY <1>1 DEF WellFormed, Tiled
  <2>2. /\ b.start <= new.start /\ End(b) <= End(new)
        /\ b.start \in Nat /\ new.start \in Nat /\ End(b) \in Nat /\ End(new) \in Nat
    BY BlockNumbers
  <2>3. /\ j < i => cs[j] = bs[j] /\ j \in 1..n
        /\ j = i => cs[j] = b
        /\ j = i + 1 => cs[j] = new
        /\ j > i + 1 => cs[j] = bs[j - 1] /\ j - 1 \in 1..n
    BY <1>1, <1>2
  <2>4. /\ k < i => cs[k] = bs[k] /\ k \in 1..n
        /\ k = i => cs[k] = b
        /\ k = i + 1 => cs[k] = new
        /\ k > i + 1 => cs[k] = bs[k - 1] /\ k - 1 \in 1..n
    BY <1>1, <1>2
  <2>5. CASE k <= i
    BY <1>1, <1>7, <2>1, <2>3, <2>4, <2>5
  <2>6. CASE k = i + 1
    BY <1>1, <1>3, <1>7, <2>1, <2>2, <2>3, <2>4, <2>6
  <2>7. CASE k > i + 1 /\ j <= i + 1
    BY <1>1, <1>3, <1>7, <2>1, <2>2, <2>3, <2>4, <2>7
  <2>8. CASE k > i + 1 /\ j > i + 1
    BY <1>1, <1>7, <2>1, <2>3, <2>4, <2>8
  <2>9. QED
    BY <1>1, <2>5, <2>6, <2>7, <2>8
<1>8. QED
  BY <1>2, <1>4, <1>5, <1>6, <1>7 DEF WellFormed, Tiled, cs

(* allocate() keeps the tiling, whichever block it takes and however.      *)
LEMMA AllocatePreserves ==
  ASSUME NEW bs, WellFormed(bs), NEW f, NEW segs \in 0..(Word - 1),
         NEW i \in DOMAIN bs, Fits(bs[i], segs)
  PROVE  WellFormed(AllocateAt(bs, f, segs, i))
<1> DEFINE o == bs[i]
<1>1. /\ o \in Block /\ o.start \in Nat /\ o.size \in Nat /\ o.size >= segs
      /\ End(o) = o.start + o.size /\ o.start <= End(o) /\ End(o) < Word
      /\ segs \in Nat /\ Word \in Nat
  BY BlockBounds, BlockNumbers, ArenaAssumption DEF Fits, End
<1>2. CASE o.size - segs <= Slack
  BY <1>2, RelabelPreserves DEF AllocateAt
<1>3. CASE ~(o.size - segs <= Slack) /\ f = "last"
  <2> DEFINE b == MakeBlock(o.start, o.size - segs, "free")
             new == MakeBlock(End(o) - segs, segs, "used")
  <2>1. b \in Block /\ new \in Block
    BY <1>1 DEF MakeBlock, Block
  <2>2. b.start = o.start /\ new.start = End(b) /\ End(new) = End(o)
    BY <1>1 DEF MakeBlock, End
  <2> HIDE DEF b, new
  <2>3. WellFormed(SplitAt(bs, i, b, new))
    BY <2>1, <2>2, SplitPreserves
  <2>4. QED
    BY <1>3, <2>3 DEF AllocateAt, b, new
<1>4. CASE ~(o.size - segs <= Slack) /\ f # "last"
  <2> DEFINE b == MakeBlock(o.start, segs, "used")
             new == MakeBlock(o.start + segs, o.size - segs, "free")
  <2>1. b \in Block /\ new \in Block
    BY <1>1 DEF MakeBlock, Block
  <2>2. b.start = o.start /\ new.start = End(b) /\ End(new) = End(o)
    BY <1>1 DEF MakeBlock, End
  <2> HIDE DEF b, new
  <2>3. WellFormed(SplitAt(bs, i, b, new))
    BY <2>1, <2>2, SplitPreserves
  <2>4. QED
    BY <1>4, <2>3 DEF AllocateAt, b, new
<1>5. QED
  BY <1>2, <1>3, <1>4

-------------------------------------------------------------------------------
(* The blocks are well typed and tile the arena in every reachable state,  *)
(* for every arena and every sequence of calls, zero requests included:    *)
(* allocate(), free() and strategy() of dos.cpp 129-180 never lose or      *)
(* double count a paragraph.                                               *)
LEMMA InitWellFormed == Init => TypeOK /\ Tiling
<1> SUFFICES ASSUME Init PROVE TypeOK /\ Tiling
  OBVIOUS
<1> DEFINE b == MakeBlock(StartSeg, EndSeg - StartSeg, "free")
<1>1. b \in Block /\ b.start = StartSeg /\ End(b) = EndSeg
  BY ArenaAssumption DEF MakeBlock, Block, End
<1>2. blocks = <<b>>
  BY DEF Init
<1> HIDE DEF b
<1>3. /\ blocks \in Seq(Block) /\ Len(blocks) = 1 /\ blocks[1] = b
      /\ blocks # <<>> /\ DOMAIN blocks = {1}
  BY <1>1, <1>2
<1>4. Tiling
  BY <1>1, <1>3 DEF Tiling, Tiled
<1>5. QED
  BY <1>3, <1>4 DEF Init, TypeOK, Strategies

LEMMA StepWellFormed == TypeOK /\ Tiling /\ [Next]_vars => TypeOK' /\ Tiling'
<1> SUFFICES ASSUME TypeOK, Tiling, [Next]_vars PROVE TypeOK' /\ Tiling'
  OBVIOUS
<1>1. WellFormed(blocks) /\ fit \in Strategies
  BY DEF TypeOK, Tiling, WellFormed
<1>2. WellFormed(blocks') /\ fit' \in Strategies
  <2>1. CASE UNCHANGED vars
    BY <1>1, <2>1 DEF vars
  <2>2. ASSUME NEW segs \in Requests, Allocate(segs)
        PROVE  WellFormed(blocks') /\ fit' \in Strategies
    <3>1. CASE UNCHANGED blocks
      BY <1>1, <2>2, <3>1 DEF Allocate
    <3>2. ASSUME NEW i \in DOMAIN blocks, Picks(blocks, fit, segs, i),
                 blocks' = AllocateAt(blocks, fit, segs, i)
          PROVE  WellFormed(blocks')
      BY <1>1, <3>2, RequestsAssumption, AllocatePreserves DEF Picks
    <3>3. QED
      BY <1>1, <2>2, <3>1, <3>2 DEF Allocate
  <2>3. ASSUME NEW seg \in 0..(Word - 1), Free(seg)
        PROVE  WellFormed(blocks') /\ fit' \in Strategies
    <3>1. CASE UNCHANGED blocks
      BY <1>1, <2>3, <3>1 DEF Free
    <3>2. ASSUME NEW i \in DOMAIN blocks, blocks' = FreeAt(blocks, i)
          PROVE  WellFormed(blocks')
      BY <1>1, <3>2, RelabelPreserves DEF FreeAt
    <3>3. QED
      BY <1>1, <2>3, <3>1, <3>2 DEF Free
  <2>4. ASSUME NEW f \in Strategies, Strategy(f)
        PROVE  WellFormed(blocks') /\ fit' \in Strategies
    BY <1>1, <2>4 DEF Strategy
  <2>5. QED
    BY <2>1, <2>2, <2>3, <2>4 DEF Next
<1>3. QED
  BY <1>2 DEF TypeOK, Tiling, WellFormed

THEOREM BlocksTileTheArena == Spec => [](TypeOK /\ Tiling)
BY InitWellFormed, StepWellFormed, PTL DEF Spec

-------------------------------------------------------------------------------
(* No block is empty.  Holds as long as nobody asks for zero paragraphs,   *)
(* and makes the segment a block starts at identify it.                    *)
Positive(bs) == \A i \in DOMAIN bs : bs[i].size > 0

NoEmptyBlock == Positive(blocks)

LEMMA Distinct ==
  ASSUME NEW bs, WellFormed(bs), Positive(bs),
         NEW i \in DOMAIN bs, NEW j \in DOMAIN bs, i # j
  PROVE  /\ bs[i].start # bs[j].start
         /\ A!Disjoint(Extent(bs[i]), Extent(bs[j]))
<1>1. /\ i \in Nat /\ j \in Nat
      /\ bs[i].start \in Nat /\ bs[i].size \in Nat /\ bs[i].size > 0
      /\ bs[j].start \in Nat /\ bs[j].size \in Nat /\ bs[j].size > 0
  BY BlockBounds, BlockNumbers DEF Positive
<1>2. End(bs[i]) <= bs[j].start \/ End(bs[j]) <= bs[i].start
  BY <1>1 DEF WellFormed, Tiled
<1>3. QED
  BY <1>1, <1>2 DEF End, A!Disjoint, Extent

LEMMA AllocatePositive ==
  ASSUME NEW bs, WellFormed(bs), Positive(bs), NEW f, NEW segs \in 1..(Word - 1),
         NEW i \in DOMAIN bs, Fits(bs[i], segs)
  PROVE  Positive(AllocateAt(bs, f, segs, i))
<1>1. /\ bs[i] \in Block /\ bs[i].start \in Nat /\ bs[i].size \in Nat /\ bs[i].size >= segs
      /\ segs \in Nat /\ segs > 0 /\ Slack \in Nat /\ bs \in Seq(Block)
      /\ End(bs[i]) = bs[i].start + bs[i].size /\ End(bs[i]) < Word /\ Word \in Nat
  BY BlockBounds, BlockNumbers, ArenaAssumption DEF Fits, End, WellFormed
<1>2. CASE bs[i].size - segs <= Slack
  BY <1>1, <1>2 DEF AllocateAt, Positive, Block
<1>3. ASSUME NEW b \in Block, NEW new \in Block, b.size > 0, new.size > 0
      PROVE  Positive(SplitAt(bs, i, b, new))
  <2>1. /\ DOMAIN SplitAt(bs, i, b, new) = 1..(Len(bs) + 1)
        /\ \A k \in 1..(Len(bs) + 1) :
             SplitAt(bs, i, b, new)[k] =
                IF k < i THEN bs[k]
                ELSE IF k = i THEN b
                ELSE IF k = i + 1 THEN new
                ELSE bs[k - 1]
    <3>1. bs \in Seq(Block) /\ i \in DOMAIN bs /\ b \in Block /\ new \in Block
      BY <1>1, <1>3
    <3>2. QED
      BY <3>1, SplitAtElements
  <2>2. Len(bs) \in Nat /\ i \in 1..Len(bs) /\ DOMAIN bs = 1..Len(bs)
    BY <1>1
  <2>3. QED
    BY <1>3, <2>1, <2>2 DEF Positive
<1>4. CASE ~(bs[i].size - segs <= Slack) /\ f = "last"
  <2> DEFINE b == MakeBlock(bs[i].start, bs[i].size - segs, "free")
             new == MakeBlock(End(bs[i]) - segs, segs, "used")
  <2>1. b \in Block /\ new \in Block /\ b.size > 0 /\ new.size > 0
    BY <1>1, <1>4 DEF MakeBlock, Block
  <2> HIDE DEF b, new
  <2>2. Positive(SplitAt(bs, i, b, new))
    BY <1>3, <2>1
  <2>3. QED
    BY <1>4, <2>2 DEF AllocateAt, b, new
<1>5. CASE ~(bs[i].size - segs <= Slack) /\ f # "last"
  <2> DEFINE b == MakeBlock(bs[i].start, segs, "used")
             new == MakeBlock(bs[i].start + segs, bs[i].size - segs, "free")
  <2>1. b \in Block /\ new \in Block /\ b.size > 0 /\ new.size > 0
    BY <1>1, <1>5 DEF MakeBlock, Block
  <2> HIDE DEF b, new
  <2>2. Positive(SplitAt(bs, i, b, new))
    BY <1>3, <2>1
  <2>3. QED
    BY <1>5, <2>2 DEF AllocateAt, b, new
<1>6. QED
  BY <1>2, <1>4, <1>5

-------------------------------------------------------------------------------
(* What a successful allocate() lends: the run it returns joins the runs   *)
(* already lent out, overlaps none of them and starts where none starts.   *)
LentSize(b, segs) == IF b.size - segs <= Slack THEN b.size ELSE segs
Lent(bs, f, segs, i) ==
  [start |-> SegmentAt(bs, f, segs, i), size |-> LentSize(bs[i], segs)]

LEMMA AllocateGrants ==
  ASSUME NEW bs, WellFormed(bs), Positive(bs), NEW f, NEW segs \in 1..(Word - 1),
         NEW i \in DOMAIN bs, Fits(bs[i], segs)
  PROVE  GrantedIn(AllocateAt(bs, f, segs, i)) = GrantedIn(bs) \cup {Lent(bs, f, segs, i)}
<1> DEFINE n == Len(bs)
           cs == AllocateAt(bs, f, segs, i)
           g == Lent(bs, f, segs, i)
<1>1. /\ bs \in Seq(Block) /\ n \in Nat /\ i \in 1..n /\ DOMAIN bs = 1..n
      /\ bs[i] \in Block /\ bs[i].avail = "free" /\ bs[i].start \in Nat /\ bs[i].size \in Nat
      /\ bs[i].size >= segs /\ segs \in Nat /\ Slack \in Nat
      /\ End(bs[i]) = bs[i].start + bs[i].size /\ End(bs[i]) < Word /\ Word \in Nat
  BY BlockBounds, BlockNumbers, ArenaAssumption DEF Fits, End, WellFormed
<1>2. CASE bs[i].size - segs <= Slack
  <2>1. /\ DOMAIN cs = 1..n
        /\ \A k \in 1..n : Extent(cs[k]) = Extent(bs[k])
        /\ \A k \in 1..n : cs[k].avail = "used" <=> bs[k].avail = "used" \/ k = i
    BY <1>1, <1>2 DEF AllocateAt, Extent, Block
  <2>2. g = Extent(bs[i])
    BY <1>1, <1>2 DEF Lent, SegmentAt, LentSize, Extent
  <2> HIDE DEF cs, g
  <2>3. QED
    BY <1>1, <2>1, <2>2 DEF GrantedIn, cs, g
<1>3. ASSUME NEW b \in Block, NEW new \in Block,
             \/ b.avail = "free" /\ new.avail = "used" /\ Extent(new) = g
             \/ b.avail = "used" /\ new.avail = "free" /\ Extent(b) = g,
             cs = SplitAt(bs, i, b, new)
      PROVE  GrantedIn(cs) = GrantedIn(bs) \cup {g}
  <2> HIDE DEF g, cs
  <2>1. /\ DOMAIN cs = 1..(n + 1)
        /\ \A k \in 1..(n + 1) :
             cs[k] = IF k < i THEN bs[k] ELSE IF k = i THEN b
                     ELSE IF k = i + 1 THEN new ELSE bs[k - 1]
    <3>1. bs \in Seq(Block) /\ i \in DOMAIN bs /\ b \in Block /\ new \in Block
      BY <1>1, <1>3
    <3>2. /\ DOMAIN SplitAt(bs, i, b, new) = 1..(n + 1)
          /\ \A k \in 1..(n + 1) :
               SplitAt(bs, i, b, new)[k] =
                 IF k < i THEN bs[k] ELSE IF k = i THEN b
                 ELSE IF k = i + 1 THEN new ELSE bs[k - 1]
      BY <3>1, SplitAtElements
    <3>3. QED
      BY <1>3, <3>2
  <2>2. ASSUME NEW k \in 1..(n + 1), cs[k].avail = "used"
        PROVE  Extent(cs[k]) \in GrantedIn(bs) \cup {g}
    <3>1. CASE k = i \/ k = i + 1
      BY <1>1, <1>3, <2>1, <2>2, <3>1
    <3>2. CASE k < i
      BY <1>1, <2>1, <2>2, <3>2 DEF GrantedIn
    <3>3. CASE k > i + 1
      <4>1. k - 1 \in 1..n /\ cs[k] = bs[k - 1]
        BY <1>1, <2>1, <3>3
      <4>2. QED
        BY <1>1, <2>2, <4>1 DEF GrantedIn
    <3>4. QED
      BY <1>1, <3>1, <3>2, <3>3
  <2>3. ASSUME NEW k \in 1..n, bs[k].avail = "used"
        PROVE  Extent(bs[k]) \in GrantedIn(cs)
    <3>1. CASE k < i
      <4>1. k \in 1..(n + 1) /\ cs[k] = bs[k]
        BY <1>1, <2>1, <3>1
      <4>2. QED
        BY <2>1, <2>3, <4>1 DEF GrantedIn
    <3>2. CASE k > i
      <4>1. k + 1 \in 1..(n + 1) /\ cs[k + 1] = bs[k]
        <5>1. k + 1 \in 1..(n + 1) /\ k + 1 > i + 1 /\ (k + 1) - 1 = k
          BY <1>1, <3>2
        <5>2. cs[k + 1] = bs[(k + 1) - 1]
          BY <1>1, <2>1, <5>1
        <5>3. QED
          BY <5>1, <5>2
      <4>2. QED
        BY <2>1, <2>3, <4>1 DEF GrantedIn
    <3>3. QED
      BY <1>1, <2>3, <3>1, <3>2
  <2>4. g \in GrantedIn(cs)
    <3>1. i \in 1..(n + 1) /\ i + 1 \in 1..(n + 1) /\ cs[i] = b /\ cs[i + 1] = new
      BY <1>1, <2>1
    <3>2. QED
      BY <1>3, <2>1, <3>1 DEF GrantedIn
  <2>5. GrantedIn(cs) \subseteq GrantedIn(bs) \cup {g}
    BY <2>1, <2>2 DEF GrantedIn
  <2>6. GrantedIn(bs) \subseteq GrantedIn(cs)
    BY <1>1, <2>3 DEF GrantedIn
  <2>7. QED
    BY <2>4, <2>5, <2>6
<1>4. CASE ~(bs[i].size - segs <= Slack) /\ f = "last"
  <2> DEFINE b == MakeBlock(bs[i].start, bs[i].size - segs, "free")
             new == MakeBlock(End(bs[i]) - segs, segs, "used")
  <2>1. /\ b \in Block /\ new \in Block /\ b.avail = "free" /\ new.avail = "used"
        /\ Extent(new) = g
    BY <1>1, <1>4 DEF MakeBlock, Block, Extent, Lent, SegmentAt, LentSize
  <2>2. cs = SplitAt(bs, i, b, new)
    BY <1>4 DEF AllocateAt
  <2> HIDE DEF b, new, cs, g
  <2>3. QED
    BY <1>3, <2>1, <2>2 DEF cs, g
<1>5. CASE ~(bs[i].size - segs <= Slack) /\ f # "last"
  <2> DEFINE b == MakeBlock(bs[i].start, segs, "used")
             new == MakeBlock(bs[i].start + segs, bs[i].size - segs, "free")
  <2>1. /\ b \in Block /\ new \in Block /\ b.avail = "used" /\ new.avail = "free"
        /\ Extent(b) = g
    BY <1>1, <1>5 DEF MakeBlock, Block, Extent, Lent, SegmentAt, LentSize
  <2>2. cs = SplitAt(bs, i, b, new)
    BY <1>5 DEF AllocateAt
  <2> HIDE DEF b, new, cs, g
  <2>3. QED
    BY <1>3, <2>1, <2>2 DEF cs, g
<1>6. QED
  BY <1>2, <1>4, <1>5

LEMMA LentIsFresh ==
  ASSUME NEW bs, WellFormed(bs), Positive(bs), NEW f, NEW segs \in 1..(Word - 1),
         NEW i \in DOMAIN bs, Fits(bs[i], segs)
  PROVE  LET g == Lent(bs, f, segs, i) IN
         /\ g \in A!Run /\ g.start + g.size <= EndSeg
         /\ g.size \in segs..(segs + Slack)
         /\ \A h \in GrantedIn(bs) : A!Disjoint(g, h) /\ g.start # h.start
<1> DEFINE g == Lent(bs, f, segs, i)
           o == bs[i]
<1>1. /\ o.avail = "free" /\ o.start \in Nat /\ o.size \in Nat /\ o.size >= segs
      /\ segs \in Nat /\ segs > 0 /\ Slack \in Nat /\ End(o) = o.start + o.size
      /\ StartSeg <= o.start /\ End(o) <= EndSeg /\ StartSeg \in Nat /\ EndSeg \in Nat
  BY BlockBounds, BlockNumbers, ArenaAssumption DEF Fits, End
<1>2. /\ g = [start |-> g.start, size |-> g.size]
      /\ g.start \in Nat /\ g.size \in Nat /\ g.size > 0
      /\ o.start <= g.start /\ g.start + g.size <= End(o)
      /\ segs <= g.size /\ g.size <= segs + Slack
  BY <1>1 DEF Lent, SegmentAt, LentSize
<1> HIDE DEF g
<1>3. g \in A!Run
  <2>1. g.start \in StartSeg..EndSeg /\ g.size \in 0..(EndSeg - StartSeg)
    BY <1>1, <1>2
  <2>2. QED
    BY <1>2, <2>1 DEF A!Run
<1>4. ASSUME NEW h \in GrantedIn(bs)
      PROVE  A!Disjoint(g, h) /\ g.start # h.start
  <2>1. PICK j \in DOMAIN bs : bs[j].avail = "used" /\ h = Extent(bs[j])
    BY DEF GrantedIn
  <2>2. /\ j # i /\ h.start = bs[j].start /\ h.size = bs[j].size
        /\ bs[j].start \in Nat /\ bs[j].size \in Nat /\ bs[j].size > 0
    BY <1>1, <2>1, BlockBounds, BlockNumbers DEF Extent, Positive
  <2>3. A!Disjoint(Extent(o), Extent(bs[j]))
    BY <2>2, Distinct
  <2>4. QED
    BY <1>1, <1>2, <2>2, <2>3 DEF A!Disjoint, Extent
<1>5. QED
  BY <1>1, <1>2, <1>3, <1>4 DEF g

(* free() takes back exactly the run that starts at seg.                   *)
LEMMA FreeReleases ==
  ASSUME NEW bs, WellFormed(bs), Positive(bs), NEW i \in DOMAIN bs, bs[i].avail = "used"
  PROVE  /\ Positive(FreeAt(bs, i))
         /\ GrantedIn(FreeAt(bs, i)) = GrantedIn(bs) \ {Extent(bs[i])}
         /\ Extent(bs[i]) \in GrantedIn(bs)
<1> DEFINE cs == FreeAt(bs, i)
<1>1. bs \in Seq(Block) /\ bs[i] \in Block
  BY DEF WellFormed
<1>2. /\ DOMAIN cs = DOMAIN bs
      /\ \A k \in DOMAIN bs : Extent(cs[k]) = Extent(bs[k]) /\ cs[k].size = bs[k].size
      /\ \A k \in DOMAIN bs : cs[k].avail = "used" <=> bs[k].avail = "used" /\ k # i
  BY <1>1 DEF FreeAt, Extent, Block
<1> HIDE DEF cs
<1>3. \A k \in DOMAIN bs : k # i => Extent(bs[k]) # Extent(bs[i])
  BY Distinct DEF Extent
<1>4. GrantedIn(cs) = GrantedIn(bs) \ {Extent(bs[i])}
  BY <1>2, <1>3 DEF GrantedIn
<1>5. QED
  BY <1>2, <1>4 DEF GrantedIn, Positive, cs

-------------------------------------------------------------------------------
(* DosMemoryManager implements SegmentAllocator when no caller asks for    *)
(* zero paragraphs: what allocate() lends is disjoint from everything lent *)
(* and not yet taken back, for every arena and every sequence of calls.    *)
THEOREM ManagerIsAllocator == ASSUME 0 \notin Requests PROVE Spec => ImplementsAllocator
<1>1. Init => A!Init /\ NoEmptyBlock
  <2> SUFFICES ASSUME Init PROVE A!Init /\ Positive(blocks)
    BY DEF NoEmptyBlock
  <2>1. DOMAIN blocks = {1} /\ blocks[1].avail = "free" /\ blocks[1].size > 0
    BY ArenaAssumption DEF Init, MakeBlock
  <2>2. QED
    BY <2>1 DEF A!Init, Granted, GrantedIn, Positive
<1>2. TypeOK /\ Tiling /\ NoEmptyBlock /\ [Next]_vars
        => [A!Next]_Granted /\ NoEmptyBlock'
  <2> SUFFICES ASSUME TypeOK, Tiling, Positive(blocks), [Next]_vars
               PROVE  [A!Next]_Granted /\ Positive(blocks')
    BY DEF NoEmptyBlock
  <2>1. WellFormed(blocks)
    BY DEF TypeOK, Tiling, WellFormed
  <2>2. CASE UNCHANGED blocks
    BY <2>2 DEF Granted
  <2>3. ASSUME NEW segs \in Requests, NEW i \in DOMAIN blocks, Picks(blocks, fit, segs, i),
               blocks' = AllocateAt(blocks, fit, segs, i)
        PROVE  A!Next /\ Positive(blocks')
    <3> DEFINE g == Lent(blocks, fit, segs, i)
    <3>1. segs \in 1..(Word - 1) /\ Fits(blocks[i], segs)
      BY <2>3, RequestsAssumption, ArenaAssumption DEF Picks
    <3>2. Granted' = Granted \cup {g}
      BY <2>1, <2>3, <3>1, AllocateGrants DEF Granted
    <3>3. /\ g \in A!Run /\ g.start + g.size <= EndSeg
          /\ g.size \in segs..(segs + Slack)
          /\ \A h \in Granted : A!Disjoint(g, h) /\ g.start # h.start
      BY <2>1, <3>1, LentIsFresh DEF Granted
    <3> HIDE DEF g
    <3>4. A!Grant(segs)
      BY <3>2, <3>3 DEF A!Grant
    <3>5. Positive(blocks')
      BY <2>1, <2>3, <3>1, AllocatePositive
    <3>6. QED
      BY <3>4, <3>5 DEF A!Next
  <2>4. ASSUME NEW seg \in 0..(Word - 1), NEW i \in DOMAIN blocks, Frees(blocks, seg, i),
               blocks' = FreeAt(blocks, i)
        PROVE  A!Next /\ Positive(blocks')
    <3>1. blocks[i].avail = "used" /\ Extent(blocks[i]).start = seg
      BY <2>4 DEF Frees, Extent
    <3>2. /\ Positive(blocks')
          /\ Granted' = Granted \ {Extent(blocks[i])}
          /\ Extent(blocks[i]) \in Granted
      BY <2>1, <2>4, <3>1, FreeReleases DEF Granted
    <3>3. A!Release(seg)
      BY <3>1, <3>2 DEF A!Release
    <3>4. seg \in StartSeg..EndSeg
      BY <2>1, <2>4, BlockBounds, BlockNumbers, ArenaAssumption DEF Frees
    <3>5. QED
      BY <3>2, <3>3, <3>4 DEF A!Next
  <2>5. QED
    BY <2>2, <2>3, <2>4 DEF Next, vars, Allocate, Free, Strategy
<1>3. QED
  BY <1>1, <1>2, BlocksTileTheArena, PTL DEF Spec, ImplementsAllocator, A!Spec

-------------------------------------------------------------------------------
(* What allocate() leaves: blocks that were there before and at most two   *)
(* new ones, no larger than the one they are made of; what is handed out   *)
(* is large enough and lies where the search went.                         *)
LEMMA AllocatedBlocks ==
  ASSUME NEW bs, WellFormed(bs), NEW f \in Strategies, NEW segs \in 0..(Word - 1),
         NEW i \in DOMAIN bs, Fits(bs[i], segs),
         NEW b \in ToSet(AllocateAt(bs, f, segs, i))
  PROVE  \/ b \in ToSet(bs)
         \/ /\ b.size \in Nat /\ b.size <= bs[i].size
            /\ b.avail = "used" =>
                 /\ segs <= b.size /\ b.start \in Nat /\ bs[i].start <= b.start
                 /\ f # "last" => b.start = bs[i].start
<1> DEFINE o == bs[i]
<1>1. /\ bs \in Seq(Block) /\ o \in Block /\ i \in 1..Len(bs) /\ Len(bs) \in Nat
      /\ o.start \in Nat /\ o.size \in Nat /\ segs \in Nat /\ segs <= o.size
      /\ Slack \in Nat /\ DOMAIN bs = 1..Len(bs)
      /\ StartSeg <= o.start /\ End(o) <= EndSeg
  BY BlockBounds, BlockNumbers, ArenaAssumption DEF WellFormed, Fits
<1>2. CASE o.size - segs <= Slack
  <2>1. AllocateAt(bs, f, segs, i) = [bs EXCEPT ![i].avail = "used"]
    BY <1>2 DEF AllocateAt
  <2>2. PICK k \in DOMAIN bs : b = [bs EXCEPT ![i].avail = "used"][k]
    BY <1>1, <2>1 DEF ToSet
  <2>3. CASE k = i
    <3>1. b = [o EXCEPT !.avail = "used"]  BY <1>1, <2>2, <2>3
    <3>2. b.size = o.size /\ b.start = o.start  BY <1>1, <3>1 DEF Block
    <3>3. QED BY <1>1, <3>2
  <2>4. CASE k # i
    <3>1. b = bs[k]  BY <1>1, <2>2, <2>4
    <3>2. QED BY <2>2, <3>1 DEF ToSet
  <2>5. QED BY <2>3, <2>4
<1>3. CASE o.size - segs > Slack
  <2> DEFINE c == IF f = "last" THEN MakeBlock(o.start, o.size - segs, "free")
                                ELSE MakeBlock(o.start, segs, "used")
             d == IF f = "last" THEN MakeBlock(End(o) - segs, segs, "used")
                                ELSE MakeBlock(o.start + segs, o.size - segs, "free")
  <2>1. AllocateAt(bs, f, segs, i) = SplitAt(bs, i, c, d)
    <3>1. ~(o.size - segs <= Slack)  BY <1>1, <1>3
    <3>2. QED BY <3>1 DEF AllocateAt
  <2>2. /\ c.size \in Nat /\ c.size <= o.size /\ d.size \in Nat /\ d.size <= o.size
        /\ c.start \in Nat /\ d.start \in Nat
        /\ o.start <= c.start /\ o.start <= d.start
        /\ c.avail = "used" => segs <= c.size /\ c.start = o.start
        /\ d.avail = "used" => segs <= d.size /\ f = "last"
    BY <1>1, <1>3 DEF MakeBlock, End
  <2>3. c \in Block /\ d \in Block
    <3>1. /\ o.start < Word /\ o.start + o.size <= EndSeg /\ EndSeg < Word
          /\ Word \in Nat /\ EndSeg \in Nat
      BY <1>1, ArenaAssumption DEF Block, End
    <3>2. QED BY <1>1, <1>3, <3>1 DEF MakeBlock, Block, End
  <2> HIDE DEF c, d
  <2>4. PICK k \in DOMAIN SplitAt(bs, i, c, d) : b = SplitAt(bs, i, c, d)[k]
    BY <2>1 DEF ToSet
  <2>5. bs \in Seq(Block) /\ i \in DOMAIN bs
    BY <1>1
  <2>6. b = c \/ b = d \/ \E j \in DOMAIN bs : b = bs[j]
    BY <2>3, <2>4, <2>5, SplitAtValues
  <2>7. QED BY <1>1, <2>2, <2>6 DEF ToSet
<1>4. QED BY <1>1, <1>2, <1>3

(* The steps that change the vector.                                       *)
LEMMA ChangesOfTheVector ==
  ASSUME [Next]_vars
  PROVE  \/ UNCHANGED blocks
         \/ \E segs \in Requests, i \in DOMAIN blocks :
              Picks(blocks, fit, segs, i) /\ blocks' = AllocateAt(blocks, fit, segs, i)
         \/ \E i \in DOMAIN blocks :
              blocks[i].avail = "used" /\ blocks' = FreeAt(blocks, i)
BY DEF Next, vars, Allocate, Free, Strategy, Frees

(* The blocks after free(): those before, one of them marked free.         *)
LEMMA FreedBlocks ==
  ASSUME NEW bs, WellFormed(bs), NEW i \in DOMAIN bs, NEW b \in ToSet(FreeAt(bs, i))
  PROVE  \E c \in ToSet(bs) : /\ b.size = c.size /\ Extent(b) = Extent(c)
                              /\ b.avail = "used" => c.avail = "used"
<1>1. bs \in Seq(Block) /\ bs[i] \in Block  BY DEF WellFormed
<1>2. PICK k \in DOMAIN bs : b = FreeAt(bs, i)[k]
  BY <1>1 DEF ToSet, FreeAt
<1>3. /\ b.size = bs[k].size /\ Extent(b) = Extent(bs[k])
      /\ b.avail = "used" => bs[k].avail = "used"
  BY <1>1, <1>2 DEF FreeAt, Extent, Block
<1>4. QED BY <1>2, <1>3 DEF ToSet

(* Splits only ever make blocks smaller, and nothing makes one larger: the *)
(* memory that is fragmented stays so (dos.cpp 129-180), in every arena.   *)
THEOREM NothingMerges == Spec => FragmentationIsPermanent
<1>1. TypeOK /\ Tiling /\ [Next]_vars =>
        [\A n \in 1..(EndSeg - StartSeg) : NoneSpans(blocks, n) => NoneSpans(blocks', n)]_vars
  <2> SUFFICES ASSUME TypeOK, Tiling, [Next]_vars, NEW n \in 1..(EndSeg - StartSeg),
                      NoneSpans(blocks, n), NEW b \in ToSet(blocks')
               PROVE  b.size < n
    BY DEF NoneSpans
  <2>1. WellFormed(blocks) /\ fit \in Strategies  BY DEF TypeOK, Tiling, WellFormed
  <2>2. \A c \in ToSet(blocks) : c.size < n  BY DEF NoneSpans
  <2>3. CASE UNCHANGED blocks  BY <2>2, <2>3
  <2>4. ASSUME NEW segs \in Requests, NEW i \in DOMAIN blocks,
               Picks(blocks, fit, segs, i), blocks' = AllocateAt(blocks, fit, segs, i)
        PROVE  b.size < n
    <3>1. blocks[i] \in ToSet(blocks) /\ blocks[i] \in Block
      BY <2>1, BlockBounds DEF ToSet
    <3>2. b \in ToSet(blocks) \/ (b.size \in Nat /\ b.size <= blocks[i].size)
      BY <2>1, <2>4, RequestsAssumption, AllocatedBlocks DEF Picks
    <3>3. n \in Int /\ blocks[i].size \in Nat  BY <3>1, ArenaAssumption DEF Block
    <3>4. QED BY <2>2, <3>1, <3>2, <3>3
  <2>5. ASSUME NEW i \in DOMAIN blocks, blocks' = FreeAt(blocks, i)
        PROVE  b.size < n
    BY <2>1, <2>2, <2>5, FreedBlocks
  <2>6. QED BY <2>3, <2>4, <2>5, ChangesOfTheVector
<1>2. QED BY <1>1, BlocksTileTheArena, PTL DEF Spec, FragmentationIsPermanent

(* What allocate() hands out is the lowest block that would have done, or  *)
(* the highest under last fit (dos.cpp 131-165): the vector is always in   *)
(* address order, so that its order is that of the search.                 *)
THEOREM SearchIsByAddress == Spec => AddressOrderedFit
<1>1. TypeOK /\ Tiling /\ [Next]_vars =>
        [\A b \in ToSet(blocks') : (b.avail = "used" /\ Extent(b) \notin Granted)
           => \A c \in ToSet(blocks) :
                Fits(c, b.size) => IF fit = "last" THEN c.start <= b.start
                                                   ELSE b.start <= c.start]_vars
  <2> SUFFICES ASSUME TypeOK, Tiling, [Next]_vars, NEW b \in ToSet(blocks'),
                      b.avail = "used", Extent(b) \notin Granted,
                      NEW c \in ToSet(blocks), Fits(c, b.size)
               PROVE  IF fit = "last" THEN c.start <= b.start ELSE b.start <= c.start
    OBVIOUS
  <2>1. WellFormed(blocks) /\ fit \in Strategies  BY DEF TypeOK, Tiling, WellFormed
  <2>2. ASSUME NEW a \in ToSet(blocks), a.avail = "used"
        PROVE  Extent(a) \in Granted
    BY <2>2 DEF ToSet, Granted, GrantedIn
  <2>3. b \notin ToSet(blocks)  BY <2>2
  <2>4. ASSUME NEW segs \in Requests, NEW i \in DOMAIN blocks,
               Picks(blocks, fit, segs, i), blocks' = AllocateAt(blocks, fit, segs, i)
        PROVE  IF fit = "last" THEN c.start <= b.start ELSE b.start <= c.start
    <3>1. /\ b.size \in Nat /\ segs <= b.size /\ b.start \in Nat
          /\ blocks[i].start <= b.start
          /\ fit # "last" => b.start = blocks[i].start
      BY <2>1, <2>3, <2>4, RequestsAssumption, AllocatedBlocks DEF Picks
    <3>2. PICK j \in DOMAIN blocks : c = blocks[j]  BY DEF ToSet
    <3>3. /\ blocks[i] \in Block /\ c \in Block /\ i \in 1..Len(blocks)
          /\ j \in 1..Len(blocks) /\ Len(blocks) \in Nat
      BY <2>1, <3>2, BlockBounds
    <3>4. /\ blocks[i].start \in Nat /\ c.start \in Nat /\ c.size \in Nat /\ segs \in Nat
          /\ blocks[i].start <= End(blocks[i]) /\ c.start <= End(c)
          /\ End(blocks[i]) \in Nat /\ End(c) \in Nat
      BY <3>3, BlockNumbers, RequestsAssumption
    <3>5. Fits(c, segs)  BY <3>1, <3>4 DEF Fits
    <3>6. IF fit = "last" THEN j <= i ELSE i <= j
      BY <2>4, <3>2, <3>5 DEF Picks
    <3>7. /\ i < j => End(blocks[i]) <= c.start
          /\ j < i => End(c) <= blocks[i].start
      BY <2>1, <3>2 DEF WellFormed, Tiled
    <3>8. i = j => c.start = blocks[i].start  BY <3>2
    <3>9. QED BY <3>1, <3>3, <3>4, <3>6, <3>7, <3>8
  <2>5. ASSUME NEW i \in DOMAIN blocks, blocks' = FreeAt(blocks, i)
        PROVE  FALSE
    <3>1. PICK a \in ToSet(blocks) : Extent(b) = Extent(a) /\ a.avail = "used"
      BY <2>1, <2>5, FreedBlocks
    <3>2. QED BY <2>2, <3>1
  <2>6. QED BY <2>3, <2>4, <2>5, ChangesOfTheVector
<1>2. QED BY <1>1, BlocksTileTheArena, PTL DEF Spec, AddressOrderedFit

(* The types of the vector and of the strategy, by themselves.             *)
COROLLARY VectorIsTyped == Spec => []TypeOK
BY BlocksTileTheArena, PTL
===============================================================================
