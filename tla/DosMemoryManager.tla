--------------------------- MODULE DosMemoryManager ---------------------------
(***************************************************************************)
(* DosMemoryManager (src/dos/dos.h, src/dos/dos.cpp): the arena of real    *)
(* mode memory that INT 21h hands out, kept as a vector of blocks in       *)
(* address order.  allocate() takes the first (or, under the last-fit      *)
(* strategy, the last) free block that is large enough; it hands out the   *)
(* whole block when at most Slack paragraphs would be left over and splits *)
(* it otherwise.  free() marks a block free again and never merges it with *)
(* its neighbours.                                                         *)
(*                                                                         *)
(* Left out: owner and prog_name, which only free() (owner = 0) and        *)
(* write_mcb(), which nothing calls, touch.                                *)
(***************************************************************************)
EXTENDS Integers, Sequences, SequencesExt

CONSTANTS
  Word,       \* 2^16 in the code: paragraphs are counted in a uint16_t
  StartSeg,   \* start_seg_, the first paragraph of the arena
  EndSeg,     \* end_seg_, the first paragraph after it
  Slack,      \* 256 in the code: a smaller remainder is not split off
  Requests    \* the sizes callers pass to allocate()

ASSUME ArenaAssumption ==
  /\ Word \in Nat /\ StartSeg \in Nat /\ EndSeg \in Nat /\ Slack \in Nat
  /\ StartSeg < EndSeg /\ EndSeg < Word
ASSUME RequestsAssumption == Requests \subseteq 0..(Word - 1)

VARIABLES
  blocks,     \* blocks_
  fit         \* fit_

vars == <<blocks, fit>>

Strategies == {"first", "best", "last"}
Block == [start : 0..(Word - 1), size : 0..(Word - 1), avail : {"free", "used"}]

MakeBlock(start, size, avail) == [start |-> start, size |-> size, avail |-> avail]

End(b) == b.start + b.size     \* the paragraph after block b

-------------------------------------------------------------------------------
(* allocate(segs): which block is taken and what becomes of the vector.    *)
(* A definition marked wrong, here and in the other modules, is a variant   *)
(* with a bug that one of the properties rejects; nothing uses it.         *)

FitsUsedToo(b, segs) == b.size >= segs      \* wrong: available is not tested

Fits(b, segs) == b.avail = "free" /\ b.size >= segs

PicksFirst(bs, f, segs, i) ==               \* wrong: fit_ is ignored
  Fits(bs[i], segs) /\ \A j \in DOMAIN bs : Fits(bs[j], segs) => i <= j

(* Block i of bs is the one the loop of allocate() stops at.  "best" is    *)
(* not implemented: it searches like "first".                              *)
Picks(bs, f, segs, i) ==
  /\ Fits(bs[i], segs)
  /\ \A j \in DOMAIN bs :
       Fits(bs[j], segs) => IF f = "last" THEN j <= i ELSE i <= j

NoFit(bs, segs) == \A i \in DOMAIN bs : ~Fits(bs[i], segs)

(* emplace a block behind block i, which itself becomes b.                 *)
SplitAt(bs, i, b, new) == InsertAt([bs EXCEPT ![i] = b], i + 1, new)

AllocateAtKeepsSize(bs, f, segs, i) ==      \* wrong: the block is not shrunk
  LET b == bs[i] IN
  IF b.size - segs <= Slack THEN [bs EXCEPT ![i].avail = "used"]
  ELSE SplitAt(bs, i, MakeBlock(b.start, b.size, "used"),
                      MakeBlock(b.start + segs, b.size - segs, "free"))

AllocateAtStart(bs, f, segs, i) ==          \* wrong: start where end is meant
  LET b == bs[i] IN
  IF b.size - segs <= Slack THEN [bs EXCEPT ![i].avail = "used"]
  ELSE SplitAt(bs, i, MakeBlock(b.start, b.size - segs, "free"),
                      MakeBlock(b.start - segs, segs, "used"))

(* The vector after segs paragraphs are taken from block i of bs.          *)
AllocateAt(bs, f, segs, i) ==
  LET b == bs[i] IN
  IF b.size - segs <= Slack THEN [bs EXCEPT ![i].avail = "used"]
  ELSE IF f = "last"
       THEN SplitAt(bs, i, MakeBlock(b.start, b.size - segs, "free"),
                           MakeBlock(End(b) - segs, segs, "used"))
       ELSE SplitAt(bs, i, MakeBlock(b.start, segs, "used"),
                           MakeBlock(b.start + segs, b.size - segs, "free"))

(* The segment allocate() returns for it.                                  *)
SegmentAt(bs, f, segs, i) ==
  IF f = "last" /\ bs[i].size - segs > Slack THEN End(bs[i]) - segs
                                              ELSE bs[i].start

FreesFreeToo(bs, seg, i) ==                 \* wrong: available is not tested
  bs[i].start = seg /\ \A j \in 1..(i - 1) : bs[j].start # seg

(* free(seg): the first used block that starts at seg is the one freed.    *)
Frees(bs, seg, i) ==
  /\ bs[i].start = seg /\ bs[i].avail = "used"
  /\ \A j \in 1..(i - 1) : ~(bs[j].start = seg /\ bs[j].avail = "used")

NotAllocated(bs, seg) ==
  \A i \in DOMAIN bs : ~(bs[i].start = seg /\ bs[i].avail = "used")

FreeAtMerges(bs, i) ==                      \* wrong: takes the next block along
  IF i = Len(bs) THEN [bs EXCEPT ![i].avail = "free"]
  ELSE RemoveAt([bs EXCEPT ![i] = MakeBlock(@.start, @.size + bs[i + 1].size, "free")], i + 1)

FreeAt(bs, i) == [bs EXCEPT ![i].avail = "free"]

-------------------------------------------------------------------------------
Init ==
  /\ blocks = <<MakeBlock(StartSeg, EndSeg - StartSeg, "free")>>
  /\ fit = "first"

Allocate(segs) ==
  /\ \/ \E i \in DOMAIN blocks :
          /\ Picks(blocks, fit, segs, i)
          /\ blocks' = AllocateAt(blocks, fit, segs, i)
     \/ /\ NoFit(blocks, segs)
        /\ UNCHANGED blocks
  /\ UNCHANGED fit

Free(seg) ==
  /\ \/ \E i \in DOMAIN blocks :
          /\ Frees(blocks, seg, i)
          /\ blocks' = FreeAt(blocks, i)
     \/ /\ NotAllocated(blocks, seg)
        /\ UNCHANGED blocks
  /\ UNCHANGED fit

Strategy(f) ==
  /\ fit' = f
  /\ UNCHANGED blocks

Next ==
  \/ \E segs \in Requests : Allocate(segs)
  \/ \E seg \in 0..(Word - 1) : Free(seg)
  \/ \E f \in Strategies : Strategy(f)

Spec == Init /\ [][Next]_vars

-------------------------------------------------------------------------------
(* Types of the vector and the strategy. *)
TypeOK ==
  /\ blocks \in Seq(Block)
  /\ fit \in Strategies

(* The blocks tile the arena in address order: the first starts at         *)
(* start_seg_, each starts where the one before it ends, the last ends at  *)
(* end_seg_.  No paragraph is lost or counted twice, whatever is split,    *)
(* freed or reused, under either strategy (allocate() 139-143, 155-161).   *)
(* The last conjunct says of any two blocks what the one before it says of *)
(* neighbours.                                                             *)
Tiled(bs) ==
  /\ bs # <<>>
  /\ bs[1].start = StartSeg
  /\ End(bs[Len(bs)]) = EndSeg
  /\ \A i \in 1..(Len(bs) - 1) : End(bs[i]) = bs[i + 1].start
  /\ \A i, j \in DOMAIN bs : i < j => End(bs[i]) <= bs[j].start

Tiling == Tiled(blocks)

(* The runs of paragraphs that are lent out.                               *)
Extent(b) == [start |-> b.start, size |-> b.size]
GrantedIn(bs) == {Extent(bs[i]) : i \in {j \in DOMAIN bs : bs[j].avail = "used"}}
Granted == GrantedIn(blocks)

A == INSTANCE SegmentAllocator
       WITH Lo <- StartSeg, Hi <- EndSeg, granted <- Granted

(* As long as nobody asks for zero paragraphs, the manager is a segment    *)
(* allocator: each call of allocate() and free() lends or takes back one   *)
(* run, disjoint from and untouched by all the others, of a size between   *)
(* what was asked and Slack more.                                          *)
ImplementsAllocator == A!Spec

(* Under first fit no free block below the one just handed out could have  *)
(* held it, under last fit none above it: the search order over the vector *)
(* is address order, however the vector came to be (allocate() 131, 148).  *)
AddressOrderedFit ==
  [][\A b \in ToSet(blocks') :
       (b.avail = "used" /\ Extent(b) \notin Granted)
       => \A c \in ToSet(blocks) :
            Fits(c, b.size) => IF fit = "last" THEN c.start <= b.start
                                              ELSE b.start <= c.start]_vars

(* free() never merges: once no block, free or used, spans n paragraphs,   *)
(* none ever will again, although every block may be given back            *)
(* (free() 170-180).                                                       *)
NoneSpans(bs, n) == \A b \in ToSet(bs) : b.size < n
FragmentationIsPermanent ==
  [][\A n \in 1..(EndSeg - StartSeg) :
       NoneSpans(blocks, n) => NoneSpans(blocks', n)]_vars
===============================================================================
