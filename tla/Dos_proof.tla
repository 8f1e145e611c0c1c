------------------------------- MODULE Dos_proof -------------------------------
(***************************************************************************)
(* Proofs about Dos and Loader: a program that never asks INT 21h/48h for  *)
(* 0xFFFF paragraphs, started on a file whose size does not wrap to zero,  *)
(* keeps what it is granted, and the used blocks are exactly the grants    *)
(* and what initialize_process() took, for every arena and every sequence  *)
(* of calls.  Loading a file step by step is one step of Dos; it writes in *)
(* the block it took, and what it leaves there is a program linked to      *)
(* where it lies.  The accounts hold at each step of loading, and loading  *)
(* and program together use the memory manager as an allocator that never  *)
(* lends a paragraph twice.                                                *)
(***************************************************************************)
EXTENDS Loader, DosMemoryManager_proof, Remainders

-------------------------------------------------------------------------------
(* What every allocate() and free() in this module does to the runs lent   *)
(* out, in the vocabulary of the lemmas on DosMemoryManager.               *)
Sound(bs) == WellFormed(bs) /\ Positive(bs)

LEMMA OutcomeGrants ==
  ASSUME NEW bs, Sound(bs), NEW segs \in 1..(Word - 1), NEW a \in Outcomes(bs, segs)
  PROVE  /\ Sound(a.blocks)
         /\ a.seg \in 0..(Word - 2)
         /\ \E z \in segs..(segs + Slack) :
              /\ a.seg + z <= EndSeg
              /\ GrantedIn(a.blocks) = GrantedIn(bs) \cup {[start |-> a.seg, size |-> z]}
              /\ \A h \in GrantedIn(bs) : a.seg # h.start
<1>1. PICK i \in DOMAIN bs :
        /\ Picks(bs, fit, segs, i)
        /\ a = [blocks |-> AllocateAt(bs, fit, segs, i), seg |-> SegmentAt(bs, fit, segs, i)]
  BY DEF Outcomes
<1> DEFINE g == Lent(bs, fit, segs, i)
<1>2. WellFormed(bs) /\ Positive(bs) /\ Fits(bs[i], segs) /\ segs \in 0..(Word - 1)
  BY <1>1, ArenaAssumption DEF Sound, Picks
<1>3. a.blocks = AllocateAt(bs, fit, segs, i) /\ a.seg = SegmentAt(bs, fit, segs, i)
  BY <1>1
<1>4. Sound(a.blocks)
  BY <1>2, <1>3, AllocatePreserves, AllocatePositive DEF Sound
<1>5. GrantedIn(a.blocks) = GrantedIn(bs) \cup {g}
  BY <1>2, <1>3, AllocateGrants
<1>6. /\ g \in A!Run /\ g.start + g.size <= EndSeg /\ g.size \in segs..(segs + Slack)
      /\ \A h \in GrantedIn(bs) : g.start # h.start
  BY <1>2, LentIsFresh
<1>7. g = [start |-> a.seg, size |-> g.size] /\ g.start = a.seg
  BY <1>3 DEF Lent
<1> HIDE DEF g
<1>8. a.seg \in 0..(Word - 2)
  <2>1. g.start \in Nat /\ g.size \in Nat /\ g.size > 0 /\ g.start < EndSeg
    BY <1>6, ArenaAssumption DEF A!Run
  <2>2. QED
    BY <1>7, <2>1, ArenaAssumption
<1>9. QED
  BY <1>4, <1>5, <1>6, <1>7, <1>8

LEMMA FreeTakesBack ==
  ASSUME NEW bs, Sound(bs), NEW seg, NEW i \in DOMAIN bs, Frees(bs, seg, i)
  PROVE  /\ Sound(FreeAt(bs, i))
         /\ \E g \in GrantedIn(bs) :
              /\ g.start = seg
              /\ GrantedIn(FreeAt(bs, i)) = GrantedIn(bs) \ {g}
<1>1. /\ WellFormed(bs) /\ Positive(bs) /\ bs[i].avail = "used"
      /\ Extent(bs[i]).start = seg
  BY DEF Sound, Frees, Extent
<1>2. WellFormed(FreeAt(bs, i))
  BY <1>1, RelabelPreserves DEF FreeAt
<1>3. QED
  BY <1>1, <1>2, FreeReleases DEF Sound

LEMMA GrantedStarts ==
  ASSUME NEW bs, Sound(bs)
  PROVE  /\ \A g, h \in GrantedIn(bs) : g.start = h.start => g = h
         /\ \A g \in GrantedIn(bs) : \E b \in ToSet(bs) :
              b.avail = "used" /\ b.start = g.start /\ b.size = g.size
         /\ \A b \in ToSet(bs) : b.avail = "used" =>
              \E g \in GrantedIn(bs) : g.start = b.start /\ g.size = b.size
<1>1. WellFormed(bs) /\ Positive(bs)
  BY DEF Sound
<1>2. ASSUME NEW g \in GrantedIn(bs), NEW h \in GrantedIn(bs), g.start = h.start
      PROVE  g = h
  <2>1. PICK i \in DOMAIN bs : g = Extent(bs[i])
    BY DEF GrantedIn
  <2>2. PICK j \in DOMAIN bs : h = Extent(bs[j])
    BY DEF GrantedIn
  <2>3. i = j
    BY <1>1, <1>2, <2>1, <2>2, Distinct DEF Extent
  <2>4. QED
    BY <2>1, <2>2, <2>3
<1>3. ASSUME NEW g \in GrantedIn(bs)
      PROVE  \E b \in ToSet(bs) : b.avail = "used" /\ b.start = g.start /\ b.size = g.size
  <2>1. PICK i \in DOMAIN bs : bs[i].avail = "used" /\ g = Extent(bs[i])
    BY DEF GrantedIn
  <2>2. bs[i] \in ToSet(bs)
    BY DEF ToSet
  <2>3. QED
    BY <2>1, <2>2 DEF Extent
<1>4. ASSUME NEW b \in ToSet(bs), b.avail = "used"
      PROVE  \E g \in GrantedIn(bs) : g.start = b.start /\ g.size = b.size
  <2>1. PICK i \in DOMAIN bs : b = bs[i]
    BY DEF ToSet
  <2>2. Extent(bs[i]) \in GrantedIn(bs)
    BY <1>4, <2>1 DEF GrantedIn
  <2>3. QED
    BY <2>1, <2>2 DEF Extent
<1>5. QED
  BY <1>2, <1>3, <1>4

-------------------------------------------------------------------------------
(* The inductive invariant: HandlesSound and Accounting, said of the runs  *)
(* lent out instead of the vector of blocks.                               *)
HeldAreLent ==
  \A h \in held : \E g \in Granted :
    g.start = h.seg - 1 /\ g.size \in (h.paras + 1)..(h.paras + 1 + Slack)
HeldDistinct == \A g, h \in held : g # h => g.seg # h.seg
LentAreKnown == \A g \in Granted : g.start \in own \/ \E h \in held : g.start = h.seg - 1
OwnAreLent == \A s \in own : \E g \in Granted : g.start = s
OwnNotHeld == \A h \in held : h.seg - 1 \notin own

Types ==
  /\ fit \in Strategies
  /\ phase \in {"load", "run", "exit"}
  /\ psp \in 0..(Word - 1) \cup {NoSeg}
  /\ answer \in BOOLEAN /\ cf \in BOOLEAN
  /\ held \subseteq Handle
  /\ own \subseteq 0..(Word - 1)
  /\ loaded \subseteq Programs

DosInv ==
  /\ Sound(blocks) /\ Types
  /\ HeldAreLent /\ HeldDistinct /\ LentAreKnown /\ OwnAreLent /\ OwnNotHeld
  /\ phase = "load" => held = {} /\ own = {} /\ Granted = {}

(* The two ways a 48h request or a load can go wrong are excluded: a       *)
(* number of paragraphs that wraps to zero.                                *)
NoRequestWraps ==
  /\ Word - 1 \notin BxValues
  /\ \A p \in Programs : ParasAskedFor(p) # 0

(* What is said of the runs lent out says it of the blocks.                *)
LEMMA AccountsHold ==
  ASSUME Sound(blocks), Types, HeldAreLent, HeldDistinct, LentAreKnown, OwnAreLent, OwnNotHeld
  PROVE  DosTypeOK /\ Tiling /\ HandlesSound /\ Accounting
<1>1. Sound(blocks)
  OBVIOUS
<1>2. DosTypeOK /\ Tiling
  BY DEF Types, Sound, WellFormed, DosTypeOK, TypeOK, Tiling
<1>3. HandlesSound
  <2>1. ASSUME NEW h \in held
        PROVE  \E b \in ToSet(blocks) :
                 /\ b.avail = "used" /\ b.start = h.seg - 1
                 /\ b.size \in (h.paras + 1)..(h.paras + 1 + Slack)
    <3>1. PICK g \in GrantedIn(blocks) :
            g.start = h.seg - 1 /\ g.size \in (h.paras + 1)..(h.paras + 1 + Slack)
      BY DEF HeldAreLent, Granted
    <3>2. PICK b \in ToSet(blocks) : b.avail = "used" /\ b.start = g.start /\ b.size = g.size
      BY <1>1, GrantedStarts
    <3>3. QED
      BY <3>1, <3>2
  <2>2. QED
    BY <2>1 DEF HeldDistinct, HandlesSound
<1>4. Accounting
  <2>1. UsedStarts = {g.start : g \in Granted}
    BY <1>1, GrantedStarts DEF UsedStarts, Granted
  <2>2. {g.start : g \in Granted} = HandleStarts \cup own
    BY DEF HeldAreLent, LentAreKnown, OwnAreLent, HandleStarts
  <2>3. HandleStarts \cap own = {}
    BY DEF OwnNotHeld, HandleStarts
  <2>4. QED
    BY <2>1, <2>2, <2>3 DEF Accounting
<1>5. QED
  BY <1>2, <1>3, <1>4

LEMMA DosInvSuffices == DosInv => DosTypeOK /\ Tiling /\ HandlesSound /\ Accounting
BY AccountsHold DEF DosInv

LEMMA InitDosInv == DosInit => DosInv
<1> SUFFICES ASSUME DosInit PROVE DosInv
  OBVIOUS
<1>1. Sound(blocks) /\ fit \in Strategies
  <2>1. TypeOK /\ Tiling
    BY InitWellFormed DEF DosInit
  <2>2. Positive(blocks)
    BY ArenaAssumption DEF DosInit, Init, MakeBlock, Positive
  <2>3. QED
    BY <2>1, <2>2 DEF Sound, WellFormed, TypeOK, Tiling
<1>2. Granted = {}
  BY DEF DosInit, Init, MakeBlock, Granted, GrantedIn
<1>3. QED
  BY <1>1, <1>2 DEF DosInit, DosInv, Types, HeldAreLent, HeldDistinct, LentAreKnown,
                    OwnAreLent, OwnNotHeld

LEMMA AskedInRange ==
  ASSUME NEW p \in Programs, ParasAskedFor(p) # 0
  PROVE  ParasAskedFor(p) \in 1..(Word - 1)
<1>1. MemoryNeeded(p) \in Int
  BY DosAssumption, ArenaAssumption DEF ProgramFile, MemoryNeeded, Paragraph
<1>2. Word \in Nat /\ Word > 0
  BY ArenaAssumption
<1>3. (MemoryNeeded(p) + 1) % Word \in 0..(Word - 1)
  BY <1>1, <1>2
<1>4. QED
  BY <1>2, <1>3, DosAssumption DEF ParasAskedFor

(* A load either leaves the arena alone, or takes the environment, or      *)
(* takes the environment and the program's block.                          *)
LEMMA LoadStep ==
  ASSUME NoRequestWraps, DosInv, NEW p \in Programs, InitializeProcess(p)
  PROVE  DosInv'
<1>1. /\ Sound(blocks) /\ Types /\ held = {} /\ own = {} /\ Granted = {}
      /\ phase = "load"
  BY DEF DosInv, InitializeProcess
<1>2. fit' = fit /\ answer' = answer /\ cf' = cf /\ held' = held
  BY DEF InitializeProcess
<1>3. CASE NoEnvironment
  <2>1. /\ blocks' = blocks /\ psp' = psp /\ own' = own /\ loaded' = loaded /\ phase' = "run"
    BY <1>3 DEF NoEnvironment
  <2>2. Granted' = Granted
    BY <2>1 DEF Granted
  <2>3. QED
    BY <1>1, <1>2, <2>1, <2>2 DEF DosInv, Types, HeldAreLent, HeldDistinct, LentAreKnown,
                                 OwnAreLent, OwnNotHeld
<1>4. ASSUME NEW e \in Outcomes(blocks, EnvParas)
      PROVE  /\ Sound(e.blocks) /\ e.seg \in 0..(Word - 2)
             /\ \E z : GrantedIn(e.blocks) = {[start |-> e.seg, size |-> z]}
  <2>1. EnvParas \in 1..(Word - 1) /\ GrantedIn(blocks) = {}
    BY <1>1, DosAssumption DEF Granted
  <2>2. PICK z \in EnvParas..(EnvParas + Slack) :
          GrantedIn(e.blocks) = GrantedIn(blocks) \cup {[start |-> e.seg, size |-> z]}
    BY <1>1, <2>1, OutcomeGrants
  <2>3. Sound(e.blocks) /\ e.seg \in 0..(Word - 2)
    BY <1>1, <2>1, OutcomeGrants
  <2>4. QED
    BY <2>1, <2>2, <2>3
<1>5. ASSUME NEW e \in Outcomes(blocks, EnvParas), NoImage(e, p)
      PROVE  DosInv'
  <2>1. /\ blocks' = e.blocks /\ own' = {e.seg} /\ phase' = "run"
        /\ psp' = psp /\ loaded' = loaded
    BY <1>5 DEF NoImage
  <2>2. PICK z : Granted' = {[start |-> e.seg, size |-> z]}
    BY <1>4, <2>1 DEF Granted
  <2>3. Sound(blocks') /\ Types'
    BY <1>1, <1>2, <1>4, <2>1, ArenaAssumption DEF Types
  <2>4. QED
    BY <1>1, <1>2, <2>1, <2>2, <2>3 DEF DosInv, HeldAreLent, HeldDistinct, LentAreKnown,
                                       OwnAreLent, OwnNotHeld
<1>6. ASSUME NEW e \in Outcomes(blocks, EnvParas), Loaded(e, p)
      PROVE  DosInv'
  <2>1. PICK m \in Outcomes(e.blocks, ParasAskedFor(p)) :
          /\ blocks' = m.blocks /\ own' = {e.seg, m.seg}
          /\ IF p.readable THEN phase' = "run" /\ psp' = m.seg /\ loaded' = {p}
                           ELSE phase' = "exit" /\ UNCHANGED <<psp, loaded>>
    BY <1>6 DEF Loaded
  <2>2. ParasAskedFor(p) \in 1..(Word - 1)
    BY AskedInRange DEF NoRequestWraps
  <2>3. /\ Sound(m.blocks) /\ m.seg \in 0..(Word - 2)
        /\ \E z : GrantedIn(m.blocks) = GrantedIn(e.blocks) \cup {[start |-> m.seg, size |-> z]}
    <3>1. Sound(e.blocks)
      BY <1>4
    <3>2. PICK z \in ParasAskedFor(p)..(ParasAskedFor(p) + Slack) :
            GrantedIn(m.blocks) = GrantedIn(e.blocks) \cup {[start |-> m.seg, size |-> z]}
      BY <2>2, <3>1, OutcomeGrants
    <3>3. Sound(m.blocks) /\ m.seg \in 0..(Word - 2)
      BY <2>2, <3>1, OutcomeGrants
    <3>4. QED
      BY <3>2, <3>3
  <2>4. PICK y, z : Granted' = {[start |-> e.seg, size |-> y], [start |-> m.seg, size |-> z]}
    <3>1. PICK y : GrantedIn(e.blocks) = {[start |-> e.seg, size |-> y]}
      BY <1>4
    <3>2. PICK z : GrantedIn(m.blocks) = GrantedIn(e.blocks) \cup {[start |-> m.seg, size |-> z]}
      BY <2>3
    <3>3. Granted' = GrantedIn(m.blocks)
      BY <2>1 DEF Granted
    <3>4. QED
      BY <3>1, <3>2, <3>3
  <2>5. Sound(blocks') /\ Types'
    <3>1. Sound(blocks')
      BY <2>1, <2>3
    <3>2. own' \subseteq 0..(Word - 1) /\ m.seg \in 0..(Word - 1)
      BY <1>4, <2>1, <2>3, ArenaAssumption
    <3>3. QED
      BY <1>1, <1>2, <2>1, <3>1, <3>2 DEF Types
  <2>6. phase' # "load"
    BY <2>1
  <2>7. QED
    BY <1>1, <1>2, <2>1, <2>4, <2>5, <2>6 DEF DosInv, HeldAreLent, HeldDistinct, LentAreKnown,
                                             OwnAreLent, OwnNotHeld
<1>7. QED
  BY <1>3, <1>5, <1>6 DEF InitializeProcess

LEMMA AllocateStep ==
  ASSUME NoRequestWraps, DosInv, NEW bx \in BxValues, Int21Allocate(bx)
  PROVE  DosInv'
<1> DEFINE paragraphs == WithMcb(bx)
<1>1. /\ Sound(blocks) /\ Types /\ phase = "run" /\ fit' = fit /\ phase' = phase /\ cf' = cf
      /\ psp' = psp /\ own' = own /\ loaded' = loaded
  BY DEF DosInv, Int21Allocate, Running
<1>2. bx \in 0..(Word - 2) /\ Word \in Nat /\ paragraphs = bx + 1
  <2>1. bx \in 0..(Word - 2) /\ Word \in Nat
    BY DosAssumption, ArenaAssumption DEF NoRequestWraps
  <2>2. bx + 1 \in 0..(Word - 1)
    BY <2>1
  <2>3. QED
    BY <2>1, <2>2 DEF WithMcb
<1> HIDE DEF paragraphs
<1>3. CASE answer' = TRUE /\ UNCHANGED <<blocks, held>>
  <2>1. Granted' = Granted
    BY <1>3 DEF Granted
  <2>2. QED
    BY <1>1, <1>3, <2>1 DEF DosInv, Types, HeldAreLent, HeldDistinct, LentAreKnown,
                           OwnAreLent, OwnNotHeld
<1>4. ASSUME NEW a \in Outcomes(blocks, paragraphs), blocks' = a.blocks, answer' = FALSE,
             held' = held \cup {[seg |-> a.seg + 1, paras |-> bx]}
      PROVE  DosInv'
  <2> DEFINE h == [seg |-> a.seg + 1, paras |-> bx]
  <2>1. PICK z \in paragraphs..(paragraphs + Slack) :
          /\ Granted' = Granted \cup {[start |-> a.seg, size |-> z]}
          /\ \A g \in Granted : a.seg # g.start
    BY <1>1, <1>2, <1>4, OutcomeGrants DEF Granted
  <2>2. Sound(blocks') /\ a.seg \in 0..(Word - 2)
    BY <1>1, <1>2, <1>4, OutcomeGrants
  <2>3. /\ h \in Handle /\ h.seg - 1 = a.seg /\ h.seg = a.seg + 1
        /\ z \in (h.paras + 1)..(h.paras + 1 + Slack)
    BY <1>2, <2>1, <2>2 DEF Handle
  <2> HIDE DEF h
  <2>4. held' = held \cup {h}
    BY <1>4 DEF h
  <2>5. Types'
    BY <1>1, <1>4, <2>3, <2>4 DEF Types
  <2>6. a.seg \notin own /\ \A g \in held : g.seg - 1 # a.seg
    BY <2>1 DEF DosInv, OwnAreLent, HeldAreLent
  <2>7. HeldAreLent'
    <3>1. ASSUME NEW k \in held
          PROVE  \E g \in Granted' : g.start = k.seg - 1
                                    /\ g.size \in (k.paras + 1)..(k.paras + 1 + Slack)
      BY <2>1 DEF DosInv, HeldAreLent
    <3>2. \E g \in Granted' : g.start = h.seg - 1
                             /\ g.size \in (h.paras + 1)..(h.paras + 1 + Slack)
      <4> DEFINE g == [start |-> a.seg, size |-> z]
      <4>1. g \in Granted' /\ g.start = a.seg /\ g.size = z
        BY <2>1
      <4> HIDE DEF g
      <4>2. QED
        BY <2>3, <4>1
    <3>3. QED
      BY <2>4, <3>1, <3>2 DEF HeldAreLent
  <2>8. HeldDistinct'
    BY <2>3, <2>4, <2>6 DEF DosInv, HeldDistinct
  <2>9. LentAreKnown' /\ OwnAreLent'
    BY <1>1, <2>1, <2>3, <2>4 DEF DosInv, LentAreKnown, OwnAreLent
  <2>10. OwnNotHeld'
    BY <1>1, <2>3, <2>4, <2>6 DEF DosInv, OwnNotHeld
  <2>11. QED
    BY <1>1, <2>2, <2>5, <2>7, <2>8, <2>9, <2>10 DEF DosInv
<1>5. QED
  BY <1>3, <1>4 DEF Int21Allocate, paragraphs

LEMMA FreeStep ==
  ASSUME DosInv, NEW bx \in FreeBx, Int21Free(bx)
  PROVE  DosInv'
<1> DEFINE seg == (bx - 1) % Word
<1>1. /\ Sound(blocks) /\ Types /\ phase = "run" /\ fit' = fit /\ phase' = phase /\ cf' = cf
      /\ psp' = psp /\ loaded' = loaded
  BY DEF DosInv, Int21Free, Running
<1>2. \A h \in held : h.seg = bx <=> h.seg - 1 = seg
  <2>1. bx \in 0..Word /\ Word \in Nat /\ Word > 0
    <3>1. ASSUME NEW b \in ToSet(blocks)
          PROVE  b.start \in 0..Word /\ b.start + 1 \in 0..Word
      <4>1. PICK i \in DOMAIN blocks : b = blocks[i]
        BY DEF ToSet
      <4>2. blocks[i] \in Block
        BY <1>1, BlockBounds DEF Sound
      <4>3. QED
        BY <4>1, <4>2, ArenaAssumption DEF Block
    <3>2. QED
      BY <3>1, DosAssumption, ArenaAssumption DEF FreeBx
  <2>2. \A h \in held : h.seg \in 1..Word
    BY <1>1 DEF Types, Handle
  <2>3. CASE bx = 0
    <3>1. (bx - 1) % Word = Word - 1
      BY <2>1, <2>3
    <3>2. \A h \in held : h.seg # Word
      <4>1. ASSUME NEW h \in held PROVE h.seg < Word
        <5>1. PICK g \in GrantedIn(blocks) : g.start = h.seg - 1
          BY DEF DosInv, HeldAreLent, Granted
        <5>2. PICK i \in DOMAIN blocks : g = Extent(blocks[i])
          BY DEF GrantedIn
        <5>3. blocks[i].start <= EndSeg /\ blocks[i].start \in Nat /\ EndSeg \in Nat
              /\ EndSeg < Word
              /\ blocks[i].size > 0 /\ blocks[i].size \in Nat
              /\ blocks[i].start + blocks[i].size <= EndSeg
          BY <1>1, BlockBounds, BlockNumbers, ArenaAssumption DEF Sound, End, Positive
        <5>4. QED
          BY <2>1, <2>2, <5>1, <5>2, <5>3 DEF Extent
      <4>2. QED
        BY <2>1, <2>2, <4>1
    <3>3. QED
      BY <2>1, <2>2, <2>3, <3>1, <3>2
  <2>4. CASE bx # 0
    <3>1. bx - 1 \in 0..(Word - 1)
      BY <2>1, <2>4
    <3>2. (bx - 1) % Word = bx - 1
      BY <2>1, <3>1
    <3>3. QED
      BY <2>1, <2>2, <3>2
  <2>5. QED
    BY <2>3, <2>4
<1> HIDE DEF seg
<1>3. CASE answer' = TRUE /\ UNCHANGED <<blocks, held, own>>
  <2>1. Granted' = Granted
    BY <1>3 DEF Granted
  <2>2. QED
    BY <1>1, <1>3, <2>1 DEF DosInv, Types, HeldAreLent, HeldDistinct, LentAreKnown,
                           OwnAreLent, OwnNotHeld
<1>4. ASSUME NEW i \in DOMAIN blocks, Frees(blocks, seg, i), blocks' = FreeAt(blocks, i),
             answer' = FALSE, held' = {h \in held : h.seg # bx}, own' = own \ {seg}
      PROVE  DosInv'
  <2>1. PICK g \in Granted : g.start = seg /\ Granted' = Granted \ {g}
    BY <1>1, <1>4, FreeTakesBack DEF Granted
  <2>2. \A k \in Granted : k # g <=> k.start # seg
    BY <1>1, <2>1, GrantedStarts DEF Granted
  <2>3. \A h \in held : h \in held' <=> h.seg - 1 # seg
    BY <1>2, <1>4
  <2>4. held' \subseteq held /\ own' = own \ {seg}
    BY <1>4
  <2>5. Sound(blocks')
    BY <1>1, <1>4, FreeTakesBack
  <2>6. Types'
    BY <1>1, <1>4 DEF Types
  <2>7. HeldAreLent'
    <3>1. ASSUME NEW h \in held'
          PROVE  \E k \in Granted' : k.start = h.seg - 1
                                    /\ k.size \in (h.paras + 1)..(h.paras + 1 + Slack)
      <4>1. PICK k \in Granted : k.start = h.seg - 1
                                /\ k.size \in (h.paras + 1)..(h.paras + 1 + Slack)
        BY <2>4 DEF DosInv, HeldAreLent
      <4>2. k.start # seg
        BY <2>3, <2>4, <4>1
      <4>3. k \in Granted'
        BY <2>1, <2>2, <4>2
      <4>4. QED
        BY <4>1, <4>3
    <3>2. QED
      BY <3>1 DEF HeldAreLent
  <2>8. HeldDistinct'
    BY <2>4 DEF DosInv, HeldDistinct
  <2>9. LentAreKnown'
    BY <2>1, <2>2, <2>3, <2>4 DEF DosInv, LentAreKnown
  <2>10. OwnAreLent'
    BY <2>1, <2>2, <2>4 DEF DosInv, OwnAreLent
  <2>11. OwnNotHeld'
    BY <2>4 DEF DosInv, OwnNotHeld
  <2>12. QED
    BY <1>1, <2>5, <2>6, <2>7, <2>8, <2>9, <2>10, <2>11 DEF DosInv
<1>5. QED
  BY <1>3, <1>4 DEF Int21Free, seg

-------------------------------------------------------------------------------
LEMMA DosStep ==
  ASSUME NoRequestWraps, DosInv, [DosNext]_dosVars
  PROVE  DosInv'
<1>1. ASSUME NEW p \in Programs, InitializeProcess(p) PROVE DosInv'
  BY <1>1, LoadStep
<1>2. ASSUME NEW bx \in BxValues, Int21Allocate(bx) PROVE DosInv'
  BY <1>2, AllocateStep
<1>3. ASSUME NEW bx \in FreeBx, Int21Free(bx) PROVE DosInv'
  BY <1>3, FreeStep
<1>4. ASSUME UNCHANGED <<blocks, held, own, psp, loaded>>, fit' \in Strategies,
             phase' = phase \/ phase' = "exit", answer' \in BOOLEAN, cf' \in BOOLEAN
      PROVE  DosInv'
  <2>1. Granted' = Granted
    BY <1>4 DEF Granted
  <2>2. QED
    BY <1>4, <2>1 DEF DosInv, Types, HeldAreLent, HeldDistinct, LentAreKnown,
                      OwnAreLent, OwnNotHeld
<1>5. ASSUME NEW bx \in 0..2, Int21SetStrategy(bx) PROVE DosInv'
  BY <1>4, <1>5 DEF Int21SetStrategy, Strategies, DosInv, Types
<1>6. CASE Int21SetHandleCount \/ Terminate \/ Compute \/ UNCHANGED dosVars
  BY <1>4, <1>6 DEF Int21SetHandleCount, Terminate, Compute, dosVars, DosInv, Types
<1>7. QED
  BY <1>1, <1>2, <1>3, <1>5, <1>6 DEF DosNext

(* Every grant of INT 21h/48h stays what the program was told, and the     *)
(* used blocks are exactly the grants and what initialize_process() took   *)
(* (dos.cpp 31-108, 129-180, 314-345), for every arena, every Slack and    *)
(* every set of files and sizes in which no request wraps to zero.         *)
THEOREM GrantsAreSound ==
  ASSUME NoRequestWraps
  PROVE  DosSpec => [](DosTypeOK /\ Tiling /\ HandlesSound /\ Accounting)
<1>1. DosInv /\ [DosNext]_dosVars => DosInv'
  BY DosStep
<1>2. QED
  BY <1>1, InitDosInv, DosInvSuffices, PTL DEF DosSpec

(* 49h refuses every segment that is not lent out: one freed before, one   *)
(* in the middle of a block and any stray number (dos.cpp 170-180,         *)
(* 327-333), since the used blocks are known one by one.                   *)
THEOREM StaleFreesAreRefused ==
  ASSUME NoRequestWraps
  PROVE  DosSpec => StaleFreeRefused
<1>1. Accounting /\ [DosNext]_dosVars =>
        [\A bx \in FreeBx :
           Int21Free(bx) /\ (bx - 1) % Word \notin HandleStarts \cup own
             => answer' /\ UNCHANGED blocks]_dosVars
  <2> SUFFICES ASSUME Accounting, NEW bx \in FreeBx, Int21Free(bx),
                      (bx - 1) % Word \notin HandleStarts \cup own
               PROVE  answer' /\ UNCHANGED blocks
    OBVIOUS
  <2> DEFINE seg == (bx - 1) % Word
  <2>1. seg \notin UsedStarts  BY DEF Accounting
  <2>2. ASSUME NEW i \in DOMAIN blocks, Frees(blocks, seg, i) PROVE FALSE
    BY <2>1, <2>2 DEF Frees, UsedStarts, ToSet
  <2>3. QED BY <2>2 DEF Int21Free
<1>2. QED BY <1>1, GrantsAreSound, PTL DEF DosSpec, StaleFreeRefused

(* The types by themselves, and the accounts of initialize_process() and   *)
(* of 48h and 49h: nothing leaks, nothing is lent twice.                   *)
COROLLARY DosIsTyped == ASSUME NoRequestWraps PROVE DosSpec => []DosTypeOK
BY GrantsAreSound, PTL

COROLLARY AccountsBalance == ASSUME NoRequestWraps PROVE DosSpec => []Accounting
BY GrantsAreSound, PTL

-------------------------------------------------------------------------------
(* The program's own block.                                                *)

(* No file is larger than what is asked for it: the sums of memory_needed() *)
(* do not wrap, and a .COM image fits what every .COM program gets.        *)
FilesAreSmall ==
  \A p \in Programs :
    /\ p.header <= p.size
    /\ p.kind = "exe" => p.minExtra * Paragraph + p.size + PspParas * Paragraph + 1 < Word
    /\ p.kind = "com" => ParasRequired(p) <= ComParas

(* Until the program frees it, the run that starts at psp is lent out, and  *)
(* is as large as the loaded file needs.                                   *)
Roomy(gs) == \A p \in loaded : \E g \in gs : g.start = psp /\ g.size >= ParasRequired(p)
ImageInv ==
  /\ phase = "load" => loaded = {}
  /\ psp \in own => Roomy(Granted)

LEMMA AskedIsEnough ==
  ASSUME FilesAreSmall, NEW p \in Programs
  PROVE  ParasAskedFor(p) >= ParasRequired(p)
<1>1. /\ p \in ProgramFile /\ p.header <= p.size
      /\ p.size \in Nat /\ p.header \in Nat /\ p.minExtra \in Nat /\ PspParas \in Nat
      /\ Word \in Nat /\ p.kind \in {"com", "exe"}
  BY DosAssumption, ArenaAssumption DEF ProgramFile, FilesAreSmall
<1>2. CASE p.kind = "com"
  <2>1. ParasRequired(p) <= ComParas
    BY <1>2 DEF FilesAreSmall
  <2>2. ParasAskedFor(p) = ComParas
    BY <1>2 DEF ParasAskedFor
  <2>3. ParasRequired(p) \in Int /\ ComParas \in Int
    BY <1>1, DosAssumption, ArenaAssumption DEF ParasRequired, Paragraph
  <2>4. QED BY <2>1, <2>2, <2>3
<1>3. CASE p.kind = "exe"
  <2> DEFINE bytes == p.minExtra * 16 + p.size + PspParas * 16
  <2>1. bytes \in Nat /\ bytes + 1 < Word
    BY <1>1, <1>3 DEF FilesAreSmall, Paragraph
  <2>2. MemoryNeeded(p) = bytes % Word
    BY DEF MemoryNeeded, Paragraph
  <2>3. ParasAskedFor(p) = bytes + 1
    <3> HIDE DEF bytes
    <3>1. bytes % Word = bytes /\ (bytes + 1) % Word = bytes + 1
      BY <1>1, <2>1
    <3>2. QED BY <1>3, <2>2, <3>1 DEF ParasAskedFor
  <2>4. (p.size - p.header + 15) \div 16 <= p.size + 1
    BY <1>1
  <2>5. QED
    BY <1>1, <2>3, <2>4 DEF ParasRequired, Paragraph
<1>4. QED BY <1>1, <1>2, <1>3

LEMMA LoadIsRoomy ==
  ASSUME NoRequestWraps, FilesAreSmall, DosInv, ImageInv,
         NEW p \in Programs, InitializeProcess(p)
  PROVE  ImageInv'
<1>1. phase = "load" /\ loaded = {} /\ Sound(blocks)
  BY DEF InitializeProcess, ImageInv, DosInv
<1>2. CASE NoEnvironment
  BY <1>1, <1>2 DEF NoEnvironment, ImageInv, Roomy
<1>3. ASSUME NEW e \in Outcomes(blocks, EnvParas), NoImage(e, p) PROVE ImageInv'
  BY <1>1, <1>3 DEF NoImage, ImageInv, Roomy
<1>4. ASSUME NEW e \in Outcomes(blocks, EnvParas), Loaded(e, p) PROVE ImageInv'
  <2>1. PICK m \in Outcomes(e.blocks, ParasAskedFor(p)) :
          /\ blocks' = m.blocks
          /\ IF p.readable THEN phase' = "run" /\ psp' = m.seg /\ loaded' = {p}
                           ELSE phase' = "exit" /\ UNCHANGED <<psp, loaded>>
    BY <1>4 DEF Loaded
  <2>2. CASE ~p.readable
    BY <1>1, <2>1, <2>2 DEF ImageInv, Roomy
  <2>3. CASE p.readable
    <3>1. EnvParas \in 1..(Word - 1) /\ ParasAskedFor(p) \in 1..(Word - 1)
      BY AskedInRange, DosAssumption DEF NoRequestWraps
    <3>2. Sound(e.blocks)
      BY <1>1, <3>1, OutcomeGrants
    <3>3. PICK z \in ParasAskedFor(p)..(ParasAskedFor(p) + Slack) :
            GrantedIn(m.blocks) = GrantedIn(e.blocks) \cup {[start |-> m.seg, size |-> z]}
      BY <3>1, <3>2, OutcomeGrants
    <3>4. ParasAskedFor(p) >= ParasRequired(p) /\ ParasRequired(p) \in Int
      <4>1. p.size \in Int /\ p.header \in Int /\ p.minExtra \in Int /\ PspParas \in Int
        BY DosAssumption, ArenaAssumption DEF ProgramFile
      <4>2. QED BY <4>1, AskedIsEnough DEF ParasRequired, Paragraph
    <3>5. z >= ParasRequired(p)
      BY <3>1, <3>3, <3>4, ArenaAssumption
    <3> DEFINE g == [start |-> m.seg, size |-> z]
    <3>6. g \in Granted' /\ g.start = m.seg /\ g.size = z
      BY <2>1, <3>3 DEF Granted
    <3> HIDE DEF g
    <3>7. psp' = m.seg /\ loaded' = {p} /\ phase' = "run"
      BY <2>1, <2>3
    <3>8. QED BY <3>5, <3>6, <3>7 DEF ImageInv, Roomy
  <2>4. QED BY <2>2, <2>3
<1>5. QED BY <1>2, <1>3, <1>4 DEF InitializeProcess

(* The services lend and take back, but leave what is not freed alone.     *)
LEMMA OwnStaysLent ==
  ASSUME NoRequestWraps, Sound(blocks), phase = "run", DosNext
  PROVE  /\ phase' \in {"run", "exit"} /\ psp' = psp /\ loaded' = loaded /\ own' \subseteq own
         /\ \A g \in Granted : g.start \in own' => g \in Granted'
<1> DEFINE Kept ==
      /\ phase' \in {"run", "exit"} /\ psp' = psp /\ loaded' = loaded /\ own' \subseteq own
      /\ \A g \in Granted : g.start \in own' => g \in Granted'
<1>1. ASSUME NEW p \in Programs, InitializeProcess(p) PROVE Kept
  BY <1>1 DEF InitializeProcess
<1>2. ASSUME NEW bx \in BxValues, Int21Allocate(bx) PROVE Kept
  <2>1. Granted \subseteq Granted'
    <3>1. CASE UNCHANGED blocks
      BY <3>1 DEF Granted
    <3>2. ASSUME NEW a \in Outcomes(blocks, WithMcb(bx)), blocks' = a.blocks
          PROVE  Granted \subseteq Granted'
      <4>1. WithMcb(bx) \in 1..(Word - 1)
        <5>1. bx \in 0..(Word - 2) /\ Word \in Nat
          BY DosAssumption, ArenaAssumption DEF NoRequestWraps
        <5>2. (bx + 1) % Word = bx + 1
          BY <5>1
        <5>3. QED BY <5>1, <5>2 DEF WithMcb
      <4>2. \E z \in WithMcb(bx)..(WithMcb(bx) + Slack) :
              GrantedIn(a.blocks) = GrantedIn(blocks) \cup {[start |-> a.seg, size |-> z]}
        BY <4>1, OutcomeGrants
      <4>3. QED BY <3>2, <4>2 DEF Granted
    <3>3. QED BY <1>2, <3>1, <3>2 DEF Int21Allocate
  <2>2. QED BY <1>2, <2>1 DEF Int21Allocate, Running
<1>3. ASSUME NEW bx \in FreeBx, Int21Free(bx) PROVE Kept
  <2> DEFINE s == (bx - 1) % Word
  <2>1. CASE UNCHANGED <<blocks, own>>
    BY <1>3, <2>1 DEF Int21Free, Running, Granted
  <2>2. ASSUME NEW i \in DOMAIN blocks, Frees(blocks, s, i), blocks' = FreeAt(blocks, i),
               own' = own \ {s}
        PROVE  Kept
    <3>1. PICK g \in Granted : g.start = s /\ Granted' = Granted \ {g}
      BY <2>2, FreeTakesBack DEF Granted
    <3>2. QED BY <1>3, <2>2, <3>1 DEF Int21Free, Running
  <2>3. QED BY <1>3, <2>1, <2>2 DEF Int21Free
<1>4. ASSUME NEW bx \in 0..2, Int21SetStrategy(bx) PROVE Kept
  BY <1>4 DEF Int21SetStrategy, Running, Granted
<1>5. CASE Int21SetHandleCount \/ Terminate \/ Compute
  BY <1>5 DEF Int21SetHandleCount, Terminate, Compute, Running, Granted
<1>6. QED BY <1>1, <1>2, <1>3, <1>4, <1>5 DEF DosNext

LEMMA ImageStep ==
  ASSUME NoRequestWraps, FilesAreSmall, DosInv, ImageInv, [DosNext]_dosVars
  PROVE  ImageInv'
<1>1. ASSUME NEW p \in Programs, InitializeProcess(p) PROVE ImageInv'
  BY <1>1, LoadIsRoomy
<1>2. CASE phase = "run" /\ DosNext
  <2>1. Sound(blocks)
    BY DEF DosInv
  <2>2. QED BY <1>2, <2>1, OwnStaysLent DEF ImageInv, Roomy
<1>3. CASE UNCHANGED dosVars
  BY <1>3 DEF dosVars, ImageInv, Roomy, Granted
<1>4. QED
  BY <1>1, <1>2, <1>3 DEF DosNext, Running, Int21Allocate, Int21Free, Int21SetStrategy,
                          Int21SetHandleCount, Terminate, Compute

(* The bytes of memory_needed(), handed to allocate() as paragraphs, are   *)
(* enough for PSP, image and extra paragraphs, and the block stays that    *)
(* large until the program frees it (dos.cpp 31-108, exe.h 42-43).         *)
THEOREM ProgramsFit ==
  ASSUME NoRequestWraps, FilesAreSmall
  PROVE  DosSpec => []ImageFits
<1>1. DosInit => DosInv /\ ImageInv
  BY InitDosInv DEF DosInit, ImageInv, Roomy
<1>2. (DosInv /\ ImageInv) /\ [DosNext]_dosVars => (DosInv /\ ImageInv)'
  BY DosStep, ImageStep
<1>3. DosInv /\ ImageInv => ImageFits
  <2> SUFFICES ASSUME DosInv, ImageInv, NEW p \in loaded, psp \in own
               PROVE  \E b \in ToSet(blocks) :
                        b.start = psp /\ b.avail = "used" /\ b.size >= ParasRequired(p)
    BY DEF ImageFits
  <2>1. PICK g \in GrantedIn(blocks) : g.start = psp /\ g.size >= ParasRequired(p)
    BY DEF ImageInv, Roomy, Granted
  <2>2. PICK b \in ToSet(blocks) : b.avail = "used" /\ b.start = g.start /\ b.size = g.size
    BY GrantedStarts DEF DosInv
  <2>3. QED BY <2>1, <2>2
<1>4. QED BY <1>1, <1>2, <1>3, PTL DEF DosSpec
-------------------------------------------------------------------------------
(* Loading step by step is the one step of Dos.                            *)

Fresh == <<MakeBlock(StartSeg, EndSeg - StartSeg, "free")>>

(* How far loading has come: what has been taken, of what there was.       *)
HeaderRead == file.kind = "exe" => file.intact
EnvTaken(e) == e \in Outcomes(Fresh, EnvParas) /\ eseg = e.seg
ProgramTaken(e, m) ==
  /\ m \in Outcomes(e.blocks, ParasAskedFor(ProgramOf(file))) /\ pspSeg = m.seg
  /\ blocks = m.blocks /\ own = {e.seg, m.seg}
LoadInv ==
  /\ file \in Files
  /\ phase = "load" =>
       \/ at = "start" /\ blocks = Fresh /\ own = {}
       \/ /\ at \in {"header", "memory"} /\ (at = "memory" => HeaderRead)
          /\ \E e \in Outcomes(Fresh, EnvParas) : eseg = e.seg /\ blocks = e.blocks /\ own = {e.seg}
       \/ /\ at \in {"image", "fixups", "registers", "psp"} /\ HeaderRead
          /\ at = "fixups" => file.opens
          /\ at = "registers" => file.kind = "exe"
          /\ at = "psp" => ProgramOf(file).readable
          /\ \E e : EnvTaken(e) /\ \E m : ProgramTaken(e, m)

LEMMA SameOutcomes ==
  ASSUME NEW bs, NEW n
  PROVE  /\ D!Outcomes(bs, n) = Outcomes(bs, n)
         /\ D!NoFit(bs, n) <=> NoFit(bs, n)
BY DEF D!Outcomes, Outcomes, D!NoFit, NoFit, D!Fits, Fits, D!Picks, Picks, D!AllocateAt,
       AllocateAt, D!SegmentAt, SegmentAt, D!SplitAt, SplitAt, D!InsertAt, InsertAt,
       D!MakeBlock, MakeBlock, D!End, End

LEMMA SameAsked ==
  ASSUME NEW p
  PROVE  D!ParasAskedFor(p) = ParasAskedFor(p)
BY DEF D!ParasAskedFor, ParasAskedFor, D!MemoryNeeded, MemoryNeeded, D!Paragraph, Paragraph

LEMMA LoadStarts == LoaderInit => LoadInv /\ D!DosInit
BY DEF LoaderInit, LoadInv, DosInit, Init, D!DosInit, D!Init, Fresh, D!MakeBlock, MakeBlock,
       NoSeg, D!NoSeg

LEMMA LoadAdvances ==
  ASSUME LoadInv, [LoaderNext]_<<dosVars, loaderVars>>
  PROVE  LoadInv'
<1>1. CASE TakeEnvironment
  <2>1. CASE phase' # "load"
    BY <1>1, <2>1 DEF TakeEnvironment, LoadInv
  <2>2. CASE phase' = "load"
    <3>1. at = "start" /\ at' = "header" /\ phase = "load" /\ blocks = Fresh
      BY <1>1, <2>2 DEF TakeEnvironment, LoadInv, Fails, Steps
    <3>2. PICK e \in Outcomes(Fresh, EnvParas) :
            eseg' = e.seg /\ blocks' = e.blocks /\ own' = {e.seg}
      BY <1>1, <2>2, <3>1 DEF TakeEnvironment, Fails, Steps
    <3>3. fit' = fit /\ file' = file
      BY <1>1 DEF TakeEnvironment
    <3>4. e \in Outcomes(Fresh, EnvParas)'
      BY <3>2, <3>3 DEF Outcomes, Fresh, Picks, AllocateAt, SegmentAt
    <3>5. QED BY <3>1, <3>2, <3>3, <3>4 DEF LoadInv
  <2>3. QED BY <2>1, <2>2
<1>2. CASE ReadHeader
  <2>1. CASE phase' # "load"
    BY <1>2, <2>1 DEF ReadHeader, LoadInv
  <2>2. CASE phase' = "load"
    <3>1. at = "header" /\ at' = "memory" /\ phase = "load" /\ HeaderRead
      BY <1>2, <2>2 DEF ReadHeader, Fails, Steps, HeaderRead
    <3>2. PICK e \in Outcomes(Fresh, EnvParas) : eseg = e.seg /\ blocks = e.blocks /\ own = {e.seg}
      BY <3>1 DEF LoadInv
    <3>3. UNCHANGED <<fit, file, eseg, blocks, own>>
      BY <1>2, <2>2 DEF ReadHeader, Fails, Steps
    <3>4. e \in Outcomes(Fresh, EnvParas)' /\ HeaderRead'
      BY <3>1, <3>2, <3>3 DEF Outcomes, Fresh, Picks, AllocateAt, SegmentAt, HeaderRead
    <3>5. QED BY <3>1, <3>2, <3>3, <3>4 DEF LoadInv
  <2>3. QED BY <2>1, <2>2
<1>3. CASE TakeMemory
  <2>1. CASE phase' # "load"
    BY <1>3, <2>1 DEF TakeMemory, LoadInv
  <2>2. CASE phase' = "load"
    <3>1. at = "memory" /\ at' = "image" /\ phase = "load"
      BY <1>3, <2>2 DEF TakeMemory, Fails, Steps
    <3>2. PICK e \in Outcomes(Fresh, EnvParas) : eseg = e.seg /\ blocks = e.blocks /\ own = {e.seg}
      BY <3>1 DEF LoadInv
    <3>3. PICK m \in Outcomes(blocks, ParasAskedFor(ProgramOf(file))) :
             blocks' = m.blocks /\ own' = own \cup {m.seg} /\ pspSeg' = m.seg
      BY <1>3, <2>2 DEF TakeMemory, Fails, Steps
    <3>4. UNCHANGED <<fit, file, eseg>>
      BY <1>3, <2>2, <3>1 DEF TakeMemory, Fails, Steps
    <3>5. EnvTaken(e)'
      BY <3>2, <3>4 DEF EnvTaken, Outcomes, Fresh, Picks, AllocateAt, SegmentAt
    <3>6. ProgramTaken(e, m)'
      <4>1. m \in Outcomes(e.blocks, ParasAskedFor(ProgramOf(file)))'
        BY <3>2, <3>3, <3>4 DEF Outcomes, Picks, AllocateAt, SegmentAt
      <4>2. own' = {e.seg, m.seg}
        BY <3>2, <3>3
      <4>3. QED BY <3>3, <4>1, <4>2 DEF ProgramTaken
    <3>7. HeaderRead /\ HeaderRead'
      BY <3>1, <3>4 DEF LoadInv, HeaderRead
    <3>8. QED BY <3>1, <3>4, <3>5, <3>6, <3>7 DEF LoadInv
  <2>3. QED BY <2>1, <2>2
<1>4. ASSUME phase = "load", at \in {"image", "fixups", "registers", "psp"},
             UNCHANGED <<blocks, fit, own, file, eseg, pspSeg>>
      PROVE  \E e : EnvTaken(e)' /\ \E m : ProgramTaken(e, m)'
  <2>1. PICK e : EnvTaken(e) /\ \E m : ProgramTaken(e, m)
    BY <1>4 DEF LoadInv
  <2>2. PICK m : ProgramTaken(e, m)
    BY <2>1
  <2>3. EnvTaken(e)'
    BY <1>4, <2>1 DEF EnvTaken, Outcomes, Fresh, Picks, AllocateAt, SegmentAt
  <2>4. ProgramTaken(e, m)'
    BY <1>4, <2>2 DEF ProgramTaken, Outcomes, Picks, AllocateAt, SegmentAt
  <2>5. QED BY <2>3, <2>4
<1>5. CASE LoadImage
  <2>1. UNCHANGED <<blocks, fit, own, file, eseg, pspSeg>> /\ phase = "load" /\ at = "image"
    BY <1>5 DEF LoadImage, Steps
  <2>2. HeaderRead /\ HeaderRead'
    BY <2>1 DEF LoadInv, HeaderRead
  <2>3. \/ phase' # "load"
        \/ at' = "fixups" /\ file.opens
        \/ at' = "registers" /\ file.kind = "exe"
    BY <1>5, <2>1 DEF LoadImage, Steps
  <2>4. QED BY <1>4, <2>1, <2>2, <2>3 DEF LoadInv
<1>6. CASE Relocate
  <2>1. /\ UNCHANGED <<blocks, fit, own, file, eseg, pspSeg>> /\ phase = "load"
        /\ at = "fixups" /\ at' = "fixups"
    BY <1>6 DEF Relocate, Steps
  <2>2. QED BY <1>4, <2>1 DEF LoadInv, HeaderRead
<1>7. CASE SetRegisters
  <2>1. /\ UNCHANGED <<blocks, fit, own, file, eseg, pspSeg>> /\ phase = "load"
        /\ at \in {"fixups", "registers"} /\ at' = "psp"
    BY <1>7 DEF SetRegisters, Steps
  <2>2. ProgramOf(file).readable /\ ProgramOf(file)'.readable
    <3>1. file \in File
      BY FilesAssumption DEF LoadInv, WellLinked
    <3>2. QED BY <2>1, <3>1 DEF LoadInv, HeaderRead, ProgramOf, File
  <2>3. QED BY <1>4, <2>1, <2>2 DEF LoadInv, HeaderRead
<1>8. CASE MakePsp \/ RunProgram
  <2>1. phase' # "load" /\ file' = file
    BY <1>8 DEF MakePsp, RunProgram, loaderVars, DosNext, InitializeProcess, NoEnvironment, NoImage,
                Loaded, Int21Allocate, Int21Free, Int21SetStrategy, Int21SetHandleCount,
                Terminate, Compute
  <2>2. QED BY <2>1 DEF LoadInv
<1>9. CASE UNCHANGED <<dosVars, loaderVars>>
  <2>1. UNCHANGED <<blocks, fit, phase, own, at, file, eseg, pspSeg>>
    BY <1>9 DEF dosVars, loaderVars
  <2>2. CASE phase = "load" /\ at \in {"image", "fixups", "registers", "psp"}
    BY <1>4, <2>1, <2>2 DEF LoadInv, HeaderRead, ProgramOf
  <2>3. CASE phase = "load" /\ at \in {"header", "memory"}
    <3>1. PICK e \in Outcomes(Fresh, EnvParas) : eseg = e.seg /\ blocks = e.blocks /\ own = {e.seg}
      BY <2>3 DEF LoadInv
    <3>2. e \in Outcomes(Fresh, EnvParas)'
      BY <2>1, <3>1 DEF Outcomes, Fresh, Picks, AllocateAt, SegmentAt
    <3>3. QED BY <2>1, <2>3, <3>1, <3>2 DEF LoadInv, HeaderRead
  <2>4. QED BY <2>1, <2>2, <2>3 DEF LoadInv, Fresh, MakeBlock
<1>10. QED BY <1>1, <1>2, <1>3, <1>5, <1>6, <1>7, <1>8, <1>9 DEF LoaderNext

(* While the program runs nothing is hidden, and Dos's own steps are its   *)
(* steps.                                                                  *)
LEMMA RunIsRun ==
  ASSUME phase = "run", DosNext
  PROVE  D!DosNext
<1>1. phase' # "load" /\ (\A p \in Programs : ~InitializeProcess(p))
  BY DEF DosNext, InitializeProcess, NoEnvironment, NoImage, Loaded, Int21Allocate, Int21Free,
         Int21SetStrategy, Int21SetHandleCount, Terminate, Compute
<1>2. D!Running <=> Running
  BY DEF D!Running, Running, D!NoSeg, NoSeg
<1>3. ASSUME NEW bx \in BxValues, Int21Allocate(bx) PROVE D!Int21Allocate(bx)
  <2>1. D!WithMcb(bx) = WithMcb(bx)
    BY DEF D!WithMcb, WithMcb
  <2>2. QED
    BY <1>1, <1>2, <1>3, <2>1, SameOutcomes DEF D!Int21Allocate, Int21Allocate
<1>4. ASSUME NEW bx \in FreeBx, Int21Free(bx) PROVE bx \in D!FreeBx /\ D!Int21Free(bx)
  <2>1. bx \in D!FreeBx
    BY DEF D!FreeBx, FreeBx, D!ToSet, ToSet
  <2>2. D!Int21Free(bx)
    BY <1>1, <1>2, <1>4 DEF D!Int21Free, Int21Free, D!NotAllocated, NotAllocated, D!Frees, Frees,
                            D!FreeAt, FreeAt
  <2>3. QED BY <2>1, <2>2
<1>5. ASSUME NEW bx \in 0..2, Int21SetStrategy(bx) PROVE D!Int21SetStrategy(bx)
  BY <1>1, <1>2, <1>5 DEF D!Int21SetStrategy, Int21SetStrategy
<1>6. CASE Int21SetHandleCount
  BY <1>1, <1>2, <1>6 DEF D!Int21SetHandleCount, Int21SetHandleCount, D!DosNext
<1>7. CASE Terminate
  BY <1>1, <1>2, <1>7 DEF D!Terminate, Terminate, D!DosNext
<1>8. CASE Compute
  BY <1>1, <1>2, <1>8 DEF D!Compute, Compute, D!DosNext
<1>9. QED BY <1>1, <1>3, <1>4, <1>5, <1>6, <1>7, <1>8 DEF DosNext, D!DosNext

(* A return of initialize_process() is InitializeProcess of Dos, whatever  *)
(* came before; until then nothing is seen.                                *)
LEMMA LoadIsOneStep ==
  ASSUME LoadInv, [LoaderNext]_<<dosVars, loaderVars>>
  PROVE  [D!DosNext]_(D!dosVars)
<1> DEFINE p == ProgramOf(file)
<1>1. p \in Programs /\ p.kind = file.kind /\ file.kind \in {"com", "exe"}
      /\ file.intact \in BOOLEAN /\ file.opens \in BOOLEAN
      /\ (p.readable <=> IF file.kind = "exe" THEN file.intact ELSE file.opens)
  <2>1. file \in File
    BY FilesAssumption DEF LoadInv, WellLinked
  <2>2. QED BY <2>1, FilesAssumption DEF LoadInv, ProgramOf, File
<1> HIDE DEF p
<1>2. ASSUME phase = "load", phase' = "load", UNCHANGED <<fit, psp, answer, cf, held, loaded>>
      PROVE  UNCHANGED D!dosVars
  BY <1>2 DEF D!dosVars, D!MakeBlock, MakeBlock
<1>3. ASSUME phase = "load", phase' = "run", at \in {"start", "header", "memory"},
             Fails(at), UNCHANGED <<fit, answer, cf, held>>,
             at = "start" => NoFit(blocks, EnvParas),
             at = "header" => file.kind = "exe" /\ ~file.intact,
             at = "memory" => NoFit(blocks, ParasAskedFor(p))
      PROVE  D!DosNext
  <2>1. UNCHANGED <<blocks, psp, own, loaded>>
    BY <1>3 DEF Fails
  <2>2. CASE at = "start"
    <3>1. blocks = Fresh /\ own = {}
      BY <1>3, <2>2 DEF LoadInv
    <3>2. D!NoEnvironment
      BY <1>3, <2>1, <2>2, <3>1, SameOutcomes DEF D!NoEnvironment, Fresh
    <3>3. D!InitializeProcess(p)
      BY <1>3, <3>2 DEF D!InitializeProcess
    <3>4. QED BY <1>1, <3>3 DEF D!DosNext
  <2>3. CASE at \in {"header", "memory"}
    <3>1. PICK e \in Outcomes(Fresh, EnvParas) : eseg = e.seg /\ blocks = e.blocks /\ own = {e.seg}
      BY <1>3, <2>3 DEF LoadInv
    <3>2. at = "memory" => HeaderRead
      BY <1>3 DEF LoadInv
    <3>3. D!NoImage(e, p)
      BY <1>1, <1>3, <2>1, <2>3, <3>1, <3>2, SameOutcomes, SameAsked DEF D!NoImage, HeaderRead
    <3>4. e \in D!Outcomes(Fresh, EnvParas)
      BY <3>1, SameOutcomes
    <3>5. D!InitializeProcess(p)
      BY <1>3, <3>3, <3>4 DEF D!InitializeProcess, Fresh
    <3>6. QED BY <1>1, <3>5 DEF D!DosNext
  <2>4. QED BY <1>3, <2>2, <2>3
<1>4. ASSUME phase = "load", at \in {"image", "psp"}, HeaderRead, UNCHANGED <<blocks, own>>,
             UNCHANGED <<fit, answer, cf, held>>,
             IF p.readable THEN phase' = "run" /\ psp' = pspSeg /\ loaded' = {p}
                           ELSE phase' = "exit" /\ UNCHANGED <<psp, loaded>>
      PROVE  D!DosNext
  <2>1. PICK e : EnvTaken(e) /\ \E m : ProgramTaken(e, m)
    BY <1>4 DEF LoadInv
  <2>2. PICK m : ProgramTaken(e, m)
    BY <2>1
  <2>3. m \in Outcomes(e.blocks, ParasAskedFor(p)) /\ pspSeg = m.seg
        /\ blocks' = m.blocks /\ own' = {e.seg, m.seg} /\ phase' # "load"
    BY <1>4, <2>2 DEF ProgramTaken, p
  <2>4. D!Loaded(e, p)
    BY <1>1, <1>4, <2>3, SameOutcomes, SameAsked DEF D!Loaded, HeaderRead
  <2>5. e \in D!Outcomes(Fresh, EnvParas)
    BY <2>1, SameOutcomes DEF EnvTaken
  <2>6. D!InitializeProcess(p)
    BY <1>4, <2>4, <2>5 DEF D!InitializeProcess, Fresh
  <2>7. QED BY <1>1, <2>6 DEF D!DosNext
<1>5. CASE TakeEnvironment
  BY <1>2, <1>3, <1>5 DEF TakeEnvironment, Fails, Steps
<1>6. CASE ReadHeader
  BY <1>2, <1>3, <1>6 DEF ReadHeader, Fails, Steps
<1>7. CASE TakeMemory
  BY <1>2, <1>3, <1>7 DEF TakeMemory, Fails, Steps, p
<1>8. CASE LoadImage
  <2>1. CASE phase' = "load"
    BY <1>2, <1>8, <2>1 DEF LoadImage, Steps
  <2>2. CASE phase' # "load"
    BY <1>1, <1>4, <1>8, <2>2 DEF LoadImage, Steps, LoadInv
  <2>3. QED BY <2>1, <2>2
<1>9. CASE Relocate \/ SetRegisters
  BY <1>2, <1>9 DEF Relocate, SetRegisters, Steps
<1>10. CASE MakePsp
  <2>1. p.readable /\ HeaderRead
    BY <1>10 DEF MakePsp, Steps, LoadInv, p
  <2>2. QED BY <1>4, <1>10, <2>1 DEF MakePsp, Steps, p
<1>11. CASE RunProgram
  BY <1>11, RunIsRun DEF RunProgram
<1>12. CASE UNCHANGED <<dosVars, loaderVars>>
  BY <1>12 DEF dosVars, D!dosVars, D!MakeBlock, MakeBlock
<1>13. QED BY <1>5, <1>6, <1>7, <1>8, <1>9, <1>10, <1>11, <1>12 DEF LoaderNext

(* Every behaviour of the loader, all its failures included, is one of     *)
(* Dos, in which initialize_process() is a single step (dos.cpp 31-108).   *)
THEOREM LoaderImplementsDos == LoaderSpec => ImplementsDos
<1>1. LoaderSpec => []LoadInv
  BY LoadStarts, LoadAdvances, PTL DEF LoaderSpec
<1>2. QED
  BY <1>1, LoadStarts, LoadIsOneStep, PTL DEF LoaderSpec, ImplementsDos, D!DosSpec

-------------------------------------------------------------------------------
(* What loading writes.  LentInv: the accounts hold at every step of the   *)
(* load, too.                                                              *)
LentInv ==
  /\ Sound(blocks) /\ Types
  /\ HeldAreLent /\ HeldDistinct /\ LentAreKnown /\ OwnAreLent /\ OwnNotHeld
  /\ phase = "load" => held = {} /\ psp = NoSeg /\ loaded = {}

(* The program's block is lent out, as large as was asked for, from the    *)
(* moment it is taken until the program frees it.                          *)
Taken == {"image", "fixups", "registers", "psp"}
BlockInv ==
  /\ file \in Files /\ at \in {"start", "header", "memory", "end"} \cup Taken
  /\ phase = "load" /\ at = "start" => own = {}
  /\ pspSeg \in 0..(Word - 1) \cup {NoSeg}
  /\ at \in {"start", "header", "memory"} => pspSeg = NoSeg
  /\ phase = "load" /\ at \in Taken => pspSeg \in own
  /\ at \in {"header", "memory"} \cup Taken => eseg \in 0..(Word - 1)
  /\ pspSeg \in own =>
       \E g \in Granted : /\ g.start = pspSeg /\ g.size \in Nat /\ g.start + g.size <= EndSeg
                          /\ g.size >= ParasAskedFor(ProgramOf(file))

LEMMA TakeIsSound ==
  ASSUME LentInv, phase = "load", NEW n \in 1..(Word - 1), NEW m \in Outcomes(blocks, n),
         blocks' = m.blocks, own' = own \cup {m.seg},
         UNCHANGED <<fit, phase, psp, answer, cf, held, loaded>>
  PROVE  /\ LentInv' /\ m.seg \in 0..(Word - 1)
         /\ \E g \in Granted' : /\ g.start = m.seg /\ g.size \in Nat
                               /\ g.size >= n /\ g.start + g.size <= EndSeg
<1>1. PICK z \in n..(n + Slack) :
        /\ m.seg + z <= EndSeg
        /\ GrantedIn(m.blocks) = GrantedIn(blocks) \cup {[start |-> m.seg, size |-> z]}
  BY OutcomeGrants DEF LentInv
<1>2. Sound(m.blocks) /\ m.seg \in 0..(Word - 2)
  BY OutcomeGrants DEF LentInv
<1>3. m.seg \in 0..(Word - 1) /\ z >= n /\ z \in Nat
  BY <1>1, <1>2, ArenaAssumption
<1> DEFINE g == [start |-> m.seg, size |-> z]
<1>4. Granted' = Granted \cup {g} /\ g.start = m.seg /\ g.size = z
  BY <1>1 DEF Granted
<1> HIDE DEF g
<1>5. Sound(blocks)' /\ Types'
  BY <1>2, <1>3 DEF LentInv, Types
<1>6. LentInv'
  BY <1>4, <1>5 DEF LentInv, HeldAreLent, HeldDistinct, LentAreKnown, OwnAreLent, OwnNotHeld
<1>7. QED BY <1>1, <1>3, <1>4, <1>6

LEMMA LentStays ==
  ASSUME LentInv, UNCHANGED <<blocks, fit, held, own, answer, cf>>,
         phase' = phase \/ phase' \in {"run", "exit"},
         \/ UNCHANGED <<psp, loaded>>
         \/ phase' # "load" /\ psp' \in 0..(Word - 1) /\ loaded' \subseteq Programs
  PROVE  LentInv'
<1>1. Granted' = Granted
  BY DEF Granted
<1>2. Types'
  BY DEF LentInv, Types
<1>3. QED
  BY <1>1, <1>2 DEF LentInv, HeldAreLent, HeldDistinct, LentAreKnown, OwnAreLent, OwnNotHeld

LEMMA BlockStays ==
  ASSUME BlockInv, UNCHANGED <<blocks, own, file, eseg, pspSeg>>,
         phase' = phase \/ phase' \in {"run", "exit"},
         \/ at' = at
         \/ at = "header" /\ at' = "memory" /\ phase = "load"
         \/ at \in Taken /\ at' \in Taken /\ phase = "load"
         \/ at' = "end" /\ phase' # "load"
  PROVE  BlockInv'
<1>1. Granted' = Granted
  BY DEF Granted
<1>2. ParasAskedFor(ProgramOf(file))' = ParasAskedFor(ProgramOf(file))
  BY DEF ParasAskedFor, MemoryNeeded, ProgramOf, BinarySize, FileLength
<1>3. QED BY <1>1, <1>2 DEF BlockInv, Taken

LEMMA BlockStep ==
  ASSUME NoRequestWraps, LentInv, BlockInv, [LoaderNext]_<<dosVars, loaderVars>>
  PROVE  LentInv' /\ BlockInv'
<1>1. CASE TakeEnvironment
  <2>1. CASE phase' = "run" /\ at' = "end" /\ UNCHANGED <<blocks, own, psp, loaded, eseg, pspSeg>>
    BY <1>1, <2>1, LentStays, BlockStays DEF TakeEnvironment
  <2>2. ASSUME at = "start", at' = "header", phase = "load",
               UNCHANGED <<phase, psp, loaded, pspSeg>>, NEW e \in Outcomes(blocks, EnvParas),
               blocks' = e.blocks, own' = {e.seg}, eseg' = e.seg
        PROVE  LentInv' /\ BlockInv'
    <3>1. own = {} /\ own' = own \cup {e.seg} /\ pspSeg = NoSeg
      BY <2>2 DEF BlockInv
    <3>2. UNCHANGED <<fit, phase, psp, answer, cf, held, loaded, file>>
      BY <1>1, <2>2 DEF TakeEnvironment
    <3>3. LentInv' /\ e.seg \in 0..(Word - 1)
      BY <2>2, <3>1, <3>2, TakeIsSound, DosAssumption
    <3>4. pspSeg' \notin own'
      BY <2>2, <3>1, <3>3, ArenaAssumption DEF NoSeg
    <3>5. QED BY <2>2, <3>1, <3>2, <3>3, <3>4 DEF BlockInv, Taken
  <2>3. QED BY <1>1, <2>1, <2>2 DEF TakeEnvironment, Fails, Steps
<1>2. CASE ReadHeader
  BY <1>2, LentStays, BlockStays DEF ReadHeader, Fails, Steps
<1>3. CASE TakeMemory
  <2> DEFINE paras == ParasAskedFor(ProgramOf(file))
  <2>1. CASE phase' = "run" /\ at' = "end" /\ UNCHANGED <<blocks, own, psp, loaded, eseg, pspSeg>>
    BY <1>3, <2>1, LentStays, BlockStays DEF TakeMemory
  <2>2. ASSUME at = "memory", at' = "image", UNCHANGED <<phase, psp, loaded, eseg>>, phase = "load",
               NEW m \in Outcomes(blocks, paras),
               blocks' = m.blocks, own' = own \cup {m.seg}, pspSeg' = m.seg
        PROVE  LentInv' /\ BlockInv'
    <3>1. UNCHANGED <<fit, phase, psp, answer, cf, held, loaded, file>>
      BY <1>3, <2>2 DEF TakeMemory
    <3>2. ProgramOf(file) \in Programs
      BY FilesAssumption DEF BlockInv
    <3>3. paras \in 1..(Word - 1)
      BY <3>2, AskedInRange DEF NoRequestWraps
    <3>4. paras' = paras
      BY <3>1 DEF ParasAskedFor, MemoryNeeded, ProgramOf, BinarySize, FileLength
    <3> HIDE DEF paras
    <3>5. /\ LentInv' /\ m.seg \in 0..(Word - 1)
          /\ \E g \in Granted' : /\ g.start = m.seg /\ g.size \in Nat
                                /\ g.size >= paras /\ g.start + g.size <= EndSeg
      BY <2>2, <3>1, <3>3, TakeIsSound
    <3>6. QED BY <2>2, <3>1, <3>4, <3>5 DEF BlockInv, Taken, paras
  <2>3. QED BY <1>3, <2>1, <2>2 DEF TakeMemory, Fails, Steps
<1>4. CASE LoadImage \/ Relocate \/ SetRegisters
  <2>1. /\ UNCHANGED <<blocks, fit, held, own, answer, cf, psp, loaded, file, eseg, pspSeg>>
        /\ phase = "load" /\ at \in Taken /\ phase' \in {phase, "exit"}
        /\ at' \in Taken \/ (at' = "end" /\ phase' # "load")
    BY <1>4 DEF LoadImage, Relocate, SetRegisters, Steps, Taken
  <2>2. QED BY <2>1, LentStays, BlockStays
<1>5. CASE MakePsp
  <2>1. /\ UNCHANGED <<blocks, fit, held, own, answer, cf, file, eseg, pspSeg>>
        /\ phase = "load" /\ at \in Taken /\ at' = "end" /\ phase' = "run" /\ psp' = pspSeg
        /\ loaded' = {ProgramOf(file)}
    BY <1>5 DEF MakePsp, Steps, Taken
  <2>2. pspSeg \in own /\ own \subseteq 0..(Word - 1) /\ ProgramOf(file) \in Programs
    BY <2>1, FilesAssumption DEF BlockInv, LentInv, Types
  <2>3. LentInv'
    BY <2>1, <2>2, LentStays
  <2>4. QED BY <2>1, <2>3, BlockStays
<1>6. CASE RunProgram
  <2>1. phase = "run" /\ DosNext /\ UNCHANGED <<at, file, eseg, pspSeg>> /\ DosInv
    BY <1>6 DEF RunProgram, loaderVars, LentInv, DosInv
  <2>2. DosInv' /\ Sound(blocks)
    BY <2>1, DosStep DEF DosInv
  <2>3. /\ phase' \in {"run", "exit"} /\ own' \subseteq own
        /\ \A g \in Granted : g.start \in own' => g \in Granted'
    BY <2>1, <2>2, OwnStaysLent
  <2>4. ParasAskedFor(ProgramOf(file))' = ParasAskedFor(ProgramOf(file))
    BY <2>1 DEF ParasAskedFor, MemoryNeeded, ProgramOf, BinarySize, FileLength
  <2>5. BlockInv'
    BY <2>1, <2>3, <2>4 DEF BlockInv
  <2>6. QED BY <2>2, <2>3, <2>5 DEF DosInv, LentInv
<1>7. CASE UNCHANGED <<dosVars, loaderVars>>
  BY <1>7, LentStays, BlockStays DEF dosVars, loaderVars
<1>8. QED BY <1>1, <1>2, <1>3, <1>4, <1>5, <1>6, <1>7 DEF LoaderNext

LEMMA NothingWraps ==
  ASSUME FilesAreSmall, LentInv, BlockInv, pspSeg \in own
  PROVE  /\ pspSeg \in Nat /\ ImageSeg(pspSeg) = pspSeg + PspParas
         /\ \E g \in Granted : /\ g.start = pspSeg /\ g.size \in Nat
                               /\ g.size >= ParasRequired(ProgramOf(file))
<1>1. PICK g \in Granted : /\ g.start = pspSeg /\ g.size \in Nat /\ g.start + g.size <= EndSeg
                           /\ g.size >= ParasAskedFor(ProgramOf(file))
  BY DEF BlockInv
<1> DEFINE p == ProgramOf(file)
<1>2. p \in Programs
  BY FilesAssumption DEF BlockInv
<1>3. /\ p.size \in Nat /\ p.header \in Nat /\ p.minExtra \in Nat /\ p.header <= p.size
      /\ p.kind \in {"com", "exe"}
  BY <1>2, DosAssumption, ArenaAssumption DEF ProgramFile, FilesAreSmall
<1>4. ParasAskedFor(p) >= ParasRequired(p) /\ ParasAskedFor(p) \in Int
  <2>1. MemoryNeeded(p) \in Int
    BY <1>3, DosAssumption, ArenaAssumption DEF MemoryNeeded, Paragraph
  <2>2. (MemoryNeeded(p) + 1) % Word \in Int
    BY <2>1, ArenaAssumption
  <2>3. QED BY <1>2, <2>2, AskedIsEnough, DosAssumption, ArenaAssumption DEF ParasAskedFor
<1>5. ParasRequired(p) \in Int /\ ParasRequired(p) >= PspParas
  <2>1. (p.size - p.header + 15) \div 16 \in Nat
    BY <1>3
  <2>2. QED BY <1>3, <2>1, DosAssumption DEF ParasRequired, Paragraph
<1> HIDE DEF p
<1>6. pspSeg \in Nat /\ g.size >= ParasRequired(p) /\ pspSeg + PspParas < Word
  <2>1. pspSeg \in Nat
    BY ArenaAssumption DEF LentInv, Types
  <2>2. ParasAskedFor(p) \in Int /\ g.size >= ParasAskedFor(p)
    BY <1>1, <1>4 DEF p
  <2>3. QED BY <1>1, <1>4, <1>5, <2>1, <2>2, DosAssumption, ArenaAssumption
<1>7. (pspSeg + PspParas) % Word = pspSeg + PspParas
  BY <1>6, DosAssumption, ArenaAssumption
<1>8. QED BY <1>1, <1>6, <1>7 DEF ImageSeg, p

(* Nothing is written but PSP and image, one behind the other.             *)
WriteInv ==
  /\ done \in Nat
  /\ at \in {"start", "header", "memory", "image"} => DOMAIN memory = {}
  /\ DOMAIN memory \subseteq
       (pspSeg * Paragraph)..((pspSeg + PspParas) * Paragraph + Len(file.bytes) - 1)
  /\ at = "psp" => regs = Registers(file, pspSeg)

LEMMA AllStored ==
  ASSUME NEW m, NEW new
  PROVE  /\ DOMAIN Stored(m, new) = DOMAIN m \cup DOMAIN new
         /\ \A x \in DOMAIN new : Stored(m, new)[x] = new[x]
         /\ \A x \in DOMAIN m \ DOMAIN new : Stored(m, new)[x] = m[x]
BY DEF Stored

LEMMA WriteStep ==
  ASSUME FilesAreSmall, LentInv, BlockInv, WriteInv, [LoaderNext]_<<dosVars, loaderVars>>
  PROVE  WriteInv'
<1>1. file \in File /\ file.bytes \in Seq(0..(Bytes - 1)) /\ file.relocs \in Seq(Reloc)
      /\ WellLinked(file)
  BY FilesAssumption DEF BlockInv, WellLinked, File
<1>2. Len(file.bytes) \in Nat /\ PspParas \in Nat
  BY <1>1, DosAssumption
<1>3. CASE TakeEnvironment
  BY <1>3 DEF TakeEnvironment, Fails, Steps, WriteInv
<1>4. CASE ReadHeader
  BY <1>4 DEF ReadHeader, Fails, Steps, WriteInv
<1>5. CASE TakeMemory
  BY <1>5 DEF TakeMemory, Fails, Steps, WriteInv
<1>6. ASSUME phase = "load", at \in Taken
      PROVE  pspSeg \in Nat /\ ImageSeg(pspSeg) = pspSeg + PspParas
  BY <1>6, NothingWraps DEF BlockInv
<1>7. CASE LoadImage
  <2>1. phase = "load" /\ at = "image" /\ UNCHANGED <<file, pspSeg, regs, done>> /\ at' # "psp"
        /\ at' \notin {"start", "header", "memory", "image"}
    BY <1>7 DEF LoadImage, Steps
  <2>2. CASE UNCHANGED memory
    BY <2>1, <2>2 DEF WriteInv
  <2>3. CASE memory' = Stored(memory, Image(file, ImageSeg(pspSeg) * Paragraph))
    <3>1. DOMAIN Image(file, ImageSeg(pspSeg) * Paragraph)
            = (ImageSeg(pspSeg) * Paragraph)..(ImageSeg(pspSeg) * Paragraph + Len(file.bytes) - 1)
      BY DEF Image
    <3>2. DOMAIN memory' = DOMAIN Image(file, ImageSeg(pspSeg) * Paragraph) \cup DOMAIN memory
      BY <2>3, AllStored
    <3>3. QED BY <1>2, <1>6, <2>1, <3>1, <3>2 DEF WriteInv, Paragraph, Taken
  <2>4. QED BY <1>7, <2>2, <2>3 DEF LoadImage
<1>8. CASE Relocate
  <2>1. phase = "load" /\ at = "fixups" /\ at' = "fixups" /\ UNCHANGED <<file, pspSeg, regs>>
        /\ memory' = Relocated(memory, file.relocs[done + 1], pspSeg) /\ done' = done + 1
    BY <1>8 DEF Relocate, Steps
  <2> DEFINE addr == ImageSeg(pspSeg) * Paragraph + Place(file.relocs[done + 1])
  <2> DEFINE new == AsBytes(addr, (WordAt(memory, addr) + ImageSeg(pspSeg)) % Word)
  <2>2. DOMAIN memory' = {addr, addr + 1} \cup DOMAIN memory
    <3>1. memory' = Stored(memory, new)
      BY <2>1 DEF Relocated
    <3>2. DOMAIN new = {addr, addr + 1}
      BY DEF AsBytes
    <3> HIDE DEF new, addr
    <3>3. DOMAIN Stored(memory, new) = DOMAIN memory \cup DOMAIN new
      BY AllStored
    <3>4. QED BY <3>1, <3>2, <3>3
  <2>3. addr \in Int /\ addr >= (pspSeg + PspParas) * Paragraph
        /\ addr + 1 < (pspSeg + PspParas) * Paragraph + Len(file.bytes)
    <3>1. done + 1 \in DOMAIN file.relocs
      BY <1>1, <1>8 DEF Relocate, WriteInv
    <3>2. Place(file.relocs[done + 1]) \in Nat
          /\ Place(file.relocs[done + 1]) + 1 < Len(file.bytes)
      <4>1. file.relocs[done + 1] \in Reloc
        BY <1>1, <3>1
      <4>2. file.relocs[done + 1].segment \in Nat /\ file.relocs[done + 1].offset \in Nat
        BY <4>1, ArenaAssumption DEF Reloc
      <4>3. QED BY <1>1, <3>1, <4>2 DEF WellLinked, Place, Paragraph
    <3>3. QED BY <1>2, <1>6, <2>1, <3>2 DEF Paragraph, Taken
  <2>4. QED BY <1>2, <1>6, <2>1, <2>2, <2>3 DEF WriteInv, Paragraph, Taken
<1>9. CASE SetRegisters
  BY <1>9 DEF SetRegisters, Steps, WriteInv
<1>10. CASE MakePsp
  <2>1. phase = "load" /\ at = "psp" /\ at' = "end" /\ UNCHANGED <<file, pspSeg, regs, done>>
        /\ memory' = Stored(memory, Psp(regs.ds, eseg))
    BY <1>10 DEF MakePsp, Steps
  <2>2. regs.ds = pspSeg
    BY <2>1 DEF WriteInv, Registers
  <2>3. DOMAIN Psp(pspSeg, eseg)
          = (pspSeg * Paragraph)..(pspSeg * Paragraph + PspParas * Paragraph - 1)
    BY DEF Psp
  <2>4. DOMAIN memory' = DOMAIN memory \cup DOMAIN Psp(pspSeg, eseg)
    <3>1. memory' = Stored(memory, Psp(pspSeg, eseg))
      BY <2>1, <2>2
    <3>2. QED BY <3>1, AllStored
  <2>5. QED BY <1>2, <1>6, <2>1, <2>3, <2>4 DEF WriteInv, Paragraph, Taken
<1>11. CASE RunProgram \/ UNCHANGED <<dosVars, loaderVars>>
  BY <1>11 DEF RunProgram, loaderVars, WriteInv
<1>12. QED BY <1>3, <1>4, <1>5, <1>7, <1>8, <1>9, <1>10, <1>11 DEF LoaderNext

LEMMA LoaderStarts == LoaderInit => LentInv /\ BlockInv /\ WriteInv
<1> SUFFICES ASSUME LoaderInit PROVE LentInv /\ BlockInv /\ WriteInv
  OBVIOUS
<1>1. LentInv
  BY InitDosInv DEF LoaderInit, DosInit, LentInv, DosInv
<1>2. BlockInv
  BY <1>1 DEF LoaderInit, DosInit, BlockInv, Taken, LentInv
<1>3. WriteInv
  BY DEF LoaderInit, WriteInv
<1>4. QED BY <1>1, <1>2, <1>3

(* The block that is taken holds all that is written: PSP and image lie in *)
(* it one behind the other, and relocation stays in the image (exe.cpp     *)
(* 102-139, dos.cpp 58-104), for every file whose sums do not wrap and     *)
(* that ends with its image.                                               *)
THEOREM LoadStaysInItsBlock ==
  ASSUME NoRequestWraps, FilesAreSmall
  PROVE  LoaderSpec => []WritesInItsBlock
<1>1. LentInv /\ BlockInv /\ WriteInv => WritesInItsBlock
  <2> SUFFICES ASSUME LentInv, BlockInv, WriteInv, pspSeg \in own,
                      file.kind = "exe" => FileLength(file) = BinarySize(file)
               PROVE  \E b \in ToSet(blocks) :
                        /\ b.start = pspSeg /\ b.avail = "used"
                        /\ \A a \in DOMAIN memory :
                             a \in (b.start * Paragraph)..(End(b) * Paragraph - 1)
    BY DEF WritesInItsBlock
  <2> DEFINE p == ProgramOf(file)
             n == Len(file.bytes)
  <2>1. pspSeg \in Nat
    BY NothingWraps
  <2>2. PICK g \in Granted : g.start = pspSeg /\ g.size \in Nat /\ g.size >= ParasRequired(p)
    BY NothingWraps
  <2>3. PICK b \in ToSet(blocks) : b.avail = "used" /\ b.start = g.start /\ b.size = g.size
    BY <2>2, GrantedStarts DEF LentInv, Granted
  <2>4. n \in Nat /\ PspParas \in Nat /\ p.minExtra \in Nat /\ p.size - p.header = n
        /\ p.size \in Nat /\ p.header \in Nat
    <3>1. file \in File
      BY FilesAssumption DEF BlockInv, WellLinked
    <3>2. n \in Nat /\ file.minExtra \in Nat /\ file.headerParas \in Nat
          /\ file.kind \in {"com", "exe"}
      BY <3>1, ArenaAssumption DEF File
    <3>3. FileLength(file) = file.headerParas * Paragraph + n
      BY DEF FileLength
    <3>4. p.minExtra = file.minExtra /\ p.header = file.headerParas * Paragraph
          /\ p.size = FileLength(file)
      BY <3>2 DEF ProgramOf
    <3> HIDE DEF n, p
    <3>5. QED BY <3>2, <3>3, <3>4, DosAssumption DEF Paragraph
  <2>5. b.size * 16 >= PspParas * 16 + n
    <3> HIDE DEF n, p
    <3>1. (n + 15) \div 16 \in Nat /\ ((n + 15) \div 16) * 16 >= n
      BY <2>4
    <3>2. ParasRequired(p) = PspParas + ((n + 15) \div 16) + p.minExtra
      BY <2>4 DEF ParasRequired, Paragraph
    <3>3. QED BY <2>2, <2>3, <2>4, <3>1, <3>2
  <2>6. \A a \in DOMAIN memory : a \in (b.start * 16)..((b.start + b.size) * 16 - 1)
    <3>1. DOMAIN memory \subseteq (pspSeg * 16)..((pspSeg + PspParas) * 16 + n - 1)
      BY DEF WriteInv, Paragraph
    <3>2. b.start = pspSeg /\ b.size \in Nat
      BY <2>2, <2>3
    <3>3. n \in Nat /\ PspParas \in Nat
      BY <2>4
    <3> HIDE DEF n, p
    <3>4. (pspSeg + PspParas) * 16 + n - 1 <= (b.start + b.size) * 16 - 1
      BY <2>1, <2>5, <3>2, <3>3
    <3>5. QED BY <2>1, <3>1, <3>2, <3>3, <3>4
  <2>7. QED BY <2>2, <2>3, <2>6 DEF End, Paragraph
<1>2. QED BY <1>1, LoaderStarts, BlockStep, WriteStep, PTL DEF LoaderSpec

-------------------------------------------------------------------------------
(* What a program finds.  Linked(d): the first d relocations are made, and *)
(* the rest of the image is that of the file.                              *)
Base == (pspSeg + PspParas) * Paragraph
PlaceOf(k) == Place(file.relocs[k])
LinkedWord(o) == (file.bytes[o + 1] + Bytes * file.bytes[o + 2] + ImageSeg(pspSeg)) % Word
Linked(d) ==
  /\ \A k \in 1..d : WordAt(memory, Base + PlaceOf(k)) = LinkedWord(PlaceOf(k))
  /\ \A o \in 0..(Len(file.bytes) - 1) :
       (\A k \in 1..d : o # PlaceOf(k) /\ o # PlaceOf(k) + 1) =>
         Byte(memory, Base + o) = file.bytes[o + 1]

ContentInv ==
  file.opens /\ Apart(file) =>
    /\ at # "registers"
    /\ at \in {"start", "header", "memory", "image"} => done = 0
    /\ at = "fixups" => done \in 0..Len(file.relocs) /\ Linked(done)
    /\ at = "psp" => Linked(Len(file.relocs))
    /\ phase = "run" /\ psp # NoSeg =>
         /\ psp = pspSeg /\ pspSeg \in Nat /\ ImageSeg(pspSeg) = pspSeg + PspParas
         /\ Linked(Len(file.relocs)) /\ regs = Registers(file, pspSeg)
         /\ WordAt(memory, pspSeg * Paragraph + \h2C) = eseg

LEMMA ByteStored ==
  ASSUME NEW m, NEW new, NEW x
  PROVE  Byte(Stored(m, new), x) = IF x \in DOMAIN new THEN new[x] ELSE Byte(m, x)
BY DEF Byte, Stored

LEMMA WordStored ==
  ASSUME NEW m, NEW a \in Nat, NEW w \in Nat
  PROVE  /\ WordAt(Stored(m, AsBytes(a, w)), a) = w
         /\ \A x : x # a /\ x # a + 1 => Byte(Stored(m, AsBytes(a, w)), x) = Byte(m, x)
<1> DEFINE new == AsBytes(a, w)
<1>1. /\ DOMAIN new = {a, a + 1}
      /\ new[a] = w % Bytes /\ new[a + 1] = w \div Bytes
  BY DEF AsBytes
<1>2. w = Bytes * (w \div Bytes) + (w % Bytes)
  <2>1. Bytes \in Nat \ {0} /\ w \in Int
    BY DEF Bytes
  <2>2. QED BY <2>1, ModIs
<1>3. w \div Bytes \in Nat /\ w % Bytes \in Nat /\ Bytes \in Nat
  BY DEF Bytes
<1> HIDE DEF new
<1>4. Byte(Stored(m, new), a) = w % Bytes /\ Byte(Stored(m, new), a + 1) = w \div Bytes
  BY <1>1, ByteStored
<1>5. \A x : x # a /\ x # a + 1 => Byte(Stored(m, new), x) = Byte(m, x)
  BY <1>1, ByteStored
<1>6. WordAt(Stored(m, new), a) = w
  <2>1. WordAt(Stored(m, new), a) = (w % Bytes) + Bytes * (w \div Bytes)
    BY <1>4 DEF WordAt
  <2>2. Bytes * (w \div Bytes) \in Nat
    BY <1>3 DEF Bytes
  <2>3. QED BY <1>2, <1>3, <2>1, <2>2
<1>7. QED BY <1>5, <1>6 DEF new

(* What is written below the image leaves it as it is.                     *)
LEMMA LinkedStays ==
  ASSUME NEW d \in Nat, Linked(d), Base \in Nat, \A k \in 1..d : PlaceOf(k) \in Nat,
         UNCHANGED <<file, pspSeg>>, \A x \in Nat : x >= Base => Byte(memory', x) = Byte(memory, x)
  PROVE  Linked(d)'
<1>1. Base' = Base /\ (\A k : PlaceOf(k)' = PlaceOf(k)) /\ (\A o : LinkedWord(o)' = LinkedWord(o))
  BY DEF Base, PlaceOf, LinkedWord, ImageSeg, Place
<1>2. ASSUME NEW k \in 1..d
      PROVE  WordAt(memory', Base + PlaceOf(k)) = WordAt(memory, Base + PlaceOf(k))
  <2>1. Base + PlaceOf(k) \in Nat /\ Base + PlaceOf(k) >= Base
        /\ Base + PlaceOf(k) + 1 \in Nat /\ Base + PlaceOf(k) + 1 >= Base
    <3>1. PlaceOf(k) \in Nat
      OBVIOUS
    <3>2. QED BY <3>1
  <2>2. QED BY <2>1 DEF WordAt
<1>3. ASSUME NEW o \in 0..(Len(file.bytes) - 1)
      PROVE  Byte(memory', Base + o) = Byte(memory, Base + o)
  <2>1. o \in Nat
    OBVIOUS
  <2>2. QED BY <2>1
<1>4. (\A k \in 1..d : WordAt(memory, Base + PlaceOf(k)) = LinkedWord(PlaceOf(k)))'
  BY <1>1, <1>2 DEF Linked
<1>5. (\A o \in 0..(Len(file.bytes) - 1) :
         (\A k \in 1..d : o # PlaceOf(k) /\ o # PlaceOf(k) + 1) =>
           Byte(memory, Base + o) = file.bytes[o + 1])'
  BY <1>1, <1>3 DEF Linked
<1>6. QED BY <1>4, <1>5 DEF Linked

(* A copy puts each byte of the file in its place.                         *)
LEMMA CopyLinks ==
  ASSUME NEW a \in Nat, file.bytes \in Seq(0..(Bytes - 1)), Base = a, UNCHANGED <<file, pspSeg>>,
         memory' = Stored(memory, Image(file, a))
  PROVE  Linked(0)'
<1>1. Base' = a
  BY DEF Base
<1>2. ASSUME NEW o \in 0..(Len(file.bytes) - 1) PROVE Byte(memory', a + o) = file.bytes[o + 1]
  <2>1. o \in Nat /\ Len(file.bytes) \in Nat
    OBVIOUS
  <2>2. a + o \in DOMAIN Image(file, a) /\ Image(file, a)[a + o] = file.bytes[a + o - a + 1]
    BY <2>1 DEF Image
  <2>3. a + o - a + 1 = o + 1
    BY <2>1
  <2>4. Byte(memory', a + o) = Image(file, a)[a + o]
    BY <2>2, ByteStored
  <2>5. QED BY <2>2, <2>3, <2>4
<1>3. (\A o \in 0..(Len(file.bytes) - 1) : Byte(memory, Base + o) = file.bytes[o + 1])'
  BY <1>1, <1>2
<1>4. 1..0 = {}
  OBVIOUS
<1>5. QED BY <1>3, <1>4 DEF Linked

LEMMA PlaceIsNat == ASSUME NEW r \in Reloc PROVE Place(r) \in Nat
<1> DEFINE s == r.segment
           o == r.offset
<1>1. s \in Nat /\ o \in Nat
  BY ArenaAssumption DEF Reloc
<1>2. Place(r) = s * 16 + o
  BY DEF Place, Paragraph
<1> HIDE DEF s, o
<1>3. QED BY <1>1, <1>2

LEMMA BytesAreNat ==
  ASSUME NEW b \in Seq(0..(Bytes - 1)), NEW i \in 1..Len(b) PROVE b[i] \in 0..(Bytes - 1)
<1> DEFINE S == 0..(Bytes - 1)
<1>1. b \in Seq(S)
  OBVIOUS
<1> HIDE DEF S
<1>2. b[i] \in S
  BY <1>1
<1>3. QED BY <1>2 DEF S

(* A relocation moves its word, and no other.                              *)
LEMMA RelocationLinks ==
  ASSUME file \in File, WellLinked(file), Apart(file), pspSeg \in Nat,
         ImageSeg(pspSeg) = pspSeg + PspParas,
         NEW d \in Nat, d < Len(file.relocs), Linked(d), UNCHANGED <<file, pspSeg>>,
         memory' = Relocated(memory, file.relocs[d + 1], pspSeg)
  PROVE  Linked(d + 1)'
<1> DEFINE P == PlaceOf(d + 1)
           addr == Base + P
           w == (WordAt(memory, addr) + ImageSeg(pspSeg)) % Word
<1>1. /\ file.bytes \in Seq(0..(Bytes - 1)) /\ Len(file.bytes) \in Nat
      /\ DOMAIN file.relocs = 1..Len(file.relocs) /\ Len(file.relocs) \in Nat
      /\ Base \in Nat /\ PspParas \in Nat
  BY DosAssumption DEF File, Base, Paragraph
<1>2. ASSUME NEW k \in 1..(d + 1)
      PROVE  PlaceOf(k) \in Nat /\ PlaceOf(k) + 1 < Len(file.bytes) /\ k \in DOMAIN file.relocs
  <2>1. k \in DOMAIN file.relocs /\ file.relocs[k] \in Reloc
    BY <1>1 DEF File
  <2>3. PlaceOf(k) + 1 < Len(file.bytes)
    BY <2>1 DEF WellLinked, PlaceOf
  <2>4. PlaceOf(k) \in Nat
    BY <2>1, PlaceIsNat DEF PlaceOf
  <2>5. QED BY <2>1, <2>3, <2>4
<1>3. d + 1 \in 1..(d + 1) /\ P \in Nat /\ P + 1 < Len(file.bytes) /\ addr \in Nat
  <2>1. d + 1 \in 1..(d + 1)
    OBVIOUS
  <2>2. QED BY <1>1, <1>2, <2>1
<1>4. ASSUME NEW k \in 1..d
      PROVE  PlaceOf(k) + 1 < P \/ P + 1 < PlaceOf(k)
  <2>1. k \in 1..(d + 1) /\ k # d + 1
    OBVIOUS
  <2>2. QED BY <1>2, <1>3, <2>1 DEF Apart, PlaceOf
<1>5. WordAt(memory, addr) = file.bytes[P + 1] + Bytes * file.bytes[P + 2]
  <2>1. \A k \in 1..d : P # PlaceOf(k) /\ P # PlaceOf(k) + 1 /\ P + 1 # PlaceOf(k)
                        /\ P + 1 # PlaceOf(k) + 1
    <3>1. ASSUME NEW k \in 1..d
          PROVE  P # PlaceOf(k) /\ P # PlaceOf(k) + 1 /\ P + 1 # PlaceOf(k)
                 /\ P + 1 # PlaceOf(k) + 1
      <4>1. k \in 1..(d + 1)
        OBVIOUS
      <4>2. PlaceOf(k) \in Nat
        BY <1>2, <4>1
      <4> HIDE DEF P
      <4>3. QED BY <1>3, <1>4, <4>2
    <3>2. QED BY <3>1
  <2>2. P \in 0..(Len(file.bytes) - 1) /\ P + 1 \in 0..(Len(file.bytes) - 1)
    BY <1>1, <1>3
  <2>3. Byte(memory, Base + P) = file.bytes[P + 1]
    BY <2>1, <2>2 DEF Linked
  <2>4. Byte(memory, Base + (P + 1)) = file.bytes[(P + 1) + 1]
    BY <2>1, <2>2 DEF Linked
  <2>5. Base + (P + 1) = addr + 1 /\ (P + 1) + 1 = P + 2
    BY <1>1, <1>3
  <2>6. QED BY <2>3, <2>4, <2>5 DEF WordAt
<1>6. w = LinkedWord(P) /\ w \in Nat
  <2>1. w = LinkedWord(P)
    BY <1>5 DEF LinkedWord
  <2>2. file.bytes[P + 1] \in Int /\ file.bytes[P + 2] \in Int
    <3>1. P + 1 \in 1..Len(file.bytes) /\ P + 2 \in 1..Len(file.bytes)
      BY <1>1, <1>3
    <3>2. file.bytes[P + 1] \in 0..(Bytes - 1) /\ file.bytes[P + 2] \in 0..(Bytes - 1)
      BY <1>1, <3>1, BytesAreNat, Zenon
    <3> HIDE DEF P
    <3> DEFINE x == file.bytes[P + 1]
               y == file.bytes[P + 2]
    <3>3. x \in 0..(Bytes - 1) /\ y \in 0..(Bytes - 1)
      BY <3>2
    <3> HIDE DEF x, y
    <3>4. x \in Int /\ y \in Int
      BY <3>3 DEF Bytes
    <3>5. QED BY <3>4 DEF x, y
  <2>3. WordAt(memory, addr) + ImageSeg(pspSeg) \in Int
    <3> DEFINE x == file.bytes[P + 1]
               y == file.bytes[P + 2]
    <3>1. WordAt(memory, addr) = x + Bytes * y /\ x \in Int /\ y \in Int
      BY <1>5, <2>2
    <3> HIDE DEF x, y, addr
    <3>2. QED BY <1>1, <3>1 DEF Bytes
  <2>4. Word \in Nat \ {0}
    BY LoaderAssumption DEF Bytes
  <2> HIDE DEF addr
  <2>5. w \in 0..(Word - 1)
    BY <2>3, <2>4, ModIs
  <2>6. QED BY <2>1, <2>4, <2>5
<1>7. memory' = Stored(memory, AsBytes(addr, w))
  BY DEF Relocated, Base, PlaceOf
<1> HIDE DEF w
<1>8. /\ WordAt(memory', addr) = w
      /\ \A x : x # addr /\ x # addr + 1 => Byte(memory', x) = Byte(memory, x)
  <2> HIDE DEF addr
  <2>1. QED BY <1>3, <1>6, <1>7, WordStored
<1>9. Base' = Base /\ (\A k : PlaceOf(k)' = PlaceOf(k)) /\ (\A o : LinkedWord(o)' = LinkedWord(o))
  BY DEF Base, PlaceOf, LinkedWord, ImageSeg, Place
<1>10. ASSUME NEW k \in 1..(d + 1)
       PROVE  WordAt(memory', Base + PlaceOf(k)) = LinkedWord(PlaceOf(k))
  <2>1. CASE k = d + 1
    BY <1>6, <1>8, <2>1
  <2>2. CASE k # d + 1
    <3>1. k \in 1..d
      BY <2>2
    <3>2. PlaceOf(k) \in Nat
      BY <1>2
    <3>3. PlaceOf(k) + 1 < P \/ P + 1 < PlaceOf(k)
      BY <1>4, <3>1
    <3> DEFINE q == PlaceOf(k)
    <3>4. /\ Base + q # addr /\ Base + q # addr + 1
          /\ Base + q + 1 # addr /\ Base + q + 1 # addr + 1
      <4> HIDE DEF P, q
      <4>1. P \in Nat /\ q \in Nat /\ (q + 1 < P \/ P + 1 < q)
        BY <1>3, <3>2, <3>3 DEF q
      <4>2. QED BY <1>1, <4>1
    <3>5. WordAt(memory', Base + q) = WordAt(memory, Base + q)
      BY <1>8, <3>4 DEF WordAt
    <3>6. QED BY <3>1, <3>5 DEF Linked
  <2>3. QED BY <2>1, <2>2
<1>11. ASSUME NEW o \in 0..(Len(file.bytes) - 1),
              \A k \in 1..(d + 1) : o # PlaceOf(k) /\ o # PlaceOf(k) + 1
       PROVE  Byte(memory', Base + o) = file.bytes[o + 1]
  <2>1. \A k \in 1..d : k \in 1..(d + 1)
    OBVIOUS
  <2>2. Byte(memory, Base + o) = file.bytes[o + 1]
    BY <1>11, <2>1 DEF Linked
  <2>3. o # P /\ o # P + 1
    BY <1>3, <1>11
  <2>4. Base + o # addr /\ Base + o # addr + 1
    <3>1. o \in Int /\ Base \in Int /\ P \in Int
      BY <1>1, <1>3
    <3> HIDE DEF P
    <3>2. QED BY <2>3, <3>1
  <2>5. QED BY <1>8, <2>2, <2>4
<1>12. (\A k \in 1..(d + 1) : WordAt(memory, Base + PlaceOf(k)) = LinkedWord(PlaceOf(k)))'
  BY <1>9, <1>10
<1>13. (\A o \in 0..(Len(file.bytes) - 1) :
          (\A k \in 1..(d + 1) : o # PlaceOf(k) /\ o # PlaceOf(k) + 1) =>
            Byte(memory, Base + o) = file.bytes[o + 1])'
  BY <1>9, <1>11
<1>14. QED BY <1>12, <1>13 DEF Linked

LEMMA LinkedSame ==
  ASSUME NEW d, UNCHANGED <<memory, file, pspSeg>> PROVE Linked(d)' <=> Linked(d)
BY DEF Linked, LinkedWord, WordAt, Byte, Base, PlaceOf, Place, ImageSeg

(* The words of the PSP do not overlap: that of the environment is in it.  *)
LEMMA PspHolds ==
  ASSUME NEW s \in Nat, NEW e \in Nat, PspParas = 16
  PROVE  /\ DOMAIN Psp(s, e) = (s * Paragraph)..((s + PspParas) * Paragraph - 1)
         /\ \A m : WordAt(Stored(m, Psp(s, e)), s * Paragraph + \h2C) = e
<1> DEFINE base == s * Paragraph
           Of(w) == AsBytes(base + w[1], w[2])
           env == <<\h2C, e>>
           x == base + \h2C
           Owner(a) == CHOOSE w \in PspWords(e) : a \in DOMAIN Of(w)
<1>1. /\ base \in Nat /\ base = s * 16 /\ (s + PspParas) * Paragraph = base + 256
      /\ PspParas * Paragraph = 256 /\ x \in Nat /\ x = base + 44
  BY DEF Paragraph
<1>2. /\ DOMAIN Psp(s, e) = base..(base + PspParas * Paragraph - 1)
      /\ \A a \in DOMAIN Psp(s, e) :
           (\E w \in PspWords(e) : a \in DOMAIN Of(w)) => Psp(s, e)[a] = Of(Owner(a))[a]
  BY DEF Psp
<1>3. \A w : DOMAIN Of(w) = {base + w[1], base + w[1] + 1}
  BY DEF AsBytes
<1>4. env \in PspWords(e) /\ \A w \in PspWords(e) : w = env \/ w[1] \in {0, 2, 22, 64}
  BY DEF PspWords
<1>5. ASSUME NEW a \in {x, x + 1} PROVE Owner(a) = env /\ a \in DOMAIN Psp(s, e)
  <2>1. a \in DOMAIN Of(env)
    BY <1>1, <1>3
  <2>2. ASSUME NEW w \in PspWords(e), a \in DOMAIN Of(w) PROVE w = env
    <3>1. a = base + w[1] \/ a = base + w[1] + 1
      BY <1>3, <2>2
    <3>2. a = base + 44 \/ a = base + 45
      BY <1>1
    <3> DEFINE o == w[1]
    <3>3. w = env \/ o \in {0, 2, 22, 64}
      BY <1>4
    <3> HIDE DEF env, base, x, o
    <3>4. CASE o \in {0, 2, 22, 64}
      <4>1. a = base + o \/ a = base + o + 1
        BY <3>1 DEF o
      <4>2. QED BY <1>1, <3>2, <3>4, <4>1
    <3>5. QED BY <3>3, <3>4
  <2> HIDE DEF env, Of
  <2>3. Owner(a) = env
    BY <1>4, <2>1, <2>2
  <2> HIDE DEF x, base
  <2>4. a \in base..(base + PspParas * Paragraph - 1)
    BY <1>1
  <2>5. QED BY <1>2, <2>3, <2>4
<1>6. x \in {x, x + 1} /\ x + 1 \in {x, x + 1} /\ env[2] = e /\ env[1] = 44
  OBVIOUS
<1>7. Of(env)[x] = e % Bytes /\ Of(env)[x + 1] = e \div Bytes
  BY <1>1 DEF AsBytes
<1>8. /\ x \in DOMAIN Psp(s, e) /\ Psp(s, e)[x] = e % Bytes
      /\ x + 1 \in DOMAIN Psp(s, e) /\ Psp(s, e)[x + 1] = e \div Bytes
  <2>1. x \in DOMAIN Of(env) /\ x + 1 \in DOMAIN Of(env)
    <3>1. DOMAIN Of(env) = {base + env[1], base + env[1] + 1} /\ x = base + env[1]
      BY <1>3, <1>6
    <3> HIDE DEF Of, env, x, base
    <3>2. QED BY <3>1
  <2> HIDE DEF env, Of, x, base, Owner
  <2>2. QED BY <1>2, <1>4, <1>5, <1>6, <1>7, <2>1
<1>9. ASSUME NEW m PROVE WordAt(Stored(m, Psp(s, e)), x) = e
  <2> HIDE DEF x
  <2>1. Byte(Stored(m, Psp(s, e)), x) = e % Bytes
        /\ Byte(Stored(m, Psp(s, e)), x + 1) = e \div Bytes
    BY <1>8, ByteStored
  <2>2. e = Bytes * (e \div Bytes) + (e % Bytes) /\ e % Bytes \in Int
    <3>1. Bytes \in Nat \ {0} /\ e \in Int
      BY DEF Bytes
    <3>2. QED BY <3>1, ModIs
  <2>3. Bytes * (e \div Bytes) \in Int
    BY DEF Bytes
  <2>4. (e % Bytes) + Bytes * (e \div Bytes) = e
    <3> DEFINE p == Bytes * (e \div Bytes)
               r == e % Bytes
    <3>1. e = p + r /\ p \in Int /\ r \in Int
      BY <2>2, <2>3
    <3> HIDE DEF p, r
    <3>2. r + p = e
      BY <3>1
    <3>3. QED BY <3>2 DEF p, r
  <2>5. WordAt(Stored(m, Psp(s, e)), x) = (e % Bytes) + Bytes * (e \div Bytes)
    BY <2>1 DEF WordAt
  <2>6. QED BY <2>4, <2>5
<1>10. QED BY <1>1, <1>2, <1>9

LEMMA ContentStep ==
  ASSUME FilesAreSmall, LentInv, BlockInv, WriteInv, ContentInv,
         [LoaderNext]_<<dosVars, loaderVars>>
  PROVE  ContentInv'
<1> SUFFICES ASSUME file.opens, file.opens', Apart(file), file' = file PROVE ContentInv'
  <2>1. file' = file
    BY DEF LoaderNext, TakeEnvironment, ReadHeader, TakeMemory, LoadImage, Relocate, SetRegisters,
           MakePsp, RunProgram, loaderVars
  <2>2. Apart(file)' => Apart(file)
    BY <2>1 DEF Apart, Place
  <2>3. QED BY <2>1, <2>2 DEF ContentInv
<1> USE DEF ContentInv
<1>1. /\ file \in File /\ WellLinked(file) /\ file.bytes \in Seq(0..(Bytes - 1))
      /\ file.relocs \in Seq(Reloc) /\ Len(file.relocs) \in Nat
      /\ \A k \in 1..Len(file.relocs) : PlaceOf(k) \in Nat
  <2>1. file \in File /\ WellLinked(file)
    BY FilesAssumption DEF BlockInv, WellLinked
  <2>2. file.bytes \in Seq(0..(Bytes - 1)) /\ file.relocs \in Seq(Reloc)
    BY <2>1 DEF File
  <2>3. ASSUME NEW k \in 1..Len(file.relocs) PROVE PlaceOf(k) \in Nat
    BY <2>2, PlaceIsNat DEF PlaceOf
  <2>4. QED BY <2>1, <2>2, <2>3
<1>2. phase = "load" => psp = NoSeg
  BY DEF LentInv
<1>3. ASSUME phase = "load", at \in Taken
      PROVE  /\ pspSeg \in Nat /\ ImageSeg(pspSeg) = pspSeg + PspParas
             /\ Base \in Nat /\ Base = ImageSeg(pspSeg) * Paragraph
             /\ Base = (pspSeg + PspParas) * Paragraph
  <2>1. pspSeg \in Nat /\ ImageSeg(pspSeg) = pspSeg + PspParas
    BY <1>3, NothingWraps DEF BlockInv
  <2>2. QED BY <2>1, DosAssumption DEF Base, Paragraph
<1>4. CASE TakeEnvironment \/ ReadHeader \/ TakeMemory
  <2>1. /\ phase = "load" /\ at \in {"start", "header", "memory"} /\ UNCHANGED <<psp, done>>
        /\ at' \in {"end", "header", "memory", "image"} /\ phase' \in {"load", "run"}
    BY <1>4 DEF TakeEnvironment, ReadHeader, TakeMemory, Fails, Steps
  <2>2. QED BY <1>2, <2>1
<1>5. CASE LoadImage
  <2>1. /\ phase = "load" /\ at = "image" /\ at' = "fixups" /\ UNCHANGED <<phase, done, pspSeg>>
        /\ memory' = Stored(memory, Image(file, ImageSeg(pspSeg) * Paragraph))
    BY <1>5 DEF LoadImage, Steps
  <2>2. Linked(0)'
    <3> DEFINE a == ImageSeg(pspSeg) * Paragraph
    <3>1. a \in Nat /\ Base = a
      BY <1>3, <2>1 DEF Taken
    <3>2. memory' = Stored(memory, Image(file, a))
      BY <2>1
    <3> HIDE DEF a
    <3>3. QED BY <1>1, <2>1, <3>1, <3>2, CopyLinks
  <2>3. done = 0 /\ 0 \in 0..Len(file.relocs)
    BY <1>1, <2>1
  <2>4. QED BY <2>1, <2>2, <2>3
<1>6. CASE Relocate
  <2>1. /\ phase = "load" /\ at = "fixups" /\ at' = "fixups" /\ done < Len(file.relocs)
        /\ UNCHANGED <<phase, pspSeg>> /\ done' = done + 1
        /\ memory' = Relocated(memory, file.relocs[done + 1], pspSeg)
    BY <1>6 DEF Relocate, Steps
  <2>2. done \in Nat /\ done + 1 \in 0..Len(file.relocs) /\ Linked(done)
    BY <1>1, <2>1
  <2>3. pspSeg \in Nat /\ ImageSeg(pspSeg) = pspSeg + PspParas
    BY <1>3, <2>1 DEF Taken
  <2>4. PICK d \in Nat : d = done
    BY <2>2
  <2>5. d < Len(file.relocs) /\ Linked(d) /\ UNCHANGED <<file, pspSeg>>
        /\ memory' = Relocated(memory, file.relocs[d + 1], pspSeg)
    BY <2>1, <2>2, <2>4
  <2>6. Linked(d + 1)'
    BY <1>1, <2>3, <2>5, RelocationLinks
  <2>7. done' = d + 1
    BY <2>1, <2>4
  <2>8. Linked(done)'
    BY <2>6, <2>7 DEF Linked
  <2>9. done' \in 0..Len(file.relocs)
    BY <2>1, <2>2
  <2>10. QED BY <2>1, <2>8, <2>9
<1>7. CASE SetRegisters
  <2>1. /\ phase = "load" /\ at = "fixups" /\ at' = "psp" /\ done = Len(file.relocs)
        /\ UNCHANGED <<phase, pspSeg, memory, done>>
    BY <1>7 DEF SetRegisters, Steps
  <2>2. Linked(Len(file.relocs))
    BY <2>1
  <2>3. Linked(Len(file.relocs))'
    BY <2>1, <2>2, LinkedSame
  <2>4. QED BY <2>1, <2>3
<1>8. CASE MakePsp
  <2>1. /\ phase = "load" /\ at = "psp" /\ at' = "end" /\ phase' = "run" /\ psp' = pspSeg
        /\ UNCHANGED <<pspSeg, eseg, regs>> /\ memory' = Stored(memory, Psp(regs.ds, eseg))
    BY <1>8 DEF MakePsp, Steps
  <2>2. regs = Registers(file, pspSeg) /\ regs.ds = pspSeg
    BY <2>1 DEF WriteInv, Registers
  <2>3. pspSeg \in Nat /\ eseg \in Nat /\ PspParas = 16
    BY <1>3, <2>1, LoaderAssumption, ArenaAssumption DEF Taken, BlockInv
  <2>4. /\ DOMAIN Psp(pspSeg, eseg) = (pspSeg * Paragraph)..((pspSeg + PspParas) * Paragraph - 1)
        /\ WordAt(memory', pspSeg * Paragraph + \h2C) = eseg
    BY <2>1, <2>2, <2>3, PspHolds
  <2>5. Base \in Nat /\ Base = (pspSeg + PspParas) * Paragraph
    BY <1>3, <2>1 DEF Taken
  <2>6. ASSUME NEW x \in Nat, x >= Base PROVE Byte(memory', x) = Byte(memory, x)
    <3>1. x \notin DOMAIN Psp(pspSeg, eseg)
      <4> DEFINE lo == pspSeg * Paragraph
                 hi == (pspSeg + PspParas) * Paragraph
      <4>1. DOMAIN Psp(pspSeg, eseg) = lo..(hi - 1) /\ hi \in Nat /\ x >= hi
        BY <2>4, <2>5, <2>6
      <4> HIDE DEF lo, hi
      <4>2. QED BY <4>1
    <3>2. QED BY <2>1, <2>2, <3>1, ByteStored
  <2>7. Linked(Len(file.relocs))'
    BY <1>1, <2>1, <2>5, <2>6, LinkedStays
  <2>8. /\ ImageSeg(pspSeg) = pspSeg + PspParas
        /\ ImageSeg(pspSeg)' = ImageSeg(pspSeg)
        /\ Registers(file, pspSeg)' = Registers(file, pspSeg)
    BY <1>3, <2>1 DEF Taken, ImageSeg, Registers
  <2>9. QED BY <2>1, <2>2, <2>3, <2>4, <2>7, <2>8
<1>9. CASE RunProgram \/ UNCHANGED <<dosVars, loaderVars>>
  <2>1. UNCHANGED <<at, pspSeg, done, memory, regs, eseg, psp>>
    BY <1>9 DEF RunProgram, DosNext, InitializeProcess, Int21Allocate, Int21Free, Int21SetStrategy,
                Int21SetHandleCount, Terminate, Compute, loaderVars, dosVars
  <2>2. (phase = "run")' /\ psp # NoSeg => phase = "run"
    BY <1>2, <1>9 DEF RunProgram, dosVars
  <2>3. \A d : Linked(d)' <=> Linked(d)
    BY <2>1, LinkedSame
  <2>4. /\ ImageSeg(pspSeg)' = ImageSeg(pspSeg)
        /\ Registers(file, pspSeg)' = Registers(file, pspSeg)
        /\ WordAt(memory, pspSeg * Paragraph + \h2C)' = WordAt(memory, pspSeg * Paragraph + \h2C)
    BY <2>1 DEF ImageSeg, Registers, WordAt, Byte
  <2>5. QED BY <2>1, <2>2, <2>3, <2>4
<1>10. QED BY <1>4, <1>5, <1>6, <1>7, <1>8, <1>9 DEF LoaderNext

(* A far address that is moved with its segment wraps in its segment, and  *)
(* so by a whole number of turns of the address space.                     *)
LEMMA EntryMoves ==
  ASSUME NEW c \in Nat, NEW i \in Nat, NEW o \in Nat, Word \in Nat \ {0}
  PROVE  (((c + i) % Word) * Paragraph + o - i * Paragraph - (c * Paragraph + o))
           % (Word * Paragraph) = 0
<1> DEFINE q == (c + i) \div Word
           r == (c + i) % Word
           m == Word * 16
<1>1. c + i = Word * q + r /\ r \in Int /\ q \in Int
  BY ModIs
<1> HIDE DEF q, r
<1>2. r * 16 + o - i * 16 - (c * 16 + o) = -(16 * (Word * q))
  <2> DEFINE p == Word * q
  <2>1. p \in Int /\ c + i = p + r
    BY <1>1
  <2> HIDE DEF p
  <2>2. r * 16 + o - i * 16 - (c * 16 + o) = -(16 * p)
    BY <1>1, <2>1
  <2>3. QED BY <2>2 DEF p
<1>3. -(16 * (Word * q)) = m * (-q) + 0
  BY <1>1
<1>4. (m * (-q) + 0) % m = 0
  <2>1. m \in Nat \ {0} /\ -q \in Int /\ 0 \in 0..(m - 1)
    BY <1>1
  <2> HIDE DEF m
  <2>2. QED BY <2>1, ModUnique
<1>5. (r * 16 + o - i * 16 - (c * 16 + o)) % m = 0
  BY <1>2, <1>3, <1>4
<1>6. QED BY <1>5 DEF r, m, Paragraph

(* Whatever the file, wherever the arena has room for it: when the program *)
(* runs, its image is linked to where it lies, its entry point is that of  *)
(* the header, and its PSP names its environment (exe.cpp 102-139, dos.cpp *)
(* 64-105, psp.cpp 5-16), as long as no sum of sizes wraps.                *)
THEOREM ProgramsStartReady ==
  ASSUME NoRequestWraps, FilesAreSmall PROVE LoaderSpec => []ProgramIsReady
<1>1. LoaderInit => ContentInv
  BY DEF LoaderInit, DosInit, ContentInv
<1>2. BlockInv /\ ContentInv => ProgramIsReady
  <2> SUFFICES ASSUME BlockInv, ContentInv, Ready, Apart(file)
               PROVE  /\ ImageIsLinked
                      /\ (regs.cs * Paragraph + regs.ip - ImageSeg(psp) * Paragraph
                            - EntryPlace(file)) % (Word * Paragraph) = 0
                      /\ regs.ds = psp /\ regs.es = psp
                      /\ WordAt(memory, psp * Paragraph + \h2C) = eseg
    BY DEF ProgramIsReady
  <2>1. /\ psp = pspSeg /\ pspSeg \in Nat /\ ImageSeg(pspSeg) = pspSeg + PspParas
        /\ Linked(Len(file.relocs)) /\ regs = Registers(file, pspSeg)
        /\ WordAt(memory, pspSeg * Paragraph + \h2C) = eseg
    BY DEF ContentInv, Ready
  <2>2. file \in File /\ file.relocs \in Seq(Reloc)
    BY FilesAssumption DEF BlockInv, WellLinked, File
  <2>3. Base = ImageSeg(psp) * Paragraph /\ DOMAIN file.relocs = 1..Len(file.relocs)
    BY <2>1, <2>2 DEF Base
  <2>4. ImageIsLinked
    <3> DEFINE places == {Place(file.relocs[k]) : k \in DOMAIN file.relocs}
    <3>1. ASSUME NEW p \in places
          PROVE  WordAt(memory, Base + p)
                   = (file.bytes[p + 1] + Bytes * file.bytes[p + 2] + ImageSeg(psp)) % Word
      <4>1. PICK k \in 1..Len(file.relocs) : p = PlaceOf(k)
        BY <2>3 DEF PlaceOf
      <4>2. WordAt(memory, Base + p) = LinkedWord(p)
        BY <2>1, <4>1 DEF Linked
      <4>3. QED BY <2>1, <4>2 DEF LinkedWord
    <3>2. ASSUME NEW o \in 0..(Len(file.bytes) - 1), o \notin places, o - 1 \notin places
          PROVE  Byte(memory, Base + o) = file.bytes[o + 1]
      <4>1. ASSUME NEW k \in 1..Len(file.relocs) PROVE o # PlaceOf(k) /\ o # PlaceOf(k) + 1
        <5>1. PlaceOf(k) \in places /\ PlaceOf(k) \in Int
          <6>1. PlaceOf(k) \in places
            BY <2>3 DEF PlaceOf
          <6>2. PlaceOf(k) \in Nat
            BY <2>2, PlaceIsNat DEF PlaceOf
          <6>3. QED BY <6>1, <6>2
        <5> HIDE DEF places
        <5>2. PlaceOf(k) + 1 - 1 = PlaceOf(k)
          BY <5>1
        <5>3. QED BY <3>2, <5>1, <5>2
      <4>2. QED BY <2>1, <4>1 DEF Linked
    <3>3. QED BY <2>3, <3>1, <3>2 DEF ImageIsLinked
  <2>5. (regs.cs * Paragraph + regs.ip - ImageSeg(psp) * Paragraph - EntryPlace(file))
          % (Word * Paragraph) = 0
    <3>1. Word \in Nat \ {0} /\ ImageSeg(psp) \in Nat /\ PspParas = 16
      <4>1. Word \in Nat \ {0}
        BY ArenaAssumption
      <4>2. PspParas = 16
        BY LoaderAssumption
      <4>3. ImageSeg(psp) \in Nat
        BY <2>1, <4>2
      <4>4. QED BY <4>1, <4>2, <4>3
    <3>2. CASE file.kind = "exe"
      <4>1. regs.cs = (file.cs + ImageSeg(psp)) % Word /\ regs.ip = file.ip
            /\ EntryPlace(file) = file.cs * Paragraph + file.ip
        BY <2>1, <3>2 DEF Registers, EntryPlace
      <4>2. file.cs \in Nat /\ file.ip \in Nat
        BY <2>2, <3>1 DEF File
      <4> DEFINE c == file.cs
                 i == ImageSeg(psp)
                 o == file.ip
      <4>3. c \in Nat /\ i \in Nat /\ o \in Nat
        BY <3>1, <4>2
      <4> HIDE DEF c, i, o
      <4>4. (((c + i) % Word) * Paragraph + o - i * Paragraph - (c * Paragraph + o))
              % (Word * Paragraph) = 0
        BY <3>1, <4>3, EntryMoves, Zenon
      <4>5. QED BY <4>1, <4>4 DEF c, i, o
    <3>3. CASE file.kind # "exe"
      <4>1. regs.cs = psp /\ regs.ip = 256 /\ EntryPlace(file) = 0 /\ ImageSeg(psp) = psp + 16
        BY <2>1, <3>1, <3>3 DEF Registers, EntryPlace
      <4>2. regs.cs * Paragraph + regs.ip - ImageSeg(psp) * Paragraph - EntryPlace(file) = 0
        BY <2>1, <4>1 DEF Paragraph
      <4>3. 0 % (Word * Paragraph) = 0
        BY <3>1 DEF Paragraph
      <4>4. QED BY <4>2, <4>3
    <3>4. QED BY <3>2, <3>3
  <2>6. regs.ds = psp /\ regs.es = psp
    BY <2>1 DEF Registers
  <2>7. QED BY <2>1, <2>4, <2>5, <2>6
<1>3. QED
  BY <1>1, <1>2, LoaderStarts, BlockStep, WriteStep, ContentStep, PTL DEF LoaderSpec

-------------------------------------------------------------------------------
(* What initialize_process() and the program ask allocate() for: the sizes *)
(* of the environment and of the programs, and those of 48h with the       *)
(* paragraph of the MCB.                                                   *)
SizesAsked ==
  {EnvParas} \cup {ParasAskedFor(p) : p \in Programs} \cup {WithMcb(bx) : bx \in BxValues}

(* Loading and the program that runs, as their memory manager promises it. *)
G == INSTANCE SegmentAllocator
       WITH Lo <- StartSeg, Hi <- EndSeg, Requests <- SizesAsked, granted <- Granted

LEMMA SizesInRange == ASSUME NoRequestWraps PROVE SizesAsked \subseteq 1..(Word - 1)
<1>1. EnvParas \in 1..(Word - 1)
  BY DosAssumption
<1>2. ASSUME NEW p \in Programs PROVE ParasAskedFor(p) \in 1..(Word - 1)
  BY AskedInRange DEF NoRequestWraps
<1>3. ASSUME NEW bx \in BxValues PROVE WithMcb(bx) \in 1..(Word - 1)
  <2>1. bx \in 0..(Word - 2) /\ Word \in Nat
    BY DosAssumption, ArenaAssumption DEF NoRequestWraps
  <2>2. (bx + 1) % Word = bx + 1
    BY <2>1
  <2>3. QED BY <2>1, <2>2 DEF WithMcb
<1>4. QED BY <1>1, <1>2, <1>3 DEF SizesAsked

(* Every outcome of allocate() is a grant of the abstract allocator.       *)
LEMMA OutcomeIsGrant ==
  ASSUME NoRequestWraps, Sound(blocks), NEW n \in SizesAsked, NEW a \in Outcomes(blocks, n),
         blocks' = a.blocks
  PROVE  G!Next
<1>1. n \in 1..(Word - 1)
  BY SizesInRange
<1>2. PICK i \in DOMAIN blocks :
        Picks(blocks, fit, n, i) /\ a.blocks = AllocateAt(blocks, fit, n, i)
  BY DEF Outcomes
<1>3. WellFormed(blocks) /\ Positive(blocks) /\ Fits(blocks[i], n) /\ n \in 0..(Word - 1)
  BY <1>1, <1>2, ArenaAssumption DEF Sound, Picks
<1> DEFINE g == Lent(blocks, fit, n, i)
<1>4. Granted' = Granted \cup {g}
  <2>1. GrantedIn(AllocateAt(blocks, fit, n, i)) = GrantedIn(blocks) \cup {g}
    BY <1>1, <1>3, AllocateGrants
  <2>2. blocks' = AllocateAt(blocks, fit, n, i)
    BY <1>2
  <2>3. QED BY <2>1, <2>2 DEF Granted
<1>5. /\ g \in A!Run /\ g.start + g.size <= EndSeg /\ g.size \in n..(n + Slack)
      /\ \A h \in Granted : A!Disjoint(g, h) /\ g.start # h.start
  BY <1>1, <1>3, LentIsFresh DEF Granted
<1> HIDE DEF g
<1>6. g \in G!Run /\ \A h \in Granted : G!Disjoint(g, h) /\ g.start # h.start
  BY <1>5 DEF A!Run, G!Run, A!Disjoint, G!Disjoint
<1>7. G!Grant(n)
  BY <1>4, <1>5, <1>6 DEF G!Grant
<1>8. QED BY <1>7 DEF G!Next

(* 49h takes back one run, or leaves all of them alone.                    *)
LEMMA FreeIsRelease ==
  ASSUME Sound(blocks), NEW seg, NEW i \in DOMAIN blocks, Frees(blocks, seg, i),
         blocks' = FreeAt(blocks, i)
  PROVE  G!Next
<1>1. PICK g \in Granted : g.start = seg /\ Granted' = Granted \ {g}
  BY FreeTakesBack DEF Granted
<1>2. seg \in StartSeg..EndSeg
  <2>1. blocks[i].start = seg /\ WellFormed(blocks)
    BY DEF Frees, Sound
  <2>2. QED BY <2>1, BlockBounds, BlockNumbers, ArenaAssumption
<1>3. G!Release(seg)
  BY <1>1 DEF G!Release
<1>4. QED BY <1>2, <1>3 DEF G!Next

LEMMA LoaderStepLends ==
  ASSUME NoRequestWraps, LentInv, BlockInv, [LoaderNext]_<<dosVars, loaderVars>>
  PROVE  [G!Next]_Granted
<1>1. Sound(blocks)
  BY DEF LentInv
<1>2. CASE UNCHANGED blocks
  BY <1>2 DEF Granted
<1>3. CASE TakeEnvironment
  <2>1. ASSUME NEW e \in Outcomes(blocks, EnvParas), blocks' = e.blocks PROVE G!Next
    <3>1. EnvParas \in SizesAsked
      BY DEF SizesAsked
    <3>2. QED BY <1>1, <2>1, <3>1, OutcomeIsGrant
  <2>2. QED BY <1>2, <1>3, <2>1 DEF TakeEnvironment, Fails
<1>4. CASE TakeMemory
  <2> DEFINE n == ParasAskedFor(ProgramOf(file))
  <2>1. ASSUME NEW m \in Outcomes(blocks, n), blocks' = m.blocks PROVE G!Next
    <3>1. n \in SizesAsked
      BY FilesAssumption DEF SizesAsked, BlockInv
    <3> HIDE DEF n
    <3>2. QED BY <1>1, <2>1, <3>1, OutcomeIsGrant
  <2>2. QED BY <1>2, <1>4, <2>1 DEF TakeMemory, Fails
<1>5. CASE RunProgram
  <2>1. ASSUME NEW bx \in BxValues, Int21Allocate(bx) PROVE [G!Next]_Granted
    <3>1. WithMcb(bx) \in SizesAsked
      BY DEF SizesAsked
    <3>2. ASSUME NEW a \in Outcomes(blocks, WithMcb(bx)), blocks' = a.blocks PROVE G!Next
      BY <1>1, <3>1, <3>2, OutcomeIsGrant
    <3>3. QED BY <1>2, <2>1, <3>2 DEF Int21Allocate
  <2>2. ASSUME NEW bx \in FreeBx, Int21Free(bx) PROVE [G!Next]_Granted
    <3> DEFINE seg == (bx - 1) % Word
    <3>1. ASSUME NEW i \in DOMAIN blocks, Frees(blocks, seg, i), blocks' = FreeAt(blocks, i)
          PROVE  G!Next
      BY <1>1, <3>1, FreeIsRelease
    <3>2. QED BY <1>2, <2>2, <3>1 DEF Int21Free
  <2>3. phase = "run" /\ DosNext
    BY <1>5 DEF RunProgram
  <2>4. CASE \/ \E bx \in 0..2 : Int21SetStrategy(bx)
             \/ Int21SetHandleCount \/ Terminate \/ Compute
    BY <1>2, <2>4 DEF Int21SetStrategy, Int21SetHandleCount, Terminate, Compute
  <2>5. ~\E p \in Programs : InitializeProcess(p)
    BY <2>3 DEF InitializeProcess
  <2>6. QED BY <2>1, <2>2, <2>3, <2>4, <2>5 DEF DosNext
<1>6. CASE ReadHeader \/ LoadImage \/ Relocate \/ SetRegisters \/ MakePsp
           \/ UNCHANGED <<dosVars, loaderVars>>
  BY <1>2, <1>6 DEF ReadHeader, Fails, LoadImage, Relocate, SetRegisters, MakePsp, dosVars
<1>7. QED BY <1>3, <1>4, <1>5, <1>6 DEF LoaderNext

(* From the first step of loading to the last call of the program, failed  *)
(* loads included, the memory manager lends and takes back one run at a    *)
(* time, never one that overlaps another, to initialize_process() as to    *)
(* 48h (dos.cpp 31-108, 129-180, 314-345): Loader implements the           *)
(* allocator that DosMemoryManager implements for arbitrary callers.       *)
THEOREM LoaderIsAllocator == ASSUME NoRequestWraps PROVE LoaderSpec => G!Spec
<1>1. LoaderInit => G!Init
  BY DEF LoaderInit, DosInit, Init, MakeBlock, Granted, GrantedIn, G!Init
<1>2. LentInv /\ BlockInv /\ [LoaderNext]_<<dosVars, loaderVars>> => [G!Next]_Granted
  BY LoaderStepLends
<1>3. QED
  BY <1>1, <1>2, LoaderStarts, BlockStep, PTL DEF LoaderSpec, G!Spec

(* Accounting holds at every step of loading and not only before and after *)
(* it, whichever step fails: what was taken until then is accounted for as *)
(* own, nothing else is lent, and the blocks tile the arena (dos.cpp       *)
(* 31-108).                                                                *)
THEOREM LoaderKeepsAccounts ==
  ASSUME NoRequestWraps
  PROVE  LoaderSpec => [](DosTypeOK /\ Tiling /\ HandlesSound /\ Accounting)
<1>1. LentInv => DosTypeOK /\ Tiling /\ HandlesSound /\ Accounting
  BY AccountsHold DEF LentInv
<1>2. QED
  BY <1>1, LoaderStarts, BlockStep, PTL DEF LoaderSpec

===============================================================================
