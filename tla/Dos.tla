----------------------------------- MODULE Dos -----------------------------------
(***************************************************************************)
(* One run of door86 as its memory manager sees it: main()                 *)
(* (src/door86/door86.cpp) calls Dos::initialize_process(), which takes    *)
(* memory for the environment and for the program and PSP, and then runs   *)
(* the program, which calls the memory services of INT 21h (48h allocate,  *)
(* 49h free, 58h strategy, 67h handle count) until it terminates (INT 20h, *)
(* functions 00h and 4Ch).  A program is any sequence of such calls.       *)
(*                                                                         *)
(* Left out: 4Ah, an empty function (dos.cpp 310-312); the registers but   *)
(* for what BX asks, AX answers and the carry flag; the PSP's fields.      *)
(***************************************************************************)
EXTENDS DosMemoryManager

CONSTANTS
  EnvParas,    \* 0x80: what initialize_process() takes for the environment
  ComParas,    \* 0x3fff: what it takes for a .COM program
  PspParas,    \* 0x10: the PSP, in front of the loaded image
  Programs,    \* the files door86 may be started on
  BxValues,    \* the sizes programs pass to 48h in BX
  StrayBx,     \* segments programs pass to 49h besides those of blocks
  MaxBlocks    \* bound: no further 48h once the vector has this many blocks

Paragraph == 16

NoSeg == -1

ProgramFile ==
  [kind : {"com", "exe"},
   readable : BOOLEAN,      \* the image of a .COM, the header of an .EXE
   size : Nat,              \* bytes in the file
   header : Nat,            \* header_size(), the bytes in front of the image
   minExtra : 0..(Word - 1)]

ASSUME DosAssumption ==
  /\ EnvParas \in 1..(Word - 1) /\ ComParas \in 1..(Word - 1)
  /\ PspParas \in Nat /\ MaxBlocks \in Nat
  /\ Programs \subseteq ProgramFile
  /\ BxValues \subseteq 0..(Word - 1) /\ StrayBx \subseteq 0..(Word - 1)

VARIABLES
  phase,    \* where main() is: "load", "run" (in cpu.run()) or "exit"
  psp,      \* the segment of psp_, NoSeg while it is null
  answer,   \* the carry flag as the last service left it
  cf,       \* the carry flag as the program sees it
  held,     \* history: what 48h granted and 49h did not take back, as the
            \* program knows it: [seg : what AX said, paras : what BX asked]
  own,      \* history: the segments initialize_process() took that the
            \* program did not free
  loaded    \* history: the set of the file that was loaded, {} before

dosVars == <<blocks, fit, phase, psp, answer, cf, held, own, loaded>>

-------------------------------------------------------------------------------
(* mem_mgr.allocate(segs) on the vector bs: the one outcome, if it succeeds *)
(* (none when it answers nullopt).                                          *)
Outcomes(bs, segs) ==
  {[blocks |-> AllocateAt(bs, fit, segs, i), seg |-> SegmentAt(bs, fit, segs, i)] :
     i \in {j \in DOMAIN bs : Picks(bs, fit, segs, j)}}

(* memory_needed() counts bytes in a uint16_t; initialize_process() adds    *)
(* one and hands the sum to allocate() as a uint16_t number of paragraphs.  *)
MemoryNeeded(p) == (p.minExtra * Paragraph + p.size + PspParas * Paragraph) % Word
ParasAskedFor(p) == IF p.kind = "exe" THEN (MemoryNeeded(p) + 1) % Word ELSE ComParas

-------------------------------------------------------------------------------
DosInit ==
  /\ Init
  /\ phase = "load" /\ psp = NoSeg /\ answer = FALSE /\ cf = FALSE
  /\ held = {} /\ own = {} /\ loaded = {}

(* initialize_process(): four of its failures return EXIT_FAILURE, that is  *)
(* true, and main() goes on to run the CPU; only a .COM file that cannot be *)
(* read makes it return false.  Nothing taken is given back.                *)
NoEnvironment ==
  /\ NoFit(blocks, EnvParas)
  /\ phase' = "run" /\ UNCHANGED <<blocks, psp, own, loaded>>

NoImage(e, p) ==
  /\ \/ p.kind = "exe" /\ ~p.readable
     \/ (p.kind = "exe" => p.readable) /\ NoFit(e.blocks, ParasAskedFor(p))
  /\ blocks' = e.blocks /\ own' = {e.seg}
  /\ phase' = "run" /\ UNCHANGED <<psp, loaded>>

Loaded(e, p) ==
  /\ p.kind = "exe" => p.readable
  /\ \E m \in Outcomes(e.blocks, ParasAskedFor(p)) :
       /\ blocks' = m.blocks /\ own' = {e.seg, m.seg}
       /\ IF p.readable THEN phase' = "run" /\ psp' = m.seg /\ loaded' = {p}
                        ELSE phase' = "exit" /\ UNCHANGED <<psp, loaded>>

InitializeProcess(p) ==
  /\ phase = "load"
  /\ \/ NoEnvironment
     \/ \E e \in Outcomes(blocks, EnvParas) : NoImage(e, p) \/ Loaded(e, p)
  /\ UNCHANGED <<fit, answer, cf, held>>

(* The program runs: the CPU executes what was loaded.                      *)
Running == phase = "run" /\ psp # NoSeg

WithoutMcb(bx) == bx                        \* wrong: no paragraph for the MCB

WithMcb(bx) == (bx + 1) % Word

(* A service answers in the carry flag, but call_interrupt() ends with the  *)
(* flags it pushed before: the program's carry flag stays as it was.        *)

(* 48h: BX paragraphs and one for the MCB; AX is the segment behind it.     *)
Int21Allocate(bx) ==
  /\ Running /\ Len(blocks) < MaxBlocks
  /\ \/ /\ NoFit(blocks, WithMcb(bx))
        /\ answer' = TRUE /\ UNCHANGED <<blocks, held>>
     \/ \E a \in Outcomes(blocks, WithMcb(bx)) :
          /\ blocks' = a.blocks /\ answer' = FALSE
          /\ held' = held \cup {[seg |-> a.seg + 1, paras |-> bx]}
  /\ UNCHANGED <<fit, phase, psp, cf, own, loaded>>

(* 49h: BX (not ES) names the segment behind the MCB.                       *)
Int21Free(bx) ==
  /\ Running
  /\ LET seg == (bx - 1) % Word IN
     \/ /\ NotAllocated(blocks, seg)
        /\ answer' = TRUE /\ UNCHANGED <<blocks, held, own>>
     \/ /\ \E i \in DOMAIN blocks : Frees(blocks, seg, i) /\ blocks' = FreeAt(blocks, i)
        /\ answer' = FALSE
        /\ held' = {h \in held : h.seg # bx}
        /\ own' = own \ {seg}
  /\ UNCHANGED <<fit, phase, psp, cf, loaded>>

(* 58h with AL = 1; the carry flag is not touched.                          *)
Int21SetStrategy(bx) ==
  /\ Running
  /\ fit' = IF bx = 2 THEN "last" ELSE "first"
  /\ UNCHANGED <<blocks, phase, psp, answer, cf, held, own, loaded>>

Int21SetHandleCount ==
  /\ Running
  /\ answer' = FALSE
  /\ UNCHANGED <<blocks, fit, phase, psp, cf, held, own, loaded>>

(* INT 20h and functions 00h and 4Ch: halt(), cpu.run() returns, main() too. *)
Terminate ==
  /\ Running
  /\ phase' = "exit"
  /\ UNCHANGED <<blocks, fit, psp, answer, cf, held, own, loaded>>

(* The program's own instructions set and clear its carry flag.             *)
Compute ==
  /\ Running
  /\ cf' = ~cf
  /\ UNCHANGED <<blocks, fit, phase, psp, answer, held, own, loaded>>

(* The segments worth passing to 49h: those of blocks and behind them.      *)
FreeBx == StrayBx \cup UNION {{b.start, b.start + 1} : b \in ToSet(blocks)}

DosNext ==
  \/ \E p \in Programs : InitializeProcess(p)
  \/ \E bx \in BxValues : Int21Allocate(bx)
  \/ \E bx \in FreeBx : Int21Free(bx)
  \/ \E bx \in 0..2 : Int21SetStrategy(bx)
  \/ Int21SetHandleCount
  \/ Terminate
  \/ Compute

DosSpec == DosInit /\ [][DosNext]_dosVars

-------------------------------------------------------------------------------
(* Types of the variables this module adds. *)
Handle == [seg : 1..Word, paras : 0..(Word - 1)]
DosTypeOK ==
  /\ TypeOK
  /\ phase \in {"load", "run", "exit"}
  /\ psp \in 0..(Word - 1) \cup {NoSeg}
  /\ answer \in BOOLEAN /\ cf \in BOOLEAN
  /\ held \subseteq Handle
  /\ own \subseteq 0..(Word - 1)
  /\ loaded \subseteq Programs

UsedStarts == {b.start : b \in {c \in ToSet(blocks) : c.avail = "used"}}
HandleStarts == {h.seg - 1 : h \in held}

(* What 48h granted the program is still its own: each segment it holds    *)
(* lies behind the start of one used block, large enough for what it asked *)
(* and not more than Slack larger, and no two grants share a block, after  *)
(* any sequence of 48h, 49h (of stray, stale and foreign segments too) and *)
(* 58h (dos.cpp 314-345).                                                  *)
HandlesSound ==
  /\ \A h \in held : \E b \in ToSet(blocks) :
       /\ b.avail = "used" /\ b.start = h.seg - 1
       /\ b.size \in (h.paras + 1)..(h.paras + 1 + Slack)
  /\ \A g, h \in held : g # h => g.seg # h.seg

(* Nothing leaks and nothing is lent twice: the used blocks are exactly    *)
(* the program's grants and what initialize_process() took.                *)
Accounting ==
  /\ UsedStarts = HandleStarts \cup own
  /\ HandleStarts \cap own = {}

(* A segment that is not lent out, one freed before included, is refused   *)
(* by 49h, which sets the carry flag, and nothing is freed (dos.cpp 170-180,  *)
(* 327-333).                                                               *)
StaleFreeRefused ==
  [][\A bx \in FreeBx :
       Int21Free(bx) /\ (bx - 1) % Word \notin HandleStarts \cup own
         => answer' /\ UNCHANGED blocks]_dosVars

(* The block initialize_process() took for the program holds its PSP, its  *)
(* image and the extra paragraphs its header asks for, for as long as the  *)
(* program does not free it: "Calculates how much memory is needed to load *)
(* the exe.  file + extra paragraphs + PSP" (exe.h 42).  Bytes taken for   *)
(* paragraphs make it sixteen times too large; a sum that wraps around, of *)
(* a file of 64K and more, makes it too small.                             *)
ParasRequired(p) ==
  PspParas + (p.size - p.header + Paragraph - 1) \div Paragraph + p.minExtra
ImageFits ==
  \A p \in loaded :
    psp \in own => \E b \in ToSet(blocks) :
                      b.start = psp /\ b.avail = "used" /\ b.size >= ParasRequired(p)

(* 48h with BX paragraphs answers with a segment that has them: "allocate  *)
(* a block of memory of size paragraphs" (dos.cpp 128, 314-325).           *)
GrantIsLargeEnough ==
  \A h \in held : \E b \in ToSet(blocks) :
    b.avail = "used" /\ b.start = h.seg - 1 /\ b.size > h.paras
===============================================================================
