--------------------------------- MODULE Loader ---------------------------------
(***************************************************************************)
(* How Dos::initialize_process() loads a program, step by step: the header *)
(* and the table of relocations of an .EXE are read, memory is taken, the  *)
(* file behind its header is copied to memory, the words the table names   *)
(* are relocated, the registers are set and the PSP is made (src/dos/      *)
(* dos.cpp, exe.cpp, psp.cpp).  Dos takes all this for one step.           *)
(*                                                                         *)
(* Left out: a file that changes while it is read or ends within its       *)
(* header, a table that names words outside of the image, what the program *)
(* writes once it runs.                                                    *)
(***************************************************************************)
EXTENDS Dos

CONSTANT Files     \* the files door86 may be started on

Bytes == 256
ASSUME LoaderAssumption == Word = Bytes * Bytes /\ PspParas = 16

Reloc == [segment : 0..(Word - 1), offset : 0..(Word - 1)]

(* A file that does not exist is none with "MZ" in front, and so a "com".  *)
File ==
  [kind : {"com", "exe"},
   intact : BOOLEAN,               \* the header and the table can be read
   opens : BOOLEAN,                \* load_image() can open the file
   blocksInFile : 0..(Word - 1), bytesInLast : 0..(Word - 1),
   headerParas : 0..(Word - 1), minExtra : 0..(Word - 1),
   cs : 0..(Word - 1), ip : 0..(Word - 1), ss : 0..(Word - 1), sp : 0..(Word - 1),
   relocs : Seq(Reloc),
   bytes : Seq(0..(Bytes - 1))]    \* what is behind the header

(* The image begins PspParas behind the segment that initialize_process()  *)
(* took, in the arithmetic of uint16_t.                                    *)
ImageSeg(s) == (s + PspParas) % Word

(* Where a relocation points to, counted from the start of the image: it   *)
(* is added up in 32 bits and not as an address within a segment.          *)
Place(r) == r.segment * Paragraph + r.offset

(* The sizes in the header count the header and the last block in full.    *)
BinarySize(f) == f.blocksInFile * 512 + f.bytesInLast - (IF f.bytesInLast # 0 THEN 512 ELSE 0)

FileLength(f) == f.headerParas * Paragraph + Len(f.bytes)

(* What Dos knows of a file. *)
ProgramOf(f) ==
  [kind |-> f.kind,
   readable |-> IF f.kind = "exe" THEN f.intact ELSE f.opens,
   size |-> IF f.kind = "exe" THEN BinarySize(f) ELSE FileLength(f),
   header |-> f.headerParas * Paragraph,
   minExtra |-> f.minExtra]

WellLinked(f) ==
  /\ f \in File /\ BinarySize(f) \in Nat
  /\ f.kind = "com" => f.headerParas = 0 /\ f.relocs = <<>>
  /\ \A k \in DOMAIN f.relocs : Place(f.relocs[k]) + 1 < Len(f.bytes)

ASSUME FilesAssumption ==
  /\ \A f \in Files : WellLinked(f)
  /\ Programs = {ProgramOf(f) : f \in Files}

VARIABLES
  at,       \* where initialize_process() is
  file,     \* the file door86 was started on
  eseg,     \* the segment of the environment
  pspSeg,   \* psp_seg; seg of a .COM
  done,     \* the relocations that are made
  memory,   \* what was written to cpu_->memory: address to byte, 0 elsewhere
  regs      \* the segment registers, sp and ip

loaderVars == <<at, file, eseg, pspSeg, done, memory, regs>>

-------------------------------------------------------------------------------
Byte(m, a) == IF a \in DOMAIN m THEN m[a] ELSE 0

(* abs16() *)
WordAt(m, a) == Byte(m, a) + Bytes * Byte(m, a + 1)
AsBytes(a, w) == [x \in {a, a + 1} |-> IF x = a THEN w % Bytes ELSE w \div Bytes]

(* Memory m, with the bytes new written over it. *)
Stored(m, new) == [x \in DOMAIN m \cup DOMAIN new |-> IF x \in DOMAIN new THEN new[x] ELSE m[x]]

(* The bytes of the file, from address a on. *)
Image(f, a) == [x \in a..(a + Len(f.bytes) - 1) |-> f.bytes[x - a + 1]]

RelocatedByPsp(m, r, s) ==                  \* wrong: the segment of the PSP
  LET addr == ImageSeg(s) * Paragraph + Place(r)
  IN Stored(m, AsBytes(addr, (WordAt(m, addr) + s) % Word))

(* One turn of the loop of Exe::load_image(). *)
Relocated(m, r, s) ==
  LET addr == ImageSeg(s) * Paragraph + Place(r)
  IN Stored(m, AsBytes(addr, (WordAt(m, addr) + ImageSeg(s)) % Word))

(* PSP::initialize() and the segment of the environment. *)
PspWords(e) == {<<0, \h2ACD>>, <<2, \h9FFF>>, <<\h16, \hFFFE>>, <<\h2C, e>>, <<\h40, 5>>}
Psp(s, e) ==
  LET base == s * Paragraph
      Of(w) == AsBytes(base + w[1], w[2])
  IN [x \in base..(base + PspParas * Paragraph - 1) |->
        IF \E w \in PspWords(e) : x \in DOMAIN Of(w)
        THEN Of(CHOOSE w \in PspWords(e) : x \in DOMAIN Of(w))[x] ELSE 0]

RegistersWithoutDs(f, s) ==                 \* wrong: ds and es stay as they are
  [cs |-> (f.cs + ImageSeg(s)) % Word, ds |-> 0, es |-> 0,
   ss |-> (f.ss + ImageSeg(s)) % Word, sp |-> f.sp, ip |-> f.ip]

(* A .COM has its code, data and stack in one segment, with its PSP. *)
Registers(f, s) ==
  IF f.kind = "exe"
  THEN [cs |-> (f.cs + ImageSeg(s)) % Word, ds |-> s, es |-> s,
        ss |-> (f.ss + ImageSeg(s)) % Word, sp |-> f.sp, ip |-> f.ip]
  ELSE [cs |-> s, ds |-> s, es |-> s, ss |-> s, sp |-> \hFFFE, ip |-> \h100]

-------------------------------------------------------------------------------
LoaderInit ==
  /\ DosInit
  /\ at = "start" /\ file \in Files /\ eseg = NoSeg /\ pspSeg = NoSeg
  /\ done = 0 /\ memory = <<>>
  /\ regs = [cs |-> 0, ds |-> 0, es |-> 0, ss |-> 0, sp |-> 0, ip |-> 0]

Steps(here, there) == phase = "load" /\ at = here /\ at' = there

FailsForGood(here) ==                       \* wrong: EXIT_FAILURE ends main()
  /\ Steps(here, "end")
  /\ phase' = "exit" /\ UNCHANGED <<blocks, psp, own, loaded, eseg, pspSeg>>

(* The returns of EXIT_FAILURE: main() takes it for success and runs. *)
Fails(here) ==
  /\ Steps(here, "end")
  /\ phase' = "run" /\ UNCHANGED <<blocks, psp, own, loaded, eseg, pspSeg>>

TakeEnvironment ==
  /\ \/ NoFit(blocks, EnvParas) /\ Fails("start")
     \/ /\ Steps("start", "header")
        /\ \E e \in Outcomes(blocks, EnvParas) :
             blocks' = e.blocks /\ own' = {e.seg} /\ eseg' = e.seg
        /\ UNCHANGED <<phase, psp, loaded, pspSeg>>
  /\ UNCHANGED <<fit, answer, cf, held, file, done, memory, regs>>

(* is_exe(), read_exe_header() *)
ReadHeader ==
  /\ \/ file.kind = "exe" /\ ~file.intact /\ Fails("header")
     \/ /\ Steps("header", "memory")
        /\ file.kind = "exe" => file.intact
        /\ UNCHANGED <<blocks, phase, psp, own, loaded, eseg, pspSeg>>
  /\ UNCHANGED <<fit, answer, cf, held, file, done, memory, regs>>

TakeMemory ==
  LET paras == ParasAskedFor(ProgramOf(file)) IN
  /\ \/ NoFit(blocks, paras) /\ Fails("memory")
     \/ /\ Steps("memory", "image")
        /\ \E m \in Outcomes(blocks, paras) :
             blocks' = m.blocks /\ own' = own \cup {m.seg} /\ pspSeg' = m.seg
        /\ UNCHANGED <<phase, psp, loaded, eseg>>
  /\ UNCHANGED <<fit, answer, cf, held, file, done, memory, regs>>

(* load_image(): what it returns is looked at for a .COM and not for an     *)
(* .EXE, which then runs without an image.                                 *)
LoadImage ==
  /\ \/ /\ file.opens /\ Steps("image", "fixups")
        /\ memory' = Stored(memory, Image(file, ImageSeg(pspSeg) * Paragraph))
        /\ UNCHANGED phase
     \/ /\ ~file.opens /\ file.kind = "exe" /\ Steps("image", "registers")
        /\ UNCHANGED <<phase, memory>>
     \/ /\ ~file.opens /\ file.kind = "com" /\ Steps("image", "end")
        /\ phase' = "exit" /\ UNCHANGED memory
  /\ UNCHANGED <<blocks, fit, psp, answer, cf, held, own, loaded, file, eseg, pspSeg, done, regs>>

Relocate ==
  /\ Steps("fixups", "fixups") /\ done < Len(file.relocs)
  /\ memory' = Relocated(memory, file.relocs[done + 1], pspSeg)
  /\ done' = done + 1
  /\ UNCHANGED <<blocks, fit, phase, psp, answer, cf, held, own, loaded, file, eseg, pspSeg, regs>>

SetRegisters ==
  /\ \/ Steps("fixups", "psp") /\ done = Len(file.relocs)
     \/ Steps("registers", "psp")
  /\ regs' = Registers(file, pspSeg)
  /\ UNCHANGED <<blocks, fit, phase, psp, answer, cf, held, own, loaded,
                 file, eseg, pspSeg, done, memory>>

MakePsp ==
  /\ Steps("psp", "end")
  /\ memory' = Stored(memory, Psp(regs.ds, eseg))
  /\ psp' = pspSeg /\ loaded' = {ProgramOf(file)} /\ phase' = "run"
  /\ UNCHANGED <<blocks, fit, answer, cf, held, own, file, eseg, pspSeg, done, regs>>

(* The program runs; DosNext has no other steps once it does. *)
RunProgram == phase = "run" /\ DosNext /\ UNCHANGED loaderVars

LoaderNext ==
  \/ TakeEnvironment \/ ReadHeader \/ TakeMemory
  \/ LoadImage \/ Relocate \/ SetRegisters \/ MakePsp
  \/ RunProgram

LoaderSpec == LoaderInit /\ [][LoaderNext]_<<dosVars, loaderVars>>

-------------------------------------------------------------------------------
(* Nothing of what initialize_process() does is seen before it returns:    *)
(* with the blocks as they were until then, loading step by step is the    *)
(* one step that Dos takes for it, in all its failures (dos.cpp 31-108).   *)
D == INSTANCE Dos WITH
       blocks <- IF phase = "load" THEN <<MakeBlock(StartSeg, EndSeg - StartSeg, "free")>>
                                   ELSE blocks,
       own <- IF phase = "load" THEN {} ELSE own
ImplementsDos == D!DosSpec

(* Loaded and in front of its first instruction.                           *)
Ready == phase = "run" /\ psp # NoSeg /\ file.opens

(* Each word the table names is the one in the file moved by the segment   *)
(* of the image, and all other bytes are those of the file, as long as the *)
(* words of the table do not overlap.                                      *)
Apart(f) ==
  \A i, j \in DOMAIN f.relocs : i # j =>
    Place(f.relocs[i]) + 1 < Place(f.relocs[j]) \/ Place(f.relocs[j]) + 1 < Place(f.relocs[i])
ImageIsLinked ==
  LET base == ImageSeg(psp) * Paragraph
      places == {Place(file.relocs[k]) : k \in DOMAIN file.relocs}
  IN /\ \A p \in places :
          WordAt(memory, base + p)
            = (file.bytes[p + 1] + Bytes * file.bytes[p + 2] + ImageSeg(psp)) % Word
     /\ \A o \in 0..(Len(file.bytes) - 1) :
          o \notin places /\ o - 1 \notin places => Byte(memory, base + o) = file.bytes[o + 1]

EntryPlace(f) == IF f.kind = "exe" THEN f.cs * Paragraph + f.ip ELSE 0

(* A program starts with its image linked to where it lies, at the         *)
(* instruction that its header names or, of a .COM, at its first, and with *)
(* the environment in its PSP: neither PSP nor relocation nor copy undoes  *)
(* what another has written (exe.cpp 102-139, dos.cpp 64-105, psp.cpp).    *)
ProgramIsReady ==
  Ready /\ Apart(file) =>
    /\ ImageIsLinked
    /\ (regs.cs * Paragraph + regs.ip - ImageSeg(psp) * Paragraph - EntryPlace(file))
         % (Word * Paragraph) = 0
    /\ regs.ds = psp /\ regs.es = psp
    /\ WordAt(memory, psp * Paragraph + \h2C) = eseg

(* As long as a file ends with its image, loading writes nowhere but in    *)
(* the block that was taken for the program: not in the environment, not   *)
(* in front of the arena, not behind it (exe.cpp 115, 130-135).            *)
WritesInItsBlock ==
  (file.kind = "exe" => FileLength(file) = BinarySize(file)) /\ pspSeg \in own =>
    \E b \in ToSet(blocks) :
      /\ b.start = pspSeg /\ b.avail = "used"
      /\ \A a \in DOMAIN memory : a \in (b.start * Paragraph)..(End(b) * Paragraph - 1)
===============================================================================
