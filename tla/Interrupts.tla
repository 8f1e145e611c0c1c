------------------------------ MODULE Interrupts ------------------------------
(***************************************************************************)
(* The stack of the emulated CPU and what saves and restores state on it   *)
(* (src/cpu/x86/cpu.cpp): push() and pop(), near calls, far returns, PUSHA *)
(* and POPA, INT, and call_interrupt(), which looks for a handler first in *)
(* the vector table in memory, then among the handlers door86 implements   *)
(* itself (src/dos/dos.cpp, src/bios/bios.cpp).                            *)
(*                                                                         *)
(* The program is any that treats its stack as one: it returns from what   *)
(* it called last, pops what it pushed last and does not outgrow the       *)
(* segment.  Left out: odd stack pointers, writes to the stack other than  *)
(* by pushing, SS, the other segment registers and the stop the debugger   *)
(* makes before each instruction (module Debugger).                        *)
(***************************************************************************)
EXTENDS Integers, Sequences, SequencesExt

CONSTANTS
  Word,        \* 2^16 in the code: sp is a uint16_t, as every register
  Ips, Css,    \* offsets and segments of the program's code
  FlagWords,   \* values of the flags register
  RegFiles,    \* contents of the seven general registers but sp, in PUSHA's order
  FirstSp,     \* sp when the program starts
  Vectors,     \* the interrupt numbers that programs use
  LastVector,  \* 255 in the code, the one whose vector is not set up
  Dos,         \* 21h in the code
  SetVector,   \* 25h in the code, in AH a service and by itself a number
  Native,      \* those with an entry in int_handlers_
  Ending,      \* those of them that halt the CPU, INT 20h
  Fatal,       \* those that, unhandled, end the program
  Hookable,    \* those whose vectors programs write
  Handlers,    \* the program's own interrupt handlers, [seg, off]
  UsedRegs,    \* the registers that are pushed and popped one by one
  MaxFrames    \* bound: what may be on the stack at once

NumRegs == 7               \* ax, cx, dx, bx, bp, si, di
SpSlot == 5                \* PUSHA stores sp as the fifth word

Junk == -1                 \* what lies below sp: nothing may read it

Words == 0..(Word - 1)
Offsets == {o \in Words : o % 2 = 0}

ASSUME InterruptsAssumption ==
  /\ Word \in Nat \ {0} /\ Word % 2 = 0 /\ FirstSp \in Offsets
  /\ Ips \subseteq Words /\ Css \subseteq Words /\ FlagWords \subseteq Words
  /\ RegFiles \subseteq [1..NumRegs -> Words]
  /\ Vectors \subseteq Words /\ Native \subseteq Vectors /\ Hookable \subseteq Vectors
  /\ Dos \in Native /\ SetVector \in Vectors
  /\ Ending \subseteq Native /\ Fatal \subseteq Vectors /\ MaxFrames \in Nat
  /\ Handlers \subseteq [seg : Css, off : Ips] /\ UsedRegs \subseteq 1..NumRegs

VARIABLES
  ip, cs, flags, regs, sp,   \* core
  mem,                       \* the stack segment, by offset; Junk where no word
                             \* is saved
  ivt,                       \* the vector table, [seg, off] by number
  running,                   \* running_
  stored,                    \* history: the vectors the program has written
  frames                     \* history: what is on the stack, the oldest first,
                             \* with what it has to restore and the number of
                             \* words beneath it

intVars == <<ip, cs, flags, regs, sp, mem, ivt, running, stored, frames>>

-------------------------------------------------------------------------------
Frame ==
  [kind : {"word"}, at : Nat, word : Words] \cup [kind : {"near"}, at : Nat, ip : Words]
  \cup [kind : {"int"}, at : Nat, ip : Words, cs : Words, flags : Words]
  \cup [kind : {"all"}, at : Nat, regs : [1..NumRegs -> Words], sp : Words]

Size(f) == IF f.kind = "int" THEN 3 ELSE IF f.kind = "all" THEN 8 ELSE 1

(* The i-th word of a frame, in the order they are pushed.                 *)
WordOf(f, i) ==
  IF f.kind = "word" THEN f.word
  ELSE IF f.kind = "near" THEN f.ip
  ELSE IF f.kind = "int" THEN (IF i = 1 THEN f.flags ELSE IF i = 2 THEN f.cs ELSE f.ip)
  ELSE IF i < SpSlot THEN f.regs[i] ELSE IF i = SpSlot THEN f.sp ELSE f.regs[i - 1]

Depth == IF frames = <<>> THEN 0 ELSE Last(frames).at + Size(Last(frames))

Fits(n) == 2 * (Depth + n) <= Word           \* n more words do not wrap around
Room(n) == Len(frames) < MaxFrames /\ Fits(n)
TopIs(kind) == frames # <<>> /\ Last(frames).kind = kind

(* push() of every word of f in turn; the i-th word from the top.          *)
Stored(m, s, f) ==
  [o \in Offsets |->
     IF \E i \in 1..Size(f) : o = (s - 2 * i) % Word
     THEN WordOf(f, CHOOSE i \in 1..Size(f) : o = (s - 2 * i) % Word) ELSE m[o]]
Top(m, s, i) == m[(s + 2 * (i - 1)) % Word]

PushAbove(f) ==               \* wrong: stored before sp is decremented
  /\ mem' = Stored(mem, sp + 2, f) /\ sp' = (sp - 2 * Size(f)) % Word
  /\ frames' = Append(frames, f)

Push(f) ==
  /\ mem' = Stored(mem, sp, f) /\ sp' = (sp - 2 * Size(f)) % Word
  /\ frames' = Append(frames, f)

(* pop(), n times.                                                         *)
Forgotten(m, s, n) ==
  [o \in Offsets |-> IF \E i \in 1..n : o = (s + 2 * (i - 1)) % Word THEN Junk ELSE m[o]]

DropUnbounded(n) ==           \* wrong: sp does not wrap around
  mem' = Forgotten(mem, sp, n) /\ sp' = sp + 2 * n

Drop(n) == mem' = Forgotten(mem, sp, n) /\ sp' = (sp + 2 * n) % Word

-------------------------------------------------------------------------------
(* Dos::Dos() writes the low byte of the first 255 vectors.                *)
Unhooked(v) == [seg |-> 0, off |-> IF v = LastVector THEN 0 ELSE v]

InterruptsInit ==
  /\ ip \in Ips /\ cs \in Css /\ flags \in FlagWords /\ regs \in RegFiles
  /\ sp = FirstSp /\ mem = [o \in Offsets |-> Junk]
  /\ ivt = [v \in Vectors |-> Unhooked(v)]
  /\ running = TRUE /\ stored = {} /\ frames = <<>>

(* Instructions that compute and jump.                                     *)
Compute ==
  /\ running
  /\ ip' \in Ips /\ cs' \in Css /\ flags' \in FlagWords /\ regs' \in RegFiles
  /\ UNCHANGED <<sp, mem, ivt, running, stored, frames>>

(* CALL rel16, CALL r/m16; RET and RET imm16, which drops n words more.    *)
CallNear ==
  /\ running /\ Room(1)
  /\ Push([kind |-> "near", at |-> Depth, ip |-> ip]) /\ ip' \in Ips
  /\ UNCHANGED <<cs, flags, regs, ivt, running, stored>>

RetNear(n) ==
  /\ running /\ TopIs("near") /\ n < Len(frames)
  /\ \A i \in 1..n : frames[Len(frames) - i].kind = "word"
  /\ ip' = Top(mem, sp, 1) /\ Drop(1 + n)
  /\ frames' = SubSeq(frames, 1, Len(frames) - 1 - n)
  /\ UNCHANGED <<cs, flags, regs, ivt, running, stored>>

(* PUSH r16, PUSHF; POP r16, POPF.                                         *)
PushWord(w) ==
  /\ running /\ Room(1)
  /\ Push([kind |-> "word", at |-> Depth, word |-> w])
  /\ UNCHANGED <<ip, cs, flags, regs, ivt, running, stored>>
PushReg(r) == PushWord(regs[r])
PushFlags == PushWord(flags)

PopReg(r) ==
  /\ running /\ TopIs("word")
  /\ regs' = [regs EXCEPT ![r] = Top(mem, sp, 1)] /\ Drop(1)
  /\ frames' = Front(frames)
  /\ UNCHANGED <<ip, cs, flags, ivt, running, stored>>

PopFlags ==
  /\ running /\ TopIs("word") /\ Last(frames).word \in FlagWords
  /\ flags' = Top(mem, sp, 1) /\ Drop(1)
  /\ frames' = Front(frames)
  /\ UNCHANGED <<ip, cs, regs, ivt, running, stored>>

PushAll ==
  /\ running /\ Room(8)
  /\ Push([kind |-> "all", at |-> Depth, regs |-> regs, sp |-> sp])
  /\ UNCHANGED <<ip, cs, flags, regs, ivt, running, stored>>

PopAllSwapped ==              \* wrong: si before di
  /\ running /\ TopIs("all")
  /\ regs' = [r \in 1..NumRegs |->
                Top(mem, sp, IF r < SpSlot THEN 9 - r ELSE r - SpSlot + 1)]
  /\ Drop(8) /\ frames' = Front(frames)
  /\ UNCHANGED <<ip, cs, flags, ivt, running, stored>>

(* POPA skips the word of sp.                                              *)
PopAll ==
  /\ running /\ TopIs("all")
  /\ regs' = [r \in 1..NumRegs |->
                Top(mem, sp, IF r < SpSlot THEN 9 - r ELSE NumRegs + 1 - r)]
  /\ Drop(8) /\ frames' = Front(frames)
  /\ UNCHANGED <<ip, cs, flags, ivt, running, stored>>

-------------------------------------------------------------------------------
(* call_interrupt()                                                        *)

AtCall == [kind |-> "int", at |-> Depth, flags |-> flags, cs |-> cs, ip |-> ip]
FlagsOf(f) == [kind |-> "word", at |-> f.at, word |-> f.flags]

Hooked(v) == ivt[v].seg # 0 \/ ivt[v].off # v

(* The vector points elsewhere: the program's handler is entered.          *)
EnterHandler(v) ==
  /\ running /\ Hooked(v) /\ Room(3)
  /\ Push(AtCall)
  /\ cs' = ivt[v].seg /\ ip' = ivt[v].off
  /\ UNCHANGED <<flags, regs, ivt, running, stored>>

(* The words pushed for door86's own handler are popped again after it.    *)
PopBackForgetful(m, s) ==     \* wrong: the flags are those the service left
  ip' = Top(m, s, 1) /\ cs' = Top(m, s, 2) /\ flags' \in FlagWords

PopBack(m, s) == ip' = Top(m, s, 1) /\ cs' = Top(m, s, 2) /\ flags' = Top(m, s, 3)

PushedAndPopped ==
  /\ UNCHANGED <<sp, frames>>
  /\ LET m == Stored(mem, sp, AtCall) IN
       PopBack(m, sp - 6) /\ mem' = Forgotten(m, sp - 6, 3)

(* door86 handles the interrupt itself; registers may hold its answers.    *)
Serve(v) ==
  /\ running /\ ~Hooked(v) /\ v \in Native /\ Fits(3)
  /\ UNCHANGED <<ivt, stored>>
  /\ PushedAndPopped
  /\ regs' \in RegFiles
  /\ running' = (v \notin Ending)

(* Nobody handles it: INT 3 and 86h to F0h end the program.                *)
Unhandled(v) ==
  /\ running /\ ~Hooked(v) /\ v \notin Native /\ Fits(3)
  /\ UNCHANGED <<regs, ivt, stored>>
  /\ PushedAndPopped
  /\ running' = (v \notin Fatal)

RetFarSwapped ==              \* wrong: cs before ip
  /\ running /\ TopIs("int")
  /\ cs' = Top(mem, sp, 1) /\ ip' = Top(mem, sp, 2)
  /\ Drop(2) /\ frames' = Append(Front(frames), FlagsOf(Last(frames)))
  /\ UNCHANGED <<flags, regs, ivt, running, stored>>

(* RET far, with and without a count (the count is never decoded): the way *)
(* out of a handler that works.  It leaves the flags to a POPF.            *)
RetFar ==
  /\ running /\ TopIs("int")
  /\ ip' = Top(mem, sp, 1) /\ cs' = Top(mem, sp, 2)
  /\ Drop(2) /\ frames' = Append(Front(frames), FlagsOf(Last(frames)))
  /\ UNCHANGED <<flags, regs, ivt, running, stored>>

(* IRET: the decoder has CFh as not implemented, so execute() gives up and *)
(* the next instruction follows; the code that would pop is not reached.   *)
Iret ==
  /\ running /\ TopIs("int")
  /\ ip' \in Ips
  /\ UNCHANGED <<cs, flags, regs, sp, mem, ivt, running, stored, frames>>

(* The program writes a vector in memory.                                  *)
StoreVector(v, h) ==
  /\ running
  /\ ivt' = [ivt EXCEPT ![v] = h] /\ stored' = stored \cup {v}
  /\ UNCHANGED <<ip, cs, flags, regs, sp, mem, running, frames>>

(* INT 21h, AH = 25h: the vector is taken from AH, the pointer from memory *)
(* at DS:DX; al is the vector and h the DS:DX the program passed.          *)
Int21SetVector(al, h, w) ==
  /\ running /\ ~Hooked(Dos) /\ Fits(3)
  /\ PushedAndPopped
  /\ ivt' = [ivt EXCEPT ![SetVector] = w] /\ stored' = stored \cup {SetVector}
  /\ UNCHANGED <<regs, running>>

Interrupt(v) == EnterHandler(v) \/ Serve(v) \/ Unhandled(v)

InterruptsNext ==
  \/ Compute \/ CallNear \/ PushFlags \/ PopFlags \/ PushAll \/ PopAll
  \/ RetFar \/ Iret
  \/ \E n \in 0..MaxFrames : RetNear(n)
  \/ \E r \in UsedRegs : PushReg(r) \/ PopReg(r)
  \/ \E v \in Vectors : Interrupt(v)
  \/ \E v \in Hookable, h \in Handlers : StoreVector(v, h)
  \/ \E v \in Vectors, h, w \in Handlers : Int21SetVector(v, h, w)

InterruptsSpec == InterruptsInit /\ [][InterruptsNext]_intVars

-------------------------------------------------------------------------------
(* Types of the variables. *)
InterruptsTypeOK ==
  /\ ip \in Words /\ cs \in Words /\ flags \in Words /\ regs \in [1..NumRegs -> Words]
  /\ sp \in Offsets /\ mem \in [Offsets -> Words \cup {Junk}]
  /\ ivt \in [Vectors -> [seg : Words, off : Words]]
  /\ running \in BOOLEAN /\ stored \subseteq Vectors
  /\ frames \in Seq(Frame)

(* The stack in memory is the stack of what is under way: every word that  *)
(* a call, an interrupt or a push has saved and nothing has taken back is  *)
(* where it was put, and sp is just below the last of them, also where sp  *)
(* has wrapped around (cpu.cpp 1274-1312, 1399-1417).                      *)
StackHoldsFrames ==
  /\ sp = (FirstSp - 2 * Depth) % Word
  /\ \A k \in DOMAIN frames : \A i \in 1..Size(frames[k]) :
       mem[(FirstSp - 2 * (frames[k].at + i)) % Word] = WordOf(frames[k], i)

(* What takes something off the stack restores what was saved: RET the ip, *)
(* RETF from an interrupt ip and cs, POPA all registers but sp, POP and    *)
(* POPF the word pushed, whatever was called and interrupted in between.   *)
Restored(f) ==
  /\ f.kind = "near" => ip' = f.ip /\ UNCHANGED <<cs, flags, regs>>
  /\ f.kind = "int"  => ip' = f.ip /\ cs' = f.cs /\ UNCHANGED <<flags, regs>>
  /\ f.kind = "all"  => regs' = f.regs /\ UNCHANGED <<ip, cs, flags>>
  /\ f.kind = "word" => /\ UNCHANGED <<ip, cs>>
                        /\ \/ flags' = f.word /\ UNCHANGED regs
                           \/ /\ \E r \in 1..NumRegs : regs' = [regs EXCEPT ![r] = f.word]
                              /\ UNCHANGED flags
TakenOff ==
  \/ Len(frames') < Len(frames)
  \/ frames # <<>> /\ frames'[Len(frames)].kind # Last(frames).kind
ReturnsRestore == [][TakenOff => Restored(Last(frames))]_intVars

(* An interrupt whose vector nobody has written comes back at once: the    *)
(* program goes on behind it with its flags and its stack as they were,    *)
(* whether door86 serves it or not (cpu.cpp 1291-1311).                    *)
UnhookedIsTransparent ==
  [][\A v \in Vectors \ stored : Interrupt(v) => UNCHANGED <<ip, cs, flags, sp, frames>>]_intVars
===============================================================================
