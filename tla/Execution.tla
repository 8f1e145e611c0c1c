------------------------------- MODULE Execution -------------------------------
(***************************************************************************)
(* run() and execute() (src/cpu/x86/cpu.cpp): an instruction is decoded,   *)
(* ip moves behind it, and it is carried out, again and again under REP or *)
(* REPNE.  The string instructions and the loops are modelled by what they *)
(* do; of every other instruction it is left open what it does to          *)
(* registers and memory (modules Alu and Interrupts), so that this one is  *)
(* about where ip is, what the operands are and how often things happen.   *)
(*                                                                         *)
(* Programs are straight pieces of code, placed at ip = 1: returns, calls  *)
(* through memory and interrupts leave them, jumps stay within them.  DS   *)
(* and ES are the same segment and no program overwrites its own code.     *)
(***************************************************************************)
EXTENDS Decoder, Integers, Sequences

CONSTANTS
  W,            \* 2^16: the values of a register and the bytes of a segment
  Values,       \* values of a byte of data
  Beginnings,   \* [code, starts, regs, data]: a program, and the registers
                \*   and contents of memory it may begin with
  Registers,    \* register contents and data that the other instructions
  Contents      \*   may leave

(* Flags and registers, and one segment of data with the byte above it.    *)
RegFile == [cx : 0..(W - 1), si : 0..(W - 1), di : 0..(W - 1), al : Values, ah : Values,
            zf : BOOLEAN, df : BOOLEAN]
Segment == [0..W -> Values]

VARIABLES
  code,         \* the bytes of the program
  starts,       \* where its instructions are meant to begin
  ip, regs, data,
  inst,         \* the instruction being carried out, or carried out last
  phase,        \* "fetch", "execute", or "gone" from the program
  before,       \* history: ip, registers and data when inst was fetched
  first         \* history: registers and data at the beginning

execVars == <<code, starts, ip, regs, data, inst, phase, before, first>>

Repeats == {\hF2, \hF3}
Strings == (\hA4..\hA7) \cup (\hAA..\hAF)
CountedJumps == \hE0..\hE3
ConditionalJumps == \h70..\h7F
Jumps == {\hE8, \hE9, \hEB}
Transfers == CountedJumps \cup ConditionalJumps \cup Jumps
(* RET, RETF, INT, CALL and JMP through a register or memory, what writes  *)
(* CS; and, which is fatal, LEA of a register and a move from or to a      *)
(* segment register there is none of.                                      *)
Departs(i) ==
  \/ i.op \in {\h0F, \hC2, \hC3, \hCA, \hCB, \hCC, \hCD}
  \/ i.op = \hFF /\ i.mdrm.reg \in {2, 4, 5}
  \/ i.op = \h8E /\ i.mdrm.reg = 1
  \/ i.op = \h8D /\ i.mdrm.mod = 3
  \/ i.op \in {\h8C, \h8E} /\ i.mdrm.reg > 5

(* rel8 and rel16 have a sign.                                             *)
Relative(i) ==
  IF ImmLen(i.op) = 1 THEN IF i.imm < 128 THEN i.imm ELSE i.imm - 256
  ELSE IF i.imm < 32768 THEN i.imm ELSE i.imm - 65536

(* What a program may contain: the decoder knows its instructions, each is *)
(* followed by another or by the end, and jumps lead to instructions and   *)
(* are not repeated.                                                       *)
Sensible(c, s, i) ==
  /\ Whole(c, i) /\ Known(c, i) /\ i + EncodedLen(c, i) \in s
  /\ EncodedOp(c, i) \in Transfers =>
       c[i] \notin Repeats /\ i + EncodedLen(c, i) + EncodedRelative(c, i) \in s
Program(c, s) ==
  /\ c \in Seq(Byte) /\ 1 \in s /\ s \subseteq 1..(Len(c) + 1)
  /\ \A i \in s \ {Len(c) + 1} : Sensible(c, s, i)

ASSUME ExecutionAssumption ==
  /\ W \in Nat /\ W > 1
  /\ Registers \subseteq RegFile /\ Contents \subseteq Segment
  /\ \A b \in Beginnings :
       b.regs \subseteq RegFile /\ b.data \subseteq Segment /\ Program(b.code, b.starts)

NoInst == [op |-> \h90, prefix |-> 0, mdrm |-> ParseModrm(0), disp |-> 0, imm |-> 0, len |-> 0]

ExecInit ==
  /\ \E b \in Beginnings :
       code = b.code /\ starts = b.starts /\ regs \in b.regs /\ data \in b.data
  /\ ip = 1 /\ inst = NoInst /\ phase = "fetch"
  /\ before = [ip |-> ip, regs |-> regs, data |-> data]
  /\ first = [regs |-> regs, data |-> data]

-------------------------------------------------------------------------------
(* The body of the loop of run(), up to execute().                         *)
Fetch ==
  /\ phase = "fetch" /\ ip <= Len(code)
  /\ inst' = Decode(code, ip)
  /\ ip' = ip + inst'.len
  /\ before' = [ip |-> ip, regs |-> regs, data |-> data]
  /\ phase' = "execute"
  /\ UNCHANGED <<code, starts, regs, data, first>>

(* Not implemented: a warning, and the instruction is passed over.         *)
Skip ==
  /\ phase = "execute" /\ inst.op \in NotImplemented
  /\ phase' = "fetch"
  /\ UNCHANGED <<code, starts, ip, regs, data, inst, before, first>>

Executing(ops) == phase = "execute" /\ inst.op \in ops

(* The end of the do-while loop of execute(), with r the registers after   *)
(* this pass.  cx is counted for every instruction with a prefix.          *)
DoneBeforeCount(r) ==            \* wrong: cx is tested before it is decremented
  \/ inst.prefix \notin Repeats \/ r.cx = 0
  \/ inst.prefix = \hF3 /\ inst.op \in UsesRepZf /\ r.zf
  \/ inst.prefix = \hF2 /\ (inst.op \in UsesRepZf => ~r.zf)
Done(r) ==
  \/ inst.prefix \notin Repeats \/ r.cx = 1
  \/ inst.prefix = \hF3 /\ inst.op \in UsesRepZf /\ r.zf
  \/ inst.prefix = \hF2 /\ (inst.op \in UsesRepZf => ~r.zf)
EndPass(r) ==
  /\ regs' = (IF inst.prefix \in Repeats THEN [r EXCEPT !.cx = (@ - 1) % W] ELSE r)
  /\ phase' = (IF Done(r) THEN "fetch" ELSE "execute")
  /\ UNCHANGED <<code, starts, inst, before, first>>

-------------------------------------------------------------------------------
(* The string instructions, on bytes and on words.  A word at the end of   *)
(* the segment reaches into the byte above it.                             *)

Width(op) == IF op % 2 = 0 THEN 1 ELSE 2
Item(d, o, n) == [k \in 1..n |-> d[o + k - 1]]
PutBackwards(d, o, v) ==         \* wrong: the bytes of a word in the wrong order
  [x \in DOMAIN d |-> IF x - o \in 0..(Len(v) - 1) THEN v[Len(v) - (x - o)] ELSE d[x]]
Put(d, o, v) ==
  [x \in DOMAIN d |-> IF x - o \in 0..(Len(v) - 1) THEN v[x - o + 1] ELSE d[x]]
Accumulator(r, n) == IF n = 1 THEN <<r.al>> ELSE <<r.al, r.ah>>
StepUnbounded(r, p) ==           \* wrong: the pointer does not wrap around
  IF r.df THEN p - Width(inst.op) ELSE p + Width(inst.op)
Step(r, p) == (IF r.df THEN p - Width(inst.op) ELSE p + Width(inst.op)) % W

Movs ==
  /\ Executing({\hA4, \hA5})
  /\ data' = Put(data, regs.di, Item(data, regs.si, Width(inst.op)))
  /\ EndPass([regs EXCEPT !.si = Step(regs, @), !.di = Step(regs, @)])
  /\ UNCHANGED ip

(* Words are compared in both widths, and si stays where it is.            *)
Cmps ==
  /\ Executing({\hA6, \hA7})
  /\ EndPass([regs EXCEPT !.zf = Item(data, regs.si, 2) = Item(data, regs.di, 2),
                          !.di = Step(regs, @)])
  /\ UNCHANGED <<ip, data>>

Stos ==
  /\ Executing({\hAA, \hAB})
  /\ data' = Put(data, regs.di, Accumulator(regs, Width(inst.op)))
  /\ EndPass([regs EXCEPT !.di = Step(regs, @)])
  /\ UNCHANGED ip

Lods ==
  /\ Executing({\hAC, \hAD})
  /\ LET v == Item(data, regs.si, Width(inst.op)) IN
       EndPass([regs EXCEPT !.al = v[1], !.ah = IF Len(v) = 2 THEN v[2] ELSE @,
                            !.si = Step(regs, @)])
  /\ UNCHANGED <<ip, data>>

(* scas_m8() and scas_m16().                                               *)
Scas ==
  /\ Executing({\hAE, \hAF})
  /\ LET n == Width(inst.op) IN
       EndPass([regs EXCEPT !.zf = Accumulator(regs, n) = Item(data, regs.di, n),
                            !.di = Step(regs, @)])
  /\ UNCHANGED <<ip, data>>

-------------------------------------------------------------------------------
(* LOOPNE, LOOPE and LOOP test cx, then decrement it; JCXZ leaves it.      *)
LoopsBackSwapped(r) ==           \* wrong: LOOPNE and LOOPE the other way round
  \/ inst.op = \hE0 /\ r.cx # 0 /\ r.zf
  \/ inst.op = \hE1 /\ r.cx # 0 /\ ~r.zf
  \/ inst.op = \hE2 /\ r.cx # 0
  \/ inst.op = \hE3 /\ r.cx = 0
LoopsBack(r) ==
  \/ inst.op = \hE0 /\ r.cx # 0 /\ ~r.zf
  \/ inst.op = \hE1 /\ r.cx # 0 /\ r.zf
  \/ inst.op = \hE2 /\ r.cx # 0
  \/ inst.op = \hE3 /\ r.cx = 0
Loop ==
  /\ Executing(CountedJumps)
  /\ ip' = IF LoopsBack(regs) THEN ip + Relative(inst) ELSE ip
  /\ EndPass(IF inst.op = \hE3 THEN regs ELSE [regs EXCEPT !.cx = (@ - 1) % W])
  /\ UNCHANGED data

Jump ==
  /\ Executing(Jumps \cup ConditionalJumps)
  /\ ip' = ip + Relative(inst) \/ (inst.op \in ConditionalJumps /\ UNCHANGED ip)
  /\ EndPass(regs)
  /\ UNCHANGED data

Depart ==
  /\ phase = "execute" /\ Departs(inst)
  /\ phase' = "gone"
  /\ UNCHANGED <<code, starts, ip, regs, data, inst, before, first>>

Other ==
  /\ phase = "execute" /\ inst.op \notin NotImplemented \cup Strings \cup Transfers
  /\ ~Departs(inst)
  /\ data' \in Contents /\ \E r \in Registers : EndPass(r)
  /\ UNCHANGED ip

ExecNext ==
  \/ Fetch \/ Skip \/ Movs \/ Cmps \/ Stos \/ Lods \/ Scas
  \/ Loop \/ Jump \/ Depart \/ Other

ExecSpec == ExecInit /\ [][ExecNext]_execVars

-------------------------------------------------------------------------------
(* Types of the variables.                                                 *)
ExecTypeOK ==
  /\ Program(code, starts) /\ ip \in Int
  /\ regs \in RegFile /\ data \in Segment
  /\ inst.op \in Byte /\ inst.prefix \in Prefixes \cup {0}
  /\ phase \in {"fetch", "execute", "gone"}
  /\ before.regs \in RegFile /\ before.data \in Segment
  /\ first.regs \in RegFile /\ first.data \in Segment

(* ip is always where an instruction begins: no row of the decoder's table *)
(* of opcodes but those Known leaves out, no form of an operand and no     *)
(* prefix makes it lose its step (decoder.cpp 12-300, 362-442; cpu.cpp     *)
(* 1327-1335).                                                             *)
InStep == ip \in starts

(* The operands of the instruction being carried out are those the program *)
(* has at that place, in the right segment.  Excepted are                  *)
(*  - constants that the code takes out of the displacement (cpu.cpp 922,  *)
(*    927, 937, 967-988), those of MUL and IMUL included, which never look *)
(*    at their operand (cpu.cpp 1137-1186), nor do the rows without a case;*)
(*  - bytes above 7Fh that 6Ah and 83h take without their sign (cpu.cpp    *)
(*    417, 573-631; rmm.h 132-133 says that they are sign-extended);       *)
(*  - eight bit displacements above 7Fh, added without their sign (rmm.cpp *)
(*    38), and far pointers that are not at a fixed address (cpu.cpp       *)
(*    901-918, 1226).                                                      *)
(* (decoder.cpp 321-360, 362-442; rmm.cpp 10-43)                           *)
LosesSign(i) == i.op \in SignExtended /\ i.imm > 127
OperandsAsEncoded ==
  phase = "execute" =>
    LET operand == EncodedOperand(code, before.ip) IN
    /\ inst.op = EncodedOp(code, before.ip)
    /\ ~TakesDisp8(inst) /\ ~TakesDisp16(inst) /\ ~LosesSign(inst) =>
         Constant(inst) = EncodedConstant(code, before.ip)
    /\ InMemory(code, before.ip) /\ ~TakesDispAsFactor(inst) /\ ~HasNoCase(inst)
         /\ operand.disp >= 0 /\ (FarPointer(inst) => operand.base = {})
       => Operand(inst) = operand

-------------------------------------------------------------------------------
(* Where pointer p of registers r is when pass k begins, on items of n     *)
(* bytes; the times REP counts to, which are all 65536 when cx is 0.       *)
At(r, p, k, n) == (p + (k - 1) * (IF r.df THEN -n ELSE n)) % W
Times(r) == IF r.cx = 0 THEN W ELSE r.cx
Found(m, k, n) == Item(m.data, At(m.regs, m.regs.di, k, n), n) = Accumulator(m.regs, n)
Repeated(ops) == phase = "fetch" /\ inst.prefix = \hF3 /\ inst.op \in ops

(* F3 SCAS stops behind the first item equal to the accumulator, or when   *)
(* cx is used up, with cx and the pointer telling how far it came and ZF   *)
(* whether it found one (cpu.cpp 748-774, 1376-1384); cpu_test.cpp:83-95   *)
(* is one case of it.                                                      *)
ScanStopsAtTheFirst ==
  LET b == before.regs
      n == Width(inst.op)
  IN Repeated({\hAE, \hAF}) => \E k \in 1..Times(b) :
       /\ \A j \in 1..(k - 1) : ~Found(before, j, n)
       /\ k = Times(b) \/ Found(before, k, n)
       /\ regs = [b EXCEPT !.cx = (@ - k) % W, !.di = At(b, @, k + 1, n),
                           !.zf = Found(before, k, n)]
       /\ data = before.data

(* F3 MOVS and F3 STOS, if ZF is clear, move or fill the whole block and   *)
(* nothing beside it, in either direction and across the end of the        *)
(* segment, when the blocks lie apart (cpu.cpp 798-808, 835-845,           *)
(* 1376-1384).  With ZF set they stop after the first item.                *)
Cells(r, p, n) == UNION {At(r, p, k, n)..(At(r, p, k, n) + n - 1) : k \in 1..Times(r)}
BlockIsMoved ==
  LET b == before.regs
      n == Width(inst.op)
      moves == inst.op \in {\hA4, \hA5}
      N == Times(b)
      Given(k) == IF moves THEN Item(before.data, At(b, b.si, k, n), n) ELSE Accumulator(b, n)
      To(k) == At(b, b.di, k, n)
      Holds(x, k) == x \in To(k)..(To(k) + n - 1)
      filled == Cells(b, b.di, n)
  IN Repeated({\hA4, \hA5, \hAA, \hAB}) /\ ~b.zf /\ n * N <= W
       /\ (moves => filled \cap Cells(b, b.si, n) = {}) =>
     /\ \A k \in 1..N : Item(data, To(k), n) = Given(k)
     /\ \A x \in (0..W) \ filled : data[x] = before.data[x]
     /\ regs = [b EXCEPT !.cx = 0, !.di = To(N + 1),
                         !.si = IF moves THEN At(b, @, N + 1, n) ELSE @]

(* A string instruction and a LOOP, LOOPE or LOOPNE back to it: the loop   *)
(* is left behind the first pass at which ZF ends it, else when cx has     *)
(* been counted down, and not before; registers and data are those of as   *)
(* many passes (cpu.cpp 1061-1080).  It is not told whether LOOP counts cx *)
(* before it looks at it, as the processor does (Times), or behind, as the *)
(* code does, which makes a pass more.                                     *)
StringLoops == {<<op, loop, 253>> : op \in {\hAA, \hAE}, loop \in {\hE0, \hE1, \hE2}}
LoopRunsItsCourse ==
  LET b == first.regs
      Zf(k) == IF code[1] = \hAE THEN Found(first, k, 1) ELSE b.zf
      Goes(k) == (code[2] = \hE0 => ~Zf(k)) /\ (code[2] = \hE1 => Zf(k))
      ends == {Times(b), b.cx + 1}
  IN code \in StringLoops /\ phase = "fetch" /\ ip = 4 => \E k \in UNION {1..e : e \in ends} :
       /\ \A j \in 1..(k - 1) : Goes(j)
       /\ k \in ends \/ ~Goes(k)
       /\ regs = [b EXCEPT !.cx = (@ - k) % W, !.di = At(b, @, k + 1, 1), !.zf = Zf(k)]
       /\ data = [x \in 0..W |->
            IF code[1] = \hAA /\ \E j \in 1..k : x = At(b, b.di, j, 1) THEN b.al
            ELSE first.data[x]]

(* LEA computes the address it is given: testea.asm:105-108 expects the    *)
(* eight bit displacement 80h to count as FF80h (rmm.cpp 38).              *)
DisplacementIsSigned ==
  phase = "execute" /\ inst.op = \h8D /\ InMemory(code, before.ip) =>
    Operand(inst).disp = EncodedOperand(code, before.ip).disp

===============================================================================
