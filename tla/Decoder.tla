-------------------------------- MODULE Decoder --------------------------------
(***************************************************************************)
(* The instruction decoder (src/cpu/x86/decoder.cpp): the table of opcodes *)
(* as the sets of opcodes that have each mask, and decode() as a function  *)
(* of the bytes at ip.  What a row of the table says about names and       *)
(* widths, for DebugString(), is left out.                                 *)
(***************************************************************************)
EXTENDS Integers

Byte == 0..255

-------------------------------------------------------------------------------
(* create_opcode_metadata(): the first rows, eight for each operation of   *)
(* arithmetic or logic, and the others.                                    *)

Column(c) == {op \in 0..63 : op % 8 = c}

Modrm8 == Column(0) \cup Column(2) \cup
  {\h80, \h82, \h84, \h86, \h88, \h8A, \hC0, \hC6, \hD0, \hD2, \hF6, \hFE}
Modrm16 == Column(1) \cup Column(3) \cup
  {\h81, \h83, \h85, \h87, \h89, \h8B, \h8C, \h8D, \h8E, \h8F,
   \hC1, \hC4, \hC5, \hC7, \hD1, \hD3, \hF7, \hFF}
Imm8NoShift == Column(4) \cup (\h70..\h7F) \cup (\hB0..\hB7) \cup (\hD8..\hE7) \cup
  {\h6A, \h80, \h83, \hA8, \hC6, \hCD, \hEB}     \* wrong: C0 and C1 without imm8
Imm8 == Column(4) \cup (\h70..\h7F) \cup (\hB0..\hB7) \cup (\hD8..\hE7) \cup
  {\h6A, \h80, \h83, \hA8, \hC0, \hC1, \hC6, \hCD, \hEB}
Imm16 == Column(5) \cup (\hA0..\hA3) \cup (\hB8..\hBF) \cup
  {\h68, \h81, \hA9, \hC2, \hC7, \hCA, \hE8, \hE9}
NotImplemented ==
  {\h26, \h27, \h2E, \h2F, \h36, \h37, \h3E, \h3F} \cup (\h62..\h67) \cup
  {\h69} \cup (\h6B..\h6F) \cup {\h82, \h8F, \h9A, \h9B, \h9E, \h9F, \hC8, \hC9, \hCF}
  \cup (\hD4..\hDF) \cup {\hEA} \cup (\hF0..\hF4)
UsesRepZf == (\h6C..\h6F) \cup (\hA4..\hA7) \cup (\hAA..\hAF)

(* Segment overrides, LOCK, REPNE and REP.                                 *)
Prefixes == {\h26, \h2E, \h36, \h3E, \hF0, \hF2, \hF3}
Override ==
  [p \in {\h26, \h2E, \h36, \h3E} |->
     CASE p = \h26 -> "ES" [] p = \h2E -> "CS" [] p = \h36 -> "SS" [] p = \h3E -> "DS"]

-------------------------------------------------------------------------------
(* decode().                                                               *)

ParseModrm(b) == [mod |-> b \div 64, reg |-> (b \div 8) % 8, rm |-> b % 8]

HasModrm(op) == op \in Modrm8 \cup Modrm16

DispLen(m) ==
  IF m.mod = 2 \/ (m.mod = 0 /\ m.rm = 6) THEN 2 ELSE IF m.mod = 1 THEN 1 ELSE 0

ImmLen(op) == IF op \in Imm8 THEN 1 ELSE IF op \in Imm16 THEN 2 ELSE 0

(* The n bytes of code from i on, the lowest first; 0 if there are none.   *)
Value(code, i, n) ==
  IF n = 0 THEN 0 ELSE IF n = 1 THEN code[i] ELSE code[i] + 256 * code[i + 1]

(* The instruction that starts at code[i].  Only one prefix is taken: what *)
(* follows it is the opcode, even if it is a prefix itself.                *)
Decode(code, i) ==
  LET pre  == IF code[i] \in Prefixes THEN 1 ELSE 0
      op   == code[i + pre]
      hasM == HasModrm(op)
      m    == IF hasM THEN ParseModrm(code[i + pre + 1]) ELSE ParseModrm(0)
      d    == IF hasM THEN DispLen(m) ELSE 0
      atD  == i + pre + (IF hasM THEN 2 ELSE 1)
      n    == ImmLen(op)
  IN [op |-> op, prefix |-> IF pre = 1 THEN code[i] ELSE 0, mdrm |-> m,
      disp |-> Value(code, atD, d), imm |-> Value(code, atD + d, n),
      len |-> (atD - i) + d + n]

(* The operand in memory: effective_address() and seg_index().  An eight   *)
(* bit displacement is added without its sign.                             *)
Base(m) ==
  IF m.rm = 0 THEN {"bx", "si"} ELSE IF m.rm = 1 THEN {"bx", "di"}
  ELSE IF m.rm = 2 THEN {"bp", "si"} ELSE IF m.rm = 3 THEN {"bp", "di"}
  ELSE IF m.rm = 4 THEN {"si"} ELSE IF m.rm = 5 THEN {"di"}
  ELSE IF m.rm = 7 THEN {"bx"} ELSE IF m.mod = 0 THEN {} ELSE {"bp"}
AlwaysDS(m) == "DS"              \* wrong: BP does not address the stack
DefaultSegment(m) == IF m.rm \in {2, 3} \/ (m.rm = 6 /\ m.mod # 0) THEN "SS" ELSE "DS"
SegIndex(inst) ==
  IF inst.prefix \in DOMAIN Override THEN Override[inst.prefix] ELSE DefaultSegment(inst.mdrm)

(* Far pointers, of LES, LDS and JMP, are read at the displacement alone.  *)
FarPointer(inst) == inst.op \in {\hC4, \hC5} \/ (inst.op = \hFF /\ inst.mdrm.reg = 5)
Disp16(inst) == IF HasModrm(inst.op) /\ DispLen(inst.mdrm) = 2 THEN inst.disp ELSE 0

(* MUL and IMUL multiply by the displacement; for DIV, IDIV and the rows   *)
(* of FEh and FFh that are not handled there is no case.                   *)
TakesDispAsFactor(inst) == inst.op \in {\hF6, \hF7} /\ inst.mdrm.reg \in {4, 5}
HasNoCase(inst) ==
  \/ inst.op \in {\hF6, \hF7} /\ inst.mdrm.reg > 5
  \/ inst.op = \hFE /\ inst.mdrm.reg > 1
  \/ inst.op = \hFF /\ inst.mdrm.reg \in {3, 7}

(* The operand in memory that execute() works with, if any.                *)
NoOperand == [seg |-> "none", base |-> {}, disp |-> 0]
Operand(inst) ==
  IF TakesDispAsFactor(inst) \/ HasNoCase(inst) THEN NoOperand
  ELSE [seg |-> SegIndex(inst),
        base |-> IF FarPointer(inst) THEN {} ELSE Base(inst.mdrm),
        disp |-> IF FarPointer(inst) THEN Disp16(inst) ELSE inst.disp]

(* The constant that the instruction works with: MUL and IMUL, rotates and *)
(* shifts by a number, MOV r/m, imm and RETF imm take the displacement for *)
(* it, of their own width, 0 if there is none.  PUSH imm8 and 83h take     *)
(* their byte as it is.                                                    *)
TakesDisp8(inst) ==
  inst.op \in {\hC0, \hC1, \hC6} \/ (inst.op = \hF6 /\ TakesDispAsFactor(inst))
TakesDisp16(inst) ==
  inst.op \in {\hC7, \hCA} \/ (inst.op = \hF7 /\ TakesDispAsFactor(inst))
Disp8(inst) == IF HasModrm(inst.op) /\ DispLen(inst.mdrm) = 1 THEN inst.disp ELSE 0
Constant(inst) ==
  IF TakesDisp8(inst) THEN Disp8(inst)
  ELSE IF TakesDisp16(inst) THEN Disp16(inst) ELSE inst.imm

-------------------------------------------------------------------------------
(* The encoding of the 8086 (and, where the table has rows for them, of    *)
(* the 80186), to compare with: what follows the opcode, by its bits.      *)

(* Opcodes below 40h with a ModRM byte, 80h to 8Fh and the groups.         *)
EncodesModrm(op) ==
  \/ op < 64 /\ op % 8 < 4
  \/ op \in (\h80..\h8F) \cup {\h62, \h63, \h69, \h6B}
  \/ op \in {\hC0, \hC1, \hC4, \hC5, \hC6, \hC7} \cup (\hD0..\hD3) \cup (\hD8..\hDF)
  \/ op \in {\hF6, \hF7, \hFE, \hFF}

EncodedDisp(b) ==
  IF b \div 64 = 0 THEN (IF b % 8 = 6 THEN 2 ELSE 0)
  ELSE IF b \div 64 = 3 THEN 0 ELSE b \div 64

(* b is the ModRM byte, on which the groups F6h and F7h depend.            *)
EncodedImm(op, b) ==
  LET testing == (b \div 8) % 8 < 2
      one == {\h6A, \h6B, \h80, \h82, \h83, \hA8, \hC0, \hC1, \hC6, \hCD, \hD4, \hD5, \hEB}
               \cup (\h70..\h7F) \cup (\hB0..\hB7) \cup (\hE0..\hE7)
      two == {\h68, \h69, \h81, \hA9, \hC2, \hC7, \hCA, \hE8, \hE9}
               \cup (\hA0..\hA3) \cup (\hB8..\hBF)
  IN IF op \in one \/ (op < 64 /\ op % 8 = 4) \/ (op = \hF6 /\ testing) THEN 1
     ELSE IF op \in two \/ (op < 64 /\ op % 8 = 5) \/ (op = \hF7 /\ testing) THEN 2
     ELSE IF op = \hC8 THEN 3 ELSE IF op \in {\h9A, \hEA} THEN 4 ELSE 0

(* The same as Decode, of an instruction with at most one prefix.          *)
EncodedPrefix(code, i) == IF code[i] \in Prefixes THEN 1 ELSE 0
EncodedOp(code, i) == code[i + EncodedPrefix(code, i)]
EncodedModrm(code, i) ==
  IF EncodesModrm(EncodedOp(code, i)) THEN code[i + EncodedPrefix(code, i) + 1] ELSE 192
EncodedLen(code, i) ==
  LET op == EncodedOp(code, i)
      b == EncodedModrm(code, i)
  IN EncodedPrefix(code, i) + 1 + (IF EncodesModrm(op) THEN 1 ELSE 0)
       + EncodedDisp(b) + EncodedImm(op, b)

(* Opcode and ModRM byte are within the code.                              *)
Whole(code, i) ==
  /\ i + EncodedPrefix(code, i) \in DOMAIN code
  /\ EncodesModrm(EncodedOp(code, i)) => i + EncodedPrefix(code, i) + 1 \in DOMAIN code

(* What follows opcode and operand; as a constant of a word a single byte  *)
(* counts with its sign, and as the offset of a jump either does.          *)
EncodedValue(code, i) ==
  LET n == EncodedImm(EncodedOp(code, i), EncodedModrm(code, i)) IN
  Value(code, i + EncodedLen(code, i) - n, n)

SignExtended == {\h6A, \h6B, \h83}
EncodedConstant(code, i) ==
  LET v == EncodedValue(code, i) IN
  IF EncodedOp(code, i) \in SignExtended /\ v > 127 THEN v + 65280 ELSE v

EncodedRelative(code, i) ==
  LET n == EncodedImm(EncodedOp(code, i), EncodedModrm(code, i))
      v == EncodedValue(code, i)
  IN IF n = 1 /\ v > 127 THEN v - 256 ELSE IF n = 2 /\ v > 32767 THEN v - 65536 ELSE v

(* The operand in memory, if there is one; BP addresses the stack.         *)
InMemory(code, i) == EncodesModrm(EncodedOp(code, i)) /\ EncodedModrm(code, i) < 192
EncodedBase(b) ==
  IF b \div 64 = 0 /\ b % 8 = 6 THEN {}
  ELSE IF b % 8 < 4 THEN {IF b % 4 < 2 THEN "bx" ELSE "bp", IF b % 2 = 0 THEN "si" ELSE "di"}
  ELSE {(<<"si", "di", "bp", "bx">>)[(b % 8) - 3]}
EncodedOperand(code, i) ==
  LET b == EncodedModrm(code, i)
      n == EncodedDisp(b)
      v == Value(code, i + EncodedPrefix(code, i) + 2, n)
  IN [seg |-> IF code[i] \in DOMAIN Override THEN Override[code[i]]
              ELSE IF "bp" \in EncodedBase(b) THEN "SS" ELSE "DS",
      base |-> EncodedBase(b),
      disp |-> IF n = 1 /\ v > 127 THEN v - 256 ELSE v]

(* The instructions the decoder knows: one prefix at most, an opcode that  *)
(* has a row of its own, and not TEST r/m, imm, whose constant it does not *)
(* see.  Rows marked as not implemented decode nothing behind the opcode:  *)
(* those that have something there (POP r/m, CALL and JMP to a segment,    *)
(* ENTER, 82h and the coprocessor's among them) are not known.             *)
Known(code, i) ==
  LET op == EncodedOp(code, i) IN
  /\ op \notin Prefixes
  /\ op \in NotImplemented => ~EncodesModrm(op) /\ EncodedImm(op, 0) = 0
  /\ op \in {\hF6, \hF7} => (EncodedModrm(code, i) \div 8) % 8 > 1
===============================================================================
