---------------------------------- MODULE Alu ----------------------------------
(***************************************************************************)
(* The instructions that compute (src/cpu/x86/cpu.cpp): arithmetic and     *)
(* logic, INC and DEC, TEST, XCHG, MOV, shifts, MUL, and those that set a  *)
(* flag.  The program is any sequence of them.                             *)
(*                                                                         *)
(* A place is a register that has halves, or a word of memory, which       *)
(* behaves like one; "ax" and "dx" are the registers that instructions     *)
(* name by themselves.  An immediate may be any value, wherever in the     *)
(* instruction the decoder finds it; that of 83h is not sign-extended.     *)
(***************************************************************************)
EXTENDS Rmm

CONSTANTS
  Places,      \* where operands are
  Immediates   \* the immediate operands that programs use

ASSUME AluAssumption ==
  /\ {"ax", "dx"} \subseteq Places /\ Immediates \subseteq Words

VARIABLES
  regs,        \* the words in the places
  flags,       \* core.flags
  means        \* history: what CF, or SF and ZF, tell of the last instruction
               \* that set them, in the processor's terms

aluVars == <<regs, flags, means>>

-------------------------------------------------------------------------------
(* Operands: a whole place or one of its bytes, as r8, r16, rmm8 and rmm16 *)
(* return them.                                                            *)
Operands == [place : Places, part : {"x", "l", "h"}]
OfSize(m) == {d \in Operands : (d.part = "x") = (m = WordSize)}
ByteOperands == OfSize(ByteSize)
Size(d) == IF d.part = "x" THEN WordSize ELSE ByteSize

Get(d) ==
  CASE d.part = "x" -> regs[d.place]
    [] d.part = "l" -> regs[d.place] % ByteSize
    [] d.part = "h" -> regs[d.place] \div ByteSize

WithPartOver(old, part, v) ==  \* wrong: the old byte is not taken out
  CASE part = "x" -> v
    [] part = "l" -> old + v
    [] part = "h" -> v * ByteSize + (old % ByteSize)

WithPart(old, part, v) ==
  CASE part = "x" -> v
    [] part = "l" -> old - (old % ByteSize) + v
    [] part = "h" -> v * ByteSize + (old % ByteSize)
Put(r, d, v) == [r EXCEPT ![d.place] = WithPart(@, d.part, v)]

Sources(m) == {Get(s) : s \in OfSize(m)} \cup (Immediates \cap Values(m))

-------------------------------------------------------------------------------
(* What the flags mean: the outcome of a comparison, the sign of a result, *)
(* whether there was a carry.  "none" after instructions that set flags    *)
(* otherwise than the processor does: ADC, SBB, INC, DEC, NEG, MUL,        *)
(* CMP r/m8, r8, which compares the other way round, and shifts by other   *)
(* than 1.                                                                 *)
Meanings == {"none", "below", "equal", "above", "negative", "zero", "positive",
             "carry", "nocarry"}

Order(a, b) == IF a < b THEN "below" ELSE IF a = b THEN "equal" ELSE "above"
SignOf(m, v) == IF v = 0 THEN "zero" ELSE IF v < (m \div 2) THEN "positive" ELSE "negative"
CarryIf(b) == IF b THEN "carry" ELSE "nocarry"

Meaning(op, m, a, b) ==
  CASE op = "add" -> CarryIf(a + b >= m)
    [] op \in {"sub", "cmp"} -> Order(a, b)
    [] op = "and" -> SignOf(m, BitAnd(a, b))
    [] op = "or"  -> SignOf(m, BitOr(a, b))
    [] op = "xor" -> SignOf(m, BitXor(a, b))
    [] op \in {"adc", "sbb"} -> "none"

Shifting == {"shl", "rol", "rcl", "shr", "ror", "rcr", "sar"}
ShiftMeaning(op, m, a, p) ==
  IF p # 2 THEN "none" ELSE CarryIf(IF op \in {"shl", "rol", "rcl"} THEN Msb(m, a) ELSE Odd(a))

Carried == {"carry", "below"}
NotCarried == {"nocarry", "equal", "above", "negative", "zero", "positive"}
CarryOf(t) == IF t \in Carried THEN 1 ELSE 0
Flipped(t) ==
  IF t \in Carried THEN "nocarry" ELSE IF t \in NotCarried THEN "carry" ELSE t

-------------------------------------------------------------------------------
Arithmetics == {"add", "or", "adc", "sbb", "and", "sub", "xor", "cmp"}

ResultOf(op, m, a, b, f) ==
  CASE op = "add" -> Add(m, a, b, f)
    [] op = "adc" -> Adc(m, a, b, f)
    [] op = "sbb" -> Sbb(m, a, b, f)
    [] op \in {"sub", "cmp"} -> Sub(m, a, b, f)
    [] op = "and" -> Logic(m, BitAnd(a, b), f)
    [] op = "or"  -> Logic(m, BitOr(a, b), f)
    [] op = "xor" -> Logic(m, BitXor(a, b), f)

AluInit == regs \in [Places -> {0}] /\ flags = NoFlags /\ means = "none"

(* 00h to 3Dh, 80h, 81h and 83h, the second operand a register, a place or  *)
(* an immediate.                                                           *)
Arithmetic(op, d, b) ==
  LET r == ResultOf(op, Size(d), Get(d), b, flags) IN
  /\ regs' = IF op = "cmp" THEN regs ELSE Put(regs, d, r.v)
  /\ flags' = r.f
  /\ means' = Meaning(op, Size(d), Get(d), b)

(* 38h, CMP r/m8, r8: the register is compared with the place.             *)
CompareRm8(d, s) ==
  /\ flags' = Sub(ByteSize, Get(s), Get(d), flags).f
  /\ means' = "none" /\ UNCHANGED regs

(* INC and DEC, 40h to 4Fh, FEh and FFh: an Add or Sub of 1.               *)
Inc(d) == LET r == Add(Size(d), Get(d), 1, flags) IN
  regs' = Put(regs, d, r.v) /\ flags' = r.f /\ means' = "none"
Dec(d) == LET r == Sub(Size(d), Get(d), 1, flags) IN
  regs' = Put(regs, d, r.v) /\ flags' = r.f /\ means' = "none"

(* TEST, 84h, 85h, A8h, A9h, F6h /0 and F7h /0: the operand is restored.   *)
Test(d, b) ==
  /\ flags' = Logic(Size(d), BitAnd(Get(d), b), flags).f
  /\ means' = SignOf(Size(d), BitAnd(Get(d), b)) /\ UNCHANGED regs

(* NOT and NEG, F6h and F7h.                                               *)
Not(d) ==
  regs' = Put(regs, d, Size(d) - 1 - Get(d)) /\ UNCHANGED <<flags, means>>
Negate(d) == LET r == Neg(Size(d), Get(d), flags) IN
  regs' = Put(regs, d, r.v) /\ flags' = r.f /\ means' = "none"

(* MUL and IMUL, F6h and F7h, which take the displacement of the operand   *)
(* for the operand: by a byte the flags are set from ah and, for IMUL, the *)
(* new al; by a word dx becomes 0 and the product is lost.                 *)
MulByte(b, signed) ==
  LET p == (Get([place |-> "ax", part |-> "l"]) * b) % WordSize
      high == p \div ByteSize # 0
      over == high /\ (signed => Msb(ByteSize, p % ByteSize))
  IN /\ regs' = [regs EXCEPT !["ax"] = p]
     /\ flags' = [flags EXCEPT !.of = over, !.cf = over] /\ means' = "none"
MulWord ==
  /\ regs' = [regs EXCEPT !["dx"] = 0]
  /\ flags' = [flags EXCEPT !.of = FALSE, !.cf = FALSE] /\ means' = "none"

-------------------------------------------------------------------------------
(* Instructions that leave the flags alone: MOV and LEA, XCHG, CBW, CWD.   *)
Mov(d, b) == regs' = Put(regs, d, b) /\ UNCHANGED <<flags, means>>

Xchg(d, s) ==
  regs' = Put(Put(regs, d, Get(s)), s, Get(d)) /\ UNCHANGED <<flags, means>>

Cbw == /\ regs' = Put(regs, [place |-> "ax", part |-> "h"],
                     IF Msb(ByteSize, regs["ax"] % ByteSize) THEN ByteSize - 1 ELSE 0)
       /\ UNCHANGED <<flags, means>>
Cwd == /\ regs' = [regs EXCEPT !["dx"] =
                     IF Msb(WordSize, regs["ax"]) THEN WordSize - 1 ELSE 0]
       /\ UNCHANGED <<flags, means>>

(* C0h, C1h and D0h to D3h.  The count is 1, CL or, for C0h and C1h, the   *)
(* displacement of the operand: 0 where that is a register.                *)
ShiftBy(op, d, p) ==
  LET r == Shift(op, Size(d), Get(d), p, flags) IN
  /\ regs' = Put(regs, d, r.v) /\ flags' = r.f
  /\ means' = ShiftMeaning(op, Size(d), Get(d), p)

(* CLC, STC and CMC; CLD and STD.                                          *)
SetCarry(b) == flags' = [flags EXCEPT !.cf = b] /\ means' = CarryIf(b) /\ UNCHANGED regs
FlipCarry == flags' = [flags EXCEPT !.cf = ~@] /\ means' = Flipped(means) /\ UNCHANGED regs
SetDirection(b) == flags' = [flags EXCEPT !.df = b] /\ UNCHANGED <<regs, means>>

AluNext ==
  \/ \E d \in Operands : \E b \in Sources(Size(d)) :
       Test(d, b) \/ Mov(d, b) \/ \E op \in Arithmetics : Arithmetic(op, d, b)
  \/ \E d, s \in ByteOperands : CompareRm8(d, s)
  \/ \E m \in Sizes : \E d, s \in OfSize(m) : Xchg(d, s)
  \/ \E d \in Operands : Inc(d) \/ Dec(d) \/ Not(d) \/ Negate(d)
  \/ \E d \in Operands, op \in Shifting, p \in Factors : ShiftBy(op, d, p)
  \/ \E b \in Immediates \cap Bytes, signed \in BOOLEAN : MulByte(b, signed)
  \/ MulWord \/ Cbw \/ Cwd \/ FlipCarry
  \/ \E b \in BOOLEAN : SetCarry(b) \/ SetDirection(b)

AluSpec == AluInit /\ [][AluNext]_aluVars

-------------------------------------------------------------------------------
(* Types of the variables. *)
AluTypeOK == regs \in [Places -> Words] /\ flags \in Flags /\ means \in Meanings

(* After CMP or SUB of a and b, and any instructions that leave the flags  *)
(* alone, the jumps for unsigned numbers decide as a and b compare         *)
(* (rmm.h 95-147, cpu.cpp 424-451).                                        *)
UnsignedJumps ==
  means \in {"below", "equal", "above"} =>
    /\ Condition("b", flags) = (means = "below")
    /\ Condition("ae", flags) = (means # "below")
    /\ Condition("e", flags) = (means = "equal")
    /\ Condition("ne", flags) = (means # "equal")
    /\ Condition("be", flags) = (means # "above")
    /\ Condition("a", flags) = (means = "above")

(* After AND, OR, XOR or TEST the jumps for signed numbers decide as the   *)
(* result compares with 0, whatever overflow an earlier instruction left,  *)
(* and those for unsigned numbers see no carry (rmm.h 150-192).            *)
JumpsAfterLogic ==
  means \in {"negative", "zero", "positive"} =>
    /\ Condition("l", flags) = (means = "negative")
    /\ Condition("ge", flags) = (means # "negative")
    /\ Condition("e", flags) = (means = "zero")
    /\ Condition("le", flags) = (means # "positive")
    /\ Condition("g", flags) = (means = "positive")
    /\ Condition("ae", flags)

(* Numbers of two words: where ADC, SBB, RCL or RCR would come next, its   *)
(* result takes up the carry of the ADD, SUB, shift or rotation before it, *)
(* whatever was moved in between (cpu.cpp 95-209, rmm.h 216-256).          *)
TakesUpTheCarry ==
  means # "none" =>
    \A d \in Operands :
      LET m == Size(d)
          a == Get(d)
          c == CarryOf(means)
      IN /\ \A b \in Sources(m) :
              /\ Adc(m, a, b, flags).v = (a + b + c) % m
              /\ Sbb(m, a, b, flags).v = (a - b - c) % m
         /\ Shift("rcl", m, a, 2, flags).v = (2 * a + c) % m
         /\ Shift("rcr", m, a, 2, flags).v = (a \div 2) + c * (m \div 2)
===============================================================================
