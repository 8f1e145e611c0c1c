---------------------------- MODULE Execution_proof ----------------------------
(***************************************************************************)
(* Proofs about Execution: ip keeps in step with every program, and the    *)
(* operands that are executed are those the program encodes.               *)
(***************************************************************************)
EXTENDS Execution, Remainders, TLAPS

(* The rows of the table of opcodes and the bits of the ModRM byte, against *)
(* the encoding.  Stands(op): op is no prefix, and is more than a row       *)
(* without an implementation, or stands by itself.                          *)
Stands(op) ==
  /\ op \in Byte /\ op \notin Prefixes
  /\ op \in NotImplemented => ~EncodesModrm(op) /\ EncodedImm(op, 0) = 0

LEMMA ModrmRows ==
  ASSUME NEW op, Stands(op)
  PROVE  HasModrm(op) <=> EncodesModrm(op)
BY SMT DEF Stands, Byte, Prefixes, NotImplemented, EncodesModrm, EncodedImm, HasModrm,
           Modrm8, Modrm16, Column

LEMMA DispBits ==
  ASSUME NEW b \in Byte
  PROVE  DispLen(ParseModrm(b)) = EncodedDisp(b) /\ EncodedDisp(b) \in 0..2
BY SMT DEF Byte, DispLen, ParseModrm, EncodedDisp

LEMMA ImmRows ==
  ASSUME NEW op, Stands(op), NEW b \in Byte,
         op \in {\hF6, \hF7} => (b \div 8) % 8 > 1
  PROVE  ImmLen(op) = EncodedImm(op, b) /\ ImmLen(op) \in 0..2
BY SMT DEF Stands, Byte, Prefixes, NotImplemented, EncodesModrm, EncodedImm, ImmLen,
           Imm8, Imm16, Column

LEMMA ModrmIsByte ==
  ASSUME NEW c \in Seq(Byte), NEW i \in Nat, Whole(c, i)
  PROVE  EncodedModrm(c, i) \in Byte
<1>1. CASE EncodesModrm(EncodedOp(c, i))
  <2>1. /\ i + EncodedPrefix(c, i) + 1 \in DOMAIN c
        /\ EncodedModrm(c, i) = c[i + EncodedPrefix(c, i) + 1]
    BY <1>1 DEF Whole, EncodedModrm
  <2>2. QED BY <2>1
<1>2. CASE ~EncodesModrm(EncodedOp(c, i))
  <2>1. EncodedModrm(c, i) = 192  BY <1>2 DEF EncodedModrm
  <2>2. QED BY <2>1 DEF Byte
<1>3. QED BY <1>1, <1>2

(* What decode() finds at i, against the encoding.                          *)
LEMMA DecodedAsEncoded ==
  ASSUME NEW c \in Seq(Byte), NEW i \in Nat, Whole(c, i), Known(c, i)
  PROVE  /\ Decode(c, i).op = EncodedOp(c, i) /\ EncodedOp(c, i) \in Byte
         /\ Decode(c, i).prefix = IF c[i] \in Prefixes THEN c[i] ELSE 0
         /\ Decode(c, i).len = EncodedLen(c, i) /\ EncodedLen(c, i) \in Nat \ {0}
         /\ EncodedLen(c, i) > EncodedImm(EncodedOp(c, i), EncodedModrm(c, i))
         /\ Decode(c, i).imm = EncodedValue(c, i)
         /\ ImmLen(EncodedOp(c, i)) = EncodedImm(EncodedOp(c, i), EncodedModrm(c, i))
         /\ EncodedImm(EncodedOp(c, i), EncodedModrm(c, i)) \in 0..2
         /\ HasModrm(EncodedOp(c, i)) <=> EncodesModrm(EncodedOp(c, i))
         /\ EncodesModrm(EncodedOp(c, i)) =>
              /\ Decode(c, i).mdrm = ParseModrm(EncodedModrm(c, i))
              /\ Decode(c, i).disp = Value(c, i + EncodedPrefix(c, i) + 2,
                                           EncodedDisp(EncodedModrm(c, i)))
<1> DEFINE pre == EncodedPrefix(c, i)
           op == EncodedOp(c, i)
           b == EncodedModrm(c, i)
           d == EncodedDisp(b)
           n == EncodedImm(op, b)
           m == IF EncodesModrm(op) THEN 1 ELSE 0
<1>1. pre \in 0..1 /\ m \in 0..1  BY DEF EncodedPrefix
<1>2. op \in Byte /\ op = c[i + pre]  BY DEF Whole, EncodedOp
<1>3. b \in Byte /\ (EncodesModrm(op) => b = c[i + pre + 1])
  BY ModrmIsByte DEF EncodedModrm
<1>4. Stands(op)  BY <1>2 DEF Known, Stands
<1>5. HasModrm(op) <=> EncodesModrm(op)  BY <1>4, ModrmRows
<1>6. (op \in {\hF6, \hF7} => (b \div 8) % 8 > 1)  BY DEF Known
<1>7. ImmLen(op) = n /\ n \in 0..2  BY <1>3, <1>4, <1>6, ImmRows
<1>8. DispLen(ParseModrm(b)) = d /\ d \in 0..2  BY <1>3, DispBits
<1>9. ~EncodesModrm(op) => d = 0  BY DEF EncodedModrm, EncodedDisp
<1>10. EncodedLen(c, i) = pre + 1 + m + d + n  BY DEF EncodedLen
<1>11. EncodedValue(c, i) = Value(c, i + EncodedLen(c, i) - n, n)  BY DEF EncodedValue
<1> HIDE DEF op, b, d, n
<1> DEFINE hasM == HasModrm(op)
           dd == IF hasM THEN DispLen(IF hasM THEN ParseModrm(c[i + pre + 1]) ELSE ParseModrm(0)) ELSE 0
           atD == i + pre + (IF hasM THEN 2 ELSE 1)
<1>12. dd = d  BY <1>3, <1>5, <1>8, <1>9
<1>13. atD = i + pre + 1 + m  BY <1>1, <1>5
<1>14. /\ Decode(c, i).op = op
       /\ Decode(c, i).prefix = (IF pre = 1 THEN c[i] ELSE 0)
       /\ Decode(c, i).len = (atD - i) + dd + ImmLen(op)
       /\ Decode(c, i).imm = Value(c, atD + dd, ImmLen(op))
  BY <1>2 DEF Decode, EncodedPrefix, EncodedOp, op
<1>14a. /\ hasM => Decode(c, i).mdrm = ParseModrm(c[i + pre + 1])
       /\ Decode(c, i).disp = Value(c, atD, dd)
  BY <1>2 DEF Decode, EncodedPrefix, EncodedOp, op
<1> HIDE DEF hasM, dd, atD, pre, m
<1>15. Decode(c, i).len = EncodedLen(c, i) /\ EncodedLen(c, i) \in Nat \ {0}
       /\ EncodedLen(c, i) > n
  BY <1>1, <1>7, <1>8, <1>10, <1>12, <1>13, <1>14
<1>16. atD + dd = i + EncodedLen(c, i) - n
  BY <1>1, <1>7, <1>8, <1>10, <1>12, <1>13
<1>17. Decode(c, i).imm = EncodedValue(c, i)
  BY <1>7, <1>11, <1>14, <1>16
<1>18. Decode(c, i).prefix = IF c[i] \in Prefixes THEN c[i] ELSE 0
  BY <1>14 DEF pre, EncodedPrefix
<1>19. EncodesModrm(op) =>
         Decode(c, i).mdrm = ParseModrm(b) /\ Decode(c, i).disp = Value(c, i + pre + 2, d)
  <2>1. SUFFICES ASSUME EncodesModrm(op)
                 PROVE  Decode(c, i).mdrm = ParseModrm(b)
                        /\ Decode(c, i).disp = Value(c, i + pre + 2, d)
    OBVIOUS
  <2>2. atD = i + pre + 2  BY <1>1, <1>5, <2>1 DEF atD, hasM
  <2>3. QED BY <1>3, <1>5, <1>12, <1>14a, <2>1, <2>2 DEF hasM
<1>20. QED BY <1>2, <1>5, <1>7, <1>14, <1>15, <1>17, <1>18, <1>19 DEF op, b, n, d, pre

-------------------------------------------------------------------------------
(* Jumps.                                                                   *)

LEMMA TransferHasOffset ==
  ASSUME NEW op \in Transfers, NEW b \in Byte
  PROVE  EncodedImm(op, b) \in 1..2 /\ ImmLen(op) \in 1..2
BY SMT DEF Transfers, CountedJumps, ConditionalJumps, Jumps, EncodedImm, ImmLen, Imm8,
           Imm16, Column, Byte

(* The offset that a jump adds is the one its program has at that place.    *)
LEMMA JumpGoesWhereEncoded ==
  ASSUME NEW c, NEW s, Program(c, s), NEW i \in s \ {Len(c) + 1},
         EncodedOp(c, i) \in Transfers
  PROVE  /\ i + Decode(c, i).len + Relative(Decode(c, i)) \in s
         /\ Decode(c, i).prefix \notin Repeats
<1> DEFINE d == Decode(c, i)
           op == EncodedOp(c, i)
           b == EncodedModrm(c, i)
           n == EncodedImm(op, b)
           v == EncodedValue(c, i)
           l == EncodedLen(c, i)
<1>1. /\ c \in Seq(Byte) /\ i \in Nat /\ Whole(c, i) /\ Known(c, i)
      /\ i + l \in s /\ s \subseteq 1..(Len(c) + 1)
      /\ c[i] \notin Repeats /\ i + l + EncodedRelative(c, i) \in s
  BY DEF Program, Sensible
<1>2. /\ d.op = op /\ d.len = l /\ d.imm = v /\ l \in Nat \ {0} /\ ImmLen(op) = n
      /\ d.prefix = (IF c[i] \in Prefixes THEN c[i] ELSE 0)
      /\ l > n
  BY <1>1, DecodedAsEncoded
<1>3. b \in Byte  BY <1>1, ModrmIsByte
<1>4. n \in 1..2  BY <1>3, TransferHasOffset
<1>5. /\ v = Value(c, i + l - n, n)
      /\ EncodedRelative(c, i) =
           IF n = 1 /\ v > 127 THEN v - 256 ELSE IF n = 2 /\ v > 32767 THEN v - 65536 ELSE v
  BY DEF EncodedValue, EncodedRelative
<1> HIDE DEF d, op, b, n, v, l
<1>6. v \in Nat
  <2>1. \A k \in 0..(n - 1) : c[i + l - n + k] \in Byte
    <3>1. i + l - 1 <= Len(c) /\ Len(c) \in Nat /\ i + l \in Nat /\ i >= 1  BY <1>1, <1>2
    <3>2. \A k \in 0..(n - 1) : i + l - n + k \in 1..Len(c)  BY <1>1, <1>2, <1>4, <3>1
    <3>3. QED BY <1>1, <3>2
  <2>2. CASE n = 1
    <3>1. v = c[i + l - n + 0]  BY <1>1, <1>2, <1>5, <2>2 DEF Value
    <3>2. 0 \in 0..(n - 1)  BY <2>2
    <3>3. c[i + l - n + 0] \in Byte  BY <2>1, <3>2
    <3>4. v \in Byte  BY <3>1, <3>3, Zenon
    <3>5. QED BY <3>4 DEF Byte
  <2>3. CASE n = 2
    <3>1. v = c[i + l - n + 0] + 256 * c[i + l - n + 1]  BY <1>1, <1>2, <1>5, <2>3 DEF Value
    <3>2. 0 \in 0..(n - 1) /\ 1 \in 0..(n - 1)  BY <2>3
    <3>3. c[i + l - n + 0] \in Byte /\ c[i + l - n + 1] \in Byte  BY <2>1, <3>2
    <3> DEFINE low == c[i + l - n + 0]
               high == c[i + l - n + 1]
    <3>4. v = low + 256 * high  BY <3>1, Zenon
    <3>5. low \in Byte /\ high \in Byte  BY <3>3, Zenon
    <3> HIDE DEF low, high
    <3>6. QED BY <3>4, <3>5 DEF Byte
  <2>4. QED BY <1>4, <2>2, <2>3
<1>7. Relative(d) = EncodedRelative(c, i)
  <2>1. Relative(d) =
          IF n = 1 THEN IF v < 128 THEN v ELSE v - 256
          ELSE IF v < 32768 THEN v ELSE v - 65536
    BY <1>2 DEF Relative
  <2>2. QED BY <1>4, <1>5, <1>6, <2>1
<1>8. d.prefix \notin Repeats
  <2>1. 0 \notin Repeats  BY DEF Repeats
  <2>2. QED BY <1>1, <1>2, <2>1
<1>9. QED BY <1>1, <1>2, <1>7, <1>8 DEF d

-------------------------------------------------------------------------------
(* The invariant: what is being carried out is what the decoder finds at    *)
(* the place it was fetched from, and only a jump that has not been carried *)
(* out needs to know that ip is still behind it.                            *)
ExecIInv ==
  /\ Program(code, starts)
  /\ ip \in starts
  /\ phase = "execute" =>
       /\ before.ip \in starts \ {Len(code) + 1}
       /\ inst = Decode(code, before.ip)
       /\ inst.op \in Transfers => ip = before.ip + inst.len

(* The initial state, from the assumption about beginnings.                 *)
LEMMA ExecInitInv == ExecInit => ExecIInv
BY ExecutionAssumption DEF ExecInit, ExecIInv, Program

(* A step that moves neither ip nor the instruction.                        *)
LEMMA StaysInPlace ==
  ASSUME ExecIInv, UNCHANGED <<code, starts, ip, inst, before>>,
         phase' = "execute" => phase = "execute"
  PROVE  ExecIInv'
BY DEF ExecIInv

LEMMA ExecStepInv == ExecIInv /\ [ExecNext]_execVars => ExecIInv'
<1> SUFFICES ASSUME ExecIInv, [ExecNext]_execVars  PROVE ExecIInv'
  OBVIOUS
<1>1. CASE Fetch
  <2>1. ip \in starts \ {Len(code) + 1} /\ Sensible(code, starts, ip) /\ ip \in Nat
        /\ code \in Seq(Byte)
    BY <1>1 DEF Fetch, ExecIInv, Program
  <2>2. Decode(code, ip).len = EncodedLen(code, ip)  BY <2>1, DecodedAsEncoded DEF Sensible
  <2>3. ip' = ip + Decode(code, ip).len /\ inst' = Decode(code, ip) /\ before'.ip = ip
        /\ UNCHANGED <<code, starts>>
    BY <1>1 DEF Fetch
  <2>4. ip' \in starts  BY <2>1, <2>2, <2>3 DEF Sensible
  <2>5. QED BY <2>1, <2>3, <2>4 DEF ExecIInv
<1>2. CASE Skip
  BY <1>2, StaysInPlace DEF Skip
<1>3. CASE Movs \/ Cmps \/ Stos \/ Lods \/ Scas \/ Other
  <2>1. phase = "execute" /\ UNCHANGED <<code, starts, ip, inst, before>>
    BY <1>3 DEF Movs, Cmps, Stos, Lods, Scas, Other, Executing, EndPass
  <2>2. QED BY <2>1, StaysInPlace
<1>4. CASE Loop \/ Jump
  <2>1. phase = "execute" /\ inst.op \in Transfers
    BY <1>4 DEF Loop, Jump, Executing, Transfers
  <2>2. /\ ip + Relative(inst) \in starts /\ inst.prefix \notin Repeats
    <3>1. /\ Program(code, starts) /\ before.ip \in starts \ {Len(code) + 1}
          /\ inst = Decode(code, before.ip) /\ ip = before.ip + inst.len
      BY <2>1 DEF ExecIInv
    <3>2. /\ code \in Seq(Byte) /\ before.ip \in Nat
          /\ Whole(code, before.ip) /\ Known(code, before.ip)
      <4>1. Sensible(code, starts, before.ip)  BY <3>1 DEF Program
      <4>2. code \in Seq(Byte) /\ starts \subseteq 1..(Len(code) + 1)  BY <3>1 DEF Program
      <4>3. before.ip \in 1..(Len(code) + 1)  BY <3>1, <4>2, Zenon
      <4>4. before.ip \in Nat  BY <4>2, <4>3
      <4>5. QED BY <4>1, <4>2, <4>4 DEF Sensible
    <3>3. inst.op = EncodedOp(code, before.ip)  BY <3>1, <3>2, DecodedAsEncoded
    <3>4. QED BY <2>1, <3>1, <3>3, JumpGoesWhereEncoded
  <2>3. ip' \in {ip, ip + Relative(inst)} /\ UNCHANGED <<code, starts>>
    BY <1>4 DEF Loop, Jump, EndPass
  <2>4. phase' = "fetch"  BY <1>4, <2>2 DEF Loop, Jump, EndPass, Done
  <2>5. QED BY <2>2, <2>3, <2>4 DEF ExecIInv
<1>5. CASE Depart
  BY <1>5, StaysInPlace DEF Depart
<1>6. CASE UNCHANGED execVars
  BY <1>6, StaysInPlace DEF execVars
<1>7. QED BY <1>1, <1>2, <1>3, <1>4, <1>5, <1>6 DEF ExecNext

(* Whatever the program, ip is always where one of its instructions begins: *)
(* decoding, REP and jumps keep in step (cpu.cpp 1327-1396).                *)
THEOREM KeepsInStep == ExecSpec => []InStep
<1>1. ExecIInv => InStep  BY DEF ExecIInv, InStep
<1>2. QED BY <1>1, ExecInitInv, ExecStepInv, PTL DEF ExecSpec

-------------------------------------------------------------------------------
(* Operands.                                                                *)

LEMMA BaseBits ==
  ASSUME NEW b \in Byte, b < 192
  PROVE  /\ Base(ParseModrm(b)) = EncodedBase(b)
         /\ DefaultSegment(ParseModrm(b)) = (IF "bp" \in EncodedBase(b) THEN "SS" ELSE "DS")
<1> DEFINE m == ParseModrm(b)
<1>1. /\ m.mod = b \div 64 /\ m.rm = b % 8 /\ m.mod \in 0..2 /\ m.rm \in 0..7
      /\ (b % 8) % 2 = b % 2
  BY DEF ParseModrm, Byte
<1> DEFINE r == b % 8
<1>2. \/ r = 0 \/ r = 1 \/ r = 2 \/ r = 3 \/ r = 4 \/ r = 5 \/ r = 6 \/ r = 7  BY <1>1
<1>3. b % 4 = r % 4 /\ b % 2 = r % 2  BY DEF Byte
<1> HIDE DEF m, r
<1>4. EncodedBase(b) =
        IF m.mod = 0 /\ r = 6 THEN {}
        ELSE IF r < 4 THEN {IF r % 4 < 2 THEN "bx" ELSE "bp", IF r % 2 = 0 THEN "si" ELSE "di"}
        ELSE {(<<"si", "di", "bp", "bx">>)[r - 3]}
  BY <1>1, <1>3 DEF EncodedBase, r
<1>5. Base(m) = EncodedBase(b)
  <2>1. m.rm = r  BY <1>1 DEF r
  <2>2. CASE r = 0  BY <1>4, <2>1, <2>2 DEF Base
  <2>3. CASE r = 1  BY <1>4, <2>1, <2>3 DEF Base
  <2>4. CASE r = 2  BY <1>4, <2>1, <2>4 DEF Base
  <2>5. CASE r = 3  BY <1>4, <2>1, <2>5 DEF Base
  <2>6. CASE r = 4  BY <1>4, <2>1, <2>6 DEF Base
  <2>7. CASE r = 5  BY <1>4, <2>1, <2>7 DEF Base
  <2>8. CASE r = 6  BY <1>4, <2>1, <2>8 DEF Base
  <2>9. CASE r = 7  BY <1>4, <2>1, <2>9 DEF Base
  <2>10. QED BY <1>2, <2>2, <2>3, <2>4, <2>5, <2>6, <2>7, <2>8, <2>9
<1>6. "bp" \in EncodedBase(b) <=> r \in {2, 3} \/ (r = 6 /\ m.mod # 0)
  BY <1>2, <1>4
<1>7. QED BY <1>1, <1>5, <1>6 DEF DefaultSegment, m, r

LEMMA OperandAsEncoded ==
  ASSUME NEW c, NEW s, Program(c, s), NEW i \in s \ {Len(c) + 1}, InMemory(c, i),
         EncodedOperand(c, i).disp >= 0,
         FarPointer(Decode(c, i)) => EncodedOperand(c, i).base = {},
         ~TakesDispAsFactor(Decode(c, i)), ~HasNoCase(Decode(c, i))
  PROVE  Operand(Decode(c, i)) = EncodedOperand(c, i)
<1> DEFINE inst0 == Decode(c, i)
           pre == EncodedPrefix(c, i)
           op == EncodedOp(c, i)
           b == EncodedModrm(c, i)
           d == EncodedDisp(b)
           v == Value(c, i + pre + 2, d)
           signed == IF d = 1 /\ v > 127 THEN v - 256 ELSE v
           base == EncodedBase(b)
           seg == IF c[i] \in DOMAIN Override THEN Override[c[i]]
                  ELSE IF "bp" \in base THEN "SS" ELSE "DS"
<1>1. /\ c \in Seq(Byte) /\ i \in Nat /\ i >= 1 /\ Whole(c, i) /\ Known(c, i)
      /\ i + EncodedLen(c, i) \in s /\ s \subseteq 1..(Len(c) + 1)
  <2>1. c \in Seq(Byte) /\ s \subseteq 1..(Len(c) + 1) /\ Sensible(c, s, i)  BY DEF Program
  <2>2. i \in 1..(Len(c) + 1)  BY <2>1, Zenon
  <2>3. QED BY <2>1, <2>2 DEF Sensible
<1>2. b \in Byte /\ b < 192 /\ EncodesModrm(op)  BY <1>1, ModrmIsByte DEF InMemory
<1>3. /\ inst0.op = op /\ inst0.mdrm = ParseModrm(b) /\ inst0.disp = v
      /\ inst0.prefix = (IF c[i] \in Prefixes THEN c[i] ELSE 0)
      /\ HasModrm(op) /\ op \in Byte
      /\ i + EncodedLen(c, i) <= Len(c) + 1
  BY <1>1, <1>2, DecodedAsEncoded
<1>4. DispLen(inst0.mdrm) = d /\ d \in 0..2  BY <1>2, <1>3, DispBits
<1>5. /\ Base(inst0.mdrm) = base
      /\ DefaultSegment(inst0.mdrm) = (IF "bp" \in base THEN "SS" ELSE "DS")
  BY <1>2, <1>3, BaseBits
<1>6. EncodedOperand(c, i) = [seg |-> seg, base |-> base, disp |-> signed]
  BY DEF EncodedOperand
<1>7. SegIndex(inst0) = seg
  <2>1. DOMAIN Override \subseteq Prefixes /\ 0 \notin DOMAIN Override
    BY DEF Override, Prefixes
  <2>2. QED BY <1>3, <1>5, <2>1 DEF SegIndex
<1>8. v = signed
  <2>1. CASE d # 1  BY <2>1
  <2>2. CASE d = 1
    <3>1. i + pre + 2 \in DOMAIN c /\ v = c[i + pre + 2]
      <4>1. EncodedLen(c, i) = pre + 1 + 1 + d + EncodedImm(op, b)  BY <1>2 DEF EncodedLen
      <4>2. EncodedImm(op, b) \in 0..2  BY <1>1, DecodedAsEncoded
      <4>3. pre \in 0..1  BY DEF EncodedPrefix
      <4> HIDE DEF pre, d, op, b
      <4>4. i + pre + 2 \in 1..Len(c)  BY <1>1, <1>3, <2>2, <4>1, <4>2, <4>3
      <4>5. QED BY <1>1, <2>2, <4>4 DEF Value
    <3>2. v \in Byte  BY <1>1, <3>1
    <3>3. signed >= 0  BY <1>6
    <3> HIDE DEF v, d
    <3>4. CASE v > 127
      <4>1. signed = v - 256  BY <2>2, <3>4
      <4>2. v < 256 /\ v \in Nat  BY <3>2 DEF Byte
      <4> HIDE DEF signed
      <4>3. QED BY <3>3, <4>1, <4>2
    <3>5. CASE ~(v > 127)
      BY <3>5
    <3>6. QED BY <3>4, <3>5
  <2>3. QED BY <2>1, <2>2
<1>9. CASE FarPointer(inst0)
  <2>1. base = {}  BY <1>6, <1>9
  <2>2. d = 2
    <3>1. b \div 64 = 0 /\ b % 8 = 6
      <4>1. CASE b % 8 < 4  BY <2>1, <4>1 DEF EncodedBase
      <4>2. CASE ~(b % 8 < 4)  BY <2>1, <4>2 DEF EncodedBase
      <4>3. QED BY <4>1, <4>2
    <3>2. QED BY <3>1 DEF EncodedDisp
  <2>3. Disp16(inst0) = v  BY <1>3, <1>4, <2>2 DEF Disp16
  <2>4. QED BY <1>6, <1>7, <1>8, <1>9, <2>1, <2>3 DEF Operand
<1>10. CASE ~FarPointer(inst0)
  BY <1>3, <1>5, <1>6, <1>7, <1>8, <1>10 DEF Operand
<1>11. QED BY <1>9, <1>10

(* Whatever the program, the instruction that is carried out has the        *)
(* opcode, constant and operand that its bytes encode, where the decoder    *)
(* is meant to have them (decoder.cpp 362-442, rmm.cpp 10-43).              *)
THEOREM OperandsAreEncoded == ExecSpec => []OperandsAsEncoded
<1>1. ExecIInv => OperandsAsEncoded
  <2>1. SUFFICES ASSUME ExecIInv, phase = "execute"
                 PROVE  OperandsAsEncoded
    BY DEF OperandsAsEncoded
  <2>2. /\ Program(code, starts) /\ before.ip \in starts \ {Len(code) + 1}
        /\ inst = Decode(code, before.ip)
    BY <2>1 DEF ExecIInv
  <2>3. /\ code \in Seq(Byte) /\ before.ip \in Nat
        /\ Whole(code, before.ip) /\ Known(code, before.ip)
    <3>1. Sensible(code, starts, before.ip)  BY <2>2 DEF Program
    <3>2. code \in Seq(Byte) /\ starts \subseteq 1..(Len(code) + 1)  BY <2>2 DEF Program
    <3>3. before.ip \in 1..(Len(code) + 1)  BY <2>2, <3>2, Zenon
    <3>4. QED BY <3>1, <3>2, <3>3 DEF Sensible
  <2>4. inst.op = EncodedOp(code, before.ip) /\ inst.imm = EncodedValue(code, before.ip)
    BY <2>2, <2>3, DecodedAsEncoded
  <2>5. ~LosesSign(inst) => EncodedConstant(code, before.ip) = inst.imm
    BY <2>4 DEF LosesSign, EncodedConstant
  <2>6. ~TakesDisp8(inst) /\ ~TakesDisp16(inst) => Constant(inst) = inst.imm
    BY DEF Constant
  <2>7. /\ InMemory(code, before.ip) /\ ~TakesDispAsFactor(inst) /\ ~HasNoCase(inst)
        /\ EncodedOperand(code, before.ip).disp >= 0
        /\ (FarPointer(inst) => EncodedOperand(code, before.ip).base = {})
        => Operand(inst) = EncodedOperand(code, before.ip)
    BY <2>2, OperandAsEncoded
  <2>8. QED BY <2>4, <2>5, <2>6, <2>7 DEF OperandsAsEncoded
<1>2. QED BY <1>1, ExecInitInv, ExecStepInv, PTL DEF ExecSpec

-------------------------------------------------------------------------------
(* Types.                                                                   *)

LEMMA EndPassTyped ==
  ASSUME NEW r \in RegFile, EndPass(r)
  PROVE  regs' \in RegFile /\ UNCHANGED <<code, starts, inst, before, first>>
         /\ phase' \in {"fetch", "execute"}
<1>1. (r.cx - 1) % W \in 0..(W - 1)  BY ExecutionAssumption DEF RegFile
<1>2. [r EXCEPT !.cx = (@ - 1) % W] \in RegFile  BY <1>1 DEF RegFile
<1>3. QED BY <1>2 DEF EndPass

LEMMA StepTyped ==
  ASSUME NEW r \in RegFile, NEW p \in 0..(W - 1)
  PROVE  Step(r, p) \in 0..(W - 1)
<1>1. Width(inst.op) \in 1..2  BY DEF Width
<1>2. QED BY <1>1, ExecutionAssumption DEF Step

LEMMA ItemTyped ==
  ASSUME NEW d \in Segment, NEW o \in 0..(W - 1), NEW n \in 1..2
  PROVE  Item(d, o, n) \in [1..n -> Values] /\ Len(Item(d, o, n)) = n
<1>1. \A k \in 1..n : o + k - 1 \in 0..W  BY ExecutionAssumption
<1>2. Item(d, o, n) = [k \in 1..n |-> d[o + k - 1]]  BY DEF Item
<1>3. Len([k \in 1..n |-> d[o + k - 1]]) = n  OBVIOUS
<1>4. QED BY <1>1, <1>2, <1>3 DEF Segment

LEMMA PutTyped ==
  ASSUME NEW d \in Segment, NEW o \in 0..(W - 1), NEW n \in 1..2, NEW v \in [1..n -> Values],
         Len(v) = n
  PROVE  Put(d, o, v) \in Segment
<1>1. \A x \in 0..W : x - o \in 0..(n - 1) => x - o + 1 \in 1..n  BY ExecutionAssumption
<1>2. QED BY <1>1 DEF Put, Segment

LEMMA AccumulatorTyped ==
  ASSUME NEW r \in RegFile, NEW n \in 1..2
  PROVE  Accumulator(r, n) \in [1..n -> Values] /\ Len(Accumulator(r, n)) = n
BY DEF Accumulator, RegFile

LEMMA ExecInitTyped == ExecInit => ExecTypeOK
<1> SUFFICES ASSUME ExecInit  PROVE ExecTypeOK
  OBVIOUS
<1>1. Program(code, starts) /\ regs \in RegFile /\ data \in Segment
  BY ExecutionAssumption DEF ExecInit
<1>2. /\ ip = 1 /\ inst = NoInst /\ phase = "fetch"
      /\ before = [ip |-> ip, regs |-> regs, data |-> data]
      /\ first = [regs |-> regs, data |-> data]
  BY DEF ExecInit
<1>3. inst.op \in Byte /\ inst.prefix = 0  BY <1>2 DEF NoInst, Byte
<1>4. QED BY <1>1, <1>2, <1>3 DEF ExecTypeOK

LEMMA ExecStepTyped ==
  ExecTypeOK /\ ExecIInv /\ [ExecNext]_execVars => ExecTypeOK'
<1> SUFFICES ASSUME ExecTypeOK, ExecIInv, [ExecNext]_execVars  PROVE ExecTypeOK'
  OBVIOUS
<1>1. ip' \in Int
  <2>1. ExecIInv'  BY ExecStepInv
  <2>2. ip' \in starts' /\ starts' \subseteq 1..(Len(code') + 1)  BY <2>1 DEF ExecIInv, Program
  <2>3. ip' \in 1..(Len(code') + 1)  BY <2>2, Zenon
  <2>4. QED BY <2>3
<1> DEFINE r == regs
           w == Width(inst.op)
<1>2. /\ r \in RegFile /\ r.si \in 0..(W - 1) /\ r.di \in 0..(W - 1) /\ data \in Segment
      /\ w \in 1..2 /\ r.al \in Values /\ r.ah \in Values
  BY DEF ExecTypeOK, RegFile, Width
<1>3. Step(r, r.si) \in 0..(W - 1) /\ Step(r, r.di) \in 0..(W - 1)  BY <1>2, StepTyped
<1>4. CASE Fetch
  <2>1. /\ ip \in starts \ {Len(code) + 1} /\ Sensible(code, starts, ip) /\ ip \in Nat
        /\ code \in Seq(Byte)
    BY <1>4 DEF Fetch, ExecIInv, Program
  <2>2. /\ inst' = Decode(code, ip) /\ before' = [ip |-> ip, regs |-> regs, data |-> data]
        /\ UNCHANGED <<code, starts, regs, data, first>> /\ phase' = "execute"
    BY <1>4 DEF Fetch
  <2>3. /\ inst'.op \in Byte
        /\ inst'.prefix = (IF code[ip] \in Prefixes THEN code[ip] ELSE 0)
    BY <2>1, <2>2, DecodedAsEncoded DEF Sensible
  <2>4. QED BY <1>1, <2>2, <2>3 DEF ExecTypeOK
<1>5. CASE Movs
  <2> DEFINE q == [r EXCEPT !.si = Step(r, @), !.di = Step(r, @)]
  <2>1. q \in RegFile  BY <1>2, <1>3 DEF RegFile
  <2>2. EndPass(q) /\ data' = Put(data, r.di, Item(data, r.si, w))  BY <1>5 DEF Movs
  <2>3. Item(data, r.si, w) \in [1..w -> Values] /\ Len(Item(data, r.si, w)) = w
    BY <1>2, ItemTyped
  <2>4. data' \in Segment  BY <1>2, <2>2, <2>3, PutTyped
  <2> HIDE DEF q
  <2>5. QED BY <1>1, <2>1, <2>2, <2>4, EndPassTyped DEF ExecTypeOK
<1>6. CASE Cmps
  <2> DEFINE q == [r EXCEPT !.zf = Item(data, r.si, 2) = Item(data, r.di, 2),
                            !.di = Step(r, @)]
  <2>1. q \in RegFile  BY <1>2, <1>3 DEF RegFile
  <2>2. EndPass(q) /\ data' = data  BY <1>6 DEF Cmps
  <2> HIDE DEF q
  <2>3. QED BY <1>1, <2>1, <2>2, EndPassTyped DEF ExecTypeOK
<1>7. CASE Stos
  <2> DEFINE q == [r EXCEPT !.di = Step(r, @)]
  <2>1. q \in RegFile  BY <1>2, <1>3 DEF RegFile
  <2>2. EndPass(q) /\ data' = Put(data, r.di, Accumulator(r, w))  BY <1>7 DEF Stos
  <2>3. data' \in Segment  BY <1>2, <2>2, AccumulatorTyped, PutTyped
  <2> HIDE DEF q
  <2>4. QED BY <1>1, <2>1, <2>2, <2>3, EndPassTyped DEF ExecTypeOK
<1>8. CASE Lods
  <2> DEFINE v == Item(data, r.si, w)
             q == [r EXCEPT !.al = v[1], !.ah = IF Len(v) = 2 THEN v[2] ELSE @,
                            !.si = Step(r, @)]
  <2>1. v \in [1..w -> Values] /\ Len(v) = w  BY <1>2, ItemTyped
  <2>2. EndPass(q) /\ data' = data  BY <1>8 DEF Lods
  <2> HIDE DEF v
  <2>3. v[1] \in Values /\ (Len(v) = 2 => v[2] \in Values)  BY <1>2, <2>1
  <2>4. q \in RegFile  BY <1>2, <1>3, <2>3 DEF RegFile
  <2> HIDE DEF q
  <2>5. QED BY <1>1, <2>2, <2>4, EndPassTyped DEF ExecTypeOK
<1>9. CASE Scas
  <2> DEFINE q == [r EXCEPT !.zf = Accumulator(r, w) = Item(data, r.di, w), !.di = Step(r, @)]
  <2>1. q \in RegFile  BY <1>2, <1>3 DEF RegFile
  <2>2. EndPass(q) /\ data' = data  BY <1>9 DEF Scas
  <2> HIDE DEF q
  <2>3. QED BY <1>1, <2>1, <2>2, EndPassTyped DEF ExecTypeOK
<1>10. CASE Loop
  <2> DEFINE q == IF inst.op = \hE3 THEN r ELSE [r EXCEPT !.cx = (@ - 1) % W]
  <2>1. (r.cx - 1) % W \in 0..(W - 1)  BY <1>2, ExecutionAssumption DEF RegFile
  <2>2. q \in RegFile  BY <1>2, <2>1 DEF RegFile
  <2>3. EndPass(q) /\ data' = data  BY <1>10 DEF Loop
  <2> HIDE DEF q
  <2>4. QED BY <1>1, <2>2, <2>3, EndPassTyped DEF ExecTypeOK
<1>11. CASE Jump
  BY <1>1, <1>2, <1>11, EndPassTyped DEF Jump, ExecTypeOK
<1>12. CASE Other
  <2>1. data' \in Segment /\ \E q \in RegFile : EndPass(q)
    BY <1>12, ExecutionAssumption DEF Other
  <2>2. QED BY <1>1, <2>1, EndPassTyped DEF ExecTypeOK
<1>13. CASE Skip \/ Depart
  BY <1>1, <1>13 DEF Skip, Depart, ExecTypeOK
<1>14. CASE UNCHANGED execVars
  BY <1>14 DEF execVars, ExecTypeOK
<1>15. QED
  BY <1>4, <1>5, <1>6, <1>7, <1>8, <1>9, <1>10, <1>11, <1>12, <1>13, <1>14 DEF ExecNext

(* Registers and memory keep their types, for every W: pointers and the     *)
(* count wrap around, and a word at the end of the segment goes no further  *)
(* than one byte above it (cpu.cpp 748-872).                                *)
THEOREM ExecTypes == ExecSpec => []ExecTypeOK
<1>1. ExecInit => ExecTypeOK /\ ExecIInv  BY ExecInitTyped, ExecInitInv
<1>2. (ExecTypeOK /\ ExecIInv) /\ [ExecNext]_execVars => (ExecTypeOK /\ ExecIInv)'
  BY ExecStepTyped, ExecStepInv
<1>3. QED BY <1>1, <1>2, PTL DEF ExecSpec

-------------------------------------------------------------------------------
(* Repeated scans.                                                          *)

(* The next pass begins one item further on.                                *)
LEMMA NextItem ==
  ASSUME NEW r \in RegFile, NEW p \in 0..(W - 1), NEW k \in Nat, NEW n \in 1..2
  PROVE  /\ At(r, p, 1, n) = p
         /\ At(r, p, k, n) \in 0..(W - 1)
         /\ At(r, p, k + 1, n) = (IF r.df THEN At(r, p, k, n) - n ELSE At(r, p, k, n) + n) % W
<1> DEFINE s == IF r.df THEN -n ELSE n
           a == p + (k - 1) * s
<1>1. s \in Int /\ W \in Nat \ {0} /\ p \in Int  BY ExecutionAssumption
<1>2. a \in Int /\ p + (1 - 1) * s = p /\ p + ((k + 1) - 1) * s = a + s
  BY <1>1
<1>3. p % W = p  BY ExecutionAssumption
<1>4. ((a % W) + s) % W = (a + s) % W  BY <1>1, <1>2, ModAdd
<1>5. a % W \in 0..(W - 1)  BY <1>1, <1>2, ModIs
<1>6. At(r, p, 1, n) = p /\ At(r, p, k, n) = a % W /\ At(r, p, k + 1, n) = (a + s) % W
  BY <1>2, <1>3 DEF At
<1> HIDE DEF a
<1>7. (IF r.df THEN (a % W) - n ELSE (a % W) + n) = (a % W) + s  BY <1>5
<1>8. QED BY <1>4, <1>5, <1>6, <1>7

(* While a scan goes on, k passes have been made and nothing was found.     *)
Scanned(k) ==
  LET b == before.regs
      n == Width(inst.op)
  IN /\ \A j \in 1..k : ~Found(before, j, n)
     /\ regs = [b EXCEPT !.cx = (@ - k) % W, !.di = At(b, @, k + 1, n),
                         !.zf = IF k = 0 THEN @ ELSE Found(before, k, n)]
     /\ data = before.data
ScanIInv ==
  /\ phase = "execute" /\ inst.prefix = \hF3 /\ inst.op \in {\hAE, \hAF} =>
       \E k \in 0..(Times(before.regs) - 1) : Scanned(k)
  /\ ScanStopsAtTheFirst

LEMMA CountedDown ==
  ASSUME NEW b \in RegFile, NEW k \in 0..(Times(b) - 1)
  PROVE  /\ (((b.cx - k) % W) - 1) % W = (b.cx - (k + 1)) % W
         /\ (b.cx - k) % W = 1 <=> k + 1 = Times(b)
<1>1. W \in Nat \ {0} /\ W > 1 /\ b.cx \in 0..(W - 1) /\ b.cx - k \in Int /\ k \in Nat
  BY ExecutionAssumption DEF RegFile, Times
<1> DEFINE x == (b.cx - k) % W
<1>2. (x + (-1)) % W = ((b.cx - k) + (-1)) % W  BY <1>1, ModAdd
<1>3. x \in 0..(W - 1)  BY <1>1, ModIs
<1>4. x = 1 <=> k + 1 = Times(b)
  <2>1. CASE b.cx = 0
    <3>1. k \in 0..(W - 1) /\ Times(b) = W  BY <2>1 DEF Times
    <3>2. CASE k = 0
      <4>1. x = 0  BY <1>1, <2>1, <3>2
      <4> HIDE DEF x
      <4>2. QED BY <1>1, <3>1, <3>2, <4>1
    <3>3. CASE k > 0
      <4>1. W - k \in 0..(W - 1) /\ b.cx - k = W * (-1) + (W - k)  BY <1>1, <2>1, <3>1, <3>3
      <4>2. (W * (-1) + (W - k)) % W = W - k  BY <1>1, <4>1, ModUnique
      <4>3. x = W - k  BY <4>1, <4>2
      <4> HIDE DEF x
      <4>4. QED BY <1>1, <3>1, <4>3
    <3>4. QED BY <3>1, <3>2, <3>3
  <2>2. CASE b.cx > 0
    <3>1. k \in 0..(b.cx - 1) /\ Times(b) = b.cx  BY <1>1, <2>2 DEF Times
    <3>2. b.cx - k \in 0..(W - 1)  BY <1>1, <3>1
    <3>3. x = b.cx - k  BY <1>1, <3>2
    <3> HIDE DEF x
    <3>4. QED BY <1>1, <3>1, <3>3
  <2>3. QED BY <1>1, <2>1, <2>2
<1>5. x + (-1) = x - 1 /\ (b.cx - k) + (-1) = b.cx - (k + 1)  BY <1>1, <1>3
<1>6. (x - 1) % W = (b.cx - (k + 1)) % W
  <2> HIDE DEF x
  <2>1. QED BY <1>2, <1>5
<1>7. QED BY <1>4, <1>6

LEMMA ScanFetch ==
  ASSUME ExecTypeOK, ScanIInv, Fetch
  PROVE  ScanIInv'
<1>1. /\ before' = [ip |-> ip, regs |-> regs, data |-> data] /\ phase' = "execute"
      /\ UNCHANGED <<regs, data>>
  BY DEF Fetch
<1>2. ScanStopsAtTheFirst'  BY <1>1 DEF ScanStopsAtTheFirst, Repeated
<1>3. Scanned(0)'
  <2>1. regs \in RegFile /\ before'.regs = regs /\ before'.data = data  BY <1>1 DEF ExecTypeOK
  <2>2. (regs.cx - 0) % W = regs.cx  BY <2>1, ExecutionAssumption DEF RegFile
  <2>3. Width(inst'.op) \in 1..2 /\ regs.di \in 0..(W - 1)  BY <2>1 DEF Width, RegFile
  <2>4. At(regs, regs.di, 0 + 1, Width(inst'.op)) = regs.di
    <3>1. At(regs, regs.di, 1, Width(inst'.op)) = regs.di  BY <2>1, <2>3, NextItem
    <3>2. 0 + 1 = 1  OBVIOUS
    <3>3. QED BY <3>1, <3>2
  <2>5. regs = [regs EXCEPT !.cx = (@ - 0) % W,
                            !.di = At(regs, @, 0 + 1, Width(inst'.op)), !.zf = @]
    BY <2>1, <2>2, <2>4 DEF RegFile
  <2>6. QED BY <1>1, <2>1, <2>5 DEF Scanned
<1>4. 0 \in 0..(Times(before.regs') - 1)
  <2>1. regs \in RegFile /\ before.regs' = regs  BY <1>1 DEF ExecTypeOK
  <2>2. QED BY <2>1, ExecutionAssumption DEF Times, RegFile
<1>5. QED BY <1>2, <1>3, <1>4 DEF ScanIInv

LEMMA ScanPass ==
  ASSUME ExecTypeOK, ScanIInv, Scas, inst.prefix = \hF3
  PROVE  ScanIInv'
<1> DEFINE b == before.regs
           n == Width(inst.op)
           new == Accumulator(regs, n) = Item(data, regs.di, n)
           q == [regs EXCEPT !.zf = new, !.di = Step(regs, @)]
<1>1. /\ phase = "execute" /\ inst.op \in {\hAE, \hAF} /\ EndPass(q) /\ data' = data
      /\ UNCHANGED <<inst, before>>
  BY DEF Scas, Executing, EndPass
<1>2. PICK k \in 0..(Times(b) - 1) : Scanned(k)  BY <1>1 DEF ScanIInv
<1>3. b \in RegFile /\ b.di \in 0..(W - 1) /\ n \in 1..2 /\ regs \in RegFile /\ k \in Nat
      /\ Times(b) \in Nat
  BY ExecutionAssumption DEF ExecTypeOK, RegFile, Width, Times
<1> DEFINE at == At(b, b.di, k + 1, n)
<1>4. /\ data = before.data /\ regs.di = at /\ regs.cx = (b.cx - k) % W
      /\ regs.al = b.al /\ regs.ah = b.ah /\ regs.df = b.df
      /\ \A j \in 1..k : ~Found(before, j, n)
      /\ regs = [b EXCEPT !.cx = (@ - k) % W, !.di = at,
                          !.zf = IF k = 0 THEN @ ELSE Found(before, k, n)]
  BY <1>2, <1>3 DEF Scanned, RegFile
<1>5. new = Found(before, k + 1, n)
  <2>1. Accumulator(regs, n) = Accumulator(b, n)  BY <1>4 DEF Accumulator
  <2>2. QED BY <1>4, <2>1 DEF Found
<1>6. Step(regs, regs.di) = At(b, b.di, (k + 1) + 1, n)
  BY <1>3, <1>4, NextItem DEF Step
<1>7. regs' = [b EXCEPT !.cx = (@ - (k + 1)) % W, !.di = At(b, @, (k + 1) + 1, n),
                        !.zf = Found(before, k + 1, n)]
  <2>1. ((regs.cx) - 1) % W = (b.cx - (k + 1)) % W  BY <1>2, <1>3, <1>4, CountedDown
  <2>2. regs' = [q EXCEPT !.cx = (@ - 1) % W]  BY <1>1 DEF EndPass, Repeats
  <2>3. q = [regs EXCEPT !.zf = Found(before, k + 1, n),
                         !.di = At(b, b.di, (k + 1) + 1, n)]
    BY <1>3, <1>5, <1>6
  <2> HIDE DEF q, n, b, at
  <2>4. QED BY <1>3, <1>4, <2>1, <2>2, <2>3 DEF RegFile
<1>8. phase' = "fetch" <=> k + 1 = Times(b) \/ Found(before, k + 1, n)
  <2>1. q.cx = 1 <=> k + 1 = Times(b)  BY <1>2, <1>3, <1>4, CountedDown
  <2>2. q.zf <=> Found(before, k + 1, n)  BY <1>3, <1>5 DEF RegFile
  <2>3. inst.op \in UsesRepZf  BY <1>1 DEF UsesRepZf
  <2>4. Done(q) <=> q.cx = 1 \/ q.zf
    BY <2>3 DEF Done, Repeats
  <2>5. QED BY <1>1, <2>1, <2>2, <2>4 DEF EndPass
<1>9. phase' \in {"fetch", "execute"}  BY <1>1 DEF EndPass
<1>10. CASE phase' = "fetch"
  <2>1. k + 1 \in 1..Times(b)  BY <1>2, <1>3
  <2>2. \A j \in 1..((k + 1) - 1) : ~Found(before, j, n)  BY <1>3, <1>4
  <2>3. QED
    BY <1>1, <1>4, <1>7, <1>8, <1>10, <2>1, <2>2 DEF ScanIInv, ScanStopsAtTheFirst, Repeated
<1>11. CASE phase' = "execute"
  <2>1. k + 1 \in 0..(Times(b) - 1) /\ k + 1 # 0  BY <1>2, <1>3, <1>8, <1>11
  <2>2. \A j \in 1..(k + 1) : ~Found(before, j, n)
    <3>1. ~Found(before, k + 1, n)  BY <1>8, <1>11
    <3>2. QED BY <1>3, <1>4, <3>1
  <2>3. Scanned(k + 1)'  BY <1>1, <1>4, <1>7, <2>1, <2>2 DEF Scanned
  <2>4. QED BY <1>1, <1>11, <2>1, <2>3 DEF ScanIInv, ScanStopsAtTheFirst, Repeated
<1>12. QED BY <1>9, <1>10, <1>11

(* No other step has to do with a scan under F3.                            *)
LEMMA ScanElsewhere ==
  ASSUME ScanIInv, UNCHANGED <<inst, before>>,
         inst.prefix # \hF3 \/ inst.op \notin {\hAE, \hAF}
  PROVE  ScanIInv'
BY DEF ScanIInv, ScanStopsAtTheFirst, Repeated

LEMMA ScanStepInv == ExecTypeOK /\ ScanIInv /\ [ExecNext]_execVars => ScanIInv'
<1> SUFFICES ASSUME ExecTypeOK, ScanIInv, [ExecNext]_execVars PROVE ScanIInv'
  OBVIOUS
<1>1. CASE Fetch  BY <1>1, ScanFetch
<1>2. CASE Scas
  <2>1. CASE inst.prefix = \hF3  BY <1>2, <2>1, ScanPass
  <2>2. CASE inst.prefix # \hF3
    <3>1. UNCHANGED <<inst, before>>  BY <1>2 DEF Scas, EndPass
    <3>2. QED BY <2>2, <3>1, ScanElsewhere
  <2>3. QED BY <2>1, <2>2
<1>3. CASE Skip
  <2>1. UNCHANGED <<inst, before>> /\ inst.op \notin {\hAE, \hAF}
    BY <1>3 DEF Skip, NotImplemented
  <2>2. QED BY <2>1, ScanElsewhere
<1>4. CASE Movs \/ Cmps \/ Stos \/ Lods
  <2>1. UNCHANGED <<inst, before>> /\ inst.op \notin {\hAE, \hAF}
    BY <1>4 DEF Movs, Cmps, Stos, Lods, Executing, EndPass
  <2>2. QED BY <2>1, ScanElsewhere
<1>5. CASE Loop \/ Jump
  <2>1. UNCHANGED <<inst, before>> /\ inst.op \notin {\hAE, \hAF}
    BY <1>5 DEF Loop, Jump, Executing, EndPass, CountedJumps, ConditionalJumps, Jumps
  <2>2. QED BY <2>1, ScanElsewhere
<1>6. CASE Depart
  <2>1. UNCHANGED <<inst, before>> /\ inst.op \notin {\hAE, \hAF}
    BY <1>6 DEF Depart, Departs
  <2>2. QED BY <2>1, ScanElsewhere
<1>7. CASE Other
  <2>1. UNCHANGED <<inst, before>> /\ inst.op \notin {\hAE, \hAF}
    BY <1>7 DEF Other, Strings, EndPass
  <2>2. QED BY <2>1, ScanElsewhere
<1>8. CASE UNCHANGED execVars
  BY <1>8 DEF execVars, ScanIInv, Scanned, ScanStopsAtTheFirst, Repeated, Found
<1>9. QED BY <1>1, <1>2, <1>3, <1>4, <1>5, <1>6, <1>7, <1>8 DEF ExecNext

(* F3 SCAS stops behind the first item equal to the accumulator or when cx  *)
(* is used up, 65536 passes later if it was zero, for every data, count and *)
(* direction (cpu.cpp 748-774, 1376-1384): with k passes behind it, none of *)
(* the first k items was the one, cx is k less and di is at item k + 1.     *)
THEOREM ScansStop == ExecSpec => []ScanStopsAtTheFirst
<1>1. ExecInit => ExecTypeOK /\ ExecIInv /\ ScanIInv
  <2>1. ExecInit => ScanIInv
    BY DEF ExecInit, NoInst, ScanIInv, ScanStopsAtTheFirst, Repeated
  <2>2. QED BY <2>1, ExecInitTyped, ExecInitInv
<1>2. (ExecTypeOK /\ ExecIInv /\ ScanIInv) /\ [ExecNext]_execVars
        => (ExecTypeOK /\ ExecIInv /\ ScanIInv)'
  BY ExecStepTyped, ExecStepInv, ScanStepInv
<1>3. ScanIInv => ScanStopsAtTheFirst  BY DEF ScanIInv
<1>4. QED BY <1>1, <1>2, <1>3, PTL DEF ExecSpec

(* The same, with the step from item to item by name.                       *)
Onward(r, x, n) == (IF r.df THEN x - n ELSE x + n) % W

LEMMA AtOnward ==
  ASSUME NEW r \in RegFile, NEW p \in 0..(W - 1), NEW k \in Nat, NEW n \in 1..2
  PROVE  At(r, p, k + 1, n) = Onward(r, At(r, p, k, n), n)
BY NextItem, Zenon DEF Onward

LEMMA AtTyped ==
  ASSUME NEW r \in RegFile, NEW p \in 0..(W - 1), NEW k \in Nat, NEW n \in 1..2
  PROVE  At(r, p, k, n) \in 0..(W - 1)
BY NextItem

-------------------------------------------------------------------------------
(* Repeated moves.                                                          *)

(* The items of a block do not overlap, across the end of the segment too.  *)
LEMMA ItemsApart ==
  ASSUME NEW r \in RegFile, NEW p \in 0..(W - 1), NEW n \in 1..2, n * Times(r) <= W,
         NEW j \in 1..Times(r), NEW k \in 1..Times(r), j < k
  PROVE  \/ At(r, p, j, n) + n <= At(r, p, k, n)
         \/ At(r, p, k, n) + n <= At(r, p, j, n)
<1> DEFINE s == IF r.df THEN -n ELSE n
           a == p + (j - 1) * s
           b == p + (k - 1) * s
<1>1. W \in Nat \ {0} /\ n \in Nat /\ n >= 1 /\ p \in Int /\ Times(r) \in Nat
      /\ j \in Nat /\ k \in Nat
  BY ExecutionAssumption DEF RegFile, Times
<1>2. n <= (k - j) * n /\ (k - j) * n <= W - n
  <2>1. k - j >= 1 /\ k - j <= Times(r) - 1  BY <1>1
  <2>2. CASE n = 1  BY <1>1, <2>1, <2>2
  <2>3. CASE n = 2  BY <1>1, <2>1, <2>3
  <2>4. QED BY <2>2, <2>3
<1>3. At(r, p, j, n) = a % W /\ At(r, p, k, n) = b % W /\ a \in Int /\ b \in Int
  BY <1>1 DEF At
<1>4. CASE r.df
  <2>1. a - b = (k - j) * n
    <3>1. a = p + (j - 1) * (-n) /\ b = p + (k - 1) * (-n)  BY <1>4
    <3> HIDE DEF a, b
    <3>2. CASE n = 1  BY <1>1, <3>1, <3>2
    <3>3. CASE n = 2  BY <1>1, <3>1, <3>3
    <3>4. QED BY <3>2, <3>3
  <2> HIDE DEF a, b
  <2>2. n <= a - b /\ a - b <= W - n  BY <1>2, <2>1
  <2>3. (b % W) + n <= a % W \/ (a % W) + n <= b % W
    BY <1>1, <1>3, <2>2, ModSpread
  <2>4. QED BY <1>3, <2>3
<1>5. CASE ~r.df
  <2>1. b - a = (k - j) * n
    <3>1. a = p + (j - 1) * n /\ b = p + (k - 1) * n  BY <1>5
    <3> HIDE DEF a, b
    <3>2. CASE n = 1  BY <1>1, <3>1, <3>2
    <3>3. CASE n = 2  BY <1>1, <3>1, <3>3
    <3>4. QED BY <3>2, <3>3
  <2> HIDE DEF a, b
  <2>2. n <= b - a /\ b - a <= W - n  BY <1>2, <2>1
  <2>3. (a % W) + n <= b % W \/ (b % W) + n <= a % W
    BY <1>1, <1>3, <2>2, ModSpread
  <2>4. QED BY <1>3, <2>3
<1>6. QED BY <1>4, <1>5

(* What is put somewhere is there.                                          *)
LEMMA PutItem ==
  ASSUME NEW d \in Segment, NEW o \in 0..(W - 1), NEW n \in 1..2,
         NEW v \in [1..n -> Values], Len(v) = n
  PROVE  Item(Put(d, o, v), o, n) = v
<1>1. W \in Nat /\ o \in Nat /\ n \in Nat /\ DOMAIN d = 0..W
  BY ExecutionAssumption DEF Segment
<1>2. \A x \in 0..W : Put(d, o, v)[x] = IF x - o \in 0..(n - 1) THEN v[x - o + 1] ELSE d[x]
  BY <1>1 DEF Put
<1>3. ASSUME NEW i \in 1..n PROVE Put(d, o, v)[o + i - 1] = v[i]
  <2>1. o + i - 1 \in 0..W /\ (o + i - 1) - o \in 0..(n - 1) /\ (o + i - 1) - o + 1 = i
    BY <1>1
  <2>2. QED BY <1>2, <2>1
<1>4. Item(Put(d, o, v), o, n) = [i \in 1..n |-> v[i]]
  BY <1>3 DEF Item
<1>5. v = [i \in 1..n |-> v[i]]  OBVIOUS
<1>6. QED BY <1>4, <1>5

LEMMA ItemSame ==
  ASSUME NEW d, NEW e, NEW o \in Nat, NEW n \in 1..2, \A x \in o..(o + n - 1) : d[x] = e[x]
  PROVE  Item(d, o, n) = Item(e, o, n)
<1>1. \A i \in 1..n : o + i - 1 \in o..(o + n - 1)  OBVIOUS
<1>2. QED BY <1>1 DEF Item

(* What the block has at k before anything is moved, and where it goes.     *)
Moves == inst.op \in {\hA4, \hA5}
Source(k) ==
  IF Moves THEN Item(before.data, At(before.regs, before.regs.si, k, Width(inst.op)), Width(inst.op))
  ELSE Accumulator(before.regs, Width(inst.op))
Target(k) == At(before.regs, before.regs.di, k, Width(inst.op))
Fills(x, k) == x \in Target(k)..(Target(k) + Width(inst.op) - 1)
BlocksApart ==
  /\ ~before.regs.zf /\ Width(inst.op) * Times(before.regs) <= W
  /\ Moves => Cells(before.regs, before.regs.di, Width(inst.op))
                 \cap Cells(before.regs, before.regs.si, Width(inst.op)) = {}

(* While a move goes on, the first k items are where they belong.           *)
MovedRegs(k) ==
  [before.regs EXCEPT !.cx = (@ - k) % W, !.di = Target(k + 1),
                      !.si = IF Moves THEN At(before.regs, @, k + 1, Width(inst.op)) ELSE @]
Moved(k) ==
  /\ regs = MovedRegs(k)
  /\ BlocksApart =>
       /\ \A j \in 1..k : Item(data, Target(j), Width(inst.op)) = Source(j)
       /\ \A x \in 0..W : (\A j \in 1..k : ~Fills(x, j)) => data[x] = before.data[x]
MovesOrFills == inst.prefix = \hF3 /\ inst.op \in {\hA4, \hA5, \hAA, \hAB}
MoveIInv ==
  /\ phase = "execute" /\ MovesOrFills =>
       \E k \in 0..(Times(before.regs) - 1) : Moved(k)
  /\ phase = "fetch" /\ MovesOrFills /\ BlocksApart => Moved(Times(before.regs))

LEMMA MovedSuffices ==
  ASSUME ExecTypeOK, MoveIInv
  PROVE  BlockIsMoved
<1> DEFINE b == before.regs
           n == Width(inst.op)
           N == Times(b)
<1>1. SUFFICES ASSUME phase = "fetch", MovesOrFills, BlocksApart
               PROVE  /\ \A k \in 1..N : Item(data, Target(k), n) = Source(k)
                      /\ \A x \in (0..W) \ Cells(b, b.di, n) : data[x] = before.data[x]
                      /\ regs = [b EXCEPT !.cx = 0, !.di = Target(N + 1),
                                          !.si = IF Moves THEN At(b, @, N + 1, n) ELSE @]
  BY DEF BlockIsMoved, Repeated, MovesOrFills, BlocksApart, Moves, Source, Target
<1>2. Moved(N)  BY <1>1 DEF MoveIInv
<1>3. (b.cx - N) % W = 0
  <2>1. W \in Nat \ {0} /\ b.cx \in 0..(W - 1)  BY ExecutionAssumption DEF ExecTypeOK, RegFile
  <2>2. CASE b.cx = 0
    <3>1. b.cx - N = W * (-1) + 0  BY <2>1, <2>2 DEF Times
    <3>2. (W * (-1) + 0) % W = 0  BY <2>1, ModUnique
    <3>3. QED BY <3>1, <3>2
  <2>3. CASE b.cx # 0
    <3>1. b.cx - N = 0  BY <2>1, <2>3 DEF Times
    <3>2. 0 % W = 0  BY <2>1
    <3>3. QED BY <3>1, <3>2
  <2>4. QED BY <2>2, <2>3
<1>4. \A x \in 0..W : x \notin Cells(b, b.di, n) => \A j \in 1..N : ~Fills(x, j)
  BY DEF Cells, Fills, Target
<1>5. QED BY <1>1, <1>2, <1>3, <1>4 DEF Moved, MovedRegs

LEMMA MoveFetch ==
  ASSUME ExecTypeOK, Fetch
  PROVE  MoveIInv'
<1>1. /\ before' = [ip |-> ip, regs |-> regs, data |-> data] /\ phase' = "execute"
      /\ UNCHANGED <<regs, data>>
  BY DEF Fetch
<1>2. regs \in RegFile /\ before.regs' = regs /\ before.data' = data /\ regs' = regs
      /\ data' = data
  BY <1>1 DEF ExecTypeOK
<1>3. regs.si \in 0..(W - 1) /\ regs.di \in 0..(W - 1) /\ (regs.cx - 0) % W = regs.cx
      /\ Width(inst.op)' \in 1..2
  BY <1>2, ExecutionAssumption DEF RegFile, Width
<1>4. \A p \in 0..(W - 1) : At(regs, p, 0 + 1, Width(inst.op)') = p
  <2>1. 0 + 1 = 1  OBVIOUS
  <2>2. QED BY <1>2, <1>3, <2>1, NextItem
<1>5. MovedRegs(0)' = regs
  <2>1. Target(0 + 1)' = regs.di  BY <1>2, <1>3, <1>4 DEF Target
  <2> DEFINE si == IF Moves' THEN At(regs, regs.si, 0 + 1, Width(inst.op)') ELSE regs.si
  <2>2. MovedRegs(0)' = [regs EXCEPT !.cx = (regs.cx - 0) % W, !.di = Target(0 + 1)', !.si = si]
    BY <1>2 DEF MovedRegs
  <2>3. si = regs.si  BY <1>3, <1>4
  <2> HIDE DEF si
  <2>4. MovedRegs(0)' = [regs EXCEPT !.cx = regs.cx, !.di = regs.di, !.si = regs.si]
    BY <1>3, <2>1, <2>2, <2>3
  <2>5. QED BY <1>2, <2>4 DEF RegFile
<1>6. Moved(0)'  BY <1>2, <1>5 DEF Moved
<1>7. 0 \in 0..(Times(before.regs') - 1)
  BY <1>2, ExecutionAssumption DEF Times, RegFile
<1>8. QED BY <1>1, <1>6, <1>7 DEF MoveIInv

(* One pass, of MOVS or STOS, with k behind it.                             *)
LEMMA MovePass ==
  ASSUME ExecTypeOK, MovesOrFills, Movs \/ Stos,
         NEW k \in 0..(Times(before.regs) - 1), Moved(k)
  PROVE  /\ regs' = MovedRegs(k + 1)
         /\ phase' = "fetch" <=> k + 1 = Times(before.regs) \/ before.regs.zf
         /\ phase' \in {"fetch", "execute"}
         /\ UNCHANGED <<inst, before>>
         /\ \E v : data' = Put(data, Target(k + 1), v)
                  /\ v = IF Moves
                         THEN Item(data, At(before.regs, before.regs.si, k + 1, Width(inst.op)),
                                   Width(inst.op))
                         ELSE Accumulator(before.regs, Width(inst.op))
<1> DEFINE b == before.regs
           n == Width(inst.op)
           di == At(b, b.di, k + 1, n)
           si == IF Moves THEN At(b, b.si, k + 1, n) ELSE b.si
           q == [regs EXCEPT !.si = IF Moves THEN Step(regs, @) ELSE @, !.di = Step(regs, @)]
<1>1. /\ b \in RegFile /\ b.di \in 0..(W - 1) /\ b.si \in 0..(W - 1) /\ n \in 1..2
      /\ regs \in RegFile /\ k \in Nat /\ Times(b) \in Nat /\ k + 1 \in Nat
  BY ExecutionAssumption DEF ExecTypeOK, RegFile, Width, Times
<1>2. /\ regs = [b EXCEPT !.cx = (@ - k) % W, !.di = di, !.si = si]
  BY DEF Moved, MovedRegs, Target
<1>3. /\ regs.cx = (b.cx - k) % W /\ regs.di = di /\ regs.si = si /\ regs.al = b.al
      /\ regs.ah = b.ah /\ regs.df = b.df /\ regs.zf = b.zf
  BY <1>1, <1>2 DEF RegFile
<1>4. /\ inst.prefix \in Repeats /\ inst.prefix = \hF3 /\ inst.op \in UsesRepZf
  BY DEF MovesOrFills, Repeats, UsesRepZf
<1>5. EndPass(q)
  <2>1. CASE Movs
    BY <2>1 DEF Movs, Executing, Moves
  <2>2. CASE Stos
    <3>1. ~Moves  BY <2>2 DEF Stos, Executing, Moves
    <3>2. EndPass([regs EXCEPT !.di = Step(regs, @)])  BY <2>2 DEF Stos
    <3>3. [regs EXCEPT !.di = Step(regs, @)] = q  BY <1>1, <3>1 DEF RegFile
    <3>4. QED BY <3>2, <3>3
  <2>3. QED BY <2>1, <2>2
<1> DEFINE di2 == At(b, b.di, (k + 1) + 1, n)
           si2 == IF Moves THEN At(b, b.si, (k + 1) + 1, n) ELSE b.si
           cx2 == (b.cx - (k + 1)) % W
<1>5a. ASSUME NEW p \in 0..(W - 1)
       PROVE  Step(regs, At(b, p, k + 1, n)) = At(b, p, (k + 1) + 1, n)
  <2> DEFINE m == k + 1
  <2>1. At(b, p, (k + 1) + 1, n)
          = (IF b.df THEN At(b, p, k + 1, n) - n ELSE At(b, p, k + 1, n) + n) % W
    <3>1. b \in RegFile /\ n \in 1..2 /\ m \in Nat  BY <1>1
    <3> HIDE DEF b, n, m
    <3>2. At(b, p, m + 1, n) = Onward(b, At(b, p, m, n), n)  BY <3>1, AtOnward, Zenon
    <3>3. QED BY <3>2, Zenon DEF m, Onward
  <2>2. regs.df = b.df  BY <1>3
  <2>3. QED BY <2>1, <2>2, Zenon DEF Step
<1>6. Step(regs, regs.di) = di2
  BY <1>1, <1>3, <1>5a
<1>6a. Moves => Step(regs, regs.si) = si2
  BY <1>1, <1>3, <1>5a
<1>7. (regs.cx - 1) % W = cx2 /\ (regs.cx = 1 <=> k + 1 = Times(b))
  BY <1>1, <1>3, CountedDown
<1>8. /\ q.cx = regs.cx /\ q.zf = b.zf
      /\ q = [regs EXCEPT !.si = si2, !.di = di2]
  <2>1. (IF Moves THEN Step(regs, regs.si) ELSE regs.si) = si2  BY <1>3, <1>6a
  <2> HIDE DEF si2, di2
  <2>2. q = [regs EXCEPT !.si = si2, !.di = di2]  BY <1>6, <2>1
  <2> HIDE DEF q
  <2>3. QED BY <1>1, <1>3, <2>2 DEF RegFile
<1>9. regs' = MovedRegs(k + 1)
  <2>1. regs' = [q EXCEPT !.cx = (@ - 1) % W]  BY <1>4, <1>5 DEF EndPass
  <2>2. MovedRegs(k + 1) = [b EXCEPT !.cx = cx2, !.di = di2, !.si = si2]
    BY DEF MovedRegs, Target
  <2> HIDE DEF q, n, b, di, si, di2, si2, cx2
  <2>3. QED BY <1>1, <1>2, <1>7, <1>8, <2>1, <2>2 DEF RegFile
<1>10. phase' = "fetch" <=> k + 1 = Times(b) \/ b.zf
  <2>1. Done(q) <=> q.cx = 1 \/ q.zf  BY <1>4 DEF Done
  <2> HIDE DEF q
  <2>2. QED BY <1>5, <1>7, <1>8, <2>1 DEF EndPass
<1>11. phase' \in {"fetch", "execute"} /\ UNCHANGED <<inst, before>>
  BY <1>5 DEF EndPass
<1>12. data' = Put(data, di, IF Moves THEN Item(data, At(b, b.si, k + 1, n), n)
                             ELSE Accumulator(b, n))
  <2>1. CASE Movs
    <3>1. Moves  BY <2>1 DEF Movs, Executing, Moves
    <3>2. data' = Put(data, regs.di, Item(data, regs.si, n))  BY <2>1 DEF Movs
    <3>3. QED BY <1>3, <3>1, <3>2
  <2>2. CASE Stos
    <3>1. ~Moves  BY <2>2 DEF Stos, Executing, Moves
    <3>2. data' = Put(data, regs.di, Accumulator(regs, n))  BY <2>2 DEF Stos
    <3>3. Accumulator(regs, n) = Accumulator(b, n)  BY <1>3 DEF Accumulator
    <3>4. QED BY <1>3, <3>1, <3>2, <3>3
  <2>3. QED BY <2>1, <2>2
<1>13. QED BY <1>9, <1>10, <1>11, <1>12 DEF Target

(* The item that is moved is still what it was, as the blocks lie apart.    *)
LEMMA ItemIsSource ==
  ASSUME ExecTypeOK, BlocksApart, Moves, NEW k \in 0..(Times(before.regs) - 1), Moved(k)
  PROVE  Item(data, At(before.regs, before.regs.si, k + 1, Width(inst.op)), Width(inst.op))
           = Source(k + 1)
<1> DEFINE b == before.regs
           n == Width(inst.op)
           o == At(b, b.si, k + 1, n)
<1>1. /\ b \in RegFile /\ b.si \in 0..(W - 1) /\ n \in 1..2 /\ k \in Nat /\ k + 1 \in Nat
      /\ Times(b) \in Nat /\ k + 1 \in 1..Times(b) /\ W \in Nat
  BY ExecutionAssumption DEF ExecTypeOK, RegFile, Width, Times
<1>2. o \in 0..(W - 1)
  <2> DEFINE m == k + 1
             p == b.si
  <2>1. b \in RegFile /\ p \in 0..(W - 1) /\ n \in 1..2 /\ m \in Nat  BY <1>1
  <2> HIDE DEF b, n, m, p
  <2>2. At(b, p, m, n) \in 0..(W - 1)  BY <2>1, AtTyped, Zenon
  <2>3. QED BY <2>2 DEF m, p
<1>3. ASSUME NEW x \in o..(o + n - 1) PROVE data[x] = before.data[x]
  <2>1. x \in 0..W  BY <1>1, <1>2
  <2>2. x \in Cells(b, b.si, n)  BY <1>1 DEF Cells
  <2>3. x \notin Cells(b, b.di, n)  BY <2>2 DEF BlocksApart
  <2>4. \A j \in 1..k : j \in 1..Times(b)  BY <1>1
  <2>5. \A j \in 1..k : ~Fills(x, j)  BY <2>3, <2>4 DEF Cells, Fills, Target
  <2>6. QED BY <2>1, <2>5 DEF Moved
<1>4. Item(data, o, n) = Item(before.data, o, n)
  <2>1. o \in Nat  BY <1>1, <1>2
  <2> HIDE DEF o, n
  <2>2. QED BY <1>1, <1>3, <2>1, ItemSame
<1>5. QED BY <1>4 DEF Source

LEMMA SourceTyped ==
  ASSUME ExecTypeOK, NEW k \in Nat
  PROVE  /\ Source(k) \in [1..Width(inst.op) -> Values] /\ Len(Source(k)) = Width(inst.op)
         /\ Target(k) \in 0..(W - 1)
<1> DEFINE b == before.regs
           n == Width(inst.op)
           p == b.si
           q == b.di
<1>1. b \in RegFile /\ p \in 0..(W - 1) /\ q \in 0..(W - 1) /\ n \in 1..2
      /\ before.data \in Segment
  BY DEF ExecTypeOK, RegFile, Width
<1> HIDE DEF b, n, p, q
<1>2. At(b, p, k, n) \in 0..(W - 1) /\ At(b, q, k, n) \in 0..(W - 1)
  BY <1>1, AtTyped, Zenon
<1>3. CASE Moves
  <2>1. Item(before.data, At(b, p, k, n), n) \in [1..n -> Values]
        /\ Len(Item(before.data, At(b, p, k, n), n)) = n
    BY <1>1, <1>2, ItemTyped, Zenon
  <2>2. QED BY <1>2, <1>3, <2>1 DEF Source, Target, b, n, p, q
<1>4. CASE ~Moves
  <2>1. Accumulator(b, n) \in [1..n -> Values] /\ Len(Accumulator(b, n)) = n
    BY <1>1, AccumulatorTyped, Zenon
  <2>2. QED BY <1>2, <1>4, <2>1 DEF Source, Target, b, n, q
<1>5. QED BY <1>3, <1>4

(* One pass later one more item is where it belongs.                        *)
LEMMA OneMore ==
  ASSUME ExecTypeOK, BlocksApart, NEW k \in 0..(Times(before.regs) - 1), Moved(k),
         data' = Put(data, Target(k + 1), Source(k + 1))
  PROVE  /\ \A j \in 1..(k + 1) : Item(data', Target(j), Width(inst.op)) = Source(j)
         /\ \A x \in 0..W : (\A j \in 1..(k + 1) : ~Fills(x, j)) => data'[x] = before.data[x]
<1> DEFINE b == before.regs
           n == Width(inst.op)
           t == Target(k + 1)
           v == Source(k + 1)
<1>1. /\ b \in RegFile /\ b.di \in 0..(W - 1) /\ n \in 1..2 /\ k \in Nat /\ k + 1 \in Nat
      /\ Times(b) \in Nat /\ k + 1 \in 1..Times(b) /\ W \in Nat /\ data \in Segment
  BY ExecutionAssumption DEF ExecTypeOK, RegFile, Width, Times
<1>2. t \in 0..(W - 1) /\ v \in [1..n -> Values] /\ Len(v) = n
  BY <1>1, SourceTyped
<1>3. n * Times(b) <= W  BY DEF BlocksApart
<1>4. /\ Item(data', t, n) = v
      /\ \A x \in 0..W : x \notin t..(t + n - 1) => data'[x] = data[x]
  <2> HIDE DEF t, v, n
  <2>1. data' = Put(data, t, v)  BY DEF t, v
  <2>2. data \in Segment /\ n \in 1..2  BY <1>1
  <2>3. Item(Put(data, t, v), t, n) = v
    BY ONLY <1>2, <2>2, PutItem
  <2>4. ASSUME NEW x \in 0..W, x \notin t..(t + n - 1) PROVE Put(data, t, v)[x] = data[x]
    <3>1. W \in Nat /\ t \in Nat /\ n \in Nat /\ DOMAIN data = 0..W
      BY <1>1, <1>2 DEF Segment
    <3>2. x - t \notin 0..(n - 1)  BY <2>4, <3>1
    <3>3. QED BY <1>2, <3>1, <3>2 DEF Put
  <2>5. QED BY <2>1, <2>3, <2>4, Zenon
<1>5. ASSUME NEW j \in 1..k PROVE Item(data', Target(j), n) = Source(j)
  <2> DEFINE u == Target(j)
  <2>1. j \in Nat /\ j \in 1..Times(b) /\ j < k + 1  BY <1>1
  <2>2. u \in 0..(W - 1)  BY <2>1, SourceTyped
  <2>3. u + n <= t \/ t + n <= u
    <3> DEFINE p == b.di
               m == k + 1
    <3>1. /\ b \in RegFile /\ p \in 0..(W - 1) /\ n \in 1..2 /\ n * Times(b) <= W
          /\ j \in 1..Times(b) /\ m \in 1..Times(b) /\ j < m
          /\ u = At(b, p, j, n) /\ t = At(b, p, m, n)
      BY <1>1, <1>3, <2>1 DEF Target
    <3> HIDE DEF b, n, t, u, p, m
    <3>2. At(b, p, j, n) + n <= At(b, p, m, n) \/ At(b, p, m, n) + n <= At(b, p, j, n)
      BY ONLY <3>1, ItemsApart, Zenon
    <3>3. QED BY <3>1, <3>2
  <2>4. ASSUME NEW x \in u..(u + n - 1) PROVE data'[x] = data[x]
    <3> HIDE DEF t, u, n, b
    <3>1. t \in 0..(W - 1) /\ W \in Nat /\ n \in 1..2  BY <1>1, <1>2
    <3>2. x \in 0..W /\ x \notin t..(t + n - 1)  BY ONLY <2>2, <2>3, <2>4, <3>1
    <3>3. QED BY <1>4, <3>2
  <2>5. Item(data', u, n) = Item(data, u, n)
    <3>1. u \in Nat  BY <1>1, <2>2
    <3> HIDE DEF u, n
    <3>2. QED BY <1>1, <2>4, <3>1, ItemSame
  <2>6. Item(data, u, n) = Source(j)  BY DEF Moved
  <2>7. QED BY <2>5, <2>6
<1>6. \A j \in 1..(k + 1) : j \in 1..k \/ j = k + 1  BY <1>1
<1>7. ASSUME NEW x \in 0..W, \A j \in 1..(k + 1) : ~Fills(x, j)
      PROVE  data'[x] = before.data[x]
  <2>1. k + 1 \in 1..(k + 1) /\ \A j \in 1..k : j \in 1..(k + 1)  BY <1>1
  <2>2. x \notin t..(t + n - 1)  BY <1>7, <2>1 DEF Fills
  <2>3. data[x] = before.data[x]  BY <1>7, <2>1 DEF Moved
  <2>4. QED BY <1>4, <2>2, <2>3
<1>8. QED BY <1>4, <1>5, <1>6, <1>7

LEMMA MoveStep ==
  ASSUME ExecTypeOK, MoveIInv, MovesOrFills, Movs \/ Stos
  PROVE  MoveIInv'
<1>1. phase = "execute"  BY DEF Movs, Stos, Executing
<1>2. PICK k \in 0..(Times(before.regs) - 1) : Moved(k)  BY <1>1 DEF MoveIInv
<1>3. /\ regs' = MovedRegs(k + 1)
      /\ phase' = "fetch" <=> k + 1 = Times(before.regs) \/ before.regs.zf
      /\ phase' \in {"fetch", "execute"}
      /\ UNCHANGED <<inst, before>>
  BY <1>2, MovePass
<1>4. BlocksApart => data' = Put(data, Target(k + 1), Source(k + 1))
  <2>1. SUFFICES ASSUME BlocksApart
                 PROVE  data' = Put(data, Target(k + 1), Source(k + 1))
    OBVIOUS
  <2>2. CASE Moves  BY <1>2, <2>1, <2>2, MovePass, ItemIsSource
  <2>3. CASE ~Moves  BY <1>2, <2>3, MovePass DEF Source
  <2>4. QED BY <2>2, <2>3
<1>5. BlocksApart =>
        /\ \A j \in 1..(k + 1) : Item(data', Target(j), Width(inst.op)) = Source(j)
        /\ \A x \in 0..W : (\A j \in 1..(k + 1) : ~Fills(x, j)) => data'[x] = before.data[x]
  BY <1>2, <1>4, OneMore
<1>6. /\ BlocksApart' = BlocksApart /\ MovesOrFills' = MovesOrFills /\ before' = before
      /\ inst' = inst
  BY <1>3 DEF BlocksApart, MovesOrFills, Moves
<1>7. Moved(k + 1)'
  <2>1. /\ \A j : Target(j)' = Target(j) /\ Source(j)' = Source(j)
        /\ \A x, j : Fills(x, j)' = Fills(x, j)
        /\ MovedRegs(k + 1)' = MovedRegs(k + 1)
    BY <1>3 DEF Target, Source, Fills, MovedRegs, Moves
  <2>2. QED BY <1>3, <1>5, <1>6, <2>1 DEF Moved
<1>8. CASE phase' = "fetch"
  <2>1. BlocksApart => k + 1 = Times(before.regs)  BY <1>3, <1>8 DEF BlocksApart
  <2>2. QED BY <1>6, <1>7, <1>8, <2>1 DEF MoveIInv
<1>9. CASE phase' = "execute"
  <2>1. k + 1 # Times(before.regs)  BY <1>3, <1>9
  <2>2. k + 1 \in 0..(Times(before.regs) - 1)
    BY <1>2, <2>1, ExecutionAssumption DEF ExecTypeOK, RegFile, Times
  <2>3. QED BY <1>6, <1>7, <1>9, <2>2 DEF MoveIInv
<1>10. QED BY <1>3, <1>8, <1>9

(* No other step has to do with a move under F3.                            *)
LEMMA MoveElsewhere ==
  ASSUME MoveIInv, UNCHANGED <<inst, before>>, ~MovesOrFills
  PROVE  MoveIInv'
BY DEF MoveIInv, MovesOrFills

LEMMA MoveStepInv == ExecTypeOK /\ MoveIInv /\ [ExecNext]_execVars => MoveIInv'
<1> SUFFICES ASSUME ExecTypeOK, MoveIInv, [ExecNext]_execVars PROVE MoveIInv'
  OBVIOUS
<1>1. CASE Fetch  BY <1>1, MoveFetch
<1>2. CASE Movs \/ Stos
  <2>1. CASE MovesOrFills  BY <1>2, <2>1, MoveStep
  <2>2. CASE ~MovesOrFills
    <3>1. UNCHANGED <<inst, before>>  BY <1>2 DEF Movs, Stos, EndPass
    <3>2. QED BY <2>2, <3>1, MoveElsewhere
  <2>3. QED BY <2>1, <2>2
<1>3. CASE Skip
  <2>1. UNCHANGED <<inst, before>> /\ ~MovesOrFills
    BY <1>3 DEF Skip, NotImplemented, MovesOrFills
  <2>2. QED BY <2>1, MoveElsewhere
<1>4. CASE Cmps \/ Lods \/ Scas
  <2>1. UNCHANGED <<inst, before>> /\ ~MovesOrFills
    BY <1>4 DEF Cmps, Lods, Scas, Executing, EndPass, MovesOrFills
  <2>2. QED BY <2>1, MoveElsewhere
<1>5. CASE Loop \/ Jump
  <2>1. UNCHANGED <<inst, before>> /\ ~MovesOrFills
    BY <1>5 DEF Loop, Jump, Executing, EndPass, CountedJumps, ConditionalJumps, Jumps,
                MovesOrFills
  <2>2. QED BY <2>1, MoveElsewhere
<1>6. CASE Depart
  <2>1. UNCHANGED <<inst, before>> /\ ~MovesOrFills
    BY <1>6 DEF Depart, Departs, MovesOrFills
  <2>2. QED BY <2>1, MoveElsewhere
<1>7. CASE Other
  <2>1. UNCHANGED <<inst, before>> /\ ~MovesOrFills
    BY <1>7 DEF Other, Strings, EndPass, MovesOrFills
  <2>2. QED BY <2>1, MoveElsewhere
<1>8. CASE UNCHANGED execVars
  <2>1. UNCHANGED <<regs, data, inst, phase, before>>  BY <1>8 DEF execVars
  <2>2. /\ \A j : /\ Target(j)' = Target(j) /\ Source(j)' = Source(j)
                  /\ MovedRegs(j)' = MovedRegs(j)
        /\ \A x, j : Fills(x, j)' = Fills(x, j)
        /\ BlocksApart' = BlocksApart /\ MovesOrFills' = MovesOrFills
    BY <2>1 DEF Target, Source, Fills, MovedRegs, Moves, BlocksApart, MovesOrFills
  <2>3. \A k : Moved(k)' <=> Moved(k)  BY <2>1, <2>2 DEF Moved
  <2>4. QED BY <2>1, <2>2, <2>3 DEF MoveIInv
<1>9. QED BY <1>1, <1>2, <1>3, <1>4, <1>5, <1>6, <1>7, <1>8 DEF ExecNext

(* F3 MOVS and F3 STOS with ZF clear move or fill the whole block, item by  *)
(* item in either direction and across the end of the segment, and nothing  *)
(* beside it, for every data and count, as long as a block that is moved    *)
(* does not overlap its target (cpu.cpp 798-808, 835-845, 1376-1384): with  *)
(* k passes behind it the first k items are in place, and no pass reaches   *)
(* back to them as the block is no larger than the segment.                 *)
THEOREM BlocksAreMoved == ExecSpec => []BlockIsMoved
<1>1. ExecInit => ExecTypeOK /\ ExecIInv /\ MoveIInv
  <2>1. ExecInit => MoveIInv
    BY DEF ExecInit, NoInst, MoveIInv, MovesOrFills
  <2>2. QED BY <2>1, ExecInitTyped, ExecInitInv
<1>2. (ExecTypeOK /\ ExecIInv /\ MoveIInv) /\ [ExecNext]_execVars
        => (ExecTypeOK /\ ExecIInv /\ MoveIInv)'
  BY ExecStepTyped, ExecStepInv, MoveStepInv
<1>3. ExecTypeOK /\ MoveIInv => BlockIsMoved  BY MovedSuffices
<1>4. QED BY <1>1, <1>2, <1>3, PTL DEF ExecSpec

-------------------------------------------------------------------------------
(* Loops around a string instruction.                                       *)

(* After the k-th string instruction, and whether the k-th LOOP goes back   *)
(* unless cx is 0.                                                          *)
ZfAfter(k) == IF code[1] = \hAE THEN Found(first, k, 1) ELSE first.regs.zf
GoesOn(k) == (code[2] = \hE0 => ~ZfAfter(k)) /\ (code[2] = \hE1 => ZfAfter(k))
Stored(k) ==
  [x \in 0..W |->
     IF code[1] = \hAA /\ \E j \in 1..k : x = At(first.regs, first.regs.di, j, 1)
     THEN first.regs.al ELSE first.data[x]]

(* k string instructions and c LOOPs have been carried out.                 *)
Ran(k, c) ==
  /\ regs = [first.regs EXCEPT !.cx = (@ - c) % W, !.di = At(first.regs, @, k + 1, 1),
                              !.zf = IF k = 0 THEN @ ELSE ZfAfter(k)]
  /\ data = Stored(k)
WentOn(k) == \A j \in 1..k : GoesOn(j)

AtString(k) == k <= first.regs.cx /\ WentOn(k) /\ Ran(k, k)
AtLoop(k) == k <= first.regs.cx /\ WentOn(k) /\ Ran(k + 1, k)
Behind(k) ==
  /\ k + 1 = first.regs.cx + 1 \/ ~GoesOn(k + 1)
  /\ k <= first.regs.cx /\ WentOn(k) /\ Ran(k + 1, k + 1)
LoopIInv ==
  code \in StringLoops => \E k \in Nat :
    \/ phase = "fetch" /\ ip = 1 /\ AtString(k)
    \/ phase = "execute" /\ ip = 2 /\ inst = Decode(code, 1) /\ AtString(k)
    \/ phase = "fetch" /\ ip = 2 /\ AtLoop(k)
    \/ phase = "execute" /\ ip = 4 /\ inst = Decode(code, 2) /\ AtLoop(k)
    \/ phase = "fetch" /\ ip = 4 /\ Behind(k)

LEMMA LoopDecoded ==
  ASSUME code \in StringLoops
  PROVE  /\ Len(code) = 3 /\ code[1] \in {\hAA, \hAE} /\ code[2] \in {\hE0, \hE1, \hE2}
         /\ Decode(code, 1).op = code[1] /\ Decode(code, 1).prefix = 0
         /\ Decode(code, 1).len = 1
         /\ Decode(code, 2).op = code[2] /\ Decode(code, 2).prefix = 0
         /\ Decode(code, 2).len = 2 /\ Relative(Decode(code, 2)) = -3
<1>1. PICK op \in {\hAA, \hAE}, loop \in {\hE0, \hE1, \hE2} : code = <<op, loop, 253>>
  BY DEF StringLoops
<1>2. /\ Len(code) = 3 /\ code[1] = op /\ code[2] = loop /\ code[3] = 253
  BY <1>1
<1>3. /\ op \notin Prefixes /\ ~HasModrm(op) /\ ImmLen(op) = 0
  BY SMT DEF Prefixes, HasModrm, Modrm8, Modrm16, ImmLen, Imm8, Imm16, Column
<1>4. /\ loop \notin Prefixes /\ ~HasModrm(loop) /\ ImmLen(loop) = 1
  BY SMT DEF Prefixes, HasModrm, Modrm8, Modrm16, ImmLen, Imm8, Imm16, Column
<1>5. Decode(code, 1).op = op /\ Decode(code, 1).prefix = 0 /\ Decode(code, 1).len = 1
  BY <1>2, <1>3 DEF Decode
<1>6. /\ Decode(code, 2).op = loop /\ Decode(code, 2).prefix = 0 /\ Decode(code, 2).len = 2
      /\ Decode(code, 2).imm = 253
  BY <1>2, <1>4 DEF Decode, Value
<1>7. Relative(Decode(code, 2)) = -3
  BY <1>4, <1>6 DEF Relative
<1>8. QED BY <1>2, <1>5, <1>6, <1>7

LEMMA LoopBegins == ExecInit => LoopIInv
<1> SUFFICES ASSUME ExecInit PROVE LoopIInv
  OBVIOUS
<1>1. /\ regs \in RegFile /\ data \in Segment /\ first.regs = regs /\ first.data = data
      /\ ip = 1 /\ phase = "fetch"
  BY ExecInitTyped DEF ExecInit, ExecTypeOK
<1>2. regs.cx >= 0 /\ (regs.cx - 0) % W = regs.cx /\ regs.di \in 0..(W - 1)
  BY <1>1, ExecutionAssumption DEF RegFile
<1>3. At(regs, regs.di, 0 + 1, 1) = regs.di
  <2>1. 0 + 1 = 1  OBVIOUS
  <2>2. QED BY <1>1, <1>2, <2>1, NextItem
<1>4. regs = [regs EXCEPT !.cx = (@ - 0) % W, !.di = At(regs, @, 0 + 1, 1), !.zf = @]
  BY <1>1, <1>2, <1>3 DEF RegFile
<1>5. data = Stored(0)
  <2>1. \A x \in 0..W : ~\E j \in 1..0 : x = At(first.regs, first.regs.di, j, 1)
    OBVIOUS
  <2>2. QED BY <1>1, <2>1 DEF Stored, Segment
<1>6. Ran(0, 0) /\ WentOn(0)  BY <1>1, <1>4, <1>5 DEF Ran, WentOn
<1>7. AtString(0)  BY <1>1, <1>2, <1>6 DEF AtString
<1>8. QED BY <1>1, <1>7 DEF LoopIInv

(* The places depend on nothing but registers and data, and where it began. *)
LEMMA LoopPlacesStay ==
  ASSUME UNCHANGED <<code, first, regs, data>>, NEW k \in Nat
  PROVE  /\ AtString(k)' = AtString(k) /\ AtLoop(k)' = AtLoop(k) /\ Behind(k)' = Behind(k)
<1>1. \A j : ZfAfter(j)' = ZfAfter(j) /\ Stored(j)' = Stored(j)
  BY DEF ZfAfter, Found, Stored
<1>2. \A j, c : Ran(j, c)' = Ran(j, c)  BY <1>1 DEF Ran
<1>3. \A j : GoesOn(j)' = GoesOn(j)  BY <1>1 DEF GoesOn
<1>4. WentOn(k)' = WentOn(k)  BY <1>3 DEF WentOn
<1>5. QED BY <1>2, <1>3, <1>4 DEF AtString, AtLoop, Behind

LEMMA LoopFetch ==
  ASSUME code \in StringLoops, LoopIInv, Fetch
  PROVE  LoopIInv'
<1>1. /\ phase = "fetch" /\ ip <= Len(code) /\ phase' = "execute"
      /\ inst' = Decode(code, ip) /\ ip' = ip + Decode(code, ip).len
      /\ UNCHANGED <<code, first, regs, data>>
  BY DEF Fetch
<1>2. /\ Len(code) = 3 /\ Decode(code, 1).len = 1 /\ Decode(code, 2).len = 2
  BY LoopDecoded
<1>3. PICK k \in Nat :
        \/ ip = 1 /\ AtString(k)
        \/ ip = 2 /\ AtLoop(k)
        \/ ip = 4 /\ Behind(k)
  BY <1>1 DEF LoopIInv
<1>4. AtString(k)' = AtString(k) /\ AtLoop(k)' = AtLoop(k)  BY <1>1, LoopPlacesStay
<1>5. CASE ip = 1 /\ AtString(k)
  <2>1. ip' = 2 /\ inst' = Decode(code', 1)  BY <1>1, <1>2, <1>5
  <2>2. QED BY <1>1, <1>4, <1>5, <2>1 DEF LoopIInv
<1>6. CASE ip = 2 /\ AtLoop(k)
  <2>1. ip' = 4 /\ inst' = Decode(code', 2)  BY <1>1, <1>2, <1>6
  <2>2. QED BY <1>1, <1>4, <1>6, <2>1 DEF LoopIInv
<1>7. ip # 4  BY <1>1, <1>2
<1>8. QED BY <1>3, <1>5, <1>6, <1>7

(* The string instruction is carried out once more.                         *)
LEMMA StringPass ==
  ASSUME ExecTypeOK, code \in StringLoops, NEW k \in Nat, AtString(k),
         phase = "execute", inst = Decode(code, 1), Stos \/ Scas
  PROVE  AtLoop(k)' /\ phase' = "fetch" /\ UNCHANGED <<code, ip>>
<1> DEFINE b == first.regs
           di == At(b, b.di, k + 1, 1)
           di2 == At(b, b.di, (k + 1) + 1, 1)
           cx == (b.cx - k) % W
           zf == IF k = 0 THEN b.zf ELSE ZfAfter(k)
<1>1. /\ b \in RegFile /\ b.di \in 0..(W - 1) /\ regs \in RegFile /\ k + 1 \in Nat
      /\ data \in Segment /\ first.data \in Segment /\ W \in Nat
  BY ExecutionAssumption DEF ExecTypeOK, RegFile
<1>2. regs = [b EXCEPT !.cx = cx, !.di = di, !.zf = zf] /\ data = Stored(k)
      /\ k <= b.cx /\ WentOn(k)
  BY DEF AtString, Ran
<1>3. /\ regs.cx = cx /\ regs.di = di /\ regs.zf = zf /\ regs.al = b.al /\ regs.df = b.df
  BY <1>1, <1>2 DEF RegFile
<1>4. /\ code[1] \in {\hAA, \hAE} /\ inst.op = code[1] /\ inst.prefix = 0
  BY LoopDecoded
<1>5. Width(inst.op) = 1 /\ 0 \notin Repeats  BY <1>4 DEF Width, Repeats
<1>6. Step(regs, regs.di) = di2
  <2> DEFINE p == b.di
             m == k + 1
             n == Width(inst.op)
  <2>1. b \in RegFile /\ p \in 0..(W - 1) /\ m \in Nat /\ n \in 1..2  BY <1>1, <1>5
  <2> HIDE DEF b, p, m, n
  <2>2. At(b, p, m + 1, n) = Onward(b, At(b, p, m, n), n)  BY <2>1, AtOnward, Zenon
  <2>3. Step(regs, di) = Onward(b, di, n)  BY <1>3, Zenon DEF Step, Onward, n
  <2>4. QED BY <1>3, <1>5, <2>2, <2>3, Zenon DEF p, m, n
<1>7. \A r : EndPass(r) => regs' = r /\ phase' = "fetch" /\ UNCHANGED <<code, first>>
  BY <1>4, <1>5 DEF EndPass, Done
<1>8. /\ UNCHANGED ip /\ UNCHANGED <<code, first>> /\ phase' = "fetch"
      /\ regs' = [b EXCEPT !.cx = cx, !.di = di2, !.zf = ZfAfter(k + 1)]
      /\ data' = Stored(k + 1)
  <2>1. CASE Stos
    <3>1. code[1] = \hAA  BY <1>4, <2>1 DEF Stos, Executing
    <3>2. /\ data' = Put(data, di, <<b.al>>) /\ UNCHANGED ip
          /\ EndPass([regs EXCEPT !.di = di2])
      BY <1>3, <1>5, <1>6, <2>1 DEF Stos, Accumulator
    <3>3. regs' = [regs EXCEPT !.di = di2] /\ phase' = "fetch" /\ UNCHANGED <<code, first>>
      BY <1>7, <3>2
    <3>4. zf = b.zf /\ ZfAfter(k + 1) = b.zf  BY <3>1 DEF ZfAfter
    <3>5. regs' = [b EXCEPT !.cx = cx, !.di = di2, !.zf = ZfAfter(k + 1)]
      <4> HIDE DEF b, cx, di, di2, zf
      <4>1. QED BY <1>1, <1>2, <3>3, <3>4 DEF RegFile
    <3>6. data' = Stored(k + 1)
      <4>1. DOMAIN data = 0..W /\ di \in Int
        <5>1. regs.di \in 0..(W - 1)  BY <1>1 DEF RegFile
        <5>2. QED BY <1>1, <1>3, <5>1 DEF Segment
      <4>2. ASSUME NEW x \in 0..W
            PROVE  Put(data, di, <<b.al>>)[x] = Stored(k + 1)[x]
        <5>1. Put(data, di, <<b.al>>)[x] = IF x = di THEN b.al ELSE data[x]
          <6> HIDE DEF di, b
          <6>1. x - di \in 0..(1 - 1) <=> x = di  BY <1>1, <4>1
          <6>2. QED BY <4>1, <6>1 DEF Put
        <5>2. data[x] = IF \E j \in 1..k : x = At(b, b.di, j, 1) THEN b.al ELSE first.data[x]
          BY <1>2, <3>1 DEF Stored
        <5>3. Stored(k + 1)[x] =
                IF \E j \in 1..(k + 1) : x = At(b, b.di, j, 1) THEN b.al ELSE first.data[x]
          BY <3>1 DEF Stored
        <5>4. (\E j \in 1..(k + 1) : x = At(b, b.di, j, 1))
                <=> x = di \/ \E j \in 1..k : x = At(b, b.di, j, 1)
          <6>1. \A j : j \in 1..(k + 1) <=> j = k + 1 \/ j \in 1..k  OBVIOUS
          <6>2. QED BY <6>1
        <5>5. QED
          <6> HIDE DEF di, b
          <6>1. QED BY <5>1, <5>2, <5>3, <5>4
      <4>3. /\ Put(data, di, <<b.al>>) = [x \in 0..W |-> Put(data, di, <<b.al>>)[x]]
            /\ Stored(k + 1) = [x \in 0..W |-> Stored(k + 1)[x]]
        BY <4>1 DEF Put, Stored
      <4>4. Put(data, di, <<b.al>>) = Stored(k + 1)
        <5> HIDE DEF di, b
        <5>1. QED BY <4>2, <4>3
      <4>5. QED BY <3>2, <4>4
    <3>7. QED BY <3>2, <3>3, <3>5, <3>6
  <2>2. CASE Scas
    <3>1. code[1] = \hAE  BY <1>4, <2>2 DEF Scas, Executing
    <3>2. \A j \in Nat : Stored(j) = first.data  BY <1>1, <3>1 DEF Stored, Segment
    <3>3. (Accumulator(regs, 1) = Item(data, regs.di, 1)) = ZfAfter(k + 1)
      <4>1. data = first.data  BY <1>2, <3>2
      <4>2. Accumulator(regs, 1) = Accumulator(b, 1)  BY <1>3 DEF Accumulator
      <4>3. ZfAfter(k + 1) = (Item(first.data, di, 1) = Accumulator(b, 1))
        BY <3>1 DEF ZfAfter, Found
      <4>4. QED BY <1>3, <4>1, <4>2, <4>3
    <3>4. /\ UNCHANGED <<ip, data>>
          /\ EndPass([regs EXCEPT !.zf = ZfAfter(k + 1), !.di = di2])
      BY <1>5, <1>6, <2>2, <3>3 DEF Scas
    <3>5. /\ regs' = [regs EXCEPT !.zf = ZfAfter(k + 1), !.di = di2] /\ phase' = "fetch"
          /\ UNCHANGED <<code, first>>
      BY <1>7, <3>4
    <3>6. regs' = [b EXCEPT !.cx = cx, !.di = di2, !.zf = ZfAfter(k + 1)]
      <4> HIDE DEF b, cx, di, di2, zf
      <4>1. QED BY <1>1, <1>2, <3>5 DEF RegFile
    <3>7. data' = Stored(k + 1)  BY <1>1, <1>2, <3>2, <3>4
    <3>8. QED BY <3>4, <3>5, <3>6, <3>7
  <2>3. QED BY <2>1, <2>2
<1>9. AtLoop(k)'
  <2>1. \A j : ZfAfter(j)' = ZfAfter(j) /\ Stored(j)' = Stored(j)
    BY <1>8 DEF ZfAfter, Found, Stored
  <2>2. Ran(k + 1, k)'
    <3>1. k + 1 # 0  OBVIOUS
    <3>2. QED BY <1>8, <2>1, <3>1 DEF Ran
  <2>3. WentOn(k)' = WentOn(k)
    <3>1. \A j : GoesOn(j)' = GoesOn(j)  BY <1>8, <2>1 DEF GoesOn
    <3>2. QED BY <3>1 DEF WentOn
  <2>4. QED BY <1>2, <1>8, <2>2, <2>3 DEF AtLoop
<1>10. QED BY <1>8, <1>9

(* LOOP, LOOPE or LOOPNE goes back or leaves.                               *)
LEMMA LoopPass ==
  ASSUME ExecTypeOK, code \in StringLoops, NEW k \in Nat, AtLoop(k),
         phase = "execute", ip = 4, inst = Decode(code, 2), Loop
  PROVE  /\ phase' = "fetch" /\ UNCHANGED code
         /\ \/ ip' = 1 /\ AtString(k + 1)'
            \/ ip' = 4 /\ Behind(k)'
<1> DEFINE b == first.regs
           di == At(b, b.di, (k + 1) + 1, 1)
           cx == (b.cx - k) % W
           cx2 == (b.cx - (k + 1)) % W
           zf == ZfAfter(k + 1)
<1>1. /\ b \in RegFile /\ b.cx \in 0..(W - 1) /\ regs \in RegFile /\ k + 1 \in Nat
      /\ W \in Nat \ {0}
  BY ExecutionAssumption DEF ExecTypeOK, RegFile
<1>2. /\ regs = [b EXCEPT !.cx = cx, !.di = di, !.zf = zf] /\ data = Stored(k + 1)
      /\ k <= b.cx /\ WentOn(k)
  <2>1. k + 1 # 0  OBVIOUS
  <2>2. QED BY <2>1 DEF AtLoop, Ran
<1>3. zf \in BOOLEAN
  BY <1>1 DEF ZfAfter, Found, RegFile
<1>4. regs.cx = cx /\ regs.zf = zf
  <2> HIDE DEF cx, di, zf, b
  <2>1. QED BY <1>1, <1>2 DEF RegFile
<1>5. /\ code[2] \in {\hE0, \hE1, \hE2} /\ inst.op = code[2] /\ inst.prefix = 0
      /\ Relative(inst) = -3 /\ 0 \notin Repeats
  BY LoopDecoded DEF Repeats
<1>6. b.cx - k \in 0..(W - 1) /\ cx = b.cx - k
  <2>1. b.cx - k \in 0..(W - 1)  BY <1>1, <1>2
  <2>2. QED BY <1>1, <2>1
<1>7. (cx - 1) % W = cx2
  <2>1. cx - 1 = b.cx - (k + 1)  BY <1>1, <1>6
  <2>2. QED BY <2>1
<1>8. LoopsBack(regs) <=> k # b.cx /\ GoesOn(k + 1)
  <2>1. LoopsBack(regs) <=> cx # 0 /\ GoesOn(k + 1)
    <3> HIDE DEF cx
    <3>1. QED BY <1>4, <1>5 DEF LoopsBack, GoesOn
  <2>2. cx # 0 <=> k # b.cx  BY <1>1, <1>6
  <2>3. QED BY <2>1, <2>2
<1>9. EndPass([regs EXCEPT !.cx = (regs.cx - 1) % W]) /\ UNCHANGED data
  BY <1>1, <1>5 DEF Loop, RegFile
<1>10. /\ regs' = [regs EXCEPT !.cx = cx2] /\ phase' = "fetch" /\ UNCHANGED <<code, first>>
  <2> DEFINE q == [regs EXCEPT !.cx = (regs.cx - 1) % W]
  <2>1. q = [regs EXCEPT !.cx = cx2]  BY <1>4, <1>7
  <2>2. EndPass(q)  BY <1>9
  <2> HIDE DEF q
  <2>3. regs' = q /\ phase' = "fetch" /\ UNCHANGED <<code, first>>
    BY <1>5, <2>2 DEF EndPass, Done
  <2>4. QED BY <2>1, <2>3
<1>11. regs' = [b EXCEPT !.cx = cx2, !.di = di, !.zf = zf]
  <2> HIDE DEF b, cx, cx2, di, zf
  <2>1. QED BY <1>1, <1>2, <1>10 DEF RegFile
<1>12. /\ \A j : /\ ZfAfter(j)' = ZfAfter(j) /\ Stored(j)' = Stored(j)
                /\ GoesOn(j)' = GoesOn(j)
  <2>1. \A j : ZfAfter(j)' = ZfAfter(j) /\ Stored(j)' = Stored(j)
    BY <1>10 DEF ZfAfter, Found, Stored
  <2>2. QED BY <1>10, <2>1 DEF GoesOn
<1>13. Ran(k + 1, k + 1)'
  <2>1. k + 1 # 0  OBVIOUS
  <2>2. regs' = [b EXCEPT !.cx = (@ - (k + 1)) % W, !.di = At(b, @, (k + 1) + 1, 1),
                          !.zf = IF k + 1 = 0 THEN @ ELSE ZfAfter(k + 1)]
    BY <1>11, <2>1
  <2>3. data' = Stored(k + 1)  BY <1>2, <1>9
  <2>4. QED BY <1>10, <1>12, <2>2, <2>3 DEF Ran
<1>14. WentOn(k)'  BY <1>2, <1>12 DEF WentOn
<1>15. CASE LoopsBack(regs)
  <2>1. ip' = 1  BY <1>5, <1>15 DEF Loop
  <2>2. k + 1 <= b.cx  BY <1>1, <1>2, <1>8, <1>15
  <2>3. WentOn(k + 1)'
    <3>1. \A j \in 1..(k + 1) : j \in 1..k \/ j = k + 1  OBVIOUS
    <3>2. GoesOn(k + 1)'  BY <1>8, <1>12, <1>15
    <3>3. QED BY <1>14, <3>1, <3>2 DEF WentOn
  <2>4. AtString(k + 1)'  BY <1>10, <1>13, <2>2, <2>3 DEF AtString
  <2>5. QED BY <1>10, <2>1, <2>4
<1>16. CASE ~LoopsBack(regs)
  <2>1. ip' = 4  BY <1>16 DEF Loop
  <2>2. k = b.cx \/ ~GoesOn(k + 1)'  BY <1>8, <1>12, <1>16
  <2>3. k + 1 = b.cx + 1 \/ ~GoesOn(k + 1)'  BY <1>1, <2>2
  <2>4. Behind(k)'  BY <1>2, <1>10, <1>13, <1>14, <2>3 DEF Behind
  <2>5. QED BY <1>10, <2>1, <2>4
<1>17. QED BY <1>15, <1>16

LEMMA LoopStepInv == ExecTypeOK /\ LoopIInv /\ [ExecNext]_execVars => LoopIInv'
<1> SUFFICES ASSUME ExecTypeOK, LoopIInv, [ExecNext]_execVars PROVE LoopIInv'
  OBVIOUS
<1>1. UNCHANGED <<code, first>>
  BY DEF ExecNext, Fetch, Skip, Movs, Cmps, Stos, Lods, Scas, Loop, Jump, Depart, Other,
         EndPass, execVars
<1>2. CASE code \notin StringLoops  BY <1>1, <1>2 DEF LoopIInv
<1>3. CASE code \in StringLoops
  <2>1. PICK k \in Nat :
          \/ phase = "fetch" /\ ip = 1 /\ AtString(k)
          \/ phase = "execute" /\ ip = 2 /\ inst = Decode(code, 1) /\ AtString(k)
          \/ phase = "fetch" /\ ip = 2 /\ AtLoop(k)
          \/ phase = "execute" /\ ip = 4 /\ inst = Decode(code, 2) /\ AtLoop(k)
          \/ phase = "fetch" /\ ip = 4 /\ Behind(k)
    BY <1>3 DEF LoopIInv
  <2>2. CASE UNCHANGED execVars
    <3>1. UNCHANGED <<code, first, regs, data, phase, ip, inst>>  BY <2>2 DEF execVars
    <3>2. AtString(k)' = AtString(k) /\ AtLoop(k)' = AtLoop(k) /\ Behind(k)' = Behind(k)
      BY <3>1, LoopPlacesStay
    <3>3. QED BY <2>1, <3>1, <3>2 DEF LoopIInv
  <2>3. CASE Fetch  BY <1>3, <2>3, LoopFetch
  <2>4. CASE ExecNext /\ ~Fetch
    <3>1. phase = "execute"
      BY <2>4 DEF ExecNext, Skip, Movs, Cmps, Stos, Lods, Scas, Loop, Jump, Depart, Other,
                  Executing
    <3>2. CASE ip = 2 /\ inst = Decode(code, 1) /\ AtString(k)
      <4>1. inst.op \in {\hAA, \hAE}  BY <1>3, <3>2, LoopDecoded
      <4>2. Stos \/ Scas
        BY <2>4, <4>1 DEF ExecNext, Skip, Movs, Cmps, Lods, Loop, Jump, Depart, Other, Executing,
                          NotImplemented, CountedJumps, ConditionalJumps, Jumps, Departs, Strings
      <4>3. AtLoop(k)' /\ phase' = "fetch" /\ UNCHANGED <<code, ip>>
        BY <1>3, <3>1, <3>2, <4>2, StringPass
      <4>4. QED BY <3>2, <4>3 DEF LoopIInv
    <3>3. CASE ip = 4 /\ inst = Decode(code, 2) /\ AtLoop(k)
      <4>1. inst.op \in {\hE0, \hE1, \hE2}  BY <1>3, <3>3, LoopDecoded
      <4>2. Loop
        BY <2>4, <4>1 DEF ExecNext, Skip, Movs, Cmps, Lods, Stos, Scas, Jump, Depart, Other,
                          Executing, NotImplemented, ConditionalJumps, Jumps, Departs,
                          Transfers, CountedJumps
      <4>3. /\ phase' = "fetch" /\ UNCHANGED code
            /\ \/ ip' = 1 /\ AtString(k + 1)'
               \/ ip' = 4 /\ Behind(k)'
        BY <1>3, <3>1, <3>3, <4>2, LoopPass
      <4>4. k + 1 \in Nat  OBVIOUS
      <4>5. QED BY <4>3, <4>4 DEF LoopIInv
    <3>4. QED BY <2>1, <3>1, <3>2, <3>3
  <2>5. QED BY <2>2, <2>3, <2>4
<1>4. QED BY <1>2, <1>3

(* A LOOP, LOOPE or LOOPNE around STOSB or SCASB carries it out until ZF    *)
(* ends the loop or cx is counted down (cpu.cpp 1061-1080), for every cx, 0 *)
(* included, and all data: with k rounds behind it cx is k less, and ZF     *)
(* ended none of them.                                                      *)
THEOREM LoopsRunTheirCourse == ExecSpec => []LoopRunsItsCourse
<1>1. ExecInit => ExecTypeOK /\ ExecIInv /\ LoopIInv
  BY LoopBegins, ExecInitTyped, ExecInitInv
<1>2. (ExecTypeOK /\ ExecIInv /\ LoopIInv) /\ [ExecNext]_execVars
        => (ExecTypeOK /\ ExecIInv /\ LoopIInv)'
  BY ExecStepTyped, ExecStepInv, LoopStepInv
<1>3. ExecTypeOK /\ LoopIInv => LoopRunsItsCourse
  <2> DEFINE ends == {Times(first.regs), first.regs.cx + 1}
             Course(k) == /\ \A j \in 1..(k - 1) : GoesOn(j)
                          /\ k \in ends \/ ~GoesOn(k)
                          /\ regs = [first.regs EXCEPT
                                       !.cx = (@ - k) % W,
                                       !.di = At(first.regs, @, k + 1, 1), !.zf = ZfAfter(k)]
                          /\ data = Stored(k)
  <2>1. SUFFICES ASSUME ExecTypeOK, LoopIInv, code \in StringLoops, phase = "fetch", ip = 4
                 PROVE  \E k \in UNION {1..e : e \in ends} : Course(k)
    BY Zenon DEF LoopRunsItsCourse, GoesOn, ZfAfter, Stored
  <2>2. PICK k \in Nat : Behind(k)  BY <2>1 DEF LoopIInv
  <2>3. first.regs.cx \in Nat  BY <2>1, ExecutionAssumption DEF ExecTypeOK, RegFile
  <2>4. k + 1 \in 1..(first.regs.cx + 1) /\ (k + 1) - 1 = k /\ k + 1 # 0
    BY <2>2, <2>3 DEF Behind
  <2>5. Course(k + 1)
    <3>1. k + 1 \in ends \/ ~GoesOn(k + 1)  BY <2>2 DEF Behind
    <3>2. /\ \A j \in 1..((k + 1) - 1) : GoesOn(j)
          /\ regs = [first.regs EXCEPT
                       !.cx = (@ - (k + 1)) % W,
                       !.di = At(first.regs, @, (k + 1) + 1, 1), !.zf = ZfAfter(k + 1)]
          /\ data = Stored(k + 1)
      BY <2>2, <2>4 DEF Behind, WentOn, Ran
    <3>3. QED BY <3>1, <3>2, Zenon
  <2>6. k + 1 \in UNION {1..e : e \in ends}
    <3>1. first.regs.cx + 1 \in ends  OBVIOUS
    <3> HIDE DEF ends
    <3>2. QED BY <2>4, <3>1, Zenon
  <2> HIDE DEF Course, ends
  <2>7. QED BY <2>5, <2>6, Zenon
<1>4. QED BY <1>1, <1>2, <1>3, PTL DEF ExecSpec

===============================================================================
