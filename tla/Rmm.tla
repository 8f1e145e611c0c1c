---------------------------------- MODULE Rmm ----------------------------------
(***************************************************************************)
(* The operators of class Rmm (src/cpu/x86/rmm.h), which every arithmetic  *)
(* instruction goes through, and the flags they leave (regs.h).  Each      *)
(* returns [v, f]: what the operand becomes and the flags after it.  m is  *)
(* the number of values of the operand's type, T in the code.  An operand  *)
(* in memory behaves like one in a register.                               *)
(*                                                                         *)
(* AF, TF and IF are left out: AF is never set, and the other two change   *)
(* with the logic operators as DF does.                                    *)
(***************************************************************************)
EXTENDS Integers

CONSTANTS
  ByteSize,                   \* 2^8 in the code; a word is two bytes
  BitAnd(_, _),               \* & of C++
  Factors                     \* 2^n for the counts n that operands are shifted by; n
                              \* is below 32, a shift by more is undefined

WordSize == ByteSize * ByteSize
Sizes == {ByteSize, WordSize}
Values(m) == 0..(m - 1)
Bytes == Values(ByteSize)
Words == Values(WordSize)

Flags == [cf : BOOLEAN, pf : BOOLEAN, zf : BOOLEAN, sf : BOOLEAN, of : BOOLEAN, df : BOOLEAN]
NoFlags == [cf |-> FALSE, pf |-> FALSE, zf |-> FALSE, sf |-> FALSE, of |-> FALSE, df |-> FALSE]

ASSUME RmmAssumption ==
  /\ ByteSize \in Nat /\ ByteSize >= 4 /\ ByteSize % 2 = 0
  /\ Factors \subseteq Nat \ {0}

ASSUME BitAndAssumption ==
  \A m \in Sizes : \A a, b \in Values(m) :
    /\ BitAnd(a, b) \in Nat /\ BitAnd(a, b) <= a /\ BitAnd(a, b) <= b
    /\ a + b - BitAnd(a, b) < m

BitOr(a, b)  == a + b - BitAnd(a, b)
BitXor(a, b) == a + b - 2 * BitAnd(a, b)

(* cur & msb_mask, and the number of bits that are set.                    *)
Msb(m, v) == v >= (m \div 2)
Odd(a) == a % 2 = 1

Ones[v \in Words] == IF v = 0 THEN 0 ELSE (v % 2) + Ones[v \div 2]

-------------------------------------------------------------------------------
(* set_flags_psz()                                                         *)
SetPsz(m, v, f) ==
  [f EXCEPT !.pf = (Ones[v] % 2 = 0), !.zf = (v = 0), !.sf = Msb(m, v)]

(* set_flags_from_bigt(): big has twice the bits of the operand, of_mask   *)
(* is all but those of the largest signed T.                               *)
FromBigSigned(m, big, f) ==   \* wrong: the carry is looked for in the sign bit
  [v |-> big % m,
   f |-> SetPsz(m, big % m, [f EXCEPT !.of = (big >= m), !.cf = (big >= (m \div 2))])]

FromBig(m, big, f) ==
  [v |-> big % m,
   f |-> SetPsz(m, big % m, [f EXCEPT !.of = (big >= (m \div 2)), !.cf = (big >= m)])]

(* operator+=, operator-= and cmp()                                        *)
Add(m, a, b, f) == FromBig(m, a + b, f)
Sub(m, a, b, f) == FromBig(m, (a - b) % (m * m), f)

(* clear_flags_coa(): flags_t::clear() masks with !flg, which is 0.        *)
ClearCoaNot(f) ==             \* wrong: overflow is kept
  [f EXCEPT !.cf = FALSE]
ClearCoa(f) == NoFlags

(* operator&=, operator|= and operator^=                                   *)
Logic(m, v, f) == [v |-> v, f |-> SetPsz(m, v, ClearCoa(f))]

(* neg()                                                                   *)
Neg(m, a, f) == FromBig(m, m - a, f)

(* ADC and SBB, execute_0x1(): what was in CF is added by itself.          *)
AdcLate(m, a, b, f) ==        \* wrong: CF is read after the first sum
  LET r == Add(m, a, b, f) IN IF r.f.cf THEN Add(m, r.v, 1, r.f) ELSE r
Adc(m, a, b, f) == LET r == Add(m, a, b, f) IN IF f.cf THEN Add(m, r.v, 1, r.f) ELSE r
Sbb(m, a, b, f) == LET r == Sub(m, a, b, f) IN IF f.cf THEN Sub(m, r.v, 1, r.f) ELSE r

-------------------------------------------------------------------------------
(* Shifts and rotations, shl() to sar(), by n where p is 2^n.  Only one    *)
(* bit comes in at the other end, whatever n is.                           *)
Shifted(m, v, cf, f) == [v |-> v, f |-> SetPsz(m, v, [f EXCEPT !.cf = cf])]

Left(m, a, p) == (a * p) % m

WithLsb(v, set) == IF set THEN v - (v % 2) + 1 ELSE v
WithMsb(m, v, set) == IF set THEN (v % (m \div 2)) + (m \div 2) ELSE v

Shift(op, m, a, p, f) ==
  CASE op = "shl" -> Shifted(m, Left(m, a, p), Msb(m, a), f)
    [] op = "rol" -> Shifted(m, WithLsb(Left(m, a, p), Msb(m, a)), Msb(m, a), f)
    [] op = "rcl" -> Shifted(m, WithLsb(Left(m, a, p), f.cf), Msb(m, a), f)
    [] op = "shr" -> Shifted(m, a \div p, Odd(a), f)
    [] op = "ror" -> Shifted(m, WithMsb(m, a \div p, Odd(a)), Odd(a), f)
    [] op = "rcr" -> Shifted(m, WithMsb(m, a \div p, f.cf), Odd(a), f)
    [] op = "sar" -> Shifted(m, WithMsb(m, (a % (m \div 2)) \div p, Msb(m, a)), Odd(a), f)

-------------------------------------------------------------------------------
(* The condition of each conditional jump, execute_0x7().                  *)
Condition(c, f) ==
  CASE c = "o" -> f.of            [] c = "no" -> ~f.of
    [] c = "b" -> f.cf            [] c = "ae" -> ~f.cf
    [] c = "e" -> f.zf            [] c = "ne" -> ~f.zf
    [] c = "be" -> f.cf \/ f.zf   [] c = "a" -> ~f.cf /\ ~f.zf
    [] c = "s" -> f.sf            [] c = "ns" -> ~f.sf
    [] c = "p" -> f.pf            [] c = "np" -> ~f.pf
    [] c = "l" -> f.sf # f.of     [] c = "ge" -> f.sf = f.of
    [] c = "le" -> f.zf \/ f.sf # f.of
    [] c = "g" -> ~f.zf /\ f.sf = f.of
===============================================================================
