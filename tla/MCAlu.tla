--------------------------------- MODULE MCAlu ---------------------------------
(***************************************************************************)
(* A TLC instance of Alu: bytes of two bits, words of four, shifts by 0, 1 *)
(* and 3 bits.                                                             *)
(***************************************************************************)
EXTENDS Alu

AndOf[a, b \in Words] ==
  IF a = 0 THEN 0 ELSE (a % 2) * (b % 2) + 2 * AndOf[a \div 2, b \div 2]
BitByBit(a, b) == AndOf[a, b]

TwoPlaces == {"ax", "dx"}
SomeImmediates == {0, 1, 3, 8}
ShiftFactors == {1, 2, 8}
===============================================================================
