------------------------------ MODULE MCExecution ------------------------------
(***************************************************************************)
(* TLC instance of Execution.  Every opcode, with every mod and rm (two of *)
(* them with every ModRM byte), alone and after prefixes, and the string   *)
(* instructions, repeated or in a loop, from all registers and several     *)
(* contents of memory.                                                     *)
(***************************************************************************)
EXTENDS Execution, FiniteSets

AllValues == 0..9

(* The bytes of data by their number, or by whether they hold a 1.         *)
Distinct == [x \in 0..W |-> x]
Marked(s) == [x \in 0..W |-> IF x \in s THEN 1 ELSE 0]

Plain == [cx |-> 1, si |-> 0, di |-> 0, al |-> 9, ah |-> 8, zf |-> FALSE, df |-> FALSE]
AllRegisters == {Plain, [Plain EXCEPT !.cx = 2]}
AllContents == {Distinct}

(* An instruction, a NOP behind it and the places they begin at.  The      *)
(* displacement is low or high and the constant is another; a relative     *)
(* jump goes to the NOP.                                                   *)
Behind(op, low) ==
  IF op \in Transfers THEN <<0, 0>> ELSE <<low, 18, 52, 86>>
Bytes(p, op, b, low) ==
  p \o <<op>> \o (IF EncodesModrm(op) THEN <<b>> ELSE <<>>) \o Behind(op, low)
Case(c) ==
  LET n == EncodedLen(c, 1) IN
  [code |-> SubSeq(c, 1, n) \o <<\h90>>, starts |-> {1, n + 1, n + 2},
   regs |-> {Plain}, data |-> {Distinct}]
Modrms(op) ==
  IF ~EncodesModrm(op) THEN {192}
  ELSE IF op \in {\hF7, \hFF} THEN Byte ELSE {b \in Byte : (b \div 8) % 8 = op % 8}
SomeModrms(op) == IF EncodesModrm(op) THEN {22, 94, 130, 211} ELSE {192}
Alone == UNION {{Bytes(<<>>, op, b, low) : b \in Modrms(op), low \in {5, 133}} :
                op \in Byte \ Prefixes}
Prefixed == UNION {{Bytes(<<p>>, op, b, 133) : p \in Prefixes, b \in SomeModrms(op)} :
                   op \in Byte \ Prefixes}
Proper(b) == Program(b.code, b.starts)
Instructions == {b \in {Case(c) : c \in Alone \cup Prefixed} : Proper(b)}

(* The string instructions.                                                *)
Program1(c, r, d) == [code |-> c, starts |-> {1, Len(c) + 1}, regs |-> r, data |-> d]
Program2(c, r, d) == [code |-> c, starts |-> {1, 2, 4}, regs |-> r, data |-> d]
Looks == [cx : 0..(W - 1), si : {0}, di : 0..(W - 1), al : {1}, ah : {1},
          zf : BOOLEAN, df : BOOLEAN]
Moves == [cx : 0..(W - 1), si : 0..(W - 1), di : 0..(W - 1), al : {9}, ah : {8},
          zf : BOOLEAN, df : BOOLEAN]
Marks == {Marked(s) : s \in {t \in SUBSET (0..W) : Cardinality(t) <= 2}}
Repetitions ==
  {Program1(<<\hF3, op>>, Looks, Marks) : op \in {\hAE, \hAF}} \cup
  {Program1(<<\hF3, op>>, Moves, {Distinct}) : op \in Strings \ {\hAE, \hAF}} \cup
  {Program1(<<\hF2, op>>, Looks, {Marked({1, 2})}) : op \in Strings}
StringLoop(op, loop) ==
  Program2(<<op, loop, 253>>, Looks, IF op = \hAE THEN Marks ELSE {Distinct})
AllBeginnings ==
  Instructions \cup Repetitions \cup
  {StringLoop(op, loop) : op \in {\hAA, \hAE}, loop \in {\hE0, \hE1, \hE2}}
===============================================================================
