--------------------------------- MODULE MCDos ---------------------------------
(***************************************************************************)
(* TLC instances of Dos with the numbers of the code: a 16-bit word, the   *)
(* arena 0x0800 .. 0x9FBF, remainders of up to 256 paragraphs not split.   *)
(***************************************************************************)
EXTENDS Dos

Com(size, readable) ==
  [kind |-> "com", readable |-> readable, size |-> size, header |-> 0, minExtra |-> 0]
Exe(size, minExtra, readable) ==
  [kind |-> "exe", readable |-> readable, size |-> size, header |-> 512, minExtra |-> minExtra]

NoRequests == {}

(* A .COM and an .EXE that load, an .EXE that asks for more than there is, *)
(* a file that is missing and an .EXE whose header is cut short.           *)
OrdinaryPrograms ==
  {Com(10000, TRUE), Com(10000, FALSE),
   Exe(20000, 16, TRUE), Exe(50000, 0, TRUE), Exe(20000, 16, FALSE)}

(* 0xFFFF is how DOS programs ask for all there is.                        *)
AllBx == {8192, 65535}

Strays == {0, 65535}

(* A file just over 64K with no extra paragraphs: image and PSP take 4091. *)
LargePrograms == {Exe(65700, 0, TRUE)}
===============================================================================
