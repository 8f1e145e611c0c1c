----------------------------- MODULE MCInterrupts -----------------------------
(***************************************************************************)
(* A TLC instance of Interrupts: a stack of a few words that the program   *)
(* starts in the middle of.  No two kinds of words have a value in common. *)
(***************************************************************************)
EXTENDS Interrupts

TwoIps == {2, 3}
OneCs == {4}
TwoFlags == {6, 7}
TwoRegFiles == {<<10, 11, 12, 13, 14, 15, 16>>, <<17, 17, 17, 17, 17, 17, 17>>}
NumbersUsed == {3, 20, 21, 22}    \* INT 3, 20h, 21h and 25h
ByDoor86 == {20, 21}
Program == {20}
Breakpoint == {3}
Hooks == {21, 22}
OneHandler == {[seg |-> 4, off |-> 2]}
Ax == {1}
===============================================================================
