------------------------------ MODULE MCDebugger ------------------------------
(***************************************************************************)
(* TLC instances of Debugger.                                              *)
(***************************************************************************)
EXTENDS Debugger

CONSTANTS g1, g2, l1    \* model values: two gdb connections, one lame

OneGdb == {g1}
TwoGdb == {g1, g2}
OneLame == {l1}
Zero == {FALSE}         \* the flag happens to start out false
Garbage == BOOLEAN      \* it holds whatever the stack held
===============================================================================
