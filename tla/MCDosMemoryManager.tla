-------------------------- MODULE MCDosMemoryManager --------------------------
(***************************************************************************)
(* TLC instance of DosMemoryManager: an arena of a few paragraphs, in      *)
(* which every size and every segment a word can hold is tried.            *)
(***************************************************************************)
EXTENDS DosMemoryManager

EveryPositiveSize == 1..(Word - 1)
===============================================================================
