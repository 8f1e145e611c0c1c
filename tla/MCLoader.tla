-------------------------------- MODULE MCLoader --------------------------------
(***************************************************************************)
(* TLC instance of Loader with the numbers of the code, for small files.   *)
(***************************************************************************)
EXTENDS Loader

At(segment, offset) == [segment |-> segment, offset |-> offset]

(* A header of two paragraphs and an image of 12 bytes, whose words run up *)
(* to FFFFh.                                                               *)
Hello ==
  [kind |-> "exe", intact |-> TRUE, opens |-> TRUE, blocksInFile |-> 1, bytesInLast |-> 44,
   headerParas |-> 2, minExtra |-> 1, cs |-> 0, ip |-> 2, ss |-> 1, sp |-> 256,
   relocs |-> <<>>, bytes |-> <<255, 255, 0, 0, 52, 18, 255, 246, 1, 0, 255, 0>>]

(* No relocation, one, some in any order; one address written as two       *)
(* segments; a carry between bytes and out of the word; words that overlap *)
(* and one that is named twice.                                            *)
Tables ==
  {<<>>, <<At(0, 0)>>, <<At(0, 10)>>, <<At(0, 3), At(0, 8)>>, <<At(0, 8), At(0, 5), At(0, 0)>>,
   <<At(0, 0), At(0, 2), At(0, 4), At(0, 6)>>, <<At(0, 1), At(0, 2)>>, <<At(0, 6), At(0, 6)>>}

(* The same image two paragraphs further on, reached with a segment.       *)
FarImage == [i \in 1..36 |-> i + 200]
Far == [Hello EXCEPT !.bytes = FarImage, !.blocksInFile = 1, !.bytesInLast = 68, !.cs = 2,
                     !.relocs = <<At(2, 1), At(1, 0), At(0, 34)>>]

Com(opens) ==
  [Hello EXCEPT !.kind = "com", !.headerParas = 0, !.opens = opens]

SmallFiles ==
  {[Hello EXCEPT !.relocs = t] : t \in Tables} \cup
  {Far, Com(TRUE), Com(FALSE),
   [Far EXCEPT !.cs = 65520, !.ip = 256],                    \* starts in front of the image
   [Hello EXCEPT !.bytesInLast = 0],                         \* a last block that is full
   [Hello EXCEPT !.blocksInFile = 100],                      \* larger than the arena
   [Hello EXCEPT !.intact = FALSE], [Far EXCEPT !.opens = FALSE]}

TheirPrograms == {ProgramOf(f) : f \in SmallFiles}

NoRequests == {}

(* No program asks 48h for 0xFFFF paragraphs; one size is within Slack of  *)
(* the other.                                                              *)
ModestBx == {8000, 8192}
Strays == {0, 65535}
===============================================================================
