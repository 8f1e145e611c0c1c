------------------------------ MODULE MCGdbRemote ------------------------------
(***************************************************************************)
(* TLC instance of GdbRemote: packets of gdb with the sums of their bytes. *)
(* One has a "+" in its text, one a "-", one lets the program run, one is  *)
(* not answered, one is empty.  The sum of Memory and of Go is DCh, which  *)
(* with that of a "$" is 0: the line goes on as if it began anew.          *)
(***************************************************************************)
EXTENDS GdbRemote

CONSTANT none    \* model value

Memory == "m799f,4"
WithPlus == "qSupported:swbreak+"
WithMinus == "Hc-1"
Go == "vCont;c:1cf"
MustReplyEmpty == "vMustReplyEmpty"
Short == "H"
Empty == ""

AllRequests == {Memory, WithPlus, WithMinus, Go, MustReplyEmpty, Short, Empty}
Resumes == {Go}
Exact == {MustReplyEmpty}
Unanswered == {Short}
Texts == [r \in AllRequests |->
            CASE r = WithPlus -> <<"qSupported:swbreak", "+">>
              [] r = WithMinus -> <<"Hc", "-", "1">>
              [] r = Empty -> <<>>
              [] OTHER -> <<r>>]
Sums == (Memory :> 220) @@ ("qSupported:swbreak" :> 96) @@ ("Hc" :> 171) @@ ("1" :> 49)
        @@ (Go :> 220) @@ (MustReplyEmpty :> 58) @@ (Short :> 72)
        @@ ("$" :> 36) @@ ("+" :> 43) @@ ("-" :> 45)
===============================================================================
