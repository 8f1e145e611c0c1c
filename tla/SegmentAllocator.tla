--------------------------- MODULE SegmentAllocator ---------------------------
(***************************************************************************)
(* What a DOS memory manager promises its callers, without saying how it   *)
(* keeps its blocks: memory between paragraph Lo and paragraph Hi is lent  *)
(* out in runs of paragraphs that never overlap and are never empty.  A    *)
(* caller who asks for n paragraphs gets between n and n + Slack of them,  *)
(* or nothing; a caller gives a run back by naming its first paragraph.    *)
(* Which run a request gets, and when a request is refused, is left open.  *)
(***************************************************************************)
EXTENDS Integers

CONSTANTS Lo, Hi,      \* the arena is the paragraphs Lo .. Hi-1
          Slack,       \* how many paragraphs more than asked may be lent
          Requests     \* the sizes callers ask for

VARIABLE granted       \* the runs lent out: a set of [start, size] records

Run == [start : Lo..Hi, size : 0..(Hi - Lo)]

Disjoint(g, h) == \/ g.start + g.size <= h.start
                  \/ h.start + h.size <= g.start

Init == granted = {}

Grant(n) ==
  \E g \in Run :
    /\ g.size \in n..(n + Slack)
    /\ g.start + g.size <= Hi
    /\ \A h \in granted : Disjoint(g, h) /\ g.start # h.start
    /\ granted' = granted \cup {g}

Release(seg) ==
  \E g \in granted :
    /\ g.start = seg
    /\ granted' = granted \ {g}

Next == \/ \E n \in Requests : Grant(n)
        \/ \E seg \in Lo..Hi : Release(seg)

Spec == Init /\ [][Next]_granted
===============================================================================
