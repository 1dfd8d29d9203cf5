-------------------------------- MODULE Heap --------------------------------
(***************************************************************************)
(* What the kernel heap promises its callers: a request for n bytes is     *)
(* answered by n bytes that overlap no live allocation, and an allocation  *)
(* keeps its place until it is freed.                                      *)
(***************************************************************************)
EXTENDS Integers

CONSTANT Sizes  \* the sizes that callers ask for

VARIABLE live   \* the live allocations: first byte, length

Overlap(a, b) == a.lo < b.lo + b.len /\ b.lo < a.lo + a.len

Init == live = {}

Alloc(n) ==
  \E b \in live' \ live :
    /\ b.len = n
    /\ \A a \in live : a.lo # b.lo /\ ~Overlap(a, b)
    /\ live' = live \cup {b}

Free == \E b \in live : live' = live \ {b}

Next == Free \/ \E n \in Sizes : Alloc(n)

Spec == Init /\ [][Next]_live
=============================================================================
