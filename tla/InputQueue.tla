----------------------------- MODULE InputQueue -----------------------------
(***************************************************************************)
(* What the console promises the programs that read it: the characters     *)
(* typed come out one by one, in the order in which they went in, each to  *)
(* at most one reader.  The queue holds fewer than Limit characters; the   *)
(* character that would make it full makes it forget all of them, itself   *)
(* included.                                                               *)
(***************************************************************************)
EXTENDS Integers, Sequences

CONSTANTS Chars, Limit

VARIABLES q,       \* the characters not read yet
          given    \* the last character given to a reader, 0 before the first

Type(c) ==
  /\ q' = IF Len(q) = Limit - 1 THEN <<>> ELSE Append(q, c)
  /\ UNCHANGED given

Read ==
  /\ q # <<>>
  /\ q' = Tail(q) /\ given' = Head(q)

\* A character is taken for nobody.
Lose == q # <<>> /\ q' = Tail(q) /\ UNCHANGED given

Next ==
  \/ Read \/ Lose
  \/ \E c \in Chars : Type(c)

Spec == q = <<>> /\ given = 0 /\ [][Next]_<<q, given>>
=============================================================================
