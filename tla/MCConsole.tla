----------------------------- MODULE MCConsole -----------------------------
(* Keys for Console: the bytes a keyboard sends for them.                  *)
EXTENDS Console

MCModifiers == {[bit |-> "CTL", make |-> <<224, 29>>, break |-> <<224, 157>>],
                [bit |-> "ALT", make |-> <<56>>, break |-> <<184>>]}

\* Del, held so that it repeats
MCTyped == {<<224, 83>>}

\* The bytes outside the queue are written before they are read: states that
\* differ in them only are one.
View == <<wire, held, shift, rpos, Unread, console_lock, readerVars, monitor>>
=============================================================================
