----------------------------- MODULE Namespace -----------------------------
(***************************************************************************)
(* What the file system promises the programs: a tree of names.  A path    *)
(* is the sequence of names from the root; the tree maps each path that    *)
(* exists to its type.  A file or an empty directory appears under an      *)
(* existing directory, or a file or an empty directory disappears; nothing *)
(* else changes, and a name never changes what it stands for.  Nothing is  *)
(* promised from the step on at which two calls that change the tree race. *)
(***************************************************************************)
EXTENDS Integers, Sequences, SequencesExt

CONSTANT Start  \* the tree after denemefs_init

VARIABLES tree, raced

\* p is new, below a directory.
Makes(old, new, p) ==
  /\ p # <<>> /\ Front(p) \in DOMAIN old /\ old[Front(p)] = "dir"
  /\ DOMAIN new = DOMAIN old \cup {p}
  /\ \A q \in DOMAIN old : new[q] = old[q]

\* p is gone; nothing was below it.
Deletes(old, new, p) ==
  /\ p # <<>> /\ \A q \in DOMAIN old \ {<<>>} : Front(q) # p
  /\ DOMAIN new = DOMAIN old \ {p}
  /\ \A q \in DOMAIN new : new[q] = old[q]

Next ==
  LET old == tree
      new == tree'
  IN  \/ raced'
      \/ new = old  \* a call that fails or only looks
      \/ \E p \in DOMAIN new \ DOMAIN old : Makes(old, new, p)
      \/ \E p \in DOMAIN old \ DOMAIN new : Deletes(old, new, p)

Spec == tree = Start /\ ~raced /\ [][Next]_<<tree, raced>>
=============================================================================
