---------------------------- MODULE MCFileSystem ----------------------------
(* Tasks, paths and bounds for FileSystem.                                 *)
EXTENDS FileSystem

CONSTANTS
  t1, t2,
  MinRootRef  \* bound: references that the root keeps, of the 5 it starts with

MCTasks == {t1, t2}
Symmetry == Permutations(MCTasks)

Abs(dirs, name) == [abs |-> TRUE, dirs |-> dirs, name |-> name]
Rel(dirs, name) == [abs |-> FALSE, dirs |-> dirs, name |-> name]

\* "/home/a", "/home/a/", "b" and "../b"
MCPaths == {Abs(<<"home">>, "a"), Abs(<<"home", "a">>, ""),
            Rel(<<>>, "b"), Rel(<<"..">>, "b")}

\* The properties say nothing of what follows an overlap, and every call with
\* a bare name that is made in the root takes a reference of it away.
Bound == ~overlap /\ dc[Root].ref >= MinRootRef
=============================================================================
