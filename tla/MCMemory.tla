------------------------------ MODULE MCMemory ------------------------------
(* An instance of Memory for TLC.                                          *)
EXTENDS Memory

\* a program of one page, and one with a text and a data segment
MCPrograms == {<<1>>, <<2, 1>>}
=============================================================================
