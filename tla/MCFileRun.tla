----------------------------- MODULE MCFileRun -------------------------------
(* TLC instance of FileRun: two files of up to two pages in two versions, a    *)
(* caller's buffer of one, and two changes by others during a call.            *)
EXTENDS FileRun, TLC

CONSTANTS i1, i2, v1, v2

MCBuffer == [size |-> 1, version |-> v1]

Symmetry == Permutations({i1, i2})
=============================================================================
