--------------------------- MODULE MCVectorLayout ----------------------------
(* TLC instance of VectorLayout: every combination of the parts of a PE file   *)
(* that decide what is written, and a file that is no PE file.                 *)
EXTENDS VectorLayout

MCFile(pe, imports, exports, rich, dirs) ==
    [isPE |-> pe, imports |-> imports, exports |-> exports,
     richBytes |-> rich, directories |-> dirs]

MCFiles ==
    { MCFile(TRUE, i, e, r, d) : i \in BOOLEAN, e \in BOOLEAN, r \in {0, 7, 24}, d \in {0, 3, 17} }
    \cup { MCFile(FALSE, FALSE, FALSE, 0, 0) }
\* Rows at both ends and inside, and two at a time.
MCBinLists == { <<>>, <<0>>, <<15>>, <<15, 7>> }
=============================================================================
