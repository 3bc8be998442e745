------------------------------ MODULE MCLkList -------------------------------
(* TLC instance of LkList: four nodes to allocate and two data.  A list of     *)
(* three is the shortest of which a clear frees a node, and lets a node go     *)
(* between two neighbours.                                                     *)
EXTENDS LkList

CONSTANTS n1, n2, n3, n4, a, b
=============================================================================
