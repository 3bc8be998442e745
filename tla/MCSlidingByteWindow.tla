------------------------- MODULE MCSlidingByteWindow -------------------------
(* TLC instance of SlidingByteWindow: every data of up to MaxFed bytes over   *)
(* two byte values, cut into pieces of every length from none to three bytes. *)
EXTENDS SlidingByteWindow

MCBytes == {0, 1}
MCChunks == UNION { [1..k -> MCBytes] : k \in 0..3 }
=============================================================================
