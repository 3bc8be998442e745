---------------------------- MODULE MCBlockStream ----------------------------
(* TLC instance of BlockStream: two buffers of up to five bytes, block sizes  *)
(* 0 to 3 (dividing the buffer size or not), an eight-valued size_t.          *)
EXTENDS BlockStream
=============================================================================
