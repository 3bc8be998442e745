----------------------------- MODULE BlockStream -----------------------------
(***************************************************************************)
(* common/src/blockstream.cpp with its only subclass,                      *)
(* common/src/memoryblockstream.cpp: a buffer read block by block through  *)
(* setup, setBlockSize, startReading, readNext, stopReading.               *)
(*                                                                         *)
(* The caller may issue the calls in any order, with two restrictions that *)
(* core/src/core.cpp:35-38 respects: setup and setBlockSize are not called *)
(* while a read is in progress, and a null buffer comes with size 0.       *)
(***************************************************************************)
EXTENDS Naturals, Sequences

CONSTANTS Bufs,      \* the buffers a caller may hand to setup
          NULL,      \* the null pointer
          MaxSize,   \* bound: largest buffer
          MaxBlock,  \* bound: largest block size
          SizeRange  \* 2^w, the number of values of a size_t

ASSUME ConstantsAssumption ==
    /\ NULL \notin Bufs
    /\ MaxSize \in Nat /\ MaxBlock \in Nat /\ SizeRange \in Nat
    /\ MaxSize < SizeRange

VARIABLES m_buf, m_bufSize,          \* MemoryBlockStream
          m_blockSize,               \* BlockStream
          m_offset, m_nextOffset,
          m_started, m_finished,
          opened,                    \* history: what startReading opened
          blocks                     \* history: the blocks readNext returned

vars == <<m_buf, m_bufSize, m_blockSize, m_offset, m_nextOffset,
          m_started, m_finished, opened, blocks>>

cursor == <<m_offset, m_nextOffset, m_started, m_finished>>
history == <<opened, blocks>>

Nothing == [buf |-> NULL, size |-> 0, blockSize |-> 0]

Init ==
    /\ m_buf = NULL /\ m_bufSize = 0
    /\ m_blockSize = 0
    /\ m_offset = 0 /\ m_nextOffset = 0
    /\ m_started = FALSE /\ m_finished = FALSE
    /\ opened = Nothing
    /\ blocks = <<>>

Reading == m_started /\ ~m_finished

-----------------------------------------------------------------------------
(* Configuration *)

Setup(b, n) ==
    /\ ~Reading
    /\ b = NULL => n = 0
    /\ m_buf' = b /\ m_bufSize' = n
    /\ UNCHANGED <<m_blockSize, cursor, history>>

SetBlockSize(n) ==
    /\ ~Reading
    /\ m_blockSize' = n
    /\ UNCHANGED <<m_buf, m_bufSize, cursor, history>>

-----------------------------------------------------------------------------
(* startReading *)

\* Mutant: the guard against a second start is dropped.
CanStartAgain == m_blockSize # 0

CanStart == ~m_started /\ ~m_finished /\ m_blockSize # 0

\* m_started is set before doStartReading decides: a null buffer makes the call
\* return false and still leaves the stream started.
StartReading ==
    /\ CanStart
    /\ m_offset' = 0 /\ m_nextOffset' = 0
    /\ m_finished' = FALSE
    /\ m_started' = TRUE
    /\ opened' = IF m_buf = NULL THEN opened
                 ELSE [buf |-> m_buf, size |-> m_bufSize, blockSize |-> m_blockSize]
    /\ UNCHANGED <<m_buf, m_bufSize, m_blockSize, blocks>>

StartRefused == ~CanStart /\ UNCHANGED vars

-----------------------------------------------------------------------------
(* readNext *)

\* Subtraction on size_t.
SizeSub(a, b) == IF a >= b THEN a - b ELSE (a + SizeRange) - b

\* Mutant: what is left is returned at once, whatever the block size.
AvailableWholeBuffer(off) == SizeSub(m_bufSize, off)

\* Mutant: room is kept for a terminator, except in the first block.
AvailableForTerminator(off) ==
    LET left == SizeSub(m_bufSize, off)
        room == IF off = 0 THEN m_blockSize ELSE m_blockSize - 1
    IN  IF left < room THEN left ELSE room

\* Mutant: only complete blocks are returned.
AvailableWholeBlocks(off) ==
    IF SizeSub(m_bufSize, off) < m_blockSize THEN 0 ELSE m_blockSize

Available(off) ==
    LET left == SizeSub(m_bufSize, off)
    IN  IF left < m_blockSize THEN left ELSE m_blockSize

ReadNext ==
    /\ Reading
    /\ m_offset' = m_nextOffset
    /\ LET n == Available(m_nextOffset) IN
         /\ m_finished' = (n = 0)
         /\ m_nextOffset' = IF n = 0 THEN m_nextOffset ELSE m_nextOffset + n
         /\ blocks' = IF n = 0 THEN blocks
                      ELSE Append(blocks, [buf |-> m_buf, off |-> m_nextOffset, len |-> n])
    /\ UNCHANGED <<m_buf, m_bufSize, m_blockSize, m_started, opened>>

ReadRefused == ~Reading /\ UNCHANGED vars

-----------------------------------------------------------------------------
(* stopReading *)

\* Mutant: the buffer is released and the stream not marked finished.
StopReadingForgetful ==
    /\ m_started
    /\ m_buf' = NULL /\ m_bufSize' = 0
    /\ UNCHANGED <<m_blockSize, cursor, history>>

StopReading ==
    /\ m_started
    /\ m_buf' = NULL /\ m_bufSize' = 0
    /\ m_finished' = TRUE
    /\ UNCHANGED <<m_blockSize, m_offset, m_nextOffset, m_started, history>>

StopRefused == ~m_started /\ UNCHANGED vars

-----------------------------------------------------------------------------
Next ==
    \/ \E b \in Bufs \cup {NULL}, n \in 0..MaxSize : Setup(b, n)
    \/ \E n \in 0..MaxBlock : SetBlockSize(n)
    \/ StartReading \/ StartRefused
    \/ ReadNext \/ ReadRefused
    \/ StopReading \/ StopRefused

Spec == Init /\ [][Next]_vars

-----------------------------------------------------------------------------
(* Properties *)

Block == [buf : Bufs \cup {NULL}, off : Nat, len : 1..MaxBlock]

TypeOK ==
    /\ m_buf \in Bufs \cup {NULL}
    /\ m_bufSize \in 0..MaxSize /\ m_blockSize \in 0..MaxBlock
    /\ m_offset \in Nat /\ m_nextOffset \in Nat
    /\ m_started \in BOOLEAN /\ m_finished \in BOOLEAN
    /\ opened \in [buf : Bufs \cup {NULL}, size : 0..MaxSize, blockSize : 0..MaxBlock]
    /\ blocks \in Seq(Block)

End(b) == b.off + b.len

\* The blocks returned over the whole life of a stream, however its calls are
\* ordered and repeated, tile a prefix of the one buffer that was opened: each
\* starts where the one before it ended, and none reaches past the end.
BlocksTileTheBuffer ==
    \A i \in 1..Len(blocks) :
        /\ blocks[i].off = IF i = 1 THEN 0 ELSE End(blocks[i - 1])
        /\ blocks[i].buf = opened.buf
        /\ End(blocks[i]) <= opened.size

\* Only the last block may be shorter than the block size, and then it ends the
\* buffer: what the per-block consumers see depends on nothing but the size.
OnlyTheLastBlockIsShort ==
    \A i \in 1..Len(blocks) :
        \/ blocks[i].len = opened.blockSize
        \/ i = Len(blocks) /\ End(blocks[i]) = opened.size

\* Together: the blocks are the buffer cut every blockSize bytes, once, as far as it
\* was read, whatever calls come in between (blockstream.cpp:11-45).
BlocksAreTheBuffer == BlocksTileTheBuffer /\ OnlyTheLastBlockIsShort

\* The subtraction in doReadNext never wraps: the cursor cannot be past the end
\* of the buffer when a read is possible, although stopReading empties the
\* buffer and leaves the cursor where it was.
NoWrapAround == Reading => m_nextOffset <= m_bufSize

\* readNext reports the end (returns 0 with the buffer still set) only when every
\* byte of the buffer has been returned.
EndMeansAllRead ==
    [][ReadNext /\ m_finished' => m_nextOffset = m_bufSize]_vars

\* A stream is never read twice: after the end or after stopReading no sequence
\* of setup and startReading makes it return another block.
NeverRestarts == [][m_finished => m_finished' /\ blocks' = blocks]_vars
=============================================================================
