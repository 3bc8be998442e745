----------------------- MODULE FeatureExtractorProofs ------------------------
(***************************************************************************)
(* Proofs about FeatureExtractor.  The inductive invariant Inv says of     *)
(* each part of the extractor how far it has come with the file: the       *)
(* stream has delivered the blocks up to a multiple of the block size, and *)
(* each consumer of the bytes holds what the bytes before the cursor, or   *)
(* before the last block, make of it.                                      *)
(***************************************************************************)
EXTENDS FeatureExtractor, FoldTheorems

\* What is proved of the sliding window, of the one of the extractor.
WP == INSTANCE SlidingByteWindowProofs WITH
    Chunks <- Seq(Byte), MaxWindow <- WindowSize, MaxFed <- MaxSize

\* What is proved of the string extractor, of the one of the extractor.
TP == INSTANCE BlockProofs WITH
    Bufs <- Files, MaxBlock <- BufSize, SizeRange <- MaxSize + 1,
    MaxContent <- MaxSize, BlockSizes <- {BufSize},
    phase <- strPhase, blockSize <- strBlockSize

-----------------------------------------------------------------------------
(* The inductive invariant *)

Opening == {"setup", "setBlockSize", "startReading"}
Opened == {"reset", "start", "read", "general", "window", "finalize", "stop"}

Size == Len(file.bytes)

\* A run is on one file, and the caller has a vector only until the next run starts.
Control ==
    /\ pc \in {"idle"} \cup Opening \cup Opened
    /\ file \in Files \cup {NULL} /\ peFile \in Files \cup {NULL}
    /\ returned \in Files \cup {NULL}
    /\ pc # "idle" => file \in Files /\ peFile = file
    /\ returned # NULL => pc \in {"idle", "reset", "start"} \cup Opening

\* Where the n-th block of the file ends.
Cut(n) == IF n * BufSize < Size THEN n * BufSize ELSE Size

OnFile == m_bufSize = Size /\ (m_buf = file \/ (m_buf = NULL /\ Size = 0))

\* Until it is started the stream has delivered nothing.
StreamOpens ==
    /\ pc \in Opening => /\ ~m_started /\ ~m_finished
                         /\ blocks = <<>> /\ m_offset = 0 /\ m_nextOffset = 0
    /\ pc \in {"setBlockSize", "startReading"} => OnFile
    /\ pc = "startReading" => m_blockSize = BufSize

\* The last block delivered is the one before the cursor.
LastBlock ==
    /\ Len(blocks) > 0
    /\ m_offset = Cut(Len(blocks) - 1) /\ m_offset < m_nextOffset
    /\ blocks[Len(blocks)].off = m_offset
    /\ blocks[Len(blocks)].len = m_nextOffset - m_offset

\* Then it has delivered as many bytes as its blocks have, in the end all.
StreamRuns ==
    pc \in Opened =>
        /\ OnFile \/ pc = "stop"
        /\ m_blockSize = BufSize /\ m_started
        /\ m_finished <=> pc \in {"finalize", "stop"}
        /\ m_nextOffset = Cut(Len(blocks))
        /\ Len(blocks) = 0 \/ Cut(Len(blocks) - 1) < Size
        /\ pc \in {"reset", "start"} => blocks = <<>>
        /\ pc \in {"general", "window"} => LastBlock
        /\ pc \in {"finalize", "stop"} => m_nextOffset = Size

StreamInv == Stream!TypeOK /\ StreamOpens /\ StreamRuns

\* From reset on, the consumers hold nothing of files before.
Ready == Opened \ {"reset"}

\* From start on, the sliding window is fed.
Sliding == {"read", "general", "window", "finalize"}

\* How much of the file the first two consumers and the last have been given.
Seen == IF pc = "general" THEN m_offset ELSE m_nextOffset
Searched == IF pc \in {"general", "window"} THEN m_offset ELSE m_nextOffset

\* The first n bytes of the file, and the places of one byte in it.
Prefix(n) == SubSeq(file.bytes, 1, n)
PlacesOf(b) == { i \in 1..Size : file.bytes[i] = b }

\* GeneralFileInfo has counted the bytes seen, and caught the first ones of them.
Counted ==
    /\ totalNumBytes = Seen
    /\ \A b \in Byte : byteCounts[b] = Count(PlacesOf(b), Seen)
Caught ==
    /\ firstBytes \in [0..(NumFirstBytes - 1) -> Byte]
    /\ \A i \in 0..(NumFirstBytes - 1) :
          firstBytes[i] = IF i < Seen THEN file.bytes[i + 1] ELSE 0
GeneralInv ==
    /\ byteCounts \in [Byte -> Nat] /\ totalNumBytes \in Nat
    /\ firstBytes = <<>> \/ firstBytes \in [0..(NumFirstBytes - 1) -> Byte]
    /\ pc \in Ready => Counted /\ Caught

\* The sliding window keeps its own invariant, and was fed the bytes seen.
WindowInv ==
    /\ WP!Inv /\ windowCalled \in BOOLEAN
    /\ pc # "window" => buf = <<>>
    /\ pc \in Ready => windowSize = WindowSize /\ step = WindowStep
    /\ pc \in Sliding => phase = "started"
    /\ pc = "stop" => phase = "final"
    /\ pc \in Sliding \cup {"stop"} => fed = Prefix(Seen)

\* The string extractor was given the bytes searched.
TextInv ==
    /\ Text!StringsTypeOK
    /\ pc \in Ready => content = Prefix(Searched)

\* The strings of the blocks of a file, block by block, and of the first n blocks of
\* the one at hand.
BlockStrings(f) == [k \in DOMAIN FileBlocks(f) |-> Text!Strings(FileBlocks(f)[k])]
Found(n) == Joined(BlockStrings(file), n)

\* How many blocks the string extractor has been given.
Done == IF pc \in {"general", "window"} THEN Len(blocks) - 1 ELSE Len(blocks)

\* The members of the string extractor are what given strings make of them.
CountersOf(ss) ==
    /\ numReadableStrings = Len(ss)
    /\ sumReadableStringLengths = Text!TotalLength(ss)
    /\ \A b \in Readable : readableCounts[b] = Text!TotalOccurrences(b, ss)
    /\ totalNumReadable = Text!TotalLength(ss)
    /\ \A k \in 0..(ByteRange - 1) : interestingCounts[k] = Text!Matches(k, ss)

\* They are those of the strings of the blocks searched.
StringsInv == pc \in Ready => CountersOf(Found(Done))

-----------------------------------------------------------------------------
(* The files and the block stream *)

\* A file is a sequence of bytes, of a size within the bound.
LEMMA FileBytes ==
    ASSUME NEW f \in Files
    PROVE  f.bytes \in Seq(Byte) /\ Len(f.bytes) \in Nat /\ Len(f.bytes) <= MaxSize
<1>1. f.bytes \in Seq(Byte) /\ Len(f.bytes) <= MaxSize
  BY ConstantsAssumption
<1> QED
  BY <1>1, LenProperties

\* A block further on.
LEMMA CutMore ==
    ASSUME NEW n \in Nat, Size \in Nat
    PROVE  /\ Cut(n) \in Nat /\ Cut(n) <= Size /\ Cut(0) = 0
           /\ Cut(n) # Size => /\ Cut(n) = n * BufSize
                               /\ Cut(n + 1) = IF Size - Cut(n) < BufSize THEN Size
                                               ELSE Cut(n) + BufSize
<1>1. BufSize \in Nat \ {0}
  BY ConstantsAssumption
<1>2. n * BufSize \in Nat /\ (n + 1) * BufSize = n * BufSize + BufSize /\ 0 * BufSize = 0
  BY <1>1, WP!NextBase
<1> DEFINE a == n * BufSize
           b == (n + 1) * BufSize
<1>3. a \in Nat /\ b = a + BufSize
  BY <1>2
<1>4. Cut(n) = IF a < Size THEN a ELSE Size
  BY DEF Cut
<1>5. Cut(n + 1) = IF b < Size THEN b ELSE Size
  BY DEF Cut
<1>6. Cut(0) = 0
  BY <1>2 DEF Cut
<1>7. Cut(n) # Size => Cut(n) = n * BufSize
  BY <1>4
<1> HIDE DEF a, b, Cut
<1>8. Cut(n) \in Nat /\ Cut(n) <= Size
  BY <1>3, <1>4
<1>9. Cut(n) # Size => Cut(n + 1) = IF Size - Cut(n) < BufSize THEN Size ELSE Cut(n) + BufSize
  BY <1>1, <1>3, <1>4, <1>5
<1> QED
  BY <1>6, <1>7, <1>8, <1>9

\* Steps that leave the stream alone and do not read the next block.
LEMMA StreamSame ==
    ASSUME StreamInv, UNCHANGED <<file, stream>>,
           \/ pc = pc'
           \/ pc' = "idle"
           \/ pc = "reset" /\ pc' = "start"
           \/ pc = "start" /\ pc' = "read"
           \/ pc = "general" /\ pc' = "window"
           \/ pc = "window" /\ pc' = "read"
           \/ pc = "finalize" /\ pc' = "stop"
    PROVE  StreamInv'
<1>1. Stream!TypeOK'
  BY DEF StreamInv, stream, Stream!TypeOK
<1>2. StreamOpens'
  BY DEF StreamInv, stream, StreamOpens, OnFile, Size, Opening
<1>3. StreamRuns'
  BY DEF StreamInv, stream, StreamRuns, OnFile, Size, Opened, Cut, LastBlock
<1> QED
  BY <1>1, <1>2, <1>3 DEF StreamInv

\* What the stream assumes.
LEMMA StreamConstants == Stream!ConstantsAssumption
BY ConstantsAssumption DEF Stream!ConstantsAssumption

\* A new stream has delivered nothing.
LEMMA StreamNew ==
    ASSUME NewStream, pc' = "setup"
    PROVE  StreamInv'
<1>1. /\ m_buf' = NULL /\ m_bufSize' = 0 /\ m_blockSize' = 0 /\ m_offset' = 0
      /\ m_nextOffset' = 0 /\ m_started' = FALSE /\ m_finished' = FALSE
      /\ opened' = Stream!Nothing /\ blocks' = <<>>
  BY DEF NewStream
<1>2. 0 \in 0..BufSize /\ 0 \in 0..MaxSize /\ NULL \in Files \cup {NULL}
  BY ConstantsAssumption
<1>3. opened' \in [buf : Files \cup {NULL}, size : 0..MaxSize, blockSize : 0..BufSize]
  BY <1>2, <1>1 DEF Stream!Nothing
<1>4. blocks' \in Seq(Stream!Block)
  BY <1>1
<1>5. Stream!TypeOK'
  BY <1>2, <1>1, <1>3, <1>4 DEF Stream!TypeOK
<1> QED
  BY <1>1, <1>5 DEF StreamInv, StreamOpens, StreamRuns, Opening, Opened

\* Before the first run.
LEMMA StreamInit ==
    ASSUME Stream!Init, pc = "idle"
    PROVE  StreamInv
<1>1. /\ m_buf = NULL /\ m_bufSize = 0 /\ m_blockSize = 0 /\ m_offset = 0
      /\ m_nextOffset = 0 /\ m_started = FALSE /\ m_finished = FALSE
      /\ opened = Stream!Nothing /\ blocks = <<>>
  BY DEF Stream!Init
<1>2. 0 \in 0..BufSize /\ 0 \in 0..MaxSize /\ NULL \in Files \cup {NULL}
  BY ConstantsAssumption
<1>3. opened \in [buf : Files \cup {NULL}, size : 0..MaxSize, blockSize : 0..BufSize]
  BY <1>2, <1>1 DEF Stream!Nothing
<1>4. blocks \in Seq(Stream!Block)
  BY <1>1
<1>5. Stream!TypeOK
  BY <1>2, <1>1, <1>3, <1>4 DEF Stream!TypeOK
<1> QED
  BY <1>1, <1>5 DEF StreamInv, StreamOpens, StreamRuns, Opening, Opened

\* setup, setBlockSize and startReading.
LEMMA StreamOpening ==
    ASSUME Control, StreamInv, StreamSetup \/ StreamSetBlockSize \/ StreamStart
    PROVE  StreamInv'
<1>1. pc \in Opening /\ file \in Files /\ file' = file
  BY DEF Control, Opening, StreamSetup, StreamSetBlockSize, StreamStart, Goto
<1>2. Size \in Nat /\ Size <= MaxSize /\ Size' = Size
  BY <1>1, FileBytes DEF Size
<1>3. BufSize \in Nat /\ MaxSize \in Nat /\ BufSize # 0
  BY ConstantsAssumption
<1>4. /\ m_buf \in Files \cup {NULL} /\ m_bufSize \in 0..MaxSize /\ m_blockSize \in 0..BufSize
      /\ opened \in [buf : Files \cup {NULL}, size : 0..MaxSize, blockSize : 0..BufSize]
      /\ ~m_started /\ ~m_finished /\ blocks = <<>> /\ m_offset = 0 /\ m_nextOffset = 0
  BY <1>1 DEF StreamInv, StreamOpens, Stream!TypeOK
<1>5. CASE StreamSetup
  <2>1. /\ m_buf' \in Files \cup {NULL} /\ m_bufSize' = Size
        /\ m_buf' = file \/ (m_buf' = NULL /\ Size = 0)
        /\ UNCHANGED <<m_blockSize, m_offset, m_nextOffset, m_started, m_finished, opened, blocks>>
        /\ pc' = "setBlockSize"
    BY <1>1, <1>5 DEF StreamSetup, Stream!Setup, Stream!cursor, Stream!history, Size, Goto
  <2>2. Stream!TypeOK'
    BY <1>2, <1>3, <1>4, <2>1 DEF StreamInv, Stream!TypeOK, Stream!Block
  <2> QED
    BY <1>1, <1>2, <1>4, <2>1, <2>2 DEF StreamInv, StreamOpens, StreamRuns, OnFile, Opened
<1>6. CASE StreamSetBlockSize
  <2>1. /\ m_blockSize' = BufSize /\ pc = "setBlockSize" /\ pc' = "startReading"
        /\ UNCHANGED <<m_buf, m_bufSize, m_offset, m_nextOffset, m_started, m_finished, opened, blocks>>
    BY <1>6 DEF StreamSetBlockSize, Stream!SetBlockSize, Stream!cursor, Stream!history, Goto
  <2>2. Stream!TypeOK'
    BY <1>3, <1>4, <2>1 DEF StreamInv, Stream!TypeOK, Stream!Block
  <2>3. OnFile'
    BY <1>1, <1>2, <2>1 DEF StreamInv, StreamOpens, OnFile
  <2> QED
    BY <1>4, <2>1, <2>2, <2>3 DEF StreamInv, StreamOpens, StreamRuns, Opened
<1>7. CASE StreamStart
  <2>1. /\ m_offset' = 0 /\ m_nextOffset' = 0 /\ m_finished' = FALSE /\ m_started' = TRUE
        /\ opened' = IF m_buf = NULL THEN opened
                     ELSE [buf |-> m_buf, size |-> m_bufSize, blockSize |-> m_blockSize]
        /\ UNCHANGED <<m_buf, m_bufSize, m_blockSize, blocks>>
        /\ pc = "startReading" /\ pc' = "reset"
    BY <1>7 DEF StreamStart, Stream!StartReading, Goto
  <2>2. opened' \in [buf : Files \cup {NULL}, size : 0..MaxSize, blockSize : 0..BufSize]
    BY <1>4, <2>1
  <2>3. Stream!TypeOK'
    BY <1>3, <1>4, <2>1, <2>2 DEF StreamInv, Stream!TypeOK, Stream!Block
  <2>4. OnFile' /\ m_blockSize' = BufSize
    BY <1>1, <1>2, <2>1 DEF StreamInv, StreamOpens, OnFile
  <2>5. Cut(0)' = 0
    <3>1. Cut(0) = 0
      BY <1>2, CutMore
    <3> QED
      BY <1>1, <1>2, <3>1 DEF Cut
  <2>6. Len(blocks') = 0
    BY <1>4, <2>1
  <2>7. m_nextOffset' = Cut(Len(blocks))'
    BY <2>1, <2>5, <2>6 DEF Cut
  <2> QED
    BY <1>4, <2>1, <2>3, <2>4, <2>6, <2>7 DEF StreamInv, StreamOpens, StreamRuns, Opening
<1> QED
  BY <1>5, <1>6, <1>7

\* stopReading.
LEMMA StreamStopped ==
    ASSUME Control, StreamInv, Stop
    PROVE  StreamInv'
<1>1. pc = "stop" /\ pc' = "idle" /\ m_buf' = NULL /\ m_bufSize' = 0 /\ m_finished' = TRUE
      /\ UNCHANGED <<m_blockSize, m_offset, m_nextOffset, m_started, opened, blocks>>
  BY DEF Stop, Goto, Stream!StopReading, Stream!history
<1>2. Stream!TypeOK'
  BY <1>1, ConstantsAssumption DEF StreamInv, Stream!TypeOK, Stream!Block
<1> QED
  BY <1>1, <1>2 DEF StreamInv, StreamOpens, StreamRuns, Opening, Opened

\* readNext: a block more, up to the next multiple of the block size, or the end.
LEMMA StreamRead ==
    ASSUME Control, StreamInv, Read
    PROVE  StreamInv'
<1>1. /\ pc = "read" /\ pc' = (IF blocks' = blocks THEN "finalize" ELSE "general")
      /\ file' = file /\ file \in Files /\ Stream!ReadNext
      /\ UNCHANGED <<m_buf, m_bufSize, m_blockSize, m_started, opened>>
  BY DEF Control, Read, Stream!ReadNext
<1>2. /\ OnFile /\ m_blockSize = BufSize /\ m_started /\ ~m_finished
      /\ m_nextOffset = Cut(Len(blocks)) /\ Stream!TypeOK
      /\ Len(blocks) = 0 \/ Cut(Len(blocks) - 1) < Size
  BY <1>1 DEF StreamInv, StreamRuns, Opened
<1>3. Size \in Nat /\ Size <= MaxSize /\ Size' = Size
  BY <1>1, FileBytes DEF Size
<1>4. BufSize \in Nat /\ BufSize > 0
  BY ConstantsAssumption
<1>5. blocks \in Seq(Stream!Block) /\ Len(blocks) \in Nat
  <2>1. blocks \in Seq(Stream!Block)
    BY <1>2 DEF Stream!TypeOK
  <2> QED
    BY <2>1, LenProperties
<1> DEFINE N == Len(blocks)
           c == Cut(N)
           n == IF Size - c < BufSize THEN Size - c ELSE BufSize
<1>6. c \in Nat /\ c <= Size
  BY <1>3, <1>5, CutMore
<1>7. Stream!Available(m_nextOffset) = n
  <2>1. m_nextOffset <= m_bufSize /\ m_bufSize = Size /\ m_nextOffset = c
    BY <1>2, <1>6 DEF OnFile
  <2> HIDE DEF c
  <2>2. Stream!SizeSub(m_bufSize, m_nextOffset) = Size - c
    BY <1>3, <1>6, <2>1 DEF Stream!SizeSub
  <2> QED
    BY <1>2, <2>2 DEF Stream!Available
<1>8. /\ m_offset' = c /\ m_finished' = (n = 0)
      /\ m_nextOffset' = (IF n = 0 THEN c ELSE c + n)
      /\ blocks' = (IF n = 0 THEN blocks ELSE Append(blocks, [buf |-> m_buf, off |-> c, len |-> n]))
  BY <1>1, <1>2, <1>7 DEF Stream!ReadNext
<1>9. \A k : Cut(k)' = Cut(k)
  BY <1>1, <1>3 DEF Cut
<1>10. n \in Nat /\ n <= BufSize
  BY <1>3, <1>4, <1>6
<1>11. m_buf \in Files \cup {NULL} /\ OnFile'
  BY <1>1, <1>2, <1>3 DEF Stream!TypeOK, OnFile
<1> HIDE DEF n, c
<1>12. CASE n = 0
  <2>1. m_offset' = c /\ m_finished' = TRUE /\ m_nextOffset' = c /\ blocks' = blocks /\ pc' = "finalize"
    BY <1>1, <1>8, <1>12
  <2>2. Stream!TypeOK'
    BY <1>1, <1>2, <1>6, <2>1 DEF Stream!TypeOK
  <2>3. c = Size
    BY <1>3, <1>4, <1>6, <1>12 DEF n
  <2>4. StreamRuns'
    BY <1>1, <1>2, <1>3, <1>9, <1>11, <2>1, <2>3 DEF StreamRuns, c
  <2> QED
    BY <2>1, <2>2, <2>4 DEF StreamInv, StreamOpens, Opening
<1>13. CASE n # 0
  <2> DEFINE b == [buf |-> m_buf, off |-> c, len |-> n]
  <2>1. b \in Stream!Block
    BY <1>6, <1>10, <1>11, <1>13 DEF Stream!Block
  <2>2. /\ m_offset' = c /\ m_finished' = FALSE /\ m_nextOffset' = c + n
        /\ blocks' = Append(blocks, b)
    BY <1>8, <1>13
  <2>3. b.off = c /\ b.len = n
    OBVIOUS
  <2> HIDE DEF b
  <2>4. /\ blocks' \in Seq(Stream!Block) /\ Len(blocks') = N + 1
        /\ blocks'[Len(blocks')] = b
    BY <1>5, <2>1, <2>2, AppendProperties
  <2>5. pc' = "general"
    BY <1>1, <1>5, <2>4
  <2>6. Stream!TypeOK'
    <3>1. m_offset' \in Nat /\ m_nextOffset' \in Nat /\ m_finished' \in BOOLEAN
      <4>1. c + n \in Nat
        BY <1>6, <1>10
      <4>2. m_finished' \in BOOLEAN
        BY <2>2
      <4> QED
        BY <1>6, <2>2, <4>1, <4>2
    <3>2. blocks' \in Seq(Stream!Block)
      BY <2>4
    <3> QED
      BY <1>1, <1>2, <3>1, <3>2 DEF Stream!TypeOK
  <2>7. c # Size
    BY <1>3, <1>4, <1>6, <1>13 DEF n
  <2>8. Cut(N + 1) = c + n
    <3>1. Cut(N + 1) = IF Size - c < BufSize THEN Size ELSE c + BufSize
      BY <1>3, <1>5, <2>7, CutMore DEF c
    <3> QED
      BY <1>3, <1>6, <3>1 DEF n
  <2>9. m_nextOffset' = Cut(Len(blocks))'
    BY <1>9, <2>2, <2>4, <2>8
  <2>10. LastBlock'
    <3>1. m_offset' = Cut(Len(blocks) - 1)'
      <4>1. Len(blocks') - 1 = N
        BY <1>5, <2>4
      <4>2. Cut(Len(blocks) - 1)' = Cut(N)
        BY <1>1, <1>3, <4>1 DEF Cut
      <4> QED
        BY <2>2, <4>2 DEF c
    <3>2. (m_offset < m_nextOffset)' /\ Len(blocks') > 0 /\ m_nextOffset' - m_offset' = n
      BY <1>5, <1>6, <1>10, <1>13, <2>2, <2>4
    <3> QED
      BY <2>2, <2>3, <2>4, <3>1, <3>2 DEF LastBlock
  <2>11. Cut(Len(blocks) - 1)' < Size'
    <3>1. Len(blocks') - 1 = N
      BY <1>5, <2>4
    <3>2. Cut(Len(blocks) - 1)' = c
      BY <1>1, <1>3, <3>1 DEF Cut, c
    <3> QED
      BY <1>3, <1>6, <2>7, <3>2
  <2>12. StreamRuns'
    BY <1>1, <1>2, <1>11, <2>2, <2>5, <2>9, <2>10, <2>11 DEF StreamRuns
  <2> QED
    BY <2>5, <2>6, <2>12 DEF StreamInv, StreamOpens, Opening
<1> QED
  BY <1>12, <1>13

\* What readNext does: nothing is left, or there is a block more.
LEMMA ReadMoves ==
    ASSUME Control, StreamInv, Read
    PROVE  /\ m_offset' = m_nextOffset /\ file' = file /\ pc = "read"
           /\ \/ pc' = "finalize" /\ m_nextOffset' = m_nextOffset /\ blocks' = blocks
              \/ pc' = "general"
<1>1. /\ pc = "read" /\ pc' = (IF blocks' = blocks THEN "finalize" ELSE "general")
      /\ file' = file /\ Stream!ReadNext /\ m_offset' = m_nextOffset
  BY DEF Read, Stream!ReadNext
<1>2. blocks \in Seq(Stream!Block)
  BY DEF StreamInv, Stream!TypeOK
<1>3. \A b : Append(blocks, b) # blocks
  <2> SUFFICES ASSUME NEW b PROVE Append(blocks, b) # blocks
    OBVIOUS
  <2>1. Len(blocks) \in Nat /\ Len(Append(blocks, b)) = Len(blocks) + 1
    <3>1. blocks \in Seq(Stream!Block \cup {b})
      BY <1>2
    <3> QED
      BY <3>1, AppendProperties, LenProperties
  <2> QED
    BY <2>1
<1>4. blocks' = blocks => m_nextOffset' = m_nextOffset
  BY <1>1, <1>3 DEF Stream!ReadNext
<1> QED
  BY <1>1, <1>4

\* When a block was read there is one more.
LEMMA ReadMore ==
    ASSUME StreamInv, Read, pc' = "general"
    PROVE  Len(blocks) \in Nat /\ Len(blocks') = Len(blocks) + 1
<1>1. blocks' # blocks /\ Stream!ReadNext
  BY DEF Read
<1>2. PICK b : blocks' = Append(blocks, b) /\ b \in Stream!Block \cup {b}
  BY <1>1 DEF Stream!ReadNext
<1>3. blocks \in Seq(Stream!Block)
  BY DEF StreamInv, Stream!TypeOK
<1>4. blocks \in Seq(Stream!Block \cup {b})
  BY <1>3
<1> QED
  BY <1>2, <1>4, AppendProperties, LenProperties

\* Every step keeps the stream in step with the file.
LEMMA StreamNext ==
    ASSUME Control, StreamInv, Next
    PROVE  StreamInv'
<1>1. CASE \E f \in Files : Run(f)
  BY <1>1, StreamNew DEF Run, Goto
<1>2. CASE StreamSetup \/ StreamSetBlockSize \/ StreamStart
  BY <1>2, StreamOpening
<1>3. CASE Read
  BY <1>3, StreamRead
<1>4. CASE Stop
  BY <1>4, StreamStopped
<1>5. CASE Reset \/ Start \/ ReduceGeneral \/ WindowCopy \/ WindowSlide \/ ReduceStrings \/ Finalize
  BY <1>5, StreamSame
     DEF Reset, Start, ReduceGeneral, WindowCopy, WindowSlide, ReduceStrings, Finalize, Goto
<1>6. CASE AbandonStart \/ AbandonReduce
  BY <1>6, StreamSame DEF AbandonStart, AbandonReduce, Goto
<1> QED
  BY <1>1, <1>2, <1>3, <1>4, <1>5, <1>6 DEF Next

\* Every step keeps the run on its file.
LEMMA ControlNext ==
    ASSUME Control, Next
    PROVE  Control'
<1>1. CASE \E f \in Files : Run(f)
  BY <1>1 DEF Control, Run, Goto, Opening, Opened
<1>2. CASE StreamSetup \/ StreamSetBlockSize \/ StreamStart
  BY <1>2 DEF Control, StreamSetup, StreamSetBlockSize, StreamStart, Goto, Opening, Opened
<1>3. CASE Reset \/ Start \/ Read
  BY <1>3 DEF Control, Reset, Start, Read, Goto, Opening, Opened
<1>4. CASE ReduceGeneral \/ WindowCopy \/ WindowSlide \/ ReduceStrings
  BY <1>4 DEF Control, ReduceGeneral, WindowCopy, WindowSlide, ReduceStrings, Goto, Opening, Opened
<1>5. CASE Finalize \/ Stop \/ AbandonStart \/ AbandonReduce
  BY <1>5 DEF Control, Finalize, Stop, AbandonStart, AbandonReduce, Goto, Opening, Opened
<1> QED
  BY <1>1, <1>2, <1>3, <1>4, <1>5 DEF Next

-----------------------------------------------------------------------------
(* The block in the hands of the consumers *)

\* The block readNext has put into the buffer is what the file has from m_offset to
\* the cursor.
ChunkIsNext ==
    /\ file.bytes \in Seq(Byte) /\ Size \in Nat /\ Size <= MaxSize
    /\ m_offset \in Nat /\ m_nextOffset \in Nat
    /\ m_offset < m_nextOffset /\ m_nextOffset <= Size
    /\ Chunk \in Seq(Byte) /\ Len(Chunk) = m_nextOffset - m_offset
    /\ \A i \in 1..Len(Chunk) : Chunk[i] = file.bytes[m_offset + i]
    /\ Prefix(m_offset) \o Chunk = Prefix(m_nextOffset)

\* The first bytes of a sequence.
LEMMA PrefixType ==
    ASSUME NEW A, NEW s \in Seq(A), NEW n \in 0..Len(s)
    PROVE  /\ SubSeq(s, 1, n) \in Seq(A) /\ Len(SubSeq(s, 1, n)) = n
           /\ \A i \in 1..n : SubSeq(s, 1, n)[i] = s[i]
           /\ SubSeq(s, 1, Len(s)) = s
<1>1. Len(s) \in Nat /\ n \in Nat /\ n <= Len(s) /\ \A i \in 1..Len(s) : s[i] \in A
  BY LenProperties, ElementOfSeq
<1>2. /\ SubSeq(s, 1, n) \in Seq(A) /\ Len(SubSeq(s, 1, n)) = n
      /\ \A i \in 1..n : SubSeq(s, 1, n)[i] = s[i]
  <2>1. \A i \in 1..n : s[i] \in A
    BY <1>1
  <2> QED
    BY <1>1, <2>1, SubSeqProperties
<1>3. SubSeq(s, 1, Len(s)) = s
  BY <1>1
<1> QED
  BY <1>2, <1>3

\* Nothing of a file.
LEMMA EmptyPrefix ==
    ASSUME NEW f \in Files
    PROVE  SubSeq(f.bytes, 1, 0) = <<>>
<1>1. f.bytes \in Seq(Byte) /\ 0 \in 0..Len(f.bytes)
  BY FileBytes
<1>2. SubSeq(f.bytes, 1, 0) \in Seq(Byte) /\ Len(SubSeq(f.bytes, 1, 0)) = 0
  BY <1>1, PrefixType
<1> QED
  BY <1>2, EmptySeq

\* One piece after the other.
LEMMA PrefixMore ==
    ASSUME NEW A, NEW s \in Seq(A), NEW m \in Nat, NEW n \in Nat, m < n, n <= Len(s)
    PROVE  /\ SubSeq(s, m + 1, n) \in Seq(A) /\ Len(SubSeq(s, m + 1, n)) = n - m
           /\ \A i \in 1..(n - m) : SubSeq(s, m + 1, n)[i] = s[m + i]
           /\ SubSeq(s, 1, m) \o SubSeq(s, m + 1, n) = SubSeq(s, 1, n)
<1> DEFINE a == SubSeq(s, 1, m)
           b == SubSeq(s, m + 1, n)
           c == SubSeq(s, 1, n)
<1>1. Len(s) \in Nat /\ \A i \in 1..Len(s) : s[i] \in A
  BY LenProperties, ElementOfSeq
<1>2. /\ a \in Seq(A) /\ Len(a) = m /\ \A i \in 1..m : a[i] = s[i]
  <2>1. m \in 0..Len(s)
    BY <1>1
  <2> QED
    BY <2>1, PrefixType
<1>3. /\ c \in Seq(A) /\ Len(c) = n /\ \A i \in 1..n : c[i] = s[i]
  <2>1. n \in 0..Len(s)
    BY <1>1
  <2> QED
    BY <2>1, PrefixType
<1>4. b \in Seq(A) /\ Len(b) = n - m
  <2>1. m + 1 \in 1..Len(s) /\ n \in 1..Len(s) /\ m + 1 <= n
    BY <1>1
  <2>2. \A i \in (m + 1)..n : s[i] \in A
    BY <1>1
  <2>3. Len(b) = n - (m + 1) + 1
    BY <2>1, <2>2, SubSeqProperties
  <2>4. n - (m + 1) + 1 = n - m
    OBVIOUS
  <2>5. b \in Seq(A)
    BY <2>1, <2>2, SubSeqProperties
  <2> QED
    BY <2>3, <2>4, <2>5
<1>5. \A i \in 1..(n - m) : b[i] = s[m + i]
  BY <1>1
<1> HIDE DEF a, b, c
<1>6. a \o b \in Seq(A) /\ Len(a \o b) = n
  <2>1. a \in Seq(A) /\ b \in Seq(A)
    BY <1>2, <1>4
  <2>2. a \o b \in Seq(A) /\ Len(a \o b) = Len(a) + Len(b)
    BY <2>1, ConcatProperties, Zenon
  <2>3. m + (n - m) = n
    OBVIOUS
  <2> QED
    BY <1>2, <1>4, <2>2, <2>3
<1>7. \A i \in 1..n : (a \o b)[i] = c[i]
  <2> SUFFICES ASSUME NEW i \in 1..n PROVE (a \o b)[i] = s[i]
    BY <1>3
  <2>1. CASE i <= m
    <3>1. i \in 1..m /\ i \in 1..(Len(a) + Len(b)) /\ i <= Len(a)
      BY <1>2, <1>4, <2>1
    <3> QED
      BY <1>2, <1>4, <3>1, ConcatProperties
  <2>2. CASE ~(i <= m)
    <3>1. i - m \in 1..(n - m) /\ i \in 1..(Len(a) + Len(b)) /\ ~(i <= Len(a)) /\ m + (i - m) = i
      BY <1>2, <1>4, <2>2
    <3>2. (a \o b)[i] = b[i - Len(a)]
      <4>1. a \in Seq(A) /\ b \in Seq(A)
        BY <1>2, <1>4
      <4>2. \A j \in 1..(Len(a) + Len(b)) :
               (a \o b)[j] = IF j <= Len(a) THEN a[j] ELSE b[j - Len(a)]
        BY <4>1, ConcatProperties, Zenon
      <4> QED
        BY <3>1, <4>2
    <3>3. (a \o b)[i] = b[i - m]
      BY <1>2, <3>2
    <3> QED
      BY <1>5, <3>1, <3>3
  <2> QED
    BY <2>1, <2>2
<1>8. a \o b = c
  BY <1>3, <1>6, <1>7, SeqEqual
<1> QED
  BY <1>4, <1>5, <1>8 DEF a, b, c

\* While it is counted and searched.
LEMMA ChunkIs ==
    ASSUME Control, StreamInv, pc \in {"general", "window"}
    PROVE  ChunkIsNext
<1>1. LastBlock /\ m_nextOffset = Cut(Len(blocks)) /\ file \in Files /\ Stream!TypeOK
  BY DEF Control, StreamInv, StreamRuns, Opened
<1>2. file.bytes \in Seq(Byte) /\ Size \in Nat /\ Size <= MaxSize
  BY <1>1, FileBytes DEF Size
<1>3. m_offset \in Nat /\ m_nextOffset \in Nat /\ Len(blocks) \in Nat
  <2>1. blocks \in Seq(Stream!Block)
    BY <1>1 DEF Stream!TypeOK
  <2>2. Len(blocks) \in Nat
    BY <2>1, LenProperties
  <2> QED
    BY <1>1, <2>2 DEF Stream!TypeOK
<1>4. m_offset < m_nextOffset /\ m_nextOffset <= Size
  BY <1>1, <1>2, <1>3, CutMore DEF LastBlock
<1>5. Chunk = SubSeq(file.bytes, m_offset + 1, m_nextOffset)
  <2>1. m_offset + (m_nextOffset - m_offset) = m_nextOffset
    BY <1>3
  <2> QED
    BY <1>1, <2>1 DEF Chunk, LastBlock
<1>6. m_nextOffset <= Len(file.bytes)
  BY <1>4 DEF Size
<1>7. /\ Chunk \in Seq(Byte) /\ Len(Chunk) = m_nextOffset - m_offset
      /\ \A i \in 1..(m_nextOffset - m_offset) : Chunk[i] = file.bytes[m_offset + i]
      /\ Prefix(m_offset) \o Chunk = Prefix(m_nextOffset)
  <2> DEFINE t == SubSeq(file.bytes, m_offset + 1, m_nextOffset)
  <2>1. /\ t \in Seq(Byte) /\ Len(t) = m_nextOffset - m_offset
        /\ \A i \in 1..(m_nextOffset - m_offset) : t[i] = file.bytes[m_offset + i]
        /\ SubSeq(file.bytes, 1, m_offset) \o t = SubSeq(file.bytes, 1, m_nextOffset)
    BY <1>2, <1>3, <1>4, <1>6, PrefixMore
  <2>2. Chunk = t
    BY <1>5
  <2> HIDE DEF t
  <2> QED
    BY <2>1, <2>2 DEF Prefix
<1> QED
  BY <1>2, <1>3, <1>4, <1>7 DEF ChunkIsNext

-----------------------------------------------------------------------------
(* GeneralFileInfo *)

\* The counts and the catcher are those of the bytes seen, whatever the steps that
\* do not concern them.
LEMMA GeneralSame ==
    ASSUME GeneralInv, UNCHANGED general, pc' \in Ready => pc \in Ready /\ UNCHANGED <<file, Seen>>
    PROVE  GeneralInv'
<1>1. UNCHANGED <<byteCounts, totalNumBytes, firstBytes>>
  BY DEF general
<1>2. pc' \in Ready => Counted' /\ Caught'
  BY <1>1 DEF GeneralInv, Counted, Caught, PlacesOf, Size
<1> QED
  BY <1>1, <1>2 DEF GeneralInv

\* Before the first run.
LEMMA GeneralInit ==
    ASSUME Init
    PROVE  GeneralInv
BY DEF Init, GeneralInv, Unset, Ready, Opened

\* After reset nothing is counted and nothing is caught.
LEMMA GeneralReset ==
    ASSUME Control, StreamInv, Reset
    PROVE  GeneralInv'
<1>1. /\ pc = "reset" /\ pc' = "start" /\ UNCHANGED <<file, stream>>
      /\ byteCounts' = [b \in Byte |-> 0] /\ totalNumBytes' = 0
      /\ firstBytes' = [i \in 0..(NumFirstBytes - 1) |-> 0]
  BY DEF Reset, Goto, ResetCounter, ResetCatcher
<1>2. Seen' = 0
  <2>1. m_nextOffset = Cut(Len(blocks)) /\ blocks = <<>> /\ file \in Files
    BY <1>1 DEF Control, StreamInv, StreamRuns, Opened
  <2>2. Size \in Nat
    BY <2>1, FileBytes DEF Size
  <2>3. Cut(0) = 0
    BY <2>2, CutMore
  <2>4. Len(blocks) = 0
    BY <2>1
  <2>5. m_nextOffset' = 0
    BY <1>1, <2>1, <2>3, <2>4 DEF stream
  <2> QED
    BY <1>1, <2>5 DEF Seen
<1>3. \A b \in Byte : Count(PlacesOf(b)', 0) = 0
  BY CountOneMore
<1>4. Counted'
  BY <1>1, <1>2, <1>3 DEF Counted
<1>5. Caught'
  <2>1. \A i \in 0..(NumFirstBytes - 1) : ~(i < 0)
    BY ConstantsAssumption
  <2>2. 0 \in Byte
    BY ConstantsAssumption
  <2> QED
    BY <1>1, <1>2, <2>1, <2>2 DEF Caught
<1> QED
  BY <1>1, <1>4, <1>5 DEF GeneralInv, Caught

\* reduce counts and catches the bytes of the block.
LEMMA GeneralReduce ==
    ASSUME Control, StreamInv, GeneralInv, ReduceGeneral
    PROVE  GeneralInv'
<1>1. /\ pc = "general" /\ pc' = "window" /\ UNCHANGED <<file, stream>> /\ CountBytes /\ CatchBytes
  BY DEF ReduceGeneral, Goto
<1>2. ChunkIsNext
  BY <1>1, ChunkIs
<1>3. Seen = m_offset /\ Seen' = m_nextOffset
  BY <1>1 DEF Seen, stream
<1>4. Counted /\ Caught /\ byteCounts \in [Byte -> Nat]
  BY <1>1 DEF GeneralInv, Ready, Opened
<1> DEFINE n == Len(Chunk)
<1>5. n \in Nat /\ m_offset + n = m_nextOffset /\ n = m_nextOffset - m_offset /\ m_offset \in Nat
  BY <1>2 DEF ChunkIsNext
<1> HIDE DEF n
<1>6. totalNumBytes' = Seen' /\ totalNumBytes' \in Nat
  BY <1>1, <1>3, <1>4, <1>5 DEF CountBytes, Counted, n
<1>7. ASSUME NEW b \in Byte
      PROVE  byteCounts[b] + Cardinality({ i \in 1..n : Chunk[i] = b })
                = Count(PlacesOf(b), m_nextOffset)
             /\ Count(PlacesOf(b), m_nextOffset) \in Nat
  <2> DEFINE R == { i \in 1..n : Chunk[i] = b }
             P == PlacesOf(b)
  <2>1. { i \in 1..n : i \in R } = R
    OBVIOUS
  <2>2. Count(R, n) = Cardinality(R)
    BY <2>1 DEF Count
  <2>3. CountFollows(P, P, m_offset, R, n)
    <3>1. \A j \in 1..n : m_offset + j \in 1..Size /\ Chunk[j] = file.bytes[m_offset + j]
      BY <1>2, <1>5 DEF ChunkIsNext, n
    <3> QED
      BY <3>1 DEF CountFollows, PlacesOf
  <2> HIDE DEF R, P
  <2>4. Count(P, m_offset + n) = Count(P, m_offset) + Count(R, n)
    BY <1>5, <2>3, CountsAdd
  <2>5. byteCounts[b] = Count(P, m_offset)
    BY <1>3, <1>4 DEF Counted, P
  <2>6. Count(P, m_offset + n) \in Nat
    <3>1. m_offset + n \in Nat
      BY <1>5
    <3> QED
      BY <3>1, CountOneMore
  <2> QED
    BY <1>5, <2>2, <2>4, <2>5, <2>6 DEF R, P
<1>8. byteCounts' \in [Byte -> Nat] /\ \A b \in Byte : byteCounts'[b] = Count(PlacesOf(b), m_nextOffset)
  <2>1. byteCounts' = [b \in Byte |-> byteCounts[b] + Cardinality({ i \in 1..n : Chunk[i] = b })]
    BY <1>1 DEF CountBytes, n
  <2> QED
    BY <1>7, <2>1
<1>9. \A b \in Byte : PlacesOf(b)' = PlacesOf(b)
  BY <1>1 DEF PlacesOf, Size
<1>10. Counted'
  BY <1>3, <1>6, <1>8, <1>9 DEF Counted
<1>11. ASSUME NEW i \in 0..(NumFirstBytes - 1)
       PROVE  /\ firstBytes'[i] = IF i < m_nextOffset THEN file.bytes[i + 1] ELSE 0
              /\ firstBytes'[i] \in Byte
  <2>1. firstBytes'[i] = IF m_offset <= NumFirstBytes - 1 /\ i \in m_offset..(m_offset + n - 1)
                         THEN Chunk[i - m_offset + 1] ELSE firstBytes[i]
    BY <1>1, <1>4 DEF CatchBytes, Caught, n
  <2>2. /\ firstBytes[i] = (IF i < m_offset THEN file.bytes[i + 1] ELSE 0) /\ firstBytes[i] \in Byte
    BY <1>3, <1>4 DEF Caught
  <2>3. NumFirstBytes \in Nat /\ i \in Nat /\ i <= NumFirstBytes - 1
    BY ConstantsAssumption
  <2>4. CASE i < m_offset
    <3>1. i < m_nextOffset /\ i \notin m_offset..(m_offset + n - 1)
      BY <1>5, <2>3, <2>4
    <3> QED
      BY <2>1, <2>2, <2>4, <3>1
  <2>5. CASE m_offset <= i /\ i < m_nextOffset
    <3>1. m_offset <= NumFirstBytes - 1 /\ i \in m_offset..(m_offset + n - 1)
      BY <1>5, <2>3, <2>5
    <3>2. firstBytes'[i] = Chunk[i - m_offset + 1]
      BY <2>1, <3>1
    <3>3. i - m_offset + 1 \in 1..n /\ m_offset + (i - m_offset + 1) = i + 1
      BY <1>5, <2>3, <2>5
    <3>4. Chunk[i - m_offset + 1] = file.bytes[i + 1] /\ Chunk[i - m_offset + 1] \in Byte
      <4>1. Chunk \in Seq(Byte) /\ \A j \in 1..n : Chunk[j] = file.bytes[m_offset + j]
        BY <1>2 DEF ChunkIsNext, n
      <4>2. Chunk[i - m_offset + 1] \in Byte
        BY <3>3, <4>1, ElementOfSeq DEF n
      <4> QED
        BY <3>3, <4>1, <4>2
    <3> QED
      BY <2>5, <3>2, <3>4
  <2>6. CASE ~(i < m_nextOffset)
    <3>1. ~(i < m_offset) /\ i \notin m_offset..(m_offset + n - 1)
      BY <1>5, <2>3, <2>6
    <3> QED
      BY <2>1, <2>2, <2>6, <3>1
  <2> QED
    BY <1>5, <2>3, <2>4, <2>5, <2>6
<1>12. Caught'
  <2>1. firstBytes' \in [0..(NumFirstBytes - 1) -> Byte]
    <3>1. DOMAIN firstBytes = 0..(NumFirstBytes - 1)
      BY <1>4 DEF Caught
    <3>2. firstBytes' = [i \in 0..(NumFirstBytes - 1) |-> firstBytes'[i]]
      BY <1>1, <3>1 DEF CatchBytes
    <3> QED
      BY <1>11, <3>2
  <2> QED
    BY <1>1, <1>3, <1>11, <2>1 DEF Caught
<1> QED
  BY <1>6, <1>8, <1>10, <1>12 DEF GeneralInv, Caught

\* Every step.
LEMMA GeneralNext ==
    ASSUME Control, StreamInv, GeneralInv, Next
    PROVE  GeneralInv'
<1>1. CASE \/ (\E f \in Files : Run(f)) \/ StreamSetup \/ StreamSetBlockSize \/ StreamStart
           \/ Stop \/ AbandonStart \/ AbandonReduce
  <2>1. UNCHANGED general /\ pc' \notin Ready
    BY <1>1 DEF Run, StreamSetup, StreamSetBlockSize, StreamStart, Stop, AbandonStart, AbandonReduce,
                Goto, Ready, Opened
  <2> QED
    BY <2>1, GeneralSame
<1>2. CASE Reset
  BY <1>2, GeneralReset
<1>3. CASE ReduceGeneral
  BY <1>3, GeneralReduce
<1>4. CASE Start \/ WindowCopy \/ WindowSlide \/ ReduceStrings \/ Finalize
  <2>1. UNCHANGED <<general, file, stream>> /\ pc \in Ready /\ pc # "general" /\ pc' # "general"
    BY <1>4 DEF Start, WindowCopy, WindowSlide, ReduceStrings, Finalize, Goto, Ready, Opened
  <2>2. UNCHANGED Seen
    BY <2>1 DEF Seen, stream
  <2> QED
    BY <2>1, <2>2, GeneralSame
<1>5. CASE Read
  <2>1. UNCHANGED <<general, file>> /\ pc = "read" /\ pc' \in {"finalize", "general"}
    BY <1>5 DEF Read
  <2>2. m_offset' = m_nextOffset /\ (pc' = "finalize" => m_nextOffset' = m_nextOffset)
    BY <1>5, ReadMoves
  <2>3. UNCHANGED Seen /\ pc \in Ready
    BY <2>1, <2>2 DEF Seen, Ready, Opened
  <2> QED
    BY <2>1, <2>3, GeneralSame
<1> QED
  BY <1>1, <1>2, <1>3, <1>4, <1>5 DEF Next

-----------------------------------------------------------------------------
(* The sliding window *)

\* What its proofs assume.
LEMMA WindowConstants == WP!ConstantsAssumption
BY ConstantsAssumption DEF WP!ConstantsAssumption

\* Nothing is fed.
LEMMA WindowSame ==
    ASSUME WindowInv, UNCHANGED <<window, windowCalled>>,
           pc' # "window" => buf = <<>>, pc' # "stop",
           pc' \in Ready => pc \in Ready,
           pc' \in Sliding => pc \in Sliding /\ UNCHANGED <<file, Seen>>
    PROVE  WindowInv'
<1>1. UNCHANGED <<block, windowSize, step, callback, buf, phase, fed, windows>>
  BY DEF window
<1>2. WP!Inv'
  BY <1>1 DEF WindowInv, WP!Inv, WP!TypeOK, WP!Settings, WP!BlockIsSlice, WP!IsSlice, WP!Base, WP!Pos,
     WP!WindowsSoFar, WP!NoMoreWindows
<1>3. pc' \in Sliding => fed' = Prefix(Seen)'
  BY <1>1 DEF WindowInv, Prefix
<1> QED
  BY <1>1, <1>2, <1>3 DEF WindowInv

\* Before the first run.
LEMMA WindowInit ==
    ASSUME Init
    PROVE  WindowInv
<1>1. WP!Init
  BY DEF Init, SlidingWindow!Init, WP!Init
<1>2. WP!Inv
  BY <1>1, WindowConstants, WP!InitInv
<1> QED
  BY <1>1, <1>2 DEF Init, WindowInv, WP!Init, Ready, Opened, Sliding

\* reset empties the block.
LEMMA WindowReset ==
    ASSUME WindowInv, Reset
    PROVE  WindowInv'
<1>1. /\ pc = "reset" /\ pc' = "start" /\ UNCHANGED windowCalled
      /\ block' = <<>> /\ windowSize' = WindowSize /\ step' = WindowStep
      /\ callback' = TRUE /\ phase' = "idle" /\ UNCHANGED <<buf, fed, windows>>
  BY DEF Reset, Goto, ResetWindow
<1>2. buf = <<>> /\ WP!TypeOK
  BY <1>1 DEF WindowInv, WP!Inv
<1>3. block' \in Seq(Byte) /\ Len(block') <= WindowSize
  BY <1>1, ConstantsAssumption
<1>4. windowSize' \in 0..WindowSize /\ step' \in 0..WindowSize
  BY <1>1, ConstantsAssumption
<1>5. callback' \in BOOLEAN
  BY <1>1
<1>6. WP!TypeOK'
  BY <1>1, <1>2, <1>3, <1>4, <1>5 DEF WP!TypeOK
<1>7. WP!Inv'
  BY <1>1, <1>2, <1>6 DEF WP!Inv
<1> QED
  BY <1>1, <1>2, <1>7 DEF WindowInv, Sliding

\* start, whatever becomes of it.
LEMMA WindowStarted ==
    ASSUME Control, StreamInv, WindowInv, SlidingWindow!Start, pc = "start", pc' \in {"idle", "read"},
           UNCHANGED <<file, stream>>, windowCalled' = FALSE
    PROVE  WindowInv'
<1>1. WP!Start /\ WP!Inv
  BY DEF SlidingWindow!Start, SlidingWindow!Configured, SlidingWindow!config,
         WP!Start, WP!Configured, WP!config, WindowInv
<1>2. WP!Inv'
  BY <1>1, WindowConstants, WP!StartInv
<1>3. UNCHANGED <<windowSize, step, callback, buf>> /\ phase' = "started" /\ fed' = <<>>
  BY <1>1 DEF WP!Start, WP!config
<1>4. pc' = "read" => fed' = Prefix(Seen)'
  <2>1. m_nextOffset = Cut(Len(blocks)) /\ blocks = <<>> /\ file \in Files
    BY DEF Control, StreamInv, StreamRuns, Opened
  <2>2. Size \in Nat
    BY <2>1, FileBytes DEF Size
  <2>3. Cut(0) = 0 /\ Len(blocks) = 0
    BY <2>1, <2>2, CutMore
  <2>4. m_nextOffset' = 0
    BY <2>1, <2>3 DEF stream
  <2>5. SubSeq(file.bytes, 1, 0) = <<>>
    BY <2>1, EmptyPrefix
  <2> QED
    BY <1>3, <2>4, <2>5 DEF Prefix, Seen
<1> QED
  BY <1>2, <1>3, <1>4 DEF WindowInv, Ready, Opened, Sliding

\* reduce of GeneralFileInfo, which hands the block on.
LEMMA WindowFed ==
    ASSUME Control, StreamInv, WindowInv, ReduceGeneral
    PROVE  WindowInv'
<1>1. /\ pc = "general" /\ pc' = "window" /\ UNCHANGED <<file, windowCalled, stream>>
      /\ SlidingWindow!Reduce(Chunk)
  BY DEF ReduceGeneral, Goto
<1>2. ChunkIsNext
  BY <1>1, ChunkIs
<1>3. WP!Reduce(Chunk) /\ WP!Inv /\ Chunk \in Seq(Byte)
  BY <1>1, <1>2 DEF SlidingWindow!Reduce, SlidingWindow!config, WP!Reduce, WP!config, WindowInv,
                    ChunkIsNext
<1>4. WP!Inv'
  BY <1>3, WindowConstants, WP!ReduceInv
<1>5. UNCHANGED <<windowSize, step, phase>> /\ fed' = fed \o Chunk
  BY <1>3 DEF WP!Reduce, WP!config
<1>6. fed' = Prefix(Seen)'
  <2>1. fed = Prefix(m_offset)
    BY <1>1 DEF WindowInv, Sliding, Seen
  <2>2. fed' = Prefix(m_nextOffset)
    BY <1>2, <1>5, <2>1 DEF ChunkIsNext
  <2> QED
    BY <1>1, <2>2 DEF Prefix, Seen, stream
<1> QED
  BY <1>1, <1>4, <1>5, <1>6 DEF WindowInv, Ready, Opened, Sliding

\* The loop of the window's reduce.
LEMMA WindowLoop ==
    ASSUME WindowInv, WindowCopy \/ WindowSlide
    PROVE  WindowInv'
<1>1. /\ pc = "window" /\ pc' = "window" /\ UNCHANGED <<file, stream>> /\ windowCalled' \in BOOLEAN
      /\ SlidingWindow!Copy \/ SlidingWindow!Slide
  BY DEF WindowCopy, WindowSlide, WindowInv
<1>2. WP!Copy \/ WP!Slide
  BY <1>1 DEF SlidingWindow!Copy, SlidingWindow!SpaceInBlock, SlidingWindow!BytesToCopy,
     SlidingWindow!config, SlidingWindow!Slide, WP!Copy, WP!SpaceInBlock, WP!BytesToCopy, WP!config, WP!Slide
<1>3. WP!Inv'
  BY <1>2, WindowConstants, WP!CopyInv, WP!SlideInv DEF WindowInv
<1>4. UNCHANGED <<windowSize, step, phase, fed>>
  BY <1>2 DEF WP!Copy, WP!Slide, WP!config
<1>5. UNCHANGED Seen
  BY <1>1 DEF Seen, stream
<1>6. fed' = Prefix(Seen)'
  BY <1>1, <1>4, <1>5 DEF WindowInv, Sliding, Prefix
<1> QED
  BY <1>1, <1>3, <1>4, <1>6 DEF WindowInv, Ready, Opened, Sliding

\* finalize.
LEMMA WindowFinal ==
    ASSUME WindowInv, Finalize
    PROVE  WindowInv'
<1>1. /\ pc = "finalize" /\ pc' = "stop" /\ UNCHANGED <<file, stream>> /\ windowCalled' \in BOOLEAN
      /\ SlidingWindow!Finalize
  BY DEF Finalize, Goto, WindowInv
<1>2. WP!Finalize
  BY <1>1 DEF SlidingWindow!Finalize, SlidingWindow!config, WP!Finalize, WP!config
<1>3. WP!Inv'
  BY <1>2, WindowConstants, WP!FinalizeInv DEF WindowInv
<1>4. UNCHANGED <<windowSize, step, buf, fed>> /\ buf = <<>> /\ phase' = "final"
  BY <1>2 DEF WP!Finalize, WP!config
<1>5. UNCHANGED Seen
  BY <1>1 DEF Seen, stream
<1>6. fed' = Prefix(Seen)'
  BY <1>1, <1>4, <1>5 DEF WindowInv, Sliding, Prefix
<1> QED
  BY <1>1, <1>3, <1>4, <1>6 DEF WindowInv, Ready, Opened, Sliding

\* Every step.
LEMMA WindowNext ==
    ASSUME Control, StreamInv, WindowInv, Next
    PROVE  WindowInv'
<1>1. CASE \/ (\E f \in Files : Run(f)) \/ StreamSetup \/ StreamSetBlockSize \/ StreamStart \/ Stop
  <2>1. /\ UNCHANGED <<window, windowCalled>> /\ pc # "window"
        /\ pc' \notin Ready \cup Sliding \cup {"stop", "window"}
    BY <1>1 DEF Run, StreamSetup, StreamSetBlockSize, StreamStart, Stop, Goto, Ready, Opened, Sliding
  <2>2. buf = <<>>
    BY <2>1 DEF WindowInv
  <2> QED
    BY <2>1, <2>2, WindowSame
<1>2. CASE AbandonReduce \/ ReduceStrings
  <2>1. /\ UNCHANGED <<window, windowCalled>> /\ pc = "window" /\ buf = <<>>
        /\ pc' = "idle" \/ (pc' = "read" /\ UNCHANGED <<file, stream>>)
    BY <1>2 DEF AbandonReduce, ReduceStrings, Goto
  <2>2. pc' = "read" => UNCHANGED Seen
    BY <2>1 DEF Seen, stream
  <2> QED
    BY <2>1, <2>2, WindowSame DEF Ready, Opened, Sliding
<1>3. CASE Reset
  BY <1>3, WindowReset
<1>4. CASE Start \/ AbandonStart
  BY <1>4, WindowStarted DEF Start, AbandonStart, Goto, StartFirst
<1>5. CASE Read
  <2>1. UNCHANGED <<window, windowCalled, file>> /\ pc = "read" /\ pc' \in {"finalize", "general"}
    BY <1>5 DEF Read
  <2>2. UNCHANGED Seen
    BY <1>5, <2>1, ReadMoves DEF Seen
  <2>3. buf = <<>>
    BY <2>1 DEF WindowInv
  <2> QED
    BY <2>1, <2>2, <2>3, WindowSame DEF Ready, Opened, Sliding
<1>6. CASE ReduceGeneral
  BY <1>6, WindowFed
<1>7. CASE WindowCopy \/ WindowSlide
  BY <1>7, WindowLoop
<1>8. CASE Finalize
  BY <1>8, WindowFinal
<1> QED
  BY <1>1, <1>2, <1>3, <1>4, <1>5, <1>6, <1>7, <1>8 DEF Next

-----------------------------------------------------------------------------
(* StringExtractor *)

\* What its proofs assume: the bytes are finitely many.
LEMMA TextConstants == TP!StringsAssumption /\ TP!ConstantsAssumption
<1>1. IsFiniteSet(Readable)
  <2>1. Readable \in SUBSET (0..(HalfByte * HalfByte - 1))
    BY TextAssumption, ConstantsAssumption
  <2>2. 0 \in Int /\ HalfByte * HalfByte - 1 \in Int
    <3>1. \A n \in Nat : n * n - 1 \in Int
      OBVIOUS
    <3> QED
      BY <3>1, ConstantsAssumption
  <2>3. IsFiniteSet(0..(HalfByte * HalfByte - 1))
    BY <2>2, FS_Interval
  <2> QED
    BY <2>1, <2>3, FS_Subset
<1>2. TP!IsFiniteSet(Readable)
  BY <1>1 DEF IsFiniteSet, TP!IsFiniteSet
<1>3. TP!StringsAssumption
  BY <1>2, TextAssumption, ConstantsAssumption DEF TP!StringsAssumption, TP!RegexSet
<1>4. TP!ConstantsAssumption
  BY ConstantsAssumption DEF TP!ConstantsAssumption
<1> QED
  BY <1>3, <1>4

\* The operators of the string extractor are those its proofs are about.
LEMMA SameText ==
    /\ \A s : TP!Strings(s) = Text!Strings(s)
    /\ \A ss : TP!TotalLength(ss) = Text!TotalLength(ss)
    /\ \A b, ss : TP!TotalOccurrences(b, ss) = Text!TotalOccurrences(b, ss)
    /\ \A k, ss : TP!Matches(k, ss) = Text!Matches(k, ss)
    /\ \A ss : TP!FeaturesOf(ss) = Text!FeaturesOf(ss)
    /\ \A f : TP!SumFunction(f) = Text!SumFunction(f)
<1>1. \A S : TP!Cardinality(S) = Text!Cardinality(S)
  BY DEF TP!Cardinality, Text!Cardinality, TP!IsFiniteSet, Text!IsFiniteSet
<1>2. \A f : TP!SumFunction(f) = Text!SumFunction(f)
  BY Zenon DEF Text!SumFunction, Text!SumFunctionOnSet, Text!FoldFunctionOnSet, Text!FoldFunction, Text!MapThenFoldSet,
         TP!SumFunction, TP!SumFunctionOnSet, TP!FoldFunctionOnSet, TP!FoldFunction, TP!MapThenFoldSet
<1>3. \A s : TP!Runs(s) = Text!Runs(s)
  BY DEF TP!Runs, Text!Runs
<1>4. \A R, k : TP!RunAt(R, k) = Text!RunAt(R, k)
  BY <1>1 DEF TP!RunAt, Text!RunAt
<1>5. \A s : TP!Strings(s) = Text!Strings(s)
  BY <1>1, <1>3, <1>4 DEF TP!Strings, Text!Strings
<1>6. \A ss : TP!TotalLength(ss) = Text!TotalLength(ss)
  BY <1>2 DEF TP!TotalLength, Text!TotalLength
<1>7. \A b, s : TP!Occurrences(b, s) = Text!Occurrences(b, s)
  BY <1>1 DEF TP!Occurrences, Text!Occurrences
<1>8. \A b, ss : TP!TotalOccurrences(b, ss) = Text!TotalOccurrences(b, ss)
  BY <1>2, <1>7 DEF TP!TotalOccurrences, Text!TotalOccurrences
<1>9. \A s, p : TP!PartialMatch(s, p) = Text!PartialMatch(s, p)
  <2>1. \A t, i : TP!AtBorder(t, i) <=> Text!AtBorder(t, i)
    BY DEF TP!AtBorder, Text!AtBorder
  <2>2. \A t, u : TP!IsPrefix(t, u) <=> Text!IsPrefix(t, u)
    BY DEF TP!IsPrefix, Text!IsPrefix
  <2> QED
    BY <2>1, <2>2 DEF TP!PartialMatch, Text!PartialMatch
<1>10. \A i : TP!CounterIndex(i) = Text!CounterIndex(i)
  BY DEF TP!CounterIndex, Text!CounterIndex
<1>11. \A k, ss : TP!Matches(k, ss) = Text!Matches(k, ss)
  BY <1>1, <1>9, <1>10 DEF TP!Matches, Text!Matches
<1>12. \A ss : TP!FeaturesOf(ss) = Text!FeaturesOf(ss)
  BY <1>1, <1>6, <1>8, <1>9 DEF TP!FeaturesOf, Text!FeaturesOf
<1> QED
  BY <1>2, <1>5, <1>6, <1>8, <1>11, <1>12

\* So are its types and its steps.
LEMMA SameSteps ==
    /\ TP!StringsTypeOK <=> Text!StringsTypeOK
    /\ TP!StringsTypeOK' <=> Text!StringsTypeOK'
    /\ Text!Reset => TP!Reset
    /\ \A s : Text!Reduce(s) => TP!Reduce(s)
    /\ TP!Written = Text!Written
<1>1. \A s : Text!Reduce(s) => TP!Reduce(s)
  BY SameText, Zenon DEF Text!Reduce, TP!Reduce
<1> QED
  BY <1>1 DEF Text!StringsTypeOK, TP!StringsTypeOK, Text!Reset, TP!Reset, Text!Written, TP!Written

\* The strings of a block are sequences of bytes.
LEMMA StringsType ==
    ASSUME NEW s \in Seq(Byte)
    PROVE  Text!Strings(s) \in Seq(Seq(Byte))
BY TP!StringsType, TextConstants, SameText

\* The counts of one list of strings after another.
CountsAddUp(s, t) ==
    /\ s \o t \in Seq(Seq(Byte)) /\ Len(s \o t) = Len(s) + Len(t)
    /\ Text!TotalLength(s \o t) = Text!TotalLength(s) + Text!TotalLength(t)
    /\ \A b : Text!TotalOccurrences(b, s \o t)
                = Text!TotalOccurrences(b, s) + Text!TotalOccurrences(b, t)
    /\ \A k \in 0..(ByteRange - 1) :
          Text!Matches(k, s \o t) = Text!Matches(k, s) + Text!Matches(k, t)

\* They add up.
LEMMA CountersConcat ==
    ASSUME NEW s \in Seq(Seq(Byte)), NEW t \in Seq(Seq(Byte))
    PROVE  CountsAddUp(s, t)
<1>1. TP!CountsAddUp(s, t)
  BY TP!CountersConcat, TextConstants
<1> QED
  BY <1>1, SameText DEF CountsAddUp, TP!CountsAddUp

\* Of no strings there are none.
LEMMA CountersNone ==
    /\ <<>> \in Seq(Seq(Byte)) /\ Len(<<>>) = 0 /\ Text!TotalLength(<<>>) = 0
    /\ \A b : Text!TotalOccurrences(b, <<>>) = 0
    /\ \A k \in 0..(ByteRange - 1) : Text!Matches(k, <<>>) = 0
BY TP!CountersNone, TextConstants, SameText

\* No bytes are given to the string extractor.
LEMMA TextSame ==
    ASSUME TextInv, UNCHANGED text, pc' \in Ready => pc \in Ready /\ UNCHANGED <<file, Searched>>
    PROVE  TextInv'
<1>1. UNCHANGED <<numReadableStrings, sumReadableStringLengths, readableCounts, totalNumReadable,
                  interestingCounts, strPhase, strBlockSize, content, cuts>>
  BY DEF text
<1>2. Text!StringsTypeOK'
  BY <1>1 DEF TextInv, Text!StringsTypeOK
<1>3. pc' \in Ready => content' = Prefix(Searched)'
  BY <1>1 DEF TextInv, Prefix
<1> QED
  BY <1>2, <1>3 DEF TextInv

\* Zero is a count.
LEMMA ZeroCounts ==
    ASSUME NEW S, NEW n \in {0, 1}
    PROVE  n \in Nat /\ [x \in S |-> n] \in [S -> Nat]
OBVIOUS

\* Before the first run.
LEMMA TextInit ==
    ASSUME Init
    PROVE  TextInv
<1>1. Text!StringsInit /\ pc = "idle"
  BY DEF Init
<1>2. PICK n \in {0, 1} :
         /\ numReadableStrings = n /\ sumReadableStringLengths = n
         /\ readableCounts = [b \in Readable |-> n]
         /\ interestingCounts = [k \in 0..(ByteRange - 1) |-> n]
  BY <1>1 DEF Text!StringsInit
<1>3. /\ totalNumReadable = 0 /\ strPhase = "new" /\ content = <<>> /\ cuts = 0
      /\ strBlockSize \in {BufSize}
  BY <1>1 DEF Text!StringsInit
<1>4. content \in Seq(Byte)
  BY <1>3
<1>5. Text!StringsTypeOK
  BY <1>2, <1>3, <1>4, ZeroCounts DEF Text!StringsTypeOK
<1> QED
  BY <1>1, <1>5 DEF TextInv, Ready, Opened

\* reset forgets the file before.
LEMMA TextReset ==
    ASSUME Control, StreamInv, TextInv, Reset
    PROVE  TextInv'
<1>1. pc = "reset" /\ pc' = "start" /\ UNCHANGED <<file, stream>> /\ Text!Reset
  BY DEF Reset, Goto
<1>2. /\ numReadableStrings' = 0 /\ sumReadableStringLengths' = 0
      /\ readableCounts' = [b \in Readable |-> 0] /\ totalNumReadable' = 0
      /\ interestingCounts' = [k \in 0..(ByteRange - 1) |-> 0]
      /\ strPhase' = "ready" /\ content' = <<>> /\ cuts' = 0 /\ strBlockSize' = strBlockSize
  BY <1>1 DEF Text!Reset
<1>3. content' \in Seq(Byte)
  BY <1>2
<1>4. Text!StringsTypeOK'
  BY <1>2, <1>3, ZeroCounts DEF TextInv, Text!StringsTypeOK
<1>5. content' = Prefix(Searched)'
  <2>1. m_nextOffset = Cut(Len(blocks)) /\ blocks = <<>> /\ file \in Files
    BY <1>1 DEF Control, StreamInv, StreamRuns, Opened
  <2>2. Size \in Nat
    BY <2>1, FileBytes DEF Size
  <2>3. Cut(0) = 0 /\ Len(blocks) = 0
    BY <2>1, <2>2, CutMore
  <2>4. m_nextOffset' = 0
    BY <1>1, <2>1, <2>3 DEF stream
  <2>5. SubSeq(file.bytes, 1, 0) = <<>>
    BY <2>1, EmptyPrefix
  <2> QED
    BY <1>1, <1>2, <2>4, <2>5 DEF Prefix, Searched
<1> QED
  BY <1>4, <1>5 DEF TextInv

\* reduce.
LEMMA TextReduce ==
    ASSUME Control, StreamInv, TextInv, ReduceStrings
    PROVE  TextInv'
<1>1. pc = "window" /\ pc' = "read" /\ UNCHANGED <<file, stream>> /\ Text!Reduce(Chunk)
  BY DEF ReduceStrings, Goto
<1>2. ChunkIsNext
  BY <1>1, ChunkIs
<1>3. content' = content \o Chunk
  BY <1>1 DEF Text!Reduce
<1>4. Text!StringsTypeOK'
  <2>1. Chunk \in Seq(Byte)
    BY <1>2 DEF ChunkIsNext
  <2>2. TP!StringsTypeOK /\ TP!Reduce(Chunk)
    BY <1>1, SameSteps DEF TextInv
  <2>3. TP!StringsTypeOK'
    BY <2>1, <2>2, TextConstants, TP!StringsTypeReduce
  <2> QED
    BY <2>3, SameSteps
<1>5. content' = Prefix(Searched)'
  <2>1. content = Prefix(m_offset)
    BY <1>1 DEF TextInv, Ready, Opened, Searched
  <2>2. content' = Prefix(m_nextOffset)
    BY <1>2, <1>3, <2>1 DEF ChunkIsNext
  <2> QED
    BY <1>1, <2>2 DEF Prefix, Searched, stream
<1> QED
  BY <1>4, <1>5 DEF TextInv

\* Every step.
LEMMA TextNext ==
    ASSUME Control, StreamInv, TextInv, Next
    PROVE  TextInv'
<1>1. CASE \/ (\E f \in Files : Run(f)) \/ StreamSetup \/ StreamSetBlockSize \/ StreamStart
           \/ Stop \/ AbandonStart \/ AbandonReduce
  <2>1. UNCHANGED text /\ pc' \notin Ready
    BY <1>1 DEF Run, StreamSetup, StreamSetBlockSize, StreamStart, Stop, AbandonStart, AbandonReduce,
                Goto, Ready, Opened
  <2> QED
    BY <2>1, TextSame
<1>2. CASE Reset
  BY <1>2, TextReset
<1>3. CASE ReduceStrings
  BY <1>3, TextReduce
<1>4. CASE Start \/ WindowCopy \/ WindowSlide
  <2>1. /\ UNCHANGED <<text, file, stream>> /\ pc \in Ready
        /\ (pc \in {"general", "window"}) <=> (pc' \in {"general", "window"})
    BY <1>4 DEF Start, WindowCopy, WindowSlide, Goto, Ready, Opened
  <2>2. UNCHANGED Searched
    BY <2>1 DEF Searched, stream
  <2> QED
    BY <2>1, <2>2, TextSame
<1>5. CASE ReduceGeneral
  <2>1. /\ UNCHANGED <<text, file, stream>> /\ pc = "general" /\ pc' = "window"
    BY <1>5 DEF ReduceGeneral, Goto
  <2>2. UNCHANGED Searched
    BY <2>1 DEF Searched, stream
  <2> QED
    BY <2>1, <2>2, TextSame DEF Ready, Opened
<1>6. CASE Read
  <2>1. UNCHANGED <<text, file>> /\ pc = "read" /\ pc' \in {"finalize", "general"}
    BY <1>6 DEF Read
  <2>2. UNCHANGED Searched
    BY <1>6, <2>1, ReadMoves DEF Searched
  <2> QED
    BY <2>1, <2>2, TextSame DEF Ready, Opened
<1>7. CASE Finalize
  <2>1. /\ UNCHANGED <<file, stream>> /\ pc = "finalize" /\ pc' = "stop" /\ strPhase' = "final"
        /\ UNCHANGED <<numReadableStrings, sumReadableStringLengths, readableCounts, totalNumReadable,
                       interestingCounts, strBlockSize, content, cuts>>
    BY <1>7 DEF Finalize, Goto, Text!Finalize, Text!counters
  <2>2. UNCHANGED Searched
    BY <2>1 DEF Searched, stream
  <2>3. Text!StringsTypeOK'
    BY <2>1 DEF TextInv, Text!StringsTypeOK
  <2>4. content' = Prefix(Searched)'
    BY <2>1, <2>2 DEF TextInv, Ready, Opened, Prefix
  <2> QED
    BY <2>3, <2>4 DEF TextInv
<1> QED
  BY <1>1, <1>2, <1>3, <1>4, <1>5, <1>6, <1>7 DEF Next

-----------------------------------------------------------------------------
(* The strings of the blocks *)

NumBlocks == (Size + BufSize - 1) \div BufSize

\* The blocks of the file are cut where the stream cuts it.
LEMMA FileBlocksAre ==
    ASSUME file \in Files
    PROVE  /\ NumBlocks \in Nat /\ DOMAIN FileBlocks(file) = 1..NumBlocks
           /\ \A k \in 1..NumBlocks :
                 /\ Cut(k - 1) < Cut(k) /\ Cut(k) <= Size /\ Cut(k - 1) \in Nat /\ Cut(k) \in Nat
                 /\ FileBlocks(file)[k] = SubSeq(file.bytes, Cut(k - 1) + 1, Cut(k))
                 /\ FileBlocks(file)[k] \in Seq(Byte)
<1>1. file.bytes \in Seq(Byte) /\ Size \in Nat /\ Size = Len(file.bytes)
  BY FileBytes DEF Size
<1>2. BufSize \in Nat /\ BufSize > 0
  BY ConstantsAssumption
<1>3. NumBlocks \in Nat /\ NumBlocks * BufSize <= Size + BufSize - 1
  <2>1. \A a \in Nat, s \in Nat \ {0} : a \div s \in Nat /\ (a \div s) * s <= a
    OBVIOUS
  <2>2. Size + BufSize - 1 \in Nat /\ BufSize \in Nat \ {0}
    BY <1>1, <1>2
  <2> QED
    BY <2>1, <2>2 DEF NumBlocks
<1>4. FileBlocks(file) = [k \in 1..NumBlocks |->
         SubSeq(file.bytes, (k - 1) * BufSize + 1, IF k * BufSize < Size THEN k * BufSize ELSE Size)]
  BY DEF FileBlocks, NumBlocks, Size
<1>5. ASSUME NEW k \in 1..NumBlocks
      PROVE  /\ Cut(k - 1) < Cut(k) /\ Cut(k) <= Size /\ Cut(k - 1) \in Nat /\ Cut(k) \in Nat
             /\ Cut(k - 1) = (k - 1) * BufSize
  <2> DEFINE p == k - 1
  <2>1. p \in Nat /\ k = p + 1 /\ k \in Nat
    BY <1>3
  <2>2. k * BufSize <= NumBlocks * BufSize
    <3>1. \A m, n, s \in Nat : m <= n => m * s <= n * s
      OBVIOUS
    <3>2. k <= NumBlocks
      BY <1>3
    <3> QED
      BY <1>2, <1>3, <2>1, <3>1, <3>2
  <2>3. k * BufSize = p * BufSize + BufSize /\ p * BufSize \in Nat
    <3> HIDE DEF p
    <3> QED
      BY <1>2, <2>1, WP!NextBase
  <2> DEFINE a == p * BufSize
             b == k * BufSize
             c == NumBlocks * BufSize
  <2>4. a \in Nat /\ b = a + BufSize /\ b <= c /\ c <= Size + BufSize - 1 /\ b \in Nat
    BY <1>2, <1>3, <2>2, <2>3
  <2>5. Cut(p) = (IF a < Size THEN a ELSE Size) /\ Cut(k) = (IF b < Size THEN b ELSE Size)
    BY DEF Cut
  <2> HIDE DEF a, b, c, p
  <2>6. a < Size
    <3>1. c \in Int
      BY <1>2, <1>3 DEF c
    <3> QED
      BY <1>1, <1>2, <2>4, <3>1
  <2>7. Cut(p) = a /\ Cut(p) < Cut(k) /\ Cut(k) <= Size /\ Cut(p) \in Nat /\ Cut(k) \in Nat
    BY <1>1, <1>2, <2>4, <2>5, <2>6
  <2> QED
    BY <2>7 DEF a, p
<1>6. ASSUME NEW k \in 1..NumBlocks
      PROVE  FileBlocks(file)[k] = SubSeq(file.bytes, Cut(k - 1) + 1, Cut(k))
  <2>1. Cut(k - 1) = (k - 1) * BufSize
    BY <1>5
  <2>2. Cut(k) = IF k * BufSize < Size THEN k * BufSize ELSE Size
    BY DEF Cut
  <2>3. FileBlocks(file)[k]
          = SubSeq(file.bytes, (k - 1) * BufSize + 1, IF k * BufSize < Size THEN k * BufSize ELSE Size)
    BY <1>4
  <2> QED
    BY <2>1, <2>2, <2>3
<1>7. ASSUME NEW k \in 1..NumBlocks
      PROVE  FileBlocks(file)[k] \in Seq(Byte)
  <2> DEFINE m == Cut(k - 1)
             n == Cut(k)
  <2>1. m \in Nat /\ n \in Nat /\ m < n /\ n <= Len(file.bytes)
    BY <1>1, <1>5
  <2>2. FileBlocks(file)[k] = SubSeq(file.bytes, m + 1, n)
    BY <1>6
  <2> HIDE DEF m, n
  <2> QED
    BY <1>1, <2>1, <2>2, PrefixMore
<1>8. DOMAIN FileBlocks(file) = 1..NumBlocks
  BY <1>4
<1> QED
  BY <1>3, <1>5, <1>6, <1>7, <1>8

\* The strings found are sequences of bytes, and those of one block more come after.
LEMMA FoundIs ==
    ASSUME file \in Files, NEW n \in 0..NumBlocks
    PROVE  /\ Found(n) \in Seq(Seq(Byte)) /\ Found(0) = <<>>
           /\ n < NumBlocks => Found(n + 1) = Found(n) \o Text!Strings(FileBlocks(file)[n + 1])
<1> DEFINE F == BlockStrings(file)
<1>1. NumBlocks \in Nat /\ \A k \in 1..NumBlocks : FileBlocks(file)[k] \in Seq(Byte)
  BY FileBlocksAre
<1>2. \A k \in 1..NumBlocks : F[k] = Text!Strings(FileBlocks(file)[k]) /\ F[k] \in Seq(Seq(Byte))
  BY <1>1, FileBlocksAre, StringsType DEF BlockStrings
<1> HIDE DEF F
<1>3. n \in Nat /\ \A k \in 1..n : F[k] \in Seq(Seq(Byte))
  BY <1>1, <1>2
<1>4. Joined(F, n) \in Seq(Seq(Byte))
  BY <1>3, JoinedType
<1>5. Joined(F, 0) = <<>>
  BY FlattenNone DEF Joined
<1>6. ASSUME n < NumBlocks
      PROVE  Joined(F, n + 1) = Joined(F, n) \o F[n + 1] /\ n + 1 \in 1..NumBlocks
  <2>1. \A k \in 1..(n + 1) : F[k] \in Seq(Seq(Byte))
    BY <1>1, <1>2, <1>3, <1>6
  <2>2. n + 1 \in 1..NumBlocks
    BY <1>1, <1>3, <1>6
  <2> QED
    BY <1>3, <2>1, <2>2, FlattenMore DEF Joined
<1> QED
  BY <1>2, <1>4, <1>5, <1>6 DEF Found, F

\* The block being searched is the next block of the file.
LEMMA ChunkOfFile ==
    ASSUME Control, StreamInv, pc \in {"general", "window"}
    PROVE  /\ Len(blocks) - 1 \in 0..NumBlocks /\ Len(blocks) - 1 < NumBlocks /\ Len(blocks) \in Nat
           /\ Chunk = FileBlocks(file)[Len(blocks)]
<1> DEFINE N == Len(blocks)
           p == N - 1
<1>1. /\ file \in Files /\ LastBlock /\ m_nextOffset = Cut(N) /\ Cut(p) < Size /\ Stream!TypeOK
  <2>1. /\ file \in Files /\ LastBlock /\ m_nextOffset = Cut(N) /\ Stream!TypeOK
        /\ N = 0 \/ Cut(p) < Size
    BY DEF Control, StreamInv, StreamRuns, Opened
  <2>2. N > 0
    BY <2>1 DEF LastBlock
  <2> QED
    BY <2>1, <2>2
<1>2. N \in Nat /\ N > 0
  <2>1. blocks \in Seq(Stream!Block)
    BY <1>1 DEF Stream!TypeOK
  <2> QED
    BY <1>1, <2>1, LenProperties DEF LastBlock
<1>3. BufSize \in Nat /\ BufSize > 0 /\ Size \in Nat
  BY <1>1, ConstantsAssumption, FileBytes DEF Size
<1>4. p \in Nat /\ N = p + 1
  BY <1>2
<1> HIDE DEF N, p
<1>5. N <= NumBlocks
  <2> DEFINE a == p * BufSize
             b == N * BufSize
  <2>1. a \in Nat /\ b = a + BufSize
    BY <1>3, <1>4, WP!NextBase
  <2>2. Cut(p) = IF a < Size THEN a ELSE Size
    BY DEF Cut
  <2> HIDE DEF a, b
  <2>3. a < Size
    BY <1>1, <1>3, <2>1, <2>2
  <2>4. b <= Size + BufSize - 1 /\ Size + BufSize - 1 \in Nat
    BY <1>3, <2>1, <2>3
  <2>5. N * BufSize <= Size + BufSize - 1
    BY <2>4 DEF b
  <2> QED
    BY <1>2, <1>3, <2>4, <2>5, WindowConstants, WP!QuotientAtLeast DEF NumBlocks
<1>6. NumBlocks \in Nat
  BY <1>1, FileBlocksAre
<1>7. N \in 1..NumBlocks /\ p \in 0..NumBlocks /\ p < NumBlocks
  BY <1>2, <1>4, <1>5, <1>6
<1>8. Chunk = SubSeq(file.bytes, Cut(p) + 1, Cut(N))
  <2>1. ChunkIsNext
    BY ChunkIs
  <2>2. m_offset + (m_nextOffset - m_offset) = m_nextOffset
    BY <2>1 DEF ChunkIsNext
  <2>3. m_offset = Cut(p) /\ blocks[N].off = m_offset /\ blocks[N].len = m_nextOffset - m_offset
    BY <1>1 DEF LastBlock, p, N
  <2>4. Chunk = SubSeq(file.bytes, blocks[N].off + 1, blocks[N].off + blocks[N].len)
    BY DEF Chunk, N
  <2> QED
    BY <1>1, <2>2, <2>3, <2>4
<1>9. FileBlocks(file)[N] = SubSeq(file.bytes, Cut(N - 1) + 1, Cut(N))
  BY <1>1, <1>7, FileBlocksAre
<1>10. N - 1 = p
  BY <1>4
<1>11. Chunk = FileBlocks(file)[N]
  BY <1>8, <1>9, <1>10
<1> QED
  BY <1>2, <1>7, <1>11 DEF N, p

\* At the end there have been all blocks.
LEMMA AllBlocks ==
    ASSUME Control, StreamInv, pc \in {"finalize", "stop"}
    PROVE  Len(blocks) = NumBlocks
<1> DEFINE N == Len(blocks)
<1>1. /\ file \in Files /\ Cut(N) = Size /\ Stream!TypeOK
      /\ N = 0 \/ Cut(N - 1) < Size
  BY DEF Control, StreamInv, StreamRuns, Opened
<1>2. N \in Nat
  <2>1. blocks \in Seq(Stream!Block)
    BY <1>1 DEF Stream!TypeOK
  <2> QED
    BY <2>1, LenProperties
<1>3. BufSize \in Nat /\ BufSize > 0 /\ Size \in Nat
  BY <1>1, ConstantsAssumption, FileBytes DEF Size
<1> HIDE DEF N
<1> DEFINE a == N * BufSize
           q == Size + BufSize - 1
           b == (N + 1) * BufSize
<1>4. a \in Nat /\ b = a + BufSize
  BY <1>2, <1>3, WP!NextBase
<1>5. Cut(N) = IF a < Size THEN a ELSE Size
  BY DEF Cut
<1>6. a <= q
  <2>1. CASE N = 0
    BY <1>3, <2>1
  <2>2. CASE N # 0
    <3> DEFINE p == N - 1
               c == p * BufSize
    <3>1. p \in Nat /\ N = p + 1
      BY <1>2, <2>2
    <3>2. Cut(p) < Size /\ Cut(p) = IF c < Size THEN c ELSE Size
      BY <1>1, <2>2 DEF Cut
    <3> HIDE DEF p
    <3>3. c \in Nat /\ a = c + BufSize
      BY <1>3, <3>1, WP!NextBase
    <3> HIDE DEF c, a
    <3> QED
      BY <1>3, <1>4, <3>2, <3>3
  <2> QED
    BY <2>1, <2>2
<1>7. q < b /\ q \in Nat
  <2> HIDE DEF a, b
  <2>1. a >= Size
    BY <1>1, <1>3, <1>4, <1>5
  <2> QED
    BY <1>3, <1>4, <2>1
<1>8. q \div BufSize = N
  <2>1. N * BufSize <= q /\ q < (N + 1) * BufSize
    BY <1>6, <1>7
  <2>2. BufSize \in Nat \ {0} /\ q \in Nat
    BY <1>3, <1>7
  <2> HIDE DEF q
  <2> QED
    BY <1>2, <2>1, <2>2, WindowConstants, WP!QuotientIs
<1> QED
  BY <1>8 DEF NumBlocks, N

\* No strings are counted.
LEMMA StringsSame ==
    ASSUME StringsInv,
           UNCHANGED <<numReadableStrings, sumReadableStringLengths, readableCounts,
                       totalNumReadable, interestingCounts>>,
           pc' \in Ready => pc \in Ready /\ UNCHANGED <<file, Done>>
    PROVE  StringsInv'
<1> SUFFICES ASSUME pc' \in Ready PROVE CountersOf(Found(Done))'
  BY DEF StringsInv
<1>1. Found(Done)' = Found(Done)
  BY DEF Found
<1> QED
  BY <1>1 DEF StringsInv, CountersOf

\* reset.
LEMMA StringsReset ==
    ASSUME Control, StreamInv, Reset
    PROVE  StringsInv'
<1>1. pc = "reset" /\ pc' = "start" /\ UNCHANGED <<file, stream>> /\ Text!Reset
  BY DEF Reset, Goto
<1>2. Done' = 0 /\ file \in Files
  <2>1. blocks = <<>> /\ file \in Files
    BY <1>1 DEF Control, StreamInv, StreamRuns, Opened
  <2> QED
    BY <1>1, <2>1 DEF Done, stream
<1>3. Found(Done)' = <<>>
  <2>1. 0 \in 0..NumBlocks
    BY <1>2, FileBlocksAre
  <2>2. Found(0) = <<>>
    BY <1>2, <2>1, FoundIs
  <2> QED
    BY <1>1, <1>2, <2>2 DEF Found
<1>4. CountersOf(<<>>)'
  BY <1>1, CountersNone DEF Text!Reset, CountersOf
<1> QED
  BY <1>3, <1>4 DEF StringsInv, CountersOf

\* reduce.
LEMMA StringsReduce ==
    ASSUME Control, StreamInv, StringsInv, ReduceStrings
    PROVE  StringsInv'
<1>1. pc = "window" /\ pc' = "read" /\ UNCHANGED <<file, stream>> /\ Text!Reduce(Chunk) /\ file \in Files
  BY DEF ReduceStrings, Goto, Control
<1> DEFINE N == Len(blocks)
           p == N - 1
           s == Found(p)
           t == Text!Strings(Chunk)
<1>2. p \in 0..NumBlocks /\ p < NumBlocks /\ N \in Nat /\ Chunk = FileBlocks(file)[N]
  BY <1>1, ChunkOfFile
<1>3. N = p + 1 /\ Done = p /\ Done' = N
  BY <1>1, <1>2 DEF Done, stream
<1>4. CountersOf(s)
  BY <1>1, <1>3 DEF StringsInv, Ready, Opened
<1> HIDE DEF N, p
<1>5. Found(N) = s \o t /\ s \in Seq(Seq(Byte))
  BY <1>1, <1>2, <1>3, FoundIs
<1>6. t \in Seq(Seq(Byte))
  <2>1. ChunkIsNext
    BY <1>1, ChunkIs
  <2> QED
    BY <2>1, StringsType DEF ChunkIsNext
<1> HIDE DEF s
<1>7. CountsAddUp(s, t)
  BY <1>5, <1>6, CountersConcat
<1>8. CountersOf(s \o t)'
  <2>1. /\ numReadableStrings' = numReadableStrings + Len(t)
        /\ sumReadableStringLengths' = sumReadableStringLengths + Text!TotalLength(t)
        /\ readableCounts' = [b \in Readable |-> readableCounts[b] + Text!TotalOccurrences(b, t)]
        /\ totalNumReadable' = totalNumReadable + Text!TotalLength(t)
        /\ interestingCounts' = [k \in 0..(ByteRange - 1) |-> interestingCounts[k] + Text!Matches(k, t)]
    BY <1>1 DEF Text!Reduce
  <2> HIDE DEF t
  <2>2. s' = s /\ t' = t
    BY <1>1, <1>2 DEF s, t, p, N, Found, stream, Chunk
  <2>3. ASSUME NEW b \in Readable PROVE readableCounts'[b] = Text!TotalOccurrences(b, s \o t)
    BY <1>4, <1>7, <2>1 DEF CountersOf, CountsAddUp
  <2>4. ASSUME NEW k \in 0..(ByteRange - 1) PROVE interestingCounts'[k] = Text!Matches(k, s \o t)
    BY <1>4, <1>7, <2>1 DEF CountersOf, CountsAddUp
  <2>5. /\ numReadableStrings' = Len(s \o t)
        /\ sumReadableStringLengths' = Text!TotalLength(s \o t)
        /\ totalNumReadable' = Text!TotalLength(s \o t)
    BY <1>4, <1>7, <2>1 DEF CountersOf, CountsAddUp
  <2> QED
    BY <2>2, <2>3, <2>4, <2>5 DEF CountersOf
<1>9. Found(Done)' = (s \o t)'
  <2>1. Found(Done)' = Found(N)
    BY <1>1, <1>3 DEF Found
  <2>2. s' = s /\ t' = t
    BY <1>1, <1>2 DEF s, t, p, N, Found, stream, Chunk
  <2> HIDE DEF t
  <2> QED
    BY <1>5, <2>1, <2>2
<1> QED
  BY <1>8, <1>9 DEF StringsInv, CountersOf

\* Every step.
LEMMA StringsNext ==
    ASSUME Control, StreamInv, StringsInv, Next
    PROVE  StringsInv'
<1> DEFINE same == UNCHANGED <<numReadableStrings, sumReadableStringLengths, readableCounts,
                               totalNumReadable, interestingCounts>>
<1>1. CASE \/ (\E f \in Files : Run(f)) \/ StreamSetup \/ StreamSetBlockSize \/ StreamStart
           \/ Stop \/ AbandonStart \/ AbandonReduce
  <2>1. same /\ pc' \notin Ready
    BY <1>1 DEF Run, StreamSetup, StreamSetBlockSize, StreamStart, Stop, AbandonStart, AbandonReduce,
                Goto, Ready, Opened, text
  <2> QED
    BY <2>1, StringsSame
<1>2. CASE Reset
  BY <1>2, StringsReset
<1>3. CASE ReduceStrings
  BY <1>3, StringsReduce
<1>4. CASE Start \/ WindowCopy \/ WindowSlide \/ ReduceGeneral
  <2>1. /\ same /\ UNCHANGED <<file, stream>> /\ pc \in Ready
        /\ (pc \in {"general", "window"}) <=> (pc' \in {"general", "window"})
    BY <1>4 DEF Start, WindowCopy, WindowSlide, ReduceGeneral, Goto, Ready, Opened, text
  <2>2. UNCHANGED Done
    BY <2>1 DEF Done, stream
  <2> QED
    BY <2>1, <2>2, StringsSame
<1>5. CASE Read
  <2>1. same /\ file' = file /\ pc = "read" /\ pc' \in {"finalize", "general"}
    BY <1>5 DEF Read, text
  <2>2. UNCHANGED Done
    <3>1. CASE pc' = "finalize"
      BY <1>5, <2>1, <3>1, ReadMoves DEF Done
    <3>2. CASE pc' = "general"
      BY <1>5, <2>1, <3>2, ReadMore DEF Done
    <3> QED
      BY <2>1, <3>1, <3>2
  <2> QED
    BY <2>1, <2>2, StringsSame DEF Ready, Opened
<1>6. CASE Finalize
  <2>1. same /\ UNCHANGED <<file, stream>> /\ pc = "finalize" /\ pc' = "stop"
    BY <1>6 DEF Finalize, Goto, Text!Finalize, Text!counters
  <2>2. UNCHANGED Done
    BY <2>1 DEF Done, stream
  <2> QED
    BY <2>1, <2>2, StringsSame DEF Ready, Opened
<1> QED
  BY <1>1, <1>2, <1>3, <1>4, <1>5, <1>6 DEF Next

\* What finalize writes is made of the strings of all the blocks.
LEMMA WrittenIs ==
    ASSUME Control, StreamInv, TextInv, StringsInv, pc = "finalize"
    PROVE  Text!Written
              = Text!FeaturesOf(
                    FlattenSeq([k \in DOMAIN FileBlocks(file) |-> Text!Strings(FileBlocks(file)[k])]))
<1> DEFINE ss == Found(NumBlocks)
<1>1. file \in Files /\ Len(blocks) = NumBlocks
  BY AllBlocks DEF Control
<1>2. NumBlocks \in Nat /\ DOMAIN FileBlocks(file) = 1..NumBlocks
  BY <1>1, FileBlocksAre
<1>3. ss = FlattenSeq([k \in DOMAIN FileBlocks(file) |-> Text!Strings(FileBlocks(file)[k])])
  <2>1. FirstOnes(BlockStrings(file), NumBlocks)
           = [k \in DOMAIN FileBlocks(file) |-> Text!Strings(FileBlocks(file)[k])]
    BY <1>2 DEF FirstOnes, BlockStrings
  <2> QED
    BY <2>1 DEF Found, Joined
<1>4. CountersOf(ss)
  BY <1>1 DEF StringsInv, Ready, Opened, Done
<1>5. ss \in Seq(Seq(Byte))
  BY <1>1, <1>2, FoundIs
<1> HIDE DEF ss
<1>6. TP!CountersOf(ss)
  <2>1. \A i \in DOMAIN Patterns : i - 1 \in 0..(ByteRange - 1)
    BY TextConstants, TP!ReadableFinite
  <2> QED
    BY <1>4, <2>1, SameText DEF CountersOf, TP!CountersOf
<1>7. TP!Written = TP!FeaturesOf(ss)
  BY <1>5, <1>6, TextConstants, SameSteps, TP!WrittenIsOf DEF TextInv
<1> QED
  BY <1>3, <1>7, SameText, SameSteps

-----------------------------------------------------------------------------
(* The histogram of upper halves *)

\* What is known of the numbers.
LEMMA HalfNumbers ==
    /\ HalfByte \in Nat /\ HalfByte > 0 /\ NumBins \in Nat /\ NumBins > 0
    /\ WindowSize \in Nat /\ WindowSize > 0 /\ WindowStep \in Nat /\ WindowStep > 0
    /\ WindowStep <= WindowSize
    /\ IsFiniteSet(0..(HalfByte - 1)) /\ IsFiniteSet(0..(NumBins - 1))
<1>1. HalfByte \in Nat /\ HalfByte > 0 /\ NumBins \in Nat /\ NumBins > 0
  BY ConstantsAssumption
<1>2. WindowSize \in Nat /\ WindowSize > 0 /\ WindowStep \in Nat /\ WindowStep > 0 /\ WindowStep <= WindowSize
  BY ConstantsAssumption
<1> QED
  BY <1>1, <1>2, FS_Interval

\* The upper half of a byte is a half.
LEMMA HalfRange ==
    ASSUME NEW b \in Byte
    PROVE  b \div HalfByte \in 0..(HalfByte - 1)
<1>1. b \in Nat /\ b < HalfByte * HalfByte /\ HalfByte \in Nat \ {0}
  <2>1. b \in 0..(HalfByte * HalfByte - 1) /\ HalfByte \in Nat \ {0}
    BY ConstantsAssumption
  <2>2. \A n \in Nat : n * n \in Nat
    OBVIOUS
  <2> DEFINE q == HalfByte * HalfByte
  <2>3. q \in Nat
    BY <2>1, <2>2
  <2>4. b \in 0..(q - 1)
    BY <2>1
  <2> HIDE DEF q
  <2>5. b \in Nat /\ b < q
    BY <2>3, <2>4
  <2> QED
    BY <2>1, <2>5 DEF q
<1>2. \A a \in Nat, s \in Nat \ {0} : a \div s \in Nat /\ (a \div s) * s <= a
  OBVIOUS
<1> DEFINE h == b \div HalfByte
<1>3. h \in Nat /\ h * HalfByte <= b
  BY <1>1, <1>2
<1> HIDE DEF h
<1>4. ~(HalfByte <= h)
  <2> SUFFICES ASSUME HalfByte <= h PROVE FALSE
    OBVIOUS
  <2>1. \A m, n, s \in Nat : m <= n => m * s <= n * s /\ m * s \in Nat /\ n * s \in Nat
    OBVIOUS
  <2> DEFINE x == HalfByte * HalfByte
             y == h * HalfByte
  <2>2. x <= y /\ x \in Nat /\ y \in Nat
    BY <1>1, <1>3, <2>1
  <2>3. y <= b /\ b < x
    BY <1>1, <1>3
  <2> HIDE DEF x, y
  <2> QED
    BY <1>1, <2>2, <2>3
<1>5. h \in 0..(HalfByte - 1)
  BY <1>1, <1>3, <1>4
<1> QED
  BY <1>5 DEF h

\* The places of a window whose byte has a given upper half.
WithHalf(w, n) == { i \in DOMAIN w : w[i] \div HalfByte = n }

\* The counts of a window.
LEMMA HalvesAre ==
    ASSUME NEW w \in Seq(Byte)
    PROVE  /\ \A n \in 0..(HalfByte - 1) : Halves(w)[n] = Count(WithHalf(w, n), Len(w))
           /\ Halves(w) \in [0..(HalfByte - 1) -> 0..Len(w)]
<1>1. DOMAIN w = 1..Len(w) /\ Len(w) \in Nat
  BY LenProperties
<1>2. ASSUME NEW n \in 0..(HalfByte - 1)
      PROVE  Cardinality({ i \in DOMAIN w : w[i] \div HalfByte = n }) = Count(WithHalf(w, n), Len(w))
             /\ Count(WithHalf(w, n), Len(w)) \in 0..Len(w)
  <2> DEFINE Q == WithHalf(w, n)
  <2>1. { i \in 1..Len(w) : i \in Q } = Q
    BY <1>1 DEF WithHalf
  <2>2. Count(Q, Len(w)) = Cardinality(Q)
    BY <2>1 DEF Count
  <2>3. Count(Q, Len(w)) \in 0..Len(w)
    BY <1>1, CountOneMore
  <2> QED
    BY <2>2, <2>3 DEF WithHalf
<1>3. Halves(w) = [n \in 0..(HalfByte - 1) |-> Cardinality({ i \in DOMAIN w : w[i] \div HalfByte = n })]
  BY DEF Halves
<1> QED
  BY <1>2, <1>3

\* Every byte of a window is counted once.
LEMMA HalvesTotal ==
    ASSUME NEW w \in Seq(Byte)
    PROVE  Total(Halves(w), 0..(HalfByte - 1)) = Len(w)
<1> DEFINE S == 0..(HalfByte - 1)
           n == Len(w)
           p == [i \in 1..n |-> w[i] \div HalfByte]
           c == [h \in S |-> Count(With(p, n, h), n)]
<1>1. DOMAIN w = 1..n /\ n \in Nat /\ \A i \in 1..n : w[i] \in Byte
  BY LenProperties, ElementOfSeq
<1>2. IsFiniteSet(S)
  BY HalfNumbers
<1>3. \A i \in 1..n : p[i] \in S
  BY <1>1, HalfRange
<1>4. \A h \in S : c[h] = Halves(w)[h]
  <2>1. \A h \in S : With(p, n, h) = WithHalf(w, h)
    BY <1>1 DEF With, WithHalf
  <2> QED
    BY <2>1, HalvesAre
<1> HIDE DEF S, p, n
<1>5. Total(c, S) = n
  BY <1>1, <1>2, <1>3, CountsTotal
<1> HIDE DEF c
<1>6. Total(c, S) = Total(Halves(w), S)
  BY <1>2, <1>4, TotalEqual
<1> QED
  BY <1>5, <1>6 DEF S, n

-----------------------------------------------------------------------------
(* The histogram of the windows *)

\* The windows of a row of the histogram, and the upper halves n in each window.
InRow(W, h) == { k \in DOMAIN W : Row(Halves(W[k])) = h }
HalvesAt(W, n) == [k \in DOMAIN W |-> Halves(W[k])[n]]

\* What the windows W make of a cleared histogram.
Tally(W) ==
    [rows |-> [h \in 0..(NumBins - 1) |-> [n \in 0..(HalfByte - 1) |->
                 Total(HalvesAt(W, n), InRow(W, h))]],
     sum  |-> 1]

\* A window has at most the window size of bytes.
Window == { w \in Seq(Byte) : Len(w) <= WindowSize }

\* It is counted in one of the rows.
LEMMA RowIs ==
    ASSUME NEW w \in Window
    PROVE  Row(Halves(w)) \in 0..(NumBins - 1)
<1>1. w \in Seq(Byte) /\ Len(w) \in Nat /\ Len(w) <= WindowSize
  BY LenProperties DEF Window
<1>2. Halves(w) \in [0..(HalfByte - 1) -> 0..Len(w)]
  BY <1>1, HalvesAre
<1>3. 0..Len(w) \subseteq 0..WindowSize
  BY <1>1, HalfNumbers
<1>4. Halves(w) \in [0..(HalfByte - 1) -> 0..WindowSize]
  BY <1>2, <1>3
<1> DEFINE b == EntropyBin(Halves(w))
<1>5. b \in Int
  BY <1>4, EntropyAssumption
<1>6. Row(Halves(w)) = IF b < 0 THEN 0 ELSE IF b > NumBins - 1 THEN NumBins - 1 ELSE b
  BY DEF Row
<1> HIDE DEF b
<1> QED
  BY <1>5, <1>6, HalfNumbers

\* The histogram with a window more.
LEMMA AddWindowIs ==
    ASSUME NEW H, NEW w \in Window, H.rows \in [0..(NumBins - 1) -> [0..(HalfByte - 1) -> Nat]],
           H = [rows |-> H.rows, sum |-> 1]
    PROVE  AddWindow(H, w)
              = [rows |-> [h \in 0..(NumBins - 1) |-> [n \in 0..(HalfByte - 1) |->
                             H.rows[h][n] + (IF h = Row(Halves(w)) THEN Halves(w)[n] ELSE 0)]],
                 sum  |-> 1]
<1> DEFINE S == 0..(NumBins - 1)
           T == 0..(HalfByte - 1)
           r == Row(Halves(w))
           c == Halves(w)
           R == H.rows
           row == [n \in DOMAIN R[r] |-> R[r][n] + c[n]]
           G == [h \in S |-> [n \in T |-> R[h][n] + (IF h = r THEN c[n] ELSE 0)]]
<1>1. r \in S
  BY RowIs
<1>2. w \in Seq(Byte) /\ Len(w) \in Nat
  BY LenProperties DEF Window
<1>3. c \in [T -> 0..Len(w)]
  BY <1>2, HalvesAre
<1>4. AddWindow(H, w) = [H EXCEPT !.rows = [R EXCEPT ![r] = row]]
  BY DEF AddWindow
<1>5. R \in [S -> [T -> Nat]]
  OBVIOUS
<1> HIDE DEF R, r, c, S, T
<1>6. AddWindow(H, w) = [rows |-> [R EXCEPT ![r] = row], sum |-> 1]
  BY <1>4 DEF R
<1>7. [R EXCEPT ![r] = row] = G
  <2>1. ASSUME NEW h \in S PROVE [R EXCEPT ![r] = row][h] = G[h]
    <3>1. CASE h = r
      <4>1. row = [n \in T |-> R[r][n] + c[n]]
        BY <1>1, <1>5
      <4>2. G[h] = [n \in T |-> R[r][n] + c[n]]
        BY <3>1
      <4> QED
        BY <1>1, <1>5, <3>1, <4>1, <4>2
    <3>2. CASE h # r
      <4>1. \A n \in T : R[h][n] + 0 = R[h][n]
        BY <1>5
      <4>2. R[h] = [n \in T |-> R[h][n]]
        BY <1>5
      <4>3. G[h] = [n \in T |-> R[h][n] + 0]
        BY <3>2
      <4>4. [R EXCEPT ![r] = row][h] = R[h]
        BY <1>1, <1>5, <3>2
      <4> QED
        BY <4>1, <4>2, <4>3, <4>4
    <3> QED
      BY <3>1, <3>2
  <2>2. DOMAIN [R EXCEPT ![r] = row] = S /\ DOMAIN G = S
    BY <1>5
  <2> QED
    BY <1>5, <2>1, <2>2
<1> QED
  BY <1>6, <1>7 DEF R, r, c, S, T

\* Without windows it is the cleared one.
LEMMA TallyNone == Tally(<<>>) = NoWindows
<1>1. \A n, h : Total(HalvesAt(<<>>, n), InRow(<<>>, h)) = 0
  <2>1. \A h : InRow(<<>>, h) = {}
    BY DEF InRow
  <2> QED
    BY <2>1, TotalEmpty
<1> QED
  BY <1>1 DEF Tally, NoWindows

\* Its entries are numbers.
LEMMA TallyType ==
    ASSUME NEW W \in Seq(Window)
    PROVE  /\ Tally(W).rows \in [0..(NumBins - 1) -> [0..(HalfByte - 1) -> Nat]]
           /\ Tally(W) = [rows |-> Tally(W).rows, sum |-> 1]
           /\ DOMAIN W = 1..Len(W) /\ Len(W) \in Nat
           /\ \A h : IsFiniteSet(InRow(W, h))
           /\ \A n \in 0..(HalfByte - 1) : \A k \in DOMAIN W : HalvesAt(W, n)[k] \in Nat
<1>1. DOMAIN W = 1..Len(W) /\ Len(W) \in Nat /\ \A k \in 1..Len(W) : W[k] \in Window
  BY LenProperties, ElementOfSeq
<1>2. \A h : IsFiniteSet(InRow(W, h))
  <2> SUFFICES ASSUME NEW h PROVE IsFiniteSet(InRow(W, h))
    OBVIOUS
  <2>1. IsFiniteSet(1..Len(W)) /\ InRow(W, h) \subseteq 1..Len(W)
    BY <1>1, FS_Interval DEF InRow
  <2> QED
    BY <2>1, FS_Subset
<1>3. \A n \in 0..(HalfByte - 1) : \A k \in DOMAIN W : HalvesAt(W, n)[k] \in Nat
  <2> SUFFICES ASSUME NEW n \in 0..(HalfByte - 1), NEW k \in DOMAIN W
               PROVE  HalvesAt(W, n)[k] \in Nat
    OBVIOUS
  <2>1. W[k] \in Seq(Byte) /\ Len(W[k]) \in Nat
    BY <1>1, LenProperties DEF Window
  <2>2. Halves(W[k]) \in [0..(HalfByte - 1) -> 0..Len(W[k])]
    BY <2>1, HalvesAre
  <2>3. Halves(W[k])[n] \in Nat
    BY <2>1, <2>2
  <2> QED
    BY <2>3 DEF HalvesAt
<1>4. \A h, n : n \in 0..(HalfByte - 1) => Total(HalvesAt(W, n), InRow(W, h)) \in Nat
  <2> SUFFICES ASSUME NEW h, NEW n \in 0..(HalfByte - 1)
               PROVE  Total(HalvesAt(W, n), InRow(W, h)) \in Nat
    OBVIOUS
  <2>1. \A k \in InRow(W, h) : HalvesAt(W, n)[k] \in Nat
    BY <1>3 DEF InRow
  <2> QED
    BY <1>2, <2>1, TotalNat
<1>5. Tally(W).rows \in [0..(NumBins - 1) -> [0..(HalfByte - 1) -> Nat]]
  BY <1>4 DEF Tally
<1>6. Tally(W) = [rows |-> Tally(W).rows, sum |-> 1]
  BY DEF Tally
<1> QED
  BY <1>1, <1>2, <1>3, <1>5, <1>6

\* A window more is counted in its row.
LEMMA TallyMore ==
    ASSUME NEW W \in Seq(Window), NEW w \in Window
    PROVE  Append(W, w) \in Seq(Window) /\ Tally(Append(W, w)) = AddWindow(Tally(W), w)
<1> DEFINE V == Append(W, w)
           q == Len(W) + 1
           r == Row(Halves(w))
           c == Halves(w)
<1>1. DOMAIN W = 1..Len(W) /\ Len(W) \in Nat
  BY TallyType
<1>2. V \in Seq(Window) /\ Len(V) = q /\ V[q] = w /\ \A k \in 1..Len(W) : V[k] = W[k]
  BY <1>1, AppendProperties
<1>3. DOMAIN V = 1..q /\ 1..q = 1..Len(W) \cup {q} /\ q \notin 1..Len(W) /\ q \in Nat
  BY <1>1, <1>2, LenProperties
<1>4. V \in Seq(Window) /\ w \in Seq(Byte)
  BY <1>2 DEF Window
<1> HIDE DEF V, q
<1>5. ASSUME NEW h \in 0..(NumBins - 1), NEW n \in 0..(HalfByte - 1)
      PROVE  Total(HalvesAt(V, n), InRow(V, h))
                = Total(HalvesAt(W, n), InRow(W, h)) + (IF h = r THEN c[n] ELSE 0)
  <2> DEFINE f == HalvesAt(W, n)
             g == HalvesAt(V, n)
             I == InRow(W, h)
  <2>1. IsFiniteSet(I) /\ (\A k \in DOMAIN W : f[k] \in Nat) /\ \A k \in DOMAIN V : g[k] \in Nat
    BY <1>4, TallyType
  <2>2. I \subseteq 1..Len(W) /\ q \notin I
    BY <1>1, <1>3 DEF InRow
  <2>3. \A k \in I : g[k] = f[k] /\ f[k] \in Nat /\ g[k] \in Int
    BY <1>1, <1>2, <1>3, <2>1, <2>2 DEF HalvesAt
  <2>4. g[q] = c[n] /\ g[q] \in Nat
    BY <1>2, <1>3, <2>1 DEF HalvesAt
  <2>5. InRow(V, h) = IF h = r THEN I \cup {q} ELSE I
    BY <1>1, <1>2, <1>3 DEF InRow
  <2> HIDE DEF f, g, I, r, c
  <2>6. Total(g, I) = Total(f, I)
    BY <2>1, <2>3, TotalEqual
  <2>7. Total(f, I) \in Nat
    BY <2>1, <2>3, TotalNat
  <2>8. g[q] \in Int
    BY <2>4
  <2>9. Total(g, I \cup {q}) = Total(g, I) + g[q]
    BY <2>1, <2>2, <2>3, <2>8, TotalWith
  <2>10. CASE h = r
    BY <2>4, <2>5, <2>6, <2>9, <2>10 DEF f, g, I
  <2>11. CASE h # r
    BY <2>5, <2>6, <2>7, <2>11 DEF f, g, I
  <2> QED
    BY <2>10, <2>11
<1>6. Tally(W).rows \in [0..(NumBins - 1) -> [0..(HalfByte - 1) -> Nat]]
      /\ Tally(W) = [rows |-> Tally(W).rows, sum |-> 1]
  BY TallyType
<1>7. AddWindow(Tally(W), w)
         = [rows |-> [h \in 0..(NumBins - 1) |-> [n \in 0..(HalfByte - 1) |->
                        Tally(W).rows[h][n] + (IF h = r THEN c[n] ELSE 0)]],
            sum  |-> 1]
  BY <1>6, AddWindowIs
<1>8. \A h \in 0..(NumBins - 1), n \in 0..(HalfByte - 1) :
         Tally(W).rows[h][n] = Total(HalvesAt(W, n), InRow(W, h))
  BY DEF Tally
<1> HIDE DEF r, c
<1>9. AddWindow(Tally(W), w)
         = [rows |-> [h \in 0..(NumBins - 1) |-> [n \in 0..(HalfByte - 1) |->
                        Total(HalvesAt(V, n), InRow(V, h))]],
            sum  |-> 1]
  BY <1>5, <1>7, <1>8
<1>10. AddWindow(Tally(W), w) = Tally(V)
  BY <1>9 DEF Tally
<1> QED
  BY <1>2, <1>10 DEF V

\* The cells of a histogram, and their sum.
Cells == (0..(NumBins - 1)) \X (0..(HalfByte - 1))
CellsOf(H) == [c \in Cells |-> H.rows[c[1]][c[2]]]

LEMMA SumIs ==
    ASSUME NEW H
    PROVE  Sum(H) = Total(CellsOf(H), Cells) /\ IsFiniteSet(Cells)
<1>1. DOMAIN CellsOf(H) = Cells
  BY DEF CellsOf
<1>2. Sum(H) = SumFunction(CellsOf(H))
  BY DEF Sum, CellsOf, Cells
<1>3. IsFiniteSet(Cells)
  BY HalfNumbers, FS_Product DEF Cells
<1> QED
  BY <1>1, <1>2, <1>3 DEF SumFunction, Total

\* A cleared histogram sums to zero.
LEMMA SumNone == Sum(NoWindows) = 0
<1>1. \A c \in Cells : CellsOf(NoWindows)[c] = 0
  BY DEF CellsOf, NoWindows, Cells
<1>2. IntOn(CellsOf(NoWindows), Cells) /\ \A c \in Cells \ {} : CellsOf(NoWindows)[c] = 0
  BY <1>1 DEF IntOn
<1>3. Total(CellsOf(NoWindows), Cells) = Total(CellsOf(NoWindows), {})
  BY <1>2, SumIs, TotalZeros
<1> QED
  BY <1>3, SumIs, TotalEmpty

\* Each window adds its length to the sum.
LEMMA SumMore ==
    ASSUME NEW H, NEW w \in Window, H.rows \in [0..(NumBins - 1) -> [0..(HalfByte - 1) -> Nat]],
           H = [rows |-> H.rows, sum |-> 1]
    PROVE  Sum(AddWindow(H, w)) = Sum(H) + Len(w)
<1> DEFINE T == 0..(HalfByte - 1)
           r == Row(Halves(w))
           g == Halves(w)
           e == [n \in T |-> <<r, n>>]
           R == { e[n] : n \in T }
           f == CellsOf(H)
           h == CellsOf(AddWindow(H, w))
           d == [c \in Cells |-> IF c[1] = r THEN g[c[2]] ELSE 0]
<1>1. r \in 0..(NumBins - 1)
  BY RowIs
<1>2. w \in Seq(Byte) /\ Len(w) \in Nat
  BY LenProperties DEF Window
<1>3. g \in [T -> 0..Len(w)]
  BY <1>2, HalvesAre
<1>4. IsFiniteSet(Cells) /\ IsFiniteSet(T)
  BY SumIs, HalfNumbers
<1>5. \A c \in Cells : c[1] \in 0..(NumBins - 1) /\ c[2] \in T /\ c = <<c[1], c[2]>>
  BY DEF Cells
<1>6. \A c \in Cells : f[c] = H.rows[c[1]][c[2]] /\ f[c] \in Int
  <2> SUFFICES ASSUME NEW c \in Cells PROVE f[c] = H.rows[c[1]][c[2]] /\ f[c] \in Int
    OBVIOUS
  <2>1. H.rows[c[1]] \in [T -> Nat]
    BY <1>5
  <2>2. H.rows[c[1]][c[2]] \in Nat
    BY <1>5, <2>1
  <2> QED
    BY <2>2 DEF CellsOf
<1>7. \A c \in Cells : h[c] = H.rows[c[1]][c[2]] + (IF c[1] = r THEN g[c[2]] ELSE 0)
  <2> SUFFICES ASSUME NEW c \in Cells
               PROVE  h[c] = H.rows[c[1]][c[2]] + (IF c[1] = r THEN g[c[2]] ELSE 0)
    OBVIOUS
  <2> DEFINE p == c[1]
             q == c[2]
             G == [x \in 0..(NumBins - 1) |-> [n \in T |->
                     H.rows[x][n] + (IF x = r THEN g[n] ELSE 0)]]
  <2>1. h[c] = AddWindow(H, w).rows[p][q]
    BY DEF CellsOf
  <2>2. AddWindow(H, w).rows = G
    <3> HIDE DEF G
    <3>1. AddWindow(H, w) = [rows |-> G, sum |-> 1]
      BY AddWindowIs, Zenon DEF G
    <3> QED
      BY <3>1
  <2>3. p \in 0..(NumBins - 1) /\ q \in T
    BY <1>5
  <2> HIDE DEF p, q
  <2>4. G[p][q] = H.rows[p][q] + (IF p = r THEN g[q] ELSE 0)
    BY <2>3
  <2> QED
    BY <2>1, <2>2, <2>4 DEF p, q
<1>8. \A n \in T : g[n] \in Nat
  BY <1>2, <1>3
<1>9. \A c \in Cells : d[c] = (IF c[1] = r THEN g[c[2]] ELSE 0) /\ d[c] \in Int
  BY <1>5, <1>8
<1>10. R \in SUBSET Cells
  BY <1>1 DEF Cells
<1>11. \A c \in Cells \ R : d[c] = 0
  <2> SUFFICES ASSUME NEW c \in Cells, c \notin R PROVE c[1] # r
    BY <1>9
  <2>1. c[1] = r => c = e[c[2]]
    BY <1>5
  <2> QED
    BY <1>5, <2>1
<1>12. Renames(e, T, R, d, g)
  <2>1. \A x, y \in T : x # y => e[x] # e[y]
    OBVIOUS
  <2>2. \A n \in T : e[n] \in Cells /\ e[n][1] = r /\ e[n][2] = n
    BY <1>1 DEF Cells
  <2>3. \A n \in T : d[e[n]] = g[n]
    BY <1>9, <2>2
  <2> HIDE DEF e, d, g
  <2> QED
    BY <2>1, <2>3 DEF Renames
<1> HIDE DEF r, g, e, R, f, h, d
<1>13. IntOn(f, Cells) /\ IntOn(d, Cells) /\ IntOn(g, T) /\ SumsOn(h, f, d, Cells)
  BY <1>6, <1>7, <1>8, <1>9 DEF IntOn, SumsOn
<1>14. Total(h, Cells) = Total(f, Cells) + Total(d, Cells)
  BY <1>4, <1>13, TotalOfSums
<1>15. Total(d, Cells) = Total(d, R)
  BY <1>4, <1>10, <1>11, <1>13, TotalZeros
<1>16. IsFiniteSet(R)
  BY <1>4, <1>10, FS_Subset
<1> HIDE DEF T
<1>17. Total(d, R) = Total(g, T)
  BY <1>4, <1>12, <1>13, <1>16, TotalRenamed
<1>18. Total(g, T) = Len(w)
  BY <1>2, HalvesTotal DEF g, T
<1>19. Total(h, Cells) = Total(f, Cells) + Len(w)
  BY <1>14, <1>15, <1>17, <1>18
<1> QED
  BY <1>19, SumIs DEF f, h

-----------------------------------------------------------------------------
(* The windows of a file *)

Lengths == [s \in Seq(Byte) |-> Len(s)]

\* The histogram is what the windows reported so far make of it; it is not known to
\* be of any file before start has cleared it.
HistogramInv ==
    pc \in Sliding =>
        /\ windows \in Seq(Window)
        /\ output["byteentropy"] = Tally(windows)
        /\ Sum(output["byteentropy"]) = SumOver(Lengths, windows)
        /\ windowCalled <=> windows # <<>>

\* The windows the histogram is made of in the end: those reported, and the block
\* finalize adds if it is full, or if it is all there is.
Reported == IF Len(block) = windowSize \/ ~windowCalled THEN Append(windows, block) ELSE windows

\* The block is a window.
LEMMA BlockIsWindow ==
    ASSUME WindowInv
    PROVE  block \in Window
BY DEF WindowInv, WP!Inv, WP!TypeOK, Window

\* Windows have lengths.
LEMMA LengthsType == Lengths \in [Seq(Byte) -> Nat]
<1>1. \A s \in Seq(Byte) : Len(s) \in Nat
  BY LenProperties
<1> QED
  BY <1>1 DEF Lengths

\* The sum over windows, and one more.
LEMMA LengthsMore ==
    ASSUME NEW W \in Seq(Window), NEW w \in Window
    PROVE  SumOver(Lengths, Append(W, w)) = SumOver(Lengths, W) + Len(w)
<1>1. w \in Seq(Byte) /\ Window \subseteq Seq(Byte)
  BY DEF Window
<1>2. W \in Seq(Seq(Byte)) /\ <<w>> \in Seq(Seq(Byte))
  BY <1>1
<1>3. Append(W, w) = W \o <<w>>
  BY <1>2
<1>4. SumOver(Lengths, W \o <<w>>) = SumOver(Lengths, W) + SumOver(Lengths, <<w>>)
  BY <1>2, LengthsType, SumOverConcat
<1> DEFINE f == Values(Lengths, <<w>>)
<1>5. DOMAIN <<w>> = {1} /\ f[1] = Len(w)
  BY <1>1 DEF Values, Lengths
<1>6. Len(w) \in Nat /\ IsFiniteSet({1})
  BY <1>1, LenProperties, FS_Singleton
<1> HIDE DEF f
<1>7. IntOn(f, {1}) /\ 1 \in {1} /\ \A x \in {1} \ {1} : f[x] = 0
  BY <1>5, <1>6 DEF IntOn
<1>8. Total(f, {1}) = f[1]
  BY <1>6, <1>7, TotalOne
<1> QED
  BY <1>3, <1>4, <1>5, <1>8 DEF SumOver, f

\* A window of the extractor is a member of the histogram's windows; counting it keeps both up.
LEMMA TallySum ==
    ASSUME NEW W \in Seq(Window), NEW w \in Window, Sum(Tally(W)) = SumOver(Lengths, W)
    PROVE  Sum(Tally(Append(W, w))) = SumOver(Lengths, Append(W, w))
BY TallyMore, TallyType, SumMore, LengthsMore

\* The output vector has its regions throughout.
OnRegions == output = [r \in Regions |-> output[r]]

LEMMA RegionsNext ==
    ASSUME OnRegions, Next
    PROVE  OnRegions'
<1>1. CASE Start \/ AbandonStart
  BY <1>1 DEF Start, AbandonStart, StartFirst, OnRegions
<1>2. CASE WindowSlide
  BY <1>2 DEF WindowSlide, OnRegions
<1>3. CASE Finalize
  BY <1>3 DEF Finalize, OnRegions
<1>4. CASE UNCHANGED output
  BY <1>4 DEF OnRegions
<1> QED
  BY <1>1, <1>2, <1>3, <1>4 DEF Next, Run, StreamSetup, StreamSetBlockSize, StreamStart, Reset, Read,
     ReduceGeneral, WindowCopy, ReduceStrings, Stop, AbandonReduce

LEMMA RegionsOfBytes ==
    /\ "general" \in Regions /\ "byteentropy" \in Regions /\ "strings" \in Regions
    /\ SubSeq(FeatureTypes, 1, Len(FeatureTypes)) = FeatureTypes
<1>1. FeatureTypes \in Seq({"general", "byteentropy", "strings", "header", "section", "imports",
         "exports", "datadirectories", "richheader", "authenticode", "pefilewarnings"})
  BY DEF FeatureTypes
<1>2. SubSeq(FeatureTypes, 1, Len(FeatureTypes)) = FeatureTypes
  <2> HIDE DEF FeatureTypes
  <2>1. Len(FeatureTypes) \in Nat
    BY <1>1, LenProperties
  <2>2. Len(FeatureTypes) \in 0..Len(FeatureTypes)
    BY <2>1
  <2> QED
    BY <1>1, <2>2, PrefixType
<1>3. 1 \in DOMAIN FeatureTypes /\ 2 \in DOMAIN FeatureTypes /\ 3 \in DOMAIN FeatureTypes
      /\ FeatureTypes[1] = "general" /\ FeatureTypes[2] = "byteentropy" /\ FeatureTypes[3] = "strings"
  BY DEF FeatureTypes
<1> QED
  BY <1>2, <1>3 DEF Regions, ToSet

\* Every step.
LEMMA HistogramNext ==
    ASSUME OnRegions, WindowInv, HistogramInv, Next
    PROVE  HistogramInv'
<1> SUFFICES ASSUME pc' \in Sliding
             PROVE  /\ windows' \in Seq(Window)
                    /\ output["byteentropy"]' = Tally(windows')
                    /\ Sum(output["byteentropy"]') = SumOver(Lengths, windows')
                    /\ windowCalled' <=> windows' # <<>>
  BY DEF HistogramInv, Sum, Tally, InRow, HalvesAt, Row, Halves, Total, SumOver, Values, Lengths, Window
<1>1. CASE Start
  <2>1. output["byteentropy"]' = NoWindows /\ windows' = <<>> /\ windowCalled' = FALSE
    <3>1. "byteentropy" \in ToSet(SubSeq(FeatureTypes, 1, Len(FeatureTypes))) /\ "byteentropy" \in Regions
      BY RegionsOfBytes DEF Regions
    <3> QED
      BY <1>1, <3>1 DEF Start, StartFirst, Started, SlidingWindow!Start
  <2>2. SumOver(Lengths, <<>>) = 0
    <3>1. <<>> \in Seq(Seq(Byte))
      OBVIOUS
    <3> QED
      BY <3>1, LengthsType, SumOverType
  <2> QED
    BY <2>1, <2>2, TallyNone, SumNone
<1>2. CASE Read \/ ReduceGeneral \/ WindowCopy \/ ReduceStrings
  <2>1. UNCHANGED <<output, windows, windowCalled>> /\ pc \in Sliding
    BY <1>2 DEF Read, ReduceGeneral, WindowCopy, ReduceStrings, window, Goto, Sliding,
       SlidingWindow!Reduce, SlidingWindow!Copy
  <2> QED
    BY <2>1 DEF HistogramInv
<1>3. CASE WindowSlide
  <2>1. /\ windows' = Append(windows, block) /\ windowCalled' = TRUE /\ pc \in Sliding
        /\ output' = [output EXCEPT !["byteentropy"] = AddWindow(@, block)]
    BY <1>3 DEF WindowSlide, SlidingWindow!Slide, Sliding
  <2>2. output'["byteentropy"] = AddWindow(output["byteentropy"], block)
    BY <2>1, RegionsOfBytes DEF OnRegions
  <2>3. windows \in Seq(Window) /\ output["byteentropy"] = Tally(windows)
        /\ Sum(Tally(windows)) = SumOver(Lengths, windows)
    BY <2>1 DEF HistogramInv
  <2>4. windows' \in Seq(Window) /\ output'["byteentropy"] = Tally(windows')
    BY <2>1, <2>2, <2>3, BlockIsWindow, TallyMore
  <2>5. Sum(Tally(windows')) = SumOver(Lengths, windows')
    BY <2>1, <2>3, BlockIsWindow, TallySum
  <2>6. windows' # <<>>
    <3>1. Len(windows') = Len(windows) + 1 /\ Len(windows) \in Nat
      BY <2>1, <2>3, BlockIsWindow, AppendProperties, LenProperties
    <3> QED
      BY <3>1
  <2> QED
    BY <2>1, <2>4, <2>5, <2>6
<1> QED
  BY <1>1, <1>2, <1>3 DEF Next, Run, StreamSetup, StreamSetBlockSize, StreamStart, Reset, Finalize,
     Stop, AbandonStart, AbandonReduce, Goto, Sliding

\* finalize: every window has been reported, or the block is all of the file.
LEMMA ReportedIs ==
    ASSUME Control, StreamInv, WindowInv, HistogramInv, Finalize
    PROVE  Reported \in Seq(Window) /\ Reported = Windows(file)
<1>1. /\ pc = "finalize" /\ file \in Files /\ windowSize = WindowSize /\ step = WindowStep
      /\ WP!Inv /\ fed = Prefix(Seen) /\ phase = "started" /\ windows \in Seq(Window)
      /\ windowCalled <=> windows # <<>>
      /\ SlidingWindow!Finalize
  BY DEF Finalize, Goto, Control, WindowInv, HistogramInv, Ready, Opened, Sliding
<1>2. Seen = Size /\ Size \in Nat /\ file.bytes \in Seq(Byte)
  BY <1>1, FileBytes DEF StreamInv, StreamRuns, Opened, Seen, Size
<1>3. fed = file.bytes
  BY <1>1, <1>2, PrefixType DEF Prefix, Size
<1>4. WP!Finalize
  BY <1>1 DEF SlidingWindow!Finalize, SlidingWindow!config, WP!Finalize, WP!config
<1>5. WP!Inv' /\ phase' = "final"
      /\ windows' = (IF Len(block) = WindowSize THEN Append(windows, block) ELSE windows)
      /\ UNCHANGED <<block, windowSize, step, fed>>
  BY <1>1, <1>4, WindowConstants, WP!FinalizeInv DEF WP!Finalize, WP!config
<1>6. block \in Window
  BY BlockIsWindow
<1>7. windows' \in Seq(Window) /\ Len(windows') \in Nat
  BY <1>1, <1>5, <1>6, AppendProperties, LenProperties
<1>8. Len(windows') = IF Size < WindowSize THEN 0 ELSE (Size - WindowSize) \div WindowStep + 1
  <2>1. WP!AllWindowsAtTheEnd'
    BY <1>5, WP!AllWindowsCounted, WindowConstants, PTL
  <2> QED
    BY <1>1, <1>3, <1>5, <2>1 DEF WP!AllWindowsAtTheEnd, Size
<1>9. CASE Size < WindowSize
  <2>1. windows' = <<>>
    BY <1>7, <1>8, <1>9, EmptySeq
  <2>2. windows = <<>> /\ Len(block) # WindowSize
    <3>1. Len(Append(windows, block)) = Len(windows) + 1 /\ Len(windows) \in Nat
      BY <1>1, <1>6, AppendProperties, LenProperties
    <3> QED
      BY <1>5, <2>1, <3>1
  <2>3. block = file.bytes
    BY <1>3, <1>5, <2>1 DEF WP!Inv, WP!NoMoreWindows
  <2>4. Reported = <<file.bytes>>
    BY <1>1, <2>2, <2>3 DEF Reported
  <2>5. <<file.bytes>> \in Seq(Window)
    BY <1>6, <2>3
  <2> QED
    BY <1>9, <2>4, <2>5 DEF Windows, Size
<1>10. CASE ~(Size < WindowSize)
  <2> DEFINE q == (Size - WindowSize) \div WindowStep
  <2>1. WindowStep \in Nat \ {0} /\ WindowSize \in Nat /\ Size - WindowSize \in Nat
    BY <1>2, <1>10, HalfNumbers
  <2>2. q \in Nat
    BY <2>1
  <2>3. Len(windows') = q + 1
    BY <1>8, <1>10
  <2> HIDE DEF q
  <2>4. windows' # <<>>
    BY <2>2, <2>3
  <2>5. Reported = windows'
    BY <1>1, <1>5, <2>4 DEF Reported
  <2>6. \A k \in 1..(q + 1) : windows'[k]
           = SubSeq(file.bytes, (k - 1) * WindowStep + 1, (k - 1) * WindowStep + WindowSize)
    <3> SUFFICES ASSUME NEW k \in 1..(q + 1)
                 PROVE  windows'[k] = SubSeq(file.bytes, (k - 1) * WindowStep + 1,
                                             (k - 1) * WindowStep + WindowSize)
      OBVIOUS
    <3> DEFINE o == (k - 1) * WindowStep
               b == windows'[k]
    <3>1. k \in 1..Len(windows')
      BY <2>3
    <3>2. b \in Seq(Byte)
      BY <1>7, <3>1, ElementOfSeq DEF Window
    <3>3. WP!WindowsSoFar'
      BY <1>5 DEF WP!Inv
    <3>4. Len(b) = WindowSize /\ o + WindowSize <= Len(file.bytes) /\ WP!IsSlice(b, file.bytes, o)
      BY <1>1, <1>3, <1>5, <3>1, <3>3 DEF WP!WindowsSoFar, WP!IsSlice
    <3>5. o \in Nat
      <4> DEFINE i == k - 1
      <4>1. i \in Nat /\ WindowStep \in Nat
        BY <2>1, <2>2
      <4> HIDE DEF i
      <4>2. i * WindowStep \in Nat
        BY <4>1, WP!NextBase
      <4> QED
        BY <4>2 DEF i
    <3> HIDE DEF o, b
    <3>6. SubSeq(file.bytes, o + 1, o + Len(b)) = b
      <4> DEFINE d == file.bytes
      <4>1. d \in Seq(Byte) /\ WP!IsSlice(b, d, o) /\ o + Len(b) <= Len(d)
        BY <1>2, <3>4
      <4> HIDE DEF d
      <4>2. SubSeq(d, o + 1, o + Len(b)) = b
        BY <3>2, <3>5, <4>1, ConstantsAssumption, WP!SliceIsSubSeq
      <4> QED
        BY <4>2 DEF d
    <3>7. b = SubSeq(file.bytes, o + 1, o + WindowSize)
      BY <3>4, <3>6
    <3> QED
      BY <3>7 DEF o, b
  <2>7. windows' = [k \in 1..(q + 1) |->
           SubSeq(file.bytes, (k - 1) * WindowStep + 1, (k - 1) * WindowStep + WindowSize)]
    <3>1. windows' = [k \in 1..(q + 1) |-> windows'[k]]
      BY <1>7, <2>3
    <3> QED
      BY <2>6, <3>1
  <2>8. windows' = Windows(file)
    BY <1>10, <2>7 DEF Windows, Size, q
  <2> QED
    BY <1>7, <2>5, <2>8
<1> QED
  BY <1>9, <1>10

\* The histogram finalize takes is that of all windows.
LEMMA LastBinsAre ==
    ASSUME Control, StreamInv, WindowInv, HistogramInv, Finalize
    PROVE  /\ LastBins = Tally(Windows(file))
           /\ Sum(LastBins) = SumOver(Lengths, Windows(file))
           /\ Windows(file) \in Seq(Window)
<1>1. Reported \in Seq(Window) /\ Reported = Windows(file)
  BY ReportedIs
<1>2. windows \in Seq(Window) /\ output["byteentropy"] = Tally(windows)
      /\ Sum(Tally(windows)) = SumOver(Lengths, windows)
  BY DEF HistogramInv, Finalize, Goto, Sliding
<1>3. block \in Window
  BY BlockIsWindow
<1>4. CASE Len(block) = windowSize \/ ~windowCalled
  <2>1. Reported = Append(windows, block) /\ LastBins = AddWindow(Tally(windows), block)
    BY <1>2, <1>4 DEF Reported, LastBins
  <2>2. LastBins = Tally(Reported)
    BY <1>2, <1>3, <2>1, TallyMore
  <2>3. Sum(Tally(Reported)) = SumOver(Lengths, Reported)
    BY <1>2, <1>3, <2>1, TallySum
  <2> QED
    BY <1>1, <2>2, <2>3
<1>5. CASE ~(Len(block) = windowSize \/ ~windowCalled)
  BY <1>1, <1>2, <1>5 DEF Reported, LastBins
<1> QED
  BY <1>4, <1>5

\* The bytes in the windows of a file, none only if it has none.
LEMMA LengthsOfWindows ==
    ASSUME NEW f \in Files, Windows(f) \in Seq(Window)
    PROVE  SumOver(Lengths, Windows(f)) = 0 <=> f.bytes = <<>>
<1> DEFINE W == Windows(f)
           n == Len(f.bytes)
           v == Values(Lengths, W)
<1>1. f.bytes \in Seq(Byte) /\ n \in Nat /\ (n = 0 <=> f.bytes = <<>>)
  BY FileBytes, EmptySeq
<1>2. DOMAIN W = 1..Len(W) /\ Len(W) \in Nat /\ \A k \in 1..Len(W) : W[k] \in Seq(Byte)
  <2>1. DOMAIN W = 1..Len(W) /\ Len(W) \in Nat /\ \A k \in 1..Len(W) : W[k] \in Window
    BY LenProperties, ElementOfSeq
  <2> QED
    BY <2>1 DEF Window
<1>3. \A k \in DOMAIN W : v[k] = Len(W[k]) /\ v[k] \in Nat
  <2>1. \A k \in DOMAIN W : v[k] = Lengths[W[k]]
    BY DEF Values
  <2>2. \A w \in Seq(Byte) : Lengths[w] = Len(w) /\ Len(w) \in Nat
    BY LenProperties DEF Lengths
  <2> HIDE DEF v, W
  <2> QED
    BY <1>2, <2>1, <2>2
<1>4. SumOver(Lengths, W) = Total(v, DOMAIN W) /\ IsFiniteSet(DOMAIN W)
  BY <1>2, FS_Interval DEF SumOver
<1>5. CASE n < WindowSize
  <2>1. W = <<f.bytes>>
    BY <1>5 DEF Windows
  <2>2. DOMAIN W = {1} /\ W[1] = f.bytes
    BY <2>1
  <2>3. v[1] = n /\ 1 \in DOMAIN W /\ \A x \in DOMAIN W \ {1} : v[x] = 0
    BY <1>3, <2>2
  <2> HIDE DEF v, W
  <2>4. IntOn(v, DOMAIN W)
    BY <1>3 DEF IntOn
  <2>5. Total(v, DOMAIN W) = v[1]
    BY <1>4, <2>3, <2>4, TotalOne
  <2> QED
    BY <1>1, <1>4, <2>3, <2>5 DEF W
<1>6. CASE ~(n < WindowSize)
  <2> DEFINE q == (n - WindowSize) \div WindowStep
  <2>1. WindowSize \in Nat /\ WindowSize > 0 /\ WindowStep \in Nat \ {0} /\ n - WindowSize \in Nat
    BY <1>1, <1>6, HalfNumbers
  <2>2. q \in Nat /\ 1 \in 1..(q + 1)
    <3>1. \A a \in Nat, s \in Nat \ {0} : a \div s \in Nat
      OBVIOUS
    <3>2. q \in Nat
      BY <2>1, <3>1
    <3> HIDE DEF q
    <3> QED
      BY <3>2
  <2>3. W[1] = SubSeq(f.bytes, (1 - 1) * WindowStep + 1, (1 - 1) * WindowStep + WindowSize)
        /\ 1 \in DOMAIN W
    BY <1>6, <2>2 DEF Windows
  <2>4. (1 - 1) * WindowStep = 0 /\ 0 + 1 = 1 /\ 0 + WindowSize = WindowSize
    BY <2>1
  <2>5. W[1] = SubSeq(f.bytes, 1, WindowSize)
    BY <2>3, <2>4, Zenon
  <2>6. Len(SubSeq(f.bytes, 1, WindowSize)) = WindowSize
    BY <1>1, <1>6, <2>1, PrefixType
  <2>7. v[1] = WindowSize
    BY <1>3, <2>3, <2>5, <2>6
  <2> HIDE DEF v, W
  <2>8. Total(v, DOMAIN W) \in Nat /\ v[1] <= Total(v, DOMAIN W)
    BY <1>3, <1>4, <2>3, TotalNat
  <2>9. Total(v, DOMAIN W) # 0
    BY <2>1, <2>7, <2>8
  <2>10. n # 0
    BY <1>1, <1>6, <2>1
  <2> QED
    BY <1>1, <1>4, <2>9, <2>10 DEF W
<1> QED
  BY <1>5, <1>6

\* What Histogram is, with the sums as above.
LEMMA HistogramIs ==
    ASSUME NEW f \in Files, Windows(f) \in Seq(Window)
    PROVE  Histogram(f) = [rows |-> Tally(Windows(f)).rows,
                           sum  |-> IF f.bytes = <<>> THEN 1 ELSE SumOver(Lengths, Windows(f))]
<1> DEFINE W == Windows(f)
           g == [k \in DOMAIN W |-> Len(W[k])]
<1>1. SumFunction(g) = SumOver(Lengths, W)
  <2>1. \A k \in DOMAIN W : W[k] \in Seq(Byte)
    <3>1. \A k \in DOMAIN W : W[k] \in Window
      BY LenProperties, ElementOfSeq
    <3> QED
      BY <3>1 DEF Window
  <2>2. g = Values(Lengths, W)
    BY <2>1 DEF Values, Lengths
  <2>3. DOMAIN g = DOMAIN W
    OBVIOUS
  <2> HIDE DEF g, W
  <2> QED
    BY <2>2, <2>3 DEF SumOver, SumFunction, Total
<1>2. Tally(W).rows = [h \in 0..(NumBins - 1) |-> [n \in 0..(HalfByte - 1) |->
                         SumFunctionOnSet([k \in DOMAIN W |-> Halves(W[k])[n]],
                                          { k \in DOMAIN W : Row(Halves(W[k])) = h })]]
  BY DEF Tally, Total, HalvesAt, InRow
<1>3. Histogram(f) = [rows |-> Tally(W).rows,
                      sum  |-> IF f.bytes = <<>> THEN 1 ELSE SumFunction(g)]
  BY <1>2, Zenon DEF Histogram
<1> QED
  BY <1>1, <1>3

\* What finalize writes as the histogram.
LEMMA NormalizedIs ==
    ASSUME Control, StreamInv, WindowInv, HistogramInv, Finalize
    PROVE  Normalized(LastBins) = Histogram(file)
<1>1. file \in Files
  BY DEF Control, Finalize, Goto
<1>2. LastBins = Tally(Windows(file)) /\ Sum(LastBins) = SumOver(Lengths, Windows(file))
      /\ Windows(file) \in Seq(Window)
  BY LastBinsAre
<1> DEFINE H == LastBins
           s == SumOver(Lengths, Windows(file))
<1>3. H = [rows |-> H.rows, sum |-> 1]
  BY <1>2, TallyType
<1>4. s = 0 <=> file.bytes = <<>>
  BY <1>1, <1>2, LengthsOfWindows
<1>5. Histogram(file) = [rows |-> H.rows, sum |-> IF file.bytes = <<>> THEN 1 ELSE s]
  BY <1>1, <1>2, HistogramIs
<1>6. Normalized(H) = [H EXCEPT !.sum = IF s = 0 THEN 1 ELSE s]
  BY <1>2 DEF Normalized
<1> HIDE DEF H, s
<1>7. Normalized(H) = [rows |-> H.rows, sum |-> IF s = 0 THEN 1 ELSE s]
  BY <1>3, <1>6
<1> QED
  BY <1>4, <1>5, <1>7 DEF H

-----------------------------------------------------------------------------
(* The output vector *)

\* The regions of the feature types that do not look at the bytes.
OtherRegions == Regions \ {"general", "byteentropy", "strings"}

\* From start on they are those of the file.  After finalize the whole vector is, and
\* the caller's vector is that of the file it was returned for.
OutputInv ==
    /\ pc \in Sliding => \A r \in OtherRegions : output[r] = Features(file)[r]
    /\ pc = "stop" => output = Features(file)
    /\ returned # NULL => output = Features(returned)

\* The features of a file, region by region.
LEMMA FeaturesAre ==
    ASSUME NEW f
    PROVE  /\ Features(f) = [r \in Regions |-> Features(f)[r]]
           /\ Features(f)["general"]
                 = [size |-> Len(f.bytes),
                    counts |-> [b \in Byte |->
                        IF f.bytes = <<>> THEN NaN
                        ELSE Cardinality({ i \in 1..Len(f.bytes) : f.bytes[i] = b })],
                    first |-> [i \in 0..(NumFirstBytes - 1) |->
                                 IF i < Len(f.bytes) THEN f.bytes[i + 1] ELSE 0],
                    isPE |-> f.isPE]
           /\ Features(f)["byteentropy"] = Histogram(f)
           /\ Features(f)["strings"]
                 = Text!FeaturesOf(
                       FlattenSeq([k \in DOMAIN FileBlocks(f) |-> Text!Strings(FileBlocks(f)[k])]))
           /\ \A r \in OtherRegions :
                 Features(f)[r] = IF r \in PERegions /\ HasRegion(f, r) THEN <<r, f>> ELSE Zero
<1>1. Features(f) = [r \in Regions |-> Features(f)[r]]
  BY DEF Features
<1>2. ASSUME NEW r \in OtherRegions
      PROVE  Features(f)[r] = IF r \in PERegions /\ HasRegion(f, r) THEN <<r, f>> ELSE Zero
  <2>1. r \in Regions /\ r # "general" /\ r # "byteentropy" /\ r # "strings"
    BY DEF OtherRegions
  <2> QED
    BY <2>1 DEF Features
<1> DEFINE G == [size |-> Len(f.bytes),
                 counts |-> [b \in Byte |->
                     IF f.bytes = <<>> THEN NaN
                     ELSE Cardinality({ i \in 1..Len(f.bytes) : f.bytes[i] = b })],
                 first |-> [i \in 0..(NumFirstBytes - 1) |->
                              IF i < Len(f.bytes) THEN f.bytes[i + 1] ELSE 0],
                 isPE |-> f.isPE]
           T == Text!FeaturesOf(
                    FlattenSeq([k \in DOMAIN FileBlocks(f) |-> Text!Strings(FileBlocks(f)[k])]))
<1>3. Features(f) = [r \in Regions |->
                       CASE r = "general" -> G
                         [] r = "byteentropy" -> Histogram(f)
                         [] r = "strings" -> T
                         [] r \in PERegions /\ HasRegion(f, r) -> <<r, f>>
                         [] OTHER -> Zero]
  BY Zenon DEF Features
<1> HIDE DEF G, T
<1>4. "general" \in Regions /\ "byteentropy" \in Regions /\ "strings" \in Regions
      /\ "general" \notin PERegions /\ "byteentropy" \notin PERegions /\ "strings" \notin PERegions
  BY RegionsOfBytes DEF PERegions, FeatureTypes, ToSet
<1>5. Features(f)["general"] = G /\ Features(f)["byteentropy"] = Histogram(f)
      /\ Features(f)["strings"] = T
  BY <1>3, <1>4
<1> QED
  BY <1>1, <1>2, <1>5 DEF G, T

\* What finalize writes of the file as a whole.
LEMMA GeneralIs ==
    ASSUME Control, StreamInv, GeneralInv, pc = "finalize"
    PROVE  GeneralValue = Features(file)["general"]
<1>1. /\ file \in Files /\ peFile = file /\ Seen = Size /\ Counted /\ Caught
  BY DEF Control, StreamInv, StreamRuns, Opened, Seen, GeneralInv, Ready
<1>2. Size = Len(file.bytes) /\ Size \in Nat /\ (Size = 0 <=> file.bytes = <<>>)
  BY <1>1, FileBytes, EmptySeq DEF Size
<1>3. totalNumBytes = Size
  BY <1>1 DEF Counted
<1>4. \A b \in Byte : byteCounts[b] = Cardinality({ i \in 1..Len(file.bytes) : file.bytes[i] = b })
  <2> SUFFICES ASSUME NEW b \in Byte
               PROVE  byteCounts[b] = Cardinality({ i \in 1..Len(file.bytes) : file.bytes[i] = b })
    OBVIOUS
  <2>1. { k \in 1..Size : k \in PlacesOf(b) } = { i \in 1..Len(file.bytes) : file.bytes[i] = b }
    BY <1>2 DEF PlacesOf
  <2>2. byteCounts[b] = Cardinality({ k \in 1..Size : k \in PlacesOf(b) })
    BY <1>1 DEF Counted, Count
  <2> QED
    BY <2>1, <2>2
<1>5. firstBytes = [i \in 0..(NumFirstBytes - 1) |->
                      IF i < Len(file.bytes) THEN file.bytes[i + 1] ELSE 0]
  <2>1. firstBytes \in [0..(NumFirstBytes - 1) -> Byte]
        /\ \A i \in 0..(NumFirstBytes - 1) :
              firstBytes[i] = IF i < Len(file.bytes) THEN file.bytes[i + 1] ELSE 0
    BY <1>1, <1>2 DEF Caught
  <2> QED
    BY <2>1
<1>6. [b \in Byte |-> IF totalNumBytes = 0 THEN NaN ELSE byteCounts[b]]
         = [b \in Byte |-> IF file.bytes = <<>> THEN NaN
                           ELSE Cardinality({ i \in 1..Len(file.bytes) : file.bytes[i] = b })]
  BY <1>2, <1>3, <1>4
<1> DEFINE F == [i \in 0..(NumFirstBytes - 1) |->
                   IF i < Len(file.bytes) THEN file.bytes[i + 1] ELSE 0]
           C == [b \in Byte |-> IF file.bytes = <<>> THEN NaN
                               ELSE Cardinality({ i \in 1..Len(file.bytes) : file.bytes[i] = b })]
<1>7. Features(file)["general"] = [size |-> Len(file.bytes), counts |-> C, first |-> F,
                                   isPE |-> file.isPE]
  BY FeaturesAre, Zenon
<1>8. GeneralValue = [size |-> totalNumBytes, first |-> firstBytes, isPE |-> peFile.isPE,
                      counts |-> C]
  BY <1>6 DEF GeneralValue
<1>9. firstBytes = F
  BY <1>5
<1> HIDE DEF F, C
<1> QED
  BY <1>1, <1>2, <1>3, <1>7, <1>8, <1>9

\* start clears the regions of the feature types that do not look at the bytes, or
\* fills them in.
LEMMA OutputStarted ==
    ASSUME Control, Start
    PROVE  OutputInv'
<1>1. /\ pc = "start" /\ pc' = "read" /\ file' = file /\ peFile = file /\ returned' = NULL
      /\ file \in Files /\ StartFirst(Len(FeatureTypes))
  BY DEF Control, Start, Goto
<1>2. output' = [k \in Regions |-> Started(k)]
  BY <1>1, RegionsOfBytes DEF StartFirst, Regions
<1>3. \A r \in OtherRegions : output'[r] = Features(file)[r]
  <2> SUFFICES ASSUME NEW r \in OtherRegions PROVE output'[r] = Features(file)[r]
    OBVIOUS
  <2>1. r \in Regions /\ r \notin {"general", "byteentropy", "strings"}
    BY DEF OtherRegions
  <2>2. Started(r) = IF r \in PERegions /\ HasRegion(file, r) THEN <<r, file>> ELSE Zero
    BY <1>1, <2>1 DEF Started
  <2>3. Features(file)[r] = IF r \in PERegions /\ HasRegion(file, r) THEN <<r, file>> ELSE Zero
    BY FeaturesAre
  <2> QED
    BY <1>2, <2>1, <2>2, <2>3
<1> QED
  BY <1>1, <1>3 DEF OutputInv

\* finalize completes the vector.
LEMMA OutputFinal ==
    ASSUME Control, StreamInv, GeneralInv, WindowInv, TextInv, StringsInv, HistogramInv,
           OnRegions, OutputInv, Finalize
    PROVE  OutputInv'
<1>1. /\ pc = "finalize" /\ pc' = "stop" /\ UNCHANGED <<file, returned>> /\ file \in Files
      /\ returned = NULL
      /\ output' = [output EXCEPT !["general"] = GeneralValue,
                                  !["byteentropy"] = Normalized(LastBins),
                                  !["strings"] = Text!Written]
  BY DEF Control, Finalize, Goto, Opening
<1>2. GeneralValue = Features(file)["general"]
  BY <1>1, GeneralIs
<1>3. Normalized(LastBins) = Features(file)["byteentropy"]
  BY NormalizedIs, FeaturesAre
<1>4. Text!Written = Features(file)["strings"]
  BY <1>1, WrittenIs, FeaturesAre
<1>5. \A r \in Regions : output'[r] = Features(file)[r]
  <2> SUFFICES ASSUME NEW r \in Regions PROVE output'[r] = Features(file)[r]
    OBVIOUS
  <2>1. CASE r \in OtherRegions
    <3>1. output'[r] = output[r]
      BY <1>1, <2>1 DEF OtherRegions, OnRegions
    <3> QED
      BY <1>1, <2>1, <3>1 DEF OutputInv, Sliding
  <2>2. CASE r \in {"general", "byteentropy", "strings"}
    <3>1. output = [x \in Regions |-> output[x]]
      BY DEF OnRegions
    <3> QED
      BY <1>1, <1>2, <1>3, <1>4, <2>2, <3>1, RegionsOfBytes
  <2> QED
    BY <2>1, <2>2 DEF OtherRegions
<1>6. output' = [r \in Regions |-> output'[r]]
  BY <1>1 DEF OnRegions
<1>7. output' = Features(file)
  <2>1. Features(file) = [r \in Regions |-> Features(file)[r]]
    BY FeaturesAre
  <2> HIDE DEF Regions
  <2> QED
    BY <1>5, <1>6, <2>1
<1> QED
  BY <1>1, <1>7 DEF OutputInv, Sliding

\* Every step.
LEMMA OutputNext ==
    ASSUME Control, StreamInv, GeneralInv, WindowInv, TextInv, StringsInv, HistogramInv,
           OnRegions, OutputInv, Next
    PROVE  OutputInv'
<1>1. CASE Start
  BY <1>1, OutputStarted
<1>2. CASE Finalize
  BY <1>2, OutputFinal
<1>3. CASE AbandonStart \/ AbandonReduce
  BY <1>3 DEF AbandonStart, AbandonReduce, Goto, OutputInv, Sliding
<1>4. CASE Stop
  BY <1>4 DEF Stop, Goto, OutputInv, Sliding
<1>5. CASE (\E f \in Files : Run(f)) \/ StreamSetup \/ StreamSetBlockSize \/ StreamStart \/ Reset
  BY <1>5 DEF Run, StreamSetup, StreamSetBlockSize, StreamStart, Reset, Goto, OutputInv, Sliding
<1>6. CASE Read \/ ReduceGeneral \/ WindowCopy \/ ReduceStrings
  <2>1. UNCHANGED <<file, output, returned>> /\ pc \in Sliding /\ pc' \in Sliding
    BY <1>6 DEF Read, ReduceGeneral, WindowCopy, ReduceStrings, Goto, Sliding
  <2> QED
    BY <2>1 DEF OutputInv, Sliding
<1>7. CASE WindowSlide
  <2>1. /\ UNCHANGED <<pc, file, returned>> /\ pc = "window"
        /\ output' = [output EXCEPT !["byteentropy"] = AddWindow(@, block)]
    BY <1>7 DEF WindowSlide
  <2>2. returned = NULL
    BY <2>1 DEF Control, Opening
  <2>3. \A r \in OtherRegions : output'[r] = output[r]
    BY <2>1 DEF OtherRegions, OnRegions
  <2> QED
    BY <2>1, <2>2, <2>3 DEF OutputInv, Sliding
<1> QED
  BY <1>1, <1>2, <1>3, <1>4, <1>5, <1>6, <1>7 DEF Next

-----------------------------------------------------------------------------
(* The invariant and the theorems *)

Inv ==
    /\ Control /\ StreamInv
    /\ GeneralInv /\ WindowInv /\ TextInv /\ StringsInv
    /\ OnRegions /\ HistogramInv /\ OutputInv

LEMMA InitInv == Init => Inv
<1> SUFFICES ASSUME Init PROVE Inv
  OBVIOUS
<1>1. /\ pc = "idle" /\ file = NULL /\ peFile = NULL /\ returned = NULL
      /\ output = [r \in Regions |-> Zero] /\ Stream!Init
  BY DEF Init
<1>2. Control
  BY <1>1 DEF Control
<1>3. StreamInv /\ GeneralInv /\ WindowInv /\ TextInv
  BY <1>1, StreamInit, GeneralInit, WindowInit, TextInit
<1>4. StringsInv /\ HistogramInv /\ OutputInv
  BY <1>1 DEF StringsInv, HistogramInv, OutputInv, Ready, Opened, Sliding
<1>5. OnRegions
  BY <1>1 DEF OnRegions
<1> QED
  BY <1>2, <1>3, <1>4, <1>5 DEF Inv

\* A step that changes nothing.
LEMMA SameInv == Inv /\ UNCHANGED vars => Inv'
<1> SUFFICES ASSUME Inv, UNCHANGED vars PROVE Inv'
  OBVIOUS
<1>1. /\ UNCHANGED <<pc, file, peFile, output, windowCalled, returned>>
      /\ UNCHANGED general /\ UNCHANGED stream /\ UNCHANGED window /\ UNCHANGED text
  BY DEF vars
<1>2. UNCHANGED <<m_offset, m_nextOffset, blocks, windows>> /\ UNCHANGED <<buf, phase, fed, windowSize, step>>
      /\ UNCHANGED <<numReadableStrings, sumReadableStringLengths, readableCounts,
                     totalNumReadable, interestingCounts>>
  BY <1>1 DEF stream, window, text
<1>3. UNCHANGED <<Seen, Searched, Done>>
  BY <1>1, <1>2 DEF Seen, Searched, Done
<1>4. Control'
  BY <1>1 DEF Inv, Control
<1>5. StreamInv' /\ GeneralInv' /\ TextInv' /\ StringsInv'
  BY <1>1, <1>2, <1>3, StreamSame, GeneralSame, TextSame, StringsSame DEF Inv
<1>6. WindowInv'
  <2>1. WP!Inv /\ UNCHANGED WP!vars
    BY <1>1 DEF Inv, WindowInv, window, WP!vars
  <2>2. WP!Inv'
    BY <2>1, WindowConstants, WP!NextInv
  <2> QED
    BY <1>1, <1>2, <1>3, <2>2 DEF Inv, WindowInv, Prefix
<1>7. OnRegions' /\ HistogramInv' /\ OutputInv'
  BY <1>1, <1>2 DEF Inv, OnRegions, HistogramInv, OutputInv
<1> QED
  BY <1>4, <1>5, <1>6, <1>7 DEF Inv

LEMMA NextInv == Inv /\ [Next]_vars => Inv'
<1> SUFFICES ASSUME Inv, [Next]_vars PROVE Inv'
  OBVIOUS
<1>1. CASE UNCHANGED vars
  BY <1>1, SameInv
<1>2. CASE Next
  <2>1. Control /\ StreamInv /\ GeneralInv /\ WindowInv /\ TextInv /\ StringsInv
        /\ OnRegions /\ HistogramInv /\ OutputInv
    BY DEF Inv
  <2>2. Control'
    BY <1>2, <2>1, ControlNext
  <2>3. StreamInv'
    BY <1>2, <2>1, StreamNext
  <2>4. GeneralInv'
    BY <1>2, <2>1, GeneralNext
  <2>5. WindowInv'
    BY <1>2, <2>1, WindowNext
  <2>6. TextInv'
    BY <1>2, <2>1, TextNext
  <2>7. StringsInv'
    BY <1>2, <2>1, StringsNext
  <2>8. OnRegions'
    BY <1>2, <2>1, RegionsNext
  <2>9. HistogramInv'
    BY <1>2, <2>1, HistogramNext
  <2>10. OutputInv'
    BY <1>2, <2>1, OutputNext
  <2> QED
    BY <2>2, <2>3, <2>4, <2>5, <2>6, <2>7, <2>8, <2>9, <2>10 DEF Inv
<1> QED
  BY <1>1, <1>2

\* Each consumer of the bytes holds at every call of run what the bytes it was given
\* make of cleared members, and the vector grows with them (core.cpp:27-63).
THEOREM ExtractorInvariant == Spec => []Inv
<1> QED
  BY InitInv, NextInv, PTL DEF Spec

\* Types, those of the stream, of the sliding window and of the string extractor too,
\* and the vector keeps its regions.
THEOREM TypeCorrect == Spec => []TypeOK
<1>1. Inv => TypeOK
  <2> SUFFICES ASSUME Inv PROVE TypeOK
    OBVIOUS
  <2>1. SlidingWindow!TypeOK
    BY DEF Inv, WindowInv, WP!Inv, WP!TypeOK, SlidingWindow!TypeOK
  <2>2. DOMAIN output = Regions
    BY DEF Inv, OnRegions
  <2>3. Stream!TypeOK /\ Text!StringsTypeOK /\ windowCalled \in BOOLEAN
    BY DEF Inv, StreamInv, TextInv, WindowInv
  <2>4. /\ byteCounts \in [Byte -> Nat] /\ totalNumBytes \in Nat
        /\ firstBytes = <<>> \/ firstBytes \in [0..(NumFirstBytes - 1) -> Byte]
    BY DEF Inv, GeneralInv
  <2>5. /\ pc \in {"idle", "setup", "setBlockSize", "startReading", "reset", "start",
                   "read", "general", "window", "finalize", "stop"}
        /\ file \in Files \cup {NULL} /\ peFile \in Files \cup {NULL}
        /\ returned \in Files \cup {NULL}
    BY DEF Inv, Control, Opening, Opened
  <2> QED
    BY <2>1, <2>2, <2>3, <2>4, <2>5 DEF TypeOK
<1> QED
  BY <1>1, ExtractorInvariant, PTL

\* Between blocks the byte counter, the sliding window and the string extractor have
\* been given the same bytes, those the stream has delivered (core.cpp:48-53).
THEOREM ConsumersCorrect == Spec => []ConsumersInStep
<1>1. Inv => ConsumersInStep
  <2> SUFFICES ASSUME Inv, pc \in {"read", "finalize"}
               PROVE  /\ totalNumBytes = m_nextOffset
                      /\ fed = SubSeq(file.bytes, 1, m_nextOffset)
                      /\ content = fed
    BY DEF ConsumersInStep
  <2>1. Seen = m_nextOffset /\ Searched = m_nextOffset
    BY DEF Seen, Searched
  <2>2. totalNumBytes = Seen /\ fed = Prefix(Seen) /\ content = Prefix(Searched)
    BY DEF Inv, GeneralInv, Counted, WindowInv, TextInv, Ready, Opened, Sliding
  <2> QED
    BY <2>1, <2>2 DEF Prefix
<1> QED
  BY <1>1, ExtractorInvariant, PTL

\* The vector run returns is the features of its file, of nothing before it and of
\* nothing of the way the blocks cut it but the strings (core.cpp:27-63).
THEOREM VectorCorrect == Spec => []VectorIsOfTheFile
<1>1. Inv => VectorIsOfTheFile
  BY DEF Inv, OutputInv, VectorIsOfTheFile
<1> QED
  BY <1>1, ExtractorInvariant, PTL

-----------------------------------------------------------------------------
(* The extractor implements HeldVector *)

LEMMA InitRefines == Init => Abstract!Init
BY DEF Init, Abstract!Init, Held

\* The vector is returned in Stop, given up when the next run starts, and left alone
\* by every other step.
LEMMA StepRefines == Inv /\ [Next]_vars => [Abstract!Next]_Held
<1> SUFFICES ASSUME Inv, [Next]_vars PROVE [Abstract!Next]_Held
  OBVIOUS
<1>1. /\ returned # NULL => output = Features(returned) /\ returned \in Files
      /\ returned # NULL => pc \in {"idle", "reset", "start"} \cup Opening
      /\ pc = "stop" => output = Features(file) /\ file \in Files
  BY DEF Inv, OutputInv, Control
<1>2. CASE UNCHANGED <<returned, output>>
  BY <1>2 DEF Held
<1>3. CASE UNCHANGED returned /\ returned = NULL
  BY <1>3 DEF Held
<1>4. CASE Start \/ AbandonStart \/ AbandonReduce
  <2>1. returned' = NULL /\ Held' = NULL
    BY <1>4 DEF Start, AbandonStart, AbandonReduce, Held
  <2>2. CASE returned = NULL
    BY <2>1, <2>2 DEF Held
  <2>3. CASE returned # NULL
    <3>1. Held = [file |-> returned, vector |-> Features(returned)]
      BY <1>1, <2>3 DEF Held
    <3>2. Held # NULL
      BY <1>1, <2>3, <3>1, NullAssumption
    <3> QED
      BY <2>1, <3>2 DEF Abstract!Next, Abstract!Invalidate
  <2> QED
    BY <2>2, <2>3
<1>5. CASE Stop
  <2>1. pc = "stop" /\ returned' = file /\ output' = output
    BY <1>5 DEF Stop, Goto
  <2>2. returned = NULL /\ file \in Files /\ file # NULL
    BY <1>1, <2>1, ConstantsAssumption DEF Opening
  <2>3. Held = NULL /\ Held' = [file |-> file, vector |-> Features(file)]
    BY <1>1, <2>1, <2>2 DEF Held
  <2>4. Held' # NULL /\ Held'.file = file
    BY <2>2, <2>3, NullAssumption
  <2>5. Abstract!Return(file)
    BY <2>3, <2>4 DEF Abstract!Return
  <2> QED
    BY <2>2, <2>5 DEF Abstract!Next
<1>6. CASE WindowSlide \/ Finalize
  <2>1. UNCHANGED returned /\ pc \in {"window", "finalize"}
    BY <1>6 DEF WindowSlide, Finalize, Goto
  <2>2. returned = NULL
    BY <1>1, <2>1 DEF Opening
  <2> QED
    BY <1>3, <2>1, <2>2
<1> QED
  BY <1>2, <1>4, <1>5, <1>6 DEF Next, vars, Run, StreamSetup, StreamSetBlockSize, StreamStart, Reset,
     Read, ReduceGeneral, WindowCopy, ReduceStrings

\* From its return until the next run starts its features the vector is the caller's:
\* that of the whole file, and it does not change (core.cpp:57-63).
THEOREM Refinement == Spec => ImplementsHeldVector
<1> QED
  BY InitRefines, StepRefines, ExtractorInvariant, PTL DEF Spec, ImplementsHeldVector, Abstract!Spec

-----------------------------------------------------------------------------
(* The features of the strings agree *)

\* Once they were reset, the members of the string extractor have in common what its
\* proofs say, and have lost what its proofs allow; before the first reset they are what
\* the constructor left.
AgreeInv == strPhase # "new" => TP!StringsAgree /\ TP!Losses

\* The members that hold the strings change in reset and reduce only.
LEMMA AgreeNext ==
    ASSUME Inv, AgreeInv, [Next]_vars
    PROVE  AgreeInv'
<1>1. ASSUME UNCHANGED <<numReadableStrings, sumReadableStringLengths, readableCounts,
                         totalNumReadable, interestingCounts, content, cuts>>,
             strPhase' = "new" <=> strPhase = "new"
      PROVE  AgreeInv'
  <2> SUFFICES ASSUME strPhase # "new" PROVE TP!StringsAgree' /\ TP!Losses'
    BY <1>1 DEF AgreeInv
  <2>1. TP!StringsAgree /\ TP!Losses
    BY DEF AgreeInv
  <2>2. TP!StringsAgree'
    BY <1>1, <2>1 DEF TP!StringsAgree
  <2>3. TP!Losses'
    BY <1>1, <2>1 DEF TP!Losses
  <2> QED
    BY <2>2, <2>3
<1>2. CASE Reset
  <2>1. TP!Reset
    BY <1>2, SameSteps DEF Reset
  <2> QED
    BY <2>1, TextConstants, TP!AgreeReset, TP!LossesReset DEF AgreeInv
<1>3. CASE ReduceStrings
  <2>1. Text!Reduce(Chunk) /\ pc = "window" /\ strPhase = "ready"
    BY <1>3 DEF ReduceStrings, Goto, Text!Reduce
  <2>2. Chunk \in Seq(Byte)
    BY <1>3, <2>1, ChunkIs DEF Inv, ChunkIsNext
  <2>3. TP!StringsAgree /\ TP!Losses /\ TP!StringsTypeOK /\ TP!Reduce(Chunk)
    BY <2>1, SameSteps DEF AgreeInv, Inv, TextInv
  <2>4. TP!StringsAgree'
    BY <2>2, <2>3, TextConstants, TP!AgreeReduce
  <2>5. TP!Losses'
    BY <2>2, <2>3, TextConstants, TP!FirstLoss, TP!NextLoss
  <2> QED
    BY <2>4, <2>5 DEF AgreeInv
<1>4. CASE Finalize
  <2>1. Text!Finalize
    BY <1>4 DEF Finalize
  <2> QED
    BY <2>1, <1>1 DEF Text!Finalize, Text!counters
<1>5. CASE \/ (\E f \in Files : Run(f)) \/ StreamSetup \/ StreamSetBlockSize \/ StreamStart
           \/ Stop \/ AbandonStart \/ AbandonReduce \/ Start \/ WindowCopy \/ WindowSlide
           \/ ReduceGeneral \/ Read
  <2>1. UNCHANGED text
    BY <1>5 DEF Run, StreamSetup, StreamSetBlockSize, StreamStart, Stop, AbandonStart, AbandonReduce,
                Start, WindowCopy, WindowSlide, ReduceGeneral, Read
  <2> QED
    BY <2>1, <1>1 DEF text
<1>6. CASE UNCHANGED vars
  BY <1>1, <1>6 DEF vars, text
<1> QED
  BY <1>2, <1>3, <1>4, <1>5, <1>6 DEF Next

\* Over the whole life of an extractor.
LEMMA AgreeInvariant == Spec => []AgreeInv
<1>1. Init => AgreeInv
  BY DEF Init, Text!StringsInit, AgreeInv
<1>2. Inv /\ AgreeInv /\ [Next]_vars => AgreeInv'
  BY AgreeNext
<1> QED
  BY <1>1, <1>2, ExtractorInvariant, PTL DEF Spec

\* What finalize writes of the strings agrees, whatever the file: the histogram and
\* the lengths add up to the readable bytes, strings are long enough, no pattern is in
\* more strings than there are, equal patterns have equal counts
\* (f_string_extractor.cpp:148-205).
THEOREM TextCorrect == Spec => []Text!FeaturesAgree
<1>1. Inv /\ AgreeInv => Text!FeaturesAgree
  <2> SUFFICES ASSUME Inv, AgreeInv, strPhase = "final" PROVE Text!FeaturesAgree
    BY DEF Text!FeaturesAgree
  <2>1. TP!StringsAgree /\ TP!StringsTypeOK
    BY SameSteps DEF AgreeInv, Inv, TextInv
  <2>2. TP!FeaturesAgree
    BY <2>1, TextConstants, TP!AgreeFeatures
  <2> QED
    BY <2>2, SameText, SameSteps DEF TP!FeaturesAgree, Text!FeaturesAgree
<1> QED
  BY <1>1, ExtractorInvariant, AgreeInvariant, PTL

\* What the blocks run cuts a file into lose of its strings is bounded by the number of
\* their boundaries, and a file of one block loses nothing (core.cpp:48-59,
\* f_string_extractor.cpp:148-181).
THEOREM TextLosses == Spec => []Text!LossIsBounded
<1>1. Inv /\ AgreeInv => Text!LossIsBounded
  <2> SUFFICES ASSUME Inv, AgreeInv, strPhase = "final" PROVE Text!LossIsBounded
    BY DEF Text!LossIsBounded
  <2>1. TP!StringsAgree /\ TP!StringsTypeOK /\ TP!Losses
    BY SameSteps DEF AgreeInv, Inv, TextInv
  <2>2. TP!LossIsBounded
    BY <2>1, TextConstants, TP!LossesBound
  <2>3. TP!Whole = Text!Whole
    BY SameText DEF TP!Whole, Text!Whole
  <2> QED
    BY <2>2, <2>3, SameSteps, Zenon DEF TP!LossIsBounded, Text!LossIsBounded, TP!AddedPerCut, Text!AddedPerCut
<1> QED
  BY <1>1, ExtractorInvariant, AgreeInvariant, PTL
=============================================================================
