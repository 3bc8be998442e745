----------------------------- MODULE BlockProofs -----------------------------
(***************************************************************************)
(* Proofs about the two ends of a block: BlockStream, which cuts a buffer  *)
(* into blocks, for every buffer, size, block size and width of size_t,    *)
(* and StringExtractor, which searches each block on its own, for every    *)
(* alphabet, list of patterns and way of cutting the content.              *)
(*                                                                         *)
(* BlockStream.  The properties TLC checks are not inductive: they speak   *)
(* of the blocks returned, and the next block depends on the cursor and    *)
(* on the members of the subclass.  Inv relates the three.                 *)
(*                                                                         *)
(* StringExtractor.  The invariant is Losses: what was counted so far is   *)
(* near what the strings of the content so far would give.  The step is    *)
(* CutIsBounded, which says what one boundary costs.  It cuts the longest  *)
(* run of readable bytes around the boundary into the two pieces before    *)
(* and after it (CutAt): every other string is found on either side        *)
(* unchanged, and of a run and its two pieces few can be long enough.      *)
(* Counts of strings, of their bytes and of their matches are three sums   *)
(* over the same runs, so one decomposition serves all of them (Part,      *)
(* AtRun, Worth).                                                          *)
(***************************************************************************)
EXTENDS BlockStream, StringExtractor, FoldTheorems

-----------------------------------------------------------------------------
(* BlockStream *)

\* The cursor is where the last block ended.
CursorAfterBlocks ==
    m_nextOffset = IF blocks = <<>> THEN 0 ELSE End(blocks[Len(blocks)])

\* Nothing has happened before startReading.
UnopenedIsEmpty == ~m_started => opened = Nothing /\ blocks = <<>> /\ ~m_finished

\* While a read is in progress the members are what startReading found in them.
ReadsWhatWasOpened ==
    Reading => /\ m_blockSize # 0
               /\ m_buf = opened.buf /\ m_bufSize = opened.size
               /\ m_buf # NULL => m_blockSize = opened.blockSize

Inv ==
    /\ TypeOK
    /\ m_buf = NULL => m_bufSize = 0
    /\ UnopenedIsEmpty
    /\ ReadsWhatWasOpened
    /\ CursorAfterBlocks
    /\ m_nextOffset <= opened.size
    /\ BlocksTileTheBuffer
    /\ OnlyTheLastBlockIsShort

-----------------------------------------------------------------------------
\* What doReadNext returns is no more than the block size and, when the cursor is
\* within the buffer, no more than what the buffer still holds; it is the smaller
\* of the two (memoryblockstream.cpp:25-26).
LEMMA AvailableIsBounded ==
    ASSUME NEW off \in Nat, m_bufSize \in Nat, m_blockSize \in Nat, off <= m_bufSize
    PROVE  /\ Available(off) \in Nat
           /\ Available(off) <= m_blockSize
           /\ off + Available(off) <= m_bufSize
           /\ Available(off) = m_blockSize \/ off + Available(off) = m_bufSize
BY DEF Available, SizeSub

-----------------------------------------------------------------------------
\* A new stream satisfies the invariant.
LEMMA InitInv == Init => Inv
<1> SUFFICES ASSUME Init PROVE Inv
  OBVIOUS
<1>1. opened = [buf |-> NULL, size |-> 0, blockSize |-> 0] /\ blocks = <<>>
  BY DEF Init, Nothing
<1>2. TypeOK
  <2>1. m_started \in BOOLEAN /\ m_finished \in BOOLEAN
    BY DEF Init
  <2>2. /\ m_buf \in Bufs \cup {NULL}
        /\ m_bufSize \in 0..MaxSize /\ m_blockSize \in 0..MaxBlock
        /\ m_offset \in Nat /\ m_nextOffset \in Nat
    BY ConstantsAssumption DEF Init
  <2>3. /\ opened \in [buf : Bufs \cup {NULL}, size : 0..MaxSize, blockSize : 0..MaxBlock]
        /\ blocks \in Seq(Block)
    BY <1>1, ConstantsAssumption
  <2> QED
    BY <2>1, <2>2, <2>3 DEF TypeOK
<1>3. UnopenedIsEmpty /\ ReadsWhatWasOpened
  BY DEF Init, UnopenedIsEmpty, ReadsWhatWasOpened, Reading
<1>4. CursorAfterBlocks /\ m_nextOffset <= opened.size
  BY <1>1 DEF Init, CursorAfterBlocks
<1>5. BlocksTileTheBuffer /\ OnlyTheLastBlockIsShort
  BY <1>1 DEF BlocksTileTheBuffer, OnlyTheLastBlockIsShort
<1> QED
  BY <1>2, <1>3, <1>4, <1>5 DEF Init, Inv

\* A call that leaves the blocks, the cursor and what was opened as they were, and
\* opens no read, keeps the invariant if it keeps the members in their types.
LEMMA QuietStep ==
    ASSUME Inv,
           UNCHANGED <<m_offset, m_nextOffset, m_started, history>>,
           m_finished' \in BOOLEAN, m_finished => m_finished', ~Reading',
           ~m_started => ~m_finished',
           m_buf' \in Bufs \cup {NULL}, m_bufSize' \in 0..MaxSize,
           m_blockSize' \in 0..MaxBlock,
           m_buf' = NULL => m_bufSize' = 0
    PROVE  Inv'
<1>1. TypeOK'
  BY DEF Inv, TypeOK, history, Block
<1>2. UnopenedIsEmpty' /\ ReadsWhatWasOpened'
  BY DEF Inv, UnopenedIsEmpty, ReadsWhatWasOpened, history, Nothing
<1>3. CursorAfterBlocks' /\ (m_nextOffset <= opened.size)'
  BY DEF Inv, CursorAfterBlocks, history, End
<1>4. BlocksTileTheBuffer' /\ OnlyTheLastBlockIsShort'
  BY DEF Inv, BlocksTileTheBuffer, OnlyTheLastBlockIsShort, history, End
<1> QED
  BY <1>1, <1>2, <1>3, <1>4 DEF Inv

\* startReading opens the buffer of setup, at offset 0, with no block returned yet.
LEMMA StartReadingInv == Inv /\ StartReading => Inv'
<1> SUFFICES ASSUME Inv, StartReading PROVE Inv'
  OBVIOUS
<1>1. /\ ~m_started /\ ~m_finished /\ m_blockSize # 0
      /\ opened = Nothing /\ blocks = <<>>
  BY DEF StartReading, CanStart, Inv, UnopenedIsEmpty
<1>2. /\ opened' \in [buf : Bufs \cup {NULL}, size : 0..MaxSize, blockSize : 0..MaxBlock]
      /\ opened'.buf = m_buf /\ opened'.size = m_bufSize
      /\ m_buf # NULL => opened'.blockSize = m_blockSize
  BY <1>1, ConstantsAssumption DEF StartReading, Inv, TypeOK, Nothing
<1>3. /\ m_nextOffset' = 0 /\ m_offset' = 0 /\ m_started' /\ ~m_finished'
      /\ m_started' \in BOOLEAN /\ m_finished' \in BOOLEAN
      /\ UNCHANGED <<m_buf, m_bufSize, m_blockSize, blocks>>
  BY DEF StartReading
<1>4. TypeOK'
  BY <1>2, <1>3 DEF Inv, TypeOK, Block
<1>5. UnopenedIsEmpty' /\ ReadsWhatWasOpened'
  BY <1>1, <1>2, <1>3 DEF UnopenedIsEmpty, ReadsWhatWasOpened, Inv
<1>6. CursorAfterBlocks' /\ (m_nextOffset <= opened.size)'
  BY <1>1, <1>2, <1>3 DEF CursorAfterBlocks, Inv, TypeOK
<1>7. BlocksTileTheBuffer' /\ OnlyTheLastBlockIsShort'
  BY <1>1, <1>3 DEF BlocksTileTheBuffer, OnlyTheLastBlockIsShort
<1> QED
  BY <1>3, <1>4, <1>5, <1>6, <1>7 DEF Inv

\* readNext returns the block at the cursor, or nothing and then is finished.
LEMMA ReadNextInv == Inv /\ ReadNext => Inv'
<1> SUFFICES ASSUME Inv, ReadNext PROVE Inv'
  OBVIOUS
<1> DEFINE n == Available(m_nextOffset)
           b == [buf |-> m_buf, off |-> m_nextOffset, len |-> n]
<1>1. /\ Reading /\ m_blockSize # 0
      /\ m_buf = opened.buf /\ m_bufSize = opened.size
      /\ m_buf # NULL => m_blockSize = opened.blockSize
      /\ m_nextOffset <= m_bufSize
      /\ m_nextOffset \in Nat /\ m_bufSize \in Nat /\ m_blockSize \in 0..MaxBlock
  BY ConstantsAssumption DEF ReadNext, Inv, ReadsWhatWasOpened, TypeOK
<1>2. /\ n \in Nat /\ n <= m_blockSize /\ m_nextOffset + n <= m_bufSize
      /\ n = m_blockSize \/ m_nextOffset + n = m_bufSize
  BY <1>1, ConstantsAssumption, AvailableIsBounded
<1> HIDE DEF n
<1>3. CASE n = 0
  <2>1. /\ m_finished' = TRUE /\ m_offset' = m_nextOffset
        /\ UNCHANGED <<m_nextOffset, blocks, m_buf, m_bufSize, m_blockSize, m_started, opened>>
    BY <1>3 DEF ReadNext, n
  <2>2. TypeOK'
    BY <2>1 DEF Inv, TypeOK, Block
  <2>3. UnopenedIsEmpty' /\ ReadsWhatWasOpened'
    BY <1>1, <2>1 DEF Inv, UnopenedIsEmpty, ReadsWhatWasOpened, Reading
  <2>4. CursorAfterBlocks' /\ (m_nextOffset <= opened.size)'
    BY <2>1 DEF Inv, CursorAfterBlocks, End
  <2>5. BlocksTileTheBuffer' /\ OnlyTheLastBlockIsShort'
    BY <2>1 DEF Inv, BlocksTileTheBuffer, OnlyTheLastBlockIsShort, End
  <2> QED
    BY <2>1, <2>2, <2>3, <2>4, <2>5 DEF Inv
<1>4. CASE n # 0
  <2>1. /\ m_finished' = FALSE /\ m_offset' = m_nextOffset
        /\ m_nextOffset' = m_nextOffset + n
        /\ blocks' = Append(blocks, b)
        /\ UNCHANGED <<m_buf, m_bufSize, m_blockSize, m_started, opened>>
    BY <1>4 DEF ReadNext, n
  <2>2. b \in Block
    BY <1>1, <1>2, <1>4, ConstantsAssumption DEF Inv, TypeOK, Block
  <2>3. blocks \in Seq(Block)
    BY DEF Inv, TypeOK
  <2> HIDE DEF b
  <2>4. /\ Len(blocks') = Len(blocks) + 1 /\ Len(blocks) \in Nat
        /\ blocks'[Len(blocks) + 1] = b
        /\ \A i \in 1..Len(blocks) : blocks'[i] = blocks[i]
        /\ blocks' # <<>>
    BY <2>1, <2>2, <2>3
  <2>5. b.buf = m_buf /\ b.off = m_nextOffset /\ b.len = n /\ End(b) = m_nextOffset + n
    BY DEF b, End
  <2>6. TypeOK'
    <3>1. blocks' \in Seq(Block)
      BY <2>1, <2>2, <2>3
    <3>2. m_nextOffset' \in Nat /\ m_offset' \in Nat
      BY <1>1, <1>2, <2>1
    <3>3. m_finished' \in BOOLEAN
      BY <2>1
    <3> QED
      BY <2>1, <3>1, <3>2, <3>3 DEF Inv, TypeOK, Block
  <2>7. UnopenedIsEmpty' /\ ReadsWhatWasOpened'
    BY <1>1, <2>1 DEF Inv, UnopenedIsEmpty, ReadsWhatWasOpened, Reading
  <2>8. CursorAfterBlocks'
    BY <2>1, <2>4, <2>5 DEF CursorAfterBlocks
  <2>9. (m_nextOffset <= opened.size)'
    BY <1>1, <1>2, <2>1
  <2>10. BlocksTileTheBuffer'
    <3> SUFFICES ASSUME NEW i \in 1..Len(blocks')
                 PROVE  /\ blocks'[i].off = IF i = 1 THEN 0 ELSE End(blocks'[i - 1])
                        /\ blocks'[i].buf = opened'.buf
                        /\ End(blocks'[i]) <= opened'.size
      BY DEF BlocksTileTheBuffer, End
    <3>1. CASE i \in 1..Len(blocks)
      <4>1. i # 1 => i - 1 \in 1..Len(blocks)
        BY <3>1, <2>4
      <4> QED
        BY <3>1, <4>1, <2>1, <2>4 DEF Inv, BlocksTileTheBuffer
    <3>2. CASE i = Len(blocks) + 1
      <4>1. m_nextOffset = IF i = 1 THEN 0 ELSE End(blocks[i - 1])
        BY <3>2, <2>3, <2>4 DEF Inv, CursorAfterBlocks
      <4>2. i # 1 => i - 1 \in 1..Len(blocks) /\ blocks'[i - 1] = blocks[i - 1]
        BY <3>2, <2>4
      <4> QED
        BY <3>2, <4>1, <4>2, <2>1, <2>4, <2>5, <1>1, <1>2
    <3> QED
      BY <3>1, <3>2, <2>4
  <2>11. OnlyTheLastBlockIsShort'
    <3> SUFFICES ASSUME NEW i \in 1..Len(blocks')
                 PROVE  \/ blocks'[i].len = opened'.blockSize
                        \/ i = Len(blocks') /\ End(blocks'[i]) = opened'.size
      BY DEF OnlyTheLastBlockIsShort, End
    <3>1. m_buf # NULL /\ m_blockSize = opened.blockSize
      BY <1>1, <1>2, <1>4 DEF Inv
    <3>2. CASE i \in 1..Len(blocks)
      <4>1. blocks[i].len # opened.blockSize => i = Len(blocks) /\ End(blocks[i]) = opened.size
        BY <3>2 DEF Inv, OnlyTheLastBlockIsShort
      <4>2. i = Len(blocks) => End(blocks[i]) = m_nextOffset
        BY <3>2, <2>3, <2>4 DEF Inv, CursorAfterBlocks
      <4>3. blocks[i].len = opened.blockSize
        BY <4>1, <4>2, <1>1, <1>2, <1>4
      <4> QED
        BY <3>2, <4>3, <2>1, <2>4
    <3>3. CASE i = Len(blocks) + 1
      BY <3>3, <3>1, <2>1, <2>4, <2>5, <1>1, <1>2
    <3> QED
      BY <3>2, <3>3, <2>4
  <2> QED
    BY <2>1, <2>6, <2>7, <2>8, <2>9, <2>10, <2>11 DEF Inv
<1> QED
  BY <1>3, <1>4

\* Every step keeps the invariant.
LEMMA NextInv == Inv /\ [Next]_vars => Inv'
<1> SUFFICES ASSUME Inv, [Next]_vars PROVE Inv'
  OBVIOUS
<1>1. ASSUME NEW b \in Bufs \cup {NULL}, NEW n \in 0..MaxSize, Setup(b, n)
      PROVE  Inv'
  BY <1>1, QuietStep DEF Setup, cursor, history, Inv, TypeOK, UnopenedIsEmpty, Reading
<1>2. ASSUME NEW n \in 0..MaxBlock, SetBlockSize(n)
      PROVE  Inv'
  BY <1>2, QuietStep DEF SetBlockSize, cursor, history, Inv, TypeOK, UnopenedIsEmpty, Reading
<1>3. CASE StartReading
  BY <1>3, StartReadingInv
<1>4. CASE ReadNext
  BY <1>4, ReadNextInv
<1>5. CASE StopReading
  BY <1>5, QuietStep, ConstantsAssumption
     DEF StopReading, cursor, history, Inv, TypeOK, UnopenedIsEmpty, Reading
<1>6. CASE UNCHANGED vars
  BY <1>6 DEF vars, Inv, TypeOK, Block, UnopenedIsEmpty, ReadsWhatWasOpened, Reading,
              CursorAfterBlocks, BlocksTileTheBuffer, OnlyTheLastBlockIsShort, End, Nothing
<1> QED
  BY <1>1, <1>2, <1>3, <1>4, <1>5, <1>6 DEF Next, StartRefused, ReadRefused, StopRefused

\* The invariant holds in every state of every stream.
THEOREM StreamInvariant == Spec => []Inv
<1> QED
  BY InitInv, NextInv, PTL DEF Spec

\* Every member keeps its type, the blocks returned are blocks of the sizes allowed.
THEOREM TypeCorrect == Spec => []TypeOK
<1>1. Inv => TypeOK
  BY DEF Inv
<1> QED
  BY <1>1, StreamInvariant, PTL

\* The blocks are the buffer cut every blockSize bytes, as far as it was read.
THEOREM CutsTheBuffer == Spec => []BlocksAreTheBuffer
<1>1. Inv => BlocksAreTheBuffer
  BY DEF Inv, BlocksAreTheBuffer
<1> QED
  BY <1>1, StreamInvariant, PTL

\* The subtraction of memoryblockstream.cpp:25 never wraps.
THEOREM NeverWraps == Spec => []NoWrapAround
<1>1. Inv => NoWrapAround
  BY DEF Inv, ReadsWhatWasOpened, NoWrapAround
<1> QED
  BY <1>1, StreamInvariant, PTL

\* readNext reports the end only when the whole buffer was returned.
THEOREM EndIsTheEnd == Spec => EndMeansAllRead
<1>1. Inv /\ [Next]_vars => [ReadNext /\ m_finished' => m_nextOffset = m_bufSize]_vars
  <2> SUFFICES ASSUME Inv, ReadNext, m_finished' PROVE m_nextOffset = m_bufSize
    OBVIOUS
  <2>1. /\ m_blockSize # 0 /\ m_nextOffset <= m_bufSize
        /\ m_nextOffset \in Nat /\ m_bufSize \in Nat /\ m_blockSize \in Nat
    BY ConstantsAssumption DEF ReadNext, Inv, ReadsWhatWasOpened, TypeOK
  <2>2. Available(m_nextOffset) = 0
    BY DEF ReadNext
  <2> QED
    BY <2>1, <2>2, AvailableIsBounded
<1> QED
  BY <1>1, StreamInvariant, PTL DEF Spec, EndMeansAllRead

\* A stream that is finished stays finished and returns no more blocks.
THEOREM ReadOnce == Spec => NeverRestarts
<1>1. [Next]_vars => [m_finished => m_finished' /\ blocks' = blocks]_vars
  BY DEF Next, Setup, SetBlockSize, StartReading, CanStart, ReadNext, Reading, StopReading,
         StartRefused, ReadRefused, StopRefused, cursor, history, vars
<1> QED
  BY <1>1, PTL DEF Spec, NeverRestarts

-----------------------------------------------------------------------------
(* The strings of a block, and what is counted of them *)

LEMMA SumFunctionIs == \A f : SumFunction(f) = Total(f, DOMAIN f)
BY DEF SumFunction, Total

\* There are n positions up to n.
LEMMA FirstPositions ==
    ASSUME NEW n \in Nat
    PROVE  IsFiniteSet(1..n) /\ Cardinality(1..n) = n
<1>1. 1 \in Int /\ n \in Int
  OBVIOUS
<1>2. IsFiniteSet(1..n) /\ Cardinality(1..n) = IF 1 > n THEN 0 ELSE n - 1 + 1
  BY <1>1, FS_Interval, Zenon
<1> QED
  BY <1>2

\* What a run of readable bytes is.
LEMMA RunsAre ==
    ASSUME NEW s \in Seq(Byte)
    PROVE  /\ IsFiniteSet(Runs(s)) /\ Cardinality(Runs(s)) \in Nat
           /\ \A r \in Runs(s) : r[1] \in 1..Len(s) /\ r[2] \in 1..Len(s) /\ r[1] <= r[2]
           /\ \A r \in Runs(s) : /\ r[2] - r[1] + 1 >= MinLength
                                      /\ \A i \in r[1]..r[2] : s[i] \in Readable
           /\ Keys([r \in Runs(s) |-> r[1]], Runs(s))
<1> DEFINE D == 1..Len(s)
           R == Runs(s)
<1>1. Len(s) \in Nat /\ MinLength \in Nat \ {0}
  BY LenProperties, StringsAssumption
<1>2. \A r \in R : /\ r \in D \X D /\ r[2] - r[1] + 1 >= MinLength
                   /\ \A i \in r[1]..r[2] : s[i] \in Readable
                   /\ r[2] < Len(s) => s[r[2] + 1] \notin Readable
  BY DEF Runs
<1>3. IsFiniteSet(R) /\ Cardinality(R) \in Nat
  <2>1. IsFiniteSet(D)
    BY <1>1, FS_Interval
  <2>2. IsFiniteSet(D \X D)
    BY <2>1, FS_Product
  <2>3. R \in SUBSET (D \X D)
    BY <1>2
  <2>4. IsFiniteSet(R)
    BY <2>2, <2>3, FS_Subset
  <2> QED
    BY <2>4, FS_CardinalityType
<1>4. \A r \in R : r[1] \in D /\ r[2] \in D /\ r[1] <= r[2] /\ r = <<r[1], r[2]>>
  <2> SUFFICES ASSUME NEW r \in R PROVE r[1] \in D /\ r[2] \in D /\ r[1] <= r[2] /\ r = <<r[1], r[2]>>
    OBVIOUS
  <2>1. r[1] \in D /\ r[2] \in D /\ r = <<r[1], r[2]>> /\ r[2] - r[1] + 1 >= MinLength
    BY <1>2
  <2> HIDE DEF R
  <2>2. r[1] <= r[2]
    BY <1>1, <2>1
  <2> QED
    BY <2>1, <2>2
<1> HIDE DEF R
<1>5. ASSUME NEW r \in R, NEW q \in R, r[1] = q[1], r[2] < q[2]
      PROVE  FALSE
  <2>1. r[2] \in D /\ q[2] \in D /\ q[1] \in D /\ r[1] <= r[2]
    BY <1>4
  <2>2. r[2] + 1 \in q[1]..q[2] /\ r[2] < Len(s)
    BY <1>1, <1>5, <2>1
  <2> QED
    BY <1>2, <2>2
<1>6. \A r, q \in R : r[1] = q[1] => r = q
  <2> SUFFICES ASSUME NEW r \in R, NEW q \in R, r[1] = q[1] PROVE r = q
    OBVIOUS
  <2>1. r[2] \in D /\ q[2] \in D /\ r = <<r[1], r[2]>> /\ q = <<q[1], q[2]>>
    BY <1>4
  <2>2. ~(r[2] < q[2]) /\ ~(q[2] < r[2])
    BY <1>5
  <2>3. r[2] = q[2]
    BY <1>1, <2>1, <2>2
  <2> QED
    BY <2>1, <2>3
<1>7. Keys([r \in R |-> r[1]], R)
  <2> DEFINE e == [r \in R |-> r[1]]
  <2>1. \A r \in R : e[r] = r[1] /\ e[r] \in Nat
    BY <1>4
  <2> HIDE DEF e
  <2>2. Keys(e, R)
    BY <1>6, <2>1 DEF Keys
  <2> QED
    BY <2>2 DEF e
<1>8. \A r \in R : r[2] - r[1] + 1 >= MinLength /\ \A i \in r[1]..r[2] : s[i] \in Readable
  BY <1>2
<1> QED
  BY <1>3, <1>4, <1>7, <1>8 DEF R

\* What a readable string is.
ReadableStrings ==
    { t \in Seq(Byte) : Len(t) >= MinLength /\ \A i \in 1..Len(t) : t[i] \in Readable }

\* The strings of a block are readable strings.
LEMMA StringsType ==
    ASSUME NEW s \in Seq(Byte)
    PROVE  /\ Strings(s) \in Seq(Seq(Byte)) /\ Len(Strings(s)) \in Nat
           /\ Strings(s) \in Seq(ReadableStrings)
<1> DEFINE R == Runs(s)
           n == Cardinality(R)
           e == [r \in R |-> r[1]]
           at(k) == RunAt(R, k)
<1>1. IsFiniteSet(R) /\ n \in Nat /\ Keys(e, R)
  BY RunsAre
<1>2. \A r \in R : r[1] \in 1..Len(s) /\ r[2] \in 1..Len(s) /\ r[1] <= r[2]
  BY RunsAre
<1>3. Strings(s) = [k \in 1..n |-> SubSeq(s, at(k)[1], at(k)[2])]
  BY SumFunctionIs DEF Strings
<1>4. \A r \in R : Earlier(e, R, r) = { q \in R : q[1] < r[1] }
  BY DEF Earlier
<1> HIDE DEF R, e
<1>5. ASSUME NEW k \in 1..n PROVE at(k) \in R
  <2>1. \E r \in R : Cardinality(Earlier(e, R, r)) = k - 1
    BY <1>1, RankTaken DEF n
  <2>2. \E r \in R : Cardinality({ q \in R : q[1] < r[1] }) = k - 1
    BY <1>4, <2>1, SumFunctionIs
  <2> QED
    BY <2>2 DEF RunAt
<1>6. \A k \in 1..n : SubSeq(s, at(k)[1], at(k)[2]) \in ReadableStrings
  <2> SUFFICES ASSUME NEW k \in 1..n PROVE SubSeq(s, at(k)[1], at(k)[2]) \in ReadableStrings
    OBVIOUS
  <2> DEFINE a == at(k)[1]
             b == at(k)[2]
             t == SubSeq(s, a, b)
  <2>1. a \in 1..Len(s) /\ b \in 1..Len(s) /\ a <= b
    BY <1>2, <1>5
  <2>2. b - a + 1 >= MinLength /\ \A i \in a..b : s[i] \in Readable
    BY <1>5, RunsAre DEF R
  <2>3. Len(s) \in Nat /\ \A i \in 1..Len(s) : s[i] \in Byte
    BY LenProperties, ElementOfSeq
  <2> HIDE DEF a, b
  <2>4. \A i \in a..b : s[i] \in Byte
    BY <2>1, <2>3
  <2>5. /\ t \in Seq(Byte) /\ Len(t) = b - a + 1
        /\ \A i \in 1..(b - a + 1) : t[i] = s[a + i - 1]
    BY <2>1, <2>4, SubSeqProperties
  <2> HIDE DEF t
  <2>6. ASSUME NEW i \in 1..Len(t) PROVE t[i] \in Readable
    <3>1. a + i - 1 \in a..b /\ i \in 1..(b - a + 1)
      BY <2>1, <2>3, <2>5
    <3> QED
      BY <2>2, <2>5, <3>1
  <2>7. t \in ReadableStrings
    BY <2>2, <2>5, <2>6 DEF ReadableStrings
  <2> QED
    BY <2>7 DEF a, b, t
<1> HIDE DEF n, at
<1>7. Strings(s) \in [1..n -> ReadableStrings]
  BY <1>3, <1>6
<1>8. Strings(s) \in Seq(ReadableStrings) /\ Strings(s) \in Seq(Seq(Byte))
  <2>1. ReadableStrings \subseteq Seq(Byte)
    BY DEF ReadableStrings
  <2>2. Strings(s) \in [1..n -> Seq(Byte)]
    BY <1>7, <2>1
  <2> HIDE DEF R
  <2> QED
    BY <1>1, <1>7, <2>2
<1> QED
  BY <1>8, LenProperties

\* The number of bytes b in a string, and the strings a pattern is in.
OccurrencesOf(b) == [s \in Seq(Byte) |-> Cardinality(Hits({b}, s))]
Lengths == [s \in Seq(Byte) |-> Len(s)]
Matching(i) == { s \in Seq(Byte) : PartialMatch(s, Patterns[i]) }

\* The counts reduce adds up are sums and counts over the strings.
LEMMA CountersAre ==
    ASSUME NEW ss \in Seq(Seq(Byte))
    PROVE  /\ TotalLength(ss) = SumOver(Lengths, ss)
           /\ \A b : TotalOccurrences(b, ss) = SumOver(OccurrencesOf(b), ss)
<1>1. \A i \in DOMAIN ss : ss[i] \in Seq(Byte)
  BY LenProperties, ElementOfSeq
<1>2. TotalLength(ss) = SumOver(Lengths, ss)
  <2> DEFINE f == [i \in DOMAIN ss |-> Len(ss[i])]
  <2>1. f = Values(Lengths, ss)
    BY <1>1 DEF Values, Lengths
  <2>2. DOMAIN f = DOMAIN ss
    OBVIOUS
  <2>3. TotalLength(ss) = SumFunction(f)
    BY DEF TotalLength
  <2> HIDE DEF f
  <2> QED
    BY <2>1, <2>2, <2>3, SumFunctionIs DEF SumOver
<1>3. ASSUME NEW b PROVE TotalOccurrences(b, ss) = SumOver(OccurrencesOf(b), ss)
  <2> DEFINE f == [i \in DOMAIN ss |-> Occurrences(b, ss[i])]
  <2>1. \A s \in Seq(Byte) : Occurrences(b, s) = Cardinality(Hits({b}, s))
    <3> SUFFICES ASSUME NEW s \in Seq(Byte) PROVE Occurrences(b, s) = Cardinality(Hits({b}, s))
      OBVIOUS
    <3>1. { i \in DOMAIN s : s[i] = b } = Hits({b}, s)
      BY DEF Hits
    <3> QED
      BY <3>1, SumFunctionIs DEF Occurrences
  <2>2. f = Values(OccurrencesOf(b), ss)
    BY <1>1, <2>1 DEF Values, OccurrencesOf
  <2>3. DOMAIN f = DOMAIN ss
    OBVIOUS
  <2>4. TotalOccurrences(b, ss) = SumFunction(f)
    BY DEF TotalOccurrences
  <2> HIDE DEF f
  <2> QED
    BY <2>2, <2>3, <2>4, SumFunctionIs DEF SumOver
<1> QED
  BY <1>2, <1>3

\* They are functions of strings to numbers.
LEMMA ValuesTypes ==
    ASSUME NEW b
    PROVE  Lengths \in [Seq(Byte) -> Nat] /\ OccurrencesOf(b) \in [Seq(Byte) -> Nat]
<1>1. \A s \in Seq(Byte) : Len(s) \in Nat
  BY LenProperties
<1>2. \A s \in Seq(Byte) : Cardinality(Hits({b}, s)) \in Nat
  <2> SUFFICES ASSUME NEW s \in Seq(Byte) PROVE Cardinality(Hits({b}, s)) \in Nat
    OBVIOUS
  <2>1. Cardinality(Hits({b}, s)) \in 0..Len(s)
    BY HitsType
  <2> QED
    BY <1>1, <2>1
<1> QED
  BY <1>1, <1>2 DEF Lengths, OccurrencesOf

\* Counter k is that of pattern k + 1, if there is one.
LEMMA MatchesAre ==
    ASSUME NEW ss \in Seq(Seq(Byte)), NEW k \in 0..(ByteRange - 1)
    PROVE  Matches(k, ss)
              = IF k + 1 \in DOMAIN Patterns THEN Cardinality(Hits(Matching(k + 1), ss)) ELSE 0
<1> DEFINE p == k + 1
           H == Hits(Matching(p), ss)
           M == { m \in (DOMAIN Patterns) \X (DOMAIN ss) :
                    CounterIndex(m[1]) = k /\ PartialMatch(ss[m[2]], Patterns[m[1]]) }
<1>1. /\ Len(Patterns) \in Nat /\ DOMAIN Patterns = 1..Len(Patterns) /\ Len(Patterns) < ByteRange
      /\ ByteRange \in Nat
  BY StringsAssumption, LenProperties
<1>2. \A i \in DOMAIN Patterns : CounterIndex(i) = k <=> i = p
  <2> SUFFICES ASSUME NEW i \in 1..Len(Patterns) PROVE CounterIndex(i) = k <=> i = k + 1
    BY <1>1
  <2>1. (i - 1) % ByteRange = i - 1
    <3>1. \A a, n \in Nat : a < n => a % n = a
      <4> SUFFICES ASSUME NEW a \in Nat, NEW n \in Nat, a < n PROVE a % n = a
        OBVIOUS
      <4> QED
        BY SMTT(30)
    <3>2. i - 1 \in Nat /\ i - 1 < ByteRange
      BY <1>1
    <3> QED
      BY <1>1, <3>1, <3>2
  <2>2. CounterIndex(i) = i - 1
    BY <2>1 DEF CounterIndex
  <2> QED
    BY <1>1, <2>2
<1>3. \A i \in DOMAIN ss : ss[i] \in Seq(Byte)
  BY LenProperties, ElementOfSeq
<1>4. Matches(k, ss) = Cardinality(M)
  BY SumFunctionIs DEF Matches
<1>5. CASE p \in DOMAIN Patterns
  <2> DEFINE e == [j \in H |-> <<p, j>>]
  <2>1. M = { <<p, j>> : j \in H }
    BY <1>2, <1>3, <1>5 DEF Hits, Matching
  <2>2. IsFiniteSet(H)
    BY HitsType
  <2> HIDE DEF H, M, p
  <2>3. e \in Bijection(H, M)
    BY <2>1 DEF Bijection, Injection, Surjection, IsInjective
  <2>4. Cardinality(M) = Cardinality(H)
    <3>1. ExistsBijection(H, M)
      BY <2>3 DEF ExistsBijection
    <3> QED
      BY <2>2, <3>1, FS_Bijection
  <2> QED
    BY <1>4, <1>5, <2>4 DEF H, p
<1>6. CASE p \notin DOMAIN Patterns
  <2>1. M = {}
    BY <1>2, <1>6
  <2> HIDE DEF M
  <2> QED
    BY <1>4, <1>6, <2>1, FS_EmptySet
<1> QED
  BY <1>5, <1>6

\* What reduce counts are natural numbers.
LEMMA CountersType ==
    ASSUME NEW ss \in Seq(Seq(Byte))
    PROVE  /\ Len(ss) \in Nat /\ TotalLength(ss) \in Nat
           /\ \A b : TotalOccurrences(b, ss) \in Nat
           /\ \A k \in 0..(ByteRange - 1) : Matches(k, ss) \in Nat
<1>1. Len(ss) \in Nat
  BY LenProperties
<1>2. TotalLength(ss) \in Nat
  <2>1. SumOver(Lengths, ss) \in Nat
    BY ValuesTypes, SumOverType
  <2> QED
    BY <2>1, CountersAre
<1>3. ASSUME NEW b PROVE TotalOccurrences(b, ss) \in Nat
  <2>1. SumOver(OccurrencesOf(b), ss) \in Nat
    BY ValuesTypes, SumOverType
  <2> QED
    BY <2>1, CountersAre
<1>4. ASSUME NEW k \in 0..(ByteRange - 1) PROVE Matches(k, ss) \in Nat
  <2>1. Cardinality(Hits(Matching(k + 1), ss)) \in 0..Len(ss)
    BY HitsType
  <2>2. Cardinality(Hits(Matching(k + 1), ss)) \in Nat
    BY <1>1, <2>1
  <2> QED
    BY <2>2, MatchesAre
<1> QED
  BY <1>1, <1>2, <1>3, <1>4

\* The counts of one list of strings after another.
CountsAddUp(s, t) ==
    /\ s \o t \in Seq(Seq(Byte)) /\ Len(s \o t) = Len(s) + Len(t)
    /\ TotalLength(s \o t) = TotalLength(s) + TotalLength(t)
    /\ \A b : TotalOccurrences(b, s \o t) = TotalOccurrences(b, s) + TotalOccurrences(b, t)
    /\ \A k \in 0..(ByteRange - 1) : Matches(k, s \o t) = Matches(k, s) + Matches(k, t)

\* They add up.
LEMMA CountersConcat ==
    ASSUME NEW s \in Seq(Seq(Byte)), NEW t \in Seq(Seq(Byte))
    PROVE  CountsAddUp(s, t)
<1> DEFINE u == s \o t
<1>1. u \in Seq(Seq(Byte)) /\ Len(u) = Len(s) + Len(t)
  BY ConcatProperties
<1>2. TotalLength(u) = TotalLength(s) + TotalLength(t)
  <2>1. SumOver(Lengths, u) = SumOver(Lengths, s) + SumOver(Lengths, t)
    BY ValuesTypes, SumOverConcat
  <2> HIDE DEF u
  <2> QED
    BY <1>1, <2>1, CountersAre
<1>3. ASSUME NEW b
      PROVE  TotalOccurrences(b, u) = TotalOccurrences(b, s) + TotalOccurrences(b, t)
  <2>1. SumOver(OccurrencesOf(b), u) = SumOver(OccurrencesOf(b), s) + SumOver(OccurrencesOf(b), t)
    BY ValuesTypes, SumOverConcat
  <2> HIDE DEF u
  <2> QED
    BY <1>1, <2>1, CountersAre
<1>4. ASSUME NEW k \in 0..(ByteRange - 1)
      PROVE  Matches(k, u) = Matches(k, s) + Matches(k, t)
  <2> DEFINE Q == Matching(k + 1)
  <2>1. Cardinality(Hits(Q, u)) = Cardinality(Hits(Q, s)) + Cardinality(Hits(Q, t))
    BY HitsConcat
  <2> HIDE DEF u, Q
  <2>2. /\ Matches(k, u) = IF k + 1 \in DOMAIN Patterns THEN Cardinality(Hits(Q, u)) ELSE 0
        /\ Matches(k, s) = IF k + 1 \in DOMAIN Patterns THEN Cardinality(Hits(Q, s)) ELSE 0
        /\ Matches(k, t) = IF k + 1 \in DOMAIN Patterns THEN Cardinality(Hits(Q, t)) ELSE 0
    BY <1>1, MatchesAre DEF Q
  <2> QED
    BY <2>1, <2>2
<1> QED
  BY <1>1, <1>2, <1>3, <1>4 DEF CountsAddUp

\* Of no strings there are none.
LEMMA CountersNone ==
    /\ <<>> \in Seq(Seq(Byte)) /\ Len(<<>>) = 0 /\ TotalLength(<<>>) = 0
    /\ \A b : TotalOccurrences(b, <<>>) = 0
    /\ \A k \in 0..(ByteRange - 1) : Matches(k, <<>>) = 0
<1>1. <<>> \in Seq(Seq(Byte)) /\ Len(<<>>) = 0
  OBVIOUS
<1>2. SumOver(Lengths, <<>>) = 0
  BY <1>1, ValuesTypes, SumOverType
<1>3. \A b : SumOver(OccurrencesOf(b), <<>>) = 0
  BY <1>1, ValuesTypes, SumOverType
<1>4. ASSUME NEW k \in 0..(ByteRange - 1) PROVE Matches(k, <<>>) = 0
  <2>1. Cardinality(Hits(Matching(k + 1), <<>>)) = 0
    BY <1>1, HitsType
  <2> QED
    BY <1>1, <2>1, MatchesAre
<1> QED
  BY <1>1, <1>2, <1>3, <1>4, CountersAre

\* What the members of the string extractor have in common once they were reset.
StringsAgree ==
    /\ sumReadableStringLengths = totalNumReadable
    /\ numReadableStrings = 0 => totalNumReadable = 0
    /\ Total(readableCounts, Readable) = totalNumReadable
    /\ numReadableStrings * MinLength <= totalNumReadable
    /\ \A i \in DOMAIN Patterns : interestingCounts[i - 1] <= numReadableStrings
    /\ \A i, j \in DOMAIN Patterns :
          Patterns[i] = Patterns[j] => interestingCounts[i - 1] = interestingCounts[j - 1]

\* There are finitely many bytes, and the counter of every pattern is one there is.
LEMMA ReadableFinite ==
    /\ IsFiniteSet(Readable)
    /\ \A i \in DOMAIN Patterns : i - 1 \in 0..(ByteRange - 1) /\ (i - 1) + 1 = i
    /\ MinLength \in Nat
<1>1. IsFiniteSet(Readable)
  BY StringsAssumption
<1>2. ASSUME NEW i \in DOMAIN Patterns PROVE i - 1 \in 0..(ByteRange - 1) /\ (i - 1) + 1 = i
  <2>1. i \in 1..Len(Patterns) /\ Len(Patterns) \in Nat /\ Len(Patterns) < ByteRange /\ ByteRange \in Nat
    BY StringsAssumption, LenProperties
  <2> QED
    BY <2>1
<1> QED
  BY <1>1, <1>2, StringsAssumption

\* In a readable string every byte is a readable one, counted once.
LEMMA ReadableTotal ==
    ASSUME NEW t \in ReadableStrings
    PROVE  Total([b \in Readable |-> OccurrencesOf(b)[t]], Readable) = Len(t)
<1> DEFINE n == Len(t)
           c == [b \in Readable |-> Count(With(t, n, b), n)]
           o == [b \in Readable |-> OccurrencesOf(b)[t]]
<1>1. t \in Seq(Byte) /\ n \in Nat /\ DOMAIN t = 1..n /\ \A i \in 1..n : t[i] \in Readable
  BY LenProperties DEF ReadableStrings
<1>2. \A b \in Readable : c[b] = o[b]
  <2> SUFFICES ASSUME NEW b \in Readable
               PROVE  Count(With(t, n, b), n) = Cardinality(Hits({b}, t))
    BY <1>1 DEF OccurrencesOf
  <2>1. { i \in 1..n : i \in With(t, n, b) } = Hits({b}, t)
    BY <1>1 DEF With, Hits
  <2> QED
    BY <2>1 DEF Count
<1> HIDE DEF n, o
<1>3. Total(c, Readable) = n
  BY <1>1, ReadableFinite, CountsTotal
<1> HIDE DEF c
<1>4. Total(c, Readable) = Total(o, Readable)
  BY <1>2, ReadableFinite, TotalEqual
<1> QED
  BY <1>3, <1>4 DEF n, o

\* The counts of the readable bytes of strings add up to their lengths, and the strings
\* are long enough.
LEMMA StringTotals ==
    ASSUME NEW ss \in Seq(ReadableStrings), ss \in Seq(Seq(Byte))
    PROVE  /\ Total([b \in Readable |-> TotalOccurrences(b, ss)], Readable) = TotalLength(ss)
           /\ Len(ss) * MinLength <= TotalLength(ss)
           /\ Len(ss) = 0 => TotalLength(ss) = 0
<1> DEFINE D == DOMAIN ss
           a == [b \in Readable |-> Values(OccurrencesOf(b), ss)]
           o == [b \in Readable |-> TotalOccurrences(b, ss)]
           l == Values(Lengths, ss)
<1>1. /\ D = 1..Len(ss) /\ Len(ss) \in Nat /\ IsFiniteSet(D) /\ Cardinality(D) = Len(ss)
      /\ \A i \in D : ss[i] \in ReadableStrings /\ ss[i] \in Seq(Byte)
  <2>1. /\ D = 1..Len(ss) /\ Len(ss) \in Nat
        /\ \A i \in 1..Len(ss) : ss[i] \in ReadableStrings /\ ss[i] \in Seq(Byte)
    BY LenProperties, ElementOfSeq
  <2>2. IsFiniteSet(1..Len(ss)) /\ Cardinality(1..Len(ss)) = Len(ss)
    <3>1. \A n \in Nat : IsFiniteSet(1..n) /\ Cardinality(1..n) = n
      BY FS_Interval
    <3> QED
      BY <2>1, <3>1
  <2> HIDE DEF D
  <2> QED
    BY <2>1, <2>2
<1>2. \A i \in D : l[i] = Len(ss[i]) /\ l[i] \in Int /\ MinLength <= l[i]
  <2> SUFFICES ASSUME NEW i \in D PROVE l[i] = Len(ss[i]) /\ l[i] \in Int /\ MinLength <= l[i]
    OBVIOUS
  <2>1. l[i] = Len(ss[i])
    BY <1>1 DEF Values, Lengths
  <2>2. Len(ss[i]) \in Nat /\ Len(ss[i]) >= MinLength
    BY <1>1, LenProperties DEF ReadableStrings
  <2> HIDE DEF l, D
  <2> QED
    BY <2>1, <2>2, StringsAssumption
<1>3. TotalLength(ss) = Total(l, D)
  BY CountersAre DEF SumOver
<1>4. \A b \in Readable : o[b] = RowSums(a, Readable, D)[b]
  BY CountersAre DEF SumOver, RowSums
<1>5. \A b \in Readable : IntOn(a[b], D)
  <2> SUFFICES ASSUME NEW b \in Readable, NEW i \in D PROVE OccurrencesOf(b)[ss[i]] \in Int
    BY DEF IntOn, Values
  <2>1. OccurrencesOf(b) \in [Seq(Byte) -> Nat] /\ ss[i] \in Seq(Byte)
    BY <1>1, ValuesTypes
  <2> QED
    BY <2>1
<1>6. \A i \in D : ColumnSums(a, Readable, D, Readable)[i] = l[i]
  <2> SUFFICES ASSUME NEW i \in D PROVE ColumnSums(a, Readable, D, Readable)[i] = l[i]
    OBVIOUS
  <2>1. ColumnOf(a, Readable, i) = [b \in Readable |-> OccurrencesOf(b)[ss[i]]]
    BY DEF ColumnOf, Values
  <2>2. ColumnSums(a, Readable, D, Readable)[i] = Total(ColumnOf(a, Readable, i), Readable)
    BY DEF ColumnSums
  <2>3. Total([b \in Readable |-> OccurrencesOf(b)[ss[i]]], Readable) = Len(ss[i])
    BY <1>1, ReadableTotal
  <2> QED
    BY <1>2, <2>1, <2>2, <2>3
<1> HIDE DEF D, a, l, o
<1>7. Total(o, Readable) = Total(RowSums(a, Readable, D), Readable)
  BY <1>4, ReadableFinite, TotalEqual
<1>8. Total(RowSums(a, Readable, D), Readable) = Total(ColumnSums(a, Readable, D, Readable), D)
  BY <1>1, <1>5, ReadableFinite, TotalSwapped
<1>9. Total(ColumnSums(a, Readable, D, Readable), D) = Total(l, D)
  BY <1>1, <1>6, TotalEqual
<1>10. Len(ss) * MinLength <= Total(l, D)
  <2>1. Cardinality(D) * MinLength <= Total(l, D)
    BY <1>1, <1>2, ReadableFinite, TotalAtLeast
  <2> QED
    BY <1>1, <2>1
<1>11. Len(ss) = 0 => Total(l, D) = 0
  <2>1. Len(ss) = 0 => D = {}
    BY <1>1
  <2> QED
    BY <2>1, TotalEmpty
<1> QED
  BY <1>3, <1>7, <1>8, <1>9, <1>10, <1>11 DEF o

\* No pattern is in more strings than there are, and equal patterns are in the same ones.
LEMMA PatternsAgree ==
    ASSUME NEW ss \in Seq(Seq(Byte)), NEW i \in DOMAIN Patterns
    PROVE  /\ Matches(i - 1, ss) \in Nat /\ Matches(i - 1, ss) <= Len(ss)
           /\ \A j \in DOMAIN Patterns :
                Patterns[i] = Patterns[j] => Matches(i - 1, ss) = Matches(j - 1, ss)
<1>1. \A j \in DOMAIN Patterns : Matches(j - 1, ss) = Cardinality(Hits(Matching(j), ss))
  <2> SUFFICES ASSUME NEW j \in DOMAIN Patterns
               PROVE  Matches(j - 1, ss) = Cardinality(Hits(Matching(j), ss))
    OBVIOUS
  <2> DEFINE k == j - 1
  <2>1. k \in 0..(ByteRange - 1) /\ k + 1 = j
    BY ReadableFinite
  <2> HIDE DEF k
  <2>2. Matches(k, ss) = Cardinality(Hits(Matching(k + 1), ss))
    BY <2>1, MatchesAre
  <2> QED
    BY <2>1, <2>2 DEF k
<1>2. Cardinality(Hits(Matching(i), ss)) \in 0..Len(ss) /\ Len(ss) \in Nat
  BY HitsType, LenProperties
<1>3. \A j \in DOMAIN Patterns : Patterns[i] = Patterns[j] => Matching(i) = Matching(j)
  BY DEF Matching
<1> QED
  BY <1>1, <1>2, <1>3

\* reset.
LEMMA AgreeReset ==
    ASSUME Reset
    PROVE  StringsAgree'
<1>1. /\ numReadableStrings' = 0 /\ sumReadableStringLengths' = 0 /\ totalNumReadable' = 0
      /\ readableCounts' = [b \in Readable |-> 0]
      /\ interestingCounts' = [k \in 0..(ByteRange - 1) |-> 0]
  BY DEF Reset
<1>2. Total(readableCounts', Readable) = 0
  <2> DEFINE z == [b \in Readable |-> 0]
  <2>1. IntOn(z, Readable) /\ \A b \in Readable : z[b] = 0
    BY DEF IntOn
  <2> HIDE DEF z
  <2>2. Total(z, Readable) = Total(z, {})
    BY <2>1, ReadableFinite, TotalZeros
  <2>3. Total(z, {}) = 0
    BY TotalEmpty
  <2> QED
    BY <1>1, <2>2, <2>3 DEF z
<1>3. \A i \in DOMAIN Patterns : interestingCounts'[i - 1] = 0
  BY <1>1, ReadableFinite
<1>4. numReadableStrings' * MinLength <= totalNumReadable'
  <2>1. 0 * MinLength <= 0
    BY ReadableFinite
  <2> QED
    BY <1>1, <2>1
<1>5. \A i \in DOMAIN Patterns : interestingCounts'[i - 1] <= numReadableStrings'
  <2>1. 0 <= 0
    OBVIOUS
  <2> QED
    BY <1>1, <1>3, <2>1, Zenon
<1> QED
  BY <1>1, <1>2, <1>3, <1>4, <1>5 DEF StringsAgree

\* reduce.
LEMMA AgreeReduce ==
    ASSUME NEW chunk \in Seq(Byte), StringsTypeOK, StringsAgree, Reduce(chunk)
    PROVE  StringsAgree'
<1> DEFINE ss == Strings(chunk)
           f == readableCounts
           g == [b \in Readable |-> TotalOccurrences(b, ss)]
<1>1. /\ numReadableStrings' = numReadableStrings + Len(ss)
      /\ sumReadableStringLengths' = sumReadableStringLengths + TotalLength(ss)
      /\ readableCounts' = [b \in Readable |-> readableCounts[b] + TotalOccurrences(b, ss)]
      /\ totalNumReadable' = totalNumReadable + TotalLength(ss)
      /\ interestingCounts' = [k \in 0..(ByteRange - 1) |-> interestingCounts[k] + Matches(k, ss)]
  BY DEF Reduce
<1>2. ss \in Seq(Seq(Byte)) /\ ss \in Seq(ReadableStrings) /\ Len(ss) \in Nat
  BY StringsType
<1> HIDE DEF ss
<1>3. /\ TotalLength(ss) \in Nat /\ \A b \in Readable : g[b] \in Int
      /\ Total(g, Readable) = TotalLength(ss) /\ Len(ss) * MinLength <= TotalLength(ss)
      /\ Len(ss) = 0 => TotalLength(ss) = 0
  BY <1>2, CountersType, StringTotals
<1>4. /\ numReadableStrings \in Nat /\ sumReadableStringLengths \in Nat /\ totalNumReadable \in Nat
      /\ \A b \in Readable : f[b] \in Int
      /\ \A k \in 0..(ByteRange - 1) : interestingCounts[k] \in Nat
  BY DEF StringsTypeOK
<1>5. Total(readableCounts', Readable) = totalNumReadable'
  <2>1. SumsOn(readableCounts', f, g, Readable)
    BY <1>1 DEF SumsOn
  <2>2. IntOn(f, Readable) /\ IntOn(g, Readable)
    BY <1>3, <1>4 DEF IntOn
  <2> HIDE DEF f, g
  <2>3. Total(readableCounts', Readable) = Total(f, Readable) + Total(g, Readable)
    BY <2>1, <2>2, ReadableFinite, TotalOfSums
  <2> QED
    BY <1>1, <1>3, <2>3 DEF StringsAgree, f
<1>6. numReadableStrings' * MinLength <= totalNumReadable'
  <2>1. \A m, n, k \in Nat : (m + n) * k = m * k + n * k /\ m * k \in Nat /\ n * k \in Nat
    OBVIOUS
  <2>2. /\ (numReadableStrings + Len(ss)) * MinLength
              = numReadableStrings * MinLength + Len(ss) * MinLength
        /\ numReadableStrings * MinLength \in Nat /\ Len(ss) * MinLength \in Nat
    BY <1>2, <1>4, <2>1, ReadableFinite
  <2>3. numReadableStrings * MinLength <= totalNumReadable
    BY DEF StringsAgree
  <2> DEFINE x == numReadableStrings * MinLength
             y == Len(ss) * MinLength
             z == numReadableStrings' * MinLength
  <2>4. z = x + y /\ x \in Nat /\ y \in Nat /\ x <= totalNumReadable /\ y <= TotalLength(ss)
    BY <1>1, <1>3, <2>2, <2>3
  <2> HIDE DEF x, y, z
  <2>5. z <= totalNumReadable'
    BY <1>1, <1>3, <1>4, <2>4
  <2> QED
    BY <2>5 DEF z
<1>7. \A i \in DOMAIN Patterns :
         /\ interestingCounts'[i - 1] = interestingCounts[i - 1] + Matches(i - 1, ss)
         /\ interestingCounts[i - 1] \in Nat /\ interestingCounts[i - 1] <= numReadableStrings
         /\ Matches(i - 1, ss) \in Nat /\ Matches(i - 1, ss) <= Len(ss)
  BY <1>1, <1>2, <1>4, ReadableFinite, PatternsAgree DEF StringsAgree
<1>8. \A i \in DOMAIN Patterns : interestingCounts'[i - 1] <= numReadableStrings'
  <2> SUFFICES ASSUME NEW i \in DOMAIN Patterns
               PROVE  interestingCounts'[i - 1] <= numReadableStrings'
    OBVIOUS
  <2> DEFINE x == interestingCounts[i - 1]
             y == Matches(i - 1, ss)
  <2>1. /\ interestingCounts'[i - 1] = x + y /\ x \in Nat /\ y \in Nat
        /\ x <= numReadableStrings /\ y <= Len(ss)
    BY <1>7
  <2> HIDE DEF x, y
  <2>2. numReadableStrings' = numReadableStrings + Len(ss)
    BY <1>1
  <2> QED
    BY <1>2, <1>4, <2>1, <2>2
<1>9. ASSUME NEW i \in DOMAIN Patterns, NEW j \in DOMAIN Patterns, Patterns[i] = Patterns[j]
      PROVE  interestingCounts'[i - 1] = interestingCounts'[j - 1]
  <2>1. /\ interestingCounts[i - 1] = interestingCounts[j - 1]
        /\ Matches(i - 1, ss) = Matches(j - 1, ss)
    BY <1>2, <1>9, PatternsAgree DEF StringsAgree
  <2> QED
    BY <1>7, <2>1
<1>10. sumReadableStringLengths' = totalNumReadable'
  BY <1>1 DEF StringsAgree
<1>11. numReadableStrings' = 0 => totalNumReadable' = 0
  <2>1. numReadableStrings = 0 => totalNumReadable = 0
    BY DEF StringsAgree
  <2>2. numReadableStrings' = 0 => numReadableStrings = 0 /\ Len(ss) = 0
    BY <1>1, <1>2, <1>4
  <2> QED
    BY <1>1, <1>3, <2>1, <2>2
<1> QED
  BY <1>5, <1>6, <1>8, <1>9, <1>10, <1>11 DEF StringsAgree

-----------------------------------------------------------------------------
(* Where a string is cut *)

\* A sum over two parts of a set.
LEMMA TotalSplit ==
    ASSUME NEW f, NEW S, IsFiniteSet(S), IntOn(f, S), NEW A \in SUBSET S, NEW B,
           B = S \ A
    PROVE  /\ Total(f, S) = Total(f, A) + Total(f, B)
           /\ Total(f, A) \in Int /\ Total(f, B) \in Int
<1> DEFINE g == [x \in S |-> IF x \in A THEN f[x] ELSE 0]
           h == [x \in S |-> IF x \in A THEN 0 ELSE f[x]]
<1>1. IntOn(g, S) /\ IntOn(h, S) /\ SumsOn(f, g, h, S)
  BY DEF IntOn, SumsOn
<1>2. B \in SUBSET S /\ IsFiniteSet(A) /\ IsFiniteSet(B)
  BY FS_Subset
<1>3. /\ \A x \in S \ A : g[x] = 0
      /\ \A x \in S \ B : h[x] = 0
      /\ \A x \in A : g[x] = f[x]
      /\ \A x \in B : h[x] = f[x]
  OBVIOUS
<1> HIDE DEF g, h
<1>4. Total(f, S) = Total(g, S) + Total(h, S)
  BY <1>1, TotalOfSums
<1>5. Total(g, S) = Total(g, A) /\ Total(h, S) = Total(h, B)
  BY <1>1, <1>2, <1>3, TotalZeros
<1>6. Total(g, A) = Total(f, A) /\ Total(h, B) = Total(f, B)
  BY <1>2, <1>3, TotalEqual
<1>7. Total(f, A) \in Int /\ Total(f, B) \in Int
  BY <1>2, TotalInt DEF IntOn
<1> QED
  BY <1>4, <1>5, <1>6, <1>7

\* The bytes of s at a run, and what w gives to them.
Part(s, r) == SubSeq(s, r[1], r[2])
AtRun(w, s) == [r \in (1..Len(s)) \X (1..Len(s)) |-> w[Part(s, r)]]

\* The strings of s that end before position p, and those that begin after m.
EndBefore(s, p) == { r \in Runs(s) : r[2] < p }
BeginAfter(s, m) == { r \in Runs(s) : r[1] > m }

Before(w, s, p) == Total(AtRun(w, s), EndBefore(s, p))
After(w, s, m) == Total(AtRun(w, s), BeginAfter(s, m))

\* What a readable stretch of bytes is worth: only one long enough is a string.
Worth(w, t) == IF Len(t) >= MinLength THEN w[t] ELSE 0

\* The values at runs are natural numbers.
LEMMA AtRunType ==
    ASSUME NEW w \in [Seq(Byte) -> Nat], NEW s \in Seq(Byte)
    PROVE  /\ Runs(s) \subseteq (1..Len(s)) \X (1..Len(s))
           /\ \A r \in Runs(s) : Part(s, r) \in Seq(Byte) /\ AtRun(w, s)[r] = w[Part(s, r)]
           /\ IntOn(AtRun(w, s), Runs(s)) /\ \A r \in Runs(s) : AtRun(w, s)[r] \in Nat
<1>1. Runs(s) \subseteq (1..Len(s)) \X (1..Len(s))
  BY DEF Runs
<1>2. ASSUME NEW r \in Runs(s)
      PROVE  /\ Part(s, r) \in Seq(Byte)
             /\ AtRun(w, s)[r] = w[Part(s, r)] /\ AtRun(w, s)[r] \in Nat
  <2> DEFINE i == r[1]
             j == r[2]
  <2>1. i \in 1..Len(s) /\ j \in 1..Len(s) /\ r \in (1..Len(s)) \X (1..Len(s))
    BY <1>1, RunsAre
  <2>2. Len(s) \in Nat /\ \A k \in 1..Len(s) : s[k] \in Byte
    BY LenProperties, ElementOfSeq
  <2>3. AtRun(w, s)[r] = w[SubSeq(s, i, j)] /\ Part(s, r) = SubSeq(s, i, j)
    BY <2>1 DEF AtRun, Part
  <2> HIDE DEF i, j
  <2>4. \A k \in i..j : s[k] \in Byte
    BY <2>1, <2>2
  <2>5. SubSeq(s, i, j) \in Seq(Byte)
    BY <2>1, <2>4, SubSeqProperties
  <2>6. w[SubSeq(s, i, j)] \in Nat
    BY <2>5
  <2> QED
    BY <2>3, <2>5, <2>6
<1> QED
  BY <1>1, <1>2 DEF IntOn

\* A sum over the strings is one over the runs.
LEMMA SumOfRuns ==
    ASSUME NEW w \in [Seq(Byte) -> Nat], NEW s \in Seq(Byte)
    PROVE  SumOver(w, Strings(s)) = Total(AtRun(w, s), Runs(s))
<1> DEFINE R == Runs(s)
           n == Cardinality(R)
           D == 1..n
           e == [r \in R |-> r[1]]
           at == [k \in D |-> RunAt(R, k)]
           f == AtRun(w, s)
           g == Values(w, Strings(s))
<1>1. IsFiniteSet(R) /\ n \in Nat /\ Keys(e, R) /\ IsFiniteSet(D) /\ Cardinality(D) = n
  <2>1. IsFiniteSet(R) /\ n \in Nat /\ Keys(e, R)
    BY RunsAre
  <2>2. IsFiniteSet(D) /\ Cardinality(D) = n
    BY <2>1, FirstPositions
  <2> QED
    BY <2>1, <2>2
<1>2. \A r \in R : Earlier(e, R, r) = { q \in R : q[1] < r[1] }
  BY DEF Earlier
<1>3. DOMAIN Strings(s) = D /\ \A k \in D : Strings(s)[k] = Part(s, at[k])
  BY DEF Strings, Part
<1>4. IntOn(f, R) /\ \A r \in R : f[r] = w[Part(s, r)]
  BY AtRunType
<1>5. \A k \in D : g[k] = w[Part(s, at[k])]
  BY <1>3 DEF Values
<1>6. \A k \in D : at[k] = CHOOSE r \in R : Cardinality({ q \in R : q[1] < r[1] }) = k - 1
  BY DEF RunAt
<1>7. SumOver(w, Strings(s)) = Total(g, D)
  BY <1>3 DEF SumOver
<1> HIDE DEF R, e, f, g, at
<1>8. \A k \in D : at[k] \in R /\ Cardinality(Earlier(e, R, at[k])) = k - 1
  <2> SUFFICES ASSUME NEW k \in D PROVE at[k] \in R /\ Cardinality(Earlier(e, R, at[k])) = k - 1
    OBVIOUS
  <2>1. \E r \in R : Cardinality(Earlier(e, R, r)) = k - 1
    BY <1>1, RankTaken
  <2>2. \E r \in R : Cardinality({ q \in R : q[1] < r[1] }) = k - 1
    BY <1>2, <2>1
  <2>3. at[k] \in R /\ Cardinality({ q \in R : q[1] < at[k][1] }) = k - 1
    BY <1>6, <2>2
  <2> QED
    BY <1>2, <2>3
<1> DEFINE X == { at[k] : k \in D }
<1>9. \A k, l \in D : k # l => at[k] # at[l]
  <2> SUFFICES ASSUME NEW k \in D, NEW l \in D, at[k] = at[l] PROVE k = l
    OBVIOUS
  <2>1. k - 1 = l - 1
    BY <1>8
  <2> HIDE DEF n
  <2> QED
    BY <1>1, <2>1
<1>10. X = R
  <2>1. X \subseteq R
    BY <1>8
  <2>2. \A k \in D : at[k] \in X
    OBVIOUS
  <2>3. at \in Bijection(D, X)
    <3>1. DOMAIN at = D
      BY DEF at
    <3>2. at \in [D -> X]
      <4>1. at = [k \in D |-> at[k]]
        BY DEF at
      <4> HIDE DEF X
      <4> QED
        BY <2>2, <4>1
    <3> QED
      BY <1>9, <3>1, <3>2 DEF Bijection, Injection, Surjection, IsInjective
  <2> HIDE DEF X, D
  <2>4. ExistsBijection(D, X)
    BY <2>3 DEF ExistsBijection
  <2>5. IsFiniteSet(X) /\ Cardinality(X) = Cardinality(D)
    BY <1>1, <2>4, FS_Bijection
  <2> QED
    BY <1>1, <2>1, <2>5, FS_Subset
<1>11. Renames(at, D, R, f, g)
  BY <1>4, <1>5, <1>8, <1>9, <1>10 DEF Renames
<1>12. IntOn(g, D)
  <2> SUFFICES ASSUME NEW k \in D PROVE g[k] \in Int
    BY DEF IntOn
  <2>1. at[k] \in R
    BY <1>8
  <2>2. f[at[k]] \in Int
    BY <1>4, <2>1 DEF IntOn
  <2> QED
    BY <1>4, <1>5, <2>1, <2>2
<1> HIDE DEF D
<1>13. Total(f, R) = Total(g, D)
  BY <1>1, <1>11, <1>12, TotalRenamed
<1> QED
  BY <1>7, <1>13 DEF f, R

\* The bytes of s from i to j are a readable stretch that nothing readable adjoins;
\* there may be none of them.
Stretch(s, i, j) ==
    /\ i \in 1..(Len(s) + 1) /\ j \in (i - 1)..Len(s)
    /\ \A k \in i..j : s[k] \in Readable
    /\ i > 1 => s[i - 1] \notin Readable
    /\ j < Len(s) => s[j + 1] \notin Readable

\* A run is that stretch, or is before it, or after it.
LEMMA RunsAround ==
    ASSUME NEW s \in Seq(Byte), NEW i, NEW j, Stretch(s, i, j), NEW r \in Runs(s)
    PROVE  r = <<i, j>> \/ r[2] < i - 1 \/ r[1] > j + 1
<1> DEFINE a == r[1]
           b == r[2]
<1>1. /\ a \in 1..Len(s) /\ b \in 1..Len(s) /\ r = <<a, b>> /\ a <= b
      /\ \A k \in a..b : s[k] \in Readable
      /\ a > 1 => s[a - 1] \notin Readable
      /\ b < Len(s) => s[b + 1] \notin Readable
  <2>1. a \in 1..Len(s) /\ b \in 1..Len(s) /\ a <= b
    BY RunsAre
  <2>2. /\ r = <<a, b>>
        /\ \A k \in a..b : s[k] \in Readable
        /\ a > 1 => s[a - 1] \notin Readable
        /\ b < Len(s) => s[b + 1] \notin Readable
    BY DEF Runs
  <2> QED
    BY <2>1, <2>2, Zenon
<1>2. /\ i \in 1..(Len(s) + 1) /\ j \in (i - 1)..Len(s) /\ Len(s) \in Nat
      /\ \A k \in i..j : s[k] \in Readable
      /\ i > 1 => s[i - 1] \notin Readable
      /\ j < Len(s) => s[j + 1] \notin Readable
  BY LenProperties DEF Stretch
<1> SUFFICES ASSUME b >= i - 1, a <= j + 1 PROVE a = i /\ b = j
  BY <1>1, <1>2
<1> HIDE DEF a, b
<1>3. a >= i
  <2>1. ~(i > 1 /\ i - 1 \in a..b)
    BY <1>1, <1>2
  <2> QED
    BY <1>1, <1>2, <2>1
<1>4. b <= j
  <2>1. ~(j < Len(s) /\ j + 1 \in a..b)
    BY <1>1, <1>2
  <2> QED
    BY <1>1, <1>2, <2>1
<1>5. a = i
  <2>1. ~(a > 1 /\ a - 1 \in i..j)
    BY <1>1, <1>2
  <2> QED
    BY <1>1, <1>2, <1>3, <1>4, <2>1
<1>6. b = j
  <2>1. ~(b < Len(s) /\ b + 1 \in i..j)
    BY <1>1, <1>2
  <2> QED
    BY <1>1, <1>2, <1>3, <1>4, <2>1
<1> QED
  BY <1>5, <1>6

\* A sum over the strings is the sum over those before the stretch and over those
\* after it, and what the stretch is worth.
LEMMA SumAround ==
    ASSUME NEW w \in [Seq(Byte) -> Nat], NEW s \in Seq(Byte), NEW i, NEW j, Stretch(s, i, j)
    PROVE  /\ SumOver(w, Strings(s))
                 = Before(w, s, i - 1) + After(w, s, j + 1) + Worth(w, SubSeq(s, i, j))
           /\ Before(w, s, i - 1) \in Nat /\ After(w, s, j + 1) \in Nat
           /\ SubSeq(s, i, j) \in Seq(Byte) /\ Len(SubSeq(s, i, j)) = j - i + 1
<1> DEFINE R == Runs(s)
           A == EndBefore(s, i - 1)
           B == BeginAfter(s, j + 1)
           M == (R \ A) \ B
           f == AtRun(w, s)
           t == SubSeq(s, i, j)
<1>1. /\ i \in 1..(Len(s) + 1) /\ j \in (i - 1)..Len(s) /\ Len(s) \in Nat
      /\ \A k \in i..j : s[k] \in Readable
      /\ i > 1 => s[i - 1] \notin Readable
      /\ j < Len(s) => s[j + 1] \notin Readable
  BY LenProperties DEF Stretch
<1>2. /\ IsFiniteSet(R) /\ R \subseteq (1..Len(s)) \X (1..Len(s))
      /\ \A r \in R : r[1] \in 1..Len(s) /\ r[2] \in 1..Len(s) /\ r[1] <= r[2]
      /\ IntOn(f, R) /\ \A r \in R : f[r] \in Nat /\ f[r] = w[Part(s, r)]
  BY RunsAre, AtRunType
<1>3. t \in Seq(Byte) /\ Len(t) = j - i + 1
  <2>1. \A k \in i..j : s[k] \in Byte
    BY <1>1, ElementOfSeq
  <2>2. i \in Int /\ j \in Int
    BY <1>1
  <2>3. t \in Seq(Byte) /\ Len(t) = IF i <= j THEN j - i + 1 ELSE 0
    BY <2>1, <2>2, SubSeqProperties
  <2> HIDE DEF t
  <2> QED
    BY <1>1, <2>3
<1>4. /\ A \in SUBSET R /\ B \in SUBSET R
      /\ \A r \in A : r[2] < i - 1
      /\ \A r \in B : r[1] > j + 1
      /\ \A r \in R : r[2] < i - 1 => r \in A
      /\ \A r \in R : r[1] > j + 1 => r \in B
  BY DEF EndBefore, BeginAfter
<1>5. <<i, j>> \in R <=> Len(t) >= MinLength
  <2>1. MinLength \in Nat \ {0}
    BY StringsAssumption
  <2> HIDE DEF t
  <2>2. ASSUME Len(t) >= MinLength PROVE <<i, j>> \in R
    <3>1. i \in 1..Len(s) /\ j \in 1..Len(s) /\ j - i + 1 >= MinLength
      BY <1>1, <1>3, <2>1, <2>2
    <3> QED
      BY <1>1, <3>1 DEF Runs
  <2>3. ASSUME <<i, j>> \in R PROVE Len(t) >= MinLength
    <3>1. j - i + 1 >= MinLength
      BY <2>3 DEF Runs
    <3> QED
      BY <1>3, <3>1
  <2> QED
    BY <2>2, <2>3
<1> HIDE DEF R, A, B, f, t
<1>6. M = IF Len(t) >= MinLength THEN {<<i, j>>} ELSE {}
  <2>1. \A r \in R : r \in M <=> ~(r[2] < i - 1) /\ ~(r[1] > j + 1)
    BY <1>4
  <2>2. \A r \in M : r = <<i, j>>
    BY <2>1, RunsAround DEF R
  <2>3. <<i, j>> \in R => <<i, j>> \in M
    BY <1>1, <2>1
  <2>4. M \subseteq R
    OBVIOUS
  <2> HIDE DEF M
  <2> QED
    BY <1>5, <2>2, <2>3, <2>4
<1>7. B \subseteq R \ A
  <2> SUFFICES ASSUME NEW r \in B, r \in A PROVE FALSE
    BY <1>4
  <2> QED
    BY <1>1, <1>2, <1>4
<1>8. IsFiniteSet(R \ A) /\ IntOn(f, R \ A) /\ IsFiniteSet(A) /\ IsFiniteSet(B)
  BY <1>2, <1>4, FS_Subset DEF IntOn
<1>9. /\ Total(f, R) = Total(f, A) + Total(f, R \ A)
      /\ Total(f, A) \in Int /\ Total(f, R \ A) \in Int
  <2> DEFINE C == R \ A
  <2>1. C = R \ A
    OBVIOUS
  <2>2. IsFiniteSet(R) /\ IntOn(f, R) /\ A \in SUBSET R
    BY <1>2, <1>4
  <2> HIDE DEF C
  <2>3. Total(f, R) = Total(f, A) + Total(f, C) /\ Total(f, A) \in Int /\ Total(f, C) \in Int
    BY <2>1, <2>2, TotalSplit
  <2> QED
    BY <2>1, <2>3
<1>10. /\ Total(f, R \ A) = Total(f, B) + Total(f, M)
       /\ Total(f, B) \in Int /\ Total(f, M) \in Int
  <2> DEFINE C == R \ A
  <2>1. B \in SUBSET C /\ M = C \ B /\ IsFiniteSet(C) /\ IntOn(f, C)
    BY <1>7, <1>8
  <2> HIDE DEF C, M
  <2>2. Total(f, C) = Total(f, B) + Total(f, M) /\ Total(f, B) \in Int /\ Total(f, M) \in Int
    BY <2>1, TotalSplit
  <2> QED
    BY <2>2 DEF C
<1> HIDE DEF M
<1>11. Total(f, M) = Worth(w, t)
  <2>1. CASE Len(t) >= MinLength
    <3> DEFINE e == <<i, j>>
    <3>1. e \in R /\ M = {e}
      BY <1>5, <1>6, <2>1
    <3>2. f[e] = w[t]
      <4>1. e[1] = i /\ e[2] = j
        OBVIOUS
      <4> HIDE DEF e
      <4>2. Part(s, e) = t
        BY <4>1 DEF Part, t
      <4> QED
        BY <1>2, <3>1, <4>2
    <3>3. f[e] \in Int
      BY <1>2, <3>1
    <3> HIDE DEF e
    <3>4. IsFiniteSet({e}) /\ IntOn(f, {e}) /\ e \in {e} /\ \A x \in {e} \ {e} : f[x] = 0
      BY <3>3, FS_Singleton DEF IntOn
    <3>5. Total(f, {e}) = f[e]
      BY <3>4, TotalOne
    <3> QED
      BY <2>1, <3>1, <3>2, <3>5 DEF Worth
  <2>2. CASE ~(Len(t) >= MinLength)
    <3>1. M = {}
      BY <1>6, <2>2
    <3> QED
      BY <2>2, <3>1, TotalEmpty DEF Worth
  <2> QED
    BY <2>1, <2>2
<1>12. Total(f, A) \in Nat /\ Total(f, B) \in Nat
  <2>1. (\A r \in A : f[r] \in Nat) /\ (\A r \in B : f[r] \in Nat)
    BY <1>2, <1>4
  <2> QED
    BY <1>8, <2>1, TotalNat
<1>13. /\ SumOver(w, Strings(s)) = Total(f, R) /\ Before(w, s, i - 1) = Total(f, A)
       /\ After(w, s, j + 1) = Total(f, B)
  BY SumOfRuns DEF Before, After, f, R, A, B
<1>14. SumOver(w, Strings(s)) = Before(w, s, i - 1) + After(w, s, j + 1) + Worth(w, t)
  BY <1>9, <1>10, <1>11, <1>12, <1>13
<1> QED
  BY <1>3, <1>12, <1>13, <1>14 DEF t

\* There is a stretch at the end of a content, and one at the beginning.
LEMMA EndStretch == ASSUME NEW s \in Seq(Byte) PROVE \E i : Stretch(s, i, Len(s))
<1> DEFINE T == { i \in 1..(Len(s) + 1) : \A k \in i..Len(s) : s[k] \in Readable }
<1>1. Len(s) \in Nat
  BY LenProperties
<1>2. Len(s) + 1 \in T
  BY <1>1
<1>3. T \in SUBSET Nat
  BY <1>1
<1> HIDE DEF T
<1>4. PICK i \in T : \A k \in T : i <= k
  BY <1>2, <1>3, LeastNumber
<1>5. i \in 1..(Len(s) + 1) /\ \A k \in i..Len(s) : s[k] \in Readable
  BY DEF T
<1>6. i > 1 => s[i - 1] \notin Readable
  <2> SUFFICES ASSUME i > 1, s[i - 1] \in Readable PROVE FALSE
    OBVIOUS
  <2> DEFINE h == i - 1
  <2>1. h \in 1..(Len(s) + 1) /\ h < i /\ i = h + 1 /\ s[h] \in Readable
    BY <1>1, <1>5
  <2> HIDE DEF h
  <2>2. \A k \in h..Len(s) : k = h \/ k \in i..Len(s)
    BY <1>1, <2>1
  <2>3. h \in T
    BY <1>5, <2>1, <2>2 DEF T
  <2> QED
    BY <1>3, <1>4, <2>1, <2>3
<1> QED
  BY <1>1, <1>5, <1>6 DEF Stretch

LEMMA FirstStretch == ASSUME NEW s \in Seq(Byte) PROVE \E j : Stretch(s, 1, j)
<1> DEFINE T == { j \in 0..Len(s) : j < Len(s) => s[j + 1] \notin Readable }
<1>1. Len(s) \in Nat
  BY LenProperties
<1>2. Len(s) \in T
  BY <1>1
<1>3. T \in SUBSET Nat
  BY <1>1
<1> HIDE DEF T
<1>4. PICK j \in T : \A k \in T : j <= k
  BY <1>2, <1>3, LeastNumber
<1>5. j \in 0..Len(s) /\ (j < Len(s) => s[j + 1] \notin Readable)
  BY DEF T
<1>6. \A k \in 1..j : s[k] \in Readable
  <2> SUFFICES ASSUME NEW k \in 1..j, s[k] \notin Readable PROVE FALSE
    OBVIOUS
  <2> DEFINE h == k - 1
  <2>1. h \in 0..Len(s) /\ h < j /\ k = h + 1
    BY <1>1, <1>5
  <2> HIDE DEF h
  <2>2. h \in T
    BY <2>1 DEF T
  <2> QED
    BY <1>3, <1>4, <2>1, <2>2
<1> QED
  BY <1>1, <1>5, <1>6 DEF Stretch

\* The bytes of s around those from d + x to d + y are the bytes of t around x and y.
SameAround(s, t, d, x, y) ==
    /\ d \in Nat /\ x \in 1..Len(t) /\ y \in 1..Len(t) /\ d + y <= Len(s)
    /\ \A k \in x..y : s[d + k] = t[k]
    /\ x > 1 <=> d + x > 1
    /\ x > 1 => s[d + x - 1] = t[x - 1]
    /\ y < Len(t) <=> d + y < Len(s)
    /\ y < Len(t) => s[d + y + 1] = t[y + 1]

\* Then the one is a run if the other is, and the same string.
LEMMA SameRun ==
    ASSUME NEW s \in Seq(Byte), NEW t \in Seq(Byte), NEW d \in Nat, NEW x \in Nat, NEW y \in Nat,
           SameAround(s, t, d, x, y), x <= y
    PROVE  /\ <<d + x, d + y>> \in Runs(s) <=> <<x, y>> \in Runs(t)
           /\ Part(s, <<d + x, d + y>>) = Part(t, <<x, y>>)
<1> DEFINE u == d + x
           v == d + y
<1>1. /\ d \in Nat /\ x \in 1..Len(t) /\ y \in 1..Len(t) /\ v <= Len(s)
      /\ \A k \in x..y : s[d + k] = t[k]
      /\ x > 1 <=> u > 1
      /\ x > 1 => s[u - 1] = t[x - 1]
      /\ y < Len(t) <=> v < Len(s)
      /\ y < Len(t) => s[v + 1] = t[y + 1]
  BY DEF SameAround
<1>2. /\ Len(s) \in Nat /\ Len(t) \in Nat
      /\ \A k \in 1..Len(s) : s[k] \in Byte
      /\ \A k \in 1..Len(t) : t[k] \in Byte
  BY LenProperties, ElementOfSeq
<1>3. /\ u \in 1..Len(s) /\ v \in 1..Len(s) /\ v - u = y - x /\ u <= v
      /\ \A k \in u..v : k - d \in x..y /\ d + (k - d) = k
      /\ \A k \in x..y : d + k \in u..v
  BY <1>1, <1>2
<1> HIDE DEF u, v
<1>4. (\A k \in u..v : s[k] \in Readable) <=> (\A k \in x..y : t[k] \in Readable)
  <2>1. ASSUME \A k \in u..v : s[k] \in Readable PROVE \A k \in x..y : t[k] \in Readable
    BY <1>1, <1>3, <2>1
  <2>2. ASSUME \A k \in x..y : t[k] \in Readable, NEW k \in u..v PROVE s[k] \in Readable
    <3>1. s[d + (k - d)] = t[k - d] /\ t[k - d] \in Readable
      BY <1>1, <1>3, <2>2
    <3> QED
      BY <1>3, <3>1
  <2> QED
    BY <2>1, <2>2
<1>5. /\ <<u, v>> \in Runs(s) <=> /\ v - u + 1 >= MinLength
                                  /\ \A k \in u..v : s[k] \in Readable
                                  /\ u > 1 => s[u - 1] \notin Readable
                                  /\ v < Len(s) => s[v + 1] \notin Readable
      /\ <<x, y>> \in Runs(t) <=> /\ y - x + 1 >= MinLength
                                  /\ \A k \in x..y : t[k] \in Readable
                                  /\ x > 1 => t[x - 1] \notin Readable
                                  /\ y < Len(t) => t[y + 1] \notin Readable
  BY <1>1, <1>3 DEF Runs
<1>6. <<u, v>> \in Runs(s) <=> <<x, y>> \in Runs(t)
  BY <1>1, <1>3, <1>4, <1>5
<1>7. SubSeq(s, u, v) = SubSeq(t, x, y)
  <2> DEFINE a == SubSeq(s, u, v)
             b == SubSeq(t, x, y)
             n == y - x + 1
  <2>1. /\ u \in Int /\ v \in Int /\ x \in Int /\ y \in Int
        /\ \A k \in u..v : s[k] \in Byte
        /\ \A k \in x..y : t[k] \in Byte
    <3>1. u \in Int /\ v \in Int /\ x \in Int /\ y \in Int
      BY <1>1, <1>2, <1>3
    <3>2. u..v \subseteq 1..Len(s) /\ x..y \subseteq 1..Len(t)
      BY <1>1, <1>2, <1>3
    <3> QED
      BY <1>2, <3>1, <3>2
  <2>2. /\ a \in Seq(Byte) /\ Len(a) = n
        /\ \A k \in 1..(v - u + 1) : a[k] = s[u + k - 1]
    <3>1. /\ a \in Seq(Byte) /\ Len(a) = IF u <= v THEN v - u + 1 ELSE 0
          /\ \A k \in 1..(v - u + 1) : a[k] = s[u + k - 1]
      BY <2>1, SubSeqProperties
    <3> QED
      BY <1>3, <3>1
  <2>3. /\ b \in Seq(Byte) /\ Len(b) = n
        /\ \A k \in 1..n : b[k] = t[x + k - 1]
    <3>1. /\ b \in Seq(Byte) /\ Len(b) = IF x <= y THEN y - x + 1 ELSE 0
          /\ \A k \in 1..(y - x + 1) : b[k] = t[x + k - 1]
      BY <2>1, SubSeqProperties
    <3> QED
      BY <3>1
  <2> HIDE DEF a, b
  <2>4. ASSUME NEW k \in 1..Len(a) PROVE a[k] = b[k]
    <3> DEFINE l == x + k - 1
    <3>1. k \in 1..n /\ k \in 1..(v - u + 1) /\ l \in x..y /\ u + k - 1 = d + l
      BY <1>1, <1>2, <1>3, <2>2 DEF u
    <3> HIDE DEF l, n
    <3>2. a[k] = s[d + l]
      BY <2>2, <3>1
    <3>3. b[k] = t[l]
      BY <2>3, <3>1 DEF l
    <3>4. s[d + l] = t[l]
      BY <1>1, <3>1
    <3> QED
      BY <3>2, <3>3, <3>4
  <2>5. a = b
    BY <2>2, <2>3, <2>4, SeqEqual
  <2> QED
    BY <2>5 DEF a, b
<1>8. Part(s, <<u, v>>) = SubSeq(s, u, v) /\ Part(t, <<x, y>>) = SubSeq(t, x, y)
  BY DEF Part
<1>9. Part(s, <<u, v>>) = Part(t, <<x, y>>)
  BY <1>7, <1>8, Zenon
<1> QED
  BY <1>6, <1>9 DEF u, v

\* A are strings of s that B are in t, d positions before.
SameStrings(s, A, t, B, d) ==
    /\ s \in Seq(Byte) /\ t \in Seq(Byte) /\ d \in Nat
    /\ A \in SUBSET Runs(s) /\ B \in SUBSET Runs(t)
    /\ A = { <<d + r[1], d + r[2]>> : r \in B }
    /\ \A r \in B : SameAround(s, t, d, r[1], r[2])

\* Then a sum over the ones is the sum over the others.
LEMMA SamePart ==
    ASSUME NEW w \in [Seq(Byte) -> Nat],
           NEW s, NEW A, NEW t, NEW B, NEW d, SameStrings(s, A, t, B, d)
    PROVE  Total(AtRun(w, s), A) = Total(AtRun(w, t), B)
<1> DEFINE f == AtRun(w, s)
           g == AtRun(w, t)
           e == [r \in B |-> <<d + r[1], d + r[2]>>]
<1> s \in Seq(Byte) /\ t \in Seq(Byte) /\ d \in Nat
  BY DEF SameStrings
<1> A \in SUBSET Runs(s) /\ B \in SUBSET Runs(t)
  BY DEF SameStrings
<1>0. /\ A = { <<d + r[1], d + r[2]>> : r \in B }
      /\ \A r \in B : SameAround(s, t, d, r[1], r[2])
  BY DEF SameStrings
<1>1. /\ IsFiniteSet(Runs(s)) /\ IsFiniteSet(Runs(t))
      /\ \A r \in Runs(t) : r[1] <= r[2] /\ r = <<r[1], r[2]>> /\ r[1] \in Nat /\ r[2] \in Nat
  <2>1. /\ IsFiniteSet(Runs(s)) /\ IsFiniteSet(Runs(t))
        /\ \A r \in Runs(t) : r[1] <= r[2] /\ r[1] \in 1..Len(t) /\ r[2] \in 1..Len(t)
    BY RunsAre
  <2>2. \A r \in Runs(t) : r = <<r[1], r[2]>>
    BY DEF Runs
  <2> QED
    BY <2>1, <2>2
<1>2. IsFiniteSet(A) /\ IsFiniteSet(B)
  BY <1>1, FS_Subset
<1>3. \A r \in B : e[r] = <<d + r[1], d + r[2]>> /\ e[r] \in A
  BY <1>0
<1>4. A = { e[r] : r \in B }
  BY <1>0, <1>3
<1>5. \A r, q \in B : r # q => e[r] # e[q]
  <2> SUFFICES ASSUME NEW r \in B, NEW q \in B, e[r] = e[q] PROVE r = q
    OBVIOUS
  <2>1. d + r[1] = d + q[1] /\ d + r[2] = d + q[2]
    BY <1>3
  <2>2. /\ r[1] \in Nat /\ r[2] \in Nat /\ q[1] \in Nat /\ q[2] \in Nat
        /\ r = <<r[1], r[2]>> /\ q = <<q[1], q[2]>>
    BY <1>1
  <2>3. r[1] = q[1] /\ r[2] = q[2]
    BY <2>1, <2>2
  <2> QED
    BY <2>2, <2>3
<1> HIDE DEF f, g, e
<1>6. ASSUME NEW r \in B PROVE f[e[r]] = g[r] /\ g[r] \in Int
  <2> DEFINE i == r[1]
             j == r[2]
             q == <<d + i, d + j>>
  <2>1. /\ SameAround(s, t, d, i, j) /\ i \in Nat /\ j \in Nat /\ i <= j
        /\ r = <<i, j>>
    BY <1>0, <1>1
  <2>2. e[r] \in Runs(s) /\ e[r] = q
    BY <1>3
  <2>3. g[r] = w[Part(t, r)] /\ g[r] \in Int
    <3>1. g[r] \in Nat
      BY AtRunType DEF g
    <3> QED
      BY <3>1, AtRunType DEF g
  <2>4. f[e[r]] = w[Part(s, e[r])]
    BY <2>2, AtRunType DEF f
  <2> HIDE DEF i, j
  <2>5. Part(s, q) = Part(t, <<i, j>>)
    BY <2>1, SameRun
  <2> HIDE DEF q
  <2> QED
    BY <2>1, <2>2, <2>3, <2>4, <2>5, Zenon
<1>7. Renames(e, B, A, f, g) /\ IntOn(g, B)
  BY <1>4, <1>5, <1>6 DEF Renames, IntOn
<1>8. Total(f, A) = Total(g, B)
  BY <1>2, <1>7, TotalRenamed
<1> QED
  BY <1>8 DEF f, g

\* What s has at its positions, when it is b after c.
Joins(s, c, b) ==
    /\ s \in Seq(Byte) /\ c \in Seq(Byte) /\ b \in Seq(Byte)
    /\ Len(s) = Len(c) + Len(b) /\ Len(c) \in Nat /\ Len(b) \in Nat
    /\ \A k \in 1..Len(c) : s[k] = c[k]
    /\ \A k \in 1..Len(b) : s[Len(c) + k] = b[k]

\* The strings that end before a position in c are those of c.
LEMMA BeforeJoin ==
    ASSUME NEW w \in [Seq(Byte) -> Nat], NEW s, NEW c, NEW b, Joins(s, c, b),
           NEW p \in 0..Len(c)
    PROVE  Before(w, s, p) = Before(w, c, p)
<1> DEFINE S == EndBefore(s, p)
           C == EndBefore(c, p)
<1>1. /\ s \in Seq(Byte) /\ c \in Seq(Byte) /\ Len(s) = Len(c) + Len(b)
      /\ Len(c) \in Nat /\ Len(b) \in Nat /\ \A k \in 1..Len(c) : s[k] = c[k]
  BY DEF Joins
<1>2. /\ S \in SUBSET Runs(s) /\ C \in SUBSET Runs(c)
      /\ \A r \in Runs(s) : r \in S <=> r[2] < p
      /\ \A r \in Runs(c) : r \in C <=> r[2] < p
  BY DEF EndBefore
<1>3. \A x, y \in Nat : 1 <= x /\ x <= y /\ y < p => SameAround(s, c, 0, x, y)
  <2> SUFFICES ASSUME NEW x \in Nat, NEW y \in Nat, 1 <= x, x <= y, y < p
               PROVE  SameAround(s, c, 0, x, y)
    OBVIOUS
  <2>1. /\ x \in 1..Len(c) /\ y \in 1..Len(c) /\ 0 + y <= Len(s) /\ y < Len(c) /\ 0 + y < Len(s)
        /\ y + 1 \in 1..Len(c) /\ 0 + y + 1 = y + 1 /\ 0 + x - 1 = x - 1
        /\ x > 1 => x - 1 \in 1..Len(c)
        /\ \A k \in x..y : k \in 1..Len(c) /\ 0 + k = k
    BY <1>1
  <2>2. \A k \in x..y : s[0 + k] = c[k]
    BY <1>1, <2>1
  <2>3. s[0 + y + 1] = c[y + 1] /\ (x > 1 => s[0 + x - 1] = c[x - 1])
    BY <1>1, <2>1
  <2>4. x > 1 <=> 0 + x > 1
    OBVIOUS
  <2> QED
    BY <2>1, <2>2, <2>3, <2>4, Zenon DEF SameAround
<1>4. /\ \A r \in S : /\ r = <<r[1], r[2]>> /\ r[1] \in Nat /\ r[2] \in Nat
                      /\ 1 <= r[1] /\ r[1] <= r[2] /\ r[2] < p
      /\ \A r \in C : /\ r = <<r[1], r[2]>> /\ r[1] \in Nat /\ r[2] \in Nat
                      /\ 1 <= r[1] /\ r[1] <= r[2] /\ r[2] < p
  <2>1. \A r \in Runs(s) \cup Runs(c) : r = <<r[1], r[2]>>
    BY DEF Runs
  <2>2. /\ \A r \in Runs(s) : r[1] \in 1..Len(s) /\ r[2] \in 1..Len(s) /\ r[1] <= r[2]
        /\ \A r \in Runs(c) : r[1] \in 1..Len(c) /\ r[2] \in 1..Len(c) /\ r[1] <= r[2]
    BY <1>1, RunsAre
  <2> HIDE DEF S, C
  <2> QED
    BY <1>1, <1>2, <2>1, <2>2
<1> HIDE DEF S, C
<1>5. \A x, y \in Nat : 1 <= x /\ x <= y /\ y < p => (<<x, y>> \in S <=> <<x, y>> \in C)
  <2> SUFFICES ASSUME NEW x \in Nat, NEW y \in Nat, 1 <= x, x <= y, y < p
               PROVE  <<x, y>> \in S <=> <<x, y>> \in C
    OBVIOUS
  <2>1. <<0 + x, 0 + y>> \in Runs(s) <=> <<x, y>> \in Runs(c)
    BY <1>1, <1>3, SameRun
  <2>2. 0 + x = x /\ 0 + y = y
    OBVIOUS
  <2>3. <<x, y>> \in Runs(s) <=> <<x, y>> \in Runs(c)
    BY <2>1, <2>2
  <2>4. <<x, y>>[2] = y
    OBVIOUS
  <2> QED
    BY <1>2, <2>3, <2>4
<1>6. S = C
  <2>1. \A r \in S : r \in C
    BY <1>4, <1>5
  <2>2. \A r \in C : r \in S
    BY <1>4, <1>5
  <2> QED
    BY <2>1, <2>2
<1>7. S = { <<0 + r[1], 0 + r[2]>> : r \in C }
  <2>1. \A r \in C : r = <<0 + r[1], 0 + r[2]>>
    <3> SUFFICES ASSUME NEW r \in C PROVE r = <<0 + r[1], 0 + r[2]>>
      OBVIOUS
    <3>1. r = <<r[1], r[2]>> /\ 0 + r[1] = r[1] /\ 0 + r[2] = r[2]
      BY <1>4
    <3> QED
      BY <3>1
  <2> QED
    BY <1>6, <2>1
<1>8. \A r \in C : SameAround(s, c, 0, r[1], r[2])
  BY <1>3, <1>4
<1>9. Total(AtRun(w, s), S) = Total(AtRun(w, c), C)
  <2>1. /\ s \in Seq(Byte) /\ c \in Seq(Byte) /\ 0 \in Nat
        /\ S \in SUBSET Runs(s) /\ C \in SUBSET Runs(c)
    BY <1>1, <1>2
  <2>2. SameStrings(s, S, c, C, 0)
    BY <1>7, <1>8, <2>1 DEF SameStrings
  <2> QED
    BY <2>2, SamePart
<1> QED
  BY <1>9 DEF Before, S, C

\* The strings that begin after a position in b are those of b.
LEMMA AfterJoin ==
    ASSUME NEW w \in [Seq(Byte) -> Nat], NEW s, NEW c, NEW b, Joins(s, c, b),
           NEW m \in 1..(Len(b) + 1)
    PROVE  After(w, s, Len(c) + m) = After(w, b, m)
<1> DEFINE n == Len(c)
           S == BeginAfter(s, n + m)
           B == BeginAfter(b, m)
<1>1. /\ s \in Seq(Byte) /\ b \in Seq(Byte) /\ Len(s) = n + Len(b)
      /\ n \in Nat /\ Len(b) \in Nat /\ \A k \in 1..Len(b) : s[n + k] = b[k]
  BY DEF Joins
<1>2. /\ S \in SUBSET Runs(s) /\ B \in SUBSET Runs(b)
      /\ \A r \in Runs(s) : r \in S <=> r[1] > n + m
      /\ \A r \in Runs(b) : r \in B <=> r[1] > m
  BY DEF BeginAfter
<1> HIDE DEF n, S, B
<1>3. \A x, y \in Nat : m < x /\ x <= y /\ y <= Len(b) => SameAround(s, b, n, x, y)
  <2> SUFFICES ASSUME NEW x \in Nat, NEW y \in Nat, m < x, x <= y, y <= Len(b)
               PROVE  SameAround(s, b, n, x, y)
    OBVIOUS
  <2>1. /\ x \in 1..Len(b) /\ y \in 1..Len(b) /\ n + y <= Len(s) /\ x > 1 /\ n + x > 1
        /\ y < Len(b) <=> n + y < Len(s)
        /\ y < Len(b) => y + 1 \in 1..Len(b)
        /\ n + (y + 1) = n + y + 1 /\ n + (x - 1) = n + x - 1
        /\ x - 1 \in 1..Len(b)
        /\ \A k \in x..y : k \in 1..Len(b)
    <3> DEFINE ls == Len(s)
               lb == Len(b)
    <3>1. n \in Nat /\ lb \in Nat /\ ls = n + lb
      BY <1>1
    <3> HIDE DEF ls, lb
    <3>2. /\ x \in 1..lb /\ y \in 1..lb /\ n + y <= ls /\ x > 1 /\ n + x > 1
          /\ y < lb <=> n + y < ls
          /\ y < lb => y + 1 \in 1..lb
      BY <3>1 DEF lb
    <3>3. /\ n + (y + 1) = n + y + 1 /\ n + (x - 1) = n + x - 1
          /\ x - 1 \in 1..lb
          /\ \A k \in x..y : k \in 1..lb
      BY <3>1 DEF lb
    <3> QED
      BY <3>2, <3>3, Zenon DEF ls, lb
  <2>2. s[n + x - 1] = b[x - 1] /\ (y < Len(b) => s[n + y + 1] = b[y + 1])
    <3>1. s[n + (x - 1)] = b[x - 1] /\ (y < Len(b) => s[n + (y + 1)] = b[y + 1])
      BY <1>1, <2>1
    <3> QED
      BY <2>1, <3>1
  <2> QED
    BY <1>1, <2>1, <2>2 DEF SameAround
<1>4. /\ \A r \in S : /\ r = <<r[1], r[2]>> /\ r[1] \in Nat /\ r[2] \in Nat
                      /\ r[1] > n + m /\ r[1] <= r[2] /\ r[2] <= n + Len(b)
      /\ \A r \in B : /\ r = <<r[1], r[2]>> /\ r[1] \in Nat /\ r[2] \in Nat
                      /\ r[1] > m /\ r[1] <= r[2] /\ r[2] <= Len(b)
  <2>1. \A r \in Runs(s) \cup Runs(b) : r = <<r[1], r[2]>>
    BY DEF Runs
  <2>2. /\ \A r \in Runs(s) : r[1] \in 1..Len(s) /\ r[2] \in 1..Len(s) /\ r[1] <= r[2]
        /\ \A r \in Runs(b) : r[1] \in 1..Len(b) /\ r[2] \in 1..Len(b) /\ r[1] <= r[2]
    BY <1>1, RunsAre
  <2> QED
    BY <1>1, <1>2, <2>1, <2>2
<1>5. \A x, y \in Nat : m < x /\ x <= y /\ y <= Len(b) => (<<n + x, n + y>> \in S <=> <<x, y>> \in B)
  <2> SUFFICES ASSUME NEW x \in Nat, NEW y \in Nat, m < x, x <= y, y <= Len(b)
               PROVE  <<n + x, n + y>> \in S <=> <<x, y>> \in B
    OBVIOUS
  <2>1. <<n + x, n + y>> \in Runs(s) <=> <<x, y>> \in Runs(b)
    BY <1>1, <1>3, SameRun
  <2>2. n + x > n + m
    BY <1>1
  <2>3. <<n + x, n + y>>[1] = n + x /\ <<x, y>>[1] = x
    OBVIOUS
  <2> QED
    BY <1>2, <2>1, <2>2, <2>3
<1>6. S = { <<n + r[1], n + r[2]>> : r \in B }
  <2>1. \A r \in B : <<n + r[1], n + r[2]>> \in S
    BY <1>4, <1>5
  <2>2. \A r \in S : \E q \in B : r = <<n + q[1], n + q[2]>>
    <3> SUFFICES ASSUME NEW r \in S PROVE \E q \in B : r = <<n + q[1], n + q[2]>>
      OBVIOUS
    <3> DEFINE x == r[1] - n
               y == r[2] - n
    <3>1. /\ x \in Nat /\ y \in Nat /\ m < x /\ x <= y /\ y <= Len(b)
          /\ n + x = r[1] /\ n + y = r[2]
      BY <1>1, <1>4
    <3> HIDE DEF x, y
    <3>2. r = <<n + x, n + y>>
      BY <1>4, <3>1
    <3>3. <<x, y>> \in B
      BY <1>5, <3>1, <3>2
    <3>4. <<x, y>>[1] = x /\ <<x, y>>[2] = y
      OBVIOUS
    <3> QED
      BY <3>2, <3>3, <3>4
  <2> QED
    BY <2>1, <2>2
<1>7. \A r \in B : SameAround(s, b, n, r[1], r[2])
  BY <1>3, <1>4
<1>8. Total(AtRun(w, s), S) = Total(AtRun(w, b), B)
  <2>1. /\ s \in Seq(Byte) /\ b \in Seq(Byte) /\ n \in Nat
        /\ S \in SUBSET Runs(s) /\ B \in SUBSET Runs(b)
    BY <1>1, <1>2
  <2>2. SameStrings(s, S, b, B, n)
    BY <1>6, <1>7, <2>1 DEF SameStrings
  <2> QED
    BY <2>2, SamePart
<1> QED
  BY <1>8 DEF After, n, S, B

\* One content after another joins the two.
LEMMA ConcatJoins ==
    ASSUME NEW c \in Seq(Byte), NEW b \in Seq(Byte)
    PROVE  Joins(c \o b, c, b)
<1> DEFINE s == c \o b
           n == Len(c)
           m == Len(b)
<1>1. /\ s \in Seq(Byte) /\ Len(s) = n + m /\ n \in Nat /\ m \in Nat
      /\ \A k \in 1..(n + m) : s[k] = IF k <= n THEN c[k] ELSE b[k - n]
  BY ConcatProperties, LenProperties
<1> HIDE DEF s, n, m
<1>2. \A k \in 1..n : s[k] = c[k]
  BY <1>1
<1>3. ASSUME NEW k \in 1..m PROVE s[n + k] = b[k]
  <2> DEFINE l == n + k
  <2>1. l \in 1..(n + m) /\ ~(l <= n) /\ l - n = k
    BY <1>1
  <2> HIDE DEF l
  <2>2. s[l] = b[l - n]
    BY <1>1, <2>1
  <2> QED
    BY <2>1, <2>2 DEF l
<1> QED
  BY <1>1, <1>2, <1>3 DEF Joins, s, n, m

\* The stretch at the end of c and the one at the beginning of b are one of both.
LEMMA JoinedStretch ==
    ASSUME NEW s, NEW c, NEW b, Joins(s, c, b),
           NEW i, Stretch(c, i, Len(c)), NEW j, Stretch(b, 1, j)
    PROVE  Stretch(s, i, Len(c) + j)
<1> DEFINE n == Len(c)
           m == Len(b)
<1>1. /\ Len(s) = n + m /\ n \in Nat /\ m \in Nat
      /\ \A k \in 1..n : s[k] = c[k]
      /\ \A k \in 1..m : s[n + k] = b[k]
  BY DEF Joins
<1>2. /\ i \in 1..(n + 1) /\ \A k \in i..n : c[k] \in Readable
      /\ i > 1 => c[i - 1] \notin Readable
  BY DEF Stretch
<1>3. /\ j \in 0..m /\ \A k \in 1..j : b[k] \in Readable
      /\ j < m => b[j + 1] \notin Readable
  BY DEF Stretch
<1> HIDE DEF n, m
<1>4. ASSUME NEW k \in i..(n + j) PROVE s[k] \in Readable
  <2>1. CASE k <= n
    BY <1>1, <1>2, <2>1
  <2>2. CASE ~(k <= n)
    <3> DEFINE l == k - n
    <3>1. l \in 1..j /\ l \in 1..m /\ n + l = k
      BY <1>1, <1>2, <1>3, <2>2
    <3> HIDE DEF l
    <3>2. s[n + l] = b[l] /\ b[l] \in Readable
      BY <1>1, <1>3, <3>1
    <3> QED
      BY <3>1, <3>2
  <2> QED
    BY <2>1, <2>2
<1>5. i > 1 => s[i - 1] \notin Readable
  <2>1. i > 1 => i - 1 \in 1..n
    BY <1>1, <1>2
  <2> QED
    BY <1>1, <1>2, <2>1
<1>6. n + j < Len(s) => s[n + j + 1] \notin Readable
  <2> SUFFICES ASSUME n + j < Len(s) PROVE s[n + j + 1] \notin Readable
    OBVIOUS
  <2> DEFINE l == j + 1
  <2>1. l \in 1..m /\ j < m /\ n + j + 1 = n + l
    BY <1>1, <1>3
  <2> HIDE DEF l
  <2>2. s[n + l] = b[l]
    BY <1>1, <2>1
  <2>3. b[l] \notin Readable
    BY <1>3, <2>1 DEF l
  <2> QED
    BY <2>1, <2>2, <2>3
<1>7. i \in 1..(Len(s) + 1) /\ n + j \in (i - 1)..Len(s)
  BY <1>1, <1>2, <1>3
<1> QED
  BY <1>4, <1>5, <1>6, <1>7 DEF Stretch, n

\* Its bytes are those of the two.
PiecesMeet(s, c, b, i, j) ==
    SubSeq(s, i, Len(c) + j) = SubSeq(c, i, Len(c)) \o SubSeq(b, 1, j)

LEMMA JoinedParts ==
    ASSUME NEW s, NEW c, NEW b, Joins(s, c, b),
           NEW i, Stretch(c, i, Len(c)), NEW j, Stretch(b, 1, j)
    PROVE  PiecesMeet(s, c, b, i, j)
<1> DEFINE n == Len(c)
           m == Len(b)
           u == SubSeq(c, i, n)
           v == SubSeq(b, 1, j)
           t == SubSeq(s, i, n + j)
           x == u \o v
           p == n - i + 1
<1>1. /\ s \in Seq(Byte) /\ c \in Seq(Byte) /\ b \in Seq(Byte)
      /\ Len(s) = n + m /\ n \in Nat /\ m \in Nat
      /\ \A k \in 1..n : s[k] = c[k]
      /\ \A k \in 1..m : s[n + k] = b[k]
  BY DEF Joins
<1>2. i \in 1..(n + 1) /\ j \in 0..m
  BY DEF Stretch
<1>3. /\ \A k \in 1..Len(s) : s[k] \in Byte
      /\ \A k \in 1..n : c[k] \in Byte
      /\ \A k \in 1..m : b[k] \in Byte
  BY <1>1, ElementOfSeq
<1>4. u \in Seq(Byte) /\ Len(u) = p /\ v \in Seq(Byte) /\ Len(v) = j /\ p \in Nat
  <2>1. i \in Int /\ n \in Int /\ 1 \in Int /\ j \in Int
    BY <1>1, <1>2
  <2>2. (\A k \in i..n : c[k] \in Byte) /\ (\A k \in 1..j : b[k] \in Byte)
    <3>1. i..n \subseteq 1..n /\ 1..j \subseteq 1..m
      BY <1>1, <1>2
    <3> QED
      BY <1>3, <3>1
  <2>3. u \in Seq(Byte) /\ Len(u) = IF i <= n THEN n - i + 1 ELSE 0
    BY <2>1, <2>2, SubSeqProperties
  <2>4. v \in Seq(Byte) /\ Len(v) = IF 1 <= j THEN j - 1 + 1 ELSE 0
    BY <2>1, <2>2, SubSeqProperties
  <2> HIDE DEF u, v, n
  <2> QED
    BY <1>1, <1>2, <2>3, <2>4
<1>5. /\ x \in Seq(Byte) /\ Len(x) = p + j
      /\ \A k \in 1..(p + j) : x[k] = IF k <= p THEN u[k] ELSE v[k - p]
  <2> HIDE DEF u, v, p
  <2> QED
    BY <1>4, ConcatProperties
<1>6. \A k \in 1..p : u[k] = c[i + k - 1]
  <2>1. \A k \in i..n : c[k] \in Byte
    BY <1>1, <1>2, <1>3
  <2> QED
    BY <1>1, <1>2, <2>1, SubSeqProperties
<1>7. \A k \in 1..j : v[k] = b[k]
  <2>1. \A k \in 1..j : b[k] \in Byte
    BY <1>1, <1>2, <1>3
  <2>2. 1 \in Int /\ j \in Int
    BY <1>2
  <2>3. \A k \in 1..(j - 1 + 1) : v[k] = b[1 + k - 1]
    BY <2>1, <2>2, SubSeqProperties
  <2> HIDE DEF v
  <2> QED
    BY <1>2, <2>3
<1>8. /\ t \in Seq(Byte) /\ Len(t) = p + j
      /\ \A k \in 1..(p + j) : t[k] = s[i + k - 1]
  <2>1. \A k \in i..(n + j) : s[k] \in Byte
    <3>1. i..(n + j) \subseteq 1..Len(s)
      BY <1>1, <1>2
    <3> QED
      BY <1>3, <3>1
  <2>2. i \in Int /\ n + j \in Int
    BY <1>1, <1>2
  <2>3. /\ t \in Seq(Byte) /\ Len(t) = IF i <= n + j THEN (n + j) - i + 1 ELSE 0
        /\ \A k \in 1..((n + j) - i + 1) : t[k] = s[i + k - 1]
    BY <2>1, <2>2, SubSeqProperties
  <2>4. (n + j) - i + 1 = p + j /\ (~(i <= n + j) => p + j = 0)
    BY <1>1, <1>2
  <2> HIDE DEF t, p, n
  <2> QED
    BY <2>3, <2>4
<1> HIDE DEF u, v, t, x
<1>9. ASSUME NEW k \in 1..(p + j) PROVE t[k] = x[k]
  <2>1. CASE k <= p
    <3> DEFINE l == i + k - 1
    <3>1. k \in 1..p /\ l \in 1..n
      BY <1>1, <1>2, <1>4, <2>1
    <3> HIDE DEF p
    <3>2. x[k] = u[k] /\ u[k] = c[l] /\ t[k] = s[l]
      BY <1>5, <1>6, <1>8, <2>1, <3>1
    <3> HIDE DEF l
    <3> QED
      BY <1>1, <3>1, <3>2
  <2>2. CASE ~(k <= p)
    <3> DEFINE l == k - p
    <3>1. l \in 1..j /\ l \in 1..m /\ i + k - 1 = n + l
      BY <1>1, <1>2, <1>4, <2>2
    <3> HIDE DEF p
    <3>2. x[k] = v[l] /\ t[k] = s[i + k - 1]
      BY <1>5, <1>8, <2>2
    <3> HIDE DEF l
    <3>3. v[l] = b[l] /\ s[n + l] = b[l]
      BY <1>1, <1>7, <3>1
    <3> QED
      BY <3>1, <3>2, <3>3
  <2> QED
    BY <2>1, <2>2
<1> HIDE DEF p
<1>10. t = x
  BY <1>5, <1>8, <1>9, SeqEqual
<1> QED
  BY <1>10, Zenon DEF t, x, u, v, n, PiecesMeet

\* The pieces a boundary makes of the stretch it cuts.
CutPieces(c, b, u, v) ==
    /\ u \in Seq(Byte) /\ v \in Seq(Byte) /\ u \o v \in Seq(Byte)
    /\ Len(u) \in Nat /\ Len(v) \in Nat /\ Len(u \o v) = Len(u) + Len(v)
    /\ \A w \in [Seq(Byte) -> Nat] :
          SumOver(w, Strings(c \o b)) + (Worth(w, u) + Worth(w, v))
             = (SumOver(w, Strings(c)) + SumOver(w, Strings(b))) + Worth(w, u \o v)

\* What is lost or split between a content and the block after it is one string: the
\* sum over the strings of both differs from the two sums as the worth of one readable
\* stretch differs from the worth of its two pieces.
LEMMA CutAt ==
    ASSUME NEW c \in Seq(Byte), NEW b \in Seq(Byte)
    PROVE  \E u, v : CutPieces(c, b, u, v)
<1> DEFINE s == c \o b
           n == Len(c)
<1>1. Joins(s, c, b)
  BY ConcatJoins
<1>2. PICK i : Stretch(c, i, n)
  BY EndStretch
<1>3. PICK j : Stretch(b, 1, j)
  BY FirstStretch
<1> DEFINE u == SubSeq(c, i, n)
           v == SubSeq(b, 1, j)
           t == SubSeq(s, i, n + j)
<1>4. Stretch(s, i, n + j)
  BY <1>1, <1>2, <1>3, JoinedStretch
<1>5. s \in Seq(Byte) /\ n \in Nat /\ Len(b) \in Nat
  BY <1>1 DEF Joins
<1>6. i \in 1..(n + 1) /\ j \in 0..Len(b)
  BY <1>2, <1>3 DEF Stretch
<1> HIDE DEF s, n
<1>7. ASSUME NEW w \in [Seq(Byte) -> Nat]
      PROVE  /\ SumOver(w, Strings(s)) = Before(w, s, i - 1) + After(w, s, n + j + 1) + Worth(w, t)
             /\ SumOver(w, Strings(c)) = Before(w, c, i - 1) + After(w, c, n + 1) + Worth(w, u)
             /\ SumOver(w, Strings(b)) = Before(w, b, 1 - 1) + After(w, b, j + 1) + Worth(w, v)
             /\ Before(w, s, i - 1) \in Nat /\ After(w, s, n + j + 1) \in Nat
             /\ u \in Seq(Byte) /\ Len(u) = n - i + 1
             /\ v \in Seq(Byte) /\ Len(v) = j - 1 + 1
             /\ t \in Seq(Byte)
  <2>1. /\ SumOver(w, Strings(s)) = Before(w, s, i - 1) + After(w, s, n + j + 1) + Worth(w, t)
        /\ Before(w, s, i - 1) \in Nat /\ After(w, s, n + j + 1) \in Nat /\ t \in Seq(Byte)
    BY <1>4, <1>5, SumAround
  <2>2. /\ SumOver(w, Strings(c)) = Before(w, c, i - 1) + After(w, c, n + 1) + Worth(w, u)
        /\ u \in Seq(Byte) /\ Len(u) = n - i + 1
    BY <1>2, SumAround
  <2>3. /\ SumOver(w, Strings(b)) = Before(w, b, 1 - 1) + After(w, b, j + 1) + Worth(w, v)
        /\ v \in Seq(Byte) /\ Len(v) = j - 1 + 1
    BY <1>3, SumAround
  <2> QED
    BY <2>1, <2>2, <2>3
<1>8. /\ u \in Seq(Byte) /\ Len(u) = n - i + 1
      /\ v \in Seq(Byte) /\ Len(v) = j - 1 + 1
      /\ t \in Seq(Byte)
  <2>1. Lengths \in [Seq(Byte) -> Nat]
    BY ValuesTypes
  <2> HIDE DEF u, v, t
  <2> QED
    BY <1>7, <2>1
<1>9. t = u \o v
  <2>1. Stretch(c, i, Len(c))
    BY <1>2 DEF n
  <2>2. PiecesMeet(s, c, b, i, j)
    BY <1>1, <1>3, <2>1, JoinedParts
  <2> QED
    BY <2>2, Zenon DEF t, u, v, n, PiecesMeet
<1>10. Len(u) \in Nat /\ Len(v) \in Nat /\ u \o v \in Seq(Byte) /\ Len(u \o v) = Len(u) + Len(v)
  BY <1>8, LenProperties, ConcatProperties
<1> HIDE DEF u, v, t
<1>11. ASSUME NEW w \in [Seq(Byte) -> Nat]
       PROVE  SumOver(w, Strings(s)) + (Worth(w, u) + Worth(w, v))
                 = (SumOver(w, Strings(c)) + SumOver(w, Strings(b))) + Worth(w, t)
  <2>1. Before(w, s, i - 1) = Before(w, c, i - 1)
    <3>1. i - 1 \in 0..Len(c)
      BY <1>5, <1>6 DEF n
    <3> QED
      BY <1>1, <3>1, BeforeJoin
  <2>2. After(w, s, n + j + 1) = After(w, b, j + 1)
    <3> DEFINE m == j + 1
    <3>1. m \in 1..(Len(b) + 1) /\ n + j + 1 = n + m
      BY <1>5, <1>6
    <3> HIDE DEF m
    <3>2. After(w, s, n + m) = After(w, b, m)
      BY <1>1, <3>1, AfterJoin DEF n
    <3> QED
      BY <3>1, <3>2 DEF m
  <2>3. After(w, c, n + 1) = 0
    <3>1. BeginAfter(c, n + 1) = {}
      <4>1. \A r \in Runs(c) : r[1] \in 1..n
        BY RunsAre DEF n
      <4> QED
        BY <1>5, <4>1 DEF BeginAfter
    <3> QED
      BY <3>1, TotalEmpty DEF After
  <2>4. Before(w, b, 1 - 1) = 0
    <3>1. EndBefore(b, 1 - 1) = {}
      <4>1. \A r \in Runs(b) : r[2] \in 1..Len(b)
        BY RunsAre
      <4> QED
        BY <1>5, <4>1 DEF EndBefore
    <3> QED
      BY <3>1, TotalEmpty DEF Before
  <2>5. Worth(w, u) \in Nat /\ Worth(w, v) \in Nat /\ Worth(w, t) \in Nat
    BY <1>8 DEF Worth, u, v, t
  <2> DEFINE x == Before(w, s, i - 1)
             y == After(w, s, n + j + 1)
  <2>6. /\ SumOver(w, Strings(s)) = x + y + Worth(w, t)
        /\ SumOver(w, Strings(c)) = x + 0 + Worth(w, u)
        /\ SumOver(w, Strings(b)) = 0 + y + Worth(w, v)
        /\ x \in Nat /\ y \in Nat
    BY <1>7, <2>1, <2>2, <2>3, <2>4 DEF u, v, t
  <2> HIDE DEF x, y
  <2> QED
    BY <2>5, <2>6
<1>12. CutPieces(c, b, u, v)
  BY <1>8, <1>9, <1>10, <1>11 DEF CutPieces, u, v, t, s
<1> QED
  BY <1>12

-----------------------------------------------------------------------------
(* What a boundary costs *)

\* A sum of ones.
LEMMA OnesTotal ==
    ASSUME NEW f, NEW S, IsFiniteSet(S), \A x \in S : f[x] = 1
    PROVE  Total(f, S) = Cardinality(S)
<1> DEFINE B == { s \in SUBSET S : Total(f, s) # Cardinality(s) }
<1> SUFFICES ASSUME B # {} PROVE FALSE
  BY DEF B
<1>1. IntOn(f, S)
  BY DEF IntOn
<1>2. {} \notin B
  BY TotalEmpty, FS_EmptySet
<1>3. PICK s \in B : /\ s \in SUBSET S /\ IsFiniteSet(s)
                     /\ \E e \in s : s \ {e} \in SUBSET S /\ s \ {e} \notin B
  BY <1>2, SmallestBad
<1>4. PICK e \in s : s \ {e} \in SUBSET S /\ s \ {e} \notin B
  BY <1>3
<1>5. Total(f, s) = f[e] + Total(f, s \ {e}) /\ f[e] = 1
  BY <1>1, <1>3, TotalTakes DEF Takes
<1>6. Total(f, s \ {e}) = Cardinality(s \ {e})
  BY <1>4
<1>7. Cardinality(s \ {e}) = Cardinality(s) - 1 /\ Cardinality(s) \in Nat
  BY <1>3, FS_RemoveElement, FS_CardinalityType
<1>8. Total(f, s) = Cardinality(s)
  BY <1>5, <1>6, <1>7
<1> QED
  BY <1>3, <1>8

\* Positions that count, summed up.
LEMMA ChosenTotal ==
    ASSUME NEW f, NEW S, IsFiniteSet(S), NEW H \in SUBSET S,
           \A x \in S : f[x] = IF x \in H THEN 1 ELSE 0
    PROVE  Total(f, S) = Cardinality(H)
<1>1. IntOn(f, S) /\ (\A x \in S \ H : f[x] = 0) /\ (\A x \in H : f[x] = 1)
  BY DEF IntOn
<1>2. Total(f, S) = Total(f, H)
  BY <1>1, TotalZeros
<1>3. IsFiniteSet(H)
  BY FS_Subset
<1> QED
  BY <1>1, <1>2, <1>3, OnesTotal

\* The number of strings, and the number a pattern is in, as sums.
Ones == [s \in Seq(Byte) |-> 1]
Found(i) == [s \in Seq(Byte) |-> IF s \in Matching(i) THEN 1 ELSE 0]

LEMMA CountsAreSums ==
    ASSUME NEW ss \in Seq(Seq(Byte))
    PROVE  /\ Len(ss) = SumOver(Ones, ss)
           /\ \A i \in DOMAIN Patterns : Matches(i - 1, ss) = SumOver(Found(i), ss)
<1> DEFINE D == DOMAIN ss
<1>1. /\ D = 1..Len(ss) /\ Len(ss) \in Nat
      /\ \A k \in D : ss[k] \in Seq(Byte)
  BY LenProperties, ElementOfSeq
<1>2. IsFiniteSet(D) /\ Cardinality(D) = Len(ss)
  BY <1>1, FirstPositions
<1>3. Len(ss) = SumOver(Ones, ss)
  <2> DEFINE f == Values(Ones, ss)
  <2>1. \A k \in D : f[k] = 1
    BY <1>1 DEF Values, Ones
  <2> HIDE DEF f, D
  <2>2. Total(f, D) = Len(ss)
    BY <1>2, <2>1, OnesTotal
  <2> QED
    BY <2>2 DEF f, D, SumOver
<1>4. ASSUME NEW i \in DOMAIN Patterns
      PROVE  Matches(i - 1, ss) = SumOver(Found(i), ss)
  <2> DEFINE k == i - 1
             f == Values(Found(i), ss)
             H == Hits(Matching(i), ss)
  <2>1. k \in 0..(ByteRange - 1) /\ k + 1 = i
    BY ReadableFinite
  <2> HIDE DEF k
  <2>2. Matches(k, ss) = Cardinality(H)
    BY <2>1, MatchesAre
  <2>3. H \in SUBSET D /\ \A m \in D : f[m] = IF m \in H THEN 1 ELSE 0
    BY <1>1 DEF Values, Found, Hits
  <2> HIDE DEF f, D, H
  <2>4. Total(f, D) = Cardinality(H)
    BY <1>2, <2>3, ChosenTotal
  <2> QED
    BY <2>2, <2>4 DEF f, D, SumOver, k
<1> QED
  BY <1>3, <1>4

\* The pattern p is in s at position k.
MatchAt(s, p, k) ==
    /\ k + Len(p) - 1 <= Len(s)
    /\ \A l \in 1..Len(p) : s[k + l - 1] = p[l]

LEMMA PrefixAt ==
    ASSUME NEW s \in Seq(Byte), NEW p \in Seq(Byte), NEW k \in 1..Len(s)
    PROVE  IsPrefix(p, SubSeq(s, k, Len(s))) <=> MatchAt(s, p, k)
<1> DEFINE n == Len(s)
           m == Len(p)
           t == SubSeq(s, k, n)
           o == SubSeq(p, 1, m)
           h == SubSeq(t, 1, m)
<1>1. n \in Nat /\ m \in Nat /\ 1 <= k /\ k <= n /\ k \in Int /\ n \in Int
  BY LenProperties
<1>2. (\A l \in 1..n : s[l] \in Byte) /\ (\A l \in 1..m : p[l] \in Byte)
  BY ElementOfSeq
<1>3. t \in Seq(Byte) /\ Len(t) = n - k + 1 /\ \A l \in 1..(n - k + 1) : t[l] = s[k + l - 1]
  <2>1. \A l \in k..n : s[l] \in Byte
    BY <1>1, <1>2
  <2>2. /\ t \in Seq(Byte) /\ Len(t) = IF k <= n THEN n - k + 1 ELSE 0
        /\ \A l \in 1..(n - k + 1) : t[l] = s[k + l - 1]
    BY <1>1, <2>1, SubSeqProperties
  <2> QED
    BY <1>1, <2>2
<1>4. o \in Seq(Byte) /\ Len(o) = m /\ \A l \in 1..m : o[l] = p[l]
  <2>1. 1 \in Int /\ m \in Int
    BY <1>1
  <2>2. /\ o \in Seq(Byte) /\ Len(o) = IF 1 <= m THEN m - 1 + 1 ELSE 0
        /\ \A l \in 1..(m - 1 + 1) : o[l] = p[1 + l - 1]
    BY <1>2, <2>1, SubSeqProperties
  <2> HIDE DEF o, m
  <2> QED
    BY <1>1, <2>2
<1>5. \A l \in 1..Len(t) : t[l] \in Byte
  BY <1>3, ElementOfSeq
<1> HIDE DEF n, m, t, o
<1>6. ASSUME m <= Len(t)
      PROVE  h \in Seq(Byte) /\ Len(h) = m /\ \A l \in 1..m : h[l] = t[l]
  <2>1. 1 \in Int /\ m \in Int /\ \A l \in 1..m : t[l] \in Byte
    BY <1>1, <1>3, <1>5, <1>6
  <2>2. /\ h \in Seq(Byte) /\ Len(h) = IF 1 <= m THEN m - 1 + 1 ELSE 0
        /\ \A l \in 1..(m - 1 + 1) : h[l] = t[1 + l - 1]
    BY <2>1, SubSeqProperties
  <2> HIDE DEF h
  <2> QED
    BY <1>1, <2>2
<1>7. IsPrefix(p, t) <=> m <= Len(t) /\ o = h
  BY DEF IsPrefix, m, o
<1>8. m <= Len(t) <=> k + m - 1 <= n
  BY <1>1, <1>3
<1> HIDE DEF h
<1>9. ASSUME m <= Len(t)
      PROVE  o = h <=> \A l \in 1..m : s[k + l - 1] = p[l]
  <2>1. \A l \in 1..m : l \in 1..(n - k + 1)
    BY <1>1, <1>3, <1>9
  <2>2. \A l \in 1..m : h[l] = s[k + l - 1] /\ o[l] = p[l]
    BY <1>3, <1>4, <1>6, <1>9, <2>1
  <2>3. (\A l \in 1..m : o[l] = h[l]) => o = h
    <3>1. Len(o) = Len(h) /\ Len(o) = m /\ o \in Seq(Byte) /\ h \in Seq(Byte)
      BY <1>4, <1>6, <1>9
    <3> QED
      BY <3>1, SeqEqual
  <2>4. o = h => \A l \in 1..m : o[l] = h[l]
    OBVIOUS
  <2> QED
    BY <2>2, <2>3, <2>4
<1>10. MatchAt(s, p, k) <=> k + m - 1 <= n /\ \A l \in 1..m : s[k + l - 1] = p[l]
  BY DEF MatchAt, m, n
<1> QED
  BY <1>7, <1>8, <1>9, <1>10 DEF t, n

\* The word p of the expression is in s at position k, between the borders it asks for.
AcceptedAt(s, regex, p, k) ==
    /\ MatchAt(s, p, k)
    /\ regex.begin => AtBorder(s, k)
    /\ regex.end => AtBorder(s, k + Len(p))

\* What an expression is.
LEMMA RegexIs ==
    ASSUME NEW i \in DOMAIN Patterns
    PROVE  /\ Patterns[i].begin \in BOOLEAN /\ Patterns[i].end \in BOOLEAN
           /\ \A p \in Patterns[i].words : p \in Seq(Byte) /\ Len(p) \in Nat /\ Len(p) >= 1
           /\ AddedPerCut(Patterns[i]) \in {1, 2}
<1>1. Patterns[i] \in RegexSet
  BY StringsAssumption, ElementOfSeq, LenProperties
<1>2. ASSUME NEW p \in Patterns[i].words PROVE p \in Seq(Byte) /\ Len(p) \in Nat /\ Len(p) >= 1
  <2>1. p \in Seq(Byte) /\ p # <<>>
    BY <1>1 DEF RegexSet
  <2>2. Len(p) \in Nat /\ Len(p) # 0
    BY <2>1, LenProperties, EmptySeq
  <2> QED
    BY <2>1, <2>2
<1> QED
  BY <1>1, <1>2 DEF RegexSet, AddedPerCut

\* Where an expression is found.
LEMMA MatchingIs ==
    ASSUME NEW t \in Seq(Byte), NEW i \in DOMAIN Patterns
    PROVE  t \in Matching(i)
              <=> \E k \in 1..Len(t), p \in Patterns[i].words : AcceptedAt(t, Patterns[i], p, k)
<1> DEFINE R == Patterns[i]
<1>1. \A k \in 1..Len(t), p \in R.words : IsPrefix(p, SubSeq(t, k, Len(t))) <=> MatchAt(t, p, k)
  BY RegexIs, PrefixAt
<1>2. t \in Matching(i) <=> PartialMatch(t, R)
  BY DEF Matching
<1> HIDE DEF R
<1> QED
  BY <1>1, <1>2 DEF PartialMatch, AcceptedAt, R

\* A border inside the first of two pieces is one of the two together, and so is one
\* inside the second or at its end.
LEMMA BordersKept ==
    ASSUME NEW s, NEW u, NEW v, Joins(s, u, v)
    PROVE  /\ \A k \in 1..Len(u) : AtBorder(u, k) => AtBorder(s, k)
           /\ \A k \in 2..(Len(v) + 1) : AtBorder(v, k) => AtBorder(s, Len(u) + k)
<1> DEFINE n == Len(u)
           m == Len(v)
<1>1. /\ Len(s) = n + m /\ n \in Nat /\ m \in Nat
      /\ \A k \in 1..n : s[k] = u[k]
      /\ \A k \in 1..m : s[n + k] = v[k]
  BY DEF Joins
<1> HIDE DEF n, m
<1>2. ASSUME NEW k \in 1..n PROVE AtBorder(u, k) <=> AtBorder(s, k)
  <2>1. k <= n /\ k <= Len(s) /\ s[k] = u[k]
    BY <1>1
  <2>2. k > 1 => s[k - 1] = u[k - 1]
    BY <1>1
  <2> QED
    BY <2>1, <2>2 DEF AtBorder, n
<1>3. ASSUME NEW k \in 2..(m + 1) PROVE AtBorder(v, k) <=> AtBorder(s, n + k)
  <2> DEFINE j == n + k
  <2>1. k > 1 /\ j > 1 /\ (k <= m <=> j <= Len(s))
    BY <1>1
  <2>2. s[j - 1] = v[k - 1]
    <3>1. k - 1 \in 1..m /\ n + (k - 1) = j - 1
      BY <1>1
    <3> QED
      BY <1>1, <3>1
  <2>3. k <= m => s[j] = v[k]
    BY <1>1
  <2> HIDE DEF j
  <2>4. AtBorder(v, k) <=> AtBorder(s, j)
    BY <2>1, <2>2, <2>3 DEF AtBorder, m
  <2> QED
    BY <2>4 DEF j
<1> QED
  BY <1>2, <1>3 DEF n, m

\* A pattern without \b at one of its ends that is in both of two pieces is in the two
\* together: the first piece keeps what does not end at a border, the second what does
\* not begin at one.
LEMMA MatchJoined ==
    ASSUME NEW u \in Seq(Byte), NEW v \in Seq(Byte), NEW i \in DOMAIN Patterns,
           AddedPerCut(Patterns[i]) = 1, u \in Matching(i), v \in Matching(i)
    PROVE  u \o v \in Matching(i)
<1> DEFINE s == u \o v
           R == Patterns[i]
           n == Len(u)
           m == Len(v)
<1>1. Joins(s, u, v)
  BY ConcatJoins
<1>2. /\ s \in Seq(Byte) /\ Len(s) = n + m /\ n \in Nat /\ m \in Nat
      /\ \A k \in 1..n : s[k] = u[k]
      /\ \A k \in 1..m : s[n + k] = v[k]
  BY <1>1 DEF Joins
<1>3. /\ R.begin \in BOOLEAN /\ R.end \in BOOLEAN /\ ~(R.begin /\ R.end)
      /\ \A p \in R.words : p \in Seq(Byte) /\ Len(p) \in Nat /\ Len(p) >= 1
  BY RegexIs DEF AddedPerCut
<1>4. /\ \A k \in 1..n : AtBorder(u, k) => AtBorder(s, k)
      /\ \A k \in 2..(m + 1) : AtBorder(v, k) => AtBorder(s, n + k)
  BY <1>1, BordersKept
<1>5. PICK k \in 1..n, p \in R.words : AcceptedAt(u, R, p, k)
  BY MatchingIs
<1>6. PICK h \in 1..m, q \in R.words : AcceptedAt(v, R, q, h)
  BY MatchingIs
<1> HIDE DEF s, R, n, m
<1>7. ASSUME ~R.end PROVE k \in 1..Len(s) /\ AcceptedAt(s, R, p, k)
  <2>1. k + Len(p) - 1 <= n /\ \A l \in 1..Len(p) : u[k + l - 1] = p[l]
    BY <1>5 DEF AcceptedAt, MatchAt, n
  <2>2. \A l \in 1..Len(p) : k + l - 1 \in 1..n
    BY <1>2, <1>3, <2>1
  <2>3. \A l \in 1..Len(p) : s[k + l - 1] = p[l]
    BY <1>2, <2>1, <2>2
  <2>4. k \in 1..Len(s) /\ k + Len(p) - 1 <= Len(s)
    BY <1>2, <1>3, <2>1
  <2>5. R.begin => AtBorder(s, k)
    BY <1>4, <1>5 DEF AcceptedAt
  <2> QED
    BY <1>7, <2>3, <2>4, <2>5 DEF AcceptedAt, MatchAt
<1>8. ASSUME ~R.begin PROVE n + h \in 1..Len(s) /\ AcceptedAt(s, R, q, n + h)
  <2> DEFINE j == n + h
  <2>1. h + Len(q) - 1 <= m /\ \A l \in 1..Len(q) : v[h + l - 1] = q[l]
    BY <1>6 DEF AcceptedAt, MatchAt, m
  <2>2. \A l \in 1..Len(q) : h + l - 1 \in 1..m /\ j + l - 1 = n + (h + l - 1)
    BY <1>2, <1>3, <2>1
  <2>3. j \in 1..Len(s) /\ j + Len(q) - 1 <= Len(s)
    BY <1>2, <1>3, <2>1
  <2>4. h + Len(q) \in 2..(m + 1) /\ n + (h + Len(q)) = j + Len(q)
    BY <1>2, <1>3, <2>1
  <2>5. R.end => AtBorder(s, j + Len(q))
    BY <1>4, <1>6, <2>4 DEF AcceptedAt
  <2> HIDE DEF j
  <2>6. \A l \in 1..Len(q) : s[j + l - 1] = q[l]
    BY <1>2, <2>1, <2>2
  <2>7. j \in 1..Len(s) /\ AcceptedAt(s, R, q, j)
    BY <1>8, <2>3, <2>5, <2>6 DEF AcceptedAt, MatchAt
  <2> QED
    BY <2>7 DEF j
<1>9. \E l \in 1..Len(s), w \in R.words : AcceptedAt(s, R, w, l)
  BY <1>3, <1>7, <1>8
<1> QED
  BY <1>2, <1>9, MatchingIs DEF s, R

\* How far apart two numbers are.
Near(x, y, d) == x <= y + d /\ y <= x + d

\* x is counted where y should be: d boundaries lose one each and add a each.
Within(x, y, d, a) == y <= x + d /\ x <= y + d * a

\* A number of strings that a stretch and its two pieces may belong to is one less, or as
\* many more as the cut may add; that is one where the whole belongs if both pieces do.
LEMMA CutCount ==
    ASSUME NEW c, NEW b, NEW u, NEW v, CutPieces(c, b, u, v),
           NEW w \in [Seq(Byte) -> Nat], \A s \in Seq(Byte) : w[s] \in {0, 1},
           NEW a \in {1, 2}, a = 1 /\ w[u] = 1 /\ w[v] = 1 => w[u \o v] = 1,
           NEW x \in Nat, x = SumOver(w, Strings(c \o b)),
           NEW y \in Nat, y = SumOver(w, Strings(c)) + SumOver(w, Strings(b))
    PROVE  Within(y, x, 1, a)
<1> DEFINE p == Worth(w, u)
           q == Worth(w, v)
           t == Worth(w, u \o v)
<1>1. x + (p + q) = y + t
  BY DEF CutPieces
<1>2. p \in {0, 1} /\ q \in {0, 1} /\ t \in {0, 1}
  BY DEF CutPieces, Worth
<1>3. a = 1 /\ p = 1 /\ q = 1 => t = 1
  <2>1. /\ Len(u) \in Nat /\ Len(v) \in Nat /\ Len(u \o v) = Len(u) + Len(v)
    BY DEF CutPieces
  <2>2. /\ p = 1 => Len(u) >= MinLength /\ w[u] = 1
        /\ q = 1 => Len(v) >= MinLength /\ w[v] = 1
    BY DEF Worth
  <2>3. a = 1 /\ p = 1 /\ q = 1 => Len(u \o v) >= MinLength /\ w[u \o v] = 1
    BY <2>1, <2>2, StringsAssumption
  <2> QED
    BY <2>3 DEF Worth
<1> HIDE DEF p, q, t
<1> QED
  BY <1>1, <1>2, <1>3 DEF Within

\* What a boundary costs, of the numbers counted of the strings.
LossPerCut == 2 * (MinLength - 1)

Added(i) == AddedPerCut(Patterns[i])

CutCosts(C, A, B) ==
    /\ Near(Len(C), Len(A) + Len(B), 1)
    /\ TotalLength(A) + TotalLength(B) <= TotalLength(C)
    /\ TotalLength(C) <= TotalLength(A) + TotalLength(B) + LossPerCut
    /\ \A i \in DOMAIN Patterns :
          Within(Matches(i - 1, A) + Matches(i - 1, B), Matches(i - 1, C), 1, Added(i))

LEMMA CutIsBounded ==
    ASSUME NEW c \in Seq(Byte), NEW b \in Seq(Byte)
    PROVE  CutCosts(Strings(c \o b), Strings(c), Strings(b))
<1> DEFINE A == Strings(c)
           B == Strings(b)
           C == Strings(c \o b)
<1>1. PICK u, v : CutPieces(c, b, u, v)
  BY CutAt
<1>2. /\ u \in Seq(Byte) /\ v \in Seq(Byte) /\ u \o v \in Seq(Byte)
      /\ Len(u) \in Nat /\ Len(v) \in Nat /\ Len(u \o v) = Len(u) + Len(v)
  BY <1>1 DEF CutPieces
<1>3. A \in Seq(Seq(Byte)) /\ B \in Seq(Seq(Byte)) /\ C \in Seq(Seq(Byte))
  <2>1. c \o b \in Seq(Byte)
    BY ConcatProperties
  <2> QED
    BY <2>1, StringsType
<1> HIDE DEF A, B, C
<1>4. /\ Len(A) \in Nat /\ Len(B) \in Nat /\ Len(C) \in Nat
      /\ TotalLength(A) \in Nat /\ TotalLength(B) \in Nat /\ TotalLength(C) \in Nat
  BY <1>3, CountersType
<1>5. Near(Len(C), Len(A) + Len(B), 1)
  <2> DEFINE w == Ones
  <2>1. w \in [Seq(Byte) -> Nat] /\ (\A s \in Seq(Byte) : w[s] = 1)
    BY DEF Ones
  <2>2. Len(C) = SumOver(w, C) /\ Len(A) = SumOver(w, A) /\ Len(B) = SumOver(w, B)
    BY <1>3, CountsAreSums
  <2> HIDE DEF w
  <2> DEFINE x == Len(C)
             y == Len(A) + Len(B)
  <2>3. x \in Nat /\ y \in Nat
    BY <1>4
  <2>4. x = SumOver(w, Strings(c \o b)) /\ y = SumOver(w, Strings(c)) + SumOver(w, Strings(b))
    BY <2>2 DEF A, B, C
  <2>5. (\A s \in Seq(Byte) : w[s] \in {0, 1}) /\ w[u \o v] = 1
    BY <1>2, <2>1
  <2> HIDE DEF x, y
  <2>6. Within(y, x, 1, 1)
    BY <1>1, <2>1, <2>3, <2>4, <2>5, CutCount
  <2>7. Near(x, y, 1)
    BY <2>3, <2>6 DEF Within, Near
  <2> QED
    BY <2>7 DEF x, y
<1>6. ASSUME NEW i \in DOMAIN Patterns
      PROVE  Within(Matches(i - 1, A) + Matches(i - 1, B), Matches(i - 1, C), 1, Added(i))
  <2> DEFINE w == Found(i)
             x == Matches(i - 1, C)
             y == Matches(i - 1, A) + Matches(i - 1, B)
  <2>1. /\ w \in [Seq(Byte) -> Nat]
        /\ \A s \in Seq(Byte) : w[s] \in {0, 1} /\ (w[s] = 1 <=> s \in Matching(i))
    BY DEF Found
  <2>2. /\ Matches(i - 1, C) = SumOver(w, C) /\ Matches(i - 1, A) = SumOver(w, A)
        /\ Matches(i - 1, B) = SumOver(w, B)
    BY <1>3, CountsAreSums
  <2>3. x \in Nat /\ y \in Nat
    <3>1. Matches(i - 1, C) \in Nat /\ Matches(i - 1, A) \in Nat /\ Matches(i - 1, B) \in Nat
      BY <1>3, PatternsAgree
    <3> QED
      BY <3>1
  <2>4. x = SumOver(w, Strings(c \o b)) /\ y = SumOver(w, Strings(c)) + SumOver(w, Strings(b))
    BY <2>2 DEF A, B, C
  <2> HIDE DEF w, x, y
  <2>5. Added(i) \in {1, 2} /\ (Added(i) = 1 /\ w[u] = 1 /\ w[v] = 1 => w[u \o v] = 1)
    <3>1. Added(i) = 1 /\ u \in Matching(i) /\ v \in Matching(i) => u \o v \in Matching(i)
      BY <1>2, MatchJoined DEF Added
    <3>2. Added(i) \in {1, 2}
      BY RegexIs DEF Added
    <3> QED
      BY <1>2, <2>1, <3>1, <3>2
  <2>6. \A s \in Seq(Byte) : w[s] \in {0, 1}
    BY <2>1
  <2>7. Within(y, x, 1, Added(i))
    BY <1>1, <2>1, <2>3, <2>4, <2>5, <2>6, CutCount
  <2> QED
    BY <2>7 DEF x, y
<1>7. /\ TotalLength(A) + TotalLength(B) <= TotalLength(C)
      /\ TotalLength(C) <= TotalLength(A) + TotalLength(B) + LossPerCut
  <2> DEFINE w == Lengths
             p == Worth(w, u)
             q == Worth(w, v)
             r == Worth(w, u \o v)
             k == Len(u)
             l == Len(v)
  <2>1. w \in [Seq(Byte) -> Nat] /\ (\A s \in Seq(Byte) : w[s] = Len(s))
    BY ValuesTypes DEF Lengths
  <2>2. TotalLength(C) = SumOver(w, C) /\ TotalLength(A) = SumOver(w, A) /\ TotalLength(B) = SumOver(w, B)
    BY <1>3, CountersAre
  <2> HIDE DEF w
  <2>3. TotalLength(C) + (p + q) = (TotalLength(A) + TotalLength(B)) + r
    BY <1>1, <2>1, <2>2 DEF CutPieces, A, B, C
  <2>4. /\ p = IF k >= MinLength THEN k ELSE 0
        /\ q = IF l >= MinLength THEN l ELSE 0
        /\ r = IF k + l >= MinLength THEN k + l ELSE 0
    BY <1>2, <2>1 DEF Worth
  <2>5. k \in Nat /\ l \in Nat /\ MinLength \in Nat \ {0}
    BY <1>2, StringsAssumption
  <2> HIDE DEF p, q, r, k, l
  <2> QED
    BY <1>4, <2>3, <2>4, <2>5 DEF LossPerCut
<1> QED
  BY <1>5, <1>6, <1>7 DEF CutCosts, A, B, C

-----------------------------------------------------------------------------
(* What is lost of a file *)

\* The numbers kept, and those of the strings of the content given so far.
Losses ==
    LET strings == Strings(content) IN
    /\ content = <<>> => cuts = 0
    /\ Near(numReadableStrings, Len(strings), cuts)
    /\ totalNumReadable <= TotalLength(strings)
    /\ TotalLength(strings) <= totalNumReadable + cuts * LossPerCut
    /\ \A i \in DOMAIN Patterns :
          Within(interestingCounts[i - 1], Matches(i - 1, strings), cuts, Added(i))
    /\ cuts = 0 => \A b \in Readable : readableCounts[b] = TotalOccurrences(b, strings)

StringsInv ==
    /\ StringsTypeOK
    /\ phase # "new" => StringsAgree /\ Losses

\* Nothing has no strings.
LEMMA NoStrings == Strings(<<>>) = <<>>
<1>1. Len(<<>>) = 0 /\ 1..0 = {}
  OBVIOUS
<1>2. Runs(<<>>) = {}
  BY <1>1 DEF Runs
<1>3. Cardinality(Runs(<<>>)) = 0
  BY <1>2, FS_EmptySet
<1> QED
  BY <1>1, <1>3 DEF Strings

\* More of them: a sum two of whose terms are near is near, and within what is lost and added.
LEMMA NearAdds ==
    ASSUME NEW x \in Nat, NEW y \in Nat, NEW n \in Nat, NEW d \in Nat, NEW z \in Nat,
           Near(x, y, d), Near(z, y + n, 1)
    PROVE  Near(x + n, z, d + 1)
BY DEF Near

LEMMA WithinAdds ==
    ASSUME NEW x \in Nat, NEW y \in Nat, NEW n \in Nat, NEW d \in Nat, NEW z \in Nat,
           NEW a \in {1, 2}, Within(x, y, d, a), Within(y + n, z, 1, a)
    PROVE  Within(x + n, z, d + 1, a)
<1>1. CASE a = 1
  BY <1>1 DEF Within
<1>2. CASE a = 2
  BY <1>2 DEF Within
<1> QED
  BY <1>1, <1>2

\* Of none lost and none added.
LEMMA WithinNone ==
    ASSUME NEW x \in Nat, NEW y \in Nat, NEW i \in DOMAIN Patterns
    PROVE  Within(x, y, 0, Added(i)) <=> x = y
<1>1. Added(i) \in {1, 2} /\ 0 * Added(i) = 0
  BY RegexIs DEF Added
<1> QED
  BY <1>1 DEF Within

\* The first block after a reset.
LEMMA FirstLoss ==
    ASSUME NEW chunk \in Seq(Byte), StringsTypeOK, Losses, Reduce(chunk), content = <<>>
    PROVE  Losses'
<1> DEFINE ss == Strings(chunk)
<1>1. /\ numReadableStrings' = numReadableStrings + Len(ss)
      /\ readableCounts' = [b \in Readable |-> readableCounts[b] + TotalOccurrences(b, ss)]
      /\ totalNumReadable' = totalNumReadable + TotalLength(ss)
      /\ interestingCounts' = [k \in 0..(ByteRange - 1) |-> interestingCounts[k] + Matches(k, ss)]
      /\ content' = content \o chunk /\ cuts' = 0
  BY DEF Reduce
<1>2. content' = chunk
  <2>1. <<>> \o chunk = chunk
    BY ConcatEmptySeq
  <2> QED
    BY <1>1, <2>1
<1>3. ss \in Seq(Seq(Byte))
  BY StringsType
<1>4. cuts = 0 /\ Strings(content) = <<>>
  BY NoStrings DEF Losses
<1> HIDE DEF ss
<1>5. /\ numReadableStrings \in Nat /\ totalNumReadable \in Nat /\ Len(ss) \in Nat
      /\ TotalLength(ss) \in Nat
      /\ \A i \in DOMAIN Patterns : Matches(i - 1, ss) \in Nat
      /\ \A i \in DOMAIN Patterns : interestingCounts[i - 1] \in Nat
      /\ \A b : TotalOccurrences(b, ss) \in Nat
  BY <1>3, CountersType, PatternsAgree, ReadableFinite DEF StringsTypeOK
<1>6. numReadableStrings = 0 /\ totalNumReadable = 0
  <2>1. /\ Near(numReadableStrings, Len(<<>>), 0) /\ totalNumReadable <= TotalLength(<<>>)
    BY <1>4 DEF Losses
  <2>2. Near(numReadableStrings, 0, 0) /\ totalNumReadable <= 0
    BY <2>1, CountersNone
  <2> QED
    BY <1>5, <2>2 DEF Near
<1>7. \A i \in DOMAIN Patterns : interestingCounts[i - 1] = 0
  <2> SUFFICES ASSUME NEW i \in DOMAIN Patterns PROVE interestingCounts[i - 1] = 0
    OBVIOUS
  <2>1. Within(interestingCounts[i - 1], Matches(i - 1, <<>>), 0, Added(i))
    BY <1>4 DEF Losses
  <2>2. Matches(i - 1, <<>>) = 0
    BY CountersNone, ReadableFinite
  <2> QED
    BY <1>5, <2>1, <2>2, WithinNone
<1>8. \A b \in Readable : readableCounts[b] = 0
  BY <1>4, CountersNone DEF Losses
<1>9. numReadableStrings' = Len(ss) /\ totalNumReadable' = TotalLength(ss)
  BY <1>1, <1>5, <1>6
<1>10. \A i \in DOMAIN Patterns : interestingCounts'[i - 1] = Matches(i - 1, ss)
  <2> SUFFICES ASSUME NEW i \in DOMAIN Patterns
               PROVE  interestingCounts'[i - 1] = Matches(i - 1, ss)
    OBVIOUS
  <2>1. interestingCounts'[i - 1] = interestingCounts[i - 1] + Matches(i - 1, ss)
    BY <1>1, ReadableFinite
  <2> QED
    BY <1>5, <1>7, <2>1
<1>11. \A b \in Readable : readableCounts'[b] = TotalOccurrences(b, ss)
  BY <1>1, <1>5, <1>8
<1>12. \A n \in Nat : Near(n, n, 0)
  BY DEF Near
<1>13. Near(numReadableStrings', Len(ss), 0)
  BY <1>5, <1>9, <1>12
<1>14. totalNumReadable' <= TotalLength(ss) /\ TotalLength(ss) <= totalNumReadable' + 0 * LossPerCut
  <2>1. 0 * LossPerCut = 0
    BY StringsAssumption DEF LossPerCut
  <2> QED
    BY <1>5, <1>9, <2>1
<1>15. \A i \in DOMAIN Patterns : Within(interestingCounts'[i - 1], Matches(i - 1, ss), 0, Added(i))
  BY <1>5, <1>10, WithinNone
<1> QED
  BY <1>1, <1>2, <1>11, <1>13, <1>14, <1>15, Zenon DEF Losses, ss

\* A block more, and a boundary.
LEMMA NextLoss ==
    ASSUME NEW chunk \in Seq(Byte), StringsTypeOK, Losses, Reduce(chunk), content # <<>>
    PROVE  Losses'
<1> DEFINE ss == Strings(chunk)
           A == Strings(content)
           C == Strings(content \o chunk)
<1>1. /\ numReadableStrings' = numReadableStrings + Len(ss)
      /\ totalNumReadable' = totalNumReadable + TotalLength(ss)
      /\ interestingCounts' = [k \in 0..(ByteRange - 1) |-> interestingCounts[k] + Matches(k, ss)]
      /\ content' = content \o chunk /\ cuts' = cuts + 1
  BY DEF Reduce
<1>2. content \in Seq(Byte) /\ content \o chunk \in Seq(Byte) /\ content \o chunk # <<>>
  <2>1. content \in Seq(Byte)
    BY DEF StringsTypeOK
  <2>2. /\ content \o chunk \in Seq(Byte)
        /\ Len(content \o chunk) = Len(content) + Len(chunk)
        /\ Len(content) \in Nat /\ Len(chunk) \in Nat /\ Len(content) # 0
    BY <2>1, ConcatProperties, LenProperties, EmptySeq
  <2> QED
    BY <2>1, <2>2
<1>3. ss \in Seq(Seq(Byte)) /\ A \in Seq(Seq(Byte)) /\ C \in Seq(Seq(Byte))
  BY <1>2, StringsType
<1>4. CutCosts(C, A, ss)
  BY <1>2, CutIsBounded
<1>5. /\ Near(numReadableStrings, Len(A), cuts)
      /\ totalNumReadable <= TotalLength(A)
      /\ TotalLength(A) <= totalNumReadable + cuts * LossPerCut
      /\ \A i \in DOMAIN Patterns :
            Within(interestingCounts[i - 1], Matches(i - 1, A), cuts, Added(i))
  BY DEF Losses
<1> HIDE DEF ss, A, C
<1>6. /\ numReadableStrings \in Nat /\ totalNumReadable \in Nat /\ cuts \in Nat
      /\ Len(ss) \in Nat /\ Len(A) \in Nat /\ Len(C) \in Nat
      /\ TotalLength(ss) \in Nat /\ TotalLength(A) \in Nat /\ TotalLength(C) \in Nat
  BY <1>3, CountersType DEF StringsTypeOK
<1>7. \A i \in DOMAIN Patterns :
         /\ interestingCounts[i - 1] \in Nat
         /\ interestingCounts'[i - 1] = interestingCounts[i - 1] + Matches(i - 1, ss)
         /\ Matches(i - 1, ss) \in Nat /\ Matches(i - 1, A) \in Nat /\ Matches(i - 1, C) \in Nat
  BY <1>1, <1>3, PatternsAgree, ReadableFinite DEF StringsTypeOK
<1>8. Near(numReadableStrings', Len(C), cuts + 1)
  <2>1. Near(Len(C), Len(A) + Len(ss), 1)
    BY <1>4 DEF CutCosts
  <2> QED
    BY <1>1, <1>5, <1>6, <2>1, NearAdds
<1>9. ASSUME NEW i \in DOMAIN Patterns
      PROVE  Within(interestingCounts'[i - 1], Matches(i - 1, C), cuts + 1, Added(i))
  <2> DEFINE x == interestingCounts[i - 1]
             y == Matches(i - 1, A)
             n == Matches(i - 1, ss)
             z == Matches(i - 1, C)
             a == Added(i)
  <2>1. Within(y + n, z, 1, a) /\ Within(x, y, cuts, a)
    BY <1>4, <1>5 DEF CutCosts
  <2>2. x \in Nat /\ y \in Nat /\ n \in Nat /\ z \in Nat /\ interestingCounts'[i - 1] = x + n
    BY <1>7
  <2>3. a \in {1, 2}
    BY RegexIs DEF Added
  <2> HIDE DEF x, y, n, z, a
  <2>4. Within(x + n, z, cuts + 1, a)
    BY <1>6, <2>1, <2>2, <2>3, WithinAdds
  <2> QED
    BY <2>2, <2>4 DEF z, a
<1>10. /\ totalNumReadable' <= TotalLength(C)
       /\ TotalLength(C) <= totalNumReadable' + (cuts + 1) * LossPerCut
  <2> DEFINE l == LossPerCut
             p == cuts * l
             q == (cuts + 1) * l
  <2>1. l \in Nat
    BY StringsAssumption DEF LossPerCut
  <2> HIDE DEF l
  <2>2. q = p + l /\ p \in Nat
    <3>1. \A m, n \in Nat : (m + 1) * n = m * n + n /\ m * n \in Nat
      OBVIOUS
    <3> QED
      BY <1>6, <2>1, <3>1
  <2>3. TotalLength(A) <= totalNumReadable + p
    BY <1>5 DEF l
  <2>4. TotalLength(A) + TotalLength(ss) <= TotalLength(C)
    BY <1>4 DEF CutCosts
  <2>5. TotalLength(C) <= TotalLength(A) + TotalLength(ss) + l
    BY <1>4 DEF CutCosts, l
  <2> HIDE DEF p, q
  <2>6. /\ totalNumReadable' = totalNumReadable + TotalLength(ss)
        /\ totalNumReadable <= TotalLength(A)
    BY <1>1, <1>5
  <2>7. totalNumReadable' <= TotalLength(C)
    BY <1>6, <2>4, <2>6
  <2>8. TotalLength(C) <= totalNumReadable' + q
    BY <1>6, <2>1, <2>2, <2>3, <2>5, <2>6
  <2> QED
    BY <2>7, <2>8 DEF q, l
<1>11. cuts' # 0 /\ content' # <<>>
  BY <1>1, <1>2, <1>6
<1> QED
  BY <1>1, <1>8, <1>9, <1>10, <1>11, Zenon DEF Losses, C

\* reset finds no strings in nothing.
LEMMA LossesReset ==
    ASSUME Reset
    PROVE  Losses'
<1>1. /\ numReadableStrings' = 0 /\ totalNumReadable' = 0 /\ content' = <<>> /\ cuts' = 0
      /\ readableCounts' = [b \in Readable |-> 0]
      /\ interestingCounts' = [k \in 0..(ByteRange - 1) |-> 0]
  BY DEF Reset
<1>2. 0 * LossPerCut = 0
  BY StringsAssumption DEF LossPerCut
<1>3. /\ Len(<<>>) = 0 /\ TotalLength(<<>>) = 0
      /\ \A b : TotalOccurrences(b, <<>>) = 0
      /\ \A i \in DOMAIN Patterns : Matches(i - 1, <<>>) = 0
  BY CountersNone, ReadableFinite
<1>4. \A i \in DOMAIN Patterns : interestingCounts'[i - 1] = 0
  BY <1>1, ReadableFinite
<1>5. Near(0, 0, 0) /\ 0 <= 0 /\ 0 <= 0 + 0 /\ \A i \in DOMAIN Patterns : Within(0, 0, 0, Added(i))
  BY WithinNone DEF Near
<1>6. \A b \in Readable : readableCounts'[b] = 0
  BY <1>1
<1> QED
  BY <1>1, <1>2, <1>3, <1>4, <1>5, <1>6, NoStrings, Zenon DEF Losses

\* The blocks are sequences of bytes.
LEMMA NextBlocksAre ==
    ASSUME NEW b \in NextBlocks, StringsTypeOK
    PROVE  b \in Seq(Byte)
<1>1. blockSize \in Nat
  BY StringsAssumption DEF StringsTypeOK
<1>2. PICK n \in 1..blockSize : b \in [1..n -> Byte]
  BY DEF NextBlocks
<1>3. n \in Nat
  BY <1>1, <1>2
<1> QED
  BY <1>2, <1>3

\* reduce keeps the types.
LEMMA StringsTypeReduce ==
    ASSUME NEW chunk \in Seq(Byte), StringsTypeOK, Reduce(chunk)
    PROVE  StringsTypeOK'
<1> DEFINE ss == Strings(chunk)
<1>1. ss \in Seq(Seq(Byte))
  BY StringsType
<1>2. content \o chunk \in Seq(Byte)
  BY ConcatProperties DEF StringsTypeOK
<1>3. /\ numReadableStrings' = numReadableStrings + Len(ss)
      /\ sumReadableStringLengths' = sumReadableStringLengths + TotalLength(ss)
      /\ readableCounts' = [c \in Readable |-> readableCounts[c] + TotalOccurrences(c, ss)]
      /\ totalNumReadable' = totalNumReadable + TotalLength(ss)
      /\ interestingCounts' = [k \in 0..(ByteRange - 1) |-> interestingCounts[k] + Matches(k, ss)]
  BY DEF Reduce
<1>4. /\ content' = content \o chunk /\ cuts' = IF content = <<>> THEN 0 ELSE cuts + 1
      /\ UNCHANGED <<phase, blockSize>>
  BY DEF Reduce
<1> HIDE DEF ss
<1>5. /\ Len(ss) \in Nat /\ TotalLength(ss) \in Nat
      /\ \A c : TotalOccurrences(c, ss) \in Nat
      /\ \A k \in 0..(ByteRange - 1) : Matches(k, ss) \in Nat
  BY <1>1, CountersType
<1>6. numReadableStrings' \in Nat /\ sumReadableStringLengths' \in Nat /\ totalNumReadable' \in Nat
  BY <1>3, <1>5 DEF StringsTypeOK
<1>7. readableCounts' \in [Readable -> Nat]
  BY <1>3, <1>5 DEF StringsTypeOK
<1>8. interestingCounts' \in [0..(ByteRange - 1) -> Nat]
  BY <1>3, <1>5 DEF StringsTypeOK
<1>9. /\ content' \in Seq(Byte) /\ cuts' \in Nat
      /\ phase' \in {"new", "ready", "final"} /\ blockSize' \in BlockSizes
  BY <1>2, <1>4 DEF StringsTypeOK
<1> QED
  BY <1>6, <1>7, <1>8, <1>9 DEF StringsTypeOK

\* Every call keeps them.
LEMMA StringsTypeNext ==
    ASSUME StringsTypeOK, [StringsNext]_stringsVars
    PROVE  StringsTypeOK'
<1>1. CASE Reset
  BY <1>1 DEF Reset, StringsTypeOK
<1>2. ASSUME NEW b \in NextBlocks, Reduce(b) PROVE StringsTypeOK'
  BY <1>2, NextBlocksAre, StringsTypeReduce
<1>3. CASE Finalize
  BY <1>3 DEF Finalize, counters, StringsTypeOK
<1>4. CASE UNCHANGED stringsVars
  BY <1>4 DEF stringsVars, counters, StringsTypeOK
<1> QED
  BY <1>1, <1>2, <1>3, <1>4 DEF StringsNext

\* The extractor's types, however it is called.
THEOREM StringsTypes == StringsSpec => []StringsTypeOK
<1>1. StringsInit => StringsTypeOK
  BY DEF StringsInit, StringsTypeOK
<1> QED
  BY <1>1, StringsTypeNext, PTL DEF StringsSpec

\* Every call keeps the losses within what the boundaries cost.
LEMMA StringsInvNext ==
    ASSUME StringsInv, [StringsNext]_stringsVars
    PROVE  StringsInv'
<1>1. StringsTypeOK'
  BY StringsTypeNext DEF StringsInv
<1>2. phase' # "new" => StringsAgree' /\ Losses'
  <2>1. CASE Reset
    BY <2>1, AgreeReset, LossesReset
  <2>2. ASSUME NEW b \in NextBlocks, Reduce(b) PROVE StringsAgree' /\ Losses'
    <3>1. b \in Seq(Byte) /\ StringsTypeOK /\ StringsAgree /\ Losses
      BY <2>2, NextBlocksAre DEF StringsInv, Reduce
    <3>2. StringsAgree'
      BY <2>2, <3>1, AgreeReduce
    <3>3. Losses'
      BY <2>2, <3>1, FirstLoss, NextLoss
    <3> QED
      BY <3>2, <3>3
  <2>3. ASSUME UNCHANGED <<counters, content, cuts>>, phase # "new"
        PROVE  StringsAgree' /\ Losses'
    <3>1. StringsAgree /\ Losses
      BY <2>3 DEF StringsInv
    <3>2. StringsAgree'
      BY <2>3, <3>1 DEF counters, StringsAgree
    <3>3. Losses'
      BY <2>3, <3>1 DEF counters, Losses
    <3> QED
      BY <3>2, <3>3
  <2>4. CASE Finalize
    BY <2>3, <2>4 DEF Finalize
  <2>5. CASE UNCHANGED stringsVars
    BY <2>3, <2>5 DEF stringsVars
  <2> QED
    BY <2>1, <2>2, <2>4, <2>5 DEF StringsNext
<1> QED
  BY <1>1, <1>2 DEF StringsInv

\* The invariant, however the extractor is called.
LEMMA StringsInvariant == StringsSpec => []StringsInv
<1>1. StringsInit => StringsInv
  BY DEF StringsInit, StringsTypeOK, StringsInv
<1> QED
  BY <1>1, StringsInvNext, PTL DEF StringsSpec

\* Members that agree give features that do.
LEMMA AgreeFeatures ==
    ASSUME StringsTypeOK, StringsAgree
    PROVE  FeaturesAgree
<1> DEFINE w == Written
<1>1. /\ w.numstrings = numReadableStrings /\ w.printables = totalNumReadable
      /\ w.printabledist = readableCounts
      /\ w.avlength = IF numReadableStrings = 0 THEN 0 ELSE sumReadableStringLengths
      /\ \A i \in DOMAIN Patterns : w.string_counts[i] = interestingCounts[i - 1]
  BY DEF Written
<1> HIDE DEF w
<1>2. DOMAIN readableCounts = Readable
  BY DEF StringsTypeOK
<1>3. SumFunction(w.printabledist) = w.printables
  BY <1>1, <1>2, SumFunctionIs DEF StringsAgree
<1> QED
  BY <1>1, <1>3 DEF w, FeaturesAgree, StringsAgree

\* The features, which come from five members filled separately, agree however the
\* content is cut into blocks, and those of one file do not depend on the files before it
\* (f_string_extractor.cpp:148-205).
THEOREM StringFeaturesAgree == StringsSpec => []FeaturesAgree
<1>1. StringsInv => FeaturesAgree
  <2> SUFFICES ASSUME StringsInv, phase = "final" PROVE FeaturesAgree
    BY DEF FeaturesAgree
  <2> QED
    BY AgreeFeatures DEF StringsInv
<1> QED
  BY <1>1, StringsInvariant, PTL

\* How many strings a pattern is in.
LEMMA WrittenMatches ==
    ASSUME NEW ss \in Seq(Seq(Byte)), NEW i \in DOMAIN Patterns
    PROVE  Matches(i - 1, ss)
              = Cardinality({ j \in DOMAIN ss : PartialMatch(ss[j], Patterns[i]) })
<1> DEFINE k == i - 1
<1>1. k \in 0..(ByteRange - 1) /\ k + 1 = i
  BY ReadableFinite
<1> HIDE DEF k
<1>2. Matches(k, ss) = Cardinality(Hits(Matching(i), ss))
  BY <1>1, MatchesAre
<1>3. Hits(Matching(i), ss) = { j \in DOMAIN ss : PartialMatch(ss[j], Patterns[i]) }
  <2>1. \A j \in DOMAIN ss : ss[j] \in Seq(Byte)
    BY LenProperties, ElementOfSeq
  <2> QED
    BY <2>1 DEF Hits, Matching
<1> QED
  BY <1>2, <1>3 DEF k

\* The members are what given strings make of them.
CountersOf(ss) ==
    /\ numReadableStrings = Len(ss)
    /\ sumReadableStringLengths = TotalLength(ss) /\ totalNumReadable = TotalLength(ss)
    /\ \A b \in Readable : readableCounts[b] = TotalOccurrences(b, ss)
    /\ \A i \in DOMAIN Patterns : interestingCounts[i - 1] = Matches(i - 1, ss)

\* Then finalize writes the features of these strings.
LEMMA WrittenIsOf ==
    ASSUME NEW ss \in Seq(Seq(Byte)), StringsTypeOK, CountersOf(ss)
    PROVE  Written = FeaturesOf(ss)
<1>1. numReadableStrings = 0 => TotalLength(ss) = 0
  <2> SUFFICES ASSUME Len(ss) = 0 PROVE TotalLength(ss) = 0
    BY DEF CountersOf
  <2>1. ss = <<>>
    BY EmptySeq
  <2> QED
    BY <2>1, CountersNone
<1>2. [b \in Readable |-> TotalOccurrences(b, ss)] = readableCounts
  <2>1. readableCounts \in [Readable -> Nat]
    BY DEF StringsTypeOK
  <2> QED
    BY <2>1 DEF CountersOf
<1>3. ASSUME NEW i \in DOMAIN Patterns
      PROVE  interestingCounts[i - 1]
                = Cardinality({ j \in DOMAIN ss : PartialMatch(ss[j], Patterns[i]) })
  BY WrittenMatches DEF CountersOf
<1> DEFINE a == [i \in DOMAIN Patterns |-> interestingCounts[i - 1]]
           b == [i \in DOMAIN Patterns |->
                   Cardinality({ j \in DOMAIN ss : PartialMatch(ss[j], Patterns[i]) })]
<1>4. a = b
  BY <1>3, Zenon
<1>5. Written = [numstrings |-> numReadableStrings,
                 avlength |-> IF numReadableStrings = 0 THEN 0 ELSE sumReadableStringLengths,
                 printables |-> totalNumReadable, printabledist |-> readableCounts,
                 string_counts |-> a]
  BY DEF Written
<1>6. FeaturesOf(ss) = [numstrings |-> Len(ss), avlength |-> TotalLength(ss),
                        printables |-> TotalLength(ss),
                        printabledist |-> [c \in Readable |-> TotalOccurrences(c, ss)],
                        string_counts |-> b]
  BY DEF FeaturesOf
<1> HIDE DEF a, b
<1>7. /\ numReadableStrings = Len(ss) /\ totalNumReadable = TotalLength(ss)
      /\ (IF numReadableStrings = 0 THEN 0 ELSE sumReadableStringLengths) = TotalLength(ss)
  BY <1>1 DEF CountersOf
<1> QED
  BY <1>2, <1>4, <1>5, <1>6, <1>7

\* Without a boundary nothing is lost.
LEMMA NoCutNoLoss ==
    ASSUME StringsTypeOK, StringsAgree, Losses, cuts = 0
    PROVE  Written = Whole
<1> DEFINE ss == Strings(content)
<1>1. ss \in Seq(Seq(Byte))
  BY StringsType DEF StringsTypeOK
<1>2. /\ Near(numReadableStrings, Len(ss), 0)
      /\ totalNumReadable <= TotalLength(ss) /\ TotalLength(ss) <= totalNumReadable + 0 * LossPerCut
      /\ \A i \in DOMAIN Patterns : Within(interestingCounts[i - 1], Matches(i - 1, ss), 0, Added(i))
      /\ \A b \in Readable : readableCounts[b] = TotalOccurrences(b, ss)
  BY DEF Losses
<1>3. Whole = FeaturesOf(ss)
  BY DEF Whole
<1> HIDE DEF ss
<1>4. \A x, y \in Nat : Near(x, y, 0) => x = y
  BY DEF Near
<1>5. /\ Len(ss) \in Nat /\ TotalLength(ss) \in Nat
      /\ numReadableStrings \in Nat /\ totalNumReadable \in Nat
      /\ 0 * LossPerCut = 0
  BY <1>1, CountersType, StringsAssumption DEF StringsTypeOK, LossPerCut
<1>6. numReadableStrings = Len(ss) /\ totalNumReadable = TotalLength(ss)
  <2>1. numReadableStrings = Len(ss)
    BY <1>2, <1>4, <1>5
  <2>2. totalNumReadable <= TotalLength(ss) /\ TotalLength(ss) <= totalNumReadable + 0
    BY <1>2, <1>5
  <2>3. totalNumReadable = TotalLength(ss)
    BY <1>5, <2>2
  <2> QED
    BY <2>1, <2>3
<1>7. ASSUME NEW i \in DOMAIN Patterns PROVE interestingCounts[i - 1] = Matches(i - 1, ss)
  <2>1. interestingCounts[i - 1] \in Nat /\ Matches(i - 1, ss) \in Nat
    BY <1>1, ReadableFinite, PatternsAgree DEF StringsTypeOK
  <2> QED
    BY <1>2, <2>1, WithinNone
<1>8. CountersOf(ss)
  BY <1>2, <1>6, <1>7 DEF CountersOf, StringsAgree
<1> QED
  BY <1>1, <1>3, <1>8, WrittenIsOf

\* A number near another is in the range around it.
LEMMA NearInRange ==
    ASSUME NEW x \in Nat, NEW y \in Nat, NEW d \in Nat, Near(x, y, d)
    PROVE  x \in (y - d)..(y + d)
BY DEF Near

LEMMA WithinInRange ==
    ASSUME NEW x \in Nat, NEW y \in Nat, NEW d \in Nat, NEW a \in {1, 2}, Within(x, y, d, a)
    PROVE  x \in (y - d)..(y + d * a)
<1>1. CASE a = 1
  BY <1>1 DEF Within
<1>2. CASE a = 2
  BY <1>2 DEF Within
<1> QED
  BY <1>1, <1>2

\* What the invariant says of the losses.
LEMMA LossesBound ==
    ASSUME StringsTypeOK, StringsAgree, Losses
    PROVE  LossIsBounded
<1> DEFINE ss == Strings(content)
           w == Written
           whole == Whole
<1>1. cuts = 0 => w = whole
  BY NoCutNoLoss
<1>2. ss \in Seq(Seq(Byte))
  BY StringsType DEF StringsTypeOK
<1>3. /\ Near(numReadableStrings, Len(ss), cuts)
      /\ totalNumReadable <= TotalLength(ss)
      /\ TotalLength(ss) <= totalNumReadable + cuts * LossPerCut
      /\ \A i \in DOMAIN Patterns :
            Within(interestingCounts[i - 1], Matches(i - 1, ss), cuts, Added(i))
  BY DEF Losses
<1>4. /\ w.numstrings = numReadableStrings /\ w.printables = totalNumReadable
      /\ \A i \in DOMAIN Patterns : w.string_counts[i] = interestingCounts[i - 1]
  BY DEF Written
<1>5. /\ whole.numstrings = Len(ss) /\ whole.printables = TotalLength(ss)
      /\ \A i \in DOMAIN Patterns : whole.string_counts[i]
            = Cardinality({ j \in DOMAIN ss : PartialMatch(ss[j], Patterns[i]) })
  BY DEF Whole, FeaturesOf
<1> HIDE DEF ss, w, whole
<1>6. numReadableStrings \in Nat /\ cuts \in Nat /\ Len(ss) \in Nat
  BY <1>2, CountersType DEF StringsTypeOK
<1>7. w.numstrings \in (whole.numstrings - cuts)..(whole.numstrings + cuts)
  <2>1. numReadableStrings \in (Len(ss) - cuts)..(Len(ss) + cuts)
    BY <1>3, <1>6, NearInRange
  <2> QED
    BY <1>4, <1>5, <2>1
<1>8. whole.printables <= w.printables + cuts * 2 * (MinLength - 1)
  <2>1. \A m, n \in Nat : m * 2 * n = m * (2 * n)
    OBVIOUS
  <2>2. MinLength - 1 \in Nat
    BY StringsAssumption
  <2>3. cuts * 2 * (MinLength - 1) = cuts * LossPerCut
    BY <1>6, <2>1, <2>2 DEF LossPerCut
  <2> QED
    BY <1>3, <1>4, <1>5, <2>3
<1>9. ASSUME NEW i \in DOMAIN Patterns
      PROVE  w.string_counts[i]
                \in (whole.string_counts[i] - cuts)
                      ..(whole.string_counts[i] + cuts * AddedPerCut(Patterns[i]))
  <2> DEFINE m == Matches(i - 1, ss)
             n == interestingCounts[i - 1]
             a == AddedPerCut(Patterns[i])
  <2>1. n \in Nat /\ m \in Nat
    BY <1>2, ReadableFinite, PatternsAgree DEF StringsTypeOK
  <2>2. w.string_counts[i] = n /\ whole.string_counts[i] = m
    BY <1>2, <1>4, <1>5, WrittenMatches
  <2>3. Within(n, m, cuts, a)
    BY <1>3 DEF Added
  <2>4. a \in {1, 2}
    BY RegexIs
  <2> HIDE DEF m, n, a
  <2>5. n \in (m - cuts)..(m + cuts * a)
    BY <1>6, <2>1, <2>3, <2>4, WithinInRange
  <2> QED
    BY <2>2, <2>5 DEF a
<1>10. w.printables <= whole.printables
  BY <1>3, <1>4, <1>5
<1> QED
  BY <1>1, <1>7, <1>8, <1>9, <1>10 DEF w, whole, LossIsBounded

\* What the blocks lose or split is bounded by the number of boundaries between them,
\* whatever the bytes, the patterns and the places of the boundaries; a file read as one
\* block gives exactly its strings (f_string_extractor.cpp:148-181).
THEOREM LossBounded == StringsSpec => []LossIsBounded
<1>1. StringsInv => LossIsBounded
  <2> SUFFICES ASSUME StringsInv, phase = "final" PROVE LossIsBounded
    BY DEF LossIsBounded
  <2> QED
    BY LossesBound DEF StringsInv
<1> QED
  BY <1>1, StringsInvariant, PTL
=============================================================================
