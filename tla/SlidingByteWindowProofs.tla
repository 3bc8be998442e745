----------------------- MODULE SlidingByteWindowProofs -----------------------
(***************************************************************************)
(* Proofs about SlidingByteWindow for every window size, step and way to   *)
(* cut the data into pieces.  The windows reported are right because, at   *)
(* every iteration of the loop in reduce, the block is the slice of the    *)
(* data between the start of the next window and what has been consumed,   *)
(* and what the call has still to consume is the rest of the data.         *)
(***************************************************************************)
EXTENDS SlidingByteWindow, SequenceTheorems, TLAPS

\* Offsets in the data: where the next window starts, and what is consumed.
Base == Len(windows) * step
Pos == Base + Len(block)

\* s is what d has after offset o.
IsSlice(s, d, o) == \A j \in 1..Len(s) : s[j] = d[o + j]

Settings == 0 < step /\ step <= windowSize

\* While data is fed, block and buf are the two slices of the data after Base.
BlockIsSlice ==
    /\ Len(block) <= windowSize
    /\ IsSlice(block, fed, Base)
    /\ IsSlice(buf, fed, Pos)
    /\ Len(fed) = Pos + Len(buf)

\* The windows reported so far are strides of the data.
WindowsSoFar ==
    \A i \in 1..Len(windows) :
        /\ Len(windows[i]) = windowSize
        /\ (i - 1) * step + windowSize <= Len(fed)
        /\ IsSlice(windows[i], fed, (i - 1) * step)

\* At the end the data does not reach the end of one more window.
NoMoreWindows ==
    /\ Len(fed) < Base + windowSize
    /\ windows = <<>> => block = fed

Inv ==
    /\ TypeOK
    /\ phase # "started" => buf = <<>>
    /\ phase = "started" => Settings /\ BlockIsSlice /\ WindowsSoFar
    /\ phase = "final" => Settings /\ WindowsSoFar /\ NoMoreWindows

-----------------------------------------------------------------------------
(* Arithmetic of offsets *)

\* One more window moves Base by one step.
LEMMA NextBase == \A n, s \in Nat : (n + 1) * s = n * s + s /\ n * s \in Nat
OBVIOUS

\* Division by the step, from its defining inequalities.
LEMMA QuotientIs ==
    ASSUME NEW a \in Nat, NEW s \in Nat \ {0}, NEW q \in Nat,
           q * s <= a, a < (q + 1) * s
    PROVE  a \div s = q
OBVIOUS

-----------------------------------------------------------------------------
(* Slices *)

\* Dropping n bytes of a slice (erase) gives the slice n further on.
LEMMA SliceDrop ==
    ASSUME NEW S, NEW d, NEW b \in Seq(S), NEW o \in Nat, NEW n \in 0..Len(b),
           IsSlice(b, d, o)
    PROVE  /\ SubSeq(b, n + 1, Len(b)) \in Seq(S)
           /\ Len(SubSeq(b, n + 1, Len(b))) = Len(b) - n
           /\ IsSlice(SubSeq(b, n + 1, Len(b)), d, o + n)
<1>1. Len(b) \in Nat /\ n \in Nat /\ n <= Len(b)
  OBVIOUS
<1>2. \A i \in (n + 1)..Len(b) : b[i] \in S
  BY <1>1
<1> DEFINE t == SubSeq(b, n + 1, Len(b))
<1>3. /\ t \in Seq(S)
      /\ Len(t) = IF n + 1 <= Len(b) THEN Len(b) - (n + 1) + 1 ELSE 0
      /\ \A i \in 1..(Len(b) - (n + 1) + 1) : t[i] = b[(n + 1) + i - 1]
  BY <1>1, <1>2, SubSeqProperties
<1> HIDE DEF t
<1>4. Len(t) = Len(b) - n
  BY <1>1, <1>3
<1>5. ASSUME NEW j \in 1..(Len(b) - n)
      PROVE  t[j] = d[(o + n) + j]
  <2>1. j \in 1..(Len(b) - (n + 1) + 1) /\ (n + 1) + j - 1 = n + j /\ n + j \in 1..Len(b)
    BY <1>1
  <2>2. t[j] = b[n + j]
    BY <1>3, <2>1
  <2>3. \A k \in 1..Len(b) : k = n + j => b[k] = d[(o + n) + j]
    BY <1>1 DEF IsSlice
  <2> QED
    BY <2>1, <2>2, <2>3
<1>6. IsSlice(t, d, o + n)
  BY <1>4, <1>5 DEF IsSlice
<1> QED
  BY <1>3, <1>4, <1>6 DEF t

\* A slice followed by the first n bytes of the adjacent one is a slice (insert).
LEMMA SliceExtend ==
    ASSUME NEW S, NEW d, NEW b \in Seq(S), NEW r \in Seq(S), NEW o \in Nat, NEW n \in 0..Len(r),
           IsSlice(b, d, o), IsSlice(r, d, o + Len(b))
    PROVE  /\ b \o SubSeq(r, 1, n) \in Seq(S)
           /\ Len(b \o SubSeq(r, 1, n)) = Len(b) + n
           /\ IsSlice(b \o SubSeq(r, 1, n), d, o)
<1>1. Len(b) \in Nat /\ Len(r) \in Nat /\ n \in Nat /\ n <= Len(r)
  OBVIOUS
<1> DEFINE t == SubSeq(r, 1, n)
<1>2. /\ t \in Seq(S) /\ Len(t) = n
      /\ \A i \in 1..n : t[i] = r[i]
  BY <1>1
<1> HIDE DEF t
<1>3. /\ b \o t \in Seq(S) /\ Len(b \o t) = Len(b) + n
      /\ \A i \in 1..(Len(b) + n) : (b \o t)[i] = IF i <= Len(b) THEN b[i] ELSE t[i - Len(b)]
  BY <1>2, ConcatProperties
<1>4. ASSUME NEW j \in 1..(Len(b) + n)
      PROVE  (b \o t)[j] = d[o + j]
  <2>1. CASE j <= Len(b)
    BY <1>1, <1>3, <2>1 DEF IsSlice
  <2>2. CASE j > Len(b)
    <3>1. j - Len(b) \in 1..n /\ j - Len(b) \in 1..Len(r) /\ (o + Len(b)) + (j - Len(b)) = o + j
      BY <1>1, <2>2
    <3>2. (b \o t)[j] = t[j - Len(b)]
      BY <1>1, <1>3, <2>2
    <3>3. t[j - Len(b)] = d[(o + Len(b)) + (j - Len(b))]
      BY <1>2, <3>1 DEF IsSlice
    <3> QED
      BY <3>1, <3>2, <3>3
  <2>3. j <= Len(b) \/ j > Len(b)
    BY <1>1
  <2> QED
    BY <2>1, <2>2, <2>3
<1>5. IsSlice(b \o t, d, o)
  BY <1>3, <1>4 DEF IsSlice
<1> QED
  BY <1>3, <1>5 DEF t

\* More data does not change the slices of the data there was.
LEMMA SliceOfLonger ==
    ASSUME NEW S, NEW d \in Seq(S), NEW e \in Seq(S), NEW b \in Seq(S), NEW o \in Nat,
           IsSlice(b, d, o), o + Len(b) <= Len(d)
    PROVE  IsSlice(b, d \o e, o)
<1>1. Len(b) \in Nat /\ Len(d) \in Nat /\ Len(e) \in Nat
  OBVIOUS
<1>2. \A i \in 1..Len(d) : (d \o e)[i] = d[i]
  BY <1>1, ConcatProperties
<1>3. ASSUME NEW j \in 1..Len(b)
      PROVE  b[j] = (d \o e)[o + j]
  <2>1. o + j \in 1..Len(d)
    BY <1>1
  <2>2. b[j] = d[o + j]
    BY DEF IsSlice
  <2> QED
    BY <1>2, <2>1, <2>2
<1> QED
  BY <1>3 DEF IsSlice

\* The data appended is the slice after the data there was.
LEMMA SliceAppended ==
    ASSUME NEW S, NEW d \in Seq(S), NEW e \in Seq(S)
    PROVE  IsSlice(e, d \o e, Len(d))
BY ConcatProperties DEF IsSlice

-----------------------------------------------------------------------------
\* A new window satisfies the invariant.
LEMMA InitInv == Init => Inv
<1> SUFFICES ASSUME Init PROVE Inv
  OBVIOUS
<1>1. /\ block \in Seq(Byte) /\ Len(block) = 0 /\ buf \in Seq(Byte) /\ fed \in Seq(Byte)
      /\ windows \in Seq(Seq(Byte))
  BY DEF Init
<1>2. windowSize \in 0..MaxWindow /\ step \in 0..MaxWindow /\ 0 <= MaxWindow
  BY ConstantsAssumption DEF Init
<1>3. callback \in BOOLEAN
  BY DEF Init
<1> QED
  BY <1>1, <1>2, <1>3 DEF Init, Inv, TypeOK

\* A call outside start..finalize that leaves the data alone and reports nothing.
LEMMA IdleStep ==
    ASSUME Inv, UNCHANGED <<buf, fed, windows>>, phase # "started",
           phase' \in {"idle", "exited"},
           block' = <<>> \/ block' = block,
           windowSize' \in 0..MaxWindow, step' \in 0..MaxWindow, callback' \in BOOLEAN
    PROVE  Inv'
<1>1. block' \in Seq(Byte) /\ Len(block') <= MaxWindow
  <2>1. CASE block' = <<>>
    BY <2>1, ConstantsAssumption
  <2>2. CASE block' = block
    BY <2>2 DEF Inv, TypeOK
  <2> QED
    BY <2>1, <2>2
<1> QED
  BY <1>1 DEF Inv, TypeOK

\* start empties the block: no window, no data yet.
LEMMA StartInv == Inv /\ Start => Inv'
<1> SUFFICES ASSUME Inv, Start PROVE Inv'
  OBVIOUS
<1>1. /\ block' = <<>> /\ fed' = <<>> /\ windows' = <<>> /\ phase' = "started"
      /\ buf' = <<>>
      /\ UNCHANGED <<windowSize, step, callback>>
      /\ step # 0 /\ step <= windowSize
      /\ windowSize \in 0..MaxWindow /\ step \in 0..MaxWindow
  BY DEF Start, Configured, config, Inv, TypeOK
<1>2. TypeOK'
  BY <1>1, ConstantsAssumption DEF Inv, TypeOK
<1>3. Settings'
  BY <1>1, ConstantsAssumption DEF Settings
<1>4. Base' = 0 /\ Pos' = 0
  BY <1>1, ConstantsAssumption, NextBase DEF Base, Pos
<1>5. BlockIsSlice' /\ WindowsSoFar'
  BY <1>1, <1>4, ConstantsAssumption DEF BlockIsSlice, WindowsSoFar, IsSlice
<1> QED
  BY <1>1, <1>2, <1>3, <1>5 DEF Inv

\* The types and offsets that the iterations of reduce work with.
LoopFacts ==
    /\ block \in Seq(Byte) /\ buf \in Seq(Byte) /\ fed \in Seq(Byte)
    /\ windows \in Seq(Seq(Byte)) /\ Len(windows) \in Nat
    /\ Len(block) \in Nat /\ Len(buf) \in Nat /\ Len(fed) \in Nat
    /\ windowSize \in Nat /\ step \in Nat /\ windowSize <= MaxWindow
    /\ 0 < step /\ step <= windowSize
    /\ Base \in Nat /\ Pos = Base + Len(block)
    /\ Len(fed) = Pos + Len(buf)
    /\ Len(block) <= windowSize
    /\ IsSlice(block, fed, Base) /\ IsSlice(buf, fed, Pos)

\* They follow from the invariant while data may be fed.
LEMMA Started ==
    ASSUME Inv, phase = "started"
    PROVE  LoopFacts
<1>1. /\ block \in Seq(Byte) /\ buf \in Seq(Byte) /\ fed \in Seq(Byte)
      /\ windows \in Seq(Seq(Byte))
  BY DEF Inv, TypeOK
<1>2. windowSize \in Nat /\ step \in Nat /\ windowSize <= MaxWindow
  BY ConstantsAssumption DEF Inv, TypeOK
<1>3. /\ Len(windows) \in Nat /\ Len(block) \in Nat /\ Len(buf) \in Nat /\ Len(fed) \in Nat
  BY <1>1
<1>4. Base \in Nat
  BY <1>2, <1>3, NextBase DEF Base
<1> QED
  BY <1>1, <1>2, <1>3, <1>4 DEF Inv, Settings, BlockIsSlice, Pos, LoopFacts

\* A call of reduce adds its argument to the data.
LEMMA ReduceInv ==
    ASSUME Inv, NEW chunk \in Chunks, Reduce(chunk)
    PROVE  Inv'
<1>1. /\ phase = "started" /\ buf = <<>> /\ buf' = chunk /\ fed' = fed \o chunk
      /\ UNCHANGED <<block, windowSize, step, callback, phase, windows>>
      /\ chunk \in Seq(Byte)
  BY ConstantsAssumption DEF Reduce, config
<1>2. LoopFacts
  BY <1>1, Started
<1>3. /\ fed' \in Seq(Byte) /\ Len(fed') = Len(fed) + Len(chunk) /\ Len(chunk) \in Nat
  <2>1. fed \in Seq(Byte) /\ chunk \in Seq(Byte)
    BY <1>1, <1>2 DEF LoopFacts
  <2>2. /\ fed \o chunk \in Seq(Byte) /\ Len(fed \o chunk) = Len(fed) + Len(chunk)
        /\ Len(chunk) \in Nat
    BY <2>1, ConcatProperties
  <2> QED
    BY <1>1, <2>2
<1>4. Base' = Base /\ Pos' = Pos /\ Pos = Len(fed)
  BY <1>1, <1>2 DEF LoopFacts, Base, Pos
<1>5. TypeOK'
  BY <1>1, <1>3 DEF Inv, TypeOK
<1>6. Settings'
  BY <1>1 DEF Inv, Settings
<1>7. BlockIsSlice'
  <2>1. IsSlice(block, fed', Base)
    BY <1>1, <1>2, <1>4, SliceOfLonger DEF LoopFacts
  <2>2. IsSlice(chunk, fed', Pos)
    BY <1>1, <1>2, <1>4, SliceAppended DEF LoopFacts
  <2> QED
    BY <1>1, <1>2, <1>3, <1>4, <2>1, <2>2 DEF LoopFacts, BlockIsSlice
<1>8. WindowsSoFar'
  <2> SUFFICES ASSUME NEW i \in 1..Len(windows)
               PROVE  /\ Len(windows[i]) = windowSize
                      /\ (i - 1) * step + windowSize <= Len(fed')
                      /\ IsSlice(windows[i], fed', (i - 1) * step)
    BY <1>1 DEF WindowsSoFar
  <2>1. (i - 1) * step \in Nat
    <3>1. i - 1 \in Nat /\ step \in Nat
      BY <1>2 DEF LoopFacts
    <3> QED
      BY <3>1, NextBase
  <2>2. /\ Len(windows[i]) = windowSize
        /\ (i - 1) * step + windowSize <= Len(fed)
        /\ IsSlice(windows[i], fed, (i - 1) * step)
    BY <1>1 DEF Inv, WindowsSoFar
  <2>3. windows[i] \in Seq(Byte)
    BY <1>2 DEF LoopFacts
  <2>4. IsSlice(windows[i], fed \o chunk, (i - 1) * step)
    BY <1>1, <1>2, <2>1, <2>2, <2>3, SliceOfLonger DEF LoopFacts
  <2>5. (i - 1) * step + windowSize <= Len(fed')
    BY <1>2, <1>3, <2>1, <2>2 DEF LoopFacts
  <2> QED
    BY <1>1, <2>2, <2>4, <2>5
<1> QED
  BY <1>1, <1>5, <1>6, <1>7, <1>8 DEF Inv

\* An iteration that copies moves bytes from the front of buf to the end of block.
LEMMA CopyInv == Inv /\ Copy => Inv'
<1> SUFFICES ASSUME Inv, Copy PROVE Inv'
  OBVIOUS
<1> DEFINE n == BytesToCopy
<1>1. /\ phase = "started" /\ SpaceInBlock > 0 /\ buf # <<>>
      /\ block' = block \o SubSeq(buf, 1, n) /\ buf' = SubSeq(buf, n + 1, Len(buf))
      /\ UNCHANGED <<windowSize, step, callback, phase, fed, windows>>
  BY DEF Copy, config, Inv
<1>2. LoopFacts
  BY <1>1, Started
<1>3. n \in 0..Len(buf) /\ Len(block) + n <= windowSize
  BY <1>1, <1>2 DEF LoopFacts, BytesToCopy, SpaceInBlock
<1> HIDE DEF n
<1>4. block' \in Seq(Byte) /\ Len(block') = Len(block) + n /\ IsSlice(block', fed, Base)
  <2>1. /\ block \in Seq(Byte) /\ buf \in Seq(Byte) /\ Base \in Nat
        /\ IsSlice(block, fed, Base) /\ IsSlice(buf, fed, Base + Len(block))
    BY <1>2 DEF LoopFacts
  <2>2. /\ block \o SubSeq(buf, 1, n) \in Seq(Byte)
        /\ Len(block \o SubSeq(buf, 1, n)) = Len(block) + n
        /\ IsSlice(block \o SubSeq(buf, 1, n), fed, Base)
    BY <1>3, <2>1, SliceExtend
  <2> QED
    BY <1>1, <2>2
<1>5. buf' \in Seq(Byte) /\ Len(buf') = Len(buf) - n /\ IsSlice(buf', fed, Pos + n)
  <2>1. Pos \in Nat /\ buf \in Seq(Byte) /\ IsSlice(buf, fed, Pos)
    BY <1>2 DEF LoopFacts
  <2>2. /\ SubSeq(buf, n + 1, Len(buf)) \in Seq(Byte)
        /\ Len(SubSeq(buf, n + 1, Len(buf))) = Len(buf) - n
        /\ IsSlice(SubSeq(buf, n + 1, Len(buf)), fed, Pos + n)
    BY <1>3, <2>1, SliceDrop
  <2> QED
    BY <1>1, <2>2
<1>6. Base' = Base /\ Pos' = Pos + n
  <2>1. Base' = Base
    BY <1>1 DEF Base
  <2> QED
    BY <1>2, <1>3, <1>4, <2>1 DEF LoopFacts, Pos
<1>7. Len(block') <= MaxWindow
  BY <1>2, <1>3, <1>4, ConstantsAssumption DEF LoopFacts
<1>8. TypeOK'
  BY <1>1, <1>4, <1>5, <1>7 DEF Inv, TypeOK
<1>9. Settings' /\ WindowsSoFar'
  BY <1>1 DEF Inv, Settings, WindowsSoFar
<1>10. BlockIsSlice'
  <2>1. Len(block') <= windowSize'
    BY <1>1, <1>3, <1>4
  <2>2. IsSlice(block', fed', Base') /\ IsSlice(buf', fed', Pos')
    BY <1>1, <1>4, <1>5, <1>6
  <2>3. Len(fed') = Pos' + Len(buf')
    <3>1. Len(fed) = Pos + Len(buf) /\ Pos \in Nat /\ Len(buf) \in Nat /\ n \in Nat
      BY <1>2, <1>3 DEF LoopFacts
    <3>2. Len(fed') = Len(fed) /\ Pos' = Pos + n /\ Len(buf') = Len(buf) - n
      BY <1>1, <1>5, <1>6
    <3> QED
      BY <3>1, <3>2
  <2> QED
    BY <2>1, <2>2, <2>3 DEF BlockIsSlice, IsSlice
<1> QED
  BY <1>1, <1>8, <1>9, <1>10 DEF Inv

-----------------------------------------------------------------------------
\* Reporting the full block keeps the windows strides of the data.
LEMMA ReportInv ==
    ASSUME Inv, phase = "started", Len(block) = windowSize,
           windows' = Append(windows, block),
           UNCHANGED <<windowSize, step, fed>>
    PROVE  /\ windows' \in Seq(Seq(Byte)) /\ Len(windows') = Len(windows) + 1
           /\ Base' = Base + step
           /\ WindowsSoFar'
<1>1. LoopFacts
  BY Started
<1>2. /\ windows' \in Seq(Seq(Byte)) /\ Len(windows') = Len(windows) + 1
      /\ \A i \in 1..Len(windows) : windows'[i] = windows[i]
      /\ windows'[Len(windows) + 1] = block
  BY <1>1, AppendProperties DEF LoopFacts
<1>3. Base' = Base + step
  BY <1>1, <1>2, NextBase DEF LoopFacts, Base
<1>4. WindowsSoFar'
  <2> SUFFICES ASSUME NEW i \in 1..(Len(windows) + 1)
               PROVE  /\ Len(windows'[i]) = windowSize
                      /\ (i - 1) * step + windowSize <= Len(fed)
                      /\ IsSlice(windows'[i], fed, (i - 1) * step)
    BY <1>2 DEF WindowsSoFar
  <2>1. CASE i \in 1..Len(windows)
    BY <1>2, <2>1 DEF Inv, WindowsSoFar
  <2>2. CASE i = Len(windows) + 1
    <3>1. i - 1 = Len(windows)
      BY <1>1, <2>2 DEF LoopFacts
    <3>2. (i - 1) * step = Base
      BY <3>1 DEF Base
    <3>3. Base + windowSize <= Len(fed)
      BY <1>1 DEF LoopFacts
    <3> QED
      BY <1>1, <1>2, <2>2, <3>2, <3>3 DEF LoopFacts
  <2>3. i \in 1..Len(windows) \/ i = Len(windows) + 1
    <3>1. Len(windows) \in Nat
      BY <1>1 DEF LoopFacts
    <3> QED
      BY <3>1
  <2> QED
    BY <2>1, <2>2, <2>3
<1> QED
  BY <1>2, <1>3, <1>4

\* An iteration that slides reports the block and drops its first `step' bytes.
LEMMA SlideInv == Inv /\ Slide => Inv'
<1> SUFFICES ASSUME Inv, Slide PROVE Inv'
  OBVIOUS
<1>1. /\ phase = "started" /\ windows' = Append(windows, block)
      /\ SpaceInBlock = 0
      /\ block' = SubSeq(block, step + 1, Len(block))
      /\ UNCHANGED <<windowSize, step, callback, buf, phase, fed>>
  BY DEF Slide, config, Inv
<1>2. LoopFacts
  BY <1>1, Started
<1>3. Len(block) = windowSize
  BY <1>1, <1>2 DEF LoopFacts, SpaceInBlock
<1>4. windows' \in Seq(Seq(Byte)) /\ Base' = Base + step /\ WindowsSoFar'
  BY <1>1, <1>3, ReportInv
<1>5. /\ block' \in Seq(Byte) /\ Len(block') = windowSize - step
      /\ IsSlice(block', fed, Base + step)
  <2>1. step \in 0..Len(block)
    BY <1>2, <1>3 DEF LoopFacts
  <2>2. block \in Seq(Byte) /\ Base \in Nat /\ IsSlice(block, fed, Base)
    BY <1>2 DEF LoopFacts
  <2>3. /\ SubSeq(block, step + 1, Len(block)) \in Seq(Byte)
        /\ Len(SubSeq(block, step + 1, Len(block))) = Len(block) - step
        /\ IsSlice(SubSeq(block, step + 1, Len(block)), fed, Base + step)
    BY <2>1, <2>2, SliceDrop
  <2> QED
    BY <1>1, <1>3, <2>3
<1>6. Pos' = Pos
  BY <1>2, <1>3, <1>4, <1>5 DEF LoopFacts, Pos
<1>7. Len(block') <= MaxWindow
  BY <1>2, <1>5, ConstantsAssumption DEF LoopFacts
<1>8. TypeOK'
  BY <1>1, <1>4, <1>5, <1>7 DEF Inv, TypeOK
<1>9. Settings'
  BY <1>1 DEF Inv, Settings
<1>10. BlockIsSlice'
  <2>1. Len(block') <= windowSize
    BY <1>2, <1>5 DEF LoopFacts
  <2> QED
    BY <1>1, <1>2, <1>4, <1>5, <1>6, <2>1 DEF LoopFacts, BlockIsSlice
<1> QED
  BY <1>1, <1>4, <1>8, <1>9, <1>10 DEF Inv

\* finalize reports the block if it is full; no further window fits the data.
LEMMA FinalizeInv == Inv /\ Finalize => Inv'
<1> SUFFICES ASSUME Inv, Finalize PROVE Inv'
  OBVIOUS
<1>1. /\ phase = "started" /\ buf = <<>> /\ phase' = "final"
      /\ UNCHANGED <<block, windowSize, step, callback, buf, fed>>
  BY DEF Finalize, config
<1>2. LoopFacts
  BY <1>1, Started
<1>3. Len(fed) = Base + Len(block)
  BY <1>1, <1>2 DEF LoopFacts
<1>4. CASE Len(block) = windowSize
  <2>1. windows' = Append(windows, block)
    BY <1>4 DEF Finalize
  <2>2. /\ windows' \in Seq(Seq(Byte)) /\ Len(windows') = Len(windows) + 1
        /\ Base' = Base + step /\ WindowsSoFar'
    BY <1>1, <1>4, <2>1, ReportInv
  <2>3. TypeOK'
    BY <1>1, <2>2 DEF Inv, TypeOK
  <2>4. Settings'
    BY <1>1 DEF Inv, Settings
  <2>5. windows' # <<>>
    BY <1>2, <2>1, AppendProperties DEF LoopFacts
  <2>6. Len(fed) < (Base + step) + windowSize
    BY <1>2, <1>3, <1>4 DEF LoopFacts
  <2>7. NoMoreWindows'
    BY <1>1, <2>2, <2>5, <2>6 DEF NoMoreWindows
  <2> QED
    BY <1>1, <2>2, <2>3, <2>4, <2>7 DEF Inv
<1>5. CASE Len(block) # windowSize
  <2>1. windows' = windows
    BY <1>5 DEF Finalize
  <2>2. TypeOK' /\ Settings' /\ WindowsSoFar'
    BY <1>1, <2>1 DEF Inv, TypeOK, Settings, WindowsSoFar
  <2>3. Base' = Base
    BY <1>1, <2>1 DEF Base
  <2>4. ASSUME windows = <<>> PROVE block = fed
    <3>1. Base = 0
      <4>1. Len(windows) = 0 /\ step \in Nat
        BY <1>2, <2>4 DEF LoopFacts
      <4> QED
        BY <4>1 DEF Base
    <3>2. IsSlice(block, fed, 0) /\ Len(block) = Len(fed)
      BY <1>2, <1>3, <3>1 DEF LoopFacts
    <3>3. \A j \in 1..Len(block) : block[j] = fed[j]
      BY <1>2, <3>2 DEF LoopFacts, IsSlice
    <3> QED
      BY <1>2, <3>2, <3>3, SeqEqual DEF LoopFacts
  <2>5. Len(fed) < Base + windowSize
    BY <1>2, <1>3, <1>5 DEF LoopFacts
  <2>6. NoMoreWindows'
    BY <1>1, <2>1, <2>3, <2>4, <2>5 DEF NoMoreWindows
  <2> QED
    BY <1>1, <2>2, <2>6 DEF Inv
<1> QED
  BY <1>4, <1>5

\* Every step keeps the invariant.
LEMMA NextInv == Inv /\ [Next]_vars => Inv'
<1> SUFFICES ASSUME Inv, [Next]_vars PROVE Inv'
  OBVIOUS
<1>1. CASE Reset
  <2>1. callback' \in BOOLEAN
    BY <1>1 DEF Reset
  <2>2. windowSize' \in 0..MaxWindow /\ step' \in 0..MaxWindow
    BY <1>1, ConstantsAssumption DEF Reset
  <2>3. /\ block' = <<>> /\ phase # "started" /\ phase' \in {"idle", "exited"}
        /\ UNCHANGED <<buf, fed, windows>>
    BY <1>1 DEF Reset
  <2> QED
    BY <2>1, <2>2, <2>3, IdleStep
<1>2. ASSUME NEW n \in 0..MaxWindow, SetWindowSize(n) \/ SetStep(n)
      PROVE  Inv'
  BY <1>2, IdleStep DEF SetWindowSize, SetStep, Inv, TypeOK
<1>3. CASE SetCallback
  BY <1>3, IdleStep DEF SetCallback, Inv, TypeOK
<1>4. CASE Start
  BY <1>4, StartInv
<1>5. CASE StartFatal
  BY <1>5, IdleStep DEF StartFatal, config, Inv, TypeOK
<1>6. ASSUME NEW c \in Chunks, Reduce(c)
      PROVE  Inv'
  BY <1>6, ReduceInv
<1>7. CASE Copy
  BY <1>7, CopyInv
<1>8. CASE Slide
  BY <1>8, SlideInv
<1>9. CASE Finalize
  BY <1>9, FinalizeInv
<1>10. CASE UNCHANGED vars
  BY <1>10 DEF vars, Inv, TypeOK, Settings, BlockIsSlice, WindowsSoFar, NoMoreWindows, Base, Pos,
               IsSlice
<1> QED
  BY <1>1, <1>2, <1>3, <1>4, <1>5, <1>6, <1>7, <1>8, <1>9, <1>10 DEF Next, Exited

\* The invariant holds at every iteration, for all data and all cuts of it.
THEOREM WindowInvariant == Spec => []Inv
<1> QED
  BY InitInv, NextInv, PTL DEF Spec

\* Members keep their types, and the block never outgrows the largest window.
THEOREM TypeCorrect == Spec => []TypeOK
<1>1. Inv => TypeOK
  BY DEF Inv
<1> QED
  BY <1>1, WindowInvariant, PTL

\* The subtraction and the erase of reduce (slidingbytewindow.cpp:56,65) stay in range.
THEOREM BlockFits == Spec => []BlockWithinWindow
<1>1. Inv => BlockWithinWindow
  BY DEF Inv, BlockWithinWindow, Settings, BlockIsSlice
<1> QED
  BY <1>1, WindowInvariant, PTL

\* The callback is given the strides of the data, in order.
THEOREM ReportsStrides == Spec => []WindowsAreStrides
<1>1. Inv => WindowsAreStrides
  BY DEF Inv, WindowsAreStrides, WindowsSoFar, IsSlice
<1> QED
  BY <1>1, WindowInvariant, PTL

\* The number of windows reported is the number of strides of the data.
LEMMA AllWindowsCounted == Inv => AllWindowsAtTheEnd
<1> SUFFICES ASSUME Inv, phase = "final"
             PROVE  Len(windows) = IF Len(fed) < windowSize THEN 0
                                   ELSE (Len(fed) - windowSize) \div step + 1
  BY DEF AllWindowsAtTheEnd
<1> DEFINE L == Len(windows)
<1>1. /\ L \in Nat /\ Len(fed) \in Nat /\ windowSize \in Nat /\ step \in Nat \ {0}
      /\ Len(fed) < L * step + windowSize
  BY ConstantsAssumption DEF Inv, TypeOK, Settings, NoMoreWindows, Base
<1>2. CASE L = 0
  BY <1>1, <1>2, NextBase
<1>3. CASE L # 0
  <2>1. (L - 1) * step + windowSize <= Len(fed)
    BY <1>1, <1>3 DEF Inv, WindowsSoFar
  <2>2. (L - 1) + 1 = L /\ L - 1 \in Nat /\ (L - 1) * step \in Nat
    BY <1>1, <1>3, NextBase
  <2> HIDE DEF L
  <2>3. (Len(fed) - windowSize) \div step = L - 1
    <3>1. /\ Len(fed) - windowSize \in Nat
          /\ (L - 1) * step <= Len(fed) - windowSize
          /\ Len(fed) - windowSize < ((L - 1) + 1) * step
      BY <1>1, <2>1, <2>2
    <3> QED
      BY <1>1, <2>2, <3>1, QuotientIs
  <2>4. ~(Len(fed) < windowSize) /\ L = (L - 1) + 1
    BY <1>1, <2>1, <2>2
  <2> QED
    BY <2>3, <2>4 DEF L
<1> QED
  BY <1>2, <1>3

\* At the end the callback has been given as many windows as the data has strides,
\* or, when that is none, the data is in the block, whole.
THEOREM ReportsAll == Spec => []NothingLostAtTheEnd
<1>1. Inv => ShortDataIsTheLastBlock
  BY DEF Inv, ShortDataIsTheLastBlock, NoMoreWindows
<1>2. Inv => NothingLostAtTheEnd
  BY <1>1, AllWindowsCounted DEF NothingLostAtTheEnd
<1> QED
  BY <1>2, WindowInvariant, PTL

-----------------------------------------------------------------------------
(* The sliding window implements StrideWindows *)

\* A slice that ends within the data is a SubSeq of it.
LEMMA SliceIsSubSeq ==
    ASSUME NEW S, NEW d \in Seq(S), NEW b \in Seq(S), NEW o \in Nat,
           IsSlice(b, d, o), o + Len(b) <= Len(d)
    PROVE  SubSeq(d, o + 1, o + Len(b)) = b
<1>1. Len(b) \in Nat /\ Len(d) \in Nat
  OBVIOUS
<1>2. \A i \in (o + 1)..(o + Len(b)) : d[i] \in S
  BY <1>1
<1> DEFINE t == SubSeq(d, o + 1, o + Len(b))
<1>3. /\ t \in Seq(S)
      /\ Len(t) = IF o + 1 <= o + Len(b) THEN (o + Len(b)) - (o + 1) + 1 ELSE 0
      /\ \A i \in 1..((o + Len(b)) - (o + 1) + 1) : t[i] = d[(o + 1) + i - 1]
  BY <1>1, <1>2, SubSeqProperties
<1> HIDE DEF t
<1>4. Len(t) = Len(b)
  BY <1>1, <1>3
<1>5. ASSUME NEW j \in 1..Len(t)
      PROVE  t[j] = b[j]
  <2>1. /\ j \in 1..((o + Len(b)) - (o + 1) + 1) /\ (o + 1) + j - 1 = o + j
        /\ j \in 1..Len(b)
    BY <1>1, <1>4
  <2> QED
    BY <1>3, <2>1 DEF IsSlice
<1>6. t = b
  BY <1>3, <1>4, <1>5, SeqEqual
<1> QED
  BY <1>6 DEF t

\* As many steps as fit in a are counted by the quotient.
LEMMA QuotientAtLeast ==
    ASSUME NEW a \in Nat, NEW s \in Nat \ {0}, NEW q \in Nat, q * s <= a
    PROVE  q <= a \div s
<1>1. a \div s \in Nat /\ a < (a \div s + 1) * s
  OBVIOUS
<1>2. SUFFICES ASSUME a \div s + 1 <= q PROVE FALSE
  BY <1>1
<1> DEFINE k == a \div s
<1>3. (k + 1) * s <= q * s
  <2> HIDE DEF k
  <2>1. \A m, n \in Nat : m <= n => m * s <= n * s
    OBVIOUS
  <2>2. k + 1 \in Nat /\ k + 1 <= q
    BY <1>1, <1>2 DEF k
  <2> QED
    BY <2>1, <2>2
<1>4. (k + 1) * s \in Nat /\ q * s \in Nat
  BY <1>1
<1> HIDE DEF k
<1>5. a < (k + 1) * s
  BY <1>1 DEF k
<1> QED
  BY <1>3, <1>4, <1>5

\* The initial states are initial states of StrideWindows.
LEMMA InitRefines == Init => Strides!Init
BY DEF Init, Strides!Init

\* Every step is a step of StrideWindows or leaves its variables alone.
LEMMA StepRefines == Inv /\ Inv' /\ [Next]_vars => [Strides!Next]_(Strides!vars)
<1> SUFFICES ASSUME Inv, Inv', [Next]_vars
             PROVE  Strides!Next \/ UNCHANGED Strides!vars
  BY DEF Strides!vars
<1>1. /\ windowSize \in 0..MaxWindow /\ step \in 0..MaxWindow
      /\ windowSize' \in 0..MaxWindow /\ step' \in 0..MaxWindow
      /\ fed \in Seq(Byte) /\ fed' \in Seq(Byte)
  BY DEF Inv, TypeOK
<1>2. ASSUME \/ Reset \/ SetCallback \/ \E n \in 0..MaxWindow : SetWindowSize(n) \/ SetStep(n)
      PROVE  Strides!Configure
  BY <1>1, <1>2 DEF Reset, SetCallback, SetWindowSize, SetStep, Strides!Configure
<1>3. ASSUME Start PROVE Strides!Open
  <2>1. 0 < step
    BY <1>1, <1>3, ConstantsAssumption DEF Start, Configured
  <2> QED
    BY <1>3, <2>1 DEF Start, Configured, config, Strides!Open
<1>4. CASE StartFatal
  BY <1>4 DEF StartFatal, config, Strides!vars
<1>5. ASSUME NEW c \in Chunks, Reduce(c)
      PROVE  Strides!Feed \/ UNCHANGED Strides!vars
  <2>1. /\ phase = "started" /\ phase' = "started" /\ fed' = fed \o c
        /\ UNCHANGED <<windowSize, step, windows>> /\ c \in Seq(Byte)
    BY <1>5, ConstantsAssumption DEF Reduce, config
  <2>2. CASE c = <<>>
    <3>1. fed' = fed
      BY <1>1, <2>1, <2>2, ConcatEmptySeq
    <3> QED
      BY <2>1, <3>1 DEF Strides!vars
  <2>3. CASE c # <<>>
    <3>1. Len(fed') > Len(fed)
      <4>1. Len(c) \in Nat /\ Len(c) # 0 /\ Len(fed) \in Nat
        BY <1>1, <2>1, <2>3
      <4>2. Len(fed') = Len(fed) + Len(c)
        BY <1>1, <2>1, ConcatProperties
      <4> QED
        BY <4>1, <4>2
    <3>2. SubSeq(fed', 1, Len(fed)) = fed
      <4>1. Len(fed) \in Nat /\ Len(fed) <= Len(fed')
        BY <1>1, <3>1
      <4>2. IsSlice(fed, fed', 0)
        BY <1>1, <2>1, ConcatProperties DEF IsSlice
      <4>3. SubSeq(fed', 0 + 1, 0 + Len(fed)) = fed
        BY <1>1, <4>1, <4>2, SliceIsSubSeq
      <4> QED
        BY <4>1, <4>3
    <3> QED
      BY <1>1, <2>1, <3>1, <3>2 DEF Strides!Feed
  <2> QED
    BY <2>2, <2>3
<1>6. CASE Copy
  BY <1>6 DEF Copy, config, Strides!vars
<1>7. ASSUME Slide PROVE Strides!Report
  <2>1. phase = "started"
    BY <1>7 DEF Inv, Slide
  <2>2. LoopFacts
    BY <2>1, Started
  <2>3. Len(block) = windowSize
    BY <1>7, <2>2 DEF Slide, SpaceInBlock, LoopFacts
  <2>4. Len(windows) * step + windowSize <= Len(fed)
    BY <2>2, <2>3 DEF LoopFacts, Base
  <2>5. Len(windows) < Strides!NumWindows(fed, windowSize, step)
    <3> DEFINE k == Len(windows)
    <3>1. /\ k \in Nat /\ k * step \in Nat /\ windowSize \in Nat /\ Len(fed) \in Nat
          /\ step \in Nat \ {0}
      BY <2>2 DEF LoopFacts, Base
    <3>2. Len(fed) - windowSize \in Nat /\ k * step <= Len(fed) - windowSize
          /\ ~(Len(fed) < windowSize)
      BY <2>4, <3>1
    <3> HIDE DEF k
    <3>3. k <= (Len(fed) - windowSize) \div step
      BY <3>1, <3>2, QuotientAtLeast
    <3>4. (Len(fed) - windowSize) \div step \in Nat
      BY <3>1, <3>2
    <3>5. k < (Len(fed) - windowSize) \div step + 1
      BY <3>1, <3>3, <3>4
    <3> QED
      BY <3>2, <3>5 DEF Strides!NumWindows, k
  <2>6. block = Strides!Window(fed, windowSize, step, Len(windows))
    BY <2>2, <2>3, <2>4, SliceIsSubSeq DEF LoopFacts, Base, Strides!Window
  <2> QED
    BY <1>7, <2>1, <2>5, <2>6 DEF Slide, config, Strides!Report
<1>8. ASSUME Finalize PROVE Strides!Finish
  <2>1. /\ phase = "started" /\ phase' = "final"
        /\ UNCHANGED <<windowSize, step, fed>>
    BY <1>8 DEF Finalize, config
  <2>2. /\ windows' \in Seq(Seq(Byte)) /\ WindowsSoFar' /\ Settings'
        /\ windowSize \in Nat /\ step \in Nat
    BY <1>1, <2>1, ConstantsAssumption DEF Inv, TypeOK
  <2>3. Len(windows') = Strides!NumWindows(fed, windowSize, step)
    <3>1. AllWindowsAtTheEnd'
      BY AllWindowsCounted, PTL
    <3> QED
      BY <2>1, <3>1 DEF AllWindowsAtTheEnd, Strides!NumWindows
  <2>4. ASSUME NEW i \in 1..Len(windows')
        PROVE  windows'[i] = Strides!Window(fed, windowSize, step, i - 1)
    <3>1. /\ Len(windows'[i]) = windowSize
          /\ (i - 1) * step + windowSize <= Len(fed)
          /\ IsSlice(windows'[i], fed, (i - 1) * step)
      BY <2>1, <2>2 DEF WindowsSoFar, IsSlice
    <3>2. windows'[i] \in Seq(Byte)
      BY <2>2
    <3>3. (i - 1) * step \in Nat
      <4>1. i - 1 \in Nat
        BY <2>2
      <4> QED
        BY <2>2, <4>1, NextBase
    <3> QED
      BY <1>1, <3>1, <3>2, <3>3, SliceIsSubSeq DEF Strides!Window
  <2>5. windows' = Strides!AllWindows(fed, windowSize, step)
    <3>1. windows' = [i \in 1..Len(windows') |-> windows'[i]]
      BY <2>2
    <3> QED
      BY <2>3, <2>4, <3>1 DEF Strides!AllWindows
  <2> QED
    BY <2>1, <2>5 DEF Strides!Finish
<1>9. CASE UNCHANGED vars
  BY <1>9 DEF vars, Strides!vars
<1> QED
  BY <1>2, <1>3, <1>4, <1>5, <1>6, <1>7, <1>8, <1>9 DEF Next, Exited, vars, Strides!vars, Strides!Next

\* SlidingByteWindow implements StrideWindows: whatever the pieces the data comes in,
\* the callback sees the strides of the data, each once, in order.
THEOREM Refinement == Spec => ImplementsStrideWindows
<1> QED
  BY InitRefines, StepRefines, WindowInvariant, PTL DEF Spec, Strides!Spec, ImplementsStrideWindows
=============================================================================
