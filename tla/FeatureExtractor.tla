-------------------------- MODULE FeatureExtractor ---------------------------
(***************************************************************************)
(* core/src/core.cpp, run(fileContent, fileSize): one extractor object     *)
(* used for one file after another.  A run makes a PEFile and a block      *)
(* stream, then calls reset, start, reduce per block and finalize of       *)
(* AllFeatureTypes, which calls them of eleven feature types in order,     *)
(* each owning a region of the one output vector.  The extractor keeps its *)
(* feature types and its output between runs; PEFile and stream are new in *)
(* each.                                                                   *)
(*                                                                         *)
(* Composed of BlockStream, SlidingByteWindow and StringExtractor.  The    *)
(* feature types computed from the parsed headers write a value that       *)
(* stands for what the file has there.                                     *)
(***************************************************************************)
EXTENDS Integers, Sequences, FiniteSets, SequencesExt

CONSTANTS Byte,          \* byte values, naturals; 0 is one of them
          Readable,      \* those of readable strings
          MinLength, WordByte, Patterns, ByteRange,   \* as in StringExtractor
          Files,         \* the files: [bytes, isPE, parts]
          MaxSize,       \* bound: bytes of a file
          BufSize,       \* BUF_SIZE, core.cpp:7
          WindowSize, WindowStep,   \* 2048, 1024
          HalfByte,      \* values of the upper half of a byte, 16
          NumBins,       \* rows of the byte entropy histogram, 16
          EntropyBin(_), \* counts of upper halves -> (int)(H * 2)
          NumFirstBytes, \* NUM_FIRST_BYTES_TO_TAKE, 4
          NULL, Zero, NaN   \* the null pointer; a region of zeros; 0 / 0

\* The feature types, in the order of all_feature_types.cpp:35-45; each owns the
\* region of the output vector that has its name.
FeatureTypes == << "general", "byteentropy", "strings", "header", "section", "imports",
                   "exports", "datadirectories", "richheader", "authenticode",
                   "pefilewarnings" >>
Regions == ToSet(FeatureTypes)
PERegions == ToSet(SubSeq(FeatureTypes, 4, 10))

\* What the regions other than the header's need the file to have.
Parts == {"imports", "exports", "richheader"}

ASSUME ConstantsAssumption ==
    /\ 0 \in Byte /\ Byte \subseteq 0..(HalfByte * HalfByte - 1)
    /\ \A f \in Files : /\ f.bytes \in Seq(Byte) /\ Len(f.bytes) <= MaxSize
                        /\ f.isPE \in BOOLEAN /\ f.parts \subseteq Parts
    /\ NULL \notin Files
    /\ MaxSize \in Nat /\ BufSize \in Nat \ {0}
    /\ WindowSize \in Nat /\ WindowStep \in 1..WindowSize
    /\ HalfByte \in Nat \ {0} /\ NumBins \in Nat \ {0} /\ NumFirstBytes \in Nat

\* What StringExtractor assumes.
ASSUME TextAssumption ==
    /\ Readable \subseteq Byte /\ MinLength \in Nat \ {0}
    /\ Patterns \in Seq([words: SUBSET (Seq(Byte) \ {<<>>}), begin: BOOLEAN, end: BOOLEAN])
    /\ Len(Patterns) < ByteRange /\ ByteRange \in Nat

\* The row of a window is an int.
ASSUME EntropyAssumption ==
    \A counts \in [0..(HalfByte - 1) -> 0..WindowSize] : EntropyBin(counts) \in Int

VARIABLES pc,                      \* the next call of run
          file,                    \* its argument: fileContent and fileSize
          peFile,                  \* the PEFile built of it
          output,                  \* region -> contents
          byteCounts, totalNumBytes,   \* GeneralFileInfo::byteCounter
          firstBytes,              \* GeneralFileInfo::byteAtOffsetCatcher
          windowCalled,            \* ByteEntropyHistogram::withCompleteWindowCalled
          returned                 \* the file whose vector the caller may read, or NULL

\* The members of the block stream, the sliding window and the string extractor.
VARIABLES m_buf, m_bufSize, m_blockSize, m_offset, m_nextOffset,
          m_started, m_finished, opened, blocks
VARIABLES block, windowSize, step, callback, buf, phase, fed, windows
VARIABLES numReadableStrings, sumReadableStringLengths, readableCounts,
          totalNumReadable, interestingCounts, strPhase, strBlockSize, content, cuts

Stream == INSTANCE BlockStream WITH
    Bufs <- Files, MaxBlock <- BufSize, SizeRange <- MaxSize + 1
SlidingWindow == INSTANCE SlidingByteWindow WITH
    Chunks <- Seq(Byte), MaxWindow <- WindowSize, MaxFed <- MaxSize
Text == INSTANCE StringExtractor WITH
    MaxContent <- MaxSize, BlockSizes <- {BufSize},
    phase <- strPhase, blockSize <- strBlockSize

general == <<byteCounts, totalNumBytes, firstBytes>>
stream == <<m_buf, m_bufSize, m_blockSize, m_offset, m_nextOffset,
            m_started, m_finished, opened, blocks>>
window == <<block, windowSize, step, callback, buf, phase, fed, windows>>
text == <<numReadableStrings, sumReadableStringLengths, readableCounts, totalNumReadable,
          interestingCounts, strPhase, strBlockSize, content, cuts>>
vars == <<pc, file, peFile, output, general, windowCalled, returned, stream, window, text>>

\* Byte counts before the first reset: the constructor leaves them unset.
Unset == [b \in Byte |-> 1]

Init ==
    /\ pc = "idle" /\ file = NULL /\ peFile = NULL /\ returned = NULL
    /\ output = [r \in Regions |-> Zero]
    /\ byteCounts = Unset /\ totalNumBytes = 0 /\ firstBytes = <<>>
    /\ windowCalled \in BOOLEAN
    /\ Stream!Init /\ SlidingWindow!Init /\ Text!StringsInit

\* The constructor of MemoryBlockStream.
NewStream ==
    /\ m_buf' = NULL /\ m_bufSize' = 0 /\ m_blockSize' = 0
    /\ m_offset' = 0 /\ m_nextOffset' = 0
    /\ m_started' = FALSE /\ m_finished' = FALSE
    /\ opened' = Stream!Nothing /\ blocks' = <<>>

Goto(from, to) == pc = from /\ pc' = to

-----------------------------------------------------------------------------
(* core.cpp:27-39: the objects of one run *)

Run(f) ==
    /\ Goto("idle", "setup")
    /\ file' = f /\ peFile' = f
    /\ NewStream
    /\ UNCHANGED <<output, general, windowCalled, returned, window, text>>

\* A file without bytes may come as a null pointer.
StreamSetup ==
    /\ Goto("setup", "setBlockSize")
    /\ \/ Stream!Setup(file, Len(file.bytes))
       \/ Stream!Setup(NULL, Len(file.bytes))
    /\ UNCHANGED <<file, peFile, output, general, windowCalled, returned, window, text>>

StreamSetBlockSize ==
    /\ Goto("setBlockSize", "startReading")
    /\ Stream!SetBlockSize(BufSize)
    /\ UNCHANGED <<file, peFile, output, general, windowCalled, returned, window, text>>

\* The result of startReading is ignored.
StreamStart ==
    /\ Goto("startReading", "reset")
    /\ Stream!StartReading
    /\ UNCHANGED <<file, peFile, output, general, windowCalled, returned, window, text>>

-----------------------------------------------------------------------------
(* AllFeatureTypes::reset and start *)

\* Mutant: the total of the previous file is kept.
ResetCounterCountsOnly == byteCounts' = [b \in Byte |-> 0] /\ UNCHANGED totalNumBytes

ResetCounter == byteCounts' = [b \in Byte |-> 0] /\ totalNumBytes' = 0

ResetCatcher == firstBytes' = [i \in 0..(NumFirstBytes - 1) |-> 0]

ResetWindow ==
    /\ block' = <<>> /\ windowSize' = WindowSize /\ step' = WindowStep
    /\ callback' = TRUE /\ phase' = "idle"
    /\ UNCHANGED <<buf, fed, windows>>

\* Mutant: the vector is cleared in reset, while the caller may still read it.
ResetClearing ==
    /\ Goto("reset", "start")
    /\ ResetCounter /\ ResetCatcher /\ ResetWindow /\ Text!Reset
    /\ output' = [r \in Regions |-> Zero]
    /\ UNCHANGED <<file, peFile, windowCalled, returned, stream>>

Reset ==
    /\ Goto("reset", "start")
    /\ ResetCounter /\ ResetCatcher /\ ResetWindow /\ Text!Reset
    /\ UNCHANGED <<file, peFile, output, windowCalled, returned, stream>>

\* The histogram of upper halves of bytes per row of entropy, and its divisor.
NoWindows == [rows |-> [h \in 0..(NumBins - 1) |-> [n \in 0..(HalfByte - 1) |-> 0]], sum |-> 1]

\* The parts of a file a region is made of; without them it stays zero.
HasRegion(f, r) == f.isPE /\ (r \in Parts => r \in f.parts)

\* start of feature type r: GeneralFileInfo and StringExtractor leave their
\* regions alone, ByteEntropyHistogram and PEFormatWarnings clear theirs, the
\* others clear theirs and fill them in if the file has the parts.
Started(r) ==
    IF r \in {"general", "strings"} THEN output[r]
    ELSE IF r = "byteentropy" THEN NoWindows
    ELSE IF r \in PERegions /\ HasRegion(peFile, r) THEN <<r, peFile>>
    ELSE Zero

\* start of the first n feature types; ByteEntropyHistogram is among them.
StartFirst(n) ==
    /\ output' = [k \in Regions |->
                    IF k \in ToSet(SubSeq(FeatureTypes, 1, n)) THEN Started(k) ELSE output[k]]
    /\ windowCalled' = FALSE
    /\ SlidingWindow!Start

\* The first write into the vector that may still be in the caller's hands.
Start ==
    /\ Goto("start", "read")
    /\ StartFirst(Len(FeatureTypes))
    /\ returned' = NULL
    /\ UNCHANGED <<file, peFile, general, stream, text>>

-----------------------------------------------------------------------------
(* The loop over the blocks: readNext, then reduce of the three feature types
   that look at the bytes, in the order of AllFeatureTypes *)

Read ==
    /\ pc = "read"
    /\ Stream!ReadNext
    /\ pc' = IF blocks' = blocks THEN "finalize" ELSE "general"
    /\ UNCHANGED <<file, peFile, output, general, windowCalled, returned, window, text>>

\* The bytes of the block readNext has put into the buffer, and its offset.
Chunk == LET b == blocks[Len(blocks)] IN SubSeq(file.bytes, b.off + 1, b.off + b.len)

CountBytes ==
    /\ byteCounts' = [b \in Byte |->
                        byteCounts[b] + Cardinality({ i \in 1..Len(Chunk) : Chunk[i] = b })]
    /\ totalNumBytes' = totalNumBytes + Len(Chunk)

\* Mutant: the offset of the block is forgotten, the first bytes of every block
\* are taken for those of the file.
CatchBytesOfEachBlock ==
    firstBytes' = [i \in DOMAIN firstBytes |->
                     IF i < Len(Chunk) THEN Chunk[i + 1] ELSE firstBytes[i]]

\* ByteCatcher::reduce gives up once the block begins past the last wanted offset.
CatchBytes ==
    firstBytes' = [i \in DOMAIN firstBytes |->
                     IF m_offset <= NumFirstBytes - 1 /\ i \in m_offset..(m_offset + Len(Chunk) - 1)
                     THEN Chunk[i - m_offset + 1] ELSE firstBytes[i]]

ReduceGeneral ==
    /\ Goto("general", "window")
    /\ CountBytes /\ CatchBytes
    /\ SlidingWindow!Reduce(Chunk)
    /\ UNCHANGED <<file, peFile, output, windowCalled, returned, stream, text>>

WindowCopy ==
    /\ pc = "window" /\ SlidingWindow!Copy
    /\ UNCHANGED <<pc, file, peFile, output, general, windowCalled, returned, stream, text>>

\* temp: the upper half of each byte.
Halves(bytes) == [n \in 0..(HalfByte - 1) |->
                    Cardinality({ i \in DOMAIN bytes : bytes[i] \div HalfByte = n })]

\* H_bin
Row(counts) ==
    LET bin == EntropyBin(counts)
    IN  IF bin < 0 THEN 0 ELSE IF bin > NumBins - 1 THEN NumBins - 1 ELSE bin

\* writeEntropyBinCounts
AddWindow(histogram, bytes) ==
    [histogram EXCEPT !.rows[Row(Halves(bytes))] =
        [n \in DOMAIN @ |-> @[n] + Halves(bytes)[n]]]

\* withCompleteWindow is the callback of the sliding window.
WindowSlide ==
    /\ pc = "window" /\ SlidingWindow!Slide
    /\ windowCalled' = TRUE
    /\ output' = [output EXCEPT !["byteentropy"] = AddWindow(@, block)]
    /\ UNCHANGED <<pc, file, peFile, general, returned, stream, text>>

ReduceStrings ==
    /\ Goto("window", "read")
    /\ buf = <<>>
    /\ Text!Reduce(Chunk)
    /\ UNCHANGED <<file, peFile, output, general, windowCalled, returned, stream, window>>

-----------------------------------------------------------------------------
(* AllFeatureTypes::finalize, stopReading, return *)

\* The counts are divided by the size, which may be zero.
GeneralValue ==
    [size |-> totalNumBytes, first |-> firstBytes, isPE |-> peFile.isPE,
     counts |-> [b \in Byte |-> IF totalNumBytes = 0 THEN NaN ELSE byteCounts[b]]]

\* The window that is full at the end is counted by the callback; a file that
\* never filled a window is counted as one short block.
LastBins ==
    IF Len(block) = windowSize \/ ~windowCalled
    THEN AddWindow(output["byteentropy"], block)
    ELSE output["byteentropy"]

\* arraySum over the vector.
Sum(histogram) ==
    SumFunction([c \in (0..(NumBins - 1)) \X (0..(HalfByte - 1)) |-> histogram.rows[c[1]][c[2]]])

\* The histogram is divided by its sum, unless that is zero.
Normalized(histogram) ==
    [histogram EXCEPT !.sum = IF Sum(histogram) = 0 THEN 1 ELSE Sum(histogram)]

Finalize ==
    /\ Goto("finalize", "stop")
    /\ SlidingWindow!Finalize
    /\ windowCalled' = (windowCalled \/ Len(block) = windowSize)
    /\ Text!Finalize
    /\ output' = [output EXCEPT
                    !["general"] = GeneralValue,
                    !["byteentropy"] = Normalized(LastBins),
                    !["strings"] = Text!Written]
    /\ UNCHANGED <<file, peFile, general, returned, stream>>

\* The vector returned is the member `output' itself.
Stop ==
    /\ Goto("stop", "idle")
    /\ Stream!StopReading
    /\ returned' = file
    /\ UNCHANGED <<file, peFile, output, general, windowCalled, window, text>>

\* An exception of a feature type that allocates passes through run, and the
\* caller may use the extractor again with its members as they are: in start, one
\* of those that build names for the hashers (section, imports, exports, rich
\* header), after those before it have started ...
AbandonStart ==
    /\ Goto("start", "idle")
    /\ \E n \in {4, 5, 6, 8} : StartFirst(n)
    /\ returned' = NULL
    /\ UNCHANGED <<file, peFile, general, stream, text>>

\* ... or in reduce, the matching of strings.
AbandonReduce ==
    /\ Goto("window", "idle")
    /\ buf = <<>>
    /\ returned' = NULL
    /\ UNCHANGED <<file, peFile, output, general, windowCalled, stream, window, text>>

Next ==
    \/ \E f \in Files : Run(f)
    \/ StreamSetup \/ StreamSetBlockSize \/ StreamStart
    \/ Reset \/ Start
    \/ Read \/ ReduceGeneral \/ WindowCopy \/ WindowSlide \/ ReduceStrings
    \/ Finalize \/ Stop
    \/ AbandonStart \/ AbandonReduce

Spec == Init /\ [][Next]_vars

\* run is sequential code: once called it goes on.
Working == Next /\ pc # "idle"
FairSpec == Spec /\ WF_vars(Working)

-----------------------------------------------------------------------------
(* What the vector of a file is, from the file alone *)

FileBlocks(f) ==
    [k \in 1..((Len(f.bytes) + BufSize - 1) \div BufSize) |->
        SubSeq(f.bytes, (k - 1) * BufSize + 1,
               IF k * BufSize < Len(f.bytes) THEN k * BufSize ELSE Len(f.bytes))]

Windows(f) ==
    LET n == Len(f.bytes)
    IN  IF n < WindowSize THEN <<f.bytes>>
        ELSE [k \in 1..((n - WindowSize) \div WindowStep + 1) |->
                SubSeq(f.bytes, (k - 1) * WindowStep + 1, (k - 1) * WindowStep + WindowSize)]

\* The upper halves of a byte in the windows of one row are counted together.
Histogram(f) ==
    LET all == Windows(f)
        InRow(h) == { k \in DOMAIN all : Row(Halves(all[k])) = h }
    IN  [rows |-> [h \in 0..(NumBins - 1) |-> [n \in 0..(HalfByte - 1) |->
                     SumFunctionOnSet([k \in DOMAIN all |-> Halves(all[k])[n]], InRow(h))]],
         sum  |-> IF f.bytes = <<>> THEN 1
                  ELSE SumFunction([k \in DOMAIN all |-> Len(all[k])])]

Features(f) ==
    [r \in Regions |->
        CASE r = "general" ->
                [size |-> Len(f.bytes),
                 counts |-> [b \in Byte |->
                     IF f.bytes = <<>> THEN NaN
                     ELSE Cardinality({ i \in 1..Len(f.bytes) : f.bytes[i] = b })],
                 first |-> [i \in 0..(NumFirstBytes - 1) |->
                              IF i < Len(f.bytes) THEN f.bytes[i + 1] ELSE 0],
                 isPE |-> f.isPE]
          [] r = "byteentropy" -> Histogram(f)
          [] r = "strings" ->
                Text!FeaturesOf(
                    FlattenSeq([k \in DOMAIN FileBlocks(f) |-> Text!Strings(FileBlocks(f)[k])]))
          [] r \in PERegions /\ HasRegion(f, r) -> <<r, f>>
          [] OTHER -> Zero]

-----------------------------------------------------------------------------
(* Properties *)

TypeOK ==
    /\ pc \in {"idle", "setup", "setBlockSize", "startReading", "reset", "start",
               "read", "general", "window", "finalize", "stop"}
    /\ file \in Files \cup {NULL} /\ peFile \in Files \cup {NULL}
    /\ returned \in Files \cup {NULL}
    /\ DOMAIN output = Regions
    /\ byteCounts \in [Byte -> Nat] /\ totalNumBytes \in Nat
    /\ firstBytes = <<>> \/ firstBytes \in [0..(NumFirstBytes - 1) -> Byte]
    /\ windowCalled \in BOOLEAN
    /\ Stream!TypeOK /\ SlidingWindow!TypeOK /\ Text!StringsTypeOK

\* The vector a run returns is a function of its file: nothing of the files
\* before it, of a run cut short, of what the extractor was built with, or of
\* where the blocks ended (strings aside, which are those of the blocks) is in it.
VectorIsOfTheFile == pc = "idle" /\ returned # NULL => output = Features(returned)

\* Between blocks the three consumers of the bytes have seen the same prefix of
\* the file, the one the stream has delivered.
ConsumersInStep ==
    pc \in {"read", "finalize"} =>
        /\ totalNumBytes = m_nextOffset
        /\ fed = SubSeq(file.bytes, 1, m_nextOffset)
        /\ content = fed

ASSUME NullAssumption ==
    \A f \in Files : NULL # [file |-> f, vector |-> Features(f)]

\* The vector returned is a member that the next run overwrites.  From the return
\* until the next run starts its features the caller may read it: it is that of the
\* whole file, null pointer and all, and does not change while that run parses,
\* opens its stream and resets (core.cpp:57-63).
Held == IF returned = NULL THEN NULL ELSE [file |-> returned, vector |-> output]

Abstract == INSTANCE HeldVector WITH held <- Held
ImplementsHeldVector == Abstract!Spec

\* Every run returns or is abandoned.
RunsEnd == pc # "idle" ~> pc = "idle"
=============================================================================
