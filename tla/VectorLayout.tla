---------------------------- MODULE VectorLayout -----------------------------
(***************************************************************************)
(* Which cells of the feature vector are written, by whom and when: the    *)
(* walk of AllFeatureTypes over its eleven feature types, and the memsets  *)
(* and assignments of their start, reduce and finalize.  The vector lives  *)
(* as long as the extractor and is never cleared as a whole, so every cell *)
(* a run does not write still holds a value of the file before.            *)
(*                                                                         *)
(* A write is one of three kinds: "clear" (memset), "assign" (a value      *)
(* computed for the cell) and "update" (+=, *=, /=: it reads the cell).    *)
(* The values are not modelled.  A file is what the code branches on.      *)
(***************************************************************************)
EXTENDS Integers, Sequences, SequencesExt

CONSTANTS Files,     \* [isPE, imports, exports: BOOLEAN, richBytes, directories: Nat]
          BinLists,  \* the rows of the histogram that the windows of a block fall in
          MaxBlocks  \* bound: blocks of a file

ASSUME LayoutAssumption ==
    /\ \A f \in Files : /\ f.isPE \in BOOLEAN /\ f.imports \in BOOLEAN
                        /\ f.exports \in BOOLEAN
                        /\ f.richBytes \in Nat /\ f.directories \in Nat
    /\ BinLists \subseteq Seq(0..15) /\ MaxBlocks \in Nat

VARIABLES pass,      \* "idle", "start", "reduce" or "finalize"
          file,      \* the file of the run
          type,      \* the feature type called, an index of Types
          vec,       \* AllFeatureTypes: the cell where its region begins
          todo,      \* the writes it still has to make
          blocks,    \* blocks reduced so far
          written,   \* history: cells this run has written
          given,     \* history: cells this run has assigned
          done       \* history: the last run returned the vector

layoutVars == <<pass, file, type, vec, todo, blocks, written, given, done>>

-----------------------------------------------------------------------------
(* Writes.  Cells are counted from the start of the type's own region. *)

Clear(at, n)  == [kind |-> "clear",  at |-> at, n |-> n]
Assign(at, n) == [kind |-> "assign", at |-> at, n |-> n]
Update(at, n) == [kind |-> "update", at |-> at, n |-> n]

\* A FeatureHasher started, and finalized, over the buckets of its output.
HasherStart(at, n) == Clear(at, n)
HasherFinalize(at, n) == Assign(at, n)

When(condition, writes) == IF condition THEN writes ELSE <<>>

-----------------------------------------------------------------------------
(* The feature types *)

NumFirstBytes == 4
GeneralDim == 3 + NumFirstBytes + 256

GeneralFinalize ==
    << Assign(0, 1), Assign(1, 1), Assign(2, 1),
       Assign(3, NumFirstBytes), Assign(3 + NumFirstBytes, 256) >>

EntropyDim == 256

EntropyStart == << Clear(0, EntropyDim) >>

\* writeEntropyBinCounts adds to the sixteen cells of one of sixteen rows, here for
\* one block of bytes after the other.
EntropyCounts(bins) == [k \in DOMAIN bins |-> Update(16 * bins[k], 16)]

\* The last block, if it is counted, then the normalization, if there is a sum.
EntropyFinalize(bins, normalized) ==
    EntropyCounts(bins) \o When(normalized, << Update(0, EntropyDim) >>)

NumInterestingRegexes == 77
StringsDim == 3 + 96 + 1 + NumInterestingRegexes

\* Mutant: one byte value too many.
NumReadableOneMore == 127 + 2 - 32

\* LAST_READABLE_BYTE + 1 - FIRST_READABLE_BYTE
NumReadable == 127 + 1 - 32

StringsFinalize ==
    << Assign(0, 1), Assign(1, 1), Assign(2, 1),
       Assign(3, NumReadable), Update(3, NumReadable),
       Assign(3 + NumReadable, 1),
       Assign(3 + NumReadable + 1, NumInterestingRegexes) >>

HeaderDim == 74
MachineTypeDim == 1
SubsystemTypeDim == 1
CoffCharacteristicsDim == 16
DllCharacteristicsDim == 11
DosHeadersDim == 17

\* Five fields of the COFF header before the machine type; 23 fields of the optional
\* header, one cell each, before the vectors of characteristics.
MachineTypeAt == 4 + MachineTypeDim
SubsystemAt == MachineTypeAt + SubsystemTypeDim
ImageVersionAt == SubsystemAt + 1
CoffVectorAt == ImageVersionAt + 23

\* Mutant: the own length of the vector is added instead of that of the one before.
DllVectorAtOwnLength == CoffVectorAt + DllCharacteristicsDim

DllVectorAt == CoffVectorAt + CoffCharacteristicsDim
DosVectorAt == CoffVectorAt + CoffCharacteristicsDim + DllCharacteristicsDim

MachineTypeEncoding == << Clear(MachineTypeAt, 1), Assign(MachineTypeAt, 1) >>
SubsystemEncoding == << Clear(SubsystemAt, 1), Assign(SubsystemAt, 1) >>
CoffEncoding == << Clear(CoffVectorAt, CoffCharacteristicsDim),
                   Assign(CoffVectorAt, CoffCharacteristicsDim) >>
DllEncoding == << Clear(DllVectorAt, DllCharacteristicsDim),
                  Assign(DllVectorAt, DllCharacteristicsDim) >>
DosEncoding == << Assign(DosVectorAt, DosHeadersDim) >>

HeaderStart(f) ==
    << Clear(0, HeaderDim) >>
    \o When(f.isPE, << Assign(0, 5) >> \o MachineTypeEncoding \o SubsystemEncoding
                    \o << Assign(ImageVersionAt, 23) >>
                    \o CoffEncoding \o DllEncoding \o DosEncoding)

SectionDim == 224
SectionBuckets == <<50, 50, 50, 50, 10>>
SectionHashed(k) == 11 + SumFunction(SubSeq(SectionBuckets, 1, k - 1))
OverlaySize == SectionHashed(6)

SectionHashersStart ==
    [k \in 1..5 |-> HasherStart(SectionHashed(k), SectionBuckets[k])]
SectionHashersFinalize ==
    [k \in 1..5 |-> HasherFinalize(SectionHashed(k), SectionBuckets[k])]

\* Mutant: a file that is no PE file is left to the next one.
SectionStartUncleared(f) ==
    When(f.isPE, SectionHashersStart \o SectionHashersFinalize
                 \o [k \in 1..11 |-> Assign(k - 1, 1)] \o << Assign(OverlaySize, 3) >>)

\* For a PE file there is no memset of the whole region.
SectionStart(f) ==
    IF ~f.isPE THEN << Clear(0, SectionDim) >>
    ELSE SectionHashersStart \o SectionHashersFinalize
         \o [k \in 1..11 |-> Assign(k - 1, 1)] \o << Assign(OverlaySize, 3) >>

ImportsDim == 1282
LibrariesHashed == 2
FunctionsHashed == LibrariesHashed + 256

ImportsStart(f) ==
    << Clear(0, ImportsDim) >>
    \o When(f.isPE /\ f.imports,
            << HasherStart(LibrariesHashed, 256), HasherStart(FunctionsHashed, 1024),
               HasherFinalize(LibrariesHashed, 256), HasherFinalize(FunctionsHashed, 1024),
               Assign(0, 1), Assign(1, 1) >>)

ExportsDim == 129

ExportsStart(f) ==
    << Clear(0, ExportsDim) >>
    \o When(f.isPE /\ f.exports,
            << HasherStart(1, 128), HasherFinalize(1, 128), Assign(0, 1) >>)

DataDirectoriesDim == 34
NumDirectoryNames == 16
DirectoriesVectorDim == 32

\* DataDirectory::listFromPEFile takes the directories that have a name.
Directories(f) == IF f.directories < NumDirectoryNames THEN f.directories ELSE NumDirectoryNames

DataDirectoriesStart(f) ==
    << Clear(0, DataDirectoriesDim) >>
    \o When(f.isPE,
            FlattenSeq([k \in 1..Directories(f) |->
                When(2 * (k - 1) + 1 < DirectoriesVectorDim,
                     << Assign(2 * (k - 1), 1), Assign(2 * (k - 1) + 1, 1) >>)])
            \o << Assign(DirectoriesVectorDim, 1), Assign(DirectoriesVectorDim + 1, 1) >>)

RichHeaderDim == 33

\* Nothing is written of a rich header of less than two double words.
RichHeaderStart(f) ==
    << Clear(0, RichHeaderDim) >>
    \o When(f.isPE /\ f.richBytes \div 4 >= 2,
            << HasherStart(1, 32), Assign(0, 1), HasherFinalize(1, 32) >>)

AuthenticodeDim == 8

AuthenticodeStart(f) ==
    << Clear(0, AuthenticodeDim) >> \o When(f.isPE, [k \in 1..8 |-> Assign(k - 1, 1)])

WarningsDim == 88

WarningsStart == << Clear(0, WarningsDim) >>

-----------------------------------------------------------------------------
(* AllFeatureTypes *)

Types == << "general", "byteentropy", "strings", "header", "section", "imports",
            "exports", "datadirectories", "richheader", "authenticode",
            "pefilewarnings" >>

Dims == << GeneralDim, EntropyDim, StringsDim, HeaderDim, SectionDim, ImportsDim,
           ExportsDim, DataDirectoriesDim, RichHeaderDim, AuthenticodeDim,
           WarningsDim >>

NumFeatures == SumFunction(Dims)

StartWrites(t, f) ==
    CASE t = "byteentropy"     -> EntropyStart
      [] t = "header"          -> HeaderStart(f)
      [] t = "section"         -> SectionStart(f)
      [] t = "imports"         -> ImportsStart(f)
      [] t = "exports"         -> ExportsStart(f)
      [] t = "datadirectories" -> DataDirectoriesStart(f)
      [] t = "richheader"      -> RichHeaderStart(f)
      [] t = "authenticode"    -> AuthenticodeStart(f)
      [] t = "pefilewarnings"  -> WarningsStart
      [] OTHER                 -> <<>>

\* A block completes windows of some rows of the histogram, or none; the other
\* types keep what they reduce in members of their own.
ReduceWrites(t, bins) == When(t = "byteentropy", EntropyCounts(bins))

FinalizeWrites(t, bins, normalized) ==
    CASE t = "general"     -> GeneralFinalize
      [] t = "byteentropy" -> EntropyFinalize(bins, normalized)
      [] t = "strings"     -> StringsFinalize
      [] OTHER             -> <<>>

LayoutInit ==
    /\ pass = "idle" /\ file \in Files
    /\ type = 1 /\ vec = 0 /\ todo = <<>> /\ blocks = 0
    /\ written = {} /\ given = {} /\ done = FALSE

\* The walk over the feature types begins again at the first.
Walk(to, writes) == pass' = to /\ type' = 1 /\ vec' = 0 /\ todo' = writes

Run(f) ==
    /\ pass = "idle"
    /\ file' = f
    /\ Walk("start", StartWrites(Types[1], f))
    /\ blocks' = 0 /\ written' = {} /\ given' = {} /\ done' = FALSE

CellsOf(w) == (vec + w.at)..(vec + w.at + w.n - 1)

Write ==
    /\ todo # <<>>
    /\ written' = written \cup CellsOf(Head(todo))
    /\ given' = IF Head(todo).kind = "assign" THEN given \cup CellsOf(Head(todo)) ELSE given
    /\ todo' = Tail(todo)
    /\ UNCHANGED <<pass, file, type, vec, blocks, done>>

\* The next feature type of the loop: vec += getMaxDim().
NextType ==
    /\ pass \in {"start", "reduce", "finalize"}
    /\ todo = <<>> /\ type < Len(Types)
    /\ type' = type + 1 /\ vec' = vec + Dims[type]
    /\ LET t == Types[type + 1] IN
         \/ pass = "start" /\ todo' = StartWrites(t, file)
         \/ pass = "reduce" /\ \E bins \in BinLists : todo' = ReduceWrites(t, bins)
         \/ pass = "finalize" /\ \E bins \in BinLists, normalized \in BOOLEAN :
                /\ Len(bins) <= 1
                /\ todo' = FinalizeWrites(t, bins, normalized)
    /\ UNCHANGED <<pass, file, blocks, written, given, done>>

EndOfWalk == todo = <<>> /\ type = Len(Types)

\* The loop over the blocks: another one, or the end of the file.
ReadBlock ==
    /\ pass \in {"start", "reduce"} /\ EndOfWalk
    /\ \/ blocks < MaxBlocks /\ Walk("reduce", <<>>) /\ blocks' = blocks + 1
       \/ Walk("finalize", FinalizeWrites(Types[1], <<>>, TRUE)) /\ UNCHANGED blocks
    /\ UNCHANGED <<file, written, given, done>>

Return ==
    /\ pass = "finalize" /\ EndOfWalk
    /\ Walk("idle", <<>>)
    /\ done' = TRUE
    /\ UNCHANGED <<file, blocks, written, given>>

\* The feature types that allocate memory, and when.  (What the callback of the sliding
\* window allocates is not among it: callTheCallback is noexcept.)
MayThrow ==
    \/ pass = "start" /\ Types[type] \in {"byteentropy", "section", "imports", "exports", "richheader"}
    \/ pass = "reduce" /\ Types[type] = "strings"
    \/ pass = "finalize" /\ Types[type] = "byteentropy"

\* An exception of theirs ends the run and leaves the vector as it is.
Abandon ==
    /\ MayThrow
    /\ Walk("idle", <<>>)
    /\ written' = {} /\ given' = {}
    /\ UNCHANGED <<file, blocks, done>>

LayoutNext == (\E f \in Files : Run(f)) \/ Write \/ NextType \/ ReadBlock \/ Return \/ Abandon

LayoutSpec == LayoutInit /\ [][LayoutNext]_layoutVars

-----------------------------------------------------------------------------
(* Properties *)

\* The vector a run returns has no cell of an earlier file: every feature type
\* writes its whole region whatever the file has or lacks, at whichever return
\* of its start, and what is added to or scaled was written earlier in the same run.
NoStaleCell ==
    /\ pass = "idle" /\ done => written = 0..(NumFeatures - 1)
    /\ todo # <<>> /\ Head(todo).kind = "update" => CellsOf(Head(todo)) \subseteq written

\* The offset and length getFeatureTypeAndOffsetByName gives for a feature type.
Region(k) == LET at == SumFunction(SubSeq(Dims, 1, k - 1)) IN at..(at + Dims[k] - 1)

\* A feature type writes inside the region the extractor says it has, so that no
\* type overwrites another's features, at either end of every array it fills.
WritesItsRegion == todo # <<>> => CellsOf(Head(todo)) \subseteq Region(type)

\* No feature overwrites another feature: between them, the chains of offsets, the
\* bucket counts of the hashers and the loops over fields and directories give
\* every cell to one of them.
NoFeatureOverwritten ==
    todo # <<>> /\ Head(todo).kind = "assign" => CellsOf(Head(todo)) \cap given = {}
=============================================================================
