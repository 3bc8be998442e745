# Verification of ember2024-fe-cpp in TLA+

TLA+ models of the EMBER2024 feature extractor (the repository this directory
lies beside), TLC configurations that check them, and proofs for TLAPS.
Paths below are relative to the repository's root. `PROJECT.json` lists the
components, the runs, one mutated definition per property, the source lines of
every definition, the hazards and the theorems.

## The system

The program turns a file into a vector of 2568 floats for a classifier. It is a
library of sequential C++ with one object, the extractor, that is kept and used
for one file after another.

```
 demo, shared_demo          loops over files, exit codes
        |
 shared (C interface)       EFE_Init, EFE_ExtractFeatures32FromFile..., EFE_Cleanup
        |
 core: run(path)            absolute, exists, size, mmap, size again
        |
 core: run(memory) -------- PEFile (pefile/, on LIEF and an Authenticode parser)
        |                        read by start of the header feature types
   MemoryBlockStream             4 MB blocks
        |  block, offset
 AllFeatureTypes            reset, start, reduce per block, finalize
        |                   of eleven feature types in order, each with its
        |                   region of one output vector
   GeneralFileInfo ........ ByteCounter, ByteCatcher
   ByteEntropyHistogram ... SlidingByteWindow, ByteCounter
   StringExtractor ........ RE2, ByteCounter x 2
   HeaderFileInfo, SectionInfo, ImportsInfo, ExportsInfo, DataDirectories,
   RichHeader, AuthenticodeSignature, PEFormatWarnings ... FeatureHasher (MurmurHash3)
```

### Inventory

| Component | State | Operations | Correct when |
|---|---|---|---|
| Block stream, `common/src/{blockstream,memoryblockstream}.cpp` | buffer, size, block size, cursor, started, finished | setup, setBlockSize, startReading, readNext, stopReading | the blocks tile the buffer once, in order; the end is the end |
| Sliding window, `common/src/slidingbytewindow.cpp` | a block, window size, step, callback | reset, setters, start, reduce, finalize | the windows are the strides of the data, wherever it is cut |
| Byte counter, byte catcher, `common/src/byte*.cpp` | counts, wanted offsets | reset, start, reduce | they describe the bytes of this file |
| Strings, `core/src/f_string_extractor.cpp` | a number, two lengths and two byte counters, one of them counting patterns | reset, reduce, finalize | they are those of the file and agree with each other |
| Feature hasher, `featurehasher/src/featurehasher.cpp` | sparse rows, a write index, settings | setters, start, reduce, finalizeSample, finalize, reset | each row is the hash of its own sample |
| Extractor, `core/src/core.cpp` | feature types, one block buffer, the output vector | run(memory), run(path) | a vector depends on its file only |
| Vector, `core/src/all_feature_types.cpp`, `f_*.cpp` | eleven regions | reset, start, reduce, finalize in order | every cell is written by its own type in every run |
| PEFile, `pefile/src` | what its constructor keeps of a parsed file | accessors | it loses nothing the features need |
| Section features, `core/src/f_section_info.cpp` | running counts and extremes, five hashers | one pass over the sections | the entry section is the right one, the rest is that of the sections |
| Imports, exports, directories, rich header, `core/src/f_{imports_info,exports_info,data_directories,rich_header}.cpp` | hashers, some of them members | start | what they write is of this file, whatever became of the last |
| Authenticode, `pefile/src/authenticode_signature.cpp` | what two parsers say | loop over signatures, scan of countersignatures | features cover all signatures and say which time they took |
| Timestamps, `common/src/timestamps.cpp` | none | days_from_civil, to_timestamp_utc | it is the Gregorian calendar |
| C interface, `shared/src/shared.cpp` | an engine or null | init, extract, clean up | the caller's array changes on success only, errors are true |
| LRU cache, `caching/` | a list, a map into it | get, put | a map of the most recent keys |
| Linked list, `lklist/` | nodes on the heap | insert, remove, clear, lookups | a sequence, linked both ways |
| Demo, `demo/src/main.cpp` | arguments, two loops | main | scans what it was asked to, in order |

Components talk by calls and by two shared objects: the output vector, into which
every feature type writes through a pointer, and the block buffer. There is no thread
in the program. What is hard is order and reuse: block boundaries against windows,
strings and first bytes; members and vector cells that survive from one file to the
next, or from a run that an exception ended; the file system, which changes between
one look and the next; two parsers of the same bytes; and arithmetic at its edges
(size_t differences, INT32_MIN, offsets in the vector). `PROJECT.json` lists these
hazards at their lines. The list is not called by the extractor but is built with it
and is the part of the repository with the trickiest pointers.

## The modules

State and actions carry the names of the members and functions they stand for;
`PROJECT.json`, "map", gives the lines. History variables, which the code does
not have, are marked `history` where they are declared. Operators introduced by
`\* Mutant:` are not used by the specifications: each is a plausible bug of the
operator after it, and putting it in its place makes TLC report the property it
is listed with.

| Module | Models | Kind |
|---|---|---|
| `BlockStream` | block streams, calls in any order and with any arguments | component |
| `StrideWindows` | what a sliding window promises, as in the Python reference beside the tests | abstract |
| `SlidingByteWindow` | the window's block, callback and the copy-or-slide loop, one action per turn | component, refines `StrideWindows` |
| `SlidingByteWindowProofs` | its invariant, theorems and refinement | proofs |
| `StringExtractor` | strings and patterns found block by block, every counter | component |
| `BlockProofs` | the invariants and theorems of `BlockStream` and `StringExtractor` | proofs |
| `FeatureHasher` | the hasher over small integers | component |
| `HeldVector` | what an extractor promises of the vector it lends | abstract |
| `FeatureExtractor` | `run` on memory, with instances of stream, window and strings, byte counter and byte catcher, exceptions, and file after file | composition, implements `HeldVector` |
| `FeatureExtractorProofs` | its invariant, theorems and refinement | proofs |
| `VectorLayout` | which cells are cleared, assigned and updated, in what order, with the real dimensions and offsets | component |
| `VectorProofs` | the invariants and theorems of `FeatureHasher` and `VectorLayout` | proofs |
| `ExtractionCall` | what a caller of the C interface may rely on | abstract |
| `FileRun` | every function of the C interface, `run` on memory and on a path, against a changing file system | component, implements `ExtractionCall` |
| `PEFile` | what the constructor of PEFile keeps, and its accessors | operators |
| `SectionInfo` | PEFile's making and the pass over the sections | component |
| `PEFeatures` | `start` of header, section (`SectionInfo`), imports, exports, directories and rich header, file after file | composition, implements `HeldVector` |
| `PEFeaturesProofs` | its invariant, theorems and refinement, with those of `SectionInfo` | proofs |
| `Authenticode` | the two parsers' results to eight features | component |
| `AuthenticodeProofs` | its invariant and theorems | proofs |
| `FoldTheorems` | lemmas on sums, counts, ranks and joined sequences | proofs |
| `NodeSequence` | what a linked list promises | abstract |
| `LkList` | pointers on a heap | component, refines `NodeSequence` |
| `CInterfaceProofs` | the invariants, theorems and refinements of `FileRun` and `LkList`, the two parts with a C interface | proofs |

Three models cover the vector. `FeatureExtractor` has the values of the three
feature types that read the bytes, and lets each of the others write a region
that names the type and the file; `PEFeatures` has the values of those others
but for the signatures, which are in `Authenticode`, and the warnings, which are
always zeros; `VectorLayout` has the offsets and no values, a cell is written or not. That
the first may treat the header feature types so is what the second shows: both
implement the same `HeldVector`, a vector that is a function of its file.
`FeatureExtractor` uses the blocks of `BlockStream` and the state of
`SlidingByteWindow` and `StringExtractor` unchanged, `PEFeatures` that of
`SectionInfo`, by `INSTANCE`.

What a hasher is given and what it makes of it are kept apart: in `PEFeatures` a
hasher is the names and weights it was given since its last reset or finalize,
in `FeatureHasher` those become buckets.

How the code's parts appear:

- A call that runs to its end without another actor able to observe it is one
  action. Loops whose turns matter (`reduce` of the window, the loop over blocks,
  the walk over feature types, the pass over sections, the scans of signatures)
  are one action per turn.
- `LOG_FATAL_ERROR` is a step to a state with no way on but stuttering (`StartFatal`).
- Bytes are members of a small set; a file is its bytes and what its parsers
  find in it. The byte entropy histogram adds each window to the row its entropy
  falls in, as in the code; which row that is (a float) is the constant function
  `EntropyBin`. Names are model values, and lower case, cutting at a NUL and the
  digits of an ordinal are functions on them that need not be one-to-one.
- A regular expression is the set of the texts it accepts, with or without a `\b` at
  either end (`RegexSet`), which is the form of all 77 of them; the strings of
  `[\x20-\x7f]{5,}` are runs of readable bytes.
- Exceptions: allocation may fail in the feature types that allocate
  (`AbandonStart`, `AbandonReduce`, `Abandon`), in `FileRun` also `absolute`,
  `exists` and `file_size` throw. The extractor can be used again afterwards, as an
  object in C++ can.
- What a path leads to is a file, nothing, a directory, or something that may not be
  searched or opened; a path that `absolute` cannot resolve (empty, or relative to a
  directory that is gone) is `UNRESOLVED`, and no longer can be once it is absolute.
- Refinements keep no step out: `StrideWindows`, `NodeSequence`, `HeldVector`
  and `ExtractionCall` are checked as properties `Implements...`, and
  proved. The mapping of `HeldVector` is what the caller may read:
  the vector when a run has returned it, nothing from the moment the next run
  starts its features.

## The runs

| Run | Bounds | Shows |
|---|---|---|
| `stream` | 2 buffers, sizes 0 to 5, block sizes 0 to 3, size_t of 8 values | any order of calls tiles the buffer: sizes that block sizes divide, or not; calls before start, after the end, after stop |
| `window` | windows and steps 0 to 3, 6 bytes of 2 values, pieces of 0 to 3 bytes | strides, whatever the pieces; every case of step against window, and reuse with other settings; the loop of reduce ends |
| `strings` | 7 bytes of 3 values, blocks of 1, 2, 3, 7, shortest string 2, 4 patterns | exact in one block, bounded error in several; blocks are shorter than, as long as and longer than a string; of the patterns two are the same, as two of the code's are, one has a `\b` before it and one on both sides |
| `strings_whole` | 5 bytes, block 4 | **violated**, see findings |
| `hasher` | 4-bit integers, sizes to 3, 3 items, 2 samples, 2 seeds | hash of the sample only; one string hashes to the least integer |
| `extractor` | 5 files of 0 to 7 bytes, blocks of 3, window 4, step 2, 2 rows | the vector is that of the file, after any files and abandoned runs, and the caller's until the next run starts its features; each run ends |
| `layout` | 37 kinds of file, real dimensions, 2 blocks, the rows of the windows of a block none, the first, the last and two at a time | every cell written by its type in each run |
| `file` | 2 files, 2 versions, sizes 0 to 2, 2 changes in a call, lengths and sizes from -1, size_t of 8 values | a call is all or nothing; success means one version; errors and exceptions are true, of a path that cannot be made absolute too |
| `pe_features` | 60 files: 3 sections in every order and number with entry points in one, in two and in none; imports, exports, directories, rich headers | entry section, counts, extremes; every region is that of the file, after any files and abandoned runs |
| `entrypoint` | the same | **violated**, see findings |
| `authenticode` | up to 2 signatures of 3, up to 2 arrays of countersignatures of 5 | features of all signatures, time of the first countersigner |
| `list` | 4 nodes, 2 data | links, lookups, what is freed and what is lost; three nodes are the shortest list with an inner one, four the shortest of which a clear frees two |

Why these bounds are enough to meet the cases: each constant that the code
compares with another (block size and window size, size and cursor, items and the
doubling of a vector, offset and length of a section) takes values below, at and above the
other. `MaxFed` of 6 with windows of up to 3 gives two windows and a remainder for
every step; blocks of 3 with windows of 4 put every window of `extractor` across
a boundary; 3 items make the hasher's vector grow twice. The layout run uses
the real numbers.

Every two files of `pe_features` follow each other, with and without an
exception in the first, so each region is written over each other one, and each
hasher is reused half fed.

Deadlock is checked except in `list`, which ends with the process
(`lkInsertNoMemory`, `lkCopyToNewArrayNoMemory`) or when the bound on lost nodes is met.

### Fairness

Safety needs none. Two runs assume weak fairness (`FairSpec`) for their
liveness property: `window` of a turn of the loop in `reduce`, and `extractor` of
the steps of a run once called, the loop over blocks of `core/src/core.cpp:45`
among them. In each case it says that a sequential program
that is in a loop keeps executing it; nothing is assumed of callers between runs.

### Findings

- `core/src/f_string_extractor.cpp:160`: strings are searched in each 4 MB block
  on its own. A string across a boundary counts twice, is shortened or is lost,
  while README.md:61 calls all feature types consistent with the original but for
  the known issues, of which this is none. `strings_whole` has a file of five
  bytes; `LossIsBounded` of `strings` says how far the features can be off: per
  boundary one string more or less, less than two shortest strings' worth of bytes,
  and of each pattern one match less or one more. A pattern with `\b` at both ends
  (lines 76, 93, 94 and 97) can have two more: the cut makes an end of a word on both
  of its sides, so that both pieces of `00:11:22:33:44:5566:77:88:99:aa:bb` are
  addresses where the whole has none. It is proved for every content, every list of
  patterns and every way of cutting.
- `pefile/src/pefile.cpp:21`: the entry point is read at the fixed offset 0x68,
  which the comment calls the offset of AddressOfEntryPoint. That is so only
  for `e_lfanew = 0x40`; `entrypoint` has a file with 0x80.

Seen while modelling, without a text to the contrary: `lkClear` frees neither the head
nor the last node (`lklist/src/lklist.c:212`; `LosesHeadAndLast` says that nothing
else is lost, and that a call frees, once each, the nodes it gives to `freeElement`,
all of them in use, and is proved); `lkInsert` uses a node before it looks whether
there is one, and `lkCopyToNewArray` does not look (`lklist/src/lklist.c:251`); a path
that is a directory, or empty, leaves the C interface by an exception
(`core/src/core.cpp:83` and `77`); `EFE_...FromFile` takes a negative length for a
large one (`shared/src/shared.cpp:71`); the four bytes of the entry point are read of
any file longer than 0x68 (`pefile/src/pefile.cpp:16`), so that files of 0x69 to 0x6b
bytes end before they do (what lies behind them is not modelled, a file of `PEFile`
has the field or not).

## What is proved

`tlapm` checks the proofs of eight modules, for all values of the constants under the
assumptions that the component modules name. In every component an inductive invariant
is proved (`Inv`; `StringsInv`, `ListInv` and `LayoutInv` where two components share a
module), and the properties follow from it; those of the runs are stated by theorems
as they are, not restated.

What is assumed of the constants is what the types of the code give: sizes are
naturals and `size_t` is wide enough for them, files are records of sequences and
naturals, the null pointer is no object and no vector (`NullAssumption`), a hash is an
`int`, as is a row of the histogram (`EntropyAssumption`), the step of a window is
positive and at most the window, the upper half of a byte is one of `HalfByte` values,
there are fewer patterns than the counter has entries, and none accepts the empty text
(`TextAssumption`, `RegexSet`). The hash, the entropy of a window, the lower-case
table and the sets of bytes, files and names are otherwise arbitrary, but that the
readable bytes (`StringsAssumption`) and the nodes of the heap (`ListAssumption`) are
finite in number, and that the rows of the histogram are those of its 16 rows
(`LayoutAssumption`).

**`BlockProofs`**, of streams: type correctness, `CutsTheBuffer`, `NeverWraps`,
`EndIsTheEnd`, `ReadOnce`. The properties speak of blocks already returned; the next
block depends on the cursor and on the members of the derived class. `Inv` adds what
relates them: the cursor is the end of the last block (`CursorAfterBlocks`), the
members are what startReading found in them as long as reading goes on
(`ReadsWhatWasOpened`), nothing was read before (`UnopenedIsEmpty`). Then `readNext`
yields the smaller of a block and the rest (`AvailableIsBounded`), and the conjuncts
follow one by one in `ReadNextInv`. The two action properties follow from `Inv` and
the step.

The same module, of strings, for the sequences of calls and the ways to cut the
content that `StringsSpec` allows: type correctness, `StringFeaturesAgree`,
`LossBounded`. The counters agree (`StringsAgree`) since each block adds strings that
agree (`StringTotals`, `PatternsAgree`): the bytes of a string are counted once each
(`CountsTotal`), and sums by bytes and by strings are the same sum (`TotalSwapped`).
How much is lost at boundaries is the invariant `Losses`: what was counted up to a
block is near what the strings of the content up to there would give, at a distance of
so much per boundary. Its step is `CutIsBounded`, of one boundary. The longest stretch
of readable bytes around it is one run in the whole and a run on either side in the
pieces (`CutAt`); every other run is found in both, unchanged but for its place
(`SameStrings`). So the sums over runs differ only in that stretch (`SumAround`), and
of a stretch and its two pieces few are long enough to be strings. That holds of any
weight of strings: the number of them, their bytes, and those that match a pattern are
three weights. A match in a string is found in one of the pieces or lies across the
cut; a match in a piece is one in the whole but for a `\b` at the cut itself
(`BordersKept`), so if both pieces match and the whole does not, the pattern has a
`\b` at both ends (`MatchJoined`, `AddedPerCut`). With no boundary nothing is lost
(`NoCutNoLoss`).

**`SlidingByteWindowProofs`**: type correctness, `BlockFits`, `ReportsStrides`,
`ReportsAll`, and `Refinement`: the loop implements `StrideWindows`. The invariant
says that at every turn the block is the slice of the data between the start of the
next window (`Base`) and what was consumed (`Pos`), that the rest of the piece is
the slice from there on, and that the windows reported are slices at multiples of
the step. Lemmas on slices (`SliceDrop` for the erase, `SliceExtend` for the insert,
`SliceOfLonger` for data that grows) carry it through a turn, one arithmetic lemma
(`QuotientIs`) relates counting windows to dividing. For the refinement the loop's
copies are stutters, a slide or the last window a report.

**`CInterfaceProofs`**, of the C interface of the extractor: type correctness,
`VectorOfOneVersion`, `TrueErrors`, and `Refinement`: a call implements
`ExtractionCall`. What is promised speaks of the end of a call; `Inv` says what is
known before it: nothing is reported yet, the arguments were checked, the path is
absolute after its step, what a step learned of the path is among what was seen of it,
the mapped content has the size the system gave as long as nobody writes, and what was
parsed is what is read again. Steps of others that replace, truncate or write to files
keep each of these, which is why `touched` is in them.

The same module, of the list: type correctness, `ListIsOneSequence`, `ListLoses`,
and `ListRefines`: the pointers implement `NodeSequence`. Reachability in a heap is
not inductive as it is stated, by following links. `ListInv` says instead that there
is a sequence of allocated nodes, none of them twice, that the links hold
(`Linked`): `next` of each is the one after it, `prev` the one before, head and tail
are its ends. Inserting and removing put a node into that sequence and take one out
(`InsertLinked`, `RemoveLinked`), at an end or inside. That what is found by
following the links is that sequence (`FollowIs`) is what the properties and the
refinement then need once. `lkClear` frees the sequence but for its ends
(`ClearLoses`); that none of those is freed twice is that the sequence has none twice.

**`VectorProofs`**, of the hasher: type correctness, `ValuesNeverOverrun`,
`OutputCorrect`, `WritesInside`. The properties compare the dense output with the
hash of each sample; between the two are the compressed rows. `Inv` says that the
entries between two row pointers sum up, bucket by bucket, to the hash of the sample
closed there, and that those after the last pointer do for the sample in the making.
Adding an item moves one sum in one bucket, finalize adds a row's entries one by
one. The magnitude of the least integer and the modulus are lemmas of their own.

The same module, of the layout, for any set of files with any number of directories
and bytes of rich header, any rows of the windows and any number of blocks:
`NoCellStale`, `RegionsKept`, `FeaturesKept`. There is a lemma for each feature type
(`GeneralFills` to `DataDirectoriesFill`) that its list of writes stays in its
region, covers it, assigns no cell twice and updates no cell before writing it
(`Fills`); it is put together from writes in the order of the code (`TidyFollow`,
`TidyUpdate`, `TidyWhen`). `Regions` says that the eleven regions, placed by the
sums of the dimensions before them, are disjoint and are the whole vector.
`LayoutInv` says, in the middle of a run, which regions are filled (`Over`) and
which not begun (`Ahead`), two types being filled only in `finalize`, and that the
writes still to make fill the rest of the current one and touch no cell given
already (`Filling`, `Updating`). Without the writes to come nothing could be said of
a region that is half written.

**`PEFeaturesProofs`**, which covers `SectionInfo` and `PEFile`: type correctness,
`EntrySectionCorrect`, `CountsCorrect`, and `Refinement` of `HeldVector`. `Inv` says
how far each loop has come: counts, extremes, the first executable section and the
last that holds the entry point are those of the sections before `next`; each hasher
was given the names before the index of its loop, those of the functions being a
joined sequence of sequences; the regions already written are those of the file.
That a member hasher left half fed by an exception does no harm is in what the
invariant leaves out: nothing is said of it until its reset.

**`AuthenticodeProofs`**: type correctness, `ChainsCorrect`, `SigningTimeCorrect`.
`Inv` says what was gathered of the signatures before the loop's index, and that no
countersignature the scan has passed has a time.

**`FeatureExtractorProofs`**: type correctness, `ConsumersCorrect`, `VectorCorrect`,
`TextCorrect` and `TextLosses` (`FeaturesAgree` and `LossIsBounded` of the string
extractor as the extractor drives it), and `Refinement` of `HeldVector`. `Inv`
follows the file through the composition. The stream is at a multiple of the block
size or at the end (`Cut`, `StreamRuns`). The byte counter and the byte catcher hold
what the bytes before the cursor, or before the last block, make of cleared members
(`Counted`, `Caught`, at `Seen`). The sliding window keeps the invariant of
`SlidingByteWindowProofs`, instantiated for the extractor, over those same bytes,
and the histogram is the tally of the windows reported, with the bytes in them as
its sum (`HistogramInv`). The string extractor's counters are those of the strings
of the blocks, joined (`StringsInv`, at `Done`). Only from `start` on is anything
said of the output, and before `reset` nothing of the members: so nothing of the
last file, or of a run that an exception ended, can be in the result. In `finalize`
the windows reported are those of the file (`ReportedIs`), the sum is zero only of a
file without bytes (`LengthsOfWindows`), and the vector is `Features` of the file.
The agreement and the losses of strings follow from an invariant of their own
(`AgreeInv`), made of those of `BlockProofs`, instantiated for the extractor.

**`FoldTheorems`** has the facts these need of the operators of the community
modules: sums over finite sets (`TotalWith`, `TotalEqual`, `TotalOfSums`,
`TotalZeros`, `TotalRenamed`, `TotalSwapped`, `TotalAtLeast`, `SumOverConcat`),
counts (`CountOneMore`, `CountsAdd`, `CountsTotal`, `HitsConcat`), `FlattenSeq`
(`JoinedPrefix`, `JoinedPlace`), and the ranks of the members of a set with distinct
keys (`LatestRank`, `RankTaken`), which give the strings of a block their order.
Such facts are by induction; they are proved here by taking a least counterexample,
of sets or of numbers, and contradicting it.

Only checked by TLC is liveness: `ReduceReturns` and `RunsEnd` are beyond the
prover. Every invariant, action property and refinement of the runs is a theorem,
the two that a run refutes aside.

Definitions by recursion over data are avoided in the proved modules and written as
recursive functions or folds elsewhere.

## What is not modelled

- Floating-point arithmetic: entropy, rounding, the conversion of fields to
  float. Ratios are fractions and are compared as such.
- The parsers (LIEF, Authenticode), RE2, MurmurHash3, mio: external,
  modelled by what they return. Of the 77 patterns only the form is modelled.
- Tables of names but for those of a section's characteristics and the machine
  types (`pefile/src/*_types.cpp`, `*_characteristics.cpp`); the fields of the
  COFF and the optional header, which are copied one by one into the vector, are
  one value each; the list macros, conversion of arguments, tests, benchmarks.
- Vendored code. Of the lines of the repository all but about six thousand are
  SQLite (`sqlite3/`), used by the tests only, so that the lines `PROJECT.json`
  maps are a small share of all and most of the extractor's own.
- `common/src/timestamps.cpp`, called only from a function that nothing calls;
  `caching/`, which nothing instantiates (`CachedFunction` cannot be, with
  `LRUCache`); `demo/src/main.cpp`, a loop over arguments around one call of the
  extractor, which `FileRun` covers.
- Threads sharing an extractor: no code here has any.

## Plan

Done, in order of importance: streams and windows with proofs; strings, hasher,
the composition; layout of the vector; the C interface and files with the
abstract call; sections and the other header feature types with the vector they
share; signatures; the list.

Of the models nothing large is left: the parts listed above are external,
without state, or called by nothing. Of the proofs liveness is left, which the
prover does not support; a variant for the two loops (the bytes of the piece not
yet consumed, the steps left in a run) is what a proof by hand would use.

## Running

```
tlc -config MCBlockStream.cfg MCBlockStream     # and so for every run
tlapm BlockProofs.tla                           # and so for every ...Proofs, FoldTheorems
```

The longest proof, of the extractor, takes about eight minutes.
