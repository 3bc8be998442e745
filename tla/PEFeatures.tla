------------------------------ MODULE PEFeatures -------------------------------
(***************************************************************************)
(* start of the feature types that are made of a PEFile, in the order of   *)
(* AllFeatureTypes: header, section (SectionInfo), imports, exports, data  *)
(* directories and rich header, for one file after another.                *)
(*                                                                         *)
(* ImportsInfo and ExportsInfo keep their hashers between runs, sections   *)
(* and rich header make theirs anew.  Wherever names are built an          *)
(* exception may end the run, and leaves hashers and vector as they are.   *)
(* A hasher is what it was given since its last finalize or reset; what it *)
(* makes of that is in FeatureHasher.                                      *)
(***************************************************************************)
EXTENDS PEFile

CONSTANT VectorDim,   \* DATA_DIRECTORIES_VECTOR_DIM, 32
         Zero,        \* a region of zeros
         NULL         \* nothing to read

\* Each directory with a name has its two cells.
ASSUME VectorAssumption == VectorDim = 2 * NumDirectoryNames

\* The regions of the vector, those of sections and directories in parts.
Regions == {"header", "section", "sectionExtremes", "sectionHashes", "imports", "exports",
            "datadirectories", "relocations", "richheader"}

VARIABLES pc,            \* the next step
          output,        \* region -> contents
          fh,            \* librariesFH and functionsFH of ImportsInfo, functionsFH of
                         \* ExportsInfo, which are members, and fh of the rich header
          lib, func,     \* the loops: library, and function or pair
          numFunctions   \* of ImportsInfo::start

\* The variables of SectionInfo, the file among them.
VARIABLES sectionPc, file, peFile, next, pEntrySection, pPotentialEntrySection,
          counts, extremes, hashers

Info == INSTANCE SectionInfo WITH pc <- sectionPc

section == <<sectionPc, file, peFile, next, pEntrySection, pPotentialEntrySection,
             counts, extremes, hashers>>
loops == <<lib, func, numFunctions>>
vars == <<pc, output, fh, loops, section>>

NewFH == [alternateSign |-> TRUE, given |-> <<>>]
Given(h, name, weight) == [h EXCEPT !.given = Append(@, <<name, weight>>)]
Finalized(h) == [h EXCEPT !.given = <<>>]

Init ==
    /\ pc = "idle" /\ output = [r \in Regions |-> Zero]
    /\ fh = [h \in {"libraries", "functions", "exports", "pairs"} |-> NewFH]
    /\ lib = 1 /\ func = 1 /\ numFunctions = 0
    /\ Info!Init

Goto(from, to) == pc = from /\ pc' = to
Write(r, value) == output' = [output EXCEPT ![r] = value]

Run(f) ==
    /\ Goto("idle", "header")
    /\ Info!Parse(f)
    /\ UNCHANGED <<output, fh, loops>>

-----------------------------------------------------------------------------
(* HeaderFileInfo, SectionInfo *)

Header(f) ==
    IF f.isPE
    THEN [coff |-> CoffHeader(f).fields, machine |-> MachineCode(CoffHeader(f).Machine),
          optional |-> OptionalHeader(f), dos |-> IF HasDOSHeader(f) THEN f.dosHeader ELSE Zero]
    ELSE Zero

HeaderStart ==
    /\ Goto("header", "section")
    /\ Write("header", Header(file))
    /\ UNCHANGED <<fh, loops, section>>

SectionNotPE ==
    /\ Goto("section", "imports")
    /\ Info!NotPE
    /\ output' = [output EXCEPT !["section"] = Zero, !["sectionExtremes"] = Zero,
                                !["sectionHashes"] = Zero]
    /\ UNCHANGED <<fh, loops>>

\* The hashers clear their cells; the other cells wait for the end.
SectionStart ==
    /\ pc = "section" /\ Info!Start
    /\ Write("sectionHashes", Zero)
    /\ UNCHANGED <<pc, fh, loops>>

SectionLoop ==
    /\ pc = "section" /\ Info!Section
    /\ UNCHANGED <<pc, output, fh, loops>>

SectionFinish ==
    /\ Goto("section", "imports")
    /\ Info!Finish
    /\ output' = [output EXCEPT !["section"] = Info!Numbers, !["sectionExtremes"] = extremes,
                                !["sectionHashes"] = hashers']
    /\ UNCHANGED <<fh, loops>>

-----------------------------------------------------------------------------
(* ImportsInfo *)

\* Mutant: the hashers are not reset, only configured.
UnsignedUnreset(h) == [h EXCEPT !.alternateSign = FALSE]

\* reset, setAlternateSign(false), start
Unsigned(h) == [NewFH EXCEPT !.alternateSign = FALSE]

ImportsStart ==
    /\ pc = "imports"
    /\ Write("imports", Zero)
    /\ IF HasImportDirectory(file)
       THEN /\ pc' = "library"
            /\ fh' = [fh EXCEPT !.libraries = Unsigned(@), !.functions = Unsigned(@)]
            /\ lib' = 1 /\ numFunctions' = 0
       ELSE pc' = "exports" /\ UNCHANGED <<fh, lib, numFunctions>>
    /\ UNCHANGED <<func, section>>

Libraries == ListImports(file)

ReduceLibrary ==
    /\ Goto("library", "function")
    /\ lib <= Len(Libraries)
    /\ fh' = [fh EXCEPT !.libraries = Given(@, Libraries[lib].dllName, 1)]
    /\ func' = 1
    /\ UNCHANGED <<output, lib, numFunctions, section>>

\* A function without a name goes by its ordinal, which is zero if it has none.
NameOf(f) == IF f.name # EMPTY THEN Cut[f.name] ELSE OrdinalName[f.ordinal]

ReduceFunction ==
    /\ pc = "function" /\ func <= Len(Libraries[lib].functions)
    /\ LET library == Libraries[lib] IN
         fh' = [fh EXCEPT !.functions =
                   Given(@, <<library.dllName, NameOf(library.functions[func])>>, 1)]
    /\ func' = func + 1 /\ numFunctions' = numFunctions + 1
    /\ UNCHANGED <<pc, output, lib, section>>

LibraryDone ==
    /\ Goto("function", "library")
    /\ func > Len(Libraries[lib].functions)
    /\ lib' = lib + 1
    /\ UNCHANGED <<output, fh, func, numFunctions, section>>

ImportsFinish ==
    /\ Goto("library", "exports")
    /\ lib > Len(Libraries)
    /\ Write("imports", [numFunctions |-> numFunctions, numLibraries |-> Len(Libraries),
                         libraries |-> fh.libraries, functions |-> fh.functions])
    /\ fh' = [fh EXCEPT !.libraries = Finalized(@), !.functions = Finalized(@)]
    /\ UNCHANGED <<loops, section>>

-----------------------------------------------------------------------------
(* ExportsInfo *)

ExportsStart ==
    /\ pc = "exports"
    /\ Write("exports", Zero)
    /\ IF HasExportDirectory(file)
       THEN pc' = "export" /\ fh' = [fh EXCEPT !.exports = NewFH] /\ func' = 1
       ELSE pc' = "datadirectories" /\ UNCHANGED <<fh, func>>
    /\ UNCHANGED <<lib, numFunctions, section>>

ReduceExport ==
    /\ pc = "export" /\ func <= Len(file.exports)
    /\ fh' = [fh EXCEPT !.exports = Given(@, NameOf(file.exports[func]), 1)]
    /\ func' = func + 1
    /\ UNCHANGED <<pc, output, lib, numFunctions, section>>

NumExportedFunctions == 128

\* The number is that of the buckets, not of the functions, as in the original.
ExportsFinish ==
    /\ Goto("export", "datadirectories")
    /\ func > Len(file.exports)
    /\ Write("exports", [number |-> NumExportedFunctions, functions |-> fh.exports])
    /\ fh' = [fh EXCEPT !.exports = Finalized(@)]
    /\ UNCHANGED <<loops, section>>

-----------------------------------------------------------------------------
(* DataDirectories, RichHeaderFeatureType *)

Fits(d) == d.index * 2 + 1 < VectorDim /\ d.index * 2 < VectorDim

Cell(d, c) == IF c = 2 * d.index THEN d.size ELSE d.virtualAddress

DirectoriesStart ==
    /\ Goto("datadirectories", "richheader")
    /\ LET written == { d \in ToSet(ListDirectories(file)) : Fits(d) }
           cells == UNION { {2 * d.index, 2 * d.index + 1} : d \in written }
       IN  output' = [output EXCEPT
             !["datadirectories"] =
                IF file.isPE
                THEN [c \in cells \cup 0..(VectorDim - 1) |->
                        IF c \in cells THEN Cell(CHOOSE d \in written : d.index = c \div 2, c)
                        ELSE 0]
                ELSE Zero,
             !["relocations"] =
                IF file.isPE THEN <<file.relocs, HasDynamicRelocs(file)>> ELSE Zero]
    /\ UNCHANGED <<fh, loops, section>>

NumPairs(f) == (RichHeaderSize(f) \div 4) \div 2

RichStart ==
    /\ pc = "richheader"
    /\ IF HasRichHeader(file) /\ RichHeaderSize(file) \div 4 >= 2
       THEN /\ pc' = "pair"
            /\ Write("richheader", [pairs |-> Max({0, NumPairs(file) - 3}), hashed |-> Zero])
            /\ fh' = [fh EXCEPT !.pairs = NewFH] /\ func' = 1
       ELSE pc' = "done" /\ Write("richheader", Zero) /\ UNCHANGED <<fh, func>>
    /\ UNCHANGED <<lib, numFunctions, section>>

\* The first double word of a pair is the name, the second its weight.
ReducePair ==
    /\ pc = "pair" /\ func <= NumPairs(file)
    /\ fh' = [fh EXCEPT !.pairs = Given(@, file.dwords[2 * func - 1], file.dwords[2 * func])]
    /\ func' = func + 1
    /\ UNCHANGED <<pc, output, lib, numFunctions, section>>

RichFinish ==
    /\ Goto("pair", "done")
    /\ func > NumPairs(file)
    /\ output' = [output EXCEPT !["richheader"].hashed = fh.pairs]
    /\ UNCHANGED <<fh, loops, section>>

-----------------------------------------------------------------------------
(* Between runs *)

EndOfRun ==
    /\ pc' = "idle"
    /\ Info!Forget
    /\ lib' = 1 /\ func' = 1 /\ numFunctions' = 0
    /\ fh' = [fh EXCEPT !.pairs = NewFH]
    /\ UNCHANGED output

Return == pc = "done" /\ EndOfRun

\* An exception where a name is built.
Abandon ==
    /\ \/ pc = "section" /\ sectionPc = "loop"
       \/ pc \in {"function", "library", "export", "pair"}
    /\ EndOfRun

Next ==
    \/ \E f \in Files : Run(f)
    \/ HeaderStart
    \/ SectionNotPE \/ SectionStart \/ SectionLoop \/ SectionFinish
    \/ ImportsStart \/ ReduceLibrary \/ ReduceFunction \/ LibraryDone \/ ImportsFinish
    \/ ExportsStart \/ ReduceExport \/ ExportsFinish
    \/ DirectoriesStart
    \/ RichStart \/ ReducePair \/ RichFinish
    \/ Return \/ Abandon

Spec == Init /\ [][Next]_vars

-----------------------------------------------------------------------------
(* What the regions of a file are, from the file alone *)

SectionNumbers(f) ==
    LET Number(P(_)) == Cardinality({ k \in DOMAIN f.sections : P(f.sections[k]) })
        Flag(s, c) == s.characteristics \cap Characteristics[c] # {}
    IN  << Len(f.sections),
           [zeroSize |-> Number(LAMBDA s : s.sizeRaw = 0),
            emptyName |-> Number(LAMBDA s : Trimmed[s.raw] = EMPTY),
            readableAndExecutable |->
                Number(LAMBDA s : Flag(s, "MEM_READ") /\ Flag(s, "MEM_EXECUTE")),
            writable |-> Number(LAMBDA s : Flag(s, "MEM_WRITE"))],
           f.overlaySize, Ratio(f.overlaySize, f.size),
           IF f.overlaySize > 0 THEN f.overlayEntropy ELSE 0 >>

SectionNames(f) == [k \in DOMAIN f.sections |-> Trimmed[f.sections[k].raw]]

\* The values V of the sections, each under the name of its section.
Named(f, V(_)) == [k \in DOMAIN f.sections |-> <<SectionNames(f)[k], V(f.sections[k])>>]

EntryName(f) ==
    LET k == Info!ChosenSection(f.sections, Entrypoint(f))
    IN  IF k = NONE THEN <<>> ELSE <<SectionNames(f)[k]>>

ImportName(e) ==
    IF e.isOrdinal THEN OrdinalName[e.ordinal]
    ELSE IF e.name = EMPTY THEN OrdinalName[0] ELSE Cut[e.name]

ImportedNames(f) ==
    FlattenSeq([k \in DOMAIN f.imports |->
        [i \in DOMAIN f.imports[k].entries |->
            << <<Lower[f.imports[k].name], ImportName(f.imports[k].entries[i])>>, 1 >>]])

Hash(sign, given) == [alternateSign |-> sign, given |-> given]

Features(f) ==
    [r \in Regions \ {"sectionExtremes"} |->
        IF ~f.isPE THEN Zero
        ELSE CASE r = "header" -> Header(f)
          [] r = "section" -> SectionNumbers(f)
          [] r = "sectionHashes" ->
                [size |-> Named(f, LAMBDA s : s.sizeRaw),
                 vsize |-> Named(f, LAMBDA s : s.vsize),
                 entropy |-> Named(f, LAMBDA s : s.entropy),
                 characteristics |-> FlattenSeq([k \in DOMAIN f.sections |->
                     SetToSeq({SectionNames(f)[k]} \X NamesByValue(f.sections[k].characteristics))]),
                 entryName |-> EntryName(f)]
          [] r = "imports" /\ HasImportDirectory(f) ->
                [numFunctions |-> Len(ImportedNames(f)), numLibraries |-> Len(f.imports),
                 libraries |-> Hash(FALSE, [k \in DOMAIN f.imports |-> <<Lower[f.imports[k].name], 1>>]),
                 functions |-> Hash(FALSE, ImportedNames(f))]
          [] r = "exports" /\ HasExportDirectory(f) ->
                [number |-> NumExportedFunctions,
                 functions |-> Hash(TRUE, [k \in DOMAIN f.exports |->
                     << IF f.exports[k].name = EMPTY THEN OrdinalName[f.exports[k].ordinal]
                        ELSE Cut[f.exports[k].name], 1 >>])]
          [] r = "datadirectories" ->
                [c \in 0..(VectorDim - 1) |->
                    IF c >= 2 * Len(f.directories) THEN 0
                    ELSE IF c % 2 = 0 THEN f.directories[c \div 2 + 1].size
                    ELSE f.directories[c \div 2 + 1].rva]
          [] r = "relocations" ->
                <<f.relocs, f.configuration /\ f.dynamicRelocs > 0>>
          [] r = "richheader" /\ f.hasRich /\ Len(f.dwords) >= 2 ->
                [pairs |-> IF Len(f.dwords) < 8 THEN 0 ELSE Len(f.dwords) \div 2 - 3,
                 hashed |-> Hash(TRUE, [k \in 1..(Len(f.dwords) \div 2) |->
                                          <<f.dwords[2 * k - 1], f.dwords[2 * k]>>])]
          [] OTHER -> Zero]

-----------------------------------------------------------------------------
(* Properties *)

TypeOK ==
    /\ Info!TypeOK
    /\ pc \in {"idle", "header", "section", "imports", "library", "function", "exports",
               "export", "datadirectories", "richheader", "pair", "done"}
    /\ DOMAIN output = Regions
    /\ lib \in Nat /\ func \in Nat /\ numFunctions \in Nat
    /\ pc = "idle" <=> file = NONE
    /\ pc = "function" => lib \in DOMAIN Libraries
    /\ fh.exports.alternateSign /\ fh.pairs.alternateSign

\* The section of the entry point, as SectionInfo picks it.
EntrySectionIsTheOne == Info!EntrySectionIsTheOne

\* The counts and extremes of the sections, as SectionInfo keeps them.
KeptOfTheSections == Info!KeptOfTheSections

\* The entry point is the field the comment names, as SectionInfo states it.
EntrypointIsAddressOfEntryPoint == Info!EntrypointIsAddressOfEntryPoint

ASSUME NullAssumption ==
    \A f \in Files : NULL # [file |-> f, vector |-> Features(f)]

\* When all have started, the regions made of the headers are those of the file alone:
\* nothing of the files before it is in them, not of one whose run ended in the middle
\* of its names with the hashers half fed, and the lists PEFile makes lose nothing.
\* The extremes are left to KeptOfTheSections.
Held ==
    IF pc = "done"
    THEN [file |-> file, vector |-> [r \in Regions \ {"sectionExtremes"} |-> output[r]]]
    ELSE NULL

Abstract == INSTANCE HeldVector WITH held <- Held
ImplementsHeldVector == Abstract!Spec
=============================================================================
