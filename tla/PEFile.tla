------------------------------- MODULE PEFile --------------------------------
(***************************************************************************)
(* pefile/src: what the constructor of PEFile keeps of a file, once        *)
(* built never changed, and its accessors.  The parser (LIEF) is           *)
(* external: a file is what LIEF and the raw bytes give of it.             *)
(*                                                                         *)
(* Names are values, and the conversions of names are functions on them.   *)
(* The fields of a header that are copied one to one are one value.        *)
(***************************************************************************)
EXTENDS Integers, Sequences, FiniteSets, FiniteSetsExt, SequencesExt

CONSTANTS Files,         \* see FilesAssumption
          RawNames,      \* names as the file has them
          Lower,         \* raw name -> in lower case
          Trimmed,       \* raw name -> in lower case, up to the first NUL
          Cut,           \* raw name -> up to the first NUL, 10000 bytes at most
          OrdinalName,   \* ordinal -> the name "ordinal" and its digits
          Characteristics,   \* name of a flag of a section -> its bits, one or more
          MachineTypes,  \* the machine types with a code, in its order
          NumDirectoryNames,   \* 16
          EMPTY,         \* the empty name
          NONE           \* no section, no file

RawSections == [raw : RawNames, sizeRaw : Nat, vsize : Nat, vaddr : Nat, entropy : Nat,
                characteristics : SUBSET UNION { Characteristics[c] : c \in DOMAIN Characteristics }]
Entries == [isOrdinal : BOOLEAN, ordinal : Nat, name : RawNames]

\* addressOfEntryPoint is what the optional header has; it lies at e_lfanew + 40, and
\* stub is what a file with more before its headers has at 0x68.  The rich header is
\* raw bytes: double words and up to three more bytes.
ASSUME FilesAssumption ==
    /\ \A f \in Files :
         /\ f.isPE \in BOOLEAN /\ f.size \in Nat /\ f.e_lfanew \in Nat
         /\ f.magic \in {"MZ", "ZM", "other"}
         /\ f.addressOfEntryPoint \in Nat /\ f.stub \in Nat
         /\ f.sections \in Seq(RawSections)
         /\ f.overlaySize \in Nat /\ f.overlayEntropy \in Nat
         /\ f.imports \in Seq([name : RawNames, entries : Seq(Entries)])
         /\ f.exports \in Seq([name : RawNames, ordinal : Nat])
         /\ f.directories \in Seq([rva : Nat, size : Nat])
         /\ f.hasRich \in BOOLEAN /\ f.dwords \in Seq(Nat) /\ f.moreBytes \in 0..3
         /\ f.relocs \in BOOLEAN /\ f.configuration \in BOOLEAN /\ f.dynamicRelocs \in Nat
    /\ DOMAIN Lower = RawNames /\ DOMAIN Trimmed = RawNames /\ DOMAIN Cut = RawNames
    /\ EMPTY \in RawNames /\ NumDirectoryNames \in Nat
    /\ IsFiniteSet(DOMAIN Characteristics)
    /\ {"MEM_READ", "MEM_WRITE", "MEM_EXECUTE"} \subseteq DOMAIN Characteristics
    /\ NONE \notin Nat /\ NONE \notin Files

-----------------------------------------------------------------------------
(* The headers *)

\* The double word of the file at an offset.
DoubleWordAt(f, offset) ==
    IF offset = f.e_lfanew + 40 THEN f.addressOfEntryPoint ELSE f.stub

\* Mutant: the constructor does not set the entry point of a short file.
EntrypointUnset(f) == IF f.size > 104 THEN DoubleWordAt(f, 104) ELSE NONE

\* The entry point is read at the fixed offset 0x68, not where LIEF has it.
Entrypoint(f) == IF f.size > 104 THEN DoubleWordAt(f, 104) ELSE 0

DOSHeaderSize == 64

\* The DOS header is copied from the bytes, and zeroed again if they are not of a
\* file as the original's parser accepts it.
HasDOSHeader(f) == f.size >= DOSHeaderSize /\ f.magic = "MZ" /\ f.e_lfanew <= f.size

\* Of the fields only the machine is looked at again.
CoffHeader(f) == [Machine |-> f.machine, fields |-> f.coff]

OptionalHeader(f) == f.optional

\* machine_type_encoding.cpp: types without a code share that of the first.
MachineCode(machine) ==
    IF machine \in ToSet(MachineTypes)
    THEN (CHOOSE i \in DOMAIN MachineTypes : MachineTypes[i] = machine) - 1
    ELSE 0

-----------------------------------------------------------------------------
(* Sections *)

\* Ratios are pairs of a numerator and a denominator that is not zero.
Ratio(a, b) == IF b = 0 THEN <<0, 1>> ELSE <<a, b>>

ListSections(f) ==
    [k \in DOMAIN f.sections |-> LET s == f.sections[k] IN
        [name |-> Trimmed[s.raw], sizeRaw |-> s.sizeRaw, vsize |-> s.vsize,
         vaddr |-> s.vaddr, entropy |-> s.entropy,
         sizeRatio |-> Ratio(s.sizeRaw, f.size), vsizeRatio |-> Ratio(s.sizeRaw, s.vsize),
         characteristics |-> s.characteristics]]

ContainsRVA(s, rva) == rva >= s.vaddr /\ rva < s.vaddr + Max({s.vsize, s.sizeRaw})

\* A flag of several bits, as those of alignment, is there when any of its bits is.
NamesByValue(bits) == { c \in DOMAIN Characteristics : Characteristics[c] \cap bits # {} }

Has(s, c) == c \in NamesByValue(s.characteristics)

-----------------------------------------------------------------------------
(* Imports, exports, data directories, rich header *)

ImportFunction(e) ==
    IF e.isOrdinal THEN [name |-> EMPTY, ordinal |-> e.ordinal]
    ELSE [name |-> e.name, ordinal |-> 0]

ListImports(f) ==
    [k \in DOMAIN f.imports |->
        [dllName |-> Lower[f.imports[k].name],
         functions |-> [i \in DOMAIN f.imports[k].entries |->
                          ImportFunction(f.imports[k].entries[i])]]]

\* With their indices, which count from 0; those without a name are left out.
ListDirectories(f) ==
    [k \in 1..Min({Len(f.directories), NumDirectoryNames}) |->
        [index |-> k - 1, virtualAddress |-> f.directories[k].rva,
         size |-> f.directories[k].size]]

HasImportDirectory(f) == f.isPE /\ f.imports # <<>>
HasExportDirectory(f) == f.isPE /\ f.exports # <<>>
HasDynamicRelocs(f) == f.isPE /\ f.configuration /\ f.dynamicRelocs > 0

RichHeaderSize(f) == 4 * Len(f.dwords) + f.moreBytes
HasRichHeader(f) == f.isPE /\ f.hasRich /\ RichHeaderSize(f) > 0
=============================================================================
