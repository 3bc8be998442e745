---------------------------- MODULE MCPEFeatures -----------------------------
(* TLC instance of PEFeatures: files of up to three sections that overlap,    *)
(* are empty or lie apart from the entry point, in every order, and files     *)
(* with the other parts.  One function has the name of another's ordinal, one *)
(* has neither, and names differ in case only.  What LIEF takes for a PE file *)
(* need not have the DOS header that PEFile asks for.                         *)
EXTENDS PEFeatures

CONSTANTS text, TEXT, textNul, dll, DLL, ordinal0, ordinal1, long, cut

MCRawNames == {text, TEXT, textNul, dll, DLL, ordinal1, long, EMPTY}
MCLower == [r \in MCRawNames |-> CASE r = TEXT -> text [] r = DLL -> dll [] OTHER -> r]
MCTrimmed == [r \in MCRawNames |-> IF r = textNul THEN EMPTY ELSE MCLower[r]]
MCCut == [r \in MCRawNames |-> IF r = long THEN cut ELSE r]
MCOrdinalName == [n \in 0..1 |-> IF n = 0 THEN ordinal0 ELSE ordinal1]
MCCharacteristics == [MEM_READ |-> {1}, MEM_WRITE |-> {2}, MEM_EXECUTE |-> {3},
                      ALIGN_1BYTES |-> {4}, ALIGN_4BYTES |-> {4, 5}]
MCMachineTypes == <<"unknown", "i386", "amd64">>

Sec(raw, sizeRaw, vsize, vaddr, entropy, bits) ==
    [raw |-> raw, sizeRaw |-> sizeRaw, vsize |-> vsize, vaddr |-> vaddr,
     entropy |-> entropy, characteristics |-> bits]

SomeSections ==
    { Sec(text, 2, 1, 1, 1, {1, 3, 4}),
      Sec(TEXT, 1, 2, 2, 2, {1, 2}),
      Sec(textNul, 0, 0, 3, 0, {2, 3, 5}) }

NotPE ==
    [isPE |-> FALSE, size |-> 200, magic |-> "other", e_lfanew |-> 64,
     addressOfEntryPoint |-> 1, stub |-> 0, coff |-> 1, optional |-> 1, dosHeader |-> 1, machine |-> "i386",
     sections |-> <<>>, overlaySize |-> 0, overlayEntropy |-> 2,
     imports |-> <<>>, exports |-> <<>>, directories |-> <<>>,
     hasRich |-> FALSE, dwords |-> <<>>, moreBytes |-> 0,
     relocs |-> FALSE, configuration |-> FALSE, dynamicRelocs |-> 0]

PE == [NotPE EXCEPT !.isPE = TRUE, !.magic = "MZ", !.coff = 2, !.optional = 2, !.dosHeader = 2]

Entry(isOrdinal, n, name) == [isOrdinal |-> isOrdinal, ordinal |-> n, name |-> name]

Orders == { s \in UNION { [1..n -> SomeSections] : n \in 0..3 } : IsInjective(s) }

SectionFiles ==
    { [PE EXCEPT !.addressOfEntryPoint = aep, !.sections = s] : aep \in {1, 2, 4}, s \in Orders }
    \cup { [PE EXCEPT !.e_lfanew = 128, !.overlaySize = 100, !.sections = s] :
             s \in { t \in Orders : Len(t) = 2 } }

PartFiles ==
    { [NotPE EXCEPT !.imports = << [name |-> dll, entries |-> <<>>] >>],
      [PE EXCEPT !.size = 60, !.machine = "arm"],
      [PE EXCEPT !.magic = "ZM", !.machine = "amd64",
         !.imports = << [name |-> DLL, entries |-> << Entry(TRUE, 1, text), Entry(FALSE, 0, ordinal1) >>],
                        [name |-> dll, entries |-> << Entry(FALSE, 1, EMPTY) >>] >>,
         !.directories = << [rva |-> 1, size |-> 2] >>, !.relocs = TRUE],
      [PE EXCEPT !.e_lfanew = 300,
         !.exports = << [name |-> long, ordinal |-> 0], [name |-> EMPTY, ordinal |-> 1] >>,
         !.imports = << [name |-> text, entries |-> <<>>] >>,
         !.directories = [k \in 1..4 |-> [rva |-> k, size |-> 2 * k]],
         !.configuration = TRUE, !.dynamicRelocs = 1,
         !.hasRich = TRUE, !.moreBytes = 3, !.dwords = <<1>>],
      [PE EXCEPT !.hasRich = TRUE, !.dwords = <<5, 1, 6, 0, 5, 2, 7>>, !.dynamicRelocs = 1],
      [PE EXCEPT !.hasRich = TRUE, !.dwords = [k \in 1..8 |-> k], !.configuration = TRUE] }

MCFiles == SectionFiles \cup PartFiles
=============================================================================
