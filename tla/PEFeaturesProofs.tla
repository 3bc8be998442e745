--------------------------- MODULE PEFeaturesProofs ---------------------------
(***************************************************************************)
(* Proofs about PEFeatures, and with it SectionInfo and PEFile.  The       *)
(* inductive invariant Inv says for each step of a run what the loops have *)
(* gone through: the counts, extremes and indices are those of the first   *)
(* sections, the hashers hold the names of the first libraries, functions, *)
(* exports or pairs, and the regions written before are those of the file. *)
(* At the end of the run they are the features of the file, which is the   *)
(* refinement of HeldVector.                                               *)
(***************************************************************************)
EXTENDS PEFeatures, FoldTheorems

-----------------------------------------------------------------------------
(* The inductive invariant *)

Secs == peFile.sections

Parsed(f) ==
    IF f.isPE
    THEN [isPE |-> TRUE, entrypointRVA |-> Entrypoint(f), sections |-> ListSections(f)]
    ELSE Info!NotParsed

Steps == {"idle", "header", "section", "imports", "library", "function", "exports",
          "export", "datadirectories", "richheader", "pair", "done"}

\* The steps after the sections.
Later == Steps \ {"idle", "header", "section"}

\* What is held of the file is what the constructor of PEFile made of it.
FileRead ==
    /\ file \in Files \cup {NONE}
    /\ pc = "idle" <=> file = NONE
    /\ peFile = IF file = NONE THEN Info!NotParsed ELSE Parsed(file)

\* How far SectionInfo is at each step.
SectionStep ==
    /\ pc \in Steps
    /\ pc = "idle" => sectionPc = "idle"
    /\ pc = "header" => sectionPc = "parsed"
    /\ pc = "section" => sectionPc \in {"parsed", "loop"}
    /\ pc \in Later => sectionPc = "done"
    /\ sectionPc = "loop" => peFile.isPE

NextInside ==
    /\ next \in 1..(Len(Secs) + 1)
    /\ sectionPc \in {"idle", "parsed"} => next = 1
    /\ sectionPc = "done" => next = Len(Secs) + 1

\* The first n of the sections l: those of zero size, and so on.
ZeroSize(l, n) == { k \in 1..n : l[k].sizeRaw = 0 }
EmptyName(l, n) == { k \in 1..n : l[k].name = EMPTY }
ReadableAndExecutable(l, n) ==
    { k \in 1..n : Has(l[k], "MEM_READ") /\ Has(l[k], "MEM_EXECUTE") }
Writable(l, n) == { k \in 1..n : Has(l[k], "MEM_WRITE") }
Executable(l, n) == { k \in 1..n : Has(l[k], "MEM_EXECUTE") }
Holding(l, rva, n) == { k \in 1..n : ContainsRVA(l[k], rva) }

CountsKept ==
    counts = [zeroSize |-> Cardinality(ZeroSize(Secs, next - 1)),
              emptyName |-> Cardinality(EmptyName(Secs, next - 1)),
              readableAndExecutable |-> Cardinality(ReadableAndExecutable(Secs, next - 1)),
              writable |-> Cardinality(Writable(Secs, next - 1))]

FirstOf(S) == IF S = {} THEN NONE ELSE Min(S)
LastOf(S) == IF S = {} THEN NONE ELSE Max(S)

EntriesKept ==
    /\ pPotentialEntrySection = FirstOf(Executable(Secs, next - 1))
    /\ sectionPc # "done" => pEntrySection = LastOf(Holding(Secs, peFile.entrypointRVA, next - 1))

\* Of all sections, the last that holds the entry point, or the first executable one.
Chosen(l, rva) ==
    IF Holding(l, rva, Len(l)) # {} THEN Max(Holding(l, rva, Len(l)))
    ELSE FirstOf(Executable(l, Len(l)))

\* The section of the entry point, once the pass has ended.
EntryFound ==
    sectionPc = "done" =>
        LET chosen == Chosen(Secs, peFile.entrypointRVA)
        IN  /\ pEntrySection = chosen
            /\ hashers.entryName = IF chosen = NONE THEN <<>> ELSE <<Secs[chosen].name>>

FlagNames(s) == SetToSeq({s.name} \X NamesByValue(s.characteristics))

\* What the hashers are given for the first n sections.
Sizes(l, n) == [ k \in 1..n |-> <<l[k].name, l[k].sizeRaw>> ]
VSizes(l, n) == [ k \in 1..n |-> <<l[k].name, l[k].vsize>> ]
Entropies(l, n) == [ k \in 1..n |-> <<l[k].name, l[k].entropy>> ]
Flags(l, n) == FlattenSeq([ k \in 1..n |-> FlagNames(l[k]) ])

HashersKept ==
    /\ hashers = [size |-> Sizes(Secs, next - 1), vsize |-> VSizes(Secs, next - 1),
                  entropy |-> Entropies(Secs, next - 1),
                  characteristics |-> Flags(Secs, next - 1),
                  entryName |-> hashers.entryName]
    /\ sectionPc # "done" => hashers.entryName = <<>>

Ratios == Nat \X (Nat \ {0})
Extremes == [Info!Measures -> [{"max", "min"} -> Ratios]]

\* The ratios seen among the first n of the sections l of a file.
Seen(l, f, m, n) == { (Info!OfSection(l[k]))[m] : k \in 1..n }
                        \cup {(Info!OfOverlay(f))[m]}

\* A ratio of those seen, or zero, that none seen exceeds.
AtLeast(max, seen) ==
    /\ max \in seen \cup {Info!ZeroRatio}
    /\ \A r \in seen : ~Info!Exceeds(r, max)

ExtremesKept ==
    /\ extremes \in Extremes
    /\ \A m \in Info!Measures : extremes[m].min[1] = 0
    /\ sectionPc \in {"idle", "parsed"} => extremes = Info!NoExtremes
    /\ sectionPc = "loop" =>
           \A m \in Info!Measures :
               AtLeast(extremes[m].max, Seen(Secs, file, m, next - 1))

-----------------------------------------------------------------------------
(* The names the other hashers were given *)

LoopsInside ==
    /\ lib \in Nat /\ func \in Nat /\ numFunctions \in Nat
    /\ pc \in {"library", "function"} => HasImportDirectory(file)
    /\ pc = "library" => lib \in 1..(Len(Libraries) + 1)
    /\ pc = "function" => /\ lib \in 1..Len(Libraries)
                          /\ func \in 1..(Len(Libraries[lib].functions) + 1)
    /\ pc = "export" => HasExportDirectory(file) /\ func \in 1..(Len(file.exports) + 1)
    /\ pc = "pair" => /\ HasRichHeader(file) /\ Len(file.dwords) >= 2
                      /\ func \in 1..(NumPairs(file) + 1)

\* The names of the first n functions of a library, and of all functions of the
\* first n libraries.
FunctionNames(b, n) == [ i \in 1..n |-> << <<b.dllName, NameOf(b.functions[i])>>, 1 >> ]
NamesOf(libs, n) ==
    FlattenSeq([ k \in 1..n |-> FunctionNames(libs[k], Len(libs[k].functions)) ])

FirstLibraries(libs, n) == [ k \in 1..n |-> <<libs[k].dllName, 1>> ]
FirstExports(f, n) == [ k \in 1..n |-> <<NameOf(f.exports[k]), 1>> ]
FirstPairs(f, n) == [ k \in 1..n |-> <<f.dwords[2 * k - 1], f.dwords[2 * k]>> ]

HasherNames == {"libraries", "functions", "exports", "pairs"}

\* All are hashers.
IsHash(h) == h = Hash(h.alternateSign, h.given)
AreHashes(F) == F = [ h \in HasherNames |-> F[h] ] /\ \A h \in HasherNames : IsHash(F[h])

NamesGiven ==
    /\ AreHashes(fh)
    /\ fh.exports.alternateSign = TRUE /\ fh.pairs.alternateSign = TRUE
    /\ pc = "library" => /\ fh.libraries = Hash(FALSE, FirstLibraries(Libraries, lib - 1))
                         /\ fh.functions = Hash(FALSE, NamesOf(Libraries, lib - 1))
    /\ pc = "function" => /\ fh.libraries = Hash(FALSE, FirstLibraries(Libraries, lib))
                          /\ fh.functions = Hash(FALSE, NamesOf(Libraries, lib - 1)
                                                          \o FunctionNames(Libraries[lib], func - 1))
    /\ pc \in {"library", "function"} => numFunctions = Len(fh.functions.given)
    /\ pc = "export" => fh.exports = Hash(TRUE, FirstExports(file, func - 1))
    /\ pc = "pair" => fh.pairs = Hash(TRUE, FirstPairs(file, func - 1))

\* The regions written are those of the file.
RegionsWritten ==
    /\ DOMAIN output = Regions
    /\ pc \notin {"idle", "header"} => output["header"] = Features(file)["header"]
    /\ pc \in Later =>
           /\ output["section"] = Features(file)["section"]
           /\ output["sectionHashes"] = Features(file)["sectionHashes"]
    /\ pc \in Later \ {"imports", "library", "function"} =>
           output["imports"] = Features(file)["imports"]
    /\ pc \in {"datadirectories", "richheader", "pair", "done"} =>
           output["exports"] = Features(file)["exports"]
    /\ pc \in {"richheader", "pair", "done"} =>
           /\ output["datadirectories"] = Features(file)["datadirectories"]
           /\ output["relocations"] = Features(file)["relocations"]
    /\ pc = "pair" =>
           output["richheader"] = [pairs |-> Max({0, NumPairs(file) - 3}), hashed |-> Zero]
    /\ pc = "done" => output["richheader"] = Features(file)["richheader"]

SectionsInv ==
    /\ FileRead /\ SectionStep /\ NextInside /\ CountsKept /\ EntriesKept /\ EntryFound
    /\ HashersKept /\ ExtremesKept

OthersInv == LoopsInside /\ NamesGiven /\ RegionsWritten

Inv == SectionsInv /\ OthersInv

-----------------------------------------------------------------------------
(* Least and greatest of some numbers, and how many there are *)

\* The greatest of finitely many natural numbers is one of them.
LEMMA MaxIs ==
    ASSUME NEW n \in Nat, NEW S \in SUBSET (1..n), NEW x \in S, \A y \in S : y <= x
    PROVE  Max(S) = x
<1>1. \A y \in S : x >= y
  OBVIOUS
<1>2. Max(S) \in S /\ \A y \in S : Max(S) >= y
  BY <1>1 DEF Max
<1> DEFINE m == Max(S)
<1> HIDE DEF m
<1>3. m \in S /\ m >= x
  BY <1>2 DEF m
<1>4. m \in Nat /\ x \in Nat
  BY <1>3
<1>5. x >= m
  BY <1>1, <1>3
<1>6. m = x
  BY <1>3, <1>4, <1>5
<1> QED
  BY <1>6 DEF m

\* So is the least.
LEMMA MinIs ==
    ASSUME NEW n \in Nat, NEW S \in SUBSET (1..n), NEW x \in S, \A y \in S : x <= y
    PROVE  Min(S) = x
<1>1. \A y \in S : x =< y
  OBVIOUS
<1>2. Min(S) \in S /\ \A y \in S : Min(S) =< y
  BY <1>1 DEF Min
<1> DEFINE m == Min(S)
<1> HIDE DEF m
<1>3. m \in S /\ m =< x
  BY <1>2 DEF m
<1>4. m \in Nat /\ x \in Nat
  BY <1>3
<1>5. x =< m
  BY <1>1, <1>3
<1>6. m = x
  BY <1>3, <1>4, <1>5
<1> QED
  BY <1>6 DEF m

\* The least of numbers from 1 to n exists.
LEMMA MinExists ==
    ASSUME NEW n \in Nat, NEW S \in SUBSET (1..n), S # {}
    PROVE  Min(S) \in S /\ \A y \in S : Min(S) <= y
<1>1. S \in SUBSET Nat
  OBVIOUS
<1>2. \E m \in S : \A k \in S : m =< k
  BY <1>1, LeastNumber
<1> QED
  BY <1>2 DEF Min

\* The greatest exists too, as its distance to n is the least.
LEMMA MaxExists ==
    ASSUME NEW n \in Nat, NEW S \in SUBSET (1..n), S # {}
    PROVE  Max(S) \in S /\ \A y \in S : y <= Max(S)
<1> DEFINE D == { n - y : y \in S }
<1>0. \A y \in S : n - y \in Nat
  OBVIOUS
<1>1. D \in SUBSET Nat /\ D # {}
  BY <1>0
<1>2. PICK m \in D : \A k \in D : m <= k
  BY <1>1, LeastNumber
<1>3. PICK x \in S : m = n - x
  BY <1>2
<1>4. \A y \in S : m <= n - y
  BY <1>2
<1>5. \A y \in S : y <= x
  BY <1>3, <1>4
<1>6. Max(S) = x
  BY <1>5, MaxIs
<1> QED
  BY <1>5, <1>6

\* One number more among the first.
LEMMA OneMore ==
    ASSUME NEW n \in Nat, NEW S, S \subseteq 1..n
    PROVE  /\ Cardinality(S) \in 0..n
           /\ Cardinality(S \cup {n + 1}) = Cardinality(S) + 1
<1>1. IsFiniteSet(1..n) /\ Cardinality(1..n) = n
  BY FS_Interval
<1>2. IsFiniteSet(S) /\ Cardinality(S) <= n /\ Cardinality(S) \in Nat
  BY <1>1, FS_Subset, FS_CardinalityType
<1>3. n + 1 \notin S
  OBVIOUS
<1>4. Cardinality(S \cup {n + 1}) = Cardinality(S) + 1
  BY <1>2, <1>3, FS_AddElement
<1> QED
  BY <1>2, <1>4

-----------------------------------------------------------------------------
(* The sections of a file *)

Bits == UNION { Characteristics[c] : c \in DOMAIN Characteristics }

SectionRecords ==
    [name : { Trimmed[r] : r \in RawNames }, sizeRaw : Nat, vsize : Nat, vaddr : Nat,
     entropy : Nat, sizeRatio : Ratios, vsizeRatio : Ratios, characteristics : SUBSET Bits]

\* Ratios have a denominator that is not zero.
LEMMA RatioType ==
    ASSUME NEW a \in Nat, NEW b \in Nat
    PROVE  Ratio(a, b) \in Ratios
BY DEF Ratio, Ratios

\* PEFile has the sections of the file in their order.
LEMMA SectionsListed ==
    ASSUME NEW f \in Files
    PROVE  /\ ListSections(f) \in Seq(SectionRecords)
           /\ Len(ListSections(f)) = Len(f.sections)
           /\ DOMAIN f.sections = 1..Len(f.sections)
           /\ Len(f.sections) \in Nat
           /\ \A k \in 1..Len(f.sections) :
                 /\ f.sections[k] \in RawSections
                 /\ ListSections(f)[k] \in SectionRecords
                 /\ ListSections(f)[k] =
                       [name |-> Trimmed[f.sections[k].raw], sizeRaw |-> f.sections[k].sizeRaw,
                        vsize |-> f.sections[k].vsize, vaddr |-> f.sections[k].vaddr,
                        entropy |-> f.sections[k].entropy,
                        sizeRatio |-> Ratio(f.sections[k].sizeRaw, f.size),
                        vsizeRatio |-> Ratio(f.sections[k].sizeRaw, f.sections[k].vsize),
                        characteristics |-> f.sections[k].characteristics]
<1> DEFINE l == ListSections(f)
           n == Len(f.sections)
<1>1. f.sections \in Seq(RawSections) /\ f.size \in Nat
  BY FilesAssumption
<1>2. DOMAIN f.sections = 1..n /\ n \in Nat /\ \A k \in 1..n : f.sections[k] \in RawSections
  BY <1>1
<1>3. DOMAIN l = 1..n
  BY <1>2 DEF ListSections
<1>4. ASSUME NEW k \in 1..n
      PROVE  /\ l[k] = [name |-> Trimmed[f.sections[k].raw], sizeRaw |-> f.sections[k].sizeRaw,
                        vsize |-> f.sections[k].vsize, vaddr |-> f.sections[k].vaddr,
                        entropy |-> f.sections[k].entropy,
                        sizeRatio |-> Ratio(f.sections[k].sizeRaw, f.size),
                        vsizeRatio |-> Ratio(f.sections[k].sizeRaw, f.sections[k].vsize),
                        characteristics |-> f.sections[k].characteristics]
             /\ l[k] \in SectionRecords
  <2>1. l[k] = [name |-> Trimmed[f.sections[k].raw], sizeRaw |-> f.sections[k].sizeRaw,
                        vsize |-> f.sections[k].vsize, vaddr |-> f.sections[k].vaddr,
                        entropy |-> f.sections[k].entropy,
                        sizeRatio |-> Ratio(f.sections[k].sizeRaw, f.size),
                        vsizeRatio |-> Ratio(f.sections[k].sizeRaw, f.sections[k].vsize),
                        characteristics |-> f.sections[k].characteristics]
    BY <1>2 DEF ListSections
  <2>2. f.sections[k] \in RawSections
    BY <1>2
  <2>3. /\ f.sections[k].raw \in RawNames /\ f.sections[k].sizeRaw \in Nat
        /\ f.sections[k].vsize \in Nat /\ f.sections[k].vaddr \in Nat
        /\ f.sections[k].entropy \in Nat /\ f.sections[k].characteristics \in SUBSET Bits
    BY <2>2 DEF RawSections, Bits
  <2>4. /\ Ratio(f.sections[k].sizeRaw, f.size) \in Ratios
        /\ Ratio(f.sections[k].sizeRaw, f.sections[k].vsize) \in Ratios
    BY <1>1, <2>3, RatioType
  <2> QED
    BY <2>1, <2>3, <2>4 DEF SectionRecords
<1> HIDE DEF l, n
<1>5. l = [k \in 1..n |-> l[k]]
  BY <1>3 DEF l, ListSections, n
<1>6. l \in [1..n -> SectionRecords]
  BY <1>4, <1>5
<1>7. l \in Seq(SectionRecords) /\ Len(l) = n
  BY <1>2, <1>3, <1>6
<1> QED
  BY <1>2, <1>4, <1>7 DEF l, n

\* The fields of a section are those of the file's.
LEMMA SectionFields ==
    ASSUME NEW f \in Files
    PROVE  \A k \in 1..Len(f.sections) :
               /\ ListSections(f)[k].name = Trimmed[f.sections[k].raw]
               /\ ListSections(f)[k].sizeRaw = f.sections[k].sizeRaw
               /\ ListSections(f)[k].vsize = f.sections[k].vsize
               /\ ListSections(f)[k].vaddr = f.sections[k].vaddr
               /\ ListSections(f)[k].entropy = f.sections[k].entropy
               /\ ListSections(f)[k].characteristics = f.sections[k].characteristics
<1>1. TAKE k \in 1..Len(f.sections)
<1> DEFINE s == ListSections(f)[k]
<1>2. s = [name |-> Trimmed[f.sections[k].raw], sizeRaw |-> f.sections[k].sizeRaw,
           vsize |-> f.sections[k].vsize, vaddr |-> f.sections[k].vaddr,
           entropy |-> f.sections[k].entropy,
           sizeRatio |-> Ratio(f.sections[k].sizeRaw, f.size),
           vsizeRatio |-> Ratio(f.sections[k].sizeRaw, f.sections[k].vsize),
           characteristics |-> f.sections[k].characteristics]
  BY SectionsListed
<1> HIDE DEF s
<1>3. /\ s.name = Trimmed[f.sections[k].raw] /\ s.sizeRaw = f.sections[k].sizeRaw
      /\ s.vsize = f.sections[k].vsize /\ s.vaddr = f.sections[k].vaddr
      /\ s.entropy = f.sections[k].entropy
      /\ s.characteristics = f.sections[k].characteristics
  BY <1>2
<1> QED
  BY <1>3 DEF s

\* The entry point is read from the file, or zero.
LEMMA EntrypointType == ASSUME NEW f \in Files PROVE Entrypoint(f) \in Nat /\ f.isPE \in BOOLEAN
BY FilesAssumption DEF Entrypoint, DoubleWordAt

\* What PEFile holds has the types of its fields, in a run and between runs.
LEMMA SecsAre ==
    ASSUME FileRead
    PROVE  /\ Secs \in Seq(SectionRecords) /\ Len(Secs) \in Nat
           /\ \A k \in 1..Len(Secs) : Secs[k] \in SectionRecords
           /\ peFile.isPE \in BOOLEAN /\ peFile.entrypointRVA \in Nat
           /\ ~peFile.isPE => Len(Secs) = 0
           /\ file # NONE => file \in Files /\ peFile = Parsed(file)
<1>1. CASE file = NONE
  <2>1. peFile = [isPE |-> FALSE, entrypointRVA |-> 0, sections |-> <<>>]
    BY <1>1 DEF FileRead, Info!NotParsed
  <2>2. Secs = <<>>
    BY <2>1 DEF Secs
  <2> QED
    BY <1>1, <2>1, <2>2
<1>2. CASE file # NONE
  <2>1. file \in Files /\ peFile = Parsed(file)
    BY <1>2 DEF FileRead
  <2>2. CASE file.isPE
    <3>1. peFile = [isPE |-> TRUE, entrypointRVA |-> Entrypoint(file),
                    sections |-> ListSections(file)]
      BY <2>1, <2>2 DEF Parsed
    <3>2. Secs = ListSections(file)
      BY <3>1 DEF Secs
    <3>3. Entrypoint(file) \in Nat
      BY <2>1, EntrypointType
    <3>4. /\ ListSections(file) \in Seq(SectionRecords)
          /\ \A k \in 1..Len(ListSections(file)) : ListSections(file)[k] \in SectionRecords
      BY <2>1, SectionsListed
    <3> QED
      BY <2>1, <3>1, <3>2, <3>3, <3>4
  <2>3. CASE ~file.isPE
    <3>1. peFile = [isPE |-> FALSE, entrypointRVA |-> 0, sections |-> <<>>]
      BY <2>1, <2>3 DEF Parsed, Info!NotParsed
    <3>2. Secs = <<>>
      BY <3>1 DEF Secs
    <3> QED
      BY <2>1, <3>1, <3>2
  <2> QED
    BY <2>2, <2>3
<1> QED
  BY <1>1, <1>2

\* Of the first n + 1 sections there is one more of a kind, or not.
LEMMA OneSectionMore ==
    ASSUME NEW l, NEW rva, NEW n \in Nat
    PROVE  /\ ZeroSize(l, n + 1) = IF l[n + 1].sizeRaw = 0
                                THEN ZeroSize(l, n) \cup {n + 1} ELSE ZeroSize(l, n)
           /\ EmptyName(l, n + 1) = IF l[n + 1].name = EMPTY
                                 THEN EmptyName(l, n) \cup {n + 1} ELSE EmptyName(l, n)
           /\ ReadableAndExecutable(l, n + 1)
                  = IF Has(l[n + 1], "MEM_EXECUTE") /\ Has(l[n + 1], "MEM_READ")
                    THEN ReadableAndExecutable(l, n) \cup {n + 1} ELSE ReadableAndExecutable(l, n)
           /\ Writable(l, n + 1) = IF Has(l[n + 1], "MEM_WRITE")
                                THEN Writable(l, n) \cup {n + 1} ELSE Writable(l, n)
           /\ Executable(l, n + 1) = IF Has(l[n + 1], "MEM_EXECUTE")
                                  THEN Executable(l, n) \cup {n + 1} ELSE Executable(l, n)
           /\ Holding(l, rva, n + 1) = IF ContainsRVA(l[n + 1], rva)
                               THEN Holding(l, rva, n) \cup {n + 1} ELSE Holding(l, rva, n)
<1>1. \A k : k \in 1..(n + 1) <=> (k \in 1..n \/ k = n + 1)
  OBVIOUS
<1> QED
  BY <1>1 DEF ZeroSize, EmptyName, ReadableAndExecutable, Writable, Executable, Holding

\* Each kind is among the first n.
LEMMA KindsInside ==
    ASSUME NEW l, NEW rva, NEW n \in Nat
    PROVE  /\ ZeroSize(l, n) \subseteq 1..n /\ EmptyName(l, n) \subseteq 1..n
           /\ ReadableAndExecutable(l, n) \subseteq 1..n /\ Writable(l, n) \subseteq 1..n
           /\ Executable(l, n) \subseteq 1..n /\ Holding(l, rva, n) \subseteq 1..n
BY DEF ZeroSize, EmptyName, ReadableAndExecutable, Writable, Executable, Holding

\* No section is the first or the last of none.
LEMMA NoKinds ==
    ASSUME NEW l, NEW rva
    PROVE  /\ ZeroSize(l, 0) = {} /\ EmptyName(l, 0) = {} /\ ReadableAndExecutable(l, 0) = {}
           /\ Writable(l, 0) = {} /\ Executable(l, 0) = {} /\ Holding(l, rva, 0) = {}
BY DEF ZeroSize, EmptyName, ReadableAndExecutable, Writable, Executable, Holding

\* How the counts, the first executable section and the last that holds the
\* entry point follow the loop of SectionInfo::start.
LEMMA CountsMore ==
    ASSUME NEW l, NEW rva, NEW n \in Nat
    PROVE  LET s == l[n + 1]
           IN  /\ Cardinality(ZeroSize(l, n + 1))
                      = Cardinality(ZeroSize(l, n)) + Info!One(s.sizeRaw = 0)
               /\ Cardinality(EmptyName(l, n + 1))
                      = Cardinality(EmptyName(l, n)) + Info!One(s.name = EMPTY)
               /\ Cardinality(ReadableAndExecutable(l, n + 1))
                      = Cardinality(ReadableAndExecutable(l, n))
                            + Info!One(Has(s, "MEM_EXECUTE") /\ Has(s, "MEM_READ"))
               /\ Cardinality(Writable(l, n + 1))
                      = Cardinality(Writable(l, n)) + Info!One(Has(s, "MEM_WRITE"))
<1> DEFINE s == l[n + 1]
<1>1. Cardinality(ZeroSize(l, n + 1)) = Cardinality(ZeroSize(l, n)) + Info!One(s.sizeRaw = 0)
  <2>1. ZeroSize(l, n + 1) = IF s.sizeRaw = 0 THEN ZeroSize(l, n) \cup {n + 1} ELSE ZeroSize(l, n)
    BY OneSectionMore
  <2>0. ZeroSize(l, n) \subseteq 1..n
    BY KindsInside
  <2>2. /\ Cardinality(ZeroSize(l, n)) \in 0..n
        /\ Cardinality(ZeroSize(l, n) \cup {n + 1}) = Cardinality(ZeroSize(l, n)) + 1
    BY <2>0, OneMore
  <2> HIDE DEF s
  <2>3. CASE s.sizeRaw = 0
    BY <2>1, <2>2, <2>3 DEF Info!One
  <2>4. CASE ~(s.sizeRaw = 0)
    BY <2>1, <2>2, <2>4 DEF Info!One
  <2> QED
    BY <2>3, <2>4
<1>2. Cardinality(EmptyName(l, n + 1)) = Cardinality(EmptyName(l, n)) + Info!One(s.name = EMPTY)
  <2>1. EmptyName(l, n + 1)
           = IF s.name = EMPTY THEN EmptyName(l, n) \cup {n + 1} ELSE EmptyName(l, n)
    BY OneSectionMore
  <2>0. EmptyName(l, n) \subseteq 1..n
    BY KindsInside
  <2>2. /\ Cardinality(EmptyName(l, n)) \in 0..n
        /\ Cardinality(EmptyName(l, n) \cup {n + 1}) = Cardinality(EmptyName(l, n)) + 1
    BY <2>0, OneMore
  <2> HIDE DEF s
  <2>3. CASE s.name = EMPTY
    BY <2>1, <2>2, <2>3 DEF Info!One
  <2>4. CASE ~(s.name = EMPTY)
    BY <2>1, <2>2, <2>4 DEF Info!One
  <2> QED
    BY <2>3, <2>4
<1>3. Cardinality(ReadableAndExecutable(l, n + 1))
          = Cardinality(ReadableAndExecutable(l, n))
                + Info!One(Has(s, "MEM_EXECUTE") /\ Has(s, "MEM_READ"))
  <2>1. ReadableAndExecutable(l, n + 1)
           = IF Has(s, "MEM_EXECUTE") /\ Has(s, "MEM_READ")
             THEN ReadableAndExecutable(l, n) \cup {n + 1} ELSE ReadableAndExecutable(l, n)
    BY OneSectionMore
  <2>0. ReadableAndExecutable(l, n) \subseteq 1..n
    BY KindsInside
  <2>2. /\ Cardinality(ReadableAndExecutable(l, n)) \in 0..n
        /\ Cardinality(ReadableAndExecutable(l, n) \cup {n + 1})
               = Cardinality(ReadableAndExecutable(l, n)) + 1
    BY <2>0, OneMore
  <2> HIDE DEF s
  <2>3. CASE Has(s, "MEM_EXECUTE") /\ Has(s, "MEM_READ")
    BY <2>1, <2>2, <2>3 DEF Info!One
  <2>4. CASE ~(Has(s, "MEM_EXECUTE") /\ Has(s, "MEM_READ"))
    BY <2>1, <2>2, <2>4 DEF Info!One
  <2> QED
    BY <2>3, <2>4
<1>4. Cardinality(Writable(l, n + 1)) = Cardinality(Writable(l, n)) + Info!One(Has(s, "MEM_WRITE"))
  <2>1. Writable(l, n + 1)
           = IF Has(s, "MEM_WRITE") THEN Writable(l, n) \cup {n + 1} ELSE Writable(l, n)
    BY OneSectionMore
  <2>0. Writable(l, n) \subseteq 1..n
    BY KindsInside
  <2>2. /\ Cardinality(Writable(l, n)) \in 0..n
        /\ Cardinality(Writable(l, n) \cup {n + 1}) = Cardinality(Writable(l, n)) + 1
    BY <2>0, OneMore
  <2> HIDE DEF s
  <2>3. CASE Has(s, "MEM_WRITE")
    BY <2>1, <2>2, <2>3 DEF Info!One
  <2>4. CASE ~(Has(s, "MEM_WRITE"))
    BY <2>1, <2>2, <2>4 DEF Info!One
  <2> QED
    BY <2>3, <2>4
<1> QED
  BY <1>1, <1>2, <1>3, <1>4

\* The first executable section stays the first.
LEMMA FirstMore ==
    ASSUME NEW l, NEW rva, NEW n \in Nat
    PROVE  FirstOf(Executable(l, n + 1))
               = IF Has(l[n + 1], "MEM_EXECUTE") /\ FirstOf(Executable(l, n)) = NONE
                 THEN n + 1 ELSE FirstOf(Executable(l, n))
<1> DEFINE E == Executable(l, n)
           more == Executable(l, n + 1)
           has == Has(l[n + 1], "MEM_EXECUTE")
<1>1. more = IF has THEN E \cup {n + 1} ELSE E
  BY OneSectionMore
<1>2. E \in SUBSET (1..n)
  BY KindsInside
<1>3. CASE E = {}
  <2>1. FirstOf(E) = NONE
    BY <1>3 DEF FirstOf
  <2>2. CASE has
    <3>1. more = {n + 1}
      BY <1>1, <1>3, <2>2
    <3>2. Min({n + 1}) = n + 1
      BY DEF Min
    <3> HIDE DEF more, has, E
    <3> QED
      BY <2>1, <2>2, <3>1, <3>2 DEF FirstOf, more, has, E
  <2>3. CASE ~has
    BY <1>1, <2>1, <2>3
  <2> QED
    BY <2>2, <2>3
<1>4. CASE E # {}
  <2>1. Min(E) \in E /\ \A y \in E : Min(E) <= y
    BY <1>2, <1>4, MinExists
  <2>2. FirstOf(E) = Min(E) /\ FirstOf(E) # NONE
    BY <1>2, <1>4, <2>1, FilesAssumption DEF FirstOf
  <2>3. CASE has
    <3>1. more = E \cup {n + 1} /\ more # {}
      BY <1>1, <2>3
    <3>2. more \in SUBSET (1..(n + 1)) /\ Min(E) \in more /\ n + 1 \in Nat
      BY <1>2, <2>1, <3>1
    <3>3. \A y \in more : Min(E) <= y
      BY <1>2, <2>1, <3>1
    <3> HIDE DEF more, E
    <3>4. Min(more) = Min(E)
      BY <3>2, <3>3, MinIs
    <3> QED
      BY <2>2, <3>1, <3>4 DEF FirstOf, more, E
  <2>4. CASE ~has
    BY <1>1, <2>4
  <2> QED
    BY <2>3, <2>4
<1> QED
  BY <1>3, <1>4

\* The section that holds the entry point and comes later is the last.
LEMMA LastMore ==
    ASSUME NEW l, NEW rva, NEW n \in Nat
    PROVE  LastOf(Holding(l, rva, n + 1))
               = IF ContainsRVA(l[n + 1], rva)
                 THEN n + 1 ELSE LastOf(Holding(l, rva, n))
<1> DEFINE E == Holding(l, rva, n)
           more == Holding(l, rva, n + 1)
           holds == ContainsRVA(l[n + 1], rva)
<1>1. more = IF holds THEN E \cup {n + 1} ELSE E
  BY OneSectionMore
<1>2. E \in SUBSET (1..n)
  BY KindsInside
<1>3. CASE holds
  <2>1. more = E \cup {n + 1} /\ more # {}
    BY <1>1, <1>3
  <2>2. more \in SUBSET (1..(n + 1)) /\ n + 1 \in more /\ n + 1 \in Nat
    BY <1>2, <2>1
  <2>3. \A y \in more : y <= n + 1
    BY <2>2
  <2> HIDE DEF more, E
  <2>4. Max(more) = n + 1
    BY <2>2, <2>3, MaxIs
  <2> QED
    BY <1>3, <2>1, <2>4 DEF LastOf, more, E
<1>4. CASE ~holds
  BY <1>1, <1>4
<1> QED
  BY <1>3, <1>4

-----------------------------------------------------------------------------
(* What the hashers are given *)

\* A finite set makes a sequence of its elements.
LEMMA SetToSeqType ==
    ASSUME NEW S, IsFiniteSet(S)
    PROVE  SetToSeq(S) \in Seq(S)
<1>1. Cardinality(S) \in Nat /\ ExistsBijection(1..Cardinality(S), S)
  BY FS_CardinalityType
<1>2. \E f \in [1..Cardinality(S) -> S] : IsInjective(f)
  BY <1>1 DEF ExistsBijection, Bijection, Injection
<1>3. SetToSeq(S) \in [1..Cardinality(S) -> S]
  BY <1>2 DEF SetToSeq
<1> QED
  BY <1>1, <1>3

\* A section has finitely many flags, each under the name of the section.
LEMMA FlagNamesType ==
    ASSUME NEW s
    PROVE  FlagNames(s) \in Seq({s.name} \X DOMAIN Characteristics)
<1> DEFINE P == {s.name} \X NamesByValue(s.characteristics)
<1>1. NamesByValue(s.characteristics) \subseteq DOMAIN Characteristics
  BY DEF NamesByValue
<1>2. IsFiniteSet(NamesByValue(s.characteristics))
  BY <1>1, FilesAssumption, FS_Subset
<1>3. IsFiniteSet({s.name})
  BY FS_Singleton
<1>4. IsFiniteSet(P)
  BY <1>2, <1>3, FS_Product
<1>5. SetToSeq(P) \in Seq(P)
  BY <1>4, SetToSeqType
<1>6. P \subseteq {s.name} \X DOMAIN Characteristics
  BY <1>1
<1> HIDE DEF P
<1>7. SetToSeq(P) \in Seq({s.name} \X DOMAIN Characteristics)
  BY <1>5, <1>6, SeqMonotonic
<1> QED
  BY <1>7 DEF FlagNames, P

\* Each turn of the loop appends to what the hashers were given.
LEMMA WeightsMore ==
    ASSUME NEW l, NEW n \in Nat
    PROVE  /\ Sizes(l, n + 1) = Append(Sizes(l, n), <<l[n + 1].name, l[n + 1].sizeRaw>>)
           /\ VSizes(l, n + 1) = Append(VSizes(l, n), <<l[n + 1].name, l[n + 1].vsize>>)
           /\ Entropies(l, n + 1) = Append(Entropies(l, n), <<l[n + 1].name, l[n + 1].entropy>>)
           /\ Len(Sizes(l, n)) = n
<1> DEFINE F == [ k \in 1..(n + 1) |-> <<l[k].name, l[k].sizeRaw>> ]
           G == [ k \in 1..(n + 1) |-> <<l[k].name, l[k].vsize>> ]
           H == [ k \in 1..(n + 1) |-> <<l[k].name, l[k].entropy>> ]
<1>1. /\ Sizes(l, n) = FirstOnes(F, n) /\ Sizes(l, n + 1) = FirstOnes(F, n + 1)
      /\ F[n + 1] = <<l[n + 1].name, l[n + 1].sizeRaw>>
  BY DEF Sizes, FirstOnes
<1>2. /\ VSizes(l, n) = FirstOnes(G, n) /\ VSizes(l, n + 1) = FirstOnes(G, n + 1)
      /\ G[n + 1] = <<l[n + 1].name, l[n + 1].vsize>>
  BY DEF VSizes, FirstOnes
<1>3. /\ Entropies(l, n) = FirstOnes(H, n) /\ Entropies(l, n + 1) = FirstOnes(H, n + 1)
      /\ H[n + 1] = <<l[n + 1].name, l[n + 1].entropy>>
  BY DEF Entropies, FirstOnes
<1> HIDE DEF F, G, H
<1>4. /\ FirstOnes(F, n + 1) = Append(FirstOnes(F, n), F[n + 1]) /\ Len(FirstOnes(F, n)) = n
      /\ FirstOnes(G, n + 1) = Append(FirstOnes(G, n), G[n + 1])
      /\ FirstOnes(H, n + 1) = Append(FirstOnes(H, n), H[n + 1])
  BY FirstOnesMore
<1> QED
  BY <1>1, <1>2, <1>3, <1>4

\* And so do the flags.
LEMMA FlagsMore ==
    ASSUME NEW l, NEW n \in Nat
    PROVE  Flags(l, n + 1) = Flags(l, n) \o FlagNames(l[n + 1])
<1> DEFINE A == { l[k].name : k \in 1..(n + 1) } \X DOMAIN Characteristics
           F == [ k \in 1..(n + 1) |-> FlagNames(l[k]) ]
<1>1. ASSUME NEW k \in 1..(n + 1) PROVE F[k] \in Seq(A)
  <2>1. FlagNames(l[k]) \in Seq({l[k].name} \X DOMAIN Characteristics)
    BY FlagNamesType
  <2>2. {l[k].name} \X DOMAIN Characteristics \subseteq A
    OBVIOUS
  <2>3. FlagNames(l[k]) \in Seq(A)
    BY <2>1, <2>2, SeqMonotonic
  <2> QED
    BY <2>3
<1>2. /\ FirstOnes(F, n) = [ k \in 1..n |-> FlagNames(l[k]) ]
      /\ FirstOnes(F, n + 1) = [ k \in 1..(n + 1) |-> FlagNames(l[k]) ]
      /\ F[n + 1] = FlagNames(l[n + 1])
  BY DEF FirstOnes
<1> HIDE DEF A, F
<1>3. FlattenSeq(FirstOnes(F, n + 1)) = FlattenSeq(FirstOnes(F, n)) \o F[n + 1]
  BY <1>1, FlattenMore
<1> QED
  BY <1>2, <1>3 DEF Flags

\* Nothing was given before the first section.
LEMMA NoWeights ==
    ASSUME NEW l
    PROVE  Sizes(l, 0) = <<>> /\ VSizes(l, 0) = <<>> /\ Entropies(l, 0) = <<>> /\ Flags(l, 0) = <<>>
BY DEF Sizes, VSizes, Entropies, Flags, FlattenSeq

-----------------------------------------------------------------------------
(* Ratios *)

\* A factor that is not zero keeps the order of products.
LEMMA Factor ==
    ASSUME NEW a \in Nat, NEW b \in Nat, NEW c \in Nat \ {0}
    PROVE  (a <= b) <=> (a * c <= b * c)
<1>1. ASSUME a <= b PROVE a * c <= b * c
  BY <1>1
<1>2. ASSUME ~(a <= b) PROVE ~(a * c <= b * c)
  BY <1>2
<1> QED
  BY <1>1, <1>2

\* What does not exceed a ratio does not exceed a greater one.
LEMMA ExceedsMore ==
    ASSUME NEW r \in Ratios, NEW s \in Ratios, NEW t \in Ratios,
           ~Info!Exceeds(r, s), Info!Exceeds(t, s)
    PROVE  ~Info!Exceeds(r, t)
<1> DEFINE a == r[1]  b == r[2]  c == s[1]  d == s[2]  e == t[1]  f == t[2]
<1>1. /\ a \in Nat /\ c \in Nat /\ e \in Nat
      /\ b \in Nat \ {0} /\ d \in Nat \ {0} /\ f \in Nat \ {0}
  BY DEF Ratios
<1>2. ~(a * d > c * b) /\ e * d > c * f
  BY DEF Info!Exceeds
<1>3. SUFFICES ~(a * f > e * b)
  BY DEF Info!Exceeds
<1> HIDE DEF a, b, c, d, e, f
<1>4. /\ a * d \in Nat /\ c * b \in Nat /\ e * d \in Nat
      /\ c * f \in Nat /\ a * f \in Nat /\ e * b \in Nat
  BY <1>1
<1>5. (a * d) * f <= (c * b) * f
  BY <1>1, <1>2, <1>4, Factor
<1>6. (c * f) * b <= (e * d) * b
  BY <1>1, <1>2, <1>4, Factor
<1>7. /\ (a * d) * f = (a * f) * d /\ (c * b) * f = (c * f) * b
      /\ (e * d) * b = (e * b) * d
  BY <1>1
<1>8. (a * f) * d <= (e * b) * d
  <2>1. (a * f) * d \in Nat /\ (c * f) * b \in Nat /\ (e * b) * d \in Nat
    BY <1>1, <1>4
  <2> QED
    BY <1>5, <1>6, <1>7, <2>1
<1>9. a * f <= e * b
  BY <1>1, <1>4, <1>8, Factor
<1> QED
  BY <1>4, <1>9

\* No ratio exceeds itself, and none is less than zero.
LEMMA ExceedsSelf ==
    ASSUME NEW r \in Ratios
    PROVE  ~Info!Exceeds(r, r)
BY DEF Ratios, Info!Exceeds

\* What has no numerator exceeds nothing.
LEMMA NothingExceeds ==
    ASSUME NEW z \in Ratios, z[1] = 0, NEW r \in Ratios
    PROVE  ~Info!Exceeds(z, r)
<1>1. r[1] \in Nat /\ z[2] \in Nat /\ r[2] \in Nat
  BY DEF Ratios
<1>2. r[1] * z[2] \in Nat /\ 0 * r[2] = 0
  BY <1>1
<1> QED
  BY <1>2 DEF Info!Exceeds

\* The greatest of those seen follows when one more is seen.
LEMMA AtLeastMore ==
    ASSUME NEW seen \in SUBSET Ratios, NEW max \in Ratios, AtLeast(max, seen), NEW r \in Ratios
    PROVE  AtLeast(IF Info!Exceeds(r, max) THEN r ELSE max, seen \cup {r})
<1>1. CASE Info!Exceeds(r, max)
  <2>1. \A t \in seen : ~Info!Exceeds(t, r)
    BY <1>1, ExceedsMore DEF AtLeast
  <2> QED
    BY <1>1, <2>1, ExceedsSelf DEF AtLeast
<1>2. CASE ~Info!Exceeds(r, max)
  BY <1>2 DEF AtLeast
<1> QED
  BY <1>1, <1>2

\* The measures of a section and of the overlay are ratios.
LEMMA MeasuresAre ==
    /\ \A f \in Files : \A m \in Info!Measures : Info!OfOverlay(f)[m] \in Ratios
    /\ \A s \in SectionRecords : \A m \in Info!Measures : Info!OfSection(s)[m] \in Ratios
<1>1. Info!Measures = {"entropy", "sizeRatio", "vsizeRatio"}
  BY DEF Info!Measures
<1>2. ASSUME NEW f \in Files, NEW m \in Info!Measures PROVE Info!OfOverlay(f)[m] \in Ratios
  <2>1. f.overlayEntropy \in Nat /\ f.overlaySize \in Nat /\ f.size \in Nat
    BY FilesAssumption
  <2>2. <<Info!OverlayEntropy(f), 1>> \in Ratios
    BY <2>1 DEF Info!OverlayEntropy, Ratios
  <2>3. Info!OverlayRatio(f) \in Ratios
    BY <2>1, RatioType DEF Info!OverlayRatio, Info!Ratio, Ratio
  <2>4. Info!ZeroRatio \in Ratios
    BY DEF Info!ZeroRatio, Ratios
  <2> QED
    BY <1>1, <2>2, <2>3, <2>4 DEF Info!OfOverlay
<1>3. ASSUME NEW s \in SectionRecords, NEW m \in Info!Measures PROVE Info!OfSection(s)[m] \in Ratios
  <2>1. s.entropy \in Nat /\ s.sizeRatio \in Ratios /\ s.vsizeRatio \in Ratios
    BY DEF SectionRecords
  <2>2. <<s.entropy, 1>> \in Ratios
    BY <2>1 DEF Ratios
  <2> QED
    BY <1>1, <2>1, <2>2 DEF Info!OfSection
<1> QED
  BY <1>2, <1>3

\* One section more is seen.
LEMMA SeenMore ==
    ASSUME NEW l, NEW f, NEW m, NEW n \in Nat
    PROVE  /\ Seen(l, f, m, 0) = {Info!OfOverlay(f)[m]}
           /\ Seen(l, f, m, n + 1) = Seen(l, f, m, n) \cup {Info!OfSection(l[n + 1])[m]}
<1>1. \A k : k \in 1..(n + 1) <=> (k \in 1..n \/ k = n + 1)
  OBVIOUS
<1> QED
  BY <1>1 DEF Seen

\* What is seen are ratios.
LEMMA SeenType ==
    ASSUME NEW l \in Seq(SectionRecords), NEW f \in Files, NEW m \in Info!Measures,
           NEW n \in Nat, n <= Len(l)
    PROVE  Seen(l, f, m, n) \in SUBSET Ratios
<1>1. \A k \in 1..n : l[k] \in SectionRecords
  OBVIOUS
<1> QED
  BY <1>1, MeasuresAre DEF Seen

\* A ratio seen may be the greatest; the least stay zero.
LEMMA WidenedIs ==
    ASSUME extremes \in Extremes, \A m \in Info!Measures : extremes[m].min[1] = 0,
           NEW measure, \A m \in Info!Measures : measure[m] \in Ratios
    PROVE  /\ Info!Widened(measure) \in Extremes
           /\ \A m \in Info!Measures :
                 /\ Info!Widened(measure)[m].min[1] = 0
                 /\ Info!Widened(measure)[m].max
                        = IF Info!Exceeds(measure[m], extremes[m].max) THEN measure[m]
                          ELSE extremes[m].max
<1> DEFINE W(m) ==
        [max |-> IF Info!Exceeds(measure[m], extremes[m].max) THEN measure[m] ELSE extremes[m].max,
         min |-> IF Info!Exceeds(extremes[m].min, measure[m]) THEN measure[m] ELSE extremes[m].min]
<1>1. Info!Widened(measure) = [m \in Info!Measures |-> W(m)]
  BY DEF Info!Widened
<1>2. ASSUME NEW m \in Info!Measures
      PROVE  /\ W(m) \in [{"max", "min"} -> Ratios] /\ W(m).min[1] = 0
             /\ W(m).max = IF Info!Exceeds(measure[m], extremes[m].max) THEN measure[m]
                           ELSE extremes[m].max
  <2>1. extremes[m].min \in Ratios /\ extremes[m].max \in Ratios /\ extremes[m].min[1] = 0
    BY DEF Extremes
  <2>2. ~Info!Exceeds(extremes[m].min, measure[m])
    BY <2>1, NothingExceeds
  <2> QED
    BY <2>1, <2>2
<1> HIDE DEF W
<1> QED
  BY <1>1, <1>2 DEF Extremes

-----------------------------------------------------------------------------
(* The steps of SectionInfo *)

\* The operators of PEFile are the same for SectionInfo.
LEMMA SameOperators ==
    /\ \A f : Info!ListSections(f) = ListSections(f) /\ Info!Entrypoint(f) = Entrypoint(f)
    /\ \A s, c : Info!Has(s, c) = Has(s, c)
    /\ \A s, rva : Info!ContainsRVA(s, rva) = ContainsRVA(s, rva)
    /\ \A s : Info!SetToSeq({s.name} \X Info!NamesByValue(s.characteristics)) = FlagNames(s)
    /\ \A S : Info!Max(S) = Max(S) /\ Info!Min(S) = Min(S)
    /\ \A S : Info!Cardinality(S) = Cardinality(S)
<1>1. \A a, b : Info!Ratio(a, b) = Ratio(a, b)
  BY DEF Info!Ratio, Ratio
<1>2. \A f : Info!ListSections(f) = ListSections(f)
  BY <1>1, Zenon DEF Info!ListSections, ListSections
<1>3. \A f : Info!Entrypoint(f) = Entrypoint(f)
  BY DEF Info!Entrypoint, Entrypoint, Info!DoubleWordAt, DoubleWordAt
<1>4. \A b : Info!NamesByValue(b) = NamesByValue(b)
  BY DEF Info!NamesByValue, NamesByValue
<1>5. \A S : Info!Max(S) = Max(S) /\ Info!Min(S) = Min(S)
  BY DEF Info!Max, Max, Info!Min, Min
<1>6. \A S : Info!SetToSeq(S) = SetToSeq(S)
  BY DEF Info!SetToSeq, SetToSeq, Info!IsInjective, IsInjective, Info!Cardinality, Cardinality
<1>7. \A s, c : Info!Has(s, c) = Has(s, c)
  BY <1>4 DEF Info!Has, Has
<1>8. \A s, rva : Info!ContainsRVA(s, rva) = ContainsRVA(s, rva)
  BY <1>5 DEF Info!ContainsRVA, ContainsRVA
<1>9. \A s : Info!SetToSeq({s.name} \X Info!NamesByValue(s.characteristics)) = FlagNames(s)
  BY <1>4, <1>6, Zenon DEF FlagNames
<1>10. \A S : Info!Cardinality(S) = Cardinality(S)
  BY DEF Info!Cardinality, Cardinality, Info!IsFiniteSet, IsFiniteSet
<1> QED
  BY <1>2, <1>3, <1>5, <1>7, <1>8, <1>9, <1>10

\* A step between two of the later parts, or from the header on, leaves all of
\* the sections as it is.
LEMMA SectionsLeft ==
    ASSUME SectionsInv, UNCHANGED section,
           \/ pc = pc'
           \/ pc = "header" /\ pc' = "section"
           \/ pc \in Later /\ pc' \in Later
    PROVE  SectionsInv'
<1> USE DEF section
<1>1. FileRead'
  BY DEF SectionsInv, FileRead, SectionStep, Parsed, Later, Steps
<1>2. SectionStep'
  BY DEF SectionsInv, SectionStep, Later, Steps
<1>3. NextInside' /\ CountsKept' /\ EntriesKept' /\ EntryFound'
  BY DEF SectionsInv, NextInside, CountsKept, EntriesKept, EntryFound, Secs
<1>4. HashersKept' /\ ExtremesKept'
  BY DEF SectionsInv, HashersKept, ExtremesKept, Secs
<1> QED
  BY <1>1, <1>2, <1>3, <1>4 DEF SectionsInv

\* The counts of a turn of the loop.
LEMMA CountsStep ==
    ASSUME SectionsInv, Info!Section
    PROVE  CountsKept' /\ EntriesKept'
<1> DEFINE l == Secs
           rva == peFile.entrypointRVA
           n == next - 1
           s == l[n + 1]
<1>1. /\ sectionPc = "loop" /\ next <= Len(peFile.sections) /\ next' = next + 1
      /\ counts' = Info!Count(peFile.sections[next])
      /\ pEntrySection' = IF Info!ContainsRVA(peFile.sections[next], peFile.entrypointRVA)
                          THEN next ELSE pEntrySection
      /\ pPotentialEntrySection' = Info!Potential(peFile.sections[next])
      /\ sectionPc' = sectionPc /\ peFile' = peFile
  BY DEF Info!Section
<1>2. next \in 1..(Len(Secs) + 1) /\ Len(Secs) \in Nat
  BY SecsAre DEF SectionsInv, NextInside
<1>3. n \in Nat /\ next = n + 1 /\ next' - 1 = n + 1
  BY <1>1, <1>2
<1>4. Secs' = l /\ peFile'.entrypointRVA = rva /\ s = peFile.sections[next]
  BY <1>1, <1>3 DEF Secs
<1> HIDE DEF n
<1>5. counts = [zeroSize |-> Cardinality(ZeroSize(l, n)),
                emptyName |-> Cardinality(EmptyName(l, n)),
                readableAndExecutable |-> Cardinality(ReadableAndExecutable(l, n)),
                writable |-> Cardinality(Writable(l, n))]
  BY DEF SectionsInv, CountsKept, n
<1>6. /\ pPotentialEntrySection = FirstOf(Executable(l, n))
      /\ pEntrySection = LastOf(Holding(l, rva, n))
  BY <1>1 DEF SectionsInv, EntriesKept, n
<1> HIDE DEF l, rva
<1>7. counts' = [zeroSize |-> Cardinality(ZeroSize(l, n)) + Info!One(s.sizeRaw = 0),
                 emptyName |-> Cardinality(EmptyName(l, n)) + Info!One(s.name = EMPTY),
                 readableAndExecutable |->
                    Cardinality(ReadableAndExecutable(l, n))
                        + Info!One(Has(s, "MEM_EXECUTE") /\ Has(s, "MEM_READ")),
                 writable |-> Cardinality(Writable(l, n)) + Info!One(Has(s, "MEM_WRITE"))]
  BY <1>1, <1>4, <1>5, SameOperators, Zenon DEF Info!Count
<1>8. counts' = [zeroSize |-> Cardinality(ZeroSize(l, n + 1)),
                 emptyName |-> Cardinality(EmptyName(l, n + 1)),
                 readableAndExecutable |-> Cardinality(ReadableAndExecutable(l, n + 1)),
                 writable |-> Cardinality(Writable(l, n + 1))]
  BY <1>3, <1>7, CountsMore
<1>9. pPotentialEntrySection' = FirstOf(Executable(l, n + 1))
  <2>1. pPotentialEntrySection' = IF Has(s, "MEM_EXECUTE") /\ pPotentialEntrySection = NONE
                                  THEN next ELSE pPotentialEntrySection
    BY <1>1, <1>4, SameOperators DEF Info!Potential
  <2> QED
    BY <1>3, <1>6, <2>1, FirstMore
<1>10. pEntrySection' = LastOf(Holding(l, rva, n + 1))
  <2>1. pEntrySection' = IF ContainsRVA(s, rva) THEN next ELSE pEntrySection
    BY <1>1, <1>4, SameOperators DEF rva
  <2> QED
    BY <1>3, <1>6, <2>1, LastMore
<1> QED
  BY <1>3, <1>4, <1>8, <1>9, <1>10 DEF CountsKept, EntriesKept

\* What a turn of the loop gives the hashers.
LEMMA HashersStep ==
    ASSUME SectionsInv, Info!Section
    PROVE  HashersKept'
<1> DEFINE l == Secs
           n == next - 1
           s == l[n + 1]
<1>1. /\ sectionPc = "loop" /\ next <= Len(peFile.sections) /\ next' = next + 1
      /\ hashers' = Info!ReduceFromSection(peFile.sections[next])
      /\ sectionPc' = sectionPc /\ peFile' = peFile
  BY DEF Info!Section
<1>2. next \in 1..(Len(Secs) + 1) /\ Len(Secs) \in Nat
  BY SecsAre DEF SectionsInv, NextInside
<1>3. n \in Nat /\ next = n + 1 /\ next' - 1 = n + 1
  BY <1>1, <1>2
<1>4. Secs' = l /\ s = peFile.sections[next]
  BY <1>1, <1>3 DEF Secs
<1> HIDE DEF n
<1>5. hashers = [size |-> Sizes(l, n), vsize |-> VSizes(l, n), entropy |-> Entropies(l, n),
                 characteristics |-> Flags(l, n), entryName |-> <<>>]
  BY <1>1 DEF SectionsInv, HashersKept, n
<1> HIDE DEF l
<1>6. hashers' = [hashers EXCEPT !.size = Append(@, <<s.name, s.sizeRaw>>),
                                 !.vsize = Append(@, <<s.name, s.vsize>>),
                                 !.entropy = Append(@, <<s.name, s.entropy>>),
                                 !.characteristics = @ \o FlagNames(s)]
  BY <1>1, <1>4, SameOperators, Zenon DEF Info!ReduceFromSection
<1>7. hashers' = [size |-> Append(Sizes(l, n), <<s.name, s.sizeRaw>>),
                  vsize |-> Append(VSizes(l, n), <<s.name, s.vsize>>),
                  entropy |-> Append(Entropies(l, n), <<s.name, s.entropy>>),
                  characteristics |-> Flags(l, n) \o FlagNames(s), entryName |-> <<>>]
  <2> HIDE DEF s
  <2> QED
    BY <1>5, <1>6
<1>8. hashers' = [size |-> Sizes(l, n + 1), vsize |-> VSizes(l, n + 1),
                  entropy |-> Entropies(l, n + 1), characteristics |-> Flags(l, n + 1),
                  entryName |-> <<>>]
  BY <1>3, <1>7, WeightsMore, FlagsMore
<1>9. hashers'.entryName = <<>>
  BY <1>8
<1> QED
  BY <1>3, <1>4, <1>8, <1>9 DEF HashersKept

\* The extremes of a turn of the loop.
LEMMA ExtremesStep ==
    ASSUME SectionsInv, Info!Section
    PROVE  ExtremesKept'
<1> DEFINE l == Secs
           n == next - 1
           s == l[n + 1]
           w == Info!OfSection(s)
<1>1. /\ sectionPc = "loop" /\ next <= Len(peFile.sections) /\ next' = next + 1
      /\ extremes' = Info!Widened(Info!OfSection(peFile.sections[next]))
      /\ sectionPc' = sectionPc /\ peFile' = peFile /\ file' = file
  BY DEF Info!Section
<1>2. /\ next \in 1..(Len(Secs) + 1) /\ Secs \in Seq(SectionRecords) /\ Len(Secs) \in Nat
      /\ file # NONE => file \in Files
  BY SecsAre DEF SectionsInv, NextInside
<1>3. n \in Nat /\ next = n + 1 /\ next' - 1 = n + 1 /\ n + 1 <= Len(l)
  BY <1>1, <1>2 DEF Secs
<1>4. Secs' = l /\ s = peFile.sections[next]
  BY <1>1, <1>3 DEF Secs
<1>5. file \in Files
  BY <1>1, <1>2, FilesAssumption DEF SectionsInv, FileRead, Info!NotParsed, SectionStep
<1>6. s \in SectionRecords
  BY <1>2, <1>3
<1> HIDE DEF n
<1>7. /\ extremes \in Extremes /\ \A m \in Info!Measures : extremes[m].min[1] = 0
      /\ \A m \in Info!Measures : AtLeast(extremes[m].max, Seen(l, file, m, n))
  BY <1>1 DEF SectionsInv, ExtremesKept, n
<1> HIDE DEF l, s
<1>8. \A m \in Info!Measures : w[m] \in Ratios
  BY <1>6, MeasuresAre
<1>9. extremes' = Info!Widened(w)
  BY <1>1, <1>4
<1> HIDE DEF w
<1>10. /\ extremes' \in Extremes
       /\ \A m \in Info!Measures :
            /\ extremes'[m].min[1] = 0
            /\ extremes'[m].max = IF Info!Exceeds(w[m], extremes[m].max) THEN w[m]
                                  ELSE extremes[m].max
  BY <1>7, <1>8, <1>9, WidenedIs
<1>11. ASSUME NEW m \in Info!Measures
       PROVE  AtLeast(extremes'[m].max, Seen(l, file, m, n + 1))
  <2>1. Seen(l, file, m, n + 1) = Seen(l, file, m, n) \cup {w[m]}
    BY <1>3, SeenMore DEF w, s
  <2>2. Seen(l, file, m, n) \in SUBSET Ratios
    BY <1>2, <1>3, <1>5, SeenType DEF l
  <2>3. extremes[m].max \in Ratios /\ w[m] \in Ratios
    BY <1>7, <1>8 DEF Extremes
  <2> DEFINE max == extremes[m].max
  <2>4. AtLeast(max, Seen(l, file, m, n))
    BY <1>7
  <2> HIDE DEF max
  <2>5. AtLeast(IF Info!Exceeds(w[m], max) THEN w[m] ELSE max, Seen(l, file, m, n) \cup {w[m]})
    BY <2>2, <2>3, <2>4, AtLeastMore DEF max
  <2> QED
    BY <1>10, <2>1, <2>5 DEF max
<1> QED
  BY <1>1, <1>3, <1>4, <1>10, <1>11 DEF ExtremesKept

\* What SectionInfo starts from is what is kept of no section at all.
LEMMA NothingYet ==
    ASSUME NEW l, NEW rva
    PROVE  /\ Info!NoCounts = [zeroSize |-> Cardinality(ZeroSize(l, 0)),
                               emptyName |-> Cardinality(EmptyName(l, 0)),
                               readableAndExecutable |-> Cardinality(ReadableAndExecutable(l, 0)),
                               writable |-> Cardinality(Writable(l, 0))]
           /\ FirstOf(Executable(l, 0)) = NONE /\ LastOf(Holding(l, rva, 0)) = NONE
           /\ Info!NewHashers = [size |-> Sizes(l, 0), vsize |-> VSizes(l, 0),
                                 entropy |-> Entropies(l, 0), characteristics |-> Flags(l, 0),
                                 entryName |-> <<>>]
           /\ Info!NoExtremes \in Extremes
           /\ \A m \in Info!Measures : /\ Info!NoExtremes[m].min[1] = 0
                                       /\ Info!NoExtremes[m].max = Info!ZeroRatio
           /\ Info!ZeroRatio \in Ratios
<1>1. Cardinality({}) = 0
  BY FS_EmptySet
<1>2. Info!NoCounts = [zeroSize |-> Cardinality(ZeroSize(l, 0)),
                       emptyName |-> Cardinality(EmptyName(l, 0)),
                       readableAndExecutable |-> Cardinality(ReadableAndExecutable(l, 0)),
                       writable |-> Cardinality(Writable(l, 0))]
  BY <1>1, NoKinds DEF Info!NoCounts
<1>3. FirstOf(Executable(l, 0)) = NONE /\ LastOf(Holding(l, rva, 0)) = NONE
  BY NoKinds DEF FirstOf, LastOf
<1>4. Info!NewHashers = [size |-> Sizes(l, 0), vsize |-> VSizes(l, 0),
                         entropy |-> Entropies(l, 0), characteristics |-> Flags(l, 0),
                         entryName |-> <<>>]
  BY NoWeights DEF Info!NewHashers
<1>5. Info!ZeroRatio \in Ratios /\ Info!ZeroRatio[1] = 0
  BY DEF Info!ZeroRatio, Ratios
<1>6. /\ Info!NoExtremes \in Extremes
      /\ \A m \in Info!Measures : /\ Info!NoExtremes[m].min[1] = 0
                                  /\ Info!NoExtremes[m].max = Info!ZeroRatio
  BY <1>5 DEF Info!NoExtremes, Extremes
<1> QED
  BY <1>2, <1>3, <1>4, <1>5, <1>6

\* Nothing is kept of a file before the first.
LEMMA SectionsInit == ASSUME Init PROVE SectionsInv
<1>1. /\ sectionPc = "idle" /\ file = NONE /\ peFile = Info!NotParsed /\ next = 1
      /\ pEntrySection = NONE /\ pPotentialEntrySection = NONE
      /\ counts = Info!NoCounts /\ extremes = Info!NoExtremes /\ hashers = Info!NewHashers
      /\ pc = "idle"
  BY DEF Init, Info!Init
<1>2. Secs = <<>> /\ Len(Secs) = 0 /\ next - 1 = 0
  BY <1>1 DEF Secs, Info!NotParsed
<1>3. FileRead /\ SectionStep /\ NextInside
  BY <1>1, <1>2 DEF FileRead, SectionStep, NextInside, Steps, Later
<1>4. CountsKept /\ EntriesKept
  BY <1>1, <1>2, NothingYet DEF CountsKept, EntriesKept
<1>5. EntryFound
  BY <1>1 DEF EntryFound
<1>6. HashersKept
  <2>1. hashers.entryName = <<>>
    BY <1>1 DEF Info!NewHashers
  <2> QED
    BY <1>1, <1>2, <2>1, NothingYet DEF HashersKept
<1>7. ExtremesKept
  BY <1>1, NothingYet DEF ExtremesKept
<1> QED
  BY <1>3, <1>4, <1>5, <1>6, <1>7 DEF SectionsInv

\* Nor after a run, whether it returned or an exception ended it.
LEMMA SectionsForgotten == ASSUME EndOfRun PROVE SectionsInv'
<1>1. /\ sectionPc' = "idle" /\ file' = NONE /\ peFile' = Info!NotParsed /\ next' = 1
      /\ pEntrySection' = NONE /\ pPotentialEntrySection' = NONE
      /\ counts' = Info!NoCounts /\ extremes' = Info!NoExtremes /\ hashers' = Info!NewHashers
      /\ pc' = "idle"
  BY DEF EndOfRun, Info!Forget
<1>2. Secs' = <<>> /\ Len(Secs') = 0 /\ next' - 1 = 0
  BY <1>1 DEF Secs, Info!NotParsed
<1>3. FileRead' /\ SectionStep' /\ NextInside'
  BY <1>1, <1>2 DEF FileRead, SectionStep, NextInside, Steps, Later
<1>4. CountsKept' /\ EntriesKept'
  BY <1>1, <1>2, NothingYet DEF CountsKept, EntriesKept
<1>5. EntryFound'
  BY <1>1 DEF EntryFound
<1>6. HashersKept'
  <2>1. hashers'.entryName = <<>>
    BY <1>1 DEF Info!NewHashers
  <2> QED
    BY <1>1, <1>2, <2>1, NothingYet DEF HashersKept
<1>7. ExtremesKept'
  BY <1>1, NothingYet DEF ExtremesKept
<1> QED
  BY <1>3, <1>4, <1>5, <1>6, <1>7 DEF SectionsInv

\* The constructor of PEFile lists the sections; nothing is kept of them yet.
LEMMA SectionsRun ==
    ASSUME SectionsInv, NEW f \in Files, Run(f)
    PROVE  SectionsInv'
<1>1. /\ pc = "idle" /\ pc' = "header" /\ sectionPc = "idle" /\ sectionPc' = "parsed"
      /\ file' = f /\ next' = next /\ pEntrySection' = pEntrySection
      /\ pPotentialEntrySection' = pPotentialEntrySection /\ counts' = counts
      /\ extremes' = extremes /\ hashers' = hashers
      /\ peFile' = IF f.isPE
                   THEN [isPE |-> TRUE, entrypointRVA |-> Info!Entrypoint(f),
                         sections |-> Info!ListSections(f)]
                   ELSE Info!NotParsed
  BY DEF Run, Goto, Info!Parse, Info!kept, Info!entry
<1>2. peFile' = Parsed(f) /\ file' # NONE
  BY <1>1, SameOperators, FilesAssumption DEF Parsed
<1>3. next = 1 /\ next - 1 = 0
  BY <1>1 DEF SectionsInv, NextInside
<1>4. FileRead'
  BY <1>1, <1>2 DEF FileRead
<1>5. SectionStep'
  BY <1>1 DEF SectionStep, Steps, Later
<1>6. Len(Secs') \in Nat
  <2>1. CASE f.isPE
    BY <1>2, <2>1, SectionsListed DEF Parsed, Secs
  <2>2. CASE ~f.isPE
    BY <1>2, <2>2 DEF Parsed, Secs, Info!NotParsed
  <2> QED
    BY <2>1, <2>2
<1>7. NextInside'
  BY <1>1, <1>3, <1>6 DEF NextInside
<1>8. CountsKept' /\ EntriesKept'
  <2>1. /\ counts = Info!NoCounts
        /\ pPotentialEntrySection = NONE /\ pEntrySection = NONE
    BY <1>1, <1>3, NothingYet DEF SectionsInv, CountsKept, EntriesKept
  <2> QED
    BY <1>1, <1>3, <2>1, NothingYet DEF CountsKept, EntriesKept
<1>9. EntryFound'
  BY <1>1 DEF EntryFound
<1>10. HashersKept'
  <2>1. hashers.entryName = <<>> /\ hashers = Info!NewHashers
    BY <1>1, <1>3, NothingYet DEF SectionsInv, HashersKept
  <2> QED
    BY <1>1, <1>3, <2>1, NothingYet DEF HashersKept
<1>11. ExtremesKept'
  BY <1>1 DEF SectionsInv, ExtremesKept
<1> QED
  BY <1>4, <1>5, <1>7, <1>8, <1>9, <1>10, <1>11 DEF SectionsInv

\* Of a file that is not a PE file no section is gone through.
LEMMA SectionsNotPE ==
    ASSUME SectionsInv, SectionNotPE
    PROVE  SectionsInv'
<1> DEFINE l == Secs
           rva == peFile.entrypointRVA
<1>1. /\ pc = "section" /\ pc' = "imports" /\ sectionPc = "parsed" /\ sectionPc' = "done"
      /\ ~peFile.isPE /\ file' = file /\ peFile' = peFile /\ next' = next
      /\ pEntrySection' = pEntrySection /\ pPotentialEntrySection' = pPotentialEntrySection
      /\ counts' = counts /\ extremes' = extremes /\ hashers' = hashers
  BY DEF SectionNotPE, Goto, Info!NotPE, Info!kept, Info!entry
<1>2. Len(l) = 0 /\ next = 1 /\ next - 1 = 0 /\ Len(l) \in Nat
  BY <1>1, SecsAre DEF SectionsInv, NextInside
<1>3. Secs' = l /\ peFile'.entrypointRVA = rva
  BY <1>1 DEF Secs
<1>4. FileRead' /\ SectionStep'
  BY <1>1 DEF SectionsInv, FileRead, SectionStep, Steps, Later, Parsed
<1>5. NextInside' /\ CountsKept'
  BY <1>1, <1>2, <1>3 DEF SectionsInv, NextInside, CountsKept
<1>6. EntriesKept'
  BY <1>1, <1>3 DEF SectionsInv, EntriesKept
<1>7. pEntrySection = NONE /\ hashers.entryName = <<>>
  BY <1>1, <1>2, NothingYet DEF SectionsInv, EntriesKept, HashersKept
<1> HIDE DEF l, rva
<1>8. Chosen(l, rva) = NONE
  BY <1>2, NoKinds DEF Chosen, FirstOf
<1>9. EntryFound'
  BY <1>1, <1>3, <1>7, <1>8 DEF EntryFound
<1>10. HashersKept' /\ ExtremesKept'
  BY <1>1, <1>3 DEF SectionsInv, HashersKept, ExtremesKept, l
<1> QED
  BY <1>4, <1>5, <1>6, <1>9, <1>10 DEF SectionsInv

\* The overlay is seen before the sections.
LEMMA SectionsStart ==
    ASSUME SectionsInv, SectionStart
    PROVE  SectionsInv'
<1> DEFINE w == Info!OfOverlay(file)
<1>1. /\ pc = "section" /\ pc' = pc /\ sectionPc = "parsed" /\ sectionPc' = "loop"
      /\ peFile.isPE /\ file' = file /\ peFile' = peFile /\ next' = next
      /\ pEntrySection' = pEntrySection /\ pPotentialEntrySection' = pPotentialEntrySection
      /\ counts' = counts /\ hashers' = hashers /\ extremes' = Info!Widened(w)
  BY DEF SectionStart, Info!Start, Info!entry
<1>2. next = 1 /\ next - 1 = 0
  BY <1>1 DEF SectionsInv, NextInside
<1>3. Secs' = Secs
  BY <1>1 DEF Secs
<1>4. FileRead' /\ SectionStep'
  BY <1>1 DEF SectionsInv, FileRead, SectionStep, Steps, Later, Parsed
<1>5. NextInside' /\ CountsKept' /\ EntriesKept' /\ EntryFound' /\ HashersKept'
  BY <1>1, <1>2, <1>3
     DEF SectionsInv, NextInside, CountsKept, EntriesKept, EntryFound, HashersKept
<1>6. file \in Files
  BY <1>1, SecsAre DEF SectionsInv, FileRead
<1>7. \A m \in Info!Measures : w[m] \in Ratios
  BY <1>6, MeasuresAre
<1>8. extremes = Info!NoExtremes
  BY <1>1 DEF SectionsInv, ExtremesKept
<1> HIDE DEF w
<1>9. /\ extremes' \in Extremes
      /\ \A m \in Info!Measures :
           /\ extremes'[m].min[1] = 0
           /\ extremes'[m].max = IF Info!Exceeds(w[m], Info!ZeroRatio) THEN w[m]
                                 ELSE Info!ZeroRatio
  <2>1. extremes \in Extremes /\ \A m \in Info!Measures : extremes[m].min[1] = 0
    BY <1>8, NothingYet
  <2>2. \A m \in Info!Measures : extremes[m].max = Info!ZeroRatio
    BY <1>8, NothingYet
  <2>3. /\ Info!Widened(w) \in Extremes
        /\ \A m \in Info!Measures :
              /\ Info!Widened(w)[m].min[1] = 0
              /\ Info!Widened(w)[m].max = IF Info!Exceeds(w[m], extremes[m].max) THEN w[m]
                                          ELSE extremes[m].max
    BY <1>7, <2>1, WidenedIs
  <2> QED
    BY <1>1, <2>2, <2>3
<1>10. ASSUME NEW m \in Info!Measures
       PROVE  AtLeast(extremes'[m].max, Seen(Secs, file, m, 0))
  <2>1. Seen(Secs, file, m, 0) = {w[m]} /\ {} \cup {w[m]} = {w[m]}
    BY SeenMore DEF w
  <2>2. Info!ZeroRatio \in Ratios /\ AtLeast(Info!ZeroRatio, {})
    BY NothingYet DEF AtLeast
  <2>3. AtLeast(IF Info!Exceeds(w[m], Info!ZeroRatio) THEN w[m] ELSE Info!ZeroRatio, {} \cup {w[m]})
    BY <1>7, <2>2, AtLeastMore
  <2> QED
    BY <1>9, <2>1, <2>3
<1>11. ExtremesKept'
  BY <1>1, <1>2, <1>3, <1>9, <1>10 DEF ExtremesKept
<1> QED
  BY <1>4, <1>5, <1>11 DEF SectionsInv

\* A turn of the loop.
LEMMA SectionsLoop ==
    ASSUME SectionsInv, SectionLoop
    PROVE  SectionsInv'
<1>1. Info!Section /\ pc = "section" /\ pc' = pc
  BY DEF SectionLoop
<1>2. /\ sectionPc = "loop" /\ sectionPc' = "loop" /\ file' = file /\ peFile' = peFile
      /\ next <= Len(peFile.sections) /\ next' = next + 1
  BY <1>1 DEF Info!Section
<1>3. CountsKept' /\ EntriesKept' /\ HashersKept' /\ ExtremesKept'
  BY <1>1, CountsStep, HashersStep, ExtremesStep
<1>4. FileRead' /\ SectionStep'
  BY <1>1, <1>2 DEF SectionsInv, FileRead, SectionStep, Steps, Later, Parsed
<1>5. NextInside'
  <2>1. next \in 1..(Len(Secs) + 1) /\ Len(Secs) \in Nat /\ Secs' = Secs
    BY <1>2, SecsAre DEF SectionsInv, NextInside, Secs
  <2>2. next' \in 1..(Len(Secs) + 1)
    BY <1>2, <2>1 DEF Secs
  <2> QED
    BY <1>2, <2>1, <2>2 DEF NextInside
<1>6. EntryFound'
  BY <1>2 DEF EntryFound
<1> QED
  BY <1>3, <1>4, <1>5, <1>6 DEF SectionsInv

\* The end of the pass.
LEMMA SectionsFinish ==
    ASSUME SectionsInv, SectionFinish
    PROVE  SectionsInv'
<1> DEFINE l == Secs
           rva == peFile.entrypointRVA
           n == Len(l)
<1>1. /\ pc = "section" /\ pc' = "imports" /\ sectionPc = "loop" /\ sectionPc' = "done"
      /\ next > Len(peFile.sections) /\ file' = file /\ peFile' = peFile /\ next' = next
      /\ pPotentialEntrySection' = pPotentialEntrySection /\ counts' = counts
      /\ extremes' = extremes
      /\ pEntrySection' = IF pEntrySection = NONE THEN pPotentialEntrySection ELSE pEntrySection
      /\ hashers' = IF pEntrySection' = NONE THEN hashers
                    ELSE [hashers EXCEPT !.entryName =
                            Append(@, peFile.sections[pEntrySection'].name)]
  BY DEF SectionFinish, Goto, Info!Finish
<1>2. next \in 1..(n + 1) /\ n \in Nat
  BY SecsAre DEF SectionsInv, NextInside
<1>3. next = n + 1 /\ next - 1 = n
  BY <1>1, <1>2 DEF Secs
<1>4. Secs' = l /\ peFile'.entrypointRVA = rva /\ peFile.sections = l
  BY <1>1 DEF Secs
<1>5. FileRead' /\ SectionStep'
  BY <1>1 DEF SectionsInv, FileRead, SectionStep, Steps, Later, Parsed
<1>6. NextInside' /\ CountsKept' /\ EntriesKept'
  BY <1>1, <1>3, <1>4 DEF SectionsInv, NextInside, CountsKept, EntriesKept
<1>7. /\ pPotentialEntrySection = FirstOf(Executable(l, n))
      /\ pEntrySection = LastOf(Holding(l, rva, n))
      /\ hashers.entryName = <<>>
      /\ hashers = [size |-> Sizes(l, n), vsize |-> VSizes(l, n), entropy |-> Entropies(l, n),
                    characteristics |-> Flags(l, n), entryName |-> <<>>]
  BY <1>1, <1>3 DEF SectionsInv, EntriesKept, HashersKept
<1> HIDE DEF l, rva, n
<1>8. pEntrySection' = Chosen(l, rva)
  <2> DEFINE S == Holding(l, rva, n)
  <2>1. S \in SUBSET (1..n)
    BY <1>2, KindsInside
  <2>2. CASE S = {}
    BY <1>1, <1>7, <2>2 DEF Chosen, LastOf, n
  <2>3. CASE S # {}
    <3> HIDE DEF S
    <3>1. Max(S) \in S
      BY <1>2, <2>1, <2>3, MaxExists
    <3>2. Max(S) \in Nat
      <4>1. Max(S) \in 1..n
        BY <2>1, <3>1
      <4> QED
        BY <1>2, <4>1
    <3>3. pEntrySection = Max(S) /\ Max(S) # NONE
      BY <1>7, <2>3, <3>2, FilesAssumption DEF LastOf, S
    <3> QED
      BY <1>1, <2>3, <3>3 DEF Chosen, S, n
  <2> QED
    BY <2>2, <2>3
<1>9. hashers' = [size |-> Sizes(l, n), vsize |-> VSizes(l, n), entropy |-> Entropies(l, n),
                  characteristics |-> Flags(l, n),
                  entryName |-> IF Chosen(l, rva) = NONE THEN <<>> ELSE <<l[Chosen(l, rva)].name>>]
  <2>1. CASE Chosen(l, rva) = NONE
    BY <1>1, <1>7, <1>8, <2>1
  <2>2. CASE Chosen(l, rva) # NONE
    <3>1. hashers' = [hashers EXCEPT !.entryName = Append(@, l[Chosen(l, rva)].name)]
      BY <1>1, <1>4, <1>8, <2>2
    <3>2. Append(<<>>, l[Chosen(l, rva)].name) = <<l[Chosen(l, rva)].name>>
      OBVIOUS
    <3> QED
      BY <1>7, <2>2, <3>1, <3>2
  <2> QED
    BY <2>1, <2>2
<1>10. hashers'.entryName = IF Chosen(l, rva) = NONE THEN <<>> ELSE <<l[Chosen(l, rva)].name>>
  BY <1>9
<1>11. EntryFound'
  BY <1>4, <1>8, <1>10 DEF EntryFound
<1>12. HashersKept'
  BY <1>1, <1>3, <1>4, <1>9, <1>10 DEF HashersKept
<1>13. ExtremesKept'
  BY <1>1, <1>4 DEF SectionsInv, ExtremesKept
<1> QED
  BY <1>5, <1>6, <1>11, <1>12, <1>13 DEF SectionsInv

-----------------------------------------------------------------------------
(* What is kept of all sections is that of the file *)

\* A section is as long as the longer of its two sizes.
LEMMA Inside ==
    ASSUME NEW s \in SectionRecords, NEW rva \in Nat
    PROVE  ContainsRVA(s, rva) <=> /\ rva >= s.vaddr
                                   /\ \/ rva < s.vaddr + s.vsize
                                      \/ rva < s.vaddr + s.sizeRaw
<1> DEFINE a == s.vsize  b == s.sizeRaw  S == {a, b}
<1>1. a \in Nat /\ b \in Nat /\ s.vaddr \in Nat
  BY DEF SectionRecords
<1>2. CASE a >= b
  <2>1. \A y \in S : a >= y
    BY <1>1, <1>2
  <2>2. Max(S) \in S /\ \A y \in S : Max(S) >= y
    BY <2>1 DEF Max
  <2>3. Max(S) = a
    BY <1>1, <1>2, <2>2
  <2> QED
    BY <1>1, <1>2, <2>3 DEF ContainsRVA
<1>3. CASE ~(a >= b)
  <2>1. \A y \in S : b >= y
    BY <1>1, <1>3
  <2>2. Max(S) \in S /\ \A y \in S : Max(S) >= y
    BY <2>1 DEF Max
  <2>3. Max(S) = b
    BY <1>1, <1>3, <2>2
  <2> QED
    BY <1>1, <1>3, <2>3 DEF ContainsRVA
<1> QED
  BY <1>2, <1>3

\* The section chosen from PEFile's list is that chosen from the file.
LEMMA ChosenIs ==
    ASSUME NEW f \in Files
    PROVE  /\ Chosen(ListSections(f), Entrypoint(f))
                  = Info!ChosenSection(f.sections, Entrypoint(f))
           /\ Chosen(ListSections(f), Entrypoint(f)) \in 1..Len(f.sections) \cup {NONE}
<1> DEFINE l == ListSections(f)
           rva == Entrypoint(f)
           n == Len(f.sections)
           holding == { k \in DOMAIN f.sections :
                           /\ rva >= f.sections[k].vaddr
                           /\ \/ rva < f.sections[k].vaddr + f.sections[k].vsize
                              \/ rva < f.sections[k].vaddr + f.sections[k].sizeRaw }
           executable == { k \in DOMAIN f.sections :
                f.sections[k].characteristics \cap Characteristics["MEM_EXECUTE"] # {} }
<1>1. rva \in Nat
  BY EntrypointType
<1>2. Len(l) = n /\ DOMAIN f.sections = 1..n /\ n \in Nat
  BY SectionsListed
<1>3. \A k \in 1..n : l[k] \in SectionRecords
  BY SectionsListed
<1>4. \A k \in 1..n : /\ l[k].vaddr = f.sections[k].vaddr /\ l[k].vsize = f.sections[k].vsize
                      /\ l[k].sizeRaw = f.sections[k].sizeRaw
                      /\ l[k].characteristics = f.sections[k].characteristics
  BY SectionFields
<1> HIDE DEF l, rva, n
<1>5. holding = Holding(l, rva, n)
  BY <1>1, <1>2, <1>3, <1>4, Inside DEF Holding
<1>6. executable = Executable(l, n)
  BY <1>2, <1>4, FilesAssumption DEF Executable, Has, NamesByValue
<1>7. Info!ChosenSection(f.sections, rva)
          = IF holding # {} THEN Max(holding)
            ELSE IF executable # {} THEN Min(executable) ELSE NONE
  BY SameOperators, Zenon DEF Info!ChosenSection
<1> HIDE DEF holding, executable
<1>8. Chosen(l, rva) = IF holding # {} THEN Max(holding)
                       ELSE IF executable # {} THEN Min(executable) ELSE NONE
  BY <1>2, <1>5, <1>6 DEF Chosen, FirstOf
<1>9. holding \in SUBSET (1..n) /\ executable \in SUBSET (1..n)
  BY <1>2, <1>5, <1>6, KindsInside
<1>10. /\ holding # {} => Max(holding) \in 1..n
       /\ executable # {} => Min(executable) \in 1..n
  BY <1>2, <1>9, MaxExists, MinExists
<1> QED
  BY <1>7, <1>8, <1>10 DEF l, rva, n

\* The kinds of all sections by the sections of the file.
LEMMA KindsOfAll ==
    ASSUME NEW f \in Files
    PROVE  LET l == ListSections(f)
               n == Len(l)
               Flag(s, c) == s.characteristics \cap Characteristics[c] # {}
           IN  /\ ZeroSize(l, n) = { k \in DOMAIN f.sections : f.sections[k].sizeRaw = 0 }
               /\ EmptyName(l, n) = { k \in DOMAIN f.sections : Trimmed[f.sections[k].raw] = EMPTY }
               /\ ReadableAndExecutable(l, n) =
                     { k \in DOMAIN f.sections :
                          Flag(f.sections[k], "MEM_READ") /\ Flag(f.sections[k], "MEM_EXECUTE") }
               /\ Writable(l, n) = { k \in DOMAIN f.sections : Flag(f.sections[k], "MEM_WRITE") }
<1> DEFINE l == ListSections(f)
           n == Len(l)
<1>1. n = Len(f.sections) /\ DOMAIN f.sections = 1..n
  BY SectionsListed
<1>2. \A k \in 1..n : /\ l[k].name = Trimmed[f.sections[k].raw]
                      /\ l[k].sizeRaw = f.sections[k].sizeRaw
                      /\ l[k].characteristics = f.sections[k].characteristics
  BY <1>1, SectionFields
<1> HIDE DEF l, n
<1>3. /\ ZeroSize(l, n) = { k \in DOMAIN f.sections : f.sections[k].sizeRaw = 0 }
      /\ EmptyName(l, n) = { k \in DOMAIN f.sections : Trimmed[f.sections[k].raw] = EMPTY }
  BY <1>1, <1>2 DEF ZeroSize, EmptyName
<1>4. \A k \in 1..n : \A c \in {"MEM_READ", "MEM_WRITE", "MEM_EXECUTE"} :
         Has(l[k], c) <=> f.sections[k].characteristics \cap Characteristics[c] # {}
  BY <1>2, FilesAssumption DEF Has, NamesByValue
<1> QED
  BY <1>1, <1>3, <1>4 DEF ReadableAndExecutable, Writable, l, n

-----------------------------------------------------------------------------
(* The regions of a file *)

\* The regions that are more than one field, as Features has them.
SectionHashes(f) ==
    [size |-> [k \in DOMAIN f.sections |-> <<SectionNames(f)[k], f.sections[k].sizeRaw>>],
     vsize |-> [k \in DOMAIN f.sections |-> <<SectionNames(f)[k], f.sections[k].vsize>>],
     entropy |-> [k \in DOMAIN f.sections |-> <<SectionNames(f)[k], f.sections[k].entropy>>],
     characteristics |-> FlattenSeq([k \in DOMAIN f.sections |->
         SetToSeq({SectionNames(f)[k]} \X NamesByValue(f.sections[k].characteristics))]),
     entryName |-> EntryName(f)]

ImportsOf(f) ==
    [numFunctions |-> Len(ImportedNames(f)), numLibraries |-> Len(f.imports),
     libraries |-> Hash(FALSE, [k \in DOMAIN f.imports |-> <<Lower[f.imports[k].name], 1>>]),
     functions |-> Hash(FALSE, ImportedNames(f))]

ExportsOf(f) ==
    [number |-> NumExportedFunctions,
     functions |-> Hash(TRUE, [k \in DOMAIN f.exports |->
         << IF f.exports[k].name = EMPTY THEN OrdinalName[f.exports[k].ordinal]
            ELSE Cut[f.exports[k].name], 1 >>])]

DirectoriesOf(f) ==
    [c \in 0..(VectorDim - 1) |->
        IF c >= 2 * Len(f.directories) THEN 0
        ELSE IF c % 2 = 0 THEN f.directories[c \div 2 + 1].size
        ELSE f.directories[c \div 2 + 1].rva]

RichOf(f) ==
    [pairs |-> IF Len(f.dwords) < 8 THEN 0 ELSE Len(f.dwords) \div 2 - 3,
     hashed |-> Hash(TRUE, [k \in 1..(Len(f.dwords) \div 2) |->
                              <<f.dwords[2 * k - 1], f.dwords[2 * k]>>])]

\* What is not a PE file leaves zeros; else each region has its features.
LEMMA FeaturesAre ==
    ASSUME NEW f \in Files
    PROVE  LET F == Features(f)
           IN  /\ DOMAIN F = Regions \ {"sectionExtremes"}
               /\ F = [r \in Regions \ {"sectionExtremes"} |-> F[r]]
               /\ ~f.isPE => \A r \in Regions \ {"sectionExtremes"} : F[r] = Zero
               /\ F["header"] = Header(f)
               /\ f.isPE =>
                    /\ F["section"] = SectionNumbers(f) /\ F["sectionHashes"] = SectionHashes(f)
                    /\ F["imports"] = IF HasImportDirectory(f) THEN ImportsOf(f) ELSE Zero
                    /\ F["exports"] = IF HasExportDirectory(f) THEN ExportsOf(f) ELSE Zero
                    /\ F["datadirectories"] = DirectoriesOf(f)
                    /\ F["relocations"] = <<f.relocs, f.configuration /\ f.dynamicRelocs > 0>>
                    /\ F["richheader"] = IF f.hasRich /\ Len(f.dwords) >= 2 THEN RichOf(f) ELSE Zero
<1> DEFINE F == Features(f)
<1>1. DOMAIN F = Regions \ {"sectionExtremes"} /\ F = [r \in Regions \ {"sectionExtremes"} |-> F[r]]
  BY Zenon DEF Features
<1>2. ASSUME ~f.isPE, NEW r \in Regions \ {"sectionExtremes"} PROVE F[r] = Zero
  BY <1>2, Zenon DEF Features
<1>3. F["header"] = Header(f)
  BY DEF Features, Regions, Header
<1>4. ASSUME f.isPE PROVE F["section"] = SectionNumbers(f)
  BY <1>4 DEF Features, Regions
<1>5. ASSUME f.isPE PROVE F["sectionHashes"] = SectionHashes(f)
  BY <1>5 DEF Features, Regions, SectionHashes, Named
<1>6. ASSUME f.isPE
      PROVE  F["imports"] = IF HasImportDirectory(f) THEN ImportsOf(f) ELSE Zero
  BY <1>6 DEF Features, Regions, ImportsOf
<1>7. ASSUME f.isPE
      PROVE  F["exports"] = IF HasExportDirectory(f) THEN ExportsOf(f) ELSE Zero
  BY <1>7 DEF Features, Regions, ExportsOf
<1>8. ASSUME f.isPE PROVE F["datadirectories"] = DirectoriesOf(f)
  BY <1>8 DEF Features, Regions, DirectoriesOf
<1>9. ASSUME f.isPE PROVE F["relocations"] = <<f.relocs, f.configuration /\ f.dynamicRelocs > 0>>
  BY <1>9 DEF Features, Regions
<1>10. ASSUME f.isPE
       PROVE  F["richheader"] = IF f.hasRich /\ Len(f.dwords) >= 2 THEN RichOf(f) ELSE Zero
  BY <1>10 DEF Features, Regions, RichOf
<1> HIDE DEF F
<1> QED
  BY <1>1, <1>2, <1>3, <1>4, <1>5, <1>6, <1>7, <1>8, <1>9, <1>10 DEF F

\* What is written of the counts of all sections is as the file has it.
LEMMA NumbersOfAll ==
    ASSUME NEW f \in Files
    PROVE  LET l == ListSections(f)
           IN  << Len(l),
                  [zeroSize |-> Cardinality(ZeroSize(l, Len(l))),
                   emptyName |-> Cardinality(EmptyName(l, Len(l))),
                   readableAndExecutable |-> Cardinality(ReadableAndExecutable(l, Len(l))),
                   writable |-> Cardinality(Writable(l, Len(l)))],
                  f.overlaySize, Info!OverlayRatio(f), Info!OverlayEntropy(f) >>
               = SectionNumbers(f)
<1> DEFINE l == ListSections(f)
           n == Len(l)
           Flag(s, c) == s.characteristics \cap Characteristics[c] # {}
           zero == { k \in DOMAIN f.sections : f.sections[k].sizeRaw = 0 }
           empty == { k \in DOMAIN f.sections : Trimmed[f.sections[k].raw] = EMPTY }
           both == { k \in DOMAIN f.sections :
                        Flag(f.sections[k], "MEM_READ") /\ Flag(f.sections[k], "MEM_EXECUTE") }
           written == { k \in DOMAIN f.sections : Flag(f.sections[k], "MEM_WRITE") }
<1>1. n = Len(f.sections)
  BY SectionsListed
<1>2. /\ ZeroSize(l, n) = zero /\ EmptyName(l, n) = empty
      /\ ReadableAndExecutable(l, n) = both /\ Writable(l, n) = written
  BY KindsOfAll
<1>3. SectionNumbers(f) =
          << Len(f.sections),
             [zeroSize |-> Cardinality(zero), emptyName |-> Cardinality(empty),
              readableAndExecutable |-> Cardinality(both), writable |-> Cardinality(written)],
             f.overlaySize, Ratio(f.overlaySize, f.size),
             IF f.overlaySize > 0 THEN f.overlayEntropy ELSE 0 >>
  BY Zenon DEF SectionNumbers
<1> HIDE DEF l, n, zero, empty, both, written
<1>4. /\ Info!OverlayRatio(f) = Ratio(f.overlaySize, f.size)
      /\ Info!OverlayEntropy(f) = IF f.overlaySize > 0 THEN f.overlayEntropy ELSE 0
  BY DEF Info!OverlayRatio, Info!OverlayEntropy, Info!Ratio, Ratio
<1>5. << n, [zeroSize |-> Cardinality(ZeroSize(l, n)), emptyName |-> Cardinality(EmptyName(l, n)),
             readableAndExecutable |-> Cardinality(ReadableAndExecutable(l, n)),
             writable |-> Cardinality(Writable(l, n))],
         f.overlaySize, Info!OverlayRatio(f), Info!OverlayEntropy(f) >> = SectionNumbers(f)
  BY <1>1, <1>2, <1>3, <1>4, Zenon
<1> QED
  BY <1>5 DEF n, l

\* What the hashers were given of all sections is as the file has it.
LEMMA HashesOfAll ==
    ASSUME NEW f \in Files
    PROVE  LET l == ListSections(f)
               chosen == Chosen(l, Entrypoint(f))
           IN  [size |-> Sizes(l, Len(l)), vsize |-> VSizes(l, Len(l)),
                entropy |-> Entropies(l, Len(l)), characteristics |-> Flags(l, Len(l)),
                entryName |-> IF chosen = NONE THEN <<>> ELSE <<l[chosen].name>>]
               = SectionHashes(f)
<1> DEFINE l == ListSections(f)
           n == Len(l)
           chosen == Chosen(l, Entrypoint(f))
           names == SectionNames(f)
<1>1. n = Len(f.sections) /\ DOMAIN f.sections = 1..n
  BY SectionsListed
<1>2. \A k \in 1..n : /\ l[k].name = Trimmed[f.sections[k].raw]
                      /\ l[k].sizeRaw = f.sections[k].sizeRaw
                      /\ l[k].vsize = f.sections[k].vsize
                      /\ l[k].entropy = f.sections[k].entropy
                      /\ l[k].characteristics = f.sections[k].characteristics
  BY <1>1, SectionFields
<1>3. chosen = Info!ChosenSection(f.sections, Entrypoint(f)) /\ chosen \in 1..n \cup {NONE}
  BY <1>1, ChosenIs
<1>4. \A k \in 1..n : names[k] = Trimmed[f.sections[k].raw]
  BY <1>1 DEF SectionNames
<1> HIDE DEF l, n, chosen, names
<1>5. \A k \in 1..n : names[k] = l[k].name
  BY <1>2, <1>4
<1>6. Sizes(l, n) = [k \in DOMAIN f.sections |-> <<names[k], f.sections[k].sizeRaw>>]
  BY <1>1, <1>2, <1>5, Zenon DEF Sizes
<1>7. VSizes(l, n) = [k \in DOMAIN f.sections |-> <<names[k], f.sections[k].vsize>>]
  BY <1>1, <1>2, <1>5, Zenon DEF VSizes
<1>8. Entropies(l, n) = [k \in DOMAIN f.sections |-> <<names[k], f.sections[k].entropy>>]
  BY <1>1, <1>2, <1>5, Zenon DEF Entropies
<1>9. Flags(l, n) = FlattenSeq([k \in DOMAIN f.sections |->
                       SetToSeq({names[k]} \X NamesByValue(f.sections[k].characteristics))])
  <2>1. \A k \in 1..n : FlagNames(l[k])
                          = SetToSeq({names[k]} \X NamesByValue(f.sections[k].characteristics))
    BY <1>2, <1>5 DEF FlagNames
  <2>2. [ k \in 1..n |-> FlagNames(l[k]) ]
            = [k \in DOMAIN f.sections |->
                       SetToSeq({names[k]} \X NamesByValue(f.sections[k].characteristics))]
    BY <1>1, <2>1, Zenon
  <2> QED
    BY <2>2 DEF Flags
<1>10. EntryName(f) = IF chosen = NONE THEN <<>> ELSE <<names[chosen]>>
  BY <1>3, Zenon DEF EntryName, names
<1>11. EntryName(f) = IF chosen = NONE THEN <<>> ELSE <<l[chosen].name>>
  <2>1. CASE chosen = NONE
    BY <1>10, <2>1
  <2>2. CASE chosen # NONE
    BY <1>3, <1>5, <1>10, <2>2
  <2> QED
    BY <2>1, <2>2
<1>12. [size |-> Sizes(l, n), vsize |-> VSizes(l, n), entropy |-> Entropies(l, n),
        characteristics |-> Flags(l, n),
        entryName |-> IF chosen = NONE THEN <<>> ELSE <<l[chosen].name>>] = SectionHashes(f)
  BY <1>6, <1>7, <1>8, <1>9, <1>11, Zenon DEF SectionHashes, names
<1> QED
  BY <1>12 DEF l, n, chosen

-----------------------------------------------------------------------------
(* Imports *)

\* PEFile has the imported libraries and functions of the file in their order, and
\* their names are those of the file.
LEMMA ImportsListed ==
    ASSUME NEW f \in Files
    PROVE  LET libs == ListImports(f)
           IN  /\ Len(libs) = Len(f.imports) /\ Len(libs) \in Nat
               /\ DOMAIN f.imports = 1..Len(libs)
               /\ \A k \in 1..Len(libs) :
                    /\ libs[k].dllName = Lower[f.imports[k].name]
                    /\ Len(libs[k].functions) \in Nat
                    /\ DOMAIN f.imports[k].entries = 1..Len(libs[k].functions)
                    /\ \A i \in 1..Len(libs[k].functions) :
                          NameOf(libs[k].functions[i]) = ImportName(f.imports[k].entries[i])
<1> DEFINE libs == ListImports(f)
           I == [name : RawNames, entries : Seq(Entries)]
           n == Len(f.imports)
<1>1. f.imports \in Seq(I)
  BY FilesAssumption
<1> HIDE DEF I
<1>0. n \in Nat /\ DOMAIN f.imports = 1..n /\ \A k \in 1..n : f.imports[k] \in I
  BY <1>1
<1>2. n \in Nat /\ DOMAIN f.imports = 1..n /\ \A k \in 1..n : f.imports[k].entries \in Seq(Entries)
  BY <1>0 DEF I
<1>3. libs = [k \in 1..n |-> libs[k]]
  BY <1>2, Zenon DEF ListImports
<1>4. Len(libs) = n
  BY <1>2, <1>3
<1>5. ASSUME NEW k \in 1..n
      PROVE  /\ libs[k].dllName = Lower[f.imports[k].name]
             /\ Len(libs[k].functions) \in Nat
             /\ DOMAIN f.imports[k].entries = 1..Len(libs[k].functions)
             /\ \A i \in 1..Len(libs[k].functions) :
                  NameOf(libs[k].functions[i]) = ImportName(f.imports[k].entries[i])
  <2> DEFINE e == f.imports[k].entries
             fns == [i \in DOMAIN e |-> ImportFunction(e[i])]
             m == Len(e)
  <2>1. libs[k] = [dllName |-> Lower[f.imports[k].name], functions |-> fns]
    BY <1>2, Zenon DEF ListImports
  <2>2. e \in Seq(Entries)
    BY <1>2
  <2> HIDE DEF e
  <2>3. m \in Nat /\ DOMAIN e = 1..m /\ \A i \in 1..m : e[i] \in Entries
    BY <2>2
  <2>4. fns = [i \in 1..m |-> ImportFunction(e[i])]
    BY <2>3
  <2>5. Len(fns) = m
    BY <2>3, <2>4
  <2>6. \A i \in 1..m : fns[i] = ImportFunction(e[i])
    BY <2>4
  <2>7. \A i \in 1..m : NameOf(ImportFunction(e[i])) = ImportName(e[i])
    BY <2>3 DEF Entries, NameOf, ImportFunction, ImportName
  <2> HIDE DEF fns, m
  <2>8. libs[k].dllName = Lower[f.imports[k].name] /\ libs[k].functions = fns
    BY <2>1
  <2> QED
    BY <2>3, <2>5, <2>6, <2>7, <2>8 DEF e
<1> QED
  BY <1>2, <1>4, <1>5

\* The names that are given for the libraries of libs.
GivenNames(libs) ==
    UNION { { << <<libs[k].dllName, NameOf(libs[k].functions[i])>>, 1 >> :
                i \in 1..Len(libs[k].functions) } : k \in 1..Len(libs) }

\* The names of the functions of a library, and one more.
LEMMA FunctionNamesMore ==
    ASSUME NEW f \in Files, NEW k \in 1..Len(ListImports(f)),
           NEW n \in 0..Len(ListImports(f)[k].functions)
    PROVE  LET libs == ListImports(f)
               b == libs[k]
           IN  /\ FunctionNames(b, n) \in Seq(GivenNames(libs))
               /\ Len(FunctionNames(b, n)) = n
               /\ FunctionNames(b, 0) = <<>>
               /\ n + 1 <= Len(b.functions) =>
                    /\ << <<b.dllName, NameOf(b.functions[n + 1])>>, 1 >> \in GivenNames(libs)
                    /\ FunctionNames(b, n + 1)
                          = Append(FunctionNames(b, n),
                                   << <<b.dllName, NameOf(b.functions[n + 1])>>, 1 >>)
<1> DEFINE libs == ListImports(f)
           b == libs[k]
           A == GivenNames(libs)
           F == [ i \in 1..(n + 1) |-> << <<b.dllName, NameOf(b.functions[i])>>, 1 >> ]
<1>1. Len(b.functions) \in Nat /\ n \in Nat
  BY ImportsListed
<1>2. \A i \in 1..Len(b.functions) : << <<b.dllName, NameOf(b.functions[i])>>, 1 >> \in A
  BY DEF GivenNames
<1>3. /\ FunctionNames(b, n) = FirstOnes(F, n) /\ FunctionNames(b, n + 1) = FirstOnes(F, n + 1)
      /\ F[n + 1] = << <<b.dllName, NameOf(b.functions[n + 1])>>, 1 >>
  BY <1>1 DEF FunctionNames, FirstOnes
<1>4. FunctionNames(b, n) \in [1..n -> A]
  BY <1>1, <1>2 DEF FunctionNames
<1>5. FunctionNames(b, 0) = <<>>
  BY DEF FunctionNames
<1> HIDE DEF F, A, b
<1>6. FirstOnes(F, n + 1) = Append(FirstOnes(F, n), F[n + 1]) /\ Len(FirstOnes(F, n)) = n
  BY <1>1, FirstOnesMore
<1>7. FunctionNames(b, n) \in Seq(A)
  BY <1>1, <1>4
<1> QED
  BY <1>1, <1>2, <1>3, <1>5, <1>6, <1>7 DEF A, b

\* The names of the functions of all libraries up to one, and of one more.
LEMMA NamesMore ==
    ASSUME NEW f \in Files, NEW n \in 0..Len(ListImports(f))
    PROVE  LET libs == ListImports(f)
           IN  /\ NamesOf(libs, n) \in Seq(GivenNames(libs))
               /\ NamesOf(libs, 0) = <<>>
               /\ n + 1 <= Len(libs) =>
                    NamesOf(libs, n + 1)
                        = NamesOf(libs, n) \o FunctionNames(libs[n + 1], Len(libs[n + 1].functions))
<1> DEFINE libs == ListImports(f)
           A == GivenNames(libs)
           F == [ k \in 1..Len(libs) |-> FunctionNames(libs[k], Len(libs[k].functions)) ]
<1>1. Len(libs) \in Nat /\ n \in Nat
  BY ImportsListed
<1>2. ASSUME NEW k \in 1..Len(libs) PROVE F[k] \in Seq(A)
  <2>1. Len(libs[k].functions) \in 0..Len(libs[k].functions)
    BY ImportsListed
  <2>2. FunctionNames(libs[k], Len(libs[k].functions)) \in Seq(A)
    BY <2>1, FunctionNamesMore
  <2> QED
    BY <2>2
<1>3. NamesOf(libs, 0) = <<>>
  BY DEF NamesOf, FlattenSeq
<1>4. FirstOnes(F, n) = [ k \in 1..n |-> FunctionNames(libs[k], Len(libs[k].functions)) ]
  BY <1>1 DEF FirstOnes
<1>5. NamesOf(libs, n) = FlattenSeq(FirstOnes(F, n))
  BY <1>4 DEF NamesOf
<1>6. CASE n + 1 <= Len(libs)
  <2>1. FirstOnes(F, n + 1)
            = [ k \in 1..(n + 1) |-> FunctionNames(libs[k], Len(libs[k].functions)) ]
    BY <1>1, <1>6 DEF FirstOnes
  <2>2. NamesOf(libs, n + 1) = FlattenSeq(FirstOnes(F, n + 1))
    BY <2>1 DEF NamesOf
  <2>3. F[n + 1] = FunctionNames(libs[n + 1], Len(libs[n + 1].functions))
    BY <1>1, <1>6
  <2> HIDE DEF F, A, libs
  <2>4. \A k \in 1..(n + 1) : F[k] \in Seq(A)
    BY <1>1, <1>2, <1>6
  <2>5. /\ FlattenSeq(FirstOnes(F, n)) \in Seq(A)
        /\ FlattenSeq(FirstOnes(F, n + 1)) = FlattenSeq(FirstOnes(F, n)) \o F[n + 1]
    BY <1>1, <2>4, FlattenMore
  <2> QED
    BY <1>3, <1>5, <2>2, <2>3, <2>5 DEF A, libs
<1>7. CASE ~(n + 1 <= Len(libs))
  <2> HIDE DEF F, A, libs
  <2>1. CASE n = 0
    <3>1. NamesOf(libs, n) \in Seq(A)
      BY <1>3, <2>1, EmptySeq
    <3> QED
      BY <1>3, <1>7, <3>1 DEF A, libs
  <2>2. CASE n # 0
    <3>1. n - 1 \in Nat /\ (n - 1) + 1 = n /\ \A k \in 1..n : F[k] \in Seq(A)
      BY <1>1, <1>2, <2>2 DEF libs
    <3> DEFINE m == n - 1
    <3>2. m \in Nat /\ m + 1 = n
      BY <3>1
    <3> HIDE DEF m
    <3>3. \A k \in 1..(m + 1) : F[k] \in Seq(A)
      BY <3>1, <3>2
    <3>4. /\ FlattenSeq(FirstOnes(F, m)) \in Seq(A)
          /\ FlattenSeq(FirstOnes(F, m + 1)) = FlattenSeq(FirstOnes(F, m)) \o F[m + 1]
      BY <3>2, <3>3, FlattenMore
    <3>5. F[m + 1] \in Seq(A)
      BY <3>2, <3>3
    <3>6. FlattenSeq(FirstOnes(F, m)) \o F[m + 1] \in Seq(A)
      BY <3>4, <3>5, ConcatProperties
    <3> QED
      BY <1>3, <1>5, <1>7, <3>2, <3>4, <3>6 DEF A, libs
  <2> QED
    BY <2>1, <2>2
<1> QED
  BY <1>6, <1>7

\* The names of all libraries and functions are those of the file.
LEMMA NamesOfAll ==
    ASSUME NEW f \in Files
    PROVE  LET libs == ListImports(f)
           IN  /\ NamesOf(libs, Len(libs)) = ImportedNames(f)
               /\ FirstLibraries(libs, Len(libs))
                     = [k \in DOMAIN f.imports |-> <<Lower[f.imports[k].name], 1>>]
<1> DEFINE libs == ListImports(f)
           n == Len(libs)
<1>1. /\ DOMAIN f.imports = 1..n
      /\ \A k \in 1..n :
           /\ libs[k].dllName = Lower[f.imports[k].name]
           /\ DOMAIN f.imports[k].entries = 1..Len(libs[k].functions)
           /\ \A i \in 1..Len(libs[k].functions) :
                NameOf(libs[k].functions[i]) = ImportName(f.imports[k].entries[i])
  BY ImportsListed
<1> HIDE DEF libs, n
<1>2. \A k \in 1..n : FunctionNames(libs[k], Len(libs[k].functions))
                        = [i \in DOMAIN f.imports[k].entries |->
                            << <<Lower[f.imports[k].name], ImportName(f.imports[k].entries[i])>>, 1 >>]
  BY <1>1, Zenon DEF FunctionNames
<1>3. [ k \in 1..n |-> FunctionNames(libs[k], Len(libs[k].functions)) ]
          = [k \in DOMAIN f.imports |->
                [i \in DOMAIN f.imports[k].entries |->
                    << <<Lower[f.imports[k].name], ImportName(f.imports[k].entries[i])>>, 1 >>]]
  BY <1>1, <1>2, Zenon
<1>4. NamesOf(libs, n) = ImportedNames(f)
  BY <1>3, Zenon DEF NamesOf, ImportedNames
<1>5. FirstLibraries(libs, n) = [k \in DOMAIN f.imports |-> <<Lower[f.imports[k].name], 1>>]
  BY <1>1, Zenon DEF FirstLibraries
<1> QED
  BY <1>4, <1>5 DEF libs, n

-----------------------------------------------------------------------------
(* Exports, data directories and rich header *)

\* The names of the exported functions, one after the other and all.
LEMMA ExportsMore ==
    ASSUME NEW f \in Files, NEW n \in Nat
    PROVE  /\ Len(f.exports) \in Nat
           /\ FirstExports(f, 0) = <<>>
           /\ FirstExports(f, n + 1) = Append(FirstExports(f, n), <<NameOf(f.exports[n + 1]), 1>>)
           /\ [number |-> NumExportedFunctions,
               functions |-> Hash(TRUE, FirstExports(f, Len(f.exports)))] = ExportsOf(f)
<1> DEFINE F == [ k \in 1..(n + 1) |-> <<NameOf(f.exports[k]), 1>> ]
           E == [name : RawNames, ordinal : Nat]
           m == Len(f.exports)
<1>1. f.exports \in Seq(E)
  BY FilesAssumption
<1> HIDE DEF E
<1>2. m \in Nat /\ DOMAIN f.exports = 1..m
  BY <1>1
<1>3. /\ FirstExports(f, n) = FirstOnes(F, n) /\ FirstExports(f, n + 1) = FirstOnes(F, n + 1)
      /\ F[n + 1] = <<NameOf(f.exports[n + 1]), 1>>
  BY DEF FirstExports, FirstOnes
<1>4. FirstExports(f, 0) = <<>>
  BY DEF FirstExports
<1> HIDE DEF F
<1>5. FirstOnes(F, n + 1) = Append(FirstOnes(F, n), F[n + 1])
  BY FirstOnesMore
<1>6. \A k \in 1..m :
         NameOf(f.exports[k]) = IF f.exports[k].name = EMPTY THEN OrdinalName[f.exports[k].ordinal]
                                ELSE Cut[f.exports[k].name]
  BY DEF NameOf
<1> HIDE DEF m
<1>7. FirstExports(f, m)
          = [k \in DOMAIN f.exports |->
               << IF f.exports[k].name = EMPTY THEN OrdinalName[f.exports[k].ordinal]
                  ELSE Cut[f.exports[k].name], 1 >>]
  BY <1>2, <1>6, Zenon DEF FirstExports
<1>8. [number |-> NumExportedFunctions, functions |-> Hash(TRUE, FirstExports(f, m))] = ExportsOf(f)
  BY <1>7, Zenon DEF ExportsOf
<1> QED
  BY <1>2, <1>3, <1>4, <1>5, <1>8 DEF m

\* The bytes after the double words of the rich header make no pair.
LEMMA RichSize ==
    ASSUME NEW f \in Files
    PROVE  /\ RichHeaderSize(f) \div 4 = Len(f.dwords) /\ Len(f.dwords) \in Nat
           /\ NumPairs(f) = Len(f.dwords) \div 2 /\ NumPairs(f) \in Nat
           /\ HasRichHeader(f) /\ Len(f.dwords) >= 2 <=> f.isPE /\ f.hasRich /\ Len(f.dwords) >= 2
           /\ Len(f.dwords) >= 2 =>
                Max({0, NumPairs(f) - 3})
                   = IF Len(f.dwords) < 8 THEN 0 ELSE Len(f.dwords) \div 2 - 3
<1> DEFINE n == Len(f.dwords)
           m == f.moreBytes
<1>1. n \in Nat /\ m \in 0..3 /\ f.isPE \in BOOLEAN /\ f.hasRich \in BOOLEAN
  BY FilesAssumption
<1>2. RichHeaderSize(f) = 4 * n + m
  BY DEF RichHeaderSize
<1> HIDE DEF n, m
<1>3. (4 * n + m) \div 4 = n
  BY <1>1
<1>4. NumPairs(f) = n \div 2
  BY <1>2, <1>3 DEF NumPairs
<1>5. n \div 2 \in Nat
  BY <1>1
<1>6. HasRichHeader(f) /\ n >= 2 <=> f.isPE /\ f.hasRich /\ n >= 2
  BY <1>1, <1>2 DEF HasRichHeader
<1>7. Max({0, n \div 2 - 3}) = IF n < 8 THEN 0 ELSE n \div 2 - 3
  <2> DEFINE p == n \div 2 - 3
             S == {0, p}
  <2>1. p \in Int /\ (n < 8 => p <= 0) /\ (~(n < 8) => p >= 0)
    BY <1>1
  <2> HIDE DEF p
  <2>2. CASE n < 8
    <3>1. \A y \in S : 0 >= y
      BY <2>1, <2>2
    <3>2. Max(S) \in S /\ \A y \in S : Max(S) >= y
      BY <3>1 DEF Max
    <3> QED
      BY <2>1, <2>2, <3>2 DEF p
  <2>3. CASE ~(n < 8)
    <3>1. \A y \in S : p >= y
      BY <2>1, <2>3
    <3>2. Max(S) \in S /\ \A y \in S : Max(S) >= y
      BY <3>1 DEF Max
    <3>3. Max(S) = p
      BY <2>1, <2>3, <3>2
    <3> QED
      BY <2>3, <3>3 DEF p
  <2> QED
    BY <2>2, <2>3
<1> QED
  BY <1>1, <1>2, <1>3, <1>4, <1>5, <1>6, <1>7 DEF n

\* The pairs of the rich header, one after the other and all.
LEMMA PairsMore ==
    ASSUME NEW f \in Files, NEW n \in Nat
    PROVE  /\ FirstPairs(f, 0) = <<>>
           /\ FirstPairs(f, n + 1)
                 = Append(FirstPairs(f, n), <<f.dwords[2 * (n + 1) - 1], f.dwords[2 * (n + 1)]>>)
<1> DEFINE F == [ k \in 1..(n + 1) |-> <<f.dwords[2 * k - 1], f.dwords[2 * k]>> ]
<1>1. /\ FirstPairs(f, n) = FirstOnes(F, n) /\ FirstPairs(f, n + 1) = FirstOnes(F, n + 1)
      /\ F[n + 1] = <<f.dwords[2 * (n + 1) - 1], f.dwords[2 * (n + 1)]>>
  BY DEF FirstPairs, FirstOnes
<1>2. FirstPairs(f, 0) = <<>>
  BY DEF FirstPairs
<1> HIDE DEF F
<1>3. FirstOnes(F, n + 1) = Append(FirstOnes(F, n), F[n + 1])
  BY FirstOnesMore
<1> QED
  BY <1>1, <1>2, <1>3

\* The directories with a name fill the cells of the region up to its end; where
\* the file has fewer the others are zero.
LEMMA DirectoriesAre ==
    ASSUME NEW f \in Files
    PROVE  LET written == { d \in ToSet(ListDirectories(f)) : Fits(d) }
               cells == UNION { {2 * d.index, 2 * d.index + 1} : d \in written }
           IN  [c \in cells \cup 0..(VectorDim - 1) |->
                  IF c \in cells THEN Cell(CHOOSE d \in written : d.index = c \div 2, c) ELSE 0]
               = DirectoriesOf(f)
<1> DEFINE list == ListDirectories(f)
           n == Len(f.directories)
           m == Min({n, NumDirectoryNames})
           D(i) == [index |-> i, virtualAddress |-> f.directories[i + 1].rva,
                    size |-> f.directories[i + 1].size]
           written == { d \in ToSet(list) : Fits(d) }
           cells == UNION { {2 * d.index, 2 * d.index + 1} : d \in written }
           Value(c) == IF c \in cells THEN Cell(CHOOSE d \in written : d.index = c \div 2, c) ELSE 0
<1>1. n \in Nat /\ NumDirectoryNames \in Nat /\ VectorDim = 2 * NumDirectoryNames
  BY FilesAssumption, VectorAssumption
<1>2. m \in Nat /\ m <= n /\ m <= NumDirectoryNames /\ (m = n \/ m = NumDirectoryNames)
  <2>1. {n, NumDirectoryNames} \in SUBSET Nat /\ {n, NumDirectoryNames} # {}
    BY <1>1
  <2>2. \E x \in {n, NumDirectoryNames} : \A k \in {n, NumDirectoryNames} : x =< k
    BY <2>1, LeastNumber
  <2>3. m \in {n, NumDirectoryNames} /\ \A k \in {n, NumDirectoryNames} : m =< k
    BY <2>2 DEF Min
  <2> HIDE DEF n, m
  <2> QED
    BY <1>1, <2>3
<1>3. ToSet(list) = { D(i) : i \in 0..(m - 1) }
  <2>1. list = [k \in 1..m |-> [index |-> k - 1, virtualAddress |-> f.directories[k].rva,
                                size |-> f.directories[k].size]]
    BY DEF ListDirectories
  <2> HIDE DEF list, m, n
  <2>2. ASSUME NEW k \in 1..m
        PROVE  list[k] = D(k - 1) /\ k - 1 \in 0..(m - 1)
    BY <1>2, <2>1
  <2>3. ASSUME NEW i \in 0..(m - 1)
        PROVE  i + 1 \in 1..m /\ (i + 1) - 1 = i /\ list[i + 1] = D(i)
    BY <1>2, <2>1
  <2>4. ToSet(list) = { list[k] : k \in 1..m }
    BY <2>1 DEF ToSet
  <2> HIDE DEF D
  <2> QED
    BY <2>2, <2>3, <2>4
<1> HIDE DEF list, n, m
<1>4. \A i \in 0..(m - 1) : Fits(D(i)) /\ D(i).index = i
  BY <1>1, <1>2 DEF Fits
<1>5. written = { D(i) : i \in 0..(m - 1) }
  BY <1>3, <1>4
<1> HIDE DEF written
<1>6. \A d \in written : d.index \in 0..(m - 1) /\ d = D(d.index)
  BY <1>4, <1>5
<1>7. cells = 0..(2 * m - 1)
  <2>1. ASSUME NEW c \in cells PROVE c \in 0..(2 * m - 1)
    BY <1>2, <1>6
  <2>2. ASSUME NEW c \in 0..(2 * m - 1) PROVE c \in cells
    <3> DEFINE i == c \div 2
    <3>1. i \in 0..(m - 1) /\ (c = 2 * i \/ c = 2 * i + 1)
      BY <1>2
    <3> HIDE DEF i
    <3>2. D(i) \in written /\ D(i).index = i
      BY <1>4, <1>5, <3>1
    <3> HIDE DEF D
    <3> QED
      BY <3>1, <3>2
  <2> QED
    BY <2>1, <2>2
<1> HIDE DEF cells
<1>8. cells \cup 0..(VectorDim - 1) = 0..(VectorDim - 1)
  BY <1>1, <1>2, <1>7
<1>9. ASSUME NEW c \in 0..(VectorDim - 1)
      PROVE  Value(c) = IF c >= 2 * n THEN 0
                        ELSE IF c % 2 = 0 THEN f.directories[c \div 2 + 1].size
                        ELSE f.directories[c \div 2 + 1].rva
  <2>1. CASE c >= 2 * n
    BY <1>1, <1>2, <1>7, <2>1
  <2>2. CASE ~(c >= 2 * n)
    <3> DEFINE i == c \div 2
               e == CHOOSE d \in written : d.index = i
    <3>1. c \in cells /\ i \in 0..(m - 1)
      BY <1>1, <1>2, <1>7, <2>2
    <3>2. (c % 2 = 0) <=> (c = 2 * i)
      BY <1>1
    <3> HIDE DEF i
    <3>3. D(i) \in written /\ D(i).index = i
      BY <1>4, <1>5, <3>1
    <3>4. e \in written /\ e.index = i
      BY <3>3
    <3>5. e = D(i)
      BY <1>6, <3>4
    <3> HIDE DEF e
    <3>6. Cell(e, c) = IF c = 2 * i THEN f.directories[i + 1].size ELSE f.directories[i + 1].rva
      BY <3>5 DEF Cell
    <3>7. Value(c) = Cell(e, c)
      BY <3>1 DEF e, i
    <3> QED
      BY <2>2, <3>2, <3>6, <3>7 DEF i
  <2> QED
    BY <2>1, <2>2
<1> HIDE DEF Value
<1>10. [c \in cells \cup 0..(VectorDim - 1) |-> Value(c)] = DirectoriesOf(f)
  BY <1>8, <1>9, Zenon DEF DirectoriesOf, n
<1> QED
  BY <1>10, Zenon DEF cells, written, Value, list

-----------------------------------------------------------------------------
(* The steps of the feature types *)

\* In a run there is a file, and PEFile has it.
LEMMA InRun ==
    ASSUME SectionsInv, pc # "idle"
    PROVE  /\ file \in Files /\ peFile = Parsed(file) /\ file.isPE \in BOOLEAN
           /\ peFile.isPE <=> file.isPE
           /\ file.isPE => Secs = ListSections(file) /\ peFile.entrypointRVA = Entrypoint(file)
<1>1. file \in Files /\ peFile = Parsed(file)
  BY FilesAssumption DEF SectionsInv, FileRead
<1>2. file.isPE \in BOOLEAN
  BY <1>1, EntrypointType
<1>3. CASE file.isPE
  BY <1>1, <1>3 DEF Parsed, Secs
<1>4. CASE ~file.isPE
  <2>1. peFile = [isPE |-> FALSE, entrypointRVA |-> 0, sections |-> <<>>]
    BY <1>1, <1>4 DEF Parsed, Info!NotParsed
  <2>2. peFile.isPE = FALSE
    BY <2>1
  <2> QED
    BY <1>1, <1>2, <1>4, <2>2
<1> QED
  BY <1>1, <1>2, <1>3, <1>4

\* One hasher is changed.
LEMMA HasherChanged ==
    ASSUME NEW F, AreHashes(F), NEW h \in HasherNames, NEW new, IsHash(new),
           NEW G, G = [F EXCEPT ![h] = new]
    PROVE  AreHashes(G) /\ DOMAIN F = HasherNames
<1>1. DOMAIN F = HasherNames /\ \A k \in HasherNames : IsHash(F[k])
  BY DEF AreHashes
<1>2. F = [k \in HasherNames |-> F[k]]
  BY DEF AreHashes
<1>3. /\ DOMAIN G = HasherNames /\ G[h] = new
      /\ \A k \in HasherNames \ {h} : G[k] = F[k]
      /\ G = [k \in HasherNames |-> G[k]]
  BY <1>1, <1>2
<1>4. \A k \in HasherNames : IsHash(G[k])
  BY <1>1, <1>3
<1> QED
  BY <1>1, <1>3, <1>4 DEF AreHashes

\* What is made of a hasher.
LEMMA HasherSteps ==
    /\ \A s, g, name, weight :
          Given(Hash(s, g), name, weight) = Hash(s, Append(g, <<name, weight>>))
    /\ \A s, g : Finalized(Hash(s, g)) = Hash(s, <<>>)
    /\ \A h : Unsigned(h) = Hash(FALSE, <<>>)
    /\ NewFH = Hash(TRUE, <<>>)
    /\ \A s, g : Hash(s, g).alternateSign = s /\ Hash(s, g).given = g
    /\ \A s, g : IsHash(Hash(s, g))
<1>1. \A s, g, name, weight : Given(Hash(s, g), name, weight) = Hash(s, Append(g, <<name, weight>>))
  <2> SUFFICES ASSUME NEW s, NEW g, NEW name, NEW weight
               PROVE  Given(Hash(s, g), name, weight) = Hash(s, Append(g, <<name, weight>>))
    OBVIOUS
  <2>1. \A new : [Hash(s, g) EXCEPT !.given = new] = Hash(s, new) /\ Hash(s, g).given = g
    BY DEF Hash
  <2> QED
    BY <2>1, Zenon DEF Given
<1>2. \A s, g : Finalized(Hash(s, g)) = Hash(s, <<>>)
  BY DEF Finalized, Hash
<1>3. \A h : Unsigned(h) = Hash(FALSE, <<>>)
  <2>1. \A s, t, g : [[alternateSign |-> s, given |-> g] EXCEPT !.alternateSign = t]
                          = [alternateSign |-> t, given |-> g]
    OBVIOUS
  <2> QED
    BY <2>1, Zenon DEF Unsigned, Hash, NewFH
<1>4. \A s, g : Hash(s, g).alternateSign = s /\ Hash(s, g).given = g
  BY DEF Hash
<1>5. \A s, g : IsHash(Hash(s, g))
  BY <1>4 DEF IsHash
<1>6. NewFH = Hash(TRUE, <<>>)
  BY Zenon DEF NewFH, Hash
<1> QED
  BY <1>1, <1>2, <1>3, <1>4, <1>5, <1>6, Zenon

\* At first no hasher has been given anything, and the regions are there.
LEMMA OthersInit == ASSUME Init PROVE OthersInv
<1>1. /\ pc = "idle" /\ lib = 1 /\ func = 1 /\ numFunctions = 0
      /\ fh = [h \in HasherNames |-> NewFH] /\ output = [r \in Regions |-> Zero]
  BY DEF Init, HasherNames
<1>2. LoopsInside
  BY <1>1 DEF LoopsInside
<1>3. \A h \in HasherNames : fh[h] = Hash(TRUE, <<>>)
  BY <1>1, HasherSteps
<1>4. AreHashes(fh)
  <2>1. IsHash(Hash(TRUE, <<>>))
    BY HasherSteps, Zenon
  <2>2. \A h \in HasherNames : IsHash(fh[h])
    BY <1>3, <2>1, Zenon
  <2>3. fh = [h \in HasherNames |-> fh[h]]
    BY <1>1
  <2> QED
    BY <2>2, <2>3 DEF AreHashes
<1>5. fh.exports.alternateSign = TRUE /\ fh.pairs.alternateSign = TRUE
  BY <1>3, HasherSteps DEF HasherNames
<1>6. NamesGiven
  BY <1>1, <1>4, <1>5 DEF NamesGiven
<1>7. RegionsWritten
  BY <1>1 DEF RegionsWritten, Later, Steps
<1> QED
  BY <1>2, <1>6, <1>7 DEF OthersInv

\* After a run the hashers that are members keep what an exception left in them.
LEMMA OthersForgotten == ASSUME OthersInv, EndOfRun PROVE OthersInv'
<1>1. /\ pc' = "idle" /\ lib' = 1 /\ func' = 1 /\ numFunctions' = 0
      /\ fh' = [fh EXCEPT !.pairs = NewFH] /\ output' = output
  BY DEF EndOfRun
<1>0. NewFH = Hash(TRUE, <<>>) /\ IsHash(NewFH)
  BY HasherSteps, Zenon
<1>2. LoopsInside'
  BY <1>1 DEF LoopsInside
<1>3. AreHashes(fh') /\ fh'.pairs = NewFH /\ fh'.exports = fh.exports
  <2>1. AreHashes(fh) /\ "pairs" \in HasherNames /\ "exports" \in HasherNames
    BY DEF OthersInv, NamesGiven, HasherNames
  <2>2. AreHashes(fh') /\ DOMAIN fh = HasherNames
    BY <1>0, <1>1, <2>1, HasherChanged
  <2> QED
    BY <1>1, <2>1, <2>2
<1>4. fh'.exports.alternateSign = TRUE /\ fh'.pairs.alternateSign = TRUE
  BY <1>0, <1>3, HasherSteps DEF OthersInv, NamesGiven, HasherNames
<1>5. NamesGiven'
  BY <1>1, <1>3, <1>4 DEF NamesGiven
<1>6. RegionsWritten'
  BY <1>1 DEF OthersInv, RegionsWritten, Later, Steps
<1> QED
  BY <1>2, <1>5, <1>6 DEF OthersInv

\* A new run.
LEMMA OthersRun ==
    ASSUME OthersInv, NEW f \in Files, Run(f)
    PROVE  OthersInv'
<1>1. pc' = "header" /\ UNCHANGED <<output, fh, lib, func, numFunctions>>
  BY DEF Run, Goto, loops
<1>2. LoopsInside'
  BY <1>1 DEF OthersInv, LoopsInside
<1>3. NamesGiven'
  BY <1>1 DEF OthersInv, NamesGiven
<1>4. RegionsWritten'
  BY <1>1 DEF OthersInv, RegionsWritten, Later, Steps
<1> QED
  BY <1>2, <1>3, <1>4 DEF OthersInv

\* The header's region is written whole.
LEMMA OthersHeader ==
    ASSUME SectionsInv, OthersInv, HeaderStart
    PROVE  OthersInv'
<1>1. /\ pc = "header" /\ pc' = "section" /\ file' = file
      /\ output' = [output EXCEPT !["header"] = Header(file)]
      /\ UNCHANGED <<fh, lib, func, numFunctions>>
  BY DEF HeaderStart, Goto, Write, loops, section
<1>2. file \in Files
  BY <1>1, InRun
<1>3. LoopsInside'
  BY <1>1 DEF OthersInv, LoopsInside
<1>4. NamesGiven'
  BY <1>1 DEF OthersInv, NamesGiven
<1>5. DOMAIN output' = Regions /\ output'["header"] = Features(file)["header"]
  BY <1>1, <1>2, FeaturesAre DEF OthersInv, RegionsWritten, Regions
<1>6. RegionsWritten'
  BY <1>1, <1>5 DEF RegionsWritten, Later, Steps
<1> QED
  BY <1>3, <1>4, <1>6 DEF OthersInv

\* Without a PE file zeros are written for the sections.
LEMMA OthersNotPE ==
    ASSUME SectionsInv, OthersInv, SectionNotPE
    PROVE  OthersInv'
<1>1. /\ pc = "section" /\ pc' = "imports" /\ file' = file /\ ~peFile.isPE
      /\ output' = [output EXCEPT !["section"] = Zero, !["sectionExtremes"] = Zero,
                                  !["sectionHashes"] = Zero]
      /\ UNCHANGED <<fh, lib, func, numFunctions>>
  BY DEF SectionNotPE, Goto, loops, Info!NotPE
<1>2. file \in Files /\ ~file.isPE
  BY <1>1, InRun
<1>3. Features(file)["section"] = Zero /\ Features(file)["sectionHashes"] = Zero
  BY <1>2, FeaturesAre DEF Regions
<1>4. DOMAIN output = Regions /\ output["header"] = Features(file)["header"]
  BY <1>1 DEF OthersInv, RegionsWritten
<1>5. /\ DOMAIN output' = Regions /\ output'["header"] = Features(file)["header"]
      /\ output'["section"] = Features(file)["section"]
      /\ output'["sectionHashes"] = Features(file)["sectionHashes"]
  BY <1>1, <1>3, <1>4 DEF Regions
<1>6. LoopsInside'
  BY <1>1 DEF OthersInv, LoopsInside
<1>7. NamesGiven'
  BY <1>1 DEF OthersInv, NamesGiven
<1>8. RegionsWritten'
  BY <1>1, <1>5 DEF RegionsWritten, Later, Steps
<1> QED
  BY <1>6, <1>7, <1>8 DEF OthersInv

\* The regions of the sections are not looked at before the end of the pass.
LEMMA OthersSection ==
    ASSUME OthersInv, SectionStart \/ SectionLoop
    PROVE  OthersInv'
<1>1. /\ pc = "section" /\ pc' = "section" /\ file' = file
      /\ output' = output \/ output' = [output EXCEPT !["sectionHashes"] = Zero]
      /\ UNCHANGED <<fh, lib, func, numFunctions>>
  BY DEF SectionStart, SectionLoop, Write, loops, Info!Start, Info!Section
<1>2. LoopsInside'
  BY <1>1 DEF OthersInv, LoopsInside
<1>3. NamesGiven'
  BY <1>1 DEF OthersInv, NamesGiven
<1>4. DOMAIN output' = Regions /\ output'["header"] = Features(file)["header"]
  BY <1>1 DEF OthersInv, RegionsWritten, Regions
<1>5. RegionsWritten'
  BY <1>1, <1>4 DEF RegionsWritten, Later, Steps
<1> QED
  BY <1>2, <1>3, <1>5 DEF OthersInv

\* At the end of the pass the regions of the sections are those of the file.
LEMMA OthersFinish ==
    ASSUME SectionsInv, OthersInv, SectionFinish
    PROVE  OthersInv'
<1> DEFINE l == ListSections(file)
<1>1. /\ pc = "section" /\ pc' = "imports" /\ file' = file /\ peFile' = peFile
      /\ sectionPc = "loop" /\ sectionPc' = "done" /\ next' = next
      /\ output' = [output EXCEPT !["section"] = Info!Numbers, !["sectionExtremes"] = extremes,
                                  !["sectionHashes"] = hashers']
      /\ UNCHANGED <<fh, lib, func, numFunctions>>
  BY DEF SectionFinish, Goto, loops, Info!Finish
<1>2. SectionsInv'
  BY SectionsFinish
<1>3. /\ file \in Files /\ file.isPE /\ Secs = l /\ peFile.entrypointRVA = Entrypoint(file)
      /\ peFile.sections = l
  BY <1>1, InRun DEF SectionsInv, SectionStep, Secs
<1>4. next - 1 = Len(l)
  <2>1. next = Len(Secs) + 1
    BY <1>1, <1>2, <1>3 DEF SectionsInv, NextInside, Secs
  <2>2. Len(l) \in Nat
    BY <1>3, SectionsListed
  <2> HIDE DEF l
  <2> QED
    BY <1>3, <2>1, <2>2
<1>5. Info!Numbers = Features(file)["section"]
  <2>1. counts = [zeroSize |-> Cardinality(ZeroSize(l, Len(l))),
                  emptyName |-> Cardinality(EmptyName(l, Len(l))),
                  readableAndExecutable |-> Cardinality(ReadableAndExecutable(l, Len(l))),
                  writable |-> Cardinality(Writable(l, Len(l)))]
    BY <1>3, <1>4 DEF SectionsInv, CountsKept
  <2>2. Info!Numbers = << Len(l), counts, file.overlaySize, Info!OverlayRatio(file),
                          Info!OverlayEntropy(file) >>
    BY <1>3 DEF Info!Numbers
  <2>3. Info!Numbers = SectionNumbers(file)
    BY <1>3, <2>1, <2>2, NumbersOfAll
  <2> QED
    BY <1>3, <2>3, FeaturesAre
<1>6. hashers' = Features(file)["sectionHashes"]
  <2>1. Secs' = l /\ peFile'.entrypointRVA = Entrypoint(file)
    BY <1>1, <1>3 DEF Secs
  <2>2. hashers'.entryName = IF Chosen(l, Entrypoint(file)) = NONE THEN <<>>
                             ELSE <<l[Chosen(l, Entrypoint(file))].name>>
    BY <1>1, <1>2, <2>1 DEF SectionsInv, EntryFound
  <2>3. hashers' = [size |-> Sizes(l, Len(l)), vsize |-> VSizes(l, Len(l)),
                    entropy |-> Entropies(l, Len(l)), characteristics |-> Flags(l, Len(l)),
                    entryName |-> hashers'.entryName]
    BY <1>1, <1>2, <1>4, <2>1 DEF SectionsInv, HashersKept
  <2>4. hashers' = SectionHashes(file)
    BY <1>3, <2>2, <2>3, HashesOfAll
  <2> QED
    BY <1>3, <2>4, FeaturesAre
<1>7. DOMAIN output = Regions /\ output["header"] = Features(file)["header"]
  BY <1>1 DEF OthersInv, RegionsWritten
<1> HIDE DEF l
<1>8. /\ DOMAIN output' = Regions /\ output'["header"] = Features(file)["header"]
      /\ output'["section"] = Features(file)["section"]
      /\ output'["sectionHashes"] = Features(file)["sectionHashes"]
  BY <1>1, <1>5, <1>6, <1>7 DEF Regions
<1>9. LoopsInside'
  BY <1>1 DEF OthersInv, LoopsInside
<1>10. NamesGiven'
  BY <1>1 DEF OthersInv, NamesGiven
<1>11. RegionsWritten'
  BY <1>1, <1>8 DEF RegionsWritten, Later, Steps
<1> QED
  BY <1>9, <1>10, <1>11 DEF OthersInv

\* The two hashers of the imports are changed.
LEMMA TwoHashersChanged ==
    ASSUME NEW F, AreHashes(F), NEW a, IsHash(a), NEW b, IsHash(b),
           NEW G, G = [F EXCEPT !.libraries = a, !.functions = b]
    PROVE  AreHashes(G) /\ DOMAIN F = HasherNames
<1> DEFINE H == [F EXCEPT !["libraries"] = a]
<1>1. "libraries" \in HasherNames /\ "functions" \in HasherNames
  BY DEF HasherNames
<1>2. AreHashes(H) /\ DOMAIN F = HasherNames
  BY <1>1, HasherChanged
<1>3. G = [H EXCEPT !["functions"] = b]
  BY <1>1, <1>2
<1> HIDE DEF H
<1>4. AreHashes(G)
  BY <1>1, <1>2, <1>3, HasherChanged
<1> QED
  BY <1>2, <1>4

\* A step that writes nothing leaves the regions written, if it goes no further
\* than the next region to be written.
LEMMA RegionsLeft ==
    ASSUME OthersInv, file' = file, output' = output,
           \/ pc' = pc
           \/ pc \in {"imports", "library", "function"} /\ pc' \in {"library", "function"}
           \/ pc = "exports" /\ pc' = "export"
    PROVE  RegionsWritten'
BY DEF OthersInv, RegionsWritten, Later, Steps

\* What is known when the imports are gone through.
LEMMA InImports ==
    ASSUME SectionsInv, OthersInv, pc \in {"imports", "library", "function"}
    PROVE  /\ file \in Files /\ file.isPE \in BOOLEAN
           /\ Libraries = ListImports(file) /\ Len(Libraries) \in Nat
           /\ DOMAIN output = Regions
           /\ output["header"] = Features(file)["header"]
           /\ output["section"] = Features(file)["section"]
           /\ output["sectionHashes"] = Features(file)["sectionHashes"]
           /\ AreHashes(fh) /\ DOMAIN fh = HasherNames
           /\ fh.exports.alternateSign = TRUE /\ fh.pairs.alternateSign = TRUE
           /\ IsHash(fh.libraries) /\ IsHash(fh.functions)
<1>1. file \in Files /\ file.isPE \in BOOLEAN
  BY InRun
<1>2. Libraries = ListImports(file) /\ Len(Libraries) \in Nat
  BY <1>1, ImportsListed DEF Libraries
<1>3. /\ DOMAIN output = Regions /\ output["header"] = Features(file)["header"]
      /\ output["section"] = Features(file)["section"]
      /\ output["sectionHashes"] = Features(file)["sectionHashes"]
  BY DEF OthersInv, RegionsWritten, Later, Steps
<1>4. /\ AreHashes(fh) /\ fh.exports.alternateSign = TRUE /\ fh.pairs.alternateSign = TRUE
  BY DEF OthersInv, NamesGiven
<1>5. DOMAIN fh = HasherNames /\ IsHash(fh.libraries) /\ IsHash(fh.functions)
  BY <1>4 DEF AreHashes, HasherNames
<1> QED
  BY <1>1, <1>2, <1>3, <1>4, <1>5

\* Both hashers of the imports start from nothing, whatever the last run left.
LEMMA OthersImports ==
    ASSUME SectionsInv, OthersInv, ImportsStart
    PROVE  OthersInv'
<1>1. /\ pc = "imports" /\ file' = file /\ func' = func
      /\ output' = [output EXCEPT !["imports"] = Zero]
  BY DEF ImportsStart, Write, section
<1>2. /\ file \in Files /\ Libraries = ListImports(file) /\ Len(Libraries) \in Nat
      /\ DOMAIN output = Regions
      /\ output["header"] = Features(file)["header"]
      /\ output["section"] = Features(file)["section"]
      /\ output["sectionHashes"] = Features(file)["sectionHashes"]
      /\ AreHashes(fh) /\ DOMAIN fh = HasherNames
      /\ fh.exports.alternateSign = TRUE /\ fh.pairs.alternateSign = TRUE
      /\ IsHash(fh.libraries) /\ IsHash(fh.functions)
  BY <1>1, InImports
<1>3. /\ DOMAIN output' = Regions /\ output'["header"] = Features(file)["header"]
      /\ output'["section"] = Features(file)["section"]
      /\ output'["sectionHashes"] = Features(file)["sectionHashes"]
      /\ output'["imports"] = Zero
  BY <1>1, <1>2 DEF Regions
<1>4. Libraries' = Libraries
  BY <1>1 DEF Libraries
<1>5. CASE HasImportDirectory(file)
  <2>1. /\ pc' = "library" /\ lib' = 1 /\ numFunctions' = 0
        /\ fh' = [fh EXCEPT !.libraries = Unsigned(fh.libraries),
                            !.functions = Unsigned(fh.functions)]
    BY <1>5 DEF ImportsStart
  <2> DEFINE u == Hash(FALSE, <<>>)
  <2>2. /\ IsHash(u) /\ Unsigned(fh.libraries) = u /\ Unsigned(fh.functions) = u
        /\ u.given = <<>>
    BY HasherSteps, Zenon
  <2> HIDE DEF u
  <2>3. fh' = [fh EXCEPT !.libraries = u, !.functions = u]
    BY <2>1, <2>2
  <2>4. AreHashes(fh')
    BY <1>2, <2>2, <2>3, TwoHashersChanged
  <2>5. fh'.libraries = u /\ fh'.functions = u /\ fh'.exports = fh.exports /\ fh'.pairs = fh.pairs
    BY <1>2, <2>3 DEF HasherNames
  <2>6. FirstLibraries(Libraries, 0) = <<>> /\ NamesOf(Libraries, 0) = <<>>
    BY <1>2, NamesMore DEF FirstLibraries
  <2>7. lib' - 1 = 0 /\ Len(fh'.functions.given) = 0
    BY <2>1, <2>2, <2>5
  <2>8. NamesGiven'
    BY <1>2, <1>4, <2>1, <2>4, <2>5, <2>6, <2>7 DEF NamesGiven, u
  <2>9. LoopsInside'
    BY <1>1, <1>2, <1>4, <1>5, <2>1 DEF OthersInv, LoopsInside
  <2>10. RegionsWritten'
    BY <1>1, <1>3, <2>1 DEF RegionsWritten, Later, Steps
  <2> QED
    BY <2>8, <2>9, <2>10 DEF OthersInv
<1>6. CASE ~HasImportDirectory(file)
  <2>1. pc' = "exports" /\ UNCHANGED <<fh, lib, numFunctions>>
    BY <1>6 DEF ImportsStart
  <2>2. Features(file)["imports"] = Zero
    <3>1. CASE file.isPE
      BY <1>2, <1>6, <3>1, FeaturesAre
    <3>2. CASE ~file.isPE
      BY <1>2, <3>2, FeaturesAre DEF Regions
    <3> QED
      BY <3>1, <3>2
  <2>3. NamesGiven'
    BY <1>2, <2>1 DEF NamesGiven
  <2>4. LoopsInside'
    BY <1>1, <2>1 DEF OthersInv, LoopsInside
  <2>5. RegionsWritten'
    BY <1>1, <1>3, <2>1, <2>2 DEF RegionsWritten, Later, Steps
  <2> QED
    BY <2>3, <2>4, <2>5 DEF OthersInv
<1> QED
  BY <1>5, <1>6

\* One library more.
LEMMA LibrariesMore ==
    ASSUME NEW libs, NEW n \in Nat
    PROVE  FirstLibraries(libs, n + 1) = Append(FirstLibraries(libs, n), <<libs[n + 1].dllName, 1>>)
<1> DEFINE F == [ k \in 1..(n + 1) |-> <<libs[k].dllName, 1>> ]
<1>1. /\ FirstLibraries(libs, n) = FirstOnes(F, n)
      /\ FirstLibraries(libs, n + 1) = FirstOnes(F, n + 1)
      /\ F[n + 1] = <<libs[n + 1].dllName, 1>>
  BY DEF FirstLibraries, FirstOnes
<1> HIDE DEF F
<1>2. FirstOnes(F, n + 1) = Append(FirstOnes(F, n), F[n + 1])
  BY FirstOnesMore
<1> QED
  BY <1>1, <1>2

\* Where the loops of the imports may be.
LEMMA LoopsOfImports ==
    ASSUME NEW libs, Len(libs) \in Nat, Libraries' = libs, HasImportDirectory(file'),
           func' \in Nat, numFunctions' \in Nat,
           \/ pc' = "library" /\ lib' \in 1..(Len(libs) + 1)
           \/ /\ pc' = "function" /\ lib' \in 1..Len(libs)
              /\ func' \in 1..(Len(libs[lib'].functions) + 1)
    PROVE  LoopsInside'
<1>1. lib' \in Nat
  OBVIOUS
<1> QED
  BY <1>1 DEF LoopsInside

\* A library is given, and its functions are next.
LEMMA OthersLibrary ==
    ASSUME SectionsInv, OthersInv, ReduceLibrary
    PROVE  OthersInv'
<1> DEFINE L == Libraries
           n == lib - 1
<1>1. /\ pc = "library" /\ pc' = "function" /\ lib <= Len(L) /\ func' = 1 /\ lib' = lib
      /\ numFunctions' = numFunctions /\ file' = file /\ output' = output
      /\ fh' = [fh EXCEPT !.libraries = Given(fh.libraries, L[lib].dllName, 1)]
  BY DEF ReduceLibrary, Goto, section
<1>2. /\ file \in Files /\ L = ListImports(file) /\ Len(L) \in Nat
      /\ AreHashes(fh) /\ DOMAIN fh = HasherNames
      /\ fh.exports.alternateSign = TRUE /\ fh.pairs.alternateSign = TRUE
  BY <1>1, InImports
<1>3. /\ lib \in 1..Len(L) /\ HasImportDirectory(file)
      /\ fh.libraries = Hash(FALSE, FirstLibraries(L, lib - 1))
      /\ fh.functions = Hash(FALSE, NamesOf(L, lib - 1))
      /\ numFunctions = Len(fh.functions.given) /\ numFunctions \in Nat
  <2>1. /\ lib \in 1..(Len(L) + 1) /\ HasImportDirectory(file) /\ numFunctions \in Nat
    BY <1>1 DEF OthersInv, LoopsInside
  <2>2. /\ fh.libraries = Hash(FALSE, FirstLibraries(L, lib - 1))
        /\ fh.functions = Hash(FALSE, NamesOf(L, lib - 1))
        /\ numFunctions = Len(fh.functions.given)
    BY <1>1 DEF OthersInv, NamesGiven
  <2> HIDE DEF L
  <2>3. lib \in 1..Len(L)
    BY <1>1, <1>2, <2>1
  <2> QED
    BY <2>1, <2>2, <2>3
<1>4. Libraries' = L
  BY <1>1 DEF Libraries
<1>5. n \in Nat /\ n \in 0..Len(L) /\ lib = n + 1 /\ Len(L[lib].functions) \in Nat
  BY <1>2, <1>3, ImportsListed
<1> HIDE DEF n, L
<1>6. FirstLibraries(L, lib) = Append(FirstLibraries(L, lib - 1), <<L[lib].dllName, 1>>)
  BY <1>5, LibrariesMore DEF n
<1> DEFINE new == Hash(FALSE, FirstLibraries(L, lib))
<1>7. IsHash(new) /\ Given(fh.libraries, L[lib].dllName, 1) = new
  <2> DEFINE g == FirstLibraries(L, lib - 1)
             name == L[lib].dllName
  <2>1. fh.libraries = Hash(FALSE, g) /\ FirstLibraries(L, lib) = Append(g, <<name, 1>>)
    BY <1>3, <1>6
  <2> HIDE DEF g, name
  <2>2. Given(Hash(FALSE, g), name, 1) = Hash(FALSE, Append(g, <<name, 1>>))
    <3> DEFINE no == FALSE
    <3> HIDE DEF no
    <3>1. Given(Hash(no, g), name, 1) = Hash(no, Append(g, <<name, 1>>))
      BY HasherSteps
    <3> QED
      BY <3>1, Zenon DEF no
  <2>3. Given(fh.libraries, name, 1) = new
    BY <2>1, <2>2, Zenon
  <2>4. IsHash(new)
    BY HasherSteps, Zenon
  <2> QED
    BY <2>3, <2>4, Zenon DEF name
<1> HIDE DEF new
<1>8. fh' = [fh EXCEPT !["libraries"] = new] /\ "libraries" \in HasherNames
  BY <1>1, <1>7 DEF HasherNames
<1>9. AreHashes(fh')
  BY <1>2, <1>7, <1>8, HasherChanged
<1>10. /\ fh'.libraries = new /\ fh'.functions = fh.functions /\ fh'.exports = fh.exports
       /\ fh'.pairs = fh.pairs
  BY <1>2, <1>8 DEF HasherNames
<1>11. NamesOf(L, lib - 1) \o FunctionNames(L[lib], 0) = NamesOf(L, lib - 1)
  <2>1. NamesOf(L, n) \in Seq(GivenNames(L))
    BY <1>2, <1>5, NamesMore
  <2>2. FunctionNames(L[lib], 0) = <<>>
    BY DEF FunctionNames
  <2> QED
    BY <2>1, <2>2, ConcatEmptySeq DEF n
<1>12. /\ fh'.functions = Hash(FALSE, NamesOf(L, lib' - 1) \o FunctionNames(L[lib'], func' - 1))
       /\ fh'.libraries = Hash(FALSE, FirstLibraries(L, lib'))
  <2>1. func' - 1 = 0
    BY <1>1
  <2>2. Hash(FALSE, NamesOf(L, lib - 1) \o FunctionNames(L[lib], 0)) = fh.functions
    BY <1>3, <1>11, Zenon
  <2> QED
    BY <1>1, <1>10, <2>1, <2>2 DEF new
<1>13. NamesGiven'
  BY <1>1, <1>2, <1>3, <1>4, <1>9, <1>10, <1>12 DEF NamesGiven
<1>14. LoopsInside'
  <2> DEFINE m == Len(L[lib].functions)
  <2>1. m \in Nat /\ Len(L[lib'].functions) = m
    BY <1>1, <1>5
  <2> HIDE DEF m
  <2>2. func' \in Nat /\ func' \in 1..(m + 1)
    BY <1>1, <2>1
  <2>3. /\ numFunctions' \in Nat /\ lib' \in 1..Len(L) /\ HasImportDirectory(file')
        /\ pc' = "function" /\ func' \in 1..(Len(L[lib'].functions) + 1)
    BY <1>1, <1>3, <2>1, <2>2
  <2> QED
    BY <1>2, <1>4, <2>2, <2>3, LoopsOfImports
<1>15. RegionsWritten'
  BY <1>1, RegionsLeft
<1> QED
  BY <1>13, <1>14, <1>15 DEF OthersInv

\* A function is given under its library.
LEMMA OthersFunction ==
    ASSUME SectionsInv, OthersInv, ReduceFunction
    PROVE  OthersInv'
<1> DEFINE L == Libraries
           n == func - 1
           A == GivenNames(L)
           x == << <<L[lib].dllName, NameOf(L[lib].functions[func])>>, 1 >>
           s == NamesOf(L, lib - 1)
           t == FunctionNames(L[lib], n)
           u == FunctionNames(L[lib], func)
<1>1. /\ pc = "function" /\ pc' = pc /\ func <= Len(L[lib].functions) /\ func' = func + 1
      /\ lib' = lib /\ numFunctions' = numFunctions + 1 /\ file' = file /\ output' = output
      /\ fh' = [fh EXCEPT !.functions =
                   Given(fh.functions, <<L[lib].dllName, NameOf(L[lib].functions[func])>>, 1)]
  BY DEF ReduceFunction, section
<1>2. /\ file \in Files /\ L = ListImports(file) /\ Len(L) \in Nat
      /\ AreHashes(fh) /\ DOMAIN fh = HasherNames
      /\ fh.exports.alternateSign = TRUE /\ fh.pairs.alternateSign = TRUE
  BY <1>1, InImports
<1>3. /\ lib \in 1..Len(L) /\ HasImportDirectory(file)
      /\ func \in 1..(Len(L[lib].functions) + 1)
      /\ fh.libraries = Hash(FALSE, FirstLibraries(L, lib))
      /\ fh.functions = Hash(FALSE, s \o t)
      /\ numFunctions = Len(fh.functions.given) /\ numFunctions \in Nat
  BY <1>1 DEF OthersInv, LoopsInside, NamesGiven
<1>4. Libraries' = L
  BY <1>1 DEF Libraries
<1>5. /\ Len(L[lib].functions) \in Nat /\ n \in 0..Len(L[lib].functions) /\ func = n + 1
      /\ lib - 1 \in 0..Len(L) /\ func' - 1 = func
  <2>1. Len(L[lib].functions) \in Nat
    BY <1>2, <1>3, ImportsListed
  <2>2. /\ func <= Len(L[lib].functions) /\ func' = func + 1 /\ func \in Int /\ 1 <= func
        /\ lib \in Int /\ 1 <= lib /\ lib <= Len(L) /\ Len(L) \in Nat
    <3> HIDE DEF L
    <3> QED
      BY <1>1, <1>2, <1>3
  <2> DEFINE most == Len(L[lib].functions)
             last == Len(L)
  <2>3. most \in Nat /\ func <= most /\ last \in Nat /\ lib <= last
    BY <2>1, <2>2
  <2> HIDE DEF most, last
  <2>4. n \in 0..most /\ func = n + 1 /\ lib - 1 \in 0..last /\ func' - 1 = func
    BY <2>2, <2>3
  <2> QED
    BY <2>1, <2>4 DEF most, last
<1> HIDE DEF n, L
<1>6. x \in A /\ t \in Seq(A) /\ u = Append(t, x)
  BY <1>1, <1>2, <1>3, <1>5, FunctionNamesMore
<1>7. s \in Seq(A)
  BY <1>2, <1>5, NamesMore
<1> HIDE DEF x, s, t, u, A
<1>8. Append(s \o t, x) = s \o u /\ Len(Append(s \o t, x)) = Len(s \o t) + 1
  <2>1. s \o t \in Seq(A) /\ <<x>> \in Seq(A)
    BY <1>6, <1>7, ConcatProperties
  <2>2. Append(s \o t, x) = (s \o t) \o <<x>> /\ Append(t, x) = t \o <<x>>
    BY <1>6, <2>1, AppendIsConcat
  <2>3. (s \o t) \o <<x>> = s \o (t \o <<x>>)
    BY <1>6, <1>7, <2>1, ConcatAssociative
  <2>4. Len(Append(s \o t, x)) = Len(s \o t) + 1
    BY <1>6, <2>1, AppendProperties
  <2> QED
    BY <1>6, <2>2, <2>3, <2>4
<1> DEFINE new == Hash(FALSE, s \o u)
<1>9. IsHash(new) /\ new.given = s \o u /\ fh.functions.given = s \o t
  <2>1. IsHash(new) /\ new.given = s \o u /\ Hash(FALSE, s \o t).given = s \o t
    BY HasherSteps, Zenon
  <2> QED
    BY <1>3, <2>1, Zenon
<1>10. Given(fh.functions, <<L[lib].dllName, NameOf(L[lib].functions[func])>>, 1) = new
  <2> DEFINE g == s \o t
             name == <<L[lib].dllName, NameOf(L[lib].functions[func])>>
  <2>1. fh.functions = Hash(FALSE, g)
    BY <1>3
  <2>2. s \o u = Append(g, <<name, 1>>)
    BY <1>8 DEF x
  <2> HIDE DEF g, name
  <2>3. Given(Hash(FALSE, g), name, 1) = Hash(FALSE, Append(g, <<name, 1>>))
    <3> DEFINE no == FALSE
    <3> HIDE DEF no
    <3>1. Given(Hash(no, g), name, 1) = Hash(no, Append(g, <<name, 1>>))
      BY HasherSteps
    <3> QED
      BY <3>1, Zenon DEF no
  <2>4. Given(fh.functions, name, 1) = new
    BY <2>1, <2>2, <2>3, Zenon
  <2> QED
    BY <2>4, Zenon DEF name
<1> HIDE DEF new
<1>11. fh' = [fh EXCEPT !["functions"] = new] /\ "functions" \in HasherNames
  BY <1>1, <1>10 DEF HasherNames
<1>12. AreHashes(fh')
  BY <1>2, <1>9, <1>11, HasherChanged
<1>13. /\ fh'.functions = new /\ fh'.libraries = fh.libraries /\ fh'.exports = fh.exports
       /\ fh'.pairs = fh.pairs
  BY <1>2, <1>11 DEF HasherNames
<1>14. numFunctions' = Len(fh'.functions.given)
  BY <1>1, <1>3, <1>8, <1>9, <1>13
<1>15. /\ fh'.functions = Hash(FALSE, NamesOf(L, lib' - 1) \o FunctionNames(L[lib'], func' - 1))
       /\ fh'.libraries = Hash(FALSE, FirstLibraries(L, lib'))
  BY <1>1, <1>3, <1>5, <1>13 DEF new, s, u
<1>16. NamesGiven'
  BY <1>1, <1>2, <1>4, <1>12, <1>13, <1>14, <1>15 DEF NamesGiven
<1>17. LoopsInside'
  <2> DEFINE m == Len(L[lib].functions)
  <2>1. m \in Nat /\ func <= m /\ Len(L[lib'].functions) = m /\ func \in 1..(m + 1)
    BY <1>1, <1>3, <1>5
  <2> HIDE DEF m
  <2>2. func' \in Nat /\ func' \in 1..(m + 1)
    <3>1. func' = func + 1
      BY <1>1
    <3> QED
      BY <2>1, <3>1
  <2>5. numFunctions' \in Nat
    <3>1. numFunctions' = numFunctions + 1 /\ numFunctions \in Nat
      BY <1>1, <1>3
    <3> QED
      BY <3>1
  <2>3. /\ lib' \in 1..Len(L) /\ HasImportDirectory(file')
        /\ pc' = "function" /\ func' \in 1..(Len(L[lib'].functions) + 1)
    BY <1>1, <1>3, <2>1, <2>2
  <2> QED
    BY <1>2, <1>4, <2>2, <2>3, <2>5, LoopsOfImports
<1>18. RegionsWritten'
  BY <1>1, RegionsLeft
<1> QED
  BY <1>16, <1>17, <1>18 DEF OthersInv

\* After its functions the next library.
LEMMA OthersLibraryDone ==
    ASSUME SectionsInv, OthersInv, LibraryDone
    PROVE  OthersInv'
<1> DEFINE L == Libraries
<1>1. /\ pc = "function" /\ pc' = "library" /\ func > Len(L[lib].functions) /\ lib' = lib + 1
      /\ UNCHANGED <<output, fh, func, numFunctions, file>>
  BY DEF LibraryDone, Goto, section
<1>2. /\ file \in Files /\ L = ListImports(file) /\ Len(L) \in Nat
      /\ AreHashes(fh) /\ fh.exports.alternateSign = TRUE /\ fh.pairs.alternateSign = TRUE
  BY <1>1, InImports
<1>3. /\ lib \in 1..Len(L) /\ HasImportDirectory(file)
      /\ func \in 1..(Len(L[lib].functions) + 1)
      /\ fh.libraries = Hash(FALSE, FirstLibraries(L, lib))
      /\ fh.functions = Hash(FALSE, NamesOf(L, lib - 1) \o FunctionNames(L[lib], func - 1))
      /\ numFunctions = Len(fh.functions.given) /\ numFunctions \in Nat
  BY <1>1 DEF OthersInv, LoopsInside, NamesGiven
<1>4. Libraries' = L
  BY <1>1 DEF Libraries
<1>5. /\ Len(L[lib].functions) \in Nat
      /\ func - 1 = Len(L[lib].functions)
      /\ lib - 1 \in 0..Len(L) /\ (lib - 1) + 1 = lib /\ lib' - 1 = lib
  <2>1. Len(L[lib].functions) \in Nat
    BY <1>2, <1>3, ImportsListed
  <2> HIDE DEF L
  <2> QED
    BY <1>1, <1>2, <1>3, <2>1
<1> HIDE DEF L
<1>6. NamesOf(L, lib) = NamesOf(L, lib - 1) \o FunctionNames(L[lib], Len(L[lib].functions))
  <2> DEFINE n == lib - 1
  <2>1. n \in 0..Len(L) /\ n + 1 = lib /\ n + 1 <= Len(L)
    BY <1>2, <1>3, <1>5
  <2> HIDE DEF n
  <2>2. NamesOf(L, n + 1) = NamesOf(L, n) \o FunctionNames(L[n + 1], Len(L[n + 1].functions))
    BY <1>2, <2>1, NamesMore
  <2> QED
    BY <2>1, <2>2 DEF n
<1>7. fh.functions = Hash(FALSE, NamesOf(L, lib))
  BY <1>3, <1>5, <1>6
<1>8. NamesGiven'
  BY <1>1, <1>2, <1>3, <1>4, <1>5, <1>7 DEF NamesGiven
<1>9. LoopsInside'
  <2> DEFINE m == Len(L[lib].functions)
  <2>1. m \in Nat /\ func \in 1..(m + 1)
    BY <1>3, <1>5
  <2> HIDE DEF m
  <2>2. func \in Nat
    BY <2>1
  <2>3. lib' \in 1..(Len(L) + 1)
    BY <1>1, <1>2, <1>3
  <2>4. /\ func' \in Nat /\ numFunctions' \in Nat /\ HasImportDirectory(file')
        /\ pc' = "library"
    BY <1>1, <1>3, <2>2
  <2> QED
    BY <1>2, <1>4, <2>3, <2>4, LoopsOfImports
<1>10. RegionsWritten'
  BY <1>1, RegionsLeft
<1> QED
  BY <1>8, <1>9, <1>10 DEF OthersInv

\* After the last library the region is that of the file, and the hashers are empty.
LEMMA OthersImportsFinish ==
    ASSUME SectionsInv, OthersInv, ImportsFinish
    PROVE  OthersInv'
<1> DEFINE L == Libraries
           a == Hash(FALSE, <<>>)
           region == [numFunctions |-> numFunctions, numLibraries |-> Len(L),
                      libraries |-> fh.libraries, functions |-> fh.functions]
<1>1. /\ pc = "library" /\ pc' = "exports" /\ lib > Len(L)
      /\ output' = [output EXCEPT !["imports"] = region]
      /\ fh' = [fh EXCEPT !.libraries = Finalized(fh.libraries),
                          !.functions = Finalized(fh.functions)]
      /\ UNCHANGED <<lib, func, numFunctions, file>>
  BY DEF ImportsFinish, Goto, Write, section, loops
<1>2. /\ file \in Files /\ file.isPE \in BOOLEAN /\ L = ListImports(file) /\ Len(L) \in Nat
      /\ DOMAIN output = Regions
      /\ output["header"] = Features(file)["header"]
      /\ output["section"] = Features(file)["section"]
      /\ output["sectionHashes"] = Features(file)["sectionHashes"]
      /\ AreHashes(fh) /\ DOMAIN fh = HasherNames
      /\ fh.exports.alternateSign = TRUE /\ fh.pairs.alternateSign = TRUE
  BY <1>1, InImports
<1>3. /\ lib \in 1..(Len(L) + 1) /\ HasImportDirectory(file)
      /\ fh.libraries = Hash(FALSE, FirstLibraries(L, lib - 1))
      /\ fh.functions = Hash(FALSE, NamesOf(L, lib - 1))
      /\ numFunctions = Len(fh.functions.given)
  BY <1>1 DEF OthersInv, LoopsInside, NamesGiven
<1> HIDE DEF L
<1>4. lib - 1 = Len(L)
  BY <1>1, <1>2, <1>3
<1>5. region = ImportsOf(file)
  <2>1. /\ NamesOf(L, Len(L)) = ImportedNames(file)
        /\ FirstLibraries(L, Len(L))
              = [k \in DOMAIN file.imports |-> <<Lower[file.imports[k].name], 1>>]
        /\ Len(L) = Len(file.imports)
    BY <1>2, NamesOfAll, ImportsListed
  <2>2. fh.functions.given = ImportedNames(file) /\ fh.functions = Hash(FALSE, ImportedNames(file))
    <3>1. NamesOf(L, lib - 1) = ImportedNames(file)
      BY <1>4, <2>1
    <3>2. fh.functions = Hash(FALSE, ImportedNames(file))
      BY <1>3, <3>1, Zenon
    <3>3. Hash(FALSE, ImportedNames(file)).given = ImportedNames(file)
      BY HasherSteps, Zenon
    <3> QED
      BY <3>2, <3>3, Zenon
  <2>3. fh.libraries
          = Hash(FALSE, [k \in DOMAIN file.imports |-> <<Lower[file.imports[k].name], 1>>])
    BY <1>3, <1>4, <2>1, Zenon
  <2> QED
    BY <1>3, <2>1, <2>2, <2>3, Zenon DEF ImportsOf
<1>6. file.isPE /\ Features(file)["imports"] = ImportsOf(file)
  BY <1>2, <1>3, FeaturesAre DEF HasImportDirectory
<1> HIDE DEF region
<1>7. /\ DOMAIN output' = Regions /\ output'["header"] = Features(file)["header"]
      /\ output'["section"] = Features(file)["section"]
      /\ output'["sectionHashes"] = Features(file)["sectionHashes"]
      /\ output'["imports"] = Features(file)["imports"]
  BY <1>1, <1>2, <1>5, <1>6 DEF Regions
<1>8. IsHash(a) /\ Finalized(fh.libraries) = a /\ Finalized(fh.functions) = a
  BY <1>3, HasherSteps, Zenon
<1> HIDE DEF a
<1>9. fh' = [fh EXCEPT !.libraries = a, !.functions = a]
  BY <1>1, <1>8
<1>10. AreHashes(fh')
  BY <1>2, <1>8, <1>9, TwoHashersChanged
<1>11. fh'.exports = fh.exports /\ fh'.pairs = fh.pairs
  BY <1>2, <1>9 DEF HasherNames
<1>12. NamesGiven'
  BY <1>1, <1>2, <1>10, <1>11 DEF NamesGiven
<1>13. LoopsInside'
  BY <1>1 DEF OthersInv, LoopsInside
<1>14. RegionsWritten'
  BY <1>1, <1>7 DEF RegionsWritten, Later, Steps
<1> QED
  BY <1>12, <1>13, <1>14 DEF OthersInv

\* What is known once the imports are written.
LEMMA AfterImports ==
    ASSUME SectionsInv, OthersInv, pc \in Later \ {"imports", "library", "function"}
    PROVE  /\ file \in Files /\ file.isPE \in BOOLEAN
           /\ DOMAIN output = Regions
           /\ output["header"] = Features(file)["header"]
           /\ output["section"] = Features(file)["section"]
           /\ output["sectionHashes"] = Features(file)["sectionHashes"]
           /\ output["imports"] = Features(file)["imports"]
           /\ AreHashes(fh) /\ DOMAIN fh = HasherNames
           /\ fh.exports.alternateSign = TRUE /\ fh.pairs.alternateSign = TRUE
<1>1. file \in Files /\ file.isPE \in BOOLEAN
  BY InRun DEF Later
<1>2. /\ DOMAIN output = Regions /\ output["header"] = Features(file)["header"]
      /\ output["section"] = Features(file)["section"]
      /\ output["sectionHashes"] = Features(file)["sectionHashes"]
      /\ output["imports"] = Features(file)["imports"]
  BY DEF OthersInv, RegionsWritten, Later, Steps
<1>3. AreHashes(fh) /\ fh.exports.alternateSign = TRUE /\ fh.pairs.alternateSign = TRUE
  BY DEF OthersInv, NamesGiven
<1>4. DOMAIN fh = HasherNames
  BY <1>3 DEF AreHashes
<1> QED
  BY <1>1, <1>2, <1>3, <1>4

\* The hasher of the exports starts from nothing; without exports zeros stay.
LEMMA OthersExports ==
    ASSUME SectionsInv, OthersInv, ExportsStart
    PROVE  OthersInv'
<1>1. /\ pc = "exports" /\ file' = file /\ lib' = lib /\ numFunctions' = numFunctions
      /\ output' = [output EXCEPT !["exports"] = Zero]
  BY DEF ExportsStart, Write, section
<1>2. /\ file \in Files /\ file.isPE \in BOOLEAN
      /\ DOMAIN output = Regions
      /\ output["header"] = Features(file)["header"]
      /\ output["section"] = Features(file)["section"]
      /\ output["sectionHashes"] = Features(file)["sectionHashes"]
      /\ output["imports"] = Features(file)["imports"]
      /\ AreHashes(fh) /\ DOMAIN fh = HasherNames
      /\ fh.exports.alternateSign = TRUE /\ fh.pairs.alternateSign = TRUE
  BY <1>1, AfterImports DEF Later, Steps
<1>3. /\ DOMAIN output' = Regions /\ output'["header"] = Features(file)["header"]
      /\ output'["section"] = Features(file)["section"]
      /\ output'["sectionHashes"] = Features(file)["sectionHashes"]
      /\ output'["imports"] = Features(file)["imports"]
      /\ output'["exports"] = Zero
  BY <1>1, <1>2 DEF Regions
<1>4. lib \in Nat /\ func \in Nat /\ numFunctions \in Nat
  BY DEF OthersInv, LoopsInside
<1>5. CASE HasExportDirectory(file)
  <2>1. pc' = "export" /\ fh' = [fh EXCEPT !["exports"] = NewFH] /\ func' = 1
    BY <1>5 DEF ExportsStart
  <2>2. NewFH = Hash(TRUE, <<>>) /\ IsHash(NewFH) /\ NewFH.alternateSign = TRUE
    BY HasherSteps, Zenon
  <2>3. AreHashes(fh')
    <3>1. "exports" \in HasherNames
      BY DEF HasherNames
    <3> QED
      BY <1>2, <2>1, <2>2, <3>1, HasherChanged
  <2>4. fh'.exports = NewFH /\ fh'.pairs = fh.pairs
    BY <1>2, <2>1 DEF HasherNames
  <2>5. Len(file.exports) \in Nat /\ FirstExports(file, 0) = <<>>
    BY <1>2, ExportsMore
  <2>6. fh'.exports = Hash(TRUE, FirstExports(file', func' - 1))
    <3>1. func' - 1 = 0
      BY <2>1
    <3> QED
      BY <1>1, <2>2, <2>4, <2>5, <3>1
  <2>7. NamesGiven'
    BY <1>2, <2>1, <2>2, <2>3, <2>4, <2>6 DEF NamesGiven
  <2>8. LoopsInside'
    BY <1>1, <1>4, <1>5, <2>1, <2>5 DEF LoopsInside
  <2>9. RegionsWritten'
    BY <1>1, <1>3, <2>1 DEF RegionsWritten, Later, Steps
  <2> QED
    BY <2>7, <2>8, <2>9 DEF OthersInv
<1>6. CASE ~HasExportDirectory(file)
  <2>1. pc' = "datadirectories" /\ UNCHANGED <<fh, func>>
    BY <1>6 DEF ExportsStart
  <2>2. Features(file)["exports"] = Zero
    <3>1. CASE file.isPE
      BY <1>2, <1>6, <3>1, FeaturesAre
    <3>2. CASE ~file.isPE
      BY <1>2, <3>2, FeaturesAre DEF Regions
    <3> QED
      BY <3>1, <3>2
  <2>3. NamesGiven'
    BY <1>2, <2>1 DEF NamesGiven
  <2>4. LoopsInside'
    BY <1>1, <1>4, <2>1 DEF LoopsInside
  <2>5. RegionsWritten'
    BY <1>1, <1>3, <2>1, <2>2 DEF RegionsWritten, Later, Steps
  <2> QED
    BY <2>3, <2>4, <2>5 DEF OthersInv
<1> QED
  BY <1>5, <1>6

\* One export more.
LEMMA OthersExport ==
    ASSUME SectionsInv, OthersInv, ReduceExport
    PROVE  OthersInv'
<1> DEFINE n == func - 1
           name == NameOf(file.exports[func])
           m == Len(file.exports)
<1>1. /\ pc = "export" /\ pc' = pc /\ func <= m /\ func' = func + 1 /\ lib' = lib
      /\ numFunctions' = numFunctions /\ file' = file /\ output' = output
      /\ fh' = [fh EXCEPT !["exports"] = Given(fh.exports, name, 1)]
  BY DEF ReduceExport, section
<1>2. /\ file \in Files /\ AreHashes(fh) /\ DOMAIN fh = HasherNames
      /\ fh.pairs.alternateSign = TRUE
  BY <1>1, AfterImports DEF Later, Steps
<1>3. /\ HasExportDirectory(file) /\ func \in 1..(m + 1)
      /\ lib \in Nat /\ numFunctions \in Nat /\ m \in Nat
  BY <1>1, <1>2, ExportsMore DEF OthersInv, LoopsInside
<1>4. fh.exports = Hash(TRUE, FirstExports(file, n))
  BY <1>1 DEF OthersInv, NamesGiven
<1> HIDE DEF m
<1>5. n \in Nat /\ func = n + 1 /\ func' - 1 = n + 1 /\ func' \in Nat /\ func' \in 1..(m + 1)
  BY <1>1, <1>3
<1> HIDE DEF n
<1>6. FirstExports(file, n + 1) = Append(FirstExports(file, n), <<name, 1>>)
  <2>1. FirstExports(file, n + 1)
          = Append(FirstExports(file, n), <<NameOf(file.exports[n + 1]), 1>>)
    BY <1>2, <1>5, ExportsMore
  <2> QED
    BY <1>5, <2>1
<1> HIDE DEF name
<1> DEFINE new == Hash(TRUE, FirstExports(file, n + 1))
<1>7. IsHash(new) /\ new.alternateSign = TRUE /\ Given(fh.exports, name, 1) = new
  <2> DEFINE yes == TRUE
             g == FirstExports(file, n)
  <2>1. IsHash(new) /\ new.alternateSign = TRUE
    BY HasherSteps, Zenon
  <2>2. fh.exports = Hash(yes, g) /\ new = Hash(yes, Append(g, <<name, 1>>))
    BY <1>4, <1>6, Zenon
  <2> HIDE DEF yes, g, new
  <2>3. Given(Hash(yes, g), name, 1) = Hash(yes, Append(g, <<name, 1>>))
    BY HasherSteps
  <2> QED
    BY <2>1, <2>2, <2>3
<1> HIDE DEF new
<1>8. AreHashes(fh')
  <2>1. "exports" \in HasherNames /\ fh' = [fh EXCEPT !["exports"] = new]
    BY <1>1, <1>7 DEF HasherNames
  <2> QED
    BY <1>2, <1>7, <2>1, HasherChanged
<1>9. fh'.exports = new /\ fh'.pairs = fh.pairs
  BY <1>1, <1>2, <1>7 DEF HasherNames
<1>10. fh'.exports = Hash(TRUE, FirstExports(file', func' - 1))
  BY <1>1, <1>5, <1>9 DEF new
<1>11. NamesGiven'
  BY <1>1, <1>2, <1>7, <1>8, <1>9, <1>10 DEF NamesGiven
<1>12. LoopsInside'
  BY <1>1, <1>3, <1>5 DEF LoopsInside, m
<1>13. RegionsWritten'
  BY <1>1, RegionsLeft
<1> QED
  BY <1>11, <1>12, <1>13 DEF OthersInv

\* After the last export the region is that of the file.
LEMMA OthersExportsFinish ==
    ASSUME SectionsInv, OthersInv, ExportsFinish
    PROVE  OthersInv'
<1> DEFINE m == Len(file.exports)
           region == [number |-> NumExportedFunctions, functions |-> fh.exports]
           empty == Hash(TRUE, <<>>)
<1>1. /\ pc = "export" /\ pc' = "datadirectories" /\ func > m
      /\ UNCHANGED <<lib, func, numFunctions, file>>
      /\ output' = [output EXCEPT !["exports"] = region]
      /\ fh' = [fh EXCEPT !["exports"] = Finalized(fh.exports)]
  BY DEF ExportsFinish, Goto, Write, section, loops
<1>2. /\ file \in Files /\ file.isPE \in BOOLEAN
      /\ DOMAIN output = Regions
      /\ output["header"] = Features(file)["header"]
      /\ output["section"] = Features(file)["section"]
      /\ output["sectionHashes"] = Features(file)["sectionHashes"]
      /\ output["imports"] = Features(file)["imports"]
      /\ AreHashes(fh) /\ DOMAIN fh = HasherNames /\ fh.pairs.alternateSign = TRUE
  BY <1>1, AfterImports DEF Later, Steps
<1>3. HasExportDirectory(file) /\ func \in 1..(m + 1) /\ m \in Nat
  BY <1>1, <1>2, ExportsMore DEF OthersInv, LoopsInside
<1>4. fh.exports = Hash(TRUE, FirstExports(file, func - 1))
  BY <1>1 DEF OthersInv, NamesGiven
<1> HIDE DEF m
<1>5. func - 1 = m
  BY <1>1, <1>3
<1>6. region = Features(file)["exports"]
  <2>1. [number |-> NumExportedFunctions, functions |-> Hash(TRUE, FirstExports(file, m))]
          = ExportsOf(file)
    BY <1>2, <1>3, ExportsMore DEF m
  <2>2. region = ExportsOf(file)
    BY <1>4, <1>5, <2>1
  <2>3. file.isPE
    BY <1>3 DEF HasExportDirectory
  <2> QED
    BY <1>2, <1>3, <2>2, <2>3, FeaturesAre
<1> HIDE DEF region
<1>7. /\ DOMAIN output' = Regions /\ output'["header"] = Features(file)["header"]
      /\ output'["section"] = Features(file)["section"]
      /\ output'["sectionHashes"] = Features(file)["sectionHashes"]
      /\ output'["imports"] = Features(file)["imports"]
      /\ output'["exports"] = Features(file)["exports"]
  BY <1>1, <1>2, <1>6 DEF Regions
<1>8. IsHash(empty) /\ empty.alternateSign = TRUE /\ Finalized(fh.exports) = empty
  <2> DEFINE yes == TRUE
             g == FirstExports(file, func - 1)
  <2>1. IsHash(empty) /\ empty.alternateSign = TRUE
    BY HasherSteps, Zenon
  <2>2. fh.exports = Hash(yes, g) /\ empty = Hash(yes, <<>>)
    BY <1>4, Zenon
  <2> HIDE DEF yes, g, empty
  <2>3. Finalized(Hash(yes, g)) = Hash(yes, <<>>)
    BY HasherSteps
  <2> QED
    BY <2>1, <2>2, <2>3
<1> HIDE DEF empty
<1>9. AreHashes(fh')
  <2>1. "exports" \in HasherNames /\ fh' = [fh EXCEPT !["exports"] = empty]
    BY <1>1, <1>8 DEF HasherNames
  <2> QED
    BY <1>2, <1>8, <2>1, HasherChanged
<1>10. fh'.exports = empty /\ fh'.pairs = fh.pairs
  BY <1>1, <1>2, <1>8 DEF HasherNames
<1>11. NamesGiven'
  BY <1>1, <1>2, <1>8, <1>9, <1>10 DEF NamesGiven
<1>12. LoopsInside'
  BY <1>1 DEF OthersInv, LoopsInside
<1>13. RegionsWritten'
  BY <1>1, <1>7 DEF RegionsWritten, Later, Steps
<1> QED
  BY <1>11, <1>12, <1>13 DEF OthersInv

\* The regions of directories and relocations are written whole.
LEMMA OthersDirectories ==
    ASSUME SectionsInv, OthersInv, DirectoriesStart
    PROVE  OthersInv'
<1> DEFINE written == { d \in ToSet(ListDirectories(file)) : Fits(d) }
           cells == UNION { {2 * d.index, 2 * d.index + 1} : d \in written }
           directories == [c \in cells \cup 0..(VectorDim - 1) |->
                              IF c \in cells THEN Cell(CHOOSE d \in written : d.index = c \div 2, c)
                              ELSE 0]
           relocs == <<file.relocs, HasDynamicRelocs(file)>>
           D == IF file.isPE THEN directories ELSE Zero
           R == IF file.isPE THEN relocs ELSE Zero
<1>1. /\ pc = "datadirectories" /\ pc' = "richheader"
      /\ UNCHANGED <<fh, lib, func, numFunctions, file>>
  BY DEF DirectoriesStart, Goto, section, loops
<1>2. output' = [output EXCEPT !["datadirectories"] = D, !["relocations"] = R]
  BY Zenon DEF DirectoriesStart
<1>3. /\ file \in Files /\ file.isPE \in BOOLEAN
      /\ DOMAIN output = Regions
      /\ output["header"] = Features(file)["header"]
      /\ output["section"] = Features(file)["section"]
      /\ output["sectionHashes"] = Features(file)["sectionHashes"]
      /\ output["imports"] = Features(file)["imports"]
  BY <1>1, AfterImports DEF Later, Steps
<1>4. output["exports"] = Features(file)["exports"]
  BY <1>1 DEF OthersInv, RegionsWritten
<1>5. directories = DirectoriesOf(file)
  BY <1>3, DirectoriesAre, Zenon
<1> HIDE DEF written, cells, directories
<1>6. ASSUME file.isPE
      PROVE  relocs = <<file.relocs, file.configuration /\ file.dynamicRelocs > 0>>
  <2>1. HasDynamicRelocs(file) = (file.configuration /\ file.dynamicRelocs > 0)
    BY <1>6 DEF HasDynamicRelocs
  <2> QED
    BY <2>1, Zenon
<1> HIDE DEF relocs
<1>7. D = Features(file)["datadirectories"]
  BY <1>3, <1>5, FeaturesAre DEF Regions
<1>8. R = Features(file)["relocations"]
  <2>1. CASE file.isPE
    <3> DEFINE x == <<file.relocs, file.configuration /\ file.dynamicRelocs > 0>>
    <3>1. relocs = x /\ Features(file)["relocations"] = x
      BY <1>3, <1>6, <2>1, FeaturesAre, Zenon
    <3> HIDE DEF x
    <3> QED
      BY <2>1, <3>1
  <2>2. CASE ~file.isPE
    BY <1>3, <2>2, FeaturesAre DEF Regions
  <2> QED
    BY <1>3, <2>1, <2>2
<1> HIDE DEF D, R
<1>9. /\ DOMAIN output' = Regions /\ output'["header"] = Features(file)["header"]
      /\ output'["section"] = Features(file)["section"]
      /\ output'["sectionHashes"] = Features(file)["sectionHashes"]
      /\ output'["imports"] = Features(file)["imports"]
      /\ output'["exports"] = Features(file)["exports"]
      /\ output'["datadirectories"] = Features(file)["datadirectories"]
      /\ output'["relocations"] = Features(file)["relocations"]
  BY <1>2, <1>3, <1>4, <1>7, <1>8 DEF Regions
<1>10. NamesGiven'
  BY <1>1 DEF OthersInv, NamesGiven
<1>11. LoopsInside'
  BY <1>1 DEF OthersInv, LoopsInside
<1>12. RegionsWritten'
  BY <1>1, <1>9 DEF RegionsWritten, Later, Steps
<1> QED
  BY <1>10, <1>11, <1>12 DEF OthersInv

\* What is known once the directories are written.
LEMMA AfterDirectories ==
    ASSUME SectionsInv, OthersInv, pc \in {"richheader", "pair", "done"}
    PROVE  /\ file \in Files /\ file.isPE \in BOOLEAN
           /\ DOMAIN output = Regions
           /\ \A r \in Regions \ {"sectionExtremes", "richheader"} :
                 output[r] = Features(file)[r]
           /\ AreHashes(fh) /\ DOMAIN fh = HasherNames
           /\ fh.exports.alternateSign = TRUE /\ fh.pairs.alternateSign = TRUE
<1>1. /\ file \in Files /\ file.isPE \in BOOLEAN
      /\ DOMAIN output = Regions
      /\ output["header"] = Features(file)["header"]
      /\ output["section"] = Features(file)["section"]
      /\ output["sectionHashes"] = Features(file)["sectionHashes"]
      /\ output["imports"] = Features(file)["imports"]
      /\ AreHashes(fh) /\ DOMAIN fh = HasherNames
      /\ fh.exports.alternateSign = TRUE /\ fh.pairs.alternateSign = TRUE
  BY AfterImports DEF Later, Steps
<1>2. /\ output["exports"] = Features(file)["exports"]
      /\ output["datadirectories"] = Features(file)["datadirectories"]
      /\ output["relocations"] = Features(file)["relocations"]
  BY DEF OthersInv, RegionsWritten
<1>3. \A r \in Regions \ {"sectionExtremes", "richheader"} : output[r] = Features(file)[r]
  BY <1>1, <1>2 DEF Regions
<1> QED
  BY <1>1, <1>3

\* When the region of the rich header is written the others stay as they are.
LEMMA RegionsBeforeRich ==
    ASSUME SectionsInv, OthersInv, pc \in {"richheader", "pair"}, file' = file,
           NEW value, output' = [output EXCEPT !["richheader"] = value],
           \/ pc' = "pair" /\ value = [pairs |-> Max({0, NumPairs(file) - 3}), hashed |-> Zero]
           \/ pc' = "done" /\ value = Features(file)["richheader"]
    PROVE  RegionsWritten'
<1>1. /\ DOMAIN output = Regions
      /\ \A r \in Regions \ {"sectionExtremes", "richheader"} : output[r] = Features(file)[r]
  BY AfterDirectories
<1>2. /\ DOMAIN output' = Regions /\ output'["richheader"] = value
      /\ \A r \in Regions \ {"sectionExtremes", "richheader"} : output'[r] = Features(file)[r]
  BY <1>1 DEF Regions
<1>3. /\ output'["header"] = Features(file)["header"]
      /\ output'["section"] = Features(file)["section"]
      /\ output'["sectionHashes"] = Features(file)["sectionHashes"]
      /\ output'["imports"] = Features(file)["imports"]
      /\ output'["exports"] = Features(file)["exports"]
      /\ output'["datadirectories"] = Features(file)["datadirectories"]
      /\ output'["relocations"] = Features(file)["relocations"]
  BY <1>2 DEF Regions
<1> QED
  BY <1>2, <1>3 DEF RegionsWritten, Later, Steps

\* The pairs are counted first; a file without two double words has zeros.
LEMMA OthersRich ==
    ASSUME SectionsInv, OthersInv, RichStart
    PROVE  OthersInv'
<1> DEFINE has == HasRichHeader(file) /\ RichHeaderSize(file) \div 4 >= 2
<1>1. pc = "richheader" /\ file' = file /\ lib' = lib /\ numFunctions' = numFunctions
  BY DEF RichStart, section
<1>2. /\ file \in Files /\ file.isPE \in BOOLEAN
      /\ AreHashes(fh) /\ DOMAIN fh = HasherNames
      /\ fh.exports.alternateSign = TRUE /\ fh.pairs.alternateSign = TRUE
  BY <1>1, AfterDirectories
<1>3. lib \in Nat /\ func \in Nat /\ numFunctions \in Nat
  BY DEF OthersInv, LoopsInside
<1>4. /\ has <=> file.isPE /\ file.hasRich /\ Len(file.dwords) >= 2
      /\ has => HasRichHeader(file) /\ Len(file.dwords) >= 2
      /\ NumPairs(file) \in Nat
  BY <1>2, RichSize
<1>5. CASE has
  <2> DEFINE value == [pairs |-> Max({0, NumPairs(file) - 3}), hashed |-> Zero]
  <2>1. /\ pc' = "pair" /\ fh' = [fh EXCEPT !["pairs"] = NewFH] /\ func' = 1
        /\ output' = [output EXCEPT !["richheader"] = value]
    BY <1>5 DEF RichStart, Write
  <2> HIDE DEF value
  <2>2. NewFH = Hash(TRUE, <<>>) /\ IsHash(NewFH) /\ NewFH.alternateSign = TRUE
    BY HasherSteps, Zenon
  <2>3. AreHashes(fh')
    <3>1. "pairs" \in HasherNames
      BY DEF HasherNames
    <3> QED
      BY <1>2, <2>1, <2>2, <3>1, HasherChanged
  <2>4. fh'.pairs = NewFH /\ fh'.exports = fh.exports
    BY <1>2, <2>1 DEF HasherNames
  <2>5. fh'.pairs = Hash(TRUE, FirstPairs(file', func' - 1))
    <3>1. func' - 1 = 0
      BY <2>1
    <3>2. FirstPairs(file, 0) = <<>>
      BY <1>2, PairsMore
    <3> QED
      BY <1>1, <2>2, <2>4, <3>1, <3>2
  <2>6. NamesGiven'
    BY <1>2, <2>1, <2>2, <2>3, <2>4, <2>5 DEF NamesGiven
  <2>7. LoopsInside'
    <3>1. HasRichHeader(file') /\ Len(file'.dwords) >= 2 /\ NumPairs(file') \in Nat
      BY <1>1, <1>4, <1>5
    <3> QED
      BY <1>1, <1>3, <2>1, <3>1 DEF LoopsInside
  <2>8. RegionsWritten'
    BY <1>1, <2>1, RegionsBeforeRich DEF value
  <2> QED
    BY <2>6, <2>7, <2>8 DEF OthersInv
<1>6. CASE ~has
  <2>1. pc' = "done" /\ UNCHANGED <<fh, func>> /\ output' = [output EXCEPT !["richheader"] = Zero]
    BY <1>6 DEF RichStart, Write
  <2>2. Features(file)["richheader"] = Zero
    <3>1. CASE file.isPE
      BY <1>2, <1>4, <1>6, <3>1, FeaturesAre
    <3>2. CASE ~file.isPE
      BY <1>2, <3>2, FeaturesAre DEF Regions
    <3> QED
      BY <3>1, <3>2
  <2>3. NamesGiven'
    BY <1>2, <2>1 DEF NamesGiven
  <2>4. LoopsInside'
    BY <1>1, <1>3, <2>1 DEF LoopsInside
  <2>5. RegionsWritten'
    BY <1>1, <2>1, <2>2, RegionsBeforeRich
  <2> QED
    BY <2>3, <2>4, <2>5 DEF OthersInv
<1> QED
  BY <1>5, <1>6

\* One pair more.
LEMMA OthersPair ==
    ASSUME SectionsInv, OthersInv, ReducePair
    PROVE  OthersInv'
<1> DEFINE n == func - 1
           name == file.dwords[2 * func - 1]
           weight == file.dwords[2 * func]
           m == NumPairs(file)
<1>1. /\ pc = "pair" /\ pc' = pc /\ func <= m /\ func' = func + 1 /\ lib' = lib
      /\ numFunctions' = numFunctions /\ file' = file /\ output' = output
      /\ fh' = [fh EXCEPT !["pairs"] = Given(fh.pairs, name, weight)]
  BY DEF ReducePair, section
<1>2. /\ file \in Files /\ AreHashes(fh) /\ DOMAIN fh = HasherNames
      /\ fh.exports.alternateSign = TRUE
  BY <1>1, AfterDirectories
<1>3. /\ HasRichHeader(file) /\ Len(file.dwords) >= 2 /\ func \in 1..(m + 1)
      /\ lib \in Nat /\ numFunctions \in Nat /\ m \in Nat
  BY <1>1, <1>2, RichSize DEF OthersInv, LoopsInside
<1>4. fh.pairs = Hash(TRUE, FirstPairs(file, n))
  BY <1>1 DEF OthersInv, NamesGiven
<1> HIDE DEF m
<1>5. n \in Nat /\ func = n + 1 /\ func' - 1 = n + 1 /\ func' \in Nat /\ func' \in 1..(m + 1)
  BY <1>1, <1>3
<1> HIDE DEF n
<1>6. FirstPairs(file, n + 1) = Append(FirstPairs(file, n), <<name, weight>>)
  <2>1. FirstPairs(file, n + 1)
          = Append(FirstPairs(file, n), <<file.dwords[2 * (n + 1) - 1], file.dwords[2 * (n + 1)]>>)
    BY <1>2, <1>5, PairsMore
  <2> QED
    BY <1>5, <2>1
<1> HIDE DEF name, weight
<1> DEFINE new == Hash(TRUE, FirstPairs(file, n + 1))
<1>7. IsHash(new) /\ new.alternateSign = TRUE /\ Given(fh.pairs, name, weight) = new
  <2> DEFINE yes == TRUE
             g == FirstPairs(file, n)
  <2>1. IsHash(new) /\ new.alternateSign = TRUE
    BY HasherSteps, Zenon
  <2>2. fh.pairs = Hash(yes, g) /\ new = Hash(yes, Append(g, <<name, weight>>))
    BY <1>4, <1>6, Zenon
  <2> HIDE DEF yes, g, new
  <2>3. Given(Hash(yes, g), name, weight) = Hash(yes, Append(g, <<name, weight>>))
    BY HasherSteps
  <2> QED
    BY <2>1, <2>2, <2>3
<1> HIDE DEF new
<1>8. AreHashes(fh')
  <2>1. "pairs" \in HasherNames /\ fh' = [fh EXCEPT !["pairs"] = new]
    BY <1>1, <1>7 DEF HasherNames
  <2> QED
    BY <1>2, <1>7, <2>1, HasherChanged
<1>9. fh'.pairs = new /\ fh'.exports = fh.exports
  BY <1>1, <1>2, <1>7 DEF HasherNames
<1>10. fh'.pairs = Hash(TRUE, FirstPairs(file', func' - 1))
  BY <1>1, <1>5, <1>9 DEF new
<1>11. NamesGiven'
  BY <1>1, <1>2, <1>7, <1>8, <1>9, <1>10 DEF NamesGiven
<1>12. LoopsInside'
  BY <1>1, <1>3, <1>5 DEF LoopsInside, m
<1>13. RegionsWritten'
  BY <1>1, RegionsLeft
<1> QED
  BY <1>11, <1>12, <1>13 DEF OthersInv

\* After the last pair the region is that of the file.
LEMMA OthersRichFinish ==
    ASSUME SectionsInv, OthersInv, RichFinish
    PROVE  OthersInv'
<1> DEFINE m == NumPairs(file)
           count == Max({0, m - 3})
           value == [pairs |-> count, hashed |-> fh.pairs]
<1>1. /\ pc = "pair" /\ pc' = "done" /\ func > m /\ UNCHANGED <<fh, lib, func, numFunctions, file>>
      /\ output' = [output EXCEPT !["richheader"].hashed = fh.pairs]
  BY DEF RichFinish, Goto, section, loops
<1>2. /\ file \in Files /\ file.isPE \in BOOLEAN /\ DOMAIN output = Regions
  BY <1>1, AfterDirectories
<1>3. /\ HasRichHeader(file) /\ Len(file.dwords) >= 2 /\ func \in 1..(m + 1) /\ m \in Nat
      /\ m = Len(file.dwords) \div 2 /\ file.isPE /\ file.hasRich
      /\ count = IF Len(file.dwords) < 8 THEN 0 ELSE Len(file.dwords) \div 2 - 3
  <2>1. HasRichHeader(file) /\ Len(file.dwords) >= 2 /\ func \in 1..(m + 1)
    BY <1>1 DEF OthersInv, LoopsInside
  <2>2. m \in Nat /\ m = Len(file.dwords) \div 2 /\ file.isPE /\ file.hasRich
    BY <1>2, <2>1, RichSize
  <2>3. count = IF Len(file.dwords) < 8 THEN 0 ELSE Len(file.dwords) \div 2 - 3
    BY <1>2, <2>1, RichSize
  <2> QED
    BY <2>1, <2>2, <2>3
<1>4. fh.pairs = Hash(TRUE, FirstPairs(file, func - 1))
  BY <1>1 DEF OthersInv, NamesGiven
<1>5. output["richheader"] = [pairs |-> count, hashed |-> Zero]
  BY <1>1 DEF OthersInv, RegionsWritten
<1> HIDE DEF count, m
<1>6. func - 1 = m
  <2>1. func > m /\ func \in 1..(m + 1) /\ m \in Nat
    BY <1>1, <1>3
  <2> QED
    BY <2>1
<1>7. output' = [output EXCEPT !["richheader"] = value]
  <2>1. [output["richheader"] EXCEPT !.hashed = fh.pairs] = value
    BY <1>5
  <2>2. output' = [output EXCEPT !["richheader"] =
                       [output["richheader"] EXCEPT !.hashed = fh.pairs]]
    BY <1>1
  <2> HIDE DEF value
  <2> QED
    BY <2>1, <2>2
<1>8. value = Features(file)["richheader"]
  <2>1. FirstPairs(file, m) = [k \in 1..(Len(file.dwords) \div 2) |->
                                 <<file.dwords[2 * k - 1], file.dwords[2 * k]>>]
    BY <1>3, Zenon DEF FirstPairs
  <2>2. FirstPairs(file, func - 1) = FirstPairs(file, m)
    BY <1>6
  <2>3. value = RichOf(file)
    BY <1>3, <1>4, <2>1, <2>2, Zenon DEF RichOf
  <2> QED
    BY <1>2, <1>3, <2>3, FeaturesAre
<1> HIDE DEF value
<1>9. NamesGiven'
  BY <1>1 DEF OthersInv, NamesGiven
<1>10. LoopsInside'
  BY <1>1 DEF OthersInv, LoopsInside
<1>11. RegionsWritten'
  BY <1>1, <1>7, <1>8, RegionsBeforeRich
<1> QED
  BY <1>9, <1>10, <1>11 DEF OthersInv

-----------------------------------------------------------------------------
(* The invariant of the specification *)

\* The first states have it.
LEMMA InitInv == ASSUME Init PROVE Inv
BY SectionsInit, OthersInit DEF Inv

\* A run that ends, in the middle of its names or after the last region, leaves nothing
\* of its sections and its loops.
LEMMA EndInv == ASSUME Inv, EndOfRun PROVE Inv'
BY SectionsForgotten, OthersForgotten DEF Inv

\* A step that takes no action.
LEMMA StutterInv == ASSUME Inv, UNCHANGED vars PROVE Inv'
<1>1. /\ UNCHANGED section /\ pc' = pc /\ file' = file
      /\ UNCHANGED <<output, fh, lib, func, numFunctions>>
  BY DEF vars, loops, section
<1>2. SectionsInv'
  BY <1>1, SectionsLeft DEF Inv
<1>3. Libraries' = Libraries
  BY <1>1 DEF Libraries
<1>4. LoopsInside'
  BY <1>1, <1>3 DEF Inv, OthersInv, LoopsInside
<1>5. NamesGiven'
  BY <1>1, <1>3 DEF Inv, OthersInv, NamesGiven
<1>6. RegionsWritten'
  BY <1>1 DEF Inv, OthersInv, RegionsWritten
<1> QED
  BY <1>2, <1>4, <1>5, <1>6 DEF Inv, OthersInv

\* Steps of the other feature types leave what SectionInfo keeps.
LEMMA OthersKeepSections ==
    ASSUME SectionsInv,
           \/ HeaderStart
           \/ ImportsStart \/ ReduceLibrary \/ ReduceFunction \/ LibraryDone \/ ImportsFinish
           \/ ExportsStart \/ ReduceExport \/ ExportsFinish
           \/ DirectoriesStart
           \/ RichStart \/ ReducePair \/ RichFinish
    PROVE  SectionsInv'
<1>1. UNCHANGED section
  BY DEF HeaderStart, ImportsStart, ReduceLibrary, ReduceFunction, LibraryDone, ImportsFinish,
         ExportsStart, ReduceExport, ExportsFinish, DirectoriesStart, RichStart, ReducePair,
         RichFinish
<1>2. CASE HeaderStart
  BY <1>1, <1>2, SectionsLeft DEF HeaderStart, Goto
<1>3. CASE ImportsStart \/ ReduceLibrary \/ ReduceFunction \/ LibraryDone \/ ImportsFinish
  <2>1. pc \in Later /\ pc' \in Later
    BY <1>3 DEF ImportsStart, ReduceLibrary, ReduceFunction, LibraryDone, ImportsFinish,
                Goto, Later, Steps
  <2> QED
    BY <1>1, <2>1, SectionsLeft
<1>4. CASE ExportsStart \/ ReduceExport \/ ExportsFinish \/ DirectoriesStart
  <2>1. pc \in Later /\ pc' \in Later
    BY <1>4 DEF ExportsStart, ReduceExport, ExportsFinish, DirectoriesStart, Goto, Later, Steps
  <2> QED
    BY <1>1, <2>1, SectionsLeft
<1>5. CASE RichStart \/ ReducePair \/ RichFinish
  <2>1. pc \in Later /\ pc' \in Later
    BY <1>5 DEF RichStart, ReducePair, RichFinish, Goto, Later, Steps
  <2> QED
    BY <1>1, <2>1, SectionsLeft
<1> QED
  BY <1>2, <1>3, <1>4, <1>5

\* Every step keeps it.
LEMMA NextInv == ASSUME Inv, [Next]_vars PROVE Inv'
<1> USE DEF Inv
<1>1. ASSUME NEW f \in Files, Run(f) PROVE Inv'
  BY <1>1, SectionsRun, OthersRun
<1>2. CASE HeaderStart
  BY <1>2, OthersKeepSections, OthersHeader
<1>3. CASE SectionNotPE
  BY <1>3, SectionsNotPE, OthersNotPE
<1>4. CASE SectionStart
  BY <1>4, SectionsStart, OthersSection
<1>5. CASE SectionLoop
  BY <1>5, SectionsLoop, OthersSection
<1>6. CASE SectionFinish
  BY <1>6, SectionsFinish, OthersFinish
<1>7. CASE ImportsStart
  BY <1>7, OthersKeepSections, OthersImports
<1>8. CASE ReduceLibrary
  BY <1>8, OthersKeepSections, OthersLibrary
<1>9. CASE ReduceFunction
  BY <1>9, OthersKeepSections, OthersFunction
<1>10. CASE LibraryDone
  BY <1>10, OthersKeepSections, OthersLibraryDone
<1>11. CASE ImportsFinish
  BY <1>11, OthersKeepSections, OthersImportsFinish
<1>12. CASE ExportsStart
  BY <1>12, OthersKeepSections, OthersExports
<1>13. CASE ReduceExport
  BY <1>13, OthersKeepSections, OthersExport
<1>14. CASE ExportsFinish
  BY <1>14, OthersKeepSections, OthersExportsFinish
<1>15. CASE DirectoriesStart
  BY <1>15, OthersKeepSections, OthersDirectories
<1>16. CASE RichStart
  BY <1>16, OthersKeepSections, OthersRich
<1>17. CASE ReducePair
  BY <1>17, OthersKeepSections, OthersPair
<1>18. CASE RichFinish
  BY <1>18, OthersKeepSections, OthersRichFinish
<1>19. CASE Return
  BY <1>19, EndInv DEF Return
<1>20. CASE Abandon
  BY <1>20, EndInv DEF Abandon
<1>21. CASE UNCHANGED vars
  BY <1>21, StutterInv
<1> QED
  BY <1>1, <1>2, <1>3, <1>4, <1>5, <1>6, <1>7, <1>8, <1>9, <1>10, <1>11, <1>12, <1>13, <1>14,
     <1>15, <1>16, <1>17, <1>18, <1>19, <1>20, <1>21 DEF Next

\* At every state of a run the counts, extremes, indices and hashers are those of the
\* sections, libraries, functions, exports and pairs gone through, and the regions
\* written are those of the file, whatever files were run before.
THEOREM FeaturesInvariant == Spec => []Inv
<1>1. Init => Inv
  BY InitInv
<1>2. Inv /\ [Next]_vars => Inv'
  BY NextInv
<1> QED
  BY <1>1, <1>2, PTL DEF Spec

-----------------------------------------------------------------------------
(* The properties of the runs *)

\* The section of the entry point of a whole pass is the one ChosenSection names
\* (core/src/f_section_info.cpp:247-273): the last that holds the entry point,
\* or else the first executable one.
THEOREM EntrySectionCorrect == Spec => []EntrySectionIsTheOne
<1>1. Inv => EntrySectionIsTheOne
  <2> SUFFICES ASSUME Inv, sectionPc = "done", peFile.isPE
               PROVE  LET chosen == Info!ChosenSection(file.sections, Entrypoint(file))
                      IN  /\ pEntrySection = chosen
                          /\ hashers.entryName =
                               IF chosen = NONE THEN <<>> ELSE <<peFile.sections[chosen].name>>
    BY SameOperators DEF EntrySectionIsTheOne, Info!EntrySectionIsTheOne
  <2>1. pc # "idle"
    BY DEF Inv, SectionsInv, SectionStep
  <2>2. file \in Files /\ Secs = ListSections(file) /\ peFile.entrypointRVA = Entrypoint(file)
    BY <2>1, InRun DEF Inv
  <2>3. Chosen(Secs, peFile.entrypointRVA) = Info!ChosenSection(file.sections, Entrypoint(file))
    BY <2>2, ChosenIs
  <2> QED
    BY <2>3 DEF Inv, SectionsInv, EntryFound, Secs
<1> QED
  BY <1>1, FeaturesInvariant, PTL

\* A section chosen is one of those there are.
LEMMA IndexType ==
    ASSUME NEW l, NEW rva, NEW n \in Nat
    PROVE  /\ FirstOf(Executable(l, n)) \in 1..n \cup {NONE}
           /\ LastOf(Holding(l, rva, n)) \in 1..n \cup {NONE}
           /\ Len(l) = n => Chosen(l, rva) \in 1..n \cup {NONE}
<1> DEFINE E == Executable(l, n)
           H == Holding(l, rva, n)
<1>1. E \in SUBSET (1..n) /\ H \in SUBSET (1..n)
  BY KindsInside
<1>2. (E # {} => Min(E) \in 1..n) /\ (H # {} => Max(H) \in 1..n)
  BY <1>1, MinExists, MaxExists
<1> HIDE DEF E, H
<1>3. FirstOf(E) \in 1..n \cup {NONE} /\ LastOf(H) \in 1..n \cup {NONE}
  BY <1>2 DEF FirstOf, LastOf
<1>4. ASSUME Len(l) = n PROVE Chosen(l, rva) \in 1..n \cup {NONE}
  <2>1. Chosen(l, rva) = IF H # {} THEN Max(H) ELSE FirstOf(E)
    BY <1>4 DEF Chosen, E, H
  <2> QED
    BY <1>2, <1>3, <2>1
<1> QED
  BY <1>3, <1>4 DEF E, H

\* The variables of SectionInfo have their types.
LEMMA SectionTypes == ASSUME Inv PROVE Info!TypeOK
<1> DEFINE n == next - 1
           index == Nat \cup {NONE}
<1>1. SectionsInv
  BY DEF Inv
<1>2. sectionPc \in {"idle", "parsed", "loop", "done"} /\ file \in Files \cup {NONE}
  BY <1>1 DEF SectionsInv, SectionStep, FileRead, Steps, Later
<1>3. /\ peFile.isPE \in BOOLEAN /\ peFile.entrypointRVA \in Nat
      /\ Len(Secs) \in Nat
  BY <1>1, SecsAre DEF SectionsInv
<1>4. next \in 1..(Len(Secs) + 1)
  BY <1>1 DEF SectionsInv, NextInside
<1>5. n \in Nat /\ n < next /\ (sectionPc = "done" => n = Len(Secs))
  BY <1>1, <1>3, <1>4 DEF SectionsInv, NextInside
<1> HIDE DEF n
<1>6. Len(hashers.size) = n
  <2>1. hashers.size = Sizes(Secs, n)
    BY <1>1 DEF SectionsInv, HashersKept, n
  <2> QED
    BY <1>5, <2>1, WeightsMore
<1>7. pPotentialEntrySection \in index
  <2>1. pPotentialEntrySection = FirstOf(Executable(Secs, n))
    BY <1>1 DEF SectionsInv, EntriesKept, n
  <2> QED
    BY <1>5, <2>1, IndexType
<1>8. pEntrySection \in index
  <2>1. CASE sectionPc # "done"
    <3>1. pEntrySection = LastOf(Holding(Secs, peFile.entrypointRVA, n))
      BY <1>1, <2>1 DEF SectionsInv, EntriesKept, n
    <3> QED
      BY <1>5, <3>1, IndexType
  <2>2. CASE sectionPc = "done"
    <3>1. pEntrySection = Chosen(Secs, peFile.entrypointRVA)
      BY <1>1, <2>2 DEF SectionsInv, EntryFound
    <3> QED
      BY <1>5, <2>2, <3>1, IndexType
  <2> QED
    BY <2>1, <2>2
<1>9. \A c \in DOMAIN counts : counts[c] \in 0..n
  <2>1. counts = [zeroSize |-> Cardinality(ZeroSize(Secs, n)),
                  emptyName |-> Cardinality(EmptyName(Secs, n)),
                  readableAndExecutable |-> Cardinality(ReadableAndExecutable(Secs, n)),
                  writable |-> Cardinality(Writable(Secs, n))]
    BY <1>1 DEF SectionsInv, CountsKept, n
  <2>2. /\ ZeroSize(Secs, n) \subseteq 1..n /\ EmptyName(Secs, n) \subseteq 1..n
        /\ ReadableAndExecutable(Secs, n) \subseteq 1..n /\ Writable(Secs, n) \subseteq 1..n
    BY <1>5, KindsInside
  <2>3. /\ Cardinality(ZeroSize(Secs, n)) \in 0..n /\ Cardinality(EmptyName(Secs, n)) \in 0..n
        /\ Cardinality(ReadableAndExecutable(Secs, n)) \in 0..n
        /\ Cardinality(Writable(Secs, n)) \in 0..n
    BY <1>5, <2>2, OneMore
  <2> QED
    BY <2>1, <2>3
<1>10. extremes \in [Info!Measures -> [{"max", "min"} -> Nat \X (Nat \ {0})]]
  BY <1>1 DEF SectionsInv, ExtremesKept, Extremes, Ratios
<1>11. /\ next \in 1..(Len(peFile.sections) + 1) /\ Len(hashers.size) < next
       /\ \A c \in DOMAIN counts : counts[c] \in 0..Len(hashers.size)
  BY <1>4, <1>5, <1>6, <1>9 DEF Secs
<1> QED
  BY <1>2, <1>3, <1>7, <1>8, <1>10, <1>11 DEF Info!TypeOK, Info!Index

\* Every variable has its type in every state: in the middle of a library there is
\* such a library, no count exceeds the sections gone through, and the hashers of
\* exports and pairs keep their alternate sign (the default, which only ImportsInfo::start
\* turns off, core/src/f_imports_info.cpp:55,61).
THEOREM TypeCorrect == Spec => []TypeOK
<1>1. Inv => TypeOK
  <2> SUFFICES ASSUME Inv PROVE TypeOK
    OBVIOUS
  <2>1. Info!TypeOK
    BY SectionTypes
  <2>2. pc \in Steps /\ (pc = "idle" <=> file = NONE)
    BY DEF Inv, SectionsInv, SectionStep, FileRead
  <2>3. DOMAIN output = Regions
    BY DEF Inv, OthersInv, RegionsWritten
  <2>4. lib \in Nat /\ func \in Nat /\ numFunctions \in Nat
    BY DEF Inv, OthersInv, LoopsInside
  <2>5. ASSUME pc = "function" PROVE lib \in DOMAIN Libraries
    <3>1. lib \in 1..Len(Libraries)
      BY <2>5 DEF Inv, OthersInv, LoopsInside
    <3>2. file \in Files
      BY <2>5, InRun DEF Inv
    <3>3. DOMAIN Libraries = DOMAIN file.imports
      BY DEF Libraries, ListImports
    <3>4. DOMAIN file.imports = 1..Len(Libraries)
      BY <3>2, ImportsListed DEF Libraries
    <3> QED
      BY <3>1, <3>3, <3>4
  <2>6. fh.exports.alternateSign = TRUE /\ fh.pairs.alternateSign = TRUE
    BY DEF Inv, OthersInv, NamesGiven
  <2> QED
    BY <2>1, <2>2, <2>3, <2>4, <2>5, <2>6 DEF TypeOK, Steps
<1> QED
  BY <1>1, FeaturesInvariant, PTL

\* At every turn of the loop the counts and the extremes are those of the sections gone
\* through and of the overlay (core/src/f_section_info.cpp:228-261), with nothing left of
\* the file before; the least ones stay zero.
THEOREM CountsCorrect == Spec => []KeptOfTheSections
<1>1. Inv => KeptOfTheSections
  <2> DEFINE n == next - 1
             l == peFile.sections
             seen == { l[k] : k \in 1..n }
  <2> SUFFICES ASSUME Inv, sectionPc = "loop"
               PROVE  /\ counts =
                           [zeroSize |-> Info!Cardinality({ k \in 1..n : l[k].sizeRaw = 0 }),
                            emptyName |-> Info!Cardinality({ k \in 1..n : l[k].name = EMPTY }),
                            readableAndExecutable |->
                               Info!Cardinality({ k \in 1..n : Info!Has(l[k], "MEM_READ")
                                                           /\ Info!Has(l[k], "MEM_EXECUTE") }),
                            writable |->
                               Info!Cardinality({ k \in 1..n : Info!Has(l[k], "MEM_WRITE") })]
                      /\ Info!Greatest(extremes.entropy.max,
                           { <<s.entropy, 1>> : s \in seen }
                              \cup {<<Info!OverlayEntropy(file), 1>>})
                      /\ Info!Greatest(extremes.sizeRatio.max,
                           { s.sizeRatio : s \in seen } \cup {Info!OverlayRatio(file)})
                      /\ Info!Greatest(extremes.vsizeRatio.max, { s.vsizeRatio : s \in seen })
                      /\ \A m \in Info!Measures : extremes[m].min[1] = 0
    BY Zenon DEF KeptOfTheSections, Info!KeptOfTheSections
  <2>1. counts = [zeroSize |-> Info!Cardinality({ k \in 1..n : l[k].sizeRaw = 0 }),
                  emptyName |-> Info!Cardinality({ k \in 1..n : l[k].name = EMPTY }),
                  readableAndExecutable |->
                     Info!Cardinality({ k \in 1..n : Info!Has(l[k], "MEM_READ")
                                                 /\ Info!Has(l[k], "MEM_EXECUTE") }),
                  writable |-> Info!Cardinality({ k \in 1..n : Info!Has(l[k], "MEM_WRITE") })]
    <3>1. /\ ZeroSize(l, n) = { k \in 1..n : l[k].sizeRaw = 0 }
          /\ EmptyName(l, n) = { k \in 1..n : l[k].name = EMPTY }
          /\ ReadableAndExecutable(l, n) = { k \in 1..n : Info!Has(l[k], "MEM_READ")
                                                          /\ Info!Has(l[k], "MEM_EXECUTE") }
          /\ Writable(l, n) = { k \in 1..n : Info!Has(l[k], "MEM_WRITE") }
      BY SameOperators DEF ZeroSize, EmptyName, ReadableAndExecutable, Writable
    <3>2. counts = [zeroSize |-> Cardinality(ZeroSize(l, n)),
                    emptyName |-> Cardinality(EmptyName(l, n)),
                    readableAndExecutable |-> Cardinality(ReadableAndExecutable(l, n)),
                    writable |-> Cardinality(Writable(l, n))]
      BY DEF Inv, SectionsInv, CountsKept, Secs
    <3>3. \A S : Info!Cardinality(S) = Cardinality(S)
      BY SameOperators
    <3> QED
      BY <3>1, <3>2, <3>3, Zenon
  <2>2. /\ n \in Nat /\ n <= Len(l) /\ l \in Seq(SectionRecords) /\ file \in Files
        /\ pc # "idle"
    <3>1. pc # "idle" /\ next \in 1..(Len(Secs) + 1)
      BY DEF Inv, SectionsInv, SectionStep, NextInside
    <3>2. Secs \in Seq(SectionRecords) /\ Len(Secs) \in Nat
      BY SecsAre DEF Inv, SectionsInv
    <3>3. file \in Files
      BY <3>1, InRun DEF Inv
    <3> QED
      BY <3>1, <3>2, <3>3 DEF Secs
  <2>3. /\ \A m \in Info!Measures : extremes[m].min[1] = 0
        /\ \A m \in Info!Measures : extremes[m].max \in Ratios
        /\ \A m \in Info!Measures : AtLeast(extremes[m].max, Seen(l, file, m, n))
    BY DEF Inv, SectionsInv, ExtremesKept, Extremes, Secs
  <2>4. Info!Measures = {"entropy", "sizeRatio", "vsizeRatio"}
    BY DEF Info!Measures
  <2>5. ASSUME NEW max \in Ratios, NEW some, AtLeast(max, some) PROVE Info!Greatest(max, some)
    BY <2>5, ExceedsSelf DEF AtLeast, Info!Greatest
  <2> HIDE DEF n, l
  <2>6. Info!Greatest(extremes.entropy.max,
            { <<s.entropy, 1>> : s \in seen } \cup {<<Info!OverlayEntropy(file), 1>>})
    <3>1. Seen(l, file, "entropy", n)
             = { <<s.entropy, 1>> : s \in seen } \cup {<<Info!OverlayEntropy(file), 1>>}
      BY DEF Seen, Info!OfSection, Info!OfOverlay
    <3> QED
      BY <2>3, <2>4, <2>5, <3>1
  <2>7. Info!Greatest(extremes.sizeRatio.max,
            { s.sizeRatio : s \in seen } \cup {Info!OverlayRatio(file)})
    <3>1. Seen(l, file, "sizeRatio", n)
             = { s.sizeRatio : s \in seen } \cup {Info!OverlayRatio(file)}
      BY DEF Seen, Info!OfSection, Info!OfOverlay
    <3> QED
      BY <2>3, <2>4, <2>5, <3>1
  <2>8. Info!Greatest(extremes.vsizeRatio.max, { s.vsizeRatio : s \in seen })
    <3>1. Seen(l, file, "vsizeRatio", n) = { s.vsizeRatio : s \in seen } \cup {Info!ZeroRatio}
      BY DEF Seen, Info!OfSection, Info!OfOverlay
    <3>2. AtLeast(extremes.vsizeRatio.max, { s.vsizeRatio : s \in seen })
      BY <2>3, <2>4, <3>1 DEF AtLeast
    <3> QED
      BY <2>3, <2>4, <2>5, <3>2
  <2> QED
    BY <2>1, <2>3, <2>6, <2>7, <2>8
<1> QED
  BY <1>1, FeaturesInvariant, PTL

\* Regions that are each that of the file are together its features.
LEMMA WholeVector ==
    ASSUME NEW f \in Files, NEW out,
           /\ out["header"] = Features(f)["header"]
           /\ out["section"] = Features(f)["section"]
           /\ out["sectionHashes"] = Features(f)["sectionHashes"]
           /\ out["imports"] = Features(f)["imports"]
           /\ out["exports"] = Features(f)["exports"]
           /\ out["datadirectories"] = Features(f)["datadirectories"]
           /\ out["relocations"] = Features(f)["relocations"]
           /\ out["richheader"] = Features(f)["richheader"]
    PROVE  [r \in Regions \ {"sectionExtremes"} |-> out[r]] = Features(f)
<1> DEFINE F == Features(f)
           R == Regions \ {"sectionExtremes"}
<1>1. F = [r \in R |-> F[r]]
  BY FeaturesAre
<1>2. \A r \in R : out[r] = F[r]
  BY DEF Regions
<1> HIDE DEF F, R
<1>3. [r \in R |-> out[r]] = [r \in R |-> F[r]]
  BY <1>2
<1> QED
  BY <1>1, <1>3 DEF F, R

\* At the end of a run what is held are the features of its file, and else nothing.
LEMMA HeldIs ==
    ASSUME Inv
    PROVE  /\ pc = "done" => /\ file \in Files
                             /\ Held = [file |-> file, vector |-> Features(file)]
           /\ pc # "done" => Held = NULL
<1>1. ASSUME pc = "done"
      PROVE  file \in Files /\ Held = [file |-> file, vector |-> Features(file)]
  <2>1. file \in Files
    BY <1>1 DEF Inv, SectionsInv, FileRead
  <2>2. [r \in Regions \ {"sectionExtremes"} |-> output[r]] = Features(file)
    BY <1>1, <2>1, WholeVector DEF Inv, OthersInv, RegionsWritten, Later, Steps
  <2> QED
    BY <1>1, <2>1, <2>2 DEF Held
<1> QED
  BY <1>1 DEF Held

\* The same of the state after a step.
LEMMA HeldIsNext ==
    ASSUME Inv'
    PROVE  /\ pc' = "done" => /\ file' \in Files
                              /\ Held' = [file |-> file', vector |-> Features(file')]
           /\ pc' # "done" => Held' = NULL
<1>1. ASSUME pc' = "done"
      PROVE  file' \in Files /\ Held' = [file |-> file', vector |-> Features(file')]
  <2>1. file' \in Files
    BY <1>1 DEF Inv, SectionsInv, FileRead
  <2>2. [r \in Regions \ {"sectionExtremes"} |-> output'[r]] = Features(file')
    BY <1>1, <2>1, WholeVector DEF Inv, OthersInv, RegionsWritten, Later, Steps
  <2> QED
    BY <1>1, <2>1, <2>2 DEF Held
<1> QED
  BY <1>1 DEF Held

\* A vector is held until the next call is made.
LEMMA DoneEnds == ASSUME Next, pc = "done" PROVE pc' = "idle"
<1>1. CASE Return
  BY <1>1 DEF Return, EndOfRun
<1>2. CASE Abandon
  BY <1>2 DEF Abandon, EndOfRun
<1>3. CASE ~(Return \/ Abandon)
  BY <1>3 DEF Next, Run, HeaderStart, SectionNotPE, SectionStart, SectionLoop, SectionFinish,
     ImportsStart, ReduceLibrary, ReduceFunction, LibraryDone, ImportsFinish, ExportsStart,
     ReduceExport, ExportsFinish, DirectoriesStart, RichStart, ReducePair, RichFinish, Goto
<1> QED
  BY <1>1, <1>2, <1>3

\* Each step returns a vector, takes one back, or changes nothing of it.
LEMMA StepRefines ==
    ASSUME Inv, Inv', [Next]_vars
    PROVE  [Abstract!Next]_Held
<1>1. CASE pc # "done" /\ pc' # "done"
  BY <1>1, HeldIs, HeldIsNext
<1>2. CASE pc # "done" /\ pc' = "done"
  <2> DEFINE v == [file |-> file', vector |-> Features(file')]
  <2>1. Held = NULL /\ file' \in Files /\ Held' = v
    BY <1>2, HeldIs, HeldIsNext
  <2>2. NULL # v
    BY <2>1, NullAssumption
  <2>3. v.file = file'
    OBVIOUS
  <2> HIDE DEF v
  <2>4. Abstract!Return(file')
    BY <2>1, <2>2, <2>3 DEF Abstract!Return, v
  <2> QED
    BY <2>1, <2>4 DEF Abstract!Next
<1>3. CASE pc = "done" /\ pc' # "done"
  <2>1. file \in Files /\ Held = [file |-> file, vector |-> Features(file)] /\ Held' = NULL
    BY <1>3, HeldIs, HeldIsNext
  <2>2. Held # NULL
    BY <2>1, NullAssumption
  <2> QED
    BY <2>1, <2>2 DEF Abstract!Next, Abstract!Invalidate
<1>4. CASE pc = "done" /\ pc' = "done"
  <2>1. UNCHANGED vars
    BY <1>4, DoneEnds
  <2>2. file' = file
    BY <2>1 DEF vars, section
  <2> QED
    BY <1>4, <2>2, HeldIs, HeldIsNext
<1> QED
  BY <1>1, <1>2, <1>3, <1>4

\* The regions made of the headers, once all feature types have started, are those of
\* the file alone, with every name, export, directory and pair of it, whatever ran
\* before and however it ended, and they stay until the next call
\* (start of core/src/f_header_file_info.cpp, f_section_info.cpp, f_imports_info.cpp,
\* f_exports_info.cpp, f_data_directories.cpp, f_rich_header.cpp).
THEOREM Refinement == Spec => ImplementsHeldVector
<1>1. Init => Abstract!Init
  <2> SUFFICES ASSUME Init PROVE Held = NULL
    BY DEF Abstract!Init
  <2> QED
    BY DEF Init, Held
<1>2. Inv /\ Inv' /\ [Next]_vars => [Abstract!Next]_Held
  BY StepRefines
<1> QED
  BY <1>1, <1>2, FeaturesInvariant, PTL DEF Spec, ImplementsHeldVector, Abstract!Spec

=============================================================================
