------------------------------ MODULE SectionInfo ------------------------------
(***************************************************************************)
(* SectionInfo::start (core/src/f_section_info.cpp), which goes through    *)
(* the sections of a PEFile once, counts them, keeps six extremes, feeds   *)
(* five hashers and picks the section of the entry point.  PEFeatures runs *)
(* its actions among those of the other feature types.                     *)
(*                                                                         *)
(* All hashers get the sections in the same order; what they are given is  *)
(* kept, and what they make of it is in FeatureHasher.                     *)
(***************************************************************************)
EXTENDS PEFile

VARIABLES pc,             \* "idle", "parsed", "loop" or "done"
          file,
          peFile,         \* the PEFile: isPE, entrypointRVA and sections
          next,           \* the section the loop is at
          pEntrySection, pPotentialEntrySection,   \* indices of sections, or NONE
          counts,         \* [zeroSize, emptyName, readableAndExecutable, writable]
          extremes,       \* greatest and least entropy, size ratio and vsize ratio
          hashers         \* hasher -> pairs of a name and a weight or flag, or names

entry == <<pEntrySection, pPotentialEntrySection>>
kept == <<entry, counts, extremes, hashers>>

NotParsed == [isPE |-> FALSE, entrypointRVA |-> 0, sections |-> <<>>]
NoCounts == [zeroSize |-> 0, emptyName |-> 0, readableAndExecutable |-> 0, writable |-> 0]
NewHashers == [size |-> <<>>, vsize |-> <<>>, entropy |-> <<>>,
               characteristics |-> <<>>, entryName |-> <<>>]

\* Three measures, all as ratios.
Measures == {"entropy", "sizeRatio", "vsizeRatio"}
ZeroRatio == <<0, 1>>
NoExtremes == [m \in Measures |-> [max |-> ZeroRatio, min |-> ZeroRatio]]

Init ==
    /\ pc = "idle" /\ file = NONE /\ peFile = NotParsed
    /\ next = 1 /\ pEntrySection = NONE /\ pPotentialEntrySection = NONE
    /\ counts = NoCounts /\ extremes = NoExtremes /\ hashers = NewHashers

\* A file LIEF does not parse, or whose parsing throws, leaves the defaults.
Parse(f) ==
    /\ pc = "idle"
    /\ pc' = "parsed" /\ file' = f
    /\ peFile' = IF f.isPE
                 THEN [isPE |-> TRUE, entrypointRVA |-> Entrypoint(f), sections |-> ListSections(f)]
                 ELSE NotParsed
    /\ UNCHANGED <<next, kept>>

NotPE ==
    /\ pc = "parsed" /\ ~peFile.isPE
    /\ pc' = "done"
    /\ UNCHANGED <<file, peFile, next, kept>>

-----------------------------------------------------------------------------
(* Extremes *)

Exceeds(r, s) == r[1] * s[2] > s[1] * r[2]

\* The extremes once a section, or the overlay, with these measures is seen too.
Widened(measure) ==
    [m \in Measures |->
        [max |-> IF Exceeds(measure[m], extremes[m].max) THEN measure[m] ELSE extremes[m].max,
         min |-> IF Exceeds(extremes[m].min, measure[m]) THEN measure[m] ELSE extremes[m].min]]

OverlayEntropy(f) == IF f.overlaySize > 0 THEN f.overlayEntropy ELSE 0
OverlayRatio(f) == Ratio(f.overlaySize, f.size)

\* The overlay has no length of its own to be compared with.
OfOverlay(f) ==
    [entropy |-> <<OverlayEntropy(f), 1>>, sizeRatio |-> OverlayRatio(f), vsizeRatio |-> ZeroRatio]

\* Mutant: the ratio to the own length is mistaken for that to the file's.
OfSectionSizeTwice(s) ==
    [entropy |-> <<s.entropy, 1>>, sizeRatio |-> s.sizeRatio, vsizeRatio |-> s.sizeRatio]

OfSection(s) ==
    [entropy |-> <<s.entropy, 1>>, sizeRatio |-> s.sizeRatio, vsizeRatio |-> s.vsizeRatio]

-----------------------------------------------------------------------------
(* The pass over the sections *)

\* The overlay counts among the entropies and the size ratios; so does zero.
Start ==
    /\ pc = "parsed" /\ peFile.isPE
    /\ pc' = "loop"
    /\ extremes' = Widened(OfOverlay(file))
    /\ UNCHANGED <<file, peFile, next, entry, counts, hashers>>

ReduceFromSection(s) ==
    [hashers EXCEPT !.size = Append(@, <<s.name, s.sizeRaw>>),
                    !.vsize = Append(@, <<s.name, s.vsize>>),
                    !.entropy = Append(@, <<s.name, s.entropy>>),
                    !.characteristics =
                        @ \o SetToSeq({s.name} \X NamesByValue(s.characteristics))]

One(condition) == IF condition THEN 1 ELSE 0

Count(s) ==
    [zeroSize |-> counts.zeroSize + One(s.sizeRaw = 0),
     emptyName |-> counts.emptyName + One(s.name = EMPTY),
     readableAndExecutable |->
        counts.readableAndExecutable + One(Has(s, "MEM_EXECUTE") /\ Has(s, "MEM_READ")),
     writable |-> counts.writable + One(Has(s, "MEM_WRITE"))]

\* Mutant: the last executable section makes up for a missing entry section.
PotentialLast(s) == IF Has(s, "MEM_EXECUTE") THEN next ELSE pPotentialEntrySection

Potential(s) ==
    IF Has(s, "MEM_EXECUTE") /\ pPotentialEntrySection = NONE THEN next
    ELSE pPotentialEntrySection

Section ==
    /\ pc = "loop" /\ next <= Len(peFile.sections)
    /\ LET s == peFile.sections[next] IN
         /\ extremes' = Widened(OfSection(s))
         /\ hashers' = ReduceFromSection(s)
         /\ counts' = Count(s)
         /\ pEntrySection' = IF ContainsRVA(s, peFile.entrypointRVA) THEN next ELSE pEntrySection
         /\ pPotentialEntrySection' = Potential(s)
    /\ next' = next + 1
    /\ UNCHANGED <<pc, file, peFile>>

Finish ==
    /\ pc = "loop" /\ next > Len(peFile.sections)
    /\ pc' = "done"
    /\ pEntrySection' = IF pEntrySection = NONE THEN pPotentialEntrySection ELSE pEntrySection
    /\ hashers' = IF pEntrySection' = NONE THEN hashers
                  ELSE [hashers EXCEPT !.entryName =
                                          Append(@, peFile.sections[pEntrySection'].name)]
    /\ UNCHANGED <<file, peFile, next, pPotentialEntrySection, counts, extremes>>

\* The numbers that are written then.
Numbers ==
    << Len(peFile.sections), counts, file.overlaySize, OverlayRatio(file), OverlayEntropy(file) >>

\* PEFile and all that start keeps, the hashers too, are local to a run.
Forget ==
    /\ pc' = "idle" /\ file' = NONE /\ peFile' = NotParsed
    /\ next' = 1 /\ pEntrySection' = NONE /\ pPotentialEntrySection' = NONE
    /\ counts' = NoCounts /\ extremes' = NoExtremes /\ hashers' = NewHashers

-----------------------------------------------------------------------------
(* Properties *)

Index == Nat \cup {NONE}

TypeOK ==
    /\ pc \in {"idle", "parsed", "loop", "done"} /\ file \in Files \cup {NONE}
    /\ peFile.isPE \in BOOLEAN /\ peFile.entrypointRVA \in Nat
    /\ next \in 1..(Len(peFile.sections) + 1) /\ Len(hashers.size) < next
    /\ pEntrySection \in Index /\ pPotentialEntrySection \in Index
    /\ \A c \in DOMAIN counts : counts[c] \in 0..Len(hashers.size)
    /\ extremes \in [Measures -> [{"max", "min"} -> Nat \X (Nat \ {0})]]

\* The section whose name is hashed as that of the entry point: one that holds the
\* entry point, the last of them where they overlap; failing that the first
\* executable one; failing that none.  Bounds are half open, and a section as long
\* as the longer of its two sizes.
ChosenSection(secs, rva) ==
    LET holding == { k \in DOMAIN secs :
                        /\ rva >= secs[k].vaddr
                        /\ \/ rva < secs[k].vaddr + secs[k].vsize
                           \/ rva < secs[k].vaddr + secs[k].sizeRaw }
        executable == { k \in DOMAIN secs :
                          secs[k].characteristics \cap Characteristics["MEM_EXECUTE"] # {} }
    IN  IF holding # {} THEN Max(holding)
        ELSE IF executable # {} THEN Min(executable) ELSE NONE

EntrySectionIsTheOne ==
    pc = "done" /\ peFile.isPE =>
        LET chosen == ChosenSection(file.sections, Entrypoint(file))
        IN  /\ pEntrySection = chosen
            /\ hashers.entryName =
                 IF chosen = NONE THEN <<>> ELSE <<peFile.sections[chosen].name>>

\* The greatest of the ratios seen, or zero.
Greatest(max, seen) ==
    /\ \E r \in seen \cup {ZeroRatio} : ~Exceeds(r, max) /\ ~Exceeds(max, r)
    /\ \A r \in seen : ~Exceeds(r, max)

\* What is kept is, at every turn of the loop and with nothing left of the file
\* before, that of the sections gone through: the counts, the greatest ratios and
\* entropy, the overlay among them.  The least ones stay zero.
KeptOfTheSections ==
    pc = "loop" =>
        LET seen == { peFile.sections[k] : k \in 1..(next - 1) }
            Number(P(_)) == Cardinality({ k \in 1..(next - 1) : P(peFile.sections[k]) })
        IN  /\ counts = [zeroSize |-> Number(LAMBDA s : s.sizeRaw = 0),
                         emptyName |-> Number(LAMBDA s : s.name = EMPTY),
                         readableAndExecutable |->
                            Number(LAMBDA s : Has(s, "MEM_READ") /\ Has(s, "MEM_EXECUTE")),
                         writable |-> Number(LAMBDA s : Has(s, "MEM_WRITE"))]
            /\ Greatest(extremes.entropy.max,
                        { <<s.entropy, 1>> : s \in seen } \cup {<<OverlayEntropy(file), 1>>})
            /\ Greatest(extremes.sizeRatio.max,
                        { s.sizeRatio : s \in seen } \cup {OverlayRatio(file)})
            /\ Greatest(extremes.vsizeRatio.max, { s.vsizeRatio : s \in seen })
            /\ \A m \in Measures : extremes[m].min[1] = 0

\* The entry point is the field the comment names (pefile/src/pefile.cpp:17).
EntrypointIsAddressOfEntryPoint ==
    pc = "parsed" /\ peFile.isPE /\ file.size > 104 =>
        peFile.entrypointRVA = file.addressOfEntryPoint
=============================================================================
