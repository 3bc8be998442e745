--------------------------- MODULE StringExtractor ---------------------------
(***************************************************************************)
(* core/src/f_string_extractor.cpp.  reduce searches each block it is      *)
(* given for readable strings, on its own: the regular expression          *)
(* [\x20-\x7f]{5,} consumed with leftmost-longest matching, which yields   *)
(* the maximal runs of readable bytes of at least MinLength bytes.  In     *)
(* each string it looks for the interesting patterns, and counts those     *)
(* that are there with a ByteCounter fed with the pattern's index.         *)
(*                                                                         *)
(* A pattern is the set of the texts it accepts, with or without a \b at   *)
(* either end; upper and lower case are texts of their own.  The entropy   *)
(* is left out, and so are quotients: the average length and the histogram *)
(* are kept as what is divided.                                            *)
(***************************************************************************)
EXTENDS Integers, Sequences, FiniteSets, SequencesExt

CONSTANTS Byte,        \* byte values
          Readable,    \* those in 0x20..0x7f
          MinLength,   \* 5 in the code
          WordByte,    \* those of \w: letters, digits, underscore
          Patterns,    \* interestingStringRegexes, each of RegexSet
          ByteRange,   \* 256, the number of counters of a ByteCounter
          BlockSizes,  \* block sizes of the stream (BUF_SIZE, core/src/core.cpp:7)
          MaxContent   \* bound: bytes given to reduce between reset and finalize

\* The regular expressions of the list: all are of this form, those of several
\* alternatives too (lines 42-120), and none accepts the empty text.
RegexSet == [words: SUBSET (Seq(Byte) \ {<<>>}), begin: BOOLEAN, end: BOOLEAN]

\* With ByteRange patterns or more the constructor logs an error (line 134).
ASSUME StringsAssumption ==
    /\ Readable \subseteq Byte /\ IsFiniteSet(Readable)
    /\ MinLength \in Nat \ {0} /\ MaxContent \in Nat
    /\ Patterns \in Seq(RegexSet) /\ Len(Patterns) < ByteRange /\ ByteRange \in Nat
    /\ BlockSizes \subseteq Nat \ {0}

VARIABLES numReadableStrings, sumReadableStringLengths,
          readableCounts, totalNumReadable,     \* readableByteCounter
          interestingCounts,                    \* interestingStringCounter
          phase,      \* which call may come next
          blockSize,  \* how the stream cuts the content
          content,    \* history: the bytes given to reduce since reset
          cuts        \* history: the number of block boundaries in content

counters == <<numReadableStrings, sumReadableStringLengths, readableCounts,
              totalNumReadable, interestingCounts>>
stringsVars == <<counters, phase, blockSize, content, cuts>>

-----------------------------------------------------------------------------
(* The regular expressions *)

\* The maximal runs of readable bytes of s long enough to be a string.
Runs(s) ==
    { r \in (1..Len(s)) \X (1..Len(s)) :
        /\ r[2] - r[1] + 1 >= MinLength
        /\ \A i \in r[1]..r[2] : s[i] \in Readable
        /\ r[1] > 1 => s[r[1] - 1] \notin Readable
        /\ r[2] < Len(s) => s[r[2] + 1] \notin Readable }

\* The k-th of the runs in the order they begin in.
RunAt(runs, k) == CHOOSE r \in runs : Cardinality({ q \in runs : q[1] < r[1] }) = k - 1

\* The strings FindAndConsume yields of s, in order.
Strings(s) ==
    LET runs == Runs(s)
    IN  [k \in 1..Cardinality(runs) |-> SubSeq(s, RunAt(runs, k)[1], RunAt(runs, k)[2])]

\* \b before the i-th byte: a word begins or ends there.
AtBorder(s, i) ==
    ~((i > 1 /\ s[i - 1] \in WordByte) <=> (i <= Len(s) /\ s[i] \in WordByte))

\* RE2::PartialMatch is given the string alone, so that its ends are ends of words.
PartialMatch(s, regex) ==
    \E i \in 1..Len(s), word \in regex.words :
        /\ IsPrefix(word, SubSeq(s, i, Len(s)))
        /\ regex.begin => AtBorder(s, i)
        /\ regex.end => AtBorder(s, i + Len(word))

-----------------------------------------------------------------------------
(* The counters *)

TotalLength(strings) == SumFunction([i \in DOMAIN strings |-> Len(strings[i])])

Occurrences(b, s) == Cardinality({ i \in DOMAIN s : s[i] = b })

TotalOccurrences(b, strings) ==
    SumFunction([i \in DOMAIN strings |-> Occurrences(b, strings[i])])

\* uint8_t interestingStringRegexIndex = i, where i counts from 0.
CounterIndex(i) == (i - 1) % ByteRange

\* How often reduce counts byte k for these strings.
Matches(k, strings) ==
    Cardinality({ m \in (DOMAIN Patterns) \X (DOMAIN strings) :
        CounterIndex(m[1]) = k /\ PartialMatch(strings[m[2]], Patterns[m[1]]) })

\* The constructor leaves the numbers and the counts unset.
StringsInit ==
    /\ \E n \in {0, 1} :
         /\ numReadableStrings = n /\ sumReadableStringLengths = n
         /\ readableCounts = [b \in Readable |-> n]
         /\ interestingCounts = [k \in 0..(ByteRange - 1) |-> n]
    /\ totalNumReadable = 0
    /\ phase = "new" /\ content = <<>> /\ cuts = 0
    /\ blockSize \in BlockSizes

\* Mutant: the number of strings of the previous file is kept.
ResetCountersOnly ==
    /\ readableCounts' = [b \in Readable |-> 0] /\ totalNumReadable' = 0
    /\ interestingCounts' = [k \in 0..(ByteRange - 1) |-> 0]
    /\ phase' = "ready"
    /\ content' = <<>> /\ cuts' = 0
    /\ UNCHANGED <<numReadableStrings, sumReadableStringLengths, blockSize>>

Reset ==
    /\ numReadableStrings' = 0 /\ sumReadableStringLengths' = 0
    /\ readableCounts' = [b \in Readable |-> 0] /\ totalNumReadable' = 0
    /\ interestingCounts' = [k \in 0..(ByteRange - 1) |-> 0]
    /\ phase' = "ready"
    /\ content' = <<>> /\ cuts' = 0
    /\ UNCHANGED blockSize

Reduce(block) ==
    /\ phase = "ready"
    /\ LET strings == Strings(block) IN
         /\ numReadableStrings' = numReadableStrings + Len(strings)
         /\ sumReadableStringLengths' = sumReadableStringLengths + TotalLength(strings)
         /\ readableCounts' = [b \in Readable |->
                readableCounts[b] + TotalOccurrences(b, strings)]
         /\ totalNumReadable' = totalNumReadable + TotalLength(strings)
         /\ interestingCounts' = [k \in 0..(ByteRange - 1) |->
                interestingCounts[k] + Matches(k, strings)]
    /\ content' = content \o block
    /\ cuts' = IF content = <<>> THEN 0 ELSE cuts + 1
    /\ UNCHANGED <<phase, blockSize>>

\* Mutant: the divisor of the histogram is the number of strings.
WrittenWithCount ==
    [numstrings |-> numReadableStrings,
     avlength |-> IF numReadableStrings = 0 THEN 0 ELSE sumReadableStringLengths,
     printables |-> numReadableStrings,
     printabledist |-> readableCounts,
     string_counts |-> [i \in DOMAIN Patterns |-> interestingCounts[i - 1]]]

\* What finalize writes, for the k-th pattern the k-th counter.
Written ==
    [numstrings |-> numReadableStrings,
     avlength |-> IF numReadableStrings = 0 THEN 0 ELSE sumReadableStringLengths,
     printables |-> totalNumReadable,
     printabledist |-> readableCounts,
     string_counts |-> [i \in DOMAIN Patterns |-> interestingCounts[i - 1]]]

Finalize ==
    /\ phase = "ready"
    /\ phase' = "final"
    /\ UNCHANGED <<counters, blockSize, content, cuts>>

\* The blocks that may follow: only the last block of a file is short
\* (BlockStream's OnlyTheLastBlockIsShort).
NextBlocks ==
    IF Len(content) % blockSize # 0 THEN {}
    ELSE { b \in UNION { [1..n -> Byte] : n \in 1..blockSize } :
               Len(content) + Len(b) <= MaxContent }

StringsNext ==
    \/ Reset
    \/ \E b \in NextBlocks : Reduce(b)
    \/ Finalize

StringsSpec == StringsInit /\ [][StringsNext]_stringsVars

-----------------------------------------------------------------------------
(* Properties *)

StringsTypeOK ==
    /\ numReadableStrings \in Nat /\ sumReadableStringLengths \in Nat
    /\ readableCounts \in [Readable -> Nat] /\ totalNumReadable \in Nat
    /\ interestingCounts \in [0..(ByteRange - 1) -> Nat]
    /\ content \in Seq(Byte) /\ cuts \in Nat
    /\ phase \in {"new", "ready", "final"}
    /\ blockSize \in BlockSizes

\* The features of given strings.
FeaturesOf(strings) ==
    [numstrings |-> Len(strings),
     avlength |-> TotalLength(strings),
     printables |-> TotalLength(strings),
     printabledist |-> [b \in Readable |-> TotalOccurrences(b, strings)],
     string_counts |-> [i \in DOMAIN Patterns |->
         Cardinality({ j \in DOMAIN strings : PartialMatch(strings[j], Patterns[i]) })]]

Whole == FeaturesOf(Strings(content))

\* A cut makes an end of a word on both sides of it.  So both pieces of a string can match
\* where the whole did not, if the pattern has \b at both ends; otherwise one of the two
\* keeps its match in the whole.
AddedPerCut(regex) == IF regex.begin /\ regex.end THEN 2 ELSE 1

\* What the blocks lose or split is bounded by the number of boundaries: each can
\* lose or add one string, and cost up to MinLength - 1 readable bytes on either side; of
\* a pattern it can lose one match and add one, or two of a pattern with \b at both ends
\* (lines 76, 93, 94, 97).  A file read as one block gives exactly its strings; those
\* of files seen before it are forgotten (f_string_extractor.cpp:148-181).
LossIsBounded ==
    phase = "final" =>
        /\ cuts = 0 => Written = Whole
        /\ Written.numstrings \in (Whole.numstrings - cuts)..(Whole.numstrings + cuts)
        /\ Written.printables <= Whole.printables
        /\ Whole.printables <= Written.printables + cuts * 2 * (MinLength - 1)
        /\ \A i \in DOMAIN Patterns :
              Written.string_counts[i]
                  \in (Whole.string_counts[i] - cuts)
                        ..(Whole.string_counts[i] + cuts * AddedPerCut(Patterns[i]))

\* The features, which come from five members filled separately, agree however the
\* file was cut: the histogram and the lengths add up to the readable bytes, no string
\* is shorter than MinLength, no pattern is in more strings than there are, and a
\* pattern that is in the list twice (two of the code's are) has one count.
FeaturesAgree ==
    phase = "final" =>
        /\ Written.avlength = Written.printables
        /\ SumFunction(Written.printabledist) = Written.printables
        /\ Written.numstrings * MinLength <= Written.printables
        /\ \A i \in DOMAIN Patterns : Written.string_counts[i] <= Written.numstrings
        /\ \A i, j \in DOMAIN Patterns :
              Patterns[i] = Patterns[j] => Written.string_counts[i] = Written.string_counts[j]

\* "All feature types are tested to be quite consistent with the original Python
\* implementation, except for some known issues" (README.md:61), none of which
\* names StringExtractor: the strings are those of the whole file, as the
\* original finds them.
ConsistentWithWholeFile == phase = "final" => Written = Whole
=============================================================================
