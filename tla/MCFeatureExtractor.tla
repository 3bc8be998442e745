------------------------- MODULE MCFeatureExtractor --------------------------
(* TLC instance of FeatureExtractor: files of no bytes to several blocks, with *)
(* and without the parts of a PE file, run one after the other in any order.   *)
EXTENDS FeatureExtractor

MCFile(s, pe, parts) == [bytes |-> s, isPE |-> pe, parts |-> parts]

\* Two bytes of value 1 are a readable string.
MCFiles ==
    { MCFile(<<>>, FALSE, {}),
      MCFile(<<1, 1, 0>>, TRUE, {"imports", "exports"}),
      MCFile(<<2, 1, 1, 2, 1, 1>>, TRUE, {"richheader"}),
      MCFile(<<0, 2>>, FALSE, {}),
      MCFile(<<1, 2, 0, 1, 1, 1, 0>>, FALSE, {}) }

\* The second is found in strings of two bytes only, bordered by the ends.
MCPatterns == << [words |-> {<<1, 1, 1>>}, begin |-> FALSE, end |-> FALSE],
                 [words |-> {<<1, 1>>}, begin |-> TRUE, end |-> TRUE] >>

\* The more values, the higher the row; beyond the last row for three.
MCEntropyBin(counts) == Cardinality({ n \in DOMAIN counts : counts[n] > 0 }) - 1
=============================================================================
