------------------------- MODULE MCStringExtractor ---------------------------
(* TLC instance of StringExtractor: every content of up to seven bytes, two   *)
(* readable and one other, in blocks shorter than, as long as and longer than *)
(* the shortest string.  Of the four patterns two are the same, one has a \b  *)
(* before it and one on both sides; with five values of a byte they are the   *)
(* most a counter has room for.                                               *)
EXTENDS StringExtractor

CONSTANTS r, q, x

MCRegex(words, begin, end) == [words |-> words, begin |-> begin, end |-> end]

MCPatterns == << MCRegex({<<r, q>>, <<q, q>>}, FALSE, FALSE),
                 MCRegex({<<r>>}, TRUE, TRUE),
                 MCRegex({<<r, q>>, <<q, q>>}, FALSE, FALSE),
                 MCRegex({<<r, r>>}, TRUE, FALSE) >>
=============================================================================
