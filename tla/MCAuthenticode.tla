--------------------------- MODULE MCAuthenticode ----------------------------
(* TLC instance of Authenticode: up to two signatures from three, and up to    *)
(* two arrays of countersignatures, in every combination of the two parsers.   *)
EXTENDS Authenticode

Sig(verified, names, certs) ==
    [verified |-> verified, programName |-> names, selfIssued |-> certs]

SomeSignatures ==
    { Sig(TRUE, <<FALSE, TRUE>>, <<FALSE, FALSE, TRUE>>),
      Sig(TRUE, <<TRUE>>, <<TRUE, FALSE>>),
      Sig(FALSE, <<FALSE>>, <<>>) }

SomeCounters == { NULL, <<>>, <<0, 5>>, <<-1>>, <<7, 9>> }

UpTo(n, S) == UNION { [1..k -> S] : k \in 0..n }

MCFiles ==
    { [isPE |-> TRUE, signatures |-> s, countersigned |-> c, timestamp |-> 6] :
        s \in UpTo(2, SomeSignatures), c \in UpTo(2, SomeCounters) }
    \cup { [isPE |-> FALSE, signatures |-> <<>>, countersigned |-> <<>>, timestamp |-> 0] }
=============================================================================
