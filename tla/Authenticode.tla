----------------------------- MODULE Authenticode -----------------------------
(***************************************************************************)
(* PEAuthenticodeSignatureInfo::extractFromPEFile                          *)
(* (pefile/src/authenticode_signature.cpp) and the eight features made of  *)
(* it (core/src/f_authenticode_signature.cpp).                             *)
(*                                                                         *)
(* Two parsers look at the same bytes and need not agree: LIEF lists the   *)
(* signatures with their signers and certificates, the Avast parser lists  *)
(* signatures with their countersignatures.  Both are external; a file is  *)
(* what they give.                                                         *)
(***************************************************************************)
EXTENDS Integers, Sequences, FiniteSets, FiniteSetsExt, SequencesExt

CONSTANTS Files, NULL

\* LIEF's signatures: the outcome of check(), per signer the program name's being
\* there, per certificate whether issuer and subject are the same.
Signatures == [verified : BOOLEAN, programName : Seq(BOOLEAN), selfIssued : Seq(BOOLEAN)]

\* The Avast parser's: an array of signatures, each without or with an array of the
\* signing times of its countersignatures.
ASSUME FilesAssumption ==
    /\ \A f \in Files :
         /\ f.isPE \in BOOLEAN
         /\ f.signatures \in Seq(Signatures)
         /\ f.countersigned \in Seq(Seq(Int) \cup {NULL})
         /\ f.timestamp \in Nat
    /\ NULL \notin Seq(Int) /\ NULL \notin Files

VARIABLES pc,       \* "idle", "signatures", "counters", "features" or "done"
          file,
          sig,      \* the signature the loop is at
          at,       \* [signature, counter]: where the scan of countersignatures is
          info,     \* PEAuthenticodeSignatureInfo
          features  \* AuthenticodeSignatureFeatures

vars == <<pc, file, sig, at, info, features>>

Default == [numSignatures |-> 0, numSelfSignedCerts |-> 0, emptyProgramName |-> FALSE,
            noCounterSigner |-> FALSE, parseErrors |-> 0, chainMaxDepth |-> 0,
            latestSigningTime |-> 0, signingTimeDiff |-> 0]

Zeros == [numSignatures |-> 0, selfSigned |-> 0, emptyProgramName |-> 0,
          noCounterSigner |-> 0, parseError |-> 0, chainMaxDepth |-> 0,
          latestSigningTime |-> 0, signingTimeDiff |-> 0]

Init ==
    /\ pc = "idle" /\ file = NULL /\ sig = 1 /\ at = [signature |-> 1, counter |-> 1]
    /\ info = Default /\ features = Zeros

Larger(a, b) == IF a >= b THEN a ELSE b

-----------------------------------------------------------------------------
(* extractFromPEFile *)

\* Mutant: countersignatures are looked for in any PE file.
SignedAnyway(f) == f.isPE

Signed(f) == f.isPE /\ f.signatures # <<>>

\* Mutant: parse errors are counted over all files.
NewInfoKeepingErrors == [Default EXCEPT !.parseErrors = info.parseErrors]

NewInfo == Default

\* A file without signatures, or that is no PE file, has the default info.
Extract(f) ==
    /\ pc \in {"idle", "done"}
    /\ file' = f /\ sig' = 1 /\ at' = [signature |-> 1, counter |-> 1]
    /\ features' = Zeros
    /\ IF Signed(f)
       THEN pc' = "signatures" /\ info' = [NewInfo EXCEPT !.numSignatures = Len(f.signatures)]
       ELSE pc' = "features" /\ info' = NewInfo

\* The first program name of the signers, in order, or none.
HasProgramName(s) == \E k \in DOMAIN s.programName : s.programName[k]

\* All certificates but the last.
SelfSigned(s) == Cardinality({ k \in 1..(Len(s.selfIssued) - 1) : s.selfIssued[k] })

\* Mutant: the depth is that of the last signature.
DepthOfLast(s) == Len(s.selfIssued)

Depth(s) == Larger(info.chainMaxDepth, Len(s.selfIssued))

Signature ==
    /\ pc = "signatures" /\ sig <= Len(file.signatures)
    /\ LET s == file.signatures[sig] IN
         info' = [info EXCEPT
                    !.parseErrors = @ + (IF s.verified THEN 0 ELSE 1),
                    !.emptyProgramName = @ \/ ~HasProgramName(s),
                    !.chainMaxDepth = Depth(s),
                    !.numSelfSignedCerts = @ + SelfSigned(s)]
    /\ sig' = sig + 1
    /\ UNCHANGED <<pc, file, at, features>>

SignaturesDone ==
    /\ pc = "signatures" /\ sig > Len(file.signatures)
    /\ pc' = "counters"
    /\ UNCHANGED <<file, sig, at, info, features>>

-----------------------------------------------------------------------------
(* getCounterSignatureInfo_Avast *)

Scanned == at.signature > Len(file.countersigned)

Counters == file.countersigned[at.signature]

\* Signatures without countersignatures, and ends of arrays, are passed over.
NextSignature ==
    /\ pc = "counters" /\ ~Scanned
    /\ Counters # NULL => at.counter > Len(Counters)
    /\ at' = [signature |-> at.signature + 1, counter |-> 1]
    /\ UNCHANGED <<pc, file, sig, info, features>>

Valid(time) == time > 0

AtCounter == /\ pc = "counters" /\ ~Scanned
             /\ Counters # NULL /\ at.counter <= Len(Counters)

NextCounter ==
    /\ AtCounter /\ ~Valid(Counters[at.counter])
    /\ at' = [at EXCEPT !.counter = @ + 1]
    /\ UNCHANGED <<pc, file, sig, info, features>>

\* The first signing time there is ends the scan.
Countersigned ==
    /\ AtCounter /\ Valid(Counters[at.counter])
    /\ pc' = "features"
    /\ LET time == Counters[at.counter] IN
         info' = [info EXCEPT !.noCounterSigner = FALSE,
                              !.latestSigningTime = Larger(@, time),
                              !.signingTimeDiff = time - file.timestamp]
    /\ UNCHANGED <<file, sig, at, features>>

NotCountersigned ==
    /\ pc = "counters" /\ Scanned
    /\ pc' = "features"
    /\ info' = [info EXCEPT !.noCounterSigner = TRUE]
    /\ UNCHANGED <<file, sig, at, features>>

-----------------------------------------------------------------------------
(* AuthenticodeSignature::start *)

Flag(condition) == IF condition THEN 1 ELSE 0

Features ==
    /\ pc = "features"
    /\ pc' = "done"
    /\ features' =
         IF ~file.isPE THEN Zeros
         ELSE [numSignatures |-> info.numSignatures,
               selfSigned |-> Flag(info.numSelfSignedCerts > 0),
               emptyProgramName |-> Flag(info.emptyProgramName),
               noCounterSigner |-> Flag(info.noCounterSigner),
               parseError |-> Flag(info.parseErrors > 0),
               chainMaxDepth |-> info.chainMaxDepth,
               latestSigningTime |-> info.latestSigningTime,
               signingTimeDiff |-> info.signingTimeDiff]
    /\ UNCHANGED <<file, sig, at, info>>

Next ==
    \/ \E f \in Files : Extract(f)
    \/ Signature \/ SignaturesDone
    \/ NextSignature \/ NextCounter \/ Countersigned \/ NotCountersigned
    \/ Features

Spec == Init /\ [][Next]_vars

-----------------------------------------------------------------------------
(* Properties *)

TypeOK ==
    /\ pc \in {"idle", "signatures", "counters", "features", "done"}
    /\ file \in Files \cup {NULL}
    /\ sig \in Nat /\ at \in [signature : Nat, counter : Nat]
    /\ DOMAIN info = DOMAIN Default /\ DOMAIN features = DOMAIN Zeros
    /\ info.chainMaxDepth \in Nat /\ info.latestSigningTime \in Nat
    /\ info.parseErrors \in 0..info.numSignatures
    /\ info.noCounterSigner \in BOOLEAN /\ info.emptyProgramName \in BOOLEAN

AllTimes(f) ==
    FlattenSeq([k \in DOMAIN f.countersigned |->
                  IF f.countersigned[k] = NULL THEN <<>> ELSE f.countersigned[k]])

\* The signing features tell three kinds of files apart whatever the two parsers make
\* of them.  A file LIEF finds no signature in has zeros for all eight features, also
\* when the other parser finds countersignatures in it.  Without a countersigner all
\* three are zero but the flag; with one the time is positive, it is the first in the
\* order of the arrays (and not the latest, where they differ), and the difference
\* goes with that time.
SigningTimeIsTheFirst ==
    pc = "done" =>
        LET times == AllTimes(file)
            valid == { i \in DOMAIN times : times[i] > 0 }
        IN  IF ~file.isPE \/ file.signatures = <<>> THEN features = Zeros
            ELSE IF valid = {}
            THEN /\ features.noCounterSigner = 1
                 /\ features.latestSigningTime = 0 /\ features.signingTimeDiff = 0
            ELSE /\ features.noCounterSigner = 0
                 /\ features.latestSigningTime = times[Min(valid)]
                 /\ features.signingTimeDiff = times[Min(valid)] - file.timestamp

\* The features of the chains are over all signatures: the flag of self-signed
\* certificates looks at all but the last of each chain, the depth is the maximum,
\* and one failing check or missing program name is not made good by another.
ChainsOfAllSignatures ==
    pc = "done" /\ info.numSignatures > 0 =>
        LET sigs == ToSet(file.signatures)
        IN  /\ features.chainMaxDepth = Max({ Len(s.selfIssued) : s \in sigs })
            /\ features.selfSigned =
                 Flag(\E s \in sigs : TRUE \in ToSet(SubSeq(s.selfIssued, 1, Len(s.selfIssued) - 1)))
            /\ features.parseError = Flag(\E s \in sigs : ~s.verified)
            /\ features.emptyProgramName = Flag(\E s \in sigs : TRUE \notin ToSet(s.programName))
=============================================================================
