-------------------------- MODULE AuthenticodeProofs --------------------------
(***************************************************************************)
(* Proofs about Authenticode.  The inductive invariant Inv says what was   *)
(* gathered of the signatures up to the one the loop is at, and that no    *)
(* countersignature passed by the scan has a time; at the end the features *)
(* are those of all signatures and of the first time there is.             *)
(***************************************************************************)
EXTENDS Authenticode, FoldTheorems

-----------------------------------------------------------------------------
(* The inductive invariant *)

\* What was gathered of the first n of the signatures l.
ChainsOf(i, l, n) ==
    /\ i.numSignatures = Len(l)
    /\ i.numSelfSignedCerts \in Nat
    /\ i.numSelfSignedCerts > 0 <=> \E k \in 1..n : SelfSigned(l[k]) > 0
    /\ i.parseErrors \in 0..n
    /\ i.parseErrors > 0 <=> \E k \in 1..n : l[k].verified = FALSE
    /\ i.emptyProgramName \in BOOLEAN
    /\ i.emptyProgramName = TRUE <=> \E k \in 1..n : ~HasProgramName(l[k])
    /\ i.chainMaxDepth \in {0} \cup { Len(l[k].selfIssued) : k \in 1..n }
    /\ \A k \in 1..n : Len(l[k].selfIssued) <= i.chainMaxDepth

\* Nothing is known of countersigners.
NoTime(i) == i.noCounterSigner = FALSE /\ i.latestSigningTime = 0 /\ i.signingTimeDiff = 0

\* No countersignature of the arrays c that comes before the j-th of the k-th has a time.
NoneBefore(c, k, j) ==
    \A m \in 1..Len(c) :
        c[m] # NULL =>
            \A n \in 1..Len(c[m]) :
                m < k \/ (m = k /\ n < j) => ~Valid(c[m][n])

\* The j-th of the k-th has the first.
FirstAt(c, k, j) ==
    /\ k \in 1..Len(c) /\ c[k] # NULL
    /\ j \in 1..Len(c[k]) /\ Valid(c[k][j])
    /\ NoneBefore(c, k, j)

\* What the scan of the countersignatures ends with.
TimeOf(i, f) ==
    \/ /\ i.noCounterSigner = TRUE /\ i.latestSigningTime = 0 /\ i.signingTimeDiff = 0
       /\ NoneBefore(f.countersigned, Len(f.countersigned) + 1, 1)
    \/ /\ i.noCounterSigner = FALSE
       /\ \E k \in 1..Len(f.countersigned) :
             /\ f.countersigned[k] # NULL
             /\ \E j \in 1..Len(f.countersigned[k]) :
                   /\ FirstAt(f.countersigned, k, j)
                   /\ i.latestSigningTime = f.countersigned[k][j]
                   /\ i.signingTimeDiff = f.countersigned[k][j] - f.timestamp

\* The features made of an info.
FeaturesOf(i) ==
    [numSignatures |-> i.numSignatures, selfSigned |-> Flag(i.numSelfSignedCerts > 0),
     emptyProgramName |-> Flag(i.emptyProgramName), noCounterSigner |-> Flag(i.noCounterSigner),
     parseError |-> Flag(i.parseErrors > 0), chainMaxDepth |-> i.chainMaxDepth,
     latestSigningTime |-> i.latestSigningTime, signingTimeDiff |-> i.signingTimeDiff]

Steps ==
    /\ pc \in {"idle", "signatures", "counters", "features", "done"}
    /\ file \in Files \cup {NULL}
    /\ pc # "idle" => file \in Files
    /\ pc \in {"signatures", "counters"} => Signed(file)
    /\ sig \in Nat /\ at \in [signature : Nat, counter : Nat]
    /\ DOMAIN info = DOMAIN Default /\ DOMAIN features = DOMAIN Zeros

\* Without signatures all is as by default.
UnsignedIsDefault == pc = "idle" \/ ~Signed(file) => info = Default

\* The loop has gathered of the signatures up to the one it is at, and later of all.
ChainsGathered ==
    /\ pc = "signatures" => /\ sig \in 1..(Len(file.signatures) + 1)
                            /\ ChainsOf(info, file.signatures, sig - 1)
    /\ pc \in {"counters", "features", "done"} /\ Signed(file) =>
          ChainsOf(info, file.signatures, Len(file.signatures))

\* The scan has passed no time.
TimesScanned ==
    /\ pc \in {"signatures", "counters"} => NoTime(info)
    /\ pc = "signatures" => at = [signature |-> 1, counter |-> 1]
    /\ pc = "counters" =>
          /\ at.signature \in 1..(Len(file.countersigned) + 1) /\ at.counter \in Nat \ {0}
          /\ ~Scanned /\ Counters # NULL => at.counter <= Len(Counters) + 1
          /\ NoneBefore(file.countersigned, at.signature, at.counter)
    /\ pc \in {"features", "done"} /\ Signed(file) => TimeOf(info, file)

FeaturesWritten ==
    /\ pc # "done" => features = Zeros
    /\ pc = "done" => features = IF file.isPE THEN FeaturesOf(info) ELSE Zeros

Inv == Steps /\ UnsignedIsDefault /\ ChainsGathered /\ TimesScanned /\ FeaturesWritten

-----------------------------------------------------------------------------
(* What the parsers give *)

\* Of a signature there is a list of names and one of certificates.
LEMMA SignatureTypes ==
    ASSUME NEW s \in Signatures
    PROVE  /\ s.verified \in BOOLEAN /\ s.programName \in Seq(BOOLEAN)
           /\ s.selfIssued \in Seq(BOOLEAN) /\ Len(s.selfIssued) \in Nat
BY DEF Signatures

\* Of a file there are two lists.
LEMMA FileTypes ==
    ASSUME NEW f \in Files
    PROVE  /\ f # NULL /\ f.isPE \in BOOLEAN
           /\ f.signatures \in Seq(Signatures) /\ Len(f.signatures) \in Nat
           /\ \A k \in 1..Len(f.signatures) : f.signatures[k] \in Signatures
           /\ Len(f.countersigned) \in Nat /\ DOMAIN f.countersigned = 1..Len(f.countersigned)
           /\ \A k \in 1..Len(f.countersigned) :
                 f.countersigned[k] # NULL =>
                    /\ f.countersigned[k] \in Seq(Int)
                    /\ Len(f.countersigned[k]) \in Nat
                    /\ DOMAIN f.countersigned[k] = 1..Len(f.countersigned[k])
                    /\ \A j \in 1..Len(f.countersigned[k]) : f.countersigned[k][j] \in Int
           /\ Signed(f) => Len(f.signatures) > 0
<1>1. f # NULL /\ f.isPE \in BOOLEAN
  BY FilesAssumption
<1>2. /\ f.signatures \in Seq(Signatures) /\ Len(f.signatures) \in Nat
      /\ \A k \in 1..Len(f.signatures) : f.signatures[k] \in Signatures
  BY FilesAssumption
<1>3. f.countersigned \in Seq(Seq(Int) \cup {NULL})
  BY FilesAssumption
<1>4. Len(f.countersigned) \in Nat /\ DOMAIN f.countersigned = 1..Len(f.countersigned)
  BY <1>3
<1>5. \A k \in 1..Len(f.countersigned) :
         f.countersigned[k] # NULL => f.countersigned[k] \in Seq(Int)
  BY <1>3
<1>6. \A c \in Seq(Int) : /\ Len(c) \in Nat /\ DOMAIN c = 1..Len(c)
                          /\ \A j \in 1..Len(c) : c[j] \in Int
  OBVIOUS
<1>7. Signed(f) => Len(f.signatures) > 0
  BY <1>2, EmptySeq DEF Signed
<1> QED
  BY <1>1, <1>2, <1>4, <1>5, <1>6, <1>7

\* A chain has self-signed certificates if one but the last is.
LEMMA SelfSignedIs ==
    ASSUME NEW s \in Signatures
    PROVE  /\ SelfSigned(s) \in Nat
           /\ SelfSigned(s) > 0 <=> \E k \in 1..(Len(s.selfIssued) - 1) : s.selfIssued[k] = TRUE
<1> DEFINE m == Len(s.selfIssued) - 1
           K == { k \in 1..m : s.selfIssued[k] }
<1>1. /\ Len(s.selfIssued) \in Nat
      /\ \A k \in 1..Len(s.selfIssued) : s.selfIssued[k] \in BOOLEAN
  BY SignatureTypes
<1>2. m \in Int /\ \A k \in 1..m : k \in 1..Len(s.selfIssued)
  BY <1>1
<1>3. SelfSigned(s) = Cardinality(K)
  BY DEF SelfSigned
<1> HIDE DEF m
<1>4. IsFiniteSet(1..m)
  BY <1>2, FS_Interval
<1>5. IsFiniteSet(K)
  <2>1. K \subseteq 1..m
    OBVIOUS
  <2> HIDE DEF K
  <2> QED
    BY <1>4, <2>1, FS_Subset
<1>6. K # {} <=> \E k \in 1..m : s.selfIssued[k] = TRUE
  BY <1>1, <1>2
<1> HIDE DEF K
<1>7. Cardinality(K) \in Nat /\ (Cardinality(K) = 0 <=> K = {})
  BY <1>5, FS_CardinalityType, FS_EmptySet
<1> QED
  BY <1>3, <1>6, <1>7 DEF m

-----------------------------------------------------------------------------
(* The loop over the signatures *)

\* One signature more is gathered.
LEMMA ChainsMore ==
    ASSUME NEW l \in Seq(Signatures), NEW n \in Nat, n < Len(l), NEW i, ChainsOf(i, l, n),
           NEW j, j.numSignatures = i.numSignatures,
           j.parseErrors = i.parseErrors + (IF l[n + 1].verified THEN 0 ELSE 1),
           j.emptyProgramName = (i.emptyProgramName \/ ~HasProgramName(l[n + 1])),
           j.chainMaxDepth = Larger(i.chainMaxDepth, Len(l[n + 1].selfIssued)),
           j.numSelfSignedCerts = i.numSelfSignedCerts + SelfSigned(l[n + 1])
    PROVE  ChainsOf(j, l, n + 1)
<1> DEFINE top == n + 1
           s == l[top]
<1>1. top \in Nat /\ n \in 0..top /\ s \in Signatures
  OBVIOUS
<1>2. \A k : k \in 1..top <=> (k \in 1..n \/ k = top)
  OBVIOUS
<1>3. /\ j.parseErrors = i.parseErrors + (IF s.verified THEN 0 ELSE 1)
      /\ j.emptyProgramName = (i.emptyProgramName \/ ~HasProgramName(s))
      /\ j.chainMaxDepth = Larger(i.chainMaxDepth, Len(s.selfIssued))
      /\ j.numSelfSignedCerts = i.numSelfSignedCerts + SelfSigned(s)
  OBVIOUS
<1> HIDE DEF top
<1>4. j.numSignatures = Len(l)
  BY DEF ChainsOf
<1>5. /\ j.numSelfSignedCerts \in Nat
      /\ j.numSelfSignedCerts > 0 <=> \E k \in 1..top : SelfSigned(l[k]) > 0
  <2>1. /\ i.numSelfSignedCerts \in Nat
        /\ i.numSelfSignedCerts > 0 <=> \E k \in 1..n : SelfSigned(l[k]) > 0
    BY DEF ChainsOf
  <2>2. SelfSigned(s) \in Nat
    BY <1>1, SelfSignedIs
  <2>3. (\E k \in 1..top : SelfSigned(l[k]) > 0)
           <=> (\E k \in 1..n : SelfSigned(l[k]) > 0) \/ SelfSigned(s) > 0
    BY <1>2
  <2> QED
    BY <1>3, <2>1, <2>2, <2>3
<1>6. /\ j.parseErrors \in 0..top
      /\ j.parseErrors > 0 <=> \E k \in 1..top : l[k].verified = FALSE
  <2>1. /\ i.parseErrors \in 0..n
        /\ i.parseErrors > 0 <=> \E k \in 1..n : l[k].verified = FALSE
    BY DEF ChainsOf
  <2>2. (\E k \in 1..top : l[k].verified = FALSE)
           <=> (\E k \in 1..n : l[k].verified = FALSE) \/ s.verified = FALSE
    BY <1>2
  <2>3. s.verified = TRUE \/ s.verified = FALSE
    BY <1>1, SignatureTypes
  <2>4. CASE s.verified = TRUE
    <3>1. j.parseErrors = i.parseErrors
      BY <1>3, <2>1, <2>4
    <3> QED
      BY <1>1, <2>1, <2>2, <2>4, <3>1
  <2>5. CASE s.verified = FALSE
    <3>1. j.parseErrors = i.parseErrors + 1
      BY <1>3, <2>5
    <3>2. top = n + 1
      BY DEF top
    <3> QED
      BY <2>1, <2>2, <2>5, <3>1, <3>2
  <2> QED
    BY <2>3, <2>4, <2>5
<1>7. /\ j.emptyProgramName \in BOOLEAN
      /\ j.emptyProgramName = TRUE <=> \E k \in 1..top : ~HasProgramName(l[k])
  <2>1. /\ i.emptyProgramName \in BOOLEAN
        /\ i.emptyProgramName = TRUE <=> \E k \in 1..n : ~HasProgramName(l[k])
    BY DEF ChainsOf
  <2>2. (\E k \in 1..top : ~HasProgramName(l[k]))
           <=> (\E k \in 1..n : ~HasProgramName(l[k])) \/ ~HasProgramName(s)
    BY <1>2
  <2> QED
    BY <1>3, <2>1, <2>2
<1>8. /\ j.chainMaxDepth \in {0} \cup { Len(l[k].selfIssued) : k \in 1..top }
      /\ \A k \in 1..top : Len(l[k].selfIssued) <= j.chainMaxDepth
  <2> DEFINE d == Len(s.selfIssued)
  <2>1. /\ i.chainMaxDepth \in {0} \cup { Len(l[k].selfIssued) : k \in 1..n }
        /\ \A k \in 1..n : Len(l[k].selfIssued) <= i.chainMaxDepth
    BY DEF ChainsOf
  <2>2. d \in Nat /\ \A k \in 1..top : Len(l[k].selfIssued) \in Nat
    BY <1>1, SignatureTypes DEF top
  <2>3. i.chainMaxDepth \in Nat
    BY <1>2, <2>1, <2>2
  <2>4. { Len(l[k].selfIssued) : k \in 1..top } = { Len(l[k].selfIssued) : k \in 1..n } \cup {d}
    BY <1>2
  <2>5. j.chainMaxDepth = Larger(i.chainMaxDepth, d)
    BY <1>3
  <2>6. \A k \in 1..top : Len(l[k].selfIssued) = d \/ Len(l[k].selfIssued) <= i.chainMaxDepth
    BY <1>2, <2>1
  <2> HIDE DEF d, s
  <2>7. CASE i.chainMaxDepth >= d
    <3>1. j.chainMaxDepth = i.chainMaxDepth
      BY <2>5, <2>7 DEF Larger
    <3>2. i.chainMaxDepth \in {0} \cup { Len(l[k].selfIssued) : k \in 1..top }
      BY <2>1, <2>4
    <3>3. \A k \in 1..top : Len(l[k].selfIssued) <= i.chainMaxDepth
      BY <2>6, <2>7
    <3> QED
      BY <3>1, <3>2, <3>3
  <2>8. CASE ~(i.chainMaxDepth >= d)
    <3>1. j.chainMaxDepth = d
      BY <2>5, <2>8 DEF Larger
    <3>2. d \in {0} \cup { Len(l[k].selfIssued) : k \in 1..top }
      BY <2>4
    <3>3. \A k \in 1..top : Len(l[k].selfIssued) <= d
      BY <2>2, <2>3, <2>6, <2>8
    <3> QED
      BY <3>1, <3>2, <3>3
  <2> QED
    BY <2>7, <2>8
<1>9. ChainsOf(j, l, top)
  BY <1>4, <1>5, <1>6, <1>7, <1>8 DEF ChainsOf
<1> QED
  BY <1>9 DEF top

\* Of no signatures nothing is gathered.
LEMMA NoChains ==
    ASSUME NEW l, NEW i, i = [Default EXCEPT !.numSignatures = Len(l)]
    PROVE  ChainsOf(i, l, 0) /\ NoTime(i) /\ DOMAIN i = DOMAIN Default
<1>1. /\ i.numSignatures = Len(l) /\ i.numSelfSignedCerts = 0 /\ i.parseErrors = 0
      /\ i.emptyProgramName = FALSE /\ i.chainMaxDepth = 0
      /\ i.noCounterSigner = FALSE /\ i.latestSigningTime = 0 /\ i.signingTimeDiff = 0
  BY DEF Default
<1>2. \A k \in 1..0 : FALSE
  OBVIOUS
<1>3. 0 \in 0..0 /\ 0 \in Nat /\ ~(0 > 0)
  OBVIOUS
<1>4. DOMAIN i = DOMAIN Default
  OBVIOUS
<1>5. i.emptyProgramName \in BOOLEAN /\ ~(i.emptyProgramName = TRUE)
  BY <1>1, Zenon
<1>6. NoTime(i)
  BY <1>1, Zenon DEF NoTime
<1>7. ChainsOf(i, l, 0)
  BY <1>1, <1>2, <1>3, <1>5, Zenon DEF ChainsOf
<1> QED
  BY <1>4, <1>6, <1>7

-----------------------------------------------------------------------------
(* The scan of the countersignatures *)

\* The end of an array, or a signature without one, is passed.
LEMMA ScanArray ==
    ASSUME NEW c, NEW k \in Nat, NEW j \in Nat, NoneBefore(c, k, j),
           c[k] # NULL => Len(c[k]) \in Nat /\ j > Len(c[k])
    PROVE  NoneBefore(c, k + 1, 1)
<1> SUFFICES ASSUME NEW m \in 1..Len(c), c[m] # NULL, NEW n \in 1..Len(c[m]),
                    m < k + 1 \/ (m = k + 1 /\ n < 1)
             PROVE  ~Valid(c[m][n])
  BY DEF NoneBefore
<1>1. CASE m = k
  <2>1. n < j
    BY <1>1
  <2> QED
    BY <1>1, <2>1 DEF NoneBefore
<1>2. CASE m # k
  <2>1. m < k
    BY <1>2
  <2> QED
    BY <2>1 DEF NoneBefore
<1> QED
  BY <1>1, <1>2

\* So is a countersignature without a time.
LEMMA ScanCounter ==
    ASSUME NEW c, NEW k \in Nat, NEW j \in Nat, NoneBefore(c, k, j), ~Valid(c[k][j])
    PROVE  NoneBefore(c, k, j + 1)
<1> SUFFICES ASSUME NEW m \in 1..Len(c), c[m] # NULL, NEW n \in 1..Len(c[m]),
                    m < k \/ (m = k /\ n < j + 1)
             PROVE  ~Valid(c[m][n])
  BY DEF NoneBefore
<1>1. CASE m = k /\ n = j
  BY <1>1
<1>2. CASE ~(m = k /\ n = j)
  <2>1. m < k \/ (m = k /\ n < j)
    BY <1>2
  <2> QED
    BY <2>1 DEF NoneBefore
<1> QED
  BY <1>1, <1>2

\* Before the first there is none.
LEMMA ScanStart ==
    ASSUME NEW c
    PROVE  NoneBefore(c, 1, 1)
BY DEF NoneBefore

-----------------------------------------------------------------------------
(* The invariant *)

\* At the start nothing is gathered.
LEMMA InitInv == Init => Inv
<1> SUFFICES ASSUME Init PROVE Inv
  OBVIOUS
<1>1. pc = "idle" /\ info = Default /\ features = Zeros /\ file = NULL
  BY DEF Init
<1>2. Steps
  BY DEF Init, Steps
<1> QED
  BY <1>1, <1>2 DEF Inv, UnsignedIsDefault, ChainsGathered, TimesScanned, FeaturesWritten

\* Extract: a new file has a new info.
LEMMA ExtractStep ==
    ASSUME NEW f \in Files, Extract(f)
    PROVE  Inv'
<1>1. /\ file' = f /\ sig' = 1 /\ at' = [signature |-> 1, counter |-> 1] /\ features' = Zeros
      /\ IF Signed(f)
         THEN pc' = "signatures" /\ info' = [Default EXCEPT !.numSignatures = Len(f.signatures)]
         ELSE pc' = "features" /\ info' = Default
  BY DEF Extract, NewInfo
<1>2. at' \in [signature : Nat, counter : Nat] /\ sig' \in Nat
  BY <1>1
<1>3. CASE Signed(f)
  <2>1. pc' = "signatures" /\ Signed(file)'
    BY <1>1, <1>3 DEF Signed
  <2>2. ChainsOf(info', f.signatures, 0) /\ NoTime(info') /\ DOMAIN info' = DOMAIN Default
    BY <1>1, <1>3, NoChains
  <2>3. Steps'
    BY <1>1, <1>2, <2>1, <2>2 DEF Steps
  <2>4. UnsignedIsDefault'
    BY <2>1 DEF UnsignedIsDefault
  <2>5. ChainsGathered'
    <3>1. sig' - 1 = 0 /\ sig' \in 1..(Len(f.signatures) + 1)
      BY <1>1, FileTypes
    <3>2. ChainsOf(info', file'.signatures, sig' - 1)
      BY <1>1, <2>2, <3>1
    <3> QED
      BY <1>1, <2>1, <3>1, <3>2 DEF ChainsGathered, ChainsOf
  <2>6. TimesScanned'
    BY <1>1, <2>1, <2>2 DEF TimesScanned, NoTime
  <2>7. FeaturesWritten'
    BY <1>1, <2>1 DEF FeaturesWritten
  <2> QED
    BY <2>3, <2>4, <2>5, <2>6, <2>7 DEF Inv
<1>4. CASE ~Signed(f)
  <2>1. pc' = "features" /\ ~Signed(file') /\ info' = Default
    BY <1>1, <1>4
  <2>2. Steps'
    BY <1>1, <1>2, <2>1 DEF Steps
  <2>3. UnsignedIsDefault' /\ FeaturesWritten'
    BY <1>1, <2>1 DEF UnsignedIsDefault, FeaturesWritten
  <2>4. ChainsGathered' /\ TimesScanned'
    BY <2>1 DEF ChainsGathered, TimesScanned
  <2> QED
    BY <2>2, <2>3, <2>4 DEF Inv
<1> QED
  BY <1>3, <1>4

\* Signature: the signature the loop is at is gathered.
LEMMA SignatureStep ==
    ASSUME Inv, Signature
    PROVE  Inv'
<1> DEFINE l == file.signatures
           s == l[sig]
<1>1. /\ pc = "signatures" /\ sig <= Len(l) /\ sig' = sig + 1
      /\ pc' = pc /\ file' = file /\ at' = at /\ features' = features
  BY DEF Signature
<1>2. /\ file \in Files /\ Signed(file) /\ DOMAIN info = DOMAIN Default
      /\ sig \in 1..(Len(l) + 1) /\ ChainsOf(info, l, sig - 1) /\ NoTime(info)
  BY <1>1 DEF Inv, Steps, ChainsGathered, TimesScanned
<1>3. l \in Seq(Signatures) /\ Len(l) \in Nat
  BY <1>2, FileTypes
<1>4. info' = [info EXCEPT
                 !.parseErrors = @ + (IF s.verified THEN 0 ELSE 1),
                 !.emptyProgramName = @ \/ ~HasProgramName(s),
                 !.chainMaxDepth = Depth(s),
                 !.numSelfSignedCerts = @ + SelfSigned(s)]
  BY DEF Signature
<1> HIDE DEF l, s
<1>5. /\ info'.numSignatures = info.numSignatures
      /\ info'.parseErrors = info.parseErrors + (IF s.verified THEN 0 ELSE 1)
      /\ info'.emptyProgramName = (info.emptyProgramName \/ ~HasProgramName(s))
      /\ info'.chainMaxDepth = Larger(info.chainMaxDepth, Len(s.selfIssued))
      /\ info'.numSelfSignedCerts = info.numSelfSignedCerts + SelfSigned(s)
      /\ info'.noCounterSigner = info.noCounterSigner
      /\ info'.latestSigningTime = info.latestSigningTime
      /\ info'.signingTimeDiff = info.signingTimeDiff
      /\ DOMAIN info' = DOMAIN info
  BY <1>2, <1>4 DEF Default, Depth
<1>6. ChainsOf(info', l, sig)
  <2> DEFINE n == sig - 1
  <2>1. n \in Nat /\ n < Len(l) /\ n + 1 = sig
    BY <1>1, <1>2, <1>3
  <2>2. ChainsOf(info, l, n)
    BY <1>2
  <2>3. s = l[n + 1]
    BY <2>1 DEF s
  <2> HIDE DEF n
  <2>4. ChainsOf(info', l, n + 1)
    BY <1>3, <1>5, <2>1, <2>2, <2>3, ChainsMore
  <2> QED
    BY <2>1, <2>4
<1>7. NoTime(info')
  BY <1>2, <1>5 DEF NoTime
<1>8. sig' \in 1..(Len(l) + 1) /\ sig' - 1 = sig /\ sig' \in Nat
  BY <1>1, <1>2, <1>3
<1>9. pc' = "signatures" /\ l = file'.signatures /\ Signed(file')
  BY <1>1, <1>2 DEF l
<1>10. Steps'
  BY <1>1, <1>2, <1>5, <1>8, <1>9 DEF Inv, Steps
<1>11. UnsignedIsDefault'
  BY <1>9 DEF UnsignedIsDefault
<1>12. ChainsGathered'
  <2>1. ChainsOf(info', file'.signatures, sig' - 1)
    BY <1>6, <1>8, <1>9
  <2> QED
    BY <1>8, <1>9, <2>1 DEF ChainsGathered, ChainsOf
<1>13. TimesScanned'
  BY <1>1, <1>7, <1>9 DEF Inv, TimesScanned, NoTime
<1>14. FeaturesWritten'
  BY <1>1, <1>9 DEF Inv, FeaturesWritten
<1> QED
  BY <1>10, <1>11, <1>12, <1>13, <1>14 DEF Inv

\* SignaturesDone: those gathered are all.
LEMMA SignaturesDoneStep ==
    ASSUME Inv, SignaturesDone
    PROVE  Inv'
<1>1. /\ pc = "signatures" /\ sig > Len(file.signatures) /\ pc' = "counters"
      /\ file' = file /\ sig' = sig /\ at' = at /\ info' = info /\ features' = features
  BY DEF SignaturesDone
<1>2. /\ file \in Files /\ Signed(file)
      /\ sig \in 1..(Len(file.signatures) + 1) /\ ChainsOf(info, file.signatures, sig - 1)
      /\ NoTime(info) /\ at = [signature |-> 1, counter |-> 1]
  BY <1>1 DEF Inv, Steps, ChainsGathered, TimesScanned
<1>3. sig - 1 = Len(file.signatures)
  BY <1>1, <1>2, FileTypes
<1>4. ChainsOf(info, file.signatures, Len(file.signatures))
  BY <1>2, <1>3
<1>5. Steps'
  BY <1>1, <1>2 DEF Inv, Steps
<1>6. UnsignedIsDefault' /\ FeaturesWritten'
  BY <1>1, <1>2 DEF Inv, UnsignedIsDefault, FeaturesWritten
<1>7. ChainsGathered'
  BY <1>1, <1>4 DEF ChainsGathered, ChainsOf
<1>8. TimesScanned'
  <2>1. at'.signature = 1 /\ at'.counter = 1
    BY <1>1, <1>2
  <2>2. NoneBefore(file'.countersigned, at'.signature, at'.counter)
    BY <2>1, ScanStart
  <2>3. /\ at'.signature \in 1..(Len(file'.countersigned) + 1) /\ at'.counter \in Nat \ {0}
        /\ ~Scanned' /\ Counters' # NULL => at'.counter <= Len(Counters') + 1
    <3>1. Len(file.countersigned) \in Nat
      BY <1>2, FileTypes
    <3>2. 1 \in 1..(Len(file.countersigned) + 1)
      BY <3>1
    <3>3. ~Scanned' /\ Counters' # NULL => Len(Counters') \in Nat
      BY <1>1, <1>2, <2>1, <3>1, FileTypes DEF Scanned, Counters
    <3> QED
      BY <1>1, <2>1, <3>2, <3>3
  <2> QED
    BY <1>1, <1>2, <2>2, <2>3 DEF TimesScanned, NoTime
<1> QED
  BY <1>5, <1>6, <1>7, <1>8 DEF Inv

\* What holds while the countersignatures are scanned.
LEMMA AtTheScan ==
    ASSUME Inv, pc = "counters"
    PROVE  /\ file \in Files /\ Signed(file) /\ DOMAIN info = DOMAIN Default
           /\ ChainsOf(info, file.signatures, Len(file.signatures)) /\ NoTime(info)
           /\ at \in [signature : Nat, counter : Nat]
           /\ Len(file.countersigned) \in Nat
           /\ at.signature \in 1..(Len(file.countersigned) + 1) /\ at.counter \in Nat \ {0}
           /\ NoneBefore(file.countersigned, at.signature, at.counter)
           /\ ~Scanned => at.signature \in 1..Len(file.countersigned)
           /\ ~Scanned /\ Counters # NULL =>
                 /\ Len(Counters) \in Nat /\ at.counter <= Len(Counters) + 1
                 /\ \A j \in 1..Len(Counters) : Counters[j] \in Int
<1>1. /\ file \in Files /\ Signed(file) /\ DOMAIN info = DOMAIN Default
      /\ at \in [signature : Nat, counter : Nat]
  BY DEF Inv, Steps
<1>2. ChainsOf(info, file.signatures, Len(file.signatures))
  BY <1>1 DEF Inv, ChainsGathered
<1>3. /\ NoTime(info)
      /\ at.signature \in 1..(Len(file.countersigned) + 1) /\ at.counter \in Nat \ {0}
      /\ ~Scanned /\ Counters # NULL => at.counter <= Len(Counters) + 1
      /\ NoneBefore(file.countersigned, at.signature, at.counter)
  BY DEF Inv, TimesScanned
<1>4. Len(file.countersigned) \in Nat
  BY <1>1, FileTypes
<1>5. ~Scanned => at.signature \in 1..Len(file.countersigned)
  BY <1>3, <1>4 DEF Scanned
<1>6. ~Scanned /\ Counters # NULL =>
         Len(Counters) \in Nat /\ \A j \in 1..Len(Counters) : Counters[j] \in Int
  BY <1>1, <1>5, FileTypes DEF Counters
<1> QED
  BY <1>1, <1>2, <1>3, <1>4, <1>5, <1>6

\* A step of the scan that finds no time moves only the place of the scan.
LEMMA ScanStep ==
    ASSUME Inv, pc = "counters", UNCHANGED <<pc, file, sig, info, features>>,
           at' \in [signature : Nat, counter : Nat], at'.counter \in Nat \ {0},
           at'.signature \in 1..(Len(file.countersigned) + 1),
           ~Scanned' /\ Counters' # NULL => at'.counter <= Len(Counters') + 1,
           NoneBefore(file.countersigned, at'.signature, at'.counter)
    PROVE  Inv'
<1>1. /\ file \in Files /\ Signed(file) /\ NoTime(info)
      /\ ChainsOf(info, file.signatures, Len(file.signatures))
  BY AtTheScan
<1>2. Steps'
  BY <1>1 DEF Inv, Steps
<1>3. UnsignedIsDefault' /\ FeaturesWritten'
  BY <1>1 DEF Inv, UnsignedIsDefault, FeaturesWritten
<1>4. ChainsGathered'
  BY <1>1 DEF ChainsGathered, ChainsOf
<1>5. TimesScanned'
  BY <1>1 DEF TimesScanned, NoTime
<1> QED
  BY <1>2, <1>3, <1>4, <1>5 DEF Inv

\* NextSignature: the array is passed.
LEMMA NextSignatureStep ==
    ASSUME Inv, NextSignature
    PROVE  Inv'
<1> DEFINE c == file.countersigned
           k == at.signature
           j == at.counter
<1>1. /\ pc = "counters" /\ ~Scanned /\ (Counters # NULL => at.counter > Len(Counters))
      /\ at' = [signature |-> at.signature + 1, counter |-> 1]
      /\ UNCHANGED <<pc, file, sig, info, features>>
  BY DEF NextSignature
<1>2. /\ Len(c) \in Nat /\ k \in 1..Len(c) /\ j \in Nat /\ NoneBefore(c, k, j)
      /\ ~Scanned /\ Counters # NULL => Len(Counters) \in Nat
  BY <1>1, AtTheScan
<1>3. c[k] # NULL => Len(c[k]) \in Nat /\ j > Len(c[k])
  BY <1>1, <1>2 DEF Counters
<1>4. at'.signature = k + 1 /\ at'.counter = 1
  BY <1>1
<1>5. NoneBefore(c, k + 1, 1)
  <2> HIDE DEF c, k, j
  <2> QED
    BY <1>2, <1>3, ScanArray
<1>6. at' \in [signature : Nat, counter : Nat] /\ at'.signature \in 1..(Len(c) + 1)
  BY <1>1, <1>2
<1>7. ~Scanned' /\ Counters' # NULL => at'.counter <= Len(Counters') + 1
  <2> SUFFICES ASSUME ~Scanned', Counters' # NULL PROVE at'.counter <= Len(Counters') + 1
    OBVIOUS
  <2>1. Counters' = c[k + 1] /\ k + 1 \in 1..Len(c)
    BY <1>1, <1>2, <1>4 DEF Scanned, Counters
  <2>2. Len(c[k + 1]) \in Nat
    BY <1>1, <2>1, AtTheScan, FileTypes
  <2> QED
    BY <1>4, <2>1, <2>2
<1>8. NoneBefore(file.countersigned, at'.signature, at'.counter)
  BY <1>4, <1>5
<1>9. at'.counter \in Nat \ {0}
  BY <1>4
<1> QED
  BY <1>1, <1>6, <1>7, <1>8, <1>9, ScanStep

\* NextCounter: the countersignature without a time is passed.
LEMMA NextCounterStep ==
    ASSUME Inv, NextCounter
    PROVE  Inv'
<1> DEFINE c == file.countersigned
           k == at.signature
           j == at.counter
<1>1. /\ pc = "counters" /\ ~Scanned /\ Counters # NULL /\ at.counter <= Len(Counters)
      /\ ~Valid(Counters[at.counter]) /\ at' = [at EXCEPT !.counter = @ + 1]
      /\ UNCHANGED <<pc, file, sig, info, features>>
  BY DEF NextCounter, AtCounter
<1>2. /\ Len(c) \in Nat /\ k \in 1..Len(c) /\ j \in Nat /\ NoneBefore(c, k, j)
      /\ Len(Counters) \in Nat /\ at \in [signature : Nat, counter : Nat]
  BY <1>1, AtTheScan
<1>3. at'.signature = k /\ at'.counter = j + 1
  BY <1>1, <1>2
<1>4. NoneBefore(c, k, j + 1)
  <2>1. ~Valid(c[k][j])
    BY <1>1 DEF Counters
  <2> HIDE DEF c, k, j
  <2> QED
    BY <1>2, <2>1, ScanCounter
<1>5. /\ at' \in [signature : Nat, counter : Nat] /\ at'.counter \in Nat \ {0}
      /\ at'.signature \in 1..(Len(c) + 1)
  BY <1>1, <1>2, <1>3
<1>6. Counters' = Counters
  BY <1>1, <1>3 DEF Counters
<1>7. at'.counter <= Len(Counters') + 1
  BY <1>1, <1>2, <1>3, <1>6
<1>8. NoneBefore(file.countersigned, at'.signature, at'.counter)
  BY <1>3, <1>4
<1> QED
  BY <1>1, <1>5, <1>7, <1>8, ScanStep

\* Countersigned: the countersignature at hand is the first with a time.
LEMMA CountersignedStep ==
    ASSUME Inv, Countersigned
    PROVE  Inv'
<1> DEFINE c == file.countersigned
           k == at.signature
           j == at.counter
           time == c[k][j]
<1>1. /\ pc = "counters" /\ ~Scanned /\ Counters # NULL /\ at.counter <= Len(Counters)
      /\ Valid(time) /\ pc' = "features"
      /\ info' = [info EXCEPT !.noCounterSigner = FALSE,
                              !.latestSigningTime = Larger(@, time),
                              !.signingTimeDiff = time - file.timestamp]
      /\ UNCHANGED <<file, sig, at, features>>
  BY DEF Countersigned, AtCounter, Counters
<1>2. /\ file \in Files /\ Signed(file) /\ DOMAIN info = DOMAIN Default
      /\ ChainsOf(info, file.signatures, Len(file.signatures)) /\ NoTime(info)
      /\ Len(c) \in Nat /\ k \in 1..Len(c) /\ j \in Nat \ {0} /\ NoneBefore(c, k, j)
      /\ Len(Counters) \in Nat /\ \A n \in 1..Len(Counters) : Counters[n] \in Int
  BY <1>1, AtTheScan
<1>3. j \in 1..Len(c[k]) /\ c[k] # NULL /\ time \in Int
  BY <1>1, <1>2 DEF Counters
<1>4. Larger(info.latestSigningTime, time) = time
  <2>1. info.latestSigningTime = 0 /\ time > 0
    BY <1>1, <1>2 DEF NoTime, Valid
  <2> HIDE DEF time
  <2> QED
    BY <1>3, <2>1 DEF Larger
<1>5. FirstAt(c, k, j)
  BY <1>1, <1>2, <1>3 DEF FirstAt
<1> HIDE DEF c, k, j, time
<1>6. /\ info'.numSignatures = info.numSignatures
      /\ info'.numSelfSignedCerts = info.numSelfSignedCerts
      /\ info'.parseErrors = info.parseErrors
      /\ info'.emptyProgramName = info.emptyProgramName
      /\ info'.chainMaxDepth = info.chainMaxDepth
      /\ info'.latestSigningTime = time
      /\ info'.signingTimeDiff = time - file.timestamp
      /\ DOMAIN info' = DOMAIN info
  BY <1>1, <1>2, <1>4 DEF Default
<1>7. info'.noCounterSigner = FALSE
  BY <1>1, <1>2 DEF Default
<1>8. Steps'
  BY <1>1, <1>2, <1>6 DEF Inv, Steps
<1>9. UnsignedIsDefault' /\ FeaturesWritten'
  BY <1>1, <1>2 DEF Inv, UnsignedIsDefault, FeaturesWritten
<1>10. ChainsGathered'
  <2>1. ChainsOf(info', file.signatures, Len(file.signatures))
    BY <1>2, <1>6 DEF ChainsOf
  <2> QED
    BY <1>1, <2>1 DEF ChainsGathered, ChainsOf
<1>11. TimesScanned'
  <2>1. TimeOf(info', file)
    <3>1. /\ k \in 1..Len(file.countersigned) /\ file.countersigned[k] # NULL
          /\ j \in 1..Len(file.countersigned[k]) /\ FirstAt(file.countersigned, k, j)
          /\ info'.latestSigningTime = file.countersigned[k][j]
          /\ info'.signingTimeDiff = file.countersigned[k][j] - file.timestamp
      BY <1>2, <1>3, <1>5, <1>6 DEF c, time
    <3> QED
      BY <1>7, <3>1 DEF TimeOf
  <2>2. TimeOf(info', file')
    BY <1>1, <2>1
  <2> QED
    BY <1>1, <2>2 DEF TimesScanned, TimeOf
<1> QED
  BY <1>8, <1>9, <1>10, <1>11 DEF Inv

\* NotCountersigned: no countersignature has a time.
LEMMA NotCountersignedStep ==
    ASSUME Inv, NotCountersigned
    PROVE  Inv'
<1> DEFINE c == file.countersigned
<1>1. /\ pc = "counters" /\ Scanned /\ pc' = "features"
      /\ info' = [info EXCEPT !.noCounterSigner = TRUE]
      /\ UNCHANGED <<file, sig, at, features>>
  BY DEF NotCountersigned
<1>2. /\ file \in Files /\ Signed(file) /\ DOMAIN info = DOMAIN Default
      /\ ChainsOf(info, file.signatures, Len(file.signatures)) /\ NoTime(info)
      /\ Len(c) \in Nat /\ at.signature \in 1..(Len(c) + 1)
      /\ NoneBefore(c, at.signature, at.counter)
  BY <1>1, AtTheScan
<1>3. at.signature = Len(c) + 1
  BY <1>1, <1>2 DEF Scanned
<1>4. NoneBefore(c, Len(c) + 1, 1)
  <2>1. \A m \in 1..Len(c) : m < Len(c) + 1
    BY <1>2
  <2> QED
    BY <1>2, <1>3, <2>1 DEF NoneBefore
<1>5. /\ info'.numSignatures = info.numSignatures
      /\ info'.numSelfSignedCerts = info.numSelfSignedCerts
      /\ info'.parseErrors = info.parseErrors
      /\ info'.emptyProgramName = info.emptyProgramName
      /\ info'.chainMaxDepth = info.chainMaxDepth
      /\ info'.latestSigningTime = info.latestSigningTime
      /\ info'.signingTimeDiff = info.signingTimeDiff
      /\ DOMAIN info' = DOMAIN info
  BY <1>1, <1>2 DEF Default
<1>6. info'.noCounterSigner = TRUE
  BY <1>1, <1>2 DEF Default
<1>7. Steps'
  BY <1>1, <1>2, <1>5 DEF Inv, Steps
<1>8. UnsignedIsDefault' /\ FeaturesWritten'
  BY <1>1, <1>2 DEF Inv, UnsignedIsDefault, FeaturesWritten
<1>9. ChainsGathered'
  <2>1. ChainsOf(info', file.signatures, Len(file.signatures))
    BY <1>2, <1>5 DEF ChainsOf
  <2> QED
    BY <1>1, <2>1 DEF ChainsGathered, ChainsOf
<1>10. TimesScanned'
  <2>1. TimeOf(info', file')
    BY <1>1, <1>2, <1>4, <1>5, <1>6 DEF TimeOf, NoTime
  <2> QED
    BY <1>1, <2>1 DEF TimesScanned, TimeOf
<1> QED
  BY <1>7, <1>8, <1>9, <1>10 DEF Inv

\* Features: they are made of the info.
LEMMA FeaturesStep ==
    ASSUME Inv, Features
    PROVE  Inv'
<1>1. /\ pc = "features" /\ pc' = "done"
      /\ features' = IF ~file.isPE THEN Zeros ELSE FeaturesOf(info)
      /\ UNCHANGED <<file, sig, at, info>>
  BY DEF Features, FeaturesOf
<1>2. DOMAIN features' = DOMAIN Zeros
  <2>1. DOMAIN FeaturesOf(info) = DOMAIN Zeros
    BY DEF FeaturesOf, Zeros
  <2> QED
    BY <1>1, <2>1
<1>3. Steps'
  BY <1>1, <1>2 DEF Inv, Steps
<1>4. UnsignedIsDefault'
  BY <1>1 DEF Inv, UnsignedIsDefault
<1>5. ChainsGathered'
  BY <1>1 DEF Inv, ChainsGathered, ChainsOf
<1>6. TimesScanned'
  BY <1>1 DEF Inv, TimesScanned, TimeOf
<1>7. FeaturesWritten'
  <2>1. features' = IF file.isPE THEN FeaturesOf(info) ELSE Zeros
    BY <1>1
  <2> QED
    BY <1>1, <2>1 DEF FeaturesWritten, FeaturesOf
<1> QED
  BY <1>3, <1>4, <1>5, <1>6, <1>7 DEF Inv

\* A step that changes nothing preserves it.
LEMMA SameInv ==
    ASSUME Inv, UNCHANGED vars
    PROVE  Inv'
<1>1. /\ pc' = pc /\ file' = file /\ sig' = sig /\ at' = at /\ info' = info
      /\ features' = features
  BY DEF vars
<1>2. Steps' /\ UnsignedIsDefault'
  BY <1>1 DEF Inv, Steps, UnsignedIsDefault
<1>3. ChainsGathered'
  BY <1>1 DEF Inv, ChainsGathered, ChainsOf
<1>4. TimesScanned'
  BY <1>1 DEF Inv, TimesScanned, TimeOf, NoTime, Scanned, Counters
<1>5. FeaturesWritten'
  BY <1>1 DEF Inv, FeaturesWritten, FeaturesOf
<1> QED
  BY <1>2, <1>3, <1>4, <1>5 DEF Inv

\* So does every step.
LEMMA NextInv ==
    ASSUME Inv, [Next]_vars
    PROVE  Inv'
BY ExtractStep, SignatureStep, SignaturesDoneStep, NextSignatureStep, NextCounterStep,
   CountersignedStep, NotCountersignedStep, FeaturesStep, SameInv DEF Next

\* extractFromPEFile (authenticode_signature.cpp) gathers of the signatures it has
\* passed, and the scan of the countersignatures has passed no time.
THEOREM SignatureInvariant == Spec => []Inv
BY InitInv, NextInv, PTL DEF Spec

-----------------------------------------------------------------------------
(* The properties *)

\* At the end of a file the features are those of its info, and the info is that of
\* all its signatures.
LEMMA AtTheEnd ==
    ASSUME Inv, pc = "done"
    PROVE  /\ file \in Files
           /\ features = IF file.isPE THEN FeaturesOf(info) ELSE Zeros
           /\ ~Signed(file) => info = Default
           /\ Signed(file) => /\ ChainsOf(info, file.signatures, Len(file.signatures))
                              /\ TimeOf(info, file)
BY DEF Inv, Steps, UnsignedIsDefault, ChainsGathered, TimesScanned, FeaturesWritten

\* The types of the default.
LEMMA DefaultTypes ==
    /\ Default.chainMaxDepth \in Nat /\ Default.latestSigningTime \in Nat
    /\ Default.parseErrors \in 0..Default.numSignatures
    /\ Default.noCounterSigner \in BOOLEAN /\ Default.emptyProgramName \in BOOLEAN
    /\ Default.numSignatures = 0
<1>1. /\ Default.chainMaxDepth = 0 /\ Default.latestSigningTime = 0
      /\ Default.parseErrors = 0 /\ Default.numSignatures = 0
  BY DEF Default
<1>2. Default.noCounterSigner = FALSE /\ Default.emptyProgramName = FALSE
  BY Zenon DEF Default
<1>3. Default.noCounterSigner \in BOOLEAN /\ Default.emptyProgramName \in BOOLEAN
  BY <1>2, Zenon
<1> QED
  BY <1>1, <1>3

\* The types of an info of n signatures.
LEMMA ChainTypes ==
    ASSUME NEW l \in Seq(Signatures), NEW n \in 0..Len(l), NEW i, ChainsOf(i, l, n)
    PROVE  /\ i.chainMaxDepth \in Nat /\ i.parseErrors \in 0..i.numSignatures
           /\ i.emptyProgramName \in BOOLEAN
<1>1. Len(l) \in Nat
  BY LenProperties
<1>2. \A k \in 1..n : Len(l[k].selfIssued) \in Nat
  <2> SUFFICES ASSUME NEW k \in 1..n PROVE Len(l[k].selfIssued) \in Nat
    OBVIOUS
  <2>1. l[k] \in Signatures
    BY <1>1
  <2> QED
    BY <2>1, SignatureTypes
<1>3. i.chainMaxDepth \in {0} \cup { Len(l[k].selfIssued) : k \in 1..n }
  BY DEF ChainsOf
<1>4. i.parseErrors \in 0..n /\ i.numSignatures = Len(l) /\ i.emptyProgramName \in BOOLEAN
  BY DEF ChainsOf
<1>5. i.chainMaxDepth \in Nat
  BY <1>2, <1>3
<1>6. i.parseErrors \in 0..i.numSignatures
  BY <1>1, <1>4
<1> QED
  BY <1>4, <1>5, <1>6

\* PEAuthenticodeSignatureInfo (authenticode_signature.h): an info has its types, and no
\* more errors than signatures.
THEOREM TypeCorrect == Spec => []TypeOK
<1>1. ASSUME Inv PROVE TypeOK
  <2>1. Steps
    BY <1>1 DEF Inv
  <2>2. CASE pc = "idle" \/ ~Signed(file)
    <3>1. info = Default
      BY <1>1, <2>2 DEF Inv, UnsignedIsDefault
    <3> QED
      BY <2>1, <3>1, DefaultTypes DEF Steps, TypeOK
  <2>3. CASE pc # "idle" /\ Signed(file)
    <3>1. file \in Files
      BY <2>1, <2>3 DEF Steps
    <3>2. file.signatures \in Seq(Signatures) /\ Len(file.signatures) \in Nat
      BY <3>1, FileTypes
    <3>3. /\ info.chainMaxDepth \in Nat /\ info.parseErrors \in 0..info.numSignatures
          /\ info.emptyProgramName \in BOOLEAN
      <4>1. CASE pc = "signatures"
        <5>1. sig \in 1..(Len(file.signatures) + 1) /\ ChainsOf(info, file.signatures, sig - 1)
          BY <1>1, <4>1 DEF Inv, ChainsGathered
        <5>2. sig - 1 \in 0..Len(file.signatures)
          BY <3>2, <5>1
        <5> QED
          BY <3>2, <5>1, <5>2, ChainTypes
      <4>2. CASE pc # "signatures"
        <5>1. ChainsOf(info, file.signatures, Len(file.signatures))
          BY <1>1, <2>1, <2>3, <4>2 DEF Inv, Steps, ChainsGathered
        <5>2. Len(file.signatures) \in 0..Len(file.signatures)
          BY <3>2
        <5> QED
          BY <3>2, <5>1, <5>2, ChainTypes
      <4> QED
        BY <4>1, <4>2
    <3>4. info.latestSigningTime \in Nat /\ info.noCounterSigner \in BOOLEAN
      <4>1. CASE pc \in {"signatures", "counters"}
        <5>1. NoTime(info)
          BY <1>1, <4>1 DEF Inv, TimesScanned
        <5>2. info.latestSigningTime = 0
          BY <5>1 DEF NoTime
        <5>3. info.noCounterSigner \in BOOLEAN
          BY <5>1, Zenon DEF NoTime
        <5> QED
          BY <5>2, <5>3
      <4>2. CASE pc \notin {"signatures", "counters"}
        <5>1. TimeOf(info, file)
          BY <1>1, <2>1, <2>3, <4>2 DEF Inv, Steps, TimesScanned
        <5>2. info.noCounterSigner \in BOOLEAN
          <6>1. info.noCounterSigner = TRUE \/ info.noCounterSigner = FALSE
            BY <5>1 DEF TimeOf
          <6> QED
            BY <6>1, Zenon
        <5>3. info.latestSigningTime \in Nat
          <6>1. CASE info.latestSigningTime = 0
            BY <6>1
          <6>2. CASE info.latestSigningTime # 0
            <7>1. PICK k \in 1..Len(file.countersigned) :
                     /\ file.countersigned[k] # NULL
                     /\ \E j \in 1..Len(file.countersigned[k]) :
                           /\ FirstAt(file.countersigned, k, j)
                           /\ info.latestSigningTime = file.countersigned[k][j]
              BY <5>1, <6>2 DEF TimeOf
            <7>2. PICK j \in 1..Len(file.countersigned[k]) :
                     /\ FirstAt(file.countersigned, k, j)
                     /\ info.latestSigningTime = file.countersigned[k][j]
              BY <7>1
            <7>3. file.countersigned[k][j] \in Int
              BY <3>1, <7>1, FileTypes
            <7>4. file.countersigned[k][j] > 0
              BY <7>2 DEF FirstAt, Valid
            <7> QED
              BY <7>2, <7>3, <7>4
          <6> QED
            BY <6>1, <6>2
        <5> QED
          BY <5>2, <5>3
      <4> QED
        BY <4>1, <4>2
    <3> QED
      BY <2>1, <3>3, <3>4 DEF Steps, TypeOK
  <2> QED
    BY <2>2, <2>3
<1> QED
  BY <1>1, SignatureInvariant, PTL

\* The maximum of a set is its element that no other exceeds.
LEMMA MaxIs ==
    ASSUME NEW S \in SUBSET Int, NEW m \in S, \A k \in S : k <= m
    PROVE  Max(S) = m
<1>1. \E x \in S : \A y \in S : x >= y
  OBVIOUS
<1>2. Max(S) \in S /\ \A y \in S : Max(S) >= y
  BY <1>1 DEF Max
<1> DEFINE x == Max(S)
<1>3. x \in S /\ x >= m
  BY <1>2
<1> HIDE DEF x
<1>4. x \in Int /\ m \in Int /\ x <= m
  BY <1>3
<1>5. x = m
  BY <1>3, <1>4
<1> QED
  BY <1>5 DEF x

\* The minimum is the one that exceeds no other.
LEMMA MinIs ==
    ASSUME NEW S \in SUBSET Int, NEW m \in S, \A k \in S : m <= k
    PROVE  Min(S) = m
<1>1. \E x \in S : \A y \in S : x =< y
  OBVIOUS
<1>2. Min(S) \in S /\ \A y \in S : Min(S) =< y
  BY <1>1 DEF Min
<1> DEFINE x == Min(S)
<1>3. x \in S /\ x <= m
  BY <1>2
<1> HIDE DEF x
<1>4. x \in Int /\ m \in Int /\ m <= x
  BY <1>3
<1>5. x = m
  BY <1>3, <1>4
<1> QED
  BY <1>5 DEF x

\* getCertificates and the loop over the signatures (authenticode_signature.cpp): what is
\* written of the chains is over all signatures of the file.
THEOREM ChainsCorrect == Spec => []ChainsOfAllSignatures
<1>1. ASSUME Inv PROVE ChainsOfAllSignatures
  <2> DEFINE l == file.signatures
             n == Len(l)
             sigs == ToSet(l)
             depths == { Len(s.selfIssued) : s \in sigs }
  <2> SUFFICES ASSUME pc = "done", info.numSignatures > 0
               PROVE  /\ features.chainMaxDepth = Max(depths)
                      /\ features.selfSigned =
                           Flag(\E s \in sigs : TRUE \in ToSet(SubSeq(s.selfIssued, 1, Len(s.selfIssued) - 1)))
                      /\ features.parseError = Flag(\E s \in sigs : ~s.verified)
                      /\ features.emptyProgramName = Flag(\E s \in sigs : TRUE \notin ToSet(s.programName))
    BY DEF ChainsOfAllSignatures
  <2>1. Signed(file)
    BY <1>1, AtTheEnd, DefaultTypes
  <2>2. file.isPE
    BY <2>1 DEF Signed
  <2>3. file \in Files /\ features = FeaturesOf(info) /\ ChainsOf(info, l, n)
    BY <1>1, <2>1, <2>2, AtTheEnd
  <2>4. l \in Seq(Signatures) /\ n \in Nat /\ n > 0 /\ \A k \in 1..n : l[k] \in Signatures
    BY <2>1, <2>3, FileTypes
  <2>5. sigs = { l[k] : k \in 1..n } /\ DOMAIN l = 1..n
    BY <2>4 DEF ToSet
  <2>6. /\ features.chainMaxDepth = info.chainMaxDepth
        /\ features.selfSigned = Flag(info.numSelfSignedCerts > 0)
        /\ features.parseError = Flag(info.parseErrors > 0)
        /\ features.emptyProgramName = Flag(info.emptyProgramName)
    BY <2>3 DEF FeaturesOf
  <2> HIDE DEF l, n, sigs
  <2>7. \A s \in sigs : s \in Signatures /\ Len(s.selfIssued) \in Nat
    BY <2>4, <2>5, SignatureTypes
  <2>8. info.chainMaxDepth = Max(depths)
    <3>1. /\ info.chainMaxDepth \in {0} \cup { Len(l[k].selfIssued) : k \in 1..n }
          /\ \A k \in 1..n : Len(l[k].selfIssued) <= info.chainMaxDepth
      BY <2>3 DEF ChainsOf
    <3>2. \A d \in depths : d \in Nat /\ d <= info.chainMaxDepth
      BY <2>5, <2>7, <3>1
    <3>3. info.chainMaxDepth \in depths
      <4>1. CASE info.chainMaxDepth = 0
        <5>1. l[1] \in sigs /\ Len(l[1].selfIssued) \in Nat /\ 1 \in 1..n
          BY <2>4, <2>5, <2>7
        <5>2. Len(l[1].selfIssued) <= 0
          BY <3>1, <4>1, <5>1
        <5>3. Len(l[1].selfIssued) = 0
          BY <5>1, <5>2
        <5> QED
          BY <4>1, <5>1, <5>3
      <4>2. CASE info.chainMaxDepth # 0
        <5>1. PICK k \in 1..n : info.chainMaxDepth = Len(l[k].selfIssued)
          BY <3>1, <4>2
        <5> QED
          BY <2>5, <5>1
      <4> QED
        BY <4>1, <4>2
    <3>4. depths \in SUBSET Int
      BY <3>2
    <3> HIDE DEF depths
    <3> QED
      BY <3>2, <3>3, <3>4, MaxIs
  <2>9. info.numSelfSignedCerts > 0
           <=> \E s \in sigs : TRUE \in ToSet(SubSeq(s.selfIssued, 1, Len(s.selfIssued) - 1))
    <3>1. info.numSelfSignedCerts > 0 <=> \E k \in 1..n : SelfSigned(l[k]) > 0
      BY <2>3 DEF ChainsOf
    <3>2. ASSUME NEW s \in sigs
          PROVE  SelfSigned(s) > 0 <=> TRUE \in ToSet(SubSeq(s.selfIssued, 1, Len(s.selfIssued) - 1))
      <4> DEFINE c == s.selfIssued
                 m == Len(c) - 1
                 b == SubSeq(c, 1, m)
      <4>1. s \in Signatures /\ c \in Seq(BOOLEAN) /\ Len(c) \in Nat
        BY <2>7, SignatureTypes
      <4>2. SelfSigned(s) > 0 <=> \E k \in 1..m : c[k] = TRUE
        BY <4>1, SelfSignedIs
      <4> HIDE DEF c
      <4>3. DOMAIN b = 1..m /\ \A k \in 1..m : b[k] = c[k]
        BY <4>1, SubSeqProperties
      <4> HIDE DEF m, b
      <4>4. TRUE \in ToSet(b) <=> \E k \in 1..m : c[k] = TRUE
        BY <4>3, Zenon DEF ToSet
      <4> QED
        BY <4>2, <4>4 DEF b, m, c
    <3> QED
      BY <2>5, <3>1, <3>2
  <2>10. info.parseErrors > 0 <=> \E s \in sigs : ~s.verified
    <3>1. info.parseErrors > 0 <=> \E k \in 1..n : l[k].verified = FALSE
      BY <2>3 DEF ChainsOf
    <3>2. \A s \in sigs : s.verified = FALSE <=> ~s.verified
      BY <2>7, SignatureTypes
    <3> QED
      BY <2>5, <3>1, <3>2
  <2>11. info.emptyProgramName <=> \E s \in sigs : TRUE \notin ToSet(s.programName)
    <3>1. /\ info.emptyProgramName \in BOOLEAN
          /\ info.emptyProgramName = TRUE <=> \E k \in 1..n : ~HasProgramName(l[k])
      BY <2>3 DEF ChainsOf
    <3>2. ASSUME NEW s \in sigs
          PROVE  HasProgramName(s) <=> TRUE \in ToSet(s.programName)
      <4> DEFINE b == s.programName
      <4>1. b \in Seq(BOOLEAN)
        BY <2>7, SignatureTypes
      <4>2. \A k \in DOMAIN b : b[k] \in BOOLEAN
        BY <4>1
      <4> HIDE DEF b
      <4>3. TRUE \in ToSet(b) <=> \E k \in DOMAIN b : b[k] = TRUE
        BY Zenon DEF ToSet
      <4>4. HasProgramName(s) <=> \E k \in DOMAIN b : b[k]
        BY DEF HasProgramName, b
      <4>5. (\E k \in DOMAIN b : b[k]) <=> \E k \in DOMAIN b : b[k] = TRUE
        BY <4>2
      <4> QED
        BY <4>3, <4>4, <4>5 DEF b
    <3>3. info.emptyProgramName <=> info.emptyProgramName = TRUE
      BY <3>1
    <3>4. (\E k \in 1..n : ~HasProgramName(l[k])) <=> \E s \in sigs : ~HasProgramName(s)
      BY <2>5
    <3> QED
      BY <3>1, <3>2, <3>3, <3>4
  <2> HIDE DEF depths
  <2>12. Flag(info.numSelfSignedCerts > 0) =
           Flag(\E s \in sigs : TRUE \in ToSet(SubSeq(s.selfIssued, 1, Len(s.selfIssued) - 1)))
    BY <2>9, Zenon DEF Flag
  <2>13. Flag(info.parseErrors > 0) = Flag(\E s \in sigs : ~s.verified)
    BY <2>10, Zenon DEF Flag
  <2>14. Flag(info.emptyProgramName) = Flag(\E s \in sigs : TRUE \notin ToSet(s.programName))
    BY <2>11, Zenon DEF Flag
  <2> QED
    BY <2>6, <2>8, <2>12, <2>13, <2>14, Zenon
<1> QED
  BY <1>1, SignatureInvariant, PTL

\* The arrays of signing times of f, an empty one where a signature has none.
Arrays(f) ==
    [k \in DOMAIN f.countersigned |->
        IF f.countersigned[k] = NULL THEN <<>> ELSE f.countersigned[k]]

\* All times of a file are those of its arrays, in order.
LEMMA TimesAreJoined ==
    ASSUME NEW f \in Files
    PROVE  /\ \A k \in 1..Len(f.countersigned) : Arrays(f)[k] \in Seq(Int)
           /\ \A k \in 1..Len(f.countersigned) :
                 \A j \in 1..Len(Arrays(f)[k]) :
                    f.countersigned[k] # NULL /\ Arrays(f)[k] = f.countersigned[k]
           /\ \A k \in 1..Len(f.countersigned) :
                 f.countersigned[k] # NULL => Arrays(f)[k] = f.countersigned[k]
           /\ AllTimes(f) = Joined(Arrays(f), Len(f.countersigned))
           /\ AllTimes(f) \in Seq(Int) /\ DOMAIN AllTimes(f) = 1..Len(AllTimes(f))
<1> DEFINE c == f.countersigned
           N == Len(c)
<1>1. /\ N \in Nat /\ DOMAIN c = 1..N
      /\ \A k \in 1..N : c[k] # NULL => c[k] \in Seq(Int)
  BY FileTypes
<1>2. \A k \in 1..N : Arrays(f)[k] = IF c[k] = NULL THEN <<>> ELSE c[k]
  BY <1>1 DEF Arrays
<1> HIDE DEF c, N
<1>3. <<>> \in Seq(Int) /\ Len(<<>>) = 0 /\ \A j \in 1..0 : FALSE
  BY EmptySeq
<1>4. \A k \in 1..N : Arrays(f)[k] \in Seq(Int)
  BY <1>1, <1>2, <1>3
<1>5. \A k \in 1..N : \A j \in 1..Len(Arrays(f)[k]) : c[k] # NULL /\ Arrays(f)[k] = c[k]
  <2> SUFFICES ASSUME NEW k \in 1..N, NEW j \in 1..Len(Arrays(f)[k]), c[k] = NULL PROVE FALSE
    BY <1>2
  <2>1. Len(Arrays(f)[k]) = 0
    BY <1>2, <1>3
  <2> QED
    BY <1>3, <2>1
<1>6. \A k \in 1..N : c[k] # NULL => Arrays(f)[k] = c[k]
  BY <1>2
<1>7. AllTimes(f) = Joined(Arrays(f), N)
  <2>1. FirstOnes(Arrays(f), N) = Arrays(f)
    BY <1>1, <1>2 DEF FirstOnes, Arrays, c
  <2>2. AllTimes(f) = FlattenSeq(Arrays(f))
    BY DEF AllTimes, Arrays
  <2> QED
    BY <2>1, <2>2 DEF Joined
<1>8. Joined(Arrays(f), N) \in Seq(Int)
  BY <1>1, <1>4, JoinedType
<1>9. AllTimes(f) \in Seq(Int) /\ DOMAIN AllTimes(f) = 1..Len(AllTimes(f))
  BY <1>7, <1>8, LenProperties
<1> QED
  BY <1>4, <1>5, <1>6, <1>7, <1>9 DEF c, N

\* Where the scan has passed all arrays there is no time.
LEMMA NoneIsValid ==
    ASSUME NEW f \in Files, NoneBefore(f.countersigned, Len(f.countersigned) + 1, 1)
    PROVE  { i \in DOMAIN AllTimes(f) : AllTimes(f)[i] > 0 } = {}
<1> DEFINE c == f.countersigned
           N == Len(c)
           F == Arrays(f)
           times == AllTimes(f)
<1>1. N \in Nat /\ \A k \in 1..N : F[k] \in Seq(Int)
  BY FileTypes, TimesAreJoined
<1>2. /\ \A k \in 1..N : \A j \in 1..Len(F[k]) : c[k] # NULL /\ F[k] = c[k]
      /\ times = Joined(F, N) /\ DOMAIN times = 1..Len(times)
  BY TimesAreJoined
<1>3. \A k \in 1..N : c[k] # NULL => \A j \in 1..Len(c[k]) : ~(c[k][j] > 0)
  BY <1>1 DEF NoneBefore, Valid
<1> HIDE DEF c, N, F, times
<1>4. JoinedFrom(F, N)
  BY <1>1, JoinedMembers
<1>5. ASSUME NEW i \in DOMAIN times PROVE ~(times[i] > 0)
  <2>1. PICK k \in 1..N : \E j \in 1..Len(F[k]) : times[i] = F[k][j]
    BY <1>2, <1>4 DEF JoinedFrom
  <2>2. PICK j \in 1..Len(F[k]) : times[i] = F[k][j]
    BY <2>1
  <2>3. c[k] # NULL /\ F[k] = c[k]
    BY <1>2, <2>2
  <2> QED
    BY <1>3, <2>2, <2>3
<1> QED
  BY <1>5 DEF times

\* Where the scan ended is the first time of all.
LEMMA FirstIsValid ==
    ASSUME NEW f \in Files, NEW k \in 1..Len(f.countersigned), f.countersigned[k] # NULL,
           NEW j \in 1..Len(f.countersigned[k]), FirstAt(f.countersigned, k, j)
    PROVE  LET valid == { i \in DOMAIN AllTimes(f) : AllTimes(f)[i] > 0 }
           IN  valid # {} /\ AllTimes(f)[Min(valid)] = f.countersigned[k][j]
<1> DEFINE c == f.countersigned
           N == Len(c)
           F == Arrays(f)
           times == AllTimes(f)
           valid == { i \in DOMAIN times : times[i] > 0 }
           m == Len(Joined(F, k - 1)) + j
<1>1. N \in Nat /\ (\A q \in 1..N : F[q] \in Seq(Int)) /\ k \in 1..N
  BY FileTypes, TimesAreJoined
<1>2. /\ \A q \in 1..N : \A n \in 1..Len(F[q]) : c[q] # NULL /\ F[q] = c[q]
      /\ times = Joined(F, N) /\ DOMAIN times = 1..Len(times) /\ F[k] = c[k]
  BY TimesAreJoined
<1>3. j \in 1..Len(F[k])
  BY <1>2
<1>4. c[k][j] > 0 /\ NoneBefore(c, k, j)
  BY DEF FirstAt, Valid
<1>5. \A q \in 1..N :
         c[q] # NULL => \A n \in 1..Len(c[q]) : q < k \/ (q = k /\ n < j) => ~(c[q][n] > 0)
  BY <1>4 DEF NoneBefore, Valid
<1> HIDE DEF c, N, F, m, times
<1>6. /\ m \in 1..Len(times) /\ times[m] = F[k][j]
      /\ \A i \in 1..(m - 1) :
            \E q \in 1..N : \E n \in 1..Len(F[q]) :
               (q < k \/ (q = k /\ n < j)) /\ times[i] = F[q][n]
  <2>1. m = Len(Joined(F, k - 1)) + j
    BY DEF m
  <2>2. FoundAt(F, N, k, j, m)
    BY <1>1, <1>3, <2>1, JoinedPlace
  <2> QED
    BY <1>2, <2>2 DEF FoundAt
<1>7. m \in valid /\ times[m] = c[k][j]
  BY <1>2, <1>4, <1>6
<1>8. ASSUME NEW i \in valid PROVE m <= i
  <2> SUFFICES ASSUME i < m PROVE FALSE
    BY <1>2, <1>6
  <2>1. i \in 1..(m - 1) /\ times[i] > 0
    BY <1>2, <1>6
  <2>2. PICK q \in 1..N : \E n \in 1..Len(F[q]) :
               (q < k \/ (q = k /\ n < j)) /\ times[i] = F[q][n]
    BY <1>6, <2>1
  <2>3. PICK n \in 1..Len(F[q]) : (q < k \/ (q = k /\ n < j)) /\ times[i] = F[q][n]
    BY <2>2
  <2>4. c[q] # NULL /\ F[q] = c[q]
    BY <1>2, <2>3
  <2> QED
    BY <1>5, <2>1, <2>3, <2>4
<1>9. valid \in SUBSET Int
  BY <1>2
<1>10. Min(valid) = m
  <2> HIDE DEF valid
  <2> QED
    BY <1>7, <1>8, <1>9, MinIs
<1>11. valid # {} /\ times[Min(valid)] = c[k][j]
  BY <1>7, <1>10
<1> QED
  BY <1>11 DEF times, c

\* The features of a default info are zeros.
LEMMA DefaultFeatures == FeaturesOf(Default) = Zeros
<1>1. Flag(Default.emptyProgramName) = 0 /\ Flag(Default.noCounterSigner) = 0
  <2>1. ~Default.emptyProgramName /\ ~Default.noCounterSigner
    BY DEF Default
  <2> QED
    BY <2>1, Zenon DEF Flag
<1>2. Flag(Default.numSelfSignedCerts > 0) = 0 /\ Flag(Default.parseErrors > 0) = 0
  <2>1. ~(Default.numSelfSignedCerts > 0) /\ ~(Default.parseErrors > 0)
    BY DEF Default
  <2> QED
    BY <2>1, Zenon DEF Flag
<1>3. /\ Default.numSignatures = 0 /\ Default.chainMaxDepth = 0
      /\ Default.latestSigningTime = 0 /\ Default.signingTimeDiff = 0
  BY DEF Default
<1> QED
  BY <1>1, <1>2, <1>3 DEF FeaturesOf, Zeros

\* getCounterSignatureInfo_Avast (authenticode_signature.cpp): the time written is the
\* first there is in the order of the arrays; a file without one has the flag, and a file
\* without signatures has zeros.
THEOREM SigningTimeCorrect == Spec => []SigningTimeIsTheFirst
<1>1. ASSUME Inv PROVE SigningTimeIsTheFirst
  <2> DEFINE times == AllTimes(file)
             valid == { i \in DOMAIN times : times[i] > 0 }
  <2> SUFFICES ASSUME pc = "done"
               PROVE  IF ~file.isPE \/ file.signatures = <<>> THEN features = Zeros
                      ELSE IF valid = {}
                      THEN /\ features.noCounterSigner = 1
                           /\ features.latestSigningTime = 0 /\ features.signingTimeDiff = 0
                      ELSE /\ features.noCounterSigner = 0
                           /\ features.latestSigningTime = times[Min(valid)]
                           /\ features.signingTimeDiff = times[Min(valid)] - file.timestamp
    BY DEF SigningTimeIsTheFirst
  <2>1. /\ file \in Files
        /\ features = IF file.isPE THEN FeaturesOf(info) ELSE Zeros
        /\ ~Signed(file) => info = Default
        /\ Signed(file) => TimeOf(info, file)
    BY <1>1, AtTheEnd
  <2>2. Signed(file) <=> ~(~file.isPE \/ file.signatures = <<>>)
    BY DEF Signed
  <2>3. CASE ~Signed(file)
    <3>1. features = Zeros
      BY <2>1, <2>3, DefaultFeatures
    <3> QED
      BY <2>2, <2>3, <3>1
  <2>4. CASE Signed(file)
    <3>1. features = FeaturesOf(info) /\ TimeOf(info, file)
      BY <2>1, <2>2, <2>4
    <3>2. /\ features.noCounterSigner = Flag(info.noCounterSigner)
          /\ features.latestSigningTime = info.latestSigningTime
          /\ features.signingTimeDiff = info.signingTimeDiff
      BY <3>1 DEF FeaturesOf
    <3>3. CASE info.noCounterSigner = TRUE
      <4>1. /\ info.latestSigningTime = 0 /\ info.signingTimeDiff = 0
            /\ NoneBefore(file.countersigned, Len(file.countersigned) + 1, 1)
        BY <3>1, <3>3 DEF TimeOf
      <4>2. valid = {}
        BY <2>1, <4>1, NoneIsValid
      <4>3. features.noCounterSigner = 1
        BY <3>2, <3>3 DEF Flag
      <4> HIDE DEF valid, times
      <4> QED
        BY <2>2, <2>4, <3>2, <4>1, <4>2, <4>3
    <3>4. CASE info.noCounterSigner = FALSE
      <4>1. PICK k \in 1..Len(file.countersigned) :
               /\ file.countersigned[k] # NULL
               /\ \E j \in 1..Len(file.countersigned[k]) :
                     /\ FirstAt(file.countersigned, k, j)
                     /\ info.latestSigningTime = file.countersigned[k][j]
                     /\ info.signingTimeDiff = file.countersigned[k][j] - file.timestamp
        BY <3>1, <3>4 DEF TimeOf
      <4>2. PICK j \in 1..Len(file.countersigned[k]) :
               /\ FirstAt(file.countersigned, k, j)
               /\ info.latestSigningTime = file.countersigned[k][j]
               /\ info.signingTimeDiff = file.countersigned[k][j] - file.timestamp
        BY <4>1
      <4>3. valid # {} /\ times[Min(valid)] = file.countersigned[k][j]
        BY <2>1, <4>1, <4>2, FirstIsValid
      <4>4. features.noCounterSigner = 0
        BY <3>2, <3>4 DEF Flag
      <4> HIDE DEF valid, times
      <4> QED
        BY <2>2, <2>4, <3>2, <4>2, <4>3, <4>4
    <3>5. info.noCounterSigner = TRUE \/ info.noCounterSigner = FALSE
      BY <3>1 DEF TimeOf
    <3> QED
      BY <3>3, <3>4, <3>5
  <2> QED
    BY <2>3, <2>4
<1> QED
  BY <1>1, SignatureInvariant, PTL

=============================================================================
