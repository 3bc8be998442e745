---------------------------- MODULE FeatureHasher ----------------------------
(***************************************************************************)
(* featurehasher/src/featurehasher.cpp: strings with a weight are hashed   *)
(* into `size' buckets, one row of buckets per sample.  The hash values    *)
(* and weights of a sample are collected in compressed-sparse-row vectors  *)
(* (csr) whose value vector grows by doubling; finalize turns them into    *)
(* the dense rows of the output.  The object may be used again, with or    *)
(* without reset.                                                          *)
(*                                                                         *)
(* reset may be called at any time, the setters and start only outside     *)
(* start..finalize.  The memory behind the output is the caller's: between *)
(* two uses it holds anything (Garbage), and it has room for the rows (the *)
(* callers in core/src allocate it so).  Weights are integers: rounding of *)
(* the feature values is not modelled.                                     *)
(***************************************************************************)
EXTENDS Integers, Sequences, FiniteSets, FiniteSetsExt, Functions

CONSTANTS Strings, Seeds,
          Hash,        \* MurmurHash3_x86_32 as a function of <<seed, string>>
          MinInt,      \* INT32_MIN; INT32_MAX is -(MinInt + 1)
          Weights,     \* the weights reduce is called with
          MaxSize,     \* bound: number of buckets
          MaxItems,    \* bound: calls of reduce in one use
          MaxSamples,  \* bound: samples in one use
          Garbage      \* what the output holds before the first use

ASSUME ConstantsAssumption ==
    /\ MinInt \in Int /\ MinInt < 0 /\ Seeds # {}
    /\ Hash \in [Seeds \X Strings -> MinInt..-(MinInt + 1)]
    /\ Weights \subseteq Int /\ MaxSize \in Nat /\ MaxSize <= -MinInt
    /\ MaxItems \in Nat /\ MaxSamples \in Nat \ {0} /\ Garbage \in Int

VARIABLES alternateSign, outputSet, size, seed, multipleSamples,
          indptr, indices, values, sz,
          output,              \* the cells behind the output pointer
          phase,               \* "idle", "started", "final" or "exited"
          samples, sample,     \* history: the samples of this use, the open one
          clean, fresh         \* history: nothing was left over by the last use,
                               \* by the use before the current one

config == <<alternateSign, outputSet, size, seed, multipleSamples>>
csr == <<indptr, indices, values, sz>>
history == <<samples, sample, clean, fresh>>
vars == <<config, csr, output, phase, history>>

Cells == 0..(MaxSamples * MaxSize - 1)

BetweenUses ==
    /\ phase' = "idle"
    /\ output' = [c \in Cells |-> Garbage]
    /\ samples' = <<>> /\ sample' = <<>>

Init ==
    /\ alternateSign = TRUE /\ outputSet = FALSE /\ size = 0
    /\ seed = CHOOSE s \in Seeds : TRUE
    /\ multipleSamples = FALSE
    /\ indptr = <<>> /\ indices = <<>> /\ values = <<>> /\ sz = 0
    /\ output = [c \in Cells |-> Garbage]
    /\ phase = "idle"
    /\ samples = <<>> /\ sample = <<>> /\ clean = TRUE /\ fresh = TRUE

-----------------------------------------------------------------------------
(* Configuration *)

Reset ==
    /\ phase # "exited"
    /\ alternateSign' = TRUE /\ outputSet' = FALSE /\ size' = 0
    /\ seed' = CHOOSE s \in Seeds : TRUE
    /\ multipleSamples' = FALSE
    /\ indptr' = <<>> /\ indices' = <<>> /\ values' = <<>>
    /\ clean' = TRUE
    /\ BetweenUses
    /\ UNCHANGED <<sz, fresh>>

Configurable ==
    /\ phase \in {"idle", "final"}
    /\ BetweenUses
    /\ UNCHANGED <<csr, clean, fresh>>

SetOutput ==
    /\ Configurable
    /\ outputSet' = TRUE
    /\ UNCHANGED <<alternateSign, size, seed, multipleSamples>>

SetSize(n) ==
    /\ Configurable
    /\ size' = n
    /\ UNCHANGED <<alternateSign, outputSet, seed, multipleSamples>>

SetAlternateSign(b) ==
    /\ Configurable
    /\ alternateSign' = b
    /\ UNCHANGED <<outputSet, size, seed, multipleSamples>>

SetSeed(s) ==
    /\ Configurable
    /\ seed' = s
    /\ UNCHANGED <<alternateSign, outputSet, size, multipleSamples>>

SetMultipleSamples(b) ==
    /\ Configurable
    /\ multipleSamples' = b
    /\ UNCHANGED <<alternateSign, outputSet, size, seed>>

-----------------------------------------------------------------------------
(* start *)

\* std::vector::resize: cut, or filled up with zeros.
Resize(v, n) == [i \in 1..n |-> IF i <= Len(v) THEN v[i] ELSE 0]

\* Mutant: one cell too many is cleared.
StartClearsOneMore ==
    /\ phase = "idle" /\ outputSet /\ size # 0
    /\ output' = [c \in Cells |-> IF c <= size THEN 0 ELSE output[c]]
    /\ sz' = 0
    /\ values' = Resize(values, 1)
    /\ indptr' = Append(indptr, 0)
    /\ phase' = "started"
    /\ fresh' = clean /\ clean' = FALSE
    /\ UNCHANGED <<config, indices, samples, sample>>

Start ==
    /\ phase = "idle" /\ outputSet /\ size # 0
    /\ output' = [c \in Cells |-> IF c < size THEN 0 ELSE output[c]]
    /\ sz' = 0
    /\ values' = Resize(values, 1)
    /\ indptr' = Append(indptr, 0)
    /\ phase' = "started"
    /\ fresh' = clean /\ clean' = FALSE
    /\ UNCHANGED <<config, indices, samples, sample>>

StartFatal ==
    /\ phase = "idle" /\ (~outputSet \/ size = 0)
    /\ phase' = "exited"
    /\ UNCHANGED <<config, csr, output, history>>

-----------------------------------------------------------------------------
(* reduce *)

Magnitude(h) == IF h < 0 THEN -h ELSE h

\* Mutant: the special case for INT32_MIN is not reduced.
BucketUnreduced(h) ==
    IF h = MinInt THEN -(MinInt + 1) - (size - 1) ELSE Magnitude(h) % size

\* Mutant: the special case for INT32_MIN uses the next smaller magnitude.
BucketOffByOne(h) ==
    IF h = MinInt THEN -(MinInt + 1) % size ELSE Magnitude(h) % size

\* abs(INT32_MIN) is undefined, so that value is reduced without abs.
Bucket(h) ==
    IF h = MinInt THEN (-(MinInt + 1) - (size - 1)) % size ELSE Magnitude(h) % size

Signed(h, w) == IF alternateSign /\ h < 0 THEN -w ELSE w

\* Mutant: the vector is enlarged one element too late.
RoomLate(v) == IF sz > Len(v) THEN Resize(v, 2 * Len(v)) ELSE v

Room(v) == IF sz = Len(v) THEN Resize(v, 2 * Len(v)) ELSE v

Reduce(s, w) ==
    /\ phase = "started"
    /\ LET h == Hash[<<seed, s>>] IN
         IF w = 0 THEN UNCHANGED csr
         ELSE /\ indices' = Append(indices, Bucket(h))
              /\ values' = [Room(values) EXCEPT ![sz + 1] = Signed(h, w)]
              /\ sz' = sz + 1
              /\ UNCHANGED indptr
    /\ sample' = Append(sample, <<s, w>>)
    /\ UNCHANGED <<config, output, phase, samples, clean, fresh>>

-----------------------------------------------------------------------------
(* finalizeSample, finalize *)

FinalizeSample ==
    /\ phase = "started" /\ multipleSamples
    /\ indptr' = Append(indptr, sz)
    /\ samples' = Append(samples, sample) /\ sample' = <<>>
    /\ UNCHANGED <<config, indices, values, sz, output, phase, clean, fresh>>

\* Cell c of the dense matrix: sum_duplicates_and_sort_csr, then csr_to_dense.
Dense(ptr, ind, val, c) ==
    SumFunctionOnSet(val, { k \in (ptr[c \div size + 1] + 1)..ptr[c \div size + 2] :
                                ind[k] = c % size })

\* The row pointers, the only sample closed if there is to be just one.
Rows == IF multipleSamples THEN indptr ELSE Append(indptr, sz)

Finalize ==
    /\ phase = "started"
    /\ LET n == Len(Rows) - 1
           val == Resize(values, sz)
       IN  IF n <= 0
           THEN /\ indptr' = Rows /\ values' = val
                /\ UNCHANGED <<indices, output, clean>>
           ELSE /\ output' = [c \in Cells |->
                                 IF c < n * size THEN Dense(Rows, indices, val, c) ELSE output[c]]
                /\ indptr' = <<>> /\ indices' = <<>> /\ values' = <<>>
                /\ clean' = TRUE
    /\ samples' = IF multipleSamples THEN samples ELSE Append(samples, sample)
    /\ sample' = <<>>
    /\ phase' = "final"
    /\ UNCHANGED <<config, sz, fresh>>

Exited == phase = "exited" /\ UNCHANGED vars

\* Bounds of the instance: items and rows of one use.
MayReduce == Len(sample) + MapThenSumSet(LAMBDA r : Len(samples[r]), DOMAIN samples) < MaxItems
MayCloseSample == Len(indptr) <= MaxSamples
MayStart == Len(indptr) <= 1

Next ==
    \/ Reset
    \/ SetOutput
    \/ \E n \in 0..MaxSize : SetSize(n)
    \/ \E b \in BOOLEAN : SetAlternateSign(b) \/ SetMultipleSamples(b)
    \/ \E s \in Seeds : SetSeed(s)
    \/ MayStart /\ Start
    \/ StartFatal
    \/ \E s \in Strings, w \in Weights : MayReduce /\ Reduce(s, w)
    \/ MayCloseSample /\ FinalizeSample
    \/ Finalize
    \/ Exited

Spec == Init /\ [][Next]_vars

-----------------------------------------------------------------------------
(* Properties *)

TypeOK ==
    /\ alternateSign \in BOOLEAN /\ outputSet \in BOOLEAN
    /\ size \in 0..MaxSize /\ seed \in Seeds /\ multipleSamples \in BOOLEAN
    /\ indptr \in Seq(Nat) /\ indices \in Seq(0..(MaxSize - 1)) /\ values \in Seq(Int)
    /\ sz \in Nat
    /\ output \in [Cells -> Int]
    /\ phase \in {"idle", "started", "final", "exited"}

\* The write values[sz++] stays inside the vector: in use there is always room
\* for one more, or doubling makes room.
ValuesHaveRoom ==
    phase = "started" => 0 < Len(values) /\ sz <= Len(values)

\* The weighted sum of the strings of row r that belong to bucket b: the hash
\* trick over unbounded integers, where INT32_MIN has a magnitude like any other.
Expected(items, b) ==
    LET weight == [ i \in 1..Len(items) |->
                      LET h == Hash[<<seed, items[i][1]>>]
                      IN  IF alternateSign /\ h < 0 THEN -items[i][2] ELSE items[i][2] ]
    IN  SumFunctionOnSet(weight,
            { i \in 1..Len(items) : Magnitude(Hash[<<seed, items[i][1]>>]) % size = b })

\* After finalize each row of the output is the hash of its own sample: nothing
\* of another sample, of an earlier use of the object or of what the output held
\* before, for every growth of the vectors, with reset before the use or without.
OutputIsTheHash ==
    phase = "final" /\ fresh =>
        \A r \in 1..Len(samples), b \in 0..(size - 1) :
            output[(r - 1) * size + b] = Expected(samples[r], b)

\* The output changes only in start, in its first row, and in finalize, in the
\* rows of the samples.
WritesOnlyItsRows ==
    [][ phase' \in {"started", "final"} /\ fresh' =>
        \A c \in Cells : output'[c] # output[c] =>
            \/ phase' = "started" /\ c < size
            \/ phase' = "final" /\ c < Len(samples') * size ]_vars
=============================================================================
