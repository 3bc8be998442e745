---------------------------- MODULE VectorProofs -----------------------------
(***************************************************************************)
(* Proofs about what goes into the feature vector: FeatureHasher, whose    *)
(* dense rows are pieces of it, and VectorLayout, the walk that writes the *)
(* regions.                                                                *)
(*                                                                         *)
(* The hasher: the inductive invariant Inv ties the compressed rows to the *)
(* samples of the use: what lies in indices and values between two row     *)
(* pointers sums up, bucket by bucket, to the hash of the sample closed    *)
(* there.  That the dense output is the hash then holds for every number   *)
(* of buckets, samples and strings, every seed, every hash function and    *)
(* every width of the integer.                                             *)
(*                                                                         *)
(* The layout: each list of writes of a feature type fills its region and  *)
(* assigns no cell twice (Fills), whatever the file has.  LayoutInv        *)
(* follows the walk: the regions that are filled, those not begun, and the *)
(* one the rest of the list will fill.                                     *)
(*                                                                         *)
(* FoldTheorems has what is needed of sums and of lists of lists.          *)
(***************************************************************************)
EXTENDS FeatureHasher, VectorLayout, FoldTheorems

-----------------------------------------------------------------------------
(* The hash of a sample, with the configuration as parameters *)

\* What one string adds to its bucket.
Weight(sd, alt, item) ==
    IF alt /\ Hash[<<sd, item[1]>>] < 0 THEN -item[2] ELSE item[2]

Weighted(sd, alt, items) == [ i \in 1..Len(items) |-> Weight(sd, alt, items[i]) ]

\* The bucket of a string among n, without the special case.
Home(sd, n, item) == Magnitude(Hash[<<sd, item[1]>>]) % n

AtHome(sd, n, items, b) == { i \in 1..Len(items) : Home(sd, n, items[i]) = b }

HashSum(sd, alt, n, items, b) == Total(Weighted(sd, alt, items), AtHome(sd, n, items, b))

\* The entries of the compressed rows after position lo, up to hi, of bucket b.
Entries(ind, lo, hi, b) == { k \in (lo + 1)..hi : ind[k] = b }

-----------------------------------------------------------------------------
(* Rows, cells and buckets *)

\* A number is divided in one way.
LEMMA Quotient ==
    ASSUME NEW n \in Nat, n > 0, NEW q \in Int, NEW b \in 0..(n - 1)
    PROVE  (q * n + b) \div n = q /\ (q * n + b) % n = b
OBVIOUS

\* A cell of m rows of n buckets lies in one of the rows.
LEMMA CellRow ==
    ASSUME NEW n \in Nat, n > 0, NEW m \in Nat, NEW c \in 0..(m * n - 1)
    PROVE  c \div n \in 0..(m - 1) /\ c % n \in 0..(n - 1)
OBVIOUS

\* The buckets of the rows are cells.
LEMMA CellInside ==
    ASSUME NEW n \in Nat, NEW m \in Nat, NEW q \in 0..(m - 1), NEW b \in 0..(n - 1)
    PROVE  q * n + b \in 0..(m * n - 1)
OBVIOUS

\* Taking the divisor off leaves the remainder.
LEMMA OneLess ==
    ASSUME NEW n \in Nat, n > 0, NEW a \in Int
    PROVE  (a - n) % n = a % n
<1> DEFINE q == a \div n
           b == a % n
<1>1. q \in Int /\ b \in 0..(n - 1) /\ a = q * n + b
  OBVIOUS
<1> HIDE DEF q, b
<1>2. a - n = (q - 1) * n + b
  BY <1>1
<1>3. (a - n) % n = b
  BY <1>1, <1>2, Quotient
<1> QED
  BY <1>3 DEF b

\* The special case of reduce for INT32_MIN, where abs is undefined, finds the
\* bucket that its magnitude has over unbounded integers, in
\* featurehasher.cpp:92-98.
LEMMA BucketIsHome ==
    ASSUME size \in 1..MaxSize, NEW h \in MinInt..-(MinInt + 1)
    PROVE  Bucket(h) = Magnitude(h) % size /\ Bucket(h) \in 0..(size - 1)
<1>1. h \in Int /\ MinInt \in Int /\ size \in Nat /\ size > 0
  BY ConstantsAssumption
<1>2. Magnitude(h) \in Int
  BY <1>1 DEF Magnitude
<1>3. CASE h = MinInt
  <2>1. Magnitude(h) = -MinInt
    BY <1>3, ConstantsAssumption DEF Magnitude
  <2>2. -(MinInt + 1) - (size - 1) = (-MinInt) - size
    BY <1>1
  <2>3. ((-MinInt) - size) % size = (-MinInt) % size
    BY <1>1, OneLess
  <2> QED
    BY <1>1, <1>3, <2>1, <2>2, <2>3 DEF Bucket
<1>4. CASE h # MinInt
  BY <1>1, <1>2, <1>4 DEF Bucket
<1> QED
  BY <1>3, <1>4

-----------------------------------------------------------------------------
(* One string more *)

\* What one string adds is an integer.
LEMMA WeightInt ==
    ASSUME NEW sd \in Seeds, NEW alt \in BOOLEAN, NEW s \in Strings, NEW w \in Weights
    PROVE  /\ Hash[<<sd, s>>] \in MinInt..-(MinInt + 1)
           /\ Weight(sd, alt, <<s, w>>) \in Int
           /\ w = 0 => Weight(sd, alt, <<s, w>>) = 0
<1>1. Hash[<<sd, s>>] \in MinInt..-(MinInt + 1) /\ w \in Int
  BY ConstantsAssumption
<1>2. <<s, w>>[2] = w
  OBVIOUS
<1>3. (-w) \in Int /\ (w = 0 => -w = 0)
  BY <1>1
<1> QED
  BY <1>1, <1>2, <1>3 DEF Weight

\* The hash of a sample with one string more: its weight is added in its bucket.
LEMMA HashSumAppend ==
    ASSUME NEW sd \in Seeds, NEW alt \in BOOLEAN, NEW n \in Nat, NEW b \in Nat,
           NEW items \in Seq(Strings \X Weights), NEW s \in Strings, NEW w \in Weights
    PROVE  HashSum(sd, alt, n, Append(items, <<s, w>>), b)
               = IF Home(sd, n, <<s, w>>) = b
                 THEN HashSum(sd, alt, n, items, b) + Weight(sd, alt, <<s, w>>)
                 ELSE HashSum(sd, alt, n, items, b)
<1> DEFINE more == Append(items, <<s, w>>)
           l == Len(items)
           f == Weighted(sd, alt, items)
           g == Weighted(sd, alt, more)
           S == AtHome(sd, n, items, b)
<1>1. l \in Nat /\ Len(more) = l + 1 /\ more[l + 1] = <<s, w>>
      /\ \A i \in 1..l : more[i] = items[i]
  OBVIOUS
<1>2. \A i \in 1..l : g[i] = f[i]
  BY <1>1 DEF Weighted
<1>3. g[l + 1] = Weight(sd, alt, <<s, w>>)
  BY <1>1 DEF Weighted
<1>4. \A i \in 1..l : f[i] \in Int
  <2> SUFFICES ASSUME NEW i \in 1..l PROVE f[i] \in Int
    OBVIOUS
  <2>1. PICK t \in Strings, v \in Weights : items[i] = <<t, v>>
    OBVIOUS
  <2>2. f[i] = Weight(sd, alt, <<t, v>>)
    BY <2>1 DEF Weighted
  <2> QED
    BY <2>2, WeightInt
<1>5. IsFiniteSet(S) /\ S \subseteq 1..l
  <2>1. S \subseteq 1..l
    BY DEF AtHome
  <2>2. IsFiniteSet(1..l)
    BY <1>1, FS_Interval
  <2> QED
    BY <2>1, <2>2, FS_Subset
<1>6. AtHome(sd, n, more, b) = IF Home(sd, n, <<s, w>>) = b THEN S \cup {l + 1} ELSE S
  <2>1. S = { i \in 1..l : Home(sd, n, items[i]) = b }
    BY DEF AtHome
  <2>2. AtHome(sd, n, more, b) = { i \in 1..(l + 1) : Home(sd, n, more[i]) = b }
    BY <1>1 DEF AtHome
  <2>3. \A i \in 1..l : Home(sd, n, more[i]) = Home(sd, n, items[i])
    BY <1>1
  <2>4. Home(sd, n, more[l + 1]) = Home(sd, n, <<s, w>>)
    BY <1>1
  <2>5. l \in Nat
    BY <1>1
  <2> HIDE DEF S, more, l
  <2>6. \A i : i \in 1..(l + 1) <=> i \in 1..l \/ i = l + 1
    BY <2>5
  <2>7. \A i : i \in AtHome(sd, n, more, b)
                   <=> i \in S \/ (i = l + 1 /\ Home(sd, n, more[i]) = b)
    BY <2>1, <2>2, <2>3, <2>6
  <2> QED
    BY <2>4, <2>7
<1>7. Total(g, S) = Total(f, S)
  BY <1>2, <1>5, TotalEqual
<1>8. Total(g, S \cup {l + 1}) = Total(g, S) + g[l + 1]
  <2>2. g[l + 1] \in Int
    BY <1>3, WeightInt
  <2> HIDE DEF f, g, S, l
  <2>1. l + 1 \notin S /\ \A i \in S : g[i] \in Int
    BY <1>1, <1>2, <1>4, <1>5
  <2> QED
    BY <1>5, <2>1, <2>2, TotalWith
<1> HIDE DEF f, g, S, l
<1> QED
  BY <1>3, <1>6, <1>7, <1>8 DEF HashSum, f, g, S

\* u goes on after the first n values, all integers, of v.
Prolongs(u, v, n) == \A k \in 1..n : u[k] = v[k] /\ v[k] \in Int

\* One entry more in the compressed rows: it is added in its bucket.
LEMMA EntriesAppend ==
    ASSUME NEW ind \in Seq(Nat), NEW hi \in Nat, Len(ind) = hi, NEW lo \in 0..hi,
           NEW top, top = hi + 1,
           NEW x \in Nat, NEW b \in Nat, NEW v, NEW u,
           Prolongs(u, v, hi), u[top] \in Int
    PROVE  Total(u, Entries(Append(ind, x), lo, top, b))
               = IF x = b THEN Total(v, Entries(ind, lo, hi, b)) + u[top]
                          ELSE Total(v, Entries(ind, lo, hi, b))
<1>0. \A k \in 1..hi : u[k] = v[k] /\ v[k] \in Int
  BY DEF Prolongs
<1> DEFINE S == Entries(ind, lo, hi, b)
<1>1. /\ Append(ind, x)[hi + 1] = x
      /\ \A k \in 1..hi : Append(ind, x)[k] = ind[k]
  OBVIOUS
<1>2. IsFiniteSet(S) /\ S \subseteq 1..hi
  <2>1. S \subseteq 1..hi
    BY DEF Entries
  <2>2. IsFiniteSet(1..hi)
    BY FS_Interval
  <2> QED
    BY <2>1, <2>2, FS_Subset
<1>3. Entries(Append(ind, x), lo, hi + 1, b) = IF x = b THEN S \cup {hi + 1} ELSE S
  BY <1>1 DEF Entries
<1>4. Total(u, S) = Total(v, S)
  BY <1>0, <1>2, TotalEqual
<1>5. Total(u, S \cup {hi + 1}) = Total(u, S) + u[hi + 1]
  <2>1. hi + 1 \notin S /\ \A k \in S : u[k] \in Int
    BY <1>0, <1>2
  <2> QED
    BY <1>2, <2>1, TotalWith
<1> HIDE DEF S
<1> QED
  BY <1>3, <1>4, <1>5 DEF S

\* What is appended after a row leaves the row's sums alone.
LEMMA EntriesBefore ==
    ASSUME NEW ind \in Seq(Nat), NEW top \in Nat, Len(ind) = top,
           NEW lo \in 0..top, NEW hi \in 0..top, NEW x \in Nat, NEW b, NEW v, NEW u,
           \A k \in 1..top : u[k] = v[k]
    PROVE  Total(u, Entries(Append(ind, x), lo, hi, b)) = Total(v, Entries(ind, lo, hi, b))
<1> DEFINE S == Entries(ind, lo, hi, b)
<1>1. \A k \in 1..top : Append(ind, x)[k] = ind[k]
  OBVIOUS
<1>2. IsFiniteSet(S) /\ S \subseteq 1..top
  <2>1. S \subseteq 1..top
    BY DEF Entries
  <2>2. IsFiniteSet(1..top)
    BY FS_Interval
  <2> QED
    BY <2>1, <2>2, FS_Subset
<1>3. Entries(Append(ind, x), lo, hi, b) = S
  BY <1>1 DEF Entries
<1>4. Total(u, S) = Total(v, S)
  BY <1>2, TotalEqual
<1> QED
  BY <1>3, <1>4

-----------------------------------------------------------------------------
(* The inductive invariant *)

Items == Strings \X Weights

HistoryTypes ==
    /\ samples \in Seq(Seq(Items)) /\ sample \in Seq(Items)
    /\ clean \in BOOLEAN /\ fresh \in BOOLEAN

\* In use the row pointers lie within what was collected.
PointersStayInside ==
    phase = "started" =>
        /\ size > 0 /\ indptr # <<>> /\ sz <= Len(indices)
        /\ \A i \in 1..Len(indptr) : indptr[i] <= sz

\* The first row begins at 0, and between two uses no row is left with entries.
RowsBeginAtZero ==
    /\ indptr # <<>> => indptr[1] = 0
    /\ phase # "started" => \A i \in 1..Len(indptr) : indptr[i] = 0

\* clean promises empty vectors.
CleanIsEmpty == clean => phase # "started" /\ indptr = <<>> /\ indices = <<>>

\* Before a use there is no sample.
IdleIsEmpty == phase = "idle" => samples = <<>> /\ sample = <<>>

\* In a use that began clean there is one pointer more than closed samples, and
\* indices and values go together.
OnePointerPerSample ==
    phase = "started" /\ fresh =>
        /\ Len(indptr) = Len(samples) + 1 /\ Len(indices) = sz
        /\ Len(samples) <= MaxSamples
        /\ ~multipleSamples => samples = <<>>

\* The entries of each closed row add up to the hash of its sample.
ClosedRowsAreHashes ==
    phase = "started" /\ fresh =>
        \A r \in 1..Len(samples), b \in 0..(size - 1) :
            Total(values, Entries(indices, indptr[r], indptr[r + 1], b))
                = HashSum(seed, alternateSign, size, samples[r], b)

\* The entries after the last row pointer add up to the hash of the open sample.
OpenRowIsHash ==
    phase = "started" /\ fresh =>
        \A b \in 0..(size - 1) :
            Total(values, Entries(indices, indptr[Len(indptr)], sz, b))
                = HashSum(seed, alternateSign, size, sample, b)

\* What OutputIsTheHash promises, and that no sample is missing of the output.
FinalRowsAreHashes ==
    phase = "final" /\ fresh =>
        /\ Len(samples) <= MaxSamples
        /\ \A r \in 1..Len(samples), b \in 0..(size - 1) :
               output[(r - 1) * size + b] = HashSum(seed, alternateSign, size, samples[r], b)

Inv ==
    /\ TypeOK /\ HistoryTypes /\ PointersStayInside /\ RowsBeginAtZero
    /\ CleanIsEmpty /\ IdleIsEmpty /\ ValuesHaveRoom
    /\ OnePointerPerSample /\ ClosedRowsAreHashes /\ OpenRowIsHash /\ FinalRowsAreHashes

-----------------------------------------------------------------------------
(* Inv holds of the first state and in every step that leaves no use open *)

\* What a resized vector holds.
LEMMA ResizeProperties ==
    ASSUME NEW v \in Seq(Int), NEW n \in Nat
    PROVE  /\ Resize(v, n) \in Seq(Int) /\ Len(Resize(v, n)) = n
           /\ \A i \in 1..n : i <= Len(v) => Resize(v, n)[i] = v[i]
<1>1. Resize(v, n) \in [1..n -> Int]
  BY DEF Resize
<1>2. Resize(v, n) \in Seq(Int) /\ Len(Resize(v, n)) = n
  <2> HIDE DEF Resize
  <2> QED
    BY <1>1
<1> QED
  BY <1>2 DEF Resize

\* The object is constructed with no use open.
LEMMA InitInv == Init => Inv
<1> SUFFICES ASSUME Init PROVE Inv
  OBVIOUS
<1> USE DEF Init
<1>1. output \in [Cells -> Int]
  BY ConstantsAssumption
<1>2. seed \in Seeds /\ size \in 0..MaxSize
  BY ConstantsAssumption
<1>3. TypeOK
  <2>1. indptr \in Seq(Nat) /\ indices \in Seq(0..(MaxSize - 1)) /\ values \in Seq(Int)
    OBVIOUS
  <2>2. alternateSign \in BOOLEAN /\ outputSet \in BOOLEAN /\ multipleSamples \in BOOLEAN
    OBVIOUS
  <2>3. sz \in Nat /\ phase \in {"idle", "started", "final", "exited"}
    BY DEF TypeOK
  <2> QED
    BY <1>1, <1>2, <2>1, <2>2, <2>3 DEF TypeOK
<1>4. HistoryTypes
  BY DEF HistoryTypes
<1> QED
  BY <1>3, <1>4 DEF Inv, PointersStayInside, RowsBeginAtZero, CleanIsEmpty, IdleIsEmpty,
     ValuesHaveRoom, OnePointerPerSample, ClosedRowsAreHashes, OpenRowIsHash, FinalRowsAreHashes

\* Outside a use Inv asks for types, zero row pointers and what clean promises.
LEMMA OutsideUse ==
    ASSUME phase' \in {"idle", "exited"}, TypeOK', HistoryTypes',
           RowsBeginAtZero', CleanIsEmpty', IdleIsEmpty'
    PROVE  Inv'
BY DEF Inv, PointersStayInside, ValuesHaveRoom, OnePointerPerSample,
       ClosedRowsAreHashes, OpenRowIsHash, FinalRowsAreHashes

\* reset clears the vectors and ends whatever use is open.
LEMMA ResetInv == ASSUME Inv, Reset PROVE Inv'
<1> USE DEF Inv, Reset, BetweenUses
<1>1. output' \in [Cells -> Int]
  BY ConstantsAssumption
<1>2. seed' \in Seeds /\ size' \in 0..MaxSize
  BY ConstantsAssumption
<1>3. TypeOK'
  <2>1. indptr' \in Seq(Nat) /\ indices' \in Seq(0..(MaxSize - 1)) /\ values' \in Seq(Int)
    OBVIOUS
  <2>2. alternateSign' \in BOOLEAN /\ outputSet' \in BOOLEAN /\ multipleSamples' \in BOOLEAN
    OBVIOUS
  <2>3. sz' \in Nat /\ phase' \in {"idle", "started", "final", "exited"}
    BY DEF TypeOK
  <2> QED
    BY <1>1, <1>2, <2>1, <2>2, <2>3 DEF TypeOK
<1>4. HistoryTypes'
  BY DEF HistoryTypes
<1>5. RowsBeginAtZero' /\ CleanIsEmpty' /\ IdleIsEmpty'
  BY DEF RowsBeginAtZero, CleanIsEmpty, IdleIsEmpty
<1> QED
  BY <1>3, <1>4, <1>5, OutsideUse

\* A setter leaves the vectors as they are between two uses.
LEMMA SetterInv ==
    ASSUME Inv, Configurable,
           alternateSign' \in BOOLEAN, outputSet' \in BOOLEAN, size' \in 0..MaxSize,
           seed' \in Seeds, multipleSamples' \in BOOLEAN
    PROVE  Inv'
<1> USE DEF Inv, Configurable, BetweenUses, csr
<1>1. output' \in [Cells -> Int]
  BY ConstantsAssumption
<1>2. TypeOK'
  BY <1>1 DEF TypeOK
<1>3. HistoryTypes'
  BY DEF HistoryTypes
<1>4. RowsBeginAtZero' /\ CleanIsEmpty' /\ IdleIsEmpty'
  BY DEF RowsBeginAtZero, CleanIsEmpty, IdleIsEmpty
<1> QED
  BY <1>2, <1>3, <1>4, OutsideUse

\* The setters and the configuration each leaves alone.
LEMMA SettersInv ==
    ASSUME Inv,
           \/ SetOutput \/ \E n \in 0..MaxSize : SetSize(n)
           \/ \E b \in BOOLEAN : SetAlternateSign(b) \/ SetMultipleSamples(b)
           \/ \E s \in Seeds : SetSeed(s)
    PROVE  Inv'
<1>1. /\ alternateSign \in BOOLEAN /\ outputSet \in BOOLEAN /\ size \in 0..MaxSize
      /\ seed \in Seeds /\ multipleSamples \in BOOLEAN
  BY DEF Inv, TypeOK
<1>2. CASE SetOutput
  BY <1>1, <1>2, SetterInv DEF SetOutput
<1>3. CASE \E n \in 0..MaxSize : SetSize(n)
  BY <1>1, <1>3, SetterInv DEF SetSize
<1>4. CASE \E b \in BOOLEAN : SetAlternateSign(b) \/ SetMultipleSamples(b)
  BY <1>1, <1>4, SetterInv DEF SetAlternateSign, SetMultipleSamples
<1>5. CASE \E s \in Seeds : SetSeed(s)
  BY <1>1, <1>5, SetterInv DEF SetSeed
<1> QED
  BY <1>2, <1>3, <1>4, <1>5

\* A start without output or size ends the program.
LEMMA StartFatalInv == ASSUME Inv, StartFatal PROVE Inv'
<1> USE DEF Inv, StartFatal, config, csr, history
<1>1. TypeOK'
  BY DEF TypeOK
<1>2. HistoryTypes'
  BY DEF HistoryTypes
<1>3. RowsBeginAtZero' /\ CleanIsEmpty' /\ IdleIsEmpty'
  BY DEF RowsBeginAtZero, CleanIsEmpty, IdleIsEmpty
<1> QED
  BY <1>1, <1>2, <1>3, OutsideUse

-----------------------------------------------------------------------------
(* Inv in the steps of a use *)

\* start: the open sample is empty, and so is the row it will become.
LEMMA StartInv == ASSUME Inv, Start PROVE Inv'
<1> USE DEF Start, config
<1>0. /\ TypeOK /\ HistoryTypes /\ RowsBeginAtZero /\ CleanIsEmpty /\ IdleIsEmpty
      /\ size \in 0..MaxSize /\ MaxSize \in Nat /\ phase = "idle"
  BY ConstantsAssumption DEF Inv, TypeOK
<1>1. values' \in Seq(Int) /\ Len(values') = 1
  BY <1>0, ResizeProperties DEF TypeOK
<1>2. /\ indptr' \in Seq(Nat) /\ Len(indptr') = Len(indptr) + 1
      /\ \A i \in 1..Len(indptr') : indptr'[i] = 0
  BY <1>0 DEF TypeOK, RowsBeginAtZero
<1>3. output' \in [Cells -> Int]
  BY <1>0 DEF TypeOK
<1>4. TypeOK'
  BY <1>0, <1>1, <1>2, <1>3 DEF TypeOK
<1>5. HistoryTypes'
  BY <1>0 DEF HistoryTypes
<1>6. PointersStayInside'
  BY <1>0, <1>2 DEF PointersStayInside, TypeOK
<1>7. RowsBeginAtZero' /\ CleanIsEmpty' /\ IdleIsEmpty' /\ FinalRowsAreHashes' /\ ValuesHaveRoom'
  <2>1. RowsBeginAtZero'
    BY <1>0, <1>2 DEF RowsBeginAtZero, TypeOK
  <2>2. CleanIsEmpty' /\ IdleIsEmpty' /\ FinalRowsAreHashes'
    BY DEF CleanIsEmpty, IdleIsEmpty, FinalRowsAreHashes
  <2>3. ValuesHaveRoom'
    BY <1>1 DEF ValuesHaveRoom
  <2> QED
    BY <2>1, <2>2, <2>3
<1>8. samples' = <<>> /\ sample' = <<>>
  BY <1>0 DEF IdleIsEmpty
<1>9. OnePointerPerSample'
  BY <1>0, <1>2, <1>8, ConstantsAssumption DEF OnePointerPerSample, CleanIsEmpty
<1>10. ClosedRowsAreHashes'
  BY <1>8 DEF ClosedRowsAreHashes
<1>11. OpenRowIsHash'
  <2> SUFFICES ASSUME NEW b \in 0..(size' - 1)
               PROVE  Total(values', Entries(indices', indptr'[Len(indptr')], sz', b))
                          = HashSum(seed', alternateSign', size', sample', b)
    BY DEF OpenRowIsHash
  <2>1. indptr'[Len(indptr')] = 0
    BY <1>2
  <2>2. Entries(indices', 0, 0, b) = {}
    BY DEF Entries
  <2>3. AtHome(seed', size', <<>>, b) = {}
    BY DEF AtHome
  <2>4. HashSum(seed', alternateSign', size', <<>>, b) = 0
    BY <2>3, TotalEmpty DEF HashSum
  <2> QED
    BY <1>8, <2>1, <2>2, <2>4, TotalEmpty
<1> QED
  BY <1>4, <1>5, <1>6, <1>7, <1>9, <1>10, <1>11 DEF Inv

\* Doubling makes room for one value more and keeps what was collected.
LEMMA RoomProperties ==
    ASSUME Inv, phase = "started"
    PROVE  /\ Room(values) \in Seq(Int) /\ sz + 1 <= Len(Room(values))
           /\ sz \in Nat /\ values \in Seq(Int)
           /\ \A k \in 1..sz : Room(values)[k] = values[k] /\ values[k] \in Int
<1>1. /\ values \in Seq(Int) /\ Len(values) \in Nat /\ sz \in Nat
      /\ 0 < Len(values) /\ sz <= Len(values)
  BY DEF Inv, TypeOK, ValuesHaveRoom
<1>2. \A k \in 1..sz : values[k] \in Int
  BY <1>1
<1>3. CASE sz = Len(values)
  <2>1. 2 * Len(values) \in Nat /\ sz + 1 <= 2 * Len(values)
    BY <1>1, <1>3
  <2> DEFINE v == Resize(values, 2 * Len(values))
  <2>2. v \in Seq(Int) /\ Len(v) = 2 * Len(values)
        /\ \A i \in 1..(2 * Len(values)) : i <= Len(values) => v[i] = values[i]
    BY <1>1, <2>1, ResizeProperties
  <2>3. Room(values) = v
    BY <1>3 DEF Room
  <2> HIDE DEF v
  <2> QED
    BY <1>1, <1>2, <1>3, <2>1, <2>2, <2>3
<1>4. CASE sz # Len(values)
  BY <1>1, <1>2, <1>4 DEF Room
<1> QED
  BY <1>3, <1>4

\* What reduce stores: the next entry, of the bucket and with the sign of the
\* string; the entries before it stay.
LEMMA Stored ==
    ASSUME Inv, NEW s \in Strings, NEW w \in Weights, Reduce(s, w), w # 0
    PROVE  /\ indices' = Append(indices, Home(seed, size, <<s, w>>))
           /\ Home(seed, size, <<s, w>>) \in 0..(size - 1)
           /\ values' \in Seq(Int) /\ sz + 1 <= Len(values')
           /\ \A k \in 1..sz : values'[k] = values[k] /\ values[k] \in Int
           /\ values'[sz + 1] = Weight(seed, alternateSign, <<s, w>>)
           /\ values'[sz + 1] \in Int
           /\ sz' = sz + 1 /\ indptr' = indptr
<1> DEFINE h == Hash[<<seed, s>>]
<1>1. phase = "started" /\ seed \in Seeds /\ alternateSign \in BOOLEAN /\ size \in 1..MaxSize
  <2>1. size \in 0..MaxSize /\ MaxSize \in Nat /\ phase = "started" /\ size > 0
    BY ConstantsAssumption DEF Inv, TypeOK, Reduce, PointersStayInside
  <2>2. seed \in Seeds /\ alternateSign \in BOOLEAN
    BY DEF Inv, TypeOK
  <2> QED
    BY <2>1, <2>2
<1>2. /\ indices' = Append(indices, Bucket(h))
      /\ values' = [Room(values) EXCEPT ![sz + 1] = Signed(h, w)]
      /\ sz' = sz + 1 /\ indptr' = indptr
  BY DEF Reduce
<1>3. h \in MinInt..-(MinInt + 1) /\ Weight(seed, alternateSign, <<s, w>>) \in Int
  BY <1>1, WeightInt
<1>4. Signed(h, w) = Weight(seed, alternateSign, <<s, w>>)
  BY DEF Signed, Weight
<1>5. Bucket(h) = Home(seed, size, <<s, w>>) /\ Bucket(h) \in 0..(size - 1)
  BY <1>1, <1>3, BucketIsHome DEF Home
<1>6. /\ Room(values) \in Seq(Int) /\ sz + 1 <= Len(Room(values))
      /\ sz \in Nat
      /\ \A k \in 1..sz : Room(values)[k] = values[k] /\ values[k] \in Int
  BY <1>1, RoomProperties
<1> DEFINE v == Room(values)
<1> HIDE DEF h, v
<1>7. /\ values' \in Seq(Int) /\ Len(values') = Len(v)
      /\ values'[sz + 1] = Signed(h, w)
      /\ \A k \in 1..sz : values'[k] = v[k]
  <2>1. v \in Seq(Int) /\ sz + 1 \in 1..Len(v) /\ Signed(h, w) \in Int
    BY <1>3, <1>4, <1>6 DEF v
  <2>2. values' = [v EXCEPT ![sz + 1] = Signed(h, w)]
    BY <1>2 DEF v
  <2>3. \A k \in 1..sz : k \in 1..Len(v) /\ k # sz + 1
    BY <1>6, <2>1
  <2> QED
    BY <2>1, <2>2, <2>3, ExceptSeq
<1> QED
  BY <1>2, <1>3, <1>4, <1>5, <1>6, <1>7 DEF v

\* The hash of a sample is an integer, and so is the sum of a row.
LEMMA HashSumInt ==
    ASSUME NEW sd \in Seeds, NEW alt \in BOOLEAN, NEW n, NEW b,
           NEW items \in Seq(Strings \X Weights)
    PROVE  HashSum(sd, alt, n, items, b) \in Int
<1> DEFINE f == Weighted(sd, alt, items)
           S == AtHome(sd, n, items, b)
<1>1. IsFiniteSet(S) /\ S \subseteq 1..Len(items)
  <2>1. S \subseteq 1..Len(items)
    BY DEF AtHome
  <2>2. IsFiniteSet(1..Len(items))
    BY FS_Interval
  <2> QED
    BY <2>1, <2>2, FS_Subset
<1>2. \A i \in 1..Len(items) : f[i] \in Int
  <2> SUFFICES ASSUME NEW i \in 1..Len(items) PROVE f[i] \in Int
    OBVIOUS
  <2>1. PICK t \in Strings, v \in Weights : items[i] = <<t, v>>
    OBVIOUS
  <2>2. f[i] = Weight(sd, alt, <<t, v>>)
    BY <2>1 DEF Weighted
  <2> QED
    BY <2>2, WeightInt
<1> HIDE DEF f, S
<1>3. Total(f, S) \in Int
  BY <1>1, <1>2, TotalInt
<1> QED
  BY <1>3 DEF HashSum, f, S

\* reduce leaves types, row pointers and promises as they are.
LEMMA ReduceKeeps ==
    ASSUME Inv, NEW s \in Strings, NEW w \in Weights, Reduce(s, w)
    PROVE  /\ TypeOK' /\ HistoryTypes' /\ PointersStayInside' /\ RowsBeginAtZero'
           /\ CleanIsEmpty' /\ IdleIsEmpty' /\ ValuesHaveRoom' /\ OnePointerPerSample'
           /\ FinalRowsAreHashes'
<1>1. /\ phase = "started" /\ phase' = "started" /\ UNCHANGED <<config, output, samples, clean, fresh>>
      /\ sample' = Append(sample, <<s, w>>)
  BY DEF Reduce
<1>2. /\ TypeOK /\ HistoryTypes /\ PointersStayInside /\ RowsBeginAtZero
      /\ CleanIsEmpty /\ IdleIsEmpty /\ ValuesHaveRoom /\ OnePointerPerSample
  BY DEF Inv
<1>3. HistoryTypes'
  BY <1>1, <1>2 DEF HistoryTypes, Items
<1>4. indptr' = indptr
  BY DEF Reduce, csr
<1>5. CleanIsEmpty' /\ IdleIsEmpty' /\ FinalRowsAreHashes' /\ RowsBeginAtZero'
  BY <1>1, <1>2, <1>4 DEF CleanIsEmpty, IdleIsEmpty, FinalRowsAreHashes, RowsBeginAtZero
<1>6. /\ indices' \in Seq(0..(MaxSize - 1)) /\ values' \in Seq(Int) /\ sz' \in Nat
      /\ sz <= sz' /\ sz' <= Len(indices') /\ sz' <= Len(values') /\ 0 < Len(values')
      /\ Len(indices') - sz' = Len(indices) - sz
  <2>1. /\ indices \in Seq(0..(MaxSize - 1)) /\ values \in Seq(Int) /\ sz \in Nat
        /\ sz <= Len(indices) /\ sz <= Len(values) /\ 0 < Len(values)
    BY <1>1, <1>2 DEF TypeOK, PointersStayInside, ValuesHaveRoom
  <2>2. CASE w = 0
    BY <2>1, <2>2 DEF Reduce, csr
  <2>3. CASE w # 0
    <3>1. /\ indices' = Append(indices, Home(seed, size, <<s, w>>))
          /\ Home(seed, size, <<s, w>>) \in 0..(size - 1)
          /\ values' \in Seq(Int) /\ sz + 1 <= Len(values') /\ sz' = sz + 1
      BY <2>3, Stored
    <3>2. Home(seed, size, <<s, w>>) \in 0..(MaxSize - 1)
      BY <1>2, <3>1, ConstantsAssumption DEF TypeOK
    <3> QED
      BY <2>1, <3>1, <3>2
  <2> QED
    BY <2>2, <2>3
<1>7. TypeOK'
  BY <1>1, <1>2, <1>4, <1>6 DEF TypeOK, config
<1>8. PointersStayInside' /\ ValuesHaveRoom'
  <2>1. /\ size' = size /\ size > 0 /\ indptr # <<>> /\ sz \in Nat /\ indptr \in Seq(Nat)
        /\ \A i \in 1..Len(indptr) : indptr[i] <= sz
    BY <1>1, <1>2 DEF TypeOK, PointersStayInside, config
  <2>2. \A i \in 1..Len(indptr) : indptr[i] <= sz'
    BY <1>6, <2>1
  <2>3. PointersStayInside'
    BY <1>4, <1>6, <2>1, <2>2 DEF PointersStayInside
  <2> QED
    BY <1>6, <2>3 DEF ValuesHaveRoom
<1>9. OnePointerPerSample'
  BY <1>1, <1>2, <1>4, <1>6 DEF TypeOK, OnePointerPerSample, config
<1> QED
  BY <1>3, <1>5, <1>7, <1>8, <1>9

\* The rows of closed samples keep their sums.
LEMMA ReduceClosed ==
    ASSUME Inv, NEW s \in Strings, NEW w \in Weights, Reduce(s, w)
    PROVE  ClosedRowsAreHashes'
<1>1. /\ phase = "started" /\ phase' = "started" /\ UNCHANGED <<config, samples, fresh>>
      /\ indptr' = indptr
  BY DEF Reduce, csr
<1> SUFFICES ASSUME fresh, NEW r \in 1..Len(samples), NEW b \in 0..(size - 1)
             PROVE  Total(values', Entries(indices', indptr[r], indptr[r + 1], b))
                        = HashSum(seed, alternateSign, size, samples[r], b)
  BY <1>1 DEF ClosedRowsAreHashes, config
<1>2. Total(values, Entries(indices, indptr[r], indptr[r + 1], b))
          = HashSum(seed, alternateSign, size, samples[r], b)
  BY <1>1 DEF Inv, ClosedRowsAreHashes
<1>3. CASE w = 0
  BY <1>2, <1>3 DEF Reduce, csr
<1>4. CASE w # 0
  <2>1. /\ indices' = Append(indices, Home(seed, size, <<s, w>>))
        /\ Home(seed, size, <<s, w>>) \in 0..(size - 1)
        /\ \A k \in 1..sz : values'[k] = values[k]
    BY <1>4, Stored
  <2>2. /\ indptr[r] \in 0..sz /\ indptr[r + 1] \in 0..sz
        /\ sz \in Nat /\ Len(indices) = sz
    <3>1. r \in 1..Len(indptr) /\ r + 1 \in 1..Len(indptr) /\ Len(indices) = sz
      BY <1>1 DEF Inv, OnePointerPerSample, HistoryTypes
    <3>2. indptr \in Seq(Nat) /\ sz \in Nat /\ \A i \in 1..Len(indptr) : indptr[i] <= sz
      BY <1>1 DEF Inv, TypeOK, PointersStayInside
    <3>3. \A i \in 1..Len(indptr) : indptr[i] \in Nat
      BY <3>2
    <3> QED
      BY <3>1, <3>2, <3>3
  <2>3. indices \in Seq(Nat) /\ Home(seed, size, <<s, w>>) \in Nat
    <3>1. indices \in Seq(0..(MaxSize - 1)) /\ size \in Nat
      BY ConstantsAssumption DEF Inv, TypeOK
    <3>2. 0..(MaxSize - 1) \subseteq Nat
      OBVIOUS
    <3>3. indices \in Seq(Nat)
      BY <3>1, <3>2, SeqMonotonic
    <3> QED
      BY <2>1, <3>1, <3>3
  <2>4. Total(values', Entries(Append(indices, Home(seed, size, <<s, w>>)), indptr[r], indptr[r + 1], b))
            = Total(values, Entries(indices, indptr[r], indptr[r + 1], b))
    BY <2>1, <2>2, <2>3, EntriesBefore
  <2> QED
    BY <1>2, <2>1, <2>4
<1> QED
  BY <1>3, <1>4

\* The row of the open sample gains what its hash gains.
LEMMA ReduceOpen ==
    ASSUME Inv, NEW s \in Strings, NEW w \in Weights, Reduce(s, w)
    PROVE  OpenRowIsHash'
<1> DEFINE item == <<s, w>>
           lo == indptr[Len(indptr)]
<1>1. /\ phase = "started" /\ phase' = "started" /\ UNCHANGED <<config, fresh>>
      /\ indptr' = indptr /\ sample' = Append(sample, item)
  BY DEF Reduce, csr
<1> SUFFICES ASSUME fresh, NEW b \in 0..(size - 1)
             PROVE  Total(values', Entries(indices', lo, sz', b))
                        = HashSum(seed, alternateSign, size, Append(sample, item), b)
  BY <1>1 DEF OpenRowIsHash, config
<1>2. Total(values, Entries(indices, lo, sz, b))
          = HashSum(seed, alternateSign, size, sample, b)
  BY <1>1 DEF Inv, OpenRowIsHash
<1>3. /\ seed \in Seeds /\ alternateSign \in BOOLEAN /\ size \in Nat /\ b \in Nat
      /\ sample \in Seq(Strings \X Weights)
  <2>1. seed \in Seeds /\ alternateSign \in BOOLEAN
    BY DEF Inv, TypeOK
  <2>2. size \in Nat /\ b \in Nat
    BY ConstantsAssumption DEF Inv, TypeOK
  <2> QED
    BY <2>1, <2>2 DEF Inv, HistoryTypes, Items
<1>4. HashSum(seed, alternateSign, size, sample, b) \in Int
  BY <1>3, HashSumInt
<1>5. HashSum(seed, alternateSign, size, Append(sample, item), b)
          = IF Home(seed, size, item) = b
            THEN HashSum(seed, alternateSign, size, sample, b) + Weight(seed, alternateSign, item)
            ELSE HashSum(seed, alternateSign, size, sample, b)
  BY <1>3, HashSumAppend
<1> DEFINE sum == HashSum(seed, alternateSign, size, sample, b)
           more == HashSum(seed, alternateSign, size, Append(sample, item), b)
           add == Weight(seed, alternateSign, item)
<1>6. CASE w = 0
  <2>1. add = 0
    BY <1>3, <1>6, WeightInt
  <2>2. more = sum
    <3> HIDE DEF sum, more, add
    <3>1. sum + 0 = sum
      BY <1>4 DEF sum
    <3> QED
      BY <1>5, <2>1, <3>1 DEF sum, more, add
  <2>3. indices' = indices /\ values' = values /\ sz' = sz
    BY <1>6 DEF Reduce, csr
  <2> QED
    BY <1>2, <2>2, <2>3
<1>7. CASE w # 0
  <2>1. /\ indices' = Append(indices, Home(seed, size, item))
        /\ Home(seed, size, item) \in 0..(size - 1)
        /\ \A k \in 1..sz : values'[k] = values[k] /\ values[k] \in Int
        /\ values'[sz + 1] = add /\ values'[sz + 1] \in Int /\ sz' = sz + 1
    BY <1>7, Stored
  <2>2. lo \in 0..sz /\ sz \in Nat /\ Len(indices) = sz
    <3>1. Len(indptr) \in 1..Len(indptr) /\ Len(indices) = sz
      BY <1>1 DEF Inv, OnePointerPerSample, HistoryTypes
    <3>2. indptr \in Seq(Nat) /\ sz \in Nat /\ \A i \in 1..Len(indptr) : indptr[i] <= sz
      BY <1>1 DEF Inv, TypeOK, PointersStayInside
    <3>3. \A i \in 1..Len(indptr) : indptr[i] \in Nat
      BY <3>2
    <3> QED
      BY <3>1, <3>2, <3>3
  <2>3. indices \in Seq(Nat) /\ Home(seed, size, item) \in Nat
    <3>1. indices \in Seq(0..(MaxSize - 1))
      BY DEF Inv, TypeOK
    <3>2. 0..(MaxSize - 1) \subseteq Nat
      OBVIOUS
    <3>3. indices \in Seq(Nat)
      BY <3>1, <3>2, SeqMonotonic
    <3> QED
      BY <1>3, <2>1, <3>3
  <2> DEFINE x == Home(seed, size, item)
             u == values'
  <2> HIDE DEF item, lo, add, x, u
  <2>4. x \in Nat /\ u[sz + 1] \in Int /\ \A k \in 1..sz : u[k] = values[k] /\ values[k] \in Int
    BY <2>1, <2>3 DEF x, u
  <2>5. Total(u, Entries(Append(indices, x), lo, sz + 1, b))
            = IF x = b
              THEN Total(values, Entries(indices, lo, sz, b)) + u[sz + 1]
              ELSE Total(values, Entries(indices, lo, sz, b))
    <3> DEFINE top == sz + 1
    <3> HIDE DEF top
    <3>1. top = sz + 1 /\ u[top] \in Int
      BY <2>4 DEF top
    <3>2. x \in Nat /\ \A k \in 1..sz : u[k] = values[k] /\ values[k] \in Int
      BY <2>4
    <3>3. indices \in Seq(Nat)
      BY <2>3
    <3>4. Total(u, Entries(Append(indices, x), lo, top, b))
            = IF x = b
              THEN Total(values, Entries(indices, lo, sz, b)) + u[top]
              ELSE Total(values, Entries(indices, lo, sz, b))
      <4>1. indices \in Seq(Nat) /\ sz \in Nat /\ Len(indices) = sz /\ lo \in 0..sz
        BY <2>2, <3>3
      <4>2. top = sz + 1 /\ x \in Nat /\ b \in Nat /\ u[top] \in Int
        BY <1>3, <3>1, <3>2
      <4>3. Prolongs(u, values, sz)
        BY <3>2 DEF Prolongs
      <4> QED
        BY <4>1, <4>2, <4>3, EntriesAppend
    <3> QED
      BY <3>1, <3>4
  <2> QED
    BY <1>2, <1>5, <2>1, <2>5 DEF add, x, u
<1> QED
  BY <1>6, <1>7

\* reduce adds the weight of one string to the hash of the open sample.
LEMMA ReduceInv ==
    ASSUME Inv, NEW s \in Strings, NEW w \in Weights, Reduce(s, w)
    PROVE  Inv'
BY ReduceKeeps, ReduceClosed, ReduceOpen DEF Inv

\* The rows as finalizeSample would leave them hold the hashes of the closed
\* samples and of the one it closes.
LEMMA RowsWithOpenOne ==
    ASSUME Inv, phase = "started", fresh
    PROVE  LET ptr == Append(indptr, sz)
               all == Append(samples, sample)
           IN  \A r \in 1..Len(all), b \in 0..(size - 1) :
                   Total(values, Entries(indices, ptr[r], ptr[r + 1], b))
                       = HashSum(seed, alternateSign, size, all[r], b)
<1> DEFINE ptr == Append(indptr, sz)
           all == Append(samples, sample)
<1> SUFFICES ASSUME NEW r \in 1..Len(all), NEW b \in 0..(size - 1)
             PROVE  Total(values, Entries(indices, ptr[r], ptr[r + 1], b))
                        = HashSum(seed, alternateSign, size, all[r], b)
  OBVIOUS
<1>1. /\ Len(indptr) = Len(samples) + 1 /\ indptr \in Seq(Nat) /\ sz \in Nat
      /\ samples \in Seq(Seq(Items)) /\ sample \in Seq(Items)
  BY DEF Inv, OnePointerPerSample, TypeOK, HistoryTypes
<1>2. CASE r <= Len(samples)
  <2>1. ptr[r] = indptr[r] /\ ptr[r + 1] = indptr[r + 1] /\ all[r] = samples[r]
        /\ r \in 1..Len(samples)
    BY <1>1, <1>2
  <2> QED
    BY <2>1 DEF Inv, ClosedRowsAreHashes
<1>3. CASE ~(r <= Len(samples))
  <2>1. r = Len(indptr) /\ ptr[r] = indptr[Len(indptr)] /\ ptr[r + 1] = sz /\ all[r] = sample
    BY <1>1, <1>3
  <2> QED
    BY <2>1 DEF Inv, OpenRowIsHash
<1> QED
  BY <1>2, <1>3

\* finalizeSample closes the open row at the size of the vectors.
LEMMA FinalizeSampleInv ==
    ASSUME Inv, FinalizeSample, MayCloseSample
    PROVE  Inv'
<1>1. /\ phase = "started" /\ phase' = "started" /\ multipleSamples
      /\ UNCHANGED <<config, indices, values, sz, output, clean, fresh>>
      /\ indptr' = Append(indptr, sz)
      /\ samples' = Append(samples, sample) /\ sample' = <<>>
  BY DEF FinalizeSample
<1>2. /\ TypeOK /\ HistoryTypes /\ PointersStayInside /\ RowsBeginAtZero
      /\ CleanIsEmpty /\ ValuesHaveRoom /\ OnePointerPerSample
  BY DEF Inv
<1>3. /\ indptr \in Seq(Nat) /\ sz \in Nat /\ indptr # <<>> /\ indptr[1] = 0
      /\ \A i \in 1..Len(indptr) : indptr[i] <= sz
  BY <1>1, <1>2 DEF TypeOK, PointersStayInside, RowsBeginAtZero
<1>4. /\ indptr' \in Seq(Nat) /\ indptr' # <<>> /\ indptr'[1] = 0
      /\ Len(indptr') = Len(indptr) + 1 /\ indptr'[Len(indptr')] = sz
      /\ \A i \in 1..Len(indptr') : indptr'[i] <= sz
  BY <1>1, <1>3
<1>5. TypeOK'
  BY <1>1, <1>2, <1>4 DEF TypeOK, config
<1>6. HistoryTypes'
  BY <1>1, <1>2 DEF HistoryTypes
<1>7. PointersStayInside' /\ RowsBeginAtZero' /\ ValuesHaveRoom'
  <2>1. PointersStayInside'
    BY <1>1, <1>2, <1>4 DEF PointersStayInside, config
  <2>2. RowsBeginAtZero'
    BY <1>1, <1>4 DEF RowsBeginAtZero
  <2>3. ValuesHaveRoom'
    BY <1>1, <1>2 DEF ValuesHaveRoom
  <2> QED
    BY <2>1, <2>2, <2>3
<1>8. CleanIsEmpty' /\ IdleIsEmpty' /\ FinalRowsAreHashes'
  BY <1>1, <1>2 DEF CleanIsEmpty, IdleIsEmpty, FinalRowsAreHashes
<1>9. OnePointerPerSample'
  <2> SUFFICES ASSUME fresh PROVE OnePointerPerSample'
    BY <1>1 DEF OnePointerPerSample
  <2>1. Len(indptr) = Len(samples) + 1 /\ Len(indices) = sz
    BY <1>1, <1>2 DEF OnePointerPerSample
  <2>2. Len(samples') = Len(samples) + 1
    BY <1>1, <1>2 DEF HistoryTypes
  <2>3. Len(samples) \in Nat /\ MaxSamples \in Nat
    BY <1>2, ConstantsAssumption DEF HistoryTypes
  <2> QED
    BY <1>1, <1>4, <2>1, <2>2, <2>3 DEF OnePointerPerSample, MayCloseSample, config
<1>10. ClosedRowsAreHashes'
  BY <1>1, RowsWithOpenOne DEF ClosedRowsAreHashes, config
<1>11. OpenRowIsHash'
  <2> SUFFICES ASSUME NEW b \in 0..(size' - 1)
               PROVE  Total(values', Entries(indices', indptr'[Len(indptr')], sz', b))
                          = HashSum(seed', alternateSign', size', sample', b)
    BY DEF OpenRowIsHash
  <2>1. Entries(indices', sz, sz', b) = {}
    BY <1>1, <1>3 DEF Entries
  <2>2. AtHome(seed', size', <<>>, b) = {}
    BY DEF AtHome
  <2>3. HashSum(seed', alternateSign', size', <<>>, b) = 0
    BY <2>2, TotalEmpty DEF HashSum
  <2> QED
    BY <1>1, <1>4, <2>1, <2>3, TotalEmpty
<1> QED
  BY <1>5, <1>6, <1>7, <1>8, <1>9, <1>10, <1>11 DEF Inv

-----------------------------------------------------------------------------
(* finalize *)

\* The samples of the use, the only one closed if there is to be just one.
AllSamples == IF multipleSamples THEN samples ELSE Append(samples, sample)

\* The row pointers finalize works with.
LEMMA RowPointers ==
    ASSUME Inv, phase = "started"
    PROVE  /\ Rows \in Seq(Nat) /\ Len(Rows) \in Nat /\ sz \in Nat
           /\ \A i \in 1..Len(Rows) : Rows[i] \in 0..sz
           /\ Len(Rows) - 1 <= 0 => Rows = indptr /\ Len(indptr) = 1 /\ multipleSamples
<1>1. /\ indptr \in Seq(Nat) /\ sz \in Nat /\ indptr # <<>>
      /\ \A i \in 1..Len(indptr) : indptr[i] <= sz
  BY DEF Inv, TypeOK, PointersStayInside
<1>2. \A i \in 1..Len(indptr) : indptr[i] \in 0..sz
  BY <1>1
<1>3. Len(indptr) \in Nat /\ Len(indptr) >= 1
  BY <1>1
<1>4. CASE multipleSamples
  <2>1. Rows = indptr
    BY <1>4 DEF Rows
  <2>2. Len(indptr) - 1 <= 0 => Len(indptr) = 1
    <3> DEFINE l == Len(indptr)
    <3>1. l \in Nat /\ l >= 1
      BY <1>3
    <3> HIDE DEF l
    <3>2. l - 1 <= 0 => l = 1
      BY <3>1
    <3> QED
      BY <3>2 DEF l
  <2> QED
    BY <1>1, <1>2, <1>3, <1>4, <2>1, <2>2
<1>5. CASE ~multipleSamples
  <2>1. Rows = Append(indptr, sz)
    BY <1>5 DEF Rows
  <2>2. Rows \in Seq(Nat) /\ Len(Rows) = Len(indptr) + 1
    BY <1>1, <2>1
  <2>3. \A i \in 1..Len(Rows) : Rows[i] \in 0..sz
    BY <1>1, <1>2, <2>1
  <2> QED
    BY <1>3, <1>1, <2>2, <2>3
<1> QED
  BY <1>4, <1>5

\* Between them lies the hash of each sample.
LEMMA RowsAreHashes ==
    ASSUME Inv, phase = "started", fresh
    PROVE  /\ Len(AllSamples) = Len(Rows) - 1 /\ Len(AllSamples) <= MaxSamples
           /\ \A r \in 1..Len(AllSamples), b \in 0..(size - 1) :
                  Total(values, Entries(indices, Rows[r], Rows[r + 1], b))
                      = HashSum(seed, alternateSign, size, AllSamples[r], b)
<1>1. /\ Len(indptr) = Len(samples) + 1 /\ Len(samples) <= MaxSamples
      /\ ~multipleSamples => samples = <<>>
  BY DEF Inv, OnePointerPerSample
<1>2. samples \in Seq(Seq(Items)) /\ sample \in Seq(Items) /\ indptr \in Seq(Nat)
  BY DEF Inv, HistoryTypes, TypeOK
<1>3. CASE multipleSamples
  BY <1>1, <1>2, <1>3 DEF Rows, AllSamples, Inv, ClosedRowsAreHashes
<1>4. CASE ~multipleSamples
  <2>1. Rows = Append(indptr, sz) /\ AllSamples = Append(samples, sample)
    BY <1>4 DEF Rows, AllSamples
  <2>2. Len(AllSamples) = 1 /\ Len(Rows) = 2
    <3>1. samples = <<>> /\ Len(indptr) = 1 /\ sz \in Nat
      BY <1>1, <1>4 DEF Inv, TypeOK
    <3>2. Len(Rows) = 2
      <4>1. Len(Append(indptr, sz)) = Len(indptr) + 1
        BY <1>2, <3>1, AppendProperties
      <4> QED
        BY <2>1, <3>1, <4>1
    <3>3. Len(AllSamples) = 1
      BY <2>1, <3>1
    <3> QED
      BY <3>2, <3>3
  <2> QED
    BY <2>1, <2>2, RowsWithOpenOne, ConstantsAssumption
<1> QED
  BY <1>3, <1>4

\* A cell of the dense matrix is the sum of its row's entries in its bucket.
LEMMA DenseIsRow ==
    ASSUME Inv, phase = "started", NEW c \in 0..((Len(Rows) - 1) * size - 1), Len(Rows) - 1 > 0
    PROVE  /\ Dense(Rows, indices, Resize(values, sz), c)
                  = Total(values, Entries(indices, Rows[c \div size + 1],
                                          Rows[c \div size + 1 + 1], c % size))
           /\ Dense(Rows, indices, Resize(values, sz), c) \in Int
<1> DEFINE n == Len(Rows) - 1
           q == c \div size
           val == Resize(values, sz)
           S == Entries(indices, Rows[q + 1], Rows[q + 1 + 1], c % size)
<1>1. /\ \A i \in 1..Len(Rows) : Rows[i] \in 0..sz
      /\ sz \in Nat /\ n \in Nat
  BY RowPointers
<1>2. size \in Nat /\ size > 0
  BY ConstantsAssumption DEF Inv, TypeOK, PointersStayInside
<1>3. q \in 0..(n - 1)
  BY <1>1, <1>2, CellRow
<1>4. /\ values \in Seq(Int) /\ Len(values) \in Nat /\ sz <= Len(values)
  BY DEF Inv, TypeOK, ValuesHaveRoom
<1>5. \A k \in 1..sz : val[k] = values[k] /\ values[k] \in Int
  <2>1. \A k \in 1..sz : k \in 1..Len(values) /\ k <= Len(values)
    BY <1>1, <1>4
  <2>2. \A k \in 1..sz : k <= Len(values) => val[k] = values[k]
    BY <1>1, <1>4, ResizeProperties
  <2> HIDE DEF val
  <2> QED
    BY <1>4, <2>1, <2>2
<1> HIDE DEF q, val
<1>6. IsFiniteSet(S) /\ S \subseteq 1..sz
  <2>1. q + 1 \in 1..Len(Rows) /\ q + 1 + 1 \in 1..Len(Rows)
    BY <1>1, <1>3
  <2>2. Rows[q + 1] \in 0..sz /\ Rows[q + 1 + 1] \in 0..sz
    BY <1>1, <2>1
  <2>3. S \subseteq 1..sz
    BY <1>1, <2>2 DEF Entries
  <2>4. IsFiniteSet(1..sz)
    BY <1>1, FS_Interval
  <2> QED
    BY <2>3, <2>4, FS_Subset
<1>7. Dense(Rows, indices, val, c) = Total(val, S)
  <2>1. q + 2 = q + 1 + 1
    BY <1>3
  <2>2. Dense(Rows, indices, val, c)
            = Total(val, { k \in (Rows[q + 1] + 1)..Rows[q + 2] : indices[k] = c % size })
    BY DEF Dense, Total, q
  <2> QED
    BY <2>1, <2>2 DEF Entries
<1> HIDE DEF S
<1>8. Total(val, S) = Total(values, S)
  BY <1>5, <1>6, TotalEqual
<1>9. Total(values, S) \in Int
  BY <1>5, <1>6, TotalInt
<1> QED
  BY <1>7, <1>8, <1>9 DEF val, S, q

\* Fewer and shorter rows take fewer cells.
LEMMA FewerCells ==
    ASSUME NEW n \in Nat, NEW m \in Nat, n <= m, NEW k \in Nat, NEW l \in Nat, k <= l
    PROVE  n * k <= m * l
<1>1. n * k <= m * k
  BY SMT
<1>2. m * k <= m * l
  BY SMT
<1> QED
  BY <1>1, <1>2

\* The rows written are the samples' hashes.
LEMMA FinalizeRows == ASSUME Inv, Finalize PROVE FinalRowsAreHashes'
<1>1. /\ phase = "started" /\ fresh' = fresh /\ samples' = AllSamples /\ UNCHANGED config
  BY DEF Finalize, AllSamples
<1> SUFFICES ASSUME fresh
             PROVE  /\ Len(AllSamples) <= MaxSamples
                    /\ \A r \in 1..Len(AllSamples), b \in 0..(size - 1) :
                           output'[(r - 1) * size + b]
                               = HashSum(seed, alternateSign, size, AllSamples[r], b)
  BY <1>1 DEF FinalRowsAreHashes, config
<1>2. /\ Len(AllSamples) = Len(Rows) - 1 /\ Len(AllSamples) <= MaxSamples
      /\ \A r \in 1..Len(AllSamples), b \in 0..(size - 1) :
             Total(values, Entries(indices, Rows[r], Rows[r + 1], b))
                 = HashSum(seed, alternateSign, size, AllSamples[r], b)
  BY <1>1, RowsAreHashes
<1> DEFINE n == Len(Rows) - 1
<1> SUFFICES ASSUME NEW r \in 1..n, NEW b \in 0..(size - 1)
             PROVE  output'[(r - 1) * size + b]
                        = HashSum(seed, alternateSign, size, AllSamples[r], b)
  BY <1>2
<1>3. n \in Nat /\ n > 0
  BY <1>1, RowPointers
<1>4. size \in Nat /\ size > 0 /\ size <= MaxSize /\ MaxSize \in Nat /\ MaxSamples \in Nat
  BY <1>1, ConstantsAssumption DEF Inv, TypeOK, PointersStayInside
<1> DEFINE c == (r - 1) * size + b
<1>5. c \in 0..(n * size - 1)
  <2>1. r - 1 \in 0..(n - 1)
    BY <1>3
  <2> QED
    BY <1>3, <1>4, <2>1, CellInside
<1>6. c \div size = r - 1 /\ c % size = b
  <2>1. r - 1 \in Int
    OBVIOUS
  <2> QED
    BY <1>4, <2>1, Quotient
<1>7. n * size <= MaxSamples * MaxSize
  BY <1>2, <1>3, <1>4, FewerCells
<1> HIDE DEF c
<1>8. c \in Cells /\ c < n * size
  <2> DEFINE k == n * size
             m == MaxSamples * MaxSize
  <2>1. c \in 0..(k - 1) /\ k <= m /\ k \in Int /\ m \in Int
    BY <1>3, <1>4, <1>5, <1>7
  <2> HIDE DEF k, m
  <2>2. c \in 0..(m - 1) /\ c < k
    BY <2>1
  <2> QED
    BY <2>2 DEF Cells, k, m
<1>9. output'[c] = Dense(Rows, indices, Resize(values, sz), c)
  BY <1>3, <1>8 DEF Finalize
<1>10. Dense(Rows, indices, Resize(values, sz), c)
           = Total(values, Entries(indices, Rows[c \div size + 1],
                                   Rows[c \div size + 1 + 1], c % size))
  BY <1>1, <1>3, <1>5, DenseIsRow
<1>11. c \div size + 1 = r
  BY <1>6
<1> QED
  BY <1>2, <1>6, <1>9, <1>10, <1>11 DEF c

\* finalize fills the output and leaves the vectors empty, or, with no sample
\* closed, as a row pointer of 0.
LEMMA FinalizeInv == ASSUME Inv, Finalize PROVE Inv'
<1> DEFINE n == Len(Rows) - 1
           val == Resize(values, sz)
<1>1. /\ phase = "started" /\ phase' = "final" /\ UNCHANGED <<config, sz, fresh>>
      /\ samples' = AllSamples /\ sample' = <<>>
  BY DEF Finalize, AllSamples
<1>2. /\ TypeOK /\ HistoryTypes /\ RowsBeginAtZero /\ CleanIsEmpty /\ values \in Seq(Int)
  BY DEF Inv, TypeOK
<1>3. Rows \in Seq(Nat) /\ n \in Int /\ sz \in Nat
  BY <1>1, RowPointers
<1>4. /\ indptr' \in Seq(Nat) /\ (indptr' # <<>> => indptr'[1] = 0)
      /\ \A i \in 1..Len(indptr') : indptr'[i] = 0
      /\ indices' \in Seq(0..(MaxSize - 1)) /\ values' \in Seq(Int)
      /\ output' \in [Cells -> Int]
      /\ clean' \in BOOLEAN /\ (clean' => indptr' = <<>> /\ indices' = <<>>)
  <2>1. CASE n <= 0
    <3>1. Rows = indptr /\ Len(indptr) = 1
      BY <1>1, <2>1, RowPointers
    <3>2. /\ indptr' = indptr /\ values' = val /\ indices' = indices
          /\ output' = output /\ clean' = clean
      BY <2>1, <3>1 DEF Finalize
    <3>3. val \in Seq(Int)
      BY <1>2, <1>3, ResizeProperties
    <3>4. indptr \in Seq(Nat) /\ indptr # <<>> /\ indptr[1] = 0
      BY <1>1, <1>2, <3>1 DEF Inv, TypeOK, RowsBeginAtZero, PointersStayInside
    <3>5. \A i \in 1..Len(indptr) : indptr[i] = 0
      BY <3>1, <3>4
    <3> HIDE DEF val
    <3> QED
      BY <1>1, <1>2, <3>2, <3>3, <3>4, <3>5 DEF TypeOK, HistoryTypes, CleanIsEmpty
  <2>2. CASE ~(n <= 0)
    <3>1. /\ output' = [c \in Cells |-> IF c < n * size THEN Dense(Rows, indices, val, c)
                                        ELSE output[c]]
          /\ indptr' = <<>> /\ indices' = <<>> /\ values' = <<>> /\ clean' = TRUE
      BY <2>2 DEF Finalize
    <3>2. ASSUME NEW c \in Cells, c < n * size
          PROVE  Dense(Rows, indices, val, c) \in Int
      <4>1. n > 0 /\ size \in Nat /\ MaxSamples * MaxSize \in Int
        BY <1>2, <1>3, <2>2, ConstantsAssumption DEF TypeOK
      <4>2. c \in 0..(n * size - 1)
        BY <1>3, <3>2, <4>1 DEF Cells
      <4> QED
        BY <1>1, <4>1, <4>2, DenseIsRow
    <3>3. \A c \in Cells : output[c] \in Int
      BY <1>2 DEF TypeOK
    <3>4. output' \in [Cells -> Int]
      <4> HIDE DEF n, val
      <4> QED
        BY <3>1, <3>2, <3>3
    <3> QED
      BY <3>1, <3>4
  <2> QED
    BY <2>1, <2>2
<1>5. TypeOK'
  BY <1>1, <1>2, <1>4 DEF TypeOK, config
<1>6. HistoryTypes'
  <2>1. AllSamples \in Seq(Seq(Items))
    BY <1>2 DEF AllSamples, HistoryTypes
  <2> QED
    BY <1>1, <1>2, <1>4, <2>1 DEF HistoryTypes
<1>7. PointersStayInside' /\ IdleIsEmpty' /\ ValuesHaveRoom' /\ OnePointerPerSample'
      /\ ClosedRowsAreHashes' /\ OpenRowIsHash'
  BY <1>1 DEF PointersStayInside, IdleIsEmpty, ValuesHaveRoom, OnePointerPerSample,
              ClosedRowsAreHashes, OpenRowIsHash
<1>8. RowsBeginAtZero' /\ CleanIsEmpty'
  BY <1>1, <1>4 DEF RowsBeginAtZero, CleanIsEmpty
<1>9. FinalRowsAreHashes'
  BY FinalizeRows
<1> QED
  BY <1>5, <1>6, <1>7, <1>8, <1>9 DEF Inv

-----------------------------------------------------------------------------
(* Every step, and the theorems *)

\* Every step keeps the invariant.
LEMMA NextInv == ASSUME Inv, [Next]_vars PROVE Inv'
<1>1. CASE Reset
  BY <1>1, ResetInv
<1>2. CASE \/ SetOutput \/ \E n \in 0..MaxSize : SetSize(n)
           \/ \E b \in BOOLEAN : SetAlternateSign(b) \/ SetMultipleSamples(b)
           \/ \E s \in Seeds : SetSeed(s)
  BY <1>2, SettersInv
<1>3. CASE MayStart /\ Start
  BY <1>3, StartInv
<1>4. CASE StartFatal
  BY <1>4, StartFatalInv
<1>5. CASE \E s \in Strings, w \in Weights : MayReduce /\ Reduce(s, w)
  BY <1>5, ReduceInv
<1>6. CASE MayCloseSample /\ FinalizeSample
  BY <1>6, FinalizeSampleInv
<1>7. CASE Finalize
  BY <1>7, FinalizeInv
<1>8. CASE Exited \/ UNCHANGED vars
  <2>1. UNCHANGED vars
    BY <1>8 DEF Exited
  <2> QED
    BY <2>1 DEF vars, config, csr, history, Inv, TypeOK, HistoryTypes, PointersStayInside,
       RowsBeginAtZero, CleanIsEmpty, IdleIsEmpty, ValuesHaveRoom, OnePointerPerSample,
       ClosedRowsAreHashes, OpenRowIsHash, FinalRowsAreHashes
<1> QED
  BY <1>1, <1>2, <1>3, <1>4, <1>5, <1>6, <1>7, <1>8 DEF Next

\* The inductive invariant holds in every state.
THEOREM HasherInvariant == Spec => []Inv
<1>1. Init => Inv
  BY InitInv
<1>2. Inv /\ [Next]_vars => Inv'
  BY NextInv
<1> QED
  BY <1>1, <1>2, PTL DEF Spec

\* Every use of the object, with reset before it or without, stores buckets
\* below the number of them and fills the output with numbers
\* (featurehasher.cpp:28-148).
THEOREM TypeCorrect == Spec => []TypeOK
<1>1. Inv => TypeOK
  BY DEF Inv
<1> QED
  BY <1>1, HasherInvariant, PTL

\* The write values[sz++] of reduce stays inside the vector, however many
\* strings a use hashes and in whatever state the last one left the vector
\* (featurehasher.cpp:68, 108-114).
THEOREM ValuesNeverOverrun == Spec => []ValuesHaveRoom
<1>1. Inv => ValuesHaveRoom
  BY DEF Inv
<1> QED
  BY <1>1, HasherInvariant, PTL

\* The hash the property asks for is the one the invariant speaks of.
LEMMA ExpectedIsHashSum ==
    ASSUME NEW items, NEW b
    PROVE  Expected(items, b) = HashSum(seed, alternateSign, size, items, b)
BY DEF Expected, HashSum, Total, Weighted, Weight, AtHome, Home

\* After finalize each row of the output is the hash of its own sample, for any
\* number of buckets, samples and strings, any seed and any hash function: the
\* rows the code collects in csr, its buckets with their special case, the value
\* vector it doubles and the conversion to dense rows come to the sum of the
\* weights, with their signs, of the strings that belong there
\* (featurehasher.cpp:57-170).
THEOREM OutputCorrect == Spec => []OutputIsTheHash
<1>1. Inv => OutputIsTheHash
  BY ExpectedIsHashSum DEF Inv, FinalRowsAreHashes, OutputIsTheHash
<1> QED
  BY <1>1, HasherInvariant, PTL

\* What one step may write: start its first row, finalize the rows of the
\* samples.
LEMMA StepWrites ==
    ASSUME Inv, [Next]_vars, phase' \in {"started", "final"}, fresh',
           NEW c \in Cells, output'[c] # output[c]
    PROVE  \/ phase' = "started" /\ c < size
           \/ phase' = "final" /\ c < Len(samples') * size
<1>1. CASE Start
  BY <1>1 DEF Start
<1>2. CASE Finalize
  <2>1. /\ phase = "started" /\ phase' = "final" /\ fresh /\ samples' = AllSamples
    BY <1>2 DEF Finalize, AllSamples
  <2>2. Len(AllSamples) = Len(Rows) - 1
    BY <2>1, RowsAreHashes
  <2>3. ~(Len(Rows) - 1 <= 0)
    BY <1>2 DEF Finalize
  <2>4. c < (Len(Rows) - 1) * size
    BY <1>2, <2>3 DEF Finalize
  <2> QED
    BY <2>1, <2>2, <2>4
<1>3. CASE UNCHANGED output
  BY <1>3
<1>4. Start \/ Finalize \/ UNCHANGED output
  BY DEF Next, vars, Reset, BetweenUses, Configurable, SetOutput, SetSize, SetAlternateSign,
         SetMultipleSamples, SetSeed, StartFatal, Reduce, FinalizeSample, Exited
<1> QED
  BY <1>1, <1>2, <1>3, <1>4

\* The output changes only where a use may write: in start its first row
\* (featurehasher.cpp:64), in finalize the rows of the samples
\* (featurehasher.cpp:131-165).  The caller's buffer needs no more room.
THEOREM WritesInside == Spec => WritesOnlyItsRows
<1>1. ASSUME Inv, [Next]_vars
      PROVE  [ phase' \in {"started", "final"} /\ fresh' =>
                 \A c \in Cells : output'[c] # output[c] =>
                     \/ phase' = "started" /\ c < size
                     \/ phase' = "final" /\ c < Len(samples') * size ]_vars
  BY <1>1, StepWrites
<1> QED
  BY <1>1, HasherInvariant, PTL DEF Spec, WritesOnlyItsRows

-----------------------------------------------------------------------------
(* Lists of writes *)

\* The writes within d cells, and the cells of a write that begin at a place.
WritesIn(d) ==
    { w \in [kind : {"clear", "assign", "update"}, at : Nat, n : Nat] : w.at + w.n <= d }
Place(at, w) == (at + w.at)..(at + w.at + w.n - 1)
Filled(d) == 0..(d - 1)

Is(W, i, kind) == i \in DOMAIN W /\ W[i].kind = kind

\* No two assignments of the list meet, and they stay in A; what is updated was written
\* by the list before; and every cell of C is written.
Tidy(W, d, A, C) ==
    /\ W \in Seq(WritesIn(d))
    /\ \A i : Is(W, i, "assign") => Place(0, W[i]) \subseteq A
    /\ \A i, j : Is(W, i, "assign") /\ Is(W, j, "assign") /\ i < j
                    => Place(0, W[i]) \cap Place(0, W[j]) = {}
    /\ \A i : Is(W, i, "update") =>
          \A c \in Place(0, W[i]) : \E j \in DOMAIN W : j < i /\ c \in Place(0, W[j])
    /\ \A c \in C : \E i \in DOMAIN W : c \in Place(0, W[i])

\* A list that fills a region of d cells.
Fills(W, d) == Tidy(W, d, Filled(d), Filled(d))

\* No writes.
LEMMA TidyNone == \A d : Tidy(<<>>, d, {}, {})
BY DEF Tidy, Is

\* More may be said to be assigned, and less to be written.
LEMMA TidyWeaker ==
    ASSUME NEW W, NEW d, NEW A, NEW C, NEW B, NEW D, Tidy(W, d, A, C), A \subseteq B, D \subseteq C
    PROVE  Tidy(W, d, B, D)
BY DEF Tidy

\* Lists one after the other.
LEMMA TidyJoin ==
    ASSUME NEW U, NEW V, NEW d, NEW A, NEW B, NEW C, NEW D,
           Tidy(U, d, A, C), Tidy(V, d, B, D), A \cap B = {}
    PROVE  Tidy(U \o V, d, A \cup B, C \cup D)
<1> DEFINE W == U \o V
           m == Len(U)
           n == Len(V)
<1>1. U \in Seq(WritesIn(d)) /\ V \in Seq(WritesIn(d))
  BY DEF Tidy
<1>2. /\ W \in Seq(WritesIn(d)) /\ Len(W) = m + n /\ m \in Nat /\ n \in Nat
      /\ DOMAIN U = 1..m /\ DOMAIN V = 1..n /\ DOMAIN W = 1..(m + n)
      /\ \A i \in 1..m : W[i] = U[i]
      /\ \A i \in 1..n : W[m + i] = V[i]
  BY <1>1, ConcatProperties, LenProperties
<1> HIDE DEF W, m, n
<1>3. \A i \in DOMAIN W : \/ i \in DOMAIN U /\ W[i] = U[i]
                          \/ i - m \in DOMAIN V /\ W[i] = V[i - m] /\ i > m
  <2> SUFFICES ASSUME NEW i \in 1..(m + n), i > m PROVE i - m \in 1..n /\ W[i] = V[i - m]
    BY <1>2
  <2> DEFINE k == i - m
  <2>1. k \in 1..n /\ m + k = i
    BY <1>2
  <2> HIDE DEF k
  <2>2. W[m + k] = V[k]
    BY <1>2, <2>1
  <2> QED
    BY <2>1, <2>2 DEF k
<1>4. ASSUME NEW i, Is(W, i, "assign") PROVE Place(0, W[i]) \subseteq A \cup B
  BY <1>3, <1>4, Zenon DEF Tidy, Is
<1>5. ASSUME NEW i, NEW j, Is(W, i, "assign"), Is(W, j, "assign"), i < j
      PROVE  Place(0, W[i]) \cap Place(0, W[j]) = {}
  <2>1. i \in Nat /\ j \in Nat /\ i \in DOMAIN W /\ j \in DOMAIN W
    BY <1>2, <1>5 DEF Is
  <2>2. CASE i \in DOMAIN U /\ W[i] = U[i] /\ j \in DOMAIN U /\ W[j] = U[j]
    <3>1. Is(U, i, "assign") /\ Is(U, j, "assign")
      BY <1>5, <2>2 DEF Is
    <3> QED
      BY <1>5, <2>2, <3>1, Zenon DEF Tidy
  <2>3. CASE i \in DOMAIN U /\ W[i] = U[i] /\ j - m \in DOMAIN V /\ W[j] = V[j - m]
    <3>1. Is(U, i, "assign") /\ Is(V, j - m, "assign")
      BY <1>5, <2>3 DEF Is
    <3>2. Place(0, W[i]) \subseteq A /\ Place(0, W[j]) \subseteq B
      BY <2>3, <3>1, Zenon DEF Tidy
    <3> QED
      BY <3>2
  <2>4. CASE i - m \in DOMAIN V /\ W[i] = V[i - m] /\ j - m \in DOMAIN V /\ W[j] = V[j - m]
    <3>1. Is(V, i - m, "assign") /\ Is(V, j - m, "assign") /\ i - m < j - m
      BY <1>2, <1>5, <2>1, <2>4 DEF Is
    <3> QED
      BY <2>4, <3>1, Zenon DEF Tidy
  <2>5. CASE i > m /\ j \in DOMAIN U
    BY <1>2, <1>5, <2>1, <2>5
  <2> QED
    BY <1>3, <2>1, <2>2, <2>3, <2>4, <2>5, Zenon
<1>6. ASSUME NEW i, Is(W, i, "update"), NEW c \in Place(0, W[i])
      PROVE  \E j \in DOMAIN W : j < i /\ c \in Place(0, W[j])
  <2>1. i \in DOMAIN W /\ i \in Nat
    BY <1>2, <1>6 DEF Is
  <2>2. CASE i \in DOMAIN U /\ W[i] = U[i]
    <3>1. Is(U, i, "update") /\ c \in Place(0, U[i])
      BY <1>6, <2>2 DEF Is
    <3>2. PICK j \in DOMAIN U : j < i /\ c \in Place(0, U[j])
      BY <3>1 DEF Tidy
    <3>3. j \in DOMAIN W /\ W[j] = U[j]
      BY <1>2, <3>2
    <3> QED
      BY <3>2, <3>3
  <2>3. CASE i - m \in DOMAIN V /\ W[i] = V[i - m]
    <3>1. Is(V, i - m, "update") /\ c \in Place(0, V[i - m])
      BY <1>6, <2>3 DEF Is
    <3>2. PICK j \in DOMAIN V : j < i - m /\ c \in Place(0, V[j])
      BY <3>1 DEF Tidy
    <3>3. m + j \in DOMAIN W /\ W[m + j] = V[j] /\ m + j < i
      BY <1>2, <2>1, <3>2
    <3> QED
      BY <3>2, <3>3
  <2> QED
    BY <1>3, <2>1, <2>2, <2>3
<1>7. ASSUME NEW c \in C \cup D PROVE \E i \in DOMAIN W : c \in Place(0, W[i])
  <2>1. CASE c \in C
    <3>1. PICK i \in DOMAIN U : c \in Place(0, U[i])
      BY <2>1 DEF Tidy
    <3>2. i \in DOMAIN W /\ W[i] = U[i]
      BY <1>2, <3>1
    <3> QED
      BY <3>1, <3>2
  <2>2. CASE c \in D
    <3>1. PICK i \in DOMAIN V : c \in Place(0, V[i])
      BY <2>2 DEF Tidy
    <3>2. m + i \in DOMAIN W /\ W[m + i] = V[i]
      BY <1>2, <3>1
    <3> QED
      BY <3>1, <3>2
  <2> QED
    BY <2>1, <2>2
<1>8. W \in Seq(WritesIn(d))
  BY <1>2
<1> QED
  BY <1>4, <1>5, <1>6, <1>7, <1>8 DEF Tidy, W

\* Writes that are of one kind and not updates, from their places.
LEMMA TidyOfKind ==
    ASSUME NEW d \in Nat, NEW W, NEW m \in Nat, NEW kind \in {"clear", "assign"}, NEW at \in [1..m -> Nat],
           NEW n \in [1..m -> Nat], NEW S,
           W = [k \in 1..m |-> [kind |-> kind, at |-> at[k], n |-> n[k]]],
           \A k \in 1..m : at[k] + n[k] <= d,
           \A i, j \in 1..m : i < j => at[i] + n[i] <= at[j] \/ at[j] + n[j] <= at[i],
           \A k \in 1..m : at[k]..(at[k] + n[k] - 1) \subseteq S,
           \A c \in S : \E k \in 1..m : c \in at[k]..(at[k] + n[k] - 1)
    PROVE  Tidy(W, d, IF kind = "assign" THEN S ELSE {}, S)
<1>1. \A k \in 1..m : /\ W[k] = [kind |-> kind, at |-> at[k], n |-> n[k]]
                      /\ W[k].kind = kind /\ W[k].at = at[k] /\ W[k].n = n[k]
                      /\ Place(0, W[k]) = at[k]..(at[k] + n[k] - 1)
                      /\ W[k] \in WritesIn(d)
  BY DEF Place, WritesIn
<1>2. W \in Seq(WritesIn(d)) /\ DOMAIN W = 1..m
  BY <1>1
<1> HIDE DEF WritesIn
<1>3. ASSUME NEW i, Is(W, i, "assign") PROVE Place(0, W[i]) \subseteq S /\ kind = "assign"
  BY <1>1, <1>2, <1>3 DEF Is
<1>4. ASSUME NEW i, NEW j, Is(W, i, "assign"), Is(W, j, "assign"), i < j
      PROVE  Place(0, W[i]) \cap Place(0, W[j]) = {}
  <2>1. i \in 1..m /\ j \in 1..m
    BY <1>2, <1>4 DEF Is
  <2>2. at[i] + n[i] <= at[j] \/ at[j] + n[j] <= at[i]
    BY <1>4, <2>1
  <2>3. at[i] \in Nat /\ at[j] \in Nat /\ n[i] \in Nat /\ n[j] \in Nat
    BY <2>1
  <2> QED
    BY <1>1, <2>1, <2>2, <2>3
<1>5. \A i : ~Is(W, i, "update")
  BY <1>1, <1>2 DEF Is
<1>6. \A c \in S : \E i \in DOMAIN W : c \in Place(0, W[i])
  BY <1>1, <1>2
<1> QED
  BY <1>2, <1>3, <1>4, <1>5, <1>6 DEF Tidy

\* One write.
LEMMA TidyOne ==
    ASSUME NEW d \in Nat, NEW at \in Nat, NEW n \in Nat, at + n <= d
    PROVE  /\ Tidy(<<Clear(at, n)>>, d, {}, at..(at + n - 1))
           /\ Tidy(<<Assign(at, n)>>, d, at..(at + n - 1), at..(at + n - 1))
<1> DEFINE a == [k \in 1..1 |-> at]
           b == [k \in 1..1 |-> n]
           S == at..(at + n - 1)
<1>1. /\ a \in [1..1 -> Nat] /\ b \in [1..1 -> Nat] /\ a[1] = at /\ b[1] = n
      /\ \A k \in 1..1 : k = 1
  OBVIOUS
<1>2. /\ \A k \in 1..1 : a[k] + b[k] <= d
      /\ \A i, j \in 1..1 : ~(i < j)
      /\ \A k \in 1..1 : a[k]..(a[k] + b[k] - 1) \subseteq S
      /\ \A c \in S : \E k \in 1..1 : c \in a[k]..(a[k] + b[k] - 1)
  <2>1. 1 \in 1..1
    OBVIOUS
  <2>2. \A k \in 1..1 : a[k] = at /\ b[k] = n
    BY <1>1
  <2>3. a[1]..(a[1] + b[1] - 1) = S
    BY <1>1
  <2>4. \A i, j \in 1..1 : ~(i < j)
    OBVIOUS
  <2> QED
    BY <2>1, <2>2, <2>3, <2>4
<1>3. /\ <<Clear(at, n)>> = [k \in 1..1 |-> [kind |-> "clear", at |-> a[k], n |-> b[k]]]
      /\ <<Assign(at, n)>> = [k \in 1..1 |-> [kind |-> "assign", at |-> a[k], n |-> b[k]]]
  BY <1>1 DEF Clear, Assign
<1> HIDE DEF a, b, S
<1>4. Tidy(<<Clear(at, n)>>, d, IF "clear" = "assign" THEN S ELSE {}, S)
  BY <1>1, <1>2, <1>3, TidyOfKind
<1>5. Tidy(<<Assign(at, n)>>, d, IF "assign" = "assign" THEN S ELSE {}, S)
  BY <1>1, <1>2, <1>3, TidyOfKind
<1> QED
  BY <1>4, <1>5 DEF S

\* A region that is cleared.
LEMMA TidyClear ==
    ASSUME NEW d \in Nat
    PROVE  Tidy(<<Clear(0, d)>>, d, {}, Filled(d))
<1>1. 0 \in Nat /\ 0 + d <= d /\ 0 + d - 1 = d - 1
  OBVIOUS
<1>2. Tidy(<<Clear(0, d)>>, d, {}, 0..(0 + d - 1))
  BY <1>1, TidyOne
<1> QED
  BY <1>1, <1>2 DEF Filled

\* Regions one after the other.
LEMMA TidyFollow ==
    ASSUME NEW U, NEW V, NEW d, NEW lo \in Int, NEW mid \in Int, NEW hi \in Int, lo <= mid, mid <= hi,
           Tidy(U, d, lo..(mid - 1), lo..(mid - 1)), Tidy(V, d, mid..(hi - 1), mid..(hi - 1))
    PROVE  Tidy(U \o V, d, lo..(hi - 1), lo..(hi - 1))
<1>1. (lo..(mid - 1)) \cap (mid..(hi - 1)) = {} /\ (lo..(mid - 1)) \cup (mid..(hi - 1)) = lo..(hi - 1)
  OBVIOUS
<1>2. Tidy(U \o V, d, (lo..(mid - 1)) \cup (mid..(hi - 1)), (lo..(mid - 1)) \cup (mid..(hi - 1)))
  BY <1>1, TidyJoin
<1> QED
  BY <1>1, <1>2

\* What is written of a file that has the part, after the region was cleared.
LEMMA TidyWhen ==
    ASSUME NEW U, NEW V, NEW d, NEW A, NEW C, NEW D, NEW condition \in BOOLEAN,
           Tidy(U, d, {}, C), condition => Tidy(V, d, A, D)
    PROVE  Tidy(U \o When(condition, V), d, A, C)
<1>1. CASE condition
  <2>1. Tidy(U \o V, d, {} \cup A, C \cup D)
    BY <1>1, TidyJoin
  <2> QED
    BY <1>1, <2>1, TidyWeaker DEF When
<1>2. CASE ~condition
  <2>1. U \o <<>> = U
    BY ConcatEmptySeq DEF Tidy
  <2>2. Tidy(U, d, A, C)
    BY TidyWeaker
  <2> QED
    BY <1>2, <2>1, <2>2 DEF When
<1> QED
  BY <1>1, <1>2

\* An update of cells written before.
LEMMA TidyUpdate ==
    ASSUME NEW U, NEW d \in Nat, NEW A, NEW C, NEW at \in Nat, NEW n \in Nat, at + n <= d,
           Tidy(U, d, A, C), at..(at + n - 1) \subseteq C
    PROVE  Tidy(U \o <<Update(at, n)>>, d, A, C)
<1> DEFINE w == Update(at, n)
           W == U \o <<w>>
           m == Len(U)
<1>1. U \in Seq(WritesIn(d)) /\ w \in WritesIn(d)
  BY DEF Tidy, Update, WritesIn
<1>2. /\ W \in Seq(WritesIn(d)) /\ Len(W) = m + 1 /\ m \in Nat
      /\ DOMAIN U = 1..m /\ DOMAIN W = 1..(m + 1)
      /\ \A i \in 1..m : W[i] = U[i]
      /\ W[m + 1] = w
  <2>1. <<w>> \in Seq(WritesIn(d)) /\ Len(<<w>>) = 1 /\ <<w>>[1] = w
    BY <1>1
  <2> HIDE DEF w
  <2> QED
    BY <1>1, <2>1, ConcatProperties, LenProperties
<1>3. w.kind = "update" /\ Place(0, w) = at..(at + n - 1)
  BY DEF Update, Place
<1> HIDE DEF W, m, w
<1>4. \A i \in DOMAIN W : (i \in DOMAIN U /\ W[i] = U[i]) \/ (i = m + 1 /\ W[i] = w)
  BY <1>2
<1>5. ASSUME NEW i, Is(W, i, "assign") PROVE Place(0, W[i]) \subseteq A
  BY <1>3, <1>4, <1>5 DEF Tidy, Is
<1>6. ASSUME NEW i, NEW j, Is(W, i, "assign"), Is(W, j, "assign"), i < j
      PROVE  Place(0, W[i]) \cap Place(0, W[j]) = {}
  <2>1. Is(U, i, "assign") /\ Is(U, j, "assign") /\ W[i] = U[i] /\ W[j] = U[j]
    BY <1>3, <1>4, <1>6 DEF Is
  <2> QED
    BY <1>6, <2>1, Zenon DEF Tidy
<1>7. ASSUME NEW i, Is(W, i, "update"), NEW c \in Place(0, W[i])
      PROVE  \E j \in DOMAIN W : j < i /\ c \in Place(0, W[j])
  <2>1. CASE i \in DOMAIN U /\ W[i] = U[i]
    <3>1. Is(U, i, "update") /\ c \in Place(0, U[i])
      BY <1>7, <2>1 DEF Is
    <3>2. PICK j \in DOMAIN U : j < i /\ c \in Place(0, U[j])
      BY <3>1 DEF Tidy
    <3> QED
      BY <1>2, <3>2
  <2>2. CASE i = m + 1 /\ W[i] = w
    <3>1. c \in C
      BY <1>3, <1>7, <2>2
    <3>2. PICK j \in DOMAIN U : c \in Place(0, U[j])
      BY <3>1 DEF Tidy
    <3> QED
      BY <1>2, <2>2, <3>2
  <2> QED
    BY <1>4, <1>7, <2>1, <2>2 DEF Is
<1>8. ASSUME NEW c \in C PROVE \E i \in DOMAIN W : c \in Place(0, W[i])
  <2>1. PICK i \in DOMAIN U : c \in Place(0, U[i])
    BY DEF Tidy
  <2> QED
    BY <1>2, <2>1
<1> QED
  BY <1>2, <1>5, <1>6, <1>7, <1>8 DEF Tidy, W, w

\* One cell after the other.
LEMMA TidyCells ==
    ASSUME NEW d \in Nat, NEW m \in Nat, m <= d, NEW W, W = [k \in 1..m |-> Assign(k - 1, 1)]
    PROVE  Tidy(W, d, Filled(m), Filled(m))
<1> DEFINE a == [k \in 1..m |-> k - 1]
           b == [k \in 1..m |-> 1]
<1>1. a \in [1..m -> Nat] /\ b \in [1..m -> Nat] /\ \A k \in 1..m : a[k] = k - 1 /\ b[k] = 1
  OBVIOUS
<1>2. W = [k \in 1..m |-> [kind |-> "assign", at |-> a[k], n |-> b[k]]]
  BY DEF Assign
<1> HIDE DEF a, b
<1>3. /\ \A k \in 1..m : a[k] + b[k] <= d
      /\ \A i, j \in 1..m : i < j => a[i] + b[i] <= a[j] \/ a[j] + b[j] <= a[i]
      /\ \A k \in 1..m : a[k]..(a[k] + b[k] - 1) \subseteq Filled(m)
  <2>1. \A k \in 1..m : a[k] + b[k] <= d
    BY <1>1
  <2>2. \A i, j \in 1..m : i < j => a[i] + b[i] <= a[j]
    BY <1>1
  <2>3. ASSUME NEW k \in 1..m PROVE a[k]..(a[k] + b[k] - 1) \subseteq Filled(m)
    <3>1. a[k]..(a[k] + b[k] - 1) = (k - 1)..(k - 1)
      BY <1>1
    <3>2. (k - 1)..(k - 1) \subseteq 0..(m - 1)
      OBVIOUS
    <3> QED
      BY <3>1, <3>2 DEF Filled
  <2> QED
    BY <2>1, <2>2, <2>3
<1>4. \A c \in Filled(m) : \E k \in 1..m : c \in a[k]..(a[k] + b[k] - 1)
  <2> SUFFICES ASSUME NEW c \in Filled(m) PROVE \E k \in 1..m : c \in a[k]..(a[k] + b[k] - 1)
    OBVIOUS
  <2> DEFINE k == c + 1
  <2>1. k \in 1..m /\ k - 1 = c /\ c \in Int
    BY DEF Filled
  <2> HIDE DEF k
  <2>2. a[k] = c /\ b[k] = 1
    BY <1>1, <2>1
  <2>3. c \in c..(c + 1 - 1)
    BY <2>1
  <2> QED
    BY <2>1, <2>2, <2>3
<1>5. Tidy(W, d, IF "assign" = "assign" THEN Filled(m) ELSE {}, Filled(m))
  BY <1>1, <1>2, <1>3, <1>4, TidyOfKind
<1> QED
  BY <1>5

-----------------------------------------------------------------------------
(* The regions *)

\* The dimensions, and the cells the regions begin at.
LEMMA DimsAre ==
    /\ Dims = <<263, 256, 177, 74, 224, 1282, 129, 34, 33, 8, 88>>
    /\ Types = <<"general", "byteentropy", "strings", "header", "section", "imports", "exports",
                 "datadirectories", "richheader", "authenticode", "pefilewarnings">>
BY DEF Dims, Types, GeneralDim, NumFirstBytes, EntropyDim, StringsDim, NumInterestingRegexes, HeaderDim,
       SectionDim, ImportsDim, ExportsDim, DataDirectoriesDim, RichHeaderDim, AuthenticodeDim, WarningsDim

\* Where region k begins.
At(k) == SumFunction(SubSeq(Dims, 1, k - 1))

LEMMA SumIsTotal == \A f : SumFunction(f) = Total(f, DOMAIN f)
BY DEF SumFunction, Total

\* Sums over the elements of a list before one of them.
LEMMA SumsBefore ==
    ASSUME NEW s \in Seq(Nat)
    PROVE  /\ SumFunction(SubSeq(s, 1, 0)) = 0
           /\ \A k \in 1..Len(s) :
                 SumFunction(SubSeq(s, 1, k)) = SumFunction(SubSeq(s, 1, k - 1)) + s[k]
<1>1. SumFunction(SubSeq(s, 1, 0)) = 0
  <2> DEFINE e == SubSeq(s, 1, 0)
  <2>1. DOMAIN e = 1..0
    OBVIOUS
  <2>2. 1..0 = {}
    OBVIOUS
  <2> HIDE DEF e
  <2>3. SumFunction(e) = Total(e, {})
    BY <2>1, <2>2, SumIsTotal
  <2>4. Total(e, {}) = 0
    BY TotalEmpty
  <2> QED
    BY <2>3, <2>4 DEF e
<1>2. ASSUME NEW k \in 1..Len(s)
      PROVE  SumFunction(SubSeq(s, 1, k)) = SumFunction(SubSeq(s, 1, k - 1)) + s[k]
  <2> DEFINE f == SubSeq(s, 1, k)
             g == SubSeq(s, 1, k - 1)
  <2>1. /\ Len(s) \in Nat /\ k \in Nat /\ s[k] \in Nat
        /\ DOMAIN f = 1..k /\ DOMAIN g = 1..(k - 1)
        /\ \A i \in 1..k : f[i] = s[i] /\ f[i] \in Nat
        /\ \A i \in 1..(k - 1) : g[i] = f[i]
    BY LenProperties, ElementOfSeq
  <2>2. 1..k = (1..(k - 1)) \cup {k} /\ k \notin 1..(k - 1)
    BY <2>1
  <2> HIDE DEF f, g
  <2>3. SumFunction(f) = Total(f, 1..k) /\ SumFunction(g) = Total(g, 1..(k - 1))
    BY <2>1, SumIsTotal
  <2> DEFINE j == k - 1
  <2>4. j \in Int /\ \A i \in 1..j : i \in 1..k
    BY <2>1
  <2>5. 1..k = (1..j) \cup {k} /\ k \notin 1..j
    BY <2>2
  <2>6. \A i \in 1..j : f[i] \in Int /\ g[i] = f[i]
    BY <2>1, <2>4
  <2>7. f[k] \in Int /\ f[k] = s[k]
    BY <2>1
  <2>8. SumFunction(f) = Total(f, 1..k) /\ SumFunction(g) = Total(g, 1..j)
    BY <2>3
  <2> HIDE DEF j
  <2>9. IsFiniteSet(1..j)
    BY <2>4, FS_Interval
  <2>10. Total(f, (1..j) \cup {k}) = Total(f, 1..j) + f[k]
    BY <2>5, <2>6, <2>7, <2>9, TotalWith
  <2>11. Total(g, 1..j) = Total(f, 1..j)
    BY <2>6, <2>9, TotalEqual
  <2> QED
    BY <2>5, <2>7, <2>8, <2>10, <2>11 DEF f, g
<1> QED
  BY <1>1, <1>2

\* A region begins where the one before it ends.
LEMMA RegionsBegin ==
    /\ At(1) = 0 /\ At(2) = 263 /\ At(3) = 519 /\ At(4) = 696 /\ At(5) = 770 /\ At(6) = 994
    /\ At(7) = 2276 /\ At(8) = 2405 /\ At(9) = 2439 /\ At(10) = 2472 /\ At(11) = 2480
    /\ NumFeatures = 2568
<1>1. Dims \in Seq(Nat) /\ Len(Dims) = 11
  BY DimsAre
<1>2. /\ Dims[1] = 263 /\ Dims[2] = 256 /\ Dims[3] = 177 /\ Dims[4] = 74 /\ Dims[5] = 224
      /\ Dims[6] = 1282 /\ Dims[7] = 129 /\ Dims[8] = 34 /\ Dims[9] = 33 /\ Dims[10] = 8 /\ Dims[11] = 88
  BY DimsAre
<1> DEFINE S(k) == SumFunction(SubSeq(Dims, 1, k))
<1>3. S(0) = 0 /\ \A k \in 1..11 : S(k) = S(k - 1) + Dims[k]
  BY <1>1, SumsBefore
<1>4. \A k \in 1..11 : At(k) = S(k - 1)
  BY DEF At
<1>5. NumFeatures = S(11)
  <2>1. SubSeq(Dims, 1, 11) = Dims
    BY <1>1
  <2> QED
    BY <2>1 DEF NumFeatures
<1> HIDE DEF S
<1>6. S(1) = 263 /\ S(2) = 519 /\ S(3) = 696 /\ S(4) = 770 /\ S(5) = 994 /\ S(6) = 2276
  BY <1>2, <1>3
<1>7. S(7) = 2405 /\ S(8) = 2439 /\ S(9) = 2472 /\ S(10) = 2480 /\ S(11) = 2568
  BY <1>2, <1>3, <1>6
<1>8. At(1) = 0 /\ At(2) = 263 /\ At(3) = 519 /\ At(4) = 696 /\ At(5) = 770 /\ At(6) = 994
  BY <1>3, <1>4, <1>6
<1>9. At(7) = 2276 /\ At(8) = 2405 /\ At(9) = 2439 /\ At(10) = 2472 /\ At(11) = 2480
  BY <1>4, <1>6, <1>7
<1> QED
  BY <1>5, <1>7, <1>8, <1>9

\* The regions follow one another, do not meet and make up the vector.
LEMMA Regions ==
    /\ Len(Types) = 11 /\ Len(Dims) = 11 /\ At(1) = 0
    /\ \A k \in 1..11 : /\ Dims[k] \in Nat /\ At(k) \in Nat
                        /\ Region(k) = At(k)..(At(k) + Dims[k] - 1)
                        /\ Region(k) \subseteq 0..(NumFeatures - 1)
    /\ \A k \in 1..10 : At(k + 1) = At(k) + Dims[k]
    /\ \A j, k \in 1..11 : j # k => Region(j) \cap Region(k) = {}
    /\ \A c \in 0..(NumFeatures - 1) : \E k \in 1..11 : c \in Region(k)
<1>1. /\ Dims[1] = 263 /\ Dims[2] = 256 /\ Dims[3] = 177 /\ Dims[4] = 74 /\ Dims[5] = 224
      /\ Dims[6] = 1282 /\ Dims[7] = 129 /\ Dims[8] = 34 /\ Dims[9] = 33 /\ Dims[10] = 8 /\ Dims[11] = 88
  BY DimsAre
<1>2. Len(Types) = 11 /\ Len(Dims) = 11
  BY DimsAre
<1>3. \A k \in 1..11 : k = 1 \/ k = 2 \/ k = 3 \/ k = 4 \/ k = 5 \/ k = 6 \/ k = 7 \/ k = 8 \/ k = 9 \/ k = 10 \/ k = 11
  OBVIOUS
<1>4. \A k \in 1..11 : Region(k) = At(k)..(At(k) + Dims[k] - 1)
  BY DEF Region, At
<1>5. \A k \in 1..11 : Dims[k] \in Nat /\ At(k) \in Nat /\ At(k) + Dims[k] <= NumFeatures
  BY <1>1, <1>3, RegionsBegin
<1>6. \A k \in 1..10 : At(k + 1) = At(k) + Dims[k]
  <2>1. \A k \in 1..10 : k = 1 \/ k = 2 \/ k = 3 \/ k = 4 \/ k = 5 \/ k = 6 \/ k = 7 \/ k = 8 \/ k = 9 \/ k = 10
    OBVIOUS
  <2>2. At(1 + 1) = At(1) + Dims[1] /\ At(2 + 1) = At(2) + Dims[2] /\ At(3 + 1) = At(3) + Dims[3]
        /\ At(4 + 1) = At(4) + Dims[4] /\ At(5 + 1) = At(5) + Dims[5]
    BY <1>1, RegionsBegin
  <2>3. At(6 + 1) = At(6) + Dims[6] /\ At(7 + 1) = At(7) + Dims[7] /\ At(8 + 1) = At(8) + Dims[8]
        /\ At(9 + 1) = At(9) + Dims[9] /\ At(10 + 1) = At(10) + Dims[10]
    BY <1>1, RegionsBegin
  <2> QED
    BY <2>1, <2>2, <2>3
<1>7. ASSUME NEW j \in 1..11, NEW k \in 1..11, j < k PROVE At(j) + Dims[j] <= At(k)
  <2>1. /\ k > 1 => At(k) >= 263
        /\ k > 2 => At(k) >= 519
        /\ k > 3 => At(k) >= 696
        /\ k > 4 => At(k) >= 770
        /\ k > 5 => At(k) >= 994
    BY <1>3, RegionsBegin
  <2>2. /\ k > 6 => At(k) >= 2276
        /\ k > 7 => At(k) >= 2405
        /\ k > 8 => At(k) >= 2439
        /\ k > 9 => At(k) >= 2472
        /\ k > 10 => At(k) >= 2480
    BY <1>3, RegionsBegin
  <2>3. /\ j = 1 => At(j) + Dims[j] = 263
        /\ j = 2 => At(j) + Dims[j] = 519
        /\ j = 3 => At(j) + Dims[j] = 696
        /\ j = 4 => At(j) + Dims[j] = 770
        /\ j = 5 => At(j) + Dims[j] = 994
    BY <1>1, RegionsBegin
  <2>4. /\ j = 6 => At(j) + Dims[j] = 2276
        /\ j = 7 => At(j) + Dims[j] = 2405
        /\ j = 8 => At(j) + Dims[j] = 2439
        /\ j = 9 => At(j) + Dims[j] = 2472
        /\ j = 10 => At(j) + Dims[j] = 2480
    BY <1>1, RegionsBegin
  <2>5. j \in Int /\ k \in Int /\ j # 11
    BY <1>7
  <2> QED
    BY <1>3, <1>7, <2>1, <2>2, <2>3, <2>4, <2>5
<1>8. ASSUME NEW j \in 1..11, NEW k \in 1..11, j # k PROVE Region(j) \cap Region(k) = {}
  <2>1. At(j) + Dims[j] <= At(k) \/ At(k) + Dims[k] <= At(j)
    BY <1>7, <1>8
  <2>2. Region(j) = At(j)..(At(j) + Dims[j] - 1) /\ Region(k) = At(k)..(At(k) + Dims[k] - 1)
    BY <1>4, Zenon
  <2>3. At(j) \in Nat /\ At(k) \in Nat /\ Dims[j] \in Nat /\ Dims[k] \in Nat
    BY <1>5
  <2> QED
    BY <2>1, <2>2, <2>3
<1>9. ASSUME NEW k \in 1..11 PROVE Region(k) \subseteq 0..(NumFeatures - 1)
  <2>1. Region(k) = At(k)..(At(k) + Dims[k] - 1)
    BY <1>4, Zenon
  <2>2. /\ At(k) + Dims[k] <= NumFeatures
        /\ At(k) \in Nat /\ Dims[k] \in Nat /\ NumFeatures \in Int
    BY <1>5, RegionsBegin
  <2> QED
    BY <2>1, <2>2
<1>10. ASSUME NEW c \in 0..(NumFeatures - 1) PROVE \E k \in 1..11 : c \in Region(k)
  <2>1. c \in Nat /\ c < 2568
    BY RegionsBegin
  <2>2. \/ At(1) <= c /\ c < At(1) + Dims[1]
        \/ At(2) <= c /\ c < At(2) + Dims[2]
        \/ At(3) <= c /\ c < At(3) + Dims[3]
        \/ At(4) <= c /\ c < At(4) + Dims[4]
        \/ At(5) <= c /\ c < At(5) + Dims[5]
        \/ At(6) <= c /\ c < At(6) + Dims[6]
        \/ At(7) <= c /\ c < At(7) + Dims[7]
        \/ At(8) <= c /\ c < At(8) + Dims[8]
        \/ At(9) <= c /\ c < At(9) + Dims[9]
        \/ At(10) <= c /\ c < At(10) + Dims[10]
        \/ At(11) <= c /\ c < At(11) + Dims[11]
    BY <1>1, <2>1, RegionsBegin
  <2>3. \E k \in 1..11 : At(k) <= c /\ c < At(k) + Dims[k]
    BY <2>2
  <2>4. PICK k \in 1..11 : At(k) <= c /\ c < At(k) + Dims[k]
    BY <2>3
  <2>5. Region(k) = At(k)..(At(k) + Dims[k] - 1)
    BY <1>4, Zenon
  <2>6. At(k) \in Nat /\ Dims[k] \in Nat
    BY <1>5
  <2>7. c \in Region(k)
    BY <2>1, <2>4, <2>5, <2>6
  <2> QED
    BY <2>7
<1>11. \A k \in 1..11 : Dims[k] \in Nat /\ At(k) \in Nat
  BY <1>5
<1>12. At(1) = 0
  BY RegionsBegin
<1> QED
  BY <1>2, <1>4, <1>6, <1>8, <1>9, <1>10, <1>11, <1>12, Zenon

-----------------------------------------------------------------------------
(* What the feature types write *)

\* A list that is longer by one write.
LEMMA Longer ==
    ASSUME NEW s, NEW t, NEW w, NEW S, s \in Seq(S), t \in Seq(S), w \in S, Len(t) = Len(s) + 1,
           \A i \in 1..Len(s) : t[i] = s[i], t[Len(t)] = w
    PROVE  t = s \o <<w>>
<1> DEFINE u == s \o <<w>>
           m == Len(s)
<1>1. <<w>> \in Seq(S) /\ Len(<<w>>) = 1 /\ <<w>>[1] = w
  OBVIOUS
<1>2. u \in Seq(S) /\ Len(u) = m + 1 /\ m \in Nat /\ (\A i \in 1..m : u[i] = s[i]) /\ u[m + 1] = w
  BY <1>1, ConcatProperties, LenProperties
<1> HIDE DEF u, m
<1>3. \A i \in 1..(m + 1) : i \in 1..m \/ i = m + 1
  BY <1>2
<1>4. Len(t) = m + 1 /\ (\A i \in 1..m : t[i] = s[i]) /\ t[m + 1] = w
  BY DEF m
<1>5. \A i \in 1..Len(t) : t[i] = u[i]
  BY <1>2, <1>3, <1>4
<1> QED
  BY <1>2, <1>4, <1>5, SeqEqual DEF u

\* Lists, write by write.
LEMMA TidyTwo ==
    ASSUME NEW d, NEW A, NEW C, NEW v1, NEW v2,
           Tidy(<<v1>> \o <<v2>>, d, A, C)
    PROVE  Tidy(<<v1, v2>>, d, A, C)
<1> DEFINE S == {v1, v2}
           s == <<v1>>
           t == <<v1, v2>>
<1>1. v1 \in S /\ v2 \in S
  OBVIOUS
<1> HIDE DEF S
<1>2. s \in Seq(S) /\ t \in Seq(S)
  BY <1>1
<1>3. Len(t) = Len(s) + 1 /\ (\A i \in 1..Len(s) : t[i] = s[i]) /\ t[Len(t)] = v2
  OBVIOUS
<1>4. Tidy(s \o <<v2>>, d, A, C)
  OBVIOUS
<1> HIDE DEF s, t
<1>5. t = s \o <<v2>>
  BY <1>1, <1>2, <1>3, Longer
<1>6. Tidy(t, d, A, C)
  BY <1>4, <1>5
<1> QED
  BY <1>6 DEF t

LEMMA TidyThree ==
    ASSUME NEW d, NEW A, NEW C, NEW v1, NEW v2, NEW v3,
           Tidy(<<v1, v2>> \o <<v3>>, d, A, C)
    PROVE  Tidy(<<v1, v2, v3>>, d, A, C)
<1> DEFINE S == {v1, v2, v3}
           s == <<v1, v2>>
           t == <<v1, v2, v3>>
<1>1. v1 \in S /\ v2 \in S /\ v3 \in S
  OBVIOUS
<1> HIDE DEF S
<1>2. s \in Seq(S) /\ t \in Seq(S)
  BY <1>1
<1>3. Len(t) = Len(s) + 1 /\ (\A i \in 1..Len(s) : t[i] = s[i]) /\ t[Len(t)] = v3
  OBVIOUS
<1>4. Tidy(s \o <<v3>>, d, A, C)
  OBVIOUS
<1> HIDE DEF s, t
<1>5. t = s \o <<v3>>
  BY <1>1, <1>2, <1>3, Longer
<1>6. Tidy(t, d, A, C)
  BY <1>4, <1>5
<1> QED
  BY <1>6 DEF t

LEMMA TidyFour ==
    ASSUME NEW d, NEW A, NEW C, NEW v1, NEW v2, NEW v3, NEW v4,
           Tidy(<<v1, v2, v3>> \o <<v4>>, d, A, C)
    PROVE  Tidy(<<v1, v2, v3, v4>>, d, A, C)
<1> DEFINE S == {v1, v2, v3, v4}
           s == <<v1, v2, v3>>
           t == <<v1, v2, v3, v4>>
<1>1. v1 \in S /\ v2 \in S /\ v3 \in S /\ v4 \in S
  OBVIOUS
<1> HIDE DEF S
<1>2. s \in Seq(S) /\ t \in Seq(S)
  BY <1>1
<1>3. Len(t) = Len(s) + 1 /\ (\A i \in 1..Len(s) : t[i] = s[i]) /\ t[Len(t)] = v4
  OBVIOUS
<1>4. Tidy(s \o <<v4>>, d, A, C)
  OBVIOUS
<1> HIDE DEF s, t
<1>5. t = s \o <<v4>>
  BY <1>1, <1>2, <1>3, Longer
<1>6. Tidy(t, d, A, C)
  BY <1>4, <1>5
<1> QED
  BY <1>6 DEF t

LEMMA TidyFive ==
    ASSUME NEW d, NEW A, NEW C, NEW v1, NEW v2, NEW v3, NEW v4, NEW v5,
           Tidy(<<v1, v2, v3, v4>> \o <<v5>>, d, A, C)
    PROVE  Tidy(<<v1, v2, v3, v4, v5>>, d, A, C)
<1> DEFINE S == {v1, v2, v3, v4, v5}
           s == <<v1, v2, v3, v4>>
           t == <<v1, v2, v3, v4, v5>>
<1>1. v1 \in S /\ v2 \in S /\ v3 \in S /\ v4 \in S /\ v5 \in S
  OBVIOUS
<1> HIDE DEF S
<1>2. s \in Seq(S) /\ t \in Seq(S)
  BY <1>1
<1>3. Len(t) = Len(s) + 1 /\ (\A i \in 1..Len(s) : t[i] = s[i]) /\ t[Len(t)] = v5
  OBVIOUS
<1>4. Tidy(s \o <<v5>>, d, A, C)
  OBVIOUS
<1> HIDE DEF s, t
<1>5. t = s \o <<v5>>
  BY <1>1, <1>2, <1>3, Longer
<1>6. Tidy(t, d, A, C)
  BY <1>4, <1>5
<1> QED
  BY <1>6 DEF t

LEMMA TidySix ==
    ASSUME NEW d, NEW A, NEW C, NEW v1, NEW v2, NEW v3, NEW v4, NEW v5, NEW v6,
           Tidy(<<v1, v2, v3, v4, v5>> \o <<v6>>, d, A, C)
    PROVE  Tidy(<<v1, v2, v3, v4, v5, v6>>, d, A, C)
<1> DEFINE S == {v1, v2, v3, v4, v5, v6}
           s == <<v1, v2, v3, v4, v5>>
           t == <<v1, v2, v3, v4, v5, v6>>
<1>1. v1 \in S /\ v2 \in S /\ v3 \in S /\ v4 \in S /\ v5 \in S /\ v6 \in S
  OBVIOUS
<1> HIDE DEF S
<1>2. s \in Seq(S) /\ t \in Seq(S)
  BY <1>1
<1>3. Len(t) = Len(s) + 1 /\ (\A i \in 1..Len(s) : t[i] = s[i]) /\ t[Len(t)] = v6
  OBVIOUS
<1>4. Tidy(s \o <<v6>>, d, A, C)
  OBVIOUS
<1> HIDE DEF s, t
<1>5. t = s \o <<v6>>
  BY <1>1, <1>2, <1>3, Longer
<1>6. Tidy(t, d, A, C)
  BY <1>4, <1>5
<1> QED
  BY <1>6 DEF t

LEMMA TidySeven ==
    ASSUME NEW d, NEW A, NEW C, NEW v1, NEW v2, NEW v3, NEW v4, NEW v5, NEW v6, NEW v7,
           Tidy(<<v1, v2, v3, v4, v5, v6>> \o <<v7>>, d, A, C)
    PROVE  Tidy(<<v1, v2, v3, v4, v5, v6, v7>>, d, A, C)
<1> DEFINE S == {v1, v2, v3, v4, v5, v6, v7}
           s == <<v1, v2, v3, v4, v5, v6>>
           t == <<v1, v2, v3, v4, v5, v6, v7>>
<1>1. v1 \in S /\ v2 \in S /\ v3 \in S /\ v4 \in S /\ v5 \in S /\ v6 \in S /\ v7 \in S
  OBVIOUS
<1> HIDE DEF S
<1>2. s \in Seq(S) /\ t \in Seq(S)
  BY <1>1
<1>3. Len(t) = Len(s) + 1 /\ (\A i \in 1..Len(s) : t[i] = s[i]) /\ t[Len(t)] = v7
  OBVIOUS
<1>4. Tidy(s \o <<v7>>, d, A, C)
  OBVIOUS
<1> HIDE DEF s, t
<1>5. t = s \o <<v7>>
  BY <1>1, <1>2, <1>3, Longer
<1>6. Tidy(t, d, A, C)
  BY <1>4, <1>5
<1> QED
  BY <1>6 DEF t

\* The first m cells of a region of d, and no others, are assigned and written.
FillsTo(W, d, m) == Tidy(W, d, Filled(m), Filled(m))

\* The next n cells.
LEMMA TidyNext ==
    ASSUME NEW U, NEW d \in Nat, NEW at \in Nat, NEW n \in Nat, NEW m \in Nat,
           m = at + n, m <= d, FillsTo(U, d, at)
    PROVE  FillsTo(U \o <<Assign(at, n)>>, d, m)
<1>1. at + n <= d /\ at + n - 1 = m - 1
  OBVIOUS
<1>2. Tidy(<<Assign(at, n)>>, d, at..(at + n - 1), at..(at + n - 1))
  BY <1>1, TidyOne
<1>3. Tidy(<<Assign(at, n)>>, d, at..(m - 1), at..(m - 1))
  BY <1>1, <1>2
<1>4. 0 <= at /\ at <= m /\ 0 \in Int /\ at \in Int /\ m \in Int
  OBVIOUS
<1>5. Tidy(U, d, 0..(at - 1), 0..(at - 1))
  BY DEF FillsTo, Filled
<1>6. Tidy(U \o <<Assign(at, n)>>, d, 0..(m - 1), 0..(m - 1))
  BY <1>3, <1>4, <1>5, TidyFollow
<1> QED
  BY <1>6 DEF FillsTo, Filled

LEMMA TidyFirst ==
    ASSUME NEW d \in Nat, NEW m \in Nat, m <= d
    PROVE  FillsTo(<<Assign(0, m)>>, d, m)
<1>1. 0 + m <= d /\ 0 + m - 1 = m - 1 /\ 0 \in Nat
  OBVIOUS
<1>2. Tidy(<<Assign(0, m)>>, d, 0..(0 + m - 1), 0..(0 + m - 1))
  BY <1>1, TidyOne
<1> QED
  BY <1>1, <1>2 DEF FillsTo, Filled

LEMMA GeneralFills == Fills(GeneralFinalize, 263)
<1> DEFINE a == Assign(0, 1)
           b == Assign(1, 1)
           c == Assign(2, 1)
           d == Assign(3, 4)
           e == Assign(7, 256)
<1>1. GeneralFinalize = <<a, b, c, d, e>>
  BY DEF GeneralFinalize, NumFirstBytes
<1>2. FillsTo(<<a>>, 263, 1)
  BY TidyFirst
<1>3. FillsTo(<<a>> \o <<b>>, 263, 2)
  BY <1>2, TidyNext
<1>4. FillsTo(<<a, b>> \o <<c>>, 263, 3)
  BY <1>3, TidyNext, TidyTwo DEF FillsTo
<1>5. FillsTo(<<a, b, c>> \o <<d>>, 263, 7)
  BY <1>4, TidyNext, TidyThree DEF FillsTo
<1>6. FillsTo(<<a, b, c, d>> \o <<e>>, 263, 263)
  BY <1>5, TidyNext, TidyFour DEF FillsTo
<1> HIDE DEF a, b, c, d, e
<1>7. FillsTo(<<a, b, c, d, e>>, 263, 263)
  BY <1>6, TidyFive DEF FillsTo
<1> QED
  BY <1>1, <1>7 DEF Fills, FillsTo

LEMMA StringsFill == Fills(StringsFinalize, 177)
<1> DEFINE a == Assign(0, 1)
           b == Assign(1, 1)
           c == Assign(2, 1)
           d == Assign(3, 96)
           e == Update(3, 96)
           f == Assign(99, 1)
           g == Assign(100, 77)
<1>1. StringsFinalize = <<a, b, c, d, e, f, g>>
  BY DEF StringsFinalize, NumReadable, NumInterestingRegexes
<1>2. FillsTo(<<a>>, 177, 1)
  BY TidyFirst
<1>3. FillsTo(<<a>> \o <<b>>, 177, 2)
  BY <1>2, TidyNext
<1>4. FillsTo(<<a, b>> \o <<c>>, 177, 3)
  BY <1>3, TidyNext, TidyTwo DEF FillsTo
<1>5. FillsTo(<<a, b, c>> \o <<d>>, 177, 99)
  BY <1>4, TidyNext, TidyThree DEF FillsTo
<1>6. FillsTo(<<a, b, c, d>> \o <<e>>, 177, 99)
  <2>1. Tidy(<<a, b, c, d>>, 177, Filled(99), Filled(99))
    BY <1>5, TidyFour DEF FillsTo
  <2>2. 3..(3 + 96 - 1) \subseteq Filled(99)
    BY DEF Filled
  <2> QED
    BY <2>1, <2>2, TidyUpdate DEF FillsTo
<1>7. FillsTo(<<a, b, c, d, e>> \o <<f>>, 177, 100)
  BY <1>6, TidyNext, TidyFive DEF FillsTo
<1>8. FillsTo(<<a, b, c, d, e, f>> \o <<g>>, 177, 177)
  BY <1>7, TidyNext, TidySix DEF FillsTo
<1> HIDE DEF a, b, c, d, e, f, g
<1>9. FillsTo(<<a, b, c, d, e, f, g>>, 177, 177)
  BY <1>8, TidySeven DEF FillsTo
<1> QED
  BY <1>1, <1>9 DEF Fills, FillsTo

LEMMA EntropyFills == Fills(EntropyStart, 256)
<1>1. Tidy(EntropyStart, 256, {}, Filled(256))
  BY TidyClear DEF EntropyStart, EntropyDim
<1> QED
  BY <1>1, TidyWeaker DEF Fills

\* A list that fills the next cells.
LEMMA TidyNextList ==
    ASSUME NEW U, NEW V, NEW d, NEW at \in Nat, NEW m \in Nat, at <= m,
           FillsTo(U, d, at), Tidy(V, d, at..(m - 1), at..(m - 1))
    PROVE  FillsTo(U \o V, d, m)
<1>1. 0 \in Int /\ at \in Int /\ m \in Int /\ 0 <= at
  OBVIOUS
<1>2. Tidy(U, d, 0..(at - 1), 0..(at - 1))
  BY DEF FillsTo, Filled
<1>3. Tidy(U \o V, d, 0..(m - 1), 0..(m - 1))
  BY <1>1, <1>2, TidyFollow
<1> QED
  BY <1>3 DEF FillsTo, Filled

\* An encoding is cleared and written.
LEMMA TidyEncoding ==
    ASSUME NEW U, NEW d \in Nat, NEW at \in Nat, NEW n \in Nat, NEW m \in Nat,
           m = at + n, m <= d, FillsTo(U, d, at)
    PROVE  FillsTo(U \o <<Clear(at, n), Assign(at, n)>>, d, m)
<1> DEFINE S == at..(m - 1)
           c == Clear(at, n)
           a == Assign(at, n)
<1>1. at + n <= d /\ at..(at + n - 1) = S /\ at <= m
  OBVIOUS
<1>2. Tidy(<<c>>, d, {}, at..(at + n - 1)) /\ Tidy(<<a>>, d, at..(at + n - 1), at..(at + n - 1))
  BY <1>1, TidyOne
<1>3. Tidy(<<c>>, d, {}, S) /\ Tidy(<<a>>, d, S, S)
  BY <1>1, <1>2
<1> HIDE DEF S, c, a
<1>4. Tidy(<<c>> \o <<a>>, d, {} \cup S, S \cup S)
  BY <1>3, TidyJoin
<1>5. {} \cup S = S /\ S \cup S = S
  OBVIOUS
<1>6. Tidy(<<c>> \o <<a>>, d, S, S)
  BY <1>4, <1>5
<1>7. Tidy(<<c, a>>, d, S, S)
  BY <1>6, TidyTwo
<1> QED
  BY <1>1, <1>7, TidyNextList DEF S, c, a

LEMMA HeaderFills == ASSUME NEW f, f.isPE \in BOOLEAN PROVE Fills(HeaderStart(f), 74)
<1> DEFINE W1 == <<Assign(0, 5)>>
           W2 == W1 \o MachineTypeEncoding
           W3 == W2 \o SubsystemEncoding
           W4 == W3 \o <<Assign(7, 23)>>
           W5 == W4 \o CoffEncoding
           W6 == W5 \o DllEncoding
           W7 == W6 \o DosEncoding
<1>1. /\ MachineTypeEncoding = <<Clear(5, 1), Assign(5, 1)>>
      /\ SubsystemEncoding = <<Clear(6, 1), Assign(6, 1)>>
      /\ CoffEncoding = <<Clear(30, 16), Assign(30, 16)>>
      /\ DllEncoding = <<Clear(46, 11), Assign(46, 11)>>
      /\ DosEncoding = <<Assign(57, 17)>>
  BY DEF MachineTypeEncoding, SubsystemEncoding, CoffEncoding, DllEncoding, DosEncoding,
         DosVectorAt, DllVectorAt, CoffVectorAt, ImageVersionAt, SubsystemAt, MachineTypeAt,
         MachineTypeDim, SubsystemTypeDim, CoffCharacteristicsDim, DllCharacteristicsDim, DosHeadersDim
<1>2. HeaderStart(f) = <<Clear(0, 74)>> \o When(f.isPE, W7)
  BY DEF HeaderStart, HeaderDim, ImageVersionAt, SubsystemAt, MachineTypeAt, MachineTypeDim, SubsystemTypeDim
<1>3. FillsTo(W1, 74, 5)
  BY TidyFirst
<1> HIDE DEF W1
<1>4. FillsTo(W2, 74, 6)
  BY <1>1, <1>3, TidyEncoding
<1> HIDE DEF W2
<1>5. FillsTo(W3, 74, 7)
  BY <1>1, <1>4, TidyEncoding
<1> HIDE DEF W3
<1>6. FillsTo(W4, 74, 30)
  BY <1>5, TidyNext
<1> HIDE DEF W4
<1>7. FillsTo(W5, 74, 46)
  BY <1>1, <1>6, TidyEncoding
<1> HIDE DEF W5
<1>8. FillsTo(W6, 74, 57)
  BY <1>1, <1>7, TidyEncoding
<1> HIDE DEF W6
<1>9. FillsTo(W7, 74, 74)
  BY <1>1, <1>8, TidyNext
<1> HIDE DEF W7
<1>10. Tidy(<<Clear(0, 74)>>, 74, {}, Filled(74))
  BY TidyClear
<1>11. Tidy(<<Clear(0, 74)>> \o When(f.isPE, W7), 74, Filled(74), Filled(74))
  BY <1>9, <1>10, TidyWhen DEF FillsTo
<1> QED
  BY <1>2, <1>11 DEF Fills

\* One more write, of a list of which only the assignments matter.
LEMMA TidyMore ==
    ASSUME NEW U, NEW d \in Nat, NEW A, NEW B, NEW at \in Nat, NEW n \in Nat, at + n <= d,
           Tidy(U, d, A, {}), A \subseteq B,
           \A c \in Int : at <= c /\ c < at + n => c \notin A /\ c \in B
    PROVE  Tidy(U \o <<Assign(at, n)>>, d, B, {})
<1> DEFINE a == Assign(at, n)
           S == at..(at + n - 1)
<1>1. Tidy(<<a>>, d, S, S)
  BY TidyOne
<1>2. A \cap S = {} /\ A \cup S \subseteq B
  OBVIOUS
<1> HIDE DEF a, S
<1>3. Tidy(<<a>>, d, S, {})
  BY <1>1, TidyWeaker
<1>4. {} \cup {} = {}
  OBVIOUS
<1>5. Tidy(U \o <<a>>, d, A \cup S, {} \cup {})
  BY <1>2, <1>3, TidyJoin
<1> DEFINE W == U \o <<a>>
           D == A \cup S
<1>6. Tidy(W, d, D, {})
  BY <1>4, <1>5
<1>7. D \subseteq B
  BY <1>2
<1> HIDE DEF W, D
<1>8. Tidy(W, d, B, {})
  BY <1>6, <1>7, TidyWeaker
<1> QED
  BY <1>8 DEF W, a

LEMMA TidyMoreCleared ==
    ASSUME NEW U, NEW d \in Nat, NEW A, NEW at \in Nat, NEW n \in Nat, at + n <= d, Tidy(U, d, A, {})
    PROVE  Tidy(U \o <<Clear(at, n)>>, d, A, {})
<1> DEFINE S == at..(at + n - 1)
           c == Clear(at, n)
<1>1. Tidy(<<c>>, d, {}, S)
  BY TidyOne
<1> HIDE DEF S, c
<1>2. Tidy(<<c>>, d, {}, {})
  BY <1>1, TidyWeaker
<1>3. A \cap {} = {} /\ A \cup {} = A /\ {} \cup {} = {}
  OBVIOUS
<1>4. Tidy(U \o <<c>>, d, A \cup {}, {} \cup {})
  BY <1>2, <1>3, TidyJoin
<1>5. Tidy(U \o <<c>>, d, A, {})
  BY <1>3, <1>4
<1> QED
  BY <1>5 DEF c

LEMMA TidyBegin ==
    ASSUME NEW d \in Nat, NEW at \in Nat, NEW n \in Nat, at + n <= d
    PROVE  Tidy(<<Clear(at, n)>>, d, {}, {})
<1> DEFINE W == <<Clear(at, n)>>
           S == at..(at + n - 1)
<1>1. Tidy(W, d, {}, S)
  BY TidyOne
<1> HIDE DEF W, S
<1>2. Tidy(W, d, {}, {})
  BY <1>1, TidyWeaker
<1> QED
  BY <1>2 DEF W

\* A region that is cleared, and more written into it of a file that has the part.
LEMMA ClearedFills ==
    ASSUME NEW d \in Nat, NEW V, NEW A, NEW condition \in BOOLEAN, A \subseteq Filled(d),
           condition => Tidy(V, d, A, {})
    PROVE  Fills(<<Clear(0, d)>> \o When(condition, V), d)
<1>1. Tidy(<<Clear(0, d)>>, d, {}, Filled(d))
  BY TidyClear
<1> DEFINE W == <<Clear(0, d)>> \o When(condition, V)
<1>2. Tidy(W, d, A, Filled(d))
  BY <1>1, TidyWhen
<1> HIDE DEF W
<1>3. Tidy(W, d, Filled(d), Filled(d))
  BY <1>2, TidyWeaker
<1> QED
  BY <1>3 DEF Fills, W

LEMMA ImportsFill ==
    ASSUME NEW f, f.isPE \in BOOLEAN, f.imports \in BOOLEAN
    PROVE  Fills(ImportsStart(f), 1282)
<1> DEFINE a == Clear(2, 256)
           b == Clear(258, 1024)
           c == Assign(2, 256)
           e == Assign(258, 1024)
           g == Assign(0, 1)
           h == Assign(1, 1)
           W == <<a, b, c, e, g, h>>
           E == {0} \cup (2..1281)
           C == 0..1281
           condition == f.isPE /\ f.imports
<1>1. ImportsStart(f) = <<Clear(0, 1282)>> \o When(condition, W)
  BY DEF ImportsStart, ImportsDim, HasherStart, HasherFinalize, LibrariesHashed, FunctionsHashed
<1>2. Tidy(<<a>>, 1282, {}, {})
  BY TidyBegin
<1>3. Tidy(<<a, b>>, 1282, {}, {})
  <2>1. Tidy(<<a>> \o <<b>>, 1282, {}, {})
    BY <1>2, TidyMoreCleared
  <2> QED
    BY <2>1, TidyTwo
<1>4. Tidy(<<a, b, c>>, 1282, 2..257, {})
  <2>1. {} \subseteq (2..257) /\ \A v \in Int : 2 <= v /\ v < 258 => v \notin {} /\ v \in (2..257)
    OBVIOUS
  <2>2. Tidy(<<a, b>> \o <<c>>, 1282, 2..257, {})
    BY <1>3, <2>1, TidyMore
  <2> QED
    BY <2>2, TidyThree
<1>5. Tidy(<<a, b, c, e>>, 1282, 2..1281, {})
  <2>1. (2..257) \subseteq (2..1281) /\ \A v \in Int : 258 <= v /\ v < 1282 => v \notin (2..257) /\ v \in (2..1281)
    OBVIOUS
  <2>2. Tidy(<<a, b, c>> \o <<e>>, 1282, 2..1281, {})
    BY <1>4, <2>1, TidyMore
  <2> QED
    BY <2>2, TidyFour
<1>6. Tidy(<<a, b, c, e, g>>, 1282, E, {})
  <2> DEFINE U == <<a, b, c, e>>
             A == 2..1281
  <2>1. A \subseteq E /\ \A v \in Int : 0 <= v /\ v < 0 + 1 => v \notin A /\ v \in E
    OBVIOUS
  <2>2. Tidy(U, 1282, A, {})
    BY <1>5
  <2> HIDE DEF U, A, E
  <2>3. Tidy(U \o <<g>>, 1282, E, {})
    BY <2>1, <2>2, TidyMore
  <2> QED
    BY <2>3, TidyFive DEF U
<1>7. Tidy(W, 1282, C, {})
  <2> DEFINE U == <<a, b, c, e, g>>
  <2>1. E \subseteq C /\ \A v \in Int : 1 <= v /\ v < 1 + 1 => v \notin E /\ v \in C
    OBVIOUS
  <2>2. Tidy(U, 1282, E, {})
    BY <1>6
  <2> HIDE DEF U, E, C
  <2>3. Tidy(U \o <<h>>, 1282, C, {})
    BY <2>1, <2>2, TidyMore
  <2> QED
    BY <2>3, TidySix DEF U
<1>8. C \subseteq Filled(1282) /\ condition \in BOOLEAN
  BY DEF Filled
<1> HIDE DEF W, C, condition
<1>9. Fills(<<Clear(0, 1282)>> \o When(condition, W), 1282)
  BY <1>7, <1>8, ClearedFills
<1> QED
  BY <1>1, <1>9

LEMMA ExportsFill ==
    ASSUME NEW f, f.isPE \in BOOLEAN, f.exports \in BOOLEAN
    PROVE  Fills(ExportsStart(f), 129)
<1> DEFINE a == Clear(1, 128)
           b == Assign(1, 128)
           c == Assign(0, 1)
           W == <<a, b, c>>
<1>1. ExportsStart(f) = <<Clear(0, 129)>> \o When(f.isPE /\ f.exports, W)
  BY DEF ExportsStart, ExportsDim, HasherStart, HasherFinalize
<1>2. Tidy(<<a>>, 129, {}, {})
  BY TidyBegin
<1>3. Tidy(<<a, b>>, 129, 1..128, {})
  <2>1. {} \subseteq (1..128) /\ \A v \in Int : 1 <= v /\ v < 129 => v \notin {} /\ v \in (1..128)
    OBVIOUS
  <2>2. Tidy(<<a>> \o <<b>>, 129, 1..128, {})
    BY <1>2, <2>1, TidyMore
  <2> QED
    BY <2>2, TidyTwo
<1>4. Tidy(W, 129, 0..128, {})
  <2>1. (1..128) \subseteq (0..128) /\ \A v \in Int : 0 <= v /\ v < 1 => v \notin (1..128) /\ v \in (0..128)
    OBVIOUS
  <2>2. Tidy(<<a, b>> \o <<c>>, 129, 0..128, {})
    BY <1>3, <2>1, TidyMore
  <2> QED
    BY <2>2, TidyThree
<1>5. 0..128 \subseteq Filled(129) /\ (f.isPE /\ f.exports) \in BOOLEAN
  BY DEF Filled
<1> HIDE DEF W
<1> QED
  BY <1>1, <1>4, <1>5, ClearedFills

LEMMA RichHeaderFills ==
    ASSUME NEW f, f.isPE \in BOOLEAN, f.richBytes \in Nat
    PROVE  Fills(RichHeaderStart(f), 33)
<1> DEFINE a == Clear(1, 32)
           b == Assign(0, 1)
           c == Assign(1, 32)
           W == <<a, b, c>>
<1>1. RichHeaderStart(f) = <<Clear(0, 33)>> \o When(f.isPE /\ f.richBytes \div 4 >= 2, W)
  BY DEF RichHeaderStart, RichHeaderDim, HasherStart, HasherFinalize
<1>2. Tidy(<<a>>, 33, {}, {})
  BY TidyBegin
<1>3. Tidy(<<a, b>>, 33, 0..0, {})
  <2>1. {} \subseteq (0..0) /\ \A v \in Int : 0 <= v /\ v < 1 => v \notin {} /\ v \in (0..0)
    OBVIOUS
  <2>2. Tidy(<<a>> \o <<b>>, 33, 0..0, {})
    BY <1>2, <2>1, TidyMore
  <2> QED
    BY <2>2, TidyTwo
<1>4. Tidy(W, 33, 0..32, {})
  <2>1. (0..0) \subseteq (0..32) /\ \A v \in Int : 1 <= v /\ v < 33 => v \notin (0..0) /\ v \in (0..32)
    OBVIOUS
  <2>2. Tidy(<<a, b>> \o <<c>>, 33, 0..32, {})
    BY <1>3, <2>1, TidyMore
  <2> QED
    BY <2>2, TidyThree
<1>5. 0..32 \subseteq Filled(33) /\ (f.isPE /\ f.richBytes \div 4 >= 2) \in BOOLEAN
  BY DEF Filled
<1> HIDE DEF W
<1> QED
  BY <1>1, <1>4, <1>5, ClearedFills

LEMMA AuthenticodeFills == ASSUME NEW f, f.isPE \in BOOLEAN PROVE Fills(AuthenticodeStart(f), 8)
<1> DEFINE W == [k \in 1..8 |-> Assign(k - 1, 1)]
<1>1. AuthenticodeStart(f) = <<Clear(0, 8)>> \o When(f.isPE, W)
  BY DEF AuthenticodeStart, AuthenticodeDim
<1>2. W = [k \in 1..8 |-> Assign(k - 1, 1)]
  OBVIOUS
<1> HIDE DEF W
<1>3. 8 \in Nat /\ 8 <= 8
  OBVIOUS
<1>4. Tidy(W, 8, Filled(8), Filled(8))
  BY <1>2, <1>3, TidyCells
<1>5. Tidy(W, 8, Filled(8), {})
  BY <1>4, TidyWeaker
<1> QED
  BY <1>1, <1>5, ClearedFills

LEMMA WarningsFill == Fills(WarningsStart, 88)
<1>1. Tidy(WarningsStart, 88, {}, Filled(88))
  BY TidyClear DEF WarningsStart, WarningsDim
<1> QED
  BY <1>1, TidyWeaker DEF Fills

\* Where the hashers of the section names write.
LEMMA HashersAre ==
    /\ SectionHashed(1) = 11 /\ SectionHashed(2) = 61 /\ SectionHashed(3) = 111
    /\ SectionHashed(4) = 161 /\ SectionHashed(5) = 211 /\ SectionHashed(6) = 221
    /\ SectionBuckets[1] = 50 /\ SectionBuckets[2] = 50 /\ SectionBuckets[3] = 50
    /\ SectionBuckets[4] = 50 /\ SectionBuckets[5] = 10
<1>1. SectionBuckets \in Seq(Nat) /\ Len(SectionBuckets) = 5
  BY DEF SectionBuckets
<1>2. /\ SectionBuckets[1] = 50 /\ SectionBuckets[2] = 50 /\ SectionBuckets[3] = 50
      /\ SectionBuckets[4] = 50 /\ SectionBuckets[5] = 10
  BY DEF SectionBuckets
<1> DEFINE S(k) == SumFunction(SubSeq(SectionBuckets, 1, k))
<1>3. S(0) = 0 /\ \A k \in 1..5 : S(k) = S(k - 1) + SectionBuckets[k]
  BY <1>1, SumsBefore
<1>4. \A k \in 1..6 : SectionHashed(k) = 11 + S(k - 1)
  BY DEF SectionHashed
<1> HIDE DEF S
<1>5. S(1) = 50 /\ S(2) = 100 /\ S(3) = 150 /\ S(4) = 200 /\ S(5) = 210
  BY <1>2, <1>3
<1> QED
  BY <1>2, <1>3, <1>4, <1>5

LEMMA HashersFill ==
    /\ Tidy(SectionHashersStart, 224, {}, 11..220)
    /\ Tidy(SectionHashersFinalize, 224, 11..220, 11..220)
<1> DEFINE a == [k \in 1..5 |-> SectionHashed(k)]
           b == [k \in 1..5 |-> SectionBuckets[k]]
           S == 11..220
<1>1. \A k \in 1..5 : k = 1 \/ k = 2 \/ k = 3 \/ k = 4 \/ k = 5
  OBVIOUS
<1>2. /\ a[1] = 11 /\ a[2] = 61 /\ a[3] = 111 /\ a[4] = 161 /\ a[5] = 211
      /\ b[1] = 50 /\ b[2] = 50 /\ b[3] = 50 /\ b[4] = 50 /\ b[5] = 10
  BY HashersAre
<1>3. a \in [1..5 -> Nat] /\ b \in [1..5 -> Nat]
  <2>1. \A k \in 1..5 : SectionHashed(k) \in Nat /\ SectionBuckets[k] \in Nat
    BY <1>1, HashersAre
  <2> QED
    BY <2>1
<1>4. /\ SectionHashersStart = [k \in 1..5 |-> [kind |-> "clear", at |-> a[k], n |-> b[k]]]
      /\ SectionHashersFinalize = [k \in 1..5 |-> [kind |-> "assign", at |-> a[k], n |-> b[k]]]
  BY DEF SectionHashersStart, SectionHashersFinalize, HasherStart, HasherFinalize, Clear, Assign
<1> HIDE DEF a, b
<1>5. \A k \in 1..5 : a[k] + b[k] <= 224
  BY <1>1, <1>2
<1>6. \A i, j \in 1..5 : i < j => a[i] + b[i] <= a[j] \/ a[j] + b[j] <= a[i]
  BY <1>1, <1>2
<1>7. \A k \in 1..5 : a[k]..(a[k] + b[k] - 1) \subseteq S
  BY <1>1, <1>2
<1>8. \A c \in S : \E k \in 1..5 : c \in a[k]..(a[k] + b[k] - 1)
  <2> SUFFICES ASSUME NEW c \in S PROVE \E k \in 1..5 : c \in a[k]..(a[k] + b[k] - 1)
    OBVIOUS
  <2>1. \/ c \in a[1]..(a[1] + b[1] - 1)
        \/ c \in a[2]..(a[2] + b[2] - 1)
        \/ c \in a[3]..(a[3] + b[3] - 1)
        \/ c \in a[4]..(a[4] + b[4] - 1)
        \/ c \in a[5]..(a[5] + b[5] - 1)
    BY <1>2
  <2> QED
    BY <2>1
<1> HIDE DEF S
<1> DEFINE U == SectionHashersStart
           V == SectionHashersFinalize
<1>9. U = [k \in 1..5 |-> [kind |-> "clear", at |-> a[k], n |-> b[k]]]
  BY <1>4
<1>10. V = [k \in 1..5 |-> [kind |-> "assign", at |-> a[k], n |-> b[k]]]
  BY <1>4
<1>11. 5 \in Nat /\ 224 \in Nat /\ "clear" \in {"clear", "assign"} /\ "assign" \in {"clear", "assign"}
  OBVIOUS
<1>12. Tidy(U, 224, IF "clear" = "assign" THEN S ELSE {}, S)
  BY <1>3, <1>5, <1>6, <1>7, <1>8, <1>9, <1>11, TidyOfKind
<1>13. Tidy(V, 224, IF "assign" = "assign" THEN S ELSE {}, S)
  BY <1>3, <1>5, <1>6, <1>7, <1>8, <1>10, <1>11, TidyOfKind
<1> QED
  BY <1>12, <1>13 DEF S

LEMMA SectionFills == ASSUME NEW f, f.isPE \in BOOLEAN PROVE Fills(SectionStart(f), 224)
<1>1. CASE ~f.isPE
  <2>1. SectionStart(f) = <<Clear(0, 224)>>
    BY <1>1 DEF SectionStart, SectionDim
  <2>2. Tidy(<<Clear(0, 224)>>, 224, {}, Filled(224))
    BY TidyClear
  <2> DEFINE W == <<Clear(0, 224)>>
  <2> HIDE DEF W
  <2>3. Tidy(W, 224, Filled(224), Filled(224))
    BY <2>2, TidyWeaker DEF W
  <2> QED
    BY <2>1, <2>3 DEF Fills, W
<1>2. CASE f.isPE
  <2> DEFINE W1 == SectionHashersStart \o SectionHashersFinalize
             C == [k \in 1..11 |-> Assign(k - 1, 1)]
             W2 == W1 \o C
             W3 == W2 \o <<Assign(221, 3)>>
             S == 11..220
             B == 0..220
  <2>1. SectionStart(f) = W3
    BY <1>2, HashersAre DEF SectionStart, OverlaySize
  <2>2. C = [k \in 1..11 |-> Assign(k - 1, 1)]
    OBVIOUS
  <2> HIDE DEF C
  <2>3. 224 \in Nat /\ 11 \in Nat /\ 11 <= 224
    OBVIOUS
  <2>4. Tidy(C, 224, Filled(11), Filled(11))
    BY <2>2, <2>3, TidyCells
  <2>5. /\ {} \cap S = {} /\ {} \cup S = S /\ S \cup S = S
        /\ S \cap Filled(11) = {} /\ S \cup Filled(11) = B /\ B = Filled(221)
    BY DEF Filled
  <2>6. Tidy(SectionHashersStart, 224, {}, S) /\ Tidy(SectionHashersFinalize, 224, S, S)
    BY HashersFill
  <2> HIDE DEF S, B
  <2>7. Tidy(W1, 224, S, S)
    <3>1. Tidy(W1, 224, {} \cup S, S \cup S)
      BY <2>5, <2>6, TidyJoin
    <3> QED
      BY <2>5, <3>1
  <2> HIDE DEF W1
  <2>8. Tidy(W2, 224, B, B)
    <3>1. Tidy(W2, 224, S \cup Filled(11), S \cup Filled(11))
      BY <2>4, <2>5, <2>7, TidyJoin
    <3> QED
      BY <2>5, <3>1
  <2> HIDE DEF W2
  <2>9. FillsTo(W2, 224, 221)
    BY <2>5, <2>8 DEF FillsTo
  <2>10. FillsTo(W3, 224, 224)
    BY <2>9, TidyNext
  <2> QED
    BY <2>1, <2>10 DEF Fills, FillsTo
<1> QED
  BY <1>1, <1>2

\* The cells of the k-th data directory.
DirectoryCells(k) == << Assign(2 * (k - 1), 1), Assign(2 * (k - 1) + 1, 1) >>

LEMMA DirectoryFills ==
    ASSUME NEW at \in Nat, NEW m \in Nat, m = at + 2, m <= 34
    PROVE  Tidy(<<Assign(at, 1), Assign(at + 1, 1)>>, 34, at..(m - 1), at..(m - 1))
<1> DEFINE mid == at + 1
           a == Assign(at, 1)
           b == Assign(mid, 1)
<1>1. /\ at + 1 <= 34 /\ at..(at + 1 - 1) = at..(mid - 1)
      /\ mid \in Nat /\ mid + 1 <= 34 /\ mid..(mid + 1 - 1) = mid..(m - 1)
      /\ at \in Int /\ mid \in Int /\ m \in Int /\ at <= mid /\ mid <= m
  OBVIOUS
<1>2. Tidy(<<a>>, 34, at..(at + 1 - 1), at..(at + 1 - 1))
  BY <1>1, TidyOne
<1>3. Tidy(<<b>>, 34, mid..(mid + 1 - 1), mid..(mid + 1 - 1))
  <2> HIDE DEF mid
  <2> QED
    BY <1>1, TidyOne
<1>4. Tidy(<<a>>, 34, at..(mid - 1), at..(mid - 1)) /\ Tidy(<<b>>, 34, mid..(m - 1), mid..(m - 1))
  <2> HIDE DEF mid, a, b
  <2> QED
    BY <1>1, <1>2, <1>3
<1> HIDE DEF mid, a, b
<1>5. Tidy(<<a>> \o <<b>>, 34, at..(m - 1), at..(m - 1))
  BY <1>1, <1>4, TidyFollow
<1>6. Tidy(<<a, b>>, 34, at..(m - 1), at..(m - 1))
  BY <1>5, TidyTwo
<1> QED
  BY <1>6 DEF a, b, mid

LEMMA DirectoriesFill ==
    ASSUME NEW F, NEW D \in 0..16, \A k \in 1..D : F[k] = DirectoryCells(k)
    PROVE  FillsTo(FlattenSeq(FirstOnes(F, D)), 34, 2 * D)
<1> DEFINE T == { n \in Nat : n <= D /\ ~FillsTo(FlattenSeq(FirstOnes(F, n)), 34, 2 * n) }
<1> SUFFICES ASSUME T # {} PROVE FALSE
  OBVIOUS
<1>1. PICK n \in T : \A k \in T : n <= k
  BY LeastNumber
<1>2. n \in Nat /\ n <= D /\ D \in Nat /\ D <= 16
  OBVIOUS
<1>3. CASE n = 0
  <2>1. FlattenSeq(FirstOnes(F, 0)) = <<>>
    BY FlattenNone
  <2>2. Filled(0) = {} /\ 2 * 0 = 0
    BY DEF Filled
  <2>3. FillsTo(<<>>, 34, 0)
    BY <2>2, TidyNone DEF FillsTo
  <2> QED
    BY <1>3, <2>1, <2>2, <2>3
<1>4. CASE n # 0
  <2> DEFINE p == n - 1
             at == 2 * p
             m == 2 * n
             U == FlattenSeq(FirstOnes(F, p))
  <2>1. p \in Nat /\ p + 1 = n /\ p <= D /\ p \notin T
    <3> HIDE DEF T
    <3> QED
      BY <1>1, <1>2, <1>4
  <2>2. FillsTo(U, 34, at)
    BY <2>1
  <2>3. at \in Nat /\ m \in Nat /\ m = at + 2 /\ m <= 34 /\ at <= m /\ 2 * (n - 1) = at
    BY <1>2, <1>4
  <2>4. F[n] = <<Assign(at, 1), Assign(at + 1, 1)>>
    BY <1>2, <1>4, <2>3 DEF DirectoryCells
  <2>5. Tidy(F[n], 34, at..(m - 1), at..(m - 1))
    <3> HIDE DEF at, m
    <3> QED
      BY <2>3, <2>4, DirectoryFills
  <2>6. FillsTo(U \o F[n], 34, m)
    <3> HIDE DEF at, m, U
    <3> QED
      BY <2>2, <2>3, <2>5, TidyNextList
  <2>7. FlattenSeq(FirstOnes(F, n)) = U \o F[n]
    <3>1. \A k \in 1..(p + 1) : F[k] \in Seq(WritesIn(34))
      <4> SUFFICES ASSUME NEW k \in 1..n PROVE F[k] \in Seq(WritesIn(34))
        BY <2>1
      <4>1. F[k] = DirectoryCells(k) /\ k \in Nat /\ k >= 1 /\ k <= 16
        BY <1>2
      <4>2. Assign(2 * (k - 1), 1) \in WritesIn(34) /\ Assign(2 * (k - 1) + 1, 1) \in WritesIn(34)
        BY <4>1 DEF Assign, WritesIn
      <4> QED
        BY <4>1, <4>2 DEF DirectoryCells
    <3> HIDE DEF p
    <3>2. FlattenSeq(FirstOnes(F, p + 1)) = FlattenSeq(FirstOnes(F, p)) \o F[p + 1]
      BY <2>1, <3>1, FlattenMore
    <3> QED
      BY <2>1, <3>2
  <2> QED
    BY <2>6, <2>7
<1> QED
  BY <1>3, <1>4

LEMMA DataDirectoriesFill ==
    ASSUME NEW f, f.isPE \in BOOLEAN, f.directories \in Nat
    PROVE  Fills(DataDirectoriesStart(f), 34)
<1> DEFINE D == Directories(f)
           G == [k \in 1..D |-> When(2 * (k - 1) + 1 < DirectoriesVectorDim,
                                     << Assign(2 * (k - 1), 1), Assign(2 * (k - 1) + 1, 1) >>)]
           V == <<Assign(32, 1), Assign(33, 1)>>
           W == FlattenSeq(G) \o V
           S == Filled(2 * D)
           R == 32..33
<1>1. D \in 0..16
  BY DEF Directories, NumDirectoryNames
<1>2. DataDirectoriesStart(f) = <<Clear(0, 34)>> \o When(f.isPE, W)
  BY DEF DataDirectoriesStart, DataDirectoriesDim, DirectoriesVectorDim
<1>3. S \cap R = {} /\ S \cup R \subseteq Filled(34)
  BY <1>1 DEF Filled
<1>4. Tidy(V, 34, R, R)
  <2>1. 32 \in Nat /\ 34 \in Nat /\ 34 = 32 + 2 /\ 34 <= 34 /\ 32 + 1 = 33 /\ 34 - 1 = 33
    OBVIOUS
  <2> QED
    BY <2>1, DirectoryFills
<1> HIDE DEF D
<1>5. \A k \in 1..D : G[k] = DirectoryCells(k)
  <2> SUFFICES ASSUME NEW k \in 1..D PROVE G[k] = DirectoryCells(k)
    OBVIOUS
  <2>1. 2 * (k - 1) + 1 < DirectoriesVectorDim
    BY <1>1 DEF DirectoriesVectorDim
  <2>2. G[k] = When(2 * (k - 1) + 1 < DirectoriesVectorDim,
                    << Assign(2 * (k - 1), 1), Assign(2 * (k - 1) + 1, 1) >>)
    OBVIOUS
  <2> QED
    BY <2>1, <2>2 DEF When, DirectoryCells
<1>6. FirstOnes(G, D) = G
  BY DEF FirstOnes
<1> HIDE DEF G, V, R
<1>7. FillsTo(FlattenSeq(FirstOnes(G, D)), 34, 2 * D)
  BY <1>1, <1>5, DirectoriesFill
<1>8. Tidy(FlattenSeq(G), 34, S, S)
  BY <1>6, <1>7 DEF FillsTo
<1> HIDE DEF S
<1>9. Tidy(W, 34, S \cup R, S \cup R)
  BY <1>3, <1>4, <1>8, TidyJoin
<1> HIDE DEF W
<1> DEFINE A == S \cup R
<1>10. A \subseteq Filled(34) /\ {} \subseteq A /\ Tidy(W, 34, A, A)
  BY <1>3, <1>9
<1> HIDE DEF A
<1>11. Tidy(W, 34, A, {})
  BY <1>10, TidyWeaker
<1> QED
  BY <1>2, <1>10, <1>11, ClearedFills

-----------------------------------------------------------------------------
(* The walk *)

\* Writes that only update.
OnlyUpdates(W, d) == W \in Seq(WritesIn(d)) /\ \A i \in DOMAIN W : W[i].kind = "update"

\* The pass in which region k is filled: general and strings are filled at the end.
Late == {1, 3}
Due(k) == IF k \in Late THEN "finalize" ELSE "start"

\* Region k has been filled; it has not been begun.
Over(k) == \/ k \notin Late /\ (pass \in {"reduce", "finalize"} \/ (pass = "start" /\ k < type))
           \/ k \in Late /\ pass = "finalize" /\ k < type
Ahead(k) == \/ k \notin Late /\ pass = "start" /\ type < k
            \/ k \in Late /\ (pass \in {"start", "reduce"} \/ (pass = "finalize" /\ type < k))

LayoutTypes ==
    /\ pass \in {"idle", "start", "reduce", "finalize"} /\ file \in Files
    /\ type \in 1..11 /\ vec = At(type) /\ todo \in Seq(WritesIn(Dims[type]))
    /\ written \subseteq 0..(NumFeatures - 1)

\* Between two runs.
Rest ==
    /\ pass = "idle" => todo = <<>> /\ type = 1 /\ (done => written = 0..(NumFeatures - 1))
    /\ pass # "idle" => ~done

\* The regions that are filled and those not begun.
Walked ==
    \A k \in 1..11 : /\ Over(k) => Region(k) \subseteq written
                     /\ Ahead(k) => Region(k) \cap given = {}

\* The region being filled is written by the end of the list, which assigns no cell twice.
Filling ==
    /\ pass = Due(type) => \A c \in Region(type) :
           c \in written \/ \E i \in DOMAIN todo : c \in Place(vec, todo[i])
    /\ pass # Due(type) => \A i : ~Is(todo, i, "assign")
    /\ \A i : Is(todo, i, "assign") => Place(vec, todo[i]) \cap given = {}
    /\ \A i, j : Is(todo, i, "assign") /\ Is(todo, j, "assign") /\ i < j
                    => Place(vec, todo[i]) \cap Place(vec, todo[j]) = {}

\* What the list updates is written before.
Updating ==
    \A i : Is(todo, i, "update") => \A c \in Place(vec, todo[i]) :
        c \in written \/ \E j \in DOMAIN todo : j < i /\ c \in Place(vec, todo[j])

LayoutInv == LayoutTypes /\ Rest /\ Walked /\ Filling /\ Updating

\* The writes of a list, placed in a region.
LEMMA Placed ==
    ASSUME NEW d \in Nat, NEW at \in Nat, NEW W \in Seq(WritesIn(d)), NEW i \in DOMAIN W
    PROVE  /\ Place(at, W[i]) \subseteq at..(at + d - 1)
           /\ \A c \in Int : at + c \in Place(at, W[i]) <=> c \in Place(0, W[i])
           /\ Place(0, W[i]) \subseteq Int /\ Place(at, W[i]) \subseteq Int
<1> DEFINE w == W[i]
<1>1. w \in WritesIn(d)
  <2>1. DOMAIN W = 1..Len(W)
    BY LenProperties
  <2> QED
    BY <2>1, ElementOfSeq
<1> HIDE DEF w
<1>2. w.at \in Nat /\ w.n \in Nat /\ w.at + w.n <= d
  BY <1>1 DEF WritesIn
<1>3. Place(at, w) \subseteq at..(at + d - 1)
  BY <1>2 DEF Place
<1>4. \A c \in Int : at + c \in Place(at, w) <=> c \in Place(0, w)
  BY <1>2 DEF Place
<1>5. Place(0, w) \subseteq Int /\ Place(at, w) \subseteq Int
  BY <1>2 DEF Place
<1> QED
  BY <1>3, <1>4, <1>5 DEF w

\* A list that fills its region, placed in the vector.
LEMMA FillsPlaced ==
    ASSUME NEW d \in Nat, NEW at \in Nat, NEW W, Fills(W, d)
    PROVE  /\ W \in Seq(WritesIn(d))
           /\ \A c \in at..(at + d - 1) : \E i \in DOMAIN W : c \in Place(at, W[i])
           /\ \A i : Is(W, i, "assign") => Place(at, W[i]) \subseteq at..(at + d - 1)
           /\ \A i, j : Is(W, i, "assign") /\ Is(W, j, "assign") /\ i < j
                           => Place(at, W[i]) \cap Place(at, W[j]) = {}
           /\ \A i : Is(W, i, "update") => \A c \in Place(at, W[i]) :
                  \E j \in DOMAIN W : j < i /\ c \in Place(at, W[j])
<1>1. W \in Seq(WritesIn(d))
  BY DEF Fills, Tidy
<1>2. ASSUME NEW c \in at..(at + d - 1) PROVE \E i \in DOMAIN W : c \in Place(at, W[i])
  <2> DEFINE e == c - at
  <2>1. e \in Filled(d) /\ e \in Int /\ at + e = c
    BY DEF Filled
  <2> HIDE DEF e
  <2>2. PICK i \in DOMAIN W : e \in Place(0, W[i])
    BY <2>1, Zenon DEF Fills, Tidy
  <2>3. at + e \in Place(at, W[i])
    BY <1>1, <2>1, <2>2, Placed
  <2> QED
    BY <2>1, <2>3
<1>3. ASSUME NEW i, Is(W, i, "assign") PROVE Place(at, W[i]) \subseteq at..(at + d - 1)
  BY <1>1, <1>3, Placed DEF Is
<1>4. ASSUME NEW i, NEW j, Is(W, i, "assign"), Is(W, j, "assign"), i < j
      PROVE  Place(at, W[i]) \cap Place(at, W[j]) = {}
  <2> SUFFICES ASSUME NEW c \in Place(at, W[i]), c \in Place(at, W[j]) PROVE FALSE
    OBVIOUS
  <2>1. i \in DOMAIN W /\ j \in DOMAIN W
    BY <1>4 DEF Is
  <2>2. c \in Int
    BY <1>1, <2>1, Placed
  <2> DEFINE e == c - at
  <2>3. e \in Int /\ at + e = c
    BY <2>2
  <2> HIDE DEF e
  <2>4. e \in Place(0, W[i]) /\ e \in Place(0, W[j])
    BY <1>1, <2>1, <2>3, Placed
  <2>5. Place(0, W[i]) \cap Place(0, W[j]) = {}
    BY <1>4, Zenon DEF Fills, Tidy
  <2> QED
    BY <2>4, <2>5
<1>5. ASSUME NEW i, Is(W, i, "update"), NEW c \in Place(at, W[i])
      PROVE  \E j \in DOMAIN W : j < i /\ c \in Place(at, W[j])
  <2>1. i \in DOMAIN W
    BY <1>5 DEF Is
  <2>2. c \in Int
    BY <1>1, <2>1, Placed
  <2> DEFINE e == c - at
  <2>3. e \in Int /\ at + e = c
    BY <2>2
  <2> HIDE DEF e
  <2>4. e \in Place(0, W[i])
    BY <1>1, <2>1, <2>3, Placed
  <2>5. PICK j \in DOMAIN W : j < i /\ e \in Place(0, W[j])
    BY <1>5, <2>4, Zenon DEF Fills, Tidy
  <2>6. c \in Place(at, W[j])
    BY <1>1, <2>3, <2>5, Placed
  <2> QED
    BY <2>5, <2>6
<1> QED
  BY <1>1, <1>2, <1>3, <1>4, <1>5

\* What a pass makes of a feature type.
Called(p, k, W) ==
    /\ p = Due(k) => Fills(W, Dims[k])
    /\ p # Due(k) => OnlyUpdates(W, Dims[k]) /\ (W # <<>> => k = 2 /\ p # "start")

LEMMA NoWrites == \A d : OnlyUpdates(<<>>, d)
BY EmptySeq DEF OnlyUpdates

LEMMA CountsUpdate ==
    ASSUME NEW bins \in Seq(0..15)
    PROVE  OnlyUpdates(EntropyCounts(bins), 256)
<1> DEFINE W == EntropyCounts(bins)
<1>1. DOMAIN bins = 1..Len(bins) /\ Len(bins) \in Nat /\ \A k \in DOMAIN bins : bins[k] \in 0..15
  BY LenProperties, ElementOfSeq
<1>2. W = [k \in 1..Len(bins) |-> Update(16 * bins[k], 16)]
  BY <1>1 DEF EntropyCounts
<1>3. \A k \in 1..Len(bins) : W[k] = Update(16 * bins[k], 16) /\ W[k] \in WritesIn(256) /\ W[k].kind = "update"
  <2> SUFFICES ASSUME NEW k \in 1..Len(bins)
               PROVE  W[k] = Update(16 * bins[k], 16) /\ W[k] \in WritesIn(256) /\ W[k].kind = "update"
    OBVIOUS
  <2>1. W[k] = Update(16 * bins[k], 16)
    BY <1>2
  <2>2. bins[k] \in 0..15
    BY <1>1
  <2> QED
    BY <2>1, <2>2 DEF Update, WritesIn
<1> HIDE DEF W
<1>4. DOMAIN W = 1..Len(bins) /\ W \in Seq(WritesIn(256))
  BY <1>1, <1>2, <1>3
<1> QED
  BY <1>3, <1>4 DEF OnlyUpdates, W

LEMMA FinalizeUpdates ==
    ASSUME NEW bins \in Seq(0..15), NEW normalized \in BOOLEAN
    PROVE  OnlyUpdates(EntropyFinalize(bins, normalized), 256)
<1> DEFINE U == EntropyCounts(bins)
           V == When(normalized, << Update(0, EntropyDim) >>)
<1>1. OnlyUpdates(U, 256)
  BY CountsUpdate
<1>2. OnlyUpdates(V, 256)
  <2>1. CASE normalized
    <3>1. V = <<Update(0, 256)>>
      BY <2>1 DEF When, EntropyDim
    <3>2. Update(0, 256) \in WritesIn(256) /\ Update(0, 256).kind = "update"
      BY DEF Update, WritesIn
    <3> DEFINE w == Update(0, 256)
    <3> HIDE DEF w
    <3>3. V = <<w>> /\ w \in WritesIn(256) /\ w.kind = "update"
      BY <3>1, <3>2 DEF w
    <3>4. DOMAIN <<w>> = 1..1 /\ <<w>>[1] = w /\ <<w>> \in Seq(WritesIn(256)) /\ \A i \in 1..1 : i = 1
      BY <3>3
    <3>5. DOMAIN V = 1..1 /\ V[1] = w /\ V \in Seq(WritesIn(256))
      BY <3>3, <3>4
    <3> HIDE DEF V
    <3>6. \A i \in DOMAIN V : V[i].kind = "update"
      BY <3>3, <3>4, <3>5
    <3> QED
      BY <3>5, <3>6 DEF OnlyUpdates
  <2>2. CASE ~normalized
    BY <2>2, NoWrites DEF When
  <2> QED
    BY <2>1, <2>2
<1> HIDE DEF U, V
<1> DEFINE W == U \o V
           m == Len(U)
<1>3. U \in Seq(WritesIn(256)) /\ V \in Seq(WritesIn(256))
  BY <1>1, <1>2 DEF OnlyUpdates
<1>4. /\ W \in Seq(WritesIn(256)) /\ Len(W) = m + Len(V) /\ m \in Nat /\ Len(V) \in Nat
      /\ DOMAIN U = 1..m /\ DOMAIN V = 1..Len(V) /\ DOMAIN W = 1..(m + Len(V))
      /\ \A i \in 1..m : W[i] = U[i]
      /\ \A i \in 1..Len(V) : W[m + i] = V[i]
  BY <1>3, ConcatProperties, LenProperties
<1> HIDE DEF W, m
<1>5. ASSUME NEW i \in DOMAIN W PROVE W[i].kind = "update"
  <2>1. CASE i \in 1..m
    BY <1>1, <1>4, <2>1 DEF OnlyUpdates
  <2>2. CASE i \notin 1..m
    <3> DEFINE j == i - m
    <3>1. j \in 1..Len(V) /\ m + j = i
      BY <1>4, <2>2
    <3> HIDE DEF j
    <3>2. W[i] = V[j]
      BY <1>4, <3>1
    <3> QED
      BY <1>2, <1>4, <3>1, <3>2 DEF OnlyUpdates
  <2> QED
    BY <2>1, <2>2
<1>6. EntropyFinalize(bins, normalized) = W
  BY DEF EntropyFinalize, U, V, W
<1> QED
  BY <1>4, <1>5, <1>6 DEF OnlyUpdates

\* The elements of the lists, one by one.
LEMMA TypesAre ==
    /\ Types[1] = "general" /\ Types[2] = "byteentropy" /\ Types[3] = "strings"
    /\ Types[4] = "header" /\ Types[5] = "section" /\ Types[6] = "imports"
    /\ Types[7] = "exports" /\ Types[8] = "datadirectories" /\ Types[9] = "richheader"
    /\ Types[10] = "authenticode" /\ Types[11] = "pefilewarnings"
    /\ Dims[1] = 263 /\ Dims[2] = 256 /\ Dims[3] = 177 /\ Dims[4] = 74 /\ Dims[5] = 224 /\ Dims[6] = 1282
    /\ Dims[7] = 129 /\ Dims[8] = 34 /\ Dims[9] = 33 /\ Dims[10] = 8 /\ Dims[11] = 88
<1>1. /\ Types[1] = "general" /\ Types[2] = "byteentropy" /\ Types[3] = "strings"
      /\ Types[4] = "header" /\ Types[5] = "section" /\ Types[6] = "imports"
  BY DimsAre
<1>2. /\ Types[7] = "exports" /\ Types[8] = "datadirectories" /\ Types[9] = "richheader"
      /\ Types[10] = "authenticode" /\ Types[11] = "pefilewarnings"
  BY DimsAre
<1>3. /\ Dims[1] = 263 /\ Dims[2] = 256 /\ Dims[3] = 177 /\ Dims[4] = 74 /\ Dims[5] = 224 /\ Dims[6] = 1282
      /\ Dims[7] = 129 /\ Dims[8] = 34 /\ Dims[9] = 33 /\ Dims[10] = 8 /\ Dims[11] = 88
  BY DimsAre
<1> QED
  BY <1>1, <1>2, <1>3

LEMMA StartCalled ==
    ASSUME NEW k \in 1..11, NEW f \in Files
    PROVE  Called("start", k, StartWrites(Types[k], f))
<1> DEFINE W == StartWrites(Types[k], f)
<1>1. /\ f.isPE \in BOOLEAN /\ f.imports \in BOOLEAN /\ f.exports \in BOOLEAN
      /\ f.richBytes \in Nat /\ f.directories \in Nat
  BY LayoutAssumption
<1>2. CASE k \in Late
  <2>1. Types[k] = "general" \/ Types[k] = "strings"
    BY <1>2, TypesAre DEF Late
  <2>2. W = <<>>
    BY <2>1 DEF StartWrites
  <2>3. "start" # Due(k)
    BY <1>2 DEF Due
  <2> QED
    BY <2>2, <2>3, NoWrites DEF Called
<1>3. CASE k \notin Late
  <2>1. k = 2 \/ k = 4 \/ k = 5 \/ k = 6 \/ k = 7 \/ k = 8 \/ k = 9 \/ k = 10 \/ k = 11
    BY <1>3 DEF Late
  <2>2. ASSUME k = 2 PROVE Fills(W, Dims[k])
    <3>1. W = EntropyStart /\ Dims[k] = 256
      BY <2>2, TypesAre DEF StartWrites
    <3> QED
      BY <3>1, EntropyFills
  <2>3. ASSUME k = 4 PROVE Fills(W, Dims[k])
    <3>1. W = HeaderStart(f) /\ Dims[k] = 74
      BY <2>3, TypesAre DEF StartWrites
    <3> QED
      BY <1>1, <3>1, HeaderFills
  <2>4. ASSUME k = 5 PROVE Fills(W, Dims[k])
    <3>1. W = SectionStart(f) /\ Dims[k] = 224
      BY <2>4, TypesAre DEF StartWrites
    <3> QED
      BY <1>1, <3>1, SectionFills
  <2>5. ASSUME k = 6 PROVE Fills(W, Dims[k])
    <3>1. W = ImportsStart(f) /\ Dims[k] = 1282
      BY <2>5, TypesAre DEF StartWrites
    <3> QED
      BY <1>1, <3>1, ImportsFill
  <2>6. ASSUME k = 7 PROVE Fills(W, Dims[k])
    <3>1. W = ExportsStart(f) /\ Dims[k] = 129
      BY <2>6, TypesAre DEF StartWrites
    <3> QED
      BY <1>1, <3>1, ExportsFill
  <2>7. ASSUME k = 8 PROVE Fills(W, Dims[k])
    <3>1. W = DataDirectoriesStart(f) /\ Dims[k] = 34
      BY <2>7, TypesAre DEF StartWrites
    <3> QED
      BY <1>1, <3>1, DataDirectoriesFill
  <2>8. ASSUME k = 9 PROVE Fills(W, Dims[k])
    <3>1. W = RichHeaderStart(f) /\ Dims[k] = 33
      BY <2>8, TypesAre DEF StartWrites
    <3> QED
      BY <1>1, <3>1, RichHeaderFills
  <2>9. ASSUME k = 10 PROVE Fills(W, Dims[k])
    <3>1. W = AuthenticodeStart(f) /\ Dims[k] = 8
      BY <2>9, TypesAre DEF StartWrites
    <3> QED
      BY <1>1, <3>1, AuthenticodeFills
  <2>10. ASSUME k = 11 PROVE Fills(W, Dims[k])
    <3>1. W = WarningsStart /\ Dims[k] = 88
      BY <2>10, TypesAre DEF StartWrites
    <3> QED
      BY <3>1, WarningsFill
  <2> HIDE DEF W
  <2>11. Fills(W, Dims[k])
    BY <2>1, <2>2, <2>3, <2>4, <2>5, <2>6, <2>7, <2>8, <2>9, <2>10
  <2>12. "start" = Due(k)
    BY <1>3 DEF Due
  <2> QED
    BY <2>11, <2>12 DEF Called, W
<1> QED
  BY <1>2, <1>3

LEMMA ReduceCalled ==
    ASSUME NEW k \in 1..11, NEW bins \in BinLists
    PROVE  Called("reduce", k, ReduceWrites(Types[k], bins))
<1> DEFINE W == ReduceWrites(Types[k], bins)
<1>1. "reduce" # Due(k) /\ "reduce" # "start"
  BY DEF Due
<1>2. CASE k = 2
  <2>1. W = EntropyCounts(bins) /\ Dims[k] = 256
    BY <1>2, TypesAre DEF ReduceWrites, When
  <2>2. OnlyUpdates(W, Dims[k])
    BY <2>1, LayoutAssumption, CountsUpdate
  <2> HIDE DEF W
  <2>3. Called("reduce", k, W)
    BY <1>1, <1>2, <2>2 DEF Called
  <2> QED
    BY <2>3 DEF W
<1>3. CASE k # 2
  <2>1. Types[k] # "byteentropy"
    <3>1. k = 1 \/ k = 3 \/ k = 4 \/ k = 5 \/ k = 6 \/ k = 7 \/ k = 8 \/ k = 9 \/ k = 10 \/ k = 11
      BY <1>3
    <3> QED
      BY <3>1, TypesAre
  <2>2. W = <<>>
    BY <2>1 DEF ReduceWrites, When
  <2> QED
    BY <1>1, <2>2, NoWrites DEF Called
<1> QED
  BY <1>2, <1>3

LEMMA FinalizeCalled ==
    ASSUME NEW k \in 1..11, NEW bins \in Seq(0..15), NEW normalized \in BOOLEAN
    PROVE  Called("finalize", k, FinalizeWrites(Types[k], bins, normalized))
<1> DEFINE W == FinalizeWrites(Types[k], bins, normalized)
<1>1. k \in Late <=> "finalize" = Due(k)
  BY DEF Due
<1>2. CASE k = 1
  <2>1. W = GeneralFinalize /\ Dims[k] = 263 /\ k \in Late
    BY <1>2, TypesAre DEF FinalizeWrites, Late
  <2> QED
    BY <1>1, <2>1, GeneralFills DEF Called
<1>3. CASE k = 3
  <2>1. W = StringsFinalize /\ Dims[k] = 177 /\ k \in Late
    BY <1>3, TypesAre DEF FinalizeWrites, Late
  <2> QED
    BY <1>1, <2>1, StringsFill DEF Called
<1>4. CASE k = 2
  <2>1. W = EntropyFinalize(bins, normalized) /\ Dims[k] = 256 /\ k \notin Late
    BY <1>4, TypesAre DEF FinalizeWrites, Late
  <2>2. OnlyUpdates(W, Dims[k])
    BY <2>1, FinalizeUpdates
  <2> HIDE DEF W
  <2>3. Called("finalize", k, W)
    BY <1>1, <1>4, <2>1, <2>2 DEF Called
  <2> QED
    BY <2>3 DEF W
<1>5. CASE k \notin {1, 2, 3}
  <2>1. k = 4 \/ k = 5 \/ k = 6 \/ k = 7 \/ k = 8 \/ k = 9 \/ k = 10 \/ k = 11
    BY <1>5
  <2>2. Types[k] \notin {"general", "byteentropy", "strings"}
    BY <2>1, TypesAre
  <2>3. W = <<>> /\ k \notin Late
    BY <1>5, <2>2 DEF FinalizeWrites, Late
  <2> QED
    BY <1>1, <2>3, NoWrites DEF Called
<1> QED
  BY <1>2, <1>3, <1>4, <1>5

\* A list that begins has what Filling and Updating ask for.
LEMMA Begins ==
    ASSUME NEW p, NEW k \in 1..11, NEW W, Called(p, k, W),
           pass' = p, type' = k, vec' = At(k), todo' = W,
           p = Due(k) => Region(k) \cap given' = {},
           W # <<>> /\ p # Due(k) => Region(k) \subseteq written'
    PROVE  todo' \in Seq(WritesIn(Dims[k])) /\ Filling' /\ Updating'
<1> DEFINE d == Dims[k]
           at == At(k)
           R == at..(at + d - 1)
<1>1. d \in Nat /\ at \in Nat
  BY Regions
<1>2. Region(k) = R
  BY Regions, Zenon
<1>3. DOMAIN W = DOMAIN todo' /\ Due(type)' = Due(k)
  BY DEF Due, Late
<1> HIDE DEF d, at, R
<1>4. CASE p = Due(k)
  <2>1. Fills(W, d)
    BY <1>4 DEF Called, d
  <2>2. W \in Seq(WritesIn(d))
    BY <1>1, <2>1, FillsPlaced
  <2>3. \A c \in R : \E i \in DOMAIN W : c \in Place(at, W[i])
    BY <1>1, <2>1, FillsPlaced DEF R
  <2>4. \A i : Is(W, i, "assign") => Place(at, W[i]) \subseteq R
    BY <1>1, <2>1, FillsPlaced DEF R
  <2>5. \A i, j : Is(W, i, "assign") /\ Is(W, j, "assign") /\ i < j
                     => Place(at, W[i]) \cap Place(at, W[j]) = {}
    BY <1>1, <2>1, FillsPlaced
  <2>6. \A i : Is(W, i, "update") => \A c \in Place(at, W[i]) :
            \E j \in DOMAIN W : j < i /\ c \in Place(at, W[j])
    BY <1>1, <2>1, FillsPlaced
  <2>7. R \cap given' = {}
    BY <1>2, <1>4
  <2>8. \A i : Is(W, i, "assign") => Place(at, W[i]) \cap given' = {}
    BY <2>4, <2>7
  <2>9. pass' = Due(type)'
    BY <1>3, <1>4
  <2>10. \A c \in Region(k) : c \in written' \/ \E i \in DOMAIN W : c \in Place(at, W[i])
    BY <1>2, <2>3
  <2>11. Filling'
    BY <2>5, <2>8, <2>9, <2>10 DEF Filling, Is, at
  <2>12. Updating'
    BY <2>6 DEF Updating, Is, at
  <2> QED
    BY <2>2, <2>11, <2>12 DEF d
<1>5. CASE p # Due(k)
  <2>1. OnlyUpdates(W, d)
    BY <1>5 DEF Called, d
  <2>2. W \in Seq(WritesIn(d)) /\ \A i \in DOMAIN W : W[i].kind = "update"
    BY <2>1 DEF OnlyUpdates
  <2>3. \A i : ~Is(W, i, "assign")
    BY <2>2 DEF Is
  <2>4. pass' # Due(type)'
    BY <1>3, <1>5
  <2>5. Filling'
    BY <2>3, <2>4 DEF Filling, Is
  <2>6. ASSUME NEW i, Is(W, i, "update"), NEW c \in Place(at, W[i]) PROVE c \in written'
    <3>1. i \in DOMAIN W /\ W # <<>>
      BY <2>6 DEF Is
    <3>2. Place(at, W[i]) \subseteq R
      BY <1>1, <2>2, <3>1, Placed DEF R
    <3>3. Region(k) \subseteq written'
      BY <1>5, <3>1
    <3> QED
      BY <1>2, <3>2, <3>3
  <2>7. Updating'
    BY <2>6 DEF Updating, Is, at
  <2> QED
    BY <2>2, <2>5, <2>7 DEF d
<1> QED
  BY <1>4, <1>5

LEMMA LayoutStarts == LayoutInit => LayoutInv
<1> SUFFICES ASSUME LayoutInit PROVE LayoutInv
  OBVIOUS
<1> USE DEF LayoutInit
<1>1. LayoutTypes
  <2>1. 1 \in 1..11 /\ At(1) = 0
    BY Regions
  <2>2. todo \in Seq(WritesIn(Dims[type]))
    BY EmptySeq
  <2> QED
    BY <2>1, <2>2 DEF LayoutTypes
<1>2. Rest
  BY DEF Rest
<1>3. Walked
  BY DEF Walked, Over, Ahead
<1>4. Filling
  <2>1. pass # Due(type)
    BY DEF Due
  <2>2. \A i : ~Is(todo, i, "assign")
    BY DEF Is
  <2> QED
    BY <2>1, <2>2 DEF Filling
<1>5. Updating
  BY DEF Updating, Is
<1> QED
  BY <1>1, <1>2, <1>3, <1>4, <1>5 DEF LayoutInv

LEMMA RunLayout == ASSUME LayoutInv, NEW f \in Files, Run(f) PROVE LayoutInv'
<1> DEFINE W == StartWrites(Types[1], f)
<1>1. /\ pass' = "start" /\ file' = f /\ type' = 1 /\ vec' = 0 /\ todo' = W
      /\ written' = {} /\ given' = {} /\ done' = FALSE
  BY DEF Run, Walk
<1>2. 1 \in 1..11 /\ At(1) = 0
  BY Regions
<1>3. Called("start", 1, W)
  BY <1>2, StartCalled
<1>4. "start" # Due(1)
  BY DEF Due, Late
<1>5. W = <<>>
  BY <1>3, <1>4 DEF Called
<1> HIDE DEF W
<1>6. todo' \in Seq(WritesIn(Dims[1])) /\ Filling' /\ Updating'
  BY <1>1, <1>2, <1>3, <1>4, <1>5, Begins
<1>7. LayoutTypes'
  BY <1>1, <1>2, <1>6 DEF LayoutTypes
<1>8. Rest'
  BY <1>1 DEF Rest
<1>9. Walked'
  BY <1>1 DEF Walked, Over, Ahead, Late
<1> QED
  BY <1>6, <1>7, <1>8, <1>9 DEF LayoutInv

\* A feature type of a walk whose writes are due has filled its region once it has made them.
LEMMA RegionOver ==
    ASSUME LayoutInv, todo = <<>>, pass = Due(type)
    PROVE  Region(type) \subseteq written
<1>1. DOMAIN todo = {}
  BY LenProperties, EmptySeq
<1> QED
  BY <1>1 DEF LayoutInv, Filling

LEMMA NextTypeLayout == ASSUME LayoutInv, NextType PROVE LayoutInv'
<1> DEFINE k == type + 1
<1>1. /\ pass \in {"start", "reduce", "finalize"} /\ todo = <<>> /\ type < 11 /\ type \in 1..11
      /\ type' = k /\ vec' = vec + Dims[type] /\ vec = At(type)
      /\ pass' = pass /\ file' = file /\ written' = written /\ given' = given /\ done' = done
  BY Regions DEF NextType, LayoutInv, LayoutTypes
<1>2. k \in 1..11 /\ type \in 1..10 /\ At(k) = vec'
  <2>1. k \in 1..11 /\ type \in 1..10
    BY <1>1
  <2> QED
    BY <1>1, <2>1, Regions
<1>3. Called(pass, k, todo')
  <2>1. CASE pass = "start" /\ todo' = StartWrites(Types[type + 1], file)
    <3>1. file \in Files
      BY DEF LayoutInv, LayoutTypes
    <3> QED
      BY <1>2, <2>1, <3>1, StartCalled
  <2>2. CASE pass = "reduce" /\ \E bins \in BinLists : todo' = ReduceWrites(Types[type + 1], bins)
    BY <1>2, <2>2, ReduceCalled
  <2>3. CASE pass = "finalize" /\ \E bins \in BinLists, normalized \in BOOLEAN :
                 todo' = FinalizeWrites(Types[type + 1], bins, normalized)
    <3>1. PICK bins \in BinLists, normalized \in BOOLEAN :
              todo' = FinalizeWrites(Types[type + 1], bins, normalized)
      BY <2>3
    <3>2. bins \in Seq(0..15)
      BY LayoutAssumption
    <3> QED
      BY <1>2, <2>3, <3>1, <3>2, FinalizeCalled
  <2> QED
    BY <2>1, <2>2, <2>3, Zenon DEF NextType
<1> HIDE DEF k
<1>4. k > type /\ k \in Int /\ type \in Int /\ \A j \in 1..11 : j < k => j < type \/ j = type
  BY <1>1 DEF k
<1>5. Walked'
  <2>1. ASSUME NEW j \in 1..11, Over(j)' PROVE Region(j) \subseteq written
    <3>1. Over(j) \/ (j = type /\ pass = Due(type))
      BY <1>1, <1>4, <2>1 DEF Over, Due
    <3> QED
      BY <1>1, <3>1, RegionOver DEF LayoutInv, Walked
  <2>2. ASSUME NEW j \in 1..11, Ahead(j)' PROVE Region(j) \cap given = {}
    <3>1. Ahead(j)
      BY <1>1, <1>4, <2>2 DEF Ahead
    <3> QED
      BY <3>1 DEF LayoutInv, Walked
  <2> QED
    BY <1>1, <2>1, <2>2 DEF Walked
<1>6. todo' \in Seq(WritesIn(Dims[k])) /\ Filling' /\ Updating'
  <2>1. pass = Due(k) => Region(k) \cap given' = {}
    <3>1. pass = Due(k) => Ahead(k)
      BY <1>1, <1>4 DEF Due, Ahead
    <3> QED
      BY <1>1, <1>2, <3>1 DEF LayoutInv, Walked
  <2>2. todo' # <<>> /\ pass # Due(k) => Region(k) \subseteq written'
    <3>1. todo' # <<>> /\ pass # Due(k) => Over(k)
      BY <1>1, <1>3 DEF Called, Over, Late
    <3> QED
      BY <1>1, <1>2, <3>1 DEF LayoutInv, Walked
  <2> QED
    BY <1>1, <1>2, <1>3, <2>1, <2>2, Begins
<1>7. LayoutTypes'
  BY <1>1, <1>2, <1>6 DEF LayoutInv, LayoutTypes
<1>8. Rest'
  BY <1>1 DEF LayoutInv, Rest
<1> QED
  BY <1>5, <1>6, <1>7, <1>8 DEF LayoutInv

\* At the end of a walk of the start and of the blocks, all but the late regions are filled.
LEMMA WalkOver ==
    ASSUME LayoutInv, EndOfWalk, pass # "idle"
    PROVE  /\ type = 11 /\ todo = <<>>
           /\ \A k \in 1..11 : k \notin Late \/ pass = "finalize" => Region(k) \subseteq written
<1>1. type = 11 /\ todo = <<>> /\ pass \in {"start", "reduce", "finalize"}
  BY Regions DEF EndOfWalk, LayoutInv, LayoutTypes
<1>2. ASSUME NEW k \in 1..11, k \notin Late \/ pass = "finalize" PROVE Region(k) \subseteq written
  <2>1. Over(k) \/ (k = type /\ pass = Due(type))
    BY <1>1, <1>2 DEF Over, Due, Late
  <2> QED
    BY <1>1, <2>1, RegionOver DEF LayoutInv, Walked
<1> QED
  BY <1>1, <1>2

LEMMA ReadBlockLayout == ASSUME LayoutInv, ReadBlock PROVE LayoutInv'
<1>1. /\ pass \in {"start", "reduce"} /\ EndOfWalk
      /\ type' = 1 /\ vec' = 0 /\ file' = file /\ written' = written /\ given' = given /\ done' = done
  BY DEF ReadBlock, Walk
<1>2. /\ type = 11 /\ todo = <<>>
      /\ \A k \in 1..11 : k \notin Late => Region(k) \subseteq written
  BY <1>1, WalkOver
<1>3. \A k \in Late : k \in 1..11 /\ Region(k) \cap given = {}
  <2>1. \A k \in Late : k \in 1..11 /\ Ahead(k)
    BY <1>1 DEF Ahead, Late
  <2> QED
    BY <2>1 DEF LayoutInv, Walked
<1>4. \/ pass' = "reduce" /\ todo' = <<>>
      \/ pass' = "finalize" /\ todo' = FinalizeWrites(Types[1], <<>>, TRUE)
  BY DEF ReadBlock, Walk
<1>5. Called(pass', 1, todo')
  <2>1. CASE pass' = "reduce" /\ todo' = <<>>
    <3>1. "reduce" # Due(1)
      BY DEF Due, Late
    <3> QED
      BY <2>1, <3>1, NoWrites DEF Called
  <2>2. CASE pass' = "finalize" /\ todo' = FinalizeWrites(Types[1], <<>>, TRUE)
    <3>1. <<>> \in Seq(0..15) /\ 1 \in 1..11
      BY EmptySeq
    <3> QED
      BY <2>2, <3>1, FinalizeCalled
  <2> QED
    BY <1>4, <2>1, <2>2
<1>6. Walked'
  <2>1. ASSUME NEW k \in 1..11, Over(k)' PROVE Region(k) \subseteq written
    <3>1. k \notin Late
      BY <1>1, <2>1 DEF Over
    <3> QED
      BY <1>2, <3>1
  <2>2. ASSUME NEW k \in 1..11, Ahead(k)' PROVE Region(k) \cap given = {}
    <3>1. k \in Late
      BY <1>4, <2>2 DEF Ahead
    <3> QED
      BY <1>3, <3>1
  <2> QED
    BY <1>1, <2>1, <2>2 DEF Walked
<1>7. todo' \in Seq(WritesIn(Dims[1])) /\ Filling' /\ Updating'
  <2>1. 1 \in 1..11 /\ 1 \in Late /\ At(1) = 0
    BY Regions DEF Late
  <2>2. pass' = Due(1) => Region(1) \cap given' = {}
    BY <1>1, <1>3, <2>1
  <2>3. todo' # <<>> => pass' = Due(1)
    BY <1>4, <2>1 DEF Due
  <2> QED
    BY <1>1, <1>5, <2>1, <2>2, <2>3, Begins
<1>8. LayoutTypes'
  <2>1. 1 \in 1..11 /\ At(1) = 0
    BY Regions
  <2>2. pass' \in {"idle", "start", "reduce", "finalize"} /\ type' = 1 /\ vec' = 0
    BY <1>1, <1>4
  <2>3. file' \in Files /\ written' \subseteq 0..(NumFeatures - 1)
    BY <1>1 DEF LayoutInv, LayoutTypes
  <2> QED
    BY <1>7, <2>1, <2>2, <2>3 DEF LayoutTypes
<1>9. Rest'
  BY <1>1, <1>4 DEF LayoutInv, Rest
<1> QED
  BY <1>6, <1>7, <1>8, <1>9 DEF LayoutInv

\* Between the runs nothing is under way.
LEMMA AtRest ==
    ASSUME pass' = "idle", type' = 1, vec' = 0, todo' = <<>>, file' \in Files,
           written' \subseteq 0..(NumFeatures - 1), done' => written' = 0..(NumFeatures - 1)
    PROVE  LayoutInv'
<1>1. DOMAIN todo' = {} /\ todo' \in Seq(WritesIn(Dims[1]))
  BY EmptySeq, LenProperties
<1>2. LayoutTypes'
  BY <1>1, Regions DEF LayoutTypes
<1>3. Rest'
  BY DEF Rest
<1>4. Walked'
  BY DEF Walked, Over, Ahead
<1>5. Filling'
  <2>1. pass' # Due(type)'
    BY DEF Due
  <2>2. \A i : ~Is(todo', i, "assign")
    BY <1>1 DEF Is
  <2> QED
    BY <2>1, <2>2 DEF Filling, Is
<1>6. Updating'
  BY <1>1 DEF Updating, Is
<1> QED
  BY <1>2, <1>3, <1>4, <1>5, <1>6 DEF LayoutInv

LEMMA ReturnLayout == ASSUME LayoutInv, Return PROVE LayoutInv'
<1>1. /\ pass = "finalize" /\ EndOfWalk /\ pass' = "idle" /\ type' = 1 /\ vec' = 0 /\ todo' = <<>>
      /\ file' = file /\ written' = written
  BY DEF Return, Walk
<1>2. \A k \in 1..11 : Region(k) \subseteq written
  BY <1>1, WalkOver
<1>3. written \subseteq 0..(NumFeatures - 1) /\ file \in Files
  BY DEF LayoutInv, LayoutTypes
<1>4. 0..(NumFeatures - 1) \subseteq written
  <2> SUFFICES ASSUME NEW c \in 0..(NumFeatures - 1) PROVE c \in written
    OBVIOUS
  <2>1. PICK k \in 1..11 : c \in Region(k)
    BY Regions, Zenon
  <2> QED
    BY <1>2, <2>1
<1>5. written = 0..(NumFeatures - 1)
  BY <1>3, <1>4, Zenon
<1> QED
  BY <1>1, <1>3, <1>5, AtRest

LEMMA AbandonLayout == ASSUME LayoutInv, Abandon PROVE LayoutInv'
<1>1. /\ pass # "idle" /\ pass' = "idle" /\ type' = 1 /\ vec' = 0 /\ todo' = <<>>
      /\ file' = file /\ written' = {} /\ done' = done
  BY DEF Abandon, MayThrow, Walk
<1>2. ~done /\ file \in Files
  BY <1>1 DEF LayoutInv, Rest, LayoutTypes
<1> QED
  BY <1>1, <1>2, AtRest

\* The first write of the list is made.
LEMMA WriteLayout == ASSUME LayoutInv, Write PROVE LayoutInv'
<1> DEFINE d == Dims[type]
           w == Head(todo)
           P == Place(vec, w)
<1>1. /\ todo # <<>> /\ todo' = Tail(todo)
      /\ written' = written \cup P
      /\ given' = (IF w.kind = "assign" THEN given \cup P ELSE given)
      /\ pass' = pass /\ file' = file /\ type' = type /\ vec' = vec /\ done' = done
  BY DEF Write, CellsOf, Place
<1>2. /\ type \in 1..11 /\ vec = At(type) /\ todo \in Seq(WritesIn(d)) /\ d \in Nat /\ vec \in Nat
      /\ Region(type) = vec..(vec + d - 1)
  <2>1. type \in 1..11 /\ vec = At(type) /\ todo \in Seq(WritesIn(d))
    BY DEF LayoutInv, LayoutTypes
  <2>2. d \in Nat /\ At(type) \in Nat
    BY <2>1, Regions
  <2>3. Region(type) = At(type)..(At(type) + d - 1)
    BY <2>1, Regions, Zenon
  <2> QED
    BY <2>1, <2>2, <2>3
<1> HIDE DEF d
<1>3. /\ 1 \in DOMAIN todo /\ todo[1] = w /\ todo' \in Seq(WritesIn(d))
      /\ \A i \in DOMAIN todo' : i \in Nat /\ i + 1 \in DOMAIN todo /\ todo'[i] = todo[i + 1]
      /\ \A i \in DOMAIN todo : i \in Nat /\ i >= 1 /\ (i # 1 => i - 1 \in DOMAIN todo' /\ todo'[i - 1] = todo[i])
  <2>1. /\ Len(todo) \in Nat /\ Len(todo) # 0 /\ DOMAIN todo = 1..Len(todo) /\ Head(todo) = todo[1]
    BY <1>1, <1>2, LenProperties, EmptySeq, HeadTailProperties
  <2>2. /\ Tail(todo) \in Seq(WritesIn(d)) /\ Len(Tail(todo)) = Len(todo) - 1
        /\ \A i \in 1..Len(Tail(todo)) : Tail(todo)[i] = todo[i + 1]
    BY <1>1, <1>2, HeadTailProperties
  <2>3. DOMAIN todo' = 1..(Len(todo) - 1) /\ todo' \in Seq(WritesIn(d))
    BY <1>1, <2>2, LenProperties
  <2>4. \A i \in DOMAIN todo' : i \in Nat /\ i + 1 \in DOMAIN todo /\ todo'[i] = todo[i + 1]
    BY <1>1, <2>1, <2>2, <2>3
  <2>5. ASSUME NEW i \in DOMAIN todo, i # 1 PROVE i - 1 \in DOMAIN todo' /\ todo'[i - 1] = todo[i]
    <3> DEFINE k == i - 1
    <3>1. k \in DOMAIN todo' /\ k + 1 = i
      BY <2>1, <2>3, <2>5
    <3> HIDE DEF k
    <3>2. todo'[k] = todo[i]
      BY <2>4, <3>1
    <3> QED
      BY <3>1, <3>2 DEF k
  <2> QED
    BY <2>1, <2>3, <2>4, <2>5
<1> HIDE DEF w
<1>4. P \subseteq Region(type)
  BY <1>2, <1>3, Placed
<1> HIDE DEF P
<1>5. LayoutTypes'
  <2>1. Region(type) \subseteq 0..(NumFeatures - 1)
    BY <1>2, Regions
  <2>2. written' \subseteq 0..(NumFeatures - 1)
    BY <1>1, <1>4, <2>1 DEF LayoutInv, LayoutTypes
  <2> QED
    BY <1>1, <1>3, <2>2 DEF LayoutInv, LayoutTypes, d
<1>6. Rest'
  BY <1>1 DEF LayoutInv, Rest
<1>7. Walked'
  <2>1. ASSUME NEW k \in 1..11, Over(k)' PROVE Region(k) \subseteq written'
    <3>1. Over(k)
      BY <1>1, <2>1 DEF Over
    <3> QED
      BY <1>1, <3>1 DEF LayoutInv, Walked
  <2>2. ASSUME NEW k \in 1..11, Ahead(k)' PROVE Region(k) \cap given' = {}
    <3>1. Ahead(k)
      BY <1>1, <2>2 DEF Ahead
    <3>2. Region(k) \cap given = {}
      BY <3>1 DEF LayoutInv, Walked
    <3>3. CASE w.kind # "assign"
      BY <1>1, <3>2, <3>3
    <3>4. CASE w.kind = "assign"
      <4>1. type # k
        <5>1. Is(todo, 1, "assign")
          BY <1>3, <3>4 DEF Is
        <5>2. pass = Due(type)
          BY <5>1, Zenon DEF LayoutInv, Filling
        <5> QED
          BY <1>2, <3>1, <5>2 DEF Ahead, Due
      <4>2. Region(type) \cap Region(k) = {}
        BY <1>2, <4>1, Regions
      <4> QED
        BY <1>1, <1>4, <3>2, <3>4, <4>2
    <3> QED
      BY <3>3, <3>4
  <2> QED
    BY <2>1, <2>2 DEF Walked
<1>8. Filling'
  <2>1. ASSUME pass' = Due(type)', NEW c \in Region(type)
        PROVE  c \in written' \/ \E i \in DOMAIN todo' : c \in Place(vec, todo'[i])
    <3>1. pass = Due(type)
      BY <1>1, <2>1 DEF Due
    <3>2. c \in written \/ \E i \in DOMAIN todo : c \in Place(vec, todo[i])
      BY <3>1 DEF LayoutInv, Filling
    <3>3. CASE c \in written
      BY <1>1, <3>3
    <3>4. CASE \E i \in DOMAIN todo : c \in Place(vec, todo[i])
      <4>1. PICK i \in DOMAIN todo : c \in Place(vec, todo[i])
        BY <3>4
      <4>2. CASE i = 1
        BY <1>1, <1>3, <4>1, <4>2 DEF P
      <4>3. CASE i # 1
        BY <1>3, <4>1, <4>3
      <4> QED
        BY <4>2, <4>3
    <3> QED
      BY <3>2, <3>3, <3>4
  <2>2. ASSUME NEW i, Is(todo', i, "assign") PROVE Place(vec, todo'[i]) \cap given' = {}
    <3>1. i \in Nat /\ i + 1 \in DOMAIN todo /\ todo'[i] = todo[i + 1] /\ Is(todo, i + 1, "assign") /\ 1 < i + 1
      <4>1. i \in Nat /\ i + 1 \in DOMAIN todo /\ todo'[i] = todo[i + 1]
        BY <1>3, <2>2 DEF Is
      <4>2. 1 <= i
        BY <1>3, <2>2, LenProperties DEF Is
      <4> QED
        BY <2>2, <4>1, <4>2 DEF Is
    <3>2. Place(vec, todo[i + 1]) \cap given = {}
      BY <3>1, Zenon DEF LayoutInv, Filling
    <3>3. ASSUME w.kind = "assign" PROVE P \cap Place(vec, todo[i + 1]) = {}
      <4>1. Is(todo, 1, "assign")
        BY <1>3, <3>3 DEF Is
      <4>2. Place(vec, todo[1]) \cap Place(vec, todo[i + 1]) = {}
        BY <3>1, <4>1, Zenon DEF LayoutInv, Filling
      <4> QED
        BY <1>3, <4>2 DEF P
    <3> QED
      BY <1>1, <3>1, <3>2, <3>3
  <2>3. ASSUME NEW i, NEW j, Is(todo', i, "assign"), Is(todo', j, "assign"), i < j
        PROVE  Place(vec, todo'[i]) \cap Place(vec, todo'[j]) = {}
    <3>1. /\ i \in Nat /\ todo'[i] = todo[i + 1] /\ Is(todo, i + 1, "assign")
          /\ j \in Nat /\ todo'[j] = todo[j + 1] /\ Is(todo, j + 1, "assign")
      BY <1>3, <2>3 DEF Is
    <3>2. i + 1 < j + 1
      BY <2>3, <3>1
    <3>3. Place(vec, todo[i + 1]) \cap Place(vec, todo[j + 1]) = {}
      BY <3>1, <3>2, Zenon DEF LayoutInv, Filling
    <3> QED
      BY <3>1, <3>3
  <2>4. ASSUME pass' # Due(type)', NEW i PROVE ~Is(todo', i, "assign")
    <3>1. pass # Due(type)
      BY <1>1, <2>4 DEF Due
    <3>2. ~Is(todo, i + 1, "assign")
      BY <3>1, Zenon DEF LayoutInv, Filling
    <3> QED
      BY <1>3, <3>2 DEF Is
  <2> QED
    BY <1>1, <2>1, <2>2, <2>3, <2>4 DEF Filling, Is
<1>9. Updating'
  <2>1. ASSUME NEW i, Is(todo', i, "update"), NEW c \in Place(vec, todo'[i])
        PROVE  c \in written' \/ \E j \in DOMAIN todo' : j < i /\ c \in Place(vec, todo'[j])
    <3>1. i \in Nat /\ todo'[i] = todo[i + 1] /\ Is(todo, i + 1, "update")
      BY <1>3, <2>1 DEF Is
    <3>2. c \in written \/ \E j \in DOMAIN todo : j < i + 1 /\ c \in Place(vec, todo[j])
      BY <2>1, <3>1 DEF LayoutInv, Updating
    <3>3. CASE c \in written
      BY <1>1, <3>3
    <3>4. CASE \E j \in DOMAIN todo : j < i + 1 /\ c \in Place(vec, todo[j])
      <4>1. PICK j \in DOMAIN todo : j < i + 1 /\ c \in Place(vec, todo[j])
        BY <3>4
      <4>2. CASE j = 1
        BY <1>1, <1>3, <4>1, <4>2 DEF P
      <4>3. CASE j # 1
        <5> DEFINE k == j - 1
        <5>1. k \in DOMAIN todo' /\ todo'[k] = todo[j] /\ k < i
          BY <1>3, <3>1, <4>1, <4>3
        <5> HIDE DEF k
        <5> QED
          BY <4>1, <5>1
      <4> QED
        BY <4>2, <4>3
    <3> QED
      BY <3>2, <3>3, <3>4
  <2> QED
    BY <1>1, <2>1 DEF Updating, Is
<1> QED
  BY <1>5, <1>6, <1>7, <1>8, <1>9 DEF LayoutInv

LEMMA StutterLayout == ASSUME LayoutInv, UNCHANGED layoutVars PROVE LayoutInv'
BY DEF layoutVars, LayoutInv, LayoutTypes, Rest, Walked, Over, Ahead, Filling, Updating, Due, Is

LEMMA LayoutInductive == LayoutInv /\ [LayoutNext]_layoutVars => LayoutInv'
BY RunLayout, WriteLayout, NextTypeLayout, ReadBlockLayout, ReturnLayout, AbandonLayout, StutterLayout, Zenon
   DEF LayoutNext

LEMMA LayoutAlways == LayoutSpec => []LayoutInv
BY LayoutStarts, LayoutInductive, PTL DEF LayoutSpec

\* The first write of the list.
LEMMA FirstWrite ==
    ASSUME LayoutInv, todo # <<>>
    PROVE  /\ 1 \in DOMAIN todo /\ todo[1] = Head(todo) /\ CellsOf(Head(todo)) = Place(vec, todo[1])
           /\ DOMAIN todo = 1..Len(todo) /\ type \in 1..11
<1>1. todo \in Seq(WritesIn(Dims[type])) /\ type \in 1..11
  BY DEF LayoutInv, LayoutTypes
<1>2. Len(todo) \in Nat /\ Len(todo) # 0 /\ DOMAIN todo = 1..Len(todo) /\ Head(todo) = todo[1]
  BY <1>1, LenProperties, EmptySeq, HeadTailProperties
<1> QED
  BY <1>1, <1>2 DEF CellsOf, Place

\* The vector a run returns has no cell of an earlier file, and nothing is added to or scaled
\* that the run has not written: AllFeatureTypes writes all its cells in every run, whatever the
\* file has or lacks.
THEOREM NoCellStale == LayoutSpec => []NoStaleCell
<1>1. LayoutInv => NoStaleCell
  <2> SUFFICES ASSUME LayoutInv PROVE NoStaleCell
    OBVIOUS
  <2>1. pass = "idle" /\ done => written = 0..(NumFeatures - 1)
    BY DEF LayoutInv, Rest
  <2>2. ASSUME todo # <<>>, Head(todo).kind = "update" PROVE CellsOf(Head(todo)) \subseteq written
    <3>1. Is(todo, 1, "update") /\ CellsOf(Head(todo)) = Place(vec, todo[1])
      BY <2>2, FirstWrite DEF Is
    <3>2. \A c \in Place(vec, todo[1]) :
              c \in written \/ \E j \in DOMAIN todo : j < 1 /\ c \in Place(vec, todo[j])
      BY <3>1, Zenon DEF LayoutInv, Updating
    <3>3. \A j \in DOMAIN todo : ~(j < 1)
      BY <2>2, FirstWrite
    <3> QED
      BY <3>1, <3>2, <3>3
  <2> QED
    BY <2>1, <2>2 DEF NoStaleCell
<1> QED
  BY <1>1, LayoutAlways, PTL

\* Every feature type writes inside its region of the vector, the one
\* getFeatureTypeAndOffsetByName tells callers about.
THEOREM RegionsKept == LayoutSpec => []WritesItsRegion
<1>1. LayoutInv => WritesItsRegion
  <2> SUFFICES ASSUME LayoutInv, todo # <<>> PROVE CellsOf(Head(todo)) \subseteq Region(type)
    BY DEF WritesItsRegion
  <2>1. /\ 1 \in DOMAIN todo /\ CellsOf(Head(todo)) = Place(vec, todo[1]) /\ type \in 1..11
    BY FirstWrite
  <2>2. todo \in Seq(WritesIn(Dims[type])) /\ vec = At(type)
    BY DEF LayoutInv, LayoutTypes
  <2>3. Dims[type] \in Nat /\ At(type) \in Nat
    BY <2>1, Regions
  <2>4. Region(type) = At(type)..(At(type) + Dims[type] - 1)
    BY <2>1, Regions, Zenon
  <2>5. Place(vec, todo[1]) \subseteq vec..(vec + Dims[type] - 1)
    BY <2>1, <2>2, <2>3, Placed
  <2> QED
    BY <2>1, <2>2, <2>4, <2>5
<1> QED
  BY <1>1, LayoutAlways, PTL

\* No cell is assigned twice in a run: no feature takes the place of another.
THEOREM FeaturesKept == LayoutSpec => []NoFeatureOverwritten
<1>1. LayoutInv => NoFeatureOverwritten
  <2> SUFFICES ASSUME LayoutInv, todo # <<>>, Head(todo).kind = "assign"
               PROVE  CellsOf(Head(todo)) \cap given = {}
    BY DEF NoFeatureOverwritten
  <2>1. Is(todo, 1, "assign") /\ CellsOf(Head(todo)) = Place(vec, todo[1])
    BY FirstWrite DEF Is
  <2>2. Place(vec, todo[1]) \cap given = {}
    BY <2>1, Zenon DEF LayoutInv, Filling
  <2> QED
    BY <2>1, <2>2
<1> QED
  BY <1>1, LayoutAlways, PTL
=============================================================================
