---------------------------- MODULE FoldTheorems -----------------------------
(***************************************************************************)
(* Facts about two operators the models are built from, which the          *)
(* community modules define by recursion: the sum of a function over a     *)
(* finite set (SumFunctionOnSet) and a sequence of sequences made one      *)
(* (FlattenSeq); and about counts: how many numbers of an interval have a  *)
(* property, and the rank of an element among others in the order of their *)
(* keys.  Induction enters as the least counterexample: of the numbers for *)
(* which a fact fails one is the least, of the finite sets one has the     *)
(* fewest elements.                                                        *)
(***************************************************************************)
EXTENDS Integers, Sequences, FiniteSets, SequencesExt,
        FiniteSetTheorems, SequenceTheorems, TLAPS

\* The sum of f over a finite set.
Total(f, S) == SumFunctionOnSet(f, S)

Pick(s) == CHOOSE x \in s : TRUE

\* g adds up f over the sets of D one element after the other.
Adds(f, g, D) ==
    g = [s \in D |-> IF s = {} THEN 0 ELSE f[Pick(s)] + g[s \ {Pick(s)}]]

AddsSubsets(f, g, S) == Adds(f, g, SUBSET S)

\* The subsets of up to n elements.
UpTo(n, S) == { s \in SUBSET S : Cardinality(s) <= n }

-----------------------------------------------------------------------------
(* Induction, in the form that speaks of sets *)

\* A set of natural numbers that is not empty has a least element.
LEMMA LeastNumber ==
    ASSUME NEW T \in SUBSET Nat, T # {}
    PROVE  \E m \in T : \A k \in T : m <= k
<1>1. IsWellFoundedOn(OpToRel(<, Nat), Nat)
  BY NatLessThanWellFounded
<1>2. PICK m \in T : \A k \in T : <<k, m>> \notin OpToRel(<, Nat)
  BY <1>1, WFMin
<1>3. \A k \in T : ~(k < m)
  BY <1>2 DEF OpToRel
<1> QED
  BY <1>3

\* Of any finite sets one has the fewest elements.
LEMMA LeastSet ==
    ASSUME NEW B, B # {}, \A s \in B : IsFiniteSet(s)
    PROVE  \E s \in B : \A t \in B : Cardinality(s) <= Cardinality(t)
<1> DEFINE T == { Cardinality(s) : s \in B }
<1>1. T \in SUBSET Nat /\ T # {}
  BY FS_CardinalityType
<1>2. PICK m \in T : \A k \in T : m <= k
  BY <1>1, LeastNumber
<1> QED
  BY <1>2

\* A set is smaller without the element picked.
LEMMA PickSmaller ==
    ASSUME NEW S, IsFiniteSet(S), S # {}
    PROVE  /\ Pick(S) \in S /\ IsFiniteSet(S \ {Pick(S)})
           /\ Cardinality(S \ {Pick(S)}) = Cardinality(S) - 1
           /\ Cardinality(S) \in Nat /\ Cardinality(S) > 0
<1>1. Pick(S) \in S
  BY DEF Pick
<1>2. Cardinality(S) \in Nat /\ Cardinality(S) # 0
  BY FS_CardinalityType, FS_EmptySet
<1> QED
  BY <1>1, <1>2, FS_RemoveElement

-----------------------------------------------------------------------------
(* The sum is what its recursive definition says *)

\* There is a function that adds up f over the sets of up to n elements.
LEMMA AddsUpTo ==
    ASSUME NEW f, NEW S, IsFiniteSet(S)
    PROVE  \A n \in Nat : \E g : Adds(f, g, UpTo(n, S))
<1> DEFINE L(n) == UpTo(n, S)
           T == { n \in Nat : ~ \E g : Adds(f, g, L(n)) }
<1>0. \A s \in SUBSET S : IsFiniteSet(s) /\ Cardinality(s) \in Nat
  BY FS_Subset, FS_CardinalityType
<1>1. SUFFICES ASSUME T # {} PROVE FALSE
  OBVIOUS
<1>2. PICK n \in T : \A k \in T : n <= k
  BY <1>1, LeastNumber
<1>3. n # 0
  <2> SUFFICES ASSUME n = 0 PROVE FALSE
    OBVIOUS
  <2>1. \A s \in L(0) : s = {}
    BY <1>0, FS_EmptySet DEF UpTo
  <2>2. Adds(f, [s \in L(0) |-> 0], L(0))
    BY <2>1 DEF Adds
  <2> QED
    BY <1>2, <2>2
<1>4. n - 1 \in Nat /\ n - 1 \notin T
  <2>1. n \in Nat /\ \A k \in T : n <= k
    BY <1>2
  <2> HIDE DEF T
  <2> QED
    BY <1>3, <2>1
<1>5. PICK g : Adds(f, g, L(n - 1))
  BY <1>4
<1> DEFINE h == [s \in L(n) |-> IF s = {} THEN 0 ELSE f[Pick(s)] + g[s \ {Pick(s)}]]
<1>6. \A s \in L(n - 1) : s \in L(n) /\ h[s] = g[s]
  <2>1. \A s \in L(n - 1) : s \in L(n)
    BY <1>0, <1>4 DEF UpTo
  <2> QED
    BY <1>5, <2>1 DEF Adds
<1>7. \A s \in L(n) : s # {} => s \ {Pick(s)} \in L(n - 1)
  BY <1>0, <1>4, PickSmaller DEF UpTo
<1>8. Adds(f, h, L(n))
  <2>1. \A s \in L(n) : h[s] = IF s = {} THEN 0 ELSE f[Pick(s)] + h[s \ {Pick(s)}]
    BY <1>6, <1>7
  <2> HIDE DEF L
  <2> QED
    BY <2>1 DEF Adds
<1> QED
  BY <1>2, <1>8


\* Two functions that do agree on the sets both are defined for.
LEMMA OneSum ==
    ASSUME NEW f, NEW S, NEW R, IsFiniteSet(S), R \subseteq S,
           NEW g, AddsSubsets(f, g, S), NEW h, AddsSubsets(f, h, R)
    PROVE  g[R] = h[R]
<1> DEFINE B == { s \in SUBSET R : g[s] # h[s] }
<1>1. SUFFICES ASSUME B # {} PROVE FALSE
  OBVIOUS
<1>2. \A s \in SUBSET S : IsFiniteSet(s)
  BY FS_Subset
<1>3. \A s \in B : s \in SUBSET R /\ s \in SUBSET S /\ g[s] # h[s] /\ IsFiniteSet(s)
  BY <1>2
<1>4. \A s \in SUBSET R : s \notin B => g[s] = h[s]
  OBVIOUS
<1> HIDE DEF B
<1>5. PICK s \in B : \A t \in B : Cardinality(s) <= Cardinality(t)
  BY <1>1, <1>3, LeastSet
<1>6. /\ g[s] = IF s = {} THEN 0 ELSE f[Pick(s)] + g[s \ {Pick(s)}]
      /\ h[s] = IF s = {} THEN 0 ELSE f[Pick(s)] + h[s \ {Pick(s)}]
  BY <1>3 DEF Adds, AddsSubsets
<1>7. s # {}
  BY <1>3, <1>6
<1> DEFINE r == s \ {Pick(s)}
<1>8. r \in SUBSET R
  BY <1>3
<1>9. r \notin B
  <2>1. Cardinality(r) = Cardinality(s) - 1 /\ Cardinality(s) \in Nat
    BY <1>3, <1>7, PickSmaller
  <2>2. ~(Cardinality(s) <= Cardinality(r))
    BY <2>1
  <2> QED
    BY <1>5, <2>2
<1> QED
  BY <1>3, <1>4, <1>6, <1>7, <1>8, <1>9

\* The sum over a set is one that adds up f over its subsets.
LEMMA TotalAdds ==
    ASSUME NEW f, NEW S, IsFiniteSet(S)
    PROVE  \E g : AddsSubsets(f, g, S) /\ Total(f, S) = g[S]
<1>1. SUBSET S = UpTo(Cardinality(S), S)
  <2>1. \A s \in SUBSET S : Cardinality(s) <= Cardinality(S)
    BY FS_Subset
  <2> QED
    BY <2>1 DEF UpTo
<1>2. \E g : AddsSubsets(f, g, S)
  <2>1. Cardinality(S) \in Nat
    BY FS_CardinalityType
  <2>2. \E g : Adds(f, g, UpTo(Cardinality(S), S))
    BY <2>1, AddsUpTo
  <2> QED
    BY <1>1, <2>2 DEF AddsSubsets
<1> DEFINE iter == CHOOSE g : g = [s \in SUBSET S |-> IF s = {} THEN 0
                                    ELSE f[CHOOSE x \in s : TRUE]
                                         + g[s \ {CHOOSE x \in s : TRUE}]]
<1>3. iter = [s \in SUBSET S |-> IF s = {} THEN 0
                                    ELSE f[CHOOSE x \in s : TRUE]
                                         + iter[s \ {CHOOSE x \in s : TRUE}]]
  BY <1>2, Zenon DEF AddsSubsets, Adds, Pick
<1>4. AddsSubsets(f, iter, S)
  BY <1>3, Zenon DEF AddsSubsets, Adds, Pick
<1>5. Total(f, S) = iter[S]
  BY Zenon DEF Total, SumFunctionOnSet, FoldFunctionOnSet, MapThenFoldSet
<1> QED
  BY <1>4, <1>5

\* It is the one that adds up f over the subsets of any larger set.
LEMMA TotalOfSubset ==
    ASSUME NEW f, NEW S, NEW R, IsFiniteSet(S), R \subseteq S, NEW g, AddsSubsets(f, g, S)
    PROVE  Total(f, R) = g[R]
<1>1. IsFiniteSet(R)
  BY FS_Subset
<1>2. PICK h : AddsSubsets(f, h, R) /\ Total(f, R) = h[R]
  BY <1>1, TotalAdds
<1>3. g[R] = h[R]
  BY <1>2, OneSum
<1> QED
  BY <1>2, <1>3

\* The sum by its recursion.
LEMMA TotalStep ==
    ASSUME NEW f, NEW S, IsFiniteSet(S)
    PROVE  Total(f, S) = IF S = {} THEN 0 ELSE f[Pick(S)] + Total(f, S \ {Pick(S)})
<1>1. PICK g : AddsSubsets(f, g, S) /\ Total(f, S) = g[S]
  BY TotalAdds
<1>2. g[S] = IF S = {} THEN 0 ELSE f[Pick(S)] + g[S \ {Pick(S)}]
  BY <1>1 DEF AddsSubsets, Adds
<1>3. Total(f, S \ {Pick(S)}) = g[S \ {Pick(S)}]
  BY <1>1, TotalOfSubset
<1> QED
  BY <1>1, <1>2, <1>3

-----------------------------------------------------------------------------
(* What follows of the sum by induction over the number of elements *)

\* A sum of integers is an integer.
LEMMA TotalInt ==
    ASSUME NEW f, NEW S, IsFiniteSet(S), \A x \in S : f[x] \in Int
    PROVE  Total(f, S) \in Int
<1> DEFINE B == { s \in SUBSET S : Total(f, s) \notin Int }
<1>1. SUFFICES ASSUME B # {} PROVE FALSE
  OBVIOUS
<1>2. \A s \in SUBSET S : IsFiniteSet(s)
  BY FS_Subset
<1>3. \A s \in B : s \in SUBSET S /\ Total(f, s) \notin Int /\ IsFiniteSet(s)
  BY <1>2
<1>4. \A s \in SUBSET S : s \notin B => Total(f, s) \in Int
  OBVIOUS
<1> HIDE DEF B
<1>5. PICK s \in B : \A t \in B : Cardinality(s) <= Cardinality(t)
  BY <1>1, <1>3, LeastSet
<1>6. Total(f, s) = IF s = {} THEN 0 ELSE f[Pick(s)] + Total(f, s \ {Pick(s)})
  BY <1>3, TotalStep
<1>7. s # {}
  BY <1>3, <1>6
<1>8. s \ {Pick(s)} \in SUBSET S /\ Pick(s) \in S
  BY <1>3, <1>7, PickSmaller
<1>9. s \ {Pick(s)} \notin B
  <2>1. Cardinality(s \ {Pick(s)}) = Cardinality(s) - 1 /\ Cardinality(s) \in Nat
    BY <1>3, <1>7, PickSmaller
  <2>2. ~(Cardinality(s) <= Cardinality(s \ {Pick(s)}))
    BY <2>1
  <2> QED
    BY <1>5, <2>2
<1>10. Total(f, s \ {Pick(s)}) \in Int /\ f[Pick(s)] \in Int
  BY <1>4, <1>8, <1>9
<1> QED
  BY <1>3, <1>6, <1>7, <1>10

\* The sum of what is the same on all elements is the same.
LEMMA TotalEqual ==
    ASSUME NEW f, NEW g, NEW S, IsFiniteSet(S), \A x \in S : f[x] = g[x]
    PROVE  Total(f, S) = Total(g, S)
<1> DEFINE B == { s \in SUBSET S : Total(f, s) # Total(g, s) }
<1>1. SUFFICES ASSUME B # {} PROVE FALSE
  OBVIOUS
<1>2. \A s \in SUBSET S : IsFiniteSet(s)
  BY FS_Subset
<1>3. \A s \in B : s \in SUBSET S /\ Total(f, s) # Total(g, s) /\ IsFiniteSet(s)
  BY <1>2
<1>4. \A s \in SUBSET S : s \notin B => Total(f, s) = Total(g, s)
  OBVIOUS
<1> HIDE DEF B
<1>5. PICK s \in B : \A t \in B : Cardinality(s) <= Cardinality(t)
  BY <1>1, <1>3, LeastSet
<1>6. /\ Total(f, s) = IF s = {} THEN 0 ELSE f[Pick(s)] + Total(f, s \ {Pick(s)})
      /\ Total(g, s) = IF s = {} THEN 0 ELSE g[Pick(s)] + Total(g, s \ {Pick(s)})
  BY <1>3, TotalStep
<1>7. s # {}
  BY <1>3, <1>6
<1>8. s \ {Pick(s)} \in SUBSET S /\ Pick(s) \in S
  BY <1>3, <1>7, PickSmaller
<1>9. s \ {Pick(s)} \notin B
  <2>1. Cardinality(s \ {Pick(s)}) = Cardinality(s) - 1 /\ Cardinality(s) \in Nat
    BY <1>3, <1>7, PickSmaller
  <2>2. ~(Cardinality(s) <= Cardinality(s \ {Pick(s)}))
    BY <2>1
  <2> QED
    BY <1>5, <2>2
<1> QED
  BY <1>3, <1>4, <1>6, <1>7, <1>8, <1>9


\* Which element is taken out first does not matter.
LEMMA TotalWithout ==
    ASSUME NEW f, NEW S, IsFiniteSet(S), \A x \in S : f[x] \in Int, NEW e \in S
    PROVE  Total(f, S) = f[e] + Total(f, S \ {e})
<1> DEFINE B == { s \in SUBSET S : \E x \in s : Total(f, s) # f[x] + Total(f, s \ {x}) }
<1>1. SUFFICES ASSUME B # {} PROVE FALSE
  OBVIOUS
<1>2. \A s \in SUBSET S : IsFiniteSet(s)
  BY FS_Subset
<1>3. \A s \in B : /\ s \in SUBSET S /\ IsFiniteSet(s)
                   /\ \E x \in s : Total(f, s) # f[x] + Total(f, s \ {x})
  BY <1>2
<1>4. \A s \in SUBSET S : s \notin B => \A x \in s : Total(f, s) = f[x] + Total(f, s \ {x})
  OBVIOUS
<1> HIDE DEF B
<1>5. PICK s \in B : \A t \in B : Cardinality(s) <= Cardinality(t)
  BY <1>1, <1>3, LeastSet
<1>6. PICK x \in s : Total(f, s) # f[x] + Total(f, s \ {x})
  BY <1>3
<1>7. s # {} /\ s \in SUBSET S /\ IsFiniteSet(s)
  BY <1>3, <1>6
<1> DEFINE y == Pick(s)
<1>8. y \in s /\ Total(f, s) = f[y] + Total(f, s \ {y})
  BY <1>7, TotalStep, PickSmaller
<1>9. x # y
  BY <1>6, <1>8
<1>10. ASSUME NEW z \in s
       PROVE  s \ {z} \in SUBSET S /\ s \ {z} \notin B
  <2>1. Cardinality(s \ {z}) = Cardinality(s) - 1 /\ Cardinality(s) \in Nat
    BY <1>7, FS_RemoveElement, FS_CardinalityType
  <2>2. ~(Cardinality(s) <= Cardinality(s \ {z}))
    BY <2>1
  <2> QED
    BY <1>5, <1>7, <2>2
<1> HIDE DEF y
<1>11. Total(f, s \ {y}) = f[x] + Total(f, (s \ {y}) \ {x})
  BY <1>4, <1>8, <1>9, <1>10
<1>12. Total(f, s \ {x}) = f[y] + Total(f, (s \ {x}) \ {y})
  BY <1>4, <1>8, <1>9, <1>10
<1>13. (s \ {y}) \ {x} = (s \ {x}) \ {y}
  OBVIOUS
<1>14. f[x] \in Int /\ f[y] \in Int /\ Total(f, (s \ {x}) \ {y}) \in Int
  <2>1. (s \ {x}) \ {y} \in SUBSET S /\ x \in S /\ y \in S
    BY <1>7, <1>8
  <2> QED
    BY <1>2, <2>1, TotalInt
<1> DEFINE T == Total(f, (s \ {x}) \ {y})
<1>15. Total(f, s) = f[y] + (f[x] + T)
  BY <1>8, <1>11, <1>13
<1>16. f[x] + Total(f, s \ {x}) = f[x] + (f[y] + T)
  BY <1>12
<1> HIDE DEF T
<1>17. f[y] + (f[x] + T) = f[x] + (f[y] + T)
  BY <1>14 DEF T
<1> QED
  BY <1>6, <1>15, <1>16, <1>17

\* One more element adds its value.
LEMMA TotalWith ==
    ASSUME NEW f, NEW S, IsFiniteSet(S), NEW e, e \notin S,
           \A x \in S : f[x] \in Int, f[e] \in Int
    PROVE  Total(f, S \cup {e}) = Total(f, S) + f[e]
<1>1. IsFiniteSet(S \cup {e}) /\ \A x \in S \cup {e} : f[x] \in Int
  BY FS_AddElement
<1>2. Total(f, S \cup {e}) = f[e] + Total(f, (S \cup {e}) \ {e})
  BY <1>1, TotalWithout
<1>3. (S \cup {e}) \ {e} = S
  OBVIOUS
<1>4. Total(f, S) \in Int
  BY TotalInt
<1>5. Total(f, S \cup {e}) = f[e] + Total(f, S)
  BY <1>2, <1>3
<1> QED
  BY <1>4, <1>5

\* The sum over nothing.
LEMMA TotalEmpty == ASSUME NEW f PROVE Total(f, {}) = 0
BY TotalStep, FS_EmptySet

-----------------------------------------------------------------------------
(* Sequences of sequences *)

\* The first n of the sequences F.
FirstOnes(F, n) == [ k \in 1..n |-> F[k] ]

\* The first n as a sequence, and one more.
LEMMA FirstOnesMore ==
    ASSUME NEW F, NEW n \in Nat
    PROVE  /\ FirstOnes(F, 0) = <<>>
           /\ Len(FirstOnes(F, n)) = n
           /\ FirstOnes(F, n + 1) = Append(FirstOnes(F, n), F[n + 1])
<1> DEFINE A == { F[k] : k \in 1..(n + 1) }
           s == FirstOnes(F, n)
           t == FirstOnes(F, n + 1)
<1>1. FirstOnes(F, 0) = <<>>
  BY DEF FirstOnes
<1>2. s \in [1..n -> A] /\ t \in [1..(n + 1) -> A]
  BY DEF FirstOnes
<1>4. F[n + 1] \in A
  OBVIOUS
<1>5. /\ \A k \in 1..n : s[k] = F[k]
      /\ \A k \in 1..(n + 1) : t[k] = F[k]
  BY DEF FirstOnes
<1> HIDE DEF A, s, t
<1>3. s \in Seq(A) /\ Len(s) = n /\ t \in Seq(A) /\ Len(t) = n + 1
  BY <1>2
<1>6. /\ Append(s, F[n + 1]) \in Seq(A) /\ Len(Append(s, F[n + 1])) = n + 1
      /\ \A i \in 1..n : Append(s, F[n + 1])[i] = s[i]
      /\ Append(s, F[n + 1])[n + 1] = F[n + 1]
  BY <1>3, <1>4, AppendProperties
<1>7. \A i \in 1..Len(t) : t[i] = Append(s, F[n + 1])[i]
  BY <1>3, <1>5, <1>6
<1>8. t = Append(s, F[n + 1])
  BY <1>3, <1>6, <1>7, SeqEqual
<1> QED
  BY <1>1, <1>3, <1>8 DEF s, t

\* g has the concatenations of the first sequences of F, one by one up to n.
Flattens(g, F, n) ==
    g = [ i \in 1..n |-> IF i = 1 THEN F[i] ELSE g[i - 1] \o F[i] ]

\* One of them.
LEMMA FlattensAt ==
    ASSUME NEW F, NEW n, NEW g, Flattens(g, F, n), NEW i \in 1..n
    PROVE  g[i] = IF i = 1 THEN F[i] ELSE g[i - 1] \o F[i]
<1> DEFINE h == [ j \in 1..n |-> IF j = 1 THEN F[j] ELSE g[j - 1] \o F[j] ]
<1>1. h[i] = IF i = 1 THEN F[i] ELSE g[i - 1] \o F[i]
  OBVIOUS
<1>2. g = h
  BY DEF Flattens
<1> HIDE DEF h
<1> QED
  BY <1>1, <1>2

\* There is such a g for every n.
LEMMA FlattensExist ==
    ASSUME NEW F
    PROVE  \A n \in Nat : \E g : Flattens(g, F, n)
<1> DEFINE T == { n \in Nat : ~ \E g : Flattens(g, F, n) }
<1>1. SUFFICES ASSUME T # {} PROVE FALSE
  OBVIOUS
<1>2. PICK n \in T : \A k \in T : n <= k
  BY <1>1, LeastNumber
<1>3. n # 0
  <2>1. Flattens([i \in 1..0 |-> 0], F, 0)
    BY DEF Flattens
  <2> QED
    BY <1>2, <2>1
<1>4. n - 1 \in Nat /\ n - 1 \notin T
  <2>1. n \in Nat /\ \A k \in T : n <= k
    BY <1>2
  <2> HIDE DEF T
  <2> QED
    BY <1>3, <2>1
<1>5. PICK g : Flattens(g, F, n - 1)
  BY <1>4
<1> DEFINE h == [ i \in 1..n |-> IF i = 1 THEN F[i] ELSE g[i - 1] \o F[i] ]
<1>6. \A i \in 1..(n - 1) : h[i] = g[i]
  <2> SUFFICES ASSUME NEW i \in 1..(n - 1) PROVE h[i] = g[i]
    OBVIOUS
  <2>1. g[i] = IF i = 1 THEN F[i] ELSE g[i - 1] \o F[i]
    BY <1>5, FlattensAt
  <2>2. i \in 1..n
    BY <1>4
  <2> QED
    BY <2>1, <2>2
<1>7. \A i \in 1..n : i # 1 => i - 1 \in 1..(n - 1)
  BY <1>4
<1>8. \A i \in 1..n : h[i] = IF i = 1 THEN F[i] ELSE h[i - 1] \o F[i]
  BY <1>6, <1>7
<1>9. Flattens(h, F, n)
  BY <1>8 DEF Flattens
<1> QED
  BY <1>2, <1>9

\* Two of them agree as far as both go.
LEMMA FlattensAgree ==
    ASSUME NEW F, NEW n \in Nat, NEW m \in Nat, n <= m,
           NEW g, Flattens(g, F, n), NEW h, Flattens(h, F, m)
    PROVE  \A i \in 1..n : g[i] = h[i]
<1> DEFINE T == { i \in 1..n : g[i] # h[i] }
<1>1. SUFFICES ASSUME T # {} PROVE FALSE
  OBVIOUS
<1>2. T \in SUBSET Nat
  OBVIOUS
<1>3. PICK i \in T : \A k \in T : i <= k
  BY <1>1, <1>2, LeastNumber
<1>4. i \in 1..n /\ g[i] # h[i]
  BY <1>3
<1>5. /\ g[i] = IF i = 1 THEN F[i] ELSE g[i - 1] \o F[i]
      /\ h[i] = IF i = 1 THEN F[i] ELSE h[i - 1] \o F[i]
  <2>1. i \in 1..m
    BY <1>4
  <2> QED
    BY <1>4, <2>1, FlattensAt
<1>6. i # 1
  BY <1>4, <1>5
<1>7. i - 1 \in 1..n /\ i - 1 \notin T
  <2>1. i \in 1..n /\ \A k \in T : i <= k
    BY <1>3
  <2> HIDE DEF T
  <2> QED
    BY <1>6, <2>1
<1> QED
  BY <1>4, <1>5, <1>6, <1>7

\* They are sequences.
LEMMA FlattensType ==
    ASSUME NEW A, NEW F, NEW n \in Nat, \A k \in 1..n : F[k] \in Seq(A),
           NEW g, Flattens(g, F, n)
    PROVE  \A i \in 1..n : g[i] \in Seq(A)
<1> DEFINE T == { i \in 1..n : g[i] \notin Seq(A) }
<1>1. SUFFICES ASSUME T # {} PROVE FALSE
  OBVIOUS
<1>2. T \in SUBSET Nat
  OBVIOUS
<1>3. PICK i \in T : \A k \in T : i <= k
  BY <1>1, <1>2, LeastNumber
<1>4. i \in 1..n /\ g[i] \notin Seq(A)
  BY <1>3
<1>5. g[i] = IF i = 1 THEN F[i] ELSE g[i - 1] \o F[i]
  BY <1>4, FlattensAt
<1>6. i # 1
  BY <1>4, <1>5
<1>7. i - 1 \in 1..n /\ i - 1 \notin T
  <2>1. i \in 1..n /\ \A k \in T : i <= k
    BY <1>3
  <2> HIDE DEF T
  <2> QED
    BY <1>6, <2>1
<1>8. g[i - 1] \in Seq(A) /\ F[i] \in Seq(A)
  BY <1>4, <1>7
<1> QED
  BY <1>4, <1>5, <1>6, <1>8

\* FlattenSeq has the last of them.
LEMMA FlattenIs ==
    ASSUME NEW F, NEW n \in Nat, n > 0, NEW g, Flattens(g, F, n)
    PROVE  FlattenSeq(FirstOnes(F, n)) = g[n]
<1> DEFINE s == FirstOnes(F, n)
<1>1. Len(s) = n /\ \A i \in 1..n : s[i] = F[i]
  BY DEF FirstOnes
<1> DEFINE flatten == CHOOSE f : f = [ i \in 1..Len(s) |->
                                        IF i = 1 THEN s[i] ELSE f[i - 1] \o s[i] ]
<1>2. FlattenSeq(s) = flatten[Len(s)]
  <2>1. Len(s) # 0
    BY <1>1
  <2> HIDE DEF s
  <2> QED
    BY <2>1, Zenon DEF FlattenSeq
<1>3. \A f : f = [ i \in 1..Len(s) |-> IF i = 1 THEN s[i] ELSE f[i - 1] \o s[i] ]
               <=> Flattens(f, F, n)
  <2> HIDE DEF s
  <2>1. \A f : [ i \in 1..Len(s) |-> IF i = 1 THEN s[i] ELSE f[i - 1] \o s[i] ]
                  = [ i \in 1..n |-> IF i = 1 THEN F[i] ELSE f[i - 1] \o F[i] ]
    BY <1>1
  <2> QED
    BY <2>1, Zenon DEF Flattens
<1>4. Flattens(flatten, F, n)
  BY <1>3, Zenon
<1>5. flatten[n] = g[n]
  BY <1>4, FlattensAgree
<1> QED
  BY <1>1, <1>2, <1>5

\* Of no sequences it makes the empty one.
LEMMA FlattenNone ==
    ASSUME NEW F
    PROVE  FlattenSeq(FirstOnes(F, 0)) = <<>>
BY DEF FlattenSeq, FirstOnes

\* Of one sequence more it makes a longer one.
LEMMA FlattenMore ==
    ASSUME NEW A, NEW F, NEW n \in Nat, \A k \in 1..(n + 1) : F[k] \in Seq(A)
    PROVE  /\ FlattenSeq(FirstOnes(F, n)) \in Seq(A)
           /\ FlattenSeq(FirstOnes(F, n + 1)) = FlattenSeq(FirstOnes(F, n)) \o F[n + 1]
<1>0. n + 1 \in Nat /\ n + 1 > 0 /\ n + 1 \in 1..(n + 1) /\ n <= n + 1
  OBVIOUS
<1>1. PICK g : Flattens(g, F, n + 1)
  BY <1>0, FlattensExist
<1>2. FlattenSeq(FirstOnes(F, n + 1)) = g[n + 1]
  BY <1>0, <1>1, FlattenIs
<1>3. g[n + 1] = IF n + 1 = 1 THEN F[n + 1] ELSE g[n + 1 - 1] \o F[n + 1]
  BY <1>0, <1>1, FlattensAt
<1>4. CASE n = 0
  <2>1. F[1] \in Seq(A) /\ g[1] = F[1]
    BY <1>3, <1>4
  <2>2. <<>> \o F[1] = F[1] /\ <<>> \in Seq(A)
    BY <2>1, ConcatEmptySeq
  <2>3. FlattenSeq(FirstOnes(F, n)) = <<>>
    BY <1>4, FlattenNone
  <2>4. n + 1 = 1
    BY <1>4
  <2>5. FlattenSeq(FirstOnes(F, n + 1)) = F[1] /\ F[n + 1] = F[1]
    BY <1>2, <2>1, <2>4
  <2> QED
    BY <2>2, <2>3, <2>5
<1>5. CASE n > 0
  <2>1. PICK h : Flattens(h, F, n)
    BY FlattensExist
  <2>2. FlattenSeq(FirstOnes(F, n)) = h[n]
    BY <1>5, <2>1, FlattenIs
  <2>3. h[n] \in Seq(A)
    BY <1>5, <2>1, FlattensType
  <2>4. g[n] = h[n]
    BY <1>0, <1>1, <1>5, <2>1, FlattensAgree
  <2>5. g[n + 1] = g[n] \o F[n + 1]
    <3>1. n + 1 # 1 /\ n + 1 - 1 = n
      BY <1>5
    <3> QED
      BY <1>3, <3>1
  <2> QED
    BY <1>2, <2>2, <2>3, <2>4, <2>5
<1> QED
  BY <1>4, <1>5

\* What the first n sequences make in one.
Joined(F, n) == FlattenSeq(FirstOnes(F, n))

\* Joined sequences are a sequence.
LEMMA JoinedType ==
    ASSUME NEW A, NEW F, NEW N \in Nat, \A k \in 1..N : F[k] \in Seq(A)
    PROVE  Joined(F, N) \in Seq(A) /\ Len(Joined(F, N)) \in Nat
<1>1. CASE N = 0
  BY <1>1, FlattenNone, EmptySeq DEF Joined
<1>2. CASE N # 0
  <2> DEFINE r == N - 1
  <2>1. r \in Nat /\ r + 1 = N
    BY <1>2
  <2>2. \A k \in 1..(r + 1) : F[k] \in Seq(A)
    BY <2>1
  <2> HIDE DEF r
  <2>3. Joined(F, r) \in Seq(A) /\ Joined(F, r + 1) = Joined(F, r) \o F[r + 1]
    BY <2>1, <2>2, FlattenMore DEF Joined
  <2>4. F[r + 1] \in Seq(A)
    BY <2>1, <2>2
  <2>5. Joined(F, N) \in Seq(A)
    BY <2>1, <2>3, <2>4, ConcatProperties
  <2> QED
    BY <2>5, LenProperties
<1> QED
  BY <1>1, <1>2

\* More sequences make one that starts the same.
JoinedBegins(F, n, q) ==
    /\ Len(Joined(F, n)) <= Len(Joined(F, q))
    /\ \A i \in 1..Len(Joined(F, n)) : Joined(F, q)[i] = Joined(F, n)[i]

\* Of more sequences the first part is that of fewer.
LEMMA JoinedPrefix ==
    ASSUME NEW A, NEW F, NEW N \in Nat, \A k \in 1..N : F[k] \in Seq(A), NEW n \in 0..N
    PROVE  JoinedBegins(F, n, N)
<1> DEFINE T == { q \in Nat : n <= q /\ q <= N /\ ~JoinedBegins(F, n, q) }
<1> SUFFICES ASSUME T # {} PROVE FALSE
  OBVIOUS
<1>1. PICK q \in T : \A k \in T : q <= k
  BY LeastNumber
<1>2. q \in Nat /\ n <= q /\ q <= N /\ ~JoinedBegins(F, n, q) /\ n \in Nat
  OBVIOUS
<1>3. \A p \in Nat : n <= p /\ p < q => JoinedBegins(F, n, p)
  <2> SUFFICES ASSUME NEW p \in Nat, n <= p, p < q, ~JoinedBegins(F, n, p) PROVE FALSE
    OBVIOUS
  <2>1. p <= N
    BY <1>2
  <2>2. p \in T
    BY <2>1
  <2> QED
    BY <1>1, <1>2, <2>2
<1> HIDE DEF T
<1>4. \A p \in 0..N : Joined(F, p) \in Seq(A) /\ Len(Joined(F, p)) \in Nat
  <2> SUFFICES ASSUME NEW p \in 0..N
               PROVE  Joined(F, p) \in Seq(A) /\ Len(Joined(F, p)) \in Nat
    OBVIOUS
  <2>1. p \in Nat /\ \A k \in 1..p : F[k] \in Seq(A)
    OBVIOUS
  <2> QED
    BY <2>1, JoinedType
<1>5. CASE q = n
  <2>1. JoinedBegins(F, n, n)
    BY <1>2, <1>4 DEF JoinedBegins
  <2> QED
    BY <1>2, <1>5, <2>1
<1>6. CASE q # n
  <2> DEFINE p == q - 1
  <2>1. p \in Nat /\ p + 1 = q /\ p + 1 <= N /\ n <= p /\ p < q /\ p \in 0..N
    BY <1>2, <1>6
  <2>2. \A k \in 1..(p + 1) : F[k] \in Seq(A)
    BY <2>1
  <2> HIDE DEF p
  <2>3. Joined(F, p + 1) = Joined(F, p) \o F[p + 1]
    BY <2>1, <2>2, FlattenMore DEF Joined
  <2>4. JoinedBegins(F, n, p)
    BY <1>3, <2>1
  <2>5. Joined(F, p) \in Seq(A) /\ F[p + 1] \in Seq(A)
    BY <1>4, <2>1, <2>2
  <2>6. /\ Len(Joined(F, q)) = Len(Joined(F, p)) + Len(F[p + 1])
        /\ \A i \in 1..Len(Joined(F, p)) : Joined(F, q)[i] = Joined(F, p)[i]
    BY <2>1, <2>3, <2>5, ConcatProperties
  <2>7. Len(Joined(F, p)) \in Nat /\ Len(F[p + 1]) \in Nat /\ Len(Joined(F, n)) \in Nat
    BY <1>4, <2>5
  <2>8. /\ Len(Joined(F, n)) <= Len(Joined(F, p))
        /\ \A i \in 1..Len(Joined(F, n)) : Joined(F, p)[i] = Joined(F, n)[i]
    BY <2>4 DEF JoinedBegins
  <2>9. Len(Joined(F, n)) <= Len(Joined(F, q))
    BY <2>6, <2>7, <2>8
  <2>10. \A i \in 1..Len(Joined(F, n)) : Joined(F, q)[i] = Joined(F, n)[i]
    <3> SUFFICES ASSUME NEW i \in 1..Len(Joined(F, n)) PROVE Joined(F, q)[i] = Joined(F, n)[i]
      OBVIOUS
    <3>1. i \in 1..Len(Joined(F, p))
      BY <2>7, <2>8
    <3> QED
      BY <2>6, <2>8, <3>1
  <2> QED
    BY <1>2, <2>9, <2>10 DEF JoinedBegins
<1> QED
  BY <1>5, <1>6

\* Each element comes from one of the sequences.
JoinedFrom(F, n) ==
    \A i \in 1..Len(Joined(F, n)) : \E k \in 1..n : \E c \in 1..Len(F[k]) : Joined(F, n)[i] = F[k][c]

\* Joined sequences have the elements of the sequences and no others.
LEMMA JoinedMembers ==
    ASSUME NEW A, NEW F, NEW N \in Nat, \A k \in 1..N : F[k] \in Seq(A)
    PROVE  JoinedFrom(F, N)
<1> DEFINE T == { q \in Nat : q <= N /\ ~JoinedFrom(F, q) }
<1> SUFFICES ASSUME T # {} PROVE FALSE
  OBVIOUS
<1>1. PICK q \in T : \A k \in T : q <= k
  BY LeastNumber
<1>2. q \in Nat /\ q <= N /\ ~JoinedFrom(F, q)
  OBVIOUS
<1>3. \A p \in Nat : p < q => JoinedFrom(F, p)
  <2> SUFFICES ASSUME NEW p \in Nat, p < q, ~JoinedFrom(F, p) PROVE FALSE
    OBVIOUS
  <2>1. p \in T
    BY <1>2
  <2> QED
    BY <1>1, <1>2, <2>1
<1> HIDE DEF T
<1>4. CASE q = 0
  <2>1. Joined(F, q) = <<>>
    BY <1>4, FlattenNone DEF Joined
  <2>2. Len(Joined(F, q)) = 0
    BY <2>1
  <2> QED
    BY <1>2, <2>2 DEF JoinedFrom
<1>5. CASE q # 0
  <2> DEFINE p == q - 1
  <2>1. p \in Nat /\ p + 1 = q /\ p < q /\ p <= N /\ p + 1 \in 1..N
    BY <1>2, <1>5
  <2>2. \A k \in 1..(p + 1) : F[k] \in Seq(A)
    BY <2>1
  <2> HIDE DEF p
  <2>3. Joined(F, p) \in Seq(A) /\ Joined(F, p + 1) = Joined(F, p) \o F[p + 1]
    BY <2>1, <2>2, FlattenMore DEF Joined
  <2> DEFINE s == Joined(F, p)
             t == F[p + 1]
             u == Joined(F, p + 1)
  <2>4. s \in Seq(A) /\ t \in Seq(A) /\ u = s \o t
    BY <2>1, <2>2, <2>3
  <2>5. JoinedFrom(F, p)
    BY <1>3, <2>1
  <2>6. \A i \in 1..Len(s) : \E k \in 1..p : \E c \in 1..Len(F[k]) : s[i] = F[k][c]
    BY <2>5 DEF JoinedFrom
  <2>7. \A k \in 1..p : k \in 1..(p + 1)
    BY <2>1
  <2>8. p + 1 \in 1..(p + 1)
    BY <2>1
  <2> HIDE DEF s, u
  <2>9. \A i \in 1..Len(u) : \E k \in 1..(p + 1) : \E c \in 1..Len(F[k]) : u[i] = F[k][c]
    <3> SUFFICES ASSUME NEW i \in 1..Len(u)
                 PROVE  \E k \in 1..(p + 1) : \E c \in 1..Len(F[k]) : u[i] = F[k][c]
      OBVIOUS
    <3>1. /\ Len(u) = Len(s) + Len(t) /\ Len(s) \in Nat /\ Len(t) \in Nat
          /\ u[i] = IF i <= Len(s) THEN s[i] ELSE t[i - Len(s)]
      BY <2>4, ConcatProperties
    <3>2. CASE i <= Len(s)
      <4>1. i \in 1..Len(s) /\ u[i] = s[i]
        BY <3>1, <3>2
      <4> QED
        BY <2>6, <2>7, <4>1
    <3>3. CASE ~(i <= Len(s))
      <4>1. i - Len(s) \in 1..Len(t) /\ u[i] = t[i - Len(s)]
        BY <3>1, <3>3
      <4> QED
        BY <2>8, <4>1
    <3> QED
      BY <3>2, <3>3
  <2>10. JoinedFrom(F, p + 1)
    BY <2>9 DEF JoinedFrom, u
  <2> QED
    BY <1>2, <2>1, <2>10
<1> QED
  BY <1>4, <1>5

\* The j-th element of the k-th sequence is the m-th of all, and what is before the m-th
\* comes from a sequence before, or from before the j-th.
FoundAt(F, N, k, j, m) ==
    /\ m \in 1..Len(Joined(F, N)) /\ Joined(F, N)[m] = F[k][j]
    /\ \A i \in 1..(m - 1) :
          \E q \in 1..N : \E c \in 1..Len(F[q]) :
             (q < k \/ (q = k /\ c < j)) /\ Joined(F, N)[i] = F[q][c]

\* An element of the k-th sequence is found after those of the first k - 1 and those
\* before it in its own.
LEMMA JoinedPlace ==
    ASSUME NEW A, NEW F, NEW N \in Nat, \A q \in 1..N : F[q] \in Seq(A),
           NEW k \in 1..N, NEW j \in 1..Len(F[k])
    PROVE  FoundAt(F, N, k, j, Len(Joined(F, k - 1)) + j)
<1> DEFINE p == k - 1
           s == Joined(F, p)
           t == F[k]
           u == Joined(F, k)
           w == Joined(F, N)
           m == Len(Joined(F, k - 1)) + j
<1>1. p \in Nat /\ p + 1 = k /\ p <= N /\ k \in 0..N /\ k \in Nat
  OBVIOUS
<1>2. (\A q \in 1..(p + 1) : F[q] \in Seq(A)) /\ (\A q \in 1..p : F[q] \in Seq(A))
  BY <1>1
<1>3. m = Len(s) + j
  OBVIOUS
<1> HIDE DEF p, m
<1>4. s \in Seq(A) /\ u = s \o t /\ t \in Seq(A)
  <2>1. Joined(F, p) \in Seq(A) /\ Joined(F, p + 1) = Joined(F, p) \o F[p + 1]
    BY <1>1, <1>2, FlattenMore DEF Joined
  <2> QED
    BY <1>1, <2>1
<1>5. JoinedBegins(F, k, N) /\ w \in Seq(A) /\ Len(w) \in Nat
  BY <1>1, JoinedPrefix, JoinedType
<1>6. Len(u) <= Len(w) /\ \A i \in 1..Len(u) : w[i] = u[i]
  BY <1>5 DEF JoinedBegins
<1>7. JoinedFrom(F, p)
  BY <1>1, <1>2, JoinedMembers
<1>8. \A i \in 1..Len(s) : \E q \in 1..p : \E c \in 1..Len(F[q]) : s[i] = F[q][c]
  BY <1>7 DEF JoinedFrom
<1>9. \A q \in 1..p : q \in 1..N /\ q < k
  BY <1>1
<1> HIDE DEF s, u, w
<1>10. /\ Len(u) = Len(s) + Len(t) /\ Len(s) \in Nat /\ Len(t) \in Nat
       /\ \A i \in 1..Len(u) : u[i] = IF i <= Len(s) THEN s[i] ELSE t[i - Len(s)]
  BY <1>4, ConcatProperties
<1>11. j \in 1..Len(t)
  OBVIOUS
<1> HIDE DEF t
<1>12. m \in 1..Len(u) /\ m \in 1..Len(w) /\ m - Len(s) = j /\ ~(m <= Len(s))
  BY <1>3, <1>5, <1>6, <1>10, <1>11
<1>13. w[m] = t[j]
  BY <1>6, <1>10, <1>12
<1>14. \A i \in 1..(m - 1) :
          \E q \in 1..N : \E c \in 1..Len(F[q]) :
             (q < k \/ (q = k /\ c < j)) /\ w[i] = F[q][c]
  <2> SUFFICES ASSUME NEW i \in 1..(m - 1)
               PROVE  \E q \in 1..N : \E c \in 1..Len(F[q]) :
                         (q < k \/ (q = k /\ c < j)) /\ w[i] = F[q][c]
    OBVIOUS
  <2>1. i \in 1..Len(u) /\ i \in Int
    BY <1>10, <1>12
  <2>2. w[i] = u[i]
    BY <1>6, <2>1
  <2>3. CASE i <= Len(s)
    <3>1. i \in 1..Len(s) /\ u[i] = s[i]
      BY <1>10, <2>1, <2>3
    <3> QED
      BY <1>8, <1>9, <2>2, <3>1
  <2>4. CASE ~(i <= Len(s))
    <3> DEFINE c == i - Len(s)
    <3>1. c \in 1..Len(t) /\ c < j /\ u[i] = t[c]
      BY <1>3, <1>10, <1>11, <2>1, <2>4
    <3> HIDE DEF c
    <3> QED
      BY <2>2, <3>1 DEF t
  <2> QED
    BY <2>3, <2>4
<1> QED
  BY <1>12, <1>13, <1>14 DEF w, t, m, FoundAt

-----------------------------------------------------------------------------
(* More about sums *)

\* If some subset of a finite set is bad and the empty one is not, then there is a bad
\* subset that is no longer bad without some element.
LEMMA SmallestBad ==
    ASSUME NEW S, IsFiniteSet(S), NEW B \in SUBSET SUBSET S, B # {}, {} \notin B
    PROVE  \E s \in B : s \in SUBSET S /\ IsFiniteSet(s)
                        /\ \E e \in s : s \ {e} \in SUBSET S /\ s \ {e} \notin B
<1>1. \A s \in B : IsFiniteSet(s)
  BY FS_Subset
<1>2. PICK s \in B : \A t \in B : Cardinality(s) <= Cardinality(t)
  BY <1>1, LeastSet
<1>3. s # {} /\ s \in SUBSET S /\ IsFiniteSet(s)
  BY <1>1
<1>4. PICK e \in s : TRUE
  BY <1>3
<1>5. Cardinality(s \ {e}) = Cardinality(s) - 1 /\ Cardinality(s) \in Nat
  BY <1>3, FS_RemoveElement, FS_CardinalityType
<1>6. s \ {e} \notin B
  <2>1. ~(Cardinality(s) <= Cardinality(s \ {e}))
    BY <1>5
  <2> QED
    BY <1>2, <2>1
<1> QED
  BY <1>3, <1>4, <1>6

\* Values of a function on a set are integers.
IntOn(f, S) == \A x \in S : f[x] \in Int

\* The sum over s is the value at e and the sum over the others.
Takes(f, s, e) ==
    /\ Total(f, s) = f[e] + Total(f, s \ {e})
    /\ f[e] \in Int /\ Total(f, s \ {e}) \in Int /\ Total(f, s) \in Int

\* Taking an element out of a sum of integers.
LEMMA TotalTakes ==
    ASSUME NEW f, NEW S, IsFiniteSet(S), IntOn(f, S), NEW s \in SUBSET S, NEW e \in s
    PROVE  Takes(f, s, e)
<1>1. IsFiniteSet(s) /\ IsFiniteSet(s \ {e})
  BY FS_Subset
<1>2. (\A x \in s : f[x] \in Int) /\ (\A x \in s \ {e} : f[x] \in Int)
  BY DEF IntOn
<1>3. Total(f, s) = f[e] + Total(f, s \ {e})
  BY <1>1, <1>2, TotalWithout
<1>4. f[e] \in Int /\ Total(f, s \ {e}) \in Int /\ Total(f, s) \in Int
  BY <1>1, <1>2, TotalInt
<1> QED
  BY <1>3, <1>4 DEF Takes

\* h has the sums of the values of f and g.
SumsOn(h, f, g, S) == \A x \in S : h[x] = f[x] + g[x]

\* The sum of a sum.
LEMMA TotalOfSums ==
    ASSUME NEW f, NEW g, NEW h, NEW S, IsFiniteSet(S), IntOn(f, S), IntOn(g, S),
           SumsOn(h, f, g, S)
    PROVE  Total(h, S) = Total(f, S) + Total(g, S)
<1> DEFINE B == { s \in SUBSET S : Total(h, s) # Total(f, s) + Total(g, s) }
<1> SUFFICES ASSUME B # {} PROVE FALSE
  BY DEF B
<1>1. {} \notin B
  BY TotalEmpty
<1>2. PICK s \in B : \E e \in s : s \ {e} \in SUBSET S /\ s \ {e} \notin B
  BY <1>1, SmallestBad
<1>3. PICK e \in s : s \ {e} \in SUBSET S /\ s \ {e} \notin B
  BY <1>2
<1>4. s \in SUBSET S /\ e \in S
  OBVIOUS
<1>5. Total(h, s \ {e}) = Total(f, s \ {e}) + Total(g, s \ {e})
  BY <1>3
<1>6. Total(h, s) # Total(f, s) + Total(g, s)
  OBVIOUS
<1> HIDE DEF B
<1>7. IntOn(h, S)
  BY DEF IntOn, SumsOn
<1>8. Takes(f, s, e) /\ Takes(g, s, e) /\ Takes(h, s, e)
  BY <1>4, <1>7, TotalTakes
<1>9. h[e] = f[e] + g[e]
  BY <1>4 DEF SumsOn
<1> QED
  BY <1>5, <1>6, <1>8, <1>9 DEF Takes

\* What is zero adds nothing.
LEMMA TotalZeros ==
    ASSUME NEW f, NEW S, IsFiniteSet(S), IntOn(f, S), NEW R \in SUBSET S,
           \A x \in S \ R : f[x] = 0
    PROVE  Total(f, S) = Total(f, R)
<1> DEFINE B == { s \in SUBSET S : Total(f, s) # Total(f, s \cap R) }
<1> SUFFICES ASSUME B # {} PROVE FALSE
  <2>1. S \cap R = R
    OBVIOUS
  <2> QED
    BY <2>1
<1>1. {} \notin B
  <2>1. {} \cap R = {}
    OBVIOUS
  <2> QED
    BY <2>1
<1>2. PICK s \in B : \E e \in s : s \ {e} \in SUBSET S /\ s \ {e} \notin B
  BY <1>1, SmallestBad
<1>3. PICK e \in s : s \ {e} \in SUBSET S /\ s \ {e} \notin B
  BY <1>2
<1>4. s \in SUBSET S /\ e \in S /\ s \cap R \in SUBSET S
  OBVIOUS
<1>5. Total(f, s \ {e}) = Total(f, (s \ {e}) \cap R)
  BY <1>3
<1>6. Total(f, s) # Total(f, s \cap R)
  OBVIOUS
<1> HIDE DEF B
<1>7. /\ Total(f, s) = f[e] + Total(f, s \ {e})
      /\ f[e] \in Int /\ Total(f, s \ {e}) \in Int /\ Total(f, s) \in Int
  BY <1>4, TotalTakes DEF Takes
<1>8. CASE e \in R
  <2>1. (s \ {e}) \cap R = (s \cap R) \ {e} /\ e \in s \cap R
    BY <1>8
  <2>2. Total(f, s \cap R) = f[e] + Total(f, (s \cap R) \ {e})
    <3> DEFINE t == s \cap R
    <3>1. t \in SUBSET S /\ e \in t
      BY <1>4, <2>1
    <3> HIDE DEF t
    <3>2. Total(f, t) = f[e] + Total(f, t \ {e})
      BY <3>1, TotalTakes DEF Takes
    <3> QED
      BY <3>2 DEF t
  <2> QED
    BY <1>5, <1>6, <1>7, <2>1, <2>2
<1>9. CASE e \notin R
  <2>1. (s \ {e}) \cap R = s \cap R /\ f[e] = 0
    BY <1>4, <1>9
  <2>2. Total(f, s) = Total(f, s \ {e})
    BY <1>7, <2>1
  <2> QED
    BY <1>5, <1>6, <2>1, <2>2
<1> QED
  BY <1>8, <1>9

\* e takes the elements of S to those of R, no two to the same, and f has there what g has.
Renames(e, S, R, f, g) ==
    /\ R = { e[x] : x \in S }
    /\ \A x, y \in S : x # y => e[x] # e[y]
    /\ \A x \in S : f[e[x]] = g[x]

\* A sum over renamed elements.
LEMMA TotalRenamed ==
    ASSUME NEW f, NEW g, NEW e, NEW S, IsFiniteSet(S), NEW R, IsFiniteSet(R),
           IntOn(g, S), Renames(e, S, R, f, g)
    PROVE  Total(f, R) = Total(g, S)
<1> DEFINE I(s) == { e[x] : x \in s }
           B == { s \in SUBSET S : Total(f, I(s)) # Total(g, s) }
<1>1. R = I(S)
  BY DEF Renames
<1> SUFFICES ASSUME B # {} PROVE FALSE
  BY <1>1
<1>2. {} \notin B
  <2>1. I({}) = {}
    OBVIOUS
  <2> QED
    BY <2>1, TotalEmpty
<1>3. PICK s \in B : \E x \in s : s \ {x} \in SUBSET S /\ s \ {x} \notin B
  BY <1>2, SmallestBad
<1>4. PICK x \in s : s \ {x} \in SUBSET S /\ s \ {x} \notin B
  BY <1>3
<1>5. s \in SUBSET S /\ x \in S
  OBVIOUS
<1>6. Total(f, I(s \ {x})) = Total(g, s \ {x})
  BY <1>4
<1>7. Total(f, I(s)) # Total(g, s)
  OBVIOUS
<1> HIDE DEF B
<1>8. I(s \ {x}) = I(s) \ {e[x]} /\ e[x] \in I(s) /\ I(s) \in SUBSET R
  BY <1>1, <1>5 DEF Renames
<1>9. IntOn(f, R)
  BY DEF IntOn, Renames
<1> HIDE DEF I
<1>10. Total(f, I(s)) = f[e[x]] + Total(f, I(s) \ {e[x]})
  BY <1>8, <1>9, TotalTakes DEF Takes
<1>11. Total(g, s) = g[x] + Total(g, s \ {x})
  BY <1>5, TotalTakes DEF Takes
<1>12. f[e[x]] = g[x]
  BY <1>5 DEF Renames
<1> QED
  BY <1>6, <1>7, <1>8, <1>10, <1>11, <1>12

\* A sum of natural numbers is one, and not less than any of them.
LEMMA TotalNat ==
    ASSUME NEW f, NEW S, IsFiniteSet(S), \A x \in S : f[x] \in Nat
    PROVE  Total(f, S) \in Nat /\ \A x \in S : f[x] <= Total(f, S)
<1>1. IntOn(f, S)
  BY DEF IntOn
<1>2. \A s \in SUBSET S : Total(f, s) \in Nat
  <2> DEFINE B == { s \in SUBSET S : Total(f, s) \notin Nat }
  <2> SUFFICES ASSUME B # {} PROVE FALSE
    OBVIOUS
  <2>1. {} \notin B
    BY TotalEmpty
  <2>2. PICK s \in B : \E e \in s : s \ {e} \in SUBSET S /\ s \ {e} \notin B
    BY <2>1, SmallestBad
  <2>3. PICK e \in s : s \ {e} \in SUBSET S /\ s \ {e} \notin B
    BY <2>2
  <2>4. s \in SUBSET S /\ f[e] \in Nat /\ Total(f, s \ {e}) \in Nat /\ Total(f, s) \notin Nat
    BY <2>3
  <2> HIDE DEF B
  <2>5. Total(f, s) = f[e] + Total(f, s \ {e})
    BY <1>1, <2>4, TotalTakes DEF Takes
  <2> QED
    BY <2>4, <2>5
<1>3. ASSUME NEW x \in S PROVE f[x] <= Total(f, S)
  <2>1. Total(f, S) = f[x] + Total(f, S \ {x}) /\ S \ {x} \in SUBSET S
    BY <1>1, TotalTakes DEF Takes
  <2>2. f[x] \in Nat /\ Total(f, S \ {x}) \in Nat
    BY <1>2, <2>1
  <2> QED
    BY <2>1, <2>2
<1> QED
  BY <1>2, <1>3

\* h is f on the first m numbers and then g on n more.
Follows(h, f, m, g, n) ==
    /\ \A i \in 1..m : h[i] = f[i]
    /\ \A j \in 1..n : h[m + j] = g[j]

\* The sum of one after the other.
LEMMA TotalFollows ==
    ASSUME NEW h, NEW f, NEW m \in Nat, NEW g, NEW n \in Nat, Follows(h, f, m, g, n),
           IntOn(f, 1..m), IntOn(g, 1..n)
    PROVE  Total(h, 1..(m + n)) = Total(f, 1..m) + Total(g, 1..n)
<1> DEFINE T == { j \in Nat : j <= n /\ Total(h, 1..(m + j)) # Total(f, 1..m) + Total(g, 1..j) }
<1> SUFFICES ASSUME T # {} PROVE FALSE
  OBVIOUS
<1>1. PICK j \in T : \A k \in T : j <= k
  BY LeastNumber
<1>2. j \in Nat /\ j <= n /\ Total(h, 1..(m + j)) # Total(f, 1..m) + Total(g, 1..j)
  OBVIOUS
<1>3. \A k \in Nat : k < j => Total(h, 1..(m + k)) = Total(f, 1..m) + Total(g, 1..k)
  <2> SUFFICES ASSUME NEW k \in Nat, k < j,
                      Total(h, 1..(m + k)) # Total(f, 1..m) + Total(g, 1..k)
               PROVE  FALSE
    OBVIOUS
  <2>1. k \in T
    BY <1>2
  <2> QED
    BY <1>1, <1>2, <2>1
<1> HIDE DEF T
<1>4. \A k \in Nat : IsFiniteSet(1..k)
  BY FS_Interval
<1>5. Total(f, 1..m) \in Int
  BY <1>4, TotalInt DEF IntOn
<1>6. CASE j = 0
  <2>1. 1..(m + j) = 1..m /\ 1..j = {}
    BY <1>6
  <2>2. Total(h, 1..m) = Total(f, 1..m)
    <3>1. \A x \in 1..m : h[x] = f[x]
      BY DEF Follows
    <3> QED
      BY <1>4, <3>1, TotalEqual
  <2>3. Total(g, 1..j) = 0
    BY <2>1, TotalEmpty
  <2>4. Total(h, 1..(m + j)) = Total(f, 1..m)
    BY <2>1, <2>2
  <2> QED
    BY <1>2, <1>5, <2>3, <2>4
<1>7. CASE j # 0
  <2> DEFINE k == j - 1
             q == m + k
  <2>1. k \in Nat /\ k < j /\ k + 1 = j /\ j \in 1..n /\ q \in Nat /\ m + j = q + 1
    BY <1>2, <1>7
  <2>2. 1..j = (1..k) \cup {j} /\ j \notin 1..k
    BY <2>1
  <2>3. 1..(m + j) = (1..q) \cup {m + j} /\ m + j \notin 1..q
    BY <2>1
  <2>4. Total(h, 1..q) = Total(f, 1..m) + Total(g, 1..k)
    BY <1>3, <2>1
  <2>5. h[m + j] = g[j] /\ g[j] \in Int
    BY <2>1 DEF Follows, IntOn
  <2>6. \A x \in 1..q : h[x] \in Int
    <3> SUFFICES ASSUME NEW x \in 1..q PROVE h[x] \in Int
      OBVIOUS
    <3>1. CASE x \in 1..m
      BY <3>1 DEF Follows, IntOn
    <3>2. CASE x \notin 1..m
      <4>1. x - m \in 1..n /\ m + (x - m) = x
        BY <1>2, <2>1, <3>2
      <4> QED
        BY <4>1 DEF Follows, IntOn
    <3> QED
      BY <3>1, <3>2
  <2>7. \A x \in 1..k : g[x] \in Int
    BY <1>2, <2>1 DEF IntOn
  <2>8. Total(g, 1..k) \in Int
    BY <1>4, <2>1, <2>7, TotalInt
  <2> HIDE DEF k, q
  <2> DEFINE A == 1..j
             C == 1..k
             X == 1..(m + j)
             Y == 1..q
             e == m + j
  <2>9. Total(g, A) = g[j] + Total(g, C)
    <3>1. IsFiniteSet(A) /\ IntOn(g, A) /\ A \in SUBSET A /\ j \in A /\ A \ {j} = C
      BY <1>2, <1>4, <2>1, <2>2 DEF IntOn
    <3> HIDE DEF A, C
    <3>2. Takes(g, A, j)
      BY <3>1, TotalTakes
    <3> QED
      BY <3>1, <3>2 DEF Takes
  <2>10. Total(h, X) = g[j] + Total(h, Y)
    <3>1. X \in SUBSET X /\ e \in X /\ X \ {e} = Y /\ h[e] = g[j]
      BY <2>1, <2>3, <2>5
    <3>2. IsFiniteSet(X)
      BY <1>2, <1>4
    <3>3. IntOn(h, X)
      BY <2>3, <2>5, <2>6 DEF IntOn
    <3> HIDE DEF X, Y, e
    <3>4. Takes(h, X, e)
      BY <3>1, <3>2, <3>3, TotalTakes
    <3> QED
      BY <3>1, <3>4 DEF Takes
  <2>11. Total(h, X) = Total(f, 1..m) + Total(g, A)
    <3>1. Total(h, Y) = Total(f, 1..m) + Total(g, C) /\ Total(g, C) \in Int /\ g[j] \in Int
      BY <2>4, <2>5, <2>8
    <3> HIDE DEF A, C, X, Y
    <3> QED
      BY <1>5, <2>9, <2>10, <3>1
  <2> QED
    BY <1>2, <2>11
<1> QED
  BY <1>6, <1>7

-----------------------------------------------------------------------------
(* Counting *)

\* How many of the first n numbers are in Q.
Count(Q, n) == Cardinality({ k \in 1..n : k \in Q })

\* One number more.
LEMMA CountOneMore ==
    ASSUME NEW Q, NEW n \in Nat
    PROVE  /\ Count(Q, n) \in 0..n /\ Count(Q, 0) = 0
           /\ Count(Q, n + 1) = Count(Q, n) + (IF n + 1 \in Q THEN 1 ELSE 0)
<1> DEFINE K == { k \in 1..n : k \in Q }
           L == { k \in 1..(n + 1) : k \in Q }
           m == n + 1
<1>1. IsFiniteSet(1..n) /\ Cardinality(1..n) = n
  BY FS_Interval
<1>2. IsFiniteSet(K) /\ Cardinality(K) <= n
  <2>1. K \in SUBSET (1..n)
    OBVIOUS
  <2> HIDE DEF K
  <2> QED
    BY <1>1, <2>1, FS_Subset
<1>3. L = IF m \in Q THEN K \cup {m} ELSE K
  OBVIOUS
<1>4. m \notin K
  OBVIOUS
<1>5. Count(Q, n) = Cardinality(K) /\ Count(Q, n + 1) = Cardinality(L)
  BY DEF Count
<1>6. Count(Q, 0) = 0
  <2>1. { k \in 1..0 : k \in Q } = {}
    OBVIOUS
  <2> QED
    BY <2>1, FS_EmptySet DEF Count
<1>7. m \in Q <=> n + 1 \in Q
  OBVIOUS
<1> HIDE DEF K, L, m
<1>8. Cardinality(K) \in Nat
  BY <1>2, FS_CardinalityType
<1>9. Cardinality(K \cup {m}) = Cardinality(K) + 1
  BY <1>2, <1>4, FS_AddElement
<1>10. Cardinality(L) = Cardinality(K) + (IF n + 1 \in Q THEN 1 ELSE 0)
  BY <1>3, <1>7, <1>8, <1>9
<1> QED
  BY <1>2, <1>5, <1>6, <1>8, <1>10

\* U has the first m numbers that Q has and n after them that R has.
CountFollows(U, Q, m, R, n) ==
    /\ \A i \in 1..m : i \in U <=> i \in Q
    /\ \A j \in 1..n : m + j \in U <=> j \in R

\* Counting one after the other.
LEMMA CountsAdd ==
    ASSUME NEW U, NEW Q, NEW m \in Nat, NEW R, NEW n \in Nat, CountFollows(U, Q, m, R, n)
    PROVE  Count(U, m + n) = Count(Q, m) + Count(R, n)
<1> DEFINE T == { j \in Nat : j <= n /\ Count(U, m + j) # Count(Q, m) + Count(R, j) }
<1> SUFFICES ASSUME T # {} PROVE FALSE
  OBVIOUS
<1>1. PICK j \in T : \A k \in T : j <= k
  BY LeastNumber
<1>2. j \in Nat /\ j <= n /\ Count(U, m + j) # Count(Q, m) + Count(R, j)
  OBVIOUS
<1>3. \A k \in Nat : k < j => Count(U, m + k) = Count(Q, m) + Count(R, k)
  <2> SUFFICES ASSUME NEW k \in Nat, k < j, Count(U, m + k) # Count(Q, m) + Count(R, k)
               PROVE  FALSE
    OBVIOUS
  <2>1. k \in T
    BY <1>2
  <2> QED
    BY <1>1, <1>2, <2>1
<1> HIDE DEF T
<1>4. Count(Q, m) \in Nat
  BY CountOneMore
<1>5. CASE j = 0
  <2>1. m + j = m /\ Count(R, j) = 0
    BY <1>5, CountOneMore
  <2>2. { i \in 1..m : i \in U } = { i \in 1..m : i \in Q }
    BY DEF CountFollows
  <2>3. Count(U, m) = Count(Q, m)
    BY <2>2 DEF Count
  <2> QED
    BY <1>2, <1>4, <2>1, <2>3
<1>6. CASE j # 0
  <2> DEFINE k == j - 1
             q == m + k
  <2>1. k \in Nat /\ k < j /\ k + 1 = j /\ j \in 1..n /\ q \in Nat /\ m + j = q + 1
    BY <1>2, <1>6
  <2>2. Count(U, q) = Count(Q, m) + Count(R, k)
    BY <1>3, <2>1
  <2> HIDE DEF k, q
  <2>3. Count(U, q + 1) = Count(U, q) + (IF q + 1 \in U THEN 1 ELSE 0)
    BY <2>1, CountOneMore
  <2>4. Count(R, k + 1) = Count(R, k) + (IF k + 1 \in R THEN 1 ELSE 0) /\ Count(R, k) \in Nat
    BY <2>1, CountOneMore
  <2>5. m + j \in U <=> j \in R
    BY <2>1 DEF CountFollows
  <2>6. Count(U, m + j) = Count(U, q) + (IF j \in R THEN 1 ELSE 0)
    BY <2>1, <2>3, <2>5
  <2>7. Count(R, j) = Count(R, k) + (IF j \in R THEN 1 ELSE 0)
    BY <2>1, <2>4
  <2> HIDE DEF Count
  <2> QED
    BY <1>2, <1>4, <2>2, <2>4, <2>6, <2>7
<1> QED
  BY <1>5, <1>6

-----------------------------------------------------------------------------
(* Elements in the order of their keys *)

\* Every element of S has a number of its own.
Keys(e, S) == /\ \A x \in S : e[x] \in Nat
              /\ \A x, y \in S : e[x] = e[y] => x = y

\* Those of S that come before x.
Earlier(e, S, x) == { y \in S : e[y] < e[x] }

Latest(e, S, x) == x \in S /\ \A y \in S : e[y] <= e[x]

\* Of a finite set one is the last.
LEMMA LatestExists ==
    ASSUME NEW S, IsFiniteSet(S), S # {}, NEW e, Keys(e, S)
    PROVE  \E x \in S : Latest(e, S, x)
<1> DEFINE B == { s \in SUBSET S : s # {} /\ ~ \E x \in s : Latest(e, s, x) }
<1> SUFFICES ASSUME B # {} PROVE FALSE
  OBVIOUS
<1>1. {} \notin B /\ B \in SUBSET SUBSET S
  OBVIOUS
<1>2. \A s \in SUBSET S : s \notin B => s = {} \/ \E x \in s : Latest(e, s, x)
  OBVIOUS
<1>3. \A s \in B : s # {} /\ \A x \in s : ~Latest(e, s, x)
  OBVIOUS
<1> HIDE DEF B
<1>4. PICK s \in B : s \in SUBSET S /\ \E c \in s : s \ {c} \in SUBSET S /\ s \ {c} \notin B
  BY <1>1, SmallestBad
<1>5. PICK c \in s : s \ {c} \in SUBSET S /\ s \ {c} \notin B
  BY <1>4
<1>6. \A x \in s : e[x] \in Nat /\ ~Latest(e, s, x)
  BY <1>3, <1>4 DEF Keys
<1>7. CASE s \ {c} = {}
  <2>1. \A y \in s : y = c
    BY <1>7
  <2>2. Latest(e, s, c)
    BY <1>5, <1>6, <2>1 DEF Latest
  <2> QED
    BY <1>6, <2>2
<1>8. CASE s \ {c} # {}
  <2>1. PICK x \in s \ {c} : Latest(e, s \ {c}, x)
    BY <1>2, <1>5, <1>8
  <2>2. e[x] \in Nat /\ e[c] \in Nat /\ x \in s /\ \A y \in s : e[y] \in Nat
    BY <1>5, <1>6, <2>1
  <2>3. \A y \in s : y = c \/ e[y] <= e[x]
    BY <2>1 DEF Latest
  <2>4. CASE e[x] <= e[c]
    <3>1. \A y \in s : e[y] <= e[c]
      BY <2>2, <2>3, <2>4
    <3> QED
      BY <1>5, <1>6, <3>1 DEF Latest
  <2>5. CASE ~(e[x] <= e[c])
    <3>1. \A y \in s : e[y] <= e[x]
      BY <2>2, <2>3, <2>5
    <3> QED
      BY <1>6, <2>2, <3>1 DEF Latest
  <2> QED
    BY <2>4, <2>5
<1> QED
  BY <1>7, <1>8

\* As many are before the last as there are others.
LEMMA LatestRank ==
    ASSUME NEW S, IsFiniteSet(S), NEW e, Keys(e, S), NEW x, Latest(e, S, x)
    PROVE  Cardinality(S) = Cardinality(Earlier(e, S, x)) + 1
<1>1. Earlier(e, S, x) = S \ {x}
  <2>1. ASSUME NEW y \in S PROVE e[y] < e[x] <=> y # x
    <3>1. e[y] \in Nat /\ e[x] \in Nat /\ e[y] <= e[x] /\ x \in S
      BY DEF Latest, Keys
    <3>2. e[y] = e[x] => y = x
      BY <3>1 DEF Keys
    <3> QED
      BY <3>1, <3>2
  <2> QED
    BY <2>1 DEF Earlier
<1>2. x \in S
  BY DEF Latest
<1>3. Cardinality(S \ {x}) = Cardinality(S) - 1 /\ Cardinality(S) \in Nat
  BY <1>2, FS_RemoveElement, FS_CardinalityType
<1> QED
  BY <1>1, <1>3

\* What is before the last of those before x.
LEMMA EarlierOfLatest ==
    ASSUME NEW S, IsFiniteSet(S), NEW e, Keys(e, S), NEW x \in S, NEW y,
           Latest(e, Earlier(e, S, x), y)
    PROVE  /\ y \in S /\ e[y] < e[x]
           /\ Cardinality(Earlier(e, S, x)) = Cardinality(Earlier(e, S, y)) + 1
<1>1. y \in S /\ e[y] < e[x]
  BY DEF Latest, Earlier
<1>2. Earlier(e, Earlier(e, S, x), y) = Earlier(e, S, y)
  <2>1. e[y] \in Nat /\ e[x] \in Nat /\ \A z \in S : e[z] \in Nat
    BY <1>1 DEF Keys
  <2>2. \A z \in S : e[z] < e[y] => e[z] < e[x]
    BY <1>1, <2>1
  <2> QED
    BY <2>2 DEF Earlier
<1>3. IsFiniteSet(Earlier(e, S, x)) /\ Keys(e, Earlier(e, S, x))
  <2>1. Earlier(e, S, x) \in SUBSET S
    BY DEF Earlier
  <2>2. IsFiniteSet(Earlier(e, S, x))
    BY <2>1, FS_Subset
  <2>3. Keys(e, Earlier(e, S, x))
    BY <2>1 DEF Keys
  <2> QED
    BY <2>2, <2>3
<1> QED
  BY <1>1, <1>2, <1>3, LatestRank

\* Every place in the order is taken.
LEMMA RankTaken ==
    ASSUME NEW S, IsFiniteSet(S), NEW e, Keys(e, S), NEW k \in 1..Cardinality(S)
    PROVE  \E x \in S : Cardinality(Earlier(e, S, x)) = k - 1
<1> DEFINE c(x) == Cardinality(Earlier(e, S, x))
           T == { x \in S : c(x) >= k - 1 }
           K == { e[x] : x \in T }
<1>1. \A x \in S : IsFiniteSet(Earlier(e, S, x)) /\ c(x) \in Nat
  <2> SUFFICES ASSUME NEW x \in S PROVE IsFiniteSet(Earlier(e, S, x)) /\ c(x) \in Nat
    OBVIOUS
  <2>1. Earlier(e, S, x) \in SUBSET S
    BY DEF Earlier
  <2>2. IsFiniteSet(Earlier(e, S, x))
    BY <2>1, FS_Subset
  <2> QED
    BY <2>2, FS_CardinalityType
<1>2. Cardinality(S) \in Nat /\ S # {}
  BY FS_CardinalityType, FS_EmptySet
<1>3. PICK z \in S : Latest(e, S, z)
  BY <1>2, LatestExists
<1>4. z \in T
  <2>1. Cardinality(S) = c(z) + 1
    BY <1>3, LatestRank
  <2>2. k \in Nat /\ k <= Cardinality(S) /\ c(z) \in Nat
    BY <1>1, <1>2
  <2>3. c(z) >= k - 1
    BY <1>2, <2>1, <2>2
  <2> QED
    BY <2>3
<1>5. K \in SUBSET Nat /\ K # {}
  BY <1>4 DEF Keys
<1>6. PICK m \in K : \A q \in K : m <= q
  BY <1>5, LeastNumber
<1>7. PICK x \in T : m = e[x]
  BY <1>6
<1>8. \A y \in T : e[x] <= e[y]
  BY <1>6, <1>7
<1>9. x \in S /\ c(x) >= k - 1 /\ c(x) \in Nat
  BY <1>1, <1>7
<1>10. \A y \in S : y \in T <=> c(y) >= k - 1
  OBVIOUS
<1> HIDE DEF T, K
<1>11. CASE Earlier(e, S, x) = {}
  <2>1. c(x) = 0
    BY <1>11, FS_EmptySet
  <2>2. c(x) = k - 1
    BY <1>9, <2>1
  <2> QED
    BY <1>9, <2>2
<1>12. CASE Earlier(e, S, x) # {}
  <2>1. Keys(e, Earlier(e, S, x))
    BY DEF Keys, Earlier
  <2>2. PICK y \in Earlier(e, S, x) : Latest(e, Earlier(e, S, x), y)
    BY <1>1, <1>9, <1>12, <2>1, LatestExists
  <2>3. y \in S /\ e[y] < e[x] /\ c(x) = c(y) + 1
    BY <1>9, <2>2, EarlierOfLatest
  <2>4. ~(c(y) >= k - 1)
    <3>1. e[x] \in Nat /\ e[y] \in Nat
      BY <1>9, <2>3 DEF Keys
    <3>2. y \notin T
      BY <1>8, <2>3, <3>1
    <3> QED
      BY <1>10, <2>3, <3>2
  <2>5. c(y) \in Nat /\ k \in Nat
    BY <1>1, <2>3
  <2> HIDE DEF c
  <2>6. c(x) = k - 1
    BY <1>9, <2>3, <2>4, <2>5
  <2> QED
    BY <1>9, <2>6 DEF c
<1> QED
  BY <1>11, <1>12

-----------------------------------------------------------------------------
(* Sums and counts over a sequence *)

\* The sum of the values v has for the members of a sequence.
Values(v, s) == [i \in DOMAIN s |-> v[s[i]]]
SumOver(v, s) == Total(Values(v, s), DOMAIN s)

\* The places of the members of a sequence that are in Q.
Hits(Q, s) == { i \in DOMAIN s : s[i] \in Q }

\* Over natural numbers it is one, and over none of them zero.
LEMMA SumOverType ==
    ASSUME NEW X, NEW v \in [X -> Nat], NEW s \in Seq(X)
    PROVE  SumOver(v, s) \in Nat /\ SumOver(v, <<>>) = 0
<1>1. DOMAIN s = 1..Len(s) /\ Len(s) \in Nat /\ \A i \in 1..Len(s) : s[i] \in X
  BY LenProperties, ElementOfSeq
<1>2. IsFiniteSet(DOMAIN s)
  BY <1>1, FS_Interval
<1>3. \A i \in DOMAIN s : Values(v, s)[i] \in Nat
  BY <1>1 DEF Values
<1>4. SumOver(v, s) \in Nat
  BY <1>2, <1>3, TotalNat DEF SumOver
<1>5. SumOver(v, <<>>) = 0
  <2>1. DOMAIN <<>> = {}
    OBVIOUS
  <2> QED
    BY <2>1, TotalEmpty DEF SumOver
<1> QED
  BY <1>4, <1>5

\* One sequence after the other.
LEMMA SumOverConcat ==
    ASSUME NEW X, NEW v \in [X -> Nat], NEW s \in Seq(X), NEW t \in Seq(X)
    PROVE  SumOver(v, s \o t) = SumOver(v, s) + SumOver(v, t)
<1> DEFINE m == Len(s)
           n == Len(t)
           u == s \o t
           f == Values(v, s)
           g == Values(v, t)
           h == Values(v, u)
<1>1. /\ m \in Nat /\ DOMAIN s = 1..m /\ \A i \in 1..m : s[i] \in X
      /\ n \in Nat /\ DOMAIN t = 1..n /\ \A i \in 1..n : t[i] \in X
  BY LenProperties, ElementOfSeq
<1>2. u \in Seq(X) /\ Len(u) = m + n /\ DOMAIN u = 1..(m + n)
  <2>1. u \in Seq(X) /\ Len(u) = m + n
    BY ConcatProperties
  <2> HIDE DEF u, m, n
  <2> QED
    BY <2>1, LenProperties
<1>3. \A i \in 1..m : i \in DOMAIN u /\ u[i] = s[i]
  <2> SUFFICES ASSUME NEW i \in 1..m PROVE i \in 1..(m + n) /\ u[i] = s[i]
    BY <1>2
  <2>1. i \in 1..(m + n) /\ i <= m
    BY <1>1
  <2> QED
    BY <2>1, ConcatProperties
<1>4. \A j \in 1..n : m + j \in DOMAIN u /\ u[m + j] = t[j]
  <2> SUFFICES ASSUME NEW j \in 1..n PROVE m + j \in 1..(m + n) /\ u[m + j] = t[j]
    BY <1>2
  <2>1. m + j \in 1..(m + n) /\ ~(m + j <= m) /\ (m + j) - m = j
    BY <1>1
  <2>2. u[m + j] = t[(m + j) - m]
    BY <2>1, ConcatProperties
  <2> QED
    BY <2>1, <2>2
<1> HIDE DEF u, m, n
<1>5. Follows(h, f, m, g, n)
  BY <1>1, <1>3, <1>4 DEF Follows, Values
<1>6. IntOn(f, 1..m) /\ IntOn(g, 1..n)
  BY <1>1 DEF IntOn, Values
<1> HIDE DEF f, g, h
<1>7. Total(h, 1..(m + n)) = Total(f, 1..m) + Total(g, 1..n)
  BY <1>1, <1>5, <1>6, TotalFollows
<1> QED
  BY <1>1, <1>2, <1>7 DEF SumOver, f, g, h, u

\* Counting the members in Q of one sequence after the other.
LEMMA HitsConcat ==
    ASSUME NEW X, NEW Q, NEW s \in Seq(X), NEW t \in Seq(X)
    PROVE  Cardinality(Hits(Q, s \o t)) = Cardinality(Hits(Q, s)) + Cardinality(Hits(Q, t))
<1> DEFINE m == Len(s)
           n == Len(t)
           u == s \o t
<1>1. m \in Nat /\ DOMAIN s = 1..m /\ n \in Nat /\ DOMAIN t = 1..n
  BY LenProperties
<1>2. Len(u) = m + n /\ DOMAIN u = 1..(m + n)
  <2>1. u \in Seq(X) /\ Len(u) = m + n
    BY ConcatProperties
  <2> HIDE DEF u, m, n
  <2> QED
    BY <2>1, LenProperties
<1>3. \A i \in 1..m : i \in 1..(m + n) /\ u[i] = s[i]
  <2> SUFFICES ASSUME NEW i \in 1..m PROVE i \in 1..(m + n) /\ u[i] = s[i]
    OBVIOUS
  <2>1. i \in 1..(m + n) /\ i <= m
    BY <1>1
  <2> QED
    BY <2>1, ConcatProperties
<1>4. \A j \in 1..n : m + j \in 1..(m + n) /\ u[m + j] = t[j]
  <2> SUFFICES ASSUME NEW j \in 1..n PROVE m + j \in 1..(m + n) /\ u[m + j] = t[j]
    OBVIOUS
  <2>1. m + j \in 1..(m + n) /\ ~(m + j <= m) /\ (m + j) - m = j
    BY <1>1
  <2>2. u[m + j] = t[(m + j) - m]
    BY <2>1, ConcatProperties
  <2> QED
    BY <2>1, <2>2
<1> HIDE DEF u, m, n
<1> DEFINE A == Hits(Q, s)
           B == Hits(Q, t)
           C == Hits(Q, u)
<1>5. { k \in 1..m : k \in A } = A /\ { k \in 1..n : k \in B } = B /\ { k \in 1..(m + n) : k \in C } = C
  BY <1>1, <1>2 DEF Hits
<1>6. CountFollows(C, A, m, B, n)
  BY <1>1, <1>2, <1>3, <1>4 DEF CountFollows, Hits
<1> HIDE DEF A, B, C
<1>7. Count(C, m + n) = Count(A, m) + Count(B, n)
  BY <1>1, <1>6, CountsAdd
<1> QED
  BY <1>5, <1>7 DEF Count, A, B, C, u

\* Such a count is a natural number.
LEMMA HitsType ==
    ASSUME NEW X, NEW Q, NEW s \in Seq(X)
    PROVE  /\ IsFiniteSet(Hits(Q, s)) /\ Cardinality(Hits(Q, s)) \in 0..Len(s)
           /\ Cardinality(Hits(Q, <<>>)) = 0
<1>1. Len(s) \in Nat /\ DOMAIN s = 1..Len(s)
  BY LenProperties
<1>2. IsFiniteSet(1..Len(s)) /\ Cardinality(1..Len(s)) = Len(s)
  BY <1>1, FS_Interval
<1>3. Hits(Q, s) \in SUBSET (1..Len(s))
  BY <1>1 DEF Hits
<1>4. IsFiniteSet(Hits(Q, s)) /\ Cardinality(Hits(Q, s)) <= Len(s)
  BY <1>2, <1>3, FS_Subset
<1>5. Cardinality(Hits(Q, s)) \in Nat
  BY <1>4, FS_CardinalityType
<1>6. Hits(Q, <<>>) = {}
  BY DEF Hits
<1> QED
  BY <1>1, <1>4, <1>5, <1>6, FS_EmptySet

-----------------------------------------------------------------------------
(* Sums of sums, and of counts *)

\* A set with one member that counts.
LEMMA TotalOne ==
    ASSUME NEW f, NEW S, IsFiniteSet(S), IntOn(f, S), NEW e \in S, \A x \in S \ {e} : f[x] = 0
    PROVE  Total(f, S) = f[e]
<1>1. Total(f, S) = Total(f, {e})
  BY TotalZeros
<1>2. Takes(f, {e}, e)
  BY TotalTakes
<1>3. {e} \ {e} = {}
  OBVIOUS
<1>4. Total(f, {e} \ {e}) = 0
  BY <1>3, TotalEmpty
<1>5. Total(f, {e}) = f[e] + Total(f, {e} \ {e}) /\ f[e] \in Int
  BY <1>2 DEF Takes
<1>6. Total(f, {e}) = f[e] + 0
  BY <1>4, <1>5
<1>7. \A i \in Int : i + 0 = i
  OBVIOUS
<1> QED
  BY <1>1, <1>5, <1>6, <1>7

\* The sums of the rows s of a table over the columns T, and of its columns over s.
RowSums(a, S, T) == [x \in S |-> Total(a[x], T)]
ColumnOf(a, S, y) == [x \in S |-> a[x][y]]
ColumnSums(a, S, T, s) == [y \in T |-> Total(ColumnOf(a, S, y), s)]

\* The sum of the sums of the rows is that of the sums of the columns.
LEMMA TotalSwapped ==
    ASSUME NEW a, NEW S, IsFiniteSet(S), NEW T, IsFiniteSet(T), \A x \in S : IntOn(a[x], T)
    PROVE  Total(RowSums(a, S, T), S) = Total(ColumnSums(a, S, T, S), T)
<1> DEFINE r == RowSums(a, S, T)
           c(s) == ColumnSums(a, S, T, s)
           B == { s \in SUBSET S : Total(r, s) # Total(c(s), T) }
<1> SUFFICES ASSUME B # {} PROVE FALSE
  BY DEF B
<1>1. IntOn(r, S)
  <2> SUFFICES ASSUME NEW x \in S PROVE Total(a[x], T) \in Int
    BY DEF IntOn, RowSums
  <2> QED
    BY TotalInt DEF IntOn
<1>2. \A y \in T : IntOn(ColumnOf(a, S, y), S)
  BY DEF IntOn, ColumnOf
<1>3. \A s \in SUBSET S : IntOn(c(s), T)
  <2> SUFFICES ASSUME NEW s \in SUBSET S, NEW y \in T PROVE Total(ColumnOf(a, S, y), s) \in Int
    BY DEF IntOn, ColumnSums
  <2>1. IsFiniteSet(s)
    BY FS_Subset
  <2>2. \A x \in s : ColumnOf(a, S, y)[x] \in Int
    BY <1>2 DEF IntOn
  <2> QED
    BY <2>1, <2>2, TotalInt
<1>4. {} \notin B
  <2>1. \A y \in T : c({})[y] = 0
    BY TotalEmpty DEF ColumnSums
  <2>2. Total(c({}), T) = Total(c({}), {})
    <3>1. IntOn(c({}), T)
      BY <1>3
    <3> HIDE DEF c
    <3> QED
      BY <2>1, <3>1, TotalZeros
  <2>3. Total(r, {}) = 0 /\ Total(c({}), {}) = 0
    BY TotalEmpty
  <2> HIDE DEF r, c
  <2> QED
    BY <2>2, <2>3 DEF B
<1>5. PICK s \in B : \E e \in s : s \ {e} \in SUBSET S /\ s \ {e} \notin B
  BY <1>4, SmallestBad
<1>6. PICK e \in s : s \ {e} \in SUBSET S /\ s \ {e} \notin B
  BY <1>5
<1>7. s \in SUBSET S /\ e \in S /\ s \ {e} \in SUBSET S
  BY <1>6
<1>8. Total(r, s \ {e}) = Total(c(s \ {e}), T)
  BY <1>6
<1>9. Total(r, s) # Total(c(s), T)
  OBVIOUS
<1> HIDE DEF B
<1>10. SumsOn(c(s), a[e], c(s \ {e}), T)
  <2> SUFFICES ASSUME NEW y \in T PROVE c(s)[y] = a[e][y] + c(s \ {e})[y]
    BY DEF SumsOn
  <2> DEFINE f == ColumnOf(a, S, y)
  <2>1. c(s)[y] = Total(f, s) /\ c(s \ {e})[y] = Total(f, s \ {e})
    BY DEF ColumnSums
  <2>2. f[e] = a[e][y]
    BY <1>7 DEF ColumnOf
  <2>3. IntOn(f, S)
    BY <1>2
  <2> HIDE DEF f, c
  <2>4. Takes(f, s, e)
    BY <1>7, <2>3, TotalTakes
  <2> QED
    BY <2>1, <2>2, <2>4 DEF Takes
<1>11. r[e] = Total(a[e], T)
  BY <1>7 DEF RowSums
<1>12. IntOn(a[e], T) /\ IntOn(c(s \ {e}), T)
  BY <1>3, <1>7
<1> HIDE DEF r, c
<1>13. Total(c(s), T) = Total(a[e], T) + Total(c(s \ {e}), T)
  BY <1>10, <1>12, TotalOfSums
<1>14. Takes(r, s, e)
  BY <1>1, <1>7, TotalTakes
<1> QED
  BY <1>8, <1>9, <1>11, <1>13, <1>14 DEF Takes

\* The sum of values none of which is less than m.
LEMMA TotalAtLeast ==
    ASSUME NEW f, NEW S, IsFiniteSet(S), NEW m \in Nat, \A x \in S : f[x] \in Int /\ m <= f[x]
    PROVE  Cardinality(S) * m <= Total(f, S)
<1> DEFINE B == { s \in SUBSET S : ~(Cardinality(s) * m <= Total(f, s)) }
<1> SUFFICES ASSUME B # {} PROVE FALSE
  BY DEF B
<1>1. IntOn(f, S)
  BY DEF IntOn
<1>2. {} \notin B
  BY TotalEmpty, FS_EmptySet
<1>3. PICK s \in B : \E e \in s : s \ {e} \in SUBSET S /\ s \ {e} \notin B
  BY <1>2, SmallestBad
<1>4. PICK e \in s : s \ {e} \in SUBSET S /\ s \ {e} \notin B
  BY <1>3
<1>5. s \in SUBSET S /\ e \in S /\ s \ {e} \in SUBSET S
  BY <1>4
<1> DEFINE k == Cardinality(s \ {e})
           n == Cardinality(s)
<1>6. k * m <= Total(f, s \ {e})
  BY <1>4
<1>7. ~(n * m <= Total(f, s))
  OBVIOUS
<1> HIDE DEF B
<1>8. IsFiniteSet(s) /\ IsFiniteSet(s \ {e})
  BY <1>5, FS_Subset
<1>9. k \in Nat /\ n = k + 1
  <2>1. n \in Nat /\ k \in Nat /\ k = n - 1
    BY <1>8, FS_CardinalityType, FS_RemoveElement
  <2> HIDE DEF k, n
  <2> QED
    BY <2>1
<1> HIDE DEF k, n
<1>10. n * m = k * m + m /\ k * m \in Int
  <2>1. \A i, j \in Nat : (i + 1) * j = i * j + j /\ i * j \in Int
    OBVIOUS
  <2> QED
    BY <1>9, <2>1
<1>11. /\ Total(f, s) = f[e] + Total(f, s \ {e})
       /\ f[e] \in Int /\ Total(f, s \ {e}) \in Int /\ m <= f[e]
  BY <1>1, <1>5, TotalTakes DEF Takes
<1> QED
  BY <1>6, <1>7, <1>10, <1>11

\* The places before n at which p has x.
With(p, n, x) == { i \in 1..n : p[i] = x }

\* Every place is counted once.
LEMMA CountsTotal ==
    ASSUME NEW S, IsFiniteSet(S), NEW n \in Nat, NEW p, \A i \in 1..n : p[i] \in S
    PROVE  Total([x \in S |-> Count(With(p, n, x), n)], S) = n
<1> DEFINE g(m) == [x \in S |-> Count(With(p, n, x), m)]
           T == { m \in Nat : m <= n /\ Total(g(m), S) # m }
<1>1. \A m \in Nat : IntOn(g(m), S)
  BY CountOneMore DEF IntOn
<1>2. T = {}
  <2> SUFFICES ASSUME T # {} PROVE FALSE
    OBVIOUS
  <2>1. PICK m \in T : \A k \in T : m <= k
    BY LeastNumber
  <2>2. m \in Nat /\ m <= n /\ Total(g(m), S) # m
    OBVIOUS
  <2>3. \A k \in Nat : k < m => Total(g(k), S) = k
    <3> SUFFICES ASSUME NEW k \in Nat, k < m, Total(g(k), S) # k PROVE FALSE
      OBVIOUS
    <3>1. k \in T
      BY <2>2
    <3> HIDE DEF T
    <3> QED
      BY <2>1, <2>2, <3>1
  <2> HIDE DEF T
  <2>4. CASE m = 0
    <3>1. \A x \in S : g(0)[x] = 0
      BY CountOneMore
    <3>2. IntOn(g(0), S)
      BY <1>1
    <3> HIDE DEF g
    <3>3. Total(g(0), S) = Total(g(0), {})
      BY <3>1, <3>2, TotalZeros
    <3>4. Total(g(0), {}) = 0
      BY TotalEmpty
    <3> QED
      BY <2>2, <2>4, <3>3, <3>4
  <2>5. CASE m # 0
    <3> DEFINE k == m - 1
               d == [x \in S |-> IF p[m] = x THEN 1 ELSE 0]
    <3>1. k \in Nat /\ k < m /\ m = k + 1 /\ m \in 1..n
      BY <2>2, <2>5
    <3>2. p[m] \in S
      BY <3>1
    <3>3. Total(g(k), S) = k
      BY <2>3, <3>1
    <3> HIDE DEF k
    <3>4. SumsOn(g(m), g(k), d, S)
      <4> SUFFICES ASSUME NEW x \in S PROVE g(m)[x] = g(k)[x] + d[x]
        BY DEF SumsOn
      <4>1. Count(With(p, n, x), k + 1)
               = Count(With(p, n, x), k) + (IF k + 1 \in With(p, n, x) THEN 1 ELSE 0)
        BY <3>1, CountOneMore
      <4>2. k + 1 \in With(p, n, x) <=> p[m] = x
        BY <3>1 DEF With
      <4> QED
        BY <3>1, <4>1, <4>2
    <3>5. IntOn(d, S) /\ d[p[m]] = 1 /\ \A x \in S \ {p[m]} : d[x] = 0
      BY <3>2 DEF IntOn
    <3>6. IntOn(g(k), S)
      BY <1>1, <3>1
    <3> HIDE DEF d, g
    <3>7. Total(d, S) = 1
      BY <3>2, <3>5, TotalOne
    <3>8. Total(g(m), S) = Total(g(k), S) + Total(d, S)
      BY <3>4, <3>5, <3>6, TotalOfSums
    <3> QED
      BY <2>2, <3>1, <3>3, <3>7, <3>8
  <2> QED
    BY <2>4, <2>5
<1> SUFFICES ASSUME Total(g(n), S) # n PROVE FALSE
  OBVIOUS
<1>3. n \in Nat /\ n <= n
  OBVIOUS
<1>4. n \in T
  BY <1>3, Zenon
<1> QED
  BY <1>2, <1>4
=============================================================================
