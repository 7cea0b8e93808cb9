--------------------------- MODULE SstChainProofs ---------------------------
(***************************************************************************)
(* Proofs about SstChain: what is derived, what is compared and what       *)
(* passes, for every scene, reference and configuration.                   *)
(*                                                                         *)
(* The strengthening says what each function of the chain left behind:     *)
(* process_scene the retrieved pixels, colocate pairs of a usable pixel    *)
(* with its nearest target, validate_product a verdict on those pairs.     *)
(***************************************************************************)
EXTENDS SstChain, FiniteSetTheorems, TLAPS

-----------------------------------------------------------------------------
(* Induction over the subsets of a finite set. *)

\* A nonempty collection of subsets of a finite set has a minimal member.
LEMMA MinimalSubset ==
  ASSUME NEW S, IsFiniteSet(S), NEW X \in SUBSET (SUBSET S), X # {}
  PROVE  \E T \in X : \A U \in X : U \subseteq T => U = T
<1>1. IsWellFoundedOn(StrictSubsetOrdering(S), SUBSET S)
  <2>1. FiniteSubsetsOf(S) = SUBSET S
    BY FS_FiniteSubsetsOfFinite
  <2>2. IsWellFoundedOn(StrictSubsetOrdering(S), FiniteSubsetsOf(S))
    BY FS_StrictSubsetOrderingWellFounded
  <2>. QED
    BY <2>1, <2>2
<1>2. PICK T \in X : \A U \in X : ~(<<U, T>> \in StrictSubsetOrdering(S))
  <2>1. X \subseteq SUBSET S
    OBVIOUS
  <2>. QED
    BY <1>1, <2>1, WFMin
<1>3. ASSUME NEW U \in X, U \subseteq T PROVE U = T
  <2>1. <<U, T>> \in (SUBSET S) \X (SUBSET S)
    BY <1>2
  <2>. QED
    BY <1>2, <1>3, <2>1 DEF StrictSubsetOrdering
<1>. QED
  BY <1>2, <1>3

\* Induction over the subsets of a finite set, with the set of the subsets that
\* have the property in place of the property.
LEMMA SubsetInduction ==
  ASSUME NEW S, IsFiniteSet(S), NEW Good,
         {} \in Good,
         \A T \in SUBSET S : T # {} /\ (\A x \in T : T \ {x} \in Good) => T \in Good
  PROVE  \A T \in SUBSET S : T \in Good
<1>. DEFINE Bad == {T \in SUBSET S : T \notin Good}
<1>. SUFFICES ASSUME Bad # {} PROVE FALSE
  OBVIOUS
<1>1. PICK T \in Bad : \A U \in Bad : U \subseteq T => U = T
  <2>1. Bad \in SUBSET (SUBSET S)
    OBVIOUS
  <2>. HIDE DEF Bad
  <2>. QED
    BY <2>1, MinimalSubset
<1>2. T # {} /\ T \in SUBSET S /\ T \notin Good
  OBVIOUS
<1>3. ASSUME NEW x \in T PROVE T \ {x} \in Good
  <2>1. T \ {x} # T /\ T \ {x} \subseteq T /\ T \ {x} \in SUBSET S
    BY <1>2
  <2>. QED
    BY <1>1, <2>1
<1>. QED
  BY <1>2, <1>3

-----------------------------------------------------------------------------
(* Sums. SumFunctionOnSet evaluates a recursive function on the subsets of *)
(* a set: there is one on those of every finite set, and only one value of *)
(* it at each. What a sum is then follows by induction over the subsets.   *)

\* The element a sum takes out of a set first.
First(S) == CHOOSE x \in S : TRUE

\* g is the recursive function a sum over S evaluates.
SumsUp(f, S, g) ==
  g = [T \in SUBSET S |-> IF T = {} THEN 0 ELSE f[First(T)] + g[T \ {First(T)}]]

LEMMA FirstIn == ASSUME NEW S, S # {} PROVE First(S) \in S
BY DEF First

LEMMA SumIsChosen ==
  ASSUME NEW f, NEW S
  PROVE  SumFunctionOnSet(f, S) = (CHOOSE g : SumsUp(f, S, g))[S]
BY DEF SumFunctionOnSet, FoldFunctionOnSet, MapThenFoldSet, SumsUp, First

LEMMA SumsUpAt ==
  ASSUME NEW f, NEW S, NEW g, SumsUp(f, S, g), NEW T \in SUBSET S
  PROVE  g[T] = IF T = {} THEN 0 ELSE f[First(T)] + g[T \ {First(T)}]
BY DEF SumsUp

\* Such functions agree where both are defined.
LEMMA SumsAgree ==
  ASSUME NEW f, NEW S, IsFiniteSet(S), NEW U \in SUBSET S,
         NEW g, SumsUp(f, S, g), NEW h, SumsUp(f, U, h)
  PROVE  g[U] = h[U]
<1>. DEFINE Good == {T \in SUBSET U : g[T] = h[T]}
<1>1. IsFiniteSet(U)
  BY FS_Subset
<1>2. {} \in Good
  <2>1. g[{}] = 0 /\ h[{}] = 0
    BY SumsUpAt
  <2>. QED
    BY <2>1
<1>3. ASSUME NEW T \in SUBSET U, T # {}, \A x \in T : T \ {x} \in Good
      PROVE  T \in Good
  <2>1. First(T) \in T
    BY <1>3, FirstIn
  <2>2. g[T \ {First(T)}] = h[T \ {First(T)}]
    BY <1>3, <2>1
  <2>3. g[T] = f[First(T)] + g[T \ {First(T)}]
    <3>1. T \in SUBSET S
      OBVIOUS
    <3>. QED
      BY <1>3, <3>1, SumsUpAt
  <2>4. h[T] = f[First(T)] + h[T \ {First(T)}]
    BY <1>3, SumsUpAt
  <2>. QED
    BY <2>2, <2>3, <2>4
<1>4. \A T \in SUBSET U : T \in Good
  <2>. HIDE DEF Good
  <2>. QED
    BY <1>1, <1>2, <1>3, SubsetInduction
<1>. QED
  BY <1>4

\* And there is one on the subsets of every finite set.
LEMMA SumsUpExists ==
  ASSUME NEW f, NEW S, IsFiniteSet(S)
  PROVE  \E g : SumsUp(f, S, g)
<1>. DEFINE Good == {T \in SUBSET S : \A U \in SUBSET T : \E g : SumsUp(f, U, g)}
            Of(U) == CHOOSE g : SumsUp(f, U, g)
<1>1. {} \in Good
  <2>1. SumsUp(f, {}, [T \in SUBSET {} |-> 0])
    BY DEF SumsUp
  <2>2. \A U \in SUBSET {} : U = {}
    OBVIOUS
  <2>. QED
    BY <2>1, <2>2
<1>2. ASSUME NEW T \in SUBSET S, T # {}, \A x \in T : T \ {x} \in Good
      PROVE  T \in Good
  <2>. DEFINE V(U) == IF U = {} THEN 0
                      ELSE f[First(U)] + Of(U \ {First(U)})[U \ {First(U)}]
              G == [U \in SUBSET T |-> V(U)]
  <2>1. ASSUME NEW U \in SUBSET T, U # T PROVE SumsUp(f, U, Of(U))
    <3>1. PICK x \in T : x \notin U
      BY <2>1
    <3>2. U \in SUBSET (T \ {x}) /\ T \ {x} \in Good
      BY <1>2, <3>1
    <3>3. \E g : SumsUp(f, U, g)
      BY <3>2
    <3>. QED
      BY <3>3
  <2>2. ASSUME NEW U \in SUBSET T, U # T PROVE G[U] = Of(U)[U]
    <3>1. G[U] = V(U)
      OBVIOUS
    <3>2. Of(U)[U] = IF U = {} THEN 0 ELSE f[First(U)] + Of(U)[U \ {First(U)}]
      <4>1. SumsUp(f, U, Of(U))
        BY <2>1, <2>2
      <4>2. U \in SUBSET U
        OBVIOUS
      <4>. HIDE DEF Of
      <4>. QED
        BY <4>1, <4>2, SumsUpAt
    <3>3. CASE U # {}
      <4>. DEFINE R == U \ {First(U)}
      <4>1. R \in SUBSET U /\ R \in SUBSET T /\ R # T
        BY <3>3, FirstIn
      <4>2. SumsUp(f, U, Of(U)) /\ SumsUp(f, R, Of(R))
        BY <2>1, <2>2, <4>1
      <4>3. IsFiniteSet(U)
        <5>1. U \in SUBSET S
          OBVIOUS
        <5>. QED
          BY <5>1, FS_Subset
      <4>4. Of(U)[R] = Of(R)[R]
        <5>. HIDE DEF Of, R
        <5>. QED
          BY <4>1, <4>2, <4>3, SumsAgree
      <4>. QED
        BY <3>1, <3>2, <3>3, <4>4
    <3>4. CASE U = {}
      BY <3>1, <3>2, <3>4
    <3>. QED
      BY <3>3, <3>4
  <2>3. ASSUME NEW U \in SUBSET T, U # {} PROVE V(U) = f[First(U)] + G[U \ {First(U)}]
    <3>1. U \ {First(U)} \in SUBSET T /\ U \ {First(U)} # T
      BY <2>3, FirstIn
    <3>2. G[U \ {First(U)}] = Of(U \ {First(U)})[U \ {First(U)}]
      BY <2>2, <3>1
    <3>3. V(U) = f[First(U)] + Of(U \ {First(U)})[U \ {First(U)}]
      BY <2>3
    <3>. QED
      BY <3>2, <3>3
  <2>4. SumsUp(f, T, G)
    <3>1. \A U \in SUBSET T :
            V(U) = IF U = {} THEN 0 ELSE f[First(U)] + G[U \ {First(U)}]
      <4>1. \A U \in SUBSET T : U = {} => V(U) = 0
        OBVIOUS
      <4>. HIDE DEF G, V
      <4>. QED
        BY <2>3, <4>1
    <3>2. G = [U \in SUBSET T |-> V(U)]
      OBVIOUS
    <3>. HIDE DEF G, V
    <3>. QED
      BY <3>1, <3>2 DEF SumsUp
  <2>5. \A U \in SUBSET T : \E g : SumsUp(f, U, g)
    <3>. HIDE DEF G, Of
    <3>. QED
      BY <2>1, <2>4
  <2>. QED
    BY <2>5
<1>3. \A T \in SUBSET S : T \in Good
  <2>. HIDE DEF Good
  <2>. QED
    BY <1>1, <1>2, SubsetInduction
<1>. QED
  BY <1>3

LEMMA OneFewer ==
  ASSUME NEW S, IsFiniteSet(S), NEW x \in S
  PROVE  /\ Cardinality(S) \in Nat /\ Cardinality(S \ {x}) \in Nat
         /\ Cardinality(S) = Cardinality(S \ {x}) + 1
<1>1. IsFiniteSet(S \ {x}) /\ Cardinality(S \ {x}) = Cardinality(S) - 1
  BY FS_RemoveElement
<1>2. Cardinality(S) \in Nat /\ Cardinality(S \ {x}) \in Nat
  BY <1>1, FS_CardinalityType
<1>. QED
  BY <1>1, <1>2

LEMMA SumEmpty == ASSUME NEW f PROVE SumFunctionOnSet(f, {}) = 0
<1>1. PICK g : SumsUp(f, {}, g)
  BY SumsUpExists, FS_EmptySet
<1>2. SumsUp(f, {}, CHOOSE h : SumsUp(f, {}, h))
  BY <1>1
<1>3. (CHOOSE h : SumsUp(f, {}, h))[{}] = 0
  BY <1>2, SumsUpAt
<1>. QED
  BY <1>3, SumIsChosen

LEMMA SumTakesFirst ==
  ASSUME NEW f, NEW S, IsFiniteSet(S), S # {}
  PROVE  SumFunctionOnSet(f, S) =
           f[First(S)] + SumFunctionOnSet(f, S \ {First(S)})
<1>. DEFINE R == S \ {First(S)}
            Of(U) == CHOOSE h : SumsUp(f, U, h)
<1>1. R \in SUBSET S /\ S \in SUBSET S
  OBVIOUS
<1>2. IsFiniteSet(R)
  BY FS_Subset
<1>3. SumsUp(f, S, Of(S)) /\ SumsUp(f, R, Of(R))
  BY <1>2, SumsUpExists
<1>4. SumFunctionOnSet(f, S) = Of(S)[S] /\ SumFunctionOnSet(f, R) = Of(R)[R]
  BY SumIsChosen
<1>. HIDE DEF Of
<1>5. Of(S)[S] = f[First(S)] + Of(S)[R]
  BY <1>1, <1>3, SumsUpAt
<1>6. Of(S)[R] = Of(R)[R]
  <2>. HIDE DEF R
  <2>. QED
    BY <1>1, <1>3, SumsAgree
<1>. QED
  BY <1>4, <1>5, <1>6

\* A sum of integers is an integer.
LEMMA SumInt ==
  ASSUME NEW f, NEW S, IsFiniteSet(S), \A x \in S : f[x] \in Int
  PROVE  SumFunctionOnSet(f, S) \in Int
<1>. DEFINE Good == {T \in SUBSET S : SumFunctionOnSet(f, T) \in Int}
<1>1. {} \in Good
  BY SumEmpty
<1>2. ASSUME NEW T \in SUBSET S, T # {}, \A x \in T : T \ {x} \in Good
      PROVE  T \in Good
  <2>1. IsFiniteSet(T)
    BY FS_Subset
  <2>2. First(T) \in T /\ SumFunctionOnSet(f, T \ {First(T)}) \in Int
    BY <1>2, FirstIn
  <2>3. SumFunctionOnSet(f, T) = f[First(T)] + SumFunctionOnSet(f, T \ {First(T)})
    BY <1>2, <2>1, SumTakesFirst
  <2>. QED
    BY <2>2, <2>3
<1>3. \A T \in SUBSET S : T \in Good
  <2>. HIDE DEF Good
  <2>. QED
    BY <1>1, <1>2, SubsetInduction
<1>4. S \in Good
  BY <1>3
<1>. QED
  BY <1>4

\* A sum of numbers between 0 and a bound is between 0 and as many bounds.
LEMMA SumBound ==
  ASSUME NEW f, NEW S, IsFiniteSet(S), NEW b \in Nat, \A x \in S : f[x] \in 0 .. b
  PROVE  SumFunctionOnSet(f, S) \in 0 .. Cardinality(S) * b
<1>. DEFINE Good == {T \in SUBSET S : SumFunctionOnSet(f, T) \in 0 .. Cardinality(T) * b}
<1>1. {} \in Good
  BY SumEmpty, FS_EmptySet
<1>2. ASSUME NEW T \in SUBSET S, T # {}, \A x \in T : T \ {x} \in Good
      PROVE  T \in Good
  <2>. DEFINE R == T \ {First(T)}
  <2>1. IsFiniteSet(T)
    BY FS_Subset
  <2>2. First(T) \in T /\ SumFunctionOnSet(f, R) \in 0 .. Cardinality(R) * b
    BY <1>2, FirstIn
  <2>3. SumFunctionOnSet(f, T) = f[First(T)] + SumFunctionOnSet(f, R)
    BY <1>2, <2>1, SumTakesFirst
  <2>4. Cardinality(T) \in Nat /\ Cardinality(R) \in Nat /\ Cardinality(T) = Cardinality(R) + 1
    BY <2>1, <2>2, OneFewer
  <2>5. f[First(T)] \in 0 .. b
    BY <2>2
  <2>. HIDE DEF R
  <2>6. Cardinality(T) * b = Cardinality(R) * b + b
    BY <2>4
  <2>7. SumFunctionOnSet(f, T) \in 0 .. Cardinality(T) * b
    BY <2>2, <2>3, <2>4, <2>5, <2>6
  <2>. QED
    BY <2>7
<1>3. \A T \in SUBSET S : T \in Good
  <2>. HIDE DEF Good
  <2>. QED
    BY <1>1, <1>2, SubsetInduction
<1>4. S \in Good
  BY <1>3
<1>. QED
  BY <1>4

\* A sum of natural numbers, those of F at least b.
LEMMA SumAtLeast ==
  ASSUME NEW f, NEW S, IsFiniteSet(S), NEW b \in Nat, NEW F \in SUBSET S,
         \A x \in S : f[x] \in Nat, \A x \in F : f[x] >= b
  PROVE  Cardinality(F) * b <= SumFunctionOnSet(f, S)
<1>. DEFINE Good == {T \in SUBSET S : /\ SumFunctionOnSet(f, T) \in Nat
                                     /\ Cardinality(T \cap F) * b <= SumFunctionOnSet(f, T)}
<1>1. {} \in Good
  <2>1. {} \cap F = {} /\ Cardinality({}) = 0
    BY FS_EmptySet
  <2>. QED
    BY <2>1, SumEmpty
<1>2. ASSUME NEW T \in SUBSET S, T # {}, \A x \in T : T \ {x} \in Good
      PROVE  T \in Good
  <2>. DEFINE R == T \ {First(T)}
              n == Cardinality(R \cap F)
  <2>1. IsFiniteSet(T) /\ IsFiniteSet(R \cap F)
    <3>1. R \cap F \in SUBSET S
      OBVIOUS
    <3>. HIDE DEF R
    <3>. QED
      BY <3>1, FS_Subset
  <2>2. /\ First(T) \in T
        /\ SumFunctionOnSet(f, R) \in Nat /\ n * b <= SumFunctionOnSet(f, R)
    BY <1>2, FirstIn
  <2>3. SumFunctionOnSet(f, T) = f[First(T)] + SumFunctionOnSet(f, R)
    BY <1>2, <2>1, SumTakesFirst
  <2>4. n \in Nat
    BY <2>1, FS_CardinalityType
  <2>5. f[First(T)] \in Nat
    BY <2>2
  <2>6. CASE First(T) \in F
    <3>1. T \cap F = (R \cap F) \cup {First(T)} /\ First(T) \notin R \cap F
      BY <2>2, <2>6
    <3>2. Cardinality((R \cap F) \cup {First(T)}) = n + 1
      BY <2>1, <3>1, FS_AddElement
    <3>3. Cardinality(T \cap F) = n + 1
      BY <3>1, <3>2
    <3>4. f[First(T)] >= b
      BY <2>6
    <3>. HIDE DEF n, R
    <3>5. (n + 1) * b = n * b + b
      BY <2>4
    <3>6. (n + 1) * b <= SumFunctionOnSet(f, T)
      BY <2>2, <2>3, <2>4, <2>5, <3>4, <3>5
    <3>. QED
      BY <2>2, <2>3, <2>5, <3>3, <3>6
  <2>7. CASE First(T) \notin F
    <3>1. T \cap F = R \cap F
      BY <2>7
    <3>2. Cardinality(T \cap F) = n
      BY <3>1
    <3>. HIDE DEF n, R
    <3>. QED
      BY <2>2, <2>3, <2>4, <2>5, <3>2
  <2>. QED
    BY <2>6, <2>7
<1>3. \A T \in SUBSET S : T \in Good
  <2>. HIDE DEF Good
  <2>. QED
    BY <1>1, <1>2, SubsetInduction
<1>4. S \in Good /\ S \cap F = F
  BY <1>3
<1>. QED
  BY <1>4

\* One more difference d in the Cauchy-Schwarz inequality of n differences with
\* sum s and sum of squares q.
LEMMA OneMoreDifference ==
  ASSUME NEW n \in Nat, NEW q \in Nat, NEW s \in Int, NEW d \in Int, s * s <= n * q
  PROVE  (d + s) * (d + s) <= (n + 1) * (d * d + q)
<1>1. 2 * d * s <= n * (d * d) + q
  <2>1. CASE n = 0
    BY <2>1
  <2>2. CASE n > 0
    <3>1. 0 <= (n * d - s) * (n * d - s)
      OBVIOUS
    <3>2. (n * d - s) * (n * d - s) = n * (n * (d * d)) - n * (2 * d * s) + s * s
      OBVIOUS
    <3>3. 0 <= n * (n * (d * d) + q - 2 * d * s)
      BY <3>1, <3>2
    <3>. QED
      BY <2>2, <3>3
  <2>. QED
    BY <2>1, <2>2
<1>2. (d + s) * (d + s) = d * d + 2 * d * s + s * s
  OBVIOUS
<1>3. (n + 1) * (d * d + q) = n * (d * d) + n * q + d * d + q
  OBVIOUS
<1>. QED
  BY <1>1, <1>2, <1>3

\* The square of a difference within a tolerance.
LEMMA SquareWithin ==
  ASSUME NEW t \in Nat, NEW d \in Int, -t <= d, d <= t
  PROVE  d * d \in 0 .. t * t
<1>1. 0 <= (t - d) * (t + d)
  OBVIOUS
<1>2. (t - d) * (t + d) = t * t - d * d
  OBVIOUS
<1>3. 0 <= d * d
  OBVIOUS
<1>. QED
  BY <1>1, <1>2, <1>3

\* The square of a difference beyond a tolerance.
LEMMA SquareBeyond ==
  ASSUME NEW t \in Nat, NEW d \in Int, d > t \/ d < -t
  PROVE  d * d >= t * t
<1>1. 0 <= (d - t) * (d + t)
  BY SMTT(30)
<1>2. (d - t) * (d + t) = d * d - t * t
  OBVIOUS
<1>3. d * d \in Int /\ t * t \in Int
  OBVIOUS
<1>. QED
  BY <1>1, <1>2, <1>3

\* The square of the mean is not above the mean of the squares.
LEMMA SumOfSquares ==
  ASSUME NEW f, NEW g, NEW S, IsFiniteSet(S),
         \A x \in S : f[x] \in Int /\ g[x] = f[x] * f[x]
  PROVE  /\ SumFunctionOnSet(f, S) \in Int
         /\ SumFunctionOnSet(g, S) \in Nat
         /\ SumFunctionOnSet(f, S) * SumFunctionOnSet(f, S)
              <= Cardinality(S) * SumFunctionOnSet(g, S)
<1>. DEFINE Good == {T \in SUBSET S :
                       /\ SumFunctionOnSet(f, T) \in Int
                       /\ SumFunctionOnSet(g, T) \in Nat
                       /\ SumFunctionOnSet(f, T) * SumFunctionOnSet(f, T)
                            <= Cardinality(T) * SumFunctionOnSet(g, T)}
<1>1. {} \in Good
  BY SumEmpty, FS_EmptySet
<1>2. ASSUME NEW T \in SUBSET S, T # {}, \A x \in T : T \ {x} \in Good
      PROVE  T \in Good
  <2>. DEFINE R == T \ {First(T)}
              d == f[First(T)]
              s == SumFunctionOnSet(f, R)
              q == SumFunctionOnSet(g, R)
  <2>1. IsFiniteSet(T)
    BY FS_Subset
  <2>2. First(T) \in T /\ R \in Good
    BY <1>2, FirstIn
  <2>3. d \in Int /\ g[First(T)] = d * d
    BY <2>2
  <2>4. s \in Int /\ q \in Nat /\ s * s <= Cardinality(R) * q
    BY <2>2
  <2>5. SumFunctionOnSet(f, T) = d + s /\ SumFunctionOnSet(g, T) = d * d + q
    BY <1>2, <2>1, <2>3, SumTakesFirst
  <2>6. Cardinality(R) \in Nat /\ Cardinality(T) = Cardinality(R) + 1
    BY <2>1, <2>2, OneFewer
  <2>. HIDE DEF R, d, s, q
  <2>7. (d + s) * (d + s) <= Cardinality(T) * (d * d + q)
    BY <2>3, <2>4, <2>6, OneMoreDifference
  <2>8. d + s \in Int /\ d * d + q \in Nat
    BY <2>3, <2>4
  <2>. QED
    BY <2>5, <2>7, <2>8
<1>3. \A T \in SUBSET S : T \in Good
  <2>. HIDE DEF Good
  <2>. QED
    BY <1>1, <1>2, SubsetInduction
<1>4. S \in Good
  BY <1>3
<1>. QED
  BY <1>4

-----------------------------------------------------------------------------
(* The strengthening. *)

\* A pair as colocate makes it.
Matched(p) ==
  /\ p \in Usable \X Targets
  /\ IsNearest(p[1], p[2])
  /\ reference[p[2]].quality >= MinQualityLevel

\* The tree has one answer for every pixel.
OnePerPixel == \A p, q \in pairs : p[1] = q[1] => p = q

IInv ==
  /\ pc \in {"process", "colocate", "judge", "done"}
  /\ scene \in Scenes /\ reference \in References
  /\ pc = "process" => derived = [d \in Pixel |-> [sst |-> NaN, cloud |-> TRUE, outOfRange |-> FALSE]]
  /\ pc # "process" => derived = [d \in Pixel |-> Retrieved(scene[d])]
  /\ pc \in {"process", "colocate"} => pairs = {}
  /\ \A p \in pairs : Matched(p)
  /\ OnePerPixel
  /\ pc # "done" => stats = NoStats
  /\ pc = "done" => stats = ComputeStats
  /\ passed \in BOOLEAN
  /\ passed => pairs # {} /\ Cardinality(pairs) >= MinMatchCount

-----------------------------------------------------------------------------
(* The gate. *)

\* Nothing to compare never passes, as NaN is not finite.
LEMMA NoStatsFail == ~Evaluate(NoStats)
BY DEF Evaluate, NoStats, IsFinite

LEMMA JudgedPairs ==
  ASSUME Evaluate(ComputeStats)
  PROVE  pairs # {} /\ Cardinality(pairs) >= MinMatchCount
<1>1. pairs # {}
  BY NoStatsFail DEF ComputeStats
<1>2. ComputeStats.count = Cardinality(pairs)
  BY <1>1 DEF ComputeStats
<1> QED
  BY <1>1, <1>2 DEF Evaluate

-----------------------------------------------------------------------------
(* The strengthening is inductive. *)

LEMMA InitIInv == Init => IInv
BY DEF Init, IInv, OnePerPixel

LEMMA ProcessIInv == IInv /\ Process => IInv'
BY DEF IInv, Process, OnePerPixel

\* What colocate's search yields, from one choice among nearest targets.
LEMMA Colocated ==
  ASSUME NEW nn \in [Usable -> Targets],
         \A d \in Usable : IsNearest(d, nn[d]),
         NEW p \in {<<d, nn[d]>> : d \in {u \in Usable : reference[nn[u]].quality >= MinQualityLevel}}
  PROVE  Matched(p) /\ p[2] = nn[p[1]]
BY DEF Matched

LEMMA ColocateIInv == IInv /\ Colocate => IInv'
<1> SUFFICES ASSUME IInv, Colocate PROVE IInv'
  OBVIOUS
<1>1. (\A p \in pairs' : Matched(p)) /\ OnePerPixel'
  <2>1. CASE pairs' = {}
    BY <2>1 DEF OnePerPixel
  <2>2. CASE pairs' # {}
    <3>1. PICK nn \in [Usable -> Targets] :
            /\ \A d \in Usable : IsNearest(d, nn[d])
            /\ pairs' = {<<d, nn[d]>> : d \in {u \in Usable : reference[nn[u]].quality >= MinQualityLevel}}
      BY <2>2 DEF Colocate
    <3>2. \A p \in pairs' : Matched(p) /\ p[2] = nn[p[1]]
      BY <3>1, Colocated
    <3>3. \A p \in pairs' : p = <<p[1], p[2]>>
      BY <3>2 DEF Matched
    <3>4. OnePerPixel'
      BY <3>2, <3>3 DEF OnePerPixel
    <3> QED
      BY <3>2, <3>4
  <2> QED
    BY <2>1, <2>2
<1>2. UNCHANGED <<scene, reference, derived, passed>> /\ pc = "colocate" /\ pc' = "judge"
  BY DEF Colocate
<1>3. \A p \in pairs' : Matched(p)'
  BY <1>1, <1>2 DEF Matched, Usable, Targets, InBox, IsNearest, Distance
<1>4. ~passed /\ passed \in BOOLEAN
  BY <1>2 DEF IInv
<1>5. stats' = NoStats
  BY DEF IInv, Colocate, NoStats
<1> QED
  BY <1>1, <1>2, <1>3, <1>4, <1>5 DEF IInv

LEMMA JudgeIInv == IInv /\ Judge => IInv'
<1> SUFFICES ASSUME IInv, Judge PROVE IInv'
  OBVIOUS
<1>1. passed' => pairs # {} /\ Cardinality(pairs) >= MinMatchCount
  BY JudgedPairs DEF Judge
<1>2. UNCHANGED <<scene, reference, derived, pairs>> /\ pc = "judge" /\ pc' = "done"
  BY DEF Judge
<1>3. \A p \in pairs' : Matched(p)'
  BY <1>2 DEF IInv, Matched, Usable, Targets, InBox, IsNearest, Distance
<1>4. stats' = ComputeStats'
  <2>1. stats' = ComputeStats
    BY DEF Judge
  <2>2. ComputeStats' = ComputeStats
    BY <1>2 DEF ComputeStats, Diff, NoStats
  <2> QED
    BY <2>1, <2>2
<1>5. passed' \in BOOLEAN
  <2>1. Evaluate(ComputeStats) \in BOOLEAN
    BY DEF Evaluate
  <2> QED
    BY <2>1 DEF Judge
<1> QED
  BY <1>1, <1>2, <1>3, <1>4, <1>5 DEF IInv, OnePerPixel

LEMMA StutterIInv == IInv /\ UNCHANGED vars => IInv'
<1> SUFFICES ASSUME IInv, UNCHANGED vars PROVE IInv'
  OBVIOUS
<1>1. \A p \in pairs' : Matched(p)'
  BY DEF vars, IInv, Matched, Usable, Targets, InBox, IsNearest, Distance
<1>2. ComputeStats' = ComputeStats /\ NoStats' = NoStats
  BY DEF vars, ComputeStats, Diff, NoStats
<1> QED
  BY <1>1, <1>2 DEF vars, IInv, OnePerPixel

LEMMA ChainInductive == Spec => []IInv
<1>1. IInv /\ [Next]_vars => IInv'
  BY ProcessIInv, ColocateIInv, JudgeIInv, StutterIInv DEF Next
<1> QED
  BY InitIInv, <1>1, PTL DEF Spec

-----------------------------------------------------------------------------
(* The properties. *)

\* What the constants say of one pixel and of one reference pixel.
LEMMA SceneValues ==
  ASSUME IInv, NEW d \in Pixel
  PROVE  scene[d].s8 \in Float /\ scene[d].s9 \in Float /\ scene[d].lat \in Float
BY SstChainAssumption DEF IInv

LEMMA ReferenceValues ==
  ASSUME IInv, NEW r \in RefPixel
  PROVE  reference[r].sst \in Float /\ reference[r].quality \in Int /\ reference[r].lat \in Float
BY SstChainAssumption DEF IInv

\* What retrieve_sst does to one clear pixel.
LEMMA RetrievedClear ==
  ASSUME NEW px, px.s8 \in Float, px.s9 \in Float, ~Retrieved(px).cloud
  PROVE  /\ px.s8 \in Int /\ px.s8 >= BtCloudThreshold
         /\ IF px.s9 \in Int
            THEN /\ Retrieved(px).sst = A0 + A1 * px.s8 + A2 * (px.s8 - px.s9)
                 /\ Retrieved(px).outOfRange <=> Retrieved(px).sst \notin ValidMin .. ValidMax
            ELSE Retrieved(px).sst = NaN
<1>1. ~Screened(px)
  BY DEF Retrieved
<1>2. px.s8 \in Int /\ px.s8 >= BtCloudThreshold
  BY <1>1 DEF Screened, Cold, GE, IsFinite, Float
<1>3. Retrieved(px).sst = Raw(px)
  BY <1>1 DEF Retrieved
<1>4. Retrieved(px).outOfRange <=> LT(Raw(px), ValidMin) \/ GT(Raw(px), ValidMax)
  BY <1>1 DEF Retrieved
<1>5. CASE px.s9 \in Int
  <2>1. Raw(px) = A0 + A1 * px.s8 + A2 * (px.s8 - px.s9)
    BY <1>2, <1>5, SstChainAssumption DEF Raw, IsFinite
  <2>2. Raw(px) \in Int
    BY <2>1, <1>2, <1>5, SstChainAssumption
  <2>3. Retrieved(px).outOfRange <=> Raw(px) \notin ValidMin .. ValidMax
    BY <1>4, <2>2, SstChainAssumption DEF LT, GT, IsFinite
  <2> QED
    BY <1>2, <1>3, <1>5, <2>1, <2>3
<1>6. CASE px.s9 \notin Int
  <2>1. Raw(px) = NaN
    BY <1>6 DEF Raw, IsFinite, Float
  <2> QED
    BY <1>2, <1>3, <1>6, <2>1
<1> QED
  BY <1>5, <1>6

LEMMA IInvDerived == IInv => DerivedIsSound
<1> SUFFICES ASSUME IInv, pc # "process", NEW d \in Pixel, ~derived[d].cloud
             PROVE  /\ scene[d].s8 \in Int /\ scene[d].s8 >= BtCloudThreshold
                    /\ IF scene[d].s9 \in Int
                       THEN /\ derived[d].sst = A0 + A1 * scene[d].s8 + A2 * (scene[d].s8 - scene[d].s9)
                            /\ derived[d].outOfRange <=> derived[d].sst \notin ValidMin .. ValidMax
                       ELSE derived[d].sst = NaN
  BY DEF DerivedIsSound
<1>1. derived[d] = Retrieved(scene[d])
  BY DEF IInv
<1> QED
  BY <1>1, SceneValues, RetrievedClear

\* No clear pixel lacks a measured S8, whatever is missing in the scene, and the
\* SST of a pixel that is neither cloudy nor flagged is the formula's, in range.
THEOREM DerivedValuesSound == Spec => []DerivedIsSound
BY ChainInductive, IInvDerived, PTL

LEMMA IInvPairs == IInv => PairsAreSound
<1> SUFFICES ASSUME IInv, NEW p \in pairs
             PROVE  /\ scene[p[1]].s8 \in Int /\ scene[p[1]].s9 \in Int
                    /\ derived[p[1]].sst \in ValidMin .. ValidMax
                    /\ reference[p[2]].sst \in Int /\ reference[p[2]].quality >= MinQualityLevel
                    /\ \A q \in pairs : p[1] = q[1] => p = q
  BY DEF PairsAreSound
<1>1. Matched(p) /\ pc # "process"
  BY DEF IInv
<1>2. p[1] \in Usable /\ p[2] \in Targets /\ reference[p[2]].quality >= MinQualityLevel
  BY <1>1 DEF Matched
<1>3. p[1] \in Pixel /\ ~derived[p[1]].cloud /\ ~derived[p[1]].outOfRange /\ derived[p[1]].sst # NaN
  BY <1>2 DEF Usable, IsFinite
<1>4. scene[p[1]].s8 \in Int /\ scene[p[1]].s9 \in Int /\ derived[p[1]].sst \in ValidMin .. ValidMax
  BY <1>1, <1>3, IInvDerived DEF DerivedIsSound
<1>5. reference[p[2]].sst \in Int
  BY <1>2, ReferenceValues DEF Targets, IsFinite, Float
<1> QED
  BY <1>2, <1>4, <1>5 DEF IInv, OnePerPixel

\* Every comparison is between an SST in the valid range, of two measured bands, and
\* an official SST of the quality asked for; no pixel is compared twice.
THEOREM PairsSound == Spec => []PairsAreSound
BY ChainInductive, IInvPairs, PTL

LEMMA IInvNearest == IInv => NearestWithinMargin
<1> SUFFICES ASSUME IInv, NEW p \in pairs, NEW r \in RefPixel,
                    reference[r].sst \in Int, reference[r].lat \in Int,
                    Distance(p[1], r) < Distance(p[1], p[2]),
                    ~(Distance(p[1], r) > BboxMargin)
             PROVE  FALSE
  BY DEF NearestWithinMargin
<1>1. p[1] \in Usable /\ p[1] \in Pixel /\ p[2] \in Targets /\ IsNearest(p[1], p[2])
  BY DEF IInv, Matched, Usable
<1>2. scene[p[1]].lat \in Int
  BY <1>1, SceneValues DEF Usable, IsFinite, Float
<1>3. reference[p[2]].lat \in Int
  BY <1>1, ReferenceValues DEF Targets, IsFinite, Float
<1>4. Distance(p[1], r) \in Int /\ Distance(p[1], p[2]) \in Int
  BY <1>2, <1>3 DEF Distance, Abs
<1>5. InBox(reference[r].lat)
  <2>1. /\ scene[p[1]].lat - BboxMargin <= reference[r].lat
        /\ reference[r].lat <= scene[p[1]].lat + BboxMargin
    BY <1>2, <1>4, SstChainAssumption DEF Distance, Abs
  <2> QED
    BY <1>1, <2>1 DEF InBox
<1>6. r \in Targets
  BY <1>5, SstChainAssumption DEF Targets, IsFinite
<1>7. Distance(p[1], p[2]) <= Distance(p[1], r)
  BY <1>1, <1>6 DEF IsNearest
<1> QED
  BY <1>4, <1>7

\* A pair's reference is the nearest with an SST, of any quality, unless that one is
\* farther away than the margin of the box that is searched.
THEOREM NearestIsNearest == Spec => []NearestWithinMargin
BY ChainInductive, IInvNearest, PTL

\* There are no more pairs than pixels.
LEMMA PairsFinite ==
  ASSUME IInv
  PROVE  IsFiniteSet(pairs)
<1>1. [p \in pairs |-> p[1]] \in Injection(pairs, Pixel)
  <2>1. \A p \in pairs : p[1] \in Pixel
    BY DEF IInv, Matched, Usable
  <2>2. \A p, q \in pairs : p[1] = q[1] => p = q
    BY DEF IInv, OnePerPixel
  <2> QED
    BY <2>1, <2>2 DEF Injection, IsInjective
<1> QED
  BY <1>1, FS_Injection, SstChainAssumption

\* The two sides of a pair are numbers.
LEMMA PairDiffers ==
  ASSUME IInv, NEW p \in pairs
  PROVE  Diff(p) \in Int
<1>1. derived[p[1]].sst \in ValidMin .. ValidMax /\ reference[p[2]].sst \in Int
  BY IInvPairs DEF PairsAreSound
<1> QED
  BY <1>1, SstChainAssumption DEF Diff

\* What compute_stats makes of at least one pair.
LEMMA StatsOfPairs ==
  ASSUME IInv, pairs # {}
  PROVE  /\ ComputeStats.count = Cardinality(pairs)
         /\ ComputeStats.count \in Nat \ {0}
         /\ ComputeStats.sum \in Int /\ ComputeStats.squares \in Nat
         /\ ComputeStats.sum * ComputeStats.sum <= ComputeStats.count * ComputeStats.squares
<1>. DEFINE f == [p \in pairs |-> Diff(p)]
            g == [p \in pairs |-> Diff(p) * Diff(p)]
<1>1. IsFiniteSet(pairs)
  BY PairsFinite
<1>2. Cardinality(pairs) \in Nat \ {0}
  BY <1>1, FS_EmptySet, FS_CardinalityType
<1>3. /\ ComputeStats.count = Cardinality(pairs)
      /\ ComputeStats.sum = SumFunctionOnSet(f, pairs)
      /\ ComputeStats.squares = SumFunctionOnSet(g, pairs)
  BY DEF ComputeStats, SumFunction
<1>4. \A p \in pairs : f[p] \in Int /\ g[p] = f[p] * f[p]
  BY PairDiffers
<1>. HIDE DEF f, g
<1>5. /\ SumFunctionOnSet(f, pairs) \in Int
      /\ SumFunctionOnSet(g, pairs) \in Nat
      /\ SumFunctionOnSet(f, pairs) * SumFunctionOnSet(f, pairs)
           <= Cardinality(pairs) * SumFunctionOnSet(g, pairs)
  BY <1>1, <1>4, SumOfSquares
<1>. QED
  BY <1>2, <1>3, <1>5

\* The pairs within the tolerance are counted among the pairs, and when they are
\* all of them no square is above that of the tolerance.
LEMMA WithinOfPairs ==
  ASSUME IInv, pairs # {}
  PROVE  /\ ComputeStats.within \in 0 .. ComputeStats.count
         /\ ComputeStats.within = ComputeStats.count =>
              ComputeStats.squares <= ComputeStats.count * Tolerance * Tolerance
<1>. DEFINE Close == {p \in pairs : Abs(Diff(p)) <= Tolerance}
            g == [p \in pairs |-> Diff(p) * Diff(p)]
<1>1. IsFiniteSet(pairs)
  BY PairsFinite
<1>2. Close \in SUBSET pairs
  OBVIOUS
<1>3. IsFiniteSet(Close) /\ Cardinality(Close) <= Cardinality(pairs)
      /\ (Cardinality(pairs) = Cardinality(Close) => pairs = Close)
  <2>. HIDE DEF Close
  <2>. QED
    BY <1>1, <1>2, FS_Subset
<1>4. Cardinality(Close) \in Nat /\ Cardinality(pairs) \in Nat
  BY <1>1, <1>3, FS_CardinalityType
<1>5. /\ ComputeStats.count = Cardinality(pairs)
      /\ ComputeStats.within = Cardinality(Close)
      /\ ComputeStats.squares = SumFunctionOnSet(g, pairs)
  BY DEF ComputeStats, SumFunction
<1>6. ASSUME pairs = Close
      PROVE  SumFunctionOnSet(g, pairs) \in 0 .. Cardinality(pairs) * (Tolerance * Tolerance)
  <2>1. ASSUME NEW p \in pairs PROVE g[p] \in 0 .. Tolerance * Tolerance
    <3>1. Diff(p) \in Int /\ Abs(Diff(p)) <= Tolerance
      BY <1>6, PairDiffers
    <3>2. Tolerance \in Nat
      BY SstChainAssumption
    <3>3. -Tolerance <= Diff(p) /\ Diff(p) <= Tolerance
      BY <3>1, <3>2 DEF Abs
    <3>4. Diff(p) * Diff(p) \in 0 .. Tolerance * Tolerance
      BY <3>1, <3>2, <3>3, SquareWithin
    <3>. QED
      BY <3>4
  <2>2. Tolerance * Tolerance \in Nat
    BY SstChainAssumption
  <2>. HIDE DEF g
  <2>. QED
    BY <1>1, <2>1, <2>2, SumBound
<1>. HIDE DEF Close, g
<1>7. Cardinality(pairs) * (Tolerance * Tolerance) = Cardinality(pairs) * Tolerance * Tolerance
  BY <1>4, SstChainAssumption
<1>8. ComputeStats.within \in 0 .. ComputeStats.count
  BY <1>3, <1>4, <1>5
<1>9. ASSUME ComputeStats.within = ComputeStats.count
      PROVE  ComputeStats.squares <= ComputeStats.count * Tolerance * Tolerance
  <2>1. pairs = Close
    BY <1>3, <1>5, <1>9
  <2>2. SumFunctionOnSet(g, pairs) \in 0 .. Cardinality(pairs) * Tolerance * Tolerance
    BY <1>6, <1>7, <2>1
  <2>. QED
    BY <1>5, <2>2
<1>. QED
  BY <1>8, <1>9

\* The pairs beyond the tolerance alone make up that much of the squares.
LEMMA BeyondOfPairs ==
  ASSUME IInv, pairs # {}
  PROVE  (ComputeStats.count - ComputeStats.within) * (Tolerance * Tolerance) <= ComputeStats.squares
<1>. DEFINE Close == {p \in pairs : Abs(Diff(p)) <= Tolerance}
            Far == pairs \ Close
            g == [p \in pairs |-> Diff(p) * Diff(p)]
<1>1. IsFiniteSet(pairs)
  BY PairsFinite
<1>2. Close \in SUBSET pairs /\ Far \in SUBSET pairs /\ pairs \cap Close = Close
  OBVIOUS
<1>3. Cardinality(Far) = Cardinality(pairs) - Cardinality(Close)
  <2>1. Cardinality(pairs \ Close) = Cardinality(pairs) - Cardinality(pairs \cap Close)
    <3>. HIDE DEF Close
    <3>. QED
      BY <1>1, FS_Difference
  <2>. QED
    BY <1>2, <2>1
<1>4. /\ ComputeStats.count = Cardinality(pairs)
      /\ ComputeStats.within = Cardinality(Close)
      /\ ComputeStats.squares = SumFunctionOnSet(g, pairs)
  BY DEF ComputeStats, SumFunction
<1>5. Tolerance \in Nat /\ Tolerance * Tolerance \in Nat
  BY SstChainAssumption
<1>6. ASSUME NEW p \in pairs PROVE g[p] \in Nat
  BY PairDiffers, SquareWithin
<1>7. ASSUME NEW p \in Far PROVE g[p] >= Tolerance * Tolerance
  <2>1. Diff(p) \in Int /\ ~(Abs(Diff(p)) <= Tolerance)
    BY PairDiffers
  <2>2. Diff(p) > Tolerance \/ Diff(p) < -Tolerance
    BY <1>5, <2>1 DEF Abs
  <2>. QED
    BY <1>5, <2>1, <2>2, SquareBeyond
<1>8. Cardinality(Far) * (Tolerance * Tolerance) <= SumFunctionOnSet(g, pairs)
  <2>. HIDE DEF Far, g
  <2>. QED
    BY <1>1, <1>2, <1>5, <1>6, <1>7, SumAtLeast
<1>. HIDE DEF Close, Far, g
<1>. QED
  BY <1>3, <1>4, <1>8

LEMMA IInvStats == IInv => StatsAgree
<1> SUFFICES ASSUME IInv, stats # NoStats
             PROVE  /\ stats.sum * stats.sum <= stats.count * stats.squares
                    /\ stats.within = stats.count => stats.squares <= stats.count * Tolerance * Tolerance
                    /\ (stats.count - stats.within) * (Tolerance * Tolerance) <= stats.squares
  BY DEF StatsAgree
<1>1. stats = ComputeStats
  BY DEF IInv
<1>2. pairs # {}
  BY <1>1 DEF ComputeStats
<1> QED
  BY <1>1, <1>2, StatsOfPairs, WithinOfPairs, BeyondOfPairs

\* The bias is never above the RMSE, nor the RMSE above the tolerance when every pair
\* is within it, nor below what the pairs beyond it amount to, for any number of pairs.
THEOREM StatisticsAgree == Spec => []StatsAgree
BY ChainInductive, IInvStats, PTL

\* The SST of a pixel is a number or NaN, and the two masks are flags.
LEMMA RetrievedType ==
  ASSUME NEW px, px.s8 \in Float, px.s9 \in Float
  PROVE  Retrieved(px) \in [sst : Float, cloud : BOOLEAN, outOfRange : BOOLEAN]
<1>1. Raw(px) \in Float
  BY SstChainAssumption DEF Raw, IsFinite, Float
<1>2. Screened(px) \in BOOLEAN
  BY DEF Screened, Cold, GE
<1> QED
  BY <1>1, <1>2 DEF Retrieved, Float, LT, GT

LEMMA IInvType == IInv => TypeOK
<1> SUFFICES ASSUME IInv PROVE TypeOK
  OBVIOUS
<1>1. derived \in [Pixel -> [sst : Float, cloud : BOOLEAN, outOfRange : BOOLEAN]]
  <2>1. CASE pc = "process"
    <3>1. [sst |-> NaN, cloud |-> TRUE, outOfRange |-> FALSE]
            \in [sst : Float, cloud : BOOLEAN, outOfRange : BOOLEAN]
      BY DEF Float
    <3>2. derived = [d \in Pixel |-> [sst |-> NaN, cloud |-> TRUE, outOfRange |-> FALSE]]
      BY <2>1 DEF IInv
    <3> QED
      BY <3>1, <3>2
  <2>2. CASE pc # "process"
    <3>1. \A d \in Pixel : Retrieved(scene[d]) \in [sst : Float, cloud : BOOLEAN, outOfRange : BOOLEAN]
      BY SceneValues, RetrievedType
    <3> QED
      BY <2>2, <3>1 DEF IInv
  <2> QED
    BY <2>1, <2>2
<1>2. pairs \subseteq Pixel \X RefPixel
  BY DEF IInv, Matched, Usable, Targets
<1>3. stats = NoStats \/ /\ stats.count \in Nat \ {0} /\ stats.within \in 0 .. stats.count
                         /\ stats.squares \in Nat /\ stats.sum \in Int
  <2>1. CASE stats = NoStats
    BY <2>1
  <2>2. CASE stats # NoStats
    <3>1. stats = ComputeStats
      BY <2>2 DEF IInv
    <3>2. pairs # {}
      BY <2>2, <3>1 DEF ComputeStats
    <3> QED
      BY <3>1, <3>2, StatsOfPairs, WithinOfPairs
  <2> QED
    BY <2>1, <2>2
<1> QED
  BY <1>1, <1>2, <1>3 DEF IInv, TypeOK

\* Every reachable state of the chain is well typed; in particular no more pairs are
\* within the tolerance than there are, and no sum is made with a NaN.
THEOREM TypeCorrect == Spec => []TypeOK
BY ChainInductive, IInvType, PTL

\* The gate has seen a comparison, and enough of them, whatever the configuration.
THEOREM PassesAreEarned == Spec => []PassIsEarned
<1>1. IInv => PassIsEarned
  BY DEF IInv, PassIsEarned
<1> QED
  BY ChainInductive, <1>1, PTL
=============================================================================
