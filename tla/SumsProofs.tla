----------------------------- MODULE SumsProofs -----------------------------
(***************************************************************************)
(* Least elements, induction over finite sets, sums over them, quotients   *)
(* and recursively defined sequences: the facts that the proofs about      *)
(* prices and costs share.  A sum is a fold that takes an element by       *)
(* CHOOSE; it is shown here that the choice makes no difference.           *)
(***************************************************************************)
EXTENDS Amounts, FiniteSetTheorems, SequenceTheorems, WellFoundedInduction, TLAPS

-----------------------------------------------------------------------------
(* Induction.                                                              *)

\* A set of natural numbers that is not empty has a least element.
LEMMA LeastElement ==
  ASSUME NEW S, S \subseteq Nat, S # {}
  PROVE  \E i \in S : \A j \in S : i <= j
<1> DEFINE R == {ss \in Nat \X Nat : ss[1] < ss[2]}
<1>1. IsWellFoundedOn(R, Nat)
  BY NatLessThanWellFounded DEF OpToRel
<1>2. PICK i \in S : \A j \in S : <<j, i>> \notin R
  <2> HIDE DEF R
  <2> QED BY <1>1, WFMin
<1>3. ASSUME NEW j \in S
      PROVE  i <= j
  <2>1. <<j, i>> \in Nat \X Nat /\ <<j, i>>[1] = j /\ <<j, i>>[2] = i
    OBVIOUS
  <2>2. ~(j < i)
    BY <1>2, <2>1
  <2> QED BY <2>1, <2>2
<1> QED BY <1>3

\* A set of natural numbers below a bound has a greatest element.
LEMMA GreatestElement ==
  ASSUME NEW N \in Nat, NEW S, S \subseteq 0..N, S # {}
  PROVE  \E i \in S : \A j \in S : j <= i
<1> DEFINE T == {N - i : i \in S}
<1>1. T \subseteq Nat /\ T # {}
  OBVIOUS
<1>2. PICK d \in T : \A e \in T : d <= e
  <2> HIDE DEF T
  <2> QED BY <1>1, LeastElement
<1>3. PICK i \in S : d = N - i
  BY <1>2
<1>4. ASSUME NEW j \in S
      PROVE  j <= i
  <2>1. N - j \in T
    OBVIOUS
  <2>2. d <= N - j
    BY <1>2, <2>1
  <2>3. i \in 0..N /\ j \in 0..N
    OBVIOUS
  <2> QED BY <1>3, <2>2, <2>3
<1> QED BY <1>4

\* A set of numbers that holds 0 and the successor of each member up to a bound
\* holds them all.
LEMMA UpTo ==
  ASSUME NEW N \in Nat, NEW P, 0 \in P,
         \A n \in 1..N : n - 1 \in P => n \in P
  PROVE  0..N \subseteq P
<1> DEFINE bad == {n \in 0..N : n \notin P}
<1>1. CASE bad # {}
  <2>0. \E n \in bad : \A j \in bad : n <= j
    <3>1. bad \subseteq Nat
      OBVIOUS
    <3> HIDE DEF bad
    <3> QED BY <1>1, <3>1, LeastElement
  <2>1. PICK n \in bad : \A j \in bad : n <= j
    BY <2>0
  <2>2. n \in 1..N /\ n - 1 \in 0..N /\ n - 1 < n
    BY <2>1
  <2>3. n - 1 \notin bad
    BY <2>1, <2>2
  <2> QED BY <2>1, <2>2, <2>3
<1> QED BY <1>1

\* A collection of sets that holds the empty set, and with a part of S that
\* part and one more element of S, holds S.
LEMMA SetInduction ==
  ASSUME NEW S, IsFiniteSet(S), NEW Q, {} \in Q,
         \A T \in SUBSET S : \A x \in S \ T : T \in Q => T \cup {x} \in Q
  PROVE  S \in Q
<1> DEFINE P == {n \in Nat : \A T \in SUBSET S : Cardinality(T) = n => T \in Q}
<1>1. \A T \in SUBSET S : IsFiniteSet(T) /\ Cardinality(T) \in Nat
  BY FS_Subset, FS_CardinalityType
<1>2. 0 \in P
  BY <1>1, FS_EmptySet
<1>3. ASSUME NEW n \in 1..Cardinality(S), n - 1 \in P
      PROVE  n \in P
  <2>0. n \in Nat
    BY <1>1
  <2> SUFFICES ASSUME NEW T \in SUBSET S, Cardinality(T) = n
               PROVE  T \in Q
    BY <2>0
  <2>1. T # {}
    <3>1. n # 0
      BY <1>1
    <3> QED BY <3>1, FS_EmptySet
  <2>2. PICK x \in T : TRUE
    BY <2>1
  <2>3. Cardinality(T \ {x}) = n - 1
    BY <1>1, FS_RemoveElement
  <2>4. T \ {x} \in SUBSET S /\ x \in S \ (T \ {x})
    OBVIOUS
  <2>5. T \ {x} \in Q
    BY <1>3, <2>3, <2>4
  <2>6. (T \ {x}) \cup {x} \in Q
    BY <2>4, <2>5
  <2>7. (T \ {x}) \cup {x} = T
    OBVIOUS
  <2> QED BY <2>6, <2>7
<1>4. Cardinality(S) \in P
  <2> HIDE DEF P
  <2>1. Cardinality(S) \in Nat
    BY <1>1
  <2> QED BY <1>2, <1>3, <2>1, UpTo
<1> QED BY <1>4

-----------------------------------------------------------------------------
(* The recursion that adds up.                                             *)

Chosen(T) == CHOOSE x \in T : TRUE

SumStep(f, sums, T) ==
  IF T = {} THEN 0 ELSE f[Chosen(T)] + sums[T \ {Chosen(T)}]

AddsUp(f, sums, S) == sums = [T \in SUBSET S |-> SumStep(f, sums, T)]

\* The recursion has a solution.
LEMMA SumsExist ==
  ASSUME NEW f, NEW S, IsFiniteSet(S)
  PROVE  \E sums : AddsUp(f, sums, S)
<1> DEFINE Upto(n) == {T \in SUBSET S : Cardinality(T) <= n}
           Solves(g, n) == g = [T \in Upto(n) |-> SumStep(f, g, T)]
           P == {n \in Nat : \E g : Solves(g, n)}
<1>1. \A T \in SUBSET S : IsFiniteSet(T) /\ Cardinality(T) \in Nat
  BY FS_Subset, FS_CardinalityType
<1>2. \A T \in SUBSET S : T # {} =>
        /\ Chosen(T) \in T /\ T \ {Chosen(T)} \in SUBSET S
        /\ Cardinality(T \ {Chosen(T)}) = Cardinality(T) - 1
        /\ Cardinality(T) # 0
  BY <1>1, FS_RemoveElement, FS_EmptySet DEF Chosen
<1>3. 0 \in P
  <2> DEFINE g == [T \in Upto(0) |-> 0]
  <2>1. \A T \in Upto(0) : T = {}
    BY <1>1, FS_EmptySet
  <2>2. \A T \in Upto(0) : SumStep(f, g, T) = 0
    BY <2>1 DEF SumStep
  <2>3. Solves(g, 0)
    BY <2>2
  <2> HIDE DEF g
  <2> QED BY <2>3
<1>4. ASSUME NEW n \in Nat, n \in P
      PROVE  n + 1 \in P
  <2>1. PICK g : Solves(g, n)
    BY <1>4
  <2> DEFINE h == [T \in Upto(n + 1) |-> SumStep(f, g, T)]
  <2>2. \A T \in Upto(n) : T \in Upto(n + 1)
    BY <1>1
  <2>3. \A T \in Upto(n) : h[T] = g[T]
    BY <2>1, <2>2
  <2>4. ASSUME NEW T \in Upto(n + 1)
        PROVE  SumStep(f, g, T) = SumStep(f, h, T)
    <3>1. CASE T = {}
      BY <3>1 DEF SumStep
    <3>2. CASE T # {}
      <4>1. T \ {Chosen(T)} \in Upto(n)
        BY <1>1, <1>2, <3>2
      <4>2. h[T \ {Chosen(T)}] = g[T \ {Chosen(T)}]
        BY <2>3, <4>1
      <4> QED BY <3>2, <4>2 DEF SumStep
    <3> QED BY <3>1, <3>2
  <2>5. Solves(h, n + 1)
    BY <2>4
  <2> HIDE DEF h
  <2> QED BY <2>5
<1>5. Cardinality(S) \in P
  <2>1. Cardinality(S) \in Nat
    BY <1>1
  <2>2. \A n \in 1..Cardinality(S) : n - 1 \in P => n \in P
    <3> SUFFICES ASSUME NEW n \in 1..Cardinality(S), n - 1 \in P PROVE n \in P
      OBVIOUS
    <3>1. n - 1 \in Nat /\ (n - 1) + 1 = n
      BY <2>1
    <3> HIDE DEF P
    <3> QED BY <1>4, <3>1
  <2> HIDE DEF P
  <2> QED BY <1>3, <2>1, <2>2, UpTo
<1>6. Upto(Cardinality(S)) = SUBSET S
  BY FS_Subset
<1>7. PICK g : Solves(g, Cardinality(S))
  BY <1>5
<1> QED BY <1>6, <1>7 DEF AddsUp

\* Two solutions agree wherever both are defined.
LEMMA SumsAgree ==
  ASSUME NEW f, NEW S, IsFiniteSet(S), NEW R \in SUBSET S,
         NEW g, AddsUp(f, g, S), NEW h, AddsUp(f, h, R)
  PROVE  g[R] = h[R]
<1> DEFINE P == {n \in Nat : \A T \in SUBSET R : Cardinality(T) = n => g[T] = h[T]}
<1>1. \A T \in SUBSET R : IsFiniteSet(T) /\ Cardinality(T) \in Nat
  BY FS_Subset, FS_CardinalityType
<1>2. \A T \in SUBSET R : g[T] = SumStep(f, g, T) /\ h[T] = SumStep(f, h, T)
  BY DEF AddsUp
<1>3. 0 \in P
  <2>1. \A T \in SUBSET R : Cardinality(T) = 0 => T = {}
    BY <1>1, FS_EmptySet
  <2> QED BY <1>2, <2>1 DEF SumStep
<1>4. ASSUME NEW n \in 1..Cardinality(R), n - 1 \in P
      PROVE  n \in P
  <2>0. n \in Nat
    BY <1>1
  <2> SUFFICES ASSUME NEW T \in SUBSET R, Cardinality(T) = n
               PROVE  g[T] = h[T]
    BY <2>0
  <2>1. T # {} /\ Chosen(T) \in T
    BY FS_EmptySet DEF Chosen
  <2>2. T \ {Chosen(T)} \in SUBSET R /\ Cardinality(T \ {Chosen(T)}) = n - 1
    BY <1>1, <2>1, FS_RemoveElement
  <2>3. g[T \ {Chosen(T)}] = h[T \ {Chosen(T)}]
    BY <1>4, <2>2
  <2> QED BY <1>2, <2>1, <2>3 DEF SumStep
<1>5. Cardinality(R) \in P
  <2> HIDE DEF P
  <2>1. Cardinality(R) \in Nat
    BY <1>1
  <2> QED BY <1>3, <1>4, <2>1, UpTo
<1> QED BY <1>5

\* The sum over a set is the chosen element's value and the sum over the rest.
LEMMA SumStepwise ==
  ASSUME NEW f, NEW S, IsFiniteSet(S)
  PROVE  /\ SumFunctionOnSet(f, {}) = 0
         /\ S # {} => SumFunctionOnSet(f, S)
                        = f[Chosen(S)] + SumFunctionOnSet(f, S \ {Chosen(S)})
<1> DEFINE sums(T) == CHOOSE g : g = [U \in SUBSET T |-> SumStep(f, g, U)]
<1>1. ASSUME NEW T, IsFiniteSet(T)
      PROVE  AddsUp(f, sums(T), T) /\ SumFunctionOnSet(f, T) = sums(T)[T]
  <2>1. AddsUp(f, sums(T), T)
    <3>1. \E g : AddsUp(f, g, T)
      BY <1>1, SumsExist
    <3> QED BY <3>1, Zenon DEF AddsUp
  <2>2. SumFunctionOnSet(f, T) = sums(T)[T]
    BY DEF SumFunctionOnSet, FoldFunctionOnSet, MapThenFoldSet, SumStep, Chosen
  <2> QED BY <2>1, <2>2
<1> HIDE DEF sums
<1>2. \A T \in SUBSET S : IsFiniteSet(T)
  BY FS_Subset
<1>3. SumFunctionOnSet(f, {}) = 0
  <2>1. {} \in SUBSET {} /\ IsFiniteSet({})
    BY FS_EmptySet
  <2> QED BY <1>1, <2>1 DEF AddsUp, SumStep
<1>4. ASSUME S # {}
      PROVE  SumFunctionOnSet(f, S)
               = f[Chosen(S)] + SumFunctionOnSet(f, S \ {Chosen(S)})
  <2> DEFINE R == S \ {Chosen(S)}
  <2>1. R \in SUBSET S /\ IsFiniteSet(R)
    BY <1>2
  <2>2. sums(S)[S] = SumStep(f, sums(S), S)
    BY <1>1 DEF AddsUp
  <2>3. sums(S)[R] = sums(R)[R]
    <3> HIDE DEF R
    <3> QED BY <1>1, <2>1, SumsAgree
  <2> QED BY <1>1, <1>4, <2>1, <2>2, <2>3 DEF SumStep
<1> QED BY <1>3, <1>4

-----------------------------------------------------------------------------
(* Sums.                                                                   *)

\* The sum of nothing.
LEMMA SumEmpty ==
  ASSUME NEW f
  PROVE  SumFunctionOnSet(f, {}) = 0
BY FS_EmptySet, SumStepwise

\* A sum of natural numbers is one.
LEMMA SumType ==
  ASSUME NEW f, NEW S, IsFiniteSet(S), \A x \in S : f[x] \in Nat
  PROVE  SumFunctionOnSet(f, S) \in Nat
<1> DEFINE P == {n \in Nat : \A T \in SUBSET S :
                   Cardinality(T) = n => SumFunctionOnSet(f, T) \in Nat}
<1>1. \A T \in SUBSET S : IsFiniteSet(T) /\ Cardinality(T) \in Nat
  BY FS_Subset, FS_CardinalityType
<1>2. 0 \in P
  <2>1. \A T \in SUBSET S : Cardinality(T) = 0 => T = {}
    BY <1>1, FS_EmptySet
  <2>2. SumFunctionOnSet(f, {}) \in Nat
    BY SumEmpty
  <2> QED BY <2>1, <2>2
<1>3. ASSUME NEW n \in 1..Cardinality(S), n - 1 \in P
      PROVE  n \in P
  <2>0. n \in Nat /\ n # 0
    BY <1>1
  <2> SUFFICES ASSUME NEW T \in SUBSET S, Cardinality(T) = n
               PROVE  SumFunctionOnSet(f, T) \in Nat
    BY <2>0
  <2>1. T # {} /\ Chosen(T) \in T
    BY <2>0, FS_EmptySet DEF Chosen
  <2>2. T \ {Chosen(T)} \in SUBSET S /\ Cardinality(T \ {Chosen(T)}) = n - 1
    BY <1>1, <2>1, FS_RemoveElement
  <2>3. SumFunctionOnSet(f, T \ {Chosen(T)}) \in Nat /\ f[Chosen(T)] \in Nat
    BY <1>3, <2>1, <2>2
  <2>4. SumFunctionOnSet(f, T)
          = f[Chosen(T)] + SumFunctionOnSet(f, T \ {Chosen(T)})
    BY <1>1, <2>1, SumStepwise
  <2> QED BY <2>3, <2>4
<1>4. Cardinality(S) \in P
  <2> HIDE DEF P
  <2>1. Cardinality(S) \in Nat
    BY <1>1
  <2> QED BY <1>2, <1>3, <2>1, UpTo
<1> QED BY <1>4

\* Whichever element is taken first, the sum is the same.
LEMMA SumElement ==
  ASSUME NEW f, NEW S, IsFiniteSet(S), \A x \in S : f[x] \in Nat, NEW y \in S
  PROVE  SumFunctionOnSet(f, S) = f[y] + SumFunctionOnSet(f, S \ {y})
<1> DEFINE Sm(T) == SumFunctionOnSet(f, T)
           P == {n \in Nat : \A T \in SUBSET S : Cardinality(T) = n =>
                   \A z \in T : Sm(T) = f[z] + Sm(T \ {z})}
<1>1. \A T \in SUBSET S : IsFiniteSet(T) /\ Cardinality(T) \in Nat
  BY FS_Subset, FS_CardinalityType
<1>2. 0 \in P
  BY <1>1, FS_EmptySet
<1>3. ASSUME NEW n \in 1..Cardinality(S), n - 1 \in P
      PROVE  n \in P
  <2>0. n \in Nat
    BY <1>1
  <2> SUFFICES ASSUME NEW T \in SUBSET S, Cardinality(T) = n, NEW z \in T
               PROVE  Sm(T) = f[z] + Sm(T \ {z})
    BY <2>0
  <2> DEFINE c == Chosen(T)
  <2>1. c \in T
    BY DEF Chosen
  <2>2. Sm(T) = f[c] + Sm(T \ {c})
    BY <1>1, SumStepwise
  <2> HIDE DEF c
  <2>3. CASE z = c
    BY <2>2, <2>3
  <2>4. CASE z # c
    <3> DEFINE R == T \ {c, z}
    <3>1. /\ T \ {c} \in SUBSET S /\ T \ {z} \in SUBSET S
          /\ Cardinality(T \ {c}) = n - 1 /\ Cardinality(T \ {z}) = n - 1
      BY <1>1, <2>1, FS_RemoveElement
    <3>2. z \in T \ {c} /\ c \in T \ {z}
      BY <2>1, <2>4
    <3>3. (T \ {c}) \ {z} = R /\ (T \ {z}) \ {c} = R
      OBVIOUS
    <3>4. Sm(T \ {c}) = f[z] + Sm((T \ {c}) \ {z})
      BY <1>3, <3>1, <3>2
    <3>5. Sm(T \ {z}) = f[c] + Sm((T \ {z}) \ {c})
      BY <1>3, <3>1, <3>2
    <3>6. Sm(R) \in Nat /\ f[c] \in Nat /\ f[z] \in Nat
      <4>1. R \in SUBSET S /\ \A x \in R : f[x] \in Nat
        OBVIOUS
      <4> HIDE DEF R
      <4> QED BY <1>1, <2>1, <4>1, SumType
    <3> HIDE DEF R, Sm
    <3> QED BY <2>2, <3>3, <3>4, <3>5, <3>6
  <2> QED BY <2>3, <2>4
<1>4. Cardinality(S) \in P
  <2> HIDE DEF P
  <2>1. Cardinality(S) \in Nat
    BY <1>1
  <2> QED BY <1>2, <1>3, <2>1, UpTo
<1> QED BY <1>4

\* A new element adds its value.
LEMMA SumAdd ==
  ASSUME NEW f, NEW S, IsFiniteSet(S), NEW y, y \notin S,
         \A x \in S \cup {y} : f[x] \in Nat
  PROVE  SumFunctionOnSet(f, S \cup {y}) = SumFunctionOnSet(f, S) + f[y]
<1> DEFINE R == S \cup {y}
<1>1. IsFiniteSet(R) /\ R \ {y} = S /\ y \in R
  BY FS_AddElement
<1>2. SumFunctionOnSet(f, R) = f[y] + SumFunctionOnSet(f, S)
  <2>1. \A x \in R : f[x] \in Nat
    OBVIOUS
  <2> HIDE DEF R
  <2>2. SumFunctionOnSet(f, R) = f[y] + SumFunctionOnSet(f, R \ {y})
    BY <1>1, <2>1, SumElement
  <2> QED BY <1>1, <2>2
<1>3. SumFunctionOnSet(f, S) \in Nat /\ f[y] \in Nat
  BY SumType
<1> QED BY <1>1, <1>2, <1>3

\* More elements, and greater values, make the sum no smaller.
LEMMA SumMonotone ==
  ASSUME NEW g, NEW S, IsFiniteSet(S), \A x \in S : g[x] \in Nat,
         NEW f, NEW R \in SUBSET S, \A x \in R : f[x] \in Nat /\ f[x] <= g[x]
  PROVE  SumFunctionOnSet(f, R) <= SumFunctionOnSet(g, S)
<1> DEFINE Le(T) == SumFunctionOnSet(f, T \cap R) <= SumFunctionOnSet(g, T)
           Q == {T \in SUBSET S : Le(T)}
<1>1. {} \in Q
  <2>1. SumFunctionOnSet(f, {} \cap R) = 0
    <3>1. {} \cap R = {}
      OBVIOUS
    <3> QED BY <3>1, SumEmpty
  <2>2. Le({})
    BY <2>1, SumEmpty
  <2> QED BY <2>2
<1>2. ASSUME NEW T \in SUBSET S, NEW x \in S \ T, T \in Q
      PROVE  T \cup {x} \in Q
  <2>1. IsFiniteSet(T) /\ IsFiniteSet(T \cap R)
    BY FS_Subset
  <2>2. /\ SumFunctionOnSet(g, T) \in Nat /\ SumFunctionOnSet(f, T \cap R) \in Nat
        /\ g[x] \in Nat
    <3>1. (\A y \in T : g[y] \in Nat) /\ (\A y \in T \cap R : f[y] \in Nat)
      OBVIOUS
    <3> QED BY <2>1, <3>1, SumType
  <2>3. SumFunctionOnSet(g, T \cup {x}) = SumFunctionOnSet(g, T) + g[x]
    BY <2>1, SumAdd
  <2>4. Le(T)
    BY <1>2
  <2>5. CASE x \in R
    <3>1. (T \cup {x}) \cap R = (T \cap R) \cup {x} /\ x \notin T \cap R
      BY <2>5
    <3>2. \A y \in (T \cap R) \cup {x} : f[y] \in Nat
      BY <2>5
    <3>3. SumFunctionOnSet(f, (T \cap R) \cup {x}) = SumFunctionOnSet(f, T \cap R) + f[x]
      BY <2>1, <3>1, <3>2, SumAdd
    <3>4. f[x] \in Nat /\ f[x] <= g[x]
      BY <2>5
    <3>5. Le(T \cup {x})
      BY <2>2, <2>3, <2>4, <3>1, <3>3, <3>4
    <3> QED BY <3>5
  <2>6. CASE x \notin R
    <3>1. (T \cup {x}) \cap R = T \cap R
      BY <2>6
    <3>2. SumFunctionOnSet(f, (T \cup {x}) \cap R) = SumFunctionOnSet(f, T \cap R)
      BY <3>1
    <3>3. Le(T \cup {x})
      BY <2>2, <2>3, <2>4, <3>2
    <3> QED BY <3>3
  <2> QED BY <2>5, <2>6
<1>3. S \in Q
  <2> HIDE DEF Q
  <2> QED BY <1>1, <1>2, SetInduction
<1>4. S \cap R = R
  OBVIOUS
<1> QED BY <1>3, <1>4

\* Functions that agree on a set have the same sum over it.
LEMMA SumSame ==
  ASSUME NEW f, NEW g, NEW S, IsFiniteSet(S),
         \A x \in S : f[x] = g[x] /\ g[x] \in Nat
  PROVE  SumFunctionOnSet(f, S) = SumFunctionOnSet(g, S)
<1>1. SumFunctionOnSet(f, S) \in Nat /\ SumFunctionOnSet(g, S) \in Nat
  BY SumType
<1>2. SumFunctionOnSet(f, S) <= SumFunctionOnSet(g, S)
  BY SumMonotone
<1>3. SumFunctionOnSet(g, S) <= SumFunctionOnSet(f, S)
  BY SumMonotone
<1> QED BY <1>1, <1>2, <1>3

\* A sum is at most the number of elements that count, times the most that any
\* of them counts for.
LEMMA SumBounded ==
  ASSUME NEW f, NEW S, IsFiniteSet(S), NEW R \in SUBSET S, NEW c \in Nat,
         \A x \in R : f[x] \in 0..c, \A x \in S \ R : f[x] = 0
  PROVE  SumFunctionOnSet(f, S) <= c * Cardinality(R)
<1> DEFINE Le(T) == SumFunctionOnSet(f, T) <= c * Cardinality(T \cap R)
           Q == {T \in SUBSET S : Le(T)}
<1>1. {} \in Q
  <2>1. Cardinality({} \cap R) = 0
    <3>1. {} \cap R = {}
      OBVIOUS
    <3> QED BY <3>1, FS_EmptySet
  <2>2. Le({})
    BY <2>1, SumEmpty
  <2> QED BY <2>2
<1>2. ASSUME NEW T \in SUBSET S, NEW x \in S \ T, T \in Q
      PROVE  T \cup {x} \in Q
  <2>1. IsFiniteSet(T) /\ IsFiniteSet(T \cap R) /\ Cardinality(T \cap R) \in Nat
    BY FS_Subset, FS_CardinalityType
  <2>2. \A y \in T \cup {x} : f[y] \in Nat
    OBVIOUS
  <2>3. SumFunctionOnSet(f, T) \in Nat
    BY <2>1, <2>2, SumType
  <2>4. SumFunctionOnSet(f, T \cup {x}) = SumFunctionOnSet(f, T) + f[x]
    BY <2>1, <2>2, SumAdd
  <2>5. Le(T)
    BY <1>2
  <2>6. CASE x \in R
    <3>1. (T \cup {x}) \cap R = (T \cap R) \cup {x} /\ x \notin T \cap R
      BY <2>6
    <3>2. Cardinality((T \cap R) \cup {x}) = Cardinality(T \cap R) + 1
      BY <2>1, <3>1, FS_AddElement
    <3>3. f[x] \in Nat /\ f[x] <= c
      BY <2>6
    <3>4. c * (Cardinality(T \cap R) + 1) = c * Cardinality(T \cap R) + c
      BY <2>1
    <3>5. c * Cardinality(T \cap R) \in Nat
      BY <2>1
    <3>6. Le(T \cup {x})
      <4> DEFINE before == c * Cardinality(T \cap R)
      <4>1. c * Cardinality((T \cup {x}) \cap R) = before + c
        BY <3>1, <3>2, <3>4
      <4>2. SumFunctionOnSet(f, T) <= before /\ before \in Nat
        BY <2>5, <3>5
      <4> HIDE DEF before
      <4> QED BY <2>3, <2>4, <3>3, <4>1, <4>2
    <3> QED BY <3>6
  <2>7. CASE x \notin R
    <3>1. (T \cup {x}) \cap R = T \cap R /\ f[x] = 0
      BY <2>7
    <3>2. Cardinality((T \cup {x}) \cap R) = Cardinality(T \cap R)
      BY <3>1
    <3>3. SumFunctionOnSet(f, T \cup {x}) = SumFunctionOnSet(f, T)
      BY <2>3, <2>4, <3>1
    <3>4. Le(T \cup {x})
      BY <2>5, <3>2, <3>3
    <3> QED BY <3>4
  <2> QED BY <2>6, <2>7
<1>3. S \in Q
  <2> HIDE DEF Q
  <2> QED BY <1>1, <1>2, SetInduction
<1>4. S \cap R = R
  OBVIOUS
<1> QED BY <1>3, <1>4

-----------------------------------------------------------------------------
(* Quotients and what saturates.                                           *)

\* A quotient is monotone.
LEMMA QuotientMonotone ==
  ASSUME NEW a \in Nat, NEW b \in Nat, a <= b, NEW n \in Nat \ {0}
  PROVE  a \div n \in Nat /\ a \div n <= b \div n
<1> DEFINE p == a \div n
           q == b \div n
<1>1. p \in Nat /\ p * n <= a /\ q \in Nat /\ b < q * n + n
  OBVIOUS
<1> HIDE DEF p, q
<1>2. ~(q + 1 <= p)
  <2> SUFFICES ASSUME q + 1 <= p PROVE FALSE
    OBVIOUS
  <2>1. PICK d \in Nat : p = q + 1 + d
    <3>1. p - (q + 1) \in Nat /\ p = q + 1 + (p - (q + 1))
      BY <1>1
    <3> QED BY <3>1
  <2>2. p * n = q * n + n + d * n /\ d * n \in Nat /\ q * n \in Nat
    BY <1>1, <2>1
  <2> QED BY <1>1, <2>2
<1> QED BY <1>1, <1>2 DEF p, q

-----------------------------------------------------------------------------
(* Sequences collected item by item, some left out.                        *)

\* One step of the recursion, from what it has collected so far.
CollectStep(items, keep, from, n) ==
  IF n = 0 THEN <<>>
  ELSE IF n \in keep THEN Append(from[n - 1], items[n]) ELSE from[n - 1]

Collects(from, items, keep, N) ==
  from = [n \in 0..N |-> CollectStep(items, keep, from, n)]

\* The recursion has a solution.
LEMMA CollectExists ==
  ASSUME NEW items, NEW keep, NEW N \in Nat
  PROVE  \E from : Collects(from, items, keep, N)
<1> DEFINE P == {m \in 0..N : \E from : Collects(from, items, keep, m)}
<1>1. 0 \in P
  <2> DEFINE g == [n \in 0..0 |-> <<>>]
  <2>1. g = [n \in 0..0 |-> CollectStep(items, keep, g, n)]
    BY DEF CollectStep
  <2> QED BY <2>1 DEF Collects
<1>2. ASSUME NEW m \in 1..N, m - 1 \in P
      PROVE  m \in P
  <2>1. PICK g : g = [n \in 0..(m - 1) |-> CollectStep(items, keep, g, n)]
    BY <1>2 DEF Collects
  <2> DEFINE h == [n \in 0..m |-> IF n = m THEN CollectStep(items, keep, g, m) ELSE g[n]]
  <2>2. ASSUME NEW n \in 0..m
        PROVE  h[n] = CollectStep(items, keep, h, n)
    <3>1. CASE n = m
      <4>1. h[m] = CollectStep(items, keep, g, m) /\ h[m - 1] = g[m - 1] /\ m # 0
        OBVIOUS
      <4> QED BY <3>1, <4>1 DEF CollectStep
    <3>2. CASE n = 0 /\ n # m
      <4>1. g[0] = <<>>
        BY <2>1 DEF CollectStep
      <4> QED BY <3>2, <4>1 DEF CollectStep
    <3>3. CASE n # 0 /\ n # m
      <4>1. n \in 0..(m - 1) /\ n - 1 \in 0..m /\ n - 1 # m
        BY <3>3
      <4>2. h[n] = g[n] /\ h[n - 1] = g[n - 1]
        BY <3>3, <4>1
      <4>3. g[n] = CollectStep(items, keep, g, n)
        BY <2>1, <4>1
      <4> QED BY <3>3, <4>2, <4>3 DEF CollectStep
    <3> QED BY <3>1, <3>2, <3>3
  <2>3. Collects(h, items, keep, m)
    BY <2>2 DEF Collects
  <2>4. \E from : Collects(from, items, keep, m)
    <3> HIDE DEF h
    <3> QED BY <2>3
  <2> QED BY <2>4
<1>3. N \in P
  <2> HIDE DEF P
  <2> QED BY <1>1, <1>2, UpTo
<1> QED BY <1>3

\* How many of the kept ones there are up to n.
Place(keep, n) == Cardinality({m \in keep : m <= n})

\* The kept items, each in its place.
IsCollection(out, items, keep) ==
  /\ out \in Seq({items[n] : n \in keep})
  /\ Len(out) = Cardinality(keep)
  /\ \A n \in keep : Place(keep, n) \in 1..Len(out) /\ out[Place(keep, n)] = items[n]
  /\ \A j \in 1..Len(out) : \E n \in keep : out[j] = items[n]

\* That is what the recursion collects.
LEMMA CollectResult ==
  ASSUME NEW N \in Nat, NEW keep \in SUBSET (1..N), NEW items,
         NEW from, Collects(from, items, keep, N)
  PROVE  IsCollection(from[N], items, keep)
<1> DEFINE U == {items[n] : n \in keep}
           Q(n) == /\ from[n] \in Seq(U)
                   /\ Len(from[n]) = Place(keep, n)
                   /\ \A m \in keep : m <= n => /\ Place(keep, m) \in 1..Len(from[n])
                                                /\ from[n][Place(keep, m)] = items[m]
                   /\ \A j \in 1..Len(from[n]) : \E m \in keep : from[n][j] = items[m]
           P == {n \in 0..N : Q(n)}
<1>0. \A m \in keep : m \in Nat /\ 1 <= m /\ m <= N
  OBVIOUS
<1>1. \A n \in 0..N : from[n] = CollectStep(items, keep, from, n)
  BY DEF Collects
<1>2. IsFiniteSet(keep) /\ \A n : Place(keep, n) \in Nat
  <2>1. IsFiniteSet(keep)
    <3>1. IsFiniteSet(1..N)
      BY FS_Interval
    <3> QED BY <3>1, FS_Subset
  <2>2. \A n : IsFiniteSet({m \in keep : m <= n})
    BY <2>1, FS_Subset
  <2> QED BY <2>1, <2>2, FS_CardinalityType DEF Place
<1>3. 0 \in P
  <2>1. {m \in keep : m <= 0} = {}
    <3>1. \A m \in keep : ~(m <= 0)
      BY <1>0
    <3> QED BY <3>1
  <2>2. Place(keep, 0) = 0
    BY <2>1, FS_EmptySet DEF Place
  <2>3. from[0] = <<>>
    BY <1>1 DEF CollectStep
  <2>4. Q(0)
    <3>1. \A m \in keep : ~(m <= 0)
      OBVIOUS
    <3> QED BY <2>2, <2>3, <3>1
  <2> HIDE DEF Q
  <2> QED BY <2>4
<1>4. ASSUME NEW n \in 1..N, n - 1 \in P
      PROVE  n \in P
  <2>1. n \in 0..N /\ n # 0 /\ n - 1 \in 0..N
    OBVIOUS
  <2>2. Q(n - 1)
    BY <1>4
  <2> DEFINE before == from[n - 1]
  <2>3. before \in Seq(U) /\ Len(before) \in Nat /\ DOMAIN before = 1..Len(before)
    BY <2>2, LenProperties
  <2>4. CASE n \in keep
    <3>1. from[n] = Append(before, items[n])
      BY <1>1, <2>1, <2>4 DEF CollectStep
    <3>2. /\ {m \in keep : m <= n} = {m \in keep : m <= n - 1} \cup {n}
          /\ n \notin {m \in keep : m <= n - 1}
      <4>1. \A m \in keep : m <= n <=> m <= n - 1 \/ m = n
        BY <1>0
      <4>2. n <= n /\ ~(n <= n - 1)
        OBVIOUS
      <4> QED BY <2>4, <4>1, <4>2
    <3>3. Place(keep, n) = Place(keep, n - 1) + 1
      <4>1. IsFiniteSet({m \in keep : m <= n - 1})
        BY <1>2, FS_Subset
      <4> QED BY <3>2, <4>1, FS_AddElement DEF Place
    <3>4. items[n] \in U
      BY <2>4
    <3> HIDE DEF before, U
    <3>5. /\ from[n] \in Seq(U) /\ Len(from[n]) = Len(before) + 1
          /\ \A j \in 1..Len(before) : from[n][j] = before[j]
          /\ from[n][Len(before) + 1] = items[n]
      BY <2>3, <3>1, <3>4, AppendProperties
    <3>6. Len(before) = Place(keep, n - 1)
      BY <2>2 DEF before
    <3>7. ASSUME NEW m \in keep, m <= n
          PROVE  Place(keep, m) \in 1..Len(from[n]) /\ from[n][Place(keep, m)] = items[m]
      <4>1. CASE m = n
        BY <2>3, <3>3, <3>5, <3>6, <4>1
      <4>2. CASE m # n
        <5>1. m <= n - 1
          BY <3>7, <4>2
        <5>2. Place(keep, m) \in 1..Len(before) /\ before[Place(keep, m)] = items[m]
          BY <2>2, <5>1 DEF before
        <5> QED BY <2>3, <3>5, <5>2
      <4> QED BY <4>1, <4>2
    <3>8. ASSUME NEW j \in 1..Len(from[n])
          PROVE  \E m \in keep : from[n][j] = items[m]
      <4>1. CASE j = Len(before) + 1
        BY <2>4, <3>5, <4>1
      <4>2. CASE j # Len(before) + 1
        <5>1. j \in 1..Len(before)
          BY <2>3, <3>5, <4>2
        <5>2. \E m \in keep : before[j] = items[m]
          BY <2>2, <5>1 DEF before
        <5> QED BY <3>5, <5>1, <5>2
      <4> QED BY <4>1, <4>2
    <3>9. Q(n)
      BY <3>3, <3>5, <3>6, <3>7, <3>8
    <3> HIDE DEF Q
    <3> QED BY <2>1, <3>9
  <2>5. CASE n \notin keep
    <3>1. from[n] = from[n - 1]
      BY <1>1, <2>1, <2>5 DEF CollectStep
    <3>2. \A m \in keep : m <= n <=> m <= n - 1
      BY <2>5
    <3>3. Place(keep, n) = Place(keep, n - 1)
      <4>1. {m \in keep : m <= n} = {m \in keep : m <= n - 1}
        BY <3>2
      <4> QED BY <4>1 DEF Place
    <3>4. Q(n)
      BY <2>2, <3>1, <3>2, <3>3
    <3> HIDE DEF Q
    <3> QED BY <2>1, <3>4
  <2> QED BY <2>4, <2>5
<1>5. Q(N)
  <2>1. N \in P
    <3> HIDE DEF P
    <3> QED BY <1>3, <1>4, UpTo
  <2> QED BY <2>1
<1>6. Place(keep, N) = Cardinality(keep) /\ \A m \in keep : m <= N
  <2>1. {m \in keep : m <= N} = keep
    BY <1>0
  <2> QED BY <2>1 DEF Place
<1> HIDE DEF P
<1> QED BY <1>5, <1>6 DEF IsCollection
=============================================================================
