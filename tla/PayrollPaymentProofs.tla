------------------------ MODULE PayrollPaymentProofs ------------------------
(* Proofs about PayrollPayment: rows keep their types, every amount keeps its  *)
(* place, the lock of a week follows its newest transfer, final weeks stay as  *)
(* they are, and no order of commands loses or doubles money.                  *)
(*                                                                             *)
(* Conservation is not proved step by step.  The inductive invariant Inv says  *)
(* where each amount is: an earning in its own week or once in the book, the   *)
(* negative rest of a settled week in the week after it.  That the totals      *)
(* agree then follows by regrouping finite sums, in any one state.             *)
EXTENDS PayrollPayment, TLAPS, FiniteSetTheorems, SequenceTheorems, WellFoundedInduction

(***************************************************************************)
(* Induction over finite sets                                              *)
(***************************************************************************)
\* Natural numbers, ordered by <, as the library's relation.
LEMMA BelowIsRelation == OpToRel(<, Nat) = {ss \in Nat \X Nat : ss[1] < ss[2]}
BY DEF OpToRel

\* A set of natural numbers that is not empty has a least member.
LEMMA LeastIn == ASSUME NEW D \in SUBSET Nat, D # {}
  PROVE \E d \in D : \A e \in D : d <= e
<1> DEFINE R == {ss \in Nat \X Nat : ss[1] < ss[2]}
<1>1. IsWellFoundedOn(R, Nat)
  BY NatLessThanWellFounded, BelowIsRelation
<1>2. PICK d \in D : \A e \in D : ~(<<e, d>> \in R)
  BY <1>1, WFMin
<1>3. \A e \in D : e \in Nat /\ d \in Nat /\ ~(e < d)
  BY <1>2
<1>4. \A e \in D : d <= e
  BY <1>3
<1>. QED
  BY <1>4

\* Induction over the subsets of a finite set: a set G of them that has every
\* subset whose one-element-smaller subsets it has, has all of them.
LEMMA SubsetInduction ==
  ASSUME NEW S, IsFiniteSet(S), NEW G,
         \A T \in SUBSET S : (\A x \in T : T \ {x} \in G) => T \in G
  PROVE \A T \in SUBSET S : T \in G
<1> DEFINE D == {Cardinality(T) : T \in (SUBSET S) \ G}
<1>1. SUFFICES ASSUME (SUBSET S) \ G # {} PROVE FALSE
  OBVIOUS
<1>2. \A T \in SUBSET S : IsFiniteSet(T) /\ Cardinality(T) \in Nat
  BY FS_Subset, FS_CardinalityType
<1>3. D \subseteq Nat /\ D # {}
  BY <1>1, <1>2
<1>4. PICK d \in D : \A e \in D : d <= e
  <2>. HIDE DEF D
  <2>. QED
    BY <1>3, LeastIn
<1>5. PICK T \in (SUBSET S) \ G : d = Cardinality(T)
  OBVIOUS
<1>6. ASSUME NEW x \in T PROVE T \ {x} \in G
  <2>1. Cardinality(T \ {x}) = Cardinality(T) - 1
    BY <1>2, FS_RemoveElement
  <2>2. T \ {x} \in SUBSET S
    OBVIOUS
  <2>3. T \ {x} \notin G => Cardinality(T \ {x}) \in D
    BY <2>2
  <2>4. T \ {x} \notin G => Cardinality(T) <= Cardinality(T) - 1
    <3>. HIDE DEF D
    <3>. QED
      BY <1>4, <1>5, <2>1, <2>3
  <2>. QED
    BY <1>2, <2>4
<1>. QED
  BY <1>5, <1>6

(***************************************************************************)
(* Sums over finite sets                                                   *)
(***************************************************************************)
Sum(f, S) == SumFunctionOnSet(f, S)
Some(S) == CHOOSE x \in S : TRUE
Step(f, h, s) == IF s = {} THEN 0 ELSE f[Some(s)] + h[s \ {Some(s)}]
IsFold(f, h, S) == h = [s \in SUBSET S |-> Step(f, h, s)]

\* The sum is what the library's recursive function computes.
LEMMA SumUnfold == ASSUME NEW f, NEW S
  PROVE Sum(f, S) = (CHOOSE h : IsFold(f, h, S))[S]
BY DEF Sum, SumFunctionOnSet, FoldFunctionOnSet, MapThenFoldSet, Step, Some, IsFold

LEMMA SomeIn == ASSUME NEW S, S # {} PROVE Some(S) \in S
BY DEF Some

\* There is one such function.
LEMMA FoldIsUnique ==
  ASSUME NEW S, IsFiniteSet(S), NEW f, NEW h, NEW g, IsFold(f, h, S), IsFold(f, g, S)
  PROVE \A T \in SUBSET S : h[T] = g[T]
<1> DEFINE G == {T \in SUBSET S : h[T] = g[T]}
<1>1. \A T \in SUBSET S : h[T] = Step(f, h, T) /\ g[T] = Step(f, g, T)
  BY DEF IsFold
<1>2. ASSUME NEW T \in SUBSET S, \A x \in T : T \ {x} \in G PROVE T \in G
  <2>1. T # {} => h[T \ {Some(T)}] = g[T \ {Some(T)}]
    BY <1>2, SomeIn
  <2>2. h[T] = g[T]
    BY <1>1, <2>1 DEF Step
  <2>. QED
    BY <2>2
<1>3. \A T \in SUBSET S : T \in G
  <2>. HIDE DEF G
  <2>. QED
    BY <1>2, SubsetInduction
<1>. QED
  BY <1>3

\* The sum, one element after the other.
LEMMA SumStep == ASSUME NEW f, NEW S, IsFiniteSet(S)
  PROVE Sum(f, S) = IF S = {} THEN 0 ELSE f[Some(S)] + Sum(f, S \ {Some(S)})
<1> DEFINE Rest(T) == IF T = {} THEN 0 ELSE f[Some(T)] + Sum(f, T \ {Some(T)})
           G == {T \in SUBSET S : \A U \in SUBSET T : Sum(f, U) = Rest(U)}
<1>1. ASSUME NEW T \in SUBSET S, \A x \in T : T \ {x} \in G PROVE T \in G
  <2> DEFINE h == [s \in SUBSET T |-> Rest(s)]
  <2>1. ASSUME NEW U \in SUBSET T, U # T PROVE Sum(f, U) = Rest(U)
    <3>1. PICK x \in T : x \notin U
      BY <2>1
    <3>2. U \in SUBSET (T \ {x}) /\ T \ {x} \in G
      BY <1>1, <3>1
    <3>. QED
      BY <3>2
  <2>2. ASSUME NEW s \in SUBSET T, s # {} PROVE h[s \ {Some(s)}] = Sum(f, s \ {Some(s)})
    <3>1. s \ {Some(s)} \in SUBSET T /\ s \ {Some(s)} # T
      BY <2>2, SomeIn
    <3>2. h[s \ {Some(s)}] = Rest(s \ {Some(s)})
      BY <3>1
    <3>. QED
      BY <2>1, <3>1, <3>2
  <2>3. \A s \in SUBSET T : Rest(s) = Step(f, h, s)
    <3> HIDE DEF h
    <3> QED BY <2>2 DEF Step
  <2>4. IsFold(f, h, T)
    BY <2>3 DEF IsFold
  <2>5. IsFold(f, CHOOSE g : IsFold(f, g, T), T)
    BY <2>4
  <2>6. Sum(f, T) = (CHOOSE g : IsFold(f, g, T))[T]
    BY SumUnfold
  <2>7. Sum(f, T) = h[T]
    <3>. HIDE DEF h
    <3>. QED
      BY <2>4, <2>5, <2>6, FoldIsUnique, FS_Subset
  <2>8. Sum(f, T) = Rest(T)
    BY <2>7
  <2>9. \A U \in SUBSET T : Sum(f, U) = Rest(U)
    BY <2>1, <2>8
  <2>. QED
    BY <2>9
<1>2. \A T \in SUBSET S : T \in G
  <2>. HIDE DEF G
  <2>. QED
    BY <1>1, SubsetInduction
<1>. QED
  BY <1>2

LEMMA SumEmpty == ASSUME NEW f PROVE Sum(f, {}) = 0
BY SumStep, FS_EmptySet

\* A sum of integers is one.
LEMMA SumType == ASSUME NEW S, IsFiniteSet(S), NEW f, \A x \in S : f[x] \in Int
  PROVE Sum(f, S) \in Int
<1> DEFINE G == {T \in SUBSET S : Sum(f, T) \in Int}
<1>1. ASSUME NEW T \in SUBSET S, \A x \in T : T \ {x} \in G PROVE T \in G
  <2>1. T # {} => Sum(f, T \ {Some(T)}) \in Int /\ f[Some(T)] \in Int
    BY <1>1, SomeIn
  <2>2. Sum(f, T) \in Int
    BY <2>1, SumStep, FS_Subset
  <2>. QED
    BY <2>2
<1>2. \A T \in SUBSET S : T \in G
  <2>. HIDE DEF G
  <2>. QED
    BY <1>1, SubsetInduction
<1>. QED
  BY <1>2

\* The order does not matter: any element may be taken first.
LEMMA SumRemove ==
  ASSUME NEW S, IsFiniteSet(S), NEW f, \A x \in S : f[x] \in Int, NEW y \in S
  PROVE Sum(f, S) = f[y] + Sum(f, S \ {y})
<1> DEFINE G == {T \in SUBSET S : \A z \in T : Sum(f, T) = f[z] + Sum(f, T \ {z})}
<1>1. ASSUME NEW T \in SUBSET S, \A x \in T : T \ {x} \in G PROVE T \in G
  <2>1. ASSUME NEW z \in T PROVE Sum(f, T) = f[z] + Sum(f, T \ {z})
    <3> DEFINE c == Some(T)
    <3>0. c \in T
      BY SomeIn
    <3> HIDE DEF c
    <3>1. Sum(f, T) = f[c] + Sum(f, T \ {c})
      BY SumStep, FS_Subset DEF c
    <3>2. CASE z = c
      BY <3>1, <3>2
    <3>3. CASE z # c
      <4>1. Sum(f, T \ {c}) = f[z] + Sum(f, (T \ {c}) \ {z})
        BY <1>1, <3>0, <3>3
      <4>2. Sum(f, T \ {z}) = f[c] + Sum(f, (T \ {z}) \ {c})
        BY <1>1, <3>0, <3>3
      <4>3. (T \ {c}) \ {z} = (T \ {z}) \ {c}
        OBVIOUS
      <4>4. Sum(f, (T \ {z}) \ {c}) \in Int
        BY SumType, FS_Subset
      <4>5. f[c] \in Int /\ f[z] \in Int
        BY <3>0
      <4>6. Sum(f, T) = f[c] + (f[z] + Sum(f, (T \ {z}) \ {c}))
        BY <3>1, <4>1, <4>3
      <4>. QED
        BY <4>2, <4>4, <4>5, <4>6
    <3>. QED
      BY <3>2, <3>3
  <2>. QED
    BY <2>1
<1>2. \A T \in SUBSET S : T \in G
  <2>. HIDE DEF G
  <2>. QED
    BY <1>1, SubsetInduction
<1>. QED
  BY <1>2

\* Functions that agree on a set have the same sum over it.
LEMMA SumSame ==
  ASSUME NEW S, IsFiniteSet(S), NEW f, NEW g, \A x \in S : f[x] = g[x]
  PROVE Sum(f, S) = Sum(g, S)
<1> DEFINE G == {T \in SUBSET S : Sum(f, T) = Sum(g, T)}
<1>1. ASSUME NEW T \in SUBSET S, \A x \in T : T \ {x} \in G PROVE T \in G
  <2>1. T # {} => Sum(f, T \ {Some(T)}) = Sum(g, T \ {Some(T)}) /\ f[Some(T)] = g[Some(T)]
    BY <1>1, SomeIn
  <2>2. Sum(f, T) = Sum(g, T)
    BY <2>1, SumStep, FS_Subset
  <2>. QED
    BY <2>2
<1>2. \A T \in SUBSET S : T \in G
  <2>. HIDE DEF G
  <2>. QED
    BY <1>1, SubsetInduction
<1>. QED
  BY <1>2

LEMMA SumZero == ASSUME NEW S, IsFiniteSet(S), NEW f, \A x \in S : f[x] = 0
  PROVE Sum(f, S) = 0
<1> DEFINE G == {T \in SUBSET S : Sum(f, T) = 0}
<1>1. ASSUME NEW T \in SUBSET S, \A x \in T : T \ {x} \in G PROVE T \in G
  <2>1. T # {} => Sum(f, T \ {Some(T)}) = 0 /\ f[Some(T)] = 0
    BY <1>1, SomeIn
  <2>2. Sum(f, T) = 0
    BY <2>1, SumStep, FS_Subset
  <2>. QED
    BY <2>2
<1>2. \A T \in SUBSET S : T \in G
  <2>. HIDE DEF G
  <2>. QED
    BY <1>1, SubsetInduction
<1>. QED
  BY <1>2

\* The sum of the sums is the sum.
LEMMA SumPlus ==
  ASSUME NEW S, IsFiniteSet(S), NEW f, NEW g, NEW h,
         \A x \in S : f[x] \in Int /\ g[x] \in Int /\ h[x] = f[x] + g[x]
  PROVE Sum(h, S) = Sum(f, S) + Sum(g, S)
<1> DEFINE G == {T \in SUBSET S : Sum(h, T) = Sum(f, T) + Sum(g, T)}
<1>1. ASSUME NEW T \in SUBSET S, \A x \in T : T \ {x} \in G PROVE T \in G
  <2>1. ASSUME T # {} PROVE Sum(h, T) = Sum(f, T) + Sum(g, T)
    <3> DEFINE c == Some(T)
    <3>1. c \in T
      BY <2>1, SomeIn
    <3>2. Sum(h, T) = h[c] + Sum(h, T \ {c}) /\ Sum(f, T) = f[c] + Sum(f, T \ {c})
            /\ Sum(g, T) = g[c] + Sum(g, T \ {c})
      BY <2>1, SumStep, FS_Subset
    <3> HIDE DEF c
    <3>3. Sum(f, T \ {c}) \in Int /\ Sum(g, T \ {c}) \in Int
      BY SumType, FS_Subset
    <3>4. Sum(h, T \ {c}) = Sum(f, T \ {c}) + Sum(g, T \ {c})
      BY <1>1, <3>1
    <3>5. f[c] \in Int /\ g[c] \in Int /\ h[c] = f[c] + g[c]
      BY <3>1
    <3>. QED
      BY <3>2, <3>3, <3>4, <3>5
  <2>2. T = {} => Sum(h, T) = Sum(f, T) + Sum(g, T)
    BY SumEmpty
  <2>. QED
    BY <2>1, <2>2
<1>2. \A T \in SUBSET S : T \in G
  <2>. HIDE DEF G
  <2>. QED
    BY <1>1, SubsetInduction
<1>. QED
  BY <1>2

\* A set may be summed in two parts.
LEMMA SumSplit ==
  ASSUME NEW S, IsFiniteSet(S), NEW f, \A x \in S : f[x] \in Int, NEW A, NEW B,
         A \cup B = S, A \cap B = {}
  PROVE Sum(f, S) = Sum(f, A) + Sum(f, B)
<1> DEFINE G == {T \in SUBSET S : Sum(f, T) = Sum(f, T \cap A) + Sum(f, T \cap B)}
<1>1. ASSUME NEW T \in SUBSET S, \A x \in T : T \ {x} \in G PROVE T \in G
  <2>1. ASSUME NEW c \in T, NEW P, NEW Q, c \in P, c \notin Q,
               Sum(f, T \ {c}) = Sum(f, (T \ {c}) \cap P) + Sum(f, (T \ {c}) \cap Q)
        PROVE Sum(f, T) = Sum(f, T \cap P) + Sum(f, T \cap Q)
    <3>1. (T \ {c}) \cap Q = T \cap Q /\ (T \ {c}) \cap P = (T \cap P) \ {c}
      BY <2>1
    <3>2. IsFiniteSet(T) /\ IsFiniteSet(T \cap P) /\ IsFiniteSet(T \cap Q)
      BY FS_Subset
    <3>3. Sum(f, T) = f[c] + Sum(f, T \ {c})
      BY <3>2, SumRemove
    <3>4. Sum(f, T \cap P) = f[c] + Sum(f, (T \cap P) \ {c})
      BY <2>1, <3>2, SumRemove
    <3>5. Sum(f, (T \cap P) \ {c}) \in Int /\ Sum(f, T \cap Q) \in Int /\ f[c] \in Int
      BY <3>2, SumType, FS_Subset
    <3>6. Sum(f, T) = f[c] + (Sum(f, (T \cap P) \ {c}) + Sum(f, T \cap Q))
      BY <2>1, <3>1, <3>3
    <3>. QED
      BY <3>4, <3>5, <3>6
  <2>2. ASSUME NEW c \in T PROVE Sum(f, T) = Sum(f, T \cap A) + Sum(f, T \cap B)
    <3>1. Sum(f, T \ {c}) = Sum(f, (T \ {c}) \cap A) + Sum(f, (T \ {c}) \cap B)
      BY <1>1
    <3>2. Sum(f, T \cap A) \in Int /\ Sum(f, T \cap B) \in Int
      BY SumType, FS_Subset
    <3>3. Sum(f, (T \ {c}) \cap A) \in Int /\ Sum(f, (T \ {c}) \cap B) \in Int
      BY SumType, FS_Subset
    <3>4. CASE c \in A
      BY <2>1, <3>1, <3>4
    <3>5. CASE c \in B
      <4>1. Sum(f, T \ {c}) = Sum(f, (T \ {c}) \cap B) + Sum(f, (T \ {c}) \cap A)
        BY <3>1, <3>3
      <4>2. Sum(f, T) = Sum(f, T \cap B) + Sum(f, T \cap A)
        BY <2>1, <3>5, <4>1
      <4>. QED
        BY <3>2, <4>2
    <3>. QED
      BY <3>4, <3>5
  <2>3. T = {} => Sum(f, T) = Sum(f, T \cap A) + Sum(f, T \cap B)
    <3>1. T = {} => T \cap A = {} /\ T \cap B = {}
      OBVIOUS
    <3>. QED
      BY <3>1, SumEmpty
  <2>. QED
    BY <2>2, <2>3
<1>2. \A T \in SUBSET S : T \in G
  <2>. HIDE DEF G
  <2>. QED
    BY <1>1, SubsetInduction
<1>3. S \cap A = A /\ S \cap B = B
  OBVIOUS
<1>. QED
  BY <1>2, <1>3

\* A set may be summed class by class.
LEMMA SumByClass ==
  ASSUME NEW S, IsFiniteSet(S), NEW f, \A x \in S : f[x] \in Int,
         NEW K, IsFiniteSet(K), NEW k, \A x \in S : k[x] \in K
  PROVE Sum(f, S) = Sum([w \in K |-> Sum(f, {x \in S : k[x] = w})], K)
<1> DEFINE Class(T, w) == {x \in T : k[x] = w}
           By(T) == [w \in K |-> Sum(f, Class(T, w))]
           G == {T \in SUBSET S : Sum(f, T) = Sum(By(T), K)}
<1>0. \A T \in SUBSET S : \A w : Sum(f, Class(T, w)) \in Int
  BY SumType, FS_Subset
<1>1. ASSUME NEW T \in SUBSET S, \A x \in T : T \ {x} \in G PROVE T \in G
  <2>1. ASSUME NEW c \in T PROVE Sum(f, T) = Sum(By(T), K)
    <3> DEFINE U == T \ {c}
               v == k[c]
    <3>0. U \in SUBSET S /\ v \in K
      OBVIOUS
    <3>1. Sum(f, T) = f[c] + Sum(f, U)
      BY SumRemove, FS_Subset
    <3>2. Sum(f, U) = Sum(By(U), K)
      BY <1>1
    <3>3. Class(U, v) = Class(T, v) \ {c} /\ c \in Class(T, v)
      OBVIOUS
    <3>4. By(T)[v] = f[c] + By(U)[v]
      <4>1. Sum(f, Class(T, v)) = f[c] + Sum(f, Class(T, v) \ {c})
        <5>1. IsFiniteSet(Class(T, v)) /\ \A x \in Class(T, v) : f[x] \in Int
          BY FS_Subset
        <5>. HIDE DEF Class
        <5>. QED
          BY <3>3, <5>1, SumRemove
      <4>. QED
        BY <3>0, <3>3, <4>1
    <3>5. \A w \in K \ {v} : By(T)[w] = By(U)[w]
      <4>1. ASSUME NEW w \in K \ {v} PROVE Class(T, w) = Class(U, w)
        OBVIOUS
      <4>. HIDE DEF Class, U, v
      <4>. QED
        BY <4>1
    <3>6. \A w \in K : By(T)[w] \in Int /\ By(U)[w] \in Int
      <4>. HIDE DEF Class
      <4>. QED
        BY <1>0, <3>0
    <3> HIDE DEF By, U, v
    <3>7. IsFiniteSet(K \ {v}) /\ Sum(By(T), K \ {v}) = Sum(By(U), K \ {v})
      BY <3>5, SumSame, FS_Subset
    <3>8. Sum(By(T), K) = By(T)[v] + Sum(By(T), K \ {v})
      BY <3>0, <3>6, SumRemove
    <3>9. Sum(By(U), K) = By(U)[v] + Sum(By(U), K \ {v})
      BY <3>0, <3>6, SumRemove
    <3>10. Sum(By(U), K \ {v}) \in Int
      BY <3>6, <3>7, SumType
    <3>11. f[c] \in Int
      OBVIOUS
    <3>. QED
      BY <3>0, <3>1, <3>2, <3>4, <3>6, <3>7, <3>8, <3>9, <3>10, <3>11
  <2>2. T = {} => Sum(f, T) = Sum(By(T), K)
    <3>1. T = {} => \A w \in K : By(T)[w] = 0
      <4>1. T = {} => \A w : Class(T, w) = {}
        OBVIOUS
      <4>. HIDE DEF Class
      <4>. QED
        BY <4>1, SumEmpty
    <3>. HIDE DEF By
    <3>. QED
      BY <3>1, SumZero, SumEmpty
  <2>. QED
    BY <2>1, <2>2
<1>2. \A T \in SUBSET S : T \in G
  <2>. HIDE DEF G
  <2>. QED
    BY <1>1, SubsetInduction
<1>. QED
  BY <1>2

\* A sum may be taken over a set with as many elements, one for each.
LEMMA SumImage ==
  ASSUME NEW S, IsFiniteSet(S), NEW f, NEW g, NEW b,
         \A x, y \in S : b[x] = b[y] => x = y,
         \A x \in S : f[x] \in Int /\ g[b[x]] = f[x]
  PROVE Sum(f, S) = Sum(g, {b[x] : x \in S})
<1> DEFINE Image(T) == {b[x] : x \in T}
           G == {T \in SUBSET S : Sum(f, T) = Sum(g, Image(T))}
<1>1. ASSUME NEW T \in SUBSET S, \A x \in T : T \ {x} \in G PROVE T \in G
  <2>1. ASSUME NEW c \in T PROVE Sum(f, T) = Sum(g, Image(T))
    <3>1. Sum(f, T) = f[c] + Sum(f, T \ {c})
      BY SumRemove, FS_Subset
    <3>2. Sum(f, T \ {c}) = Sum(g, Image(T \ {c}))
      BY <1>1
    <3>3. Image(T \ {c}) = Image(T) \ {b[c]} /\ b[c] \in Image(T)
      OBVIOUS
    <3>4. IsFiniteSet(Image(T)) /\ \A y \in Image(T) : g[y] \in Int
      <4>1. IsFiniteSet(Image(T))
        <5>1. [x \in T |-> b[x]] \in Surjection(T, Image(T))
          BY DEF Surjection
        <5>. HIDE DEF Image
        <5>. QED
          BY <5>1, FS_Surjection, FS_Subset
      <4>. QED
        BY <4>1
    <3>5. Sum(g, Image(T)) = g[b[c]] + Sum(g, Image(T) \ {b[c]})
      <4>. HIDE DEF Image
      <4>. QED
        BY <3>3, <3>4, SumRemove
    <3>6. g[b[c]] = f[c]
      OBVIOUS
    <3>. QED
      BY <3>1, <3>2, <3>3, <3>5, <3>6
  <2>2. T = {} => Sum(f, T) = Sum(g, Image(T))
    <3>1. T = {} => Image(T) = {}
      OBVIOUS
    <3>. QED
      BY <3>1, SumEmpty
  <2>. QED
    BY <2>1, <2>2
<1>2. \A T \in SUBSET S : T \in G
  <2>. HIDE DEF G
  <2>. QED
    BY <1>1, SubsetInduction
<1>. QED
  BY <1>2

\* The library's sum of a function, as a sum over its domain.
LEMMA SumFunctionIs ==
  ASSUME NEW S, IsFiniteSet(S), NEW F, DOMAIN F = S, NEW g, \A x \in S : F[x] = g[x]
  PROVE SumFunction(F) = Sum(g, S)
<1>1. SumFunction(F) = Sum(F, S)
  BY DEF SumFunction, Sum
<1>. QED
  BY <1>1, SumSame

(***************************************************************************)
(* The invariant                                                           *)
(***************************************************************************)
\* What the rows look like beyond their types.
Shaped ==
  /\ \A e \in Earnings :
       /\ earned[e].amount > 0 => earned[e].week \in 1..LastWeek
       /\ earned[e].claimed => earned[e].amount > 0
  /\ \A i \in DOMAIN book : book[i].reason = "late" =>
       book[i].amount = earned[book[i].root].amount /\ book[i].amount > 0
  /\ \A w \in Weeks :
       /\ Len(cycle[w].attempts) = cycle[w].tries
       /\ cycle[w].status = "settled" => w <= LastWeek

\* What is carried into a week is the negative rest of the settled week before.
CarryIsResidual ==
  \A w \in Weeks :
    /\ carry[w].claimed => carry[w].amount > 0
    /\ w > 1 /\ cycle[w - 1].status = "settled" =>
         carry[w].amount = -Payable(earned, book, carry, w - 1)
    /\ w = 1 \/ cycle[w - 1].status # "settled" => carry[w].amount = 0

\* LockFollowsItsAttempt of one week, p being what its items come to.
LockOf(c, p) ==
  /\ \A i \in 1..(c.tries - 1) : c.attempts[i].result = "reopened"
  /\ c.status \in {"paying", "check", "paid"} =>
       /\ c.tries > 0 /\ c.locked > 0
       /\ c.attempts[c.tries] = [amount |-> p, result |->
            IF c.status = "paying" THEN "started" ELSE c.status]
       /\ c.locked = p
  /\ c.status \in {"open", "settled"} =>
       c.locked = 0 /\ (c.tries > 0 => c.attempts[c.tries].result = "reopened")
  /\ c.status = "settled" => p <= 0

Inv == TypeOK /\ Shaped /\ EveryAmountHasItsPlace /\ LockFollowsItsAttempt /\ CarryIsResidual

LEMMA LockByWeek ==
  LockFollowsItsAttempt <=> \A w \in Weeks : LockOf(cycle[w], Payable(earned, book, carry, w))
BY DEF LockFollowsItsAttempt, LockOf

\* The items of a week come to an integer.
LEMMA PayableType ==
  ASSUME NEW es \in [Earnings -> Earning], NEW b \in Seq(Adjustment),
         NEW c \in [Weeks -> Carry], NEW w \in Weeks
  PROVE Payable(es, b, c, w) \in Int
<1>1. SumFunction(EarningItems(es, w)) \in Int
  <2> DEFINE S == {x \in Earnings : es[x].claimed /\ es[x].week = w}
             f == [e \in S |-> es[e].amount]
  <2>1. IsFiniteSet(S) /\ \A e \in S : f[e] \in Int
    BY EarningsAreFinite, FS_Subset DEF Earning
  <2>2. SumFunction(EarningItems(es, w)) = Sum(f, S)
    BY DEF SumFunction, Sum, EarningItems
  <2>. HIDE DEF S, f
  <2>. QED
    BY <2>1, <2>2, SumType
<1>2. SumFunction(AdjustmentItems(b, w)) \in Int
  <2> DEFINE S == {x \in DOMAIN b : b[x].claimed /\ b[x].week = w}
             f == [i \in S |-> b[i].amount]
  <2>1. IsFiniteSet(S) /\ \A i \in S : f[i] \in Int
    <3>1. IsFiniteSet(DOMAIN b) /\ \A i \in DOMAIN b : b[i] \in Adjustment
      BY FS_Interval
    <3>. QED
      BY <3>1, FS_Subset DEF Adjustment
  <2>2. SumFunction(AdjustmentItems(b, w)) = Sum(f, S)
    BY DEF SumFunction, Sum, AdjustmentItems
  <2>. HIDE DEF S, f
  <2>. QED
    BY <2>1, <2>2, SumType
<1>3. CarryItem(c, w) \in Int
  BY DEF CarryItem, Carry
<1>. QED
  BY <1>1, <1>2, <1>3 DEF Payable

(***************************************************************************)
(* What the commands do to the items of the weeks                          *)
(***************************************************************************)
\* The items of w are the same, what else may have changed.
SameItems(es, b, c, w) ==
  /\ EarningItems(es, w) = EarningItems(earned, w)
  /\ AdjustmentItems(b, w) = AdjustmentItems(book, w)
  /\ CarryItem(c, w) = CarryItem(carry, w)

LEMMA SamePayable ==
  ASSUME NEW es, NEW b, NEW c, NEW w, SameItems(es, b, c, w)
  PROVE Payable(es, b, c, w) = Payable(earned, book, carry, w)
BY DEF SameItems, Payable

\* A new earning is no item.
LEMMA ArrivalKeepsItems ==
  ASSUME TypeOK, Shaped, NEW e \in Earnings, NEW v \in 1..LastWeek, NEW amount \in Amounts,
         EarningArrives(e, v, amount), NEW w \in Weeks
  PROVE SameItems(earned', book', carry', w)
<1>1. ~earned[e].claimed
  BY EarningsAreNotNegative DEF TypeOK, Shaped, EarningArrives, Earning
<1>2. earned' = [earned EXCEPT ![e] = [week |-> v, amount |-> amount, claimed |-> FALSE]]
  BY DEF EarningArrives
<1>3. \A x \in Earnings : earned'[x].claimed /\ earned'[x].week = w =>
        earned'[x] = earned[x]
  BY <1>2 DEF TypeOK
<1>4. \A x \in Earnings : earned[x].claimed => earned'[x] = earned[x]
  BY <1>1, <1>2 DEF TypeOK
<1>5. {x \in Earnings : earned'[x].claimed /\ earned'[x].week = w}
        = {x \in Earnings : earned[x].claimed /\ earned[x].week = w}
  BY <1>3, <1>4
<1>6. EarningItems(earned', w) = EarningItems(earned, w)
  BY <1>4, <1>5 DEF EarningItems
<1>. QED
  BY <1>6 DEF EarningArrives, SameItems, AdjustmentItems, CarryItem

\* Neither is a new entry of the book.
LEMMA EntryKeepsItems ==
  ASSUME TypeOK, NEW x \in Adjustment, ~x.claimed, book' = Append(book, x),
         UNCHANGED <<today, earned, cycle, carry>>, NEW w \in Weeks
  PROVE SameItems(earned', book', carry', w)
<1>1. /\ Len(book) \in Nat /\ DOMAIN book = 1..Len(book) /\ DOMAIN book' = 1..(Len(book) + 1)
      /\ \A i \in DOMAIN book : book'[i] = book[i]
      /\ book'[Len(book) + 1] = x
  BY DEF TypeOK
<1>2. {i \in DOMAIN book' : book'[i].claimed /\ book'[i].week = w}
        = {i \in DOMAIN book : book[i].claimed /\ book[i].week = w}
  BY <1>1
<1>3. AdjustmentItems(book', w) = AdjustmentItems(book, w)
  BY <1>1, <1>2 DEF AdjustmentItems
<1>. QED
  BY <1>3 DEF SameItems, EarningItems, CarryItem

\* Claiming changes nothing but the mark.
LEMMA EntriesClaimed ==
  ASSUME TypeOK, NEW v
  PROVE /\ DOMAIN ClaimBook(v) = DOMAIN book
        /\ \A i \in DOMAIN book :
             /\ book[i] \in Adjustment /\ ClaimBook(v)[i] \in Adjustment
             /\ ClaimBook(v)[i].reason = book[i].reason
             /\ ClaimBook(v)[i].root = book[i].root
             /\ ClaimBook(v)[i].week = book[i].week
             /\ ClaimBook(v)[i].amount = book[i].amount
             /\ ClaimBook(v)[i].claimed <=> (book[i].claimed \/ book[i].week = v)
<1>1. \A i \in DOMAIN book : book[i] \in Adjustment
  BY DEF TypeOK
<1>2. \A i \in DOMAIN book :
        ClaimBook(v)[i] = [book[i] EXCEPT !.claimed = book[i].claimed \/ book[i].week = v]
  BY DEF ClaimBook
<1>3. ASSUME NEW i \in DOMAIN book PROVE ClaimBook(v)[i] \in Adjustment
  <2>1. book[i].claimed \in BOOLEAN /\ (book[i].claimed \/ book[i].week = v) \in BOOLEAN
    BY <1>1 DEF Adjustment
  <2>. QED
    BY <1>1, <1>2, <2>1 DEF Adjustment
<1>4. \A i \in DOMAIN book :
        DOMAIN book[i] = {"reason", "root", "of", "week", "amount", "claimed"}
  BY <1>1 DEF Adjustment
<1>. QED
  BY <1>1, <1>2, <1>3, <1>4 DEF ClaimBook

LEMMA EarningsClaimed ==
  ASSUME TypeOK, NEW v
  PROVE /\ ClaimEarnings(v) \in [Earnings -> Earning]
        /\ \A e \in Earnings :
             /\ ClaimEarnings(v)[e].week = earned[e].week
             /\ ClaimEarnings(v)[e].amount = earned[e].amount
             /\ ClaimEarnings(v)[e].claimed <=>
                  earned[e].claimed \/ (earned[e].week = v /\ Unhandled(e))
<1>1. ASSUME NEW e \in Earnings
      PROVE ClaimEarnings(v)[e] = [week |-> earned[e].week, amount |-> earned[e].amount,
              claimed |-> earned[e].claimed \/ (earned[e].week = v /\ Unhandled(e))]
  BY DEF ClaimEarnings, TypeOK, Earning
<1>2. ASSUME NEW e \in Earnings
      PROVE (earned[e].claimed \/ (earned[e].week = v /\ Unhandled(e))) \in BOOLEAN
  OBVIOUS
<1>3. \A e \in Earnings : ClaimEarnings(v)[e] \in Earning
  <2>1. ASSUME NEW e \in Earnings, NEW b \in BOOLEAN
        PROVE [week |-> earned[e].week, amount |-> earned[e].amount, claimed |-> b] \in Earning
    BY DEF TypeOK, Earning
  <2>. QED
    BY <1>1, <1>2, <2>1
<1>. QED
  BY <1>1, <1>3 DEF ClaimEarnings

\* A cycle claims amounts of its own week only.
LEMMA ClaimsKeepItems ==
  ASSUME TypeOK, NEW v \in Weeks, NEW w \in Weeks, w # v
  PROVE /\ EarningItems(ClaimEarnings(v), w) = EarningItems(earned, w)
        /\ AdjustmentItems(ClaimBook(v), w) = AdjustmentItems(book, w)
        /\ CarryItem(ClaimCarry(v), w) = CarryItem(carry, w)
<1> DEFINE ce == ClaimEarnings(v)
           cb == ClaimBook(v)
<1>1. \A e \in Earnings : /\ ce[e].week = earned[e].week /\ ce[e].amount = earned[e].amount
                          /\ earned[e].week = w => (ce[e].claimed <=> earned[e].claimed)
  BY DEF ClaimEarnings, TypeOK, Earning
<1>2. DOMAIN cb = DOMAIN book /\ DOMAIN book = 1..Len(book)
  BY DEF ClaimBook, TypeOK
<1>3. \A i \in DOMAIN book : /\ cb[i].week = book[i].week /\ cb[i].amount = book[i].amount
                             /\ book[i].week = w => (cb[i].claimed <=> book[i].claimed)
  BY EntriesClaimed
<1> HIDE DEF ce, cb
<1>4. {e \in Earnings : ce[e].claimed /\ ce[e].week = w}
        = {e \in Earnings : earned[e].claimed /\ earned[e].week = w}
  BY <1>1
<1>5. EarningItems(ce, w) = EarningItems(earned, w)
  BY <1>1, <1>4 DEF EarningItems
<1>6. {i \in DOMAIN cb : cb[i].claimed /\ cb[i].week = w}
        = {i \in DOMAIN book : book[i].claimed /\ book[i].week = w}
  BY <1>2, <1>3
<1>7. AdjustmentItems(cb, w) = AdjustmentItems(book, w)
  BY <1>3, <1>6 DEF AdjustmentItems
<1>8. CarryItem(ClaimCarry(v), w) = CarryItem(carry, w)
  BY DEF CarryItem, ClaimCarry, TypeOK
<1>. QED
  BY <1>5, <1>7, <1>8 DEF ce, cb

(***************************************************************************)
(* Each command keeps the invariant                                        *)
(***************************************************************************)
\* While no cycle and no item changes, locks and residuals are as they were.
LEMMA QuietKeepsLocks ==
  ASSUME Inv, UNCHANGED <<cycle, carry>>,
         \A w \in Weeks : SameItems(earned', book', carry', w)
  PROVE LockFollowsItsAttempt' /\ CarryIsResidual'
<1>1. \A w \in Weeks : Payable(earned', book', carry', w) = Payable(earned, book, carry, w)
  BY SamePayable
<1>2. LockFollowsItsAttempt'
  BY <1>1 DEF Inv, LockFollowsItsAttempt
<1>3. \A w \in Weeks : w > 1 => w - 1 \in Weeks
  BY WeeksAreCounted DEF Weeks
<1>4. CarryIsResidual'
  BY <1>1, <1>3 DEF Inv, CarryIsResidual
<1>. QED
  BY <1>2, <1>4

LEMMA WeekEndsKeepsInv == ASSUME Inv, WeekEnds PROVE Inv'
<1>1. TypeOK'
  BY WeeksAreCounted DEF Inv, WeekEnds, TypeOK, Weeks
<1>2. Shaped' /\ EveryAmountHasItsPlace' /\ LockFollowsItsAttempt' /\ CarryIsResidual'
  BY DEF Inv, WeekEnds, Shaped, EveryAmountHasItsPlace, LockFollowsItsAttempt,
         CarryIsResidual, Carried, Unhandled, Frozen, Stranded
<1>. QED
  BY <1>1, <1>2 DEF Inv

LEMMA ArrivalKeepsInv ==
  ASSUME Inv, NEW e \in Earnings, NEW w \in 1..LastWeek, NEW amount \in Amounts,
         EarningArrives(e, w, amount)
  PROVE Inv'
<1>1. earned' = [earned EXCEPT ![e] = [week |-> w, amount |-> amount, claimed |-> FALSE]]
      /\ UNCHANGED <<today, book, cycle, carry>> /\ earned[e].week = 0
      /\ (amount > 0 => ~Stranded(w))
  BY DEF EarningArrives
<1>2. amount \in Nat /\ w \in 0..LastWeek
  BY EarningsAreNotNegative, WeeksAreCounted
<1>3. TypeOK'
  BY <1>1, <1>2 DEF Inv, TypeOK, Earning
<1>4. /\ earned'[e] = [week |-> w, amount |-> amount, claimed |-> FALSE]
      /\ \A x \in Earnings : x # e => earned'[x] = earned[x]
  BY <1>1 DEF Inv, TypeOK
<1>5. \A i \in DOMAIN book : book[i].reason = "late" => book[i].root \in Earnings /\ book[i].root # e
  <2>1. ~(earned[e].amount > 0)
    BY <1>1, WeeksAreCounted DEF Inv, Shaped
  <2>2. \A i \in DOMAIN book : book[i] \in Adjustment
    BY DEF Inv, TypeOK
  <2>. QED
    BY <2>1, <2>2 DEF Inv, Shaped, Adjustment
<1>6. Shaped'
  BY <1>1, <1>4, <1>5 DEF Inv, Shaped
<1>7. EveryAmountHasItsPlace'
  BY <1>1, <1>4 DEF Inv, EveryAmountHasItsPlace, Carried, Unhandled, Frozen, Stranded
<1>8. LockFollowsItsAttempt' /\ CarryIsResidual'
  BY <1>1, ArrivalKeepsItems, QuietKeepsLocks DEF Inv
<1>. QED
  BY <1>3, <1>6, <1>7, <1>8 DEF Inv

\* An entry for an open week, and if for a late earning, the first one for it.
LEMMA EntryKeepsInv ==
  ASSUME Inv, NEW x \in Adjustment, ~x.claimed, ~Frozen(x.week),
         x.reason = "late" =>
           /\ x.root \in Earnings /\ Unhandled(x.root) /\ x.amount = earned[x.root].amount,
         book' = Append(book, x), UNCHANGED <<today, earned, cycle, carry>>
  PROVE Inv'
<1>1. TypeOK'
  BY DEF Inv, TypeOK
<1>2. /\ Len(book) \in Nat /\ DOMAIN book = 1..Len(book) /\ DOMAIN book' = 1..(Len(book) + 1)
      /\ \A i \in DOMAIN book : book'[i] = book[i]
      /\ book'[Len(book) + 1] = x
  BY DEF Inv, TypeOK
<1>3. Shaped'
  BY <1>2 DEF Inv, Shaped, Unhandled
<1>4. \A e \in Earnings : Carried(e)' <=> Carried(e) \/ (x.reason = "late" /\ x.root = e)
  BY <1>2 DEF Carried
<1>5. EveryAmountHasItsPlace'
  <2>1. \A e \in Earnings : earned'[e].claimed => ~Carried(e)'
    BY <1>4 DEF Inv, EveryAmountHasItsPlace, Unhandled
  <2>2. \A i, j \in DOMAIN book' :
          book'[i].reason = "late" /\ book'[j].reason = "late" /\ book'[i].root = book'[j].root
            => i = j
    BY <1>2 DEF Inv, EveryAmountHasItsPlace, Unhandled, Carried
  <2>3. \A i \in DOMAIN book' : ~book'[i].claimed => cycle'[book'[i].week].status = "open"
    BY <1>2 DEF Inv, EveryAmountHasItsPlace, Frozen
  <2>4. \A e \in Earnings : Unhandled(e)' => ~Stranded(earned[e].week)'
    BY <1>4 DEF Inv, EveryAmountHasItsPlace, Unhandled, Stranded, Frozen
  <2>. QED
    BY <2>1, <2>2, <2>3, <2>4 DEF EveryAmountHasItsPlace, Frozen
<1>6. LockFollowsItsAttempt' /\ CarryIsResidual'
  BY EntryKeepsItems, QuietKeepsLocks DEF Inv
<1>. QED
  BY <1>1, <1>3, <1>5, <1>6 DEF Inv

\* What a correction or a reversal may be about.
LEMMA SourcesAreTyped ==
  ASSUME TypeOK, NEW s \in Sources
  PROVE s.root \in Earnings /\ s.of \in Nat /\ s.amount \in Int
<1>1. CASE s \in EarningSources
  BY <1>1 DEF EarningSources, TypeOK, Earning
<1>2. CASE s \in AdjustmentSources
  <2>1. PICK i \in Regular(book) :
          s = [root |-> book[i].root, of |-> i, week |-> book[i].week, amount |-> book[i].amount]
    BY <1>2 DEF AdjustmentSources
  <2>2. i \in DOMAIN book /\ book[i] \in Adjustment /\ i \in Nat
    BY DEF Regular, TypeOK
  <2>. QED
    BY <2>1, <2>2 DEF Adjustment
<1>. QED
  BY <1>1, <1>2 DEF Sources

LEMMA EnterKeepsInv ==
  ASSUME Inv, NEW s \in Sources, NEW w \in Weeks, NEW amount \in Int,
         NEW reason \in {"correction", "reversal"}, Enter(reason, s, w, amount)
  PROVE Inv'
<1>1. Entry(reason, s, w, amount) \in Adjustment
  BY SourcesAreTyped DEF Inv, Entry, Adjustment
<1>2. /\ ~Entry(reason, s, w, amount).claimed /\ Entry(reason, s, w, amount).week = w
      /\ Entry(reason, s, w, amount).reason # "late"
  BY DEF Entry
<1>3. ~Frozen(w) /\ book' = Append(book, Entry(reason, s, w, amount))
      /\ UNCHANGED <<today, earned, cycle, carry>>
  BY DEF Enter, AvailableWeek
<1>. QED
  BY <1>1, <1>2, <1>3, EntryKeepsInv

LEMMA CarryLateKeepsInv ==
  ASSUME Inv, NEW e \in Earnings, CarryLateEarning(e) PROVE Inv'
<1> DEFINE x == [reason |-> "late", root |-> e, of |-> 0, week |-> earned[e].week + 1,
                 amount |-> earned[e].amount, claimed |-> FALSE]
<1>1. x \in Adjustment
  BY WeeksAreCounted DEF Inv, TypeOK, Earning, Adjustment, Weeks
<1>2. Unhandled(e) /\ ~Frozen(earned[e].week + 1) /\ book' = Append(book, x)
      /\ UNCHANGED <<today, earned, cycle, carry>>
  BY DEF CarryLateEarning
<1>3. ~x.claimed /\ x.week = earned[e].week + 1 /\ x.root = e /\ x.amount = earned[e].amount
  OBVIOUS
<1>. HIDE DEF x
<1>. QED
  BY <1>1, <1>2, <1>3, EntryKeepsInv

LEMMA BookEntryKeepsInv == ASSUME Inv, BookEntry PROVE Inv'
<1>1. ASSUME NEW s \in Sources, NEW w \in Weeks, NEW amount \in Corrections,
             RecordCorrection(s, w, amount)
      PROVE Inv'
  BY <1>1, CorrectionsAreSigned, EnterKeepsInv DEF RecordCorrection
<1>2. ASSUME NEW s \in Sources, NEW w \in Weeks, ReverseSource(s, w) PROVE Inv'
  <2>1. s.amount \in Int /\ Enter("reversal", s, w, -s.amount)
    BY <1>2, SourcesAreTyped DEF ReverseSource, Inv
  <2>. QED
    BY <2>1, EnterKeepsInv
<1>. QED
  BY <1>1, <1>2, CarryLateKeepsInv DEF BookEntry

\* A week that claims what is its own leaves no amount without a place.
LEMMA ClaimsKeepPlaces ==
  ASSUME Inv, NEW w \in Weeks, Processable(w),
         earned' = ClaimEarnings(w), book' = ClaimBook(w),
         \A v \in Weeks : v # w => cycle'[v] = cycle[v]
  PROVE EveryAmountHasItsPlace'
<1>1. \A e \in Earnings : Carried(e)' <=> Carried(e)
  BY EntriesClaimed DEF Inv, Carried
<1>2. \A e \in Earnings : /\ earned'[e].week = earned[e].week
                          /\ earned'[e].amount = earned[e].amount
                          /\ earned'[e].claimed <=>
                               earned[e].claimed \/ (earned[e].week = w /\ Unhandled(e))
  BY EarningsClaimed DEF Inv
<1>3. \A e \in Earnings : earned'[e].claimed => ~Carried(e)'
  BY <1>1, <1>2 DEF Inv, EveryAmountHasItsPlace, Unhandled
<1>4. \A i, j \in DOMAIN book' :
        book'[i].reason = "late" /\ book'[j].reason = "late" /\ book'[i].root = book'[j].root
          => i = j
  BY EntriesClaimed DEF Inv, EveryAmountHasItsPlace
<1>5. \A i \in DOMAIN book' : ~book'[i].claimed => cycle'[book'[i].week].status = "open"
  <2>1. ASSUME NEW i \in DOMAIN book, ~book'[i].claimed
        PROVE cycle'[book'[i].week].status = "open"
    <3>1. ~book[i].claimed /\ book[i].week # w /\ book'[i].week = book[i].week
            /\ book[i].week \in Weeks
      BY <2>1, EntriesClaimed DEF Inv, Adjustment
    <3>. QED
      BY <3>1 DEF Inv, EveryAmountHasItsPlace, Frozen
  <2>. QED
    BY <2>1, EntriesClaimed DEF Inv
<1>6. ASSUME NEW e \in Earnings, Unhandled(e)' PROVE ~Stranded(earned[e].week)'
  <2>1. Unhandled(e) /\ earned[e].week # w
    BY <1>1, <1>2, <1>6 DEF Unhandled
  <2>2. earned[e].week \in 1..LastWeek
    BY <2>1 DEF Unhandled, Inv, Shaped
  <2>3. earned[e].week \in Weeks /\ earned[e].week + 1 \in Weeks
    BY <2>2, WeeksAreCounted DEF Weeks
  <2>4. ~Stranded(earned[e].week)
    BY <2>1 DEF Inv, EveryAmountHasItsPlace
  <2>5. CASE earned[e].week + 1 = w
    <3>1. w - 1 = earned[e].week /\ w > 1
      BY <2>2, <2>5, WeeksAreCounted DEF Weeks
    <3>2. ~Frozen(earned[e].week)
      BY <2>1, <3>1 DEF Processable, LateHandled
    <3>. QED
      BY <1>2, <2>1, <2>3, <3>2 DEF Stranded, Frozen
  <2>6. CASE earned[e].week + 1 # w
    BY <1>2, <2>1, <2>3, <2>4, <2>6 DEF Stranded, Frozen
  <2>. QED
    BY <2>5, <2>6
<1>7. \A e \in Earnings : Unhandled(e)' => ~Stranded(earned[e].week)'
  BY <1>6
<1>. QED
  BY <1>3, <1>4, <1>5, <1>7 DEF EveryAmountHasItsPlace, Frozen

\* The rows of a claiming week keep their shape.
LEMMA ClaimsKeepShape ==
  ASSUME Inv, NEW w \in Weeks, earned' = ClaimEarnings(w), book' = ClaimBook(w)
  PROVE /\ earned' \in [Earnings -> Earning] /\ book' \in Seq(Adjustment)
        /\ \A e \in Earnings :
             /\ earned'[e].amount > 0 => earned'[e].week \in 1..LastWeek
             /\ earned'[e].claimed => earned'[e].amount > 0
        /\ \A i \in DOMAIN book' : book'[i].reason = "late" =>
             book'[i].amount = earned'[book'[i].root].amount /\ book'[i].amount > 0
<1>1. /\ earned' \in [Earnings -> Earning]
      /\ \A e \in Earnings : /\ earned'[e].week = earned[e].week
                             /\ earned'[e].amount = earned[e].amount
                             /\ earned'[e].claimed => earned[e].claimed \/ earned[e].amount > 0
  BY EarningsClaimed DEF Inv, Unhandled
<1>2. book' \in Seq(Adjustment)
  <2>1. DOMAIN book = 1..Len(book) /\ Len(book) \in Nat
    BY DEF Inv, TypeOK
  <2>2. book' = [i \in 1..Len(book) |-> ClaimBook(w)[i]]
    BY <2>1 DEF ClaimBook
  <2>3. \A i \in 1..Len(book) : ClaimBook(w)[i] \in Adjustment
    BY <2>1, EntriesClaimed DEF Inv
  <2>4. book' \in [1..Len(book) -> Adjustment]
    BY <2>2, <2>3
  <2>. QED
    BY <2>1, <2>4, SeqDef
<1>3. \A i \in DOMAIN book : book[i].root \in Earnings
  BY EntriesClaimed DEF Inv, Adjustment
<1>4. \A i \in DOMAIN book' : book'[i].reason = "late" =>
             book'[i].amount = earned'[book'[i].root].amount /\ book'[i].amount > 0
  BY <1>1, <1>3, EntriesClaimed DEF Inv, Shaped
<1>. QED
  BY <1>1, <1>2, <1>4 DEF Inv, Shaped

\* What a claimed carry looks like.
LEMMA CarryClaimed ==
  ASSUME Inv, NEW w \in Weeks
  PROVE /\ ClaimCarry(w) \in [Weeks -> Carry]
        /\ \A v \in Weeks : v # w => ClaimCarry(w)[v] = carry[v]
        /\ ClaimCarry(w)[w].amount = carry[w].amount
        /\ ClaimCarry(w)[w].claimed => carry[w].amount > 0
<1>1. ClaimCarry(w)[w] = [amount |-> carry[w].amount,
                          claimed |-> carry[w].claimed \/ carry[w].amount > 0]
  BY DEF ClaimCarry, Inv, TypeOK
<1>2. carry[w] \in Carry
  BY DEF Inv, TypeOK
<1>3. ClaimCarry(w)[w] \in Carry
  BY <1>1, <1>2 DEF Carry
<1>. QED
  BY <1>1, <1>3 DEF ClaimCarry, Inv, TypeOK, CarryIsResidual

\* The residual is written to the week after, which nothing was carried into.
LEMMA ResidualWritten ==
  ASSUME Inv, NEW w \in Weeks, w <= LastWeek, ~Frozen(w), PayableNow(w) <= 0
  PROVE /\ Residual(w) \in [Weeks -> Carry]
        /\ \A v \in Weeks : v # w /\ v # w + 1 => Residual(w)[v] = carry[v]
        /\ Residual(w)[w] = ClaimCarry(w)[w]
        /\ Residual(w)[w + 1].amount = -PayableNow(w) /\ ~Residual(w)[w + 1].claimed
        /\ ~carry[w + 1].claimed /\ w + 1 \in Weeks
<1>1. w + 1 \in Weeks /\ w \in Nat /\ w + 1 # w /\ w + 1 > 1 /\ (w + 1) - 1 = w /\ w + 1 # 1
  BY WeeksAreCounted DEF Weeks
<1>2. carry[w + 1].amount = 0
  <2>1. cycle[w].status # "settled"
    BY DEF Frozen
  <2>. QED
    BY <1>1, <2>1 DEF Inv, CarryIsResidual
<1>3. ~carry[w + 1].claimed
  BY <1>1, <1>2 DEF Inv, CarryIsResidual
<1>4. PayableNow(w) \in Int
  <2>1. ClaimBook(w) \in Seq(Adjustment)
    <3>1. DOMAIN book = 1..Len(book) /\ Len(book) \in Nat
      BY DEF Inv, TypeOK
    <3>2. ClaimBook(w) = [i \in 1..Len(book) |-> ClaimBook(w)[i]]
      BY <3>1 DEF ClaimBook
    <3>3. \A i \in 1..Len(book) : ClaimBook(w)[i] \in Adjustment
      BY <3>1, EntriesClaimed DEF Inv
    <3>4. ClaimBook(w) \in [1..Len(book) -> Adjustment]
      BY <3>2, <3>3
    <3>. QED
      BY <3>1, <3>4, SeqDef
  <2>. QED
    BY <2>1, EarningsClaimed, CarryClaimed, PayableType DEF Inv, PayableNow
<1>5. CASE PayableNow(w) < 0
  <2>1. Residual(w) = [ClaimCarry(w) EXCEPT ![w + 1] = [amount |-> -PayableNow(w), claimed |-> FALSE]]
    BY <1>5 DEF Residual
  <2>2. [amount |-> -PayableNow(w), claimed |-> FALSE] \in Carry
    BY <1>4, <1>5 DEF Carry
  <2>. QED
    BY <1>1, <1>3, <2>1, <2>2, CarryClaimed
<1>6. CASE ~(PayableNow(w) < 0)
  <2>1. Residual(w) = ClaimCarry(w) /\ PayableNow(w) = 0
    BY <1>4, <1>6 DEF Residual
  <2>. QED
    BY <1>1, <1>2, <1>3, <2>1, CarryClaimed
<1>. QED
  BY <1>5, <1>6

\* What a week claims comes to an integer, and comes to it after the claim.
LEMMA PayableNowType == ASSUME Inv, NEW w \in Weeks PROVE PayableNow(w) \in Int
<1>1. ClaimBook(w) \in Seq(Adjustment)
  <2>1. DOMAIN book = 1..Len(book) /\ Len(book) \in Nat
    BY DEF Inv, TypeOK
  <2>2. ClaimBook(w) = [i \in 1..Len(book) |-> ClaimBook(w)[i]]
    BY <2>1 DEF ClaimBook
  <2>3. \A i \in 1..Len(book) : ClaimBook(w)[i] \in Adjustment
    BY <2>1, EntriesClaimed DEF Inv
  <2>4. ClaimBook(w) \in [1..Len(book) -> Adjustment]
    BY <2>2, <2>3
  <2>. QED
    BY <2>1, <2>4, SeqDef
<1>. QED
  BY <1>1, EarningsClaimed, CarryClaimed, PayableType DEF Inv, PayableNow

\* The items of the other weeks stay; those of its own are the ones it counted.
LEMMA ClaimKeepsPayables ==
  ASSUME Inv, NEW w \in Weeks,
         earned' = ClaimEarnings(w), book' = ClaimBook(w),
         \A v \in Weeks : v # w => CarryItem(carry', v) = CarryItem(carry, v),
         carry'[w] = ClaimCarry(w)[w]
  PROVE /\ \A v \in Weeks : v # w => SameItems(earned', book', carry', v)
        /\ \A v \in Weeks : v # w =>
             Payable(earned', book', carry', v) = Payable(earned, book, carry, v)
        /\ Payable(earned', book', carry', w) = PayableNow(w)
<1>1. \A v \in Weeks : v # w => SameItems(earned', book', carry', v)
  BY ClaimsKeepItems DEF Inv, SameItems
<1>2. \A v \in Weeks : v # w =>
        Payable(earned', book', carry', v) = Payable(earned, book, carry, v)
  BY <1>1, SamePayable
<1>3. Payable(earned', book', carry', w) = PayableNow(w)
  BY DEF PayableNow, Payable, CarryItem
<1>. QED
  BY <1>1, <1>2, <1>3

LEMMA StartKeepsInv == ASSUME Inv, NEW w \in Weeks, StartPayment(w) PROVE Inv'
<1> DEFINE p == PayableNow(w)
           c == cycle[w]
           d == [status |-> "paying", locked |-> p, tries |-> c.tries + 1, attempts |-> NextAttempt(w, p)]
<1>1. /\ Processable(w) /\ p > 0 /\ p \in Int /\ c.status = "open"
      /\ earned' = ClaimEarnings(w) /\ book' = ClaimBook(w) /\ carry' = ClaimCarry(w)
      /\ cycle' = [cycle EXCEPT ![w] = d] /\ today' = today
  BY PayableNowType DEF StartPayment, Processable, Frozen
<1>2. c \in Cycle /\ Len(c.attempts) = c.tries /\ c.tries \in Nat /\ c.attempts \in Seq(Attempt)
      /\ c.attempts \in [1..c.tries -> Attempt]
  BY DEF Inv, TypeOK, Shaped, Cycle
<1>3. /\ NextAttempt(w, p) \in [1..(c.tries + 1) -> Attempt]
      /\ \A i \in 1..c.tries : NextAttempt(w, p)[i] = c.attempts[i]
      /\ NextAttempt(w, p)[c.tries + 1] = [amount |-> p, result |-> "started"]
  <2>1. [amount |-> p, result |-> "started"] \in Attempt
    BY <1>1 DEF Attempt
  <2>. HIDE DEF p
  <2>. QED
    BY <1>2, <2>1 DEF NextAttempt
<1>4. NextAttempt(w, p) \in Seq(Attempt) /\ Len(NextAttempt(w, p)) = c.tries + 1
  <2>. HIDE DEF p, c
  <2>1. c.tries + 1 \in Nat
    BY <1>2
  <2>2. NextAttempt(w, p) \in Seq(Attempt)
    BY <1>3, <2>1, SeqDef
  <2>. QED
    BY <1>3, <2>1, <2>2, LenProperties
<1>5. d \in Cycle
  BY <1>1, <1>2, <1>4 DEF Cycle
<1> HIDE DEF p
<1>6. cycle'[w] = d /\ \A v \in Weeks : v # w => cycle'[v] = cycle[v]
  BY <1>1 DEF Inv, TypeOK
<1> HIDE DEF c
<1>7. TypeOK'
  BY <1>1, <1>5, CarryClaimed, ClaimsKeepShape DEF Inv, TypeOK
<1>8. Shaped'
  <2>1. \A v \in Weeks : Len(cycle'[v].attempts) = cycle'[v].tries
                           /\ (cycle'[v].status = "settled" => v <= LastWeek)
    BY <1>4, <1>6 DEF Inv, Shaped
  <2>. QED
    BY <1>1, <2>1, ClaimsKeepShape DEF Shaped
<1>9. EveryAmountHasItsPlace'
  BY <1>1, <1>6, ClaimsKeepPlaces
<1>10. /\ \A v \in Weeks : v # w =>
            Payable(earned', book', carry', v) = Payable(earned, book, carry, v)
       /\ Payable(earned', book', carry', w) = p
  BY <1>1, CarryClaimed, ClaimKeepsPayables DEF p, CarryItem
<1>11. LockOf(d, p)
  <2>1. \A i \in 1..c.tries : c.attempts[i].result = "reopened"
    <3>1. LockOf(c, Payable(earned, book, carry, w))
      BY LockByWeek DEF Inv, c
    <3>. QED
      BY <1>1, <1>2, <3>1 DEF LockOf
  <2>2. \A i \in 1..((c.tries + 1) - 1) : i \in 1..c.tries
    BY <1>2
  <2>. QED
    BY <1>1, <1>2, <1>3, <2>1, <2>2 DEF LockOf
<1>12. LockFollowsItsAttempt'
  <2>1. \A v \in Weeks : LockOf(cycle'[v], Payable(earned', book', carry', v))
    BY <1>6, <1>10, <1>11, LockByWeek DEF Inv
  <2>. QED
    BY <2>1 DEF LockFollowsItsAttempt, LockOf
<1>13. CarryIsResidual'
  <2>1. \A v \in Weeks : carry'[v].amount = carry[v].amount
                           /\ (carry'[v].claimed => carry[v].amount > 0)
    BY <1>1, CarryClaimed DEF Inv, CarryIsResidual
  <2>2. \A v \in Weeks : v > 1 => v - 1 \in Weeks
    BY WeeksAreCounted DEF Weeks
  <2>3. \A v \in Weeks : (cycle'[v].status = "settled" <=> cycle[v].status = "settled")
                           /\ (cycle[v].status = "settled" => v # w)
    BY <1>1, <1>6 DEF c
  <2>. QED
    BY <1>10, <2>1, <2>2, <2>3 DEF Inv, CarryIsResidual, Weeks
<1>. QED
  BY <1>7, <1>8, <1>9, <1>12, <1>13 DEF Inv

LEMMA CarryForwardKeepsInv == ASSUME Inv, NEW w \in Weeks, CarryForward(w) PROVE Inv'
<1> DEFINE p == PayableNow(w)
           c == cycle[w]
           d == [status |-> "settled", locked |-> 0, tries |-> c.tries, attempts |-> c.attempts]
<1>1. /\ Processable(w) /\ p <= 0 /\ p \in Int /\ c.status = "open" /\ ~Frozen(w)
      /\ earned' = ClaimEarnings(w) /\ book' = ClaimBook(w) /\ carry' = Residual(w)
      /\ cycle' = [cycle EXCEPT ![w] = d] /\ today' = today
  BY PayableNowType DEF CarryForward, Processable, Frozen
<1>2. w <= LastWeek
  BY <1>1, WeeksAreCounted DEF Processable, Inv, TypeOK, Weeks
<1>3. c \in Cycle /\ d \in Cycle
  BY DEF Inv, TypeOK, Cycle
<1> HIDE DEF p
<1>4. cycle'[w] = d /\ \A v \in Weeks : v # w => cycle'[v] = cycle[v]
  BY <1>1 DEF Inv, TypeOK
<1>5. /\ carry' \in [Weeks -> Carry]
      /\ \A v \in Weeks : v # w /\ v # w + 1 => carry'[v] = carry[v]
      /\ carry'[w] = ClaimCarry(w)[w]
      /\ carry'[w + 1].amount = -p /\ ~carry'[w + 1].claimed
      /\ ~carry[w + 1].claimed /\ w + 1 \in Weeks
  BY <1>1, <1>2, ResidualWritten DEF p
<1> HIDE DEF c
<1>6. TypeOK'
  BY <1>1, <1>3, <1>5, ClaimsKeepShape DEF Inv, TypeOK
<1>7. Shaped'
  <2>1. \A v \in Weeks : Len(cycle'[v].attempts) = cycle'[v].tries
                           /\ (cycle'[v].status = "settled" => v <= LastWeek)
    BY <1>2, <1>4 DEF Inv, Shaped, c
  <2>. QED
    BY <1>1, <2>1, ClaimsKeepShape DEF Shaped
<1>8. EveryAmountHasItsPlace'
  BY <1>1, <1>4, ClaimsKeepPlaces
<1>9. \A v \in Weeks : v # w => CarryItem(carry', v) = CarryItem(carry, v)
  BY <1>5 DEF CarryItem
<1>10. /\ \A v \in Weeks : v # w =>
            Payable(earned', book', carry', v) = Payable(earned, book, carry, v)
       /\ Payable(earned', book', carry', w) = p
  BY <1>1, <1>5, <1>9, ClaimKeepsPayables DEF p
<1>11. LockFollowsItsAttempt'
  <2>1. LockOf(c, Payable(earned, book, carry, w))
    BY LockByWeek DEF Inv, c
  <2>2. LockOf(d, p)
    BY <1>1, <2>1 DEF LockOf
  <2>3. \A v \in Weeks : LockOf(cycle'[v], Payable(earned', book', carry', v))
    BY <1>4, <1>10, <2>2, LockByWeek DEF Inv
  <2>. QED
    BY <2>3 DEF LockFollowsItsAttempt, LockOf
<1>12. CarryIsResidual'
  <2>1. ASSUME NEW v \in Weeks, v # w + 1
        PROVE /\ carry'[v].claimed => carry'[v].amount > 0
              /\ v > 1 /\ cycle'[v - 1].status = "settled" =>
                   carry'[v].amount = -Payable(earned', book', carry', v - 1)
              /\ v = 1 \/ cycle'[v - 1].status # "settled" => carry'[v].amount = 0
    <3>1. carry'[v].amount = carry[v].amount /\ (carry'[v].claimed => carry[v].amount > 0)
      BY <1>5, <2>1, CarryClaimed DEF Inv, CarryIsResidual
    <3>2. v > 1 => v - 1 \in Weeks /\ v - 1 # w
      BY <2>1, WeeksAreCounted DEF Weeks
    <3>3. v = 1 \/ v > 1
      BY DEF Weeks
    <3>. QED
      BY <1>4, <1>10, <3>1, <3>2, <3>3 DEF Inv, CarryIsResidual
  <2>2. (w + 1) - 1 = w /\ w + 1 # 1
    BY WeeksAreCounted DEF Weeks
  <2>3. cycle'[(w + 1) - 1].status = "settled"
          /\ carry'[w + 1].amount = -Payable(earned', book', carry', (w + 1) - 1)
    BY <1>4, <1>5, <1>10, <2>2
  <2>. QED
    BY <1>5, <2>1, <2>2, <2>3 DEF CarryIsResidual
<1>. QED
  BY <1>6, <1>7, <1>8, <1>11, <1>12 DEF Inv

\* A result changes the state of its week and the newest attempt, nothing else.
LEMMA ConcludeKeepsInv ==
  ASSUME Inv, NEW w \in Weeks, NEW i \in 1..cycle[w].tries, NEW status, NEW locked, NEW result,
         Conclude(w, i, status, locked, result), Uncertain(w),
         \/ status = "check" /\ result = "check" /\ locked = cycle[w].locked
         \/ status = "paid" /\ result = "paid" /\ locked = cycle[w].locked
         \/ status = "open" /\ result = "reopened" /\ locked = 0
  PROVE Inv'
<1> DEFINE c == cycle[w]
           a == [c.attempts EXCEPT ![i] = [amount |-> c.attempts[i].amount, result |-> result]]
           d == [status |-> status, locked |-> locked, tries |-> c.tries, attempts |-> a]
           p == Payable(earned, book, carry, w)
<1>1. /\ i = c.tries /\ cycle' = [cycle EXCEPT ![w] = d]
      /\ UNCHANGED <<today, earned, book, carry>>
  BY DEF Conclude, Concluded, Current
<1>2. c \in Cycle /\ Len(c.attempts) = c.tries /\ c.tries \in Nat /\ c.attempts \in Seq(Attempt)
      /\ c.attempts \in [1..c.tries -> Attempt]
  BY DEF Inv, TypeOK, Shaped, Cycle
<1>3. [amount |-> c.attempts[i].amount, result |-> result] \in Attempt
  BY <1>2 DEF Attempt
<1>4. a \in [1..c.tries -> Attempt] /\ a \in Seq(Attempt) /\ Len(a) = c.tries
  BY <1>2, <1>3
<1>5. /\ \A j \in 1..c.tries : j # i => a[j] = c.attempts[j]
      /\ a[i] = [amount |-> c.attempts[i].amount, result |-> result]
  BY <1>2
<1> HIDE DEF a
<1>6. d \in Cycle
  BY <1>2, <1>4 DEF Cycle
<1>7. cycle'[w] = d /\ \A v \in Weeks : v # w => cycle'[v] = cycle[v]
  BY <1>1 DEF Inv, TypeOK
<1>8. LockOf(c, p)
  BY LockByWeek DEF Inv
<1> HIDE DEF c, p
<1>9. TypeOK'
  BY <1>1, <1>6 DEF Inv, TypeOK
<1>10. Shaped'
  BY <1>1, <1>4, <1>7 DEF Inv, Shaped
<1>11. EveryAmountHasItsPlace'
  <2>1. \A v \in Weeks : cycle'[v].status # "open" => cycle[v].status # "open"
    BY <1>7 DEF Uncertain, c
  <2>2. \A e \in Earnings : Carried(e)' <=> Carried(e)
    BY <1>1 DEF Carried
  <2>3. \A j \in DOMAIN book : book[j].week \in Weeks
    <3>1. \A j \in DOMAIN book : book[j] \in Adjustment
      BY DEF Inv, TypeOK
    <3>. QED
      BY <3>1 DEF Adjustment
  <2>4. \A e \in Earnings : earned[e].amount > 0 =>
          earned[e].week \in Weeks /\ earned[e].week + 1 \in Weeks
    BY WeeksAreCounted DEF Inv, Shaped, Weeks
  <2>. QED
    BY <1>1, <2>1, <2>2, <2>3, <2>4
    DEF Inv, EveryAmountHasItsPlace, Unhandled, Stranded, Frozen
<1>12. LockOf(d, p)
  <2>1. c.attempts[i] = [amount |-> p, result |-> IF c.status = "paying" THEN "started" ELSE c.status]
          /\ c.locked = p /\ c.locked > 0 /\ c.tries > 0
    BY <1>1, <1>8 DEF LockOf, Uncertain, c
  <2>2. a[i] = [amount |-> p, result |-> result]
    BY <1>5, <2>1
  <2>3. \A j \in 1..(c.tries - 1) : a[j].result = "reopened"
    BY <1>1, <1>2, <1>5, <1>8 DEF LockOf
  <2>. QED
    BY <1>1, <2>1, <2>2, <2>3 DEF LockOf, c
<1>13. LockFollowsItsAttempt'
  <2>1. \A v \in Weeks : LockOf(cycle'[v], Payable(earned', book', carry', v))
    BY <1>1, <1>7, <1>12, LockByWeek DEF Inv, p
  <2>. QED
    BY <2>1 DEF LockFollowsItsAttempt, LockOf
<1>14. CarryIsResidual'
  <2>1. \A v \in Weeks : v > 1 => v - 1 \in Weeks
    BY WeeksAreCounted DEF Weeks
  <2>2. \A v \in Weeks : cycle'[v].status = "settled" <=> cycle[v].status = "settled"
    BY <1>7 DEF Uncertain, c
  <2>. QED
    BY <1>1, <2>1, <2>2 DEF Inv, CarryIsResidual, Weeks
<1>. QED
  BY <1>9, <1>10, <1>11, <1>13, <1>14 DEF Inv

LEMMA TransferKeepsInv == ASSUME Inv, NEW w \in Weeks, Transfer(w) PROVE Inv'
<1>1. PICK i \in 1..cycle[w].tries : RecordCheck(w, i) \/ RecordPaid(w, i) \/ ReopenAttempt(w, i)
  BY DEF Transfer
<1>2. CASE RecordCheck(w, i)
  BY <1>2, ConcludeKeepsInv DEF RecordCheck, Uncertain
<1>3. CASE RecordPaid(w, i)
  BY <1>3, ConcludeKeepsInv DEF RecordPaid
<1>4. CASE ReopenAttempt(w, i)
  BY <1>4, ConcludeKeepsInv DEF ReopenAttempt
<1>. QED
  BY <1>1, <1>2, <1>3, <1>4

\* Nothing is earned, nothing is locked and nothing is carried at first.
LEMMA InitInv == ASSUME Init PROVE Inv
<1>1. TypeOK
  BY WeeksAreCounted DEF Init, TypeOK, Weeks, Earning, Cycle, Carry, NoCarry
<1>2. \A w \in Weeks : cycle[w] = [status |-> "open", locked |-> 0, tries |-> 0, attempts |-> <<>>]
                         /\ carry[w] = NoCarry
  BY DEF Init
<1>3. Shaped
  BY <1>2 DEF Init, Shaped
<1>4. EveryAmountHasItsPlace
  BY DEF Init, EveryAmountHasItsPlace, Unhandled
<1>5. LockFollowsItsAttempt
  BY <1>2 DEF LockFollowsItsAttempt
<1>6. \A w \in Weeks : w > 1 => w - 1 \in Weeks
  BY WeeksAreCounted DEF Weeks
<1>7. CarryIsResidual
  BY <1>2, <1>6 DEF CarryIsResidual, NoCarry
<1>. QED
  BY <1>1, <1>3, <1>4, <1>5, <1>7 DEF Inv

LEMMA NextKeepsInv == ASSUME Inv, [Next]_vars PROVE Inv'
<1>1. CASE UNCHANGED vars
  BY <1>1 DEF vars, Inv, TypeOK, Shaped, EveryAmountHasItsPlace, LockFollowsItsAttempt,
              CarryIsResidual, Carried, Unhandled, Frozen, Stranded
<1>2. CASE Next
  BY <1>2, WeekEndsKeepsInv, ArrivalKeepsInv, BookEntryKeepsInv, StartKeepsInv,
     CarryForwardKeepsInv, TransferKeepsInv DEF Next
<1>. QED
  BY <1>1, <1>2

THEOREM PayrollInvariant == Spec => []Inv
<1>1. Init => Inv
  BY InitInv
<1>2. Inv /\ [Next]_vars => Inv'
  BY NextKeepsInv
<1>. QED
  BY <1>1, <1>2, PTL DEF Spec

\* Rows keep their types; what is locked is an integer, what is carried is not
\* negative.
THEOREM PayrollTypes == Spec => []TypeOK
<1>1. Inv => TypeOK
  BY DEF Inv
<1>. QED
  BY <1>1, PayrollInvariant, PTL

\* An earning has one place, and what has none yet can still get one.
THEOREM AmountsHaveTheirPlace == Spec => []EveryAmountHasItsPlace
<1>1. Inv => EveryAmountHasItsPlace
  BY DEF Inv
<1>. QED
  BY <1>1, PayrollInvariant, PTL

\* The state and the lock of a week are those of its newest transfer.
THEOREM LocksFollowAttempts == Spec => []LockFollowsItsAttempt
<1>1. Inv => LockFollowsItsAttempt
  BY DEF Inv
<1>. QED
  BY <1>1, PayrollInvariant, PTL

(***************************************************************************)
(* Final weeks                                                             *)
(***************************************************************************)
LEMMA FinalStays ==
  ASSUME Inv, Next, NEW w \in Weeks, Final(w)
  PROVE cycle'[w] = cycle[w] /\ SameItems(earned', book', carry', w)
<1>1. CASE WeekEnds
  BY <1>1 DEF WeekEnds, SameItems
<1>2. ASSUME NEW e \in Earnings, NEW v \in 1..LastWeek, NEW amount \in Amounts,
             EarningArrives(e, v, amount)
      PROVE cycle'[w] = cycle[w] /\ SameItems(earned', book', carry', w)
  <2>1. cycle' = cycle
    BY <1>2 DEF EarningArrives
  <2>. QED
    BY <1>2, <2>1, ArrivalKeepsItems DEF Inv
<1>3. ASSUME NEW reason \in {"correction", "reversal"}, NEW s \in Sources, NEW v \in Weeks,
             NEW amount \in Int, Enter(reason, s, v, amount)
      PROVE cycle'[w] = cycle[w] /\ SameItems(earned', book', carry', w)
  <2>1. Entry(reason, s, v, amount) \in Adjustment /\ ~Entry(reason, s, v, amount).claimed
    BY SourcesAreTyped DEF Inv, Entry, Adjustment
  <2>2. book' = Append(book, Entry(reason, s, v, amount))
        /\ UNCHANGED <<today, earned, cycle, carry>>
    BY <1>3 DEF Enter
  <2>. QED
    BY <2>1, <2>2, EntryKeepsItems DEF Inv
<1>4. CASE BookEntry
  <2>1. ASSUME NEW s \in Sources, NEW v \in Weeks, NEW amount \in Corrections,
               RecordCorrection(s, v, amount)
        PROVE cycle'[w] = cycle[w] /\ SameItems(earned', book', carry', w)
    BY <1>3, <2>1, CorrectionsAreSigned DEF RecordCorrection
  <2>2. ASSUME NEW s \in Sources, NEW v \in Weeks, ReverseSource(s, v)
        PROVE cycle'[w] = cycle[w] /\ SameItems(earned', book', carry', w)
    <3>1. -s.amount \in Int /\ Enter("reversal", s, v, -s.amount)
      BY <2>2, SourcesAreTyped DEF ReverseSource, Inv
    <3>. QED
      BY <1>3, <3>1
  <2>3. ASSUME NEW e \in Earnings, CarryLateEarning(e)
        PROVE cycle'[w] = cycle[w] /\ SameItems(earned', book', carry', w)
    <3> DEFINE x == [reason |-> "late", root |-> e, of |-> 0, week |-> earned[e].week + 1,
                     amount |-> earned[e].amount, claimed |-> FALSE]
    <3>1. x \in Adjustment /\ ~x.claimed
      BY WeeksAreCounted DEF Inv, TypeOK, Earning, Adjustment, Weeks
    <3>2. book' = Append(book, x) /\ UNCHANGED <<today, earned, cycle, carry>>
      BY <2>3 DEF CarryLateEarning
    <3>. HIDE DEF x
    <3>. QED
      BY <3>1, <3>2, EntryKeepsItems DEF Inv
  <2>. QED
    BY <1>4, <2>1, <2>2, <2>3 DEF BookEntry
<1>5. ASSUME NEW v \in Weeks, StartPayment(v)
      PROVE cycle'[w] = cycle[w] /\ SameItems(earned', book', carry', w)
  <2>1. v # w
    BY <1>5 DEF StartPayment, Processable, Frozen, Final
  <2>2. cycle'[w] = cycle[w]
    BY <1>5, <2>1 DEF StartPayment, Inv, TypeOK
  <2>3. earned' = ClaimEarnings(v) /\ book' = ClaimBook(v) /\ carry' = ClaimCarry(v)
    BY <1>5 DEF StartPayment
  <2>. QED
    BY <2>1, <2>2, <2>3, ClaimsKeepItems DEF Inv, SameItems
<1>6. ASSUME NEW v \in Weeks, CarryForward(v)
      PROVE cycle'[w] = cycle[w] /\ SameItems(earned', book', carry', w)
  <2>1. v # w /\ ~Frozen(v) /\ v <= LastWeek /\ PayableNow(v) <= 0
    BY <1>6, WeeksAreCounted DEF CarryForward, Processable, Frozen, Final, Inv, TypeOK, Weeks
  <2>2. cycle'[w] = cycle[w]
    BY <1>6, <2>1 DEF CarryForward, Inv, TypeOK
  <2>3. earned' = ClaimEarnings(v) /\ book' = ClaimBook(v) /\ carry' = Residual(v)
    BY <1>6 DEF CarryForward
  <2>4. CarryItem(carry', w) = CarryItem(carry, w)
    BY <2>1, <2>3, ResidualWritten DEF CarryItem
  <2>. QED
    BY <2>1, <2>2, <2>3, <2>4, ClaimsKeepItems DEF Inv, SameItems
<1>7. ASSUME NEW v \in Weeks, Transfer(v)
      PROVE cycle'[w] = cycle[w] /\ SameItems(earned', book', carry', w)
  <2>1. PICK i \in 1..cycle[v].tries :
          \E status, locked, result : Uncertain(v) /\ Conclude(v, i, status, locked, result)
    BY <1>7 DEF Transfer, RecordCheck, RecordPaid, ReopenAttempt, Uncertain
  <2>2. v # w
    BY <2>1 DEF Uncertain, Final
  <2>. QED
    BY <2>1, <2>2 DEF Conclude, Inv, TypeOK, SameItems
<1>. QED
  BY <1>1, <1>2, <1>4, <1>5, <1>6, <1>7 DEF Next

\* A paid or settled week stays as it is, and so do its items.
THEOREM FinalWeeksStay == Spec => FinalIsFinal
<1>1. Inv /\ [Next]_vars =>
        [\A w \in Weeks : Final(w) =>
           /\ cycle'[w] = cycle[w]
           /\ EarningItems(earned', w) = EarningItems(earned, w)
           /\ AdjustmentItems(book', w) = AdjustmentItems(book, w)
           /\ CarryItem(carry', w) = CarryItem(carry, w)]_vars
  BY FinalStays DEF SameItems
<1>. QED
  BY <1>1, PayrollInvariant, PTL DEF Spec, FinalIsFinal

(***************************************************************************)
(* Conservation                                                            *)
(***************************************************************************)
\* The amounts of the earnings, the book and the carries, as functions.
Earned == [e \in Earnings |-> earned[e].amount]
Booked == [i \in DOMAIN book |-> book[i].amount]
Carries == [w \in Weeks |-> carry[w].amount]
Payables == [w \in Weeks |-> Payable(earned, book, carry, w)]

Late == (DOMAIN book) \ Regular(book)
ClaimedEarnings == {e \in Earnings : earned[e].claimed}
ClaimedEntries == {i \in DOMAIN book : book[i].claimed}

LEMMA AmountsAreFinite ==
  ASSUME Inv
  PROVE /\ IsFiniteSet(Earnings) /\ IsFiniteSet(DOMAIN book) /\ IsFiniteSet(Weeks)
        /\ \A e \in Earnings : Earned[e] \in Int /\ Earned[e] = earned[e].amount
        /\ \A i \in DOMAIN book : Booked[i] \in Int /\ Booked[i] = book[i].amount
        /\ \A w \in Weeks : Carries[w] \in Int /\ Carries[w] = carry[w].amount
        /\ \A w \in Weeks : Payables[w] \in Int /\ Payables[w] = Payable(earned, book, carry, w)
<1>1. IsFiniteSet(DOMAIN book) /\ IsFiniteSet(Weeks)
  BY WeeksAreCounted, FS_Interval DEF Inv, TypeOK, Weeks
<1>2. \A e \in Earnings : earned[e].amount \in Int
  BY DEF Inv, TypeOK, Earning
<1>3. \A i \in DOMAIN book : book[i].amount \in Int
  <2>1. \A i \in DOMAIN book : book[i] \in Adjustment
    BY DEF Inv, TypeOK
  <2>. QED
    BY <2>1 DEF Adjustment
<1>4. \A w \in Weeks : carry[w].amount \in Int
  BY DEF Inv, TypeOK, Carry
<1>5. \A w \in Weeks : Payable(earned, book, carry, w) \in Int
  BY PayableType DEF Inv, TypeOK
<1>. QED
  BY <1>1, <1>2, <1>3, <1>4, <1>5, EarningsAreFinite DEF Earned, Booked, Carries, Payables

\* What was earned, corrections included, by earnings and by entries.
LEMMA EntitlementsAreEarned ==
  ASSUME Inv
  PROVE SumFunction([e \in Earnings |-> Entitlement(e)])
          = Sum(Earned, Earnings) + Sum(Booked, Regular(book))
<1> DEFINE root == [i \in DOMAIN book |-> book[i].root]
           g == [e \in Earnings |-> Sum(Booked, {j \in Regular(book) : root[j] = e})]
           h == [e \in Earnings |-> Entitlement(e)]
<1>1. Regular(book) \subseteq DOMAIN book /\ IsFiniteSet(Regular(book))
  BY AmountsAreFinite, FS_Subset DEF Regular
<1>2. \A i \in Regular(book) : root[i] \in Earnings
  <2>1. \A i \in DOMAIN book : book[i] \in Adjustment
    BY DEF Inv, TypeOK
  <2>. QED
    BY <1>1, <2>1 DEF Adjustment
<1>3. ASSUME NEW e \in Earnings PROVE h[e] = Earned[e] + g[e] /\ g[e] \in Int
  <2> DEFINE S == {j \in Regular(book) : book[j].root = e}
             F == [i \in S |-> book[i].amount]
  <2>1. S = {j \in Regular(book) : root[j] = e}
    BY <1>1
  <2>2. IsFiniteSet(S) /\ \A i \in S : Booked[i] \in Int /\ F[i] = Booked[i]
    BY <1>1, AmountsAreFinite, FS_Subset
  <2>3. SumFunction(F) = Sum(Booked, S)
    <3>1. DOMAIN F = S
      OBVIOUS
    <3>. HIDE DEF S, F
    <3>. QED
      BY <2>2, <3>1, SumFunctionIs
  <2>4. Sum(Booked, S) \in Int
    <3>. HIDE DEF S
    <3>. QED
      BY <2>2, SumType
  <2>5. h[e] = earned[e].amount + SumFunction(F)
    BY DEF Entitlement
  <2>6. g[e] = Sum(Booked, S)
    BY <2>1
  <2>. QED
    BY <2>3, <2>4, <2>5, <2>6, AmountsAreFinite
<1>4. SumFunction(h) = Sum(h, Earnings)
  BY DEF SumFunction, Sum
<1>5. Sum(Booked, Regular(book)) = Sum(g, Earnings)
  <2>1. \A i \in Regular(book) : Booked[i] \in Int
    BY <1>1, AmountsAreFinite
  <2>. HIDE DEF root
  <2>. QED
    BY <1>1, <1>2, <2>1, SumByClass, EarningsAreFinite
<1>6. Sum(h, Earnings) = Sum(Earned, Earnings) + Sum(g, Earnings)
  <2>. HIDE DEF g, h
  <2>. QED
    BY <1>3, SumPlus, AmountsAreFinite
<1>. QED
  BY <1>4, <1>5, <1>6

\* An earning is claimed, waits, or was carried once; or it is worth nothing.
LEMMA EarningsHaveOnePlace ==
  ASSUME Inv
  PROVE Sum(Earned, Earnings) = Sum(Earned, ClaimedEarnings)
          + Sum(Earned, {e \in Earnings : Unhandled(e)}) + Sum(Booked, Late)
<1> DEFINE U == {e \in Earnings : Unhandled(e)}
           K == {e \in Earnings : Carried(e)}
           R == Earnings \ ClaimedEarnings
           Z == (R \ U) \ K
           root == [i \in DOMAIN book |-> book[i].root]
<1>0. \A S \in SUBSET Earnings : IsFiniteSet(S) /\ Sum(Earned, S) \in Int
                                 /\ \A e \in S : Earned[e] \in Int
  BY AmountsAreFinite, FS_Subset, SumType
<1>1. Sum(Earned, Earnings) = Sum(Earned, ClaimedEarnings) + Sum(Earned, R)
  BY <1>0, SumSplit DEF ClaimedEarnings
<1>2. U \subseteq R /\ K \subseteq R \ U
  BY DEF ClaimedEarnings, Unhandled, Inv, EveryAmountHasItsPlace
<1>3. Sum(Earned, R) = Sum(Earned, U) + Sum(Earned, R \ U)
  <2>. HIDE DEF U
  <2>. QED
    BY <1>0, <1>2, SumSplit
<1>4. Sum(Earned, R \ U) = Sum(Earned, K) + Sum(Earned, Z)
  <2>1. R \ U \in SUBSET Earnings
    OBVIOUS
  <2>2. K \cup Z = R \ U /\ K \cap Z = {}
    <3>. HIDE DEF U, K, R
    <3>. QED
      BY <1>2
  <2>3. IsFiniteSet(R \ U) /\ \A e \in R \ U : Earned[e] \in Int
    BY <1>0, <2>1
  <2>. HIDE DEF U, K, R, Z
  <2>. QED
    BY <2>2, <2>3, SumSplit
<1>5. Sum(Earned, Z) = 0
  <2>1. \A e \in Z : Earned[e] = 0
    BY AmountsAreFinite DEF Unhandled, ClaimedEarnings, Inv, TypeOK, Earning
  <2>. QED
    BY <1>0, <2>1, SumZero
<1>6. Sum(Booked, Late) = Sum(Earned, K)
  <2>1. Late \subseteq DOMAIN book /\ \A i \in Late : book[i].reason = "late"
    BY DEF Late, Regular
  <2>2. IsFiniteSet(Late)
    BY <2>1, AmountsAreFinite, FS_Subset
  <2>3. \A i, j \in Late : root[i] = root[j] => i = j
    BY <2>1 DEF Inv, EveryAmountHasItsPlace
  <2>4. \A i \in DOMAIN book : book[i].root \in Earnings
    <3>1. \A i \in DOMAIN book : book[i] \in Adjustment
      BY DEF Inv, TypeOK
    <3>. QED
      BY <3>1 DEF Adjustment
  <2>5. \A i \in Late : Booked[i] \in Int /\ Earned[root[i]] = Booked[i]
    BY <2>1, <2>4, AmountsAreFinite DEF Inv, Shaped
  <2>6. {root[i] : i \in Late} = K
    BY <2>1, <2>4 DEF Carried, Late, Regular
  <2>. HIDE DEF root, K
  <2>. QED
    BY <2>2, <2>3, <2>5, <2>6, SumImage
<1>7. Sum(Earned, ClaimedEarnings) \in Int /\ Sum(Earned, U) \in Int /\ Sum(Earned, K) \in Int
  <2>1. ClaimedEarnings \in SUBSET Earnings /\ U \in SUBSET Earnings /\ K \in SUBSET Earnings
    BY DEF ClaimedEarnings
  <2>. HIDE DEF U, K
  <2>. QED
    BY <1>0, <2>1
<1>8. Sum(Earned, Earnings) = Sum(Earned, ClaimedEarnings) + Sum(Earned, U) + Sum(Booked, Late)
  <2>. HIDE DEF U, K, R, Z
  <2>. QED
    BY <1>1, <1>3, <1>4, <1>5, <1>6, <1>7
<1>. QED
  BY <1>8

\* An entry of the book is regular or late, and claimed or waiting.
LEMMA EntriesHaveOnePlace ==
  ASSUME Inv
  PROVE /\ Sum(Booked, Regular(book)) + Sum(Booked, Late) = Sum(Booked, ClaimedEntries)
             + Sum(Booked, {i \in DOMAIN book : ~book[i].claimed})
        /\ \A S \in SUBSET DOMAIN book : Sum(Booked, S) \in Int
<1>1. Sum(Booked, DOMAIN book) = Sum(Booked, Regular(book)) + Sum(Booked, Late)
  <2>1. Regular(book) \cup Late = DOMAIN book /\ Regular(book) \cap Late = {}
    BY DEF Late, Regular
  <2>. QED
    BY <2>1, AmountsAreFinite, SumSplit
<1>2. Sum(Booked, DOMAIN book) = Sum(Booked, ClaimedEntries)
             + Sum(Booked, {i \in DOMAIN book : ~book[i].claimed})
  <2> DEFINE U == {i \in DOMAIN book : ~book[i].claimed}
  <2>1. ClaimedEntries \cup U = DOMAIN book /\ ClaimedEntries \cap U = {}
    BY DEF ClaimedEntries
  <2>. HIDE DEF U
  <2>2. Sum(Booked, DOMAIN book) = Sum(Booked, ClaimedEntries) + Sum(Booked, U)
    BY <2>1, AmountsAreFinite, SumSplit
  <2>. QED
    BY <2>2 DEF U
<1>. QED
  BY <1>1, <1>2, AmountsAreFinite, SumType, FS_Subset

\* The items of all weeks together are the claimed earnings and entries, less the
\* claimed carries.
LEMMA PayablesAreClaimed ==
  ASSUME Inv
  PROVE /\ Sum(Payables, Weeks) + Sum([w \in Weeks |-> CarryItem(carry, w)], Weeks)
             = Sum(Earned, ClaimedEarnings) + Sum(Booked, ClaimedEntries)
        /\ Sum([w \in Weeks |-> CarryItem(carry, w)], Weeks) \in Int
        /\ Sum(Payables, Weeks) \in Int
        /\ Sum(Earned, ClaimedEarnings) \in Int
<1> DEFINE week == [e \in Earnings |-> earned[e].week]
           of == [i \in DOMAIN book |-> book[i].week]
           E == [w \in Weeks |-> Sum(Earned, {e \in ClaimedEarnings : week[e] = w})]
           B == [w \in Weeks |-> Sum(Booked, {i \in ClaimedEntries : of[i] = w})]
           C == [w \in Weeks |-> CarryItem(carry, w)]
           EB == [w \in Weeks |-> E[w] + B[w]]
<1>1. /\ ClaimedEarnings \subseteq Earnings /\ IsFiniteSet(ClaimedEarnings)
      /\ ClaimedEntries \subseteq DOMAIN book /\ IsFiniteSet(ClaimedEntries)
  BY AmountsAreFinite, FS_Subset DEF ClaimedEarnings, ClaimedEntries
<1>2. \A e \in ClaimedEarnings : Earned[e] \in Int /\ week[e] \in Weeks
  BY <1>1, WeeksAreCounted, AmountsAreFinite DEF ClaimedEarnings, Inv, Shaped, Weeks
<1>3. \A i \in ClaimedEntries : Booked[i] \in Int /\ of[i] \in Weeks
  <2>1. \A i \in DOMAIN book : book[i] \in Adjustment
    BY DEF Inv, TypeOK
  <2>. QED
    BY <1>1, <2>1, AmountsAreFinite DEF Adjustment
<1>4. Sum(Earned, ClaimedEarnings) = Sum(E, Weeks)
  <2>1. IsFiniteSet(Weeks)
    BY AmountsAreFinite
  <2>2. \A e \in ClaimedEarnings : Earned[e] \in Int
    BY <1>2
  <2>3. \A e \in ClaimedEarnings : week[e] \in Weeks
    BY <1>2
  <2>. HIDE DEF week
  <2>. QED
    BY <1>1, <2>1, <2>2, <2>3, SumByClass
<1>5. Sum(Booked, ClaimedEntries) = Sum(B, Weeks)
  <2>. HIDE DEF of
  <2>. QED
    BY <1>1, <1>3, AmountsAreFinite, SumByClass
<1>6. ASSUME NEW w \in Weeks PROVE SumFunction(EarningItems(earned, w)) = E[w]
  <2> DEFINE S == {e \in Earnings : earned[e].claimed /\ earned[e].week = w}
  <2>1. DOMAIN EarningItems(earned, w) = S
    BY DEF EarningItems
  <2>2. IsFiniteSet(S) /\ \A e \in S : EarningItems(earned, w)[e] = Earned[e]
    BY AmountsAreFinite, FS_Subset DEF EarningItems
  <2>3. S = {e \in ClaimedEarnings : week[e] = w}
    BY DEF ClaimedEarnings
  <2>4. SumFunction(EarningItems(earned, w)) = Sum(Earned, S)
    <3>. HIDE DEF S
    <3>. QED
      BY <2>1, <2>2, SumFunctionIs
  <2>. QED
    BY <2>3, <2>4
<1>7. ASSUME NEW w \in Weeks PROVE SumFunction(AdjustmentItems(book, w)) = B[w]
  <2> DEFINE S == {i \in DOMAIN book : book[i].claimed /\ book[i].week = w}
  <2>1. DOMAIN AdjustmentItems(book, w) = S
    BY DEF AdjustmentItems
  <2>2. IsFiniteSet(S) /\ \A i \in S : AdjustmentItems(book, w)[i] = Booked[i]
    BY AmountsAreFinite, FS_Subset DEF AdjustmentItems
  <2>3. S = {i \in ClaimedEntries : of[i] = w}
    BY DEF ClaimedEntries
  <2>4. SumFunction(AdjustmentItems(book, w)) = Sum(Booked, S)
    <3>. HIDE DEF S
    <3>. QED
      BY <2>1, <2>2, SumFunctionIs
  <2>. QED
    BY <2>3, <2>4
<1>8. \A w \in Weeks : E[w] \in Int /\ B[w] \in Int /\ C[w] \in Int
  <2>1. \A w \in Weeks : CarryItem(carry, w) \in Int
    BY DEF CarryItem, Inv, TypeOK, Carry
  <2>2. \A w \in Weeks : E[w] \in Int
    BY <1>1, <1>2, SumType, FS_Subset
  <2>3. \A w \in Weeks : B[w] \in Int
    BY <1>1, <1>3, SumType, FS_Subset
  <2>. QED
    BY <2>1, <2>2, <2>3
<1>9. \A w \in Weeks : Payables[w] = E[w] + B[w] - C[w]
  BY <1>6, <1>7, AmountsAreFinite DEF Payable
<1>10. \A w \in Weeks : EB[w] = E[w] + B[w]
  OBVIOUS
<1> HIDE DEF E, B, C, EB
<1>11. \A w \in Weeks : EB[w] = Payables[w] + C[w]
  BY <1>8, <1>9, <1>10
<1>12. Sum(EB, Weeks) = Sum(E, Weeks) + Sum(B, Weeks)
  BY <1>8, <1>10, AmountsAreFinite, SumPlus
<1>13. Sum(EB, Weeks) = Sum(Payables, Weeks) + Sum(C, Weeks)
  BY <1>8, <1>11, AmountsAreFinite, SumPlus
<1>14. Sum(C, Weeks) \in Int /\ Sum(Payables, Weeks) \in Int /\ Sum(E, Weeks) \in Int
  BY <1>8, AmountsAreFinite, SumType
<1>. QED
  BY <1>4, <1>5, <1>12, <1>13, <1>14 DEF C

\* What was carried is claimed or waits, and is what the settled weeks owed.
LEMMA CarriesAreResiduals ==
  ASSUME Inv
  PROVE /\ Sum(Carries, Weeks) = Sum([w \in Weeks |-> CarryItem(carry, w)], Weeks)
             + Sum(Carries, {w \in Weeks : ~carry[w].claimed})
        /\ Sum(Carries, Weeks) + Sum(Payables, {w \in Weeks : cycle[w].status = "settled"}) = 0
        /\ Sum(Carries, {w \in Weeks : ~carry[w].claimed}) \in Int
        /\ Sum(Payables, {w \in Weeks : cycle[w].status = "settled"}) \in Int
<1> DEFINE C == [w \in Weeks |-> CarryItem(carry, w)]
           U == {w \in Weeks : ~carry[w].claimed}
           H == {w \in Weeks : carry[w].claimed}
           D == {w \in Weeks : cycle[w].status = "settled"}
           next == [w \in Weeks |-> w + 1]
           N == {next[w] : w \in D}
           minus == [w \in Weeks |-> -Payables[w]]
           zero == [w \in Weeks |-> 0]
<1>0. \A S \in SUBSET Weeks : IsFiniteSet(S)
  BY AmountsAreFinite, FS_Subset
<1>1. U \in SUBSET Weeks /\ H \in SUBSET Weeks /\ U \cup H = Weeks /\ U \cap H = {}
        /\ D \in SUBSET Weeks
  OBVIOUS
<1>2. \A w \in Weeks : C[w] \in Int
  BY DEF CarryItem, Inv, TypeOK, Carry
<1>3. Sum(C, U) = 0
  <2>1. \A w \in U : C[w] = 0
    BY DEF CarryItem
  <2>. HIDE DEF C, U
  <2>. QED
    BY <1>0, <1>1, <2>1, SumZero
<1>4. Sum(C, H) = Sum(Carries, H)
  <2>1. \A w \in H : C[w] = Carries[w]
    BY AmountsAreFinite DEF CarryItem
  <2>. HIDE DEF C, H
  <2>. QED
    BY <1>0, <1>1, <2>1, SumSame
<1>5. Sum(Carries, Weeks) = Sum(Carries, U) + Sum(Carries, H)
  <2>. HIDE DEF U, H
  <2>. QED
    BY <1>1, AmountsAreFinite, SumSplit
<1>6. Sum(C, Weeks) = Sum(C, U) + Sum(C, H)
  <2>. HIDE DEF C, U, H
  <2>. QED
    BY <1>1, <1>2, AmountsAreFinite, SumSplit
<1>7. Sum(Carries, U) \in Int /\ Sum(Carries, H) \in Int /\ Sum(Payables, D) \in Int
  <2>. HIDE DEF U, H, D
  <2>. QED
    BY <1>0, <1>1, AmountsAreFinite, SumType
<1>8. \A w \in D : w + 1 \in Weeks /\ next[w] = w + 1 /\ (w + 1) - 1 = w /\ w + 1 > 1
  BY WeeksAreCounted DEF Inv, Shaped, Weeks
<1>9. N \in SUBSET Weeks
  BY <1>8
<1>10. \A w \in D : Carries[next[w]] = minus[w] /\ minus[w] \in Int
  <2>1. \A w \in D : carry[w + 1].amount = -Payable(earned, book, carry, w)
    <3>1. ASSUME NEW w \in D PROVE carry[w + 1].amount = -Payable(earned, book, carry, w)
      <4>1. cycle[(w + 1) - 1].status = "settled" /\ w + 1 \in Weeks /\ w + 1 > 1
              /\ (w + 1) - 1 = w
        BY <1>8
      <4>2. carry[w + 1].amount = -Payable(earned, book, carry, (w + 1) - 1)
        BY <4>1 DEF Inv, CarryIsResidual
      <4>. QED
        BY <4>1, <4>2
    <3>. QED
      BY <3>1
  <2>. QED
    BY <1>8, <2>1, AmountsAreFinite
<1>11. Sum(minus, D) = Sum(Carries, N)
  <2>1. \A v, w \in D : next[v] = next[w] => v = w
    BY DEF Weeks
  <2>2. IsFiniteSet(D)
    BY <1>0, <1>1
  <2>3. Sum(minus, D) = Sum(Carries, {next[w] : w \in D})
    <3>1. \A v, w \in D : next[v] = next[w] => v = w
      BY <2>1
    <3>2. \A w \in D : minus[w] \in Int /\ Carries[next[w]] = minus[w]
      BY <1>10
    <3>. HIDE DEF D, next, minus
    <3>. QED
      BY <2>2, <3>1, <3>2, SumImage
  <2>. QED
    BY <2>3
<1>12. Sum(Carries, Weeks \ N) = 0
  <2>1. ASSUME NEW w \in Weeks \ N PROVE Carries[w] = 0
    <3>1. w = 1 \/ (w - 1 \in Weeks /\ next[w - 1] = w)
      BY WeeksAreCounted DEF Weeks
    <3>2. w = 1 \/ cycle[w - 1].status # "settled"
      BY <3>1
    <3>. QED
      BY <3>2, AmountsAreFinite DEF Inv, CarryIsResidual
  <2>. HIDE DEF N
  <2>. QED
    BY <1>0, <2>1, SumZero
<1>13. Sum(Carries, Weeks) = Sum(Carries, N) + Sum(Carries, Weeks \ N)
  <2>. HIDE DEF N
  <2>. QED
    BY <1>9, AmountsAreFinite, SumSplit
<1>14. Sum(zero, D) = Sum(minus, D) + Sum(Payables, D)
  <2>1. \A w \in D : minus[w] \in Int /\ Payables[w] \in Int /\ zero[w] = minus[w] + Payables[w]
    BY AmountsAreFinite
  <2>. HIDE DEF D, zero, minus
  <2>. QED
    BY <1>0, <1>1, <2>1, SumPlus
<1>15. Sum(zero, D) = 0
  BY <1>0, <1>1, SumZero
<1>16. Sum(Carries, Weeks) \in Int /\ Sum(minus, D) \in Int
  <2>1. \A w \in D : minus[w] \in Int
    BY <1>10
  <2>. HIDE DEF D, minus
  <2>. QED
    BY <1>0, <1>1, <2>1, AmountsAreFinite, SumType
<1>17. Sum(Carries, Weeks) = Sum(C, Weeks) + Sum(Carries, U)
  BY <1>3, <1>4, <1>5, <1>6, <1>7
<1>18. Sum(Carries, Weeks) + Sum(Payables, D) = 0
  <2>. HIDE DEF D, N, minus, zero
  <2>. QED
    BY <1>7, <1>11, <1>12, <1>13, <1>14, <1>15, <1>16
<1>. QED
  BY <1>7, <1>17, <1>18

\* A week is not final, paid or settled.
LEMMA WeeksHaveOneState ==
  ASSUME Inv
  PROVE /\ Sum(Payables, Weeks) = Held + PaidOut
             + Sum(Payables, {w \in Weeks : cycle[w].status = "settled"})
        /\ Held \in Int /\ PaidOut \in Int
<1> DEFINE O == {w \in Weeks : ~Final(w)}
           P == {w \in Weeks : cycle[w].status = "paid"}
           D == {w \in Weeks : cycle[w].status = "settled"}
<1>0. \A S \in SUBSET Weeks : IsFiniteSet(S) /\ Sum(Payables, S) \in Int
                              /\ \A w \in S : Payables[w] \in Int
  BY AmountsAreFinite, FS_Subset, SumType
<1>1. O \in SUBSET Weeks /\ P \in SUBSET Weeks /\ D \in SUBSET Weeks
        /\ O \cup (P \cup D) = Weeks /\ O \cap (P \cup D) = {} /\ P \cap D = {}
  BY DEF Final
<1>2. Held = Sum(Payables, O)
  <2> DEFINE F == [w \in O |-> Payable(earned, book, carry, w)]
  <2>1. DOMAIN F = O /\ \A w \in O : F[w] = Payables[w]
    BY DEF Payables
  <2>2. Held = SumFunction(F)
    BY DEF Held
  <2>. HIDE DEF F, O
  <2>. QED
    BY <1>0, <1>1, <2>1, <2>2, SumFunctionIs
<1>3. PaidOut = Sum(Payables, P)
  <2> DEFINE F == [w \in P |-> cycle[w].locked]
  <2>1. DOMAIN F = P /\ \A w \in P : F[w] = Payables[w]
    BY DEF Payables, Inv, LockFollowsItsAttempt
  <2>2. PaidOut = SumFunction(F)
    BY DEF PaidOut
  <2>. HIDE DEF F, P
  <2>. QED
    BY <1>0, <1>1, <2>1, <2>2, SumFunctionIs
<1> HIDE DEF O, P, D
<1>4. Sum(Payables, Weeks) = Sum(Payables, O) + Sum(Payables, P \cup D)
  BY <1>1, AmountsAreFinite, SumSplit
<1>5. Sum(Payables, P \cup D) = Sum(Payables, P) + Sum(Payables, D)
  <2>1. P \cup D \in SUBSET Weeks
    BY <1>1
  <2>2. IsFiniteSet(P \cup D) /\ \A w \in P \cup D : Payables[w] \in Int
    BY <1>0, <2>1
  <2>. QED
    BY <1>1, <2>2, SumSplit
<1>6. Sum(Payables, O) \in Int /\ Sum(Payables, P) \in Int /\ Sum(Payables, D) \in Int
  BY <1>0, <1>1
<1>. QED
  BY <1>2, <1>3, <1>4, <1>5, <1>6 DEF D

\* What waits, by earnings, entries and carries.
LEMMA WaitingIs ==
  ASSUME Inv
  PROVE Waiting = Sum(Earned, {e \in Earnings : Unhandled(e)})
                    + Sum(Booked, {i \in DOMAIN book : ~book[i].claimed})
                    - Sum(Carries, {w \in Weeks : ~carry[w].claimed})
<1> DEFINE X == {e \in Earnings : Unhandled(e)}
           Y == {i \in DOMAIN book : ~book[i].claimed}
           Z == {w \in Weeks : ~carry[w].claimed}
           FX == [e \in X |-> earned[e].amount]
           FY == [i \in Y |-> book[i].amount]
           FZ == [w \in Z |-> carry[w].amount]
<1>1. /\ IsFiniteSet(X) /\ IsFiniteSet(Y) /\ IsFiniteSet(Z)
      /\ DOMAIN FX = X /\ DOMAIN FY = Y /\ DOMAIN FZ = Z
      /\ \A e \in X : FX[e] = Earned[e]
      /\ \A i \in Y : FY[i] = Booked[i]
      /\ \A w \in Z : FZ[w] = Carries[w]
  BY AmountsAreFinite, FS_Subset
<1>2. Waiting = SumFunction(FX) + SumFunction(FY) - SumFunction(FZ)
  BY DEF Waiting
<1>3. SumFunction(FX) = Sum(Earned, X) /\ SumFunction(FY) = Sum(Booked, Y)
        /\ SumFunction(FZ) = Sum(Carries, Z)
  <2>. HIDE DEF X, Y, Z, FX, FY, FZ
  <2>. QED
    BY <1>1, SumFunctionIs
<1>. QED
  BY <1>2, <1>3

\* In no order of commands is an amount paid twice or lost: what was earned is
\* what was paid, plus what the weeks hold, plus what waits.
THEOREM MoneyConserved == Spec => []MoneyIsConserved
<1>1. ASSUME Inv PROVE MoneyIsConserved
  <2> DEFINE a == Sum(Earned, ClaimedEarnings)
             u == Sum(Earned, {e \in Earnings : Unhandled(e)})
             l == Sum(Booked, Late)
             r == Sum(Booked, Regular(book))
             b == Sum(Booked, ClaimedEntries)
             v == Sum(Booked, {i \in DOMAIN book : ~book[i].claimed})
             c == Sum([w \in Weeks |-> CarryItem(carry, w)], Weeks)
             x == Sum(Carries, {w \in Weeks : ~carry[w].claimed})
             d == Sum(Payables, {w \in Weeks : cycle[w].status = "settled"})
             p == Sum(Payables, Weeks)
             all == Sum(Carries, Weeks)
             total == SumFunction([e \in Earnings |-> Entitlement(e)])
  <2>1. total = (a + u + l) + r
    BY <1>1, EntitlementsAreEarned, EarningsHaveOnePlace
  <2>2. r + l = b + v /\ r \in Int /\ l \in Int /\ b \in Int /\ v \in Int
    <3>1. Regular(book) \in SUBSET DOMAIN book /\ Late \in SUBSET DOMAIN book
            /\ ClaimedEntries \in SUBSET DOMAIN book
            /\ {i \in DOMAIN book : ~book[i].claimed} \in SUBSET DOMAIN book
      BY DEF Regular, Late, ClaimedEntries
    <3>. QED
      BY <1>1, <3>1, EntriesHaveOnePlace
  <2>3. p + c = a + b /\ p \in Int /\ c \in Int /\ a \in Int
    BY <1>1, PayablesAreClaimed
  <2>4. all = c + x /\ all + d = 0 /\ x \in Int /\ d \in Int
    BY <1>1, CarriesAreResiduals
  <2>5. p = Held + PaidOut + d /\ Held \in Int /\ PaidOut \in Int
    BY <1>1, WeeksHaveOneState
  <2>6. Waiting = u + v - x
    BY <1>1, WaitingIs
  <2>7. u \in Int
    <3>1. IsFiniteSet({e \in Earnings : Unhandled(e)})
      BY <1>1, AmountsAreFinite, FS_Subset
    <3>2. \A e \in {y \in Earnings : Unhandled(y)} : Earned[e] \in Int
      BY <1>1, AmountsAreFinite
    <3>. QED
      BY <3>1, <3>2, SumType
  <2>8. total = PaidOut + Held + Waiting
    <3>. HIDE DEF a, u, l, r, b, v, c, x, d, p, all, total
    <3>. QED
      BY <2>1, <2>2, <2>3, <2>4, <2>5, <2>6, <2>7
  <2>. QED
    BY <2>8 DEF MoneyIsConserved
<1>. QED
  BY <1>1, PayrollInvariant, PTL
=============================================================================
