------------------------------ MODULE SumTheorems ------------------------------
(***************************************************************************)
(* Sums of the values of a function over a finite set of indices; and the  *)
(* stretches a sequence is made of.                                        *)
(***************************************************************************)
EXTENDS Integers, FiniteSets, Functions, FiniteSetTheorems, SequenceTheorems,
        WellFoundedInduction, TLAPS

\* A set of subsets that holds a set whenever it holds every smaller one holds
\* them all.
LEMMA SubsetInduction ==
    ASSUME NEW S, IsFiniteSet(S), NEW G,
           \A T \in SUBSET S : (\A U \in SUBSET T : U # T => U \in G) => T \in G
    PROVE  SUBSET S \subseteq G
<1> SUFFICES ASSUME (SUBSET S) \ G # {} PROVE FALSE
    OBVIOUS
<1>1. FiniteSubsetsOf(S) = SUBSET S
    BY FS_FiniteSubsetsOfFinite
<1>2. IsWellFoundedOn(StrictSubsetOrdering(S), SUBSET S)
  <2>1. IsWellFoundedOn(StrictSubsetOrdering(S), FiniteSubsetsOf(S))
      BY FS_StrictSubsetOrderingWellFounded
  <2> QED BY <1>1, <2>1
<1>3. PICK T \in (SUBSET S) \ G : \A U \in (SUBSET S) \ G : ~(<<U, T>> \in StrictSubsetOrdering(S))
  <2> DEFINE R == StrictSubsetOrdering(S)
             D == SUBSET S
             B == (SUBSET S) \ G
  <2>1. IsWellFoundedOn(R, D) /\ B \subseteq D /\ B # {}
      BY <1>2
  <2> HIDE DEF R, D, B
  <2>2. \E T \in B : \A U \in B : ~(<<U, T>> \in R)
      BY <2>1, WFMin
  <2> QED BY <2>2 DEF R, B
<1>4. \A U \in SUBSET T : U # T => U \in G
    BY <1>3 DEF StrictSubsetOrdering
<1> QED BY <1>3, <1>4

(***************************************************************************)
(* The recursive function behind SumFunctionOnSet.                         *)
(***************************************************************************)
AnyOf(T) == CHOOSE x \in T : TRUE

Sums(g, f, S) ==
    g = [T \in SUBSET S |-> IF T = {} THEN 0 ELSE f[AnyOf(T)] + g[T \ {AnyOf(T)}]]

TheSums(f, S) == CHOOSE g : Sums(g, f, S)

LEMMA SumUnfolds == \A f, S : SumFunctionOnSet(f, S) = TheSums(f, S)[S]
<1> TAKE f, S
<1> QED BY DEF SumFunctionOnSet, FoldFunctionOnSet, MapThenFoldSet, TheSums, Sums, AnyOf

LEMMA SumsAt ==
    ASSUME NEW f, NEW S, NEW g, Sums(g, f, S), NEW T \in SUBSET S
    PROVE  g[T] = IF T = {} THEN 0 ELSE f[AnyOf(T)] + g[T \ {AnyOf(T)}]
    BY DEF Sums

LEMMA AnyIn == \A T : T # {} => AnyOf(T) \in T
    BY DEF AnyOf

LEMMA SumsAgree ==
    ASSUME NEW f, NEW S, IsFiniteSet(S), NEW R, NEW g, NEW h,
           Sums(g, f, S), Sums(h, f, R), NEW V \in SUBSET S, V \in SUBSET R
    PROVE  g[V] = h[V]
<1> DEFINE G == {T \in SUBSET V : g[T] = h[T]}
<1>1. \A T \in SUBSET V : (\A U \in SUBSET T : U # T => U \in G) => T \in G
  <2> SUFFICES ASSUME NEW T \in SUBSET V, \A U \in SUBSET T : U # T => U \in G
               PROVE  g[T] = h[T]
      OBVIOUS
  <2>1. CASE T = {}
      BY <2>1, SumsAt
  <2>2. CASE T # {}
    <3>1. AnyOf(T) \in T /\ T \in SUBSET S /\ T \in SUBSET R
        BY <2>2, AnyIn
    <3>2. g[T \ {AnyOf(T)}] = h[T \ {AnyOf(T)}]
        BY <3>1
    <3>3. g[T] = f[AnyOf(T)] + g[T \ {AnyOf(T)}]
        BY <2>2, <3>1, SumsAt
    <3>4. h[T] = f[AnyOf(T)] + h[T \ {AnyOf(T)}]
        BY <2>2, <3>1, SumsAt
    <3> QED BY <3>2, <3>3, <3>4
  <2> QED BY <2>1, <2>2
<1>2. IsFiniteSet(V)
    BY FS_Subset
<1> HIDE DEF G
<1>3. SUBSET V \subseteq G
    BY <1>1, <1>2, SubsetInduction
<1> QED BY <1>3 DEF G

LEMMA SumsExist ==
    ASSUME NEW f, NEW S, IsFiniteSet(S)
    PROVE  Sums(TheSums(f, S), f, S)
<1> DEFINE G == {T \in SUBSET S : Sums(TheSums(f, T), f, T)}
<1>1. ASSUME NEW T \in SUBSET S, \A U \in SUBSET T : U # T => U \in G
      PROVE  Sums(TheSums(f, T), f, T)
  <2> DEFINE at(V) == TheSums(f, V)[V]
             h == [V \in SUBSET T |->
                    IF V = {} THEN 0 ELSE f[AnyOf(V)] + at(V \ {AnyOf(V)})]
  <2>1. ASSUME NEW V \in SUBSET T, V # {}
        PROVE  at(V \ {AnyOf(V)}) = h[V \ {AnyOf(V)}]
    <3> DEFINE U == V \ {AnyOf(V)}
    <3>1. U \in SUBSET T /\ U # T
        BY <2>1, AnyIn
    <3>2. Sums(TheSums(f, U), f, U)
        BY <1>1, <3>1
    <3>3. CASE U = {}
        BY <3>1, <3>2, <3>3, SumsAt
    <3>4. CASE U # {}
      <4> DEFINE W == U \ {AnyOf(U)}
      <4>1. W \in SUBSET U /\ W # T /\ W \in SUBSET T
          BY <3>1, <3>4, AnyIn
      <4>2. Sums(TheSums(f, W), f, W)
          BY <1>1, <4>1
      <4>3. IsFiniteSet(W)
          BY <4>1, FS_Subset
      <4>4. at(W) = TheSums(f, U)[W]
        <5> HIDE DEF W, U
        <5> QED BY <3>2, <4>1, <4>2, <4>3, SumsAgree
      <4>5. at(U) = f[AnyOf(U)] + TheSums(f, U)[W]
        <5> HIDE DEF U
        <5> QED BY <3>2, <3>4, SumsAt
      <4>6. h[U] = f[AnyOf(U)] + at(W)
          BY <3>1, <3>4
      <4> QED BY <4>4, <4>5, <4>6
    <3> QED BY <3>3, <3>4
  <2>2. Sums(h, f, T)
    <3> SUFFICES \A V \in SUBSET T : h[V] = IF V = {} THEN 0 ELSE f[AnyOf(V)] + h[V \ {AnyOf(V)}]
        BY DEF Sums
    <3> TAKE V \in SUBSET T
    <3>1. h[V] = IF V = {} THEN 0 ELSE f[AnyOf(V)] + at(V \ {AnyOf(V)})
        OBVIOUS
    <3> HIDE DEF h, at
    <3> QED BY <3>1, <2>1
  <2> HIDE DEF h
  <2> QED BY <2>2 DEF TheSums
<1>2. \A T \in SUBSET S : (\A U \in SUBSET T : U # T => U \in G) => T \in G
    BY <1>1
<1> HIDE DEF G
<1>3. SUBSET S \subseteq G
    BY <1>2, SubsetInduction
<1> QED BY <1>3 DEF G

(***************************************************************************)
(* What the rest of the proofs cite: sums one index at a time.             *)
(***************************************************************************)
LEMMA SumEmpty == \A f : SumFunctionOnSet(f, {}) = 0
    BY SumUnfolds, SumsExist, SumsAt, FS_EmptySet

LEMMA SumFirst ==
    ASSUME NEW f, NEW S, IsFiniteSet(S), S # {}
    PROVE  /\ AnyOf(S) \in S
           /\ SumFunctionOnSet(f, S) =
                f[AnyOf(S)] + SumFunctionOnSet(f, S \ {AnyOf(S)})
<1> DEFINE R == S \ {AnyOf(S)}
           g == TheSums(f, S)
           h == TheSums(f, R)
<1>1. AnyOf(S) \in S /\ R \in SUBSET S
    BY AnyIn
<1>2. IsFiniteSet(R)
    BY <1>1, FS_Subset
<1>3. Sums(g, f, S) /\ Sums(h, f, R)
    BY <1>2, SumsExist
<1>4. g[S] = f[AnyOf(S)] + g[R]
  <2> HIDE DEF g
  <2> QED BY <1>3, SumsAt
<1>5. h[R] = g[R]
  <2> HIDE DEF g, h, R
  <2> QED BY <1>1, <1>2, <1>3, SumsAgree
<1> QED BY <1>1, <1>4, <1>5, SumUnfolds

LEMMA SumInt ==
    ASSUME NEW f, NEW S, IsFiniteSet(S), \A x \in S : f[x] \in Int
    PROVE  SumFunctionOnSet(f, S) \in Int
<1> DEFINE G == {T \in SUBSET S : SumFunctionOnSet(f, T) \in Int}
<1>1. ASSUME NEW T \in SUBSET S, \A U \in SUBSET T : U # T => U \in G
      PROVE  T \in G
  <2>1. CASE T = {}
      BY <2>1, SumEmpty
  <2>2. CASE T # {}
    <3>1. IsFiniteSet(T)
        BY FS_Subset
    <3>2. /\ AnyOf(T) \in T
          /\ SumFunctionOnSet(f, T) =
                f[AnyOf(T)] + SumFunctionOnSet(f, T \ {AnyOf(T)})
        BY <2>2, <3>1, SumFirst
    <3>3. SumFunctionOnSet(f, T \ {AnyOf(T)}) \in Int
        BY <1>1, <3>2
    <3> QED BY <3>2, <3>3
  <2> QED BY <2>1, <2>2
<1> HIDE DEF G
<1>2. SUBSET S \subseteq G
    BY <1>1, SubsetInduction
<1> QED BY <1>2 DEF G

\* Any index may be taken out first.
LEMMA SumTake ==
    ASSUME NEW f, NEW S, IsFiniteSet(S), \A x \in S : f[x] \in Int, NEW a \in S
    PROVE  SumFunctionOnSet(f, S) = f[a] + SumFunctionOnSet(f, S \ {a})
<1> DEFINE G == {T \in SUBSET S : \A x \in T :
                    SumFunctionOnSet(f, T) = f[x] + SumFunctionOnSet(f, T \ {x})}
<1>1. ASSUME NEW T \in SUBSET S, \A U \in SUBSET T : U # T => U \in G
      PROVE  T \in G
  <2> SUFFICES ASSUME NEW x \in T
               PROVE  SumFunctionOnSet(f, T) = f[x] + SumFunctionOnSet(f, T \ {x})
      OBVIOUS
  <2> DEFINE c == AnyOf(T)
  <2>1. IsFiniteSet(T)
      BY FS_Subset
  <2>2. c \in T /\ SumFunctionOnSet(f, T) = f[c] + SumFunctionOnSet(f, T \ {c})
      BY <2>1, SumFirst
  <2>3. CASE x = c
      BY <2>2, <2>3
  <2>4. CASE x # c
    <3> HIDE DEF c
    <3>1. T \ {c} \in G /\ T \ {x} \in G
        BY <1>1, <2>2
    <3>2. SumFunctionOnSet(f, T \ {c}) = f[x] + SumFunctionOnSet(f, (T \ {c}) \ {x})
        BY <3>1, <2>4
    <3>3. SumFunctionOnSet(f, T \ {x}) = f[c] + SumFunctionOnSet(f, (T \ {x}) \ {c})
        BY <3>1, <2>2, <2>4
    <3>4. SumFunctionOnSet(f, (T \ {c}) \ {x}) = SumFunctionOnSet(f, (T \ {x}) \ {c})
      <4>1. (T \ {c}) \ {x} = (T \ {x}) \ {c}
          OBVIOUS
      <4> QED BY <4>1
    <3>5. SumFunctionOnSet(f, (T \ {x}) \ {c}) \in Int
        BY <2>1, FS_Subset, SumInt
    <3>6. f[x] \in Int /\ f[c] \in Int
        BY <2>2
    <3> QED BY <2>2, <3>2, <3>3, <3>4, <3>5, <3>6
  <2> QED BY <2>3, <2>4
<1> HIDE DEF G
<1>2. SUBSET S \subseteq G
    BY <1>1, SubsetInduction
<1> QED BY <1>2 DEF G

LEMMA SumAdd ==
    ASSUME NEW f, NEW S, IsFiniteSet(S), NEW a, a \notin S,
           \A x \in S \cup {a} : f[x] \in Int
    PROVE  SumFunctionOnSet(f, S \cup {a}) = f[a] + SumFunctionOnSet(f, S)
<1>1. IsFiniteSet(S \cup {a}) /\ (S \cup {a}) \ {a} = S
    BY FS_AddElement
<1> QED BY <1>1, SumTake

\* Equal summands, equal sums.
LEMMA SumSame ==
    ASSUME NEW f, NEW g, NEW S, IsFiniteSet(S), \A x \in S : f[x] = g[x]
    PROVE  SumFunctionOnSet(f, S) = SumFunctionOnSet(g, S)
<1> DEFINE G == {T \in SUBSET S : SumFunctionOnSet(f, T) = SumFunctionOnSet(g, T)}
<1>1. ASSUME NEW T \in SUBSET S, \A U \in SUBSET T : U # T => U \in G
      PROVE  T \in G
  <2>1. CASE T = {}
      BY <2>1, SumEmpty
  <2>2. CASE T # {}
    <3>1. IsFiniteSet(T)
        BY FS_Subset
    <3>2. /\ AnyOf(T) \in T
          /\ SumFunctionOnSet(f, T) =
                f[AnyOf(T)] + SumFunctionOnSet(f, T \ {AnyOf(T)})
        BY <2>2, <3>1, SumFirst
    <3>3. SumFunctionOnSet(g, T) = g[AnyOf(T)] + SumFunctionOnSet(g, T \ {AnyOf(T)})
        BY <2>2, <3>1, SumFirst
    <3>4. T \ {AnyOf(T)} \in G
        BY <1>1, <3>2
    <3> QED BY <3>2, <3>3, <3>4
  <2> QED BY <2>1, <2>2
<1> HIDE DEF G
<1>2. SUBSET S \subseteq G
    BY <1>1, SubsetInduction
<1> QED BY <1>2 DEF G

LEMMA SumZero ==
    ASSUME NEW f, NEW S, IsFiniteSet(S), \A x \in S : f[x] = 0
    PROVE  SumFunctionOnSet(f, S) = 0
<1> DEFINE G == {T \in SUBSET S : SumFunctionOnSet(f, T) = 0}
<1>1. ASSUME NEW T \in SUBSET S, \A U \in SUBSET T : U # T => U \in G
      PROVE  T \in G
  <2>1. CASE T = {}
      BY <2>1, SumEmpty
  <2>2. CASE T # {}
    <3>1. IsFiniteSet(T)
        BY FS_Subset
    <3>2. /\ AnyOf(T) \in T
          /\ SumFunctionOnSet(f, T) =
                f[AnyOf(T)] + SumFunctionOnSet(f, T \ {AnyOf(T)})
        BY <2>2, <3>1, SumFirst
    <3>3. SumFunctionOnSet(f, T \ {AnyOf(T)}) = 0
        BY <1>1, <3>2
    <3> QED BY <3>2, <3>3
  <2> QED BY <2>1, <2>2
<1> HIDE DEF G
<1>2. SUBSET S \subseteq G
    BY <1>1, SubsetInduction
<1> QED BY <1>2 DEF G

LEMMA SumNat ==
    ASSUME NEW f, NEW S, IsFiniteSet(S), \A x \in S : f[x] \in Nat
    PROVE  SumFunctionOnSet(f, S) \in Nat
<1> DEFINE G == {T \in SUBSET S : SumFunctionOnSet(f, T) \in Nat}
<1>1. ASSUME NEW T \in SUBSET S, \A U \in SUBSET T : U # T => U \in G
      PROVE  T \in G
  <2>1. CASE T = {}
      BY <2>1, SumEmpty
  <2>2. CASE T # {}
    <3>1. IsFiniteSet(T)
        BY FS_Subset
    <3>2. /\ AnyOf(T) \in T
          /\ SumFunctionOnSet(f, T) =
                f[AnyOf(T)] + SumFunctionOnSet(f, T \ {AnyOf(T)})
        BY <2>2, <3>1, SumFirst
    <3>3. SumFunctionOnSet(f, T \ {AnyOf(T)}) \in Nat
        BY <1>1, <3>2
    <3> QED BY <3>2, <3>3
  <2> QED BY <2>1, <2>2
<1> HIDE DEF G
<1>2. SUBSET S \subseteq G
    BY <1>1, SubsetInduction
<1> QED BY <1>2 DEF G

\* No summand exceeds a sum of naturals.
LEMMA SumMember ==
    ASSUME NEW f, NEW S, IsFiniteSet(S), \A x \in S : f[x] \in Nat, NEW a \in S
    PROVE  f[a] <= SumFunctionOnSet(f, S)
<1>1. SumFunctionOnSet(f, S) = f[a] + SumFunctionOnSet(f, S \ {a})
    BY SumTake
<1>2. SumFunctionOnSet(f, S \ {a}) \in Nat
    BY SumNat, FS_Subset
<1> QED BY <1>1, <1>2

\* One summand changes.
LEMMA SumChange ==
    ASSUME NEW f, NEW g, NEW S, IsFiniteSet(S), NEW a \in S,
           \A x \in S : f[x] \in Int /\ g[x] \in Int,
           \A x \in S \ {a} : f[x] = g[x]
    PROVE  SumFunctionOnSet(g, S) = SumFunctionOnSet(f, S) + g[a] - f[a]
<1>1. /\ SumFunctionOnSet(f, S) = f[a] + SumFunctionOnSet(f, S \ {a})
      /\ SumFunctionOnSet(g, S) = g[a] + SumFunctionOnSet(g, S \ {a})
    BY SumTake
<1>2. IsFiniteSet(S \ {a})
    BY FS_Subset
<1>3. SumFunctionOnSet(f, S \ {a}) = SumFunctionOnSet(g, S \ {a})
    BY <1>2, SumSame
<1>4. SumFunctionOnSet(f, S \ {a}) \in Int
    BY <1>2, SumInt
<1> QED BY <1>1, <1>3, <1>4

\* Two disjoint sets of indices.
LEMMA SumUnion ==
    ASSUME NEW f, NEW S, NEW R, IsFiniteSet(S), IsFiniteSet(R), S \cap R = {},
           \A x \in S \cup R : f[x] \in Int
    PROVE  SumFunctionOnSet(f, S \cup R) = SumFunctionOnSet(f, S) + SumFunctionOnSet(f, R)
<1> DEFINE G == {T \in SUBSET R :
                    SumFunctionOnSet(f, S \cup T) = SumFunctionOnSet(f, S) + SumFunctionOnSet(f, T)}
<1>0. SumFunctionOnSet(f, S) \in Int
    BY SumInt
<1>1. ASSUME NEW T \in SUBSET R, \A U \in SUBSET T : U # T => U \in G
      PROVE  T \in G
  <2>1. CASE T = {}
    <3>1. S \cup T = S
        BY <2>1
    <3> QED BY <1>0, <2>1, <3>1, SumEmpty
  <2>2. CASE T # {}
    <3>0. PICK a \in T : TRUE
        BY <2>2
    <3>1. IsFiniteSet(T) /\ IsFiniteSet(S \cup T)
        BY FS_Subset, FS_Union
    <3>2. SumFunctionOnSet(f, T) = f[a] + SumFunctionOnSet(f, T \ {a})
        BY <3>1, SumTake
    <3>3. SumFunctionOnSet(f, S \cup T) = f[a] + SumFunctionOnSet(f, (S \cup T) \ {a})
        BY <3>1, SumTake
    <3>4. SumFunctionOnSet(f, (S \cup T) \ {a}) =
                SumFunctionOnSet(f, S) + SumFunctionOnSet(f, T \ {a})
      <4>1. (S \cup T) \ {a} = S \cup (T \ {a}) /\ T \ {a} \in G
          BY <1>1
      <4> QED BY <4>1
    <3>5. SumFunctionOnSet(f, T \ {a}) \in Int /\ f[a] \in Int
        BY <3>1, FS_Subset, SumInt
    <3>6. SumFunctionOnSet(f, S \cup T) = SumFunctionOnSet(f, S) + SumFunctionOnSet(f, T)
      <4> HIDE DEF G
      <4> QED BY <1>0, <3>2, <3>3, <3>4, <3>5
    <3> QED BY <3>6
  <2> QED BY <2>1, <2>2
<1> HIDE DEF G
<1>2. SUBSET R \subseteq G
    BY <1>1, SubsetInduction
<1> QED BY <1>2 DEF G

\* The sum over a set that one index may enter, leave, or stay in with another
\* value.
LEMMA SumMove ==
    ASSUME NEW f, NEW g, NEW A, NEW B, IsFiniteSet(A), IsFiniteSet(B), NEW i,
           A \ {i} = B \ {i}, \A x \in A : f[x] \in Int, \A x \in B : g[x] \in Int,
           \A x \in A \ {i} : f[x] = g[x]
    PROVE  SumFunctionOnSet(g, B) = SumFunctionOnSet(f, A)
              + (IF i \in B THEN g[i] ELSE 0) - (IF i \in A THEN f[i] ELSE 0)
<1> DEFINE R == A \ {i}
<1>1. IsFiniteSet(R)
    BY FS_Subset
<1>2. SumFunctionOnSet(f, R) = SumFunctionOnSet(g, R)
  <2> \A x \in R : f[x] = g[x]
      OBVIOUS
  <2> HIDE DEF R
  <2> QED BY <1>1, SumSame
<1>3. SumFunctionOnSet(f, R) \in Int
    BY <1>1, SumInt
<1>4. SumFunctionOnSet(f, A) = SumFunctionOnSet(f, R) + (IF i \in A THEN f[i] ELSE 0)
  <2>1. CASE i \in A
      BY <2>1, <1>3, SumTake
  <2>2. CASE i \notin A
    <3>1. R = A
        BY <2>2
    <3> HIDE DEF R
    <3> QED BY <2>2, <3>1, <1>3
  <2> QED BY <2>1, <2>2
<1>5. SumFunctionOnSet(g, R) \in Int
    BY <1>2, <1>3
<1>6. SumFunctionOnSet(g, B) = SumFunctionOnSet(g, R) + (IF i \in B THEN g[i] ELSE 0)
  <2>0. R = B \ {i}
      OBVIOUS
  <2>1. CASE i \in B
    <3>1. SumFunctionOnSet(g, B) = g[i] + SumFunctionOnSet(g, R)
        BY <2>0, <2>1, SumTake
    <3> QED BY <3>1, <2>1, <1>5
  <2>2. CASE i \notin B
    <3>1. R = B
        BY <2>0, <2>2
    <3> HIDE DEF R
    <3> QED BY <2>2, <3>1, <1>5
  <2> QED BY <2>1, <2>2
<1>7. i \in A => f[i] \in Int
    OBVIOUS
<1>8. i \in B => g[i] \in Int
    OBVIOUS
<1> HIDE DEF R
<1> QED BY <1>2, <1>3, <1>4, <1>6, <1>7, <1>8

\* The sum over a set that a set of further indices joins.
LEMMA SumJoin ==
    ASSUME NEW f, NEW g, NEW A, NEW N, IsFiniteSet(A), IsFiniteSet(N), A \cap N = {},
           \A x \in A : f[x] \in Int /\ f[x] = g[x], \A x \in N : g[x] \in Int
    PROVE  SumFunctionOnSet(g, A \cup N) = SumFunctionOnSet(f, A) + SumFunctionOnSet(g, N)
<1>1. SumFunctionOnSet(f, A) = SumFunctionOnSet(g, A)
    BY SumSame
<1>2. SumFunctionOnSet(g, A \cup N) = SumFunctionOnSet(g, A) + SumFunctionOnSet(g, N)
    BY SumUnion
<1> QED BY <1>1, <1>2

----------------------------------------------------------------------------
(***************************************************************************)
(* Stretches of sequences, and their indices.                              *)
(***************************************************************************)
\* A sequence without its k-th element.
LEMMA WithoutOne ==
    ASSUME NEW S, NEW s \in Seq(S), NEW k \in 1..Len(s)
    PROVE  LET front == SubSeq(s, 1, k - 1)
               back  == SubSeq(s, k + 1, Len(s))
           IN
           /\ front \o back \in Seq(S) /\ Len(front \o back) = Len(s) - 1
           /\ \A i \in 1..(Len(s) - 1) : (front \o back)[i] = s[IF i < k THEN i ELSE i + 1]
<1> DEFINE front == SubSeq(s, 1, k - 1)  back == SubSeq(s, k + 1, Len(s))
<1>1. Len(s) \in Nat /\ k \in Int /\ \A i \in 1..Len(s) : s[i] \in S
    BY ElementOfSeq
<1>2. \A i \in 1..(k - 1) : s[i] \in S
    BY <1>1
<1>3. /\ front \in Seq(S) /\ Len(front) = k - 1
      /\ \A i \in 1..(k - 1) : front[i] = s[i]
    BY <1>1, <1>2, SubSeqProperties, Z3
<1>4. \A i \in (k + 1)..Len(s) : s[i] \in S
    BY <1>1
<1>5. /\ back \in Seq(S) /\ Len(back) = Len(s) - k
      /\ \A i \in 1..(Len(s) - k) : back[i] = s[k + i]
    BY <1>1, <1>4, SubSeqProperties
<1> HIDE DEF front, back
<1>6. /\ front \o back \in Seq(S) /\ Len(front \o back) = Len(front) + Len(back)
      /\ \A i \in 1..(Len(front) + Len(back)) :
            (front \o back)[i] = IF i <= Len(front) THEN front[i] ELSE back[i - Len(front)]
    BY <1>3, <1>5, ConcatProperties
<1>8. Len(front \o back) = Len(s) - 1
    BY <1>1, <1>3, <1>5, <1>6
<1>9. ASSUME NEW i \in 1..(Len(s) - 1)
      PROVE  (front \o back)[i] = s[IF i < k THEN i ELSE i + 1]
  <2>1. (front \o back)[i] = IF i <= k - 1 THEN front[i] ELSE back[i - (k - 1)]
    <3>1. i \in 1..(Len(front) + Len(back))
        BY <1>1, <1>3, <1>5
    <3> QED BY <1>3, <1>6, <3>1
  <2>2. CASE i < k
    <3>1. i \in 1..(k - 1) /\ i <= k - 1
        BY <1>1, <2>2
    <3> QED BY <1>3, <2>1, <2>2, <3>1
  <2>3. CASE i >= k
    <3>1. i - (k - 1) \in 1..(Len(s) - k) /\ k + (i - (k - 1)) = i + 1
        BY <1>1, <2>3
    <3>2. ~(i <= k - 1) /\ ~(i < k)
        BY <1>1, <2>3
    <3>3. back[i - (k - 1)] = s[k + (i - (k - 1))]
        BY <1>5, <3>1
    <3> QED BY <2>1, <3>1, <3>2, <3>3
  <2>4. i < k \/ i >= k
      BY <1>1
  <2> QED BY <2>2, <2>3, <2>4
<1> QED BY <1>6, <1>8, <1>9 DEF front, back

\* The elements of a sequence after the first a, up to the b-th.
LEMMA Stretch ==
    ASSUME NEW S, NEW s \in Seq(S), NEW a \in 0..Len(s), NEW b \in a..Len(s)
    PROVE  /\ SubSeq(s, a + 1, b) \in Seq(S) /\ Len(SubSeq(s, a + 1, b)) = b - a
           /\ \A i \in 1..(b - a) : SubSeq(s, a + 1, b)[i] = s[a + i]
<1>1. a \in Nat /\ b \in Nat /\ a <= b /\ Len(s) \in Nat /\ b <= Len(s)
    OBVIOUS
<1>2. \A i \in (a + 1)..b : s[i] \in S
    BY <1>1, ElementOfSeq
<1> QED BY <1>1, <1>2, SubSeqProperties

LEMMA StretchOfStretch ==
    ASSUME NEW S, NEW s \in Seq(S), NEW a \in 0..Len(s), NEW b \in a..Len(s),
           NEW c \in 0..(b - a), NEW d \in c..(b - a)
    PROVE  SubSeq(SubSeq(s, a + 1, b), c + 1, d) = SubSeq(s, a + c + 1, a + d)
<1> DEFINE t == SubSeq(s, a + 1, b)
           u == SubSeq(t, c + 1, d)
           v == SubSeq(s, a + c + 1, a + d)
<1>1. /\ a \in Nat /\ b \in Nat /\ c \in Nat /\ d \in Nat /\ a <= b /\ c <= d /\ d <= b - a
      /\ b <= Len(s) /\ Len(s) \in Nat
    OBVIOUS
<1>2. t \in Seq(S) /\ Len(t) = b - a /\ \A i \in 1..(b - a) : t[i] = s[a + i]
    BY Stretch
<1> HIDE DEF t
<1>3. u \in Seq(S) /\ Len(u) = d - c /\ \A i \in 1..(d - c) : u[i] = t[c + i]
  <2>1. c \in 0..Len(t) /\ d \in c..Len(t)
      BY <1>1, <1>2
  <2> QED BY <1>2, <2>1, Stretch
<1>4. v \in Seq(S) /\ Len(v) = d - c /\ \A i \in 1..(d - c) : v[i] = s[a + c + i]
  <2> DEFINE e == a + c
             f == a + d
  <2>1. e \in 0..Len(s) /\ f \in e..Len(s) /\ f - e = d - c
      BY <1>1
  <2>2. v = SubSeq(s, e + 1, f)
      OBVIOUS
  <2>3. \A i \in 1..(d - c) : a + c + i = e + i
      OBVIOUS
  <2> HIDE DEF e, f, v
  <2>4. v \in Seq(S) /\ Len(v) = f - e /\ \A i \in 1..(f - e) : v[i] = s[e + i]
      BY <2>1, <2>2, Stretch
  <2> QED BY <2>1, <2>3, <2>4
<1> HIDE DEF u, v
<1>5. ASSUME NEW i \in 1..(d - c) PROVE u[i] = v[i]
  <2>1. c + i \in 1..(b - a) /\ a + (c + i) = a + c + i
      BY <1>1
  <2>2. t[c + i] = s[a + (c + i)]
      BY <1>2, <2>1
  <2> QED BY <1>3, <1>4, <2>1, <2>2
<1>6. u = v
  <2>1. Len(u) = Len(v) /\ \A i \in 1..Len(u) : u[i] = v[i]
      BY <1>3, <1>4, <1>5
  <2> QED BY <1>3, <1>4, <2>1, SeqEqual
<1> QED BY <1>6 DEF t, u, v

LEMMA StretchesMeet ==
    ASSUME NEW S, NEW s \in Seq(S), NEW a \in 0..Len(s), NEW b \in a..Len(s), NEW c \in b..Len(s)
    PROVE  SubSeq(s, a + 1, b) \o SubSeq(s, b + 1, c) = SubSeq(s, a + 1, c)
<1> DEFINE m == a + 1
<1>1. m \in 1..(Len(s) + 1) /\ b \in (m - 1)..Len(s) /\ c \in b..Len(s)
    OBVIOUS
<1> HIDE DEF m
<1>2. SubSeq(s, m, b) \o SubSeq(s, b + 1, c) = SubSeq(s, m, c)
    BY <1>1, ConcatAdjacentSubSeq
<1> QED BY <1>2 DEF m

\* A set of indices that holds with each all those before it.
LEMMA InitialIndices ==
    ASSUME NEW n \in Nat, NEW D \in SUBSET (1..n), \A i \in D : 1..i \subseteq D
    PROVE  Cardinality(D) \in 0..n /\ D = 1..Cardinality(D)
<1> DEFINE k == Cardinality(D)
<1>1. IsFiniteSet(1..n) /\ Cardinality(1..n) = n
    BY FS_Interval
<1>2. IsFiniteSet(D) /\ k \in Nat /\ k <= n
    BY <1>1, FS_Subset, FS_CardinalityType
<1> HIDE DEF k
<1>3. ASSUME NEW i \in D PROVE i \in 1..k
  <2>1. i \in 1..n /\ Cardinality(1..i) = i
      BY FS_Interval
  <2>2. 1..i \in SUBSET D
      OBVIOUS
  <2>3. Cardinality(1..i) <= Cardinality(D)
      BY <1>2, <2>2, FS_Subset
  <2> QED BY <1>2, <2>1, <2>3 DEF k
<1>4. IsFiniteSet(1..k) /\ Cardinality(1..k) = k
    BY <1>2, FS_Interval
<1>5. D \in SUBSET (1..k)
    BY <1>3
<1>6. 1..k = D
    BY <1>4, <1>5, FS_Subset DEF k
<1> QED BY <1>2, <1>6 DEF k

\* A sequence of elements of a set is one of elements of a larger set.
LEMMA Widened ==
    ASSUME NEW S, NEW T, S \subseteq T, NEW s \in Seq(S)
    PROVE  s \in Seq(T)
<1>1. Len(s) \in Nat /\ DOMAIN s = 1..Len(s) /\ \A i \in 1..Len(s) : s[i] \in T
    BY ElementOfSeq
<1> QED BY <1>1
===============================================================================
