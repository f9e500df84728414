------------------------------ MODULE SumProofs ------------------------------
(***************************************************************************)
(* Sums over finite sets (MapThenSumSet of the community modules): they do *)
(* not depend on the order in which their terms are chosen, may be         *)
(* regrouped and re-indexed.  Least, greatest and i-th numbers.            *)
(*                                                                         *)
(* What a fold computes needs induction.  Every argument here is by a      *)
(* least counterexample, which WFMin gives, as a set of sets for which a   *)
(* claim holds (SetInduction).                                             *)
(***************************************************************************)
EXTENDS FiniteSetsExt, TLAPS, FiniteSetTheorems, WellFoundedInduction

LEMMA LessRelation ==
    ASSUME NEW x \in Nat, NEW y \in Nat, x < y
    PROVE  <<x, y>> \in OpToRel(<, Nat)
BY DEF OpToRel

\* A set of numbers has a least one.
LEMMA Least ==
    ASSUME NEW T, T \subseteq Nat, T # {}
    PROVE  \E x \in T : \A y \in T : x <= y
<1>1. PICK x \in T : \A y \in T : ~(<<y, x>> \in OpToRel(<, Nat))
  <2> HIDE DEF OpToRel
  <2> QED BY WFMin, NatLessThanWellFounded
<1>2. \A y \in T : ~(y < x)
  BY <1>1, LessRelation
<1>3. x \in Nat /\ \A y \in T : y \in Nat
  OBVIOUS
<1> QED BY <1>2, <1>3

\* A finite set belongs to P if P has the empty set and, with a subset, that with one
\* element more.
LEMMA SetInduction ==
    ASSUME NEW S, IsFiniteSet(S), NEW P, {} \in P,
           \A s \in SUBSET S : \A x \in S \ s : s \in P => s \cup {x} \in P
    PROVE  S \in P
<1> SUFFICES ASSUME S \notin P PROVE FALSE
  OBVIOUS
<1> DEFINE missing == {Cardinality(s) : s \in (SUBSET S) \ P}
<1>1. \A s \in SUBSET S : IsFiniteSet(s) /\ Cardinality(s) \in Nat
  BY FS_Subset, FS_CardinalityType
<1>2. missing \subseteq Nat /\ missing # {}
  BY <1>1
<1>3. PICK n \in missing : \A m \in missing : n <= m
  <2> HIDE DEF missing
  <2> QED BY <1>2, Least
<1>4. PICK s \in (SUBSET S) \ P : n = Cardinality(s)
  BY <1>3
<1>5. PICK x \in s : TRUE
  BY <1>4
<1>6. Cardinality(s \ {x}) = Cardinality(s) - 1 /\ s \ {x} \in SUBSET S
  BY <1>1, <1>4, <1>5, FS_RemoveElement
<1>7. s \ {x} \in P
  <2> SUFFICES ASSUME s \ {x} \notin P PROVE FALSE
    OBVIOUS
  <2>1. Cardinality(s \ {x}) \in missing
    BY <1>6
  <2>2. n <= Cardinality(s \ {x}) /\ Cardinality(s) \in Nat
    BY <1>1, <1>3, <1>4, <2>1
  <2> QED BY <1>4, <1>6, <2>2
<1>8. (s \ {x}) \cup {x} = s /\ x \in S \ (s \ {x})
  BY <1>4, <1>5
<1> QED BY <1>4, <1>6, <1>7, <1>8

LEMMA FiniteImage ==
    ASSUME NEW f, NEW A, IsFiniteSet(A)
    PROVE  IsFiniteSet({f[a] : a \in A})
<1> DEFINE Image(s) == {f[a] : a \in s}
           P == {s \in SUBSET A : IsFiniteSet(Image(s))}
<1>1. {} \in P
  <2>1. Image({}) = {}
    OBVIOUS
  <2> HIDE DEF Image
  <2> QED BY <2>1, FS_EmptySet
<1>2. ASSUME NEW s \in SUBSET A, NEW a \in A \ s, s \in P
      PROVE  s \cup {a} \in P
  <2>1. Image(s \cup {a}) = Image(s) \cup {f[a]}
    OBVIOUS
  <2>2. IsFiniteSet(Image(s))
    BY <1>2
  <2>3. IsFiniteSet(Image(s \cup {a}))
    <3> DEFINE T == Image(s)
    <3>1. IsFiniteSet(T \cup {f[a]})
      <4> HIDE DEF Image, T
      <4> SUFFICES IsFiniteSet(T)
        BY FS_AddElement
      <4> QED BY <2>2 DEF T
    <3> QED BY <2>1, <3>1
  <2> QED BY <1>2, <2>3
<1>3. A \in P
  <2> HIDE DEF P
  <2> QED BY <1>1, <1>2, SetInduction
<1> QED BY <1>3

\* A finite set of numbers has a greatest one.
LEMMA Greatest ==
    ASSUME NEW S, IsFiniteSet(S), S \subseteq Nat, S # {}
    PROVE  \E x \in S : \A y \in S : y <= x
<1> DEFINE Has(s) == \E x \in s : \A y \in s : y <= x
           P == {s \in SUBSET S : s # {} => Has(s)}
<1>1. {} \in P
  OBVIOUS
<1>2. ASSUME NEW s \in SUBSET S, NEW n \in S \ s, s \in P
      PROVE  s \cup {n} \in P
  <2>1. CASE s = {}
    BY <2>1
  <2>2. CASE s # {}
    <3>1. PICK x \in s : \A y \in s : y <= x
      BY <1>2, <2>2
    <3>2. CASE n <= x
      BY <3>1, <3>2
    <3>3. CASE ~(n <= x)
      <4>1. \A y \in s \cup {n} : y <= n
        BY <3>1, <3>3
      <4> QED BY <4>1
    <3> QED BY <3>2, <3>3
  <2> QED BY <2>1, <2>2
<1>3. S \in P
  <2> HIDE DEF P
  <2> QED BY <1>1, <1>2, SetInduction
<1> QED BY <1>3

Smaller(D, s, v) == {k \in D : s[k] < v}
NoLarger(D, s, v) == {k \in D : s[k] <= v}

\* At a number's place in a sequence's order, fewer are below it, and as many not above.
LEMMA OrderStatistic ==
    ASSUME NEW D, IsFiniteSet(D), NEW s \in [D -> Nat], NEW i \in 1 .. Cardinality(D)
    PROVE  \E j \in D : /\ Cardinality(Smaller(D, s, s[j])) < i
                       /\ Cardinality(NoLarger(D, s, s[j])) >= i
<1> DEFINE Below(v) == Smaller(D, s, v)
           NotAbove(v) == NoLarger(D, s, v)
           T == {v \in {s[j] : j \in D} : Cardinality(NotAbove(v)) >= i}
<1>1. \A v : /\ IsFiniteSet(Below(v)) /\ Cardinality(Below(v)) \in Nat
             /\ IsFiniteSet(NotAbove(v)) /\ Cardinality(NotAbove(v)) \in Nat
  <2> SUFFICES ASSUME NEW v
               PROVE  IsFiniteSet(Below(v)) /\ IsFiniteSet(NotAbove(v))
    BY FS_CardinalityType
  <2>1. Below(v) \subseteq D /\ NotAbove(v) \subseteq D
    BY DEF Smaller, NoLarger
  <2> HIDE DEF Below, NotAbove
  <2> QED BY <2>1, FS_Subset
<1>2. \A E \in SUBSET D : E # {} => \E j \in E : \A k \in E : s[k] <= s[j]
  <2> SUFFICES ASSUME NEW E \in SUBSET D, E # {}
               PROVE  \E j \in E : \A k \in E : s[k] <= s[j]
    OBVIOUS
  <2> DEFINE values == {s[j] : j \in E}
  <2>1. IsFiniteSet(E)
    BY FS_Subset
  <2>2. IsFiniteSet(values)
    BY <2>1, FiniteImage
  <2>3. values \subseteq Nat /\ values # {}
    OBVIOUS
  <2>4. PICK x \in values : \A y \in values : y <= x
    <3> HIDE DEF values
    <3> QED BY <2>2, <2>3, Greatest
  <2> QED BY <2>4
<1>3. T \subseteq Nat
  OBVIOUS
<1>4. T # {}
  <2>1. Cardinality(D) \in Nat /\ D # {}
    BY FS_CardinalityType, FS_EmptySet
  <2>2. PICK j \in D : \A k \in D : s[k] <= s[j]
    BY <1>2, <2>1
  <2>3. NotAbove(s[j]) = D
    BY <2>2 DEF NoLarger
  <2>4. Cardinality(NotAbove(s[j])) >= i
    BY <2>1, <2>3
  <2> QED BY <2>4
<1>5. PICK v \in T : \A w \in T : v <= w
  <2> HIDE DEF T
  <2> QED BY <1>3, <1>4, Least
<1>6. PICK j \in D : v = s[j]
  OBVIOUS
<1>7. Cardinality(Below(v)) < i
  <2> SUFFICES ASSUME ~(Cardinality(Below(v)) < i) PROVE FALSE
    OBVIOUS
  <2>1. Below(v) # {}
    <3>1. Cardinality(Below(v)) # 0
      BY <1>1
    <3> HIDE DEF Below
    <3> QED BY <3>1, FS_EmptySet
  <2>2. PICK k \in Below(v) : \A m \in Below(v) : s[m] <= s[k]
    <3>1. Below(v) \in SUBSET D
      BY DEF Smaller
    <3> HIDE DEF Below
    <3> QED BY <1>2, <2>1, <3>1
  <2>3. Below(v) \subseteq NotAbove(s[k])
    BY <2>2 DEF Smaller, NoLarger
  <2>4. Cardinality(Below(v)) <= Cardinality(NotAbove(s[k]))
    <3> HIDE DEF Below, NotAbove
    <3> QED BY <1>1, <2>3, FS_Subset
  <2>5. Cardinality(NotAbove(s[k])) >= i
    <3> HIDE DEF Below, NotAbove
    <3> QED BY <1>1, <2>4
  <2>6. s[k] \in T
    <3>1. k \in D
      BY DEF Smaller
    <3> QED BY <2>5, <3>1
  <2>7. v <= s[k] /\ s[k] < v /\ s[k] \in Nat /\ v \in Nat
    BY <1>3, <1>5, <2>2, <2>6 DEF Smaller
  <2> QED BY <2>7
<1>8. Cardinality(NotAbove(v)) >= i
  BY <1>5
<1> QED BY <1>6, <1>7, <1>8

-----------------------------------------------------------------------------
(* The sum's definition. *)

\* The sum of g over a set.
SumOf(g, S) == MapThenSumSet(LAMBDA x : g[x], S)

Pick(s) == CHOOSE x \in s : TRUE
Term(g, F, s) == IF s = {} THEN 0 ELSE g[Pick(s)] + F[s \ {Pick(s)}]
IsSum(g, F, D) == F = [s \in D |-> Term(g, F, s)]

LEMMA SumUnfold ==
    ASSUME NEW g, NEW S
    PROVE  SumOf(g, S) = (CHOOSE F : IsSum(g, F, SUBSET S))[S]
BY DEF SumOf, MapThenSumSet, MapThenFoldSet, IsSum, Term, Pick

LEMMA PickIn == ASSUME NEW s, s # {} PROVE Pick(s) \in s
BY DEF Pick

\* The recursive function that the definition chooses exists.
LEMMA SumExists ==
    ASSUME NEW g, NEW S, IsFiniteSet(S)
    PROVE  \E F : IsSum(g, F, SUBSET S)
<1> DEFINE Upto(n) == {s \in SUBSET S : Cardinality(s) <= n}
           None(n) == ~\E F : IsSum(g, F, Upto(n))
           N == {n \in Nat : None(n)}
<1>1. \A s \in SUBSET S : IsFiniteSet(s) /\ Cardinality(s) \in Nat
  BY FS_Subset, FS_CardinalityType
<1>2. N = {}
  <2> SUFFICES ASSUME N # {} PROVE FALSE
    OBVIOUS
  <2>1. PICK n \in N : \A m \in N : n <= m
    <3>1. N \subseteq Nat /\ N # {}
      OBVIOUS
    <3> HIDE DEF N
    <3> QED BY <3>1, Least
  <2>2. CASE n = 0
    <3> DEFINE F == [s \in Upto(0) |-> 0]
    <3>1. \A s \in Upto(0) : s = {}
      BY <1>1, FS_EmptySet
    <3>2. F = [s \in Upto(0) |-> Term(g, F, s)]
      BY <3>1 DEF Term
    <3> QED BY <2>1, <2>2, <3>2 DEF IsSum
  <2>3. CASE n # 0
    <3>1. n - 1 \in Nat /\ n - 1 \notin N
      <4>1. n \in Nat
        BY <2>1
      <4> HIDE DEF N
      <4> QED BY <2>1, <2>3, <4>1
    <3>2. PICK F : IsSum(g, F, Upto(n - 1))
      BY <3>1
    <3> DEFINE G == [s \in Upto(n) |-> Term(g, F, s)]
    <3>3. \A s \in Upto(n) : s # {} => s \ {Pick(s)} \in Upto(n - 1)
      <4> SUFFICES ASSUME NEW s \in Upto(n), s # {} PROVE s \ {Pick(s)} \in Upto(n - 1)
        OBVIOUS
      <4>1. Cardinality(s \ {Pick(s)}) = Cardinality(s) - 1
        BY <1>1, PickIn, FS_RemoveElement
      <4>2. Cardinality(s) \in Nat /\ Cardinality(s) <= n /\ n \in Nat
        BY <1>1
      <4> QED BY <4>1, <4>2
    <3>4. \A s \in Upto(n - 1) : s \in Upto(n) /\ G[s] = F[s]
      <4> SUFFICES ASSUME NEW s \in Upto(n - 1) PROVE s \in Upto(n) /\ G[s] = F[s]
        OBVIOUS
      <4>1. Cardinality(s) \in Nat /\ Cardinality(s) <= n - 1 /\ n \in Nat
        BY <1>1
      <4>2. s \in Upto(n)
        BY <4>1
      <4>3. F[s] = Term(g, F, s)
        <5> HIDE DEF Upto
        <5> QED BY <3>2 DEF IsSum
      <4> HIDE DEF Upto
      <4> QED BY <4>2, <4>3
    <3>5. \A s \in Upto(n) : Term(g, F, s) = Term(g, G, s)
      <4> HIDE DEF Upto, G
      <4> QED BY <3>3, <3>4 DEF Term
    <3>6. IsSum(g, G, Upto(n))
      <4> HIDE DEF Upto
      <4> QED BY <3>5 DEF IsSum
    <3> HIDE DEF Upto, G
    <3> QED BY <2>1, <3>6
  <2> QED BY <2>2, <2>3
<1>3. Upto(Cardinality(S)) = SUBSET S
  BY <1>1, FS_Subset
<1>4. Cardinality(S) \in Nat
  BY FS_CardinalityType
<1>5. \E F : IsSum(g, F, Upto(Cardinality(S)))
  <2> HIDE DEF Upto
  <2> QED BY <1>2, <1>4
<1> QED BY <1>3, <1>5

LEMMA SumIsSum ==
    ASSUME NEW g, NEW S, IsFiniteSet(S)
    PROVE  \E F : IsSum(g, F, SUBSET S) /\ SumOf(g, S) = F[S]
BY SumUnfold, SumExists

\* Two such functions agree where both are defined, if their terms do.
LEMMA SumsAgree ==
    ASSUME NEW g, NEW h, NEW F, NEW G, NEW S, NEW T, NEW R,
           IsFiniteSet(R), R \subseteq S, R \subseteq T,
           IsSum(g, F, SUBSET S), IsSum(h, G, SUBSET T),
           \A x \in R : g[x] = h[x]
    PROVE  F[R] = G[R]
<1> DEFINE N == {Cardinality(s) : s \in {r \in SUBSET R : F[r] # G[r]}}
<1>1. \A s \in SUBSET R : IsFiniteSet(s) /\ Cardinality(s) \in Nat
  BY FS_Subset, FS_CardinalityType
<1>2. SUFFICES ASSUME F[R] # G[R] PROVE FALSE
  OBVIOUS
<1>3. PICK n \in N : \A m \in N : n <= m
  <2>1. N \subseteq Nat /\ N # {}
    BY <1>1, <1>2
  <2> HIDE DEF N
  <2> QED BY <2>1, Least
<1>4. PICK s \in SUBSET R : F[s] # G[s] /\ n = Cardinality(s)
  BY <1>3
<1>5. F[s] = Term(g, F, s) /\ G[s] = Term(h, G, s)
  BY <1>4 DEF IsSum
<1>6. s # {}
  BY <1>4, <1>5 DEF Term
<1>7. Pick(s) \in R /\ g[Pick(s)] = h[Pick(s)]
  BY <1>4, <1>6, PickIn
<1>8. Cardinality(s \ {Pick(s)}) = n - 1 /\ n \in Nat
  BY <1>1, <1>4, <1>6, PickIn, FS_RemoveElement
<1>9. F[s \ {Pick(s)}] = G[s \ {Pick(s)}]
  <2> SUFFICES ASSUME F[s \ {Pick(s)}] # G[s \ {Pick(s)}] PROVE FALSE
    OBVIOUS
  <2>1. s \ {Pick(s)} \in SUBSET R
    BY <1>4
  <2>2. n - 1 \in N
    BY <1>8, <2>1
  <2>3. n <= n - 1
    BY <1>3, <2>2
  <2> QED BY <1>8, <2>3
<1> QED BY <1>4, <1>5, <1>6, <1>7, <1>9 DEF Term

\* Only the terms of the set matter.
LEMMA SumCongruence ==
    ASSUME NEW g, NEW h, NEW S, IsFiniteSet(S), \A x \in S : g[x] = h[x]
    PROVE  SumOf(g, S) = SumOf(h, S)
<1>1. PICK F : IsSum(g, F, SUBSET S) /\ SumOf(g, S) = F[S]
  BY SumIsSum
<1>2. PICK G : IsSum(h, G, SUBSET S) /\ SumOf(h, S) = G[S]
  BY SumIsSum
<1> QED BY <1>1, <1>2, SumsAgree

LEMMA SumChosen ==
    ASSUME NEW g, NEW S, IsFiniteSet(S), NEW F, IsSum(g, F, SUBSET S)
    PROVE  F[S] = SumOf(g, S)
<1>1. PICK G : IsSum(g, G, SUBSET S) /\ SumOf(g, S) = G[S]
  BY SumIsSum
<1> QED BY <1>1, SumsAgree

LEMMA SumEmpty == ASSUME NEW g PROVE SumOf(g, {}) = 0
<1>1. PICK F : IsSum(g, F, SUBSET {}) /\ SumOf(g, {}) = F[{}]
  BY SumIsSum, FS_EmptySet
<1> QED BY <1>1 DEF IsSum, Term

LEMMA SumPick ==
    ASSUME NEW g, NEW S, IsFiniteSet(S), S # {}
    PROVE  SumOf(g, S) = g[Pick(S)] + SumOf(g, S \ {Pick(S)})
<1> DEFINE R == S \ {Pick(S)}
<1>1. IsFiniteSet(R) /\ R \subseteq S
  BY FS_Subset
<1>2. PICK F : IsSum(g, F, SUBSET S) /\ SumOf(g, S) = F[S]
  BY SumIsSum
<1>3. PICK G : IsSum(g, G, SUBSET R) /\ SumOf(g, R) = G[R]
  BY <1>1, SumIsSum
<1>4. F[R] = G[R]
  <2> HIDE DEF R
  <2> QED BY <1>1, <1>2, <1>3, SumsAgree
<1>5. F[S] = Term(g, F, S)
  BY <1>2 DEF IsSum
<1> QED BY <1>2, <1>3, <1>4, <1>5 DEF Term

-----------------------------------------------------------------------------
(* What sums are. *)

LEMMA SumType ==
    ASSUME NEW g, NEW S, IsFiniteSet(S), \A x \in S : g[x] \in Int
    PROVE  SumOf(g, S) \in Int
<1> DEFINE P == {s \in SUBSET S : SumOf(g, s) \in Int}
<1> SUFFICES S \in P
  OBVIOUS
<1> DEFINE N == {Cardinality(s) : s \in (SUBSET S) \ P}
<1>1. \A s \in SUBSET S : IsFiniteSet(s) /\ Cardinality(s) \in Nat
  BY FS_Subset, FS_CardinalityType
<1>2. SUFFICES ASSUME S \notin P PROVE FALSE
  OBVIOUS
<1>3. PICK n \in N : \A m \in N : n <= m
  <2>1. N \subseteq Nat /\ N # {}
    BY <1>1, <1>2
  <2> HIDE DEF N
  <2> QED BY <2>1, Least
<1>4. PICK s \in (SUBSET S) \ P : n = Cardinality(s)
  BY <1>3
<1>5. s # {}
  BY <1>4, SumEmpty
<1>6. SumOf(g, s) = g[Pick(s)] + SumOf(g, s \ {Pick(s)}) /\ Pick(s) \in s
  BY <1>1, <1>4, <1>5, SumPick, PickIn
<1>7. Cardinality(s \ {Pick(s)}) = n - 1 /\ n \in Nat
  BY <1>1, <1>4, <1>6, FS_RemoveElement
<1>8. s \ {Pick(s)} \in P
  <2> SUFFICES ASSUME s \ {Pick(s)} \notin P PROVE FALSE
    OBVIOUS
  <2>1. s \ {Pick(s)} \in (SUBSET S) \ P
    BY <1>4
  <2>2. n - 1 \in N
    <3> HIDE DEF P
    <3> QED BY <1>7, <2>1
  <2>3. n <= n - 1
    BY <1>3, <2>2
  <2> QED BY <1>7, <2>3
<1>9. SumOf(g, s) \in Int
  BY <1>4, <1>6, <1>8
<1> QED BY <1>4, <1>9

\* Any term may be taken first.
LEMMA SumStep ==
    ASSUME NEW g, NEW S, IsFiniteSet(S), \A x \in S : g[x] \in Int, NEW a \in S
    PROVE  SumOf(g, S) = g[a] + SumOf(g, S \ {a})
<1> DEFINE Right(s) == \A x \in s : SumOf(g, s) = g[x] + SumOf(g, s \ {x})
           N == {Cardinality(s) : s \in {r \in SUBSET S : ~Right(r)}}
<1>1. \A s \in SUBSET S : IsFiniteSet(s) /\ Cardinality(s) \in Nat
  BY FS_Subset, FS_CardinalityType
<1>2. SUFFICES ASSUME ~Right(S) PROVE FALSE
  OBVIOUS
<1>3. PICK n \in N : \A m \in N : n <= m
  <2>1. N \subseteq Nat /\ N # {}
    <3> HIDE DEF Right
    <3> QED BY <1>1, <1>2
  <2> HIDE DEF N
  <2> QED BY <2>1, Least
<1>4. PICK s \in SUBSET S : ~Right(s) /\ n = Cardinality(s)
  <2> HIDE DEF Right
  <2> QED BY <1>3
<1>5. PICK x \in s : SumOf(g, s) # g[x] + SumOf(g, s \ {x})
  BY <1>4
<1> DEFINE p == Pick(s)
<1>6. p \in s /\ SumOf(g, s) = g[p] + SumOf(g, s \ {p})
  BY <1>1, <1>4, <1>5, SumPick, PickIn
<1>7. p # x
  BY <1>5, <1>6
<1>8. ASSUME NEW y \in s PROVE Right(s \ {y})
  <2>1. Cardinality(s \ {y}) = n - 1 /\ n \in Nat
    BY <1>1, <1>4, FS_RemoveElement
  <2> SUFFICES ASSUME ~Right(s \ {y}) PROVE FALSE
    OBVIOUS
  <2>2. n - 1 \in N
    <3>1. s \ {y} \in SUBSET S
      BY <1>4
    <3> HIDE DEF Right
    <3> QED BY <2>1, <3>1
  <2>3. n <= n - 1
    <3> HIDE DEF N
    <3> QED BY <1>3, <2>2
  <2> QED BY <2>1, <2>3
<1> DEFINE r == (s \ {p}) \ {x}
<1>9. SumOf(g, s \ {p}) = g[x] + SumOf(g, r)
  BY <1>6, <1>7, <1>8
<1>10. SumOf(g, s \ {x}) = g[p] + SumOf(g, r)
  <2>1. r = (s \ {x}) \ {p}
    OBVIOUS
  <2> QED BY <1>6, <1>7, <1>8, <2>1
<1>11. SumOf(g, r) \in Int /\ g[p] \in Int /\ g[x] \in Int
  <2>1. r \in SUBSET S /\ p \in S /\ x \in S
    BY <1>4, <1>6
  <2> HIDE DEF r, p
  <2> QED BY <1>1, <2>1, SumType
<1> HIDE DEF r, p
<1> QED BY <1>5, <1>6, <1>9, <1>10, <1>11

\* The same the other way round.
LEMMA SumAdd ==
    ASSUME NEW g, NEW S, IsFiniteSet(S), NEW a, a \notin S,
           \A x \in S \cup {a} : g[x] \in Int
    PROVE  SumOf(g, S \cup {a}) = g[a] + SumOf(g, S)
<1>1. IsFiniteSet(S \cup {a}) /\ (S \cup {a}) \ {a} = S
  BY FS_AddElement
<1> QED BY <1>1, SumStep

LEMMA SumNat ==
    ASSUME NEW g, NEW S, IsFiniteSet(S), \A x \in S : g[x] \in Nat
    PROVE  SumOf(g, S) \in Nat
<1> DEFINE P == {s \in SUBSET S : SumOf(g, s) \in Nat}
<1>1. {} \in P
  BY SumEmpty
<1>2. ASSUME NEW s \in SUBSET S, NEW x \in S \ s, s \in P
      PROVE  s \cup {x} \in P
  <2>1. SumOf(g, s \cup {x}) = g[x] + SumOf(g, s)
    BY SumAdd, FS_Subset
  <2> QED BY <1>2, <2>1
<1>3. S \in P
  <2> HIDE DEF P
  <2> QED BY <1>1, <1>2, SetInduction
<1> QED BY <1>3

\* A sum over two disjoint sets.
LEMMA SumUnion ==
    ASSUME NEW g, NEW A, NEW B, IsFiniteSet(A), IsFiniteSet(B), A \cap B = {},
           \A x \in A \cup B : g[x] \in Int
    PROVE  SumOf(g, A \cup B) = SumOf(g, A) + SumOf(g, B)
<1> DEFINE P == {s \in SUBSET B : SumOf(g, A \cup s) = SumOf(g, A) + SumOf(g, s)}
<1>0. SumOf(g, A) \in Int
  BY SumType
<1>1. {} \in P
  BY <1>0, SumEmpty
<1>2. ASSUME NEW s \in SUBSET B, NEW x \in B \ s, s \in P
      PROVE  s \cup {x} \in P
  <2>1. IsFiniteSet(s) /\ IsFiniteSet(A \cup s) /\ x \notin A \cup s
    BY FS_Subset, FS_Union
  <2>2. SumOf(g, s \cup {x}) = g[x] + SumOf(g, s)
    BY <2>1, SumAdd
  <2>3. SumOf(g, (A \cup s) \cup {x}) = g[x] + SumOf(g, A \cup s)
    BY <2>1, SumAdd
  <2>4. A \cup (s \cup {x}) = (A \cup s) \cup {x}
    OBVIOUS
  <2>5. SumOf(g, s) \in Int /\ g[x] \in Int
    BY <2>1, SumType
  <2>6. SumOf(g, A \cup s) = SumOf(g, A) + SumOf(g, s)
    BY <1>2
  <2>7. SumOf(g, A \cup (s \cup {x})) = SumOf(g, A) + SumOf(g, s \cup {x})
    <3>1. SumOf(g, A \cup (s \cup {x})) = g[x] + (SumOf(g, A) + SumOf(g, s))
      BY <2>3, <2>4, <2>6
    <3> QED BY <1>0, <2>2, <2>5, <3>1
  <2> QED BY <1>2, <2>7
<1>3. B \in P
  <2> HIDE DEF P
  <2> QED BY <1>1, <1>2, SetInduction
<1> QED BY <1>3

\* A sum by groups: the sums of those that h maps to each of a set of values.
LEMMA SumByGroup ==
    ASSUME NEW g, NEW h, NEW S, NEW Y, IsFiniteSet(S), IsFiniteSet(Y),
           \A x \in S : g[x] \in Int /\ h[x] \in Y
    PROVE  SumOf(g, S) = SumOf([y \in Y |-> SumOf(g, {x \in S : h[x] = y})], Y)
<1> DEFINE G == [y \in Y |-> SumOf(g, {x \in S : h[x] = y})]
           Of(s) == {x \in S : h[x] \in s}
           P == {s \in SUBSET Y : SumOf(g, Of(s)) = SumOf(G, s)}
<1>0. \A y \in Y : G[y] \in Int
  <2> SUFFICES ASSUME NEW y \in Y PROVE SumOf(g, {x \in S : h[x] = y}) \in Int
    OBVIOUS
  <2>1. IsFiniteSet({x \in S : h[x] = y})
    BY FS_Subset
  <2> QED BY <2>1, SumType
<1>1. {} \in P
  <2>1. Of({}) = {}
    OBVIOUS
  <2> HIDE DEF Of
  <2> QED BY <2>1, SumEmpty
<1>2. ASSUME NEW s \in SUBSET Y, NEW y \in Y \ s, s \in P
      PROVE  s \cup {y} \in P
  <2> DEFINE one == {x \in S : h[x] = y}
  <2>1. /\ Of(s \cup {y}) = Of(s) \cup one /\ Of(s) \cap one = {}
        /\ Of(s) \subseteq S /\ one \subseteq S
    OBVIOUS
  <2>2. IsFiniteSet(Of(s)) /\ IsFiniteSet(one) /\ IsFiniteSet(s)
    <3> HIDE DEF Of, one
    <3> QED BY <2>1, FS_Subset
  <2>3. SumOf(g, Of(s \cup {y})) = SumOf(g, Of(s)) + SumOf(g, one)
    <3>1. \A x \in Of(s) \cup one : g[x] \in Int
      BY <2>1
    <3> HIDE DEF Of, one
    <3> QED BY <2>1, <2>2, <3>1, SumUnion
  <2>4. SumOf(G, s \cup {y}) = G[y] + SumOf(G, s)
    <3>1. \A x \in s \cup {y} : G[x] \in Int
      <4> HIDE DEF G
      <4> QED BY <1>0
    <3> HIDE DEF G
    <3> QED BY <2>2, <3>1, SumAdd
  <2>5. G[y] = SumOf(g, one) /\ SumOf(g, Of(s)) = SumOf(G, s)
    BY <1>2
  <2>6. SumOf(g, Of(s)) \in Int /\ SumOf(g, one) \in Int
    <3>1. \A x \in Of(s) \cup one : g[x] \in Int
      BY <2>1
    <3> HIDE DEF Of, one
    <3> QED BY <2>2, <3>1, SumType
  <2> HIDE DEF Of, G, one
  <2> QED BY <2>3, <2>4, <2>5, <2>6
<1>3. Y \in P
  <2> HIDE DEF P
  <2> QED BY <1>1, <1>2, SetInduction
<1>4. Of(Y) = S
  OBVIOUS
<1> HIDE DEF Of, G
<1> QED BY <1>3, <1>4 DEF G

\* The members of a set that h takes to y, and the sums over each that make up the whole.
ClassOf(S, h, y) == {x \in S : h[x] = y}

LEMMA SumByClass ==
    ASSUME NEW g, NEW h, NEW S, NEW Y, IsFiniteSet(S), IsFiniteSet(Y),
           \A x \in S : g[x] \in Int /\ h[x] \in Y,
           NEW G, \A y \in Y : G[y] = SumOf(g, ClassOf(S, h, y))
    PROVE  SumOf(g, S) = SumOf(G, Y)
<1> DEFINE H == [y \in Y |-> SumOf(g, {x \in S : h[x] = y})]
<1>1. SumOf(g, S) = SumOf(H, Y)
  <2> HIDE DEF H
  <2> QED BY SumByGroup DEF H
<1>2. \A y \in Y : H[y] = G[y]
  BY DEF ClassOf
<1>3. SumOf(H, Y) = SumOf(G, Y)
  <2> HIDE DEF H
  <2> QED BY <1>2, SumCongruence
<1> HIDE DEF H
<1> QED BY <1>1, <1>3

ImageOf(f, A) == {f[a] : a \in A}

\* A sum over the image of a set under an injection.
LEMMA SumImage ==
    ASSUME NEW g, NEW f, NEW A, IsFiniteSet(A),
           NEW G, \A a \in A : g[f[a]] = G[a] /\ G[a] \in Int,
           \A a, b \in A : f[a] = f[b] => a = b
    PROVE  SumOf(g, ImageOf(f, A)) = SumOf(G, A)
<1> DEFINE Image(s) == {f[a] : a \in s}
           P == {s \in SUBSET A : SumOf(g, Image(s)) = SumOf(G, s)}
<1>1. {} \in P
  <2>1. Image({}) = {}
    OBVIOUS
  <2> HIDE DEF Image
  <2> QED BY <2>1, SumEmpty
<1>2. ASSUME NEW s \in SUBSET A, NEW a \in A \ s, s \in P
      PROVE  s \cup {a} \in P
  <2>1. Image(s \cup {a}) = Image(s) \cup {f[a]} /\ f[a] \notin Image(s)
    OBVIOUS
  <2>2. IsFiniteSet(s) /\ IsFiniteSet(Image(s))
    <3>1. IsFiniteSet(s)
      BY FS_Subset
    <3> QED BY <3>1, FiniteImage
  <2>3. SumOf(g, Image(s) \cup {f[a]}) = g[f[a]] + SumOf(g, Image(s))
    <3>1. \A x \in Image(s) \cup {f[a]} : g[x] \in Int
      OBVIOUS
    <3> HIDE DEF Image
    <3> QED BY <2>1, <2>2, <3>1, SumAdd
  <2>4. SumOf(G, s \cup {a}) = G[a] + SumOf(G, s)
    <3>1. \A x \in s \cup {a} : G[x] \in Int
      OBVIOUS
    <3> QED BY <2>2, <3>1, SumAdd
  <2>5. G[a] = g[f[a]] /\ SumOf(g, Image(s)) = SumOf(G, s)
    BY <1>2
  <2> HIDE DEF Image
  <2> QED BY <2>1, <2>3, <2>4, <2>5
<1>3. A \in P
  <2> HIDE DEF P
  <2> QED BY <1>1, <1>2, SetInduction
<1> QED BY <1>3 DEF ImageOf

\* A set has as many members as ones to add.
LEMMA SumOfOnes ==
    ASSUME NEW S, IsFiniteSet(S)
    PROVE  Cardinality(S) = SumOf([x \in S |-> 1], S)
<1> DEFINE G == [x \in S |-> 1]
           P == {s \in SUBSET S : Cardinality(s) = SumOf(G, s)}
<1>1. {} \in P
  BY SumEmpty, FS_EmptySet
<1>2. ASSUME NEW s \in SUBSET S, NEW x \in S \ s, s \in P
      PROVE  s \cup {x} \in P
  <2>1. IsFiniteSet(s)
    BY FS_Subset
  <2>2. SumOf(G, s \cup {x}) = G[x] + SumOf(G, s)
    <3>1. \A y \in s \cup {x} : G[y] \in Int
      OBVIOUS
    <3> HIDE DEF G
    <3> QED BY <2>1, <3>1, SumAdd
  <2>3. Cardinality(s \cup {x}) = Cardinality(s) + 1 /\ Cardinality(s) \in Nat
    BY <2>1, FS_AddElement, FS_CardinalityType
  <2>4. G[x] = 1 /\ Cardinality(s) = SumOf(G, s)
    BY <1>2
  <2> HIDE DEF G
  <2> QED BY <2>2, <2>3, <2>4
<1>3. S \in P
  <2> HIDE DEF P
  <2> QED BY <1>1, <1>2, SetInduction
<1> QED BY <1>3

\* An injection's image has as many members.
LEMMA CountImage ==
    ASSUME NEW f, NEW A, IsFiniteSet(A), \A a, b \in A : f[a] = f[b] => a = b
    PROVE  Cardinality(ImageOf(f, A)) = Cardinality(A)
<1> DEFINE R == ImageOf(f, A)
           one == [r \in R |-> 1]
           ones == [x \in A |-> 1]
<1>1. IsFiniteSet(R)
  BY FiniteImage DEF ImageOf
<1>2. \A a \in A : one[f[a]] = ones[a] /\ ones[a] \in Int
  BY DEF ImageOf
<1>3. Cardinality(R) = SumOf(one, R) /\ Cardinality(A) = SumOf(ones, A)
  <2> HIDE DEF R
  <2> QED BY <1>1, SumOfOnes
<1> HIDE DEF one, ones
<1>4. SumOf(one, R) = SumOf(ones, A)
  BY <1>2, SumImage
<1> QED BY <1>3, <1>4

LEMMA CountByClass ==
    ASSUME NEW h, NEW S, NEW Y, IsFiniteSet(S), IsFiniteSet(Y), \A x \in S : h[x] \in Y,
           NEW G, \A y \in Y : G[y] = Cardinality(ClassOf(S, h, y))
    PROVE  Cardinality(S) = SumOf(G, Y)
<1> DEFINE one == [x \in S |-> 1]
<1>1. ASSUME NEW T \in SUBSET S PROVE Cardinality(T) = SumOf(one, T)
  <2> DEFINE ones == [x \in T |-> 1]
  <2>1. IsFiniteSet(T)
    BY FS_Subset
  <2>2. \A x \in T : ones[x] = one[x]
    OBVIOUS
  <2> HIDE DEF one
  <2>3. Cardinality(T) = SumOf(ones, T)
    BY <2>1, SumOfOnes
  <2> HIDE DEF ones
  <2> QED BY <2>1, <2>2, <2>3, SumCongruence
<1>2. \A x \in S : one[x] \in Int /\ h[x] \in Y
  OBVIOUS
<1> HIDE DEF one
<1>3. \A y \in Y : G[y] = SumOf(one, ClassOf(S, h, y))
  <2>1. \A y \in Y : ClassOf(S, h, y) \in SUBSET S
    BY DEF ClassOf
  <2> QED BY <1>1, <2>1
<1>4. Cardinality(S) = SumOf(one, S)
  BY <1>1
<1> QED BY <1>2, <1>3, <1>4, SumByClass
=============================================================================
