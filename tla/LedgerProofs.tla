---------------------------- MODULE LedgerProofs ----------------------------
(***************************************************************************)
(* Proofs about Ledger, for every set of accounts, identifiers, amounts    *)
(* and requests and every bound.                                           *)
(***************************************************************************)
EXTENDS Classification, FiniteSetTheorems, WellFoundedInduction, TLAPS

-----------------------------------------------------------------------------
(* Sums over finite sets: the provers know nothing of a fold, so its total is *)
(* first had as a function on subsets, by well-founded induction on subsets.  *)

\* What holds of no elements, and of one more, holds of any: P is the set of the
\* subsets of which it holds.
LEMMA SubsetInduction ==
    ASSUME NEW S, IsFiniteSet(S), NEW P, {} \in P,
           \A T \in SUBSET S : \A x \in S \ T : T \in P => T \cup {x} \in P
    PROVE  \A T \in SUBSET S : T \in P
<1> DEFINE Bad == {T \in SUBSET S : T \notin P}
<1> SUFFICES ASSUME Bad # {}
             PROVE  FALSE
    OBVIOUS
<1>1. IsWellFoundedOn(StrictSubsetOrdering(S), SUBSET S)
    BY FS_StrictSubsetOrderingWellFounded, FS_FiniteSubsetsOfFinite
<1>2. Bad \subseteq SUBSET S
    OBVIOUS
<1> HIDE DEF Bad
<1>3. PICK T \in Bad : \A U \in Bad : <<U, T>> \notin StrictSubsetOrdering(S)
    BY <1>1, <1>2, WFMin
<1>4. T \in SUBSET S /\ T \notin P /\ T # {}
    BY <1>3 DEF Bad
<1>5. PICK x \in T : TRUE
    BY <1>4
<1>6. T \ {x} \in SUBSET S /\ x \in S \ (T \ {x}) /\ T = (T \ {x}) \cup {x}
    BY <1>4, <1>5
<1>7. T \ {x} \notin P
    BY <1>4, <1>6
<1>8. T \ {x} \in Bad
    BY <1>6, <1>7 DEF Bad
<1>9. <<T \ {x}, T>> \in StrictSubsetOrdering(S)
    BY <1>4, <1>5, <1>6 DEF StrictSubsetOrdering
<1> QED
    BY <1>3, <1>8, <1>9

\* f gives each subset of S the total of its elements' weights.
Totals(f, w, S) ==
    /\ f \in [SUBSET S -> Int] /\ f[{}] = 0
    /\ \A T \in SUBSET S : \A x \in S \ T : f[T \cup {x}] = f[T] + w[x]

LEMMA TotalsExist ==
    ASSUME NEW S, IsFiniteSet(S), NEW w, \A x \in S : w[x] \in Int
    PROVE  \E f : Totals(f, w, S)
<1> DEFINE P == {T \in SUBSET S : \E f : Totals(f, w, T)}
<1>1. {} \in P
    <2>1. Totals([T \in SUBSET {} |-> 0], w, {})
        BY DEF Totals
    <2> QED
        BY <2>1
<1>2. ASSUME NEW T \in SUBSET S, NEW x \in S \ T, T \in P
      PROVE  T \cup {x} \in P
    <2>1. PICK f : Totals(f, w, T)
        BY <1>2
    <2> DEFINE R == T \cup {x}
               g == [U \in SUBSET R |-> IF x \in U THEN f[U \ {x}] + w[x] ELSE f[U]]
    <2>2. f \in [SUBSET T -> Int] /\ w[x] \in Int
        BY <2>1 DEF Totals
    <2>3. \A U \in SUBSET R : U \ {x} \in SUBSET T /\ (x \notin U => U \in SUBSET T)
        OBVIOUS
    <2>4. g \in [SUBSET R -> Int] /\ g[{}] = 0
        BY <2>1, <2>2, <2>3 DEF Totals
    <2>5. ASSUME NEW U \in SUBSET R, NEW y \in R \ U
          PROVE  g[U \cup {y}] = g[U] + w[y]
        <3>1. U \cup {y} \in SUBSET R
            OBVIOUS
        <3>2. CASE x = y
            <4>1. (U \cup {y}) \ {x} = U /\ x \in U \cup {y} /\ x \notin U
                BY <3>2
            <4> QED
                BY <3>1, <3>2, <4>1
        <3>3. CASE x # y /\ x \notin U
            <4>1. U \in SUBSET T /\ y \in T \ U /\ x \notin U \cup {y}
                BY <3>3
            <4>2. f[U \cup {y}] = f[U] + w[y]
                BY <2>1, <4>1 DEF Totals
            <4> QED
                BY <3>1, <3>3, <4>1, <4>2
        <3>4. CASE x # y /\ x \in U
            <4>1. /\ U \ {x} \in SUBSET T /\ y \in T \ (U \ {x}) /\ x \in U \cup {y}
                  /\ (U \cup {y}) \ {x} = (U \ {x}) \cup {y}
                BY <3>4
            <4>2. f[(U \ {x}) \cup {y}] = f[U \ {x}] + w[y]
                BY <2>1, <4>1 DEF Totals
            <4>3. f[U \ {x}] \in Int /\ w[y] \in Int
                BY <2>2, <4>1
            <4>4. g[U \cup {y}] = f[U \ {x}] + w[y] + w[x]
                BY <3>1, <4>1, <4>2
            <4>5. g[U] = f[U \ {x}] + w[x]
                BY <3>4
            <4> QED
                BY <2>2, <4>3, <4>4, <4>5
        <3> QED
            BY <3>2, <3>3, <3>4
    <2> HIDE DEF g, R
    <2>6. Totals(g, w, R)
        BY <2>4, <2>5 DEF Totals
    <2> QED
        BY <2>6 DEF R
<1> HIDE DEF P
<1>3. S \in P
    BY <1>1, <1>2, SubsetInduction
<1> QED
    BY <1>3 DEF P

\* What the members of S weigh together.
Sum(w, S) == (CHOOSE f : Totals(f, w, S))[S]

LEMMA TotalsAgree ==
    ASSUME NEW S, IsFiniteSet(S), NEW T \in SUBSET S, NEW v, NEW w, NEW f, NEW g,
           Totals(f, v, S), Totals(g, w, T), \A x \in T : v[x] = w[x]
    PROVE  f[T] = g[T]
<1> DEFINE P == {U \in SUBSET T : f[U] = g[U]}
<1>1. {} \in P
    BY DEF Totals
<1>2. ASSUME NEW U \in SUBSET T, NEW x \in T \ U, U \in P
      PROVE  U \cup {x} \in P
    <2>1. U \in SUBSET S /\ x \in S \ U
        OBVIOUS
    <2>2. f[U \cup {x}] = f[U] + v[x]
        BY <2>1 DEF Totals
    <2>3. g[U \cup {x}] = g[U] + w[x]
        BY DEF Totals
    <2> QED
        BY <1>2, <2>2, <2>3
<1>3. IsFiniteSet(T)
    BY FS_Subset
<1> HIDE DEF P
<1>4. T \in P
    BY <1>1, <1>2, <1>3, SubsetInduction
<1> QED
    BY <1>4 DEF P

LEMMA SumTotals ==
    ASSUME NEW S, IsFiniteSet(S), NEW w, \A x \in S : w[x] \in Int
    PROVE  \E f : Totals(f, w, S) /\ \A T \in SUBSET S : Sum(w, T) = f[T]
<1>1. PICK f : Totals(f, w, S)
    BY TotalsExist
<1>2. ASSUME NEW T \in SUBSET S
      PROVE  Sum(w, T) = f[T]
    <2>1. IsFiniteSet(T) /\ \A x \in T : w[x] \in Int
        BY FS_Subset
    <2> DEFINE g == CHOOSE g : Totals(g, w, T)
    <2>2. Totals(g, w, T)
        BY <2>1, TotalsExist
    <2> HIDE DEF g
    <2>3. f[T] = g[T]
        BY <1>1, <2>2, TotalsAgree
    <2> QED
        BY <2>3 DEF Sum, g
<1> QED
    BY <1>1, <1>2

LEMMA SumBasics ==
    ASSUME NEW S, IsFiniteSet(S), NEW w, \A x \in S : w[x] \in Int
    PROVE  /\ Sum(w, {}) = 0
           /\ \A T \in SUBSET S : Sum(w, T) \in Int
           /\ \A T \in SUBSET S : \A x \in S \ T : Sum(w, T \cup {x}) = Sum(w, T) + w[x]
           /\ \A T \in SUBSET S : \A x \in T : Sum(w, T) = Sum(w, T \ {x}) + w[x]
<1>1. PICK f : Totals(f, w, S) /\ \A T \in SUBSET S : Sum(w, T) = f[T]
    BY SumTotals
<1>2. {} \in SUBSET S /\ f[{}] = 0 /\ \A T \in SUBSET S : f[T] \in Int
    BY <1>1 DEF Totals
<1>3. ASSUME NEW T \in SUBSET S, NEW x \in S \ T
      PROVE  Sum(w, T \cup {x}) = Sum(w, T) + w[x]
    <2>1. T \cup {x} \in SUBSET S /\ f[T \cup {x}] = f[T] + w[x]
        BY <1>1 DEF Totals
    <2> QED
        BY <1>1, <2>1
<1>4. ASSUME NEW T \in SUBSET S, NEW x \in T
      PROVE  Sum(w, T) = Sum(w, T \ {x}) + w[x]
    <2>1. T \ {x} \in SUBSET S /\ x \in S \ (T \ {x}) /\ (T \ {x}) \cup {x} = T
        OBVIOUS
    <2>2. Sum(w, (T \ {x}) \cup {x}) = Sum(w, T \ {x}) + w[x]
        BY <1>3, <2>1
    <2> QED
        BY <2>1, <2>2
<1> QED
    BY <1>1, <1>2, <1>3, <1>4

\* Sums tell only the weights of the members apart.
LEMMA SumAgree ==
    ASSUME NEW S, IsFiniteSet(S), NEW v, NEW w, \A x \in S : w[x] \in Int,
           \A x \in S : v[x] = w[x]
    PROVE  Sum(v, S) = Sum(w, S)
<1>1. PICK f : Totals(f, w, S) /\ \A T \in SUBSET S : Sum(w, T) = f[T]
    BY SumTotals
<1>2. \A x \in S : v[x] \in Int
    OBVIOUS
<1>3. PICK g : Totals(g, v, S) /\ \A T \in SUBSET S : Sum(v, T) = g[T]
    BY <1>2, SumTotals
<1>4. S \in SUBSET S
    OBVIOUS
<1>5. f[S] = g[S]
    BY <1>1, <1>3, <1>4, TotalsAgree
<1> QED
    BY <1>1, <1>3, <1>4, <1>5

\* Sums add up.
LEMMA SumPlus ==
    ASSUME NEW S, IsFiniteSet(S), NEW u, NEW v, NEW w,
           \A x \in S : v[x] \in Int /\ w[x] \in Int /\ u[x] = v[x] + w[x]
    PROVE  Sum(u, S) = Sum(v, S) + Sum(w, S)
<1> DEFINE P == {T \in SUBSET S : Sum(u, T) = Sum(v, T) + Sum(w, T)}
<1>1. \A x \in S : u[x] \in Int /\ v[x] \in Int /\ w[x] \in Int
    OBVIOUS
<1>2. {} \in P
    BY <1>1, SumBasics
<1>3. ASSUME NEW T \in SUBSET S, NEW x \in S \ T, T \in P
      PROVE  T \cup {x} \in P
    <2>1. /\ Sum(u, T \cup {x}) = Sum(u, T) + u[x]
          /\ Sum(v, T \cup {x}) = Sum(v, T) + v[x] /\ Sum(v, T) \in Int
          /\ Sum(w, T \cup {x}) = Sum(w, T) + w[x] /\ Sum(w, T) \in Int
        BY <1>1, SumBasics
    <2>2. Sum(u, T) = Sum(v, T) + Sum(w, T)
        BY <1>3
    <2>3. u[x] = v[x] + w[x] /\ v[x] \in Int /\ w[x] \in Int
        OBVIOUS
    <2> QED
        BY <2>1, <2>2, <2>3
<1> HIDE DEF P
<1>4. S \in P
    BY <1>2, <1>3, SubsetInduction
<1> QED
    BY <1>4 DEF P

\* Weights of zero do not count.
LEMMA SumZeros ==
    ASSUME NEW S, IsFiniteSet(S), NEW R \in SUBSET S, NEW w,
           \A x \in R : w[x] \in Int, \A x \in S \ R : w[x] = 0
    PROVE  Sum(w, S) = Sum(w, R)
<1> DEFINE P == {T \in SUBSET S : Sum(w, T) = Sum(w, T \cap R)}
<1>1. \A x \in S : w[x] \in Int
    OBVIOUS
<1>2. {} \in P
    OBVIOUS
<1>3. ASSUME NEW T \in SUBSET S, NEW x \in S \ T, T \in P
      PROVE  T \cup {x} \in P
    <2>1. Sum(w, T \cup {x}) = Sum(w, T) + w[x] /\ Sum(w, T) \in Int
        BY <1>1, SumBasics
    <2>2. CASE x \in R
        <3>1. (T \cup {x}) \cap R = (T \cap R) \cup {x} /\ x \in S \ (T \cap R) /\ T \cap R \in SUBSET S
            BY <2>2
        <3>2. Sum(w, (T \cap R) \cup {x}) = Sum(w, T \cap R) + w[x]
            BY <1>1, <3>1, SumBasics
        <3> QED
            BY <1>3, <2>1, <3>1, <3>2
    <2>3. CASE x \notin R
        <3>1. (T \cup {x}) \cap R = T \cap R /\ w[x] = 0
            BY <2>3
        <3>2. Sum(w, T \cup {x}) = Sum(w, T) /\ Sum(w, T) = Sum(w, T \cap R)
            BY <1>3, <2>1, <3>1
        <3>3. Sum(w, (T \cup {x}) \cap R) = Sum(w, T \cap R)
            BY <3>1
        <3> QED
            BY <3>2, <3>3
    <2> QED
        BY <2>2, <2>3
<1> HIDE DEF P
<1>4. S \in P
    BY <1>2, <1>3, SubsetInduction
<1>5. S \cap R = R
    OBVIOUS
<1> QED
    BY <1>4, <1>5 DEF P

LEMMA SumNonNegative ==
    ASSUME NEW S, IsFiniteSet(S), NEW w, \A x \in S : w[x] \in Int /\ w[x] >= 0
    PROVE  Sum(w, S) >= 0
<1> DEFINE P == {T \in SUBSET S : Sum(w, T) >= 0}
<1>1. \A x \in S : w[x] \in Int
    OBVIOUS
<1>2. {} \in P
    BY <1>1, SumBasics
<1>3. ASSUME NEW T \in SUBSET S, NEW x \in S \ T, T \in P
      PROVE  T \cup {x} \in P
    <2>1. Sum(w, T \cup {x}) = Sum(w, T) + w[x] /\ Sum(w, T) \in Int
        BY <1>1, SumBasics
    <2> QED
        BY <1>3, <2>1
<1> HIDE DEF P
<1>4. S \in P
    BY <1>2, <1>3, SubsetInduction
<1> QED
    BY <1>4 DEF P

\* Renaming the members changes no sum.
LEMMA SumRenamed ==
    ASSUME NEW S, IsFiniteSet(S), NEW R, IsFiniteSet(R), NEW p \in [S -> R], NEW u, NEW w,
           \A x \in S : u[x] = w[p[x]] /\ w[p[x]] \in Int,
           \A x, y \in S : p[x] = p[y] => x = y
    PROVE  Sum(u, S) = Sum(w, {p[x] : x \in S})
<1> DEFINE image(T) == {p[x] : x \in T}
           P == {T \in SUBSET S : Sum(u, T) = Sum(w, image(T))}
<1>1. \A x \in S : u[x] \in Int
    OBVIOUS
<1>2. IsFiniteSet(image(S)) /\ \A y \in image(S) : w[y] \in Int
    BY FS_Subset
<1>3. {} \in P
    <2>1. image({}) = {}
        OBVIOUS
    <2>2. Sum(u, {}) = 0 /\ Sum(w, {}) = 0
        BY <1>1, <1>2, SumBasics
    <2> QED
        BY <2>1, <2>2
<1>4. ASSUME NEW T \in SUBSET S, NEW x \in S \ T, T \in P
      PROVE  T \cup {x} \in P
    <2>1. Sum(u, T \cup {x}) = Sum(u, T) + u[x]
        BY <1>1, SumBasics
    <2>2. image(T \cup {x}) = image(T) \cup {p[x]} /\ image(T) \in SUBSET image(S)
          /\ p[x] \in image(S) \ image(T)
        OBVIOUS
    <2> HIDE DEF image
    <2>3. Sum(w, image(T) \cup {p[x]}) = Sum(w, image(T)) + w[p[x]]
        BY <1>2, <2>2, SumBasics
    <2> QED
        BY <1>4, <2>1, <2>2, <2>3
<1> HIDE DEF P
<1>5. S \in P
    BY <1>3, <1>4, SubsetInduction
<1> QED
    BY <1>5 DEF P

LEMMA SumOfOne ==
    ASSUME NEW x, NEW w, w[x] \in Int
    PROVE  Sum(w, {x}) = w[x]
<1>1. IsFiniteSet({x}) /\ {} \in SUBSET {x} /\ {x} \ {x} = {}
    BY FS_Singleton
<1>2. Sum(w, {}) = 0 /\ Sum(w, {x}) = Sum(w, {}) + w[x]
    BY <1>1, SumBasics
<1> QED
    BY <1>2

LEMMA SumOfTwo ==
    ASSUME NEW x, NEW y, x # y, NEW w, w[x] \in Int, w[y] \in Int
    PROVE  Sum(w, {x, y}) = w[x] + w[y]
<1>1. {x, y} = {x} \cup {y} /\ {x, y} \ {y} = {x}
    OBVIOUS
<1>2. IsFiniteSet({x, y})
    <2>1. IsFiniteSet({x})
        BY FS_Singleton
    <2>2. IsFiniteSet({x} \cup {y})
        BY <2>1, FS_AddElement
    <2> QED
        BY <1>1, <2>2
<1>3. Sum(w, {x, y}) = Sum(w, {x}) + w[y]
    BY <1>1, <1>2, SumBasics
<1> QED
    BY <1>3, SumOfOne

LEMMA SumOfUnion ==
    ASSUME NEW S, IsFiniteSet(S), NEW T, IsFiniteSet(T), S \cap T = {}, NEW w,
           \A x \in S \cup T : w[x] \in Int
    PROVE  Sum(w, S \cup T) = Sum(w, S) + Sum(w, T)
<1> DEFINE u == [x \in S \cup T |-> IF x \in S THEN w[x] ELSE 0]
           v == [x \in S \cup T |-> IF x \in T THEN w[x] ELSE 0]
<1>1. IsFiniteSet(S \cup T) /\ S \in SUBSET (S \cup T) /\ T \in SUBSET (S \cup T)
    BY FS_Union
<1>2. /\ \A x \in S \cup T : u[x] \in Int /\ v[x] \in Int /\ w[x] = u[x] + v[x]
      /\ \A x \in (S \cup T) \ S : u[x] = 0
      /\ \A x \in (S \cup T) \ T : v[x] = 0
      /\ \A x \in S : u[x] = w[x]
      /\ \A x \in T : v[x] = w[x]
    OBVIOUS
<1> HIDE DEF u, v
<1>3. Sum(w, S \cup T) = Sum(u, S \cup T) + Sum(v, S \cup T)
    BY <1>1, <1>2, SumPlus
<1>4. Sum(u, S \cup T) = Sum(u, S) /\ Sum(v, S \cup T) = Sum(v, T)
    BY <1>1, <1>2, SumZeros
<1>5. Sum(u, S) = Sum(w, S) /\ Sum(v, T) = Sum(w, T)
    BY <1>2, SumAgree
<1> QED
    BY <1>3, <1>4, <1>5

LEMMA SumOfZeros ==
    ASSUME NEW S, IsFiniteSet(S), NEW w, \A x \in S : w[x] = 0
    PROVE  Sum(w, S) = 0
<1>1. Sum(w, S) = Sum(w, {})
    BY SumZeros
<1>2. Sum(w, {}) = 0
    BY SumBasics
<1> QED
    BY <1>1, <1>2

LEMMA SumMinus ==
    ASSUME NEW S, IsFiniteSet(S), NEW v, NEW w,
           \A x \in S : w[x] \in Int /\ v[x] = -w[x]
    PROVE  Sum(v, S) = -Sum(w, S)
<1> DEFINE u == [x \in S |-> 0]
<1>1. \A x \in S : u[x] = 0 /\ v[x] \in Int /\ w[x] \in Int /\ u[x] = v[x] + w[x]
    OBVIOUS
<1> HIDE DEF u
<1>2. Sum(u, S) = 0 /\ Sum(u, S) = Sum(v, S) + Sum(w, S)
    BY <1>1, SumOfZeros, SumPlus
<1>3. Sum(v, S) \in Int /\ Sum(w, S) \in Int
    BY <1>1, SumBasics
<1> QED
    BY <1>2, <1>3

\* A weight on one member only.
LEMMA SumAtOne ==
    ASSUME NEW S, IsFiniteSet(S), NEW x \in S, NEW w, w[x] \in Int,
           \A y \in S \ {x} : w[y] = 0
    PROVE  Sum(w, S) = w[x]
<1>1. Sum(w, S) = Sum(w, {x})
    BY SumZeros
<1> QED
    BY <1>1, SumOfOne

\* The weight of one member changes.
LEMMA SumShifts ==
    ASSUME NEW S, IsFiniteSet(S), NEW x \in S, NEW v, NEW w,
           \A y \in S : v[y] \in Int /\ w[y] \in Int,
           \A y \in S \ {x} : v[y] = w[y]
    PROVE  Sum(v, S) = Sum(w, S) + v[x] - w[x] /\ Sum(v, S) \in Int /\ Sum(w, S) \in Int
<1>1. S \in SUBSET S /\ S \ {x} \in SUBSET S
    OBVIOUS
<1>2. IsFiniteSet(S \ {x})
    BY <1>1, FS_Subset
<1>3. /\ Sum(v, S) = Sum(v, S \ {x}) + v[x] /\ Sum(v, S \ {x}) \in Int /\ Sum(v, S) \in Int
      /\ Sum(w, S) = Sum(w, S \ {x}) + w[x] /\ Sum(w, S \ {x}) \in Int /\ Sum(w, S) \in Int
    BY <1>1, SumBasics
<1>4. Sum(v, S \ {x}) = Sum(w, S \ {x})
    BY <1>2, SumAgree
<1> QED
    BY <1>3, <1>4

\* h takes one member of a subset after another, as the library's fold does.
Folds(h, w, S) ==
    h = [s \in SUBSET S |->
            IF s = {} THEN 0
            ELSE w[CHOOSE x \in s : TRUE] + h[s \ {CHOOSE x \in s : TRUE}]]

\* In whatever order a fold takes the members, it computes their sum.
LEMMA FoldSums ==
    ASSUME NEW S, IsFiniteSet(S), NEW w, \A x \in S : w[x] \in Int
    PROVE  (\E h : Folds(h, w, S)) /\ \A h : Folds(h, w, S) => h[S] = Sum(w, S)
<1> DEFINE first(s) == CHOOSE x \in s : TRUE
           total == [s \in SUBSET S |-> Sum(w, s)]
<1>1. ASSUME NEW s \in SUBSET S, s # {}
      PROVE  first(s) \in s /\ s \ {first(s)} \in SUBSET S /\ w[first(s)] \in Int
             /\ Sum(w, s) = w[first(s)] + Sum(w, s \ {first(s)})
    <2>1. first(s) \in s /\ s \ {first(s)} \in SUBSET S
        BY <1>1
    <2> HIDE DEF first
    <2>2. Sum(w, s) = Sum(w, s \ {first(s)}) + w[first(s)] /\ Sum(w, s \ {first(s)}) \in Int
        BY <2>1, SumBasics
    <2> QED
        BY <2>1, <2>2
<1>2. Sum(w, {}) = 0
    BY SumBasics
<1> HIDE DEF first
<1>3. total = [s \in SUBSET S |-> IF s = {} THEN 0 ELSE w[first(s)] + total[s \ {first(s)}]]
    BY <1>1, <1>2
<1>4. ASSUME NEW h,
             h = [s \in SUBSET S |-> IF s = {} THEN 0 ELSE w[first(s)] + h[s \ {first(s)}]]
      PROVE  h[S] = Sum(w, S)
    <2> DEFINE Bad == {s \in SUBSET S : h[s] # Sum(w, s)}
    <2>1. Bad = {}
        <3> SUFFICES ASSUME Bad # {}
                     PROVE  FALSE
            OBVIOUS
        <3>1. IsWellFoundedOn(StrictSubsetOrdering(S), SUBSET S)
            BY FS_StrictSubsetOrderingWellFounded, FS_FiniteSubsetsOfFinite
        <3>2. Bad \subseteq SUBSET S
            OBVIOUS
        <3> HIDE DEF Bad
        <3>3. PICK s \in Bad : \A r \in Bad : <<r, s>> \notin StrictSubsetOrdering(S)
            BY <3>1, <3>2, WFMin
        <3>4. s \in SUBSET S /\ h[s] # Sum(w, s)
            BY <3>3 DEF Bad
        <3>5. h[s] = IF s = {} THEN 0 ELSE w[first(s)] + h[s \ {first(s)}]
            BY <1>4, <3>4
        <3>6. s # {}
            BY <1>2, <3>4, <3>5
        <3>7. first(s) \in s /\ s \ {first(s)} \in SUBSET S
              /\ Sum(w, s) = w[first(s)] + Sum(w, s \ {first(s)})
            BY <1>1, <3>4, <3>6
        <3>8. h[s \ {first(s)}] # Sum(w, s \ {first(s)})
            BY <3>4, <3>5, <3>6, <3>7
        <3>9. s \ {first(s)} \in Bad
            BY <3>7, <3>8 DEF Bad
        <3>10. <<s \ {first(s)}, s>> \in StrictSubsetOrdering(S)
            BY <3>4, <3>7 DEF StrictSubsetOrdering
        <3> QED
            BY <3>3, <3>9, <3>10
    <2> QED
        BY <2>1
<1>5. \E h : h = [s \in SUBSET S |-> IF s = {} THEN 0 ELSE w[first(s)] + h[s \ {first(s)}]]
    BY <1>3
<1> QED
    BY <1>4, <1>5 DEF first, Folds

-----------------------------------------------------------------------------
(* The ledger *)

USE DEF Times, Versions, CoreKinds, Kinds, Effects, RequireVersion, RequireDraft,
        RequireReversible, FinancialFieldsMutable

-----------------------------------------------------------------------------
(* What the helpers of the actions return *)

LEMMA DraftRowType ==
    ASSUME NEW draft \in Draft, NEW v \in Versions
    PROVE  DraftRow(draft, v) \in Row
BY DEF Draft, DraftRow, Row, EffectFor

LEMMA BumpType ==
    ASSUME BoundsAssumption, TypeOK, NEW S \in SUBSET Accounts, Bump(S),
           \A a \in S : Exists(a)
    PROVE  acct' \in [Accounts -> Account \cup {NoAccount}]
<1> SUFFICES ASSUME NEW a \in Accounts, a \in S
             PROVE  [acct[a] EXCEPT !.version = @ + 1] \in Account
    BY DEF Bump, TypeOK
<1>1. acct[a] \in Account
    BY DEF TypeOK, Exists, NoAccount
<1>2. acct[a].version \in Nat /\ acct[a].version + 1 \in 1 .. MaxVersion
    BY <1>1 DEF Account, Bump, BoundsAssumption
<1> QED
    BY <1>1, <1>2 DEF Account

-----------------------------------------------------------------------------
(* Type correctness *)

LEMMA TypeStep ==
    ASSUME TypeOK, [Next]_vars
    PROVE  TypeOK'
<1> USE BoundsAssumption, RequestsAssumption
<1>1. CASE UNCHANGED vars
    BY <1>1 DEF TypeOK, vars
<1>2. CASE Tick
    BY <1>2 DEF TypeOK, Tick, BoundsAssumption
<1>3. ASSUME NEW a \in Accounts, NEW opening \in Openings, NEW allowNegative \in BOOLEAN,
             NEW openedAt \in Times, CreateAccount(a, opening, allowNegative, openedAt)
      PROVE  TypeOK'
    <2>1. 1 \in Versions
        BY DEF BoundsAssumption
    <2> QED
        BY <1>3, <2>1 DEF TypeOK, CreateAccount, Account
<1>4. ASSUME NEW a \in Accounts, NEW v \in Versions, NEW new \in Edits,
             NEW renamed \in BOOLEAN, UpdateAccount(a, v, new, renamed)
      PROVE  TypeOK'
    <2>1. v + 1 \in Versions
        BY <1>4 DEF UpdateAccount, BoundsAssumption
    <2>2. new \in AccountEdit
        BY DEF RequestsAssumption
    <2> QED
        BY <1>4, <2>1, <2>2 DEF TypeOK, UpdateAccount, AccountEdit, Account
<1>5. ASSUME NEW i \in Ids, NEW draft \in Drafts, CreateDraft(i, draft)
      PROVE  TypeOK'
    <2>1. DraftRow(draft, 1) \in Row
        BY DraftRowType DEF RequestsAssumption, BoundsAssumption
    <2> QED
        BY <1>5, <2>1 DEF TypeOK, CreateDraft
<1>6. ASSUME NEW i \in Ids, NEW v \in Versions, NEW draft \in Drafts,
             UpdateDraft(i, v, draft)
      PROVE  TypeOK'
    <2>1. v + 1 \in Versions
        BY <1>6 DEF UpdateDraft, BoundsAssumption
    <2>2. DraftRow(draft, v + 1) \in Row
        BY <2>1, DraftRowType DEF RequestsAssumption
    <2> QED
        BY <1>6, <2>2 DEF TypeOK, UpdateDraft
<1>7. ASSUME NEW i \in Ids, NEW v \in Versions, Post(i, v)
      PROVE  TypeOK'
    <2>1. tx[i] \in Row /\ Exists(tx[i].account)
        BY <1>7 DEF TypeOK, Post, NoRow, Exists, Row
    <2>2. tx[i].account \in Accounts
        BY <2>1 DEF Row
    <2>3. acct' \in [Accounts -> Account \cup {NoAccount}]
        BY <1>7, <2>1, <2>2, BumpType DEF Post
    <2>4. v + 1 \in Versions
        BY <1>7 DEF Post, BoundsAssumption
    <2>5. tx' \in [Ids -> Row \cup {NoRow}]
        BY <1>7, <2>1, <2>4 DEF TypeOK, Post, Row
    <2> QED
        BY <1>7, <2>3, <2>5 DEF TypeOK, Post
<1>8. ASSUME NEW i \in Ids, NEW v \in Versions, NEW r \in Ids, NEW at \in Times,
             Reverse(i, v, r, at)
      PROVE  TypeOK'
    <2>1. tx[i] \in Row /\ Exists(tx[i].account)
        BY <1>8 DEF TypeOK, Reverse, NoRow, Exists, Row
    <2>2. tx[i].account \in Accounts
        BY <2>1 DEF Row
    <2>3. acct' \in [Accounts -> Account \cup {NoAccount}]
        BY <1>8, <2>1, <2>2, BumpType DEF Reverse
    <2>4. v + 1 \in Versions /\ 1 \in Versions
        BY <1>8 DEF Reverse, BoundsAssumption
    <2>5. tx' \in [Ids -> Row \cup {NoRow}]
        BY <1>8, <2>1, <2>4 DEF TypeOK, Reverse, Row, Opposite
    <2> QED
        BY <1>8, <2>3, <2>5 DEF TypeOK, Reverse
<1> QED
    BY <1>1, <1>2, <1>3, <1>4, <1>5, <1>6, <1>7, <1>8
    DEF Next, AccountNext, TransactionNext

\* Every reachable row is well formed.
THEOREM TypeCorrect == Spec => []TypeOK
<1>1. Init => TypeOK
    BY BoundsAssumption DEF Init, TypeOK, BoundsAssumption
<1> QED
    BY <1>1, TypeStep, PTL DEF Spec

-----------------------------------------------------------------------------
(* Reversals *)

\* ReversalCoherent alone is not inductive: that a reversal is never itself
\* reversed follows from its kind, which the handler refuses.
ReversalInv ==
    /\ ReversalCoherent
    /\ \A r, o \in Ids : Reverses(r, o) => tx[r].kind = "REVERSAL"

\* Writing a row that neither is nor was part of a reversal disturbs none.
LEMMA OrdinaryWrite ==
    ASSUME IdsAssumption, TypeOK, ReversalInv,
           NEW i \in Ids, NEW row \in Row,
           tx' = [tx EXCEPT ![i] = row],
           row.status # "REVERSED", row.reversalOf = NoId,
           tx[i].status # "REVERSED", tx[i] = NoRow \/ tx[i].reversalOf = NoId
    PROVE  ReversalInv'
<1>1. \A j \in Ids : tx'[j] = IF j = i THEN row ELSE tx[j]
    BY DEF TypeOK
<1>2. \A r, o \in Ids : Reverses(r, o)' <=> Reverses(r, o)
    BY <1>1, IdsAssumption DEF Reverses, IdsAssumption, NoRow, Row
<1>3. \A r, o \in Ids : Reverses(r, o) => r # i /\ o # i /\ tx'[r] = tx[r] /\ tx'[o] = tx[o]
    BY <1>1, IdsAssumption DEF ReversalInv, ReversalCoherent, Reverses, Offsets, IdsAssumption
<1>4. \A r, o \in Ids : Reverses(r, o)' => Offsets(r, o)'
    BY <1>2, <1>3 DEF ReversalInv, ReversalCoherent, Offsets
<1>5. \A o \in Ids : tx'[o].status = "REVERSED" => \E r \in Ids : Reverses(r, o)'
    BY <1>1, <1>2 DEF ReversalInv, ReversalCoherent
<1>6. \A o, r, q \in Ids : Reverses(r, o)' /\ Reverses(q, o)' => r = q
    BY <1>2 DEF ReversalInv, ReversalCoherent
<1>7. \A r, o \in Ids : Reverses(r, o)' => tx'[r].kind = "REVERSAL"
    BY <1>2, <1>3 DEF ReversalInv
<1> QED
    BY <1>4, <1>5, <1>6, <1>7 DEF ReversalInv, ReversalCoherent

LEMMA ReversalStep ==
    ASSUME TypeOK, ReversalInv, [Next]_vars
    PROVE  ReversalInv'
<1> USE BoundsAssumption, RequestsAssumption, IdsAssumption
<1>1. CASE UNCHANGED tx
    BY <1>1 DEF ReversalInv, ReversalCoherent, Reverses, Offsets
<1>2. ASSUME NEW i \in Ids, NEW draft \in Drafts, CreateDraft(i, draft)
      PROVE  ReversalInv'
    <2>1. DraftRow(draft, 1) \in Row
        BY DraftRowType DEF RequestsAssumption, BoundsAssumption
    <2>2. tx[i].status # "REVERSED"
        BY <1>2 DEF CreateDraft, NoRow
    <2> QED
        BY <1>2, <2>1, <2>2, OrdinaryWrite DEF CreateDraft, DraftRow
<1>3. ASSUME NEW i \in Ids, NEW v \in Versions, NEW draft \in Drafts,
             UpdateDraft(i, v, draft)
      PROVE  ReversalInv'
    <2>1. v + 1 \in Versions
        BY <1>3 DEF UpdateDraft, BoundsAssumption
    <2>2. DraftRow(draft, v + 1) \in Row
        BY <2>1, DraftRowType DEF RequestsAssumption
    <2>3. tx[i].reversalOf = NoId
        BY <1>3, IdsAssumption
        DEF UpdateDraft, TypeOK, Row, NoRow, ReversalInv, ReversalCoherent, Reverses, Offsets
    <2> QED
        BY <1>3, <2>2, <2>3, OrdinaryWrite DEF UpdateDraft, DraftRow
<1>4. ASSUME NEW i \in Ids, NEW v \in Versions, Post(i, v)
      PROVE  ReversalInv'
    <2> DEFINE row == [tx[i] EXCEPT !.status = "POSTED", !.version = v + 1]
    <2>1. v + 1 \in Versions /\ tx[i] \in Row
        BY <1>4 DEF Post, BoundsAssumption, TypeOK, NoRow
    <2>2. row \in Row /\ row.status = "POSTED" /\ row.reversalOf = tx[i].reversalOf
        BY <2>1 DEF Row
    <2>3. tx[i].reversalOf = NoId
        BY <1>4, <2>1 DEF Post, Row, NoRow, ReversalInv, ReversalCoherent, Reverses, Offsets
    <2>4. tx' = [tx EXCEPT ![i] = row]
        BY <1>4, <2>1 DEF Post, TypeOK, Row
    <2> QED
        BY <1>4, <2>2, <2>3, <2>4, OrdinaryWrite DEF Post
<1>5. ASSUME NEW i \in Ids, NEW v \in Versions, NEW r \in Ids, NEW at \in Times,
             Reverse(i, v, r, at)
      PROVE  ReversalInv'
    <2>1. tx[i] \in Row /\ tx[i].status = "POSTED" /\ tx[i].kind \in CoreKinds /\ tx[r] = NoRow
          /\ at >= tx[i].at /\ r # i
        BY <1>5 DEF Reverse, ReversalDateAllowed, TypeOK, NoRow
    <2>2. \A o \in Ids : ~Reverses(i, o) /\ ~Reverses(o, i) /\ ~Reverses(o, r) /\ ~Reverses(r, o)
        BY <2>1 DEF ReversalInv, ReversalCoherent, Offsets, NoRow, Reverses
    <2>3. \A j \in Ids \ {i, r} : tx'[j] = tx[j]
        BY <1>5 DEF Reverse, TypeOK
    <2>4. /\ tx'[i] = [tx[i] EXCEPT !.status = "REVERSED", !.version = v + 1]
          /\ tx'[r] = [tx[i] EXCEPT !.status = "POSTED", !.kind = "REVERSAL",
                                    !.effect = Opposite(tx[i].effect), !.at = at,
                                    !.reversalOf = i, !.version = 1]
        BY <1>5, <2>1 DEF Reverse, TypeOK
    <2>5. /\ tx'[i].status = "REVERSED" /\ tx'[i].effect = tx[i].effect
          /\ tx'[i].amount = tx[i].amount /\ tx'[i].account = tx[i].account
          /\ tx'[i].at = tx[i].at /\ tx'[i].reversalOf = tx[i].reversalOf
        BY <2>1, <2>4 DEF Row
    <2>6. /\ tx'[r].status = "POSTED" /\ tx'[r].effect = Opposite(tx[i].effect)
          /\ tx'[r].amount = tx[i].amount /\ tx'[r].account = tx[i].account
          /\ tx'[r].at = at /\ tx'[r].reversalOf = i /\ tx'[r].kind = "REVERSAL"
        BY <2>1, <2>4 DEF Row
    <2>7. tx'[i] # NoRow /\ tx'[r] # NoRow
        BY <2>5, <2>6 DEF NoRow
    <2>8. \A q, o \in Ids : Reverses(q, o)' <=> Reverses(q, o) \/ (q = r /\ o = i)
        BY <2>1, <2>2, <2>3, <2>5, <2>6, <2>7 DEF Reverses, NoRow
    <2>9. \A q, o \in Ids : Reverses(q, o) =>
             q \notin {i, r} /\ o \notin {i, r} /\ tx'[q] = tx[q] /\ tx'[o] = tx[o]
        BY <2>2, <2>3
    <2>10. \A q, o \in Ids : Reverses(q, o)' => Offsets(q, o)' /\ tx'[q].kind = "REVERSAL"
        BY <2>1, <2>5, <2>6, <2>8, <2>9 DEF ReversalInv, ReversalCoherent, Offsets
    <2>11. \A o \in Ids : tx'[o].status = "REVERSED" => \E q \in Ids : Reverses(q, o)'
        BY <2>3, <2>6, <2>8 DEF ReversalInv, ReversalCoherent
    <2>12. \A o, p, q \in Ids : Reverses(p, o)' /\ Reverses(q, o)' => p = q
        BY <2>2, <2>8 DEF ReversalInv, ReversalCoherent
    <2> QED
        BY <2>10, <2>11, <2>12 DEF ReversalInv, ReversalCoherent
<1> QED
    BY <1>1, <1>2, <1>3, <1>4, <1>5
    DEF Next, AccountNext, TransactionNext, Tick, CreateAccount, UpdateAccount, vars

\* A reversed movement has exactly one reversal, which offsets it for good.
THEOREM ReversalsCoherent == Spec => []ReversalCoherent
<1>1. Init => TypeOK /\ ReversalInv
    BY BoundsAssumption
    DEF Init, TypeOK, BoundsAssumption, ReversalInv, ReversalCoherent, Reverses, NoRow
<1>2. TypeOK /\ ReversalInv /\ [Next]_vars => TypeOK' /\ ReversalInv'
    BY TypeStep, ReversalStep
<1>3. ReversalInv => ReversalCoherent
    BY DEF ReversalInv
<1> QED
    BY <1>1, <1>2, <1>3, PTL DEF Spec

-----------------------------------------------------------------------------
(* What a step may do to one row and to one account *)

\* A row that exists is left alone, or moves to the next version; a row that
\* counts only ever becomes reversed.
RowMoves(i) ==
    \/ tx'[i] = tx[i]
    \/ /\ tx'[i].version = tx[i].version + 1
       /\ tx'[i] # NoRow
       /\ Counts(i) =>
             /\ tx[i].status = "POSTED"
             /\ tx'[i] = [tx[i] EXCEPT !.status = "REVERSED", !.version = @ + 1]

\* The same for an account, whose version also covers its movements.
AccountMoves(a) ==
    /\ Exists(a)'
    /\ \/ acct'[a] = acct[a] /\ Movements(a)' = Movements(a)
       \/ acct'[a].version = acct[a].version + 1
    /\ Movements(a) # {} =>
          /\ acct'[a].opening = acct[a].opening
          /\ acct'[a].openedAt = acct[a].openedAt

LEMMA RowStep ==
    ASSUME TypeOK, [Next]_vars, NEW i \in Ids, tx[i] # NoRow
    PROVE  RowMoves(i)
<1>1. tx[i] \in Row
    BY DEF TypeOK
<1>2. CASE UNCHANGED tx
    BY <1>2 DEF RowMoves
<1>3. ASSUME NEW j \in Ids, NEW draft \in Drafts, CreateDraft(j, draft)
      PROVE  RowMoves(i)
    BY <1>3 DEF RowMoves, CreateDraft, TypeOK
<1>4. ASSUME NEW j \in Ids, NEW v \in Versions, NEW draft \in Drafts, UpdateDraft(j, v, draft)
      PROVE  RowMoves(i)
    BY <1>4 DEF RowMoves, UpdateDraft, DraftRow, NoRow, TypeOK, Counts
<1>5. ASSUME NEW j \in Ids, NEW v \in Versions, Post(j, v)
      PROVE  RowMoves(i)
    BY <1>1, <1>5 DEF RowMoves, Post, NoRow, TypeOK, Counts, Row
<1>6. ASSUME NEW j \in Ids, NEW v \in Versions, NEW r \in Ids, NEW at \in Times,
             Reverse(j, v, r, at)
      PROVE  RowMoves(i)
    <2>1. CASE i # j
        BY <2>1, <1>6 DEF RowMoves, Reverse, TypeOK
    <2>2. CASE i = j
        <3>1. tx'[i] = [tx[i] EXCEPT !.status = "REVERSED", !.version = v + 1]
            BY <2>2, <1>6 DEF Reverse, TypeOK
        <3>2. tx[i].status = "POSTED" /\ v = tx[i].version
            BY <2>2, <1>6 DEF Reverse
        <3>3. tx'[i].version = tx[i].version + 1 /\ tx'[i].status = "REVERSED"
            BY <1>1, <3>1, <3>2 DEF Row
        <3>4. tx'[i] # NoRow
            BY <3>3 DEF NoRow
        <3> QED
            BY <3>1, <3>2, <3>3, <3>4 DEF RowMoves
    <2> QED
        BY <2>1, <2>2
<1> QED
    BY <1>2, <1>3, <1>4, <1>5, <1>6
    DEF Next, AccountNext, TransactionNext, Tick, CreateAccount, UpdateAccount, vars

\* Bump touches the version of the account it names and nothing else.
LEMMA BumpEffect ==
    ASSUME TypeOK, NEW b \in Accounts, Exists(b), Bump({b}), NEW a \in Accounts
    PROVE  IF a = b
           THEN /\ acct'[a].version = acct[a].version + 1
                /\ acct'[a].status = acct[a].status
                /\ acct'[a].opening = acct[a].opening
                /\ acct'[a].openedAt = acct[a].openedAt
           ELSE acct'[a] = acct[a]
<1>1. acct[b] \in Account
    BY DEF TypeOK, Exists, NoAccount
<1> QED
    BY <1>1 DEF Bump, Account

LEMMA AccountStep ==
    ASSUME TypeOK, [Next]_vars, NEW a \in Accounts, Exists(a)
    PROVE  AccountMoves(a)
<1>1. CASE UNCHANGED <<acct, tx>>
    BY <1>1 DEF AccountMoves, Exists, Movements, Counts
<1>2. ASSUME NEW b \in Accounts, NEW opening \in Openings, NEW allowNegative \in BOOLEAN,
             NEW openedAt \in Times, CreateAccount(b, opening, allowNegative, openedAt)
      PROVE  AccountMoves(a)
    BY <1>2 DEF AccountMoves, CreateAccount, TypeOK, Exists, Movements, Counts
<1>3. ASSUME NEW b \in Accounts, NEW v \in Versions, NEW new \in Edits,
             NEW renamed \in BOOLEAN, UpdateAccount(b, v, new, renamed)
      PROVE  AccountMoves(a)
    <2>1. Movements(a)' = Movements(a)
        BY <1>3 DEF UpdateAccount, Movements, Counts
    <2>2. CASE b # a
        BY <2>1, <2>2, <1>3 DEF AccountMoves, UpdateAccount, TypeOK, Exists
    <2>3. CASE b = a
        <3>1. new \in AccountEdit
            BY RequestsAssumption DEF RequestsAssumption
        <3>2. acct'[a] = [status |-> new.status, opening |-> new.opening,
                          allowNegative |-> new.allowNegative,
                          openedAt |-> new.openedAt, version |-> v + 1]
            BY <2>3, <1>3 DEF UpdateAccount, TypeOK
        <3>3. v = acct[a].version
            BY <2>3, <1>3 DEF UpdateAccount
        <3>4. Movements(a) # {} => new["opening"] = acct[a]["opening"]
                                   /\ new["openedAt"] = acct[a]["openedAt"]
            BY <2>3, <1>3 DEF UpdateAccount, AccountFields
        <3> QED
            BY <3>1, <3>2, <3>3, <3>4 DEF AccountMoves, Exists, AccountEdit
    <2> QED
        BY <2>2, <2>3
<1>4. ASSUME NEW i \in Ids, NEW draft \in Drafts, CreateDraft(i, draft)
      PROVE  AccountMoves(a)
    <2>1. \A j \in Ids : Counts(j)' <=> Counts(j)
        BY <1>4 DEF CreateDraft, DraftRow, NoRow, TypeOK, Counts
    <2>2. \A j \in Ids : Counts(j) => tx'[j] = tx[j]
        BY <1>4 DEF CreateDraft, NoRow, TypeOK, Counts
    <2> QED
        BY <1>4, <2>1, <2>2 DEF AccountMoves, CreateDraft, Exists, Movements
<1>5. ASSUME NEW i \in Ids, NEW v \in Versions, NEW draft \in Drafts, UpdateDraft(i, v, draft)
      PROVE  AccountMoves(a)
    <2>1. \A j \in Ids : Counts(j)' <=> Counts(j)
        BY <1>5 DEF UpdateDraft, DraftRow, TypeOK, Counts
    <2>2. \A j \in Ids : Counts(j) => tx'[j] = tx[j]
        BY <1>5 DEF UpdateDraft, TypeOK, Counts
    <2> QED
        BY <1>5, <2>1, <2>2 DEF AccountMoves, UpdateDraft, Exists, Movements
<1>6. ASSUME NEW i \in Ids, NEW v \in Versions, Post(i, v)
      PROVE  AccountMoves(a)
    <2>1. tx[i] \in Row /\ tx[i].account \in Accounts /\ Exists(tx[i].account)
        BY <1>6 DEF Post, TypeOK, NoRow, Row, Exists
    <2>2. Bump({tx[i].account})
        BY <1>6 DEF Post
    <2>3. CASE a = tx[i].account
        BY <2>1, <2>2, <2>3, BumpEffect DEF AccountMoves, Exists
    <2>4. CASE a # tx[i].account
        <3>1. acct'[a] = acct[a]
            BY <2>1, <2>2, <2>4, BumpEffect
        <3>2. \A j \in Ids : tx'[j].account = tx[j].account /\ (j # i => tx'[j] = tx[j])
            BY <1>6, <2>1 DEF Post, TypeOK, Row
        <3>3. Movements(a)' = Movements(a)
            BY <2>4, <3>2 DEF Movements, Counts
        <3> QED
            BY <3>1, <3>3 DEF AccountMoves, Exists
    <2> QED
        BY <2>3, <2>4
<1>7. ASSUME NEW i \in Ids, NEW v \in Versions, NEW r \in Ids, NEW at \in Times,
             Reverse(i, v, r, at)
      PROVE  AccountMoves(a)
    <2>1. tx[i] \in Row /\ tx[i].account \in Accounts /\ Exists(tx[i].account)
        BY <1>7 DEF Reverse, TypeOK, NoRow, Row, Exists
    <2>2. Bump({tx[i].account})
        BY <1>7 DEF Reverse
    <2>3. CASE a = tx[i].account
        BY <2>1, <2>2, <2>3, BumpEffect DEF AccountMoves, Exists
    <2>4. CASE a # tx[i].account
        <3>1. acct'[a] = acct[a]
            BY <2>1, <2>2, <2>4, BumpEffect
        <3>2. tx[r] = NoRow /\ i # r
            BY <1>7, <2>1 DEF Reverse, NoRow
        <3>3. tx[r].status = "NONE"
            BY <3>2 DEF NoRow
        <3>4. /\ tx'[i] = [tx[i] EXCEPT !.status = "REVERSED", !.version = v + 1]
              /\ tx'[r] = [tx[i] EXCEPT !.status = "POSTED", !.kind = "REVERSAL",
                                        !.effect = Opposite(tx[i].effect), !.at = at,
                                        !.reversalOf = i, !.version = 1]
              /\ \A j \in Ids \ {i, r} : tx'[j] = tx[j]
            BY <1>7, <3>2 DEF Reverse, TypeOK
        <3>5. tx'[i].account = tx[i].account /\ tx'[r].account = tx[i].account
            BY <2>1, <3>4 DEF Row
        <3>6. \A j \in Ids : Counts(j) /\ tx[j].account = a => j \notin {i, r}
            BY <2>4, <3>3 DEF Counts
        <3>7. \A j \in Ids : tx'[j].account = a => j \notin {i, r}
            BY <2>4, <3>5
        <3>8. Movements(a)' = Movements(a)
            BY <3>4, <3>6, <3>7 DEF Movements, Counts
        <3> QED
            BY <3>1, <3>8 DEF AccountMoves, Exists
    <2> QED
        BY <2>3, <2>4
<1> QED
    BY <1>1, <1>2, <1>3, <1>4, <1>5, <1>6, <1>7
    DEF Next, AccountNext, TransactionNext, Tick, vars

-----------------------------------------------------------------------------
(* Versions and history *)

\* What posts, reverses or edits an account raises its version by one.
THEOREM VersionsCover == Spec => AccountVersionCovers
<1> DEFINE Covers(a) ==
      Exists(a) =>
          /\ acct'[a] # acct[a] \/ Movements(a)' # Movements(a)
                => acct'[a].version = acct[a].version + 1
          /\ Movements(a) # {} => acct'[a].opening = acct[a].opening
<1>1. TypeOK /\ [Next]_vars => [\A a \in Accounts : Covers(a)]_vars
    BY AccountStep DEF AccountMoves
<1> QED
    BY <1>1, TypeCorrect, PTL DEF Spec, AccountVersionCovers

\* Posted history only grows.
THEOREM HistoryGrows == Spec => HistoryIsAppendOnly
<1> DEFINE Grows(i) ==
      Counts(i) =>
          \/ tx'[i] = tx[i]
          \/ /\ tx[i].status = "POSTED"
             /\ tx'[i] = [tx[i] EXCEPT !.status = "REVERSED", !.version = @ + 1]
<1>1. TypeOK /\ [Next]_vars => [\A i \in Ids : Grows(i)]_vars
    <2> SUFFICES ASSUME TypeOK, [Next]_vars, NEW i \in Ids, Counts(i)
                 PROVE  Grows(i)
        OBVIOUS
    <2>1. tx[i] # NoRow
        BY DEF Counts, NoRow
    <2> QED
        BY <2>1, RowStep DEF RowMoves
<1> QED
    BY <1>1, TypeCorrect, PTL DEF Spec, HistoryIsAppendOnly

-----------------------------------------------------------------------------
(* Opening dates *)

LEMMA OpeningStep ==
    ASSUME TypeOK, MovementsAfterOpening, [Next]_vars
    PROVE  MovementsAfterOpening'
<1> DEFINE Dated(i) == Exists(tx[i].account) /\ tx[i].at >= acct[tx[i].account].openedAt
<1> SUFFICES ASSUME NEW i \in Ids, Counts(i)'
             PROVE  Dated(i)'
    BY DEF MovementsAfterOpening
<1>1. CASE Counts(i)
    <2>1. tx[i] \in Row /\ tx[i].account \in Accounts /\ tx[i] # NoRow
        BY <1>1 DEF TypeOK, Counts, NoRow, Row
    <2>2. tx'[i].account = tx[i].account /\ tx'[i].at = tx[i].at
        BY <1>1, <2>1, RowStep DEF RowMoves, Row
    <2>3. Dated(i) /\ i \in Movements(tx[i].account)
        BY <1>1 DEF MovementsAfterOpening, Movements
    <2>4. AccountMoves(tx[i].account)
        BY <2>1, <2>3, AccountStep
    <2> QED
        BY <2>2, <2>3, <2>4 DEF AccountMoves, Exists
<1>2. ASSUME ~Counts(i), NEW j \in Ids, NEW v \in Versions, Post(j, v)
      PROVE  Dated(i)'
    <2>1. i = j
        BY <1>2 DEF Post, TypeOK, Counts
    <2>2. /\ tx[i] \in Row /\ tx[i].account \in Accounts /\ Exists(tx[i].account)
          /\ tx[i].at >= acct[tx[i].account].openedAt /\ Bump({tx[i].account})
        BY <1>2, <2>1 DEF Post, TypeOK, NoRow, Row, Exists
    <2>3. tx'[i].account = tx[i].account /\ tx'[i].at = tx[i].at
        BY <1>2, <2>1, <2>2 DEF Post, TypeOK, Row
    <2> QED
        BY <2>2, <2>3, BumpEffect DEF Exists
<1>3. ASSUME ~Counts(i), NEW j \in Ids, NEW v \in Versions, NEW r \in Ids, NEW at \in Times,
             Reverse(j, v, r, at)
      PROVE  Dated(i)'
    <2>1. Counts(j) /\ tx[j] \in Row /\ tx[j].account \in Accounts /\ tx[j].at \in Times
        BY <1>3 DEF Reverse, TypeOK, NoRow, Row, Counts
    <2>2. i = r
        BY <1>3, <2>1 DEF Reverse, TypeOK, Counts
    <2>3. /\ Exists(tx[j].account) /\ at >= tx[j].at /\ Bump({tx[j].account})
          /\ tx[j].at >= acct[tx[j].account].openedAt
        BY <1>3, <2>1 DEF Reverse, ReversalDateAllowed, MovementsAfterOpening
    <2>4. tx'[i].account = tx[j].account /\ tx'[i].at = at
        BY <1>3, <2>1, <2>2 DEF Reverse, TypeOK, Row
    <2>5. acct[tx[j].account].openedAt \in Int /\ tx[j].at \in Int /\ at \in Int
        BY <2>1, <2>3, BoundsAssumption DEF TypeOK, Exists, NoAccount, Account, BoundsAssumption
    <2> QED
        BY <2>1, <2>3, <2>4, <2>5, BumpEffect DEF Exists
<1>4. ASSUME ~Counts(i), NEW j \in Ids, NEW draft \in Drafts,
             CreateDraft(j, draft) \/ \E v \in Versions : UpdateDraft(j, v, draft)
      PROVE  FALSE
    BY <1>4 DEF CreateDraft, UpdateDraft, DraftRow, TypeOK, Counts
<1>5. ASSUME ~Counts(i), UNCHANGED tx
      PROVE  FALSE
    BY <1>5 DEF Counts
<1> QED
    BY <1>1, <1>2, <1>3, <1>4, <1>5
    DEF Next, AccountNext, TransactionNext, Tick, CreateAccount, UpdateAccount, vars

\* Nothing that counts is dated before its account was opened.
THEOREM OpeningRespected == Spec => []MovementsAfterOpening
<1>1. Init => MovementsAfterOpening
    BY DEF Init, MovementsAfterOpening, Counts, NoRow
<1>2. TypeOK /\ MovementsAfterOpening /\ [Next]_vars => MovementsAfterOpening'
    BY OpeningStep
<1> QED
    BY <1>1, <1>2, TypeCorrect, PTL DEF Spec
-----------------------------------------------------------------------------
(* Balances *)

LEMMA LaterOf ==
    ASSUME NEW x \in Int, NEW y \in Int
    PROVE  Max({x, y}) = IF x >= y THEN x ELSE y
<1> DEFINE m == IF x >= y THEN x ELSE y
<1>1. m \in {x, y} /\ \A z \in {x, y} : z <= m
    OBVIOUS
<1>2. \A n \in {x, y} : (\A z \in {x, y} : z <= n) => n = m
    OBVIOUS
<1> QED
    BY <1>1, <1>2 DEF Max

\* What each row adds to the balance of account a at time t.
Weight(a, t) ==
    [i \in Ids |-> IF Counts(i) /\ tx[i].account = a /\ tx[i].at <= t
                   THEN Signed(tx[i]) ELSE 0]

LEMMA WeightType ==
    ASSUME TypeOK, NEW a, NEW t
    PROVE  \A i \in Ids : Weight(a, t)[i] \in Int
<1>1. ASSUME NEW i \in Ids, Counts(i)
      PROVE  tx[i].amount \in Int
    <2>1. tx[i] \in Row
        BY <1>1 DEF TypeOK, Counts, NoRow
    <2>2. tx[i].amount \in Amounts
        BY <2>1 DEF Row
    <2>3. \A x \in Amounts : x \in Int
        BY AmountsAssumption DEF AmountsAssumption
    <2> QED
        BY <2>2, <2>3
<1> QED
    BY <1>1 DEF Weight, Signed

\* A balance is the opening balance and what every row adds to it.
BalancesAreSums ==
    \A a, t : BalanceAt(a, t) = acct[a].opening + Sum(Weight(a, t), Ids)

LEMMA BalanceIsSum == TypeOK => BalancesAreSums
<1> SUFFICES ASSUME NEW a, NEW t, TypeOK
             PROVE  BalanceAt(a, t) = acct[a].opening + Sum(Weight(a, t), Ids)
    BY DEF BalancesAreSums
<1> DEFINE S == {i \in Movements(a) : tx[i].at <= t}
           w == Weight(a, t)
           FoldsRows(h) == h = [s \in SUBSET S |->
                                  IF s = {} THEN 0
                                  ELSE Signed(tx[CHOOSE x \in s : TRUE])
                                         + h[s \ {CHOOSE x \in s : TRUE}]]
           fold == CHOOSE h : FoldsRows(h)
<1>1. S \in SUBSET Ids /\ IsFiniteSet(S) /\ IsFiniteSet(Ids)
    BY FiniteAssumption, FS_Subset DEF Movements, FiniteAssumption
<1>2. \A i \in S : w[i] = Signed(tx[i])
    BY DEF Movements, Weight
<1>3. \A i \in Ids \ S : w[i] = 0
    BY DEF Movements, Weight
<1>4. \A i \in Ids : w[i] \in Int
    BY WeightType
<1>5. BalanceAt(a, t) = acct[a].opening + fold[S]
    BY DEF BalanceAt, MapThenSumSet, MapThenFoldSet
<1>6. \A s \in SUBSET S : s # {} => (CHOOSE x \in s : TRUE) \in S
    OBVIOUS
<1> HIDE DEF w, S
<1>7. \A i \in S : w[i] \in Int
    BY <1>1, <1>4
<1>8. \A h : FoldsRows(h) <=> Folds(h, w, S)
    BY <1>2, <1>6 DEF Folds
<1>9. FoldsRows(fold)
    <2> HIDE DEF FoldsRows
    <2>1. \E h : FoldsRows(h)
        BY <1>1, <1>7, <1>8, FoldSums
    <2> QED
        BY <2>1
<1> HIDE DEF fold, FoldsRows
<1>10. fold[S] = Sum(w, S)
    BY <1>1, <1>7, <1>8, <1>9, FoldSums
<1>11. Sum(w, Ids) = Sum(w, S)
    BY <1>1, <1>3, <1>7, SumZeros
<1> QED
    BY <1>5, <1>10, <1>11 DEF w

LEMMA BalanceIsSumNext == TypeOK' => BalancesAreSums'
BY BalanceIsSum, PTL

LEMMA OpeningType ==
    ASSUME TypeOK, NEW a \in Accounts, Exists(a)
    PROVE  acct[a] \in Account /\ acct[a].opening \in Int
<1>1. acct[a] \in Account
    BY DEF TypeOK, Exists, NoAccount
<1>2. acct[a].opening \in Openings /\ Openings \subseteq Int
    BY <1>1, AmountsAssumption DEF Account, AmountsAssumption
<1> QED
    BY <1>1, <1>2

LEMMA BalanceType ==
    ASSUME TypeOK, NEW a \in Accounts, Exists(a), NEW t
    PROVE  BalanceAt(a, t) \in Int
<1>1. Sum(Weight(a, t), Ids) \in Int
    BY FiniteAssumption, WeightType, SumBasics DEF FiniteAssumption
<1> QED
    BY <1>1, BalanceIsSum, OpeningType DEF BalancesAreSums

WeightsAreInt == \A a, t : \A i \in Ids : Weight(a, t)[i] \in Int
OpeningsAreInt == \A a \in Accounts : Exists(a) => acct[a].opening \in Int

LEMMA WeightTypeNext == TypeOK' => WeightsAreInt'
<1>1. TypeOK => WeightsAreInt
    BY WeightType DEF WeightsAreInt
<1> QED
    BY <1>1, PTL

LEMMA OpeningTypeNext == TypeOK' => OpeningsAreInt'
<1>1. TypeOK => OpeningsAreInt
    BY OpeningType DEF OpeningsAreInt
<1> QED
    BY <1>1, PTL

\* A balance tells only the opening balance and the weights apart.
LEMMA BalancesAgree ==
    ASSUME TypeOK, NEW a \in Accounts, NEW s, NEW t,
           \A i \in Ids : Weight(a, s)[i] = Weight(a, t)[i]
    PROVE  BalanceAt(a, s) = BalanceAt(a, t)
<1>1. Sum(Weight(a, s), Ids) = Sum(Weight(a, t), Ids)
    BY FiniteAssumption, WeightType, SumAgree DEF FiniteAssumption
<1> QED
    BY <1>1, BalanceIsSum DEF BalancesAreSums

\* The rows N start to count, and all else that counts stays as it is.
Adds(N) ==
    /\ N \in SUBSET Ids
    /\ \A i \in N : ~Counts(i) /\ Counts(i)'
    /\ \A i \in Ids \ N : /\ Counts(i)' <=> Counts(i)
                          /\ Counts(i) => /\ tx'[i].account = tx[i].account
                                          /\ tx'[i].at = tx[i].at
                                          /\ tx'[i].effect = tx[i].effect
                                          /\ tx'[i].amount = tx[i].amount

LEMMA AddedMovements ==
    ASSUME NEW N, Adds(N), NEW a
    PROVE  Movements(a)' = Movements(a) \cup {i \in N : tx'[i].account = a}
BY DEF Adds, Movements

\* A balance moves by the change of its opening and by the rows that are new.
LEMMA BalanceMoves ==
    ASSUME TypeOK, TypeOK', NEW N, Adds(N), NEW a \in Accounts, Exists(a), Exists(a)', NEW t
    PROVE  /\ IsFiniteSet(N) /\ \A i \in Ids : Weight(a, t)'[i] \in Int
           /\ Sum(Weight(a, t)', N) \in Int
           /\ BalanceAt(a, t)' = BalanceAt(a, t) + (acct'[a].opening - acct[a].opening)
                                   + Sum(Weight(a, t)', N)
<1> DEFINE w == Weight(a, t)
           v == Weight(a, t)'
           d == [i \in Ids |-> IF i \in N THEN v[i] ELSE 0]
<1>1. IsFiniteSet(Ids) /\ IsFiniteSet(N) /\ N \in SUBSET Ids
    BY FiniteAssumption, FS_Subset DEF FiniteAssumption, Adds
<1>2. \A i \in Ids : w[i] \in Int
    BY WeightType
<1>3. \A i \in Ids : v[i] \in Int
    BY WeightTypeNext DEF WeightsAreInt
<1>4. \A i \in N : w[i] = 0
    BY DEF Adds, Weight
<1>5. \A i \in Ids \ N : v[i] = w[i]
    BY DEF Adds, Weight, Signed
<1>6. BalanceAt(a, t) = acct[a].opening + Sum(w, Ids)
    BY BalanceIsSum DEF BalancesAreSums
<1>7. BalanceAt(a, t)' = acct'[a].opening + Sum(v, Ids)
    BY BalanceIsSumNext DEF BalancesAreSums
<1>8. acct[a].opening \in Int /\ acct'[a].opening \in Int
    BY OpeningType, OpeningTypeNext DEF OpeningsAreInt
<1> HIDE DEF w, v
<1>9. (\A i \in Ids \ N : d[i] = 0) /\ (\A i \in N : d[i] = v[i]) /\ \A i \in Ids : d[i] \in Int
    BY <1>1, <1>3
<1> HIDE DEF d
<1>10. \A i \in Ids : v[i] = w[i] + d[i]
    BY <1>2, <1>3, <1>4, <1>5, <1>9
<1>11. Sum(v, Ids) = Sum(w, Ids) + Sum(d, Ids)
    BY <1>1, <1>2, <1>9, <1>10, SumPlus
<1>12. Sum(d, Ids) = Sum(d, N)
    BY <1>1, <1>9, SumZeros
<1>13. Sum(d, N) = Sum(v, N)
    BY <1>1, <1>3, <1>9, SumAgree
<1>14. Sum(w, Ids) \in Int /\ Sum(v, N) \in Int
    BY <1>1, <1>2, <1>3, SumBasics
<1> QED
    BY <1>1, <1>3, <1>6, <1>7, <1>8, <1>11, <1>12, <1>13, <1>14 DEF v

-----------------------------------------------------------------------------
(* What the steps add *)

LEMMA ShownNext ==
    ASSUME NEW a, NEW n, now' = n
    PROVE  BalanceAt(a, now)' = BalanceAt(a, n)'
BY DEF BalanceAt

\* The rows that count, and the accounts, of a step that posts nothing by itself.
AccountsKept ==
    \A a \in Accounts :
        /\ Exists(a)' <=> Exists(a)
        /\ Exists(a) => /\ acct'[a].opening = acct[a].opening
                        /\ acct'[a].allowNegative = acct[a].allowNegative

LEMMA BumpKeeps ==
    ASSUME TypeOK, NEW S \in SUBSET Accounts, \A a \in S : Exists(a), Bump(S)
    PROVE  AccountsKept
<1> SUFFICES ASSUME NEW a \in Accounts
             PROVE  /\ Exists(a)' <=> Exists(a)
                    /\ Exists(a) => /\ acct'[a].opening = acct[a].opening
                                    /\ acct'[a].allowNegative = acct[a].allowNegative
    BY DEF AccountsKept
<1>1. CASE a \notin S
    BY <1>1 DEF Bump, Exists
<1>2. CASE a \in S
    <2>1. acct[a] \in Account
        BY <1>2, OpeningType
    <2>2. acct'[a] = [acct[a] EXCEPT !.version = @ + 1]
        BY <1>2 DEF Bump
    <2> QED
        BY <2>1, <2>2 DEF Account, Exists
<1> QED
    BY <1>1, <1>2

LEMMA DraftAdds ==
    ASSUME TypeOK, NEW i \in Ids, NEW draft \in Drafts,
           CreateDraft(i, draft) \/ \E v \in Versions : UpdateDraft(i, v, draft)
    PROVE  Adds({}) /\ AccountsKept
<1>1. ~Counts(i) /\ ~Counts(i)' /\ UNCHANGED acct
    BY DEF CreateDraft, UpdateDraft, DraftRow, NoRow, Counts, TypeOK
<1>2. \A j \in Ids \ {i} : tx'[j] = tx[j]
    BY DEF CreateDraft, UpdateDraft, TypeOK
<1> QED
    BY <1>1, <1>2 DEF Adds, AccountsKept, Exists, Counts

LEMMA PostAdds ==
    ASSUME TypeOK, NEW i \in Ids, NEW v \in Versions, Post(i, v)
    PROVE  /\ Adds({i}) /\ AccountsKept
           /\ tx[i] \in Row /\ tx[i].account \in Accounts /\ Exists(tx[i].account)
           /\ Counts(i)' /\ tx'[i].account = tx[i].account /\ tx'[i].at = tx[i].at
           /\ tx'[i].effect = tx[i].effect /\ tx'[i].amount = tx[i].amount
<1>1. /\ tx[i] \in Row /\ tx[i].account \in Accounts /\ Exists(tx[i].account)
      /\ ~Counts(i)
    BY DEF Post, TypeOK, NoRow, Row, Exists, Counts
<1>2. AccountsKept
    BY <1>1, BumpKeeps DEF Post
<1>3. /\ tx'[i].status = "POSTED" /\ tx'[i].account = tx[i].account /\ tx'[i].at = tx[i].at
      /\ tx'[i].effect = tx[i].effect /\ tx'[i].amount = tx[i].amount
    BY <1>1 DEF Post, TypeOK, Row
<1>4. \A j \in Ids \ {i} : tx'[j] = tx[j]
    BY DEF Post, TypeOK
<1>5. Adds({i})
    BY <1>1, <1>3, <1>4 DEF Adds, Counts
<1> QED
    BY <1>1, <1>2, <1>3, <1>5 DEF Counts

LEMMA ReverseAdds ==
    ASSUME TypeOK, NEW i \in Ids, NEW v \in Versions, NEW r \in Ids, NEW at \in Times,
           Reverse(i, v, r, at)
    PROVE  /\ Adds({r}) /\ AccountsKept
           /\ tx[i] \in Row /\ tx[i].account \in Accounts /\ Exists(tx[i].account)
           /\ Counts(i) /\ Counts(r)' /\ tx'[r].account = tx[i].account /\ tx'[r].at = at
           /\ tx'[r].effect = Opposite(tx[i].effect) /\ tx'[r].amount = tx[i].amount
<1>1. /\ tx[i] \in Row /\ tx[i].account \in Accounts /\ Exists(tx[i].account)
      /\ Counts(i) /\ ~Counts(r) /\ i # r
    BY DEF Reverse, TypeOK, NoRow, Row, Exists, Counts
<1>2. AccountsKept
    BY <1>1, BumpKeeps DEF Reverse
<1>3. /\ tx'[i] = [tx[i] EXCEPT !.status = "REVERSED", !.version = v + 1]
      /\ tx'[r] = [tx[i] EXCEPT !.status = "POSTED", !.kind = "REVERSAL",
                                !.effect = Opposite(tx[i].effect), !.at = at,
                                !.reversalOf = i, !.version = 1]
    BY <1>1 DEF Reverse, TypeOK
<1>4. /\ tx'[i].status = "REVERSED" /\ tx'[i].account = tx[i].account /\ tx'[i].at = tx[i].at
      /\ tx'[i].effect = tx[i].effect /\ tx'[i].amount = tx[i].amount
    BY <1>1, <1>3 DEF Row
<1>5. /\ tx'[r].status = "POSTED" /\ tx'[r].account = tx[i].account /\ tx'[r].at = at
      /\ tx'[r].effect = Opposite(tx[i].effect) /\ tx'[r].amount = tx[i].amount
    BY <1>1, <1>3 DEF Row
<1>6. \A j \in Ids \ {i, r} : tx'[j] = tx[j]
    BY DEF Reverse, TypeOK
<1>7. Adds({r})
    BY <1>1, <1>4, <1>5, <1>6 DEF Adds, Counts
<1> QED
    BY <1>1, <1>2, <1>5, <1>7 DEF Counts

\* Nothing that counts is dated ahead of the clock.
NothingAhead == \A i \in Ids : Counts(i) => tx[i].at <= now

LEMMA TimeType ==
    ASSUME TypeOK
    PROVE  now \in Int /\ \A i \in Ids : Counts(i) => tx[i].at \in Int
<1>1. \A i \in Ids : Counts(i) => tx[i] \in Row
    BY DEF TypeOK, Counts, NoRow
<1> QED
    BY <1>1, BoundsAssumption DEF TypeOK, Row, BoundsAssumption

\* Without an allowance for dates ahead, what is posted is dated by now.
LEMMA DatedByNow ==
    ASSUME Skew = 0, TypeOK, NEW i \in Ids, NEW v \in Versions
    PROVE  /\ Post(i, v) => tx[i].at \in Int /\ tx[i].at <= now
           /\ \A r \in Ids, at \in Times : Reverse(i, v, r, at) => at \in Int /\ at <= now
<1>1. now \in Int /\ \A t \in Times : t \in Int
    BY TimeType, BoundsAssumption DEF BoundsAssumption
<1>2. ASSUME Post(i, v)
      PROVE  tx[i].at \in Int /\ tx[i].at <= now
    <2>1. tx[i].at \in Times
        BY <1>2, PostAdds DEF Row
    <2>2. tx[i].at <= now + Skew
        BY <1>2 DEF Post, NotFuture
    <2> QED
        BY <1>1, <2>1, <2>2
<1>3. ASSUME NEW r \in Ids, NEW at \in Times, Reverse(i, v, r, at)
      PROVE  at \in Int /\ at <= now
    <2>1. at <= now + Skew
        BY <1>3 DEF Reverse, ReversalDateAllowed, NotFuture
    <2> QED
        BY <1>1, <2>1
<1> QED
    BY <1>2, <1>3

LEMMA ClockMovesNothing ==
    ASSUME TypeOK, NothingAhead, NEW a \in Accounts, NEW n \in Int, now <= n
    PROVE  BalanceAt(a, n) = BalanceAt(a, now)
<1>1. PICK m : m = now
    OBVIOUS
<1>2. m \in Int /\ m <= n /\ \A i \in Ids : Counts(i) => tx[i].at \in Int /\ tx[i].at <= m
    BY <1>1, TimeType DEF NothingAhead
<1>3. \A i \in Ids : Weight(a, n)[i] = Weight(a, m)[i]
    BY <1>2 DEF Weight
<1>4. BalanceAt(a, n) = BalanceAt(a, m)
    BY <1>3, BalancesAgree
<1> QED
    BY <1>1, <1>4

\* One more row that counts, dated no later than now.
LEMMA OneAdded ==
    ASSUME TypeOK, TypeOK', NEW r \in Ids, Adds({r}), AccountsKept, now' = now,
           tx'[r].at <= now, Counts(r)', NEW a \in Accounts, Exists(a)
    PROVE  /\ Movements(a)' = Movements(a) \cup (IF tx'[r].account = a THEN {r} ELSE {})
           /\ BalanceAt(a, now) \in Int
           /\ BalanceAt(a, now)' =
                 BalanceAt(a, now) + (IF tx'[r].account = a THEN Signed(tx[r])' ELSE 0)
<1>1. PICK n : n = now
    OBVIOUS
<1>2. /\ Exists(a)' /\ acct'[a].opening = acct[a].opening /\ acct[a].opening \in Int
      /\ BalanceAt(a, n) \in Int
    BY OpeningType, BalanceType DEF AccountsKept
<1>3. Weight(a, n)'[r] = IF tx'[r].account = a THEN Signed(tx[r])' ELSE 0
    BY <1>1 DEF Weight, Signed
<1> DEFINE w == Weight(a, n)'
<1>4. /\ w[r] \in Int
      /\ BalanceAt(a, n)' = BalanceAt(a, n) + (acct'[a].opening - acct[a].opening) + Sum(w, {r})
    BY <1>2, BalanceMoves
<1>5. w[r] = IF tx'[r].account = a THEN Signed(tx[r])' ELSE 0
    BY <1>3
<1> HIDE DEF w
<1>6. Sum(w, {r}) = w[r]
    BY <1>4, SumOfOne
<1>7. BalanceAt(a, now)' = BalanceAt(a, n)' /\ BalanceAt(a, now) = BalanceAt(a, n)
    BY <1>1, ShownNext
<1>8. Movements(a)' = Movements(a) \cup {i \in {r} : tx'[i].account = a}
    BY AddedMovements
<1> QED
    BY <1>2, <1>4, <1>5, <1>6, <1>7, <1>8

-----------------------------------------------------------------------------
(* The ledger is a bank *)

\* The bank's variables, as the ledger shows them.
Opened    == {a \in Accounts : Exists(a)}
Used      == {a \in Accounts : Movements(a) # {}}
Protected == {a \in Accounts : Exists(a) /\ ~acct[a].allowNegative}
Shown     == [a \in Accounts |-> IF Exists(a) THEN BalanceAt(a, now) ELSE 0]

\* Money comes to one account, or leaves it as far as its policy allows.
LEMMA OneAddedIsBankStep ==
    ASSUME TypeOK, TypeOK', NEW r \in Ids, Adds({r}), AccountsKept, now' = now,
           tx'[r].at <= now, Counts(r)', NEW a \in Accounts, Exists(a),
           tx'[r].account = a, NEW x \in Amounts, tx'[r].amount = x,
           tx'[r].effect \in Effects,
           tx'[r].effect = "OUTFLOW" /\ ~acct[a].allowNegative => BalanceAt(a, now) >= x
    PROVE  Promised!Deposit(a, x) \/ Promised!Withdraw(a, x)
<1>1. \A b \in Accounts : /\ Exists(b)' <=> Exists(b)
                          /\ Exists(b) => acct'[b].allowNegative = acct[b].allowNegative
    BY DEF AccountsKept
<1>2. Opened' = Opened /\ Protected' = Protected
    BY <1>1 DEF Opened, Protected
<1>3. \A b \in Accounts : Movements(b)' = Movements(b) \cup (IF b = a THEN {r} ELSE {})
    BY AddedMovements
<1>4. Used' = Used \cup {a}
    BY <1>3 DEF Used
<1>5. x \in Int
    BY AmountsAssumption DEF AmountsAssumption
<1>6. Signed(tx[r])' = IF tx'[r].effect = "INFLOW" THEN x ELSE -x
    BY DEF Signed
<1>7. \A b \in Accounts : Exists(b) =>
         BalanceAt(b, now) \in Int /\
         BalanceAt(b, now)' = BalanceAt(b, now) + (IF b = a THEN Signed(tx[r])' ELSE 0)
    BY OneAdded
<1>8. CASE tx'[r].effect = "INFLOW"
    <2>1. \A b \in Accounts : Shown'[b] = IF b = a THEN Shown[b] + x ELSE Shown[b]
        BY <1>1, <1>5, <1>6, <1>7, <1>8 DEF Shown
    <2>2. Shown' = [Shown EXCEPT ![a] = @ + x]
        BY <2>1 DEF Shown
    <2> QED
        BY <1>2, <1>4, <2>2 DEF Promised!Deposit, Opened, Used, Protected, Shown
<1>9. CASE tx'[r].effect = "OUTFLOW"
    <2>1. \A b \in Accounts : Shown'[b] = IF b = a THEN Shown[b] - x ELSE Shown[b]
        BY <1>1, <1>5, <1>6, <1>7, <1>9 DEF Shown
    <2>2. Shown' = [Shown EXCEPT ![a] = @ - x]
        BY <2>1 DEF Shown
    <2>3. a \in Protected => Shown[a] >= x
        BY <1>9 DEF Protected, Shown
    <2> QED
        BY <1>2, <1>4, <2>2, <2>3 DEF Promised!Withdraw, Opened, Used, Protected, Shown
<1> QED
    BY <1>8, <1>9

LEMMA PostIsBankStep ==
    ASSUME Skew = 0, TypeOK, TypeOK', NEW i \in Ids, NEW v \in Versions, Post(i, v)
    PROVE  Promised!BankNext
<1>1. PICK a : a = tx[i].account
    OBVIOUS
<1>2. PICK x : x = tx[i].amount
    OBVIOUS
<1>3. /\ tx[i] \in Row /\ a \in Accounts /\ Exists(a) /\ x \in Amounts
      /\ Adds({i}) /\ AccountsKept /\ Counts(i)' /\ now' = now
      /\ tx'[i].account = a /\ tx'[i].at = tx[i].at
      /\ tx'[i].effect = tx[i].effect /\ tx'[i].amount = x
    <2>1. tx[i] \in Row /\ tx[i].amount \in Amounts /\ now' = now
        BY PostAdds DEF Row, Post
    <2> QED
        BY <1>1, <1>2, <2>1, PostAdds
<1>4. now \in Int /\ tx[i].at \in Int /\ tx[i].at <= now
    BY TimeType, DatedByNow
<1>5. tx[i].effect \in Effects
    BY <1>3 DEF Row
<1>6. ASSUME tx[i].effect = "OUTFLOW", ~acct[a].allowNegative
      PROVE  BalanceAt(a, now) >= x
    <2>1. BalanceAt(a, Max({now, tx[i].at})) - x >= 0
        BY <1>1, <1>2, <1>6 DEF Post, ProjectedBalanceAllows
    <2>2. Max({now, tx[i].at}) = now
        BY <1>4, LaterOf
    <2>3. BalanceAt(a, now) \in Int /\ x \in Int
        BY <1>3, BalanceType, AmountsAssumption DEF AmountsAssumption
    <2> QED
        BY <2>1, <2>2, <2>3
<1>7. Promised!Deposit(a, x) \/ Promised!Withdraw(a, x)
    BY <1>3, <1>4, <1>5, <1>6, OneAddedIsBankStep
<1> QED
    BY <1>3, <1>7 DEF Promised!BankNext

LEMMA ReverseIsBankStep ==
    ASSUME Skew = 0, TypeOK, TypeOK', NEW i \in Ids, NEW v \in Versions, NEW r \in Ids,
           NEW at \in Times, Reverse(i, v, r, at)
    PROVE  Promised!BankNext
<1>1. PICK a : a = tx[i].account
    OBVIOUS
<1>2. PICK x : x = tx[i].amount
    OBVIOUS
<1>3. /\ tx[i] \in Row /\ a \in Accounts /\ Exists(a) /\ x \in Amounts
      /\ Adds({r}) /\ AccountsKept /\ Counts(r)'
      /\ tx'[r].account = a /\ tx'[r].at = at
      /\ tx'[r].effect = Opposite(tx[i].effect) /\ tx'[r].amount = x
    <2>1. /\ Adds({r}) /\ AccountsKept
          /\ tx[i] \in Row /\ tx[i].account \in Accounts /\ Exists(tx[i].account)
          /\ Counts(i) /\ Counts(r)' /\ tx'[r].account = tx[i].account /\ tx'[r].at = at
          /\ tx'[r].effect = Opposite(tx[i].effect) /\ tx'[r].amount = tx[i].amount
        BY ReverseAdds
    <2>2. tx[i].amount \in Amounts
        BY <2>1 DEF Row
    <2> QED
        BY <1>1, <1>2, <2>1, <2>2
<1>4. now \in Int /\ at \in Int /\ at <= now /\ now' = now
    BY TimeType, DatedByNow DEF Reverse
<1>5. tx'[r].effect \in Effects
    BY <1>3 DEF Opposite
<1>6. ASSUME tx'[r].effect = "OUTFLOW", ~acct[a].allowNegative
      PROVE  BalanceAt(a, now) >= x
    <2>1. BalanceAt(a, Max({now, at})) - x >= 0
        BY <1>1, <1>2, <1>3, <1>6 DEF Reverse, ProjectedBalanceAllows
    <2>2. Max({now, at}) = now
        BY <1>4, LaterOf
    <2>3. BalanceAt(a, now) \in Int /\ x \in Int
        BY <1>3, BalanceType, AmountsAssumption DEF AmountsAssumption
    <2> QED
        BY <2>1, <2>2, <2>3
<1>7. Promised!Deposit(a, x) \/ Promised!Withdraw(a, x)
    BY <1>3, <1>4, <1>5, <1>6, OneAddedIsBankStep
<1> QED
    BY <1>3, <1>7 DEF Promised!BankNext

LEMMA NoneAdded ==
    ASSUME Adds({})
    PROVE  \A b : Movements(b)' = Movements(b)
BY DEF Adds, Movements

LEMMA BalanceShifts ==
    ASSUME TypeOK, TypeOK', Adds({}), NEW b \in Accounts, Exists(b), Exists(b)', NEW t
    PROVE  /\ BalanceAt(b, t) \in Int /\ acct[b].opening \in Int /\ acct'[b].opening \in Int
           /\ BalanceAt(b, t)' = BalanceAt(b, t) + (acct'[b].opening - acct[b].opening)
<1> DEFINE w == Weight(b, t)'
<1>1. BalanceAt(b, t)' = BalanceAt(b, t) + (acct'[b].opening - acct[b].opening) + Sum(w, {})
    BY BalanceMoves
<1>2. Sum(w, {}) = 0
    <2> HIDE DEF w
    <2>1. IsFiniteSet({})
        BY FS_EmptySet
    <2> QED
        BY <2>1, SumBasics
<1>3. /\ BalanceAt(b, t) \in Int /\ acct[b].opening \in Int /\ acct'[b].opening \in Int
    BY BalanceType, OpeningType, OpeningTypeNext DEF OpeningsAreInt
<1> HIDE DEF w
<1> QED
    BY <1>1, <1>2, <1>3

\* When no row starts to count, an account that does not change shows what it
\* did, whatever the time, since nothing that counts is ahead of the clock.
LEMMA SameShown ==
    ASSUME TypeOK, TypeOK', NothingAhead, Adds({}), now' \in Int, now <= now',
           NEW b \in Accounts, Exists(b)' <=> Exists(b),
           Exists(b) => acct'[b].opening = acct[b].opening
    PROVE  Shown'[b] = Shown[b]
<1>1. PICK n : n = now'
    OBVIOUS
<1>2. ASSUME Exists(b)
      PROVE  BalanceAt(b, now)' = BalanceAt(b, now)
    <2>1. n \in Int /\ now <= n
        BY <1>1
    <2>2. BalanceAt(b, n)' = BalanceAt(b, n)
        BY <1>2, BalanceShifts
    <2>3. BalanceAt(b, n) = BalanceAt(b, now)
        BY <2>1, ClockMovesNothing
    <2>4. BalanceAt(b, now)' = BalanceAt(b, n)'
        BY <1>1, ShownNext
    <2> QED
        BY <2>2, <2>3, <2>4
<1> QED
    BY <1>2 DEF Shown

\* What the bank sees stays the same when no row starts to count and no account
\* changes.
LEMMA NothingShown ==
    ASSUME TypeOK, TypeOK', NothingAhead, Adds({}), AccountsKept, now' \in Int, now <= now'
    PROVE  UNCHANGED Promised!bank
<1>1. \A b \in Accounts : Movements(b)' = Movements(b)
    BY NoneAdded
<1>2. Opened' = Opened /\ Protected' = Protected /\ Used' = Used
    BY <1>1 DEF AccountsKept, Opened, Protected, Used
<1>3. \A b \in Accounts : Shown'[b] = Shown[b]
    BY SameShown DEF AccountsKept
<1>4. Shown' = Shown
    BY <1>3 DEF Shown
<1> QED
    BY <1>2, <1>4 DEF Promised!bank, Opened, Used, Protected, Shown

LEMMA ShownType == TypeOK => Shown \in [Accounts -> Int]
BY BalanceType DEF Shown

LEMMA ShownTypeNext == TypeOK' => (Shown \in [Accounts -> Int])'
BY ShownType, PTL

LEMMA CreateIsBankStep ==
    ASSUME TypeOK, TypeOK', NothingAhead, MovementsAfterOpening, NEW a \in Accounts,
           NEW opening \in Openings, NEW allowNegative \in BOOLEAN, NEW openedAt \in Times,
           CreateAccount(a, opening, allowNegative, openedAt)
    PROVE  Promised!Open(a)
<1>1. PICK n : n = now
    OBVIOUS
<1>2. /\ ~Exists(a) /\ Exists(a)' /\ Adds({}) /\ now' = now /\ now \in Int
      /\ acct'[a].opening = opening /\ acct'[a].allowNegative = allowNegative
      /\ allowNegative \/ opening >= 0
      /\ \A b \in Accounts \ {a} : acct'[b] = acct[b]
    BY TimeType DEF CreateAccount, TypeOK, Exists, Adds, Counts
<1>3. \A b \in Accounts : Movements(b)' = Movements(b)
    BY <1>2, NoneAdded
<1>4. /\ Opened' = Opened \cup {a} /\ a \notin Opened /\ Used' = Used
      /\ Protected' = IF allowNegative THEN Protected ELSE Protected \cup {a}
    BY <1>2, <1>3 DEF Opened, Used, Protected, Exists
<1>5. \A b \in Accounts \ {a} : Shown'[b] = Shown[b]
    BY <1>2, SameShown DEF Exists
<1>6. Shown'[a] = opening
    <2>1. \A i \in Ids : Weight(a, n)'[i] = 0
        <3>1. \A i \in Ids : Counts(i)' => tx'[i].account # a
            BY <1>2 DEF CreateAccount, Counts, MovementsAfterOpening
        <3> QED
            BY <3>1 DEF Weight
    <2>2. BalanceAt(a, n)' = opening + Sum(Weight(a, n)', Ids)
        BY <1>2, BalanceIsSumNext DEF BalancesAreSums
    <2> DEFINE w == Weight(a, n)'
    <2>3. Sum(w, Ids) = 0
        <3>1. \A i \in Ids : w[i] = 0
            BY <2>1
        <3> HIDE DEF w
        <3>2. Sum(w, Ids) = Sum(w, {}) /\ Sum(w, {}) = 0
            BY <3>1, FiniteAssumption, SumZeros, SumBasics DEF FiniteAssumption
        <3> QED
            BY <3>2
    <2>4. opening \in Int
        BY AmountsAssumption DEF AmountsAssumption
    <2>5. BalanceAt(a, now)' = BalanceAt(a, n)'
        BY <1>1, <1>2, ShownNext
    <2>6. Shown'[a] = BalanceAt(a, now)'
        BY <1>2 DEF Shown
    <2> HIDE DEF w
    <2> QED
        BY <2>2, <2>3, <2>4, <2>5, <2>6 DEF w
<1>7. (Shown \in [Accounts -> Int])'
    BY ShownTypeNext
<1>8. a \in Protected' => Shown'[a] >= 0
    BY <1>2, <1>6 DEF Protected
<1> QED
    BY <1>4, <1>5, <1>7, <1>8 DEF Promised!Open, Opened, Used, Protected, Shown

LEMMA UpdateIsBankStep ==
    ASSUME TypeOK, TypeOK', NothingAhead, NEW a \in Accounts, NEW v \in Versions,
           NEW new \in Edits, NEW renamed \in BOOLEAN, UpdateAccount(a, v, new, renamed)
    PROVE  Promised!Amend(a)
<1>1. PICK n : n = now
    OBVIOUS
<1>2. new \in AccountEdit
    BY RequestsAssumption DEF RequestsAssumption
<1>3. /\ Exists(a) /\ Exists(a)' /\ Adds({}) /\ now' = now /\ now \in Int
      /\ acct'[a].opening = new.opening /\ acct'[a].allowNegative = new.allowNegative
      /\ \A b \in Accounts \ {a} : acct'[b] = acct[b]
    BY <1>2, TimeType DEF UpdateAccount, TypeOK, Exists, Adds, Counts, AccountEdit
<1>4. \A b \in Accounts : Movements(b)' = Movements(b)
    BY <1>3, NoneAdded
<1>5. /\ Opened' = Opened /\ a \in Opened /\ Used' = Used
      /\ Protected' = IF new.allowNegative THEN Protected \ {a} ELSE Protected \cup {a}
    BY <1>3, <1>4 DEF Opened, Used, Protected, Exists
<1>6. \A b \in Accounts \ {a} : Shown'[b] = Shown[b]
    BY <1>3, SameShown DEF Exists
<1>7. /\ BalanceAt(a, n) \in Int /\ acct[a].opening \in Int /\ new.opening \in Int
      /\ BalanceAt(a, n)' = BalanceAt(a, n) + (new.opening - acct[a].opening)
    BY <1>3, BalanceShifts
<1>8. /\ Shown'[a] = BalanceAt(a, n)' /\ Shown[a] = BalanceAt(a, n)
    <2>1. BalanceAt(a, now)' = BalanceAt(a, n)'
        BY <1>1, <1>3, ShownNext
    <2> QED
        BY <1>1, <1>3, <2>1 DEF Shown
<1>9. a \in Used => Shown'[a] = Shown[a]
    <2>1. Movements(a) # {} => new["opening"] = acct[a]["opening"]
        BY DEF UpdateAccount, AccountFields
    <2> QED
        BY <1>7, <1>8, <2>1 DEF Used
<1>10. a \in Protected' => Shown'[a] >= 0
    <2>1. new.allowNegative \/ BalanceAt(a, now) - acct[a].opening + new.opening >= 0
        BY DEF UpdateAccount, NegativePolicyAccepts
    <2>2. BalanceAt(a, now) = BalanceAt(a, n)
        BY <1>1
    <2> QED
        BY <1>5, <1>7, <1>8, <1>3, <2>1, <2>2 DEF Protected
<1>11. (Shown \in [Accounts -> Int])'
    BY ShownTypeNext
<1> QED
    BY <1>5, <1>6, <1>9, <1>10, <1>11 DEF Promised!Amend, Opened, Used, Protected, Shown

LEMMA ClockMoves ==
    ASSUME Next
    PROVE  now' = now \/ now' = now + 1
<1> HIDE DEF Times, Versions
<1>1. CASE Tick
    BY <1>1 DEF Tick
<1>2. ASSUME NEW a \in Accounts, NEW opening, NEW allowNegative, NEW openedAt,
             CreateAccount(a, opening, allowNegative, openedAt)
      PROVE  now' = now
    BY <1>2 DEF CreateAccount
<1>3. ASSUME NEW a \in Accounts, NEW v, NEW new, NEW renamed, UpdateAccount(a, v, new, renamed)
      PROVE  now' = now
    BY <1>3 DEF UpdateAccount
<1>4. CASE AccountNext
    BY <1>2, <1>3, <1>4 DEF AccountNext
<1>5. ASSUME NEW i \in Ids, NEW v, NEW draft, CreateDraft(i, draft) \/ UpdateDraft(i, v, draft)
      PROVE  now' = now
    BY <1>5 DEF CreateDraft, UpdateDraft
<1>6. ASSUME NEW i \in Ids, NEW v, Post(i, v)
      PROVE  now' = now
    BY <1>6 DEF Post
<1>7. ASSUME NEW i \in Ids, NEW v, NEW r \in Ids, NEW at, Reverse(i, v, r, at)
      PROVE  now' = now
    BY <1>7 DEF Reverse
<1>8. CASE TransactionNext
    BY <1>5, <1>6, <1>7, <1>8 DEF TransactionNext
<1> QED
    BY <1>1, <1>4, <1>8 DEF Next

LEMMA NothingAheadStep ==
    ASSUME Skew = 0, TypeOK, NothingAhead, [Next]_vars
    PROVE  NothingAhead'
<1>1. now \in Int /\ now' \in Int /\ now <= now'
    <2>1. now' = now \/ now' = now + 1
        BY ClockMoves DEF vars
    <2>2. now \in Int
        BY TimeType
    <2> QED
        BY <2>1, <2>2
<1>2. \A i \in Ids : Counts(i) => tx[i].at \in Int /\ tx[i].at <= now
    BY TimeType DEF NothingAhead
<1>3. ASSUME NEW N, Adds(N), \A i \in N : tx'[i].at \in Int /\ tx'[i].at <= now
      PROVE  NothingAhead'
    BY <1>1, <1>2, <1>3 DEF NothingAhead, Adds
<1>4. CASE UNCHANGED tx
    BY <1>1, <1>2, <1>4 DEF NothingAhead, Counts
<1>5. ASSUME NEW i \in Ids, NEW draft \in Drafts,
             CreateDraft(i, draft) \/ \E v \in Versions : UpdateDraft(i, v, draft)
      PROVE  NothingAhead'
    BY <1>3, <1>5, DraftAdds
<1>6. ASSUME NEW i \in Ids, NEW v \in Versions, Post(i, v)
      PROVE  NothingAhead'
    <2> HIDE DEF Times, Versions, Kinds, CoreKinds, Effects
    <2>1. tx[i].at \in Int /\ tx[i].at <= now
        BY <1>6, DatedByNow
    <2>2. Adds({i}) /\ tx'[i].at = tx[i].at
        BY <1>6, PostAdds
    <2> QED
        BY <1>3, <2>1, <2>2
<1>7. ASSUME NEW i \in Ids, NEW v \in Versions, NEW r \in Ids, NEW at \in Times,
             Reverse(i, v, r, at)
      PROVE  NothingAhead'
    <2> HIDE DEF Times, Versions, Kinds, CoreKinds, Effects
    <2>1. at \in Int /\ at <= now
        BY <1>7, DatedByNow
    <2>2. Adds({r}) /\ tx'[r].at = at
        BY <1>7, ReverseAdds
    <2> QED
        BY <1>3, <2>1, <2>2
<1> QED
    BY <1>4, <1>5, <1>6, <1>7
    DEF Next, AccountNext, TransactionNext, Tick, CreateAccount, UpdateAccount, vars

LedgerInv == TypeOK /\ MovementsAfterOpening /\ NothingAhead

\* Every step of the ledger is a step of the bank, or none.
LEMMA LedgerIsBankStep ==
    ASSUME Skew = 0, LedgerInv, [Next]_vars
    PROVE  LedgerInv' /\ [Promised!BankNext]_(Promised!bank)
<1>1. LedgerInv'
    BY TypeStep, OpeningStep, NothingAheadStep DEF LedgerInv
<1>2. TypeOK /\ TypeOK' /\ NothingAhead /\ MovementsAfterOpening /\ now \in Int
    BY <1>1, TimeType DEF LedgerInv
<1>3. ASSUME Tick \/ UNCHANGED vars
      PROVE  UNCHANGED Promised!bank
    <2>1. Adds({}) /\ AccountsKept /\ now' \in Int /\ now <= now'
        BY <1>2, <1>3 DEF Tick, vars, Adds, AccountsKept, Counts, Exists
    <2> QED
        BY <1>2, <2>1, NothingShown
<1>4. ASSUME NEW a \in Accounts, NEW opening \in Openings, NEW allowNegative \in BOOLEAN,
             NEW openedAt \in Times, CreateAccount(a, opening, allowNegative, openedAt)
      PROVE  Promised!BankNext
    BY <1>2, <1>4, CreateIsBankStep DEF Promised!BankNext
<1>5. ASSUME NEW a \in Accounts, NEW v \in Versions, NEW new \in Edits,
             NEW renamed \in BOOLEAN, UpdateAccount(a, v, new, renamed)
      PROVE  Promised!BankNext
    BY <1>2, <1>5, UpdateIsBankStep DEF Promised!BankNext
<1>6. ASSUME NEW i \in Ids, NEW draft \in Drafts,
             CreateDraft(i, draft) \/ \E v \in Versions : UpdateDraft(i, v, draft)
      PROVE  UNCHANGED Promised!bank
    <2>1. Adds({}) /\ AccountsKept /\ now' \in Int /\ now <= now'
        BY <1>2, <1>6, DraftAdds DEF CreateDraft, UpdateDraft
    <2> QED
        BY <1>2, <2>1, NothingShown
<1>7. ASSUME NEW i \in Ids, NEW v \in Versions, Post(i, v)
      PROVE  Promised!BankNext
    BY <1>2, <1>7, PostIsBankStep
<1>8. ASSUME NEW i \in Ids, NEW v \in Versions, NEW r \in Ids, NEW at \in Times,
             Reverse(i, v, r, at)
      PROVE  Promised!BankNext
    BY <1>2, <1>8, ReverseIsBankStep
<1> QED
    BY <1>1, <1>3, <1>4, <1>5, <1>6, <1>7, <1>8 DEF Next, AccountNext, TransactionNext

LEMMA SolventMeansNonNegative == Promised!Solvent <=> NonNegative
BY DEF Promised!Solvent, NonNegative

\* When no posting is dated ahead of the clock, the ledger is a bank.
THEOREM LedgerIsBank ==
    ASSUME Skew = 0
    PROVE  Spec => ImplementsBank
<1>1. Init => LedgerInv /\ Promised!BankInit
    <2> SUFFICES ASSUME Init
                 PROVE  LedgerInv /\ Promised!BankInit
        OBVIOUS
    <2>1. (\A a \in Accounts : ~Exists(a)) /\ \A i \in Ids : ~Counts(i)
        BY DEF Init, Exists, NoAccount, Counts, NoRow
    <2>2. LedgerInv
        BY <2>1, BoundsAssumption
        DEF LedgerInv, Init, TypeOK, MovementsAfterOpening, NothingAhead, BoundsAssumption
    <2>3. \A a \in Accounts : Movements(a) = {}
        BY <2>1 DEF Movements
    <2> QED
        BY <2>1, <2>2, <2>3
        DEF Promised!BankInit, Promised!BankTypeOK, Promised!Solvent
<1>2. LedgerInv /\ [Next]_vars => LedgerInv' /\ [Promised!BankNext]_(Promised!bank)
    BY LedgerIsBankStep
<1> QED
    BY <1>1, <1>2, PTL DEF Spec, ImplementsBank, Promised!BankSpec

\* An account that does not allow a negative balance never shows one.
THEOREM BalancesNonNegative ==
    ASSUME Skew = 0
    PROVE  Spec => []NonNegative
<1>1. Spec => Promised!BankSpec
    BY LedgerIsBank DEF ImplementsBank
<1>2. Promised!BankSpec => []Promised!Solvent
    BY Promised!BankSolvent, AmountsAssumption DEF AmountsAssumption
<1> QED
    BY <1>1, <1>2, SolventMeansNonNegative, PTL

-----------------------------------------------------------------------------
(* How movements count: what each row adds to the totals of the dashboard *)

SignedOf   == [i \in Ids |-> IF Counts(i) THEN Signed(tx[i]) ELSE 0]
SpendingOf == [i \in Ids |-> IF Counts(i) THEN tx[i].amount * ClassificationOf(i).spending ELSE 0]
IncomeOf   == [i \in Ids |-> IF Counts(i) THEN tx[i].amount * ClassificationOf(i).income ELSE 0]
OpeningOf  == [a \in Accounts |-> acct[a].opening]

Inflows   == {"INCOME", "REFUND", "TRANSFER_IN", "LOAN_PRINCIPAL_IN", "DEBT_REPAYMENT_IN"}
Outflows  == {"EXPENSE", "TRANSFER_OUT", "TRANSFER_FEE", "LOAN_PRINCIPAL_OUT",
              "DEBT_REPAYMENT_OUT"}
Principal == {"TRANSFER_OUT", "TRANSFER_IN", "LOAN_PRINCIPAL_OUT", "LOAN_PRINCIPAL_IN",
              "DEBT_REPAYMENT_IN", "DEBT_REPAYMENT_OUT"}

\* The kind of a row tells its effect, and a reversal takes back an income or an
\* expense for good.
KindTellsEffect(i) ==
    tx[i] # NoRow =>
        /\ tx[i].kind \in Inflows => tx[i].effect = "INFLOW"
        /\ tx[i].kind \in Outflows => tx[i].effect = "OUTFLOW"
        /\ tx[i].kind = "REVERSAL" =>
              /\ tx[i].reversalOf \in Ids
              /\ tx[tx[i].reversalOf].status = "REVERSED"
              /\ tx[tx[i].reversalOf].kind \in CoreKinds
              /\ tx[i].effect = Opposite(tx[tx[i].reversalOf].effect)

KindsTellEffects == \A i \in Ids : KindTellsEffect(i)

LEMMA CountedRow ==
    ASSUME TypeOK, NEW i \in Ids, Counts(i)
    PROVE  /\ tx[i] \in Row /\ tx[i] # NoRow
           /\ tx[i].amount \in Int /\ Signed(tx[i]) \in Int /\ tx[i].at \in Int
<1>1. tx[i] \in Row /\ tx[i] # NoRow
    BY DEF TypeOK, Counts, NoRow
<1>2. \A x \in Amounts : x \in Int
    BY AmountsAssumption DEF AmountsAssumption
<1>3. tx[i].amount \in Int
    BY <1>1, <1>2 DEF Row
<1> QED
    BY <1>1, <1>3, TimeType DEF Signed

\* The table leaves no movement out: what is no principal is an income, spending or
\* an adjustment, and principal is none of these.
LEMMA Weighed ==
    ASSUME TypeOK, KindsTellEffects, NEW i \in Ids, Counts(i)
    PROVE  LET adjusts == ClassificationOf(i).flow = "NON_CASH_ADJUSTMENT"
           IN  /\ SpendingOf[i] \in Int /\ IncomeOf[i] \in Int /\ SignedOf[i] \in Int
               /\ SignedOf[i] = Signed(tx[i])
               /\ SpendingOf[i] = tx[i].amount * ClassificationOf(i).spending
               /\ IncomeOf[i] = tx[i].amount * ClassificationOf(i).income
               /\ tx[i].kind \in Principal => /\ ~adjusts
                                              /\ SpendingOf[i] = 0 /\ IncomeOf[i] = 0
               /\ adjusts => SpendingOf[i] = 0 /\ IncomeOf[i] = 0
               /\ ~adjusts /\ tx[i].kind \notin Principal =>
                     SignedOf[i] = IncomeOf[i] - SpendingOf[i]
<1>1. PICK n : n = tx[i].amount /\ n \in Int
    BY CountedRow
<1>2. PICK k \in Kinds : k = tx[i].kind
    BY CountedRow DEF Row
<1>3. PICK c : c = ClassificationOf(i)
    OBVIOUS
<1>4. SpendingOf[i] = n * c.spending /\ IncomeOf[i] = n * c.income /\ SignedOf[i] = Signed(tx[i])
    BY <1>1, <1>3 DEF SpendingOf, IncomeOf, SignedOf
<1>5. SignedOf[i] \in Int
    BY <1>4, CountedRow
<1>6. n * 0 = 0 /\ n * 1 = n /\ n * (-1) = -n
    BY <1>1
<1>7. KindTellsEffect(i) /\ tx[i] # NoRow
    BY CountedRow DEF KindsTellEffects
<1>8. CASE k \in {"EXPENSE", "TRANSFER_FEE"}
    <2>1. c.spending = 1 /\ c.income = 0 /\ c.flow = "EXTERNAL"
        BY <1>2, <1>3, <1>8 DEF ClassificationOf, Classifications, Weights
    <2>2. tx[i].effect = "OUTFLOW"
        BY <1>2, <1>7, <1>8 DEF KindTellsEffect, Outflows
    <2> QED
        BY <1>1, <1>2, <1>3, <1>4, <1>5, <1>6, <1>8, <2>1, <2>2 DEF Signed, Principal
<1>9. CASE k = "INCOME"
    <2>1. c.spending = 0 /\ c.income = 1 /\ c.flow = "EXTERNAL"
        BY <1>2, <1>3, <1>9 DEF ClassificationOf, Classifications, Weights
    <2>2. tx[i].effect = "INFLOW"
        BY <1>2, <1>7, <1>9 DEF KindTellsEffect, Inflows
    <2> QED
        BY <1>1, <1>2, <1>3, <1>4, <1>5, <1>6, <1>9, <2>1, <2>2 DEF Signed, Principal
<1>10. CASE k = "REFUND"
    <2>1. c.spending = -1 /\ c.income = 0 /\ c.flow = "EXTERNAL"
        BY <1>2, <1>3, <1>10 DEF ClassificationOf, Classifications, Weights
    <2>2. tx[i].effect = "INFLOW"
        BY <1>2, <1>7, <1>10 DEF KindTellsEffect, Inflows
    <2> QED
        BY <1>1, <1>2, <1>3, <1>4, <1>5, <1>6, <1>10, <2>1, <2>2 DEF Signed, Principal
<1>11. CASE k \in Principal
    <2>1. c.spending = 0 /\ c.income = 0 /\ c.flow # "NON_CASH_ADJUSTMENT"
        BY <1>2, <1>3, <1>11 DEF ClassificationOf, Classifications, Weights, Principal
    <2>2. SpendingOf[i] = 0 /\ IncomeOf[i] = 0
        BY <1>4, <1>6, <2>1
    <2>3. tx[i].kind \in Principal
        BY <1>2, <1>11
    <2>4. /\ SpendingOf[i] = tx[i].amount * ClassificationOf(i).spending
          /\ IncomeOf[i] = tx[i].amount * ClassificationOf(i).income
          /\ ClassificationOf(i).flow # "NON_CASH_ADJUSTMENT"
        BY <1>1, <1>3, <1>4, <2>1
    <2> QED
        BY <1>4, <1>5, <2>2, <2>3, <2>4
<1>12. CASE k = "RECONCILIATION_ADJUSTMENT"
    <2>1. c.spending = 0 /\ c.income = 0 /\ c.flow = "NON_CASH_ADJUSTMENT"
        BY <1>2, <1>3, <1>12 DEF ClassificationOf, Classifications, Weights
    <2> QED
        BY <1>1, <1>2, <1>3, <1>4, <1>5, <1>6, <1>12, <2>1 DEF Principal
<1>13. CASE k = "REVERSAL"
    <2>1. PICK o \in Ids : /\ o = tx[i].reversalOf /\ tx[o].kind \in CoreKinds
                           /\ tx[o].status = "REVERSED"
                           /\ tx[i].effect = Opposite(tx[o].effect)
        BY <1>2, <1>7, <1>13 DEF KindTellsEffect
    <2>2. KindTellsEffect(o) /\ tx[o] # NoRow
        BY <2>1 DEF KindsTellEffects, NoRow
    <2>3. c = Reversed(Classifications[tx[o].kind])
        BY <1>2, <1>3, <1>13, <2>1 DEF ClassificationOf, Original
    <2>4. CASE tx[o].kind = "EXPENSE"
        <3>1. c.spending = -1 /\ c.income = -0 /\ c.flow = "EXTERNAL"
            BY <2>3, <2>4 DEF Classifications, Weights, Reversed
        <3>2. tx[i].effect = "INFLOW"
            BY <2>1, <2>2, <2>4 DEF KindTellsEffect, Outflows, Opposite
        <3> QED
            BY <1>1, <1>2, <1>3, <1>4, <1>5, <1>6, <1>13, <3>1, <3>2 DEF Signed, Principal
    <2>5. CASE tx[o].kind = "INCOME"
        <3>1. c.spending = -0 /\ c.income = -1 /\ c.flow = "EXTERNAL"
            BY <2>3, <2>5 DEF Classifications, Weights, Reversed
        <3>2. tx[i].effect = "OUTFLOW"
            BY <2>1, <2>2, <2>5 DEF KindTellsEffect, Inflows, Opposite
        <3> QED
            BY <1>1, <1>2, <1>3, <1>4, <1>5, <1>6, <1>13, <3>1, <3>2 DEF Signed, Principal
    <2> QED
        BY <2>1, <2>4, <2>5
<1> QED
    BY <1>2, <1>8, <1>9, <1>10, <1>11, <1>12, <1>13 DEF Principal

\* The dashboard's folds are sums of these.
LEMMA SignedSums ==
    ASSUME TypeOK, NEW S \in SUBSET {i \in Ids : Counts(i)}
    PROVE  MapThenSumSet(LAMBDA i : Signed(tx[i]), S) = Sum(SignedOf, S)
<1> DEFINE FoldsRows(h) == h = [s \in SUBSET S |->
                                  IF s = {} THEN 0
                                  ELSE Signed(tx[CHOOSE x \in s : TRUE])
                                         + h[s \ {CHOOSE x \in s : TRUE}]]
           fold == CHOOSE h : FoldsRows(h)
<1>1. IsFiniteSet(S) /\ \A i \in S : SignedOf[i] \in Int /\ SignedOf[i] = Signed(tx[i])
    BY CountedRow, FiniteAssumption, FS_Subset DEF SignedOf, FiniteAssumption
<1>2. MapThenSumSet(LAMBDA i : Signed(tx[i]), S) = fold[S]
    BY DEF MapThenSumSet, MapThenFoldSet
<1>3. \A s \in SUBSET S : s # {} => (CHOOSE x \in s : TRUE) \in S
    OBVIOUS
<1>4. \A h : FoldsRows(h) <=> Folds(h, SignedOf, S)
    BY <1>1, <1>3 DEF Folds
<1> HIDE DEF FoldsRows
<1>5. FoldsRows(fold)
    <2>1. \E h : FoldsRows(h)
        BY <1>1, <1>4, FoldSums
    <2> QED
        BY <2>1
<1> HIDE DEF fold
<1> QED
    BY <1>1, <1>2, <1>4, <1>5, FoldSums

LEMMA SpendingSums ==
    ASSUME TypeOK, KindsTellEffects, NEW S \in SUBSET {i \in Ids : Counts(i)}
    PROVE  MapThenSumSet(LAMBDA i : tx[i].amount * ClassificationOf(i).spending, S)
              = Sum(SpendingOf, S)
<1> DEFINE FoldsRows(h) == h = [s \in SUBSET S |->
                                  IF s = {} THEN 0
                                  ELSE tx[CHOOSE x \in s : TRUE].amount
                                           * ClassificationOf(CHOOSE x \in s : TRUE).spending
                                         + h[s \ {CHOOSE x \in s : TRUE}]]
           fold == CHOOSE h : FoldsRows(h)
<1>1. /\ IsFiniteSet(S)
      /\ \A i \in S : SpendingOf[i] \in Int /\ SpendingOf[i] = tx[i].amount * ClassificationOf(i).spending
    BY Weighed, FiniteAssumption, FS_Subset DEF FiniteAssumption
<1>2. MapThenSumSet(LAMBDA i : tx[i].amount * ClassificationOf(i).spending, S) = fold[S]
    BY DEF MapThenSumSet, MapThenFoldSet
<1>3. \A s \in SUBSET S : s # {} => (CHOOSE x \in s : TRUE) \in S
    OBVIOUS
<1>4. \A h : FoldsRows(h) <=> Folds(h, SpendingOf, S)
    BY <1>1, <1>3 DEF Folds
<1> HIDE DEF FoldsRows
<1>5. FoldsRows(fold)
    <2>1. \E h : FoldsRows(h)
        BY <1>1, <1>4, FoldSums
    <2> QED
        BY <2>1
<1> HIDE DEF fold
<1> QED
    BY <1>1, <1>2, <1>4, <1>5, FoldSums

LEMMA IncomeSums ==
    ASSUME TypeOK, KindsTellEffects, NEW S \in SUBSET {i \in Ids : Counts(i)}
    PROVE  MapThenSumSet(LAMBDA i : tx[i].amount * ClassificationOf(i).income, S)
              = Sum(IncomeOf, S)
<1> DEFINE FoldsRows(h) == h = [s \in SUBSET S |->
                                  IF s = {} THEN 0
                                  ELSE tx[CHOOSE x \in s : TRUE].amount
                                           * ClassificationOf(CHOOSE x \in s : TRUE).income
                                         + h[s \ {CHOOSE x \in s : TRUE}]]
           fold == CHOOSE h : FoldsRows(h)
<1>1. /\ IsFiniteSet(S)
      /\ \A i \in S : IncomeOf[i] \in Int /\ IncomeOf[i] = tx[i].amount * ClassificationOf(i).income
    BY Weighed, FiniteAssumption, FS_Subset DEF FiniteAssumption
<1>2. MapThenSumSet(LAMBDA i : tx[i].amount * ClassificationOf(i).income, S) = fold[S]
    BY DEF MapThenSumSet, MapThenFoldSet
<1>3. \A s \in SUBSET S : s # {} => (CHOOSE x \in s : TRUE) \in S
    OBVIOUS
<1>4. \A h : FoldsRows(h) <=> Folds(h, IncomeOf, S)
    BY <1>1, <1>3 DEF Folds
<1> HIDE DEF FoldsRows
<1>5. FoldsRows(fold)
    <2>1. \E h : FoldsRows(h)
        BY <1>1, <1>4, FoldSums
    <2> QED
        BY <2>1
<1> HIDE DEF fold
<1> QED
    BY <1>1, <1>2, <1>4, <1>5, FoldSums

LEMMA OpeningSums ==
    ASSUME TypeOK, NEW S \in SUBSET {a \in Accounts : Exists(a)}
    PROVE  MapThenSumSet(LAMBDA a : acct[a].opening, S) = Sum(OpeningOf, S)
<1> DEFINE FoldsRows(h) == h = [s \in SUBSET S |->
                                  IF s = {} THEN 0
                                  ELSE acct[CHOOSE x \in s : TRUE].opening
                                         + h[s \ {CHOOSE x \in s : TRUE}]]
           fold == CHOOSE h : FoldsRows(h)
<1>1. IsFiniteSet(S) /\ \A i \in S : OpeningOf[i] \in Int /\ OpeningOf[i] = acct[i].opening
    BY OpeningType, FiniteAssumption, FS_Subset DEF OpeningOf, FiniteAssumption
<1>2. MapThenSumSet(LAMBDA a : acct[a].opening, S) = fold[S]
    BY DEF MapThenSumSet, MapThenFoldSet
<1>3. \A s \in SUBSET S : s # {} => (CHOOSE x \in s : TRUE) \in S
    OBVIOUS
<1>4. \A h : FoldsRows(h) <=> Folds(h, OpeningOf, S)
    BY <1>1, <1>3 DEF Folds
<1> HIDE DEF FoldsRows
<1>5. FoldsRows(fold)
    <2>1. \E h : FoldsRows(h)
        BY <1>1, <1>4, FoldSums
    <2> QED
        BY <2>1
<1> HIDE DEF fold
<1> QED
    BY <1>1, <1>2, <1>4, <1>5, FoldSums

-----------------------------------------------------------------------------
\* What a set of movements brought in is income less spending, the adjustments and
\* the principal.
LEMMA SumsExplained ==
    ASSUME TypeOK, KindsTellEffects, NEW S \in SUBSET {i \in Ids : Counts(i)},
           NEW A, A = {i \in S : ClassificationOf(i).flow = "NON_CASH_ADJUSTMENT"},
           NEW P, P = {i \in S : tx[i].kind \in Principal}
    PROVE  /\ \A T \in SUBSET S : /\ IsFiniteSet(T)
                                  /\ Sum(SignedOf, T) \in Int
                                  /\ Sum(IncomeOf, T) \in Int /\ Sum(SpendingOf, T) \in Int
           /\ Sum(SignedOf, S) = Sum(SignedOf, S \ A) + Sum(SignedOf, A)
           /\ Sum(SignedOf, S) = Sum(IncomeOf, S) - Sum(SpendingOf, S)
                                   + Sum(SignedOf, A) + Sum(SignedOf, P)
<1>1. IsFiniteSet(S) /\ \A T \in SUBSET S : IsFiniteSet(T)
    BY FiniteAssumption, FS_Subset DEF FiniteAssumption
<1>2. \A i \in S : SpendingOf[i] \in Int /\ IncomeOf[i] \in Int /\ SignedOf[i] \in Int
    BY Weighed
<1>3. \A T \in SUBSET S : Sum(SignedOf, T) \in Int /\ Sum(IncomeOf, T) \in Int
                          /\ Sum(SpendingOf, T) \in Int
    BY <1>1, <1>2, SumBasics
<1>4. Sum(SignedOf, S) = Sum(SignedOf, S \ A) + Sum(SignedOf, A)
    <2>1. S = (S \ A) \cup A /\ (S \ A) \cap A = {} /\ S \ A \in SUBSET S /\ A \in SUBSET S
        OBVIOUS
    <2>2. Sum(SignedOf, (S \ A) \cup A) = Sum(SignedOf, S \ A) + Sum(SignedOf, A)
        BY <1>1, <1>2, <2>1, SumOfUnion
    <2> QED
        BY <2>1, <2>2
<1> DEFINE net  == [i \in S |-> IncomeOf[i] - SpendingOf[i]]
           adj  == [i \in S |-> IF i \in A THEN SignedOf[i] ELSE 0]
           prin == [i \in S |-> IF i \in P THEN SignedOf[i] ELSE 0]
           rest == [i \in S |-> adj[i] + prin[i]]
<1>5. \A i \in S : /\ net[i] \in Int /\ adj[i] \in Int /\ prin[i] \in Int /\ rest[i] \in Int
                   /\ IncomeOf[i] = net[i] + SpendingOf[i]
                   /\ rest[i] = adj[i] + prin[i]
    BY <1>2
<1>6. \A i \in S : SignedOf[i] = net[i] + rest[i]
    <2> SUFFICES ASSUME NEW i \in S
                 PROVE  SignedOf[i] = (IncomeOf[i] - SpendingOf[i]) + (adj[i] + prin[i])
        OBVIOUS
    <2>1. Counts(i) /\ i \in Ids
        OBVIOUS
    <2>2. CASE i \in A
        <3>1. i \notin P /\ SpendingOf[i] = 0 /\ IncomeOf[i] = 0
            BY <2>1, <2>2, Weighed
        <3> QED
            BY <1>2, <2>2, <3>1
    <2>3. CASE i \in P
        <3>1. i \notin A /\ SpendingOf[i] = 0 /\ IncomeOf[i] = 0
            BY <2>1, <2>3, Weighed
        <3> QED
            BY <1>2, <2>3, <3>1
    <2>4. CASE i \notin A \cup P
        <3>1. SignedOf[i] = IncomeOf[i] - SpendingOf[i]
            BY <2>1, <2>4, Weighed
        <3> QED
            BY <1>2, <2>4, <3>1
    <2> QED
        BY <2>2, <2>3, <2>4
<1>7. /\ \A i \in A : adj[i] = SignedOf[i]
      /\ \A i \in S \ A : adj[i] = 0
      /\ \A i \in P : prin[i] = SignedOf[i]
      /\ \A i \in S \ P : prin[i] = 0
      /\ A \in SUBSET S /\ P \in SUBSET S
    OBVIOUS
<1> HIDE DEF net, adj, prin, rest
<1>8. Sum(SignedOf, S) = Sum(net, S) + Sum(rest, S)
    BY <1>1, <1>5, <1>6, SumPlus
<1>9. Sum(rest, S) = Sum(adj, S) + Sum(prin, S)
    BY <1>1, <1>5, SumPlus
<1>10. Sum(IncomeOf, S) = Sum(net, S) + Sum(SpendingOf, S)
    BY <1>1, <1>2, <1>5, SumPlus
<1>11. Sum(adj, S) = Sum(SignedOf, A)
    <2>1. Sum(adj, S) = Sum(adj, A)
        BY <1>1, <1>5, <1>7, SumZeros
    <2>2. Sum(adj, A) = Sum(SignedOf, A)
        BY <1>1, <1>2, <1>7, SumAgree
    <2> QED
        BY <2>1, <2>2
<1>12. Sum(prin, S) = Sum(SignedOf, P)
    <2>1. Sum(prin, S) = Sum(prin, P)
        BY <1>1, <1>5, <1>7, SumZeros
    <2>2. Sum(prin, P) = Sum(SignedOf, P)
        BY <1>1, <1>2, <1>7, SumAgree
    <2> QED
        BY <2>1, <2>2
<1>13. Sum(net, S) \in Int /\ S \in SUBSET S
    BY <1>1, <1>5, SumBasics
<1>14. Sum(SignedOf, S) = Sum(IncomeOf, S) - Sum(SpendingOf, S)
                            + Sum(SignedOf, A) + Sum(SignedOf, P)
    BY <1>3, <1>7, <1>8, <1>9, <1>10, <1>11, <1>12, <1>13
<1> QED
    BY <1>1, <1>3, <1>4, <1>14

-----------------------------------------------------------------------------
(* Money in accounts *)

LEMMA OpeningTotals ==
    ASSUME TypeOK, NEW from, NEW to
    PROVE  /\ OpeningTotal(from, to) = Sum(OpeningOf, AccountsOpen(from, to))
           /\ OpeningTotal(from, to) \in Int
           /\ IsFiniteSet(AccountsOpen(from, to))
           /\ \A a \in AccountsOpen(from, to) : OpeningOf[a] \in Int
<1>1. AccountsOpen(from, to) \in SUBSET {a \in Accounts : Exists(a)}
    BY DEF AccountsOpen
<1>2. OpeningTotal(from, to) = Sum(OpeningOf, AccountsOpen(from, to))
    BY <1>1, OpeningSums DEF OpeningTotal
<1>3. IsFiniteSet(AccountsOpen(from, to))
    BY <1>1, FiniteAssumption, FS_Subset DEF FiniteAssumption
<1>4. \A a \in AccountsOpen(from, to) : OpeningOf[a] \in Int
    BY <1>1, OpeningType DEF OpeningOf
<1>5. AccountsOpen(from, to) \in SUBSET AccountsOpen(from, to)
    OBVIOUS
<1> QED
    BY <1>2, <1>3, <1>4, <1>5, SumBasics

\* Every movement dated before an instant is on an account opened before it.
LEMMA MoneyIsSum ==
    ASSUME TypeOK, MovementsAfterOpening, NEW to \in Int
    PROVE  MoneyInAccounts(to) = OpeningTotal(0, to) + Sum(SignedOf, CountedBefore(to))
<1>1. ASSUME NEW i \in CountedBefore(to)
      PROVE  tx[i].account \in AccountsOpen(0, to)
    <2>1. i \in Ids /\ Counts(i) /\ tx[i].at < to
        BY DEF CountedBefore
    <2>2. tx[i] \in Row /\ tx[i].at \in Int
        BY <2>1, CountedRow
    <2>3. PICK a \in Accounts : a = tx[i].account
        BY <2>2 DEF Row
    <2>4. Exists(a) /\ tx[i].at >= acct[a].openedAt
        BY <2>1, <2>3 DEF MovementsAfterOpening
    <2>5. acct[a].openedAt \in Times
        BY <2>4, OpeningType DEF Account
    <2>6. acct[a].openedAt \in Int /\ 0 <= acct[a].openedAt
        BY <2>5, BoundsAssumption DEF BoundsAssumption, Times
    <2> QED
        BY <2>1, <2>2, <2>3, <2>4, <2>6 DEF AccountsOpen
<1>2. {i \in CountedBefore(to) : tx[i].account \in AccountsOpen(0, to)} = CountedBefore(to)
    BY <1>1
<1>3. CountedBefore(to) \in SUBSET {i \in Ids : Counts(i)}
    BY DEF CountedBefore
<1> QED
    BY <1>2, <1>3, SignedSums DEF MoneyInAccounts

\* What the money in accounts gained over a period.
LEMMA MoneyGained ==
    ASSUME TypeOK, MovementsAfterOpening, NEW from \in Int, NEW to \in Int, 0 <= from, from < to
    PROVE  /\ MoneyInAccounts(to) - MoneyInAccounts(from)
                = OpeningTotal(from, to) + Sum(SignedOf, InPeriod(from, to))
           /\ OpeningTotal(from, to) \in Int /\ Sum(SignedOf, InPeriod(from, to)) \in Int
<1> DEFINE B == CountedBefore(from)
           P == InPeriod(from, to)
           O == AccountsOpen(0, from)
           N == AccountsOpen(from, to)
<1>1. CountedBefore(to) = B \cup P /\ B \cap P = {}
    <2>1. ASSUME NEW i \in Ids, Counts(i)
          PROVE  tx[i].at \in Int
        BY <2>1, CountedRow
    <2> QED
        BY <2>1 DEF CountedBefore, InPeriod
<1>2. \A i \in B \cup P : SignedOf[i] \in Int
    <2>1. ASSUME NEW i \in Ids, Counts(i)
          PROVE  SignedOf[i] \in Int
        BY <2>1, CountedRow DEF SignedOf
    <2> QED
        BY <2>1 DEF CountedBefore, InPeriod
<1>3. IsFiniteSet(B) /\ IsFiniteSet(P)
    <2>1. B \subseteq Ids /\ P \subseteq Ids
        BY DEF CountedBefore, InPeriod
    <2> QED
        BY <2>1, FiniteAssumption, FS_Subset DEF FiniteAssumption
<1>4. AccountsOpen(0, to) = O \cup N /\ O \cap N = {}
    <2>1. ASSUME NEW a \in Accounts, Exists(a)
          PROVE  acct[a].openedAt \in Int /\ 0 <= acct[a].openedAt
        <3>1. acct[a].openedAt \in Times
            BY <2>1, OpeningType DEF Account
        <3> QED
            BY <3>1, BoundsAssumption DEF BoundsAssumption, Times
    <2> QED
        BY <2>1 DEF AccountsOpen
<1> HIDE DEF B, P, O, N
<1>5. /\ Sum(SignedOf, B \cup P) = Sum(SignedOf, B) + Sum(SignedOf, P)
      /\ Sum(SignedOf, B) \in Int /\ Sum(SignedOf, P) \in Int
    <2>1. B \in SUBSET B /\ P \in SUBSET P
        OBVIOUS
    <2> QED
        BY <1>1, <1>2, <1>3, <2>1, SumOfUnion, SumBasics
<1>6. /\ OpeningTotal(0, to) = OpeningTotal(0, from) + OpeningTotal(from, to)
      /\ OpeningTotal(0, from) \in Int /\ OpeningTotal(from, to) \in Int
    <2>1. /\ IsFiniteSet(O) /\ IsFiniteSet(N)
          /\ \A a \in O \cup N : OpeningOf[a] \in Int
        BY OpeningTotals DEF O, N
    <2>2. Sum(OpeningOf, O \cup N) = Sum(OpeningOf, O) + Sum(OpeningOf, N)
        BY <1>4, <2>1, SumOfUnion
    <2> QED
        BY <1>4, <2>2, OpeningTotals DEF O, N
<1>7. /\ MoneyInAccounts(to) = OpeningTotal(0, to) + Sum(SignedOf, B \cup P)
      /\ MoneyInAccounts(from) = OpeningTotal(0, from) + Sum(SignedOf, B)
    BY <1>1, MoneyIsSum DEF B
<1>8. MoneyInAccounts(to) - MoneyInAccounts(from) = OpeningTotal(from, to) + Sum(SignedOf, P)
    BY <1>5, <1>6, <1>7
<1> QED
    BY <1>5, <1>6, <1>8 DEF P

\* Over a period, all but the principal is on the dashboard.
LEMMA PeriodExplained ==
    ASSUME TypeOK, KindsTellEffects, MovementsAfterOpening,
           NEW from \in Int, NEW to \in Int, 0 <= from, from < to
    PROVE  LET principal == Sum(SignedOf, {i \in InPeriod(from, to) : tx[i].kind \in Principal})
               gained == MoneyInAccounts(to) - MoneyInAccounts(from)
           IN  /\ gained = OpeningTotal(from, to) + CashFlow(from, to)
                             + ReconciliationAdjustments(from, to)
               /\ gained = OpeningTotal(from, to) + Income(from, to) - GrossSpending(from, to)
                             + ReconciliationAdjustments(from, to) + principal
               /\ principal \in Int /\ OpeningTotal(from, to) \in Int
               /\ Income(from, to) \in Int /\ GrossSpending(from, to) \in Int
               /\ ReconciliationAdjustments(from, to) \in Int
<1> DEFINE S == InPeriod(from, to)
           A == {i \in S : ClassificationOf(i).flow = "NON_CASH_ADJUSTMENT"}
           P == {i \in S : tx[i].kind \in Principal}
<1>1. S \in SUBSET {i \in Ids : Counts(i)}
    BY DEF InPeriod, CountedBefore
<1>2. {i \in S : ClassificationOf(i).flow # "NON_CASH_ADJUSTMENT"} = S \ A
    OBVIOUS
<1>3. S \ A \in SUBSET {i \in Ids : Counts(i)} /\ A \in SUBSET {i \in Ids : Counts(i)}
    BY <1>1
<1>4. CashFlow(from, to) = Sum(SignedOf, S \ A)
    BY <1>2, <1>3, SignedSums DEF CashFlow
<1>5. ReconciliationAdjustments(from, to) = Sum(SignedOf, A)
    BY <1>3, SignedSums DEF ReconciliationAdjustments
<1>6. Income(from, to) = Sum(IncomeOf, S) /\ GrossSpending(from, to) = Sum(SpendingOf, S)
    BY <1>1, IncomeSums, SpendingSums DEF Income, GrossSpending
<1>7. PICK G : G = MoneyInAccounts(to) - MoneyInAccounts(from)
    OBVIOUS
<1>8. /\ G = OpeningTotal(from, to) + Sum(SignedOf, S)
      /\ OpeningTotal(from, to) \in Int
    BY <1>7, MoneyGained
<1>9. /\ Sum(SignedOf, S) = Sum(SignedOf, S \ A) + Sum(SignedOf, A)
      /\ Sum(SignedOf, S) = Sum(IncomeOf, S) - Sum(SpendingOf, S)
                              + Sum(SignedOf, A) + Sum(SignedOf, P)
      /\ \A T \in SUBSET S : Sum(SignedOf, T) \in Int /\ Sum(IncomeOf, T) \in Int
                             /\ Sum(SpendingOf, T) \in Int
    <2>1. /\ A = {i \in S : ClassificationOf(i).flow = "NON_CASH_ADJUSTMENT"}
          /\ P = {i \in S : tx[i].kind \in Principal}
        OBVIOUS
    <2> HIDE DEF S, A, P, Times, Versions, Kinds, CoreKinds, Effects
    <2> QED
        BY <1>1, <2>1, SumsExplained
<1>10. S \in SUBSET S /\ A \in SUBSET S /\ P \in SUBSET S /\ S \ A \in SUBSET S
    OBVIOUS
<1> HIDE DEF S, A, P
<1>11. /\ G = OpeningTotal(from, to) + CashFlow(from, to) + ReconciliationAdjustments(from, to)
       /\ G = OpeningTotal(from, to) + Income(from, to) - GrossSpending(from, to)
                + ReconciliationAdjustments(from, to) + Sum(SignedOf, P)
       /\ Sum(SignedOf, P) \in Int
       /\ Income(from, to) \in Int /\ GrossSpending(from, to) \in Int
       /\ ReconciliationAdjustments(from, to) \in Int
    BY <1>4, <1>5, <1>6, <1>8, <1>9, <1>10
<1> QED
    BY <1>7, <1>8, <1>11 DEF P, S

-----------------------------------------------------------------------------
(* Kinds and effects *)

\* A row that is written tells its effect, and what was reversed is left alone.
LEMMA KindsKept ==
    ASSUME KindsTellEffects,
           \A o \in Ids : tx[o].status = "REVERSED" => tx'[o] = tx[o],
           \A i \in Ids : tx'[i] = tx[i] \/ KindTellsEffect(i)'
    PROVE  KindsTellEffects'
<1> SUFFICES ASSUME NEW i \in Ids
             PROVE  KindTellsEffect(i)'
    BY DEF KindsTellEffects
<1>1. CASE tx'[i] = tx[i]
    BY <1>1 DEF KindsTellEffects, KindTellsEffect
<1> QED
    BY <1>1

LEMMA LedgerKeepsKinds ==
    ASSUME TypeOK, KindsTellEffects, [Next]_vars
    PROVE  /\ KindsTellEffects'
           /\ \A i \in Ids : tx'[i] # NoRow =>
                 \/ tx'[i].kind \in CoreKinds \cup {"REVERSAL"}
                 \/ tx'[i] = tx[i]
<1> DEFINE Kept == /\ \A o \in Ids : tx[o].status = "REVERSED" => tx'[o] = tx[o]
                   /\ \A i \in Ids : \/ tx'[i] = tx[i]
                                     \/ /\ KindTellsEffect(i)'
                                        /\ tx'[i].kind \in CoreKinds \cup {"REVERSAL"}
<1>1. ASSUME NEW j \in Ids, NEW draft \in Drafts, NEW v,
             tx' = [tx EXCEPT ![j] = DraftRow(draft, v)], tx[j].status # "REVERSED"
      PROVE  Kept
    <2>1. draft \in Draft
        BY RequestsAssumption DEF RequestsAssumption
    <2>2. /\ tx'[j].kind = draft.kind /\ tx'[j].effect = EffectFor(draft.kind)
          /\ draft.kind \in CoreKinds
          /\ \A k \in Ids \ {j} : tx'[k] = tx[k]
        BY <1>1, <2>1 DEF TypeOK, DraftRow, Draft
    <2>3. KindTellsEffect(j)'
        BY <2>2 DEF KindTellsEffect, EffectFor, Inflows, Outflows
    <2> QED
        BY <1>1, <2>2, <2>3
<1>2. ASSUME NEW j \in Ids, NEW v \in Versions, Post(j, v)
      PROVE  Kept
    <2>1. tx[j] \in Row /\ tx[j] # NoRow /\ tx[j].status = "DRAFT" /\ tx[j].kind \in CoreKinds
        BY <1>2 DEF Post, TypeOK, NoRow
    <2>2. /\ tx'[j].kind = tx[j].kind /\ tx'[j].effect = tx[j].effect
          /\ \A k \in Ids \ {j} : tx'[k] = tx[k]
        BY <1>2, <2>1 DEF Post, TypeOK, Row
    <2>3. KindTellsEffect(j)
        BY DEF KindsTellEffects
    <2>4. KindTellsEffect(j)'
        BY <2>1, <2>2, <2>3 DEF KindTellsEffect
    <2> QED
        BY <2>1, <2>2, <2>4
<1>3. ASSUME NEW j \in Ids, NEW v \in Versions, NEW r \in Ids, NEW at \in Times,
             Reverse(j, v, r, at)
      PROVE  Kept
    <2>1. /\ tx[j] \in Row /\ tx[r] = NoRow /\ j # r
          /\ tx[j].status = "POSTED" /\ tx[j].kind \in CoreKinds
        BY <1>3 DEF Reverse, TypeOK, NoRow
    <2>2. /\ tx'[j].kind = tx[j].kind /\ tx'[j].effect = tx[j].effect
          /\ tx'[j].status = "REVERSED"
          /\ tx'[r].kind = "REVERSAL" /\ tx'[r].reversalOf = j
          /\ tx'[r].effect = Opposite(tx[j].effect)
          /\ \A k \in Ids \ {j, r} : tx'[k] = tx[k]
        BY <1>3, <2>1 DEF Reverse, TypeOK, Row
    <2>3. KindTellsEffect(j) /\ tx[j] # NoRow
        BY <2>1 DEF KindsTellEffects, NoRow
    <2>4. KindTellsEffect(j)'
        BY <2>1, <2>2, <2>3 DEF KindTellsEffect
    <2>5. KindTellsEffect(r)'
        BY <2>1, <2>2 DEF KindTellsEffect, Inflows, Outflows
    <2>6. tx[r].status # "REVERSED"
        BY <2>1 DEF NoRow
    <2> QED
        BY <2>1, <2>2, <2>4, <2>5, <2>6
<1>6. ASSUME UNCHANGED tx
      PROVE  Kept
    BY <1>6
<1> HIDE DEF Kept
<1>4. ASSUME NEW j \in Ids, NEW draft \in Drafts, CreateDraft(j, draft)
      PROVE  Kept
    <2>1. tx[j].status # "REVERSED" /\ tx' = [tx EXCEPT ![j] = DraftRow(draft, 1)]
        BY <1>4 DEF CreateDraft, NoRow
    <2> QED
        BY <1>1, <2>1
<1>5. ASSUME NEW j \in Ids, NEW v \in Versions, NEW draft \in Drafts, UpdateDraft(j, v, draft)
      PROVE  Kept
    BY <1>1, <1>5 DEF UpdateDraft
<1>7. Kept
    BY <1>2, <1>3, <1>4, <1>5, <1>6
    DEF Next, AccountNext, TransactionNext, Tick, CreateAccount, UpdateAccount, vars
<1> QED
    BY <1>7, KindsKept DEF Kept
=============================================================================
