------------------------------ MODULE SumProofs ------------------------------
(***************************************************************************)
(* What the sums of the books are: facts about SumFunction of the module   *)
(* Functions over any finite set.  SumFunction is a recursive function     *)
(* over the subsets of the domain, in the order of an unspecified choice.  *)
(*                                                                         *)
(* The library's induction theorems take a predicate as a parameter, which *)
(* the provers cannot instantiate.  Here a statement about all subsets is  *)
(* proved by taking the set of its counterexamples: if that set had a      *)
(* member, it would have a smallest one (WFMin, which takes no operator),  *)
(* and the step of the induction refutes it.                               *)
(***************************************************************************)
EXTENDS FiniteSetTheorems, TLAPS

-----------------------------------------------------------------------------
(* Induction, with the statement as a set of counterexamples *)

\* A set of natural numbers that is not empty has a least element.
LEMMA LeastNat ==
  ASSUME NEW T \in SUBSET Nat, T # {}
  PROVE  \E n \in T : \A m \in T : n <= m
<1> DEFINE R == {ss \in Nat \X Nat : ss[1] < ss[2]}
<1>1. IsWellFoundedOn(R, Nat)
  BY NatLessThanWellFounded DEF OpToRel
<1> HIDE DEF R
<1>2. PICK n \in T : \A m \in T : ~(<<m, n>> \in R)
  BY <1>1, WFMin
<1>3. ASSUME NEW m \in T, ~(n <= m)
      PROVE  FALSE
  <2>1. <<m, n>> \in R
    BY <1>3 DEF R
  <2>2. QED
    BY <1>2, <2>1
<1>4. QED
  BY <1>2, <1>3

\* A set of subsets of a finite set has a smallest member.
LEMMA SmallestSubset ==
  ASSUME NEW S, IsFiniteSet(S), NEW T \in SUBSET (SUBSET S), T # {}
  PROVE  \E s \in T : \A r \in T : r \subseteq s => r = s
<1>1. IsWellFoundedOn(StrictSubsetOrdering(S), SUBSET S)
  BY FS_StrictSubsetOrderingWellFounded, FS_FiniteSubsetsOfFinite
<1>2. PICK s \in T : \A r \in T : ~(<<r, s>> \in StrictSubsetOrdering(S))
  BY <1>1, WFMin
<1>3. ASSUME NEW r \in T, r \subseteq s, r # s
      PROVE  FALSE
  <2>1. <<r, s>> \in StrictSubsetOrdering(S)
    BY <1>3 DEF StrictSubsetOrdering
  <2>2. QED
    BY <1>2, <2>1
<1>4. QED
  BY <1>2, <1>3

-----------------------------------------------------------------------------
(* The sum of a function over a finite set *)

\* The element the library's fold takes next.
Picked(s) == CHOOSE x \in s : TRUE

\* One step of the sum, and: iter adds up h over every member of D.
SumStep(iter, h, s) == IF s = {} THEN 0 ELSE h[Picked(s)] + iter[s \ {Picked(s)}]
Adds(iter, h, D) == iter = [s \in D |-> SumStep(iter, h, s)]

\* The choice picks a member of a set that has one.
LEMMA PickedIn ==
  ASSUME NEW s, s # {}
  PROVE  Picked(s) \in s
BY DEF Picked

\* The recursive function under SumFunction exists.
LEMMA AddsExists ==
  ASSUME NEW S, IsFiniteSet(S), NEW h
  PROVE  \E iter : Adds(iter, h, SUBSET S)
<1> DEFINE D(n) == {s \in SUBSET S : Cardinality(s) <= n}
           Bad == {n \in Nat : ~\E iter : Adds(iter, h, D(n))}
<1>1. \A s \in SUBSET S : IsFiniteSet(s) /\ Cardinality(s) \in Nat
  BY FS_Subset, FS_CardinalityType
<1>2. ASSUME NEW n \in Nat, n \in Bad, \A m \in Bad : n <= m
      PROVE  FALSE
  <2>1. CASE n = 0
    <3> DEFINE it == [s \in D(n) |-> 0]
    <3>1. \A s \in D(n) : s = {}
      BY <1>1, <2>1, FS_EmptySet
    <3>2. Adds(it, h, D(n))
      BY <3>1 DEF Adds, SumStep
    <3>3. QED
      BY <3>2, <1>2
  <2>2. CASE n # 0
    <3>1. PICK low : Adds(low, h, D(n - 1))
      <4>1. n - 1 \in Nat /\ ~(n <= n - 1)
        BY <2>2
      <4>2. n - 1 \notin Bad
        BY <4>1, <1>2
      <4>3. QED
        BY <4>1, <4>2
    <3> DEFINE it == [s \in D(n) |-> SumStep(low, h, s)]
    <3>2. ASSUME NEW s \in D(n), s # {}
          PROVE  it[s \ {Picked(s)}] = low[s \ {Picked(s)}]
      <4> DEFINE r == s \ {Picked(s)}
      <4>1. Picked(s) \in s
        BY <3>2, PickedIn
      <4>2. IsFiniteSet(s) /\ Cardinality(s) \in Nat /\ Cardinality(s) <= n
        BY <1>1
      <4>3. Cardinality(r) = Cardinality(s) - 1
        BY <4>1, <4>2, FS_RemoveElement
      <4>4. r \in SUBSET S /\ Cardinality(r) <= n - 1 /\ Cardinality(r) <= n
        BY <4>2, <4>3
      <4>5. r \in D(n - 1) /\ r \in D(n)
        BY <4>4
      <4> HIDE DEF r, D
      <4>6. it[r] = SumStep(low, h, r)
        BY <4>5
      <4>7. low[r] = SumStep(low, h, r)
        BY <4>5, <3>1 DEF Adds
      <4>8. it[r] = low[r]
        BY <4>6, <4>7
      <4>9. QED
        BY <4>8 DEF r
    <3> HIDE DEF D
    <3>3. \A s \in D(n) : SumStep(low, h, s) = SumStep(it, h, s)
      BY <3>2 DEF SumStep
    <3>4. Adds(it, h, D(n))
      BY <3>3 DEF Adds
    <3>5. QED
      BY <3>4, <1>2
  <2>3. QED
    BY <2>1, <2>2
<1>3. Bad = {}
  <2>1. Bad \in SUBSET Nat
    OBVIOUS
  <2> HIDE DEF Bad
  <2>2. QED
    BY <2>1, <1>2, LeastNat
<1>4. Cardinality(S) \in Nat /\ D(Cardinality(S)) = SUBSET S
  BY FS_CardinalityType, FS_Subset
<1>5. Cardinality(S) \notin Bad
  BY <1>3
<1>6. QED
  BY <1>4, <1>5

\* SumFunction is the value of such a function for the whole domain.
LEMMA SumUnfold ==
  ASSUME NEW S, IsFiniteSet(S), NEW h, DOMAIN h = S
  PROVE  \E iter : Adds(iter, h, SUBSET S) /\ SumFunction(h) = iter[S]
<1> DEFINE it == CHOOSE iter : iter = [s \in SUBSET S |->
            IF s = {} THEN 0 ELSE h[CHOOSE x \in s : TRUE] + iter[s \ {CHOOSE x \in s : TRUE}]]
<1>1. \E iter : Adds(iter, h, SUBSET S)
  BY AddsExists
<1>2. Adds(it, h, SUBSET S)
  BY <1>1 DEF Adds, SumStep, Picked
<1>3. SumFunction(h) = it[S]
  BY DEF SumFunction, SumFunctionOnSet, FoldFunctionOnSet, MapThenFoldSet
<1>4. QED
  BY <1>2, <1>3

-----------------------------------------------------------------------------
(* What a sum is, whatever order its function adds in *)

\* The partial sums of integers are integers.
LEMMA AddsInt ==
  ASSUME NEW S, IsFiniteSet(S), NEW h \in [S -> Int], NEW iter,
         Adds(iter, h, SUBSET S)
  PROVE  \A s \in SUBSET S : iter[s] \in Int
<1> DEFINE Bad == {s \in SUBSET S : iter[s] \notin Int}
<1>1. ASSUME NEW s \in Bad, \A r \in Bad : r \subseteq s => r = s
      PROVE  FALSE
  <2>1. iter[s] = SumStep(iter, h, s)
    BY DEF Adds
  <2>2. s # {}
    BY <2>1 DEF SumStep
  <2> DEFINE x == Picked(s)
             r == s \ {x}
  <2>3. x \in s /\ x \in S /\ h[x] \in Int
    BY <2>2, PickedIn
  <2>4. r \in SUBSET S /\ r \notin Bad
    BY <1>1, <2>3
  <2>5. iter[s] = h[x] + iter[r] /\ iter[r] \in Int
    BY <2>1, <2>2, <2>4 DEF SumStep
  <2>6. QED
    BY <2>3, <2>5
<1>2. Bad \in SUBSET (SUBSET S)
  OBVIOUS
<1> HIDE DEF Bad
<1>3. Bad = {}
  BY <1>1, <1>2, SmallestSubset
<1>4. QED
  BY <1>3 DEF Bad

\* Any element may be added last.
LEMMA AddsAny ==
  ASSUME NEW S, IsFiniteSet(S), NEW h \in [S -> Int], NEW iter,
         Adds(iter, h, SUBSET S)
  PROVE  \A s \in SUBSET S : \A x \in s : iter[s] = h[x] + iter[s \ {x}]
<1> DEFINE Good(s) == \A x \in s : iter[s] = h[x] + iter[s \ {x}]
           Bad == {s \in SUBSET S : ~Good(s)}
<1>1. ASSUME NEW s \in Bad, \A r \in Bad : r \subseteq s => r = s
      PROVE  FALSE
  <2>1. PICK x \in s : iter[s] # h[x] + iter[s \ {x}]
    OBVIOUS
  <2>2. s # {} /\ s \in SUBSET S
    BY <2>1
  <2> DEFINE c == Picked(s)
             both == s \ {x, c}
  <2>3. c \in s
    BY <2>2, PickedIn
  <2>4. iter[s] = h[c] + iter[s \ {c}]
    BY <2>2 DEF Adds, SumStep
  <2>5. c # x
    BY <2>1, <2>4
  <2>6. /\ s \ {c} \in SUBSET S /\ s \ {x} \in SUBSET S
        /\ x \in s \ {c} /\ c \in s \ {x}
        /\ (s \ {c}) \ {x} = both /\ (s \ {x}) \ {c} = both
        /\ s \ {c} # s /\ s \ {x} # s
    BY <2>2, <2>3, <2>5
  <2>7. s \ {c} \notin Bad /\ s \ {x} \notin Bad
    BY <1>1, <2>6
  <2>8. Good(s \ {c}) /\ Good(s \ {x})
    BY <2>6, <2>7
  <2>9. iter[s \ {c}] = h[x] + iter[both] /\ iter[s \ {x}] = h[c] + iter[both]
    BY <2>6, <2>8
  <2>10. h[x] \in Int /\ h[c] \in Int /\ iter[both] \in Int
    BY <2>2, <2>3, AddsInt
  <2>11. QED
    BY <2>1, <2>4, <2>9, <2>10
<1>2. Bad \in SUBSET (SUBSET S)
  OBVIOUS
<1> HIDE DEF Bad
<1>3. Bad = {}
  BY <1>1, <1>2, SmallestSubset
<1>4. QED
  BY <1>3 DEF Bad

\* Functions that agree on a set have the same sum over it.
LEMMA AddsAgree ==
  ASSUME NEW S, IsFiniteSet(S), NEW h, NEW iter, Adds(iter, h, SUBSET S),
         NEW g, NEW jter, Adds(jter, g, SUBSET S)
  PROVE  \A s \in SUBSET S : (\A x \in s : h[x] = g[x]) => iter[s] = jter[s]
<1> DEFINE Bad == {s \in SUBSET S : (\A x \in s : h[x] = g[x]) /\ iter[s] # jter[s]}
<1>1. ASSUME NEW s \in Bad, \A r \in Bad : r \subseteq s => r = s
      PROVE  FALSE
  <2>1. iter[s] = SumStep(iter, h, s) /\ jter[s] = SumStep(jter, g, s)
    BY DEF Adds
  <2>2. s # {}
    BY <2>1 DEF SumStep
  <2> DEFINE x == Picked(s)
             r == s \ {x}
  <2>3. x \in s
    BY <2>2, PickedIn
  <2>4. r \in SUBSET S /\ r \notin Bad /\ \A y \in r : h[y] = g[y]
    BY <1>1, <2>3
  <2>5. iter[r] = jter[r] /\ h[x] = g[x]
    BY <2>3, <2>4
  <2>6. QED
    BY <2>1, <2>2, <2>5 DEF SumStep
<1>2. Bad \in SUBSET (SUBSET S)
  OBVIOUS
<1> HIDE DEF Bad
<1>3. Bad = {}
  BY <1>1, <1>2, SmallestSubset
<1>4. QED
  BY <1>3 DEF Bad

-----------------------------------------------------------------------------
(* The facts the other modules cite *)

\* A sum of integers is an integer.
THEOREM SumInt ==
  ASSUME NEW S, IsFiniteSet(S), NEW h \in [S -> Int]
  PROVE  SumFunction(h) \in Int
<1>1. PICK iter : Adds(iter, h, SUBSET S) /\ SumFunction(h) = iter[S]
  BY SumUnfold
<1>2. QED
  BY <1>1, AddsInt

\* Changing one value changes the sum by the difference.
THEOREM SumUpdate ==
  ASSUME NEW S, IsFiniteSet(S), NEW h \in [S -> Int], NEW g \in [S -> Int],
         NEW x \in S, \A y \in S \ {x} : g[y] = h[y]
  PROVE  SumFunction(g) = SumFunction(h) - h[x] + g[x]
<1>1. PICK iter : Adds(iter, h, SUBSET S) /\ SumFunction(h) = iter[S]
  BY SumUnfold
<1>2. PICK jter : Adds(jter, g, SUBSET S) /\ SumFunction(g) = jter[S]
  BY SumUnfold
<1>3. iter[S] = h[x] + iter[S \ {x}] /\ jter[S] = g[x] + jter[S \ {x}]
  BY <1>1, <1>2, AddsAny
<1>4. iter[S \ {x}] = jter[S \ {x}]
  BY <1>1, <1>2, AddsAgree
<1>5. iter[S \ {x}] \in Int /\ h[x] \in Int /\ g[x] \in Int
  BY <1>1, AddsInt
<1>6. QED
  BY <1>1, <1>2, <1>3, <1>4, <1>5
\* The empty sum.
THEOREM SumEmpty ==
  ASSUME NEW h, DOMAIN h = {}
  PROVE  SumFunction(h) = 0
<1>1. PICK iter : Adds(iter, h, SUBSET {}) /\ SumFunction(h) = iter[{}]
  BY SumUnfold, FS_EmptySet
<1>2. QED
  BY <1>1 DEF Adds, SumStep

\* A larger function has a larger sum.
THEOREM SumMonotone ==
  ASSUME NEW S, IsFiniteSet(S), NEW h \in [S -> Int], NEW g \in [S -> Int],
         \A x \in S : h[x] <= g[x]
  PROVE  SumFunction(h) <= SumFunction(g)
<1>1. PICK iter : Adds(iter, h, SUBSET S) /\ SumFunction(h) = iter[S]
  BY SumUnfold
<1>2. PICK jter : Adds(jter, g, SUBSET S) /\ SumFunction(g) = jter[S]
  BY SumUnfold
<1>3. \A s \in SUBSET S : iter[s] \in Int /\ jter[s] \in Int
  BY <1>1, <1>2, AddsInt
<1> DEFINE Bad == {s \in SUBSET S : ~(iter[s] <= jter[s])}
<1>4. ASSUME NEW s \in Bad, \A r \in Bad : r \subseteq s => r = s
      PROVE  FALSE
  <2>1. iter[s] = SumStep(iter, h, s) /\ jter[s] = SumStep(jter, g, s)
    BY <1>1, <1>2 DEF Adds
  <2>2. s # {}
    BY <2>1 DEF SumStep
  <2> DEFINE x == Picked(s)
             r == s \ {x}
  <2>3. x \in s /\ x \in S
    BY <2>2, PickedIn
  <2>4. r \in SUBSET S /\ r \notin Bad
    BY <1>4, <2>3
  <2>5. iter[s] = h[x] + iter[r] /\ jter[s] = g[x] + jter[r]
    BY <2>1, <2>2 DEF SumStep
  <2>6. iter[r] <= jter[r] /\ iter[r] \in Int /\ jter[r] \in Int
    BY <1>3, <2>4
  <2>7. h[x] \in Int /\ g[x] \in Int /\ h[x] <= g[x]
    BY <2>3
  <2>8. iter[s] <= jter[s]
    BY <2>5, <2>6, <2>7
  <2>9. QED
    BY <2>8
<1>5. Bad \in SUBSET (SUBSET S)
  OBVIOUS
<1> HIDE DEF Bad
<1>6. Bad = {}
  BY <1>4, <1>5, SmallestSubset
<1>7. QED
  BY <1>1, <1>2, <1>6 DEF Bad

\* The sum of zeros.
THEOREM SumZero ==
  ASSUME NEW S, IsFiniteSet(S), NEW h, DOMAIN h = S, \A x \in S : h[x] = 0
  PROVE  SumFunction(h) = 0
<1>1. PICK iter : Adds(iter, h, SUBSET S) /\ SumFunction(h) = iter[S]
  BY SumUnfold
<1> DEFINE Bad == {s \in SUBSET S : iter[s] # 0}
<1>2. ASSUME NEW s \in Bad, \A r \in Bad : r \subseteq s => r = s
      PROVE  FALSE
  <2>1. iter[s] = SumStep(iter, h, s)
    BY <1>1 DEF Adds
  <2>2. s # {}
    BY <2>1 DEF SumStep
  <2> DEFINE x == Picked(s)
             r == s \ {x}
  <2>3. x \in s /\ x \in S
    BY <2>2, PickedIn
  <2>4. r \in SUBSET S /\ r \notin Bad
    BY <1>2, <2>3
  <2>5. iter[s] = h[x] + iter[r] /\ h[x] = 0 /\ iter[r] = 0
    BY <2>1, <2>2, <2>3, <2>4 DEF SumStep
  <2>6. QED
    BY <2>5
<1>3. Bad \in SUBSET (SUBSET S)
  OBVIOUS
<1> HIDE DEF Bad
<1>4. Bad = {}
  BY <1>2, <1>3, SmallestSubset
<1>5. QED
  BY <1>1, <1>4 DEF Bad

\* A sum with one term that counts.
THEOREM SumSingle ==
  ASSUME NEW S, IsFiniteSet(S), NEW h \in [S -> Int], NEW x \in S,
         \A y \in S \ {x} : h[y] = 0
  PROVE  SumFunction(h) = h[x]
<1> DEFINE zero == [y \in S |-> 0]
<1>1. zero \in [S -> Int] /\ zero[x] = 0 /\ SumFunction(zero) = 0
  BY SumZero
<1>2. \A y \in S \ {x} : h[y] = zero[y]
  OBVIOUS
<1> HIDE DEF zero
<1>3. SumFunction(h) = SumFunction(zero) - zero[x] + h[x]
  BY <1>1, <1>2, SumUpdate
<1>4. h[x] \in Int
  OBVIOUS
<1>5. QED
  BY <1>1, <1>3, <1>4

\* A sum of natural numbers is one, and no term exceeds it.
THEOREM SumNat ==
  ASSUME NEW S, IsFiniteSet(S), NEW h \in [S -> Nat]
  PROVE  /\ SumFunction(h) \in Nat
         /\ \A x \in S : h[x] <= SumFunction(h)
<1>1. h \in [S -> Int] /\ SumFunction(h) \in Int
  BY SumInt
<1> DEFINE zero == [x \in S |-> 0]
<1>2. zero \in [S -> Int] /\ SumFunction(zero) = 0
  BY SumZero
<1>3. 0 <= SumFunction(h)
  <2>1. \A x \in S : zero[x] <= h[x]
    OBVIOUS
  <2> HIDE DEF zero
  <2>2. QED
    BY <1>1, <1>2, <2>1, SumMonotone
<1>4. ASSUME NEW x \in S
      PROVE  h[x] <= SumFunction(h)
  <2> DEFINE one == [y \in S |-> IF y = x THEN h[x] ELSE 0]
  <2>1. one \in [S -> Int] /\ one[x] = h[x] /\ zero[x] = 0
        /\ \A y \in S \ {x} : one[y] = zero[y]
    OBVIOUS
  <2>2. \A y \in S : one[y] <= h[y]
    OBVIOUS
  <2> HIDE DEF one, zero
  <2>3. SumFunction(one) = SumFunction(zero) - zero[x] + one[x]
    BY <1>2, <2>1, SumUpdate
  <2>4. SumFunction(one) <= SumFunction(h)
    BY <1>1, <2>1, <2>2, SumMonotone
  <2>5. QED
    BY <1>1, <1>2, <2>1, <2>3, <2>4
<1>5. QED
  BY <1>1, <1>3, <1>4

\* The sum of a sum of two functions.
THEOREM SumPlus ==
  ASSUME NEW S, IsFiniteSet(S), NEW h \in [S -> Int], NEW g \in [S -> Int],
         NEW k \in [S -> Int], \A x \in S : k[x] = h[x] + g[x]
  PROVE  SumFunction(k) = SumFunction(h) + SumFunction(g)
<1>1. PICK iter : Adds(iter, h, SUBSET S) /\ SumFunction(h) = iter[S]
  BY SumUnfold
<1>2. PICK jter : Adds(jter, g, SUBSET S) /\ SumFunction(g) = jter[S]
  BY SumUnfold
<1>3. PICK kter : Adds(kter, k, SUBSET S) /\ SumFunction(k) = kter[S]
  BY SumUnfold
<1>4. \A s \in SUBSET S : iter[s] \in Int /\ jter[s] \in Int /\ kter[s] \in Int
  BY <1>1, <1>2, <1>3, AddsInt
<1> DEFINE Bad == {s \in SUBSET S : kter[s] # iter[s] + jter[s]}
<1>5. ASSUME NEW s \in Bad, \A r \in Bad : r \subseteq s => r = s
      PROVE  FALSE
  <2>1. /\ iter[s] = SumStep(iter, h, s)
        /\ jter[s] = SumStep(jter, g, s)
        /\ kter[s] = SumStep(kter, k, s)
    BY <1>1, <1>2, <1>3 DEF Adds
  <2>2. s # {}
    BY <2>1 DEF SumStep
  <2> DEFINE x == Picked(s)
             r == s \ {x}
  <2>3. x \in s /\ x \in S
    BY <2>2, PickedIn
  <2>4. r \in SUBSET S /\ r \notin Bad
    BY <1>5, <2>3
  <2>5. iter[s] = h[x] + iter[r] /\ jter[s] = g[x] + jter[r] /\ kter[s] = k[x] + kter[r]
    BY <2>1, <2>2 DEF SumStep
  <2>6. kter[r] = iter[r] + jter[r] /\ iter[r] \in Int /\ jter[r] \in Int
    BY <1>4, <2>4
  <2>7. k[x] = h[x] + g[x] /\ h[x] \in Int /\ g[x] \in Int
    BY <2>3
  <2>8. kter[s] = iter[s] + jter[s]
    BY <2>5, <2>6, <2>7
  <2>9. QED
    BY <2>8
<1>6. Bad \in SUBSET (SUBSET S)
  OBVIOUS
<1> HIDE DEF Bad
<1>7. Bad = {}
  BY <1>5, <1>6, SmallestSubset
<1>8. QED
  BY <1>1, <1>2, <1>3, <1>7 DEF Bad
\* Only the elements with a value other than zero count.
THEOREM SumWithin ==
  ASSUME NEW S, IsFiniteSet(S), NEW h \in [S -> Int],
         NEW D \in SUBSET S, \A x \in S \ D : h[x] = 0
  PROVE  SumFunction(h) = SumFunction([x \in D |-> h[x]])
<1> DEFINE g == [x \in D |-> h[x]]
<1>1. IsFiniteSet(D) /\ g \in [D -> Int] /\ DOMAIN g = D
  BY FS_Subset
<1>2. PICK iter : Adds(iter, h, SUBSET S) /\ SumFunction(h) = iter[S]
  BY SumUnfold
<1>3. PICK jter : Adds(jter, g, SUBSET D) /\ SumFunction(g) = jter[D]
  BY <1>1, SumUnfold
<1> HIDE DEF g
<1>4. iter[{}] = 0 /\ jter[{}] = 0
  BY <1>2, <1>3 DEF Adds, SumStep
<1>5. \A s \in SUBSET S : iter[s] \in Int
  BY <1>2, AddsInt
<1> DEFINE Bad == {s \in SUBSET S : iter[s] # jter[s \cap D]}
<1>6. ASSUME NEW s \in Bad, \A r \in Bad : r \subseteq s => r = s
      PROVE  FALSE
  <2>1. s # {}
    BY <1>4
  <2>2. PICK x \in s : TRUE
    BY <2>1
  <2> DEFINE r == s \ {x}
  <2>3. r \in SUBSET S /\ r \notin Bad
    BY <1>6, <2>2
  <2>4. iter[s] = h[x] + iter[r] /\ iter[r] = jter[r \cap D] /\ iter[r] \in Int
    <3>1. iter[s] = h[x] + iter[r]
      BY <1>2, <2>2, AddsAny
    <3>2. QED
      BY <1>5, <2>3, <3>1
  <2>5. CASE x \in D
    <3> DEFINE q == s \cap D
    <3>1. q \in SUBSET D /\ x \in q /\ q \ {x} = r \cap D /\ h[x] = g[x]
      BY <2>2, <2>5 DEF g
    <3> HIDE DEF q
    <3>2. jter[q] = g[x] + jter[q \ {x}]
      BY <1>1, <1>3, <3>1, AddsAny
    <3>3. QED
      BY <2>4, <3>1, <3>2 DEF q
  <2>6. CASE x \notin D
    <3>1. s \cap D = r \cap D /\ h[x] = 0
      BY <2>2, <2>6
    <3>2. QED
      BY <2>4, <3>1
  <2>7. QED
    BY <2>5, <2>6
<1>7. Bad \in SUBSET (SUBSET S)
  OBVIOUS
<1> HIDE DEF Bad
<1>8. Bad = {}
  BY <1>6, <1>7, SmallestSubset
<1>9. S \notin Bad /\ S \cap D = D
  BY <1>8
<1>10. QED
  BY <1>2, <1>3, <1>9 DEF Bad, g
============================================================================
