---- MODULE CommonLemmas ----
(***************************************************************************)
(* What the operators of the community modules that the models are built   *)
(* from return: Max, Min and the sum of a function; how many members the   *)
(* parts and the cover of a finite set have; and what the positions of the *)
(* members of a finite, totally ordered set are.  And the rollout gate,    *)
(* which two components ask.                                               *)
(*                                                                         *)
(* No lemma takes an operator as a parameter.  An induction is the absence *)
(* of a smallest counterexample, which is a set.                           *)
(***************************************************************************)
EXTENDS Rollouts, MeasuredFields, FiniteSetsExt, FiniteSetTheorems, WellFoundedInduction,
        TLAPS

(* The order of the natural numbers, as the relation that has minima. *)
LEMMA SmallerIsRelated ==
  ASSUME NEW d \in Nat, NEW e \in Nat, e < d
  PROVE  <<e, d>> \in OpToRel(<, Nat)
<1>1. <<e, d>> \in Nat \X Nat /\ <<e, d>>[1] < <<e, d>>[2]
  OBVIOUS
<1> QED
  BY <1>1, Zenon DEF OpToRel

(* A set of integers that does not exceed a bound has a maximum. *)
LEMMA MaxExists ==
  ASSUME NEW S \in SUBSET Int, S # {}, NEW high \in Int, \A x \in S : x <= high
  PROVE  Max(S) \in S /\ \A x \in S : x <= Max(S)
<1> DEFINE below == {high - x : x \in S}
<1>1. below \subseteq Nat /\ below # {}
  <2>1. \A x \in S : high - x \in Nat
    OBVIOUS
  <2> QED
    BY <2>1
<1>2. PICK d \in below : \A e \in below : ~(<<e, d>> \in OpToRel(<, Nat))
  BY <1>1, NatLessThanWellFounded, WFMin, Zenon
<1>3. \A e \in below : ~(e < d)
  BY <1>1, <1>2, SmallerIsRelated, Zenon
<1>4. PICK x \in S : d = high - x
  OBVIOUS
<1>5. \A y \in S : x >= y
  <2> TAKE y \in S
  <2>1. high - y \in below
    OBVIOUS
  <2>2. high - x <= high - y
    <3>1. ~(high - y < high - x)
      BY <1>3, <1>4, <2>1
    <3> QED
      BY <3>1
  <2>3. x \in Int /\ y \in Int
    OBVIOUS
  <2> QED
    BY <2>2, <2>3
<1> QED
  BY <1>5 DEF Max

(* A set of natural numbers has a minimum. *)
LEMMA MinExists ==
  ASSUME NEW S \in SUBSET Nat, S # {}
  PROVE  Min(S) \in S /\ \A x \in S : Min(S) <= x
<1>1. PICK d \in S : \A e \in S : ~(<<e, d>> \in OpToRel(<, Nat))
  BY NatLessThanWellFounded, WFMin, Zenon
<1>2. \A e \in S : ~(e < d)
  BY <1>1, SmallerIsRelated, Zenon
<1>3. \A e \in S : d <= e
  BY <1>2
<1> QED
  BY <1>3 DEF Min

(* Of two integers. *)
LEMMA MaxOfTwo ==
  ASSUME NEW a \in Int, NEW b \in Int
  PROVE  Max({a, b}) = IF a >= b THEN a ELSE b
<1> DEFINE m == IF a >= b THEN a ELSE b
<1>1. m \in {a, b} /\ \A y \in {a, b} : m >= y
  OBVIOUS
<1>2. \A x \in {a, b} : (\A y \in {a, b} : x >= y) => x = m
  OBVIOUS
<1> QED
  BY <1>1, <1>2 DEF Max

LEMMA MinOfTwo ==
  ASSUME NEW a \in Int, NEW b \in Int
  PROVE  Min({a, b}) = IF a <= b THEN a ELSE b
<1> DEFINE m == IF a <= b THEN a ELSE b
<1>1. m \in {a, b} /\ \A y \in {a, b} : m =< y
  OBVIOUS
<1>2. \A x \in {a, b} : (\A y \in {a, b} : x =< y) => x = m
  OBVIOUS
<1> QED
  BY <1>1, <1>2 DEF Min

-----------------------------------------------------------------------------
(* Induction, over sets. *)

LEMMA Induction ==
  ASSUME NEW Good \in SUBSET Nat, 0 \in Good, \A n \in Good : n + 1 \in Good
  PROVE  Good = Nat
<1> DEFINE bad == Nat \ Good
<1>1. SUFFICES ASSUME bad # {} PROVE FALSE
  OBVIOUS
<1>2. PICK m \in bad : \A n \in bad : m <= n
  <2>1. bad \in SUBSET Nat
    OBVIOUS
  <2> HIDE DEF bad
  <2> QED
    BY <1>1, <2>1, MinExists
<1>3. m \in Nat /\ m # 0 /\ m - 1 \in Nat
  BY <1>2
<1>4. m - 1 \in Good
  BY <1>2, <1>3
<1>5. (m - 1) + 1 \in Good
  BY <1>4
<1> QED
  BY <1>2, <1>3, <1>5

(* Among subsets of a finite set there is a smallest. *)
LEMMA SmallestSubset ==
  ASSUME NEW S, IsFiniteSet(S), NEW Bad \in SUBSET SUBSET S, Bad # {}
  PROVE  \E T \in Bad : \A R \in SUBSET T : R # T => R \notin Bad
<1> DEFINE sizes == {Cardinality(T) : T \in Bad}
<1>1. \A T \in Bad : IsFiniteSet(T) /\ Cardinality(T) \in Nat
  BY FS_Subset, FS_CardinalityType
<1>2. PICK m \in sizes : \A n \in sizes : m <= n
  <2>1. sizes \in SUBSET Nat /\ sizes # {}
    BY <1>1
  <2> HIDE DEF sizes
  <2> QED
    BY <2>1, MinExists
<1>3. PICK T \in Bad : Cardinality(T) = m
  BY <1>2
<1>4. ASSUME NEW R \in SUBSET T, R # T, R \in Bad
      PROVE  FALSE
  <2>1. Cardinality(R) < Cardinality(T)
    BY <1>1, <1>4, FS_Subset
  <2>2. m <= Cardinality(R)
    BY <1>2, <1>4
  <2> QED
    BY <1>1, <1>3, <1>4, <2>1, <2>2
<1> QED
  BY <1>4

(* A set at least so large has a part exactly so large. *)
LEMMA PartOfSize ==
  ASSUME NEW S, IsFiniteSet(S), NEW n \in Nat, n <= Cardinality(S)
  PROVE  \E T \in SUBSET S : Cardinality(T) = n
<1> DEFINE large == {T \in SUBSET S : n <= Cardinality(T)}
<1>1. PICK T \in large : \A R \in SUBSET T : R # T => R \notin large
  <2>1. large \in SUBSET SUBSET S /\ S \in large
    OBVIOUS
  <2> HIDE DEF large
  <2> QED
    BY <2>1, SmallestSubset
<1>2. /\ T \in SUBSET S /\ IsFiniteSet(T)
      /\ Cardinality(T) \in Nat /\ n <= Cardinality(T)
  BY <1>1, FS_Subset, FS_CardinalityType
<1>3. SUFFICES ASSUME n < Cardinality(T) PROVE FALSE
  BY <1>2
<1>4. PICK x \in T : TRUE
  BY <1>2, <1>3, FS_EmptySet
<1>5. Cardinality(T \ {x}) = Cardinality(T) - 1
  BY <1>2, <1>4, FS_RemoveElement
<1>6. T \ {x} \in large
  BY <1>2, <1>3, <1>5
<1> QED
  BY <1>1, <1>4, <1>6

(* Sets of at most so many members each have at most so many together. *)
LEMMA UnionAtMost ==
  ASSUME NEW S, IsFiniteSet(S), NEW f, NEW n \in Nat,
         \A x \in S : IsFiniteSet(f[x]) /\ Cardinality(f[x]) <= n
  PROVE  /\ IsFiniteSet(UNION {f[x] : x \in S})
         /\ Cardinality(UNION {f[x] : x \in S}) <= n * Cardinality(S)
<1> DEFINE all(s) == UNION {f[x] : x \in s}
           bad == {s \in SUBSET S :
                     ~(IsFiniteSet(all(s)) /\ Cardinality(all(s)) <= n * Cardinality(s))}
<1>1. SUFFICES ASSUME bad # {} PROVE FALSE
  OBVIOUS
<1>2. PICK T \in bad : \A R \in SUBSET T : R # T => R \notin bad
  <2>1. bad \in SUBSET SUBSET S
    OBVIOUS
  <2> HIDE DEF bad
  <2> QED
    BY <1>1, <2>1, SmallestSubset
<1>3. T \in SUBSET S /\ IsFiniteSet(T) /\ Cardinality(T) \in Nat
  BY <1>2, FS_Subset, FS_CardinalityType
<1>4. CASE T = {}
  <2>1. all(T) = {} /\ Cardinality({}) = 0 /\ IsFiniteSet({}) /\ n * 0 = 0
    BY <1>4, FS_EmptySet
  <2> QED
    BY <1>2, <1>4, <2>1
<1>5. CASE T # {}
  <2>1. PICK x \in T : TRUE
    BY <1>5
  <2> DEFINE R == T \ {x}
  <2>2. R \in SUBSET S /\ R \notin bad
    BY <1>2, <1>3, <2>1
  <2>3. IsFiniteSet(all(R)) /\ Cardinality(all(R)) <= n * Cardinality(R)
    BY <2>2
  <2>4. Cardinality(R) = Cardinality(T) - 1
    BY <1>3, <2>1, FS_RemoveElement
  <2>5. all(T) = all(R) \cup f[x]
    BY <2>1
  <2>6. IsFiniteSet(f[x]) /\ Cardinality(f[x]) <= n
    BY <1>3, <2>1
  <2> HIDE DEF all, R
  <2>7. /\ IsFiniteSet(all(T))
        /\ Cardinality(all(T)) =
             Cardinality(all(R)) + Cardinality(f[x]) - Cardinality(all(R) \cap f[x])
    BY <2>3, <2>5, <2>6, FS_Union
  <2>8. /\ Cardinality(all(R)) \in Nat /\ Cardinality(f[x]) \in Nat
        /\ Cardinality(all(R) \cap f[x]) \in Nat
    BY <2>3, <2>6, FS_Intersection, FS_CardinalityType
  <2>9. n * Cardinality(T) = n * Cardinality(R) + n /\ n * Cardinality(R) \in Int
    <3> DEFINE c == Cardinality(R)
    <3>1. c \in Int /\ Cardinality(T) = c + 1
      BY <1>3, <2>4
    <3> HIDE DEF c
    <3>2. n * (c + 1) = n * c + n /\ n * c \in Int
      BY <3>1
    <3> QED
      BY <3>1, <3>2 DEF c
  <2>10. Cardinality(all(T)) <= n * Cardinality(T)
    BY <2>3, <2>6, <2>7, <2>8, <2>9
  <2>11. ~(IsFiniteSet(all(T)) /\ Cardinality(all(T)) <= n * Cardinality(T))
    BY <1>2
  <2> QED
    BY <2>7, <2>10, <2>11
<1> QED
  BY <1>4, <1>5

(* At least so many in each class are that many times the classes.           *)
LEMMA Pigeonholes ==
  ASSUME NEW S, IsFiniteSet(S), NEW K, IsFiniteSet(K), NEW f, NEW n \in Nat,
         \A k \in K : n <= Cardinality({x \in S : f[x] = k})
  PROVE  n * Cardinality(K) <= Cardinality(S)
<1> DEFINE of(ks) == {x \in S : f[x] \in ks}
           bad == {ks \in SUBSET K : ~(n * Cardinality(ks) <= Cardinality(of(ks)))}
<1>1. K \notin bad
  <2> SUFFICES ASSUME bad # {} PROVE FALSE
    OBVIOUS
  <2>1. PICK T \in bad : \A R \in SUBSET T : R # T => R \notin bad
    <3>1. bad \in SUBSET SUBSET K
      OBVIOUS
    <3> HIDE DEF bad
    <3> QED
      BY <3>1, SmallestSubset
  <2>2. T \in SUBSET K /\ IsFiniteSet(T) /\ Cardinality(T) \in Nat
    BY <2>1, FS_Subset, FS_CardinalityType
  <2>3. \A ks : of(ks) \in SUBSET S /\ IsFiniteSet(of(ks)) /\ Cardinality(of(ks)) \in Nat
    BY FS_Subset, FS_CardinalityType
  <2>4. ~(n * Cardinality(T) <= Cardinality(of(T)))
    BY <2>1
  <2>5. T # {}
    BY <2>3, <2>4, FS_EmptySet
  <2>6. PICK k \in T : TRUE
    BY <2>5
  <2> DEFINE R == T \ {k}
             mine == {x \in S : f[x] = k}
  <2>7. n * Cardinality(R) <= Cardinality(of(R))
    BY <2>1, <2>2, <2>6
  <2>8. Cardinality(R) = Cardinality(T) - 1
    BY <2>2, <2>6, FS_RemoveElement
  <2>9. n <= Cardinality(mine)
    BY <2>2, <2>6
  <2>10. of(T) = of(R) \cup mine /\ of(R) \cap mine = {}
    BY <2>6
  <2>11. IsFiniteSet(mine) /\ Cardinality(mine) \in Nat
    BY FS_Subset, FS_CardinalityType
  <2> HIDE DEF of, R, mine
  <2>12. Cardinality(of(T)) = Cardinality(of(R)) + Cardinality(mine)
    <3>1. Cardinality(of(R) \cup mine)
            = Cardinality(of(R)) + Cardinality(mine) - Cardinality(of(R) \cap mine)
      BY <2>3, <2>11, FS_Union
    <3>2. Cardinality({}) = 0
      BY FS_EmptySet
    <3>3. Cardinality(of(R)) \in Nat
      BY <2>3
    <3>4. Cardinality(of(R) \cap mine) = 0
      BY <2>10, <3>2
    <3>5. Cardinality(of(R) \cup mine) = Cardinality(of(R)) + Cardinality(mine)
      BY <2>11, <3>1, <3>3, <3>4
    <3> QED
      BY <2>10, <3>5
  <2>13. n * Cardinality(T) = n * Cardinality(R) + n /\ n * Cardinality(R) \in Int
    BY <2>2, <2>8
  <2> QED
    BY <2>3, <2>4, <2>7, <2>9, <2>11, <2>12, <2>13
<1>2. n * Cardinality(K) <= Cardinality(of(K))
  BY <1>1
<1>3. Cardinality(of(K)) <= Cardinality(S) /\ Cardinality(of(K)) \in Nat
  BY FS_Subset, FS_CardinalityType
<1>4. Cardinality(S) \in Nat /\ n * Cardinality(K) \in Int
  BY FS_CardinalityType
<1> HIDE DEF of
<1> QED
  BY <1>2, <1>3, <1>4

(* A function has one value on a set exactly if it has the same one everywhere. *)
LEMMA OneValue ==
  ASSUME NEW S, IsFiniteSet(S), S # {}, NEW f
  PROVE  Cardinality({f[x] : x \in S}) = 1 <=> \A a, b \in S : f[a] = f[b]
<1> DEFINE values == {f[x] : x \in S}
<1>1. IsFiniteSet(values)
  <2> DEFINE restricted == [x \in S |-> f[x]]
  <2>1. restricted \in Surjection(S, values)
    BY DEF Surjection
  <2> HIDE DEF restricted, values
  <2> QED
    BY <2>1, FS_Surjection
<1>2. Cardinality(values) = 1 <=> \E v : values = {v}
  <2> HIDE DEF values
  <2> QED
    BY <1>1, FS_Singleton
<1>3. PICK c \in S : TRUE
  OBVIOUS
<1>4. ASSUME NEW v, values = {v}, NEW a \in S, NEW b \in S
      PROVE  f[a] = f[b]
  BY <1>4
<1>5. ASSUME \A a, b \in S : f[a] = f[b]
      PROVE  values = {f[c]}
  BY <1>3, <1>5
<1> QED
  BY <1>2, <1>4, <1>5

(* A finite set of integers has a maximum. *)
LEMMA FiniteMaxExists ==
  ASSUME NEW S \in SUBSET Int, IsFiniteSet(S), S # {}
  PROVE  Max(S) \in S /\ \A x \in S : x <= Max(S)
<1> DEFINE tops(s) == {m \in s : \A x \in s : x <= m}
           bad == {s \in SUBSET S : s # {} /\ tops(s) = {}}
<1>1. S \notin bad
  <2> SUFFICES ASSUME bad # {} PROVE FALSE
    OBVIOUS
  <2>1. PICK s \in bad : \A r \in SUBSET s : r # s => r \notin bad
    <3>1. bad \in SUBSET SUBSET S
      OBVIOUS
    <3> HIDE DEF bad
    <3> QED
      BY <3>1, SmallestSubset
  <2>2. PICK x \in s : TRUE
    BY <2>1
  <2> DEFINE rest == s \ {x}
  <2>3. rest \in SUBSET s /\ rest # s /\ rest \notin bad
    BY <2>1, <2>2
  <2>4. s \in SUBSET Int /\ rest \in SUBSET S
    BY <2>1
  <2>5. CASE rest = {}
    <3>1. x \in tops(s)
      BY <2>2, <2>4, <2>5
    <3> QED
      BY <2>1, <3>1
  <2>6. CASE rest # {}
    <3>1. PICK m \in rest : \A y \in rest : y <= m
      BY <2>3, <2>4, <2>6
    <3>2. \A y \in s : y = x \/ y \in rest
      OBVIOUS
    <3>3. x <= m => m \in tops(s)
      BY <3>1, <3>2
    <3>4. ~(x <= m) => x \in tops(s)
      <4>1. m \in Int /\ x \in Int /\ \A y \in rest : y \in Int
        BY <2>4, <3>1
      <4> QED
        BY <2>2, <3>1, <3>2, <4>1
    <3> QED
      BY <2>1, <3>3, <3>4
  <2> QED
    BY <2>5, <2>6
<1>2. PICK m \in S : \A x \in S : x <= m
  BY <1>1
<1> QED
  BY <1>2, MaxExists

(* And a minimum. *)
LEMMA FiniteMinExists ==
  ASSUME NEW S \in SUBSET Int, IsFiniteSet(S), S # {}
  PROVE  Min(S) \in S /\ \A x \in S : Min(S) <= x
<1> DEFINE negated == {-x : x \in S}
<1>1. IsFiniteSet(negated)
  <2> DEFINE flip == [x \in S |-> -x]
  <2>1. flip \in Surjection(S, negated)
    BY DEF Surjection
  <2> HIDE DEF flip, negated
  <2> QED
    BY <2>1, FS_Surjection
<1>2. negated \in SUBSET Int /\ negated # {}
  OBVIOUS
<1>3. PICK m \in negated : \A x \in negated : x <= m
  <2> HIDE DEF negated
  <2> QED
    BY <1>1, <1>2, FiniteMaxExists
<1>4. PICK least \in S : -least = m
  OBVIOUS
<1>5. \A x \in S : least <= x
  <2> SUFFICES ASSUME NEW x \in S PROVE least <= x
    OBVIOUS
  <2>1. -x \in negated /\ -x <= -least
    BY <1>3, <1>4
  <2> HIDE DEF negated
  <2> QED
    BY <2>1
<1>6. \E x \in S : \A y \in S : x =< y
  BY <1>5
<1> HIDE DEF negated
<1> QED
  BY <1>6, Zenon DEF Min

-----------------------------------------------------------------------------
(* Sums of a function over a finite set. *)

Member(S) == CHOOSE x \in S : TRUE

(* The recursion behind a sum, on the subsets of S. *)
Unfolds(sum, fun, S) ==
  \A s \in SUBSET S :
    sum[s] = IF s = {} THEN 0 ELSE fun[Member(s)] + sum[s \ {Member(s)}]

LEMMA MemberType ==
  ASSUME NEW S, S # {}
  PROVE  Member(S) \in S
BY Zenon DEF Member

(* The same, as the fixed point that a recursive definition chooses. *)
IsUnfolding(sum, fun, S) ==
  sum = [s \in SUBSET S |->
           IF s = {} THEN 0
           ELSE fun[CHOOSE x \in s : TRUE] + sum[s \ {CHOOSE x \in s : TRUE}]]

LEMMA UnfoldingExists ==
  ASSUME NEW S, IsFiniteSet(S), NEW fun
  PROVE  \E sum : IsUnfolding(sum, fun, S)
<1> DEFINE next(sum) == [s \in SUBSET S |->
                          IF s = {} THEN 0 ELSE fun[Member(s)] + sum[s \ {Member(s)}]]
           upto(n) == {s \in SUBSET S : Cardinality(s) <= n}
           good == {n \in Nat : \E sum : /\ DOMAIN sum = SUBSET S
                                         /\ \A s \in upto(n) : sum[s] = next(sum)[s]}
<1>1. \A s \in SUBSET S : IsFiniteSet(s) /\ Cardinality(s) \in Nat
  BY FS_Subset, FS_CardinalityType
<1>2. 0 \in good
  <2> DEFINE zero == [s \in SUBSET S |-> 0]
  <2>1. ASSUME NEW s \in upto(0)
        PROVE  zero[s] = next(zero)[s]
    <3>1. s = {}
      BY <1>1, <2>1, FS_EmptySet
    <3> QED
      BY <3>1
  <2>2. DOMAIN zero = SUBSET S
    OBVIOUS
  <2> HIDE DEF zero, next, upto
  <2> QED
    BY <2>1, <2>2
<1>3. ASSUME NEW n \in good
      PROVE  n + 1 \in good
  <2>1. PICK old : DOMAIN old = SUBSET S /\ \A s \in upto(n) : old[s] = next(old)[s]
    BY <1>3
  <2> DEFINE new == next(old)
  <2>2. DOMAIN new = SUBSET S
    OBVIOUS
  <2>3. ASSUME NEW s \in upto(n + 1)
        PROVE  new[s] = next(new)[s]
    <3>1. CASE s = {}
      BY <3>1
    <3>2. CASE s # {}
      <4> DEFINE rest == s \ {Member(s)}
      <4>1. Member(s) \in s
        BY <3>2, MemberType
      <4>2. rest \in upto(n)
        <5>1. Cardinality(rest) = Cardinality(s) - 1
          BY <1>1, <2>3, <4>1, FS_RemoveElement
        <5> QED
          BY <1>1, <2>3, <5>1
      <4>3. old[rest] = new[rest]
        BY <2>1, <4>2
      <4>4. new[s] = fun[Member(s)] + old[rest]
        BY <2>3, <3>2
      <4>5. next(new)[s] = fun[Member(s)] + new[rest]
        <5> HIDE DEF new
        <5> QED
          BY <2>3, <3>2
      <4> QED
        BY <4>3, <4>4, <4>5
    <3> QED
      BY <3>1, <3>2
  <2> HIDE DEF new, next, upto
  <2> QED
    BY <1>3, <2>2, <2>3
<1>4. good = Nat
  <2> HIDE DEF good
  <2>1. good \in SUBSET Nat
    BY DEF good
  <2> QED
    BY <1>2, <1>3, <2>1, Induction
<1>5. PICK sum : DOMAIN sum = SUBSET S /\ \A s \in upto(Cardinality(S)) : sum[s] = next(sum)[s]
  BY <1>1, <1>4
<1>6. \A s \in SUBSET S : s \in upto(Cardinality(S))
  BY <1>1, FS_Subset
<1> DEFINE all == next(sum)
<1>7. \A s \in SUBSET S : sum[s] = all[s]
  BY <1>5, <1>6
<1>8. all = next(all)
  <2>1. ASSUME NEW s \in SUBSET S
        PROVE  all[s] = next(all)[s]
    <3>1. s # {} => sum[s \ {Member(s)}] = all[s \ {Member(s)}]
      BY <1>7
    <3>2. all[s] = IF s = {} THEN 0 ELSE fun[Member(s)] + sum[s \ {Member(s)}]
      OBVIOUS
    <3> HIDE DEF all
    <3> QED
      BY <3>1, <3>2
  <2>2. DOMAIN all = SUBSET S /\ DOMAIN next(all) = SUBSET S
    OBVIOUS
  <2>3. all = [s \in SUBSET S |-> all[s]] /\ next(all) = [s \in SUBSET S |-> next(all)[s]]
    OBVIOUS
  <2> HIDE DEF all, next
  <2> QED
    BY <2>1, <2>3
<1> HIDE DEF all
<1>9. IsUnfolding(all, fun, S)
  BY <1>8, Zenon DEF IsUnfolding, Member
<1> QED
  BY <1>9

(* The sum of the community modules is this recursion. *)
LEMMA SumIsUnfolding ==
  ASSUME NEW S, IsFiniteSet(S), NEW fun
  PROVE  \E sum : Unfolds(sum, fun, S) /\ SumFunctionOnSet(fun, S) = sum[S]
<1> DEFINE chosen == CHOOSE sum : IsUnfolding(sum, fun, S)
<1>1. \E sum : IsUnfolding(sum, fun, S)
  BY UnfoldingExists
<1>2. IsUnfolding(chosen, fun, S)
  BY <1>1, Zenon
<1>3. SumFunctionOnSet(fun, S) = chosen[S]
  BY Zenon DEF SumFunctionOnSet, FoldFunctionOnSet, MapThenFoldSet, IsUnfolding
<1>4. Unfolds(chosen, fun, S)
  <2> HIDE DEF chosen
  <2>1. chosen = [s \in SUBSET S |->
                    IF s = {} THEN 0 ELSE fun[Member(s)] + chosen[s \ {Member(s)}]]
    BY <1>2, Zenon DEF IsUnfolding, Member
  <2>2. ASSUME NEW s \in SUBSET S
        PROVE  chosen[s] = IF s = {} THEN 0 ELSE fun[Member(s)] + chosen[s \ {Member(s)}]
    BY <2>1, Zenon
  <2> QED
    BY <2>2 DEF Unfolds
<1> QED
  BY <1>3, <1>4

(* There is only one such recursion, whatever set it is started on. *)
LEMMA UnfoldingIsUnique ==
  ASSUME NEW S, IsFiniteSet(S), NEW T \in SUBSET S, NEW fun, NEW g, NEW h,
         Unfolds(g, fun, S), Unfolds(h, fun, T)
  PROVE  g[T] = h[T]
<1> DEFINE bad == {s \in SUBSET T : g[s] # h[s]}
<1>1. IsFiniteSet(T)
  BY FS_Subset
<1>2. SUFFICES ASSUME bad # {} PROVE FALSE
  OBVIOUS
<1>3. PICK s \in bad : \A r \in SUBSET s : r # s => r \notin bad
  <2>1. bad \in SUBSET SUBSET T
    OBVIOUS
  <2> HIDE DEF bad
  <2> QED
    BY <1>1, <1>2, <2>1, SmallestSubset
<1>4. /\ g[s] = IF s = {} THEN 0 ELSE fun[Member(s)] + g[s \ {Member(s)}]
      /\ h[s] = IF s = {} THEN 0 ELSE fun[Member(s)] + h[s \ {Member(s)}]
  BY <1>3 DEF Unfolds
<1>5. s # {}
  BY <1>3, <1>4
<1>6. s \ {Member(s)} \in SUBSET s /\ s \ {Member(s)} # s
  BY <1>5, MemberType
<1>7. g[s \ {Member(s)}] = h[s \ {Member(s)}]
  BY <1>3, <1>6
<1> QED
  BY <1>3, <1>4, <1>5, <1>7

LEMMA SumOfNothing ==
  ASSUME NEW S, S = {}, NEW fun
  PROVE  SumFunctionOnSet(fun, S) = 0
<1>1. IsFiniteSet(S)
  BY FS_EmptySet
<1>2. PICK sum : Unfolds(sum, fun, S) /\ SumFunctionOnSet(fun, S) = sum[S]
  BY <1>1, SumIsUnfolding
<1> QED
  BY <1>2 DEF Unfolds

LEMMA SumUnfolds ==
  ASSUME NEW S, IsFiniteSet(S), S # {}, NEW fun
  PROVE  SumFunctionOnSet(fun, S) = fun[Member(S)] + SumFunctionOnSet(fun, S \ {Member(S)})
<1> DEFINE rest == S \ {Member(S)}
<1>1. PICK g : Unfolds(g, fun, S) /\ SumFunctionOnSet(fun, S) = g[S]
  BY SumIsUnfolding
<1>2. IsFiniteSet(rest) /\ rest \in SUBSET S
  BY FS_Subset
<1>3. PICK h : Unfolds(h, fun, rest) /\ SumFunctionOnSet(fun, rest) = h[rest]
  <2> HIDE DEF rest
  <2> QED
    BY <1>2, SumIsUnfolding
<1>4. g[rest] = h[rest]
  <2> HIDE DEF rest
  <2> QED
    BY <1>1, <1>2, <1>3, UnfoldingIsUnique
<1>5. g[S] = fun[Member(S)] + g[rest]
  BY <1>1 DEF Unfolds
<1> QED
  BY <1>1, <1>3, <1>4, <1>5

(* The sum of integers is an integer. *)
LEMMA SumType ==
  ASSUME NEW S, IsFiniteSet(S), NEW fun, \A x \in S : fun[x] \in Int
  PROVE  SumFunctionOnSet(fun, S) \in Int
<1> DEFINE bad == {s \in SUBSET S : SumFunctionOnSet(fun, s) \notin Int}
<1>1. SUFFICES ASSUME bad # {} PROVE FALSE
  OBVIOUS
<1>2. PICK s \in bad : \A r \in SUBSET s : r # s => r \notin bad
  <2>1. bad \in SUBSET SUBSET S
    OBVIOUS
  <2> HIDE DEF bad
  <2> QED
    BY <1>1, <2>1, SmallestSubset
<1>3. IsFiniteSet(s) /\ s # {}
  <2>1. s = {} => SumFunctionOnSet(fun, s) = 0
    BY SumOfNothing
  <2> QED
    BY <1>2, <2>1, FS_Subset
<1>4. SumFunctionOnSet(fun, s) = fun[Member(s)] + SumFunctionOnSet(fun, s \ {Member(s)})
  BY <1>3, SumUnfolds
<1>5. Member(s) \in s
  BY <1>3, MemberType
<1>6. SumFunctionOnSet(fun, s \ {Member(s)}) \in Int
  BY <1>2, <1>5
<1> QED
  BY <1>2, <1>4, <1>5, <1>6

(* Any member of the set may be taken out first. *)
LEMMA SumSplits ==
  ASSUME NEW S, IsFiniteSet(S), NEW fun, \A x \in S : fun[x] \in Int, NEW x \in S
  PROVE  SumFunctionOnSet(fun, S) = fun[x] + SumFunctionOnSet(fun, S \ {x})
<1> DEFINE sum(s) == SumFunctionOnSet(fun, s)
           bad == {s \in SUBSET S : \E y \in s : sum(s) # fun[y] + sum(s \ {y})}
<1>1. SUFFICES ASSUME bad # {} PROVE FALSE
  OBVIOUS
<1>2. PICK s \in bad : \A r \in SUBSET s : r # s => r \notin bad
  <2>1. bad \in SUBSET SUBSET S
    OBVIOUS
  <2> HIDE DEF bad
  <2> QED
    BY <1>1, <2>1, SmallestSubset
<1>3. PICK y \in s : sum(s) # fun[y] + sum(s \ {y})
  BY <1>2
<1> DEFINE c == Member(s)
<1>4. \A r \in SUBSET s : IsFiniteSet(r) /\ sum(r) \in Int
  <2> TAKE r \in SUBSET s
  <2>1. IsFiniteSet(r) /\ \A z \in r : fun[z] \in Int
    BY <1>2, FS_Subset
  <2> QED
    BY <2>1, SumType
<1>5. c \in s
  BY <1>3, MemberType
<1>6. sum(s) = fun[c] + sum(s \ {c})
  BY <1>3, <1>4, SumUnfolds
<1>7. y # c
  BY <1>3, <1>6
<1>8. sum(s \ {c}) = fun[y] + sum((s \ {c}) \ {y})
  <2>1. s \ {c} \notin bad
    BY <1>2, <1>5
  <2> QED
    BY <1>2, <1>7, <2>1
<1>9. sum(s \ {y}) = fun[c] + sum((s \ {y}) \ {c})
  <2>1. s \ {y} \notin bad
    BY <1>2
  <2> QED
    BY <1>2, <1>5, <1>7, <2>1
<1>10. (s \ {c}) \ {y} = (s \ {y}) \ {c}
  OBVIOUS
<1>11. fun[c] \in Int /\ fun[y] \in Int /\ sum((s \ {y}) \ {c}) \in Int
  BY <1>2, <1>4, <1>5
<1> HIDE DEF sum, c
<1>12. sum(s) = fun[y] + sum(s \ {y})
  BY <1>6, <1>8, <1>9, <1>10, <1>11
<1> QED
  BY <1>3, <1>12

(* A sum is no larger for smaller terms, fewer of them included when none is *)
(* negative.                                                                 *)
LEMMA SumGrows ==
  ASSUME NEW S, IsFiniteSet(S), NEW T \in SUBSET S, NEW f, NEW g,
         \A x \in S : g[x] \in Nat, \A x \in T : f[x] \in Int /\ f[x] <= g[x]
  PROVE  SumFunctionOnSet(f, T) <= SumFunctionOnSet(g, S)
<1> DEFINE small(s) == SumFunctionOnSet(f, s \cap T)
           large(s) == SumFunctionOnSet(g, s)
           bad == {s \in SUBSET S : ~(small(s) <= large(s))}
<1>1. SUFFICES ASSUME bad # {} PROVE FALSE
  <2>1. S \notin bad => small(S) <= large(S)
    OBVIOUS
  <2>2. S \cap T = T
    OBVIOUS
  <2> QED
    BY <2>1, <2>2
<1>2. PICK s \in bad : \A r \in SUBSET s : r # s => r \notin bad
  <2>1. bad \in SUBSET SUBSET S
    OBVIOUS
  <2> HIDE DEF bad
  <2> QED
    BY <1>1, <2>1, SmallestSubset
<1>3. s # {}
  <2>1. s = {} => small(s) = 0 /\ large(s) = 0
    BY SumOfNothing
  <2> QED
    BY <1>2, <2>1
<1>4. PICK x : x \in s
  BY <1>3
<1> DEFINE rest == s \ {x}
<1>5. /\ IsFiniteSet(s) /\ IsFiniteSet(s \cap T) /\ IsFiniteSet(rest) /\ IsFiniteSet(rest \cap T)
  BY <1>2, FS_Subset
<1>6. /\ \A y \in s : g[y] \in Int
      /\ \A y \in s \cap T : f[y] \in Int
  BY <1>2
<1>7. /\ large(s) = g[x] + large(rest)
      /\ large(rest) \in Int /\ small(rest) \in Int
  <2>1. large(s) = g[x] + large(rest)
    BY <1>4, <1>5, <1>6, SumSplits
  <2>2. large(rest) \in Int
    BY <1>5, <1>6, SumType
  <2>3. small(rest) \in Int
    BY <1>5, <1>6, SumType
  <2> QED
    BY <2>1, <2>2, <2>3
<1>8. small(rest) <= large(rest)
  BY <1>2, <1>4
<1>9. CASE x \in T
  <2>1. (s \cap T) \ {x} = rest \cap T
    OBVIOUS
  <2>2. small(s) = f[x] + small(rest)
    BY <1>4, <1>5, <1>6, <1>9, <2>1, SumSplits
  <2>3. g[x] \in Int /\ f[x] \in Int /\ f[x] <= g[x]
    BY <1>2, <1>4, <1>9
  <2>4. ~(small(s) <= large(s))
    BY <1>2
  <2> HIDE DEF small, large, rest
  <2> QED
    BY <1>7, <1>8, <2>2, <2>3, <2>4
<1>10. CASE x \notin T
  <2>1. s \cap T = rest \cap T
    BY <1>10
  <2>2. small(s) = small(rest)
    BY <2>1
  <2>3. g[x] \in Nat
    BY <1>2, <1>4
  <2>4. ~(small(s) <= large(s))
    BY <1>2
  <2> HIDE DEF small, large, rest
  <2> QED
    BY <1>7, <1>8, <2>2, <2>3, <2>4
<1> QED
  BY <1>9, <1>10

(* A sum of counts counts the pairs. *)
LEMMA SumCounts ==
  ASSUME NEW S, IsFiniteSet(S), NEW f, NEW units,
         \A x \in S : IsFiniteSet(units[x]) /\ Cardinality(units[x]) = f[x]
  PROVE  /\ IsFiniteSet(UNION {{x} \X units[x] : x \in S})
         /\ Cardinality(UNION {{x} \X units[x] : x \in S}) = SumFunctionOnSet(f, S)
<1> DEFINE all(s) == UNION {{x} \X units[x] : x \in s}
           bad == {s \in SUBSET S : ~( /\ IsFiniteSet(all(s))
                                       /\ Cardinality(all(s)) = SumFunctionOnSet(f, s) )}
<1>1. SUFFICES ASSUME bad # {} PROVE FALSE
  OBVIOUS
<1>2. PICK s \in bad : \A r \in SUBSET s : r # s => r \notin bad
  <2>1. bad \in SUBSET SUBSET S
    OBVIOUS
  <2> HIDE DEF bad
  <2> QED
    BY <1>1, <2>1, SmallestSubset
<1>3. s # {}
  <2>1. ASSUME s = {} PROVE FALSE
    <3>1. all(s) = {} /\ SumFunctionOnSet(f, s) = 0
      BY <2>1, SumOfNothing
    <3>2. IsFiniteSet(all(s)) /\ Cardinality(all(s)) = 0
      <4> HIDE DEF all
      <4> QED
        BY <3>1, FS_EmptySet
    <3> QED
      BY <1>2, <3>1, <3>2
  <2> QED
    BY <2>1
<1>4. PICK x : x \in s
  BY <1>3
<1> DEFINE rest == s \ {x}
           new  == {x} \X units[x]
<1>5. IsFiniteSet(all(rest)) /\ Cardinality(all(rest)) = SumFunctionOnSet(f, rest)
  BY <1>2, <1>4
<1>6. IsFiniteSet(new) /\ Cardinality(new) = f[x] /\ f[x] \in Nat
  <2>1. IsFiniteSet({x}) /\ Cardinality({x}) = 1
    BY FS_Singleton
  <2>2. IsFiniteSet(units[x]) /\ Cardinality(units[x]) = f[x]
    BY <1>2, <1>4
  <2>3. IsFiniteSet(new) /\ Cardinality(new) = Cardinality({x}) * Cardinality(units[x])
    BY <2>1, <2>2, FS_Product, Zenon
  <2>4. f[x] \in Nat
    BY <2>2, FS_CardinalityType
  <2> QED
    BY <2>1, <2>2, <2>3, <2>4
<1>7. all(s) = all(rest) \cup new /\ all(rest) \cap new = {}
  BY <1>4
<1>8. /\ IsFiniteSet(s)
      /\ \A y \in s : f[y] \in Int
  <2>1. \A y \in s : f[y] \in Nat
    BY <1>2, FS_CardinalityType
  <2> QED
    BY <1>2, <2>1, FS_Subset
<1>9. SumFunctionOnSet(f, s) = f[x] + SumFunctionOnSet(f, rest)
  BY <1>4, <1>8, SumSplits
<1>10. ~(IsFiniteSet(all(s)) /\ Cardinality(all(s)) = SumFunctionOnSet(f, s))
  BY <1>2
<1> HIDE DEF all, new, rest
<1>11. /\ IsFiniteSet(all(rest) \cup new)
       /\ Cardinality(all(rest) \cup new)
            = Cardinality(all(rest)) + Cardinality(new) - Cardinality(all(rest) \cap new)
  BY <1>5, <1>6, FS_Union
<1>12. Cardinality(all(rest) \cap new) = 0 /\ Cardinality(all(rest)) \in Nat
  BY <1>5, <1>7, FS_EmptySet, FS_CardinalityType
<1> QED
  BY <1>5, <1>6, <1>7, <1>9, <1>10, <1>11, <1>12

-----------------------------------------------------------------------------
(* The positions of the members of a finite set in a total order. *)

(* R relates any two members of S one way. *)
Orders(R, S) ==
  /\ \A x \in S : <<x, x>> \notin R
  /\ \A x, y, z \in S : (<<x, y>> \in R /\ <<y, z>> \in R) => <<x, z>> \in R
  /\ \A x, y \in S : x # y => (<<x, y>> \in R \/ <<y, x>> \in R)

Before(x, S, R) == {y \in S : <<y, x>> \in R}

LEMMA PositionType ==
  ASSUME NEW S, IsFiniteSet(S), NEW R, Orders(R, S), NEW x \in S
  PROVE  /\ IsFiniteSet(Before(x, S, R))
         /\ Cardinality(S) \in Nat
         /\ Cardinality(Before(x, S, R)) \in 0..(Cardinality(S) - 1)
<1>1. Before(x, S, R) \in SUBSET S /\ x \notin Before(x, S, R)
  BY DEF Before, Orders
<1>2. /\ IsFiniteSet(Before(x, S, R))
      /\ Cardinality(Before(x, S, R)) <= Cardinality(S)
      /\ Cardinality(S) # Cardinality(Before(x, S, R))
  BY <1>1, FS_Subset
<1>3. Cardinality(S) \in Nat /\ Cardinality(Before(x, S, R)) \in Nat
  BY <1>2, FS_CardinalityType
<1> QED
  BY <1>2, <1>3

(* The further back, the more come before. *)
LEMMA PositionsRise ==
  ASSUME NEW S, IsFiniteSet(S), NEW R, Orders(R, S), NEW x \in S, NEW y \in S,
         <<x, y>> \in R
  PROVE  Cardinality(Before(x, S, R)) < Cardinality(Before(y, S, R))
<1>1. Before(x, S, R) \in SUBSET Before(y, S, R)
  BY DEF Before, Orders
<1>2. x \in Before(y, S, R) /\ x \notin Before(x, S, R)
  BY DEF Before, Orders
<1>3. IsFiniteSet(Before(y, S, R))
  BY PositionType
<1>4. /\ Cardinality(Before(x, S, R)) <= Cardinality(Before(y, S, R))
      /\ Cardinality(Before(x, S, R)) # Cardinality(Before(y, S, R))
  BY <1>1, <1>2, <1>3, FS_Subset
<1>5. Cardinality(Before(x, S, R)) \in Nat /\ Cardinality(Before(y, S, R)) \in Nat
  BY PositionType
<1> QED
  BY <1>4, <1>5

LEMMA PositionsDiffer ==
  ASSUME NEW S, IsFiniteSet(S), NEW R, Orders(R, S), NEW x \in S, NEW y \in S,
         Cardinality(Before(x, S, R)) = Cardinality(Before(y, S, R))
  PROVE  x = y
<1> SUFFICES ASSUME x # y PROVE FALSE
  OBVIOUS
<1>1. <<x, y>> \in R \/ <<y, x>> \in R
  BY DEF Orders
<1>2. Cardinality(Before(x, S, R)) \in Nat /\ Cardinality(Before(y, S, R)) \in Nat
  BY PositionType
<1> QED
  BY <1>1, <1>2, PositionsRise

(* Every position is taken. *)
LEMMA PositionsAreTaken ==
  ASSUME NEW S, IsFiniteSet(S), NEW R, Orders(R, S), NEW n \in 0..(Cardinality(S) - 1)
  PROVE  \E x \in S : Cardinality(Before(x, S, R)) = n
<1> DEFINE size == Cardinality(S)
           position == [x \in S |-> Cardinality(Before(x, S, R))]
<1>1. size \in Nat
  BY FS_CardinalityType
<1>2. \A x \in S : position[x] \in 0..(size - 1)
  BY PositionType
<1>3. position \in [S -> 0..(size - 1)]
  BY <1>2
<1>4. \A x, y \in S : position[x] = position[y] => x = y
  BY PositionsDiffer
<1>5. position \in Injection(S, 0..(size - 1))
  BY <1>3, <1>4 DEF Injection, IsInjective
<1>6. IsFiniteSet(0..(size - 1)) /\ Cardinality(0..(size - 1)) = size
  BY <1>1, FS_Interval
<1>7. position \in Surjection(S, 0..(size - 1))
  <2> HIDE DEF position, size
  <2>1. Cardinality(S) = Cardinality(0..(size - 1))
    BY <1>6 DEF size
  <2> QED
    BY <1>5, <1>6, <2>1, FS_Injection
<1>8. PICK x \in S : position[x] = n
  BY <1>7 DEF Surjection
<1> QED
  BY <1>8

(* Listing the members by their positions sorts them. *)
Listing(S, R) ==
  [i \in 1..Cardinality(S) |-> CHOOSE x \in S : Cardinality(Before(x, S, R)) = i - 1]

LEMMA ListingSorts ==
  ASSUME NEW S, IsFiniteSet(S), NEW R, Orders(R, S)
  PROVE  /\ Listing(S, R) \in [1..Cardinality(S) -> S]
         /\ \A i \in 1..Cardinality(S) :
              Cardinality(Before(Listing(S, R)[i], S, R)) = i - 1
         /\ \A i, j \in 1..Cardinality(S) :
              i < j => <<Listing(S, R)[i], Listing(S, R)[j]>> \in R
         /\ \A x \in S : \E i \in 1..Cardinality(S) : Listing(S, R)[i] = x
<1> DEFINE n == Cardinality(S)
           list == Listing(S, R)
<1>1. n \in Nat
  BY FS_CardinalityType
<1>2. DOMAIN list = 1..n
  BY DEF Listing
<1>3. ASSUME NEW i \in 1..n
      PROVE  list[i] \in S /\ Cardinality(Before(list[i], S, R)) = i - 1
  <2>1. i - 1 \in 0..(Cardinality(S) - 1)
    BY <1>1
  <2>2. \E x \in S : Cardinality(Before(x, S, R)) = i - 1
    BY <2>1, PositionsAreTaken
  <2>3. list[i] = CHOOSE x \in S : Cardinality(Before(x, S, R)) = i - 1
    BY DEF Listing
  <2> HIDE DEF list
  <2> QED
    BY <2>2, <2>3, Zenon
<1>4. ASSUME NEW i \in 1..n, NEW j \in 1..n, i < j
      PROVE  <<list[i], list[j]>> \in R
  <2>1. /\ list[i] \in S /\ list[j] \in S
        /\ Cardinality(Before(list[i], S, R)) = i - 1
        /\ Cardinality(Before(list[j], S, R)) = j - 1
    BY <1>3
  <2>2. list[i] # list[j]
    BY <1>1, <1>4, <2>1
  <2> HIDE DEF list
  <2>3. <<list[j], list[i]>> \notin R
    <3>1. <<list[j], list[i]>> \in R =>
            Cardinality(Before(list[j], S, R)) < Cardinality(Before(list[i], S, R))
      BY <2>1, PositionsRise
    <3> QED
      BY <1>1, <1>4, <2>1, <3>1
  <2> QED
    BY <2>1, <2>2, <2>3 DEF Orders
<1>5. ASSUME NEW x \in S
      PROVE  \E i \in 1..n : list[i] = x
  <2> DEFINE i == Cardinality(Before(x, S, R)) + 1
  <2>1. i \in 1..n /\ Cardinality(Before(x, S, R)) = i - 1
    BY <1>1, PositionType
  <2> HIDE DEF i, list
  <2>2. list[i] \in S /\ Cardinality(Before(list[i], S, R)) = Cardinality(Before(x, S, R))
    BY <1>3, <2>1
  <2>3. list[i] = x
    BY <2>2, PositionsDiffer
  <2> QED
    BY <2>1, <2>3
<1>6. list \in [1..n -> S]
  <2>1. list = [i \in 1..n |-> list[i]]
    BY DEF Listing
  <2> HIDE DEF list, n
  <2> QED
    BY <1>3, <2>1
<1> HIDE DEF list, n
<1> QED
  BY <1>3, <1>4, <1>5, <1>6 DEF list, n

-----------------------------------------------------------------------------
(* The release gate, which Gates and FleetPlan ask: what it takes to be      *)
(* promoted, and that it is monotone.                                        *)

(* What it takes to be promoted, and all it takes. *)
LEMMA PromotedIff ==
  ASSUME NEW old, NEW new, NEW q
  PROVE  EvaluateRollout(old, new, q).action = "promote" <=>
           /\ new.warmed /\ new.sample_count >= q.min_sample_count
           /\ new.quality_score >= q.min_quality_score
           /\ old.quality_score - new.quality_score <= q.max_quality_drop
           /\ new.p95_ttft_seconds <= q.max_p95_ttft_seconds
           /\ new.p95_tpot_seconds <= q.max_p95_tpot_seconds
           /\ ThroughputKept(old, new, q)
           /\ new.error_rate <= q.max_error_rate
           /\ new.mode # "shadow"
<1> DEFINE ready == [warmup |-> new.warmed, sample |-> new.sample_count >= q.min_sample_count]
           kept  ==
             [quality_floor |-> AboveFloor(new, q),
              quality_drop  |-> old.quality_score - new.quality_score <= q.max_quality_drop,
              ttft          |-> new.p95_ttft_seconds <= q.max_p95_ttft_seconds,
              tpot          |-> new.p95_tpot_seconds <= q.max_p95_tpot_seconds,
              throughput    |-> ThroughputKept(old, new, q),
              errors        |-> new.error_rate <= q.max_error_rate]
<1>1. Unready(new, q) = {c \in DOMAIN ready : ~ready[c]}
  BY DEF Unready
<1>2. Regressions(old, new, q) = {c \in DOMAIN kept : ~kept[c]}
  BY DEF Regressions
<1>3. DOMAIN ready = {"warmup", "sample"}
  OBVIOUS
<1>4. DOMAIN kept =
        {"quality_floor", "quality_drop", "ttft", "tpot", "throughput", "errors"}
  OBVIOUS
<1>5. EvaluateRollout(old, new, q).action = "promote" <=>
        /\ Unready(new, q) = {} /\ Regressions(old, new, q) = {}
        /\ new.mode # "shadow"
  BY DEF EvaluateRollout, Decision
<1>6. /\ ready["warmup"] <=> new.warmed
      /\ ready["sample"] <=> new.sample_count >= q.min_sample_count
  BY Zenon
<1>7. /\ kept["quality_floor"] <=> new.quality_score >= q.min_quality_score
      /\ kept["quality_drop"]  <=> old.quality_score - new.quality_score <= q.max_quality_drop
      /\ kept["ttft"]          <=> new.p95_ttft_seconds <= q.max_p95_ttft_seconds
      /\ kept["tpot"]          <=> new.p95_tpot_seconds <= q.max_p95_tpot_seconds
      /\ kept["throughput"]    <=> ThroughputKept(old, new, q)
      /\ kept["errors"]        <=> new.error_rate <= q.max_error_rate
  BY Zenon DEF AboveFloor
<1> HIDE DEF ready, kept
<1>8. Unready(new, q) = {} <=> ready["warmup"] /\ ready["sample"]
  BY <1>1, <1>3
<1>9. Regressions(old, new, q) = {} <=>
        /\ kept["quality_floor"] /\ kept["quality_drop"] /\ kept["ttft"]
        /\ kept["tpot"] /\ kept["throughput"] /\ kept["errors"]
  BY <1>2, <1>4
<1> QED
  BY <1>5, <1>6, <1>7, <1>8, <1>9, Zenon

(* No comparison of evaluate_rollout points the wrong way: whatever is       *)
(* promoted, a candidate measured no worse is promoted too.                  *)
THEOREM ReleaseGateIsMonotone ==
  ASSUME NEW old, NEW e, NEW f, NEW q, IsRelease(old), IsRelease(e), IsRelease(f),
         \A field \in ReleaseRequiredFields : q[field] \in Int,
         \A field \in ReleaseFields : NoBetterValue(field, e[field], f[field]),
         EvaluateRollout(old, e, q).action = "promote"
  PROVE  EvaluateRollout(old, f, q).action = "promote"
<1>1. /\ e.warmed /\ e.sample_count >= q.min_sample_count
      /\ e.quality_score >= q.min_quality_score
      /\ old.quality_score - e.quality_score <= q.max_quality_drop
      /\ e.p95_ttft_seconds <= q.max_p95_ttft_seconds
      /\ e.p95_tpot_seconds <= q.max_p95_tpot_seconds
      /\ ThroughputKept(old, e, q)
      /\ e.error_rate <= q.max_error_rate
      /\ e.mode # "shadow"
  BY PromotedIff
<1>2. \A field \in ReleaseFields : NoBetterValue(field, e[field], f[field])
  OBVIOUS
<1>3. /\ e.warmed => f.warmed
      /\ e.mode \in {"shadow", f.mode}
  BY <1>2 DEF NoBetterValue, ReleaseFields
<1>4. /\ e.sample_count <= f.sample_count /\ e.quality_score <= f.quality_score
      /\ e.output_tokens_per_second <= f.output_tokens_per_second
  BY <1>2 DEF NoBetterValue, ReleaseFields
<1>5. /\ e.p95_ttft_seconds >= f.p95_ttft_seconds /\ e.p95_tpot_seconds >= f.p95_tpot_seconds
      /\ e.error_rate >= f.error_rate
  BY <1>2 DEF NoBetterValue, ReleaseFields
<1>6. \A m : IsRelease(m) =>
        /\ m.sample_count \in Int /\ m.quality_score \in Int /\ m.error_rate \in Int
        /\ m.p95_ttft_seconds \in Int /\ m.p95_tpot_seconds \in Int
        /\ m.output_tokens_per_second \in Int
  BY DEF IsRelease, ReleaseFields, FieldValues
<1>7. /\ q.min_sample_count \in Int /\ q.min_quality_score \in Int /\ q.max_quality_drop \in Int
      /\ q.max_p95_ttft_seconds \in Int /\ q.max_p95_tpot_seconds \in Int
      /\ q.min_relative_throughput \in Int /\ q.max_error_rate \in Int
  BY DEF ReleaseRequiredFields
<1>8. /\ f.sample_count >= q.min_sample_count /\ f.quality_score >= q.min_quality_score
      /\ old.quality_score - f.quality_score <= q.max_quality_drop
      /\ f.p95_ttft_seconds <= q.max_p95_ttft_seconds
      /\ f.p95_tpot_seconds <= q.max_p95_tpot_seconds
      /\ f.error_rate <= q.max_error_rate
  BY <1>1, <1>4, <1>5, <1>6, <1>7
<1>9. ThroughputKept(old, f, q)
  <2> DEFINE least == q.min_relative_throughput * old.output_tokens_per_second
  <2>1. /\ least \in Int /\ e.output_tokens_per_second \in Int
        /\ f.output_tokens_per_second \in Int /\ 100 * e.output_tokens_per_second >= least
    BY <1>1, <1>6, <1>7 DEF ThroughputKept
  <2> HIDE DEF least
  <2>2. 100 * f.output_tokens_per_second >= least
    BY <1>4, <2>1
  <2> QED
    BY <2>2 DEF ThroughputKept, least
<1> QED
  BY <1>1, <1>3, <1>8, <1>9, PromotedIff, Zenon

====
