----------------------------- MODULE DataInduction -----------------------------
(***************************************************************************)
(* Induction for what the models compute over sequences and sets. The      *)
(* library's induction theorems have an operator as a parameter, which the *)
(* provers cannot instantiate, so that induction is stated here of a set:  *)
(* of the numbers, say, for which the induction hypothesis holds.          *)
(***************************************************************************)
EXTENDS Integers, FiniteSetsExt, WellFoundedInduction, FiniteSetTheorems, TLAPS

(* A set of naturals that is not empty has a least element.                *)
LEMMA Least ==
  ASSUME NEW T \in SUBSET Nat, T # {}
  PROVE  \E n \in T : \A m \in T : n <= m
<1> DEFINE R == OpToRel(<, Nat)
<1>1. IsWellFoundedOn(R, Nat)
  BY NatLessThanWellFounded
<1>2. \A m, n \in Nat : m < n => <<m, n>> \in R
  BY DEF OpToRel
<1> HIDE DEF R
<1>3. PICK n \in T : \A m \in T : ~ (<<m, n>> \in R)
  BY <1>1, WFMin
<1>4. \A m \in T : n <= m
  <2> TAKE m \in T
  <2>1. m \in Nat /\ n \in Nat /\ ~(m < n)
    BY <1>2, <1>3
  <2>2. QED
    BY <2>1
<1>5. QED
  BY <1>4

(* Induction: a set that has 0, and n + 1 whenever it has n, has them all. *)
LEMMA SetInduction ==
  ASSUME NEW S, 0 \in S, \A n \in Nat : n \in S => n + 1 \in S
  PROVE  \A n \in Nat : n \in S
<1> SUFFICES ASSUME Nat \ S # {} PROVE FALSE
  OBVIOUS
<1>1. PICK n \in Nat \ S : \A m \in Nat \ S : n <= m
  BY Least
<1>2. n - 1 \in Nat /\ n - 1 \in S
  BY <1>1
<1>3. QED
  BY <1>1, <1>2

-----------------------------------------------------------------------------
(* Recursion over the subsets of a finite set, one element at a time: what *)
(* the folds of the community modules choose a function for exists.        *)

(* Induction on the cardinality of a subset.                               *)
LEMMA SubsetInduction ==
  ASSUME NEW S, IsFiniteSet(S), NEW T, {} \in T,
         \A s \in SUBSET S : s # {} /\ (\A x \in s : s \ {x} \in T) => s \in T
  PROVE  SUBSET S \subseteq T
<1> DEFINE N == {n \in Nat : \A s \in SUBSET S : Cardinality(s) = n => s \in T}
<1>1. ASSUME NEW s \in SUBSET S
      PROVE  /\ Cardinality(s) \in Nat
             /\ Cardinality(s) = 0 <=> s = {}
             /\ \A x \in s : Cardinality(s \ {x}) = Cardinality(s) - 1
  <2>1. IsFiniteSet(s)
    BY FS_Subset
  <2>2. QED
    BY <2>1, FS_CardinalityType, FS_EmptySet, FS_RemoveElement
<1>2. 0 \in N
  BY <1>1
<1>3. ASSUME NEW n \in Nat, n \in N
      PROVE  n + 1 \in N
  <2> SUFFICES ASSUME NEW s \in SUBSET S, Cardinality(s) = n + 1
               PROVE  s \in T
    OBVIOUS
  <2>1. s # {}
    BY <1>1
  <2>2. \A x \in s : s \ {x} \in SUBSET S /\ Cardinality(s \ {x}) = n
    BY <1>1
  <2>3. \A x \in s : s \ {x} \in T
    BY <1>3, <2>2
  <2>4. QED
    BY <2>1, <2>3
<1> HIDE DEF N
<1>4. \A n \in Nat : n \in N
  BY <1>2, <1>3, SetInduction
<1>5. QED
  BY <1>1, <1>4 DEF N

Recursive(S, base, g, c, h) ==
  \A s \in SUBSET S : h[s] = IF s = {} THEN base ELSE g[<<c[s], h[s \ {c[s]}]>>]

Picks(S, c) == \A s \in SUBSET S : s # {} => c[s] \in s

LEMMA SubsetRecursion ==
  ASSUME NEW S, IsFiniteSet(S), NEW V, NEW base \in V, NEW g \in [S \X V -> V],
         NEW c, Picks(S, c)
  PROVE  \E h \in [SUBSET S -> V] : Recursive(S, base, g, c, h)
<1> DEFINE Value(h, s) == IF s = {} THEN base ELSE g[<<c[s], h[s \ {c[s]}]>>]
           Small(n) == {s \in SUBSET S : Cardinality(s) <= n}
           Good(n, h) == h \in [Small(n) -> V] /\ \A s \in Small(n) : h[s] = Value(h, s)
           N == {n \in Nat : \E h : Good(n, h)}
<1>1. ASSUME NEW s \in SUBSET S
      PROVE  /\ Cardinality(s) \in Nat /\ Cardinality(s) <= Cardinality(S)
             /\ Cardinality(s) = 0 => s = {}
             /\ \A x \in s : Cardinality(s \ {x}) = Cardinality(s) - 1
  <2>1. IsFiniteSet(s) /\ Cardinality(s) <= Cardinality(S)
    BY FS_Subset
  <2>2. QED
    BY <2>1, FS_CardinalityType, FS_EmptySet, FS_RemoveElement
<1>2. 0 \in N
  <2> DEFINE h == [s \in Small(0) |-> base]
  <2>1. \A s \in Small(0) : s = {}
    BY <1>1
  <2>2. Good(0, h)
    BY <2>1
  <2> HIDE DEF Good, h
  <2>3. QED
    BY <2>2
<1>3. ASSUME NEW n \in Nat, n \in N
      PROVE  n + 1 \in N
  <2>1. PICK h : Good(n, h)
    BY <1>3
  <2> DEFINE k == [s \in Small(n + 1) |-> Value(h, s)]
  <2>2. \A s \in Small(n + 1) : s # {} =>
          /\ s \ {c[s]} \in Small(n) /\ c[s] \in S
          /\ h[s \ {c[s]}] \in V
    <3> TAKE s \in Small(n + 1)
    <3> HAVE s # {}
    <3>1. c[s] \in s
      BY DEF Picks
    <3>2. s \ {c[s]} \in Small(n)
      BY <1>1, <3>1
    <3>3. QED
      BY <2>1, <3>1, <3>2
  <2>3. k \in [Small(n + 1) -> V]
    BY <2>2
  <2>4. \A s \in Small(n) : s \in Small(n + 1) /\ k[s] = h[s]
    BY <1>1, <2>1
  <2>5. \A s \in Small(n + 1) : k[s] = Value(k, s)
    <3> TAKE s \in Small(n + 1)
    <3>1. CASE s = {}
      BY <3>1
    <3>2. CASE s # {}
      <4>1. k[s] = g[<<c[s], h[s \ {c[s]}]>>]
        BY <3>2
      <4>2. h[s \ {c[s]}] = k[s \ {c[s]}]
        BY <2>2, <2>4, <3>2
      <4> HIDE DEF k
      <4>3. QED
        BY <3>2, <4>1, <4>2
    <3>3. QED
      BY <3>1, <3>2
  <2> HIDE DEF k
  <2>6. Good(n + 1, k)
    BY <2>3, <2>5
  <2> HIDE DEF Good
  <2>7. QED
    BY <2>6
<1> HIDE DEF N
<1>4. Cardinality(S) \in N
  BY <1>2, <1>3, SetInduction, FS_CardinalityType
<1>5. PICK h : Good(Cardinality(S), h)
  BY <1>4 DEF N
<1>6. Small(Cardinality(S)) = SUBSET S
  BY <1>1
<1>7. QED
  BY <1>5, <1>6 DEF Recursive

-----------------------------------------------------------------------------
(* Sums over a finite set. The function that adds up what f gives to the   *)
(* elements of each subset is the one that MapThenSumSet chooses.          *)

Picked(s) == CHOOSE x \in s : TRUE

Sums(f, S, h) ==
  h = [s \in SUBSET S |-> IF s = {} THEN 0 ELSE f[Picked(s)] + h[s \ {Picked(s)}]]

LEMMA SumsExist ==
  ASSUME NEW S, IsFiniteSet(S), NEW f \in [S -> Nat]
  PROVE  \E h : Sums(f, S, h)
<1> DEFINE c == [s \in SUBSET S |-> Picked(s)]
           g == [p \in S \X Nat |-> f[p[1]] + p[2]]
<1>1. \A s \in SUBSET S : c[s] = Picked(s) /\ (s # {} => c[s] \in s)
  BY DEF Picked
<1>2. g \in [S \X Nat -> Nat] /\ \A x \in S, n \in Nat : g[<<x, n>>] = f[x] + n
  OBVIOUS
<1> HIDE DEF c, g
<1>3. PICK h \in [SUBSET S -> Nat] : Recursive(S, 0, g, c, h)
  <2>1. Picks(S, c)
    BY <1>1 DEF Picks
  <2>2. 0 \in Nat
    OBVIOUS
  <2>3. QED
    BY <1>2, <2>1, <2>2, SubsetRecursion
<1>4. \A s \in SUBSET S :
        h[s] = IF s = {} THEN 0 ELSE f[Picked(s)] + h[s \ {Picked(s)}]
  <2> TAKE s \in SUBSET S
  <2>1. s # {} => Picked(s) \in S /\ h[s \ {Picked(s)}] \in Nat
    BY <1>1
  <2>2. QED
    BY <1>1, <1>2, <1>3, <2>1 DEF Recursive
<1>5. h = [s \in SUBSET S |-> IF s = {} THEN 0 ELSE f[Picked(s)] + h[s \ {Picked(s)}]]
  BY <1>4
<1>6. QED
  BY <1>5 DEF Sums

(* A sum is a number, 0 when every element is, and the elements may be     *)
(* taken away in any order.                                                *)
LEMMA SumsAre ==
  ASSUME NEW S, IsFiniteSet(S), NEW f \in [S -> Nat], NEW h, Sums(f, S, h)
  PROVE  /\ \A s \in SUBSET S : h[s] \in Nat
         /\ h[{}] = 0
         /\ (\A x \in S : f[x] = 0) => h[S] = 0
<1> DEFINE T == {s \in SUBSET S : h[s] \in Nat /\ ((\A x \in S : f[x] = 0) => h[s] = 0)}
<1>1. h[{}] = 0
  BY DEF Sums
<1>2. {} \in T
  BY <1>1
<1>3. ASSUME NEW s \in SUBSET S, s # {}, \A x \in s : s \ {x} \in T
      PROVE  s \in T
  <2>1. Picked(s) \in s
    BY <1>3 DEF Picked
  <2>2. h[s] = f[Picked(s)] + h[s \ {Picked(s)}] /\ f[Picked(s)] \in Nat
    BY <1>3, <2>1 DEF Sums
  <2>3. QED
    BY <1>3, <2>1, <2>2
<1> HIDE DEF T
<1>4. SUBSET S \subseteq T
  BY <1>2, <1>3, SubsetInduction
<1>5. QED
  BY <1>1, <1>4 DEF T

LEMMA SumsTake ==
  ASSUME NEW S, IsFiniteSet(S), NEW f \in [S -> Nat], NEW h, Sums(f, S, h)
  PROVE  \A s \in SUBSET S : \A x \in s : h[s] = f[x] + h[s \ {x}]
<1> DEFINE T == {s \in SUBSET S : \A x \in s : h[s] = f[x] + h[s \ {x}]}
<1>1. \A s \in SUBSET S : h[s] \in Nat
  BY SumsAre
<1>2. {} \in T
  OBVIOUS
<1>3. ASSUME NEW s \in SUBSET S, s # {}, \A x \in s : s \ {x} \in T
      PROVE  s \in T
  <2> DEFINE c == Picked(s)
  <2>1. c \in s /\ h[s] = f[c] + h[s \ {c}] /\ f[c] \in Nat
    BY <1>3 DEF Picked, Sums
  <2> HIDE DEF c
  <2>2. ASSUME NEW x \in s, x # c PROVE h[s] = f[x] + h[s \ {x}]
    <3>1. h[s \ {c}] = f[x] + h[(s \ {c}) \ {x}]
      BY <1>3, <2>1, <2>2
    <3>2. h[s \ {x}] = f[c] + h[(s \ {x}) \ {c}]
      BY <1>3, <2>1, <2>2
    <3>3. (s \ {c}) \ {x} = (s \ {x}) \ {c} /\ (s \ {c}) \ {x} \in SUBSET S
      OBVIOUS
    <3>4. f[x] \in Nat /\ h[(s \ {c}) \ {x}] \in Nat
      BY <1>1, <3>3
    <3>5. QED
      BY <2>1, <3>1, <3>2, <3>3, <3>4
  <2>3. QED
    BY <2>1, <2>2
<1> HIDE DEF T
<1>4. SUBSET S \subseteq T
  BY <1>2, <1>3, SubsetInduction
<1>5. QED
  BY <1>4 DEF T

(* One more for one element is one more for the set, whichever functions   *)
(* add them up.                                                            *)
LEMMA SumsGrow ==
  ASSUME NEW S, IsFiniteSet(S), NEW f \in [S -> Nat], NEW g \in [S -> Nat],
         NEW y, \A x \in S : g[x] = IF x = y THEN f[x] + 1 ELSE f[x],
         NEW h, Sums(f, S, h), NEW k, Sums(g, S, k)
  PROVE  k[S] = IF y \in S THEN h[S] + 1 ELSE h[S]
<1> DEFINE T == {s \in SUBSET S : k[s] = IF y \in s THEN h[s] + 1 ELSE h[s]}
<1>1. \A s \in SUBSET S : h[s] \in Nat
  BY SumsAre
<1>2. {} \in T
  <2>1. h[{}] = 0 /\ k[{}] = 0
    BY SumsAre
  <2>2. QED
    BY <2>1
<1>3. ASSUME NEW s \in SUBSET S, s # {}, \A x \in s : s \ {x} \in T
      PROVE  s \in T
  <2> DEFINE x == Picked(s)
             t == s \ {x}
  <2>1. x \in s /\ h[s] = f[x] + h[t] /\ k[s] = g[x] + k[t]
    BY <1>3 DEF Picked, Sums
  <2>2. /\ t \in T /\ h[t] \in Nat
        /\ f[x] \in Nat /\ g[x] = IF x = y THEN f[x] + 1 ELSE f[x]
        /\ y \in s <=> y = x \/ y \in t
        /\ y \in t => y # x
    BY <1>1, <1>3, <2>1
  <2> HIDE DEF x, t
  <2>3. k[s] = IF y \in s THEN h[s] + 1 ELSE h[s]
    BY <2>1, <2>2
  <2>4. QED
    BY <2>3
<1> HIDE DEF T
<1>4. SUBSET S \subseteq T
  BY <1>2, <1>3, SubsetInduction
<1>5. QED
  BY <1>4 DEF T

(* One element more.                                                       *)
LEMMA SumsExtend ==
  ASSUME NEW S, IsFiniteSet(S), NEW x, x \notin S, NEW U, U = S \cup {x},
         NEW f \in [S -> Nat], NEW g \in [U -> Nat], \A y \in S : g[y] = f[y],
         NEW h, Sums(f, S, h), NEW k, Sums(g, U, k)
  PROVE  k[U] = h[S] + g[x]
<1> DEFINE T == {s \in SUBSET S : k[s] = h[s]}
<1>1. {} \in T
  BY DEF Sums
<1>2. ASSUME NEW s \in SUBSET S, s # {}, \A y \in s : s \ {y} \in T
      PROVE  s \in T
  <2> DEFINE y == Picked(s)
  <2>1. /\ y \in s /\ h[s] = f[y] + h[s \ {y}]
        /\ s \in SUBSET U /\ k[s] = g[y] + k[s \ {y}]
    BY <1>2 DEF Picked, Sums
  <2> HIDE DEF y
  <2>2. QED
    BY <1>2, <2>1
<1> HIDE DEF T
<1>3. SUBSET S \subseteq T
  BY <1>1, <1>2, SubsetInduction
<1>4. k[S] = h[S]
  BY <1>3 DEF T
<1>5. IsFiniteSet(U)
  BY FS_AddElement
<1>6. U \in SUBSET U /\ x \in U /\ U \ {x} = S
  OBVIOUS
<1>7. k[U] = g[x] + k[U \ {x}]
  BY <1>5, <1>6, SumsTake
<1>8. h[S] \in Nat /\ g[x] \in Nat
  BY SumsAre
<1>9. QED
  BY <1>4, <1>6, <1>7, <1>8

(* The total, whatever function adds it up.                                *)
Total(f, S) == (CHOOSE h : Sums(f, S, h))[S]

LEMMA TotalIs ==
  ASSUME NEW S, IsFiniteSet(S), NEW f \in [S -> Nat]
  PROVE  Sums(f, S, CHOOSE h : Sums(f, S, h)) /\ Total(f, S) \in Nat
<1> DEFINE h == CHOOSE h : Sums(f, S, h)
<1>1. Sums(f, S, h)
  BY SumsExist
<1> HIDE DEF h
<1>2. h[S] \in Nat
  BY <1>1, SumsAre
<1>3. QED
  BY <1>1, <1>2 DEF h, Total

LEMMA SumsUnique ==
  ASSUME NEW S, IsFiniteSet(S), NEW f \in [S -> Nat], NEW h, Sums(f, S, h)
  PROVE  h[S] = Total(f, S)
<1> DEFINE k == CHOOSE k : Sums(f, S, k)
           T == {s \in SUBSET S : k[s] = h[s]}
<1>1. Sums(f, S, k)
  BY TotalIs
<1> HIDE DEF k
<1>2. {} \in T
  BY <1>1 DEF Sums
<1>3. ASSUME NEW s \in SUBSET S, s # {}, \A y \in s : s \ {y} \in T
      PROVE  s \in T
  <2> DEFINE y == Picked(s)
  <2>1. y \in s /\ h[s] = f[y] + h[s \ {y}] /\ k[s] = f[y] + k[s \ {y}]
    BY <1>1, <1>3 DEF Picked, Sums
  <2> HIDE DEF y
  <2>2. QED
    BY <1>3, <2>1
<1> HIDE DEF T
<1>4. SUBSET S \subseteq T
  BY <1>2, <1>3, SubsetInduction
<1>5. QED
  BY <1>4 DEF T, Total, k

LEMMA TotalExtend ==
  ASSUME NEW S, IsFiniteSet(S), NEW x, x \notin S, NEW U, U = S \cup {x},
         NEW f \in [S -> Nat], NEW g \in [U -> Nat], \A y \in S : g[y] = f[y]
  PROVE  Total(g, U) = Total(f, S) + g[x]
<1> DEFINE h == CHOOSE h : Sums(f, S, h)
           k == CHOOSE k : Sums(g, U, k)
<1>1. IsFiniteSet(U)
  BY FS_AddElement
<1>2. Sums(f, S, h) /\ Sums(g, U, k)
  BY <1>1, TotalIs
<1> HIDE DEF h, k
<1>3. k[U] = h[S] + g[x]
  BY <1>2, SumsExtend
<1>4. QED
  BY <1>3 DEF Total, h, k

-----------------------------------------------------------------------------
(* Folds over a sequence take the elements of its domain from the last.    *)

LEMMA Greatest ==
  ASSUME NEW n \in Nat, NEW s \in SUBSET (1..n), s # {}
  PROVE  Max(s) \in s /\ \A m \in s : m <= Max(s)
<1> DEFINE T == {n - m : m \in s}
<1>1. T \in SUBSET Nat /\ T # {}
  <2>1. \A m \in 1..n : n - m \in Nat
    OBVIOUS
  <2>2. QED
    BY <2>1
<1> HIDE DEF T
<1>2. PICK t \in T : \A u \in T : t <= u
  BY <1>1, Least
<1>3. PICK x \in s : t = n - x
  BY DEF T
<1>4. \A m \in s : x >= m
  <2> TAKE m \in s
  <2>1. n - m \in T
    BY DEF T
  <2>2. n - x <= n - m
    BY <1>2, <1>3, <2>1
  <2>3. x \in Nat /\ m \in Nat
    OBVIOUS
  <2>4. QED
    BY <2>2, <2>3
<1>5. \A m, k \in s : m >= k => k <= m
  OBVIOUS
<1>6. QED
  BY <1>4, <1>5 DEF Max

LEMMA PrefixSets ==
  ASSUME NEW n \in Nat
  PROVE  /\ 1..0 = {}
         /\ \A k \in 1..n : /\ 1..k \in SUBSET (1..n) /\ 1..k # {}
                            /\ Max(1..k) = k /\ (1..k) \ {k} = 1..(k - 1)
<1>1. ASSUME NEW k \in 1..n
      PROVE  Max(1..k) = k
  <2>1. k \in Nat /\ 1..k \in SUBSET (1..k) /\ k \in 1..k
    OBVIOUS
  <2>2. Max(1..k) \in 1..k /\ k <= Max(1..k)
    BY <2>1, Greatest
  <2>3. QED
    BY <2>2
<1>2. QED
  BY <1>1

Folds(n, base, g, h) ==
  h = [s \in SUBSET (1..n) |-> IF s = {} THEN base ELSE g[<<Max(s), h[s \ {Max(s)}]>>]]

LEMMA FoldExists ==
  ASSUME NEW n \in Nat, NEW V, NEW base \in V, NEW g \in [(1..n) \X V -> V]
  PROVE  \E h \in [SUBSET (1..n) -> V] : Folds(n, base, g, h)
<1> DEFINE c == [s \in SUBSET (1..n) |-> Max(s)]
<1>1. Picks(1..n, c)
  BY Greatest DEF Picks
<1>2. IsFiniteSet(1..n)
  BY FS_Interval
<1>3. \A s \in SUBSET (1..n) : c[s] = Max(s)
  OBVIOUS
<1> HIDE DEF c
<1>4. PICK h \in [SUBSET (1..n) -> V] : Recursive(1..n, base, g, c, h)
  BY <1>1, <1>2, SubsetRecursion
<1>5. \A s \in SUBSET (1..n) :
        h[s] = IF s = {} THEN base ELSE g[<<Max(s), h[s \ {Max(s)}]>>]
  BY <1>3, <1>4 DEF Recursive
<1>6. QED
  BY <1>5 DEF Folds
=============================================================================
